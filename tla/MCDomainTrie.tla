---------------------------- MODULE MCDomainTrie ----------------------------
(* Values of the constants of DomainReport that a cfg cannot write.  Every *)
(* label is one character long.                                            *)
EXTENDS DomainReport

com == <<"c">>
org == <<"g">>
a == <<"a">>
b == <<"b">>
A == <<"A">>

SomeParts == {com, org, a, b, A, <<"o">>, <<"u">>, <<"0">>, <<"1">>, <<"8">>, <<"a", ":", ":", "1">>,
              <<"b", "@", "a">>}
InLowerCase == [p \in SomeParts |-> IF p = A THEN a ELSE p]

\* com, a.com, b.com, A..com, a.b.com, b.b.com, org, and one label too many
SomeDomains ==
    {<<com>>, <<a, com>>, <<b, com>>, <<A, Empty, com>>, <<a, b, com>>, <<b, b, com>>,
     <<org>>, <<a, b, com, org>>, <<Empty>>}

NoText == <<>>
SomeCapitals == "A" :> "a" @@ "H" :> "h"
SomeLetters == {"a", "b", "c", "f", "g", "h", "o", "p", "s", "t", "u", "x"}
HexDigits ==
    "0" :> 0 @@ "1" :> 1 @@ "2" :> 2 @@ "3" :> 3 @@ "4" :> 4 @@ "5" :> 5 @@ "6" :> 6 @@ "7" :> 7
      @@ "8" :> 8 @@ "9" :> 9 @@ "a" :> 10 @@ "b" :> 11 @@ "c" :> 12 @@ "e" :> 14 @@ "f" :> 15
SomeCodes == 97 :> "a" @@ 46 :> "." @@ 47 :> "/"
o_u == {<< <<"o">>, <<"u">> >>}

http == <<"h", "t", "t", "p", ":", "/", "/">>
Http == <<"H", "t", "t", "p", ":", "/", "/">>
https == <<"h", "t", "t", "p", "s", ":", "/", "/">>

SomeHosts ==
    (http \o <<"b", ".", "a", ".", "c", "/">>) :> <<b, a, com>>
    \* the default port, dots, slashes, codes
    @@ (Http \o <<"A", ".", "c", ":", "8", "0", "/", ".", "/", "b", "/", "/", ".", ".", "/", "x", "?",
                  "a", "=", "%", "6", "1", "+", "&", "b", "&", "=", "%", "2", "f", "%", "6">>) :> <<a, com>>
    \* user, port, fragment
    @@ (https \o <<"a", ":", "b", "@", "a", ".", "c", ":", "8", "#", "f">>) :> <<a, com>>
    \* relative to the scheme, with a two-part end
    @@ <<"/", "/", "b", ".", "a", ".", "o", ".", "u", "/", "x">> :> <<b, a, <<"o">>, <<"u">> >>
    @@ (http \o <<"a", ".", "o", ".", "u", "?", "x">>) :> <<a, <<"o">>, <<"u">> >>
    \* addresses, and a dot spelt as a code
    @@ (http \o <<"1", ".", "0", ".", "0", ".", "8", "/", "%", "2", "e", "/", "a">>)
            :> << <<"1">>, <<"0">>, <<"0">>, <<"8">> >>
    @@ (http \o <<"[", "a", ":", ":", "1", "]", ":", "8", "/">>) :> << <<"a", ":", ":", "1">> >>
    \* a port that is none, one with too many digits, two users, a scheme that is a host
    @@ (http \o <<"a", ".", "c", ":", "x", "/", "b">>) :> <<a, com>>
    @@ (http \o <<"b", ":", "0", "0", "0", "0", "0", "8", "0", "8", "/">>) :> <<b>>
    @@ (http \o <<"@", "b", "@", "a", ".", "c">>) :> NoText
    @@ <<"a", ".", "c", ":", "8", "/", "x">> :> NoText
    \* more dots than are seen, no host, nothing, too much
    @@ (http \o <<"b", ".", "b", ".", "b", ".", "b", ".", "a", ".", "c">>) :> <<b, b, b, b, a, com>>
    @@ <<"/", "x", ".", "c">> :> NoText
    @@ NoText :> NoText
    @@ [i \in 1..41 |-> "x"] :> NoText
=============================================================================
