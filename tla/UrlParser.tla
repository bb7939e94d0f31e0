------------------------------ MODULE UrlParser ------------------------------
(***************************************************************************)
(* URLs taken apart, brought into a normal form and written again          *)
(* (c/url_parser.c).  A text is a sequence of characters, here with ":" and*)
(* "/" apart; a domain is the sequence of the labels between its dots.     *)
(* Texts are short enough for every buffer but those whose limit is a      *)
(* constant.                                                               *)
(***************************************************************************)
EXTENDS UrlText, TLC

CONSTANTS
    SmallLetter,    \* the small letters
    HexValue,       \* HexValue[c]: what the character c is worth in base 16
    CharOf,         \* CharOf[n]: the character with the code n, for the codes in use
    TwoPartTlds,    \* "co.uk" and the like, as domains
    MaxUrl,         \* characters of a URL (16384)
    MaxScheme,      \* URL_MAX_SCHEME (32)
    MaxPort,        \* URL_MAX_PORT (8)
    MaxPortNumber,  \* 65535
    MaxSegments,    \* segments of a path that are kept (255)
    MaxParams,      \* URL_MAX_PARAMS (64)
    MaxDots         \* dots of a host that are seen (32)

Letter == SmallLetter \cup DOMAIN Capital
Digit == {"0", "1", "2", "3", "4", "5", "6", "7", "8", "9"}

\* is_unreserved
Unreserved == Letter \cup Digit \cup {"-", ".", "_", "~"}

\* The text from the first character of S on.
From(text, S) == SubSeq(text, Len(Until(text, S)) + 1, Len(text))

\* What stands between the characters c of a text.
Fields(text, c) ==
    FoldLeft(LAMBDA fields, x : IF x = c THEN Append(fields, <<>>)
                                ELSE [fields EXCEPT ![Len(fields)] = Append(@, x)],
             <<<<>>>>, text)

\* The same without the empty ones (strtok_r).
Tokens(text, c) == SelectSeq(Fields(text, c), LAMBDA f : f # <<>>)

Joined(fields, c) ==
    FlattenSeq([i \in DOMAIN fields |-> IF i = 1 THEN fields[i] ELSE <<c>> \o fields[i]])

\* strtol
Number(digits) == FoldLeft(LAMBDA n, d : 10 * n + HexValue[d], 0, digits)

-----------------------------------------------------------------------------
(* Percent codes.  "%" is no digit, so no two codes share a character.     *)

IsCode(text, i) ==
    /\ text[i] = "%" /\ i + 2 <= Len(text)
    /\ {text[i + 1], text[i + 2]} \subseteq DOMAIN HexValue
CodeAt(text, i) == 16 * HexValue[text[i + 1]] + HexValue[text[i + 2]]

\* The text with the codes at the places in `codes` replaced by their characters.
Decoded(text, codes) ==
    FlattenSeq([i \in DOMAIN text |->
        IF i \in codes THEN <<CharOf[CodeAt(text, i)]>>
        ELSE IF {i - 1, i - 2} \cap codes # {} THEN <<>> ELSE <<text[i]>>])

\* decode_unreserved_percent
DecodeUnreserved(text) ==
    Decoded(text, {i \in DOMAIN text : /\ IsCode(text, i)
                                       /\ CodeAt(text, i) \in DOMAIN CharOf
                                       /\ CharOf[CodeAt(text, i)] \in Unreserved})

\* url_percent_decode, in place: at a wrong code it stops, and behind what it has
\* written the text stays what it was.
PercentDecode(text, plusAsSpace) ==
    LET codes == {i \in DOMAIN text : text[i] = "%"}
        wrong == {i \in codes : ~IsCode(text, i)} \cup {i \in codes : IsCode(text, i) /\ CodeAt(text, i) = 0}
        good  == IF wrong = {} THEN text ELSE SubSeq(text, 1, Min(wrong) - 1)
        plain == Decoded([i \in DOMAIN good |->
                            IF plusAsSpace /\ good[i] = "+" THEN " " ELSE good[i]],
                         codes \cap DOMAIN good)
    IN IF wrong = {} THEN plain ELSE plain \o SubSeq(text, Len(plain) + 1, Len(text))

-----------------------------------------------------------------------------
(* url_parse                                                               *)

\* extract_scheme: the length of the scheme, 0 if there is none
SchemeLength(text) ==
    LET ofScheme(i) == text[i] \in Letter \/ (i > 1 /\ text[i] \in Digit \cup {"+", "-", "."})
        n == Min({i \in 0 .. Len(text) : i = Len(text) \/ ~ofScheme(i + 1)})
    IN IF n < MaxScheme - 1 /\ n < Len(text) /\ text[n + 1] = ":" THEN n ELSE 0

\* parse_ipv4
IsIpv4(host) ==
    LET parts == Fields(host, ".")
    IN /\ Len(parts) = 4
       /\ \A i \in 1..4 : parts[i] # <<>> /\ ToSet(parts[i]) \subseteq Digit /\ Number(parts[i]) <= 255

\* detect_ipv6_bracket
IsIpv6(host) ==
    /\ host # <<>> /\ host[1] = "[" /\ "]" \in ToSet(host)
    /\ ToSet(Tail(Until(host, {"]"}))) \subseteq DOMAIN HexValue \cup {":", "."}

HostOf(text) ==
    IF text = <<>> \/ text[1] # "[" THEN Until(text, {":"})
    ELSE IF "]" \in ToSet(text) THEN Append(Until(text, {"]"}), "]") ELSE text

\* The digits of a port behind a host, as many as are read.
PortOf(text) ==
    LET rest == IF text # <<>> /\ text[1] = ":" THEN Tail(text) ELSE <<>>
        n    == Min({i \in 0 .. Len(rest) : i = Len(rest) \/ rest[i + 1] \notin Digit})
    IN SubSeq(rest, 1, Min({n, MaxPort - 1}))

\* parse_authority; what it leaves of the authority begins the path.
ParseAuthority(text) ==
    LET behind == Behind(text, {"@"})
        host   == HostOf(behind)
        rest   == SubSeq(behind, Len(host) + 1, Len(behind))
        port   == PortOf(rest)
    IN [userinfo |-> IF "@" \in ToSet(text) THEN Until(text, {"@"}) ELSE <<>>,
        host |-> host,
        port |-> IF port # <<>> /\ Number(port) \in 1 .. MaxPortNumber THEN Number(port) ELSE -1,
        left |-> IF rest # <<>> /\ rest[1] = ":" THEN SubSeq(rest, Len(port) + 2, Len(rest)) ELSE rest]

Slashes(text) == Len(text) >= 2 /\ SubSeq(text, 1, 2) = <<"/", "/">>

\* A URL with a scheme or "//" in front, its authority, and all behind that.
WithAuthority(scheme, text) ==
    LET authority == ParseAuthority(Until(text, {"/", "?", "#"}))
        behind    == authority.left \o From(text, {"/", "?", "#"})
        tail      == From(behind, {"?", "#"})
    IN [scheme |-> Lower(scheme), userinfo |-> authority.userinfo, host |-> authority.host,
        port |-> authority.port, path |-> Until(behind, {"?", "#"}),
        query |-> IF tail # <<>> /\ tail[1] = "?" THEN Until(Tail(tail), {"#"}) ELSE <<>>,
        fragment |-> Behind(From(tail, {"#"}), {"#"}), params |-> <<>>,
        is_ipv6 |-> IsIpv6(authority.host),
        is_ipv4 |-> ~IsIpv6(authority.host) /\ IsIpv4(authority.host)]

BarePath(text) ==
    [scheme |-> <<>>, userinfo |-> <<>>, host |-> <<>>, port |-> -1, path |-> text,
     query |-> <<>>, fragment |-> <<>>, params |-> <<>>, is_ipv6 |-> FALSE, is_ipv4 |-> FALSE]

\* url_parse; nothing if it fails
Parsed(text) ==
    LET n      == SchemeLength(text)
        behind == SubSeq(text, n + 2, Len(text))
    IN IF Len(text) \notin 1 .. MaxUrl THEN {}
       ELSE IF n > 0 THEN {WithAuthority(SubSeq(text, 1, n),
                              IF Slashes(behind) THEN SubSeq(behind, 3, Len(behind)) ELSE behind)}
       ELSE IF Slashes(text) THEN {WithAuthority(<<>>, SubSeq(text, 3, Len(text)))}
       ELSE {BarePath(text)}

-----------------------------------------------------------------------------
(* url_normalize                                                           *)

DefaultPort ==
    <<"h", "t", "t", "p">> :> 80 @@ <<"h", "t", "t", "p", "s">> :> 443 @@ <<"f", "t", "p">> :> 21

IsDefault(port, scheme) == scheme \in DOMAIN DefaultPort /\ port = DefaultPort[scheme]

\* normalize_path_segments
Resolved(path) ==
    LET Take(stack, segment) ==
            IF Len(stack) >= MaxSegments \/ segment = <<".">> THEN stack
            ELSE IF segment # <<".", ".">> THEN Append(stack, segment)
            ELSE IF stack = <<>> THEN stack ELSE Front(stack)
    IN (IF path[1] = "/" THEN <<"/">> ELSE <<>>)
         \o Joined(FoldLeft(Take, <<>>, Tokens(path, "/")), "/")

Normalized(url) ==
    [url EXCEPT !.scheme = Lower(@), !.host = Lower(@),
                !.port = IF IsDefault(@, Lower(url.scheme)) THEN -1 ELSE @,
                !.path = IF @ # <<>> THEN DecodeUnreserved(Resolved(@))
                         ELSE IF url.host # <<>> THEN <<"/">> ELSE <<>>,
                !.query = DecodeUnreserved(@)]

-----------------------------------------------------------------------------
\* url_parse_query_params
WithParams(url) ==
    LET pairs == Tokens(url.query, "&")
        Param(pair) ==
            [key   |-> PercentDecode(Until(pair, {"="}), TRUE),
             value |-> IF "=" \in ToSet(pair) THEN PercentDecode(Behind(pair, {"="}), TRUE) ELSE <<>>]
    IN [url EXCEPT !.params =
            [i \in 1 .. Min({Len(pairs), MaxParams}) |-> Param(pairs[i])]]

\* url_extract_domain: full_host
FullHost(url) ==
    IF url.host # <<>> /\ url.host[1] = "["
    THEN Fields(IF "]" \in ToSet(url.host) THEN Tail(Until(url.host, {"]"})) ELSE url.host, ".")
    ELSE Fields(Lower(url.host), ".")

\* Mutant: "co.uk" counts as a domain.
LastTwoLabels(url) ==
    LET host == FullHost(url)
    IN IF Len(host) > 2 /\ ~IsIpv4(Joined(host, ".")) THEN SubSeq(host, Len(host) - 1, Len(host)) ELSE host

\* url_extract_domain: registrable_domain.  After(k) is what stands behind the dot k.
Registrable(url) ==
    LET host      == FullHost(url)
        dots      == Min({Len(host) - 1, MaxDots})
        After(k)  == SubSeq(host, k + 1, Len(host))
        isTwoPart == dots >= 2 /\ After(dots - 1) \in TwoPartTlds
    IN IF url.host = <<>> THEN <<<<>>>>
       ELSE IF url.host[1] = "[" \/ IsIpv4(Joined(host, ".")) THEN host
       ELSE IF isTwoPart /\ dots >= 3 THEN After(dots - 2)
       ELSE IF ~isTwoPart /\ dots >= 2 THEN After(dots - 1)
       ELSE host

\* The digits of a number below 100000.
Digits(n) ==
    LET digit(i) == CHOOSE d \in Digit : HexValue[d] = (n \div 10 ^ i) % 10
        places   == Max({i \in 0..4 : i = 0 \/ n >= 10 ^ i})
    IN [i \in 1 .. places + 1 |-> digit(places + 1 - i)]

\* url_reconstruct
Reconstruct(url) ==
    (IF url.scheme # <<>> THEN url.scheme \o <<":", "/", "/">> ELSE <<>>)
      \o (IF url.userinfo # <<>> THEN Append(url.userinfo, "@") ELSE <<>>)
      \o url.host
      \o (IF url.port > 0 THEN <<":">> \o Digits(url.port) ELSE <<>>)
      \o url.path
      \o (IF url.query # <<>> THEN <<"?">> \o url.query ELSE <<>>)
      \o (IF url.fragment # <<>> THEN <<"#">> \o url.fragment ELSE <<>>)
=============================================================================
