------------------------------- MODULE UrlText -------------------------------
(***************************************************************************)
(* The comparisons of texts that the search engine and the categories      *)
(* share.  A text is a sequence of characters; "://" is one of them.       *)
(***************************************************************************)
EXTENDS Integers, Sequences, FiniteSets, SequencesExt, FiniteSetsExt

CONSTANT Capital    \* Capital[c]: the small letter of the capital letter c

Lower(text) == [i \in DOMAIN text |-> IF text[i] \in DOMAIN Capital THEN Capital[text[i]] ELSE text[i]]

\* strcasecmp
SameText(a, b) == Lower(a) = Lower(b)

\* search_strcasestr: the empty needle is found everywhere
Found(needle, text) ==
    \E i \in 0 .. Len(text) - Len(needle) :
        SameText(SubSeq(text, i + 1, i + Len(needle)), needle)

Starts(text, with) == Len(text) >= Len(with) /\ SameText(SubSeq(text, 1, Len(with)), with)
Ends(text, with) ==
    Len(text) >= Len(with) /\ SameText(SubSeq(text, Len(text) - Len(with) + 1, Len(text)), with)

\* The text in front of the first character of S.
Until(text, S) ==
    LET at == {i \in DOMAIN text : text[i] \in S}
    IN IF at = {} THEN text ELSE SubSeq(text, 1, Min(at) - 1)

\* The text behind the first character of S, if it has one, else the text.
Behind(text, S) ==
    LET at == {i \in DOMAIN text : text[i] \in S}
    IN IF at = {} THEN text ELSE SubSeq(text, Min(at) + 1, Len(text))

AfterScheme(url) == Behind(url, {"://"})
=============================================================================
