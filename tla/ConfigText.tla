----------------------------- MODULE ConfigText -----------------------------
(***************************************************************************)
(* What c/config_parser.c does with the text of one value.  A text is a    *)
(* sequence of tokens: white space, punctuation, digits, and words whose   *)
(* letters do not matter.  A reference ${NAME} is one token; what it stands *)
(* for is given by Env.                                                    *)
(***************************************************************************)
EXTENDS Integers, Sequences, SequencesExt, FiniteSetsExt, TLC

CONSTANTS
    Env,            \* Env[reference]: the text getenv returns, of the variables that are set
    References,     \* the tokens ${NAME}
    MaxValueLen     \* CONFIG_MAX_VALUE_LEN - 1, in tokens

ASSUME TextAssumption ==
    /\ DOMAIN Env \subseteq References
    /\ MaxValueLen \in Nat \ {0}

Space     == " "
Backslash == "\\"
Quotes    == {"\"", "'"}
Comment   == {"#", ";"}
Digit     == ("0" :> 0 @@ "1" :> 1 @@ "2" :> 2 @@ "3" :> 3 @@ "4" :> 4 @@
              "5" :> 5 @@ "6" :> 6 @@ "7" :> 7 @@ "8" :> 8 @@ "9" :> 9)
TrueWords  == {"true", "yes", "on", "1"}
FalseWords == {"false", "no", "off", "0"}

\* The first n tokens, as strncpy keeps them.
Cut(text, n) == SubSeq(text, 1, IF Len(text) > n THEN n ELSE Len(text))

\* The text in front of the first token of S.
Before(text, S) ==
    LET i == SelectInSeq(text, LAMBDA t : t \in S)
    IN IF i = 0 THEN text ELSE SubSeq(text, 1, i - 1)

TrimWhitespace(text) ==
    LET solid == {i \in DOMAIN text : text[i] # Space}
    IN IF solid = {} THEN <<>> ELSE SubSeq(text, Min(solid), Max(solid))

StripQuotes(text) ==
    IF Len(text) >= 2 /\ Head(text) \in Quotes /\ Last(text) = Head(text)
    THEN Tail(Front(text)) ELSE text

\* Mutant: a comment sign ends the value inside quotes too.
StripAnyComment(text) == Before(text, Comment)

\* Either sign of quotation opens what either closes.
StripComment(text) ==
    LET quotes(i) == Cardinality({j \in 1..i : text[j] \in Quotes})
        ends == {i \in DOMAIN text : text[i] \in Comment /\ quotes(i) % 2 = 0}
    IN IF ends = {} THEN text ELSE SubSeq(text, 1, Min(ends) - 1)

\* config_expand_env: a variable that is not set is nothing.
ExpandEnv(text) ==
    Cut(FlattenSeq([i \in DOMAIN text |->
            IF text[i] \in DOMAIN Env THEN Env[text[i]]
            ELSE IF text[i] \in References THEN <<>> ELSE <<text[i]>>]), MaxValueLen)

ParseBool(text) == text \in {<<w>> : w \in TrueWords}

DetectType(text) ==
    LET unsigned == IF text # <<>> /\ Head(text) \in {"-", "+"} THEN Tail(text) ELSE text
        dots     == {i \in DOMAIN unsigned : unsigned[i] = "."}
        digits   == {i \in DOMAIN unsigned : unsigned[i] \in DOMAIN Digit}
    IN IF text \in {<<w>> : w \in TrueWords \cup FalseWords} THEN "bool"
       ELSE IF Contains(text, ",") /\ ~Contains(text, Space) THEN "array"
       ELSE IF dots \cup digits = DOMAIN unsigned /\ Cardinality(dots) <= 1 /\ digits # {}
            THEN IF dots = {} THEN "int" ELSE "float"
       ELSE "string"

\* atoi, and the whole part of atof; the numbers are short
Atoi(text) ==
    LET unsigned == IF text # <<>> /\ Head(text) \in {"-", "+"} THEN Tail(text) ELSE text
        other    == SelectInSeq(unsigned, LAMBDA t : t \notin DOMAIN Digit)
        digits   == IF other = 0 THEN unsigned ELSE SubSeq(unsigned, 1, other - 1)
        value    == FoldLeft(LAMBDA n, d : 10 * n + Digit[d], 0, digits)
    IN IF text # <<>> /\ Head(text) = "-" THEN -value ELSE value

\* expanded_value of an entry: raw_value holds as much of the text as there is room for.
ExpandedValue(raw) == ExpandEnv(Cut(raw, MaxValueLen))

\* The entry made of a value: coerced as its type says.
Entry(section, key, raw) ==
    LET value == ExpandedValue(raw)
        type  == DetectType(value)
    IN [section |-> section, key |-> key, value |-> value, type |-> type,
        bool_value |-> type = "bool" /\ ParseBool(value),
        int_value |-> CASE type \in {"int", "float"} -> Atoi(value)
                        [] type = "bool" -> IF ParseBool(value) THEN 1 ELSE 0
                        [] OTHER -> 0]

\* The entry made of a default: only an int sets int_value, and nothing is expanded.
DefaultEntry(section, key, value) ==
    LET type == DetectType(value)
    IN [section |-> section, key |-> key, value |-> Cut(value, MaxValueLen), type |-> type,
        bool_value |-> type = "bool" /\ ParseBool(value),
        int_value |-> IF type = "int" THEN Atoi(value) ELSE 0]

\* config_get_int and config_get_bool, of an entry that is there
GetInt(e)  == IF e.type \in {"int", "float"} THEN e.int_value ELSE Atoi(e.value)
GetBool(e) == IF e.type = "bool" THEN e.bool_value ELSE ParseBool(e.value)
=============================================================================
