----------------------- MODULE ConfigParserProperties -----------------------
(* What config_parse makes of the files it reads (ConfigParser.tla).       *)
EXTENDS ConfigParser

\* The variables keep their types, and config its three limits.
TypeOK ==
    /\ outcome \in {"parsing", "ok", "error", "valid", "invalid"}
    /\ (outcome = "parsing") = (frames # <<>>)
    /\ Len(config.entries) <= MaxKeys
    /\ Len(config.sections) <= MaxSections /\ IsInjective(config.sections)
    /\ Len(config.include_paths) <= MaxIncludes
    /\ \A i \in DOMAIN config.entries :
        config.entries[i].type \in {"string", "int", "float", "bool", "array"}

-----------------------------------------------------------------------------
\* The section a line is in, from the lines alone: the last header above it in its own
\* file, or else the section of the line that included the file.
SectionOf ==
    LET Of[i \in DOMAIN log] ==
            LET above == {j \in 1 .. i - 1 : log[j].frame = log[i].frame /\ log[j].what = "section"}
            IN IF above # {} THEN log[Max(above)].name
               ELSE IF log[i].frame = 0 THEN <<>> ELSE Of[log[i].frame]
    IN Of

Pairs == {i \in DOMAIN log : log[i].what = "pair"}

\* The entry that the pair of the log at i should have made.
RankOf(i)  == Cardinality({j \in Pairs : j <= i})
EntryOf(i) == config.entries[RankOf(i)]

\* The value of a line "key=<quote>text<quote>", with or without a comment, and where its
\* quotes close: at the next sign of the kind that opens them.
InQuotes(line) ==
    LET value == TrimWhitespace(SubSeq(line, Len(Before(line, {"="})) + 2, Len(line)))
        same  == {i \in 2 .. Len(value) : value[i] = Head(value)}
    IN IF value = <<>> \/ Head(value) \notin Quotes \/ same = {} THEN {}
       ELSE LET rest == TrimWhitespace(SubSeq(value, Min(same) + 1, Len(value)))
            IN IF rest = <<>> \/ Head(rest) \in Comment
               THEN {[value |-> value, close |-> Min(same)]} ELSE {}

\* The text in the quotes.
Body(q) == SubSeq(q.value, 2, q.close - 1)

\* In front of every comment sign, in the quotes or behind them, the quotes hold an even
\* number of quotation signs of the other kind.
Paired(q) ==
    LET others(i) == Cardinality({j \in 2 .. i : q.value[j] \in Quotes \ {Head(q.value)}})
    IN /\ \A i \in 2 .. q.close : q.value[i] \in Comment => others(i) % 2 = 0
       /\ q.close < Len(q.value) => others(q.close) % 2 = 0

\* EachFileOnce: however files include one another, none is opened twice, so parsing
\* ends and the calls are never nested deeper than the files it may open
\* (config_parser.c:173-180, 268-300); and no table of config outgrows its limit.
EachFileOnce ==
    /\ TypeOK
    /\ IsInjective(config.include_paths)
    /\ Len(frames) <= Len(config.include_paths)

\* InItsSection: every pair is stored once, in the order of the lines, in the section its
\* own file puts it in: headers of an included file do not reach past its end, and an
\* included file continues the section it is included in (config_parser.c:189-197, 291).
InItsSection ==
    outcome \notin {"valid", "invalid"} =>
        /\ Len(config.entries) = Cardinality(Pairs)
        /\ \A i \in Pairs :
            /\ EntryOf(i).section = SectionOf[i]
            /\ EntryOf(i).key = log[i].name

\* QuotedIsKept: what stands in quotes is the value, comment signs, spaces and all, as far
\* as it has room and before variables are expanded, when signs of quotation of the other
\* kind come in pairs in front of every comment sign (config_parser.c:348-358, 373).
QuotedIsKept ==
    outcome \notin {"valid", "invalid"} =>
        \A i \in Pairs : \A q \in InQuotes(log[i].value) :
            Paired(q) => EntryOf(i).value = ExpandedValue(Body(q))

\* The defaults of the schema are what its items for the same key allow.
SoundDefaults ==
    \A i, j \in DOMAIN Schema :
        /\ Schema[i].section = Schema[j].section /\ Schema[i].key = Schema[j].key
        /\ Schema[j].default # {}
        => Satisfies(DefaultEntry(Schema[j].section, Schema[j].key,
                                  CHOOSE d \in Schema[j].default : TRUE), Schema[i])

\* ValidatedReads: once a configuration is found valid and the defaults are filled in, it
\* is still valid: an integer with a range in the schema reads as a number in it, and a value
\* as the first one written, if any is written; without one a default is found, unless there
\* is no room for it; "Only fills in values that are not already set" (config_parser.h:134).
ValidatedReads ==
    outcome = "valid" =>
        /\ Validates(config.entries)
        /\ \A i \in DOMAIN Schema :
            LET item    == Schema[i]
                found   == FindEntry(config.entries, item.section, item.key)
                written == {j \in Pairs : SectionOf[j] = item.section /\ log[j].name = item.key}
            IN /\ item.type = "int" /\ (item.min # 0 \/ item.max # 0) /\ found # 0 =>
                    GetInt(config.entries[found]) \in item.min .. item.max
               /\ item.default # {} /\ Len(config.entries) < MaxKeys => found # 0
               /\ written # {} =>
                    config.entries[found].value = ExpandedValue(ValueOf(log[Min(written)].value))
=============================================================================
