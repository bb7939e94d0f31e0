---------------------------- MODULE ConfigParser ----------------------------
(***************************************************************************)
(* c/config_parser.c: lines are read one by one; an @include opens another *)
(* file, which a recursive call parses to its end before the next line.    *)
(* What the files contain is not fixed beforehand: as a path is opened at  *)
(* most once, any line of Lines may come next in the file being read.  The *)
(* lengths of lines, keys and paths are not modelled, nor line numbers.    *)
(***************************************************************************)
EXTENDS ConfigText

CONSTANTS
    Lines,          \* the lines a file may contain, as sequences of tokens
    Top,            \* the path given to config_parse
    Schema,         \* what config_validate and config_apply_defaults are given
    MaxSections,    \* CONFIG_MAX_SECTIONS (64)
    MaxKeys,        \* CONFIG_MAX_KEYS (256)
    MaxIncludes,    \* CONFIG_MAX_INCLUDES (8)
    MaxLines        \* bound: how many lines are read in all

ASSUME ParserAssumption ==
    /\ {MaxSections, MaxKeys, MaxIncludes} \subseteq Nat \ {0}
    /\ MaxLines \in Nat
    /\ Lines \subseteq Seq(STRING)
    /\ Schema \in Seq([section : Seq(STRING), key : Seq(STRING), type : STRING,
                        required : BOOLEAN, default : SUBSET Seq(STRING),
                        min : Int, max : Int, enum : SUBSET Seq(STRING)])

VARIABLES
    frames,         \* the calls of parse_buffer_internal, the innermost last
    config,         \* entries, sections and include_paths
    outcome,        \* "parsing", then what config_parse returned: "ok" or "error",
                    \* then what config_validate found: "valid" or "invalid"
    log             \* for the properties: what was done with every line

vars == <<frames, config, outcome, log>>

\* A call: the section it is in, the line continued so far, the log's index of the
\* @include that led to it.
Frame(section, opened) == [section |-> section, partial |-> <<>>, opened |-> opened]

Current == Last(frames)
WithCurrent(frame) == Append(Front(frames), frame)
Logged(what, name, value) ==
    log' = Append(log, [frame |-> Current.opened, what |-> what, name |-> name, value |-> value])

-----------------------------------------------------------------------------
(* One logical line, trimmed: each action is one of the cases the parser   *)
(* tells apart, in its order.                                              *)

IsInclude(line) == Head(line) = "@include"
IsHeader(line)  == Head(line) = "["
IsPair(line)    == ~IsInclude(line) /\ ~IsHeader(line) /\ Contains(line, "=")
IsBlank(line)   == line = <<>> \/ Head(line) \in Comment

Skip(line) ==
    /\ \/ IsBlank(line)
       \/ /\ ~IsBlank(line)
          /\ ~IsInclude(line) /\ ~IsPair(line) /\ (IsHeader(line) => ~Contains(line, "]"))
    /\ frames' = WithCurrent([Current EXCEPT !.partial = <<>>])
    /\ Logged("skip", <<>>, line)
    /\ UNCHANGED <<config, outcome>>

\* Mutant: only the file being read is not included again.
IsIncludingItself(path) == config.include_paths # <<>> /\ Last(config.include_paths) = path

\* is_circular_include
IsCircularInclude(path) == Contains(config.include_paths, path)

MayInclude(path) ==
    path # <<>> /\ ~IsCircularInclude(path) /\ Len(config.include_paths) < MaxIncludes

\* Mutant: the included file starts outside any section.
OpenAtTop(section, opened) == Frame(<<>>, opened)

\* The recursive call starts in the section of the line that includes the file.
OpenIn(section, opened) == Frame(section, opened)

\* A file that is missing, empty or too large is not parsed, but remembered.
Include(line) ==
    /\ ~IsBlank(line) /\ IsInclude(line)
    /\ LET path == StripQuotes(TrimWhitespace(Tail(line)))
           here == WithCurrent([Current EXCEPT !.partial = <<>>])
       IN /\ config' = IF MayInclude(path) THEN [config EXCEPT !.include_paths = Append(@, path)]
                       ELSE config
          /\ \/ frames' = here
             \/ /\ MayInclude(path)
                /\ frames' = Append(here, OpenIn(Current.section, Len(log) + 1))
    /\ Logged("include", <<>>, line)
    /\ UNCHANGED outcome

Header(line) ==
    /\ ~IsBlank(line) /\ IsHeader(line) /\ Contains(line, "]")
    /\ LET section == TrimWhitespace(Tail(Before(line, {"]"})))
       IN /\ frames' = WithCurrent([Current EXCEPT !.partial = <<>>, !.section = section])
          /\ config' = IF Contains(config.sections, section)
                            \/ Len(config.sections) >= MaxSections
                       THEN config
                       ELSE [config EXCEPT !.sections = Append(@, section)]
          /\ Logged("section", section, line)
    /\ UNCHANGED outcome

\* Key and value of a pair.
KeyOf(line)   == TrimWhitespace(Before(line, {"="}))
ValueOf(line) ==
    LET raw == SubSeq(line, Len(Before(line, {"="})) + 2, Len(line))
    IN StripQuotes(TrimWhitespace(StripComment(TrimWhitespace(raw))))

\* A call returns; the caller ignores what an included file returned.
Return(rc) ==
    /\ frames' = Front(frames)
    /\ outcome' = IF Len(frames) = 1 THEN rc ELSE outcome

HasRoom == Len(config.entries) < MaxKeys

Pair(line) ==
    /\ ~IsBlank(line) /\ IsPair(line)
    /\ IF HasRoom
       THEN /\ config' = [config EXCEPT !.entries =
                            Append(@, Entry(Current.section, KeyOf(line), ValueOf(line)))]
            /\ frames' = WithCurrent([Current EXCEPT !.partial = <<>>])
            /\ Logged("pair", KeyOf(line), line)
            /\ UNCHANGED outcome
       ELSE /\ Return("error")
            /\ Logged("refused", KeyOf(line), line)
            /\ UNCHANGED config

\* A line that ends with a backslash is kept, its backslash a space, for the next one.
ReadLine(text) ==
    LET joined == Current.partial \o text
        line   == TrimWhitespace(joined)
    IN /\ outcome = "parsing" /\ Len(log) < MaxLines
       /\ IF joined # <<>> /\ Last(joined) = Backslash
          THEN /\ frames' = WithCurrent([Current EXCEPT !.partial = Append(Front(joined), Space)])
               /\ Logged("partial", <<>>, text)
               /\ UNCHANGED <<config, outcome>>
          ELSE Skip(line) \/ Include(line) \/ Header(line) \/ Pair(line)

\* What was continued beyond the last line is dropped.
EndOfFile ==
    /\ outcome = "parsing"
    /\ Return("ok")
    /\ UNCHANGED <<config, log>>

-----------------------------------------------------------------------------
(* Lookups, validation and defaults.                                       *)

\* Mutant: the last entry wins.
FindLastEntry(entries, section, key) ==
    SelectLastInSeq(entries, LAMBDA e : e.section = section /\ e.key = key)

\* find_entry: the index of the first, 0 if there is none
FindEntry(entries, section, key) ==
    SelectInSeq(entries, LAMBDA e : e.section = section /\ e.key = key)

Satisfies(e, item) ==
    /\ item.type \in {"string", e.type}
    /\ e.type = "int" /\ (item.min # 0 \/ item.max # 0) => e.int_value \in item.min .. item.max
    /\ item.enum # {} => e.value \in item.enum

\* config_validate returns 0.
Validates(entries) ==
    \A i \in DOMAIN Schema :
        LET found == FindEntry(entries, Schema[i].section, Schema[i].key)
        IN IF found = 0 THEN ~Schema[i].required ELSE Satisfies(entries[found], Schema[i])

\* config_apply_defaults
WithDefaults(entries) ==
    FoldLeft(LAMBDA es, item :
                IF Len(es) >= MaxKeys \/ item.default = {}
                     \/ FindEntry(es, item.section, item.key) # 0
                THEN es
                ELSE Append(es, DefaultEntry(item.section, item.key,
                                    CHOOSE d \in item.default : TRUE)),
             entries, Schema)

\* A caller validates what was parsed and then fills in the defaults.
Complete ==
    /\ outcome \in {"ok", "error"}
    /\ outcome' = IF Validates(config.entries) THEN "valid" ELSE "invalid"
    /\ config' = [config EXCEPT !.entries = WithDefaults(@)]
    /\ UNCHANGED <<frames, log>>

-----------------------------------------------------------------------------
Init ==
    /\ frames = <<Frame(<<>>, 0)>>
    /\ config = [entries |-> <<>>, sections |-> <<>>, include_paths |-> <<Top>>]
    /\ outcome = "parsing"
    /\ log = <<>>

Next ==
    \/ \E text \in Lines : ReadLine(text)
    \/ EndOfFile
    \/ Complete

Spec == Init /\ [][Next]_vars
=============================================================================
