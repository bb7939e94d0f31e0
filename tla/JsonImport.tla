----------------------------- MODULE JsonImport -----------------------------
(***************************************************************************)
(* import_extension_json (c/import_ext.c) and export_to_json               *)
(* (c/export_json.c), on files that are sequences of tokens: punctuation,  *)
(* backslashes, white space and words.  Lengths are not modelled.          *)
(***************************************************************************)
EXTENDS Integers, Sequences, FiniteSets, SequencesExt, FiniteSetsExt

JQuote == "\""
JBlank == {" ", ":", "\t", "\n", "\r"}
Escape == "\\"

\* strstr, of a key in quotes: where it ends, 0 if it is nowhere
AfterKey(json, key) ==
    LET at == {i \in DOMAIN json : i + 2 <= Len(json) /\ SubSeq(json, i, i + 2) = <<JQuote, key, JQuote>>}
    IN IF at = {} THEN 0 ELSE Min(at) + 3

Skip(json, i, S) == Min({j \in i .. Len(json) : json[j] \notin S} \cup {Len(json) + 1})

\* Mutant: a backslash is a character like any other.
ReadToQuote(json, start) ==
    SubSeq(json, start, Min({j \in start .. Len(json) : json[j] = JQuote} \cup {Len(json) + 1}) - 1)

\* A string up to its closing quote or the end of the text; of an escape the character
\* after the backslash is kept, a line feed or a tab made of n and t.
ReadString(json, start) ==
    LET from[i \in start .. Len(json) + 2] ==
            IF i > Len(json) \/ json[i] = JQuote THEN <<>>
            ELSE IF json[i] = Escape /\ i < Len(json)
            THEN <<CASE json[i + 1] = "n" -> "\n" [] json[i + 1] = "t" -> "\t" [] OTHER -> json[i + 1]>>
                    \o from[i + 2]
            ELSE <<json[i]>> \o from[i + 1]
    IN from[start]

\* extract_json_string
JsonString(json, key) ==
    LET i == Skip(json, AfterKey(json, key), JBlank)
    IN IF AfterKey(json, key) = 0 \/ i > Len(json) THEN <<>>
       ELSE IF json[i] # JQuote THEN <<>> ELSE ReadString(json, i + 1)

\* extract_json_bool
JsonBool(json, key) ==
    LET i == Skip(json, AfterKey(json, key), {" ", ":", "\t"})
    IN AfterKey(json, key) # 0 /\ i <= Len(json) /\ json[i] = "true"

\* The objects from index start to the end of the array: braces are counted wherever
\* they stand, in strings too.
ObjectEnd(json, open) ==
    LET close[j \in open .. Len(json), depth \in 0 .. Len(json)] ==
            LET d == CASE json[j] = "{" -> depth + 1 [] json[j] = "}" -> depth - 1 [] OTHER -> depth
            IN IF d = 0 \/ j = Len(json) THEN j ELSE close[j + 1, d]
    IN close[open, 0]
Objects(json, start) ==
    LET from[i \in start .. Len(json) + 1] ==
            LET open == Min({j \in i .. Len(json) : json[j] \in {"{", "]"}} \cup {Len(json) + 1})
                end  == ObjectEnd(json, open)
            IN IF open > Len(json) THEN <<>> ELSE IF json[open] = "]" THEN <<>>
               ELSE <<SubSeq(json, open, end)>> \o from[end + 1]
    IN from[start]

EntryOf(object) ==
    LET title == JsonString(object, "title")
        time  == JsonString(object, "last_visit_time")
    IN [url |-> JsonString(object, "url"),
        title |-> IF JsonBool(object, "incognito") /\ title # <<>> THEN <<"[INCOGNITO]", " ">> \o title ELSE title,
        last_visit_time |-> IF time # <<>> THEN time ELSE JsonString(object, "timestamp"),
        visit_count |-> 1, typed_count |-> 0]

\* Nothing if there is no array behind "data".
ImportJson(json) ==
    LET data    == AfterKey(json, "data")
        array   == Skip(json, data, {t \in ToSet(json) : t # "["})
        objects == Objects(json, array + 1)
    IN IF data = 0 \/ array > Len(json) THEN {}
       ELSE {SelectSeq([i \in DOMAIN objects |-> EntryOf(objects[i])], LAMBDA e : e.url # <<>>)}

-----------------------------------------------------------------------------
\* write_json_string
WriteString(text) ==
    <<JQuote>> \o FlattenSeq([i \in DOMAIN text |->
        CASE text[i] \in {JQuote, Escape} -> <<Escape, text[i]>>
          [] text[i] = "\n" -> <<Escape, "n">> [] text[i] = "\r" -> <<Escape, "r">>
          [] text[i] = "\t" -> <<Escape, "t">> [] OTHER -> <<text[i]>>]) \o <<JQuote>>

Member(key, text) == <<JQuote, key, JQuote, ":", " ">> \o WriteString(text)

MembersOf(e) ==
    Member("url", e.url) \o <<",">> \o Member("title", e.title) \o <<",">>
      \o Member("last_visit_time", e.last_visit_time)

\* The array of objects behind "data".
DataArray(objects) ==
    <<JQuote, "data", JQuote, ":", " ", "[">>
      \o FlattenSeq([i \in DOMAIN objects |->
            <<"{">> \o objects[i] \o (IF i < Len(objects) THEN <<"}", ",">> ELSE <<"}">>)])
      \o <<"]", "}">>

\* export_to_json: the statistics, of which one text stands for all, and the entries
ExportJson(entries, most_visited_title) ==
    <<"{">> \o Member("most_visited_title", most_visited_title) \o <<",">>
      \o DataArray([i \in DOMAIN entries |-> MembersOf(entries[i])])

\* handleExportJSON of the extension
ExportExtension(entries) ==
    <<"{">> \o Member("source", <<"incognito-history-tracker-extension">>) \o <<",">>
      \o DataArray([i \in DOMAIN entries |->
            Member("timestamp", entries[i].last_visit_time) \o <<",">>
              \o <<JQuote, "incognito", JQuote, ":", " ", IF entries[i].incognito THEN "true" ELSE "false", ",">>
              \o MembersOf(entries[i])])
=============================================================================
