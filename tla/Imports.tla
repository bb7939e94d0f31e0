------------------------------- MODULE Imports -------------------------------
(***************************************************************************)
(* The import loop of the command line program (c/brave_history.c): files  *)
(* of every format are handed to auto_import, which finds a reader for     *)
(* them, and what is read is appended to the one result.                   *)
(*                                                                         *)
(* A file is a list of items written by one of the programs that write     *)
(* such files: a browser ("html": folders, ends of folders, bookmarks),    *)
(* export_csv ("csv"), a spreadsheet ("table": semicolons, no header),     *)
(* export_json ("json") or the extension ("extension").                    *)
(***************************************************************************)
EXTENDS BookmarkImport, CsvImport, JsonImport

CONSTANTS
    Items,          \* Items[format]: the items a file of that format may hold
    FileSuffixes,   \* the suffixes of file names: "html", "csv", "json"
    MaxItems,       \* bound on the items of all files
    MaxEarlier,     \* bound on the items written in files before the last
    Failing         \* may memory run out

VARIABLES
    file,           \* [format, suffix, items, read] the file being written or read
    written,        \* how many items all files have
    result,         \* HistoryResult
    before,         \* its length when the file was read
    memory          \* FALSE once an allocation failed

vars == <<file, written, result, before, memory>>

-----------------------------------------------------------------------------
(* The writers that are not part of src.                                   *)

Encode(text) ==
    FlattenSeq([i \in DOMAIN text |->
        IF \E name \in DOMAIN Entity : Entity[name] = <<text[i]>>
        THEN <<"&", CHOOSE name \in DOMAIN Entity : Entity[name] = <<text[i]>>, ";">>
        ELSE <<text[i]>>])

Attribute(name, text) == <<" ", name, "=", "\"">> \o text \o <<"\"">>

\* The pieces of a bookmark file that a browser writes for an item, with a comment that
\* has a bookmark in it before every folder.
Page(item) ==
    CASE item.kind = "folder" ->
            << <<"!--", " ">>, <<"A">> \o Attribute("HREF", <<"c">>) \o <<">", "-->">>,
               <<"H3", ">">> \o Encode(item.name), <<"/H3", ">">>, <<"DL", ">">> >>
      [] item.kind = "close" -> << <<"/DL", ">">> >>
      [] item.kind = "entry" ->
            << <<"DT", ">">>,
               <<"A">> \o Attribute("HREF", Encode(item.url)) \o Attribute("ADD_DATE", <<item.added>>)
                 \o <<">", " ">> \o Encode(item.title),
               <<"/A", ">">> >>

Pages(items) == FlattenSeq([i \in DOMAIN items |-> Page(items[i])])

TableField(text) ==
    IF ToSet(text) \cap {";", Quote, "\n"} = {} THEN text ELSE <<Quote>> \o Unescape(text) \o <<Quote>>

Table(items) ==
    FlattenSeq([i \in DOMAIN items |->
        TableField(items[i].url) \o <<";">> \o TableField(items[i].title) \o <<";">>
          \o WriteNumber(items[i].visit_count) \o <<";">> \o items[i].last_visit_time \o <<"\n">>])

-----------------------------------------------------------------------------
(* The readers, on a file of any format: nothing if it is not theirs.      *)

ReadHtml(f) ==
    IF f.format = "html" /\ \E i \in DOMAIN f.items : f.items[i].kind \in {"folder", "entry"}
    THEN {Parse(Pages(f.items)).entries} ELSE {}

ReadCsv(f) ==
    CASE f.format = "csv" -> ImportCsv(ExportCsv(f.items))
      [] f.format = "table" -> ImportCsv(Table(f.items))
      [] OTHER -> {}

ReadJson(f) ==
    CASE f.format = "json" -> ImportJson(ExportJson(f.items, IF f.items = <<>> THEN <<>> ELSE f.items[1].title))
      [] f.format = "extension" -> ImportJson(ExportExtension(f.items))
      [] OTHER -> {}

\* auto_import: the suffix says which reader to try first; then JSON is tried, then HTML.
Readers(suffix) ==
    CASE suffix = "html" -> <<"html", "json">>
      [] suffix = "csv"  -> <<"csv", "json", "html">>
      [] OTHER           -> <<"json", "html">>

ReadAs(reader, f) ==
    CASE reader = "html" -> ReadHtml(f) [] reader = "csv" -> ReadCsv(f) [] OTHER -> ReadJson(f)

AutoImport(f) ==
    FoldLeft(LAMBDA read, reader : IF read # {} THEN read ELSE ReadAs(reader, f), {}, Readers(f.suffix))

-----------------------------------------------------------------------------
NoFile == [format |-> "none", suffix |-> "none", items |-> <<>>, read |-> TRUE]

Init ==
    /\ file = NoFile /\ written = 0
    /\ result = <<>> /\ before = 0 /\ memory = TRUE

NewFile ==
    /\ file.read /\ written < MaxItems /\ written <= MaxEarlier
    /\ \E format \in DOMAIN Items :
        file' = [format |-> format, suffix |-> "none", items |-> <<>>, read |-> FALSE]
    /\ UNCHANGED <<written, result, before, memory>>

WriteItem ==
    /\ ~file.read /\ written < MaxItems
    /\ \E item \in Items[file.format] : file' = [file EXCEPT !.items = Append(@, item)]
    /\ written' = written + 1
    /\ UNCHANGED <<result, before, memory>>

Read(suffix) == [file EXCEPT !.suffix = suffix, !.read = TRUE]

\* A file that no reader takes is passed over with a warning.  When the result cannot
\* grow, the reader stops there and reports what it has.
ImportFile ==
    /\ ~file.read
    /\ before' = Len(result)
    /\ \E suffix \in FileSuffixes :
        /\ file' = Read(suffix)
        /\ LET read == AutoImport(Read(suffix))
           IN \/ read = {} /\ UNCHANGED <<result, memory>>
              \/ \E added \in read :
                  \/ result' = result \o added /\ UNCHANGED memory
                  \/ /\ Failing /\ memory /\ memory' = FALSE
                     /\ \E n \in 0 .. Len(added) - 1 : result' = result \o SubSeq(added, 1, n)
    /\ UNCHANGED written

Next == NewFile \/ WriteItem \/ ImportFile

Spec == Init /\ [][Next]_vars
=============================================================================
