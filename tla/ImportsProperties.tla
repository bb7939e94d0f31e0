-------------------------- MODULE ImportsProperties --------------------------
(* What the imports of the command line program promise.                   *)
EXTENDS Imports

-----------------------------------------------------------------------------
(* What was written, read off the items.                                   *)

Added == SubSeq(result, before + 1, Len(result))

\* The result has all of the expected entries, or as many as there was memory for.
AddsJust(expected) ==
    /\ IsPrefix(Added, expected)
    /\ memory => Added = expected

\* The lists of a bookmark file that are open at its i-th item.
Level(items, i, j) ==
    Cardinality({k \in i .. j : items[k].kind = "folder"}) - Cardinality({k \in i .. j : items[k].kind = "close"})
Around(items, i) ==
    {j \in 1 .. i : items[j].kind = "folder" /\ \A k \in j .. i : Level(items, j, k) > 0}
WellNested(items) == \A i \in DOMAIN items : Level(items, 1, i) >= 0

FolderOf(items, i) == IF Around(items, i) = {} THEN <<>> ELSE items[Max(Around(items, i))].name

Bookmarks(items) ==
    LET at == SelectSeq([i \in DOMAIN items |-> i], LAMBDA i : items[i].kind = "entry")
    IN [n \in DOMAIN at |->
          LET e == items[at[n]]
          IN [url |-> e.url, title |-> TitleIn(FolderOf(items, at[n]), e.title),
              last_visit_time |-> e.when, visit_count |-> 1, typed_count |-> 0]]

\* In every folder the bookmarks come before the folders in it.
BookmarksFirst(items) ==
    \A i \in DOMAIN items :
        (items[i].kind = "entry" /\ Around(items, i) # {}) =>
            \A k \in Max(Around(items, i)) + 1 .. i : items[k].kind # "folder"

\* A text that reads the same when it is decoded again.
SingleDecode(text) == DecodeEntities(text) = text

-----------------------------------------------------------------------------
(* Properties.                                                             *)

\* Entries are complete, and the folder stack is never used past its end, however deep
\* the lists are nested (folder_stack of import_bookmarks_html_buffer).
TypeOK ==
    /\ before \in 0 .. Len(result) /\ memory \in BOOLEAN
    /\ \A i \in DOMAIN result : result[i].url # <<>> /\ result[i].visit_count >= 1
    /\ (file.format = "html" /\ ~file.read) =>
          LET h == Parse(Pages(file.items))
          IN h.folder_depth \in 0 .. MaxDepth /\ DOMAIN h.folder_stack = 1 .. MaxDepth

\* BookmarksAsWritten: a browser's bookmarks come back with the names, addresses and times they had, in their
\* order, each under the folder it is in, also when lists nest deeper than the stack, as
\* long as folders list their bookmarks first (import_bookmarks_html_buffer).
BookmarksAsWritten ==
  /\ TypeOK
  /\ (/\ file.format = "html" /\ file.read /\ WellNested(file.items) /\ BookmarksFirst(file.items)
      /\ \A i \in DOMAIN file.items : file.items[i].kind = "entry" => SingleDecode(file.items[i].title))
        => AddsJust(Bookmarks(file.items))

\* A date that can be read in one order only.
Clear(date) == date.lead > 12 \/ date.second > 12
InOrderOf(first, date) ==
    IF first.lead > 12 THEN <<"month and day", date.second, date.lead>>
                       ELSE <<"month and day", date.lead, date.second>>
TableEntry(items, i) ==
    [items[i] EXCEPT !.last_visit_time =
        InOrderOf(Date[items[1].last_visit_time[1]], Date[items[i].last_visit_time[1]])]

\* TablesAsWritten: what export_csv wrote comes back as it was, quotes, delimiters and line ends within
\* fields included; of a table with semicolons of at least two rows the same holds, and
\* its dates are all read in the order of its first, unambiguous one (import_csv_buffer).
TablesAsWritten ==
    /\ (file.format = "csv" /\ file.suffix = "csv" /\ file.read) => AddsJust(file.items)
    /\ (/\ file.format = "table" /\ file.suffix = "csv" /\ file.read /\ Len(file.items) > 1
        /\ Clear(Date[file.items[1].last_visit_time[1]]))
          => AddsJust([i \in DOMAIN file.items |-> TableEntry(file.items, i)])

\* The reader counts braces wherever they stand, and it does not know the letter a carriage
\* return is escaped as.  A text it does read has none, and its braces are paired.
Paired(text) ==
    LET braces(b, i) == Cardinality({j \in 1 .. i : text[j] = b})
    IN /\ \A i \in DOMAIN text : braces("}", i) <= braces("{", i)
       /\ braces("}", Len(text)) = braces("{", Len(text))
Readable(items) ==
    \A i \in DOMAIN items : \A text \in {items[i].url, items[i].title} :
        "\r" \notin ToSet(text) /\ Paired(text)

Visit(item, private) ==
    [url |-> item.url, title |-> IF private THEN <<"[INCOGNITO]", " ">> \o item.title ELSE item.title,
     last_visit_time |-> item.last_visit_time, visit_count |-> 1, typed_count |-> 0]

\* JsonAsWritten: what export_json or the extension wrote comes back, with or without the right suffix,
\* as visits of their own and marked when private: quotes, backslashes, line feeds and tabs
\* in titles included, as long as no text has a carriage return and braces are paired in each
\* (import_extension_json, import_ext.c:44-50, 143-153).
JsonAsWritten ==
    (file.format \in {"json", "extension"} /\ file.read /\ Readable(file.items))
        => AddsJust([i \in DOMAIN file.items |->
                        Visit(file.items[i], file.format = "extension" /\ file.items[i].incognito)])
=============================================================================
