--------------------------- MODULE BookmarkImport ---------------------------
(***************************************************************************)
(* import_bookmarks_html_buffer (c/html_bookmark_import.c).  The file is a *)
(* sequence of tokens, read in pieces: a piece is what follows one "<" up  *)
(* to the next.  A tag or comment whose end is not in its piece goes on in *)
(* the next one.  The file has a <DT or <DL in its first 4096 bytes, as the *)
(* importer demands.  Lengths of texts are not modelled.                   *)
(***************************************************************************)
EXTENDS Integers, Sequences, FiniteSets, SequencesExt, FiniteSetsExt

CONSTANTS
    Entity,         \* Entity[name]: what the reference &name; stands for
    Stamp,          \* Stamp[token]: [numeric, long, value] of a token that is a time
    Micro, Epoch, Latest,   \* 10^6, 11644473600 s and the year 2100, scaled down
    MaxDepth,       \* BOOKMARK_MAX_DEPTH (32), or max_depth of the options
    ImportFolders,  \* import_folders of the options
    TimestampFormat \* timestamp_format of the options

ASSUME BookmarkAssumption ==
    /\ MaxDepth \in Nat \ {0}
    /\ ImportFolders \in BOOLEAN /\ TimestampFormat \in 0..2

\* The parser before the first piece: what it has of a tag, the folders, the entries,
\* and for the properties the tags that have ended.
Start == [partial |-> <<>>, folder_stack |-> [i \in 1..MaxDepth |-> <<>>],
          folder_depth |-> 0, current_folder |-> <<>>, entries |-> <<>>, tags |-> <<>>]

-----------------------------------------------------------------------------
(* Texts.                                                                  *)

Quotes == {"\"", "'"}

TrimText(text) ==
    LET solid == {i \in DOMAIN text : text[i] # " "}
    IN IF solid = {} THEN <<>> ELSE SubSeq(text, Min(solid), Max(solid))

\* html_decode_entities: from the left, what was replaced is not read again; a reference
\* that is not known stays as it is.
DecodeEntities(text) ==
    LET From[i \in 1 .. Len(text) + 1] ==
            IF i > Len(text) THEN <<>>
            ELSE IF /\ text[i] = "&" /\ i + 2 <= Len(text)
                    /\ text[i + 1] \in DOMAIN Entity /\ text[i + 2] = ";"
            THEN Entity[text[i + 1]] \o From[i + 3]
            ELSE <<text[i]>> \o From[i + 1]
    IN From[1]

\* The text from i on, up to the first token of S; and where the white space at i ends.
UpTo(text, i, S) ==
    LET stops == {j \in i .. Len(text) : text[j] \in S}
    IN SubSeq(text, i, IF stops = {} THEN Len(text) ELSE Min(stops) - 1)
Solid(text, i) == Min({j \in i .. Len(text) : text[j] # " "} \cup {Len(text) + 1})

\* Where a tag ends, 0 if it does not: a ">" in quotes is part of the tag.
TagEnd(piece) ==
    LET InQuote(quote, t) ==
            IF quote = "" /\ t \in Quotes THEN t ELSE IF quote = t THEN "" ELSE quote
        end[i \in 1 .. Len(piece) + 1, quote \in Quotes \cup {""}] ==
            IF i > Len(piece) THEN 0
            ELSE IF quote = "" /\ piece[i] = ">" THEN i ELSE end[i + 1, InQuote(quote, piece[i])]
    IN end[1, ""]

\* extract_attribute: the first that has the name and a value, quoted or not
ExtractAttribute(tag, name) ==
    LET after(i) == Solid(tag, i + 1)
        found == {i \in DOMAIN tag : /\ tag[i] = name /\ (i > 1 => tag[i - 1] = " ")
                                     /\ after(i) <= Len(tag) /\ tag[after(i)] = "="}
        value == Solid(tag, after(Min(found)) + 1)
    IN IF found = {} \/ value > Len(tag) THEN <<>>
       ELSE IF tag[value] \in Quotes THEN UpTo(tag, value + 1, {tag[value]})
       ELSE UpTo(tag, value, {" ", ">"})

\* extract_text_content: from the first ">", be it in quotes, to the next "<"
TextContent(piece) ==
    DecodeEntities(TrimText(UpTo(piece, Len(UpTo(piece, 1, {">"})) + 2, {"<"})))

\* convert_bookmark_timestamp: seconds since 1970, or what was there if it is no number,
\* or nothing if it is out of range
ConvertTimestamp(text) ==
    IF text = <<>> \/ text[1] \notin DOMAIN Stamp THEN text
    ELSE LET stamp == Stamp[text[1]]
             unix  == IF TimestampFormat = 2 \/ stamp.long
                      THEN stamp.value \div Micro - Epoch ELSE stamp.value
         IN IF unix \in 0 .. Latest THEN unix ELSE <<>>

-----------------------------------------------------------------------------
(* The tags.                                                               *)

\* <DL>: the folder in force, if it has a name, takes a slot of the stack. Beyond the
\* limit nothing is counted.
Push(h) ==
    IF h.folder_depth >= MaxDepth THEN h
    ELSE LET top == h.folder_depth + 1
         IN [h EXCEPT !.folder_stack[top] = IF h.current_folder = <<>> THEN @ ELSE h.current_folder,
                      !.folder_depth = top]

\* Mutant: the folder in force stays so.
PopOnly(h) == [h EXCEPT !.folder_depth = IF @ > 0 THEN @ - 1 ELSE 0]

\* </DL>
Pop(h) ==
    LET top == h.folder_depth - 1
    IN IF h.folder_depth = 0 THEN h
       ELSE [h EXCEPT !.folder_depth = top,
                      !.current_folder = IF top > 0 THEN h.folder_stack[top] ELSE <<>>]

\* <H3>: the name of the next folder replaces that of the one around it on the stack.
Named(h, name) ==
    [h EXCEPT !.current_folder = name,
              !.folder_stack = IF h.folder_depth > 0
                               THEN [@ EXCEPT ![h.folder_depth] = name] ELSE @]

TitleIn(folder, title) ==
    IF ImportFolders /\ folder # <<>> /\ title # <<>>
    THEN <<"[">> \o folder \o <<"]", " ">> \o title ELSE title

\* The entry of an anchor: its title is decoded twice.
Bookmark(tag, folder) ==
    LET last_visit == ExtractAttribute(tag, "LAST_VISIT")
        add_date   == ExtractAttribute(tag, "ADD_DATE")
    IN [url |-> DecodeEntities(ExtractAttribute(SubSeq(tag, 1, TagEnd(tag) - 1), "HREF")),
        title |-> TitleIn(folder, DecodeEntities(TextContent(tag))),
        last_visit_time |-> ConvertTimestamp(IF last_visit # <<>> THEN last_visit ELSE add_date),
        visit_count |-> 1, typed_count |-> 0]

Anchor(h, tag) ==
    LET entry == Bookmark(tag, h.current_folder)
    IN IF entry.url = <<>> THEN h ELSE [h EXCEPT !.entries = Append(@, entry)]

\* One round of the loop: comments end at their own sign, other tags are told by name.
ReadPiece(h, piece) ==
    LET tag == IF h.partial = <<>> THEN piece ELSE h.partial \o <<"<">> \o piece
        end == IF Head(tag) = "!--" THEN SelectInSeq(tag, LAMBDA t : t = "-->") ELSE TagEnd(tag)
        done == [h EXCEPT !.partial = <<>>, !.tags = Append(@, tag)]
    IN CASE end = 0 -> [h EXCEPT !.partial = tag]
         [] end # 0 /\ Head(tag) = "DL" -> Push(done)
         [] end # 0 /\ Head(tag) = "/DL" -> Pop(done)
         [] end # 0 /\ Head(tag) \in {"H3", "H1"} -> Named(done, TextContent(tag))
         [] end # 0 /\ Head(tag) = "A" /\ (end = 2 \/ tag[2] = " ") -> Anchor(done, tag)
         [] OTHER -> done

Parse(pieces) ==
    LET after[n \in 0 .. Len(pieces)] ==
            IF n = 0 THEN Start ELSE ReadPiece(after[n - 1], pieces[n])
    IN after[Len(pieces)]
=============================================================================
