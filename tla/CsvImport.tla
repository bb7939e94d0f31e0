------------------------------ MODULE CsvImport ------------------------------
(***************************************************************************)
(* import_csv_buffer (c/csv_import.c) and export_csv (c/export_csv.c), on  *)
(* files that are sequences of tokens: delimiters, quotes, line ends and   *)
(* words.  Byte order mark, encodings, skip_rows and lengths are left out. *)
(***************************************************************************)
EXTENDS Integers, Sequences, FiniteSets, SequencesExt, FiniteSetsExt, TLC

CONSTANTS
    Column,         \* Column[token]: the column a token is a name of
    Schemes,        \* the tokens that contain "://"
    Opaque,         \* "about:", "file:" and "data:", which make a URL in front
    Count,          \* Count[token]: the number a token is
    Date,           \* Date[token]: [kind, lead, second, digits] of a token that is a date
    MaxColumns,     \* CSV_MAX_COLUMNS (32)
    Milli, MicroEpoch   \* 1000 and the conversion of Chromium's time, scaled down

ASSUME CsvAssumption ==
    /\ MaxColumns \in Nat \ {0} /\ Milli \in Nat \ {0}
    /\ \A t \in DOMAIN Date : Date[t].kind \in {"iso", "number", "slash", "dot"}

Quote == "\""
Eol   == {"\r", "\n"}
Delimiters == <<",", "\t", ";", "|">>

-----------------------------------------------------------------------------
(* Detection of the delimiter.                                             *)

\* Where token t is outside quotes.
Bare(data, t) ==
    {i \in DOMAIN data : data[i] = t /\ Cardinality({j \in 1 .. i : data[j] = Quote}) % 2 = 0}

\* For every line that has any, up to 16: how many of the delimiter it has outside quotes
LineCounts(data, delim) ==
    LET feeds  == Bare(data, "\n") \cup {Len(data) + 1}
        ends   == SelectSeq([i \in 1 .. Len(data) + 1 |-> i], LAMBDA i : i \in feeds)
        start(k) == IF k = 1 THEN 1 ELSE ends[k - 1]
        delims == Bare(data, delim)
        counts == [k \in DOMAIN ends |-> Cardinality({i \in delims : i \in start(k) .. ends[k]})]
        some   == SelectSeq(counts, LAMBDA n : n > 0)
    IN SubSeq(some, 1, Min({16, Len(some)}))

\* score_delimiter: the lines that agree with the first, times its count
ScoreDelimiter(data, delim) ==
    LET counts == LineCounts(data, delim)
    IN IF Len(counts) < 2 THEN 0
       ELSE Cardinality({i \in 2 .. Len(counts) : counts[i] = counts[1]}) * counts[1]

\* csv_detect_delimiter: the first with the best score, a comma if none has any
DetectDelimiter(data) ==
    FoldLeft(LAMBDA best, d : IF ScoreDelimiter(data, d) > ScoreDelimiter(data, best) THEN d ELSE best,
             Head(Delimiters), Delimiters)

-----------------------------------------------------------------------------
(* csv_parse_row: a field and a row that begin at index i.                 *)

TrimEnd(text) ==
    LET solid == {i \in DOMAIN text : text[i] # " "}
    IN SubSeq(text, 1, IF solid = {} THEN 0 ELSE Max(solid))

\* The first index from i on that holds the delimiter or a line end.
FieldEnd(data, i, delim) ==
    Min({j \in i .. Len(data) : data[j] \in Eol \cup {delim}} \cup {Len(data) + 1})

\* The quote that closes a field: one that no other quote follows.
ClosingQuote(data, i) ==
    LET close[j \in i .. Len(data) + 2] ==
            IF j > Len(data) THEN Len(data) + 1
            ELSE IF data[j] # Quote THEN close[j + 1]
            ELSE IF j < Len(data) /\ data[j + 1] = Quote THEN close[j + 2] ELSE j
    IN close[i]

\* Of two quotes in a row one is kept.
Unescape(text) ==
    LET from[i \in 1 .. Len(text) + 2] ==
            IF i > Len(text) THEN <<>>
            ELSE <<text[i]>> \o from[IF text[i] = Quote THEN i + 2 ELSE i + 1]
    IN from[1]

FieldAt(data, i, delim) ==
    IF data[i] = Quote
    THEN LET close == ClosingQuote(data, i + 1)
         IN [value |-> Unescape(SubSeq(data, i + 1, close - 1)), end |-> FieldEnd(data, close + 1, delim)]
    ELSE LET end == FieldEnd(data, i, delim)
         IN [value |-> TrimEnd(SubSeq(data, i, end - 1)), end |-> end]

AfterEol(data, i) ==
    LET at(j, t) == j <= Len(data) /\ data[j] = t
        k == IF at(i, "\r") THEN i + 1 ELSE i
    IN IF at(k, "\n") THEN k + 1 ELSE k

\* Columns beyond the limit, and what follows them, become a row of their own.
RowAt(data, start, delim) ==
    LET from[i \in start .. Len(data) + 1, n \in 0 .. MaxColumns] ==
            IF i > Len(data) \/ n = MaxColumns THEN [fields |-> <<>>, next |-> AfterEol(data, i)]
            ELSE LET f == FieldAt(data, i, delim)
                     ended == f.end > Len(data) \/ data[f.end] # delim
                     rest  == IF ended THEN [fields |-> <<>>, next |-> AfterEol(data, f.end)]
                              ELSE from[f.end + 1, n + 1]
                 IN [rest EXCEPT !.fields = <<f.value>> \o @]
    IN from[start, 0]

Rows(data, delim) ==
    LET from[i \in 1 .. Len(data) + 1] ==
            IF i > Len(data) THEN <<>>
            ELSE LET row == RowAt(data, i, delim) IN <<row.fields>> \o from[row.next]
    IN from[1]

-----------------------------------------------------------------------------
(* Columns.                                                                *)

NamesColumn(field, column) ==
    \E t \in DOMAIN Column :
        /\ Column[t] = column
        /\ SelectSeq(field, LAMBDA u : u # " ") \in {<<t>>, <<Quote, t, Quote>>}

\* detect_has_header; what cannot be told is taken for a header.
HasHeader(row) ==
    \/ \E i \in DOMAIN row : \E c \in {"url", "title", "visit_count", "last_visit_time"} :
            NamesColumn(row[i], c)
    \/ ToSet(row[1]) \cap Schemes = {}

\* detect_columns, or the positions of a file without a header: 0 where there is none
ColumnMap(row) ==
    [c \in {"url", "title", "visit_count", "typed_count", "last_visit_time"} |->
        IF HasHeader(row) THEN SelectInSeq(row, LAMBDA f : NamesColumn(f, c))
        ELSE LET i == SelectInSeq(<<"url", "title", "visit_count", "last_visit_time">>, LAMBDA n : n = c)
             IN IF i <= Len(row) THEN i ELSE 0]

-----------------------------------------------------------------------------
(* Dates.                                                                  *)

IsDate(text) == Len(text) = 1 /\ text[1] \in DOMAIN Date

DetectDateFormat(text) ==
    IF ~IsDate(text) THEN "auto"
    ELSE LET d == Date[text[1]]
         IN CASE d.kind = "iso" -> "iso"
              [] d.kind = "number" /\ d.digits >= 16 -> "chromium"
              [] d.kind = "number" /\ d.digits \in 13..15 -> "unix_ms"
              [] d.kind = "number" /\ d.digits \in 9..12 -> "unix"
              [] d.kind = "slash" /\ d.lead \in 1..12 /\ d.second \in 1..31 -> "us"
              [] d.kind = "slash" /\ d.lead \in 13..31 /\ d.second \in 1..12 -> "eu"
              [] d.kind = "dot" /\ d.lead \in 1..31 /\ d.second \in 1..12 -> "eu"
              [] OTHER -> "auto"

\* csv_parse_date, of a date written in any format; what cannot be read is kept as it is.
ParseDate(text, format) ==
    LET fmt == IF format = "auto" THEN DetectDateFormat(text) ELSE format
        d   == IF IsDate(text) THEN Date[text[1]] ELSE [kind |-> "none", lead |-> 0]
    IN CASE fmt = "unix" -> <<"unix", d.lead>>
         [] fmt = "unix_ms" -> <<"unix", d.lead \div Milli>>
         [] fmt = "chromium" -> <<"unix", d.lead \div (Milli * Milli) - MicroEpoch>>
         [] fmt = "us" /\ d.kind = "slash" -> <<"month and day", d.lead, d.second>>
         [] fmt = "eu" /\ d.kind \in {"slash", "dot"} -> <<"month and day", d.second, d.lead>>
         [] OTHER -> text

-----------------------------------------------------------------------------
(* import_csv_buffer: nothing if the first row has no column of URLs.      *)

IsUrl(text) == ToSet(text) \cap Schemes # {} \/ (text # <<>> /\ Head(text) \in Opaque)

Number(text) == IF text # <<>> /\ Head(text) \in DOMAIN Count THEN Count[Head(text)] ELSE 0

\* Mutant: the format of each row's date is detected anew.
FormatAnew(format, text) == "auto"

\* Once a date's format is known it is that of all later rows.
FormatFrom(format, text) == IF format = "auto" THEN DetectDateFormat(text) ELSE format

ImportRow(state, row, map) ==
    LET value(c) == IF map[c] \in DOMAIN row THEN row[map[c]] ELSE <<>>
        visits   == Number(value("visit_count"))
        format   == FormatFrom(state.format, value("last_visit_time"))
    IN IF ~IsUrl(value("url")) THEN state
       ELSE [format |-> format,
             entries |-> Append(state.entries,
                [url |-> value("url"), title |-> value("title"),
                 visit_count |-> IF visits <= 0 THEN 1 ELSE visits,
                 typed_count |-> Number(value("typed_count")),
                 last_visit_time |-> ParseDate(value("last_visit_time"), format)])]

ImportRows(rows) ==
    LET map  == ColumnMap(Head(rows))
        body == IF HasHeader(Head(rows)) THEN Tail(rows) ELSE rows
    IN IF map["url"] = 0 THEN {}
       ELSE {FoldLeft(LAMBDA s, row : ImportRow(s, row, map),
                      [format |-> "auto", entries |-> <<>>], body).entries}

ImportCsv(data) == IF data = <<>> THEN {} ELSE ImportRows(Rows(data, DetectDelimiter(data)))

-----------------------------------------------------------------------------
(* export_csv                                                              *)

\* csv_write_field
WriteField(text) ==
    IF ToSet(text) \cap {",", Quote, "\r", "\n"} = {} THEN text
    ELSE <<Quote>> \o FlattenSeq([i \in DOMAIN text |->
                        IF text[i] = Quote THEN <<Quote, Quote>> ELSE <<text[i]>>]) \o <<Quote>>

WriteNumber(n) == <<CHOOSE t \in DOMAIN Count : Count[t] = n>>

WriteRow(e) ==
    WriteField(e.url) \o <<",">> \o WriteField(e.title) \o <<",">> \o WriteNumber(e.visit_count)
      \o <<",">> \o WriteNumber(e.typed_count) \o <<",">> \o WriteField(e.last_visit_time) \o <<"\r", "\n">>

HeaderRow == <<"url", ",", "title", ",", "visit_count", ",", "typed_count", ",", "last_visit_time", "\r", "\n">>

ExportCsv(entries) == HeaderRow \o FlattenSeq([i \in DOMAIN entries |-> WriteRow(entries[i])])
=============================================================================
