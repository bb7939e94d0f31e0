------------------------------ MODULE MCPipeline ------------------------------
(* Values of the constants of Pipeline that a cfg cannot write.  A second  *)
(* has two micro seconds and a day two seconds; 1601 is as many days       *)
(* before 1970 as it was, and it is day 20000.                             *)
EXTENDS PipelineProperties

-----------------------------------------------------------------------------
(* The query of browsers: four browsers, each absent or in some layout.    *)

PageA == <<"h", "://", "a">>
PageB == <<"h", "://", "b">>
PageC == <<"h", "://", "c">>

Row(url, visits, times) == [url |-> url, title |-> <<"t">>, visit_count |-> visits, visits |-> times]
Ago(days) == (Now - days * DaySeconds) * Micro
Ago1601(days) == {Ago(days) + EpochOffset * Micro}

File(kind, rows) == [kind |-> kind, hidden |-> FALSE, rows |-> rows]
None == [kind |-> "none", hidden |-> FALSE, rows |-> <<>>]

\* Five days ago, two days ago to the micro second, and later
OldFile  == File("chromium", <<Row(PageA, 3, Ago1601(5)), Row(PageB, 1, Ago1601(2))>>)
NewFile  == File("chromium", <<Row(PageB, 0, Ago1601(1)), Row(PageA, 2, Ago1601(1)), Row(PageC, 1, Ago1601(0))>>)
Places   == File("firefox", <<Row(PageA, 4, {Ago(5), Ago(0)}), Row(PageB, 2, {Ago(1), Ago(2)}), Row(PageC, 1, {})>>)
Others   == File("firefox", <<Row(PageA, 5, {Ago(3)}), Row(PageC, 2, {Ago(2)})>>)

NoDirs == [n \in {} |-> None]
Direct1(file) == [dirs |-> NoDirs, direct |-> file]
Dirs(dirs) == [dirs |-> dirs, direct |-> None]

BraveDirs == {Dirs(0 :> OldFile @@ 2 :> NewFile), Dirs(0 :> None @@ 1 :> OldFile @@ 3 :> NewFile)}
OperaDirs == {Direct1(NewFile), [dirs |-> (4 :> OldFile), direct |-> None], [dirs |-> (0 :> None), direct |-> OldFile]}
EdgeDirs  == {Dirs(0 :> Places)}
FoxDirs   == {Dirs(<<[Places EXCEPT !.hidden = TRUE], None, Places>>), Dirs(<<Others, Places, Others>>)}

SomeDisks ==
    UNION {[Types -> BraveDirs \cup OperaDirs \cup EdgeDirs \cup FoxDirs] :
             Types \in SUBSET {"brave", "opera", "edge", "firefox"}}
FewDisks ==
    {d \in SomeDisks : \A t \in DOMAIN d :
        d[t] \in CASE t = "brave" -> BraveDirs [] t = "opera" -> OperaDirs
                   [] t = "edge" -> EdgeDirs [] t = "firefox" -> FoxDirs}

Imported == [url |-> PageA, title |-> <<"t">>, visit_count |-> 1, last_visit_raw |-> 0, last_visit_time |-> NoTime]

Line(source, type, days) ==
    [source |-> source, type |-> type, days_back |-> days, import |-> <<>>,
     categorize |-> FALSE, search |-> FALSE]

SomeCommands ==
    {Line("all", "brave", 0), Line("all", "brave", 2), Line("type", "brave", 2), Line("type", "firefox", 2),
     Line("brave", "brave", 0), Line("db", "brave", 2), Line("db", "edge", 0),
     [Line("db", "edge", 0) EXCEPT !.import = <<Imported>>], [Line("none", "brave", 0) EXCEPT !.import = <<Imported>>]}

QuerySetups == [disk : FewDisks, command : SomeCommands]

-----------------------------------------------------------------------------
(* The reports: one file of Chrome's, and what was imported.                *)

Url(text) == <<"h", "://">> \o text
Page(url, title, visits, days) ==
    [url |-> Url(url), title |-> title, visit_count |-> visits, visits |-> Ago1601(days)]

SomePages ==
    << Page(<<"a", ".", "b">>, <<"x", "y">>, 10, 2),
       Page(<<"b", "/", "x", "/", "y">>, <<>>, 3, 0),
       Page(<<"c", "@", "B", ":", "p", "/", "x", "x", "y", "?", "/">>, <<"b">>, 10, 8),
       Page(<<"b", ".", "a", "/", "y">>, <<"x">>, 100, 400),
       Page(<<"a", "b", "?", "x">>, <<"Y">>, 0, 2),
       Page(<<"/", "x">>, <<"b">>, 2, 2) >>

ReportDisks == {"chrome" :> Dirs(0 :> File("chromium", SomePages))}

Categories ==
    << [name |-> <<"A">>, keywords |-> << <<"b">> >>,
        rules |-> << [type |-> "domain", domain |-> <<"a", ".", "*">>, pattern |-> <<>>] >>] >>

ReportCommands ==
    {[Line("db", "chrome", 0) EXCEPT !.import = <<Imported>>, !.categorize = TRUE],
     [Line("db", "chrome", 0) EXCEPT !.import = <<Imported>>, !.search = TRUE]}

SomeSetups == QuerySetups \cup [disk : ReportDisks, command : ReportCommands]
\* The others answer in full.
Running == {"brave", "edge"}

Classes == ("[xb]" :> [negate |-> FALSE, chars |-> {"x", "b"}] @@ "[!x]" :> [negate |-> TRUE, chars |-> {"x"}])

Item(kind, name, list) == [kind |-> kind, name |-> name, list |-> list]
SomeLines ==
    {Item("section", <<"a">>, <<>>), Item("section", <<"d">>, <<>>),
     Item("section", <<"c", "d", "e", "x">>, <<>>), Item("section", <<"c", "d", "e", "y">>, <<>>),
     Item("section", <<"c", "d", "e", "x", "c", "d", "e", "x", "c">>, <<>>),
     Item("domains", <<>>, << <<"*", ".", "b">>, <<"a", ".", "b", "b">> >>),
     Item("domains", <<>>, << <<>>, <<"b">>, <<"b", ".", "*">>, <<"a", ".", "b">> >>),
     Item("keywords", <<>>, << <<"X">>, <<>>, <<"y">> >>),
     Item("path", <<"b">>, << <<"*", "[xb]", "/", "?">> >>),
     Item("path", <<"b">>, << <<"/", "*", "x", "[!x]">> >>),
     Item("color", <<>>, <<>>)}

SomeRuleFiles == UNION {[1 .. n -> SomeLines] : n \in 0 .. 4}

Word(minus, kind, value) == [minus |-> minus, kind |-> kind, value |-> value]
SomeWords ==
    {Word(FALSE, "op", "AND"), Word(FALSE, "op", "OR"), Word(FALSE, "op", "NOT"),
     Word(FALSE, "text", <<"x">>), Word(TRUE, "text", <<"Y">>), Word(TRUE, "text", <<>>),
     Word(FALSE, "regex", <<"x", ".">>), Word(TRUE, "regex", <<"(">>),
     Word(FALSE, "domain", <<"b">>), Word(FALSE, "tld", <<"b">>),
     Word(FALSE, "after", 19998), Word(FALSE, "before", 19999), Word(FALSE, "visits", 4)}

SomeQueries == UNION {[1 .. n -> SomeWords] : n \in 0 .. 4}

-----------------------------------------------------------------------------
NoClass == [c \in {} |-> {}]
Capitals == ("A" :> "a" @@ "B" :> "b" @@ "X" :> "x" @@ "Y" :> "y")
=============================================================================
