---------------------------- MODULE BrowserQuery ----------------------------
(***************************************************************************)
(* How the command line program gets its entries: browser_scan, browser_-  *)
(* query_all, browser_query_by_type and browser_deduplicate (c/browser_-   *)
(* detect.c), history_db_query (c/history_db.c), and the part of main (c/  *)
(* brave_history.c) that calls them and then imports.                      *)
(*                                                                         *)
(* A browser's directory is [dirs, direct]: the file in each of its        *)
(* profile directories, and the file in the directory itself.  Profile     *)
(* directories are numbered, as "Profile 7" is, with 0 for "Default"; of   *)
(* Firefox they are listed in the order of readdir, with hidden ones.  A   *)
(* file is [kind, hidden, rows]; of Chromium a row has one time, of Firefox *)
(* those of all visits.                                                    *)
(***************************************************************************)
EXTENDS HistoryTime, Ordering, SequencesExt, FiniteSetsExt

CONSTANTS
    Setups,         \* [disk, command]: what may be installed, a function from browser
                    \* types to directories, with a command line [source, type,
                    \* days_back, import, categorize, search]
    MaxProfiles,    \* BROWSER_MAX_PROFILES (16)
    MaxNumbered,    \* 20, the last "Profile n" that is looked for
    Failing         \* the browsers whose files may go away and whose queries may break off

ASSUME QueryAssumption ==
    /\ MaxProfiles \in Nat \ {0} /\ MaxNumbered \in Nat
    /\ IsFiniteSet(Failing)

BrowserTypes == <<"brave", "chrome", "chromium", "edge", "vivaldi", "opera", "firefox">>

\* A browser keeps one row of a page.
IsFile(file) ==
    /\ file = [kind |-> file.kind, hidden |-> file.hidden, rows |-> file.rows]
    /\ Len(file.rows) \in Nat /\ file.rows = [i \in 1 .. Len(file.rows) |-> file.rows[i]]
    /\ \A i \in DOMAIN file.rows :
          /\ file.rows[i].visit_count \in Int
          /\ file.rows[i].visits \in SUBSET Nat /\ IsFiniteSet(file.rows[i].visits)
          /\ \A j \in DOMAIN file.rows : file.rows[j].url = file.rows[i].url => i = j

IsDirectory(directory) ==
    /\ directory = [dirs |-> directory.dirs, direct |-> directory.direct]
    /\ DOMAIN directory.dirs \in SUBSET Nat /\ IsFiniteSet(DOMAIN directory.dirs)
    /\ IsFile(directory.direct) /\ \A n \in DOMAIN directory.dirs : IsFile(directory.dirs[n])

\* Firefox's directories hold no database of the other browsers.
KeepsNoChromium(directory) == \A n \in DOMAIN directory.dirs : directory.dirs[n].kind # "chromium"

IsEntry(e) ==
    /\ e = [url |-> e.url, title |-> e.title, visit_count |-> e.visit_count,
            last_visit_raw |-> e.last_visit_raw, last_visit_time |-> e.last_visit_time]
    /\ e.visit_count \in Int /\ e.last_visit_raw \in Nat

IsEntries(es) == Len(es) \in Nat /\ es = [i \in 1 .. Len(es) |-> es[i]] /\ \A i \in DOMAIN es : IsEntry(es[i])

ASSUME SetupAssumption ==
    \A setup \in Setups :
        /\ DOMAIN setup.disk \subseteq ToSet(BrowserTypes)
        /\ \A type \in DOMAIN setup.disk : IsDirectory(setup.disk[type])
        /\ "firefox" \in DOMAIN setup.disk => KeepsNoChromium(setup.disk["firefox"])
        /\ setup.command.days_back \in Nat /\ IsEntries(setup.command.import)

VARIABLES
    disk,           \* what is installed
    command,        \* the command line
    stage,          \* how far main has got
    scan,           \* BrowserScanResult
    queue,          \* the profiles still to query: <<type, place>>
    answers,        \* what the queries returned: [type, place, count], -1 if it failed
    result          \* HistoryResult

queryVars == <<disk, command, stage, scan, queue, answers, result>>

Format(type) == IF type = "firefox" THEN "firefox" ELSE "chromium"

Direct == -1        \* the place of a file in the directory itself

FileAt(type, place) == IF place = Direct THEN disk[type].direct ELSE disk[type].dirs[place]

FirstOf(seq, n) == SubSeq(seq, 1, IF Len(seq) > n THEN n ELSE Len(seq))

-----------------------------------------------------------------------------
(* browser_scan                                                            *)

Profile(type, place) == [place |-> place, is_valid |-> FileAt(type, place).kind # "none"]

\* enumerate_chromium_profiles; the layout of Opera only if there is no profile directory
ChromiumProfiles(type) ==
    LET numbered == InOrder(DOMAIN disk[type].dirs \cap (0 .. MaxNumbered))
        places   == IF numbered = <<>> /\ disk[type].direct.kind # "none" THEN <<Direct>> ELSE numbered
    IN [i \in DOMAIN FirstOf(places, MaxProfiles) |-> Profile(type, places[i])]

\* enumerate_firefox_profiles; whatever is named places.sqlite counts
FirefoxProfiles(type) ==
    LET dirs   == disk[type].dirs
        places == InOrder({i \in DOMAIN dirs : ~dirs[i].hidden /\ dirs[i].kind # "none"})
    IN [i \in DOMAIN FirstOf(places, MaxProfiles) |-> Profile(type, places[i])]

Profiles(type) == IF type = "firefox" THEN FirefoxProfiles(type) ELSE ChromiumProfiles(type)

BrowserScan ==
    LET found == Selected(BrowserTypes, {n \in DOMAIN BrowserTypes :
                                            /\ BrowserTypes[n] \in DOMAIN disk
                                            /\ Profiles(BrowserTypes[n]) # <<>>})
    IN [i \in DOMAIN found |-> [type |-> found[i], profiles |-> Profiles(found[i])]]

\* The places of the profiles at the indices S, <<browser, profile>>, in the order of two loops.
Looped(browsers, S) ==
    LET before == {w \in S \X S : \/ w[1][1] < w[2][1]
                                  \/ w[1][1] = w[2][1] /\ w[1][2] < w[2][2]}
        loop   == Ranked(S, before)
    IN [n \in DOMAIN loop |->
          <<browsers[loop[n][1]].type, browsers[loop[n][1]].profiles[loop[n][2]].place>>]

AllProfiles(browsers) ==
    {w \in (DOMAIN browsers) \X (1 .. MaxProfiles) : w[2] \in DOMAIN browsers[w[1]].profiles}

\* Mutant: whether a profile has a database is not asked.
EveryDirectory(browsers, Types) ==
    Looped(browsers, {w \in AllProfiles(browsers) : browsers[w[1]].type \in Types})

\* The profiles that browser_query_all, or browser_query_by_type for one of Types, goes through.
ToQuery(browsers, Types) ==
    Looped(browsers, {w \in AllProfiles(browsers) :
                        browsers[w[1]].type \in Types /\ browsers[w[1]].profiles[w[2]].is_valid})

-----------------------------------------------------------------------------
(* generic_query_history and history_db_query.                             *)

\* strict: history_db_query leaves out what is exactly as old as the cutoff.
From(format, days_back, strict) ==
    IF days_back > 0 THEN Cutoff(days_back, format) + (IF strict THEN 1 ELSE 0) ELSE 0

InRange(row, from) == {v \in row.visits : v >= from}

\* What the SELECT yields of a row: a place of Firefox has its latest visit of those in range.
RowEntry(row, from, format) ==
    [url |-> row.url, title |-> row.title, visit_count |-> row.visit_count,
     last_visit_raw |-> Max(InRange(row, from)),
     last_visit_time |-> Normalize(Max(InRange(row, from)), format)]

\* Mutant: the oldest rows first.
OldestFirst(rows, from) ==
    LET read == {i \in DOMAIN rows : InRange(rows[i], from) # {}}
        raw(i) == Max(InRange(rows[i], from))
    IN Ranked(read, {w \in read \X read : \/ raw(w[1]) < raw(w[2])
                                          \/ raw(w[1]) = raw(w[2]) /\ w[1] < w[2]})

\* The places of the rows that are read, ORDER BY the time DESC.
NewestFirst(rows, from) ==
    LET read == {i \in DOMAIN rows : InRange(rows[i], from) # {}}
        raw(i) == Max(InRange(rows[i], from))
    IN Ranked(read, {w \in read \X read : \/ raw(w[1]) > raw(w[2])
                                          \/ raw(w[1]) = raw(w[2]) /\ w[1] < w[2]})

Select(file, days_back, strict) ==
    LET from  == From(file.kind, days_back, strict)
        order == NewestFirst(file.rows, from)
    IN [n \in DOMAIN order |-> RowEntry(file.rows[order[n]], from, file.kind)]

\* How many of n rows are read: all, unless an error or a lack of memory ends the loop.
Counts(type, n) == IF type \in Failing THEN 0 .. n ELSE {n}

-----------------------------------------------------------------------------
(* browser_deduplicate                                                     *)

\* The i-th entry with what the later ones of its page give it.
Merged(entries, i) ==
    LET same   == {j \in DOMAIN entries : entries[j].url = entries[i].url}
        newest == {j \in same : \A k \in same : entries[k].last_visit_raw <= entries[j].last_visit_raw}
    IN [entries[i] EXCEPT
            !.visit_count = Max({entries[j].visit_count : j \in same}),
            !.last_visit_raw = entries[Min(newest)].last_visit_raw,
            !.last_visit_time = entries[Min(newest)].last_visit_time]

\* Mutant: a page that is read again takes the place of the one before.
KeepLast(entries) ==
    LET lasts == InOrder({i \in DOMAIN entries :
                            \A j \in i + 1 .. Len(entries) : entries[j].url # entries[i].url})
    IN [n \in DOMAIN lasts |-> Merged(entries, lasts[n])]

Deduplicated(entries) ==
    LET firsts == InOrder({i \in DOMAIN entries : \A j \in 1 .. i - 1 : entries[j].url # entries[i].url})
    IN [n \in DOMAIN firsts |-> Merged(entries, firsts[n])]

-----------------------------------------------------------------------------
(* main                                                                    *)

Init ==
    /\ \E setup \in Setups : disk = setup.disk /\ command = setup.command
    /\ stage = "query" /\ scan = <<>> /\ queue = <<>> /\ answers = <<>> /\ result = <<>>

Asked == IF command.source = "all" THEN ToSet(BrowserTypes) ELSE {command.type}

\* --all-browsers or --browser
Scan ==
    /\ stage = "query" /\ command.source \in {"all", "type"}
    /\ scan' = BrowserScan
    /\ queue' = ToQuery(scan', Asked)
    /\ stage' = IF scan' = <<>> THEN "import" ELSE "read"
    /\ UNCHANGED <<disk, command, answers, result>>

\* The file of a profile that was found is opened, or it is gone or no such database.
QueryProfile ==
    /\ stage = "read" /\ queue # <<>>
    /\ \E type \in {Head(queue)[1]}, place \in {Head(queue)[2]} : \E file \in {FileAt(type, place)} :
        IF file.kind # Format(type)
        THEN /\ answers' = Append(answers, [type |-> type, place |-> place, count |-> -1])
             /\ UNCHANGED result
        ELSE \E rows \in {Select(file, command.days_back, FALSE)} : \E n \in Counts(type, Len(rows)) :
             /\ answers' = Append(answers, [type |-> type, place |-> place, count |-> n])
             /\ result' = result \o SubSeq(rows, 1, n)
    /\ queue' = Tail(queue)
    /\ UNCHANGED <<disk, command, stage, scan>>

\* Only what --all-browsers read is merged; calloc may fail.
Deduplicate ==
    /\ stage = "read" /\ queue = <<>>
    /\ IF command.source = "all"
       THEN \/ result' = Deduplicated(result) /\ stage' = "import"
            \/ Failing # {} /\ UNCHANGED result /\ stage' = "unmerged"
       ELSE UNCHANGED result /\ stage' = "import"
    /\ UNCHANGED <<disk, command, scan, queue, answers>>

\* --db FILE, or the file of Brave's default profile: its errors end the program in the
\* first case, unless there are imports.
QueryFile ==
    /\ stage = "query" /\ command.source \in {"db", "brave"}
    /\ \E type \in {command.type} : \E file \in
            {IF type \in DOMAIN disk /\ 0 \in DOMAIN disk[type].dirs THEN FileAt(type, 0)
             ELSE [kind |-> "none"]} :
        IF file.kind # "chromium"
        THEN /\ answers' = <<[type |-> type, place |-> 0, count |-> -1]>>
             /\ stage' = IF command.source = "db" /\ command.import = <<>> THEN "failed" ELSE "import"
             /\ UNCHANGED result
        ELSE \E rows \in {Select(file, command.days_back, TRUE)} : \E n \in Counts(type, Len(rows)) :
             /\ answers' = <<[type |-> type, place |-> 0, count |-> n]>>
             /\ result' = SubSeq(rows, 1, n)
             /\ stage' = "import"
    /\ UNCHANGED <<disk, command, scan, queue>>

\* --import: what auto_import adds of each file (see Imports) is not merged with the rest.
\* --no-db queries nothing.
Import ==
    /\ stage \in {"import", "unmerged"} \/ (stage = "query" /\ command.source = "none")
    /\ result' = result \o command.import
    /\ stage' = "stats"
    /\ UNCHANGED <<disk, command, scan, queue, answers>>

\* A browser deletes a profile while the program runs.
LoseProfile ==
    /\ stage = "read" /\ queue # <<>>
    /\ \E i \in DOMAIN queue : \E type \in {queue[i][1]} \cap Failing, place \in {queue[i][2]} :
        /\ FileAt(type, place).kind # "lost"
        /\ disk' = IF place = Direct THEN [disk EXCEPT ![type].direct.kind = "lost"]
                   ELSE [disk EXCEPT ![type].dirs[place].kind = "lost"]
    /\ UNCHANGED <<command, stage, scan, queue, answers, result>>

QueryNext == Scan \/ QueryProfile \/ Deduplicate \/ QueryFile \/ Import \/ LoseProfile
=============================================================================
