------------------------------- MODULE Pipeline -------------------------------
(***************************************************************************)
(* The command line program from the query of the browsers to what it      *)
(* prints of them: main of c/brave_history.c composed of BrowserQuery, the *)
(* statistics of c/history_db.c, UrlCategorize and SearchEngine.           *)
(***************************************************************************)
EXTENDS BrowserQuery, SearchEngine, UrlCategorize

CONSTANTS
    RuleFiles,      \* what a file of rules may hold: sequences of lines
    Queries         \* what may be searched for: sequences of words

ASSUME RuleFilesAssumption ==
    \A file \in RuleFiles : IsList(file) /\ \A i \in DOMAIN file : IsList(file[i].list)

VARIABLES
    stats,          \* HistoryStats
    lines,          \* the file of rules
    categories,     \* CatEngine.categories
    cat_stats,      \* CatEngine.stats
    words,          \* the query
    hits            \* SearchResults.hits

analysisVars == <<stats, lines, categories, cat_stats, words, hits>>
vars == <<queryVars, analysisVars>>

-----------------------------------------------------------------------------
(* history_compute_stats                                                   *)

UniqueDomains(entries) ==
    Cardinality({Until(AfterScheme(entries[i].url), {"/"}) :
                    i \in {j \in DOMAIN entries : Contains(entries[j].url, "://")}})

Most(entries) ==
    {i \in DOMAIN entries : \A j \in DOMAIN entries : entries[j].visit_count <= entries[i].visit_count}

\* All times are taken for Chromium's.
ComputeStats(entries) ==
    LET raws == {entries[i].last_visit_raw : i \in DOMAIN entries}
        most == Min(Most(entries))
    IN [total_urls |-> Len(entries),
        total_visits |-> Total([i \in DOMAIN entries |-> entries[i].visit_count]),
        unique_domains |-> UniqueDomains(entries),
        earliest_visit |-> Normalize(Min(raws), "chromium"),
        latest_visit |-> Normalize(Max(raws), "chromium"),
        most_visited_url |-> entries[most].url, most_visited_count |-> entries[most].visit_count]

-----------------------------------------------------------------------------
NoStats == [total_urls |-> 0]

PipelineInit ==
    /\ Init
    /\ stats = NoStats /\ lines = <<>> /\ categories = <<>> /\ cat_stats = <<>>
    /\ words = <<>> /\ hits = <<>>

Query == QueryNext /\ UNCHANGED analysisVars

\* Without entries there is nothing more to do.
Statistics ==
    /\ stage = "stats"
    /\ IF result = <<>> THEN stage' = "done" /\ UNCHANGED stats
       ELSE stage' = "categorize" /\ stats' = ComputeStats(result)
    /\ UNCHANGED <<disk, command, scan, queue, answers, result, lines, categories, cat_stats, words, hits>>

\* --categorize, with a file of rules or without
CategorizeEntries ==
    /\ stage = "categorize"
    /\ IF command.categorize
       THEN \E file \in RuleFiles :
            /\ lines' = file
            /\ categories' = LoadRules(file)
            /\ cat_stats' = CategorizeAll(LoadRules(file), result)
       ELSE UNCHANGED <<lines, categories, cat_stats>>
    /\ stage' = "search"
    /\ UNCHANGED <<disk, command, scan, queue, answers, result, stats, words, hits>>

\* --search
Search ==
    /\ stage = "search"
    /\ IF command.search
       THEN \E query \in Queries : words' = query /\ hits' = SearchExecute(ParseQuery(query), result)
       ELSE UNCHANGED <<words, hits>>
    /\ stage' = "done"
    /\ UNCHANGED <<disk, command, scan, queue, answers, result, stats, lines, categories, cat_stats>>

Next == Query \/ Statistics \/ CategorizeEntries \/ Search

Spec == PipelineInit /\ [][Next]_vars
=============================================================================
