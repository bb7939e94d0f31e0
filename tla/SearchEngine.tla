---------------------------- MODULE SearchEngine ----------------------------
(***************************************************************************)
(* c/search_engine.c: the query language, and search_execute on a list of  *)
(* entries.  A query is a sequence of words                                *)
(*     [minus, kind, value]                                                *)
(* of which kind says how the word is prefixed: "text", "regex", "domain", *)
(* "tld", "after", "before", "visits", or that it is an operator ("op").   *)
(* The value is a text, for "after" and "before" a day, for "visits" a     *)
(* number.  A time is a number of seconds, or NoTime (as of some imports). *)
(***************************************************************************)
EXTENDS UrlText, HistoryTime, Ordering

CONSTANTS
    MaxTerms,       \* SEARCH_MAX_TERMS (16)
    MaxResults,     \* SEARCH_MAX_RESULTS (1000)
    MicroFrom       \* 10^15: a greater raw time counts as micro seconds since 1601

ASSUME SearchAssumption ==
    /\ MaxTerms \in Nat \ {0} /\ MaxResults \in Nat
    /\ MicroFrom \in Nat \ {0}

-----------------------------------------------------------------------------
(* search_parse_query                                                      *)

NoQuery == [terms |-> <<>>, next_op |-> "AND", after |-> -1, before |-> -1, min_visits |-> 0]

\* A term of a word with a minus is NOT, whatever the operator in front of it was.
Term(q, w) == [type |-> w.kind, pattern |-> w.value, combinator |-> IF w.minus THEN "NOT" ELSE q.next_op]

AddTerm(q, w) == [q EXCEPT !.terms = Append(@, Term(q, w)), !.next_op = "AND"]

\* Once there are MaxTerms terms the rest of the query is not read.
ReadWord(q, w) ==
    IF Len(q.terms) = MaxTerms THEN q
    ELSE CASE w.kind = "op"     -> [q EXCEPT !.next_op = w.value]
           [] w.kind = "after"  -> [q EXCEPT !.after = w.value]
           [] w.kind = "before" -> [q EXCEPT !.before = w.value]
           [] w.kind = "visits" -> [q EXCEPT !.min_visits = w.value]
           [] OTHER             -> AddTerm(q, w)

BareMinus(w) == w.minus /\ w.kind = "text" /\ w.value = <<>>

\* A minus at the very end is no term; one that is followed by a blank is an empty term.
ParseQuery(words) ==
    FoldLeft(ReadWord, NoQuery,
             IF words # <<>> /\ BareMinus(Last(words)) THEN Front(words) ELSE words)

-----------------------------------------------------------------------------
(* Matching of an entry.                                                   *)

\* The regular expressions here are of letters and dots; one with a "(" does not compile.
RegexMatch(pattern, text) ==
    /\ ~ \E i \in DOMAIN pattern : pattern[i] = "("
    /\ \E i \in 0 .. Len(text) - Len(pattern) : \A j \in DOMAIN pattern :
          pattern[j] = "." \/ SameText(<<pattern[j]>>, <<text[i + j]>>)

Host(url) == Until(AfterScheme(url), {"/", ":"})

DomainHit(domain, host) ==
    SameText(host, domain) \/ (Len(host) > Len(domain) + 1 /\ Ends(host, <<".">> \o domain))

TldHit(tld, host) ==
    LET dots == {i \in DOMAIN host : host[i] = "."}
    IN dots # {} /\ SameText(SubSeq(host, Max(dots) + 1, Len(host)), tld)

UrlHit(term, e) ==
    CASE term.type = "text"   -> Found(term.pattern, e.url)
      [] term.type = "regex"  -> RegexMatch(term.pattern, e.url)
      [] term.type = "domain" -> DomainHit(term.pattern, Host(e.url))
      [] term.type = "tld"    -> TldHit(term.pattern, Host(e.url))

TitleHit(term, e) ==
    /\ e.title # <<>>
    /\ CASE term.type = "text"  -> Found(term.pattern, e.title)
         [] term.type = "regex" -> RegexMatch(term.pattern, e.title)
         [] OTHER -> FALSE

TermMatches(term, e) == UrlHit(term, e) \/ TitleHit(term, e)

\* A term that is NOT counts as matched when it does not match.
Matched(term, e) == TermMatches(term, e) # (term.combinator = "NOT")

\* Mutant: AND binds its terms more closely than OR.
AndFirst(q, e) ==
    LET heads == {t \in DOMAIN q.terms : t = 1 \/ q.terms[t].combinator = "OR"}
    IN q.terms = <<>> \/ \E t \in heads : \A u \in DOMAIN q.terms :
            (u >= t /\ \A h \in heads : h <= t \/ h > u) => Matched(q.terms[u], e)

\* The terms are combined from left to right; the first one's operator only negates.
Overall(q, e) ==
    LET upTo[t \in DOMAIN q.terms] ==
            IF t = 1 THEN Matched(q.terms[t], e)
            ELSE IF q.terms[t].combinator = "OR" THEN upTo[t - 1] \/ Matched(q.terms[t], e)
            ELSE upTo[t - 1] /\ Matched(q.terms[t], e)
    IN q.terms = <<>> \/ upTo[Len(q.terms)]

\* Times are compared as texts: a day is a prefix of the times of that day, and less than them.
PassesFilters(q, e) ==
    /\ q.min_visits > 0 => e.visit_count >= q.min_visits
    /\ e.last_visit_time # NoTime =>
          /\ q.after >= 0 => e.last_visit_time >= q.after * DaySeconds
          /\ q.before >= 0 => e.last_visit_time < q.before * DaySeconds

-----------------------------------------------------------------------------
(* search_compute_score, in units of 0.05.                                 *)

Above(n, limits) == Cardinality({i \in DOMAIN limits : n > limits[i]})

Relevance(url_hit, title_hit) ==
    IF title_hit THEN IF url_hit THEN 8 ELSE 6 ELSE IF url_hit THEN 4 ELSE 0

Popularity(visits) == IF visits > 0 THEN 1 + Above(visits, <<4, 9, 19, 49, 99>>) ELSE 0

\* A raw time is taken for Chromium's if it is large, else for seconds.  (Raw times of
\* milli seconds, between the two, are none that a browser or an importer yields.)
AgeDays(raw) ==
    LET unix_ts == IF raw > MicroFrom THEN (raw \div Micro) - EpochOffset ELSE raw
    IN (Now - unix_ts) \div DaySeconds

Recency(raw) == IF raw > 0 THEN 6 - Above(AgeDays(raw), <<1, 7, 30, 90, 365>>) ELSE 0

Score(q, e) ==
    Relevance(\E i \in DOMAIN q.terms : UrlHit(q.terms[i], e),
              \E i \in DOMAIN q.terms : TitleHit(q.terms[i], e))
      + Popularity(e.visit_count) + Recency(e.last_visit_raw)

-----------------------------------------------------------------------------
(* search_execute                                                          *)

\* Mutant: a hit goes in front of those it ties with.
InsertInFront(hits, hit) ==
    LET behind == {i \in DOMAIN hits : hits[i].score <= hit.score}
    IN InsertAt(hits, IF behind = {} THEN Len(hits) + 1 ELSE Min(behind), hit)

\* One round of the insertion sort: behind every hit that scores no less.
InsertHit(hits, hit) ==
    LET behind == {i \in DOMAIN hits : hits[i].score < hit.score}
    IN InsertAt(hits, IF behind = {} THEN Len(hits) + 1 ELSE Min(behind), hit)

Hit(q, entries, i) ==
    [entry_idx |-> i, score |-> Score(q, entries[i]),
     match_count |-> Cardinality({t \in DOMAIN q.terms : Matched(q.terms[t], entries[i])})]

\* The first MaxResults entries that match, then sorted by their scores.
SearchExecute(q, entries) ==
    LET all  == {i \in DOMAIN entries : PassesFilters(q, entries[i]) /\ Overall(q, entries[i])}
        kept == InOrder({i \in all : Cardinality({j \in all : j < i}) < MaxResults})
    IN FoldLeft(InsertHit, <<>>, [n \in DOMAIN kept |-> Hit(q, entries, kept[n])])
=============================================================================
