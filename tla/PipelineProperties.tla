-------------------------- MODULE PipelineProperties --------------------------
(* What the command line program promises of its entries and reports.      *)
EXTENDS Pipeline

-----------------------------------------------------------------------------
(* What there is to read.                                                  *)

\* The places of a browser that hold a database, as far as there is room for their profiles.
Databases(type) ==
    LET dirs  == disk[type].dirs
        known == IF type = "firefox" THEN {i \in DOMAIN dirs : ~dirs[i].hidden /\ dirs[i].kind # "none"}
                 ELSE DOMAIN dirs \cap 0 .. MaxNumbered
    IN IF type # "firefox" /\ known = {} THEN {Direct} \cap {p \in {Direct} : disk[type].direct.kind # "none"}
       ELSE {p \in known : dirs[p].kind # "none" /\ Cardinality({k \in known : k < p}) < MaxProfiles}

\* The places that were or will be queried, in their order.
Queried == [i \in DOMAIN answers |-> <<answers[i].type, answers[i].place>>] \o queue

\* The newest time of a row; a row is in range if a visit of it is.
Latest(row) == Max(row.visits)
Seconds(raw, type) == IF type = "firefox" THEN raw \div Micro ELSE raw \div Micro - EpochOffset
Since(row, type) ==
    LET oldest == Now - command.days_back * DaySeconds
        offset == IF type = "firefox" THEN 0 ELSE EpochOffset
    IN \/ command.days_back = 0 /\ row.visits # {}
       \/ command.days_back > 0 /\ \E v \in row.visits :
            \/ v > (oldest + offset) * Micro
            \/ v = (oldest + offset) * Micro /\ command.source \in {"all", "type"}

Rows(a) == FileAt(a.type, a.place).rows
Wanted(a) == {i \in DOMAIN Rows(a) : Since(Rows(a)[i], a.type)}

\* Where in the result the entries of the k-th answer begin.
Before(k) == Total([i \in 1 .. k - 1 |-> Max({answers[i].count, 0})])

\* The entry of a row.
IsEntryOf(e, row, type) ==
    /\ e.url = row.url /\ e.title = row.title /\ e.visit_count = row.visit_count
    /\ e.last_visit_raw = Latest(row) /\ e.last_visit_time = Seconds(Latest(row), type)

\* The rows that were read, of all profiles: [row, type, at], at their places in the result.
ReadRows ==
    UNION {{[row |-> Rows(answers[k])[i], type |-> answers[k].type, at |-> <<k, i>>] :
               i \in {i \in Wanted(answers[k]) :
                        Cardinality({j \in Wanted(answers[k]) :
                            \/ Latest(Rows(answers[k])[j]) > Latest(Rows(answers[k])[i])
                            \/ Latest(Rows(answers[k])[j]) = Latest(Rows(answers[k])[i]) /\ j < i})
                          < answers[k].count}} : k \in DOMAIN answers}

\* Row r was read before row s: from a profile that was queried earlier, or it is newer.
ReadEarlier(r, s) ==
    \/ r.at[1] < s.at[1]
    \/ /\ r.at[1] = s.at[1]
       /\ \/ Latest(r.row) > Latest(s.row)
          \/ Latest(r.row) = Latest(s.row) /\ r.at[2] < s.at[2]

Merging == stage = "import" /\ command.source = "all"

-----------------------------------------------------------------------------
(* Properties of the query.                                                *)

\* The statistics are those of as many entries as there are.
TypeOK ==
    /\ stage \in {"query", "read", "unmerged", "import", "stats", "categorize", "search", "done", "failed"}
    /\ \A i \in DOMAIN result : result[i].visit_count \in Int /\ result[i].last_visit_raw \in Nat
    /\ \A i \in DOMAIN scan : Len(scan[i].profiles) \in 1 .. MaxProfiles
    /\ stats.total_urls \in {0, Len(result)}
    /\ Len(categories) <= MaxCategories
    /\ \A c \in DOMAIN categories :
          Len(categories[c].rules) <= MaxRules /\ Len(categories[c].keywords) <= MaxKeywords

\* EachProfileOnce: every database of the browsers that were asked for is queried, once,
\* and nothing else, within the limits of the arrays of profiles and rules, whatever the
\* layout of the directory, however many profiles there are, and whether or not an earlier
\* query failed (browser_scan, browser_query_all, browser_query_by_type).
EachProfileOnce ==
    /\ TypeOK
    /\ stage = "read" =>
        /\ IsInjective(Queried)
        /\ ToSet(Queried) = UNION {{<<t, p>> : p \in Databases(t)} : t \in Asked \cap DOMAIN disk}

\* NewestOfEachProfile: every profile that answers gives its newest rows of the last
\* days, each once, newest first, with the time of its browser's epoch; one that fails
\* gives nothing and the others still give theirs (generic_query_history,
\* history_db_query).
NewestOfEachProfile ==
    (stage \in {"read", "unmerged"} \/ (stage = "import" /\ command.source \in {"type", "db", "brave"})) =>
        /\ Len(result) = Before(Len(answers) + 1)
        /\ \A k \in {j \in DOMAIN answers : answers[j].count >= 0} :
            LET mine == SubSeq(result, Before(k) + 1, Before(k) + answers[k].count)
                rows == Rows(answers[k])
                of(i) == {r \in Wanted(answers[k]) : IsEntryOf(mine[i], rows[r], answers[k].type)}
            IN /\ \A i \in DOMAIN mine : Cardinality(of(i)) = 1
               /\ \A i \in DOMAIN mine : \A j \in DOMAIN mine : i < j =>
                    of(i) # of(j) /\ mine[i].last_visit_raw >= mine[j].last_visit_raw
               /\ answers[k].type \in Failing \/ Len(mine) = Cardinality(Wanted(answers[k]))
               /\ mine # <<>> => \A r \in Wanted(answers[k]) :
                    Latest(rows[r]) > Last(mine).last_visit_raw => \E i \in DOMAIN mine : r \in of(i)

\* OneEntryPerPage: after the merge every page that was read is there once, with the
\* greatest of its counts, and with the latest of its times if all of them are of one
\* epoch; and the pages are in the order in which they were first read: of two, the one
\* in front has a row that was read before every row of the other (browser_deduplicate).
OneEntryPerPage ==
    Merging =>
        /\ {result[i].url : i \in DOMAIN result} = {r.row.url : r \in ReadRows}
        /\ \A i \in DOMAIN result :
            LET mine == {r \in ReadRows : r.row.url = result[i].url}
            IN /\ \A j \in DOMAIN result : i # j => result[i].url # result[j].url
               /\ result[i].visit_count = Max({r.row.visit_count : r \in mine})
               /\ Cardinality({Format(r.type) : r \in mine}) = 1 =>
                    /\ result[i].last_visit_raw = Max({Latest(r.row) : r \in mine})
                    /\ result[i].last_visit_time = Max({Seconds(Latest(r.row), r.type) : r \in mine})
        /\ \A i, j \in DOMAIN result : i < j =>
            \E r \in {r \in ReadRows : r.row.url = result[i].url} :
                \A s \in {s \in ReadRows : s.row.url = result[j].url} : ReadEarlier(r, s)

\* LatestTimeKept: the same of pages that browsers of both epochs know, as the comment of
\* browser_deduplicate has it: "keep the latest timestamp".
LatestTimeKept ==
    Merging => \A i \in DOMAIN result :
        result[i].last_visit_time =
            Max({Seconds(Latest(r.row), r.type) : r \in {r \in ReadRows : r.row.url = result[i].url}})

-----------------------------------------------------------------------------
(* What a query asks for, read off its words.                              *)

IsTerm(i) == words[i].kind \in {"text", "regex", "domain", "tld"} /\ ~(i = Len(words) /\ BareMinus(words[i]))

\* The words that are read, and the terms among them.
WordsRead == {i \in DOMAIN words : Cardinality({j \in 1 .. i - 1 : IsTerm(j)}) < MaxTerms}
Terms == {i \in WordsRead : IsTerm(i)}

\* The operator of a term: NOT if it has a minus, else the last one since the term before.
OperatorOf(i) ==
    LET said == {j \in 1 .. i - 1 : words[j].kind = "op" /\ \A t \in Terms : t > j => t >= i}
    IN IF words[i].minus THEN "NOT" ELSE IF said = {} THEN "AND" ELSE words[Max(said)].value

LastValue(kind) ==
    LET given == {i \in WordsRead : words[i].kind = kind}
    IN IF given = {} THEN {} ELSE {words[Max(given)].value}

\* The labels of a host or a domain.
Labels(text) ==
    LET dots == {0, Len(text) + 1} \cup {i \in DOMAIN text : text[i] = "."}
        from == SetToSortSeq(dots, <)
    IN [n \in 1 .. Len(from) - 1 |-> Lower(SubSeq(text, from[n] + 1, from[n + 1] - 1))]

InDomain(host, domain) == IsSuffix(Labels(domain), Labels(host))

Says(w, e) ==
    LET host == Until(AfterScheme(e.url), {"/", ":"})
    IN CASE w.kind = "domain" -> InDomain(host, w.value)
         [] w.kind = "tld"    -> Len(Labels(host)) > 1 /\ Last(Labels(host)) = Lower(w.value)
         [] w.kind = "text"   -> Found(w.value, e.url) \/ (e.title # <<>> /\ Found(w.value, e.title))
         [] w.kind = "regex"  -> RegexMatch(w.value, e.url) \/ (e.title # <<>> /\ RegexMatch(w.value, e.title))

Holds(i, e) == Says(words[i], e) # (OperatorOf(i) = "NOT")

\* An OR, or the start, opens a row of terms all of which have to hold up to the next OR,
\* and those behind it that are not ORed as well.
Wants(e) ==
    /\ Terms = {} \/ \E t \in Terms :
          /\ t = Min(Terms) \/ OperatorOf(t) = "OR"
          /\ \A u \in Terms : u = t \/ (u > t /\ OperatorOf(u) # "OR") => Holds(u, e)
    /\ \A n \in LastValue("visits") : n > 0 => e.visit_count >= n
    /\ e.last_visit_time # NoTime =>
          /\ \A day \in LastValue("after") : e.last_visit_time \div DaySeconds >= day
          /\ \A day \in LastValue("before") : e.last_visit_time \div DaySeconds < day

\* An entry that is found in as many ways, as often visited and as recent by Chromium's
\* clock; a small raw time of another clock counts as one of seconds.
AtLeastAs(a, b) ==
    LET q == ParseQuery(words)
        found(e) == {<<t, "url">> : t \in {t \in DOMAIN q.terms : UrlHit(q.terms[t], e)}}
                      \cup {<<t, "title">> : t \in {t \in DOMAIN q.terms : TitleHit(q.terms[t], e)}}
    IN /\ found(b) \subseteq found(a)
       /\ a.visit_count >= b.visit_count
       /\ a.last_visit_raw >= b.last_visit_raw /\ a.last_visit_raw > MicroFrom
       /\ b.last_visit_raw = 0 \/ b.last_visit_raw > MicroFrom

-----------------------------------------------------------------------------
(* What the rules ask for.                                                 *)

\* A glob matches as a regular expression does.
GlobCovers(pattern, text) ==
    LET Covers[i \in 1 .. Len(pattern) + 1, j \in 1 .. Len(text) + 1] ==
            IF i > Len(pattern) THEN j > Len(text)
            ELSE IF pattern[i] = "*" THEN \E k \in j .. Len(text) + 1 : Covers[i + 1, k]
            ELSE j <= Len(text) /\ CharMatch(pattern[i], text[j]) /\ Covers[i + 1, j + 1]
    IN Covers[1, 1]

\* "*.x" and "x" are x and the domains in it; "x.*" are the domains that begin with x.
DomainCovers(pattern, domain) ==
    LET p == Labels(pattern)
        d == Labels(domain)
    IN CASE p[1] = <<"*">> -> IsSuffix(Tail(p), d)
         [] p[1] # <<"*">> /\ Last(p) = <<"*">> -> Len(d) >= Len(p) /\ IsPrefix(Front(p), d)
         [] OTHER -> IsSuffix(p, d)

Covers(rule, e) ==
    /\ DomainCovers(rule.domain, Domain(e.url))
    /\ rule.type = "path" => Path(e.url) # <<>> /\ GlobCovers(rule.pattern, Path(e.url))

\* What there is of the lines: of one that is longer than the buffer the part that fits.
Seen == ReadLines(lines)

\* The i-th line is in a section of this name.
InSection(i, name) ==
    LET heads == {j \in 1 .. i - 1 : Seen[j].kind = "section"}
    IN heads # {} /\ SameText(Seen[Max(heads)].name, name)

\* What the i-th line lists for the category of this name.
ListedAt(i, name, kinds) ==
    LET list == Seen[i].list
    IN IF Seen[i].kind \in kinds /\ InSection(i, name)
       THEN IF Seen[i].kind = "path" THEN <<Seen[i].name>>
            ELSE Selected(list, {n \in DOMAIN list : list[n] # <<>>})
       ELSE <<>>

Listed(name, kinds) == FlattenSeq([i \in DOMAIN lines |-> ListedAt(i, name, kinds)])

\* What it has from the start.
FromStart(name) == {c \in DOMAIN Builtin : SameText(Builtin[c].name, name)}
DomainsOf(rules) == [i \in DOMAIN rules |-> rules[i].domain]
StartDomains(name)  == IF FromStart(name) = {} THEN <<>> ELSE DomainsOf(Builtin[Min(FromStart(name))].rules)
StartKeywords(name) == IF FromStart(name) = {} THEN <<>> ELSE Builtin[Min(FromStart(name))].keywords

Named == {Seen[i].name : i \in {i \in DOMAIN lines : Seen[i].kind = "section"}}

-----------------------------------------------------------------------------
(* Properties of the reports.                                              *)

\* HitsAsAsked: a search finds just what its words ask for, of the terms and filters
\* that are read, as far as results are kept, in the order of the entries: negation, AND
\* and OR hold from left to right over any sequence of words (search_parse_query,
\* search_execute).
HitsAsAsked ==
    (stage = "done" /\ command.search /\ result # <<>>) =>
        LET wanted == SelectSeq([i \in DOMAIN result |-> i], LAMBDA i : Wants(result[i]))
        IN /\ {hits[n].entry_idx : n \in DOMAIN hits} = ToSet(FirstOf(wanted, MaxResults))
           /\ Len(hits) = Len(FirstOf(wanted, MaxResults))

\* BestFirst: hits come in the order of their scores, those that tie in the order of the
\* entries, and an entry that is at least as good in all that is scored is not behind
\* (search_compute_score, search_execute).
BestFirst ==
    \A n \in DOMAIN hits : \A m \in DOMAIN hits : n < m =>
        LET first == result[hits[n].entry_idx]
            later == result[hits[m].entry_idx]
        IN /\ hits[n].score \in hits[m].score .. 20
           /\ hits[n].score = hits[m].score => hits[n].entry_idx < hits[m].entry_idx
           /\ AtLeastAs(later, first) => hits[m].score = hits[n].score

\* RulesInTheirSection: what is read of the lines of a section is in the category of its
\* name, and nothing else is, in its order and as far as there is room, also if the
\* section is opened twice or a section before it had no room.  Of a long line only the
\* part that fits a buffer is read, so its last item may be the beginning of one that the
\* file lists: "domains = ..., example.com" can make a rule for "exam"
\* (cat_engine_load_rules_buffer).
RulesInTheirSection ==
    /\ \A c \in DOMAIN categories :
        LET cat == categories[c]
        IN /\ \A d \in DOMAIN categories : SameText(categories[d].name, cat.name) => d = c
           /\ DomainsOf(cat.rules) =
                FirstOf(StartDomains(cat.name) \o Listed(cat.name, {"domains", "path"}), MaxRules)
           /\ cat.keywords = FirstOf(StartKeywords(cat.name) \o Listed(cat.name, {"keywords"}), MaxKeywords)
    /\ (lines # <<>> /\ Len(categories) < MaxCategories) =>
          \A name \in Named : \E c \in DOMAIN categories : SameText(categories[c].name, name)

\* CountedWhereCovered: a page with a host counts in the first category with a rule that
\* covers it, else in the first with a keyword in its title; a page without a host, a file
\* say, counts in none, whatever its title; and the counts of the categories add up to the
\* statistics of all entries (cat_categorize_url, cat_categorize_all,
\* history_compute_stats).
CountedWhereCovered ==
    LET ruled(e) == {c \in DOMAIN categories : \E i \in DOMAIN categories[c].rules : Covers(categories[c].rules[i], e)}
        named(e) == {c \in DOMAIN categories : e.title # <<>> /\
                        \E i \in DOMAIN categories[c].keywords : Found(categories[c].keywords[i], e.title)}
        category(e) == CASE Domain(e.url) = <<>> \/ ruled(e) \cup named(e) = {} -> 0
                         [] Domain(e.url) # <<>> /\ ruled(e) # {} -> Min(ruled(e))
                         [] OTHER -> Min(named(e))
        sum(part) == Total([i \in 1 .. Len(categories) + 1 |-> part[i - 1]])
    IN (cat_stats # <<>> /\ stage = "search") =>
        /\ \A c \in DOMAIN cat_stats :
             LET mine == {i \in DOMAIN result : category(result[i]) = c}
             IN /\ cat_stats[c].url_count = Cardinality(mine)
                /\ cat_stats[c].top_domain_visits = Max({0} \cup {result[i].visit_count : i \in mine})
                /\ cat_stats[c].top_domain_visits > 0 => \E i \in mine :
                      /\ Domain(result[i].url) = cat_stats[c].top_domain
                      /\ result[i].visit_count = cat_stats[c].top_domain_visits
        /\ sum([c \in DOMAIN cat_stats |-> cat_stats[c].url_count]) = stats.total_urls
        /\ sum([c \in DOMAIN cat_stats |-> cat_stats[c].total_visits]) = stats.total_visits
        /\ Max({cat_stats[c].top_domain_visits : c \in DOMAIN cat_stats}) = stats.most_visited_count
        /\ Cardinality({cat_stats[c].top_domain : c \in DOMAIN cat_stats} \ {<<>>}) <= stats.unique_domains
=============================================================================
