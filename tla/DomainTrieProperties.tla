------------------------ MODULE DomainTrieProperties ------------------------
(* What the domain trie of DomainTrie.tla answers, against the list of the *)
(* names it has accepted.                                                  *)
EXTENDS DomainTrie

\* Every variable has the type its declaration says.
TypeOK ==
    /\ trie \in Seq(Node)
    /\ totals \in [nodes : Nat, domains : Nat, urls : Nat, visits : Nat]
    /\ compactions \in Nat

-----------------------------------------------------------------------------
InsertedAs(labels) == {i \in DOMAIN inserted : inserted[i].labels = labels}
InsertedUnder(labels) == {i \in DOMAIN inserted : IsPrefix(labels, inserted[i].labels)}
UrlsOf(S)   == MapThenSumSet(LAMBDA i : inserted[i].urls, S)
VisitsOf(S) == MapThenSumSet(LAMBDA i : inserted[i].visits, S)

\* The names accepted so far, as paths of labels.
Accepted == {inserted[i].labels : i \in DOMAIN inserted}

\* No name was accepted since the trie was compacted.
AllBefore == \A i \in DOMAIN inserted : inserted[i].after = 0

\* The totals kept beside the trie count what is in it, and unless a name was accepted
\* after a compaction the header they make is one that can be read.
TotalsAgree ==
    /\ totals.domains = UniqueCount(trie)
    /\ totals.urls = SubtreeUrls(trie, 1) /\ totals.urls = UrlsOf(DOMAIN inserted)
    /\ totals.visits = SubtreeVisits(trie, 1) /\ totals.visits = VisitsOf(DOMAIN inserted)
    /\ compactions = 0 => totals.nodes = Len(trie)
    /\ AllBefore => ~Refused(totals) /\ totals.domains = Cardinality(Accepted)

\* WellFormed: whatever inserts fail half way and whatever is compacted or reloaded,
\* the nodes are a tree, each once, below its parent and before its next sibling,
\* within the limit of children (domain_trie.c:96-117, 307-345); and the totals count
\* the nodes, names, URLs and visits in it (domain_trie.c:391-409, 511-513).
WellFormed ==
  /\ TypeOK /\ TotalsAgree
  /\ \A i \in DOMAIN trie :
        LET path == trie[i].path
        IN /\ Cardinality({j \in DOMAIN trie : trie[j].path = path}) = 1
           /\ path # <<>> =>
                LET up == At(trie, Front(path))
                IN up \in 1 .. i - 1 /\ (up .. i) \subseteq Under(trie, Front(path))
           /\ Cardinality(Children(trie, path)) <= MaxChildren

\* FindsItsNames: until it is compacted, the trie finds a name exactly if it has
\* accepted one with the same labels, with the sum of its counts, and "total URL count
\* for domain + subdomains" (domain_trie.h:100) is the sum over all names accepted at or
\* below it; a failed insert leaves no name behind (domain_trie.c:391, 411-452).
FindsItsNames ==
    compactions = 0 =>
        \A domain \in Domains :
            LET labels == SplitDomainReverse(domain)
                i      == Lookup(trie, domain)
                below  == InsertedUnder(labels)
            IN /\ IF labels \notin Accepted THEN i = 0
                  ELSE /\ i # 0
                       /\ trie[i].urls = UrlsOf(InsertedAs(labels))
                       /\ trie[i].visits = VisitsOf(InsertedAs(labels))
               /\ Aggregate(trie, domain) \subseteq {[urls |-> UrlsOf(below), visits |-> VisitsOf(below)]}

\* TopIsTop: "Extract the top-K domains by visit count" (domain_trie.h:107): sorted,
\* as many as there are up to k, none left out that has more visits, and until the trie
\* is compacted each once and under its name.
TopIsTop ==
    \A k \in 1 .. MaxTopK + 1 :
        LET top    == TopK(trie, k)
            counts == {i \in DOMAIN trie : trie[i].is_terminal}
            fits   == Min({k, MaxTopK, Cardinality(counts)})
        IN /\ Len(top) = fits
           /\ \A i, j \in DOMAIN top : i < j => top[i].visits >= top[j].visits
           /\ top # <<>> =>
                Cardinality({i \in counts : trie[i].visits > Last(top).visits}) < fits
           /\ compactions = 0 =>
                /\ IsInjective([i \in DOMAIN top |-> top[i].domain])
                /\ \A i \in DOMAIN top :
                    /\ Reverse(top[i].domain) \in Accepted
                    /\ top[i].visits = VisitsOf(InsertedAs(Reverse(top[i].domain)))

\* ReadsWhatItWrites: a trie read from what trie_serialize wrote is the same trie,
\* compacted or not (domain_trie.c:206-303).
ReadsWhatItWrites == Deserialize(Serialize(trie)) = trie

\* CompactionKeeps: compaction makes the trie smaller or leaves it, loses no name and
\* no count, and leaves nothing to compact (domain_trie.c:300-345).
CompactionKeeps ==
    [][compactions' # compactions =>
        /\ Len(trie') <= Len(trie)
        /\ UniqueCount(trie') = UniqueCount(trie)
        /\ SubtreeUrls(trie', 1) = SubtreeUrls(trie, 1)
        /\ SubtreeVisits(trie', 1) = SubtreeVisits(trie, 1)
        /\ \A i \in DOMAIN trie' : ~Absorbs(trie', trie'[i].path)]_vars
=============================================================================
