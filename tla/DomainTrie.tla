----------------------------- MODULE DomainTrie -----------------------------
(***************************************************************************)
(* The trie of domain names (c/domain_trie.c).  A name is split at its     *)
(* dots and stored from the top-level label downward.                      *)
(*                                                                         *)
(* The trie is the sequence of its nodes in depth-first order, children in *)
(* the order they were added, the root first.  A node is told by the labels*)
(* on the way to it; trie_compact joins labels, hence a label is a sequence*)
(* of the parts it was joined from.  Subtree counts are recomputed whenever*)
(* they are read and are no state here; labels are short enough to be kept *)
(* whole and counts fit 32 bits.                                           *)
(***************************************************************************)
EXTENDS Integers, Sequences, FiniteSets, SequencesExt, FiniteSetsExt

CONSTANTS
    Part,           \* what can stand between two dots
    Empty,          \* nothing between two dots
    LowerCase,      \* LowerCase[part]: the part in lower case
    Domains,        \* the names given to the trie
    MaxDepth,       \* TRIE_MAX_DEPTH (16)
    MaxChildren,    \* TRIE_MAX_CHILDREN (64)
    MaxTopK,        \* TRIE_TOPK_MAX (32)
    OutOfMemory,    \* whether calloc may fail
    Counts,         \* the counts given with a name
    MaxInserts, MaxCompactions  \* bounds

ASSUME TrieAssumption ==
    /\ Empty \notin Part
    /\ LowerCase \in [Part -> Part] /\ \A p \in Part : LowerCase[LowerCase[p]] = LowerCase[p]
    /\ Domains \subseteq Seq(Part \cup {Empty})
    /\ {MaxDepth, MaxChildren, MaxTopK} \subseteq Nat \ {0}
    /\ OutOfMemory \in BOOLEAN
    /\ Counts \subseteq Nat
    /\ MaxInserts \in Nat
    \* No caller compacts a trie again: what is inserted in between could make two
    \* children of one label, which paths do not tell apart.
    /\ MaxCompactions \in {0, 1}

VARIABLES
    trie,           \* the nodes
    totals,         \* total_nodes, total_domains, total_urls, total_visits
    inserted,       \* for the properties: what trie_insert has accepted
    compactions     \* counts the calls of trie_compact

vars == <<trie, totals, inserted, compactions>>

Node == [path : Seq(Seq(Part)), urls : Nat, visits : Nat, is_terminal : BOOLEAN]

NodeCreate(path) == [path |-> path, urls |-> 0, visits |-> 0, is_terminal |-> FALSE]

-----------------------------------------------------------------------------
(* Names and paths.                                                        *)

\* split_domain_reverse: of a name too deep for the trie, the first labels count.
SplitDomainReverse(domain) ==
    Reverse(FoldLeft(LAMBDA labels, l : IF l = Empty \/ Len(labels) = MaxDepth THEN labels
                                        ELSE Append(labels, LowerCase[l]),
                     <<>>, domain))

\* The path of the first n labels.
PathOf(labels, n) == [i \in 1..n |-> <<labels[i]>>]

\* The index of the node at a path, 0 if there is none.
At(t, path) == SelectInSeq(t, LAMBDA n : n.path = path)

Under(t, path) == {i \in DOMAIN t : IsPrefix(path, t[i].path)}
Children(t, path) == {i \in Under(t, path) : Len(t[i].path) = Len(path) + 1}

-----------------------------------------------------------------------------
(* trie_insert                                                             *)

\* How many of the labels find_child finds, one below the other.
Known(t, labels) ==
    Max({n \in 0..Len(labels) : At(t, PathOf(labels, n)) # 0})

\* Nodes for the labels from k + 1 to n, behind all that is under the label k.
Grown(t, labels, k, n) ==
    LET last == Max(Under(t, PathOf(labels, k)))
    IN SubSeq(t, 1, last)
         \o [i \in 1 .. n - k |-> NodeCreate(PathOf(labels, k + i))]
         \o SubSeq(t, last + 1, Len(t))

\* The tries an insert that returns -1 leaves: the nodes added up to the one that
\* the child limit or the lack of memory forbids.
FailedInserts(t, labels) ==
    LET k    == Known(t, labels)
        full == Cardinality(Children(t, PathOf(labels, k))) >= MaxChildren
    IN IF labels = <<>> \/ (k < Len(labels) /\ full) THEN {t}
       ELSE IF OutOfMemory THEN {Grown(t, labels, k, n) : n \in k .. Len(labels) - 1}
       ELSE {}

CanInsert(t, labels) ==
    LET k == Known(t, labels)
    IN labels # <<>> /\ (k < Len(labels) =>
            Cardinality(Children(t, PathOf(labels, k))) < MaxChildren)

\* Mutant: the counts replace those of an earlier insert.
Overwritten(t, i, urls, visits) ==
    [t EXCEPT ![i].is_terminal = TRUE, ![i].urls = urls, ![i].visits = visits]

Marked(t, i, urls, visits) ==
    [t EXCEPT ![i].is_terminal = TRUE, ![i].urls = @ + urls, ![i].visits = @ + visits]

Inserted(t, labels) == Grown(t, labels, Known(t, labels), Len(labels))

Insert(domain, urls, visits) ==
    LET labels == SplitDomainReverse(domain)
        grown  == Inserted(trie, labels)
        i      == At(grown, PathOf(labels, Len(labels)))
    IN /\ Len(inserted) < MaxInserts
       /\ \/ /\ CanInsert(trie, labels)
             /\ trie' = Marked(grown, i, urls, visits)
             /\ totals' = [nodes   |-> totals.nodes + Len(grown) - Len(trie),
                           domains |-> totals.domains + IF grown[i].is_terminal THEN 0 ELSE 1,
                           urls    |-> totals.urls + urls,
                           visits  |-> totals.visits + visits]
             /\ inserted' = Append(inserted, [labels |-> labels, urls |-> urls,
                                              visits |-> visits, after |-> compactions])
          \/ /\ trie' \in FailedInserts(trie, labels)
             /\ totals' = [totals EXCEPT !.nodes = @ + Len(trie') - Len(trie)]
             /\ UNCHANGED inserted
       /\ UNCHANGED compactions

-----------------------------------------------------------------------------
(* Queries.                                                                *)

\* Mutant: any node on the way to a name is found.
LookupAny(t, domain) ==
    LET labels == SplitDomainReverse(domain)
    IN IF labels = <<>> THEN 0 ELSE At(t, PathOf(labels, Len(labels)))

\* trie_lookup: the node of a name, if it was inserted as such
Lookup(t, domain) ==
    LET labels == SplitDomainReverse(domain)
        i      == At(t, PathOf(labels, Len(labels)))
    IN IF labels = <<>> \/ i = 0 THEN 0 ELSE IF t[i].is_terminal THEN i ELSE 0

\* propagate_subtree_counts
SubtreeUrls(t, i)   == MapThenSumSet(LAMBDA j : t[j].urls, Under(t, t[i].path))
SubtreeVisits(t, i) == MapThenSumSet(LAMBDA j : t[j].visits, Under(t, t[i].path))

\* trie_aggregate; nothing if the name is not in the trie
Aggregate(t, domain) ==
    LET labels == SplitDomainReverse(domain)
        i      == At(t, PathOf(labels, Len(labels)))
    IN IF labels = <<>> \/ i = 0 THEN {}
       ELSE {[urls |-> SubtreeUrls(t, i), visits |-> SubtreeVisits(t, i)]}

\* trie_unique_count
UniqueCount(t) == Cardinality({i \in DOMAIN t : t[i].is_terminal})

\* Mutant: an entry goes in front of those with as many visits or more.
TopkInsertInFront(results, k, e) ==
    LET ahead == SelectInSeq(results, LAMBDA r : r.visits > e.visits)
    IN IF Len(results) < k THEN InsertAt(results, ahead + 1, e) ELSE results

\* topk_insert: behind all that have as many visits, the last one falls out
TopkInsert(results, k, e) ==
    LET pos  == SelectInSeq(results, LAMBDA r : e.visits > r.visits)
        with == IF pos = 0 THEN Append(results, e) ELSE InsertAt(results, pos, e)
    IN SubSeq(with, 1, IF Len(with) > k THEN k ELSE Len(with))

\* topk_traverse puts each label in front of those above it.
DomainOf(node) == FlattenSeq(Reverse(node.path))

TopK(t, asked) ==
    LET k == IF asked > MaxTopK THEN MaxTopK ELSE asked
    IN FoldLeft(LAMBDA results, n :
                    IF ~n.is_terminal THEN results
                    ELSE TopkInsert(results, k,
                            [domain |-> DomainOf(n), urls |-> n.urls, visits |-> n.visits]),
                <<>>, Tail(t))

-----------------------------------------------------------------------------
(* trie_compact: a node below the root that is no name and has one child   *)
(* takes over that child, its counts and its children, again and again.    *)

Absorbs(t, path) ==
    /\ path # <<>>
    /\ Cardinality(Children(t, path)) = 1
    /\ ~t[At(t, path)].is_terminal

\* The path of a node when those above it have absorbed what they absorb: a label
\* grows as long as its node absorbs the next one.
JoinedPath(t, path) ==
    LET Joined[n \in 0 .. Len(path)] ==
            IF n = 0 THEN <<>>
            ELSE IF Absorbs(t, SubSeq(path, 1, n - 1))
            THEN Append(Front(Joined[n - 1]), Last(Joined[n - 1]) \o path[n])
            ELSE Append(Joined[n - 1], path[n])
    IN Joined[Len(path)]

\* Mutant: the node keeps its own counts and loses its child's.
Forgetful(t) ==
    FoldLeft(LAMBDA nodes, n :
                IF Absorbs(t, n.path) THEN nodes
                ELSE Append(nodes, [n EXCEPT !.path = JoinedPath(t, @),
                                             !.visits = IF Len(JoinedPath(t, n.path)) = Len(n.path)
                                                        THEN @ ELSE 0]),
             <<>>, t)

\* Of a chain of nodes that absorb the next one, the last one's counts and
\* children are left, in the place of the first.
Compacted(t) ==
    FoldLeft(LAMBDA nodes, n : IF Absorbs(t, n.path) THEN nodes
                               ELSE Append(nodes, [n EXCEPT !.path = JoinedPath(t, @)]),
             <<>>, t)

Compact ==
    /\ compactions < MaxCompactions
    /\ compactions' = compactions + 1
    /\ trie' = Compacted(trie)
    /\ totals' = [totals EXCEPT !.nodes = UniqueCount(trie')]
    /\ UNCHANGED inserted

-----------------------------------------------------------------------------
(* Serialization: the nodes in depth-first order, each with its last label *)
(* and the number of its children.                                         *)

Serialize(t) ==
    [i \in DOMAIN t |->
        [label |-> IF t[i].path = <<>> THEN <<>> ELSE Last(t[i].path),
         urls |-> t[i].urls, visits |-> t[i].visits, is_terminal |-> t[i].is_terminal,
         child_count |-> Cardinality(Children(t, t[i].path))]]

\* Mutant: a record goes to the outermost node that lacks a child.
Outermost(stack) == SelectInSeq(stack, LAMBDA f : f.missing > 0)

\* deserialize_node keeps on the call stack how many children each node above
\* still lacks; a record belongs to the deepest of them.
Open(stack) == SelectLastInSeq(stack, LAMBDA f : f.missing > 0)

Deserialize(records) ==
    LET Read(state, r) ==
            LET up     == Open(state.stack)
                parent == state.stack[up]
                path   == IF up = 0 THEN <<>> ELSE Append(parent.path, r.label)
                rest   == IF up = 0 THEN <<>>
                          ELSE Append(SubSeq(state.stack, 1, up - 1),
                                      [parent EXCEPT !.missing = @ - 1])
            IN [nodes |-> Append(state.nodes,
                            [path |-> path, urls |-> r.urls, visits |-> r.visits,
                             is_terminal |-> r.is_terminal]),
                stack |-> Append(rest, [path |-> path, missing |-> r.child_count])]
    IN FoldLeft(Read, [nodes |-> <<>>, stack |-> <<>>], records).nodes

\* The counts in a header that trie_deserialize refuses.
Refused(header) == header.domains > header.nodes

\* A trie is written and a new one read from it, whose totals are recounted.
Reload ==
    /\ ~Refused(totals)
    /\ trie' = Deserialize(Serialize(trie))
    /\ totals' = [nodes |-> Len(trie'), domains |-> totals.domains,
                  urls |-> SubtreeUrls(trie', 1), visits |-> SubtreeVisits(trie', 1)]
    /\ UNCHANGED <<inserted, compactions>>

-----------------------------------------------------------------------------
\* trie_create
Init ==
    /\ trie = <<NodeCreate(<<>>)>>
    /\ totals = [nodes |-> 1, domains |-> 0, urls |-> 0, visits |-> 0]
    /\ inserted = <<>>
    /\ compactions = 0

Next ==
    \/ \E domain \in Domains, urls, visits \in Counts : Insert(domain, urls, visits)
    \/ Compact
    \/ Reload
=============================================================================
