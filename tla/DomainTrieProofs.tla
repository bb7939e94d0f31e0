-------------------------- MODULE DomainTrieProofs --------------------------
(* Proofs about DomainTrie.tla as DomainReport.tla drives it: whatever is   *)
(* inserted, compacted or reloaded, the nodes are a tree in depth-first     *)
(* order, a trie read is the trie written, names are found with the sum of  *)
(* their counts, compaction keeps them, and the most visited are listed     *)
(* right, for all names and limits.                                         *)
EXTENDS DomainReport, SumLemmas

-----------------------------------------------------------------------------
(* Trees.                                                                  *)

Path == Seq(Seq(Part))

\* Node u is the parent of node i, and all that stands between them is below it.
ParentOf(t, u, i) ==
    /\ u \in 1 .. i - 1
    /\ t[u].path = Front(t[i].path)
    /\ \A j \in u .. i : IsPrefix(t[u].path, t[j].path)

\* The nodes are in depth-first order, each once, and all but the root have a parent.
Tree(t) ==
    /\ t \in Seq(Node) /\ t # <<>>
    /\ t[1].path = <<>>
    /\ \A i, j \in DOMAIN t : t[i].path = t[j].path => i = j
    /\ \A i \in DOMAIN t : i # 1 => \E u : ParentOf(t, u, i)

LEMMA Limits ==
    /\ MaxDepth \in Nat \ {0} /\ MaxChildren \in Nat \ {0} /\ MaxTopK \in Nat \ {0}
    /\ Counts \subseteq Nat /\ MaxCompactions \in {0, 1}
BY TrieAssumption

LEMMA TreeFacts ==
    ASSUME NEW t, Tree(t)
    PROVE  /\ Len(t) \in Nat \ {0} /\ DOMAIN t = 1 .. Len(t) /\ IsFiniteSet(DOMAIN t)
           /\ \A i \in DOMAIN t : t[i] \in Node /\ t[i].path \in Path
           /\ 1 \in DOMAIN t /\ t[1].path = <<>>
<1>1. t \in Seq(Node) /\ t # <<>> /\ t[1].path = <<>>
  BY DEF Tree
<1>2. Len(t) \in Nat \ {0}
  BY <1>1, EmptySeq
<1>3. DOMAIN t = 1 .. Len(t)
  BY <1>1, LenProperties
<1>4. \A i \in DOMAIN t : t[i] \in Node
  BY <1>1, <1>3, ElementOfSeq
<1>5. IsFiniteSet(DOMAIN t)
  BY <1>2, <1>3, FS_Interval
<1>. QED
  BY <1>1, <1>2, <1>3, <1>4, <1>5 DEF Node, Path

LEMMA AtFacts ==
    ASSUME NEW t \in Seq(Node), NEW p
    PROVE  \/ At(t, p) = 0 /\ \A i \in DOMAIN t : t[i].path # p
           \/ At(t, p) \in DOMAIN t /\ t[At(t, p)].path = p
<1> DEFINE I == {i \in 1 .. Len(t) : t[i].path = p}
<1>1. At(t, p) = IF I # {} THEN Min(I) ELSE 0
  BY DEF At, SelectInSeq
<1>2. Len(t) \in Nat /\ DOMAIN t = 1 .. Len(t)
  BY LenProperties
<1>3. CASE I = {}
  BY <1>1, <1>2, <1>3
<1>4. CASE I # {}
  <2>1. I \in SUBSET Nat
    BY <1>2
  <2> HIDE DEF I
  <2>2. Min(I) \in I
    BY <1>4, <2>1, MinFacts
  <2>. QED
    BY <1>1, <1>2, <1>4, <2>2 DEF I
<1>. QED
  BY <1>3, <1>4

LEMMA AtNode ==
    ASSUME NEW t, Tree(t), NEW i \in DOMAIN t
    PROVE  At(t, t[i].path) = i
<1>1. t \in Seq(Node) /\ \A j \in DOMAIN t : t[i].path = t[j].path => i = j
  BY DEF Tree
<1>. QED
  BY <1>1, AtFacts

\* Above every node stand the nodes of all beginnings of its path.
LEMMA PrefixesPresent ==
    ASSUME NEW t, Tree(t), NEW i \in DOMAIN t, NEW p \in Path, IsPrefix(p, t[i].path)
    PROVE  \E a \in 1 .. i : a \in DOMAIN t /\ t[a].path = p
<1> DEFINE P == {k \in Nat : k \in DOMAIN t /\ IsPrefix(p, t[k].path) =>
                                 \E a \in 1 .. k : a \in DOMAIN t /\ t[a].path = p}
<1>1. PICK N \in Nat : N = Len(t)
  BY TreeFacts
<1>2. ASSUME NEW m \in 0 .. N, \A k \in 0 .. m - 1 : k \in P
      PROVE  m \in P
  <2> SUFFICES ASSUME m \in DOMAIN t, IsPrefix(p, t[m].path), p # t[m].path
               PROVE  \E a \in 1 .. m : a \in DOMAIN t /\ t[a].path = p
    <3>1. m \in DOMAIN t => m \in 1 .. m
      BY TreeFacts
    <3>. QED
      BY <3>1
  <2>1. PICK q \in Path : q = t[m].path
    BY TreeFacts
  <2>2. q # <<>> /\ IsPrefix(p, Front(q))
    BY <2>1, StrictPrefix DEF Path
  <2>3. m # 1
    BY <2>1, <2>2, TreeFacts
  <2>4. PICK u : ParentOf(t, u, m)
    BY <2>3 DEF Tree
  <2>5. u \in 1 .. m - 1 /\ u \in DOMAIN t /\ u \in 0 .. m - 1 /\ u \in Nat
    BY <2>4, TreeFacts DEF ParentOf
  <2>6. u \in P /\ IsPrefix(p, t[u].path)
    BY <1>2, <2>1, <2>2, <2>4, <2>5 DEF ParentOf
  <2>7. \E a \in 1 .. u : a \in DOMAIN t /\ t[a].path = p
    BY <2>5, <2>6
  <2>. QED
    BY <2>5, <2>7
<1>3. i \in 0 .. N /\ i \in 1 .. N
  BY <1>1, TreeFacts
<1> HIDE DEF P
<1>4. i \in P
  BY <1>2, <1>3, CourseOfValues
<1>. QED
  BY <1>3, <1>4 DEF P

\* From a node to one below it, all nodes are below it.
LEMMA Interval ==
    ASSUME NEW t, Tree(t), NEW a \in DOMAIN t, NEW i \in DOMAIN t, IsPrefix(t[a].path, t[i].path)
    PROVE  a <= i /\ \A j \in a .. i : j \in DOMAIN t /\ IsPrefix(t[a].path, t[j].path)
<1> DEFINE P == {k \in Nat : k \in DOMAIN t /\ IsPrefix(t[a].path, t[k].path) =>
                                 a <= k /\ \A j \in a .. k : IsPrefix(t[a].path, t[j].path)}
<1>1. PICK N \in Nat : N = Len(t)
  BY TreeFacts
<1>2. PICK p \in Path : p = t[a].path
  BY TreeFacts
<1>0. a \in Nat /\ DOMAIN t = 1 .. N
  BY <1>1, TreeFacts
<1>3. ASSUME NEW m \in 0 .. N, \A k \in 0 .. m - 1 : k \in P
      PROVE  m \in P
  <2> SUFFICES ASSUME m \in DOMAIN t, IsPrefix(p, t[m].path)
               PROVE  a <= m /\ \A j \in a .. m : IsPrefix(p, t[j].path)
    BY <1>2
  <2>1. PICK q \in Path : q = t[m].path
    BY TreeFacts
  <2>2. CASE p = q
    <3>1. a = m
      BY <1>2, <2>1, <2>2 DEF Tree
    <3>2. \A j \in a .. m : j = m
      BY <1>0, <3>1
    <3>. QED
      BY <1>0, <3>1, <3>2
  <2>3. CASE p # q
    <3>1. q # <<>> /\ IsPrefix(p, Front(q))
      BY <2>1, <2>3, StrictPrefix DEF Path
    <3>2. m # 1
      BY <2>1, <3>1, TreeFacts
    <3>3. PICK u : ParentOf(t, u, m)
      BY <3>2 DEF Tree
    <3>4. u \in 1 .. m - 1 /\ u \in DOMAIN t /\ u \in 0 .. m - 1 /\ u \in Nat
      BY <1>0, <3>3 DEF ParentOf
    <3>5. PICK r \in Path : r = t[u].path /\ r = Front(q)
      BY <2>1, <3>3, <3>4, TreeFacts DEF ParentOf
    <3>6. a <= u /\ \A j \in a .. u : IsPrefix(p, t[j].path)
      BY <1>2, <1>3, <3>1, <3>4, <3>5
    <3>7. ASSUME NEW j \in u .. m
          PROVE  IsPrefix(p, t[j].path)
      <4>1. j \in DOMAIN t
        BY <1>0, <3>4
      <4>2. PICK s \in Path : s = t[j].path
        BY <4>1, TreeFacts
      <4>3. IsPrefix(r, s)
        BY <3>3, <3>5, <4>2 DEF ParentOf
      <4>4. IsPrefix(p, s)
        BY <3>1, <3>5, <4>3, PrefixTransitive DEF Path
      <4>. QED
        BY <4>2, <4>4
    <3>8. \A j \in a .. m : j \in a .. u \/ j \in u .. m
      BY <1>0, <3>4
    <3>. QED
      BY <1>0, <3>4, <3>6, <3>7, <3>8
  <2>. QED
    BY <2>2, <2>3
<1>4. i \in 0 .. N /\ i \in Nat
  BY <1>0
<1> HIDE DEF P
<1>5. \A k \in 0 .. N : k \in P
  BY <1>3, CourseOfValues
<1>6. a <= i /\ \A j \in a .. i : IsPrefix(t[a].path, t[j].path)
  BY <1>4, <1>5 DEF P
<1>7. \A j \in a .. i : j \in DOMAIN t
  BY <1>0
<1>. QED
  BY <1>6, <1>7

-----------------------------------------------------------------------------
(* The paths of names.                                                     *)

LEMMA PathOfFacts ==
    ASSUME NEW labels \in Seq(Part), NEW n \in 0 .. Len(labels)
    PROVE  /\ PathOf(labels, n) \in Path /\ Len(PathOf(labels, n)) = n
           /\ \A i \in 1 .. n : PathOf(labels, n)[i] = <<labels[i]>>
           /\ n = 0 => PathOf(labels, n) = <<>>
           /\ n # 0 => PathOf(labels, n) # <<>> /\ Front(PathOf(labels, n)) = PathOf(labels, n - 1)
<1>1. Len(labels) \in Nat /\ n \in Nat
  BY LenProperties
<1>2. ASSUME NEW k \in 0 .. Len(labels)
      PROVE  /\ PathOf(labels, k) \in Path /\ Len(PathOf(labels, k)) = k
             /\ \A i \in 1 .. k : PathOf(labels, k)[i] = <<labels[i]>>
  <2>1. \A i \in 1 .. k : <<labels[i]>> \in Seq(Part)
    <3>1. \A i \in 1 .. k : labels[i] \in Part
      BY <1>1, ElementOfSeq
    <3>. QED
      BY <3>1
  <2>2. PathOf(labels, k) \in [1 .. k -> Seq(Part)]
    BY <2>1 DEF PathOf
  <2>3. k \in Nat
    BY <1>1
  <2>4. PathOf(labels, k) \in Seq(Seq(Part)) /\ Len(PathOf(labels, k)) = k
    BY <2>2, <2>3
  <2>. QED
    BY <2>4 DEF Path, PathOf
<1>3. n = 0 => PathOf(labels, n) = <<>>
  BY <1>2, EmptySeq DEF Path
<1>4. ASSUME n # 0
      PROVE  PathOf(labels, n) # <<>> /\ Front(PathOf(labels, n)) = PathOf(labels, n - 1)
  <2>1. n - 1 \in 0 .. Len(labels)
    BY <1>1, <1>4
  <2>2. PICK p \in Path, q \in Path : p = PathOf(labels, n) /\ q = PathOf(labels, n - 1)
    BY <1>2, <2>1
  <2>3. /\ Len(p) = n /\ Len(q) = n - 1
        /\ \A i \in 1 .. n - 1 : q[i] = <<labels[i]>> /\ p[i] = <<labels[i]>>
    BY <1>1, <1>2, <2>1, <2>2
  <2>4. p # <<>>
    BY <1>4, <2>3, EmptySeq
  <2>5. Front(p) \in Seq(Seq(Part)) /\ Len(Front(p)) = n - 1 /\ \A i \in 1 .. n - 1 : Front(p)[i] = p[i]
    BY <2>3, <2>4, FrontFacts DEF Path
  <2>6. Front(p) = q
    BY <2>3, <2>5, SeqEqual DEF Path
  <2>. QED
    BY <2>2, <2>4, <2>6
<1>. QED
  BY <1>2, <1>3, <1>4

LEMMA PathOfPrefix ==
    ASSUME NEW labels \in Seq(Part), NEW n \in 0 .. Len(labels)
    PROVE  /\ \A m \in 0 .. n : IsPrefix(PathOf(labels, m), PathOf(labels, n))
           /\ \A p \in Path : IsPrefix(p, PathOf(labels, n)) =>
                                 Len(p) \in 0 .. n /\ p = PathOf(labels, Len(p))
<1>1. Len(labels) \in Nat /\ n \in Nat
  BY LenProperties
<1>2. PICK q \in Path : /\ q = PathOf(labels, n) /\ Len(q) = n
                        /\ \A i \in 1 .. n : q[i] = <<labels[i]>>
  BY PathOfFacts
<1>3. ASSUME NEW m \in 0 .. n
      PROVE  IsPrefix(PathOf(labels, m), q)
  <2>1. PICK p \in Path : /\ p = PathOf(labels, m) /\ Len(p) = m
                          /\ \A i \in 1 .. m : p[i] = <<labels[i]>>
    BY <1>1, PathOfFacts
  <2>2. Len(p) <= Len(q) /\ \A i \in 1 .. Len(p) : p[i] = q[i]
    BY <1>1, <1>2, <2>1
  <2>. QED
    BY <2>1, <2>2, PrefixPointwise DEF Path
<1>4. ASSUME NEW p \in Path, IsPrefix(p, q)
      PROVE  Len(p) \in 0 .. n /\ p = PathOf(labels, Len(p))
  <2>1. Len(p) \in 0 .. n
    BY <1>2, <1>4, PrefixIsPart DEF Path
  <2>2. PICK r \in Path : /\ r = PathOf(labels, Len(p)) /\ Len(r) = Len(p)
                          /\ \A i \in 1 .. Len(p) : r[i] = <<labels[i]>>
    BY <1>1, <2>1, PathOfFacts
  <2>3. \A i \in 1 .. Len(p) : p[i] = q[i]
    BY <1>4, PrefixPointwise DEF Path
  <2>4. \A i \in 1 .. Len(p) : p[i] = r[i]
    <3>1. \A i \in 1 .. Len(p) : i \in 1 .. n
      BY <1>1, <2>1
    <3>. QED
      BY <1>2, <2>2, <2>3, <3>1
  <2>5. p = r
    BY <2>2, <2>4, SeqEqual DEF Path
  <2>. QED
    BY <2>1, <2>2, <2>5
<1>. QED
  BY <1>2, <1>3, <1>4

\* A name is above another as its path is above the other's.
LEMMA NamesCompare ==
    ASSUME NEW a \in Seq(Part), NEW b \in Seq(Part)
    PROVE  /\ IsPrefix(PathOf(a, Len(a)), PathOf(b, Len(b))) <=> IsPrefix(a, b)
           /\ PathOf(a, Len(a)) = PathOf(b, Len(b)) <=> a = b
<1>1. Len(a) \in Nat /\ Len(b) \in Nat /\ Len(a) \in 0 .. Len(a) /\ Len(b) \in 0 .. Len(b)
  BY LenProperties
<1>2. PICK p \in Path : /\ p = PathOf(a, Len(a)) /\ Len(p) = Len(a)
                        /\ \A i \in 1 .. Len(a) : p[i] = <<a[i]>>
  BY <1>1, PathOfFacts
<1>3. PICK q \in Path : /\ q = PathOf(b, Len(b)) /\ Len(q) = Len(b)
                        /\ \A i \in 1 .. Len(b) : q[i] = <<b[i]>>
  BY <1>1, PathOfFacts
<1>4. \A x, y : <<x>> = <<y>> <=> x = y
  OBVIOUS
<1>5. Len(a) <= Len(b) => ((\A i \in 1 .. Len(a) : p[i] = q[i]) <=> \A i \in 1 .. Len(a) : a[i] = b[i])
  <2> SUFFICES ASSUME Len(a) <= Len(b)
               PROVE  \A i \in 1 .. Len(a) : p[i] = q[i] <=> a[i] = b[i]
    OBVIOUS
  <2>1. \A i \in 1 .. Len(a) : i \in 1 .. Len(b)
    BY <1>1
  <2>2. \A i \in 1 .. Len(a) : p[i] = <<a[i]>> /\ q[i] = <<b[i]>>
    BY <1>2, <1>3, <2>1
  <2>. QED
    BY <1>4, <2>2
<1>6. IsPrefix(p, q) <=> IsPrefix(a, b)
  <2>1. IsPrefix(p, q) <=> Len(p) <= Len(q) /\ \A i \in 1 .. Len(p) : p[i] = q[i]
    BY PrefixPointwise DEF Path
  <2>2. IsPrefix(a, b) <=> Len(a) <= Len(b) /\ \A i \in 1 .. Len(a) : a[i] = b[i]
    BY PrefixPointwise
  <2>. QED
    BY <1>2, <1>3, <1>5, <2>1, <2>2
<1>7. ASSUME p = q PROVE a = b
  <2>1. Len(a) = Len(b) /\ \A i \in 1 .. Len(a) : a[i] = b[i]
    BY <1>1, <1>2, <1>3, <1>5, <1>7
  <2>. QED
    BY <2>1, SeqEqual
<1>8. a = b => p = q
  BY <1>2, <1>3
<1>. QED
  BY <1>2, <1>3, <1>6, <1>7, <1>8

\* The labels of a name are parts.
LEMMA SplitType ==
    ASSUME NEW domain \in Seq(Part \cup {Empty})
    PROVE  SplitDomainReverse(domain) \in Seq(Part)
<1> DEFINE D == DOMAIN domain
           V == Seq(Part)
           Label(v, l) == IF l = Empty \/ Len(v) = MaxDepth THEN v ELSE Append(v, LowerCase[l])
           iter == CHOOSE f : f = [s \in SUBSET D |-> IF s = {} THEN <<>>
                                      ELSE Label(f[s \ {Max(s)}], domain[Max(s)])]
<1>1. SplitDomainReverse(domain) = Reverse(iter[D])
  BY DEF SplitDomainReverse, FoldLeft, MapThenFoldSet
<1>2. PICK N \in Nat : N = Len(domain) /\ D = 1 .. N /\ \A n \in 1 .. N : domain[n] \in Part \cup {Empty}
  BY LenProperties, ElementOfSeq
<1>3. PICK h : h = [n \in 1 .. N |-> [v \in V |-> Label(v, domain[n])]]
  OBVIOUS
<1>4. ASSUME NEW n \in 1 .. N, NEW v \in V
      PROVE  Label(v, domain[n]) \in V
  <2>1. domain[n] # Empty => LowerCase[domain[n]] \in Part
    BY <1>2, TrieAssumption
  <2>. QED
    BY <2>1, AppendProperties
<1>5. Steps(h, N, V) /\ \A n \in 1 .. N, v \in V : h[n][v] = Label(v, domain[n])
  <2> HIDE DEF V, Label
  <2>. QED
    BY <1>3, <1>4 DEF Steps
<1>6. <<>> \in V
  BY EmptySeq
<1> HIDE DEF V, Label
<1>7. PICK f : FoldsAll(f, <<>>, h, N, V)
  BY <1>5, <1>6, FoldSolution
<1>8. \A s \in SUBSET (1 .. N) : s # {} => Max(s) \in 1 .. N
  BY GreatestIn
<1>9. f = [s \in SUBSET D |-> IF s = {} THEN <<>> ELSE Label(f[s \ {Max(s)}], domain[Max(s)])]
  <2>1. \A s \in SUBSET D : f[s] = IF s = {} THEN <<>> ELSE Label(f[s \ {Max(s)}], domain[Max(s)])
    BY <1>2, <1>5, <1>7, <1>8 DEF FoldsAll
  <2>2. f = [s \in SUBSET D |-> f[s]]
    BY <1>2, <1>7 DEF FoldsAll
  <2>. QED
    BY <2>1, <2>2
<1>10. iter = [s \in SUBSET D |-> IF s = {} THEN <<>> ELSE Label(iter[s \ {Max(s)}], domain[Max(s)])]
  BY <1>9
<1> HIDE DEF iter
<1>11. \A s \in SUBSET D : iter[s] = IF s = {} THEN <<>> ELSE Label(iter[s \ {Max(s)}], domain[Max(s)])
  BY <1>10
<1>12. FoldsOn(iter, <<>>, h, N, V)
  <2>1. iter[{}] = <<>>
    BY <1>11
  <2>2. ASSUME NEW s \in SUBSET (1 .. N), NEW v \in V, s # {}, iter[s \ {Max(s)}] = v
        PROVE  iter[s] = h[Max(s)][v]
    <3>1. iter[s] = Label(v, domain[Max(s)])
      BY <1>2, <1>11, <2>2
    <3>. QED
      BY <1>5, <1>8, <2>2, <3>1
  <2>. QED
    BY <2>1, <2>2 DEF FoldsOn
<1>13. PICK g : Stages(g, <<>>, h, N, V) /\ iter[1 .. N] = g[N]
  BY <1>5, <1>6, <1>12, FoldStages
<1>14. PICK labels \in V : labels = iter[D]
  BY <1>2, <1>13 DEF Stages
<1>15. Reverse(labels) \in Seq(Part)
  <2>1. Len(labels) \in Nat /\ \A i \in 1 .. Len(labels) : labels[(Len(labels) - i) + 1] \in Part
    <3>1. Len(labels) \in Nat
      BY LenProperties DEF V
    <3>2. \A i \in 1 .. Len(labels) : (Len(labels) - i) + 1 \in 1 .. Len(labels)
      BY <3>1
    <3>. QED
      BY <3>1, <3>2, ElementOfSeq DEF V
  <2>. QED
    BY <2>1 DEF Reverse
<1>. QED
  BY <1>1, <1>14, <1>15

-----------------------------------------------------------------------------
(* Inserting: new nodes, one below the other, behind all that is below the  *)
(* deepest node known.                                                      *)

LEMMA KnownFacts ==
    ASSUME NEW t, Tree(t), NEW labels \in Seq(Part), NEW k, k = Known(t, labels)
    PROVE  /\ k \in 0 .. Len(labels)
           /\ \E a \in DOMAIN t : t[a].path = PathOf(labels, k)
           /\ \A n \in k + 1 .. Len(labels), i \in DOMAIN t : t[i].path # PathOf(labels, n)
<1> DEFINE K == {n \in 0 .. Len(labels) : At(t, PathOf(labels, n)) # 0}
<1>1. PICK N \in Nat : N = Len(labels)
  BY LenProperties
<1>2. t \in Seq(Node)
  BY DEF Tree
<1>3. 0 \in K
  <2>1. PathOf(labels, 0) = t[1].path /\ 1 \in DOMAIN t
    BY <1>1, PathOfFacts, TreeFacts
  <2>2. At(t, PathOf(labels, 0)) # 0
    BY <1>2, <2>1, AtFacts
  <2>. QED
    BY <1>1, <2>2
<1>4. K \in SUBSET (0 .. N) /\ K # {}
  BY <1>1, <1>3
<1>5. k = Max(K)
  BY DEF Known
<1>6. k \in K /\ \A y \in K : y <= k
  <2> HIDE DEF K
  <2>. QED
    BY <1>1, <1>4, <1>5, MaxFacts
<1>7. k \in 0 .. Len(labels) /\ At(t, PathOf(labels, k)) # 0
  BY <1>6
<1>8. ASSUME NEW n \in k + 1 .. Len(labels), NEW i \in DOMAIN t
      PROVE  t[i].path # PathOf(labels, n)
  <2>1. n \in 0 .. Len(labels) /\ ~(n <= k)
    BY <1>1, <1>7
  <2>2. At(t, PathOf(labels, n)) = 0
    BY <1>6, <2>1
  <2>3. 0 \notin DOMAIN t
    BY TreeFacts
  <2>. QED
    BY <1>2, <2>2, <2>3, AtFacts
<1>. QED
  BY <1>2, <1>7, <1>8, AtFacts

\* T is t with d nodes for the labels behind the k-th put behind node `last`.
Spliced(T, t, labels, k, last, d) ==
    /\ k \in 0 .. Len(labels) /\ d \in 0 .. Len(labels) - k
    /\ last \in DOMAIN t
    /\ \E a \in DOMAIN t : t[a].path = PathOf(labels, k)
    /\ \A n \in k + 1 .. Len(labels), i \in DOMAIN t : t[i].path # PathOf(labels, n)
    /\ IsPrefix(PathOf(labels, k), t[last].path)
    /\ \A j \in DOMAIN t : IsPrefix(PathOf(labels, k), t[j].path) => j <= last
    /\ T \in Seq(Node) /\ Len(T) = Len(t) + d
    /\ \A i \in 1 .. last : T[i] = t[i]
    /\ \A i \in 1 .. d : T[last + i] = NodeCreate(PathOf(labels, k + i))
    /\ \A i \in last + 1 .. Len(t) : T[i + d] = t[i]

LEMMA LastUnder ==
    ASSUME NEW t, Tree(t), NEW p \in Path, NEW a \in DOMAIN t, t[a].path = p
    PROVE  /\ Max(Under(t, p)) \in DOMAIN t /\ IsPrefix(p, t[Max(Under(t, p))].path)
           /\ \A j \in DOMAIN t : IsPrefix(p, t[j].path) => j <= Max(Under(t, p))
<1>1. PICK N \in Nat : DOMAIN t = 1 .. N
  BY TreeFacts
<1>2. Under(t, p) \in SUBSET (0 .. N)
  BY <1>1 DEF Under
<1>3. a \in Under(t, p)
  BY PrefixReflexive DEF Under, Path
<1>4. Max(Under(t, p)) \in Under(t, p) /\ \A y \in Under(t, p) : y <= Max(Under(t, p))
  BY <1>2, <1>3, MaxFacts
<1>. QED
  BY <1>4 DEF Under

LEMMA GrownSpliced ==
    ASSUME NEW t, Tree(t), NEW labels \in Seq(Part), NEW k, k = Known(t, labels),
           NEW n \in k .. Len(labels)
    PROVE  \E last : Spliced(Grown(t, labels, k, n), t, labels, k, last, n - k)
<1>1. /\ k \in 0 .. Len(labels)
      /\ \E a \in DOMAIN t : t[a].path = PathOf(labels, k)
      /\ \A m \in k + 1 .. Len(labels), i \in DOMAIN t : t[i].path # PathOf(labels, m)
  BY KnownFacts
<1>2. PICK a \in DOMAIN t : t[a].path = PathOf(labels, k)
  BY <1>1
<1>3. PICK p \in Path : p = PathOf(labels, k)
  BY <1>1, PathOfFacts
<1>4. PICK last : /\ last = Max(Under(t, p)) /\ last \in DOMAIN t /\ IsPrefix(p, t[last].path)
                  /\ \A j \in DOMAIN t : IsPrefix(p, t[j].path) => j <= last
  BY <1>2, <1>3, LastUnder
<1>5. /\ Len(labels) \in Nat /\ k \in Nat /\ n \in Nat /\ n - k \in Nat /\ n - k \in 0 .. Len(labels) - k
      /\ Len(t) \in Nat /\ last \in 1 .. Len(t) /\ DOMAIN t = 1 .. Len(t) /\ t \in Seq(Node)
      /\ \A i \in 1 .. Len(t) : t[i] \in Node
  BY <1>1, <1>4, LenProperties, TreeFacts DEF Tree
<1>8. PICK y : y = [i \in 1 .. n - k |-> NodeCreate(PathOf(labels, k + i))]
  OBVIOUS
<1>9. y \in Seq(Node) /\ Len(y) = n - k /\ \A i \in 1 .. n - k : y[i] = NodeCreate(PathOf(labels, k + i))
  <2>1. ASSUME NEW i \in 1 .. n - k
        PROVE  NodeCreate(PathOf(labels, k + i)) \in Node
    <3>1. k + i \in 0 .. Len(labels)
      BY <1>5
    <3>2. PathOf(labels, k + i) \in Path
      BY <3>1, PathOfFacts
    <3>. QED
      BY <3>2 DEF NodeCreate, Node, Path
  <2>2. PICK d \in Nat : d = n - k
    BY <1>5
  <2>3. y = [i \in 1 .. d |-> NodeCreate(PathOf(labels, k + i))]
    BY <1>8, <2>2
  <2>4. y \in [1 .. d -> Node]
    BY <2>1, <2>2, <2>3
  <2>5. y \in Seq(Node) /\ Len(y) = d
    BY <2>4
  <2>. QED
    BY <1>8, <2>2, <2>5
<1>10. PICK N, d, T :
            N \in Nat /\ d \in Nat /\ N = Len(t) /\ d = n - k /\ T = Splice(t, last, y)
  BY <1>5
<1>13. /\ T \in Seq(Node) /\ Len(T) = N + d
       /\ \A i \in 1 .. last : T[i] = t[i]
       /\ \A i \in 1 .. d : T[last + i] = y[i]
       /\ \A i \in last + 1 .. N : T[i + d] = t[i]
  <2>1. last \in 0 .. Len(t)
    BY <1>5
  <2>2. /\ T \in Seq(Node) /\ Len(T) = Len(t) + Len(y)
        /\ \A i \in 1 .. last : T[i] = t[i]
        /\ \A i \in 1 .. Len(y) : T[last + i] = y[i]
        /\ \A i \in last + 1 .. Len(t) : T[i + Len(y)] = t[i]
    <3>1. PICK s \in Seq(Node), z \in Seq(Node), m \in 0 .. Len(t) : s = t /\ z = y /\ m = last
      BY <1>5, <1>9, <2>1
    <3>0. m \in 0 .. Len(s)
      BY <3>1
    <3>2. /\ Splice(s, m, z) \in Seq(Node) /\ Len(Splice(s, m, z)) = Len(s) + Len(z)
          /\ \A i \in 1 .. m : Splice(s, m, z)[i] = s[i]
          /\ \A i \in 1 .. Len(z) : Splice(s, m, z)[m + i] = z[i]
          /\ \A i \in m + 1 .. Len(s) : Splice(s, m, z)[i + Len(z)] = s[i]
      BY <3>0, SplicedIn
    <3>. QED
      BY <1>10, <3>1, <3>2
  <2>. QED
    BY <1>9, <1>10, <2>2
<1>14. T = Grown(t, labels, k, n)
  BY <1>3, <1>4, <1>8, <1>10 DEF Grown, Splice
<1>18. Spliced(T, t, labels, k, last, d)
  <2>1. d \in 0 .. Len(labels) - k /\ last \in DOMAIN t /\ IsPrefix(PathOf(labels, k), t[last].path)
        /\ \A j \in DOMAIN t : IsPrefix(PathOf(labels, k), t[j].path) => j <= last
    BY <1>3, <1>4, <1>5, <1>10
  <2>2. \A i \in 1 .. d : T[last + i] = NodeCreate(PathOf(labels, k + i))
    BY <1>9, <1>10, <1>13
  <2>3. Len(T) = Len(t) + d /\ \A i \in last + 1 .. Len(t) : T[i + d] = t[i]
    BY <1>10, <1>13
  <2>. QED
    BY <1>1, <1>13, <2>1, <2>2, <2>3 DEF Spliced
<1>. QED
  BY <1>10, <1>14, <1>18

\* Where a node of t stands in T.
Moved(o, last, d) == IF o <= last THEN o ELSE o + d

LEMMA SplicedPaths ==
    ASSUME NEW t, Tree(t), NEW labels \in Seq(Part), NEW T, NEW k, NEW last, NEW d,
           Spliced(T, t, labels, k, last, d)
    PROVE  /\ Len(t) \in Nat /\ Len(labels) \in Nat /\ k \in Nat /\ d \in Nat /\ last \in 1 .. Len(t)
           /\ k + d <= Len(labels)
           /\ DOMAIN t = 1 .. Len(t) /\ DOMAIN T = 1 .. Len(t) + d /\ T \in Seq(Node)
           /\ PathOf(labels, k) \in Path
           /\ \A o \in DOMAIN t : Moved(o, last, d) \in DOMAIN T /\ T[Moved(o, last, d)] = t[o]
           /\ \A m \in 1 .. d : /\ last + m \in DOMAIN T /\ T[last + m] = NodeCreate(PathOf(labels, k + m))
                                /\ T[last + m].path = PathOf(labels, k + m)
                                /\ PathOf(labels, k + m) \in Path /\ Len(PathOf(labels, k + m)) = k + m
<1>1. /\ Len(t) \in Nat /\ Len(labels) \in Nat /\ k \in Nat /\ d \in Nat /\ last \in 1 .. Len(t)
      /\ k + d <= Len(labels) /\ DOMAIN t = 1 .. Len(t) /\ PathOf(labels, k) \in Path
  <2>1. Len(labels) \in Nat /\ k \in 0 .. Len(labels) /\ d \in 0 .. Len(labels) - k /\ last \in DOMAIN t
    BY LenProperties DEF Spliced
  <2>. QED
    BY <2>1, TreeFacts, PathOfFacts
<1>2. T \in Seq(Node) /\ DOMAIN T = 1 .. Len(t) + d
  BY LenProperties DEF Spliced
<1>3. ASSUME NEW o \in DOMAIN t
      PROVE  Moved(o, last, d) \in DOMAIN T /\ T[Moved(o, last, d)] = t[o]
  <2>1. CASE o <= last
    <3>1. o \in 1 .. last /\ o \in 1 .. Len(t) + d
      BY <1>1, <2>1
    <3>. QED
      BY <1>2, <2>1, <3>1 DEF Moved, Spliced
  <2>2. CASE ~(o <= last)
    <3>1. o \in last + 1 .. Len(t) /\ o + d \in 1 .. Len(t) + d
      BY <1>1, <2>2
    <3>. QED
      BY <1>2, <2>2, <3>1 DEF Moved, Spliced
  <2>. QED
    BY <2>1, <2>2
<1>4. ASSUME NEW m \in 1 .. d
      PROVE  /\ last + m \in DOMAIN T /\ T[last + m] = NodeCreate(PathOf(labels, k + m))
             /\ T[last + m].path = PathOf(labels, k + m)
             /\ PathOf(labels, k + m) \in Path /\ Len(PathOf(labels, k + m)) = k + m
  <2>1. last + m \in DOMAIN T /\ k + m \in 0 .. Len(labels)
    BY <1>1, <1>2
  <2>2. T[last + m] = NodeCreate(PathOf(labels, k + m))
    BY DEF Spliced
  <2>. QED
    BY <2>1, <2>2, PathOfFacts DEF NodeCreate
<1>. QED
  BY <1>1, <1>2, <1>3, <1>4

LEMMA SplicedFrom ==
    ASSUME NEW t, Tree(t), NEW labels \in Seq(Part), NEW T, NEW k, NEW last, NEW d,
           Spliced(T, t, labels, k, last, d), NEW i \in DOMAIN T
    PROVE  (\E o \in DOMAIN t : i = Moved(o, last, d)) \/ \E m \in 1 .. d : i = last + m
<1>1. /\ Len(t) \in Nat /\ d \in Nat /\ last \in 1 .. Len(t)
      /\ DOMAIN t = 1 .. Len(t) /\ DOMAIN T = 1 .. Len(t) + d
  BY SplicedPaths
<1>2. CASE i <= last
  <2>1. i \in DOMAIN t
    BY <1>1, <1>2
  <2>. QED
    BY <1>2, <2>1 DEF Moved
<1>3. CASE i > last /\ i <= last + d
  <2>1. i - last \in 1 .. d /\ i = last + (i - last)
    BY <1>1, <1>3
  <2>. QED
    BY <2>1
<1>4. CASE i > last + d
  <2>1. i - d \in DOMAIN t /\ ~(i - d <= last) /\ i = (i - d) + d
    BY <1>1, <1>4
  <2>. QED
    BY <2>1 DEF Moved
<1>. QED
  BY <1>1, <1>2, <1>3, <1>4

LEMMA SplicedTree ==
    ASSUME NEW t, Tree(t), NEW labels \in Seq(Part), NEW T, NEW k, NEW last, NEW d,
           Spliced(T, t, labels, k, last, d)
    PROVE  Tree(T)
<1>1. /\ Len(t) \in Nat /\ Len(labels) \in Nat /\ k \in Nat /\ d \in Nat /\ last \in 1 .. Len(t)
      /\ k + d <= Len(labels)
      /\ DOMAIN t = 1 .. Len(t) /\ DOMAIN T = 1 .. Len(t) + d /\ T \in Seq(Node)
      /\ PathOf(labels, k) \in Path
  BY SplicedPaths
<1>2. \A o \in DOMAIN t : Moved(o, last, d) \in DOMAIN T /\ T[Moved(o, last, d)] = t[o]
  BY SplicedPaths
<1>3. \A m \in 1 .. d : /\ last + m \in DOMAIN T
                        /\ T[last + m].path = PathOf(labels, k + m)
                        /\ PathOf(labels, k + m) \in Path /\ Len(PathOf(labels, k + m)) = k + m
  BY SplicedPaths
<1>4. \A i \in DOMAIN T : (\E o \in DOMAIN t : i = Moved(o, last, d)) \/ \E m \in 1 .. d : i = last + m
  BY SplicedFrom
<1>5. \A m \in 1 .. d, o \in DOMAIN t : t[o].path # PathOf(labels, k + m)
  <2>1. \A m \in 1 .. d : k + m \in k + 1 .. Len(labels)
    BY <1>1
  <2>. QED
    BY <2>1 DEF Spliced
<1>6. T # <<>> /\ T[1].path = <<>>
  <2>1. 1 \in DOMAIN t /\ t[1].path = <<>> /\ Moved(1, last, d) = 1
    BY <1>1 DEF Moved, Tree
  <2>2. T[1] = t[1] /\ 1 \in DOMAIN T
    BY <1>2, <2>1
  <2>. QED
    BY <1>1, <2>1, <2>2, EmptySeq
<1>7. ASSUME NEW i \in DOMAIN T, NEW j \in DOMAIN T, T[i].path = T[j].path
      PROVE  i = j
  <2>1. CASE \E o \in DOMAIN t : i = Moved(o, last, d)
    <3>1. PICK o \in DOMAIN t : i = Moved(o, last, d)
      BY <2>1
    <3>2. CASE \E q \in DOMAIN t : j = Moved(q, last, d)
      <4>1. PICK q \in DOMAIN t : j = Moved(q, last, d)
        BY <3>2
      <4>2. o = q
        BY <1>2, <1>7, <3>1, <4>1 DEF Tree
      <4>. QED
        BY <3>1, <4>1, <4>2
    <3>3. CASE \E m \in 1 .. d : j = last + m
      BY <1>2, <1>3, <1>5, <1>7, <3>1, <3>3
    <3>. QED
      BY <1>4, <3>2, <3>3
  <2>2. CASE \E m \in 1 .. d : i = last + m
    <3>1. PICK m \in 1 .. d : i = last + m
      BY <2>2
    <3>2. CASE \E q \in DOMAIN t : j = Moved(q, last, d)
      BY <1>2, <1>3, <1>5, <1>7, <3>1, <3>2
    <3>3. CASE \E n \in 1 .. d : j = last + n
      <4>1. PICK n \in 1 .. d : j = last + n
        BY <3>3
      <4>2. k + m = k + n
        BY <1>3, <1>7, <3>1, <4>1
      <4>. QED
        BY <1>1, <3>1, <4>1, <4>2
    <3>. QED
      BY <1>4, <3>2, <3>3
  <2>. QED
    BY <1>4, <2>1, <2>2
<1>8. PICK p \in Path : p = PathOf(labels, k)
  BY <1>1
<1>9. PICK a \in 1 .. last : a \in DOMAIN t /\ t[a].path = p
  <2>1. PICK a \in DOMAIN t : t[a].path = p
    BY <1>8 DEF Spliced
  <2>2. a <= last
    <3>1. IsPrefix(p, t[a].path)
      BY <2>1, PrefixReflexive DEF Path
    <3>. QED
      BY <1>8, <3>1 DEF Spliced
  <2>. QED
    BY <1>1, <2>1, <2>2
<1>10. last \in DOMAIN t /\ IsPrefix(p, t[last].path)
       /\ \A j \in DOMAIN t : IsPrefix(p, t[j].path) => j <= last
  BY <1>8 DEF Spliced
<1>11. \A j \in a .. last : j \in DOMAIN t /\ T[j] = t[j] /\ IsPrefix(p, T[j].path)
  <2>1. \A j \in a .. last : j \in DOMAIN t /\ IsPrefix(p, t[j].path)
    BY <1>9, <1>10, Interval
  <2>2. \A j \in a .. last : Moved(j, last, d) = j
    BY <1>1, <1>9 DEF Moved
  <2>. QED
    BY <1>2, <2>1, <2>2
<1>12. \A m \in 1 .. d : IsPrefix(p, T[last + m].path)
  <2> SUFFICES ASSUME NEW m \in 1 .. d PROVE IsPrefix(p, T[last + m].path)
    OBVIOUS
  <2>1. k + m \in 0 .. Len(labels) /\ k \in 0 .. k + m
    BY <1>1
  <2>. QED
    BY <1>3, <1>8, <2>1, PathOfPrefix
<1>13. ASSUME NEW m \in 1 .. d
       PROVE  \E u : ParentOf(T, u, last + m)
  <2>0. k + m \in 0 .. Len(labels) /\ k + m # 0 /\ (k + m) - 1 \in 0 .. Len(labels)
    BY <1>1
  <2>1. Front(T[last + m].path) = PathOf(labels, (k + m) - 1)
    BY <1>3, <2>0, PathOfFacts
  <2>2. CASE m = 1
    <3>1. Front(T[last + 1].path) = p
      <4>1. (k + 1) - 1 = k
        BY <1>1
      <4>. QED
        BY <1>8, <2>1, <2>2, <4>1
    <3>2. a \in 1 .. (last + 1) - 1 /\ T[a].path = p
      BY <1>1, <1>9, <1>11
    <3>3. ASSUME NEW j \in a .. last + 1
          PROVE  IsPrefix(p, T[j].path)
      <4>1. j \in a .. last \/ j = last + 1
        BY <1>1, <1>9
      <4>. QED
        BY <1>11, <1>12, <2>2, <4>1
    <3>4. ParentOf(T, a, last + 1)
      BY <3>1, <3>2, <3>3 DEF ParentOf
    <3>. QED
      BY <2>2, <3>4
  <2>3. CASE m # 1
    <3>1. m - 1 \in 1 .. d /\ last + (m - 1) \in 1 .. (last + m) - 1 /\ k + (m - 1) = (k + m) - 1
      BY <1>1, <2>3
    <3>2. PICK u : u = last + (m - 1)
      OBVIOUS
    <3>3. T[u].path = PathOf(labels, (k + m) - 1)
      BY <1>3, <3>1, <3>2
    <3>4. ASSUME NEW j \in u .. last + m
          PROVE  IsPrefix(T[u].path, T[j].path)
      <4>1. j = u \/ j = last + m
        BY <1>1, <3>2
      <4>2. IsPrefix(T[u].path, T[u].path)
        BY <1>3, <3>1, <3>2, PrefixReflexive DEF Path
      <4>3. (k + m) - 1 \in 0 .. k + m
        BY <1>1
      <4>4. IsPrefix(T[u].path, T[last + m].path)
        BY <1>3, <2>0, <3>3, <4>3, PathOfPrefix
      <4>. QED
        BY <4>1, <4>2, <4>4
    <3>5. ParentOf(T, u, last + m)
      BY <2>1, <3>1, <3>2, <3>3, <3>4 DEF ParentOf
    <3>. QED
      BY <3>5
  <2>. QED
    BY <2>2, <2>3
<1>14. ASSUME NEW o \in DOMAIN t, o # 1
       PROVE  \E u : ParentOf(T, u, Moved(o, last, d))
  <2>1. PICK u : ParentOf(t, u, o)
    BY <1>14 DEF Tree
  <2>2. u \in 1 .. o - 1 /\ u \in DOMAIN t /\ t[u].path = Front(t[o].path)
        /\ \A j \in u .. o : IsPrefix(t[u].path, t[j].path)
    BY <1>1, <2>1 DEF ParentOf
  <2>3. T[Moved(o, last, d)] = t[o] /\ T[Moved(u, last, d)] = t[u]
    BY <1>2, <2>2
  <2>4. Moved(u, last, d) \in 1 .. Moved(o, last, d) - 1
    BY <1>1, <2>2 DEF Moved
  <2>5. ASSUME NEW j \in Moved(u, last, d) .. Moved(o, last, d)
        PROVE  IsPrefix(t[u].path, T[j].path)
    <3>1. j \in DOMAIN T
      <4>1. Moved(u, last, d) \in DOMAIN T /\ Moved(o, last, d) \in DOMAIN T
        BY <1>2, <2>2
      <4>. QED
        BY <1>1, <2>2, <4>1
    <3>2. CASE \E q \in DOMAIN t : j = Moved(q, last, d)
      <4>1. PICK q \in DOMAIN t : j = Moved(q, last, d)
        BY <3>2
      <4>2. q \in u .. o
        BY <1>1, <2>2, <4>1 DEF Moved
      <4>. QED
        BY <1>2, <2>2, <4>1, <4>2
    <3>3. CASE \E m \in 1 .. d : j = last + m
      <4>1. PICK m \in 1 .. d : j = last + m
        BY <3>3
      <4>2. u <= last /\ last < o /\ last \in u .. o
        BY <1>1, <2>2, <4>1 DEF Moved
      <4>3. PICK q \in Path, r \in Path, s \in Path, w \in Path :
              q = t[u].path /\ r = t[last].path /\ s = t[o].path /\ w = T[j].path
        BY <1>3, <1>10, <2>2, <4>1, TreeFacts
      <4>4. IsPrefix(q, r) /\ IsPrefix(p, r) /\ IsPrefix(p, w) /\ IsPrefix(q, s)
        <5>1. o \in u .. o
          BY <1>1, <2>2
        <5>. QED
          BY <1>10, <1>12, <2>2, <4>1, <4>2, <4>3, <5>1
      <4>5. ~IsPrefix(p, q)
        <5>1. SUFFICES ASSUME IsPrefix(p, q) PROVE FALSE
          OBVIOUS
        <5>2. IsPrefix(p, s)
          BY <4>4, <5>1, PrefixTransitive DEF Path
        <5>. QED
          BY <1>1, <1>10, <4>2, <4>3, <5>2
      <4>6. Len(p) \in Nat /\ Len(q) \in Nat
        BY LenProperties DEF Path
      <4>7. IsPrefix(q, p)
        <5>1. ~(Len(p) <= Len(q))
          BY <4>4, <4>5, PrefixesCompare DEF Path
        <5>2. Len(q) <= Len(p)
          BY <4>6, <5>1
        <5>. QED
          BY <4>4, <5>2, PrefixesCompare DEF Path
      <4>8. IsPrefix(q, w)
        BY <4>4, <4>7, PrefixTransitive DEF Path
      <4>. QED
        BY <4>3, <4>8
    <3>. QED
      BY <1>4, <3>1, <3>2, <3>3
  <2>6. ParentOf(T, Moved(u, last, d), Moved(o, last, d))
    BY <2>2, <2>3, <2>4, <2>5 DEF ParentOf
  <2>. QED
    BY <2>6
<1>15. ASSUME NEW i \in DOMAIN T, i # 1
       PROVE  \E u : ParentOf(T, u, i)
  <2>1. Moved(1, last, d) = 1
    BY <1>1 DEF Moved
  <2>. QED
    BY <1>4, <1>13, <1>14, <1>15, <2>1
<1>. QED
  BY <1>1, <1>6, <1>7, <1>15 DEF Tree

-----------------------------------------------------------------------------
(* Children.                                                               *)

LEMMA ChildFront ==
    ASSUME NEW p \in Path, NEW q \in Path
    PROVE  IsPrefix(q, p) /\ Len(p) = Len(q) + 1 <=> p # <<>> /\ Front(p) = q
<1>1. Len(p) \in Nat /\ Len(q) \in Nat
  BY LenProperties DEF Path
<1>2. ASSUME IsPrefix(q, p), Len(p) = Len(q) + 1
      PROVE  p # <<>> /\ Front(p) = q
  <2>1. p # q
    BY <1>1, <1>2
  <2>2. p # <<>> /\ IsPrefix(q, Front(p))
    BY <1>2, <2>1, StrictPrefix DEF Path
  <2>3. PICK r \in Path : r = Front(p) /\ Len(r) = Len(p) - 1
    BY <2>2, FrontFacts DEF Path
  <2>4. q = r
    BY <1>1, <1>2, <2>2, <2>3, PrefixOfSameLength DEF Path
  <2>. QED
    BY <2>2, <2>3, <2>4
<1>3. ASSUME p # <<>>, Front(p) = q
      PROVE  IsPrefix(q, p) /\ Len(p) = Len(q) + 1
  <2>1. Len(Front(p)) = Len(p) - 1 /\ IsPrefix(Front(p), p)
    BY <1>3, FrontFacts DEF Path
  <2>. QED
    BY <1>1, <1>3, <2>1
<1>. QED
  BY <1>2, <1>3

LEMMA ChildrenAre ==
    ASSUME NEW t, Tree(t), NEW q \in Path
    PROVE  /\ \A i : i \in Children(t, q) <=> i \in DOMAIN t /\ t[i].path # <<>> /\ Front(t[i].path) = q
           /\ IsFiniteSet(Children(t, q)) /\ Cardinality(Children(t, q)) \in Nat
           /\ IsFiniteSet(Under(t, q)) /\ Under(t, q) \in SUBSET DOMAIN t
<1>1. ASSUME NEW i
      PROVE  i \in Children(t, q) <=> i \in DOMAIN t /\ t[i].path # <<>> /\ Front(t[i].path) = q
  <2>1. i \in Children(t, q) <=> i \in DOMAIN t /\ IsPrefix(q, t[i].path) /\ Len(t[i].path) = Len(q) + 1
    BY DEF Children, Under
  <2>2. i \in DOMAIN t => t[i].path \in Path
    BY TreeFacts
  <2>. QED
    BY <2>1, <2>2, ChildFront
<1>2. Under(t, q) \in SUBSET DOMAIN t /\ Children(t, q) \in SUBSET DOMAIN t
  BY DEF Children, Under
<1>3. IsFiniteSet(DOMAIN t)
  BY TreeFacts
<1>4. IsFiniteSet(Children(t, q)) /\ IsFiniteSet(Under(t, q))
  BY <1>2, <1>3, FS_Subset
<1>. QED
  BY <1>1, <1>2, <1>4, FS_CardinalityType

\* No node has more children than the code has room for.
Narrow(t) == \A i \in DOMAIN t : Cardinality(Children(t, t[i].path)) <= MaxChildren

LEMMA SplicedNarrow ==
    ASSUME NEW t, Tree(t), Narrow(t), NEW labels \in Seq(Part), NEW T, NEW k, NEW last, NEW d,
           Spliced(T, t, labels, k, last, d),
           d # 0 => Cardinality(Children(t, PathOf(labels, k))) < MaxChildren
    PROVE  Narrow(T)
<1>1. /\ Len(t) \in Nat /\ Len(labels) \in Nat /\ k \in Nat /\ d \in Nat /\ last \in 1 .. Len(t)
      /\ k + d <= Len(labels)
      /\ DOMAIN t = 1 .. Len(t) /\ DOMAIN T = 1 .. Len(t) + d /\ T \in Seq(Node)
      /\ PathOf(labels, k) \in Path
  BY SplicedPaths
<1>2. \A o \in DOMAIN t : Moved(o, last, d) \in DOMAIN T /\ T[Moved(o, last, d)] = t[o]
  BY SplicedPaths
<1>3. \A m \in 1 .. d : /\ last + m \in DOMAIN T
                        /\ T[last + m].path = PathOf(labels, k + m)
                        /\ PathOf(labels, k + m) \in Path
  BY SplicedPaths
<1>4. ASSUME NEW i \in DOMAIN T
      PROVE  (\E o \in DOMAIN t : i = Moved(o, last, d)) \/ \E m \in 1 .. d : i = last + m
  BY SplicedFrom
<1>5. Tree(T)
  BY SplicedTree
<1>6. \A m \in 1 .. d, o \in DOMAIN t : t[o].path # PathOf(labels, k + m)
  <2>1. \A m \in 1 .. d : k + m \in k + 1 .. Len(labels)
    BY <1>1
  <2>. QED
    BY <2>1 DEF Spliced
<1>7. \A m \in 1 .. d : PathOf(labels, k + m) # <<>> /\ Front(PathOf(labels, k + m)) = PathOf(labels, k + (m - 1))
  <2> SUFFICES ASSUME NEW m \in 1 .. d
               PROVE  PathOf(labels, k + m) # <<>> /\ Front(PathOf(labels, k + m)) = PathOf(labels, k + (m - 1))
    OBVIOUS
  <2>1. k + m \in 0 .. Len(labels) /\ k + m # 0 /\ (k + m) - 1 = k + (m - 1)
    BY <1>1
  <2>. QED
    BY <2>1, PathOfFacts
<1>8. MaxChildren \in Nat \ {0}
  BY Limits
<1>9. PICK f : f = [o \in DOMAIN t |-> Moved(o, last, d)]
  OBVIOUS
\* Old nodes that get no new child.
<1>10. ASSUME NEW o \in DOMAIN t, t[o].path # PathOf(labels, k) \/ d = 0
       PROVE  Cardinality(Children(T, t[o].path)) <= MaxChildren
  <2>1. PICK q \in Path : q = t[o].path
    BY TreeFacts
  <2>2. ASSUME NEW i \in Children(T, q)
        PROVE  \E c \in Children(t, q) : f[c] = i
    <3>1. i \in DOMAIN T /\ T[i].path # <<>> /\ Front(T[i].path) = q
      BY <1>5, ChildrenAre
    <3>2. CASE \E c \in DOMAIN t : i = Moved(c, last, d)
      <4>1. PICK c \in DOMAIN t : i = Moved(c, last, d)
        BY <3>2
      <4>2. c \in Children(t, q)
        BY <1>2, <3>1, <4>1, ChildrenAre
      <4>. QED
        BY <1>9, <4>1, <4>2
    <3>3. CASE \E m \in 1 .. d : i = last + m
      <4>1. PICK m \in 1 .. d : i = last + m
        BY <3>3
      <4>2. q = PathOf(labels, k + (m - 1))
        BY <1>3, <1>7, <3>1, <4>1
      <4>3. CASE m = 1
        BY <1>1, <1>10, <2>1, <4>1, <4>2, <4>3
      <4>4. CASE m # 1
        <5>1. m - 1 \in 1 .. d
          BY <1>1, <4>4
        <5>. QED
          BY <1>6, <2>1, <4>2, <5>1
      <4>. QED
        BY <4>3, <4>4
    <3>. QED
      BY <1>4, <3>1, <3>2, <3>3
  <2>3. IsFiniteSet(Children(t, q)) /\ Cardinality(Children(t, q)) \in Nat
        /\ Cardinality(Children(t, q)) <= MaxChildren
    BY <2>1, ChildrenAre DEF Narrow
  <2>4. Cardinality(Children(T, q)) <= Cardinality(Children(t, q)) /\ Cardinality(Children(T, q)) \in Nat
    BY <1>5, <2>2, <2>3, CoveredBy, ChildrenAre
  <2>. QED
    BY <1>8, <2>1, <2>3, <2>4
\* The node that gets one.
<1>11. ASSUME NEW o \in DOMAIN t, t[o].path = PathOf(labels, k), d # 0
       PROVE  Cardinality(Children(T, t[o].path)) <= MaxChildren
  <2>1. PICK q \in Path : q = t[o].path
    BY TreeFacts
  <2>2. PICK g : g = [c \in DOMAIN t \cup {0} |-> IF c = 0 THEN last + 1 ELSE Moved(c, last, d)]
    OBVIOUS
  <2>3. 0 \notin DOMAIN t /\ 0 \notin Children(t, q) /\ \A c \in Children(t, q) : c \in DOMAIN t
    BY <1>1, ChildrenAre
  <2>4. ASSUME NEW i \in Children(T, q)
        PROVE  \E c \in Children(t, q) \cup {0} : g[c] = i
    <3>1. i \in DOMAIN T /\ T[i].path # <<>> /\ Front(T[i].path) = q
      BY <1>5, ChildrenAre
    <3>2. CASE \E c \in DOMAIN t : i = Moved(c, last, d)
      <4>1. PICK c \in DOMAIN t : i = Moved(c, last, d)
        BY <3>2
      <4>2. c \in Children(t, q)
        BY <1>2, <3>1, <4>1, ChildrenAre
      <4>. QED
        BY <2>2, <2>3, <4>1, <4>2
    <3>3. CASE \E m \in 1 .. d : i = last + m
      <4>1. PICK m \in 1 .. d : i = last + m
        BY <3>3
      <4>2. q = PathOf(labels, k + (m - 1))
        BY <1>3, <1>7, <3>1, <4>1
      <4>3. CASE m = 1
        <5>1. g[0] = i
          BY <2>2, <4>1, <4>3
        <5>. QED
          BY <5>1
      <4>4. CASE m # 1
        <5>1. m - 1 \in 1 .. d
          BY <1>1, <4>4
        <5>. QED
          BY <1>6, <2>1, <4>2, <5>1
      <4>. QED
        BY <4>3, <4>4
    <3>. QED
      BY <1>4, <3>1, <3>2, <3>3
  <2>5. IsFiniteSet(Children(t, q)) /\ Cardinality(Children(t, q)) \in Nat
        /\ Cardinality(Children(t, q)) < MaxChildren
    BY <1>11, <2>1, ChildrenAre
  <2>6. PICK C : C = Children(t, q) \cup {0}
    OBVIOUS
  <2>7. IsFiniteSet(C) /\ Cardinality(C) = Cardinality(Children(t, q)) + 1
    BY <2>3, <2>5, <2>6, FS_AddElement
  <2>8. Cardinality(Children(T, q)) <= Cardinality(C) /\ Cardinality(Children(T, q)) \in Nat
    BY <1>5, <2>4, <2>6, <2>7, CoveredBy, ChildrenAre
  <2>. QED
    BY <1>8, <2>1, <2>5, <2>7, <2>8
\* The new ones.
<1>12. ASSUME NEW n \in 1 .. d
       PROVE  Cardinality(Children(T, T[last + n].path)) <= MaxChildren
  <2>1. PICK q \in Path : q = T[last + n].path /\ q = PathOf(labels, k + n)
    BY <1>3
  <2>2. PICK g : g = [c \in {0} |-> last + (n + 1)]
    OBVIOUS
  <2>3. ASSUME NEW i \in Children(T, q)
        PROVE  \E c \in {0} : g[c] = i
    <3>1. i \in DOMAIN T /\ T[i].path # <<>> /\ Front(T[i].path) = q
      BY <1>5, ChildrenAre
    <3>2. ASSUME NEW o \in DOMAIN t, i = Moved(o, last, d)
          PROVE  FALSE
      <4>1. PICK r \in Path : r = t[o].path /\ r = T[i].path
        BY <1>2, <3>2, TreeFacts
      <4>2. IsPrefix(q, r)
        BY <3>1, <4>1, ChildFront
      <4>3. \E a \in 1 .. o : a \in DOMAIN t /\ t[a].path = q
        BY <4>1, <4>2, PrefixesPresent
      <4>. QED
        BY <1>6, <2>1, <4>3
    <3>3. PICK m \in 1 .. d : i = last + m
      BY <1>4, <3>1, <3>2
    <3>4. PathOf(labels, k + n) = PathOf(labels, k + (m - 1))
      BY <1>3, <1>7, <2>1, <3>1, <3>3
    <3>5. k + n \in 0 .. Len(labels) /\ k + (m - 1) \in 0 .. Len(labels)
      BY <1>1
    <3>6. k + n = k + (m - 1)
      BY <3>4, <3>5, PathOfFacts
    <3>7. last + m = last + (n + 1)
      BY <1>1, <3>6
    <3>. QED
      BY <2>2, <3>3, <3>7
  <2>4. IsFiniteSet({0}) /\ Cardinality({0}) = 1
    BY FS_Singleton
  <2>5. Cardinality(Children(T, q)) <= Cardinality({0}) /\ Cardinality(Children(T, q)) \in Nat
    BY <1>5, <2>3, <2>4, CoveredBy, ChildrenAre
  <2>. QED
    BY <1>8, <2>1, <2>4, <2>5
<1>. QED
  BY <1>2, <1>4, <1>10, <1>11, <1>12 DEF Narrow

-----------------------------------------------------------------------------
(* Reading what was written.                                               *)

Record == [label : Seq(Part), urls : Nat, visits : Nat, is_terminal : BOOLEAN, child_count : Int]
Frame == [path : Seq(Seq(Part)), missing : Int]
ReadState == [nodes : Seq(Node), stack : Seq(Frame)]

NodeRead(path, r) ==
    [path |-> path, urls |-> r.urls, visits |-> r.visits, is_terminal |-> r.is_terminal]

\* What Deserialize does with one record.
ReadRecord(state, r) ==
    LET up     == Open(state.stack)
        parent == state.stack[up]
        path   == IF up = 0 THEN <<>> ELSE Append(parent.path, r.label)
        rest   == IF up = 0 THEN <<>>
                  ELSE Append(SubSeq(state.stack, 1, up - 1),
                              [parent EXCEPT !.missing = @ - 1])
    IN [nodes |-> Append(state.nodes,
                    [path |-> path, urls |-> r.urls, visits |-> r.visits,
                     is_terminal |-> r.is_terminal]),
        stack |-> Append(rest, [path |-> path, missing |-> r.child_count])]

LEMMA OpenFacts ==
    ASSUME NEW stack \in Seq(Frame)
    PROVE  \/ /\ Open(stack) = 0
              /\ \A k \in 1 .. Len(stack) : ~(stack[k].missing > 0)
           \/ /\ Open(stack) \in 1 .. Len(stack) /\ stack[Open(stack)].missing > 0
              /\ \A k \in 1 .. Len(stack) : k > Open(stack) => ~(stack[k].missing > 0)
<1> DEFINE I == {i \in 1 .. Len(stack) : stack[i].missing > 0}
<1>1. Open(stack) = IF I # {} THEN Max(I) ELSE 0
  BY DEF Open, SelectLastInSeq
<1>2. PICK N \in Nat : N = Len(stack)
  BY LenProperties
<1>3. CASE I = {}
  BY <1>1, <1>3
<1>4. CASE I # {}
  <2>1. I \in SUBSET (0 .. N)
    BY <1>2
  <2>2. Max(I) \in I /\ \A y \in I : y <= Max(I)
    <3> HIDE DEF I
    <3>. QED
      BY <1>4, <2>1, MaxFacts
  <2>3. PICK m \in 1 .. N : m = Max(I) /\ m \in I
    BY <1>2, <2>2
  <2>4. \A k \in 1 .. N : k > m => k \notin I
    <3> HIDE DEF I
    <3>. QED
      BY <2>2, <2>3
  <2>. QED
    BY <1>1, <1>2, <1>4, <2>3, <2>4
<1>. QED
  BY <1>3, <1>4

LEMMA FrameLess ==
    ASSUME NEW frame \in Frame
    PROVE  [frame EXCEPT !.missing = @ - 1] = [path |-> frame.path, missing |-> frame.missing - 1]
BY DEF Frame

LEMMA ReadsFirst ==
    ASSUME NEW v \in ReadState, NEW r \in Record, Open(v.stack) = 0
    PROVE  /\ ReadRecord(v, r) = [nodes |-> Append(v.nodes, NodeRead(<<>>, r)),
                                  stack |-> Append(<<>>, [path |-> <<>>, missing |-> r.child_count])]
           /\ ReadRecord(v, r) \in ReadState
<1>1. ReadRecord(v, r) = [nodes |-> Append(v.nodes, NodeRead(<<>>, r)),
                          stack |-> Append(<<>>, [path |-> <<>>, missing |-> r.child_count])]
  BY DEF ReadRecord, NodeRead
<1>2. <<>> \in Seq(Seq(Part)) /\ <<>> \in Seq(Frame)
  BY EmptySeq
<1>3. PICK node, frame : node = NodeRead(<<>>, r) /\ frame = [path |-> <<>>, missing |-> r.child_count]
  OBVIOUS
<1>4. node \in Node /\ frame \in Frame /\ v.nodes \in Seq(Node)
  BY <1>2, <1>3 DEF NodeRead, Node, Frame, Record, ReadState
<1>5. Append(v.nodes, node) \in Seq(Node) /\ Append(<<>>, frame) \in Seq(Frame)
  BY <1>2, <1>4, AppendProperties
<1>. QED
  BY <1>1, <1>3, <1>5 DEF ReadState

\* The path and the stack of a record read below the frame up.
PathBelow(v, r, up) == Append(v.stack[up].path, r.label)
StackBelow(v, r, up) ==
    Append(Append(SubSeq(v.stack, 1, up - 1),
                  [path |-> v.stack[up].path, missing |-> v.stack[up].missing - 1]),
           [path |-> PathBelow(v, r, up), missing |-> r.child_count])

LEMMA ReadsNext ==
    ASSUME NEW v \in ReadState, NEW r \in Record, NEW up \in 1 .. Len(v.stack), Open(v.stack) = up
    PROVE  /\ ReadRecord(v, r) = [nodes |-> Append(v.nodes, NodeRead(PathBelow(v, r, up), r)),
                                  stack |-> StackBelow(v, r, up)]
           /\ ReadRecord(v, r) \in ReadState
           /\ PathBelow(v, r, up) \in Path /\ NodeRead(PathBelow(v, r, up), r) \in Node
           /\ StackBelow(v, r, up) \in Seq(Frame) /\ Len(StackBelow(v, r, up)) = up + 1
           /\ \A k \in 1 .. up - 1 : StackBelow(v, r, up)[k] = v.stack[k]
           /\ StackBelow(v, r, up)[up].path = v.stack[up].path
           /\ StackBelow(v, r, up)[up].missing = v.stack[up].missing - 1
           /\ StackBelow(v, r, up)[up + 1] = [path |-> PathBelow(v, r, up), missing |-> r.child_count]
<1>0. PICK path, rest, frame :
        /\ path = PathBelow(v, r, up) /\ path = Append(v.stack[up].path, r.label)
        /\ rest = Append(SubSeq(v.stack, 1, up - 1),
                         [path |-> v.stack[up].path, missing |-> v.stack[up].missing - 1])
        /\ frame = [path |-> path, missing |-> r.child_count]
        /\ StackBelow(v, r, up) = Append(rest, frame)
  BY DEF PathBelow, StackBelow
<1>1. v.nodes \in Seq(Node) /\ v.stack \in Seq(Frame)
  BY DEF ReadState
<1>2. PICK N \in Nat : N = Len(v.stack)
  BY <1>1, LenProperties
<1>3. up \in 1 .. N /\ up # 0 /\ up - 1 \in 0 .. Len(v.stack) /\ up - 1 \in Nat
  BY <1>2
<1>4. PICK parent \in Frame : parent = v.stack[up]
  BY <1>1, ElementOfSeq
<1>5. PICK less \in Frame : /\ less = [path |-> v.stack[up].path, missing |-> v.stack[up].missing - 1]
                            /\ less = [parent EXCEPT !.missing = @ - 1]
  <2>1. [parent EXCEPT !.missing = @ - 1] = [path |-> parent.path, missing |-> parent.missing - 1]
    BY FrameLess
  <2>2. [path |-> parent.path, missing |-> parent.missing - 1] \in Frame
    BY DEF Frame
  <2>. QED
    BY <1>4, <2>1, <2>2
<1>6. PICK below \in Seq(Frame) : /\ below = SubSeq(v.stack, 1, up - 1) /\ Len(below) = up - 1
                                  /\ \A k \in 1 .. up - 1 : below[k] = v.stack[k]
  <2>1. PICK s \in Seq(Frame), m \in 0 .. Len(v.stack) : s = v.stack /\ m = up - 1
    BY <1>1, <1>3
  <2>2. m \in 0 .. Len(s)
    BY <2>1
  <2>3. SubSeq(s, 1, m) \in Seq(Frame) /\ Len(SubSeq(s, 1, m)) = m /\ \A k \in 1 .. m : SubSeq(s, 1, m)[k] = s[k]
    BY <2>2, FirstPart
  <2>. QED
    BY <2>1, <2>3
<1>7. /\ rest = Append(below, less) /\ rest \in Seq(Frame) /\ Len(rest) = up
      /\ (\A k \in 1 .. up - 1 : rest[k] = v.stack[k]) /\ rest[up] = less
  <2>1. rest = Append(below, less)
    BY <1>0, <1>5, <1>6
  <2>2. /\ Append(below, less) \in Seq(Frame) /\ Len(Append(below, less)) = Len(below) + 1
        /\ \A k \in 1 .. Len(below) : Append(below, less)[k] = below[k]
        /\ Append(below, less)[Len(below) + 1] = less
    BY AppendProperties
  <2>3. Len(below) + 1 = up
    BY <1>3, <1>6
  <2>. QED
    BY <1>6, <2>1, <2>2, <2>3
<1>8. r.label \in Seq(Part) /\ r.urls \in Nat /\ r.visits \in Nat /\ r.is_terminal \in BOOLEAN
      /\ r.child_count \in Int /\ parent.path \in Seq(Seq(Part))
  BY DEF Record, Frame
<1>9. path \in Seq(Seq(Part))
  BY <1>0, <1>4, <1>8, AppendProperties
<1>10. NodeRead(path, r) \in Node /\ frame \in Frame
  BY <1>0, <1>8, <1>9 DEF NodeRead, Node, Frame
<1>11. PICK stack : stack = Append(rest, frame)
  OBVIOUS
<1>12. /\ stack \in Seq(Frame) /\ Len(stack) = up + 1
       /\ (\A k \in 1 .. up : stack[k] = rest[k]) /\ stack[up + 1] = frame
  <2>1. PICK s \in Seq(Frame), e \in Frame : s = rest /\ e = frame
    BY <1>7, <1>10
  <2>2. /\ Append(s, e) \in Seq(Frame) /\ Len(Append(s, e)) = Len(s) + 1
        /\ \A k \in 1 .. Len(s) : Append(s, e)[k] = s[k]
        /\ Append(s, e)[Len(s) + 1] = e
    BY AppendProperties
  <2>. QED
    BY <1>7, <1>11, <2>1, <2>2
<1>13. PICK node \in Node : node = NodeRead(path, r)
  BY <1>10
<1>14. ReadRecord(v, r) = [nodes |-> Append(v.nodes, node), stack |-> stack]
  <2>1. ReadRecord(v, r) = [nodes |-> Append(v.nodes, [path |-> path, urls |-> r.urls, visits |-> r.visits,
                                                      is_terminal |-> r.is_terminal]),
                            stack |-> Append(rest, frame)]
    BY <1>0, <1>3, <1>4, <1>5, <1>6, <1>7 DEF ReadRecord
  <2>. QED
    BY <1>11, <1>13, <2>1 DEF NodeRead
<1>15. Append(v.nodes, node) \in Seq(Node)
  BY <1>1, AppendProperties
<1>16. /\ \A k \in 1 .. up - 1 : stack[k] = v.stack[k]
       /\ stack[up] = less
  <2>1. up \in 1 .. up /\ \A k \in 1 .. up - 1 : k \in 1 .. up
    BY <1>3
  <2>. QED
    BY <1>7, <1>12, <2>1
<1>17. less.path = v.stack[up].path /\ less.missing = v.stack[up].missing - 1
  BY <1>5
<1>18. ReadRecord(v, r) \in ReadState
  BY <1>12, <1>14, <1>15 DEF ReadState
<1>. QED
  BY <1>0, <1>9, <1>10, <1>11, <1>12, <1>13, <1>14, <1>16, <1>17, <1>18 DEF Path

LEMMA SerializeFacts ==
    ASSUME NEW t, Tree(t), NEW i \in DOMAIN t
    PROVE  /\ DOMAIN Serialize(t) = DOMAIN t /\ Serialize(t)[i] \in Record
           /\ t[i].path # <<>> => Serialize(t)[i].label = Last(t[i].path)
           /\ NodeRead(t[i].path, Serialize(t)[i]) = t[i]
           /\ Serialize(t)[i].child_count = Cardinality(Children(t, t[i].path))
<1>1. t[i] \in Node /\ t[i].path \in Path
  BY TreeFacts
<1>2. PICK label : label = IF t[i].path = <<>> THEN <<>> ELSE Last(t[i].path)
  OBVIOUS
<1>3. label \in Seq(Part)
  <2>1. <<>> \in Seq(Part)
    BY EmptySeq
  <2>2. t[i].path # <<>> => Last(t[i].path) \in Seq(Part)
    BY <1>1, FrontFacts DEF Path
  <2>. QED
    BY <1>2, <2>1, <2>2
<1>4. PICK count \in Nat : count = Cardinality(Children(t, t[i].path))
  BY <1>1, ChildrenAre
<1>5. /\ DOMAIN Serialize(t) = DOMAIN t
      /\ Serialize(t)[i] = [label |-> label, urls |-> t[i].urls, visits |-> t[i].visits,
                            is_terminal |-> t[i].is_terminal, child_count |-> count]
  BY <1>2, <1>4 DEF Serialize
<1>6. t[i] = [path |-> t[i].path, urls |-> t[i].urls, visits |-> t[i].visits,
              is_terminal |-> t[i].is_terminal]
      /\ t[i].urls \in Nat /\ t[i].visits \in Nat /\ t[i].is_terminal \in BOOLEAN
  BY <1>1 DEF Node
<1>7. Serialize(t)[i] \in Record
  BY <1>3, <1>5, <1>6 DEF Record
<1>8. NodeRead(t[i].path, Serialize(t)[i]) = t[i]
  BY <1>5, <1>6 DEF NodeRead
<1>. QED
  BY <1>2, <1>4, <1>5, <1>7, <1>8

LEMMA DeserializeStages ==
    ASSUME NEW t, Tree(t)
    PROVE  \E g \in [0 .. Len(t) -> ReadState] :
              /\ g[0] = [nodes |-> <<>>, stack |-> <<>>]
              /\ \A n \in 1 .. Len(t) : g[n] = ReadRecord(g[n - 1], Serialize(t)[n])
              /\ Deserialize(Serialize(t)) = g[Len(t)].nodes
<1> DEFINE R == Serialize(t)
           D == DOMAIN R
           V == ReadState
           base == [nodes |-> <<>>, stack |-> <<>>]
           iter == CHOOSE f : f = [s \in SUBSET D |-> IF s = {} THEN base
                                      ELSE ReadRecord(f[s \ {Max(s)}], R[Max(s)])]
<1>1. Deserialize(R) = iter[D].nodes
  BY DEF Deserialize, FoldLeft, MapThenFoldSet, ReadRecord
<1>2. PICK N \in Nat : N = Len(t) /\ D = 1 .. N
  BY TreeFacts, SerializeFacts
<1>3. \A n \in 1 .. N : R[n] \in Record
  BY <1>2, SerializeFacts
<1> HIDE DEF R
<1>4. ASSUME NEW n \in 1 .. N, NEW v \in V
      PROVE  ReadRecord(v, R[n]) \in V
  <2>1. PICK r \in Record : r = R[n]
    BY <1>3
  <2>2. v.stack \in Seq(Frame)
    BY DEF ReadState
  <2>3. CASE Open(v.stack) = 0
    BY <2>1, <2>3, ReadsFirst
  <2>4. CASE Open(v.stack) \in 1 .. Len(v.stack)
    BY <2>1, <2>4, ReadsNext
  <2>. QED
    BY <2>2, <2>3, <2>4, OpenFacts
<1>5. PICK h : h = [n \in 1 .. N |-> [v \in V |-> ReadRecord(v, R[n])]]
  OBVIOUS
<1>6. base \in V
  <2>1. <<>> \in Seq(Node) /\ <<>> \in Seq(Frame)
    BY EmptySeq
  <2>. QED
    BY <2>1 DEF ReadState
<1> HIDE DEF V, D, base
<1>7. Steps(h, N, V) /\ \A n \in 1 .. N, v \in V : h[n][v] = ReadRecord(v, R[n])
  BY <1>4, <1>5 DEF Steps
<1>8. PICK f : FoldsAll(f, base, h, N, V)
  BY <1>6, <1>7, FoldSolution
<1>9. \A s \in SUBSET (1 .. N) : s # {} => Max(s) \in 1 .. N
  BY GreatestIn
<1>10. f = [s \in SUBSET D |-> IF s = {} THEN base ELSE ReadRecord(f[s \ {Max(s)}], R[Max(s)])]
  <2>1. \A s \in SUBSET D : f[s] = IF s = {} THEN base ELSE ReadRecord(f[s \ {Max(s)}], R[Max(s)])
    BY <1>2, <1>7, <1>8, <1>9 DEF FoldsAll
  <2>2. f = [s \in SUBSET D |-> f[s]]
    BY <1>2, <1>8 DEF FoldsAll
  <2>. QED
    BY <2>1, <2>2
<1>11. iter = [s \in SUBSET D |-> IF s = {} THEN base ELSE ReadRecord(iter[s \ {Max(s)}], R[Max(s)])]
  BY <1>10
<1> HIDE DEF iter
<1>12. \A s \in SUBSET D : iter[s] = IF s = {} THEN base ELSE ReadRecord(iter[s \ {Max(s)}], R[Max(s)])
  BY <1>11
<1>13. FoldsOn(iter, base, h, N, V)
  <2>1. iter[{}] = base
    BY <1>12
  <2>2. ASSUME NEW s \in SUBSET (1 .. N), NEW v \in V, s # {}, iter[s \ {Max(s)}] = v
        PROVE  iter[s] = h[Max(s)][v]
    <3>1. iter[s] = ReadRecord(v, R[Max(s)])
      BY <1>2, <1>12, <2>2
    <3>. QED
      BY <1>7, <1>9, <2>2, <3>1
  <2>. QED
    BY <2>1, <2>2 DEF FoldsOn
<1>14. PICK g : Stages(g, base, h, N, V) /\ iter[1 .. N] = g[N]
  BY <1>6, <1>7, <1>13, FoldStages
<1>15. g \in [0 .. N -> V] /\ g[0] = base
  BY <1>14 DEF Stages
<1>16. \A n \in 1 .. N : g[n] = ReadRecord(g[n - 1], R[n])
  <2>1. \A n \in 1 .. N : g[n] = h[n][g[n - 1]] /\ n - 1 \in 0 .. N
    BY <1>14 DEF Stages
  <2>2. \A n \in 1 .. N : g[n - 1] \in V
    BY <1>15, <2>1
  <2>. QED
    BY <1>7, <2>1, <2>2
<1>17. Deserialize(R) = g[N].nodes
  BY <1>1, <1>2, <1>14
<1>. QED
  BY <1>2, <1>15, <1>16, <1>17 DEF R, V, base

\* The children that a node at path p still lacks when n nodes are read.
Lacking(t, p, n) == {j \in Children(t, p) : j > n}

\* The first n nodes are read, and the stack holds node n and those above it.
Reading(t, v, n) ==
    /\ Len(v.nodes) = n /\ \A i \in 1 .. n : v.nodes[i] = t[i]
    /\ Len(v.stack) = Len(t[n].path) + 1
    /\ \A k \in 1 .. Len(v.stack) :
          /\ v.stack[k].path = SubSeq(t[n].path, 1, k - 1)
          /\ v.stack[k].missing = Cardinality(Lacking(t, SubSeq(t[n].path, 1, k - 1), n))

LEMMA LackingFacts ==
    ASSUME NEW t, Tree(t), NEW a \in DOMAIN t
    PROVE  \A n \in 1 .. a : Lacking(t, t[a].path, n) = Children(t, t[a].path)
<1>1. PICK p \in Path : p = t[a].path
  BY TreeFacts
<1>2. ASSUME NEW j \in Children(t, p)
      PROVE  j > a
  <2>1. j \in DOMAIN t /\ t[j].path # <<>> /\ Front(t[j].path) = p
    BY <1>1, ChildrenAre
  <2>2. PICK q \in Path : q = t[j].path
    BY <2>1, TreeFacts
  <2>3. IsPrefix(p, q) /\ Len(q) = Len(p) + 1 /\ Len(p) \in Nat
    BY <2>1, <2>2, ChildFront, LenProperties DEF Path
  <2>4. a <= j
    BY <1>1, <2>1, <2>2, <2>3, Interval
  <2>5. a # j
    BY <1>1, <2>2, <2>3
  <2>. QED
    BY <2>1, <2>4, <2>5, TreeFacts
<1>3. \A n \in 1 .. a, j \in Children(t, p) : j > n
  <2>1. a \in Nat /\ \A j \in Children(t, p) : j \in Nat
    BY ChildrenAre, TreeFacts
  <2>. QED
    BY <1>2, <2>1
<1>. QED
  BY <1>1, <1>3 DEF Lacking

LEMMA ReadingStarts ==
    ASSUME NEW t, Tree(t), NEW v, v = ReadRecord([nodes |-> <<>>, stack |-> <<>>], Serialize(t)[1])
    PROVE  Reading(t, v, 1)
<1>1. 1 \in DOMAIN t /\ t[1].path = <<>> /\ t[1] \in Node
  BY TreeFacts
<1>2. PICK r \in Record : /\ r = Serialize(t)[1] /\ NodeRead(<<>>, r) = t[1]
                          /\ r.child_count = Cardinality(Children(t, <<>>))
  BY <1>1, SerializeFacts
<1>3. PICK w \in ReadState : w = [nodes |-> <<>>, stack |-> <<>>]
  BY EmptySeq DEF ReadState
<1>4. Open(w.stack) = 0
  <2>1. PICK s \in Seq(Frame) : s = w.stack /\ Len(s) = 0
    BY <1>3, EmptySeq
  <2>2. Open(s) = 0
    BY <2>1, OpenFacts
  <2>. QED
    BY <2>1, <2>2
<1>5. PICK frame : frame = [path |-> <<>>, missing |-> r.child_count]
  OBVIOUS
<1>6. v.nodes = Append(<<>>, t[1]) /\ v.stack = Append(<<>>, frame)
  <2>1. v = [nodes |-> Append(w.nodes, NodeRead(<<>>, r)), stack |-> Append(<<>>, frame)]
    BY <1>2, <1>3, <1>4, <1>5, ReadsFirst
  <2>. QED
    BY <1>2, <1>3, <2>1
<1>7. /\ Len(v.nodes) = 1 /\ v.nodes[1] = t[1]
      /\ Len(v.stack) = 1 /\ v.stack[1] = frame
  <2>1. \A x : Append(<<>>, x) = <<x>>
    OBVIOUS
  <2>2. PICK x, y, s, n : x = t[1] /\ y = frame /\ s = v.stack /\ n = v.nodes /\ s = <<y>> /\ n = <<x>>
    BY <1>6, <2>1
  <2>3. Len(s) = 1 /\ s[1] = y /\ Len(n) = 1 /\ n[1] = x
    BY <2>2
  <2>. QED
    BY <2>2, <2>3
<1>8. SubSeq(t[1].path, 1, 1 - 1) = <<>>
  BY <1>1, SubSeqEmpty
<1>9. Lacking(t, <<>>, 1) = Children(t, <<>>)
  BY <1>1, LackingFacts
<1>10. Len(t[1].path) + 1 = 1
  BY <1>1
<1>11. \A k \in 1 .. 1 : k = 1
  OBVIOUS
<1>12. \A i \in 1 .. 1 : v.nodes[i] = t[i]
  BY <1>7, <1>11
<1>13. v.stack[1].path = <<>> /\ v.stack[1].missing = Cardinality(Lacking(t, <<>>, 1))
  BY <1>2, <1>5, <1>7, <1>9
<1>14. \A k \in 1 .. 1 : /\ v.stack[k].path = SubSeq(t[1].path, 1, k - 1)
                          /\ v.stack[k].missing = Cardinality(Lacking(t, SubSeq(t[1].path, 1, k - 1), 1))
  BY <1>8, <1>11, <1>13
<1>. QED
  BY <1>7, <1>10, <1>12, <1>14 DEF Reading

LEMMA PathPart ==
    ASSUME NEW q \in Path, NEW m \in 0 .. Len(q)
    PROVE  \E s \in Seq(Seq(Part)) : s = SubSeq(q, 1, m) /\ Len(s) = m /\ \A i \in 1 .. m : s[i] = q[i]
BY FirstPart DEF Path

\* Two paths that are the same up to n have the same beginnings up to n.
LEMMA SameParts ==
    ASSUME NEW p \in Path, NEW q \in Path, NEW n \in 0 .. Len(p), n <= Len(q),
           SubSeq(p, 1, n) = SubSeq(q, 1, n), NEW m \in 0 .. n
    PROVE  SubSeq(p, 1, m) = SubSeq(q, 1, m) /\ SubSeq(p, 1, m) \in Path /\ Len(SubSeq(p, 1, m)) = m
<1>1. Len(p) \in Nat /\ Len(q) \in Nat /\ n \in 0 .. Len(q) /\ n \in Nat
  BY LenProperties DEF Path
<1>2. (\A i \in 1 .. n : SubSeq(p, 1, n)[i] = p[i]) /\ \A i \in 1 .. n : SubSeq(q, 1, n)[i] = q[i]
  BY <1>1, FirstPart DEF Path
<1>3. m \in 0 .. Len(p) /\ m \in 0 .. Len(q)
  BY <1>1
<1>4. PICK r \in Seq(Seq(Part)) : /\ r = SubSeq(p, 1, m) /\ Len(r) = m
                                  /\ \A i \in 1 .. m : r[i] = p[i]
  BY <1>3, PathPart
<1>5. PICK s \in Seq(Seq(Part)) : /\ s = SubSeq(q, 1, m) /\ Len(s) = m
                                  /\ \A i \in 1 .. m : s[i] = q[i]
  BY <1>3, PathPart
<1>6. \A i \in 1 .. m : r[i] = s[i]
  <2>1. \A i \in 1 .. m : i \in 1 .. n
    BY <1>1
  <2>. QED
    BY <1>2, <1>4, <1>5, <2>1
<1>7. r = s
  BY <1>4, <1>5, <1>6, SeqEqual
<1>. QED
  BY <1>4, <1>5, <1>7 DEF Path

LEMMA ReadingNext ==
    ASSUME NEW t, Tree(t), NEW n \in 1 .. Len(t) - 1, NEW v \in ReadState, Reading(t, v, n),
           NEW w, w = ReadRecord(v, Serialize(t)[n + 1])
    PROVE  Reading(t, w, n + 1)
<1>1. /\ Len(t) \in Nat /\ n \in Nat /\ n \in DOMAIN t /\ n + 1 \in DOMAIN t /\ n + 1 # 1
      /\ DOMAIN t = 1 .. Len(t)
  BY TreeFacts
<1>2. PICK p \in Path, q \in Path : p = t[n + 1].path /\ q = t[n].path
  BY <1>1, TreeFacts
<1>3. PICK u : ParentOf(t, u, n + 1)
  BY <1>1 DEF Tree
<1>4. u \in 1 .. n /\ u \in DOMAIN t /\ n \in u .. n + 1
  BY <1>1, <1>3 DEF ParentOf
<1>5. PICK f \in Path : f = t[u].path /\ f = Front(p) /\ IsPrefix(f, q)
  BY <1>2, <1>3, <1>4, TreeFacts DEF ParentOf
<1>6. p # <<>>
  <2>1. n + 1 \in DOMAIN t /\ 1 \in DOMAIN t /\ t[1].path = <<>>
    BY <1>1, TreeFacts
  <2>. QED
    BY <1>1, <1>2, <2>1 DEF Tree
<1>7. PICK K \in Nat \ {0} : K = Len(p)
  BY <1>6, EmptySeq DEF Path
<1>8. /\ Len(f) = K - 1 /\ f = SubSeq(p, 1, K - 1) /\ p = Append(f, Last(p)) /\ Last(p) \in Seq(Part)
      /\ IsPrefix(f, p)
  <2>1. /\ Len(Front(p)) = Len(p) - 1 /\ Front(p) = SubSeq(p, 1, Len(p) - 1)
        /\ p = Append(Front(p), Last(p)) /\ Last(p) \in Seq(Part) /\ IsPrefix(Front(p), p)
    BY <1>6, FrontFacts DEF Path
  <2>. QED
    BY <1>5, <1>7, <2>1
<1>9. K - 1 \in 0 .. Len(q) /\ f = SubSeq(q, 1, K - 1) /\ Len(q) \in Nat
  <2>1. Len(f) \in 0 .. Len(q) /\ f = SubSeq(q, 1, Len(f)) /\ Len(q) \in Nat
    BY <1>5, PrefixIsPart, LenProperties DEF Path
  <2>. QED
    BY <1>8, <2>1
<1>10. PICK stack \in Seq(Frame) :
          /\ stack = v.stack /\ Len(stack) = Len(q) + 1
          /\ \A k \in 1 .. Len(q) + 1 :
                /\ stack[k].path = SubSeq(q, 1, k - 1)
                /\ stack[k].missing = Cardinality(Lacking(t, SubSeq(q, 1, k - 1), n))
  BY <1>2 DEF Reading, ReadState
<1>11. K \in 1 .. Len(q) + 1
  BY <1>9
<1>12. \A s \in Path : IsFiniteSet(Lacking(t, s, n)) /\ Cardinality(Lacking(t, s, n)) \in Nat
  <2> SUFFICES ASSUME NEW s \in Path
               PROVE  IsFiniteSet(Lacking(t, s, n)) /\ Cardinality(Lacking(t, s, n)) \in Nat
    OBVIOUS
  <2>1. Lacking(t, s, n) \in SUBSET Children(t, s)
    BY DEF Lacking
  <2>. QED
    BY <2>1, ChildrenAre, FS_Subset, FS_CardinalityType
<1>13. n + 1 \in Lacking(t, f, n) /\ Lacking(t, f, n + 1) = Lacking(t, f, n) \ {n + 1}
  <2>1. n + 1 \in Children(t, f)
    BY <1>1, <1>2, <1>5, <1>6, ChildrenAre
  <2>2. \A j \in Children(t, f) : j \in Int
    BY <1>1, ChildrenAre
  <2>. QED
    BY <1>1, <2>1, <2>2 DEF Lacking
<1>14. stack[K].path = f /\ stack[K].missing > 0
  <2>1. stack[K].path = f /\ stack[K].missing = Cardinality(Lacking(t, f, n))
    BY <1>9, <1>10, <1>11
  <2>2. Cardinality(Lacking(t, f, n)) # 0
    BY <1>12, <1>13, FS_EmptySet
  <2>. QED
    BY <1>12, <2>1, <2>2
<1>15. ASSUME NEW k \in 1 .. Len(q) + 1, k > K
       PROVE  ~(stack[k].missing > 0)
  <2>1. k - 1 \in 0 .. Len(q) /\ k - 1 >= K
    BY <1>9, <1>15
  <2>2. PICK s \in Path : s = SubSeq(q, 1, k - 1) /\ Len(s) = k - 1 /\ IsPrefix(s, q)
    BY <2>1, FirstPart DEF Path
  <2>3. PICK a \in 1 .. n : a \in DOMAIN t /\ t[a].path = s
    BY <1>1, <1>2, <2>2, PrefixesPresent
  <2>4. ASSUME NEW j \in Lacking(t, s, n)
        PROVE  FALSE
    <3>1. j \in DOMAIN t /\ j > n /\ t[j].path # <<>> /\ Front(t[j].path) = s
      BY ChildrenAre DEF Lacking
    <3>2. IsPrefix(s, t[j].path)
      BY <3>1, TreeFacts, ChildFront
    <3>3. n + 1 \in a .. j
      BY <1>1, <2>3, <3>1
    <3>4. IsPrefix(s, p)
      BY <1>2, <2>3, <3>1, <3>2, <3>3, Interval
    <3>5. s = p
      BY <1>7, <2>1, <2>2, <3>4, PrefixOfSameLength DEF Path
    <3>6. a = n + 1
      BY <1>1, <1>2, <2>3, <3>5 DEF Tree
    <3>. QED
      BY <1>1, <3>6
  <2>5. Lacking(t, s, n) = {}
    BY <2>4
  <2>6. stack[k].missing = 0
    BY <1>10, <2>2, <2>5, FS_EmptySet
  <2>. QED
    BY <2>6
<1>16. Open(stack) = K
  <2>1. \A k \in 1 .. Len(stack) : k > K => ~(stack[k].missing > 0)
    BY <1>10, <1>15
  <2>2. K \in 1 .. Len(stack) /\ stack[K].missing > 0
    BY <1>10, <1>11, <1>14
  <2>3. Open(stack) \in 1 .. Len(stack) /\ stack[Open(stack)].missing > 0
        /\ \A k \in 1 .. Len(stack) : k > Open(stack) => ~(stack[k].missing > 0)
    BY <2>2, OpenFacts
  <2>4. ~(Open(stack) > K) /\ ~(K > Open(stack))
    BY <2>1, <2>2, <2>3
  <2>. QED
    BY <1>10, <2>3, <2>4
<1>17. PICK r \in Record : /\ r = Serialize(t)[n + 1] /\ r.label = Last(p) /\ NodeRead(p, r) = t[n + 1]
                           /\ r.child_count = Cardinality(Children(t, p))
  BY <1>1, <1>2, <1>6, SerializeFacts
<1>18. p = PathBelow(v, r, K)
  BY <1>8, <1>10, <1>14, <1>17 DEF PathBelow
<1>19. PICK S : S = StackBelow(v, r, K)
  OBVIOUS
<1>20. /\ w = [nodes |-> Append(v.nodes, t[n + 1]), stack |-> S]
       /\ Len(S) = K + 1
       /\ \A k \in 1 .. K - 1 : S[k] = stack[k]
       /\ S[K].path = f /\ S[K].missing = stack[K].missing - 1
       /\ S[K + 1].path = p /\ S[K + 1].missing = r.child_count
  <2>1. K \in 1 .. Len(v.stack) /\ Open(v.stack) = K
    BY <1>10, <1>11, <1>16
  <2>2. /\ ReadRecord(v, r) = [nodes |-> Append(v.nodes, NodeRead(PathBelow(v, r, K), r)),
                               stack |-> StackBelow(v, r, K)]
        /\ Len(StackBelow(v, r, K)) = K + 1
        /\ \A k \in 1 .. K - 1 : StackBelow(v, r, K)[k] = v.stack[k]
        /\ StackBelow(v, r, K)[K].path = v.stack[K].path
        /\ StackBelow(v, r, K)[K].missing = v.stack[K].missing - 1
        /\ StackBelow(v, r, K)[K + 1] = [path |-> PathBelow(v, r, K), missing |-> r.child_count]
    BY <2>1, ReadsNext
  <2>3. w = [nodes |-> Append(v.nodes, NodeRead(p, r)), stack |-> S]
    BY <1>17, <1>18, <1>19, <2>2
  <2>4. /\ Len(S) = K + 1 /\ \A k \in 1 .. K - 1 : S[k] = v.stack[k]
        /\ S[K].path = v.stack[K].path /\ S[K].missing = v.stack[K].missing - 1
    BY <1>19, <2>2
  <2>5. S[K + 1].path = p /\ S[K + 1].missing = r.child_count
    BY <1>18, <1>19, <2>2
  <2>. QED
    BY <1>10, <1>14, <1>17, <2>3, <2>4, <2>5
<1>21. Len(w.nodes) = n + 1 /\ \A i \in 1 .. n + 1 : w.nodes[i] = t[i]
  <2>1. PICK x \in Seq(Node), e \in Node : x = v.nodes /\ e = t[n + 1]
    BY <1>1, TreeFacts DEF ReadState
  <2>2. Len(x) = n /\ \A i \in 1 .. n : x[i] = t[i]
    BY <2>1 DEF Reading
  <2>3. /\ Len(Append(x, e)) = Len(x) + 1 /\ Append(x, e)[Len(x) + 1] = e
        /\ \A i \in 1 .. Len(x) : Append(x, e)[i] = x[i]
    BY AppendProperties
  <2>4. w.nodes = Append(x, e)
    BY <1>20, <2>1
  <2>5. \A i \in 1 .. n + 1 : i \in 1 .. n \/ i = n + 1
    BY <1>1
  <2>. QED
    BY <2>1, <2>2, <2>3, <2>4, <2>5
<1>22. ASSUME NEW k \in 1 .. K + 1
       PROVE  /\ S[k].path = SubSeq(p, 1, k - 1)
              /\ S[k].missing = Cardinality(Lacking(t, SubSeq(p, 1, k - 1), n + 1))
  <2>1. CASE k \in 1 .. K - 1
    <3>1. k - 1 \in 0 .. K - 1 /\ K - 1 \in 0 .. Len(p) /\ K - 1 <= Len(q) /\ k \in 1 .. Len(q) + 1
      <4>1. k \in Int /\ k >= 1 /\ k <= K - 1
        BY <2>1
      <4>2. K - 1 <= Len(q) /\ Len(q) \in Nat
        BY <1>9
      <4>. QED
        BY <1>7, <4>1, <4>2
    <3>2. PICK s \in Path : s = SubSeq(p, 1, k - 1) /\ s = SubSeq(q, 1, k - 1) /\ Len(s) = k - 1
      <4>1. PICK m \in 0 .. Len(p) : m = K - 1 /\ m <= Len(q) /\ SubSeq(p, 1, m) = SubSeq(q, 1, m)
        BY <1>8, <1>9, <3>1
      <4>2. PICK i \in 0 .. m : i = k - 1
        BY <3>1, <4>1
      <4>3. SubSeq(p, 1, i) = SubSeq(q, 1, i) /\ SubSeq(p, 1, i) \in Path /\ Len(SubSeq(p, 1, i)) = i
        BY <4>1, SameParts
      <4>. QED
        BY <4>2, <4>3
    <3>3. S[k].path = s /\ S[k].missing = Cardinality(Lacking(t, s, n))
      BY <1>10, <1>20, <2>1, <3>1, <3>2
    <3>4. n + 1 \notin Children(t, s)
      <4>1. s # f
        BY <1>8, <2>1, <3>2
      <4>. QED
        BY <1>2, <1>5, <4>1, ChildrenAre
    <3>5. Lacking(t, s, n) = Lacking(t, s, n + 1)
      <4>1. \A j \in Children(t, s) : j \in Int /\ j # n + 1
        BY <1>1, <3>4, ChildrenAre
      <4>2. \A j \in Children(t, s) : j > n <=> j > n + 1
        BY <1>1, <4>1
      <4>. QED
        BY <4>2 DEF Lacking
    <3>. QED
      BY <3>2, <3>3, <3>5
  <2>2. CASE k = K
    <3>1. Cardinality(Lacking(t, f, n + 1)) = Cardinality(Lacking(t, f, n)) - 1
      <4>1. PICK s, x : s = Lacking(t, f, n) /\ x = n + 1 /\ IsFiniteSet(s) /\ x \in s
        BY <1>12, <1>13
      <4>2. Cardinality(s \ {x}) = Cardinality(s) - 1
        BY <4>1, FS_RemoveElement
      <4>. QED
        BY <1>13, <4>1, <4>2
    <3>2. stack[K].missing = Cardinality(Lacking(t, f, n))
      BY <1>9, <1>10, <1>11
    <3>. QED
      BY <1>8, <1>20, <2>2, <3>1, <3>2
  <2>3. CASE k = K + 1
    <3>1. SubSeq(p, 1, k - 1) = p
      <4>1. k - 1 = Len(p)
        BY <1>7, <2>3
      <4>. QED
        BY <4>1, SubSeqFull DEF Path
    <3>2. Lacking(t, p, n + 1) = Children(t, p)
      <4>1. n + 1 \in 1 .. n + 1
        BY <1>1
      <4>. QED
        BY <1>1, <1>2, <4>1, LackingFacts
    <3>3. S[K + 1].path = p /\ S[K + 1].missing = Cardinality(Children(t, p))
      BY <1>17, <1>20
    <3>. QED
      BY <2>3, <3>1, <3>2, <3>3
  <2>4. k \in 1 .. K - 1 \/ k = K \/ k = K + 1
    BY <1>7
  <2>. QED
    BY <2>1, <2>2, <2>3, <2>4
<1>23. Len(w.stack) = Len(t[n + 1].path) + 1 /\ w.stack = S
  BY <1>2, <1>7, <1>20
<1>. QED
  BY <1>2, <1>7, <1>21, <1>22, <1>23 DEF Reading

\* A trie read is the trie written.
LEMMA ReadsBack ==
    ASSUME NEW t, Tree(t)
    PROVE  Deserialize(Serialize(t)) = t
<1>1. PICK g \in [0 .. Len(t) -> ReadState] :
          /\ g[0] = [nodes |-> <<>>, stack |-> <<>>]
          /\ \A n \in 1 .. Len(t) : g[n] = ReadRecord(g[n - 1], Serialize(t)[n])
          /\ Deserialize(Serialize(t)) = g[Len(t)].nodes
  BY DeserializeStages
<1>2. PICK N \in Nat \ {0} : N = Len(t)
  BY TreeFacts
<1> DEFINE P == {m \in 0 .. N : m # 0 => Reading(t, g[m], m)}
<1>3. 0 \in P
  OBVIOUS
<1>4. ASSUME NEW m \in 0 .. N - 1, m \in P
      PROVE  m + 1 \in P
  <2>1. m + 1 \in 1 .. N /\ m \in 0 .. N /\ (m + 1) - 1 = m
    BY <1>2
  <2>2. g[m + 1] = ReadRecord(g[m], Serialize(t)[m + 1]) /\ g[m] \in ReadState
    BY <1>1, <1>2, <2>1
  <2>3. CASE m = 0
    <3>1. Reading(t, g[1], 1)
      BY <1>1, <2>2, <2>3, ReadingStarts
    <3>. QED
      BY <2>1, <2>3, <3>1
  <2>4. CASE m # 0
    <3>1. m \in 1 .. Len(t) - 1 /\ Reading(t, g[m], m)
      BY <1>2, <1>4, <2>4
    <3>2. Reading(t, g[m + 1], m + 1)
      BY <2>2, <3>1, ReadingNext
    <3>. QED
      BY <2>1, <3>2
  <2>. QED
    BY <2>3, <2>4
<1> HIDE DEF P
<1>5. \A m \in 0 .. N : m \in P
  BY <1>3, <1>4, CountUp
<1>6. Reading(t, g[N], N) /\ g[N] \in ReadState
  BY <1>1, <1>2, <1>5 DEF P
<1>7. PICK s \in Seq(Node) : s = g[N].nodes
  BY <1>6 DEF ReadState
<1>8. Len(s) = N /\ \A i \in 1 .. N : s[i] = t[i]
  BY <1>6, <1>7 DEF Reading
<1>9. t \in Seq(Node)
  BY DEF Tree
<1>10. s = t
  BY <1>2, <1>8, <1>9, SeqEqual
<1>. QED
  BY <1>1, <1>2, <1>7, <1>10

-----------------------------------------------------------------------------
(* What an insert does to the tree.                                         *)

\* The shape of a trie is in its paths.
LEMMA SamePaths ==
    ASSUME NEW t, Tree(t), NEW T \in Seq(Node), Len(T) = Len(t),
           \A i \in DOMAIN t : T[i].path = t[i].path
    PROVE  /\ Tree(T) /\ DOMAIN T = DOMAIN t
           /\ \A p : Under(T, p) = Under(t, p) /\ Children(T, p) = Children(t, p)
           /\ Narrow(t) => Narrow(T)
<1>1. DOMAIN t = 1 .. Len(t) /\ Len(t) \in Nat \ {0} /\ 1 \in DOMAIN t /\ t[1].path = <<>>
  BY TreeFacts
<1>2. DOMAIN T = DOMAIN t
  BY <1>1, LenProperties
<1>3. \A i \in DOMAIN t : T[i].path = t[i].path
  OBVIOUS
<1>4. T # <<>>
  BY <1>1, EmptySeq
<1>5. \A i, j \in DOMAIN T : T[i].path = T[j].path => i = j
  <2>1. \A i, j \in DOMAIN t : t[i].path = t[j].path => i = j
    BY DEF Tree
  <2>. QED
    BY <1>2, <1>3, <2>1
<1>6. ASSUME NEW i \in DOMAIN T, i # 1
      PROVE  \E u : ParentOf(T, u, i)
  <2>1. PICK u : ParentOf(t, u, i)
    BY <1>2, <1>6 DEF Tree
  <2>2. u \in 1 .. i - 1 /\ i \in 1 .. Len(t)
    BY <1>1, <1>2, <2>1 DEF ParentOf
  <2>3. u \in DOMAIN t /\ \A j \in u .. i : j \in DOMAIN t
    BY <1>1, <2>2
  <2>. QED
    BY <1>2, <1>3, <2>1, <2>3 DEF ParentOf
<1>7. Tree(T)
  BY <1>1, <1>3, <1>4, <1>5, <1>6 DEF Tree
<1>8. \A p : Under(T, p) = Under(t, p)
  BY <1>2, <1>3 DEF Under
<1>9. \A p : Children(T, p) = Children(t, p)
  <2>1. \A p, i : i \in Under(t, p) => T[i].path = t[i].path
    BY <1>3 DEF Under
  <2>. QED
    BY <1>8, <2>1 DEF Children
<1>10. Narrow(t) => Narrow(T)
  BY <1>2, <1>3, <1>9 DEF Narrow
<1>. QED
  BY <1>2, <1>7, <1>8, <1>9, <1>10

LEMMA NodeFields ==
    ASSUME NEW n \in Node, NEW x \in Nat
    PROVE  /\ [n EXCEPT !.is_terminal = TRUE] = [path |-> n.path, urls |-> n.urls, visits |-> n.visits,
                                                 is_terminal |-> TRUE]
           /\ [n EXCEPT !.urls = @ + x] = [path |-> n.path, urls |-> n.urls + x, visits |-> n.visits,
                                           is_terminal |-> n.is_terminal]
           /\ [n EXCEPT !.visits = @ + x] = [path |-> n.path, urls |-> n.urls, visits |-> n.visits + x,
                                             is_terminal |-> n.is_terminal]
           /\ [n EXCEPT !.is_terminal = TRUE] \in Node /\ [n EXCEPT !.urls = @ + x] \in Node
           /\ [n EXCEPT !.visits = @ + x] \in Node
<1>1. [n EXCEPT !.is_terminal = TRUE] = [path |-> n.path, urls |-> n.urls, visits |-> n.visits,
                                         is_terminal |-> TRUE]
  <2>1. PICK b : b = TRUE
    OBVIOUS
  <2>2. [n EXCEPT !.is_terminal = b] = [path |-> n.path, urls |-> n.urls, visits |-> n.visits,
                                        is_terminal |-> b]
    BY DEF Node
  <2>. QED
    BY <2>1, <2>2, Zenon
<1>2. [n EXCEPT !.urls = @ + x] = [path |-> n.path, urls |-> n.urls + x, visits |-> n.visits,
                                   is_terminal |-> n.is_terminal]
  BY DEF Node
<1>3. [n EXCEPT !.visits = @ + x] = [path |-> n.path, urls |-> n.urls, visits |-> n.visits + x,
                                     is_terminal |-> n.is_terminal]
  BY DEF Node
<1>4. /\ n.path \in Seq(Seq(Part)) /\ n.urls \in Nat /\ n.visits \in Nat /\ n.is_terminal \in BOOLEAN
      /\ n.urls + x \in Nat /\ n.visits + x \in Nat
  BY DEF Node
<1>5. [path |-> n.path, urls |-> n.urls, visits |-> n.visits, is_terminal |-> TRUE] \in Node
  BY <1>4 DEF Node
<1>6. [path |-> n.path, urls |-> n.urls + x, visits |-> n.visits, is_terminal |-> n.is_terminal] \in Node
  BY <1>4 DEF Node
<1>7. [path |-> n.path, urls |-> n.urls, visits |-> n.visits + x, is_terminal |-> n.is_terminal] \in Node
  BY <1>4 DEF Node
<1>. QED
  BY <1>1, <1>2, <1>3, <1>5, <1>6, <1>7

LEMMA MarkedFacts ==
    ASSUME NEW t, Tree(t), NEW i \in DOMAIN t, NEW urls \in Nat, NEW visits \in Nat
    PROVE  /\ Marked(t, i, urls, visits) \in Seq(Node) /\ Len(Marked(t, i, urls, visits)) = Len(t)
           /\ \A j \in DOMAIN t : j # i => Marked(t, i, urls, visits)[j] = t[j]
           /\ Marked(t, i, urls, visits)[i] = [path |-> t[i].path, urls |-> t[i].urls + urls,
                                               visits |-> t[i].visits + visits, is_terminal |-> TRUE]
<1>1. DOMAIN t = 1 .. Len(t) /\ Len(t) \in Nat /\ t \in Seq(Node) /\ \A j \in DOMAIN t : t[j] \in Node
  BY TreeFacts DEF Tree
<1>2. PICK a \in Node : a = t[i]
  BY <1>1
<1>3. PICK b \in Node : b = [a EXCEPT !.is_terminal = TRUE] /\ b.path = a.path /\ b.urls = a.urls
                         /\ b.visits = a.visits /\ b.is_terminal = TRUE
  <2>1. 0 \in Nat
    OBVIOUS
  <2>2. PICK b \in Node : b = [a EXCEPT !.is_terminal = TRUE]
                          /\ b = [path |-> a.path, urls |-> a.urls, visits |-> a.visits, is_terminal |-> TRUE]
    BY <2>1, NodeFields
  <2>. QED
    BY <2>2
<1>4. PICK c \in Node : c = [b EXCEPT !.urls = @ + urls] /\ c.path = b.path /\ c.urls = b.urls + urls
                         /\ c.visits = b.visits /\ c.is_terminal = b.is_terminal
  <2>1. PICK c \in Node : c = [b EXCEPT !.urls = @ + urls]
                          /\ c = [path |-> b.path, urls |-> b.urls + urls, visits |-> b.visits,
                                  is_terminal |-> b.is_terminal]
    BY NodeFields
  <2>. QED
    BY <2>1
<1>5. PICK n \in Node : n = [c EXCEPT !.visits = @ + visits]
                         /\ n = [path |-> c.path, urls |-> c.urls, visits |-> c.visits + visits,
                                 is_terminal |-> c.is_terminal]
  BY NodeFields
<1>6. PICK T : T = Marked(t, i, urls, visits)
  OBVIOUS
<1>7. T = [t EXCEPT ![i] = n]
  <2>1. T = [[[t EXCEPT ![i].is_terminal = TRUE] EXCEPT ![i].urls = @ + urls]
                 EXCEPT ![i].visits = @ + visits]
    BY <1>6 DEF Marked
  <2>2. PICK T1 : T1 = [t EXCEPT ![i] = b]
    OBVIOUS
  <2>3. [t EXCEPT ![i].is_terminal = TRUE] = T1
    BY <1>2, <1>3, <2>2
  <2>4. PICK T2 : T2 = [t EXCEPT ![i] = c]
    OBVIOUS
  <2>5. [T1 EXCEPT ![i].urls = @ + urls] = T2
    BY <1>4, <2>2, <2>4
  <2>6. [T2 EXCEPT ![i].visits = @ + visits] = [t EXCEPT ![i] = n]
    BY <1>5, <2>4
  <2>. QED
    BY <2>1, <2>3, <2>5, <2>6
<1>8. T \in [1 .. Len(t) -> Node] /\ T[i] = n /\ \A j \in DOMAIN t : j # i => T[j] = t[j]
  BY <1>1, <1>7
<1>9. T \in Seq(Node) /\ Len(T) = Len(t)
  <2>1. PICK N \in Nat : N = Len(t)
    BY <1>1
  <2>2. T \in [1 .. N -> Node]
    BY <1>8, <2>1
  <2>3. T \in Seq(Node) /\ Len(T) = N
    BY ONLY <2>2, N \in Nat
  <2>. QED
    BY <2>1, <2>3
<1>10. n = [path |-> t[i].path, urls |-> t[i].urls + urls, visits |-> t[i].visits + visits, is_terminal |-> TRUE]
  BY <1>2, <1>3, <1>4, <1>5
<1>. QED
  BY <1>6, <1>8, <1>9, <1>10

\* Growing keeps a tree, and within the limit of children.
LEMMA GrownKeeps ==
    ASSUME NEW t, Tree(t), Narrow(t), NEW labels \in Seq(Part), NEW k, k = Known(t, labels),
           NEW n \in k .. Len(labels),
           n # k => Cardinality(Children(t, PathOf(labels, k))) < MaxChildren
    PROVE  \E last : /\ Spliced(Grown(t, labels, k, n), t, labels, k, last, n - k)
                     /\ Tree(Grown(t, labels, k, n)) /\ Narrow(Grown(t, labels, k, n))
<1>1. PICK last : Spliced(Grown(t, labels, k, n), t, labels, k, last, n - k)
  BY GrownSpliced
<1>2. k \in Nat /\ n \in Nat
  <2>1. k \in 0 .. Len(labels) /\ Len(labels) \in Nat
    BY KnownFacts, LenProperties
  <2>. QED
    BY <2>1
<1>3. PICK T, d : T = Grown(t, labels, k, n) /\ d = n - k
  OBVIOUS
<1>4. Spliced(T, t, labels, k, last, d) /\ (d # 0 => Cardinality(Children(t, PathOf(labels, k))) < MaxChildren)
  BY <1>1, <1>2, <1>3
<1>5. Tree(T)
  BY <1>4, SplicedTree
<1>6. Narrow(T)
  BY <1>4, SplicedNarrow
<1>. QED
  BY <1>1, <1>3, <1>5, <1>6

\* An insert that succeeds: the nodes the name lacked, and the one it then has.
LEMMA InsertGrows ==
    ASSUME NEW t, Tree(t), Narrow(t), NEW labels \in Seq(Part), CanInsert(t, labels),
           NEW k, k = Known(t, labels), NEW T, T = Inserted(t, labels),
           NEW i, i = At(T, PathOf(labels, Len(labels)))
    PROVE  /\ Tree(T) /\ Narrow(T) /\ i \in DOMAIN T /\ T[i].path = PathOf(labels, Len(labels))
           /\ \E last : Spliced(T, t, labels, k, last, Len(labels) - k)
<1>1. k \in 0 .. Len(labels) /\ Len(labels) \in Nat /\ \E a \in DOMAIN t : t[a].path = PathOf(labels, k)
  BY KnownFacts, LenProperties
<1>2. PICK n \in k .. Len(labels) : n = Len(labels)
  BY <1>1
<1>3. n # k => Cardinality(Children(t, PathOf(labels, k))) < MaxChildren
  BY <1>1, <1>2 DEF CanInsert
<1>4. T = Grown(t, labels, k, n)
  BY <1>2 DEF Inserted
<1>5. PICK last : Spliced(T, t, labels, k, last, n - k) /\ Tree(T) /\ Narrow(T)
  BY <1>3, <1>4, GrownKeeps
<1>6. \E j \in DOMAIN T : T[j].path = PathOf(labels, n)
  <2>1. PICK d : d = n - k
    OBVIOUS
  <2>2. Spliced(T, t, labels, k, last, d)
    BY <1>5, <2>1
  <2>3. (\A o \in DOMAIN t : Moved(o, last, d) \in DOMAIN T /\ T[Moved(o, last, d)] = t[o])
        /\ \A m \in 1 .. d : last + m \in DOMAIN T /\ T[last + m].path = PathOf(labels, k + m)
    BY <2>2, SplicedPaths
  <2>4. CASE d = 0
    BY <1>1, <1>2, <2>1, <2>3, <2>4
  <2>5. CASE d # 0
    <3>1. d \in 1 .. d /\ k + d = n
      BY <1>1, <1>2, <2>1, <2>5
    <3>. QED
      BY <2>3, <3>1
  <2>. QED
    BY <2>4, <2>5
<1>7. T \in Seq(Node)
  BY <1>5 DEF Tree
<1>8. i \in DOMAIN T /\ T[i].path = PathOf(labels, n)
  BY <1>2, <1>6, <1>7, AtFacts
<1>. QED
  BY <1>2, <1>5, <1>8

\* An insert that fails leaves the trie, or grows it without making a node a name.
LEMMA FailedGrows ==
    ASSUME NEW t, Tree(t), Narrow(t), NEW labels \in Seq(Part), NEW k, k = Known(t, labels),
           NEW T \in FailedInserts(t, labels)
    PROVE  \/ T = t
           \/ /\ Tree(T) /\ Narrow(T)
              /\ \E n \in k .. Len(labels) : \E last : Spliced(T, t, labels, k, last, n - k)
<1>1. k \in 0 .. Len(labels) /\ Len(labels) \in Nat
  BY KnownFacts, LenProperties
<1> DEFINE full == Cardinality(Children(t, PathOf(labels, k))) >= MaxChildren
<1>2. T # t => /\ ~(labels = <<>> \/ (k < Len(labels) /\ full))
               /\ \E n \in k .. Len(labels) - 1 : T = Grown(t, labels, k, n)
  BY DEF FailedInserts
<1>3. CASE T # t
  <2>1. PICK n \in k .. Len(labels) - 1 : T = Grown(t, labels, k, n)
    BY <1>2, <1>3
  <2>2. n \in k .. Len(labels) /\ k < Len(labels)
    BY <1>1
  <2>3. PICK c \in Nat : c = Cardinality(Children(t, PathOf(labels, k)))
    BY <1>1, PathOfFacts, ChildrenAre
  <2>4. c < MaxChildren
    BY <1>2, <1>3, <2>2, <2>3, Limits
  <2>5. PICK m \in k .. Len(labels) : m = n
    BY <2>2
  <2>6. Cardinality(Children(t, PathOf(labels, k))) < MaxChildren
    BY <2>3, <2>4
  <2>7. \E last : /\ Spliced(Grown(t, labels, k, m), t, labels, k, last, m - k)
                  /\ Tree(Grown(t, labels, k, m)) /\ Narrow(Grown(t, labels, k, m))
    BY <2>6, GrownKeeps
  <2>8. T = Grown(t, labels, k, m)
    BY <2>1, <2>5
  <2>. QED
    BY <2>7, <2>8
<1>. QED
  BY <1>3

-----------------------------------------------------------------------------
(* Compacting: joined paths.                                                *)

\* What becomes of a joined path when one more label follows.
JoinStep(t, v, before, label) ==
    IF Absorbs(t, before) THEN Append(Front(v), Last(v) \o label) ELSE Append(v, label)

LEMMA JoinStepType ==
    ASSUME NEW t, NEW v \in Path, NEW before, NEW label \in Seq(Part), v # <<>> \/ before = <<>>
    PROVE  JoinStep(t, v, before, label) \in Path /\ JoinStep(t, v, before, label) # <<>>
<1>1. CASE Absorbs(t, before)
  <2>1. v # <<>>
    BY <1>1 DEF Absorbs
  <2>2. PICK u \in Seq(Seq(Part)), l \in Seq(Part) : u = Front(v) /\ l = Last(v)
    BY <2>1, FrontFacts DEF Path
  <2>3. PICK m \in Seq(Part) : m = l \o label
    BY ConcatProperties
  <2>4. Append(u, m) \in Seq(Seq(Part)) /\ Append(u, m) # <<>>
    BY AppendParts
  <2>. QED
    BY <1>1, <2>2, <2>3, <2>4 DEF JoinStep, Path
<1>2. CASE ~Absorbs(t, before)
  <2>1. Append(v, label) \in Seq(Seq(Part)) /\ Append(v, label) # <<>>
    BY AppendParts DEF Path
  <2>. QED
    BY <1>2, <2>1 DEF JoinStep, Path
<1>. QED
  BY <1>1, <1>2

\* g[n] is the joined path of the first n labels of the path, which has N.
Joining(g, t, path, N) ==
    /\ g \in [0 .. N -> Path]
    /\ g[0] = <<>> /\ g[N] = JoinedPath(t, path)
    /\ \A n \in 1 .. N : g[n] # <<>> /\ g[n] = JoinStep(t, g[n - 1], SubSeq(path, 1, n - 1), path[n])

LEMMA JoinedStages ==
    ASSUME NEW t, NEW path \in Path
    PROVE  \E g : Joining(g, t, path, Len(path))
<1>1. PICK N \in Nat : N = Len(path)
  BY LenProperties DEF Path
<1>2. \A n \in 1 .. N : path[n] \in Seq(Part)
  BY <1>1, ElementOfSeq DEF Path
<1>3. PICK h : h = [n \in 1 .. N |-> [v \in Path |->
                      IF v = <<>> THEN Append(v, path[n])
                      ELSE JoinStep(t, v, SubSeq(path, 1, n - 1), path[n])]]
  OBVIOUS
<1>4. ASSUME NEW n \in 1 .. N, NEW v \in Path
      PROVE  h[n][v] \in Path /\ h[n][v] # <<>>
  <2>1. PICK label, before : label \in Seq(Part) /\ label = path[n] /\ before = SubSeq(path, 1, n - 1)
    BY <1>2
  <2>2. CASE v = <<>>
    <3>1. Append(v, label) \in Path /\ Append(v, label) # <<>>
      BY <2>1, AppendParts DEF Path
    <3>. QED
      BY <1>3, <2>1, <2>2, <3>1
  <2>3. CASE v # <<>>
    <3>1. JoinStep(t, v, before, label) \in Path /\ JoinStep(t, v, before, label) # <<>>
      BY <2>1, <2>3, JoinStepType
    <3>. QED
      BY <1>3, <2>1, <2>3, <3>1
  <2>. QED
    BY <2>2, <2>3
<1>5. Steps(h, N, Path) /\ <<>> \in Path
  BY <1>4, EmptySeq DEF Steps, Path
<1>6. PICK g : Stages(g, <<>>, h, N, Path)
  <2> HIDE DEF Path
  <2>. QED
    BY <1>5, StagesExist
<1>7. g \in [0 .. N -> Path] /\ g[0] = <<>> /\ \A n \in 1 .. N : g[n] = h[n][g[n - 1]]
  BY <1>6 DEF Stages
<1>8. ASSUME NEW n \in 1 .. N
      PROVE  g[n] # <<>> /\ n - 1 \in 0 .. N /\ g[n - 1] \in Path
  <2>1. n - 1 \in 0 .. N
    BY <1>1
  <2>. QED
    BY <1>4, <1>7, <2>1
<1>9. ASSUME NEW n \in 1 .. N
      PROVE  g[n] = JoinStep(t, g[n - 1], SubSeq(path, 1, n - 1), path[n])
  <2>1. CASE n = 1
    <3>1. SubSeq(path, 1, n - 1) = <<>>
      BY <2>1, SubSeqEmpty DEF Path
    <3>2. g[n - 1] = <<>>
      BY <1>7, <2>1
    <3>3. g[n] = Append(g[n - 1], path[n])
      BY <1>3, <1>7, <1>8, <3>2
    <3>. QED
      BY <3>1, <3>3 DEF JoinStep, Absorbs
  <2>2. CASE n # 1
    <3>1. n - 1 \in 1 .. N
      BY <1>1, <2>2
    <3>2. g[n - 1] # <<>>
      BY <1>8, <3>1
    <3>. QED
      BY <1>3, <1>7, <1>8, <3>2
  <2>. QED
    BY <2>1, <2>2
<1> DEFINE J == CHOOSE f : f = [n \in 0 .. Len(path) |->
                IF n = 0 THEN <<>> ELSE JoinStep(t, f[n - 1], SubSeq(path, 1, n - 1), path[n])]
<1>10. JoinedPath(t, path) = J[Len(path)]
  BY DEF JoinedPath, JoinStep
<1>11. g = [n \in 0 .. Len(path) |->
                IF n = 0 THEN <<>> ELSE JoinStep(t, g[n - 1], SubSeq(path, 1, n - 1), path[n])]
  <2>1. \A n \in 0 .. N : n # 0 => n \in 1 .. N
    BY <1>1
  <2>2. g = [n \in 0 .. N |-> g[n]]
    BY <1>7
  <2>. QED
    BY <1>1, <1>7, <1>9, <2>1, <2>2
<1>12. J = [n \in 0 .. Len(path) |->
                IF n = 0 THEN <<>> ELSE JoinStep(t, J[n - 1], SubSeq(path, 1, n - 1), path[n])]
  BY <1>11
<1> HIDE DEF J
<1>13. J[0] = <<>>
  BY <1>1, <1>12
<1>14. \A n \in 1 .. N : J[n] = JoinStep(t, J[n - 1], SubSeq(path, 1, n - 1), path[n])
  <2>1. \A n \in 1 .. N : n \in 0 .. N /\ n # 0
    BY <1>1
  <2>. QED
    BY <1>1, <1>12, <2>1
<1>15. \A m \in 0 .. N : J[m] = g[m]
  <2> DEFINE P == {m \in 0 .. N : J[m] = g[m]}
  <2>1. 0 \in P
    BY <1>1, <1>7, <1>13
  <2>2. ASSUME NEW m \in 0 .. N - 1, m \in P
        PROVE  m + 1 \in P
    <3>1. m + 1 \in 1 .. N /\ m + 1 \in 0 .. N /\ (m + 1) - 1 = m
      BY <1>1
    <3>2. J[m + 1] = JoinStep(t, J[m], SubSeq(path, 1, m), path[m + 1])
      BY <1>14, <3>1
    <3>3. g[m + 1] = JoinStep(t, g[m], SubSeq(path, 1, m), path[m + 1])
      BY <1>9, <3>1
    <3>. QED
      BY <2>2, <3>1, <3>2, <3>3
  <2> HIDE DEF P
  <2>3. \A m \in 0 .. N : m \in P
    BY <2>1, <2>2, CountUp
  <2>. QED
    BY <2>3 DEF P
<1>16. J[N] = g[N]
  BY <1>1, <1>15
<1>. QED
  BY <1>1, <1>7, <1>8, <1>9, <1>10, <1>16 DEF Joining

\* The joined path of a node comes from that of the node above it.
LEMMA Joins ==
    ASSUME NEW t, NEW p \in Path
    PROVE  /\ JoinedPath(t, p) \in Path
           /\ p = <<>> => JoinedPath(t, p) = <<>>
           /\ p # <<>> => /\ JoinedPath(t, p) # <<>> /\ Front(p) \in Path
                          /\ JoinedPath(t, p) = JoinStep(t, JoinedPath(t, Front(p)), Front(p), Last(p))
<1>1. PICK N \in Nat : N = Len(p)
  BY LenProperties DEF Path
<1>2. PICK g \in [0 .. N -> Path] :
          /\ g[0] = <<>> /\ g[N] = JoinedPath(t, p)
          /\ \A n \in 1 .. N : g[n] # <<>> /\ g[n] = JoinStep(t, g[n - 1], SubSeq(p, 1, n - 1), p[n])
  <2>1. PICK g : Joining(g, t, p, N)
    BY <1>1, JoinedStages
  <2>. QED
    BY <2>1 DEF Joining
<1>3. JoinedPath(t, p) \in Path
  BY <1>1, <1>2
<1>4. p = <<>> => JoinedPath(t, p) = <<>>
  BY <1>1, <1>2, EmptySeq
<1>5. ASSUME p # <<>>
      PROVE  /\ JoinedPath(t, p) # <<>> /\ Front(p) \in Path
             /\ JoinedPath(t, p) = JoinStep(t, JoinedPath(t, Front(p)), Front(p), Last(p))
  <2>1. /\ N \in Nat \ {0} /\ Front(p) = SubSeq(p, 1, N - 1) /\ Front(p) \in Path /\ Len(Front(p)) = N - 1
        /\ \A i \in 1 .. N - 1 : Front(p)[i] = p[i]
    BY <1>1, <1>5, FrontFacts DEF Path
  <2>2. PICK q \in Path, K \in Nat : q = Front(p) /\ K = N - 1 /\ K = Len(q)
    <3>1. PICK K \in Nat : K = N - 1
      BY <2>1
    <3>. QED
      BY <2>1, <3>1
  <2>3. PICK k \in [0 .. K -> Path] :
            /\ k[0] = <<>> /\ k[K] = JoinedPath(t, q)
            /\ \A n \in 1 .. K : k[n] # <<>> /\ k[n] = JoinStep(t, k[n - 1], SubSeq(q, 1, n - 1), q[n])
    <3>1. PICK k : Joining(k, t, q, K)
      BY <2>2, JoinedStages
    <3>. QED
      BY <3>1 DEF Joining
  <2>4. ASSUME NEW m \in 0 .. K
        PROVE  SubSeq(p, 1, m) = SubSeq(q, 1, m)
    <3>1. PICK n \in 0 .. Len(p) : n = K /\ n <= Len(q) /\ m \in 0 .. n
      BY <1>1, <2>1, <2>2
    <3>2. SubSeq(p, 1, n) = SubSeq(q, 1, n)
      BY <2>1, <2>2, <3>1, SubSeqFull DEF Path
    <3>. QED
      BY <3>1, <3>2, SameParts
  <2>5. \A m \in 0 .. K : g[m] = k[m]
    <3> DEFINE P == {m \in 0 .. K : g[m] = k[m]}
    <3>1. 0 \in P
      BY <1>2, <2>2, <2>3
    <3>2. ASSUME NEW m \in 0 .. K - 1, m \in P
          PROVE  m + 1 \in P
      <4>1. m + 1 \in 1 .. K /\ m + 1 \in 1 .. N /\ m + 1 \in 0 .. K /\ (m + 1) - 1 = m /\ m \in 0 .. K
        BY <2>1, <2>2
      <4>2. g[m + 1] = JoinStep(t, g[m], SubSeq(p, 1, m), p[m + 1])
        BY <1>2, <4>1
      <4>3. k[m + 1] = JoinStep(t, k[m], SubSeq(q, 1, m), q[m + 1])
        BY <2>3, <4>1
      <4>4. q[m + 1] = p[m + 1] /\ SubSeq(p, 1, m) = SubSeq(q, 1, m)
        BY <2>1, <2>2, <2>4, <4>1
      <4>. QED
        BY <3>2, <4>1, <4>2, <4>3, <4>4
    <3> HIDE DEF P
    <3>3. \A m \in 0 .. K : m \in P
      BY <3>1, <3>2, CountUp
    <3>. QED
      BY <3>3 DEF P
  <2>6. g[N] # <<>> /\ g[N] = JoinStep(t, g[K], SubSeq(p, 1, K), p[N])
    <3>1. N \in 1 .. N
      BY <2>1
    <3>. QED
      BY <1>2, <2>2, <3>1
  <2>7. g[K] = JoinedPath(t, q)
    <3>1. K \in 0 .. K
      BY <2>2
    <3>. QED
      BY <2>3, <2>5, <3>1
  <2>8. Last(p) = p[N]
    BY <1>1 DEF Last
  <2>. QED
    BY <1>2, <2>1, <2>2, <2>6, <2>7, <2>8
<1>. QED
  BY <1>3, <1>4, <1>5

LEMMA JoinParts ==
    ASSUME NEW t, NEW p \in Path, p # <<>>
    PROVE  /\ Absorbs(t, Front(p)) =>
                /\ Front(p) # <<>> /\ JoinedPath(t, Front(p)) # <<>>
                /\ Front(JoinedPath(t, p)) = Front(JoinedPath(t, Front(p)))
                /\ Last(JoinedPath(t, p)) = Last(JoinedPath(t, Front(p))) \o Last(p)
           /\ ~Absorbs(t, Front(p)) =>
                /\ Front(JoinedPath(t, p)) = JoinedPath(t, Front(p))
                /\ Last(JoinedPath(t, p)) = Last(p)
<1>1. PICK q \in Path, l \in Seq(Part) : q = Front(p) /\ l = Last(p)
  BY FrontFacts DEF Path
<1>2. PICK v \in Path : v = JoinedPath(t, q) /\ (q # <<>> => v # <<>>)
  BY Joins
<1>3. JoinedPath(t, p) = JoinStep(t, v, q, l)
  BY <1>1, <1>2, Joins
<1>4. CASE Absorbs(t, q)
  <2>1. q # <<>> /\ v # <<>>
    BY <1>2, <1>4 DEF Absorbs
  <2>2. PICK u \in Seq(Seq(Part)), m \in Seq(Part) : u = Front(v) /\ m = Last(v)
    BY <2>1, FrontFacts DEF Path
  <2>3. PICK e \in Seq(Part) : e = m \o l
    BY ConcatProperties
  <2>4. Front(Append(u, e)) = u /\ Last(Append(u, e)) = e
    BY AppendParts
  <2>5. JoinedPath(t, p) = Append(u, e)
    BY <1>3, <1>4, <2>2, <2>3 DEF JoinStep
  <2>. QED
    BY <1>1, <1>2, <1>4, <2>1, <2>2, <2>3, <2>4, <2>5
<1>5. CASE ~Absorbs(t, q)
  <2>1. Front(Append(v, l)) = v /\ Last(Append(v, l)) = l
    BY AppendParts DEF Path
  <2>2. JoinedPath(t, p) = Append(v, l)
    BY <1>3, <1>5 DEF JoinStep
  <2>. QED
    BY <1>1, <1>2, <1>5, <2>1, <2>2
<1>. QED
  BY <1>1, <1>4, <1>5

\* Before a trie is compacted every label is a single part.
Single(p) == \A m \in 1 .. Len(p) : Len(p[m]) = 1

LEMMA SingleFront ==
    ASSUME NEW p \in Path, Single(p), p # <<>>
    PROVE  Front(p) \in Path /\ Single(Front(p)) /\ Last(p) \in Seq(Part) /\ Len(Last(p)) = 1
<1>1. /\ Len(p) \in Nat \ {0} /\ Front(p) \in Path /\ Len(Front(p)) = Len(p) - 1
      /\ (\A i \in 1 .. Len(p) - 1 : Front(p)[i] = p[i]) /\ Last(p) \in Seq(Part)
  BY FrontFacts DEF Path
<1>2. (\A i \in 1 .. Len(p) - 1 : i \in 1 .. Len(p)) /\ Len(p) \in 1 .. Len(p)
  BY <1>1
<1>3. Single(Front(p))
  BY <1>1, <1>2 DEF Single
<1>4. Len(Last(p)) = 1
  BY <1>2 DEF Single, Last
<1>. QED
  BY <1>1, <1>3, <1>4

LEMMA OneMore ==
    ASSUME NEW a \in Seq(Part), NEW x \in Seq(Part), Len(x) = 1
    PROVE  a \o x \in Seq(Part) /\ Len(a \o x) = Len(a) + 1 /\ Len(a) \in Nat
<1>1. a \o x \in Seq(Part) /\ Len(a \o x) = Len(a) + Len(x)
  BY ConcatProperties
<1>2. Len(a) \in Nat
  BY LenProperties
<1>. QED
  BY ONLY <1>1, <1>2, Len(x) = 1

LEMMA SameEnds ==
    ASSUME NEW a \in Seq(Part), NEW b \in Seq(Part), NEW x \in Seq(Part), NEW y \in Seq(Part),
           Len(x) = 1, Len(y) = 1, a \o x = b \o y
    PROVE  a = b /\ x = y
<1>1. /\ Len(a \o x) = Len(a) + 1 /\ Len(b \o y) = Len(b) + 1 /\ Len(a) \in Nat /\ Len(b) \in Nat
      /\ (\A i \in 1 .. Len(a) : (a \o x)[i] = a[i]) /\ (\A i \in 1 .. Len(b) : (b \o y)[i] = b[i])
      /\ (a \o x)[Len(a) + 1] = x[1] /\ (b \o y)[Len(b) + 1] = y[1]
  <2>1. /\ Len(a) \in Nat /\ Len(b) \in Nat
        /\ Len(a \o x) = Len(a) + Len(x) /\ Len(b \o y) = Len(b) + Len(y)
        /\ (\A i \in 1 .. Len(a) + Len(x) : (a \o x)[i] = IF i <= Len(a) THEN a[i] ELSE x[i - Len(a)])
        /\ \A i \in 1 .. Len(b) + Len(y) : (b \o y)[i] = IF i <= Len(b) THEN b[i] ELSE y[i - Len(b)]
    BY LenProperties, ConcatProperties
  <2>. QED
    BY <2>1
<1>2. Len(a) = Len(b)
  BY <1>1
<1>3. a = b
  <2>1. \A i \in 1 .. Len(a) : a[i] = b[i]
    BY <1>1, <1>2
  <2>. QED
    BY <1>2, <2>1, SeqEqual
<1>4. x = y
  <2>1. x[1] = y[1]
    BY <1>1, <1>2
  <2>2. \A i \in 1 .. Len(x) : i = 1
    OBVIOUS
  <2>. QED
    BY <2>1, <2>2, SeqEqual
<1>. QED
  BY <1>3, <1>4

LEMMA JoinedLast ==
    ASSUME NEW t, NEW p \in Path, Single(p), p # <<>>
    PROVE  /\ Last(JoinedPath(t, p)) \in Seq(Part) /\ Len(Last(JoinedPath(t, p))) \in Nat \ {0}
           /\ Absorbs(t, Front(p)) <=> Len(Last(JoinedPath(t, p))) # 1
<1>1. PICK q \in Path, l \in Seq(Part) : q = Front(p) /\ l = Last(p) /\ Len(l) = 1 /\ Single(q)
  BY SingleFront
<1>2. CASE ~Absorbs(t, q)
  BY <1>1, <1>2, JoinParts
<1>3. CASE Absorbs(t, q)
  <2>1. q # <<>>
    BY <1>3 DEF Absorbs
  <2>2. PICK m \in Seq(Part) : m = Last(JoinedPath(t, q))
    <3>1. JoinedPath(t, q) \in Path /\ JoinedPath(t, q) # <<>>
      BY <2>1, Joins
    <3>. QED
      BY <3>1, FrontFacts DEF Path
  <2>3. m \o l \in Seq(Part) /\ Len(m \o l) = Len(m) + 1 /\ Len(m) \in Nat
    BY <1>1, OneMore
  <2>4. Last(JoinedPath(t, p)) = m \o l
    BY <1>1, <1>3, <2>2, JoinParts
  <2>5. Len(m) # 0
    <3>1. PICK r \in Path, k \in Seq(Part) : r = Front(q) /\ k = Last(q) /\ Len(k) = 1
      BY <1>1, <2>1, SingleFront
    <3>2. CASE ~Absorbs(t, r)
      <4>1. m = k
        BY <2>1, <2>2, <3>1, <3>2, JoinParts
      <4>2. Len(k) = 1
        BY <3>1
      <4>. QED
        BY ONLY <4>1, <4>2
    <3>3. CASE Absorbs(t, r)
      <4>1. r # <<>>
        BY <3>3 DEF Absorbs
      <4>2. PICK j \in Seq(Part) : j = Last(JoinedPath(t, r))
        <5>1. JoinedPath(t, r) \in Path /\ JoinedPath(t, r) # <<>>
          BY <4>1, Joins
        <5>. QED
          BY <5>1, FrontFacts DEF Path
      <4>3. m = j \o k
        BY <2>1, <2>2, <3>1, <3>3, <4>2, JoinParts
      <4>4. Len(j \o k) = Len(j) + 1 /\ Len(j) \in Nat
        BY <3>1, OneMore
      <4>. QED
        BY <4>3, <4>4
    <3>. QED
      BY <3>2, <3>3
  <2>. QED
    BY <1>1, <1>3, <2>3, <2>4, <2>5
<1>. QED
  BY <1>1, <1>2, <1>3

\* Joining keeps apart what is different.
LEMMA JoinInjective ==
    ASSUME NEW t, NEW p \in Path, NEW q \in Path, Single(p), Single(q),
           JoinedPath(t, p) = JoinedPath(t, q)
    PROVE  p = q
<1> DEFINE P == {n \in Nat : \A a, b \in Path :
                    Len(a) = n /\ Single(a) /\ Single(b) /\ JoinedPath(t, a) = JoinedPath(t, b) => a = b}
<1>1. PICK N \in Nat : N = Len(p)
  BY LenProperties DEF Path
<1>2. 0 \in P
  <2> SUFFICES ASSUME NEW a \in Path, NEW b \in Path, Len(a) = 0,
                      JoinedPath(t, a) = JoinedPath(t, b)
               PROVE  a = b
    OBVIOUS
  <2>1. a = <<>>
    BY EmptySeq DEF Path
  <2>. QED
    BY <2>1, Joins
<1>3. ASSUME NEW n \in 0 .. N - 1, n \in P
      PROVE  n + 1 \in P
  <2> SUFFICES ASSUME NEW a \in Path, NEW b \in Path, Len(a) = n + 1, Single(a), Single(b),
                      JoinedPath(t, a) = JoinedPath(t, b)
               PROVE  a = b
    OBVIOUS
  <2>1. n \in Nat /\ a # <<>>
    BY EmptySeq
  <2>2. b # <<>>
    BY <2>1, Joins
  <2>3. PICK c \in Path, x \in Seq(Part) : /\ c = Front(a) /\ x = Last(a) /\ Len(x) = 1 /\ Single(c)
    BY <2>1, SingleFront
  <2>4. PICK d \in Path, y \in Seq(Part) : /\ d = Front(b) /\ y = Last(b) /\ Len(y) = 1 /\ Single(d)
    BY <2>2, SingleFront
  <2>5. a = Append(c, x) /\ b = Append(d, y) /\ Len(c) = n
    <3>1. a = Append(Front(a), Last(a)) /\ Len(Front(a)) = Len(a) - 1 /\ b = Append(Front(b), Last(b))
      BY <2>1, <2>2, FrontFacts DEF Path
    <3>. QED
      BY <2>1, <2>3, <2>4, <3>1
  <2>6. Absorbs(t, c) <=> Absorbs(t, d)
    BY <2>1, <2>2, <2>3, <2>4, JoinedLast
  <2>7. JoinedPath(t, c) = JoinedPath(t, d) /\ x = y
    <3>1. CASE Absorbs(t, c)
      <4>1. /\ c # <<>> /\ d # <<>>
            /\ Front(JoinedPath(t, c)) = Front(JoinedPath(t, d))
            /\ Last(JoinedPath(t, c)) \o x = Last(JoinedPath(t, d)) \o y
        <5>1. c # <<>> /\ d # <<>>
          BY <2>6, <3>1 DEF Absorbs
        <5>2. Front(JoinedPath(t, a)) = Front(JoinedPath(t, c)) /\ Last(JoinedPath(t, a)) = Last(JoinedPath(t, c)) \o x
          BY <2>1, <2>3, <3>1, JoinParts
        <5>3. Front(JoinedPath(t, b)) = Front(JoinedPath(t, d)) /\ Last(JoinedPath(t, b)) = Last(JoinedPath(t, d)) \o y
          BY <2>2, <2>4, <2>6, <3>1, JoinParts
        <5>. QED
          BY <5>1, <5>2, <5>3
      <4>2. PICK u \in Path, v \in Path : u = JoinedPath(t, c) /\ v = JoinedPath(t, d) /\ u # <<>> /\ v # <<>>
        BY <4>1, Joins
      <4>3. PICK i \in Seq(Part), j \in Seq(Part) : i = Last(u) /\ j = Last(v)
        BY <4>2, FrontFacts DEF Path
      <4>4. i \o x = j \o y
        BY <4>1, <4>2, <4>3
      <4>5. i = j /\ x = y
        <5>1. Len(x) = 1 /\ Len(y) = 1
          BY <2>3, <2>4
        <5>. QED
          BY ONLY <4>4, <5>1, SameEnds, i \in Seq(Part), j \in Seq(Part), x \in Seq(Part), y \in Seq(Part)
      <4>6. u = Append(Front(u), i) /\ v = Append(Front(v), j)
        BY <4>2, <4>3, FrontFacts DEF Path
      <4>. QED
        BY <4>1, <4>2, <4>5, <4>6
    <3>2. CASE ~Absorbs(t, c)
      <4>1. Front(JoinedPath(t, a)) = JoinedPath(t, c) /\ Last(JoinedPath(t, a)) = x
        BY <2>1, <2>3, <3>2, JoinParts
      <4>2. Front(JoinedPath(t, b)) = JoinedPath(t, d) /\ Last(JoinedPath(t, b)) = y
        BY <2>2, <2>4, <2>6, <3>2, JoinParts
      <4>. QED
        BY <4>1, <4>2
    <3>. QED
      BY <3>1, <3>2
  <2>8. c = d
    BY <1>3, <2>3, <2>4, <2>5, <2>7
  <2>. QED
    BY <2>5, <2>7, <2>8
<1> HIDE DEF P
<1>4. N \in P
  <2>1. \A m \in 0 .. N : m \in P
    BY <1>2, <1>3, CountUp
  <2>. QED
    BY <2>1
<1>. QED
  BY <1>1, <1>4 DEF P

\* p is below e, which stays, and every node between them absorbs the next.
Way(t, e, p) ==
    /\ IsPrefix(e, p) /\ e # p /\ ~Absorbs(t, e)
    /\ \A s \in Path : IsPrefix(e, s) /\ s # e /\ IsPrefix(s, p) /\ s # p => Absorbs(t, s)

\* The label a node ends up in hangs below the next node above it that stays.
LEMMA WayUp ==
    ASSUME NEW t, NEW p \in Path, p # <<>>
    PROVE  \E e \in Path : Way(t, e, p) /\ Front(JoinedPath(t, p)) = JoinedPath(t, e)
<1> DEFINE P == {n \in Nat : \A a \in Path : Len(a) = n /\ a # <<>> =>
                    \E e \in Path : Way(t, e, a) /\ Front(JoinedPath(t, a)) = JoinedPath(t, e)}
<1>1. PICK N \in Nat : N = Len(p)
  BY LenProperties DEF Path
<1>2. 0 \in P
  <2>1. \A a \in Path : Len(a) = 0 => a = <<>>
    BY EmptySeq DEF Path
  <2>. QED
    BY <2>1
<1>3. ASSUME NEW n \in 0 .. N - 1, n \in P
      PROVE  n + 1 \in P
  <2> SUFFICES ASSUME NEW a \in Path, Len(a) = n + 1, a # <<>>
               PROVE  \E e \in Path : Way(t, e, a) /\ Front(JoinedPath(t, a)) = JoinedPath(t, e)
    OBVIOUS
  <2>1. n \in Nat
    OBVIOUS
  <2>2. PICK q \in Path : q = Front(a) /\ Len(q) = n /\ IsPrefix(q, a) /\ q # a
    <3>1. Len(Front(a)) = Len(a) - 1 /\ IsPrefix(Front(a), a) /\ Front(a) # a /\ Front(a) \in Path
      BY FrontFacts DEF Path
    <3>2. Len(Front(a)) = n
      BY <2>1, <3>1
    <3>. QED
      BY <3>1, <3>2
  <2>3. \A s \in Path : IsPrefix(s, a) /\ s # a => IsPrefix(s, q)
    BY <2>2, StrictPrefix DEF Path
  <2>4. CASE ~Absorbs(t, q)
    <3>1. \A s \in Path : IsPrefix(q, s) /\ IsPrefix(s, q) => s = q
      <4>1. \A s \in Path : IsPrefix(s, q) => Len(s) <= Len(q)
        BY PrefixIsPart, LenProperties DEF Path
      <4>. QED
        BY <4>1, PrefixOfSameLength DEF Path
    <3>2. Way(t, q, a)
      BY <2>2, <2>3, <2>4, <3>1 DEF Way
    <3>3. Front(JoinedPath(t, a)) = JoinedPath(t, q)
      BY <2>2, <2>4, JoinParts
    <3>. QED
      BY <3>2, <3>3
  <2>5. CASE Absorbs(t, q)
    <3>1. q # <<>>
      BY <2>5 DEF Absorbs
    <3>2. PICK e \in Path : Way(t, e, q) /\ Front(JoinedPath(t, q)) = JoinedPath(t, e)
      BY <1>3, <2>2, <3>1
    <3>3. Front(JoinedPath(t, a)) = JoinedPath(t, e)
      BY <2>2, <2>5, <3>2, JoinParts
    <3>4. IsPrefix(e, a) /\ e # a
      <4>1. IsPrefix(e, q) /\ e # q
        BY <3>2 DEF Way
      <4>2. IsPrefix(e, a)
        BY <2>2, <4>1, PrefixTransitive DEF Path
      <4>3. Len(e) < Len(q) /\ Len(e) \in Nat
        BY <4>1, StrictPrefix, LenProperties DEF Path
      <4>4. Len(e) # Len(a)
        BY <2>1, <2>2, <4>3
      <4>. QED
        BY <4>2, <4>4
    <3>5. \A s \in Path : IsPrefix(e, s) /\ s # e /\ IsPrefix(s, a) /\ s # a => Absorbs(t, s)
      BY <2>3, <2>5, <3>2 DEF Way
    <3>6. Way(t, e, a)
      BY <3>2, <3>4, <3>5 DEF Way
    <3>. QED
      BY <3>3, <3>6
  <2>. QED
    BY <2>4, <2>5
<1> HIDE DEF P
<1>4. N \in P
  <2>1. \A m \in 0 .. N : m \in P
    BY <1>2, <1>3, CountUp
  <2>. QED
    BY <2>1
<1>. QED
  BY <1>1, <1>4 DEF P

\* What is below a node that stays is still below it.
LEMMA StaysAbove ==
    ASSUME NEW t, NEW e \in Path, NEW p \in Path, IsPrefix(e, p), e # p, ~Absorbs(t, e)
    PROVE  IsPrefix(JoinedPath(t, e), Front(JoinedPath(t, p))) /\ IsPrefix(JoinedPath(t, e), JoinedPath(t, p))
<1> DEFINE P == {n \in Nat : \A a \in Path : Len(a) = n /\ IsPrefix(e, a) /\ e # a =>
                                IsPrefix(JoinedPath(t, e), Front(JoinedPath(t, a)))}
<1>1. PICK N \in Nat : N = Len(p)
  BY LenProperties DEF Path
<1>2. \A a \in Path : IsPrefix(e, a) /\ e # a => a # <<>> /\ IsPrefix(e, Front(a))
  BY StrictPrefix DEF Path
<1>3. 0 \in P
  <2>1. \A a \in Path : Len(a) = 0 => a = <<>>
    BY EmptySeq DEF Path
  <2>. QED
    BY <1>2, <2>1
<1>4. ASSUME NEW a \in Path, a # <<>>
      PROVE  /\ JoinedPath(t, a) \in Path /\ Front(JoinedPath(t, a)) \in Path
             /\ IsPrefix(Front(JoinedPath(t, a)), JoinedPath(t, a))
  <2>1. JoinedPath(t, a) \in Path /\ JoinedPath(t, a) # <<>>
    BY <1>4, Joins
  <2>. QED
    BY <2>1, FrontFacts DEF Path
<1>5. JoinedPath(t, e) \in Path
  BY Joins
<1>6. ASSUME NEW n \in 0 .. N - 1, n \in P
      PROVE  n + 1 \in P
  <2> SUFFICES ASSUME NEW a \in Path, Len(a) = n + 1, IsPrefix(e, a), e # a
               PROVE  IsPrefix(JoinedPath(t, e), Front(JoinedPath(t, a)))
    OBVIOUS
  <2>1. n \in Nat /\ a # <<>> /\ IsPrefix(e, Front(a))
    BY <1>2
  <2>2. PICK q \in Path : q = Front(a) /\ Len(q) = n
    <3>1. Len(Front(a)) = Len(a) - 1 /\ Front(a) \in Path
      BY <2>1, FrontFacts DEF Path
    <3>2. Len(Front(a)) = n
      BY <2>1, <3>1
    <3>. QED
      BY <3>1, <3>2
  <2>3. CASE q = e
    <3>1. Front(JoinedPath(t, a)) = JoinedPath(t, e)
      BY <2>1, <2>2, <2>3, JoinParts
    <3>. QED
      BY <1>5, <3>1, PrefixReflexive DEF Path
  <2>4. CASE q # e
    <3>1. IsPrefix(JoinedPath(t, e), Front(JoinedPath(t, q))) /\ q # <<>>
      BY <1>2, <1>6, <2>1, <2>2, <2>4
    <3>2. CASE Absorbs(t, q)
      BY <2>1, <2>2, <3>1, <3>2, JoinParts
    <3>3. CASE ~Absorbs(t, q)
      <4>1. Front(JoinedPath(t, a)) = JoinedPath(t, q)
        BY <2>1, <2>2, <3>3, JoinParts
      <4>2. IsPrefix(JoinedPath(t, e), JoinedPath(t, q))
        <5>1. PICK u \in Path, v \in Path, w \in Path :
                /\ u = JoinedPath(t, e) /\ v = Front(JoinedPath(t, q)) /\ w = JoinedPath(t, q)
                /\ IsPrefix(u, v) /\ IsPrefix(v, w)
          BY <1>4, <1>5, <3>1
        <5>2. IsPrefix(u, w)
          BY <5>1, PrefixTransitive DEF Path
        <5>. QED
          BY <5>1, <5>2
      <4>. QED
        BY <4>1, <4>2
    <3>. QED
      BY <3>2, <3>3
  <2>. QED
    BY <2>3, <2>4
<1> HIDE DEF P
<1>7. N \in P
  <2>1. \A m \in 0 .. N : m \in P
    BY <1>3, <1>6, CountUp
  <2>. QED
    BY <2>1
<1>8. IsPrefix(JoinedPath(t, e), Front(JoinedPath(t, p)))
  BY <1>1, <1>7 DEF P
<1>9. PICK u \in Path, v \in Path, w \in Path :
        /\ u = JoinedPath(t, e) /\ v = Front(JoinedPath(t, p)) /\ w = JoinedPath(t, p)
        /\ IsPrefix(u, v) /\ IsPrefix(v, w)
  BY <1>2, <1>4, <1>5, <1>8
<1>10. IsPrefix(u, w)
  BY <1>9, PrefixTransitive DEF Path
<1>. QED
  BY <1>8, <1>9, <1>10

\* From a node that stays, each child leads to one node that stays.
LEMMA WaysMeet ==
    ASSUME NEW t, Tree(t), NEW i \in DOMAIN t, NEW j \in DOMAIN t, NEW p \in Path, NEW h \in Path,
           Way(t, p, t[i].path), Way(t, p, t[j].path), ~Absorbs(t, t[i].path),
           Len(h) = Len(p) + 1, IsPrefix(h, t[i].path), IsPrefix(h, t[j].path),
           Len(t[i].path) <= Len(t[j].path)
    PROVE  i = j
<1>1. PICK a \in Path, b \in Path : a = t[i].path /\ b = t[j].path
  BY TreeFacts
<1>2. PICK A \in Nat, B \in Nat, P \in Nat : A = Len(a) /\ B = Len(b) /\ P = Len(p)
  BY LenProperties DEF Path
<1>3. /\ A <= B /\ Len(h) = P + 1 /\ IsPrefix(h, a) /\ IsPrefix(h, b) /\ P + 1 <= A
      /\ IsPrefix(p, a) /\ IsPrefix(p, b)
      /\ h = SubSeq(a, 1, P + 1) /\ h = SubSeq(b, 1, P + 1)
  <2>1. Len(h) \in 0 .. Len(a) /\ h = SubSeq(a, 1, Len(h)) /\ h = SubSeq(b, 1, Len(h))
    BY <1>1, PrefixIsPart DEF Path
  <2>2. IsPrefix(p, a) /\ IsPrefix(p, b)
    BY <1>1 DEF Way
  <2>. QED
    BY <1>1, <1>2, <2>1, <2>2
<1> DEFINE M == {m \in 0 .. A : P + 1 <= m => SubSeq(a, 1, m) = SubSeq(b, 1, m)}
<1>4. 0 \in M
  BY <1>2
<1>5. ASSUME NEW m \in 0 .. A - 1, m \in M
      PROVE  m + 1 \in M
  <2>1. m \in Nat /\ m + 1 \in 0 .. A /\ m \in 0 .. A
    BY <1>2
  <2>2. CASE m + 1 <= P
    BY <1>2, <2>1, <2>2
  <2>3. CASE m = P
    BY <1>3, <2>1, <2>3
  <2>4. CASE P + 1 <= m
    <3>1. m \in 0 .. Len(a) /\ m + 1 \in 0 .. Len(a) /\ m + 1 \in 0 .. Len(b)
      BY <1>2, <1>3, <2>1
    <3>2. PICK s \in Path : s = SubSeq(a, 1, m) /\ s = SubSeq(b, 1, m) /\ Len(s) = m /\ IsPrefix(s, a)
      <4>1. SubSeq(a, 1, m) = SubSeq(b, 1, m)
        BY <1>5, <2>4
      <4>2. SubSeq(a, 1, m) \in Path /\ Len(SubSeq(a, 1, m)) = m /\ IsPrefix(SubSeq(a, 1, m), a)
        BY <3>1, FirstPart DEF Path
      <4>. QED
        BY <4>1, <4>2
    <3>3. PICK n \in Nat : n = m + 1 /\ n \in 0 .. Len(a) /\ n \in 0 .. Len(b)
      BY <2>1, <3>1
    <3>4. PICK x \in Path : /\ x = SubSeq(a, 1, n) /\ Len(x) = n /\ IsPrefix(x, a)
      BY <3>3, FirstPart DEF Path
    <3>5. PICK y \in Path : /\ y = SubSeq(b, 1, n) /\ Len(y) = n /\ IsPrefix(y, b)
      BY <3>3, FirstPart DEF Path
    <3>6. IsPrefix(s, b)
      <4>1. m \in 0 .. Len(b)
        BY <3>3
      <4>2. IsPrefix(SubSeq(b, 1, m), b)
        BY <4>1, FirstPart DEF Path
      <4>. QED
        BY <3>2, <4>2
    <3>7. IsPrefix(s, x) /\ IsPrefix(s, y) /\ Len(x) = Len(s) + 1 /\ Len(y) = Len(s) + 1
      <4>1. Len(s) <= Len(x) /\ Len(s) <= Len(y) /\ Len(x) = Len(s) + 1 /\ Len(y) = Len(s) + 1
        BY <2>1, <3>2, <3>3, <3>4, <3>5
      <4>2. IsPrefix(s, x)
        BY <3>2, <3>4, <4>1, PrefixesCompare DEF Path
      <4>3. IsPrefix(s, y)
        BY <3>5, <3>6, <4>1, PrefixesCompare DEF Path
      <4>. QED
        BY <4>1, <4>2, <4>3
    <3>8. Absorbs(t, s)
      <4>1. Len(p) <= Len(s) /\ Len(p) # Len(s) /\ Len(s) # Len(a)
        BY <1>2, <2>1, <2>4, <3>2
      <4>2. IsPrefix(p, s)
        BY <1>3, <3>2, <4>1, PrefixesCompare DEF Path
      <4>3. s # p /\ s # a
        BY <4>1
      <4>. QED
        BY <1>1, <3>2, <4>2, <4>3 DEF Way
    <3>9. x # <<>> /\ Front(x) = s /\ y # <<>> /\ Front(y) = s
      BY <3>7, ChildFront
    <3>10. PICK c \in DOMAIN t, d \in DOMAIN t : t[c].path = x /\ t[d].path = y
      BY <1>1, <3>4, <3>5, PrefixesPresent
    <3>11. c \in Children(t, s) /\ d \in Children(t, s)
      BY <3>9, <3>10, ChildrenAre
    <3>12. c = d
      <4>1. IsFiniteSet(Children(t, s)) /\ Cardinality(Children(t, s)) = 1
        BY <3>8, ChildrenAre DEF Absorbs
      <4>2. \E z : Children(t, s) = {z}
        BY <4>1, FS_Singleton
      <4>. QED
        BY <3>11, <4>2
    <3>13. x = y
      BY <3>10, <3>12
    <3>. QED
      BY <2>1, <3>3, <3>4, <3>5, <3>13
  <2>. QED
    BY <1>2, <2>1, <2>2, <2>3, <2>4
<1> HIDE DEF M
<1>6. \A m \in 0 .. A : m \in M
  BY <1>4, <1>5, CountUp
<1>7. SubSeq(a, 1, A) = SubSeq(b, 1, A)
  <2>1. A \in M
    BY <1>6
  <2>. QED
    BY <1>3, <2>1 DEF M
<1>8. IsPrefix(a, b)
  <2>1. A \in 0 .. Len(b)
    BY <1>2, <1>3
  <2>2. IsPrefix(SubSeq(b, 1, A), b)
    BY <2>1, FirstPart DEF Path
  <2>3. SubSeq(a, 1, A) = a
    BY <1>2, SubSeqFull DEF Path
  <2>. QED
    BY <1>7, <2>2, <2>3
<1>9. a = b
  <2>1. a # p
    BY <1>1 DEF Way
  <2>. QED
    BY <1>1, <1>3, <1>8, <2>1 DEF Way
<1>. QED
  BY <1>1, <1>9 DEF Tree

LEMMA NoChildrenBelowLast ==
    ASSUME NEW t, Tree(t), NEW h \in Path, NEW l \in DOMAIN t, IsPrefix(h, t[l].path),
           \A j \in DOMAIN t : IsPrefix(h, t[j].path) => j <= l
    PROVE  Children(t, t[l].path) = {}
<1> SUFFICES ASSUME NEW c \in Children(t, t[l].path)
             PROVE  FALSE
  OBVIOUS
<1>1. PICK p \in Path : p = t[l].path
  BY TreeFacts
<1>2. c \in DOMAIN t /\ t[c].path # <<>> /\ Front(t[c].path) = p
  BY <1>1, ChildrenAre
<1>3. PICK q \in Path : q = t[c].path
  BY <1>2, TreeFacts
<1>4. IsPrefix(p, q) /\ Len(q) = Len(p) + 1 /\ Len(p) \in Nat
  BY <1>2, <1>3, ChildFront, LenProperties DEF Path
<1>5. l <= c
  BY <1>1, <1>2, <1>3, <1>4, Interval
<1>6. c <= l
  <2>1. IsPrefix(h, q)
    BY <1>1, <1>4, PrefixTransitive DEF Path
  <2>. QED
    BY <1>2, <1>3, <2>1
<1>7. l \in Nat /\ c \in Nat
  BY <1>2, TreeFacts
<1>8. q = p
  BY <1>1, <1>3, <1>5, <1>6, <1>7
<1>. QED
  BY <1>4, <1>8

LEMMA WayDown ==
    ASSUME NEW t, Tree(t), NEW p \in Path, ~Absorbs(t, p), NEW k \in Children(t, p)
    PROVE  \E j \in DOMAIN t : ~Absorbs(t, t[j].path) /\ Way(t, p, t[j].path) /\ IsPrefix(t[k].path, t[j].path)
<1>1. k \in DOMAIN t /\ t[k].path # <<>> /\ Front(t[k].path) = p
  BY ChildrenAre
<1>2. PICK h \in Path : h = t[k].path
  BY <1>1, TreeFacts
<1>3. IsPrefix(p, h) /\ Len(h) = Len(p) + 1 /\ Len(p) \in Nat
  BY <1>1, <1>2, ChildFront, LenProperties DEF Path
<1>4. PICK l \in DOMAIN t : /\ IsPrefix(h, t[l].path)
                            /\ \A j \in DOMAIN t : IsPrefix(h, t[j].path) => j <= l
  BY <1>1, <1>2, LastUnder
<1>5. PICK b \in Path : b = t[l].path
  BY TreeFacts
<1>6. Children(t, b) = {}
  BY <1>4, <1>5, NoChildrenBelowLast
<1>7. ~Absorbs(t, b)
  BY <1>6, FS_EmptySet DEF Absorbs
<1> DEFINE M == {n \in Nat : \E s \in Path : Len(s) = n /\ IsPrefix(h, s) /\ IsPrefix(s, b) /\ ~Absorbs(t, s)}
<1>8. M # {}
  <2>1. Len(b) \in Nat /\ IsPrefix(b, b)
    BY PrefixReflexive, LenProperties DEF Path
  <2>. QED
    BY <1>4, <1>5, <1>7, <2>1
<1>9. PICK n : n \in M /\ \A m \in M : n <= m
  <2>1. M \in SUBSET Nat
    OBVIOUS
  <2> HIDE DEF M
  <2>. QED
    BY <1>8, <2>1, MinFacts
<1>10. PICK s \in Path : Len(s) = n /\ IsPrefix(h, s) /\ IsPrefix(s, b) /\ ~Absorbs(t, s)
  BY <1>9
<1>11. PICK j \in DOMAIN t : t[j].path = s
  BY <1>5, <1>10, PrefixesPresent
<1>12. Way(t, p, s)
  <2>1. IsPrefix(p, s)
    BY <1>3, <1>10, PrefixTransitive DEF Path
  <2>2. p # s
    <3>1. Len(h) <= Len(s) /\ Len(s) \in Nat /\ Len(h) \in Nat
      BY <1>10, PrefixIsPart, LenProperties DEF Path
    <3>. QED
      BY <1>3, <3>1
  <2>3. ASSUME NEW r \in Path, IsPrefix(p, r), r # p, IsPrefix(r, s), r # s, ~Absorbs(t, r)
        PROVE  FALSE
    <3>1. Len(p) < Len(r) /\ Len(r) < Len(s) /\ Len(r) \in Nat
      BY <2>3, StrictPrefix, LenProperties DEF Path
    <3>2. IsPrefix(r, b)
      BY <1>10, <2>3, PrefixTransitive DEF Path
    <3>3. IsPrefix(h, b) /\ Len(h) <= Len(r)
      BY <1>3, <1>4, <1>5, <3>1
    <3>4. IsPrefix(h, r)
      BY <3>2, <3>3, PrefixesCompare DEF Path
    <3>5. Len(r) \in M
      BY <2>3, <3>1, <3>2, <3>4
    <3>6. n <= Len(r)
      BY <1>9, <3>5
    <3>. QED
      BY <1>10, <3>1, <3>6
  <2>. QED
    BY <2>1, <2>2, <2>3 DEF Way
<1>. QED
  BY <1>2, <1>10, <1>11, <1>12

-----------------------------------------------------------------------------
(* Compacting: the nodes that stay, under their joined paths.               *)

Staying(t) == {n \in DOMAIN t : ~Absorbs(t, t[n].path)}
Joined(t, n) == [path |-> JoinedPath(t, t[n].path), urls |-> t[n].urls, visits |-> t[n].visits,
                 is_terminal |-> t[n].is_terminal]

LEMMA JoinedNode ==
    ASSUME NEW t, Tree(t), NEW i \in DOMAIN t
    PROVE  /\ Joined(t, i) \in Node
           /\ [t[i] EXCEPT !.path = JoinedPath(t, @)] = Joined(t, i)
<1>1. PICK n \in Node : n = t[i] /\ n.path \in Path
  BY TreeFacts
<1>2. PICK q \in Path : q = JoinedPath(t, n.path)
  BY <1>1, Joins
<1>3. [n EXCEPT !.path = q] = [path |-> q, urls |-> n.urls, visits |-> n.visits, is_terminal |-> n.is_terminal]
  BY DEF Node
<1>4. /\ n.urls \in Nat /\ n.visits \in Nat /\ n.is_terminal \in BOOLEAN
  BY DEF Node
<1>5. [path |-> q, urls |-> n.urls, visits |-> n.visits, is_terminal |-> n.is_terminal] \in Node
  BY <1>4 DEF Node, Path
<1>. QED
  BY <1>1, <1>2, <1>3, <1>5 DEF Joined

\* b[k] is the node of t that node k of c was.
CompactedTo(c, b, t) ==
    /\ c \in Seq(Node)
    /\ b \in [1 .. Len(c) -> Staying(t)]
    /\ \A i, j \in 1 .. Len(c) : i < j => b[i] < b[j]
    /\ \A k \in 1 .. Len(c) : c[k] = Joined(t, b[k])
    /\ \A n \in Staying(t) : \E k \in 1 .. Len(c) : b[k] = n

LEMMA CompactedKept ==
    ASSUME NEW t, Tree(t)
    PROVE  \E b : CompactedTo(Compacted(t), b, t)
<1> DEFINE D == DOMAIN t
           V == Seq(Node)
           Keep(v, n) == IF Absorbs(t, n.path) THEN v ELSE Append(v, [n EXCEPT !.path = JoinedPath(t, @)])
           iter == CHOOSE f : f = [s \in SUBSET D |-> IF s = {} THEN <<>>
                                      ELSE Keep(f[s \ {Max(s)}], t[Max(s)])]
<1>1. Compacted(t) = iter[D]
  BY DEF Compacted, FoldLeft, MapThenFoldSet
<1>2. PICK N \in Nat : N = Len(t) /\ D = 1 .. N
  BY TreeFacts
<1>3. PICK e : e = [n \in 1 .. N |-> Joined(t, n)]
  OBVIOUS
<1>4. \A n \in 1 .. N : e[n] \in Node /\ e[n] = Joined(t, n)
  BY <1>2, <1>3, JoinedNode
<1>5. \A n \in 1 .. N : \A v : Keep(v, t[n]) = IF n \in Staying(t) THEN Append(v, e[n]) ELSE v
  <2>1. \A n \in 1 .. N : [t[n] EXCEPT !.path = JoinedPath(t, @)] = e[n]
    BY <1>2, <1>4, JoinedNode
  <2>. QED
    BY <1>2, <2>1 DEF Staying
<1> HIDE DEF Keep
<1>6. ASSUME NEW n \in 1 .. N, NEW v \in V
      PROVE  Keep(v, t[n]) \in V
  <2>1. Append(v, e[n]) \in Seq(Node)
    BY <1>4, AppendProperties
  <2>. QED
    BY <1>5, <2>1
<1>7. PICK h : h = [n \in 1 .. N |-> [v \in V |-> Keep(v, t[n])]]
  OBVIOUS
<1>8. <<>> \in V
  BY EmptySeq
<1> HIDE DEF V, D
<1>9. Steps(h, N, V) /\ \A n \in 1 .. N, v \in V : h[n][v] = Keep(v, t[n])
  BY <1>6, <1>7 DEF Steps
<1>10. PICK f : FoldsAll(f, <<>>, h, N, V)
  BY <1>8, <1>9, FoldSolution
<1>11. \A s \in SUBSET (1 .. N) : s # {} => Max(s) \in 1 .. N
  BY GreatestIn
<1>12. f = [s \in SUBSET D |-> IF s = {} THEN <<>> ELSE Keep(f[s \ {Max(s)}], t[Max(s)])]
  <2>1. \A s \in SUBSET D : f[s] = IF s = {} THEN <<>> ELSE Keep(f[s \ {Max(s)}], t[Max(s)])
    BY <1>2, <1>9, <1>10, <1>11 DEF FoldsAll
  <2>2. f = [s \in SUBSET D |-> f[s]]
    BY <1>2, <1>10 DEF FoldsAll
  <2>. QED
    BY <2>1, <2>2
<1>13. iter = [s \in SUBSET D |-> IF s = {} THEN <<>> ELSE Keep(iter[s \ {Max(s)}], t[Max(s)])]
  BY <1>12
<1> HIDE DEF iter
<1>14. \A s \in SUBSET D : iter[s] = IF s = {} THEN <<>> ELSE Keep(iter[s \ {Max(s)}], t[Max(s)])
  BY <1>13
<1>15. FoldsOn(iter, <<>>, h, N, V)
  <2>1. iter[{}] = <<>>
    BY <1>14
  <2>2. ASSUME NEW s \in SUBSET (1 .. N), NEW v \in V, s # {}, iter[s \ {Max(s)}] = v
        PROVE  iter[s] = h[Max(s)][v]
    <3>1. iter[s] = Keep(v, t[Max(s)])
      BY <1>2, <1>14, <2>2
    <3>. QED
      BY <1>9, <1>11, <2>2, <3>1
  <2>. QED
    BY <2>1, <2>2 DEF FoldsOn
<1>16. PICK g : Stages(g, <<>>, h, N, V) /\ iter[1 .. N] = g[N]
  BY <1>8, <1>9, <1>15, FoldStages
<1>17. g[N] \in Seq(Node)
  <2>1. N \in 0 .. N
    BY <1>2
  <2>. QED
    BY <1>16, <2>1 DEF Stages, V
<1>18. PICK K \in SUBSET (1 .. N) : K = Staying(t)
  BY <1>2 DEF Staying, D
<1>19. PICK b : Kept(b, g[N], e, K)
  <2>1. \A n \in 1 .. N, v \in Seq(Node) : h[n][v] = IF n \in K THEN Append(v, e[n]) ELSE v
    BY <1>5, <1>9, <1>18 DEF V
  <2>2. \A n \in K : e[n] \in Node
    BY <1>4
  <2>3. Stages(g, <<>>, h, N, Seq(Node))
    BY <1>16 DEF V
  <2>. QED
    BY <2>1, <2>2, <2>3, StagesKeep
<1>20. PICK c : c = g[N] /\ c = Compacted(t)
  BY <1>1, <1>2, <1>16
<1>21. \A k \in 1 .. Len(c) : c[k] = Joined(t, b[k])
  <2>1. \A k \in 1 .. Len(c) : b[k] \in 1 .. N /\ c[k] = e[b[k]]
    BY <1>19, <1>20 DEF Kept
  <2>. QED
    BY <1>4, <2>1
<1>22. /\ b \in [1 .. Len(c) -> K] /\ (\A i, j \in 1 .. Len(c) : i < j => b[i] < b[j])
       /\ \A n \in K : \E k \in 1 .. Len(c) : b[k] = n
  BY <1>19, <1>20 DEF Kept
<1>. QED
  BY <1>17, <1>18, <1>20, <1>21, <1>22 DEF CompactedTo

LEMMA CompactedFacts ==
    ASSUME NEW t, Tree(t), NEW c, NEW b, CompactedTo(c, b, t)
    PROVE  /\ c \in Seq(Node) /\ Len(c) \in Nat /\ DOMAIN c = 1 .. Len(c)
           /\ \A k \in DOMAIN c : /\ b[k] \in DOMAIN t /\ ~Absorbs(t, t[b[k]].path)
                                  /\ t[b[k]].path \in Path /\ JoinedPath(t, t[b[k]].path) \in Path
                                  /\ c[k].path = JoinedPath(t, t[b[k]].path)
                                  /\ c[k].urls = t[b[k]].urls /\ c[k].visits = t[b[k]].visits
                                  /\ c[k].is_terminal = t[b[k]].is_terminal
           /\ \A i, j \in DOMAIN c : (i < j => b[i] < b[j]) /\ (b[i] < b[j] => i < j)
           /\ \A i, j \in DOMAIN c : b[i] = b[j] => i = j
           /\ \A n \in DOMAIN t : ~Absorbs(t, t[n].path) => \E k \in DOMAIN c : b[k] = n
<1>1. c \in Seq(Node) /\ Len(c) \in Nat /\ DOMAIN c = 1 .. Len(c)
  BY LenProperties DEF CompactedTo
<1>2. ASSUME NEW k \in DOMAIN c
      PROVE  /\ b[k] \in DOMAIN t /\ ~Absorbs(t, t[b[k]].path)
             /\ t[b[k]].path \in Path /\ JoinedPath(t, t[b[k]].path) \in Path
             /\ c[k].path = JoinedPath(t, t[b[k]].path)
             /\ c[k].urls = t[b[k]].urls /\ c[k].visits = t[b[k]].visits
             /\ c[k].is_terminal = t[b[k]].is_terminal
  <2>1. b[k] \in Staying(t) /\ c[k] = Joined(t, b[k])
    BY <1>1 DEF CompactedTo
  <2>2. b[k] \in DOMAIN t /\ ~Absorbs(t, t[b[k]].path)
    BY <2>1 DEF Staying
  <2>3. t[b[k]].path \in Path
    BY <2>2, TreeFacts
  <2>4. JoinedPath(t, t[b[k]].path) \in Path
    BY <2>3, Joins
  <2>. QED
    BY <2>1, <2>2, <2>3, <2>4 DEF Joined
<1>3. \A i, j \in DOMAIN c : i < j => b[i] < b[j]
  BY <1>1 DEF CompactedTo
<1>4. \A i \in DOMAIN c : i \in Nat /\ b[i] \in Nat
  BY <1>1, <1>2, TreeFacts
<1>5. \A i, j \in DOMAIN c : (b[i] < b[j] => i < j) /\ (b[i] = b[j] => i = j)
  BY <1>3, <1>4
<1>6. \A n \in DOMAIN t : ~Absorbs(t, t[n].path) => \E k \in DOMAIN c : b[k] = n
  BY <1>1 DEF CompactedTo, Staying
<1>. QED
  BY <1>1, <1>2, <1>3, <1>5, <1>6

LEMMA WayUnique ==
    ASSUME NEW t, NEW p \in Path, NEW e \in Path, NEW f \in Path, Way(t, e, p), Way(t, f, p)
    PROVE  e = f
<1>1. Len(e) \in Nat /\ Len(f) \in Nat
  BY LenProperties DEF Path
<1>2. CASE Len(e) <= Len(f)
  <2>1. IsPrefix(e, f)
    BY <1>2, PrefixesCompare DEF Way, Path
  <2>. QED
    BY <2>1 DEF Way
<1>3. CASE Len(f) <= Len(e)
  <2>1. IsPrefix(f, e)
    BY <1>3, PrefixesCompare DEF Way, Path
  <2>. QED
    BY <2>1 DEF Way
<1>. QED
  BY <1>1, <1>2, <1>3

Singles(t) == \A i \in DOMAIN t : Single(t[i].path)

\* A node is below another when compacted exactly if the way led there before.
LEMMA CompactedChild ==
    ASSUME NEW t, Tree(t), Singles(t), NEW c, NEW b, CompactedTo(c, b, t),
           NEW i \in DOMAIN c, NEW k \in DOMAIN c
    PROVE  c[i].path # <<>> /\ Front(c[i].path) = c[k].path <=> Way(t, t[b[k]].path, t[b[i]].path)
<1>1. PICK p \in Path : p = t[b[i]].path /\ c[i].path = JoinedPath(t, p) /\ b[i] \in DOMAIN t /\ Single(p)
  BY CompactedFacts DEF Singles
<1>2. PICK e \in Path : e = t[b[k]].path /\ c[k].path = JoinedPath(t, e) /\ Single(e)
  BY CompactedFacts DEF Singles
<1>3. ASSUME Way(t, e, p)
      PROVE  c[i].path # <<>> /\ Front(c[i].path) = c[k].path
  <2>1. p # <<>>
    BY <1>3, StrictPrefix DEF Way, Path
  <2>2. PICK f \in Path : Way(t, f, p) /\ Front(JoinedPath(t, p)) = JoinedPath(t, f)
    BY <2>1, WayUp
  <2>3. e = f
    BY <1>3, <2>2, WayUnique
  <2>4. JoinedPath(t, p) # <<>>
    BY <2>1, Joins
  <2>. QED
    BY <1>1, <1>2, <2>2, <2>3, <2>4
<1>4. ASSUME JoinedPath(t, p) # <<>>, Front(JoinedPath(t, p)) = JoinedPath(t, e)
      PROVE  Way(t, e, p)
  <2>1. p # <<>>
    BY <1>4, Joins
  <2>2. PICK f \in Path : Way(t, f, p) /\ Front(JoinedPath(t, p)) = JoinedPath(t, f)
    BY <2>1, WayUp
  <2>3. Single(f)
    <3>1. IsPrefix(f, p)
      BY <2>2 DEF Way
    <3>2. \E a \in DOMAIN t : t[a].path = f
      BY <1>1, <3>1, PrefixesPresent
    <3>. QED
      BY <3>2 DEF Singles
  <2>4. e = f
    BY <1>2, <1>4, <2>2, <2>3, JoinInjective
  <2>. QED
    BY <2>2, <2>4
<1>. QED
  BY <1>1, <1>2, <1>3, <1>4

LEMMA CompactedTree ==
    ASSUME NEW t, Tree(t), Singles(t), NEW c, NEW b, CompactedTo(c, b, t)
    PROVE  Tree(c) /\ 1 \in DOMAIN c /\ b[1] = 1
<1>1. c \in Seq(Node) /\ Len(c) \in Nat /\ DOMAIN c = 1 .. Len(c)
  BY CompactedFacts
<1>2. \A k \in DOMAIN c : /\ b[k] \in DOMAIN t /\ b[k] \in Nat /\ k \in Nat /\ ~Absorbs(t, t[b[k]].path)
                          /\ t[b[k]].path \in Path /\ Single(t[b[k]].path)
                          /\ c[k].path = JoinedPath(t, t[b[k]].path)
  <2>1. \A k \in DOMAIN t : k \in Nat
    BY TreeFacts
  <2>2. \A k \in DOMAIN c : k \in Nat
    BY <1>1
  <2>. QED
    BY <2>1, <2>2, CompactedFacts DEF Singles
<1>3. \A i, j \in DOMAIN c : /\ (i < j => b[i] < b[j]) /\ (b[i] < b[j] => i < j)
                             /\ (b[i] = b[j] => i = j)
  BY CompactedFacts
<1>4. 1 \in DOMAIN c /\ b[1] = 1
  <2>1. 1 \in DOMAIN t /\ t[1].path = <<>> /\ \A n \in DOMAIN t : n >= 1
    BY TreeFacts
  <2>2. PICK k \in DOMAIN c : b[k] = 1
    BY <2>1, CompactedFacts DEF Absorbs
  <2>3. 1 \in DOMAIN c
    BY <1>1
  <2>4. ~(1 < k)
    BY <1>2, <1>3, <2>1, <2>2, <2>3
  <2>5. k = 1
    BY <1>1, <2>4
  <2>. QED
    BY <2>2, <2>5
<1>5. c # <<>> /\ c[1].path = <<>>
  <2>1. c # <<>>
    BY <1>1, <1>4, EmptySeq
  <2>2. t[1].path = <<>> /\ <<>> \in Path
    BY <1>2, <1>4, TreeFacts
  <2>. QED
    BY <1>2, <1>4, <2>1, <2>2, Joins
<1>6. ASSUME NEW i \in DOMAIN c, NEW j \in DOMAIN c, c[i].path = c[j].path
      PROVE  i = j
  <2>1. t[b[i]].path = t[b[j]].path
    BY <1>2, <1>6, JoinInjective
  <2>2. b[i] = b[j]
    BY <1>2, <2>1 DEF Tree
  <2>. QED
    BY <1>3, <2>2
<1>7. ASSUME NEW i \in DOMAIN c, i # 1
      PROVE  \E u : ParentOf(c, u, i)
  <2>1. PICK p \in Path, n \in DOMAIN t : /\ n = b[i] /\ p = t[n].path /\ c[i].path = JoinedPath(t, p)
                                          /\ n \in Nat
    BY <1>2
  <2>2. p # <<>>
    <3>1. n # 1
      BY <1>3, <1>4, <1>7, <2>1
    <3>2. 1 \in DOMAIN t /\ t[1].path = <<>>
      BY TreeFacts
    <3>. QED
      BY <2>1, <3>1, <3>2 DEF Tree
  <2>3. PICK e \in Path : Way(t, e, p) /\ Front(JoinedPath(t, p)) = JoinedPath(t, e)
    BY <2>2, WayUp
  <2>4. IsPrefix(e, p) /\ e # p /\ ~Absorbs(t, e)
    BY <2>3 DEF Way
  <2>5. PICK a \in 1 .. n : a \in DOMAIN t /\ t[a].path = e
    BY <2>1, <2>4, PrefixesPresent
  <2>6. PICK u \in DOMAIN c : b[u] = a
    BY <2>4, <2>5, CompactedFacts
  <2>7. a < n
    BY <2>1, <2>4, <2>5
  <2>8. u < i /\ u \in 1 .. i - 1
    <3>1. u < i
      BY <1>3, <2>1, <2>6, <2>7
    <3>. QED
      BY <1>1, <3>1
  <2>9. c[u].path = JoinedPath(t, e)
    BY <1>2, <2>5, <2>6
  <2>10. ASSUME NEW j \in u .. i
         PROVE  IsPrefix(c[u].path, c[j].path)
    <3>1. j \in DOMAIN c /\ (u = j \/ u < j) /\ (j = i \/ j < i)
      BY <1>1, <2>8
    <3>2. PICK q \in Path, m \in DOMAIN t : m = b[j] /\ q = t[m].path /\ c[j].path = JoinedPath(t, q) /\ m \in Nat
      BY <1>2, <3>1
    <3>3. m \in a .. n
      <4>1. (a = m \/ a < m) /\ (m = n \/ m < n)
        BY <1>3, <2>1, <2>6, <3>1, <3>2
      <4>. QED
        BY <2>1, <3>2, <4>1
    <3>4. IsPrefix(e, q)
      BY <2>1, <2>4, <2>5, <3>2, <3>3, Interval
    <3>5. CASE e = q
      <4>1. JoinedPath(t, e) \in Path
        BY Joins
      <4>2. IsPrefix(JoinedPath(t, e), JoinedPath(t, e))
        BY <4>1, PrefixReflexive DEF Path
      <4>. QED
        BY <2>9, <3>2, <3>5, <4>2
    <3>6. CASE e # q
      BY <2>4, <2>9, <3>2, <3>4, <3>6, StaysAbove
    <3>. QED
      BY <3>5, <3>6
  <2>. QED
    BY <2>1, <2>3, <2>8, <2>9, <2>10 DEF ParentOf
<1>. QED
  BY <1>1, <1>4, <1>5, <1>6, <1>7 DEF Tree

LEMMA SamePathSameNode ==
    ASSUME NEW t, Tree(t), NEW i \in DOMAIN t, NEW j \in DOMAIN t, t[i].path = t[j].path
    PROVE  i = j
BY DEF Tree

\* A node has as many children as before.
LEMMA CompactedChildren ==
    ASSUME NEW t, Tree(t), Singles(t), NEW c, NEW b, CompactedTo(c, b, t), NEW k \in DOMAIN c
    PROVE  Cardinality(Children(c, c[k].path)) = Cardinality(Children(t, t[b[k]].path))
<1>1. Tree(c)
  BY CompactedTree
<1>2. PICK p \in Path, C \in Path : p = t[b[k]].path /\ C = c[k].path /\ ~Absorbs(t, p)
  BY CompactedFacts
<1>3. /\ IsFiniteSet(Children(t, p)) /\ IsFiniteSet(Children(c, C))
      /\ Cardinality(Children(t, p)) \in Nat /\ Cardinality(Children(c, C)) \in Nat
  BY <1>1, ChildrenAre
<1>4. \A i : i \in Children(c, C) <=> i \in DOMAIN c /\ Way(t, p, t[b[i]].path)
  <2>1. \A i : i \in Children(c, C) <=> i \in DOMAIN c /\ c[i].path # <<>> /\ Front(c[i].path) = C
    BY <1>1, ChildrenAre
  <2>2. \A i \in DOMAIN c : c[i].path # <<>> /\ Front(c[i].path) = C <=> Way(t, p, t[b[i]].path)
    BY <1>2, CompactedChild
  <2>. QED
    BY <2>1, <2>2
<1>5. \A i \in DOMAIN c : b[i] \in DOMAIN t /\ t[b[i]].path \in Path /\ ~Absorbs(t, t[b[i]].path)
  BY CompactedFacts
<1>6. \A i, j \in DOMAIN c : b[i] = b[j] => i = j
  BY CompactedFacts
<1>7. ASSUME NEW i \in DOMAIN c, NEW j \in DOMAIN c, NEW x \in Children(t, p),
             Way(t, p, t[b[i]].path), IsPrefix(t[x].path, t[b[i]].path),
             Way(t, p, t[b[j]].path), IsPrefix(t[x].path, t[b[j]].path)
      PROVE  i = j
  <2>1. PICK h \in Path : h = t[x].path /\ Len(h) = Len(p) + 1
    <3>1. x \in DOMAIN t /\ t[x].path # <<>> /\ Front(t[x].path) = p
      BY ChildrenAre
    <3>2. t[x].path \in Path
      BY <3>1, TreeFacts
    <3>. QED
      BY <3>1, <3>2, ChildFront
  <2>2. PICK m \in DOMAIN t, n \in DOMAIN t : m = b[i] /\ n = b[j]
    BY <1>5
  <2>3. Len(t[m].path) \in Nat /\ Len(t[n].path) \in Nat
    BY <1>5, <2>2, LenProperties DEF Path
  <2>4. ~Absorbs(t, t[m].path) /\ ~Absorbs(t, t[n].path)
    BY <1>5, <2>2
  <2>5. CASE Len(t[m].path) <= Len(t[n].path)
    <3>1. m = n
      BY <1>7, <2>1, <2>2, <2>4, <2>5, WaysMeet
    <3>. QED
      BY <1>6, <2>2, <3>1
  <2>6. CASE Len(t[n].path) <= Len(t[m].path)
    <3>1. n = m
      BY <1>7, <2>1, <2>2, <2>4, <2>6, WaysMeet
    <3>. QED
      BY <1>6, <2>2, <3>1
  <2>. QED
    BY <2>3, <2>5, <2>6
<1>8. Cardinality(Children(c, C)) <= Cardinality(Children(t, p))
  <2>1. PICK f : f = [x \in Children(t, p) |->
                        CHOOSE i \in DOMAIN c : Way(t, p, t[b[i]].path) /\ IsPrefix(t[x].path, t[b[i]].path)]
    OBVIOUS
  <2>2. ASSUME NEW y \in Children(c, C)
        PROVE  \E x \in Children(t, p) : f[x] = y
    <3>1. y \in DOMAIN c /\ Way(t, p, t[b[y]].path)
      BY <1>4
    <3>2. PICK m \in DOMAIN t, q \in Path : m = b[y] /\ q = t[m].path
      BY <1>5, <3>1
    <3>3. IsPrefix(p, q) /\ p # q
      BY <3>1, <3>2 DEF Way
    <3>4. PICK n \in 0 .. Len(q) : n = Len(p) + 1 /\ Len(p) \in Nat
      <4>1. Len(p) < Len(q) /\ Len(p) \in Nat /\ Len(q) \in Nat
        BY <3>3, StrictPrefix, LenProperties DEF Path
      <4>. QED
        BY <4>1
    <3>5. PICK h \in Path : h = SubSeq(q, 1, n) /\ Len(h) = n /\ IsPrefix(h, q)
      BY FirstPart DEF Path
    <3>6. PICK x \in DOMAIN t : t[x].path = h
      BY <3>2, <3>5, PrefixesPresent
    <3>7. IsPrefix(p, h)
      <4>1. Len(p) <= Len(h)
        BY <3>4, <3>5
      <4>. QED
        BY <3>3, <3>5, <4>1, PrefixesCompare DEF Path
    <3>8. h # <<>> /\ Front(h) = p
      BY <3>4, <3>5, <3>7, ChildFront
    <3>9. x \in Children(t, p)
      BY <3>6, <3>8, ChildrenAre
    <3>10. IsPrefix(t[x].path, t[b[y]].path)
      BY <3>2, <3>5, <3>6
    <3>11. f[x] = y
      <4>1. PICK i : i = f[x]
        OBVIOUS
      <4>2. i \in DOMAIN c /\ Way(t, p, t[b[i]].path) /\ IsPrefix(t[x].path, t[b[i]].path)
        BY <2>1, <3>1, <3>9, <3>10, <4>1
      <4>3. i = y
        BY <1>7, <3>1, <3>9, <3>10, <4>2
      <4>. QED
        BY <4>1, <4>3
    <3>. QED
      BY <3>9, <3>11
  <2>. QED
    BY <1>3, <2>2, CoveredBy
<1>9. Cardinality(Children(t, p)) <= Cardinality(Children(c, C))
  <2>1. PICK g : g = [i \in Children(c, C) |-> CHOOSE x \in Children(t, p) : IsPrefix(t[x].path, t[b[i]].path)]
    OBVIOUS
  <2>2. ASSUME NEW x \in Children(t, p)
        PROVE  \E i \in Children(c, C) : g[i] = x
    <3>1. PICK j \in DOMAIN t : /\ ~Absorbs(t, t[j].path) /\ Way(t, p, t[j].path)
                                /\ IsPrefix(t[x].path, t[j].path)
      BY <1>2, WayDown
    <3>2. PICK i \in DOMAIN c : b[i] = j
      BY <3>1, CompactedFacts
    <3>3. i \in Children(c, C)
      BY <1>4, <3>1, <3>2
    <3>4. PICK y : y = g[i]
      OBVIOUS
    <3>5. y \in Children(t, p) /\ IsPrefix(t[y].path, t[j].path)
      BY <2>1, <3>1, <3>2, <3>3, <3>4
    <3>6. /\ x \in DOMAIN t /\ t[x].path # <<>> /\ Front(t[x].path) = p
          /\ y \in DOMAIN t /\ t[y].path # <<>> /\ Front(t[y].path) = p
      BY <3>5, ChildrenAre
    <3>7. PICK u \in Path, v \in Path, w \in Path : u = t[x].path /\ v = t[y].path /\ w = t[j].path
      BY <3>6, TreeFacts
    <3>8. Len(u) = Len(p) + 1 /\ Len(v) = Len(p) + 1 /\ Len(p) \in Nat
      BY <3>6, <3>7, ChildFront, LenProperties DEF Path
    <3>9. IsPrefix(u, w) /\ IsPrefix(v, w) /\ Len(u) <= Len(v) /\ Len(v) <= Len(u)
      BY <3>1, <3>5, <3>7, <3>8
    <3>10. IsPrefix(u, v)
      BY <3>9, PrefixesCompare DEF Path
    <3>11. u = v
      BY <3>9, <3>10, PrefixOfSameLength DEF Path
    <3>12. x = y
      BY <3>6, <3>7, <3>11, SamePathSameNode
    <3>. QED
      BY <3>3, <3>4, <3>12
  <2>. QED
    BY <1>3, <2>2, CoveredBy
<1>. QED
  BY <1>2, <1>3, <1>8, <1>9

\* Compacting keeps within the limit of children and leaves nothing to compact.
LEMMA CompactedShape ==
    ASSUME NEW t, Tree(t), Singles(t), NEW c, NEW b, CompactedTo(c, b, t)
    PROVE  /\ Narrow(t) => Narrow(c)
           /\ \A k \in DOMAIN c : ~Absorbs(c, c[k].path)
<1>1. Tree(c)
  BY CompactedTree
<1>2. ASSUME Narrow(t), NEW k \in DOMAIN c
      PROVE  Cardinality(Children(c, c[k].path)) <= MaxChildren
  <2>1. b[k] \in DOMAIN t
    BY CompactedFacts
  <2>. QED
    BY <1>2, <2>1, CompactedChildren DEF Narrow
<1>3. ASSUME NEW k \in DOMAIN c, Absorbs(c, c[k].path)
      PROVE  FALSE
  <2>1. /\ b[k] \in DOMAIN t /\ ~Absorbs(t, t[b[k]].path) /\ t[b[k]].path \in Path
        /\ c[k].path = JoinedPath(t, t[b[k]].path)
        /\ c[k].is_terminal = t[b[k]].is_terminal
    BY CompactedFacts
  <2>2. At(c, c[k].path) = k /\ At(t, t[b[k]].path) = b[k]
    BY <1>1, <2>1, AtNode
  <2>3. Cardinality(Children(c, c[k].path)) = Cardinality(Children(t, t[b[k]].path))
    BY CompactedChildren
  <2>4. t[b[k]].path # <<>>
    <3>1. c[k].path # <<>>
      BY <1>3 DEF Absorbs
    <3>. QED
      BY <2>1, <3>1, Joins
  <2>. QED
    BY <1>3, <2>1, <2>2, <2>3, <2>4 DEF Absorbs
<1>. QED
  BY <1>2, <1>3 DEF Narrow

-----------------------------------------------------------------------------
(* Counts.                                                                  *)

UrlsIn(s) == [i \in DOMAIN s |-> s[i].urls]
VisitsIn(s) == [i \in DOMAIN s |-> s[i].visits]

LEMMA UrlSum ==
    ASSUME NEW s, NEW D, IsFiniteSet(D), D \subseteq DOMAIN s, \A i \in D : s[i].urls \in Nat
    PROVE  /\ MapThenSumSet(LAMBDA i : s[i].urls, D) = SumOf(UrlsIn(s), D)
           /\ SumOf(UrlsIn(s), D) \in Int
<1> DEFINE f == UrlsIn(s)
           iter == CHOOSE g : g = [d \in SUBSET D |-> IF d = {} THEN 0
                       ELSE s[CHOOSE x \in d : TRUE].urls + g[d \ {CHOOSE x \in d : TRUE}]]
<1>1. MapThenSumSet(LAMBDA i : s[i].urls, D) = iter[D]
  BY DEF MapThenSumSet, MapThenFoldSet
<1>2. \A i \in D : f[i] = s[i].urls /\ f[i] \in Int
  BY DEF UrlsIn
<1> HIDE DEF f
<1>3. PICK g : Partial(g, f, D)
  BY <1>2, PartialExists
<1>4. \A d \in SUBSET D : d # {} => f[First(d)] = s[First(d)].urls
  BY <1>2, FirstIn
<1>5. g = [d \in SUBSET D |-> IF d = {} THEN 0
               ELSE s[CHOOSE x \in d : TRUE].urls + g[d \ {CHOOSE x \in d : TRUE}]]
  <2>1. g = [d \in SUBSET D |-> g[d]]
    BY <1>3 DEF Partial
  <2>2. \A d \in SUBSET D : g[d] = IF d = {} THEN 0 ELSE s[First(d)].urls + g[d \ {First(d)}]
    BY <1>3, <1>4 DEF Partial
  <2>3. [d \in SUBSET D |-> g[d]] = [d \in SUBSET D |->
            IF d = {} THEN 0 ELSE s[First(d)].urls + g[d \ {First(d)}]]
    BY <2>2
  <2>. QED
    BY <2>1, <2>3, Zenon DEF First
<1>6. iter = [d \in SUBSET D |-> IF d = {} THEN 0
                  ELSE s[CHOOSE x \in d : TRUE].urls + iter[d \ {CHOOSE x \in d : TRUE}]]
  BY <1>5
<1> HIDE DEF iter
<1>7. Iterates(iter, f, D)
  <2>1. iter = [d \in SUBSET D |-> IF d = {} THEN 0 ELSE s[First(d)].urls + iter[d \ {First(d)}]]
    BY <1>6, Zenon DEF First
  <2>2. \A d \in SUBSET D : iter[d] = IF d = {} THEN 0 ELSE s[First(d)].urls + iter[d \ {First(d)}]
    BY <2>1, Zenon
  <2>3. ASSUME NEW d \in SUBSET D
        PROVE  iter[d] = IF d = {} THEN 0 ELSE f[First(d)] + iter[d \ {First(d)}]
    BY <1>4, <2>2
  <2>. QED
    BY <2>3 DEF Iterates
<1>8. iter[D] = SumOf(f, D) /\ SumOf(f, D) \in Int
  BY <1>2, <1>7, IterIsSum, SumType
<1>. QED
  BY <1>1, <1>8 DEF f

LEMMA VisitSum ==
    ASSUME NEW s, NEW D, IsFiniteSet(D), D \subseteq DOMAIN s, \A i \in D : s[i].visits \in Nat
    PROVE  /\ MapThenSumSet(LAMBDA i : s[i].visits, D) = SumOf(VisitsIn(s), D)
           /\ SumOf(VisitsIn(s), D) \in Int
<1> DEFINE f == VisitsIn(s)
           iter == CHOOSE g : g = [d \in SUBSET D |-> IF d = {} THEN 0
                       ELSE s[CHOOSE x \in d : TRUE].visits + g[d \ {CHOOSE x \in d : TRUE}]]
<1>1. MapThenSumSet(LAMBDA i : s[i].visits, D) = iter[D]
  BY DEF MapThenSumSet, MapThenFoldSet
<1>2. \A i \in D : f[i] = s[i].visits /\ f[i] \in Int
  BY DEF VisitsIn
<1> HIDE DEF f
<1>3. PICK g : Partial(g, f, D)
  BY <1>2, PartialExists
<1>4. \A d \in SUBSET D : d # {} => f[First(d)] = s[First(d)].visits
  BY <1>2, FirstIn
<1>5. g = [d \in SUBSET D |-> IF d = {} THEN 0
               ELSE s[CHOOSE x \in d : TRUE].visits + g[d \ {CHOOSE x \in d : TRUE}]]
  <2>1. g = [d \in SUBSET D |-> g[d]]
    BY <1>3 DEF Partial
  <2>2. \A d \in SUBSET D : g[d] = IF d = {} THEN 0 ELSE s[First(d)].visits + g[d \ {First(d)}]
    BY <1>3, <1>4 DEF Partial
  <2>3. [d \in SUBSET D |-> g[d]] = [d \in SUBSET D |->
            IF d = {} THEN 0 ELSE s[First(d)].visits + g[d \ {First(d)}]]
    BY <2>2
  <2>. QED
    BY <2>1, <2>3, Zenon DEF First
<1>6. iter = [d \in SUBSET D |-> IF d = {} THEN 0
                  ELSE s[CHOOSE x \in d : TRUE].visits + iter[d \ {CHOOSE x \in d : TRUE}]]
  BY <1>5
<1> HIDE DEF iter
<1>7. Iterates(iter, f, D)
  <2>1. iter = [d \in SUBSET D |-> IF d = {} THEN 0 ELSE s[First(d)].visits + iter[d \ {First(d)}]]
    BY <1>6, Zenon DEF First
  <2>2. \A d \in SUBSET D : iter[d] = IF d = {} THEN 0 ELSE s[First(d)].visits + iter[d \ {First(d)}]
    BY <2>1, Zenon
  <2>3. ASSUME NEW d \in SUBSET D
        PROVE  iter[d] = IF d = {} THEN 0 ELSE f[First(d)] + iter[d \ {First(d)}]
    BY <1>4, <2>2
  <2>. QED
    BY <2>3 DEF Iterates
<1>8. iter[D] = SumOf(f, D) /\ SumOf(f, D) \in Int
  BY <1>2, <1>7, IterIsSum, SumType
<1>. QED
  BY <1>1, <1>8 DEF f

LEMMA SubtreeSums ==
    ASSUME NEW t, Tree(t), NEW i \in DOMAIN t
    PROVE  /\ SubtreeUrls(t, i) = SumOf(UrlsIn(t), Under(t, t[i].path))
           /\ SubtreeVisits(t, i) = SumOf(VisitsIn(t), Under(t, t[i].path))
           /\ i = 1 => Under(t, t[i].path) = DOMAIN t
<1>1. PICK D : D = Under(t, t[i].path)
  OBVIOUS
<1>2. IsFiniteSet(D) /\ D \subseteq DOMAIN t
  <2>1. t[i].path \in Path
    BY TreeFacts
  <2>. QED
    BY <1>1, <2>1, ChildrenAre
<1>3. \A j \in D : t[j].urls \in Nat /\ t[j].visits \in Nat
  BY <1>2, TreeFacts DEF Node
<1>4. MapThenSumSet(LAMBDA j : t[j].urls, D) = SumOf(UrlsIn(t), D)
  BY <1>2, <1>3, UrlSum
<1>5. MapThenSumSet(LAMBDA j : t[j].visits, D) = SumOf(VisitsIn(t), D)
  BY <1>2, <1>3, VisitSum
<1>6. i = 1 => Under(t, t[i].path) = DOMAIN t
  <2>1. t[1].path = <<>> /\ \A j \in DOMAIN t : IsPrefix(<<>>, t[j].path)
    BY TreeFacts, PrefixReflexive DEF Path
  <2>. QED
    BY <2>1 DEF Under
<1>. QED
  BY <1>1, <1>4, <1>5, <1>6 DEF SubtreeUrls, SubtreeVisits

\* What is counted is counted at the names.
CountedAtNames(t) == \A i \in DOMAIN t : ~t[i].is_terminal => t[i].urls = 0 /\ t[i].visits = 0

Names(t) == {i \in DOMAIN t : t[i].is_terminal}

LEMMA NamesStay ==
    ASSUME NEW t, Tree(t), NEW n \in DOMAIN t, Absorbs(t, t[n].path)
    PROVE  ~t[n].is_terminal
<1>1. At(t, t[n].path) = n
  BY AtNode
<1>. QED
  BY <1>1 DEF Absorbs

\* Compacting loses no name and no count.
LEMMA CompactedCounts ==
    ASSUME NEW t, Tree(t), Singles(t), CountedAtNames(t), NEW c, NEW b, CompactedTo(c, b, t)
    PROVE  /\ Len(c) <= Len(t) /\ UniqueCount(c) = UniqueCount(t) /\ CountedAtNames(c)
           /\ SumOf(UrlsIn(c), DOMAIN c) = SumOf(UrlsIn(t), DOMAIN t)
           /\ SumOf(VisitsIn(c), DOMAIN c) = SumOf(VisitsIn(t), DOMAIN t)
<1>1. /\ c \in Seq(Node) /\ Len(c) \in Nat /\ DOMAIN c = 1 .. Len(c)
      /\ \A k \in DOMAIN c : /\ b[k] \in DOMAIN t
                             /\ c[k].urls = t[b[k]].urls /\ c[k].visits = t[b[k]].visits
                             /\ c[k].is_terminal = t[b[k]].is_terminal
      /\ \A i, j \in DOMAIN c : b[i] = b[j] => i = j
      /\ \A n \in DOMAIN t : ~Absorbs(t, t[n].path) => \E k \in DOMAIN c : b[k] = n
  BY CompactedFacts
<1>2. Len(t) \in Nat /\ DOMAIN t = 1 .. Len(t) /\ IsFiniteSet(DOMAIN t) /\ \A i \in DOMAIN t : t[i] \in Node
  BY TreeFacts
<1>3. IsFiniteSet(DOMAIN c) /\ Cardinality(DOMAIN c) = Len(c) /\ Cardinality(DOMAIN t) = Len(t)
  <2>1. \A n \in Nat : IsFiniteSet(1 .. n) /\ Cardinality(1 .. n) = n
    BY FS_Interval
  <2>. QED
    BY <1>1, <1>2, <2>1
<1>4. \A n \in DOMAIN t : t[n].is_terminal => \E k \in DOMAIN c : b[k] = n
  BY <1>1, NamesStay
<1>5. PICK f : f = [n \in DOMAIN t |-> CHOOSE k \in DOMAIN c : b[k] = n]
  OBVIOUS
<1>6. \A k \in DOMAIN c : f[b[k]] = k
  BY <1>1, <1>5
<1>7. Len(c) <= Len(t)
  <2>1. \A y \in DOMAIN c : \E x \in DOMAIN t : f[x] = y
    BY <1>1, <1>6
  <2>2. Cardinality(DOMAIN c) <= Cardinality(DOMAIN t)
    BY ONLY <1>2, <2>1, CoveredBy
  <2>. QED
    BY <1>3, <2>2
<1>8. UniqueCount(c) = UniqueCount(t)
  <2>1. IsFiniteSet(Names(c)) /\ IsFiniteSet(Names(t))
    <3>1. Names(c) \subseteq DOMAIN c /\ Names(t) \subseteq DOMAIN t
      BY DEF Names
    <3>. QED
      BY <1>2, <1>3, <3>1, FS_Subset
  <2>2. \A y \in Names(c) : \E x \in Names(t) : f[x] = y
    BY <1>1, <1>6 DEF Names
  <2>3. \A y \in Names(t) : \E x \in Names(c) : b[x] = y
    BY <1>1, <1>4 DEF Names
  <2>4. Cardinality(Names(c)) <= Cardinality(Names(t))
    BY ONLY <2>1, <2>2, CoveredBy
  <2>5. Cardinality(Names(t)) <= Cardinality(Names(c))
    BY ONLY <2>1, <2>3, CoveredBy
  <2>6. Cardinality(Names(t)) \in Nat /\ Cardinality(Names(c)) \in Nat
    BY <2>1, FS_CardinalityType
  <2>. QED
    BY <2>4, <2>5, <2>6 DEF Names, UniqueCount
<1>9. CountedAtNames(c)
  BY <1>1 DEF CountedAtNames
<1>10. PICK m : m = [k \in DOMAIN c |-> b[k]]
  OBVIOUS
<1>11. m \in [DOMAIN c -> DOMAIN t] /\ \A x, y \in DOMAIN c : m[x] = m[y] => x = y
  BY <1>1, <1>10
<1>12. \A n \in DOMAIN t : (\A k \in DOMAIN c : m[k] # n) => t[n].urls = 0 /\ t[n].visits = 0
  BY <1>4, <1>10 DEF CountedAtNames
<1>13. SumOf(UrlsIn(c), DOMAIN c) = SumOf(UrlsIn(t), DOMAIN t)
  <2>1. PICK u, v : u = UrlsIn(c) /\ v = UrlsIn(t)
    OBVIOUS
  <2>2. \A x \in DOMAIN c : u[x] = v[m[x]]
    BY <1>1, <1>10, <2>1 DEF UrlsIn
  <2>3. \A y \in DOMAIN t : v[y] \in Int
    BY <1>2, <2>1 DEF UrlsIn, Node
  <2>4. \A y \in DOMAIN t : (\A x \in DOMAIN c : m[x] # y) => v[y] = 0
    BY <1>12, <2>1 DEF UrlsIn
  <2>5. PICK C, D : C = DOMAIN c /\ D = DOMAIN t
    OBVIOUS
  <2>6. /\ IsFiniteSet(C) /\ IsFiniteSet(D) /\ m \in [C -> D] /\ \A x, y \in C : m[x] = m[y] => x = y
        /\ \A x \in C : u[x] = v[m[x]]
        /\ \A y \in D : v[y] \in Int
        /\ \A y \in D : (\A x \in C : m[x] # y) => v[y] = 0
    BY ONLY <1>2, <1>3, <1>11, <2>2, <2>3, <2>4, <2>5
  <2>7. SumOf(u, C) = SumOf(v, D)
    BY ONLY <2>6, SumMoved
  <2>. QED
    BY <2>1, <2>5, <2>7
<1>14. SumOf(VisitsIn(c), DOMAIN c) = SumOf(VisitsIn(t), DOMAIN t)
  <2>1. PICK u, v : u = VisitsIn(c) /\ v = VisitsIn(t)
    OBVIOUS
  <2>2. \A x \in DOMAIN c : u[x] = v[m[x]]
    BY <1>1, <1>10, <2>1 DEF VisitsIn
  <2>3. \A y \in DOMAIN t : v[y] \in Int
    BY <1>2, <2>1 DEF VisitsIn, Node
  <2>4. \A y \in DOMAIN t : (\A x \in DOMAIN c : m[x] # y) => v[y] = 0
    BY <1>12, <2>1 DEF VisitsIn
  <2>5. PICK C, D : C = DOMAIN c /\ D = DOMAIN t
    OBVIOUS
  <2>6. /\ IsFiniteSet(C) /\ IsFiniteSet(D) /\ m \in [C -> D] /\ \A x, y \in C : m[x] = m[y] => x = y
        /\ \A x \in C : u[x] = v[m[x]]
        /\ \A y \in D : v[y] \in Int
        /\ \A y \in D : (\A x \in C : m[x] # y) => v[y] = 0
    BY ONLY <1>2, <1>3, <1>11, <2>2, <2>3, <2>4, <2>5
  <2>7. SumOf(u, C) = SumOf(v, D)
    BY ONLY <2>6, SumMoved
  <2>. QED
    BY <2>1, <2>5, <2>7
<1>. QED
  BY <1>7, <1>8, <1>9, <1>13, <1>14

-----------------------------------------------------------------------------
(* Counts and the list of the names accepted.                               *)

\* New nodes that are worth nothing leave the sum below every path.
LEMMA SplicedSum ==
    ASSUME NEW t, Tree(t), NEW labels \in Seq(Part), NEW T, NEW k, NEW last, NEW d,
           Spliced(T, t, labels, k, last, d), NEW p \in Path, NEW u, NEW v,
           \A o \in DOMAIN t : u[o] \in Nat /\ u[o] = v[Moved(o, last, d)],
           \A m \in 1 .. d : v[last + m] = 0
    PROVE  SumOf(u, Under(t, p)) = SumOf(v, Under(T, p))
<1>1. Tree(T)
  BY SplicedTree
<1>2. /\ IsFiniteSet(Under(t, p)) /\ Under(t, p) \in SUBSET DOMAIN t
      /\ IsFiniteSet(Under(T, p)) /\ Under(T, p) \in SUBSET DOMAIN T
  BY <1>1, ChildrenAre
<1>3. /\ Len(t) \in Nat /\ d \in Nat /\ last \in 1 .. Len(t) /\ DOMAIN t = 1 .. Len(t)
      /\ \A o \in DOMAIN t : Moved(o, last, d) \in DOMAIN T /\ T[Moved(o, last, d)] = t[o]
  BY SplicedPaths
<1>4. PICK m : m = [o \in Under(t, p) |-> Moved(o, last, d)]
  OBVIOUS
<1>5. \A o \in DOMAIN t : o \in Under(t, p) <=> Moved(o, last, d) \in Under(T, p)
  BY <1>3 DEF Under
<1>6. m \in [Under(t, p) -> Under(T, p)]
  BY <1>2, <1>4, <1>5
<1>7. \A x, y \in DOMAIN t : Moved(x, last, d) = Moved(y, last, d) => x = y
  BY <1>3 DEF Moved
<1>8. \A x, y \in Under(t, p) : m[x] = m[y] => x = y
  BY <1>2, <1>4, <1>7
<1>9. \A i \in DOMAIN T : (\E o \in DOMAIN t : i = Moved(o, last, d)) \/ \E n \in 1 .. d : i = last + n
  BY SplicedFrom
<1>10. \A y \in Under(T, p) : v[y] \in Int
  <2> SUFFICES ASSUME NEW y \in Under(T, p) PROVE v[y] \in Int
    OBVIOUS
  <2>1. CASE \E o \in DOMAIN t : y = Moved(o, last, d)
    BY <2>1
  <2>2. CASE \E n \in 1 .. d : y = last + n
    BY <2>2
  <2>. QED
    BY <1>2, <1>9, <2>1, <2>2
<1>11. \A y \in Under(T, p) : (\A x \in Under(t, p) : m[x] # y) => v[y] = 0
  BY <1>2, <1>4, <1>5, <1>9
<1>12. \A x \in Under(t, p) : u[x] = v[m[x]]
  BY <1>2, <1>4
<1>13. PICK C, D : C = Under(t, p) /\ D = Under(T, p)
  OBVIOUS
<1>14. /\ IsFiniteSet(C) /\ IsFiniteSet(D) /\ m \in [C -> D] /\ \A x, y \in C : m[x] = m[y] => x = y
       /\ \A x \in C : u[x] = v[m[x]]
       /\ \A y \in D : v[y] \in Int
       /\ \A y \in D : (\A x \in C : m[x] # y) => v[y] = 0
  BY ONLY <1>2, <1>6, <1>8, <1>10, <1>11, <1>12, <1>13
<1>15. SumOf(u, C) = SumOf(v, D)
  BY ONLY <1>14, SumMoved
<1>. QED
  BY <1>13, <1>15

UrlsUnder(t, p) == SumOf(UrlsIn(t), Under(t, p))
VisitsUnder(t, p) == SumOf(VisitsIn(t), Under(t, p))

\* Growing changes no count and names nothing.
LEMMA SplicedCounts ==
    ASSUME NEW t, Tree(t), NEW labels \in Seq(Part), NEW T, NEW k, NEW last, NEW d,
           Spliced(T, t, labels, k, last, d)
    PROVE  /\ \A p \in Path : UrlsUnder(T, p) = UrlsUnder(t, p) /\ VisitsUnder(T, p) = VisitsUnder(t, p)
           /\ UniqueCount(T) = UniqueCount(t)
           /\ CountedAtNames(t) => CountedAtNames(T)
           /\ Singles(t) => Singles(T)
<1>1. /\ Len(t) \in Nat /\ d \in Nat /\ last \in 1 .. Len(t) /\ DOMAIN t = 1 .. Len(t)
      /\ k + d <= Len(labels) /\ k \in Nat /\ Len(labels) \in Nat
      /\ DOMAIN T = 1 .. Len(t) + d
      /\ \A o \in DOMAIN t : Moved(o, last, d) \in DOMAIN T /\ T[Moved(o, last, d)] = t[o]
      /\ \A m \in 1 .. d : last + m \in DOMAIN T /\ T[last + m] = NodeCreate(PathOf(labels, k + m))
  BY SplicedPaths
<1>2. \A i \in DOMAIN T : (\E o \in DOMAIN t : i = Moved(o, last, d)) \/ \E n \in 1 .. d : i = last + n
  BY SplicedFrom
<1>3. \A m \in 1 .. d : /\ T[last + m].urls = 0 /\ T[last + m].visits = 0
                        /\ ~T[last + m].is_terminal /\ T[last + m].path = PathOf(labels, k + m)
  <2> SUFFICES ASSUME NEW m \in 1 .. d
               PROVE  /\ T[last + m].urls = 0 /\ T[last + m].visits = 0
                      /\ ~T[last + m].is_terminal /\ T[last + m].path = PathOf(labels, k + m)
    OBVIOUS
  <2>1. PICK n, q : n = T[last + m] /\ q = PathOf(labels, k + m)
    OBVIOUS
  <2>2. n = NodeCreate(q)
    BY <1>1, <2>1
  <2>3. n.urls = 0 /\ n.visits = 0 /\ ~n.is_terminal /\ n.path = q
    BY ONLY <2>2 DEF NodeCreate
  <2>. QED
    BY <2>1, <2>3
<1>4. \A i \in DOMAIN t : t[i] \in Node
  BY TreeFacts
<1>5. ASSUME NEW p \in Path PROVE UrlsUnder(T, p) = UrlsUnder(t, p)
  <2>1. PICK u, v : u = UrlsIn(t) /\ v = UrlsIn(T)
    OBVIOUS
  <2>2. \A o \in DOMAIN t : u[o] \in Nat /\ u[o] = v[Moved(o, last, d)]
    BY <1>1, <1>4, <2>1 DEF UrlsIn, Node
  <2>3. \A m \in 1 .. d : v[last + m] = 0
    BY <1>1, <1>3, <2>1 DEF UrlsIn
  <2>4. SumOf(u, Under(t, p)) = SumOf(v, Under(T, p))
    BY <2>2, <2>3, SplicedSum
  <2>. QED
    BY <2>1, <2>4 DEF UrlsUnder
<1>6. ASSUME NEW p \in Path PROVE VisitsUnder(T, p) = VisitsUnder(t, p)
  <2>1. PICK u, v : u = VisitsIn(t) /\ v = VisitsIn(T)
    OBVIOUS
  <2>2. \A o \in DOMAIN t : u[o] \in Nat /\ u[o] = v[Moved(o, last, d)]
    BY <1>1, <1>4, <2>1 DEF VisitsIn, Node
  <2>3. \A m \in 1 .. d : v[last + m] = 0
    BY <1>1, <1>3, <2>1 DEF VisitsIn
  <2>4. SumOf(u, Under(t, p)) = SumOf(v, Under(T, p))
    BY <2>2, <2>3, SplicedSum
  <2>. QED
    BY <2>1, <2>4 DEF VisitsUnder
<1>7. UniqueCount(T) = UniqueCount(t)
  <2>1. IsFiniteSet(DOMAIN t) /\ IsFiniteSet(DOMAIN T)
    BY <1>1, FS_Interval
  <2>2. IsFiniteSet(Names(t)) /\ IsFiniteSet(Names(T))
    <3>1. Names(T) \subseteq DOMAIN T /\ Names(t) \subseteq DOMAIN t
      BY DEF Names
    <3>. QED
      BY <2>1, <3>1, FS_Subset
  <2>3. PICK f : f = [o \in DOMAIN t |-> Moved(o, last, d)]
    OBVIOUS
  <2>4. PICK g : g = [i \in DOMAIN T |-> CHOOSE o \in DOMAIN t : i = Moved(o, last, d)]
    OBVIOUS
  <2>5. \A x, y \in DOMAIN t : Moved(x, last, d) = Moved(y, last, d) => x = y
    BY <1>1 DEF Moved
  <2>6. \A o \in DOMAIN t : g[Moved(o, last, d)] = o
    BY <1>1, <2>4, <2>5
  <2>7. \A i \in Names(T) : \E o \in Names(t) : f[o] = i
    <3> SUFFICES ASSUME NEW i \in DOMAIN T, T[i].is_terminal
                 PROVE  \E o \in Names(t) : f[o] = i
      BY DEF Names
    <3>1. PICK o \in DOMAIN t : i = Moved(o, last, d)
      BY <1>2, <1>3
    <3>2. T[i] = t[o] /\ f[o] = i
      BY <1>1, <2>3, <3>1
    <3>3. o \in Names(t)
      BY <3>2 DEF Names
    <3>. QED
      BY <3>2, <3>3
  <2>8. \A o \in Names(t) : \E i \in Names(T) : g[i] = o
    BY <1>1, <2>6 DEF Names
  <2>9. Cardinality(Names(T)) <= Cardinality(Names(t))
    BY ONLY <2>2, <2>7, CoveredBy
  <2>10. Cardinality(Names(t)) <= Cardinality(Names(T))
    BY ONLY <2>2, <2>8, CoveredBy
  <2>11. Cardinality(Names(t)) \in Nat /\ Cardinality(Names(T)) \in Nat
    BY <2>2, FS_CardinalityType
  <2>. QED
    BY <2>9, <2>10, <2>11 DEF Names, UniqueCount
<1>8. ASSUME CountedAtNames(t) PROVE CountedAtNames(T)
  <2> SUFFICES ASSUME NEW i \in DOMAIN T, ~T[i].is_terminal
               PROVE  T[i].urls = 0 /\ T[i].visits = 0
    BY DEF CountedAtNames
  <2>1. CASE \E o \in DOMAIN t : i = Moved(o, last, d)
    <3>1. PICK o \in DOMAIN t : i = Moved(o, last, d)
      BY <2>1
    <3>2. T[i] = t[o]
      BY <1>1, <3>1
    <3>. QED
      BY <1>8, <3>2 DEF CountedAtNames
  <2>2. CASE \E n \in 1 .. d : i = last + n
    BY <1>3, <2>2
  <2>. QED
    BY <1>2, <2>1, <2>2
<1>9. ASSUME Singles(t) PROVE Singles(T)
  <2> SUFFICES ASSUME NEW i \in DOMAIN T PROVE Single(T[i].path)
    BY DEF Singles
  <2>1. CASE \E o \in DOMAIN t : i = Moved(o, last, d)
    BY <1>1, <1>9, <2>1 DEF Singles
  <2>2. CASE \E n \in 1 .. d : i = last + n
    <3>1. PICK n \in 1 .. d : i = last + n
      BY <2>2
    <3>2. k + n \in 0 .. Len(labels) /\ T[i].path = PathOf(labels, k + n)
      BY <1>1, <1>3, <3>1
    <3>3. Len(PathOf(labels, k + n)) = k + n /\ \A m \in 1 .. k + n : PathOf(labels, k + n)[m] = <<labels[m]>>
      BY <3>2, PathOfFacts
    <3>4. \A x : Len(<<x>>) = 1
      OBVIOUS
    <3>. QED
      BY ONLY <3>2, <3>3, <3>4 DEF Single
  <2>. QED
    BY <1>2, <2>1, <2>2
<1>. QED
  BY <1>5, <1>6, <1>7, <1>8, <1>9

\* A node that is marked as a name adds its counts to all above it.
LEMMA MarkedCounts ==
    ASSUME NEW t, Tree(t), NEW i \in DOMAIN t, NEW urls \in Nat, NEW visits \in Nat,
           NEW T, T = Marked(t, i, urls, visits)
    PROVE  /\ \A p \in Path :
                /\ UrlsUnder(T, p) = UrlsUnder(t, p) + (IF IsPrefix(p, t[i].path) THEN urls ELSE 0)
                /\ VisitsUnder(T, p) = VisitsUnder(t, p) + (IF IsPrefix(p, t[i].path) THEN visits ELSE 0)
           /\ UniqueCount(T) = UniqueCount(t) + (IF t[i].is_terminal THEN 0 ELSE 1)
           /\ Names(T) = Names(t) \cup {i}
           /\ CountedAtNames(t) => CountedAtNames(T)
           /\ Singles(t) => Singles(T)
<1>1. /\ T \in Seq(Node) /\ Len(T) = Len(t)
      /\ \A j \in DOMAIN t : j # i => T[j] = t[j]
      /\ T[i] = [path |-> t[i].path, urls |-> t[i].urls + urls,
                 visits |-> t[i].visits + visits, is_terminal |-> TRUE]
  BY MarkedFacts
<1>2. /\ T[i].path = t[i].path /\ T[i].urls = t[i].urls + urls /\ T[i].visits = t[i].visits + visits
      /\ T[i].is_terminal
  BY <1>1
<1>3. \A j \in DOMAIN t : T[j].path = t[j].path
  BY <1>1, <1>2
<1>4. DOMAIN T = DOMAIN t /\ \A p : Under(T, p) = Under(t, p)
  BY <1>1, <1>3, SamePaths
<1>5. Len(t) \in Nat /\ DOMAIN t = 1 .. Len(t) /\ IsFiniteSet(DOMAIN t) /\ \A j \in DOMAIN t : t[j] \in Node
  BY TreeFacts
<1>6. \A j \in DOMAIN t : /\ t[j].urls \in Nat /\ t[j].visits \in Nat
                         /\ T[j].urls \in Nat /\ T[j].visits \in Nat
  <2>1. \A j \in DOMAIN t : T[j] \in Node
    BY <1>1, <1>4
  <2>. QED
    BY <1>5, <2>1 DEF Node
<1>7. ASSUME NEW p \in Path
      PROVE  UrlsUnder(T, p) = UrlsUnder(t, p) + (IF IsPrefix(p, t[i].path) THEN urls ELSE 0)
  <2>1. PICK u, v, D : u = UrlsIn(t) /\ v = UrlsIn(T) /\ D = Under(t, p)
    OBVIOUS
  <2>2. IsFiniteSet(D) /\ D \in SUBSET DOMAIN t
    BY <2>1, ChildrenAre
  <2>3. \A j \in D : u[j] \in Int /\ v[j] \in Int
    BY ONLY <1>4, <1>6, <2>1, <2>2, \A n \in Nat : n \in Int DEF UrlsIn
  <2>4. \A j \in D \ {i} : u[j] = v[j]
    BY <1>1, <1>4, <2>1, <2>2 DEF UrlsIn
  <2>5. v[i] - u[i] = urls
    BY <1>2, <1>4, <1>6, <2>1 DEF UrlsIn
  <2>6. i \in D <=> IsPrefix(p, t[i].path)
    BY <2>1 DEF Under
  <2>7. SumOf(u, D) \in Int
    BY <2>2, <2>3, SumType
  <2>8. ASSUME i \in D PROVE SumOf(v, D) = SumOf(u, D) + urls
    <3>1. DifferAt(u, v, D, i)
      BY <2>2, <2>3, <2>4, <2>8 DEF DifferAt
    <3>2. SumOf(v, D) = SumOf(u, D) + (v[i] - u[i])
      BY <3>1, SumChanges
    <3>. QED
      BY <2>5, <3>2
  <2>9. ASSUME i \notin D PROVE SumOf(v, D) = SumOf(u, D)
    <3>1. \A j \in D : u[j] \in Int /\ u[j] = v[j]
      BY <2>3, <2>4, <2>9
    <3>. QED
      BY <2>2, <3>1, SumSame
  <2>10. SumOf(v, D) = SumOf(u, D) + (IF IsPrefix(p, t[i].path) THEN urls ELSE 0)
    BY <2>6, <2>7, <2>8, <2>9
  <2>. QED
    BY <1>4, <2>1, <2>10 DEF UrlsUnder
<1>8. ASSUME NEW p \in Path
      PROVE  VisitsUnder(T, p) = VisitsUnder(t, p) + (IF IsPrefix(p, t[i].path) THEN visits ELSE 0)
  <2>1. PICK u, v, D : u = VisitsIn(t) /\ v = VisitsIn(T) /\ D = Under(t, p)
    OBVIOUS
  <2>2. IsFiniteSet(D) /\ D \in SUBSET DOMAIN t
    BY <2>1, ChildrenAre
  <2>3. \A j \in D : u[j] \in Int /\ v[j] \in Int
    BY ONLY <1>4, <1>6, <2>1, <2>2, \A n \in Nat : n \in Int DEF VisitsIn
  <2>4. \A j \in D \ {i} : u[j] = v[j]
    BY <1>1, <1>4, <2>1, <2>2 DEF VisitsIn
  <2>5. v[i] - u[i] = visits
    BY <1>2, <1>4, <1>6, <2>1 DEF VisitsIn
  <2>6. i \in D <=> IsPrefix(p, t[i].path)
    BY <2>1 DEF Under
  <2>7. SumOf(u, D) \in Int
    BY <2>2, <2>3, SumType
  <2>8. ASSUME i \in D PROVE SumOf(v, D) = SumOf(u, D) + visits
    <3>1. DifferAt(u, v, D, i)
      BY <2>2, <2>3, <2>4, <2>8 DEF DifferAt
    <3>2. SumOf(v, D) = SumOf(u, D) + (v[i] - u[i])
      BY <3>1, SumChanges
    <3>. QED
      BY <2>5, <3>2
  <2>9. ASSUME i \notin D PROVE SumOf(v, D) = SumOf(u, D)
    <3>1. \A j \in D : u[j] \in Int /\ u[j] = v[j]
      BY <2>3, <2>4, <2>9
    <3>. QED
      BY <2>2, <3>1, SumSame
  <2>10. SumOf(v, D) = SumOf(u, D) + (IF IsPrefix(p, t[i].path) THEN visits ELSE 0)
    BY <2>6, <2>7, <2>8, <2>9
  <2>. QED
    BY <1>4, <2>1, <2>10 DEF VisitsUnder
<1>9. Names(T) = Names(t) \cup {i}
  BY <1>1, <1>2, <1>4 DEF Names
<1>10. UniqueCount(T) = UniqueCount(t) + (IF t[i].is_terminal THEN 0 ELSE 1)
  <2>1. IsFiniteSet(Names(t)) /\ Cardinality(Names(t)) \in Nat
    <3>1. Names(t) \subseteq DOMAIN t
      BY DEF Names
    <3>. QED
      BY <1>5, <3>1, FS_Subset, FS_CardinalityType
  <2>2. i \in Names(t) <=> t[i].is_terminal
    BY DEF Names
  <2>3. Cardinality(Names(t) \cup {i}) = Cardinality(Names(t)) + (IF i \in Names(t) THEN 0 ELSE 1)
    BY <2>1, FS_AddElement
  <2>. QED
    BY <1>9, <2>1, <2>2, <2>3 DEF UniqueCount, Names
<1>11. ASSUME CountedAtNames(t) PROVE CountedAtNames(T)
  BY <1>1, <1>2, <1>4, <1>11 DEF CountedAtNames
<1>12. ASSUME Singles(t) PROVE Singles(T)
  BY <1>3, <1>4, <1>12 DEF Singles
<1>. QED
  BY <1>7, <1>8, <1>9, <1>10, <1>11, <1>12

\* The lists of accepted names, with the counts of those that are a name and of those
\* that are at or below it.
Accept == [labels : Seq(Part), urls : Nat, visits : Nat, after : Nat]

NamedAs(s, a) == {i \in DOMAIN s : s[i].labels = a}
NamedUnder(s, a) == {i \in DOMAIN s : IsPrefix(a, s[i].labels)}

UrlsAs(s, a) == SumOf(UrlsIn(s), NamedAs(s, a))
VisitsAs(s, a) == SumOf(VisitsIn(s), NamedAs(s, a))
UrlsBelow(s, a) == SumOf(UrlsIn(s), NamedUnder(s, a))
VisitsBelow(s, a) == SumOf(VisitsIn(s), NamedUnder(s, a))

\* v is the same as u on D, and has a value for x outside of D.
ExtendedBy(u, v, D, x) ==
    /\ IsFiniteSet(D) /\ x \notin D
    /\ \A y \in D : u[y] \in Int /\ u[y] = v[y]
    /\ v[x] \in Int

LEMMA OneMoreSum ==
    ASSUME NEW u, NEW v, NEW D, NEW x, ExtendedBy(u, v, D, x)
    PROVE  SumOf(v, D) = SumOf(u, D) /\ SumOf(v, D \cup {x}) = SumOf(u, D) + v[x]
<1>0. /\ IsFiniteSet(D) /\ x \notin D
      /\ \A y \in D : u[y] \in Int /\ u[y] = v[y]
      /\ v[x] \in Int
  BY DEF ExtendedBy
<1>1. SumOf(u, D) = SumOf(v, D)
  BY <1>0, SumSame
<1>2. \A y \in D \cup {x} : v[y] \in Int
  BY <1>0
<1>3. SumOf(v, D \cup {x}) = v[x] + SumOf(v, D)
  BY <1>0, <1>2, SumAdds
<1>4. SumOf(u, D) \in Int
  BY <1>0, SumType
<1>. QED
  BY <1>0, <1>1, <1>3, <1>4

LEMMA ListFacts ==
    ASSUME NEW s \in Seq(Accept), NEW a
    PROVE  /\ Len(s) \in Nat /\ DOMAIN s = 1 .. Len(s) /\ IsFiniteSet(DOMAIN s)
           /\ IsFiniteSet(NamedAs(s, a)) /\ NamedAs(s, a) \subseteq DOMAIN s
           /\ IsFiniteSet(NamedUnder(s, a)) /\ NamedUnder(s, a) \subseteq DOMAIN s
           /\ \A i \in DOMAIN s : s[i].urls \in Nat /\ s[i].visits \in Nat /\ s[i].labels \in Seq(Part)
<1>1. Len(s) \in Nat /\ DOMAIN s = 1 .. Len(s) /\ \A i \in DOMAIN s : s[i] \in Accept
  OBVIOUS
<1>2. IsFiniteSet(DOMAIN s)
  BY <1>1, FS_Interval
<1>3. NamedAs(s, a) \subseteq DOMAIN s /\ NamedUnder(s, a) \subseteq DOMAIN s
  BY DEF NamedAs, NamedUnder
<1>. QED
  BY <1>1, <1>2, <1>3, FS_Subset DEF Accept

LEMMA AppendFacts ==
    ASSUME NEW s \in Seq(Accept), NEW r \in Accept, NEW S, S = Append(s, r)
    PROVE  /\ S \in Seq(Accept) /\ Len(S) = Len(s) + 1 /\ Len(s) \in Nat
           /\ DOMAIN S = DOMAIN s \cup {Len(s) + 1} /\ Len(s) + 1 \notin DOMAIN s
           /\ S[Len(s) + 1] = r /\ \A i \in DOMAIN s : S[i] = s[i]
OBVIOUS

\* One name more counts where it is named and above.
CountedAlso(S, s, r, a) ==
    /\ UrlsAs(S, a) = UrlsAs(s, a) + (IF r.labels = a THEN r.urls ELSE 0)
    /\ VisitsAs(S, a) = VisitsAs(s, a) + (IF r.labels = a THEN r.visits ELSE 0)
    /\ UrlsBelow(S, a) = UrlsBelow(s, a) + (IF IsPrefix(a, r.labels) THEN r.urls ELSE 0)
    /\ VisitsBelow(S, a) = VisitsBelow(s, a) + (IF IsPrefix(a, r.labels) THEN r.visits ELSE 0)

LEMMA AppendCounts ==
    ASSUME NEW s \in Seq(Accept), NEW r \in Accept, NEW S, S = Append(s, r), NEW a
    PROVE  CountedAlso(S, s, r, a)
<1>0. PICK n : n = Len(s) + 1
  OBVIOUS
<1>1. /\ S \in Seq(Accept) /\ DOMAIN S = DOMAIN s \cup {n} /\ n \notin DOMAIN s
      /\ S[n] = r /\ \A i \in DOMAIN s : S[i] = s[i]
  BY <1>0, AppendFacts
<1>2. /\ IsFiniteSet(NamedAs(s, a)) /\ NamedAs(s, a) \subseteq DOMAIN s
      /\ IsFiniteSet(NamedUnder(s, a)) /\ NamedUnder(s, a) \subseteq DOMAIN s
      /\ \A i \in DOMAIN s : s[i].urls \in Nat /\ s[i].visits \in Nat
  BY ListFacts
<1>3. r.urls \in Nat /\ r.visits \in Nat
  BY DEF Accept
<1>4. PICK u, v : u = UrlsIn(s) /\ v = UrlsIn(S)
  OBVIOUS
<1>5. (\A i \in DOMAIN s : u[i] \in Int /\ u[i] = v[i]) /\ v[n] = r.urls /\ v[n] \in Int
  BY <1>1, <1>2, <1>3, <1>4 DEF UrlsIn
<1>6. PICK w, x : w = VisitsIn(s) /\ x = VisitsIn(S)
  OBVIOUS
<1>7. (\A i \in DOMAIN s : w[i] \in Int /\ w[i] = x[i]) /\ x[n] = r.visits /\ x[n] \in Int
  BY <1>1, <1>2, <1>3, <1>6 DEF VisitsIn
<1>8. ASSUME NEW D, IsFiniteSet(D), D \subseteq DOMAIN s
      PROVE  /\ SumOf(v, D) = SumOf(u, D) /\ SumOf(v, D \cup {n}) = SumOf(u, D) + r.urls
             /\ SumOf(x, D) = SumOf(w, D) /\ SumOf(x, D \cup {n}) = SumOf(w, D) + r.visits
             /\ SumOf(u, D) \in Int /\ SumOf(w, D) \in Int
  <2>1. ExtendedBy(u, v, D, n)
    BY <1>1, <1>5, <1>8 DEF ExtendedBy
  <2>2. SumOf(v, D) = SumOf(u, D) /\ SumOf(v, D \cup {n}) = SumOf(u, D) + v[n]
    BY ONLY <2>1, OneMoreSum
  <2>3. ExtendedBy(w, x, D, n)
    BY <1>1, <1>7, <1>8 DEF ExtendedBy
  <2>4. SumOf(x, D) = SumOf(w, D) /\ SumOf(x, D \cup {n}) = SumOf(w, D) + x[n]
    BY ONLY <2>3, OneMoreSum
  <2>5. SumOf(u, D) \in Int /\ SumOf(w, D) \in Int
    BY ONLY <2>1, <2>3, SumType DEF ExtendedBy
  <2>. QED
    BY <1>5, <1>7, <2>2, <2>4, <2>5
<1>9. NamedAs(S, a) = IF r.labels = a THEN NamedAs(s, a) \cup {n} ELSE NamedAs(s, a)
  BY <1>1 DEF NamedAs
<1>10. NamedUnder(S, a) = IF IsPrefix(a, r.labels) THEN NamedUnder(s, a) \cup {n} ELSE NamedUnder(s, a)
  BY <1>1 DEF NamedUnder
<1>11. /\ SumOf(v, NamedAs(S, a)) = SumOf(u, NamedAs(s, a)) + (IF r.labels = a THEN r.urls ELSE 0)
       /\ SumOf(x, NamedAs(S, a)) = SumOf(w, NamedAs(s, a)) + (IF r.labels = a THEN r.visits ELSE 0)
  <2>1. PICK D, C : D = NamedAs(s, a) /\ C = NamedAs(S, a)
    OBVIOUS
  <2>2. IsFiniteSet(D) /\ D \subseteq DOMAIN s /\ C = IF r.labels = a THEN D \cup {n} ELSE D
    BY ONLY <1>2, <1>9, <2>1
  <2>3. /\ SumOf(v, D) = SumOf(u, D) /\ SumOf(v, D \cup {n}) = SumOf(u, D) + r.urls
        /\ SumOf(x, D) = SumOf(w, D) /\ SumOf(x, D \cup {n}) = SumOf(w, D) + r.visits
        /\ SumOf(u, D) \in Int /\ SumOf(w, D) \in Int
    BY <1>8, <2>2
  <2>4. /\ SumOf(v, C) = SumOf(u, D) + (IF r.labels = a THEN r.urls ELSE 0)
        /\ SumOf(x, C) = SumOf(w, D) + (IF r.labels = a THEN r.visits ELSE 0)
    BY ONLY <2>2, <2>3
  <2>. QED
    BY <2>1, <2>4
<1>12. /\ SumOf(v, NamedUnder(S, a)) = SumOf(u, NamedUnder(s, a)) + (IF IsPrefix(a, r.labels) THEN r.urls ELSE 0)
       /\ SumOf(x, NamedUnder(S, a)) = SumOf(w, NamedUnder(s, a)) + (IF IsPrefix(a, r.labels) THEN r.visits ELSE 0)
  <2>1. PICK D, C : D = NamedUnder(s, a) /\ C = NamedUnder(S, a)
    OBVIOUS
  <2>2. IsFiniteSet(D) /\ D \subseteq DOMAIN s /\ C = IF IsPrefix(a, r.labels) THEN D \cup {n} ELSE D
    BY ONLY <1>2, <1>10, <2>1
  <2>3. /\ SumOf(v, D) = SumOf(u, D) /\ SumOf(v, D \cup {n}) = SumOf(u, D) + r.urls
        /\ SumOf(x, D) = SumOf(w, D) /\ SumOf(x, D \cup {n}) = SumOf(w, D) + r.visits
        /\ SumOf(u, D) \in Int /\ SumOf(w, D) \in Int
    BY <1>8, <2>2
  <2>4. /\ SumOf(v, C) = SumOf(u, D) + (IF IsPrefix(a, r.labels) THEN r.urls ELSE 0)
        /\ SumOf(x, C) = SumOf(w, D) + (IF IsPrefix(a, r.labels) THEN r.visits ELSE 0)
    BY ONLY <2>2, <2>3
  <2>. QED
    BY <2>1, <2>4
<1>. QED
  BY <1>4, <1>6, <1>11, <1>12 DEF CountedAlso, UrlsAs, VisitsAs, UrlsBelow, VisitsBelow

\* The nodes that are names are the names of the list, with the sums of their counts.
Listed(t, s) ==
    /\ \A a \in Seq(Part) : /\ UrlsUnder(t, PathOf(a, Len(a))) = UrlsBelow(s, a)
                            /\ VisitsUnder(t, PathOf(a, Len(a))) = VisitsBelow(s, a)
    /\ \A i \in Names(t) : \E k \in DOMAIN s : t[i].path = PathOf(s[k].labels, Len(s[k].labels))
    /\ \A k \in DOMAIN s : \E i \in Names(t) : t[i].path = PathOf(s[k].labels, Len(s[k].labels))
    /\ \A i \in Names(t), a \in Seq(Part) :
          t[i].path = PathOf(a, Len(a)) => t[i].urls = UrlsAs(s, a) /\ t[i].visits = VisitsAs(s, a)

LEMMA ListedGrown ==
    ASSUME NEW t, Tree(t), NEW s, Listed(t, s), NEW labels \in Seq(Part), NEW T, NEW k, NEW last, NEW d,
           Spliced(T, t, labels, k, last, d)
    PROVE  Listed(T, s)
<1>1. /\ \A o \in DOMAIN t : Moved(o, last, d) \in DOMAIN T /\ T[Moved(o, last, d)] = t[o]
      /\ \A m \in 1 .. d : last + m \in DOMAIN T /\ T[last + m] = NodeCreate(PathOf(labels, k + m))
  BY SplicedPaths
<1>2. \A p \in Path : UrlsUnder(T, p) = UrlsUnder(t, p) /\ VisitsUnder(T, p) = VisitsUnder(t, p)
  BY SplicedCounts
<1>3. ASSUME NEW a \in Seq(Part)
      PROVE  /\ UrlsUnder(T, PathOf(a, Len(a))) = UrlsBelow(s, a)
             /\ VisitsUnder(T, PathOf(a, Len(a))) = VisitsBelow(s, a)
  <2>1. PathOf(a, Len(a)) \in Path
    BY PathOfFacts
  <2>. QED
    BY <1>2, <2>1 DEF Listed
<1>4. ASSUME NEW i \in Names(T)
      PROVE  \E o \in Names(t) : T[i] = t[o]
  <2>1. i \in DOMAIN T /\ T[i].is_terminal
    BY DEF Names
  <2>2. ASSUME NEW m \in 1 .. d, i = last + m PROVE FALSE
    <3>1. PICK q : q = PathOf(labels, k + m)
      OBVIOUS
    <3>2. T[i] = NodeCreate(q)
      BY <1>1, <2>2, <3>1
    <3>3. ~T[i].is_terminal
      BY ONLY <3>2 DEF NodeCreate
    <3>. QED
      BY <2>1, <3>3
  <2>3. PICK o \in DOMAIN t : i = Moved(o, last, d)
    BY <2>1, <2>2, SplicedFrom
  <2>4. T[i] = t[o]
    BY <1>1, <2>3
  <2>. QED
    BY <2>1, <2>4 DEF Names
<1>5. ASSUME NEW o \in Names(t)
      PROVE  \E i \in Names(T) : T[i] = t[o]
  BY <1>1 DEF Names
<1>6. \A i \in Names(T) : \E j \in DOMAIN s : T[i].path = PathOf(s[j].labels, Len(s[j].labels))
  BY <1>4 DEF Listed
<1>7. \A j \in DOMAIN s : \E i \in Names(T) : T[i].path = PathOf(s[j].labels, Len(s[j].labels))
  BY <1>5 DEF Listed
<1>8. \A i \in Names(T), a \in Seq(Part) :
          T[i].path = PathOf(a, Len(a)) => T[i].urls = UrlsAs(s, a) /\ T[i].visits = VisitsAs(s, a)
  BY <1>4 DEF Listed
<1>. QED
  BY <1>3, <1>6, <1>7, <1>8 DEF Listed

LEMMA ListedMarked ==
    ASSUME NEW t, Tree(t), CountedAtNames(t), NEW s \in Seq(Accept), Listed(t, s), NEW r \in Accept,
           NEW i \in DOMAIN t, t[i].path = PathOf(r.labels, Len(r.labels)),
           NEW T, T = Marked(t, i, r.urls, r.visits), NEW S, S = Append(s, r)
    PROVE  Listed(T, S)
<1>0. r.labels \in Seq(Part) /\ r.urls \in Nat /\ r.visits \in Nat
  BY DEF Accept
<1>1. /\ S \in Seq(Accept) /\ Len(s) \in Nat /\ DOMAIN S = DOMAIN s \cup {Len(s) + 1}
      /\ S[Len(s) + 1] = r /\ \A j \in DOMAIN s : S[j] = s[j] /\ s[j].labels \in Seq(Part)
  BY AppendFacts, ListFacts
<1>2. /\ \A p \in Path :
            /\ UrlsUnder(T, p) = UrlsUnder(t, p) + (IF IsPrefix(p, t[i].path) THEN r.urls ELSE 0)
            /\ VisitsUnder(T, p) = VisitsUnder(t, p) + (IF IsPrefix(p, t[i].path) THEN r.visits ELSE 0)
      /\ Names(T) = Names(t) \cup {i}
  BY <1>0, MarkedCounts
<1>3. /\ \A j \in DOMAIN t : j # i => T[j] = t[j]
      /\ T[i] = [path |-> t[i].path, urls |-> t[i].urls + r.urls,
                 visits |-> t[i].visits + r.visits, is_terminal |-> TRUE]
  BY <1>0, MarkedFacts
<1>4. T[i].path = t[i].path /\ T[i].urls = t[i].urls + r.urls /\ T[i].visits = t[i].visits + r.visits
  BY <1>3
<1>5. \A j \in DOMAIN t : T[j].path = t[j].path
  BY <1>3, <1>4
<1>6. Names(t) \subseteq DOMAIN t
  BY DEF Names
<1>7. ASSUME NEW a \in Seq(Part)
      PROVE  /\ UrlsUnder(T, PathOf(a, Len(a))) = UrlsBelow(S, a)
             /\ VisitsUnder(T, PathOf(a, Len(a))) = VisitsBelow(S, a)
  <2>1. PathOf(a, Len(a)) \in Path
    BY PathOfFacts
  <2>2. IsPrefix(PathOf(a, Len(a)), t[i].path) <=> IsPrefix(a, r.labels)
    BY <1>0, NamesCompare
  <2>3. /\ UrlsBelow(S, a) = UrlsBelow(s, a) + (IF IsPrefix(a, r.labels) THEN r.urls ELSE 0)
        /\ VisitsBelow(S, a) = VisitsBelow(s, a) + (IF IsPrefix(a, r.labels) THEN r.visits ELSE 0)
    <3>1. CountedAlso(S, s, r, a)
      BY ONLY AppendCounts, S = Append(s, r)
    <3>. QED
      BY ONLY <3>1 DEF CountedAlso
  <2>4. /\ UrlsUnder(t, PathOf(a, Len(a))) = UrlsBelow(s, a)
        /\ VisitsUnder(t, PathOf(a, Len(a))) = VisitsBelow(s, a)
    BY DEF Listed
  <2>. QED
    BY <1>2, <2>1, <2>2, <2>3, <2>4
<1>8. ASSUME NEW j \in Names(T)
      PROVE  \E k \in DOMAIN S : T[j].path = PathOf(S[k].labels, Len(S[k].labels))
  <2>1. CASE j = i
    BY <1>1, <1>4, <2>1
  <2>2. CASE j \in Names(t)
    <3>1. PICK k \in DOMAIN s : t[j].path = PathOf(s[k].labels, Len(s[k].labels))
      BY <2>2 DEF Listed
    <3>2. k \in DOMAIN S /\ S[k] = s[k] /\ T[j].path = t[j].path
      BY <1>1, <1>5, <1>6, <2>2
    <3>. QED
      BY <3>1, <3>2
  <2>. QED
    BY <1>2, <2>1, <2>2
<1>9. ASSUME NEW k \in DOMAIN S
      PROVE  \E j \in Names(T) : T[j].path = PathOf(S[k].labels, Len(S[k].labels))
  <2>1. CASE k = Len(s) + 1
    BY <1>1, <1>2, <1>4, <2>1
  <2>2. CASE k \in DOMAIN s
    <3>1. PICK j \in Names(t) : t[j].path = PathOf(s[k].labels, Len(s[k].labels))
      BY <2>2 DEF Listed
    <3>2. S[k] = s[k] /\ T[j].path = t[j].path /\ j \in Names(T)
      BY <1>1, <1>2, <1>5, <1>6, <2>2
    <3>. QED
      BY <3>1, <3>2
  <2>. QED
    BY <1>1, <2>1, <2>2
<1>10. ASSUME NEW j \in Names(T), NEW a \in Seq(Part), T[j].path = PathOf(a, Len(a))
       PROVE  T[j].urls = UrlsAs(S, a) /\ T[j].visits = VisitsAs(S, a)
  <2>0. j \in DOMAIN t /\ t[j].path = PathOf(a, Len(a))
    BY <1>2, <1>5, <1>6, <1>10
  <2>1. /\ UrlsAs(S, a) = UrlsAs(s, a) + (IF r.labels = a THEN r.urls ELSE 0)
        /\ VisitsAs(S, a) = VisitsAs(s, a) + (IF r.labels = a THEN r.visits ELSE 0)
    <3>1. CountedAlso(S, s, r, a)
      BY ONLY AppendCounts, S = Append(s, r)
    <3>. QED
      BY ONLY <3>1 DEF CountedAlso
  <2>2. PathOf(a, Len(a)) = PathOf(r.labels, Len(r.labels)) <=> a = r.labels
    BY <1>0, NamesCompare
  <2>3. j = i <=> a = r.labels
    BY <2>0, <2>2, SamePathSameNode
  <2>4. j \in Names(t) => t[j].urls = UrlsAs(s, a) /\ t[j].visits = VisitsAs(s, a)
    BY <2>0 DEF Listed
  <2>5. t[j].urls \in Nat /\ t[j].visits \in Nat
    BY <2>0, TreeFacts DEF Node
  <2>6. CASE j # i
    <3>1. j \in Names(t) /\ T[j] = t[j]
      BY <1>2, <1>3, <2>0, <2>6
    <3>. QED
      BY <2>1, <2>3, <2>4, <2>5, <2>6, <3>1
  <2>7. CASE j = i /\ i \in Names(t)
    BY <1>4, <2>1, <2>3, <2>4, <2>7
  <2>8. CASE j = i /\ i \notin Names(t)
    <3>1. t[i].urls = 0 /\ t[i].visits = 0
      BY <2>8 DEF Names, CountedAtNames
    <3>2. NamedAs(s, a) = {}
      <4> SUFFICES ASSUME NEW k \in NamedAs(s, a) PROVE FALSE
        OBVIOUS
      <4>1. k \in DOMAIN s /\ s[k].labels = a
        BY DEF NamedAs
      <4>2. PICK o \in Names(t) : t[o].path = PathOf(a, Len(a))
        BY <4>1 DEF Listed
      <4>3. o = i
        BY <1>6, <2>0, <2>8, <4>2, SamePathSameNode
      <4>. QED
        BY <2>8, <4>3
    <3>3. UrlsAs(s, a) = 0 /\ VisitsAs(s, a) = 0
      BY <3>2, SumEmpty DEF UrlsAs, VisitsAs
    <3>. QED
      BY <1>0, <1>4, <2>1, <2>3, <2>8, <3>1, <3>3
  <2>. QED
    BY <2>6, <2>7, <2>8
<1>. QED
  BY <1>7, <1>8, <1>9, <1>10 DEF Listed

AllLabels(s) == {s[k].labels : k \in DOMAIN s}

LEMMA CountFacts ==
    ASSUME NEW t, Tree(t)
    PROVE  /\ UniqueCount(t) \in Nat /\ UniqueCount(t) <= Len(t) /\ IsFiniteSet(Names(t))
           /\ Names(t) \subseteq DOMAIN t /\ UniqueCount(t) = Cardinality(Names(t))
<1>1. Names(t) \subseteq DOMAIN t /\ UniqueCount(t) = Cardinality(Names(t))
  BY DEF Names, UniqueCount
<1>2. Len(t) \in Nat /\ DOMAIN t = 1 .. Len(t) /\ IsFiniteSet(DOMAIN t)
  BY TreeFacts
<1>3. Cardinality(DOMAIN t) = Len(t)
  <2>1. \A n \in Nat : Cardinality(1 .. n) = n
    BY FS_Interval
  <2>. QED
    BY <1>2, <2>1
<1>4. IsFiniteSet(Names(t)) /\ Cardinality(Names(t)) \in Nat /\ Cardinality(Names(t)) <= Cardinality(DOMAIN t)
  BY <1>1, <1>2, FS_Subset, FS_CardinalityType
<1>. QED
  BY <1>1, <1>3, <1>4

\* A listed trie has as many names as the list has different ones.
LEMMA ListedNames ==
    ASSUME NEW t, Tree(t), NEW s \in Seq(Accept), Listed(t, s)
    PROVE  UniqueCount(t) = Cardinality(AllLabels(s))
<1>1. \A k \in DOMAIN s : s[k].labels \in Seq(Part)
  BY ListFacts
<1>2. IsFiniteSet(Names(t)) /\ Names(t) \subseteq DOMAIN t /\ UniqueCount(t) = Cardinality(Names(t))
  BY CountFacts
<1>3. PICK g : g = [i \in Names(t) |-> CHOOSE a \in AllLabels(s) : t[i].path = PathOf(a, Len(a))]
  OBVIOUS
<1>4. PICK h : h = [a \in AllLabels(s) |-> At(t, PathOf(a, Len(a)))]
  OBVIOUS
<1>5. AllLabels(s) \subseteq Seq(Part)
  BY <1>1 DEF AllLabels
<1>6. ASSUME NEW a \in AllLabels(s) PROVE \E i \in Names(t) : g[i] = a
  <2>1. PICK k \in DOMAIN s : a = s[k].labels
    BY DEF AllLabels
  <2>2. PICK i \in Names(t) : t[i].path = PathOf(a, Len(a))
    BY <2>1 DEF Listed
  <2>3. \A e \in AllLabels(s) : t[i].path = PathOf(e, Len(e)) => e = a
    BY <1>5, <2>2, NamesCompare
  <2>4. g[i] = CHOOSE e \in AllLabels(s) : t[i].path = PathOf(e, Len(e))
    BY <1>3
  <2>5. g[i] = a
    BY <2>2, <2>3, <2>4
  <2>. QED
    BY <2>5
<1>7. ASSUME NEW i \in Names(t) PROVE \E a \in AllLabels(s) : h[a] = i
  <2>1. PICK k \in DOMAIN s : t[i].path = PathOf(s[k].labels, Len(s[k].labels))
    BY DEF Listed
  <2>2. PICK a \in AllLabels(s) : t[i].path = PathOf(a, Len(a))
    BY <2>1 DEF AllLabels
  <2>3. At(t, t[i].path) = i
    BY <1>2, AtNode
  <2>4. h[a] = i
    BY <1>4, <2>2, <2>3
  <2>. QED
    BY <2>4
<1>8. IsFiniteSet(AllLabels(s)) /\ Cardinality(AllLabels(s)) <= Cardinality(Names(t))
  BY ONLY <1>2, <1>6, CoveredBy
<1>9. Cardinality(Names(t)) <= Cardinality(AllLabels(s))
  BY ONLY <1>7, <1>8, CoveredBy
<1>10. Cardinality(Names(t)) \in Nat /\ Cardinality(AllLabels(s)) \in Nat
  BY <1>2, <1>8, FS_CardinalityType
<1>. QED
  BY <1>2, <1>8, <1>9, <1>10

-----------------------------------------------------------------------------
(* The inductive invariant, on a trie t, its totals, the list s of accepted *)
(* names and the number c of compactions.                                   *)

Totals == [nodes : Nat, domains : Nat, urls : Nat, visits : Nat]

WellShaped(t) == Tree(t) /\ Narrow(t) /\ CountedAtNames(t) /\ ~t[1].is_terminal

WellTyped(tot, s, c) ==
    /\ tot \in Totals /\ c \in {0, 1}
    /\ s \in Seq(Accept) /\ \A k \in DOMAIN s : s[k].labels # <<>>

\* The totals are those of the trie and of the list, whatever has been compacted.
Counted(t, tot, s) ==
    /\ tot.domains = UniqueCount(t)
    /\ tot.urls = UrlsUnder(t, <<>>) /\ tot.urls = UrlsBelow(s, <<>>)
    /\ tot.visits = VisitsUnder(t, <<>>) /\ tot.visits = VisitsBelow(s, <<>>)

NoneAfter(s) == \A k \in DOMAIN s : s[k].after = 0

Sound(t, tot, s, c) ==
    /\ WellShaped(t) /\ WellTyped(tot, s, c) /\ Counted(t, tot, s)
    /\ c = 0 => Singles(t) /\ Listed(t, s) /\ tot.nodes = Len(t)
    /\ NoneAfter(s) => UniqueCount(t) = Cardinality(AllLabels(s)) /\ tot.domains <= tot.nodes

LEMMA RootPath == <<>> \in Path /\ <<>> \in Seq(Part) /\ PathOf(<<>>, Len(<<>>)) = <<>>
BY DEF Path, PathOf

LEMMA TotalsFields ==
    ASSUME NEW tot \in Totals, NEW n
    PROVE  /\ tot.nodes \in Nat /\ tot.domains \in Nat /\ tot.urls \in Nat /\ tot.visits \in Nat
           /\ [tot EXCEPT !.nodes = n].nodes = n
           /\ [tot EXCEPT !.nodes = n].domains = tot.domains
           /\ [tot EXCEPT !.nodes = n].urls = tot.urls
           /\ [tot EXCEPT !.nodes = n].visits = tot.visits
           /\ n \in Nat => [tot EXCEPT !.nodes = n] \in Totals
BY DEF Totals

\* Reading back what was written leaves all as it was, but for the number of nodes.
LEMMA ReloadSound ==
    ASSUME NEW t, NEW tot, NEW s, NEW c, Sound(t, tot, s, c),
           NEW new, new = [nodes |-> Len(t), domains |-> tot.domains,
                           urls |-> SubtreeUrls(t, 1), visits |-> SubtreeVisits(t, 1)]
    PROVE  Deserialize(Serialize(t)) = t /\ Sound(t, new, s, c)
<1>1. Tree(t) /\ tot \in Totals /\ 1 \in DOMAIN t /\ t[1].path = <<>>
  <2>1. Tree(t) /\ tot \in Totals
    BY DEF Sound, WellShaped, WellTyped
  <2>. QED
    BY <2>1, TreeFacts
<1>2. SubtreeUrls(t, 1) = UrlsUnder(t, <<>>) /\ SubtreeVisits(t, 1) = VisitsUnder(t, <<>>)
  BY <1>1, SubtreeSums DEF UrlsUnder, VisitsUnder
<1>3. SubtreeUrls(t, 1) = tot.urls /\ SubtreeVisits(t, 1) = tot.visits
  BY <1>2 DEF Sound, Counted
<1>4. UniqueCount(t) \in Nat /\ UniqueCount(t) <= Len(t) /\ Len(t) \in Nat
  BY <1>1, CountFacts, TreeFacts
<1>5. new \in Totals /\ new.nodes = Len(t) /\ new.domains = tot.domains /\ new.urls = tot.urls /\ new.visits = tot.visits
  BY <1>1, <1>3, <1>4 DEF Totals
<1>6. Sound(t, new, s, c)
  BY <1>4, <1>5 DEF Sound, WellTyped, Counted
<1>. QED
  BY <1>1, <1>6, ReadsBack

\* Compacting a trie that was not compacted.
LEMMA CompactSound ==
    ASSUME NEW t, NEW tot, NEW s, Sound(t, tot, s, 0), NEW T, T = Compacted(t)
    PROVE  /\ Sound(T, [tot EXCEPT !.nodes = UniqueCount(T)], s, 1)
           /\ Len(T) <= Len(t) /\ UniqueCount(T) = UniqueCount(t)
           /\ UrlsUnder(T, <<>>) = UrlsUnder(t, <<>>) /\ VisitsUnder(T, <<>>) = VisitsUnder(t, <<>>)
           /\ \A k \in DOMAIN T : ~Absorbs(T, T[k].path)
<1>1. Tree(t) /\ Narrow(t) /\ CountedAtNames(t) /\ ~t[1].is_terminal /\ Singles(t) /\ tot \in Totals
  BY DEF Sound, WellShaped, WellTyped
<1>2. PICK b : CompactedTo(T, b, t)
  BY <1>1, CompactedKept
<1>3. /\ Tree(T) /\ Narrow(T) /\ \A k \in DOMAIN T : ~Absorbs(T, T[k].path)
      /\ ~T[1].is_terminal
  <2>1. Tree(T) /\ 1 \in DOMAIN T /\ b[1] = 1
    BY <1>1, <1>2, CompactedTree
  <2>2. T[1].is_terminal = t[b[1]].is_terminal
    BY <1>1, <1>2, <2>1, CompactedFacts
  <2>. QED
    BY <1>1, <1>2, <2>1, <2>2, CompactedShape
<1>4. /\ Len(T) <= Len(t) /\ UniqueCount(T) = UniqueCount(t) /\ CountedAtNames(T)
      /\ SumOf(UrlsIn(T), DOMAIN T) = SumOf(UrlsIn(t), DOMAIN t)
      /\ SumOf(VisitsIn(T), DOMAIN T) = SumOf(VisitsIn(t), DOMAIN t)
  BY <1>1, <1>2, CompactedCounts
<1>5. Under(T, <<>>) = DOMAIN T /\ Under(t, <<>>) = DOMAIN t
  <2>1. 1 \in DOMAIN t /\ t[1].path = <<>> /\ 1 \in DOMAIN T /\ T[1].path = <<>>
    BY <1>1, <1>3, TreeFacts
  <2>. QED
    BY <1>1, <1>3, <2>1, SubtreeSums
<1>6. UrlsUnder(T, <<>>) = UrlsUnder(t, <<>>) /\ VisitsUnder(T, <<>>) = VisitsUnder(t, <<>>)
  BY <1>4, <1>5 DEF UrlsUnder, VisitsUnder
<1>7. PICK new : new = [tot EXCEPT !.nodes = UniqueCount(T)]
  OBVIOUS
<1>8. UniqueCount(T) \in Nat
  BY <1>3, CountFacts
<1>9. /\ new \in Totals /\ new.nodes = UniqueCount(T) /\ new.domains = tot.domains
      /\ new.urls = tot.urls /\ new.visits = tot.visits
  BY <1>1, <1>7, <1>8, TotalsFields
<1>10. Sound(T, new, s, 1)
  <2>1. WellTyped(new, s, 1)
    BY <1>9 DEF Sound, WellTyped
  <2>2. Counted(T, new, s)
    BY <1>4, <1>6, <1>9 DEF Sound, Counted
  <2>3. NoneAfter(s) => UniqueCount(T) = Cardinality(AllLabels(s)) /\ new.domains <= new.nodes
    <3>1. tot.domains = UniqueCount(t)
      BY DEF Sound, Counted
    <3>2. NoneAfter(s) => UniqueCount(t) = Cardinality(AllLabels(s))
      BY DEF Sound
    <3>. QED
      BY <1>4, <1>8, <1>9, <3>1, <3>2
  <2>. QED
    BY <1>3, <1>4, <2>1, <2>2, <2>3 DEF Sound, WellShaped
<1>. QED
  BY <1>3, <1>4, <1>6, <1>7, <1>10

\* A tree that grew without a name more.
LEMMA GrownSound ==
    ASSUME NEW t, NEW tot, NEW s, NEW c, Sound(t, tot, s, c), NEW labels \in Seq(Part), NEW T, NEW k,
           NEW last, NEW d, Spliced(T, t, labels, k, last, d), Narrow(T)
    PROVE  Sound(T, [tot EXCEPT !.nodes = @ + Len(T) - Len(t)], s, c)
<1>1. Tree(t) /\ CountedAtNames(t) /\ ~t[1].is_terminal /\ tot \in Totals
  BY DEF Sound, WellShaped, WellTyped
<1>2. Tree(T) /\ ~T[1].is_terminal
  <2>1. last \in 1 .. Len(t) /\ Len(t) \in Nat
    BY <1>1, SplicedPaths
  <2>2. T[1] = t[1]
    BY <2>1 DEF Spliced
  <2>. QED
    BY <1>1, <2>2, SplicedTree
<1>3. /\ \A p \in Path : UrlsUnder(T, p) = UrlsUnder(t, p) /\ VisitsUnder(T, p) = VisitsUnder(t, p)
      /\ UniqueCount(T) = UniqueCount(t)
      /\ CountedAtNames(T)
      /\ Singles(t) => Singles(T)
  BY <1>1, SplicedCounts
<1>4. Len(T) = Len(t) + d /\ Len(t) \in Nat /\ d \in Nat
  BY <1>1, SplicedPaths DEF Spliced
<1>5. PICK n : n = tot.nodes + Len(T) - Len(t)
  OBVIOUS
<1>6. tot.nodes \in Nat /\ n \in Nat /\ n = tot.nodes + d
  <2>1. tot.nodes \in Nat
    BY <1>1 DEF Totals
  <2>. QED
    BY <1>4, <1>5, <2>1
<1>7. PICK new : new = [tot EXCEPT !.nodes = n]
  OBVIOUS
<1>8. [tot EXCEPT !.nodes = @ + Len(T) - Len(t)] = new
  BY <1>5, <1>7
<1>9. /\ new \in Totals /\ new.nodes = n /\ new.domains = tot.domains
      /\ new.urls = tot.urls /\ new.visits = tot.visits /\ tot.domains \in Nat
  BY <1>1, <1>6, <1>7, TotalsFields
<1>10. WellTyped(new, s, c)
  BY <1>9 DEF Sound, WellTyped
<1>11. Counted(T, new, s)
  BY <1>3, <1>9, RootPath DEF Sound, Counted
<1>12. ASSUME c = 0 PROVE Singles(T) /\ Listed(T, s) /\ new.nodes = Len(T)
  <2>1. Singles(t) /\ Listed(t, s) /\ tot.nodes = Len(t)
    BY <1>12 DEF Sound
  <2>2. Listed(T, s)
    BY <1>1, <2>1, ListedGrown
  <2>. QED
    BY <1>3, <1>4, <1>6, <1>9, <2>1, <2>2
<1>13. ASSUME NoneAfter(s)
       PROVE  UniqueCount(T) = Cardinality(AllLabels(s)) /\ new.domains <= new.nodes
  <2>1. UniqueCount(t) = Cardinality(AllLabels(s)) /\ tot.domains <= tot.nodes
    BY <1>13 DEF Sound
  <2>. QED
    BY <1>3, <1>4, <1>6, <1>9, <2>1
<1>14. Sound(T, new, s, c)
  BY <1>2, <1>3, <1>10, <1>11, <1>12, <1>13 DEF Sound, WellShaped
<1>. QED
  BY <1>8, <1>14

\* An insert that fails.
LEMMA FailureSound ==
    ASSUME NEW t, NEW tot, NEW s, NEW c, Sound(t, tot, s, c), NEW labels \in Seq(Part),
           NEW T \in FailedInserts(t, labels)
    PROVE  Sound(T, [tot EXCEPT !.nodes = @ + Len(T) - Len(t)], s, c)
<1>1. Tree(t) /\ Narrow(t) /\ tot \in Totals
  BY DEF Sound, WellShaped, WellTyped
<1>2. CASE T = t
  <2>1. tot.nodes \in Nat /\ Len(t) \in Nat
    BY <1>1, TreeFacts DEF Totals
  <2>2. tot.nodes + Len(T) - Len(t) = tot.nodes
    BY <1>2, <2>1
  <2>3. [tot EXCEPT !.nodes = tot.nodes] = tot
    BY <1>1 DEF Totals
  <2>4. [tot EXCEPT !.nodes = @ + Len(T) - Len(t)] = tot
    BY <2>2, <2>3
  <2>. QED
    BY <1>2, <2>4
<1>3. CASE T # t
  <2>1. PICK k : k = Known(t, labels)
    OBVIOUS
  <2>2. /\ Narrow(T)
        /\ \E n \in k .. Len(labels) : \E last : Spliced(T, t, labels, k, last, n - k)
    BY <1>1, <1>3, <2>1, FailedGrows
  <2>3. PICK n, last : Spliced(T, t, labels, k, last, n - k)
    BY <2>2
  <2>. QED
    BY <2>2, <2>3, GrownSound
<1>. QED
  BY <1>2, <1>3

\* A node that is marked as a name.
LEMMA MarkedSound ==
    ASSUME NEW t, NEW tot, NEW s, NEW c, Sound(t, tot, s, c),
           NEW r \in Accept, r.labels # <<>>, r.after = c,
           NEW i \in DOMAIN t, t[i].path = PathOf(r.labels, Len(r.labels)),
           NEW T, T = Marked(t, i, r.urls, r.visits),
           NEW new, new = [nodes   |-> tot.nodes,
                           domains |-> tot.domains + (IF t[i].is_terminal THEN 0 ELSE 1),
                           urls    |-> tot.urls + r.urls,
                           visits  |-> tot.visits + r.visits]
    PROVE  Sound(T, new, Append(s, r), c)
<1>1. /\ Tree(t) /\ Narrow(t) /\ CountedAtNames(t) /\ ~t[1].is_terminal
      /\ tot \in Totals /\ s \in Seq(Accept) /\ c \in {0, 1}
  BY DEF Sound, WellShaped, WellTyped
<1>2. r.labels \in Seq(Part) /\ r.urls \in Nat /\ r.visits \in Nat
  BY DEF Accept
<1>3. PICK S : S = Append(s, r)
  OBVIOUS
<1>4. /\ S \in Seq(Accept) /\ Len(s) \in Nat /\ DOMAIN S = DOMAIN s \cup {Len(s) + 1}
      /\ S[Len(s) + 1] = r /\ \A j \in DOMAIN s : S[j] = s[j]
  BY <1>1, <1>3, AppendFacts
<1>5. Tree(T) /\ Narrow(T) /\ ~T[1].is_terminal
  <2>1. /\ T \in Seq(Node) /\ Len(T) = Len(t)
        /\ \A j \in DOMAIN t : j # i => T[j] = t[j]
        /\ T[i] = [path |-> t[i].path, urls |-> t[i].urls + r.urls,
                   visits |-> t[i].visits + r.visits, is_terminal |-> TRUE]
    BY <1>1, <1>2, MarkedFacts
  <2>2. \A j \in DOMAIN t : T[j].path = t[j].path
    BY <2>1
  <2>3. PathOf(r.labels, Len(r.labels)) # <<>>
    BY <1>2, EmptySeq, PathOfFacts
  <2>4. T[1] = t[1]
    BY <1>1, <2>1, <2>3, TreeFacts
  <2>. QED
    BY <1>1, <2>1, <2>2, <2>4, SamePaths
<1>6. /\ \A p \in Path :
            /\ UrlsUnder(T, p) = UrlsUnder(t, p) + (IF IsPrefix(p, t[i].path) THEN r.urls ELSE 0)
            /\ VisitsUnder(T, p) = VisitsUnder(t, p) + (IF IsPrefix(p, t[i].path) THEN r.visits ELSE 0)
      /\ UniqueCount(T) = UniqueCount(t) + (IF t[i].is_terminal THEN 0 ELSE 1)
      /\ CountedAtNames(T)
      /\ Singles(t) => Singles(T)
  BY <1>1, <1>2, MarkedCounts
<1>7. /\ tot.nodes \in Nat /\ tot.domains \in Nat /\ tot.urls \in Nat /\ tot.visits \in Nat
  BY <1>1 DEF Totals
<1>8. /\ new \in Totals /\ new.nodes = tot.nodes
      /\ new.domains = tot.domains + (IF t[i].is_terminal THEN 0 ELSE 1)
      /\ new.urls = tot.urls + r.urls /\ new.visits = tot.visits + r.visits
  BY <1>2, <1>7 DEF Totals
<1>9. WellTyped(new, S, c)
  BY <1>1, <1>4, <1>8 DEF Sound, WellTyped
<1>10. Counted(T, new, S)
  <2>1. IsPrefix(<<>>, t[i].path) /\ IsPrefix(<<>>, r.labels)
    BY <1>1, <1>2, TreeFacts DEF IsPrefix, Path
  <2>2. CountedAlso(S, s, r, <<>>)
    BY <1>1, <1>3, AppendCounts
  <2>3. UrlsBelow(S, <<>>) = UrlsBelow(s, <<>>) + r.urls /\ VisitsBelow(S, <<>>) = VisitsBelow(s, <<>>) + r.visits
    BY ONLY <2>1, <2>2 DEF CountedAlso
  <2>4. UrlsUnder(T, <<>>) = UrlsUnder(t, <<>>) + r.urls /\ VisitsUnder(T, <<>>) = VisitsUnder(t, <<>>) + r.visits
    BY <1>6, <2>1, RootPath
  <2>. QED
    BY <1>6, <1>8, <2>3, <2>4 DEF Sound, Counted
<1>11. ASSUME c = 0 PROVE Singles(T) /\ Listed(T, S) /\ new.nodes = Len(T)
  <2>1. Singles(t) /\ Listed(t, s) /\ tot.nodes = Len(t)
    BY <1>11 DEF Sound
  <2>2. Listed(T, S)
    BY <1>1, <1>3, <2>1, ListedMarked
  <2>3. Len(T) = Len(t)
    BY <1>1, <1>2, MarkedFacts
  <2>. QED
    BY <1>6, <1>8, <2>1, <2>2, <2>3
<1>12. ASSUME NoneAfter(S)
       PROVE  UniqueCount(T) = Cardinality(AllLabels(S)) /\ new.domains <= new.nodes
  <2>1. c = 0
    BY <1>4, <1>12 DEF NoneAfter
  <2>2. UniqueCount(T) = Cardinality(AllLabels(S))
    BY <1>4, <1>5, <1>11, <2>1, ListedNames
  <2>3. UniqueCount(T) <= Len(T)
    BY <1>5, CountFacts
  <2>4. new.domains = UniqueCount(T)
    BY <1>10 DEF Counted
  <2>. QED
    BY <1>11, <2>1, <2>2, <2>3, <2>4
<1>13. Sound(T, new, S, c)
  BY <1>5, <1>6, <1>9, <1>10, <1>11, <1>12 DEF Sound, WellShaped
<1>. QED
  BY <1>3, <1>13

\* An insert that succeeds.
LEMMA InsertSound ==
    ASSUME NEW t, NEW tot, NEW s, NEW c, Sound(t, tot, s, c), NEW r \in Accept, r.after = c,
           CanInsert(t, r.labels), NEW T, T = Inserted(t, r.labels),
           NEW i, i = At(T, PathOf(r.labels, Len(r.labels))),
           NEW new, new = [nodes   |-> tot.nodes + Len(T) - Len(t),
                           domains |-> tot.domains + (IF T[i].is_terminal THEN 0 ELSE 1),
                           urls    |-> tot.urls + r.urls,
                           visits  |-> tot.visits + r.visits]
    PROVE  Sound(Marked(T, i, r.urls, r.visits), new, Append(s, r), c)
<1>1. Tree(t) /\ Narrow(t) /\ tot \in Totals
  BY DEF Sound, WellShaped, WellTyped
<1>2. r.labels \in Seq(Part) /\ r.labels # <<>>
  BY DEF Accept, CanInsert
<1>3. PICK k : k = Known(t, r.labels)
  OBVIOUS
<1>4. /\ Tree(T) /\ Narrow(T) /\ i \in DOMAIN T /\ T[i].path = PathOf(r.labels, Len(r.labels))
      /\ \E last : Spliced(T, t, r.labels, k, last, Len(r.labels) - k)
  BY <1>1, <1>2, <1>3, InsertGrows
<1>5. PICK last : Spliced(T, t, r.labels, k, last, Len(r.labels) - k)
  BY <1>4
<1>6. PICK mid : mid = [tot EXCEPT !.nodes = @ + Len(T) - Len(t)]
  OBVIOUS
<1>7. Sound(T, mid, s, c)
  BY <1>2, <1>4, <1>5, <1>6, GrownSound
<1>8. /\ mid.nodes = tot.nodes + Len(T) - Len(t) /\ mid.domains = tot.domains
      /\ mid.urls = tot.urls /\ mid.visits = tot.visits
  BY <1>1, <1>6 DEF Totals
<1>9. new = [nodes   |-> mid.nodes,
             domains |-> mid.domains + (IF T[i].is_terminal THEN 0 ELSE 1),
             urls    |-> mid.urls + r.urls,
             visits  |-> mid.visits + r.visits]
  BY <1>8
<1>. QED
  BY <1>2, <1>4, <1>7, <1>9, MarkedSound

-----------------------------------------------------------------------------
(* The steps.                                                               *)

Invariant == Sound(trie, totals, inserted, compactions)

\* Some caller, the report or the fuzzer inserts a name.
SomeInsert ==
    \E domain \in Seq(Part \cup {Empty}), urls, visits \in Nat : Insert(domain, urls, visits)

\* Whoever uses the trie does what anybody may do with it.
LEMMA UserSteps ==
    ASSUME [ReportNext]_reportVars
    PROVE  SomeInsert \/ Compact \/ Reload \/ UNCHANGED vars
<1>1. \A domain \in Domains : domain \in Seq(Part \cup {Empty})
  BY TrieAssumption
<1>2. Counts \subseteq Nat
  BY Limits
<1>3. CASE Next
  BY <1>1, <1>2, <1>3 DEF Next, SomeInsert
<1>4. ASSUME NEW t \in Urls, NEW visit_count \in Counts, Report(t, visit_count)
      PROVE  SomeInsert \/ UNCHANGED vars
  <2>1. CASE url' = {}
    BY <1>4, <2>1 DEF Report
  <2>2. CASE url' # {}
    <3>1. PICK u : u \in url'
      BY <2>2
    <3>2. u \in Url!Parsed(t)
      BY <1>4, <3>1 DEF Report
    <3>3. Url!Registrable(u) \in Seq(Part \cup {Empty})
      BY <3>2, ReportAssumption
    <3>4. \A v \in url' : IF v.host = <<>> THEN UNCHANGED vars
                          ELSE Insert(Url!Registrable(v), visit_count, 1)
      BY <1>4, <2>2 DEF Report
    <3>5. UNCHANGED vars \/ Insert(Url!Registrable(u), visit_count, 1)
      BY <3>1, <3>4
    <3>6. visit_count \in Nat /\ 1 \in Nat
      BY <1>2
    <3>. QED
      BY <3>3, <3>5, <3>6 DEF SomeInsert
  <2>. QED
    BY <2>1, <2>2
<1>5. ASSUME NEW t \in Urls, Fuzz(t)
      PROVE  SomeInsert \/ UNCHANGED vars
  <2>1. CASE url' = {}
    BY <1>5, <2>1 DEF Fuzz
  <2>2. CASE url' # {}
    <3>1. PICK u : u \in url'
      BY <2>2
    <3>2. PICK v \in Url!Parsed(t) : u = Url!WithParams(Url!Normalized(v))
      BY <1>5, <3>1 DEF Fuzz
    <3>3. Url!FullHost(u) \in Seq(Part \cup {Empty})
      BY <3>2, ReportAssumption
    <3>4. \A w \in url' : IF w.host = <<>> THEN UNCHANGED vars ELSE Insert(Url!FullHost(w), 1, 1)
      BY <1>5, <2>2 DEF Fuzz
    <3>5. UNCHANGED vars \/ Insert(Url!FullHost(u), 1, 1)
      BY <3>1, <3>4
    <3>. QED
      BY <3>3, <3>5 DEF SomeInsert
  <2>. QED
    BY <2>1, <2>2
<1>6. CASE UseTrie
  BY <1>3, <1>6 DEF UseTrie
<1>7. CASE UNCHANGED reportVars
  BY <1>7 DEF reportVars
<1>. QED
  BY <1>4, <1>5, <1>6, <1>7 DEF ReportNext

LEMMA InsertKeeps ==
    ASSUME Invariant, NEW domain \in Seq(Part \cup {Empty}), NEW urls \in Nat, NEW visits \in Nat,
           Insert(domain, urls, visits)
    PROVE  Invariant'
<1>1. PICK labels : labels = SplitDomainReverse(domain)
  OBVIOUS
<1>2. labels \in Seq(Part)
  BY <1>1, SplitType
<1>3. PICK T : T = Inserted(trie, labels)
  OBVIOUS
<1>4. PICK i : i = At(T, PathOf(labels, Len(labels)))
  OBVIOUS
<1>5. CASE /\ CanInsert(trie, labels)
           /\ trie' = Marked(T, i, urls, visits)
           /\ totals' = [nodes   |-> totals.nodes + Len(T) - Len(trie),
                         domains |-> totals.domains + (IF T[i].is_terminal THEN 0 ELSE 1),
                         urls    |-> totals.urls + urls,
                         visits  |-> totals.visits + visits]
           /\ inserted' = Append(inserted, [labels |-> labels, urls |-> urls,
                                            visits |-> visits, after |-> compactions])
           /\ compactions' = compactions
  <2>1. PICK r : r = [labels |-> labels, urls |-> urls, visits |-> visits, after |-> compactions]
    OBVIOUS
  <2>2. compactions \in Nat
    BY DEF Invariant, Sound, WellTyped
  <2>3. r \in Accept /\ r.labels = labels /\ r.urls = urls /\ r.visits = visits /\ r.after = compactions
    BY <1>2, <2>1, <2>2 DEF Accept
  <2>4. PICK tot, s, t, c, new : /\ tot = totals /\ s = inserted /\ t = trie /\ c = compactions
                                 /\ new = totals'
    OBVIOUS
  <2>5. /\ Sound(t, tot, s, c) /\ r.after = c /\ CanInsert(t, r.labels) /\ T = Inserted(t, r.labels)
        /\ i = At(T, PathOf(r.labels, Len(r.labels)))
        /\ new = [nodes   |-> tot.nodes + Len(T) - Len(t),
                  domains |-> tot.domains + (IF T[i].is_terminal THEN 0 ELSE 1),
                  urls    |-> tot.urls + r.urls,
                  visits  |-> tot.visits + r.visits]
    BY <1>3, <1>4, <1>5, <2>3, <2>4 DEF Invariant
  <2>6. Sound(Marked(T, i, r.urls, r.visits), new, Append(s, r), c)
    BY ONLY <2>3, <2>5, InsertSound
  <2>7. trie' = Marked(T, i, r.urls, r.visits) /\ inserted' = Append(s, r) /\ compactions' = c
    BY <1>5, <2>1, <2>3, <2>4
  <2>. QED
    BY <2>4, <2>6, <2>7 DEF Invariant
<1>6. CASE /\ trie' \in FailedInserts(trie, labels)
           /\ totals' = [totals EXCEPT !.nodes = @ + Len(trie') - Len(trie)]
           /\ inserted' = inserted /\ compactions' = compactions
  <2>1. Sound(trie', [totals EXCEPT !.nodes = @ + Len(trie') - Len(trie)], inserted, compactions)
    BY <1>2, <1>6, FailureSound DEF Invariant
  <2>. QED
    BY <1>6, <2>1 DEF Invariant
<1>. QED
  BY <1>1, <1>3, <1>4, <1>5, <1>6 DEF Insert

\* A trie is compacted once at most.
LEMMA CompactKeeps ==
    ASSUME Invariant, Compact
    PROVE  /\ Invariant'
           /\ Len(trie') <= Len(trie) /\ UniqueCount(trie') = UniqueCount(trie)
           /\ UrlsUnder(trie', <<>>) = UrlsUnder(trie, <<>>)
           /\ VisitsUnder(trie', <<>>) = VisitsUnder(trie, <<>>)
           /\ \A k \in DOMAIN trie' : ~Absorbs(trie', trie'[k].path)
<1>1. compactions = 0 /\ compactions' = 1
  <2>1. compactions \in {0, 1} /\ MaxCompactions \in {0, 1}
    BY Limits DEF Invariant, Sound, WellTyped
  <2>2. compactions < MaxCompactions /\ compactions' = compactions + 1
    BY DEF Compact
  <2>. QED
    BY <2>1, <2>2
<1>2. trie' = Compacted(trie) /\ totals' = [totals EXCEPT !.nodes = UniqueCount(trie')] /\ inserted' = inserted
  BY DEF Compact
<1>3. Sound(trie, totals, inserted, 0)
  BY <1>1 DEF Invariant
<1>4. PICK t, tot, s, T : t = trie /\ tot = totals /\ s = inserted /\ T = trie'
  OBVIOUS
<1>5. Sound(t, tot, s, 0) /\ T = Compacted(t)
  BY <1>2, <1>3, <1>4
<1>6. /\ Sound(T, [tot EXCEPT !.nodes = UniqueCount(T)], s, 1)
      /\ Len(T) <= Len(t) /\ UniqueCount(T) = UniqueCount(t)
      /\ UrlsUnder(T, <<>>) = UrlsUnder(t, <<>>) /\ VisitsUnder(T, <<>>) = VisitsUnder(t, <<>>)
      /\ \A k \in DOMAIN T : ~Absorbs(T, T[k].path)
  BY ONLY <1>5, CompactSound
<1>. QED
  BY <1>1, <1>2, <1>4, <1>6 DEF Invariant

LEMMA ReloadKeeps ==
    ASSUME Invariant, Reload
    PROVE  Invariant'
<1>1. PICK t, tot, s, c : t = trie /\ tot = totals /\ s = inserted /\ c = compactions
  OBVIOUS
<1>2. Sound(t, tot, s, c)
  BY <1>1 DEF Invariant
<1>3. PICK new : new = [nodes |-> Len(t), domains |-> tot.domains,
                        urls |-> SubtreeUrls(t, 1), visits |-> SubtreeVisits(t, 1)]
  OBVIOUS
<1>4. Deserialize(Serialize(t)) = t /\ Sound(t, new, s, c)
  BY <1>2, <1>3, ReloadSound
<1>5. /\ trie' = Deserialize(Serialize(trie))
      /\ totals' = [nodes |-> Len(trie'), domains |-> totals.domains,
                    urls |-> SubtreeUrls(trie', 1), visits |-> SubtreeVisits(trie', 1)]
      /\ inserted' = inserted /\ compactions' = compactions
  BY DEF Reload
<1>6. trie' = t /\ totals' = new /\ inserted' = s /\ compactions' = c
  BY <1>1, <1>3, <1>4, <1>5
<1>. QED
  BY <1>4, <1>6 DEF Invariant

LEMMA InvariantInit ==
    ASSUME Init
    PROVE  Invariant
<1>1. PICK root, t : root = NodeCreate(<<>>) /\ t = <<root>>
  OBVIOUS
<1>2. root \in Node /\ root.path = <<>> /\ root.urls = 0 /\ root.visits = 0 /\ ~root.is_terminal
  BY <1>1 DEF NodeCreate, Node
<1>3. t \in Seq(Node) /\ Len(t) = 1 /\ DOMAIN t = {1} /\ t[1] = root /\ t # <<>>
  BY <1>1, <1>2
<1>4. Tree(t)
  BY <1>2, <1>3 DEF Tree
<1>5. Narrow(t)
  <2>1. Children(t, <<>>) = {}
    BY <1>2, <1>3 DEF Children, Under
  <2>2. Cardinality({}) = 0 /\ MaxChildren \in Nat
    BY FS_EmptySet, Limits
  <2>3. Cardinality(Children(t, <<>>)) <= MaxChildren
    BY <2>1, <2>2
  <2>4. \A i \in DOMAIN t : t[i].path = <<>>
    BY <1>2, <1>3
  <2>. QED
    BY ONLY <2>3, <2>4 DEF Narrow
<1>6. CountedAtNames(t) /\ Names(t) = {} /\ Singles(t)
  BY <1>2, <1>3 DEF CountedAtNames, Names, Singles, Single
<1>7. UniqueCount(t) = 0
  BY <1>6, FS_EmptySet DEF UniqueCount, Names
<1>8. ASSUME NEW p \in Path PROVE UrlsUnder(t, p) = 0 /\ VisitsUnder(t, p) = 0
  <2>1. IsFiniteSet(Under(t, p)) /\ Under(t, p) \in SUBSET DOMAIN t
    BY <1>4, ChildrenAre
  <2>2. PICK u, v, D : u = UrlsIn(t) /\ v = VisitsIn(t) /\ D = Under(t, p)
    OBVIOUS
  <2>3. \A i \in D : u[i] = 0
    BY <1>2, <1>3, <2>1, <2>2 DEF UrlsIn
  <2>4. \A i \in D : v[i] = 0
    BY <1>2, <1>3, <2>1, <2>2 DEF VisitsIn
  <2>5. SumOf(u, D) = 0 /\ SumOf(v, D) = 0
    BY <2>1, <2>2, <2>3, <2>4, SumZero
  <2>. QED
    BY <2>2, <2>5 DEF UrlsUnder, VisitsUnder
<1>9. PICK s : s = <<>>
  OBVIOUS
<1>10. s \in Seq(Accept) /\ DOMAIN s = {}
  BY <1>9
<1>11. ASSUME NEW a
       PROVE  /\ UrlsBelow(s, a) = 0 /\ VisitsBelow(s, a) = 0
  <2>1. NamedUnder(s, a) = {}
    BY <1>10 DEF NamedUnder
  <2>. QED
    BY <2>1, SumEmpty DEF UrlsBelow, VisitsBelow
<1>12. Listed(t, s)
  <2>1. \A a \in Seq(Part) : PathOf(a, Len(a)) \in Path
    BY PathOfFacts
  <2>. QED
    BY <1>6, <1>8, <1>10, <1>11, <2>1 DEF Listed
<1>13. AllLabels(s) = {} /\ Cardinality({}) = 0
  BY <1>10, FS_EmptySet DEF AllLabels
<1>14. PICK tot : tot = [nodes |-> 1, domains |-> 0, urls |-> 0, visits |-> 0]
  OBVIOUS
<1>15. tot \in Totals /\ tot.nodes = 1 /\ tot.domains = 0 /\ tot.urls = 0 /\ tot.visits = 0
  BY <1>14 DEF Totals
<1>16. WellTyped(tot, s, 0) /\ Counted(t, tot, s)
  BY <1>7, <1>8, <1>10, <1>11, <1>15, RootPath DEF WellTyped, Counted
<1>17. Sound(t, tot, s, 0)
  BY <1>2, <1>3, <1>4, <1>5, <1>6, <1>7, <1>12, <1>13, <1>15, <1>16 DEF Sound, WellShaped
<1>. QED
  BY <1>1, <1>9, <1>14, <1>17 DEF Init, Invariant

LEMMA InvariantSteps ==
    ASSUME Invariant, [ReportNext]_reportVars
    PROVE  Invariant'
<1>1. CASE SomeInsert
  BY <1>1, InsertKeeps DEF SomeInsert
<1>2. CASE Compact
  BY <1>2, CompactKeeps
<1>3. CASE Reload
  BY <1>3, ReloadKeeps
<1>4. CASE UNCHANGED vars
  BY <1>4 DEF vars, Invariant
<1>. QED
  BY <1>1, <1>2, <1>3, <1>4, UserSteps

\* However the report, the fuzzer and any other caller use the trie, its nodes stay a tree
\* in depth-first order within the limit of children, and nodes, totals and the names
\* accepted agree (trie_insert, trie_compact, trie_serialize and trie_deserialize of
\* domain_trie.c).
THEOREM Correct == ReportSpec => []Invariant
<1>1. ReportInit => Invariant
  BY InvariantInit DEF ReportInit
<1>2. Invariant /\ [ReportNext]_reportVars => Invariant'
  BY InvariantSteps
<1>. QED
  BY <1>1, <1>2, PTL DEF ReportSpec

\* A trie read from what trie_serialize wrote is the same trie, whatever was inserted,
\* failed to be and was compacted before (domain_trie.c:206-303).
THEOREM AlwaysReadsWhatItWrites == ReportSpec => []ReadsWhatItWrites
<1>1. Invariant => ReadsWhatItWrites
  <2> SUFFICES ASSUME Invariant PROVE ReadsWhatItWrites
    OBVIOUS
  <2>1. Tree(trie)
    BY DEF Invariant, Sound, WellShaped
  <2>. QED
    BY <2>1, ReadsBack DEF ReadsWhatItWrites
<1>. QED
  BY <1>1, Correct, PTL

\* Compaction loses no name and no count, does not make the trie larger and leaves
\* nothing to compact, from every trie that can come about (domain_trie.c:300-345).
THEOREM AlwaysCompactionKeeps == ReportSpec => CompactionKeeps
<1>1. ASSUME Invariant, Invariant', [ReportNext]_reportVars, compactions' # compactions
      PROVE  /\ Len(trie') <= Len(trie)
             /\ UniqueCount(trie') = UniqueCount(trie)
             /\ SubtreeUrls(trie', 1) = SubtreeUrls(trie, 1)
             /\ SubtreeVisits(trie', 1) = SubtreeVisits(trie, 1)
             /\ \A i \in DOMAIN trie' : ~Absorbs(trie', trie'[i].path)
  <2>1. Compact
    <3>1. SomeInsert => compactions' = compactions
      BY DEF SomeInsert, Insert
    <3>2. Reload => compactions' = compactions
      BY DEF Reload
    <3>3. UNCHANGED vars => compactions' = compactions
      BY DEF vars
    <3>. QED
      BY <1>1, <3>1, <3>2, <3>3, UserSteps
  <2>2. /\ Len(trie') <= Len(trie) /\ UniqueCount(trie') = UniqueCount(trie)
        /\ UrlsUnder(trie', <<>>) = UrlsUnder(trie, <<>>)
        /\ VisitsUnder(trie', <<>>) = VisitsUnder(trie, <<>>)
        /\ \A k \in DOMAIN trie' : ~Absorbs(trie', trie'[k].path)
    BY <1>1, <2>1, CompactKeeps
  <2>3. ASSUME NEW t, Tree(t)
        PROVE  SubtreeUrls(t, 1) = UrlsUnder(t, <<>>) /\ SubtreeVisits(t, 1) = VisitsUnder(t, <<>>)
    <3>1. 1 \in DOMAIN t /\ t[1].path = <<>>
      BY <2>3, TreeFacts
    <3>. QED
      BY <2>3, <3>1, SubtreeSums DEF UrlsUnder, VisitsUnder
  <2>4. Tree(trie) /\ Tree(trie')
    BY <1>1 DEF Invariant, Sound, WellShaped
  <2>5. /\ SubtreeUrls(trie, 1) = UrlsUnder(trie, <<>>) /\ SubtreeVisits(trie, 1) = VisitsUnder(trie, <<>>)
        /\ SubtreeUrls(trie', 1) = UrlsUnder(trie', <<>>) /\ SubtreeVisits(trie', 1) = VisitsUnder(trie', <<>>)
    BY <2>3, <2>4
  <2>. QED
    BY <2>2, <2>5
<1>2. Invariant /\ Invariant' /\ [ReportNext]_reportVars =>
        [compactions' # compactions =>
            /\ Len(trie') <= Len(trie)
            /\ UniqueCount(trie') = UniqueCount(trie)
            /\ SubtreeUrls(trie', 1) = SubtreeUrls(trie, 1)
            /\ SubtreeVisits(trie', 1) = SubtreeVisits(trie, 1)
            /\ \A i \in DOMAIN trie' : ~Absorbs(trie', trie'[i].path)]_vars
  BY <1>1
<1>. QED
  BY <1>2, Correct, PTL DEF ReportSpec, CompactionKeeps

LEMMA CountsOfNames ==
    ASSUME WellTyped(totals, inserted, compactions)
    PROVE  /\ \A D \in SUBSET DOMAIN inserted :
                /\ UrlsOf(D) = SumOf(UrlsIn(inserted), D)
                /\ VisitsOf(D) = SumOf(VisitsIn(inserted), D)
           /\ \A a : InsertedAs(a) = NamedAs(inserted, a) /\ InsertedUnder(a) = NamedUnder(inserted, a)
           /\ NamedUnder(inserted, <<>>) = DOMAIN inserted
           /\ Accepted = AllLabels(inserted) /\ (AllBefore <=> NoneAfter(inserted))
<1>1. inserted \in Seq(Accept)
  BY DEF WellTyped
<1>2. PICK s : s = inserted
  OBVIOUS
<1>3. /\ IsFiniteSet(DOMAIN s)
      /\ \A i \in DOMAIN s : s[i].urls \in Nat /\ s[i].visits \in Nat /\ s[i].labels \in Seq(Part)
  BY <1>1, <1>2, ListFacts
<1>4. ASSUME NEW D \in SUBSET DOMAIN inserted
      PROVE  /\ UrlsOf(D) = SumOf(UrlsIn(inserted), D)
             /\ VisitsOf(D) = SumOf(VisitsIn(inserted), D)
  <2>1. D \subseteq DOMAIN s /\ IsFiniteSet(D) /\ \A i \in D : s[i].urls \in Nat /\ s[i].visits \in Nat
    BY <1>2, <1>3, FS_Subset
  <2>2. MapThenSumSet(LAMBDA i : s[i].urls, D) = SumOf(UrlsIn(s), D)
    BY ONLY <2>1, UrlSum
  <2>3. MapThenSumSet(LAMBDA i : s[i].visits, D) = SumOf(VisitsIn(s), D)
    BY ONLY <2>1, VisitSum
  <2>4. UrlsOf(D) = MapThenSumSet(LAMBDA i : s[i].urls, D)
    BY <1>2 DEF UrlsOf
  <2>5. VisitsOf(D) = MapThenSumSet(LAMBDA i : s[i].visits, D)
    BY <1>2 DEF VisitsOf
  <2>. QED
    BY <1>2, <2>2, <2>3, <2>4, <2>5
<1>5. NamedUnder(inserted, <<>>) = DOMAIN inserted
  <2>1. \A a \in Seq(Part) : IsPrefix(<<>>, a)
    BY DEF IsPrefix
  <2>. QED
    BY <1>2, <1>3, <2>1 DEF NamedUnder
<1>. QED
  BY <1>4, <1>5 DEF InsertedAs, InsertedUnder, NamedAs, NamedUnder, Accepted, AllLabels, AllBefore, NoneAfter

LEMMA InvariantTotals ==
    ASSUME Invariant
    PROVE  TypeOK /\ TotalsAgree
<1>1. /\ Tree(trie) /\ Counted(trie, totals, inserted) /\ WellTyped(totals, inserted, compactions)
      /\ compactions = 0 => totals.nodes = Len(trie)
      /\ NoneAfter(inserted) => /\ UniqueCount(trie) = Cardinality(AllLabels(inserted))
                                /\ totals.domains <= totals.nodes
  BY DEF Invariant, Sound, WellShaped
<1>2. TypeOK
  <2>1. trie \in Seq(Node) /\ totals \in Totals /\ compactions \in Nat
    BY <1>1 DEF Tree, WellTyped
  <2>. QED
    BY <2>1 DEF TypeOK, Totals
<1>3. SubtreeUrls(trie, 1) = UrlsUnder(trie, <<>>) /\ SubtreeVisits(trie, 1) = VisitsUnder(trie, <<>>)
  <2>1. 1 \in DOMAIN trie /\ trie[1].path = <<>>
    BY <1>1, TreeFacts
  <2>. QED
    BY <1>1, <2>1, SubtreeSums DEF UrlsUnder, VisitsUnder
<1>4. UrlsOf(DOMAIN inserted) = UrlsBelow(inserted, <<>>) /\ VisitsOf(DOMAIN inserted) = VisitsBelow(inserted, <<>>)
  <2>1. PICK D : D = DOMAIN inserted
    OBVIOUS
  <2>2. D = NamedUnder(inserted, <<>>) /\ D \in SUBSET DOMAIN inserted
    BY <1>1, <2>1, CountsOfNames
  <2>3. UrlsOf(D) = SumOf(UrlsIn(inserted), D) /\ VisitsOf(D) = SumOf(VisitsIn(inserted), D)
    BY <1>1, <2>2, CountsOfNames
  <2>. QED
    BY ONLY <2>1, <2>2, <2>3 DEF UrlsBelow, VisitsBelow
<1>5. NoneAfter(inserted) => ~Refused(totals)
  <2>1. totals.domains \in Nat /\ totals.nodes \in Nat
    BY <1>1 DEF WellTyped, Totals
  <2>. QED
    BY <1>1, <2>1 DEF Refused
<1>6. Accepted = AllLabels(inserted) /\ (AllBefore <=> NoneAfter(inserted))
  BY <1>1, CountsOfNames
<1>7. TotalsAgree
  BY <1>1, <1>3, <1>4, <1>5, <1>6 DEF TotalsAgree, Counted
<1>. QED
  BY <1>2, <1>7

\* Whatever inserts fail half way and whatever is compacted or reloaded, the nodes are a
\* tree, each once, below its parent and before its next sibling, within the limit of
\* children, and the totals count what is in it (domain_trie.c:96-117, 307-345, 391-409).
THEOREM AlwaysWellFormed == ReportSpec => []WellFormed
<1>1. ASSUME Invariant PROVE WellFormed
  <2>1. PICK t : t = trie
    OBVIOUS
  <2>2. Tree(t) /\ Narrow(t)
    BY <1>1, <2>1 DEF Invariant, Sound, WellShaped
  <2>3. ASSUME NEW i \in DOMAIN t
        PROVE  Cardinality({j \in DOMAIN t : t[j].path = t[i].path}) = 1
    <3>1. {j \in DOMAIN t : t[j].path = t[i].path} = {i}
      BY <2>2, SamePathSameNode
    <3>. QED
      BY <3>1, FS_Singleton
  <2>4. ASSUME NEW i \in DOMAIN t, t[i].path # <<>>
        PROVE  LET up == At(t, Front(t[i].path))
               IN up \in 1 .. i - 1 /\ (up .. i) \subseteq Under(t, Front(t[i].path))
    <3>1. i # 1
      BY <2>2, <2>4 DEF Tree
    <3>2. PICK u : ParentOf(t, u, i)
      BY <2>2, <3>1 DEF Tree
    <3>3. Len(t) \in Nat /\ DOMAIN t = 1 .. Len(t)
      BY <2>2, TreeFacts
    <3>4. /\ u \in 1 .. i - 1 /\ t[u].path = Front(t[i].path)
          /\ \A j \in u .. i : IsPrefix(t[u].path, t[j].path)
      BY <3>2 DEF ParentOf
    <3>5. u \in DOMAIN t /\ u .. i \subseteq DOMAIN t
      BY <3>3, <3>4
    <3>6. At(t, Front(t[i].path)) = u
      BY <2>2, <3>4, <3>5, AtNode
    <3>7. (u .. i) \subseteq Under(t, Front(t[i].path))
      BY <3>4, <3>5 DEF Under
    <3>. QED
      BY <3>4, <3>6, <3>7
  <2>5. \A i \in DOMAIN t : Cardinality(Children(t, t[i].path)) <= MaxChildren
    BY <2>2 DEF Narrow
  <2>6. TypeOK /\ TotalsAgree
    BY <1>1, InvariantTotals
  <2>. QED
    BY <2>1, <2>3, <2>4, <2>5, <2>6 DEF WellFormed
<1>2. Invariant => WellFormed
  BY <1>1
<1>. QED
  BY <1>2, Correct, PTL

\* Until it is compacted, the trie finds a name exactly if it has accepted one with the
\* same labels, with the sum of its counts, and adds up for a name what was accepted at or
\* below it (trie_lookup and trie_aggregate, domain_trie.c:411-479).
THEOREM AlwaysFindsItsNames == ReportSpec => []FindsItsNames
<1>1. ASSUME Invariant, compactions = 0, NEW domain \in Domains
      PROVE  LET labels == SplitDomainReverse(domain)
                 i      == Lookup(trie, domain)
                 below  == InsertedUnder(labels)
             IN /\ IF labels \notin Accepted THEN i = 0
                   ELSE /\ i # 0
                        /\ trie[i].urls = UrlsOf(InsertedAs(labels))
                        /\ trie[i].visits = VisitsOf(InsertedAs(labels))
                /\ Aggregate(trie, domain) \subseteq {[urls |-> UrlsOf(below), visits |-> VisitsOf(below)]}
  <2>1. PICK labels, t, s : labels = SplitDomainReverse(domain) /\ t = trie /\ s = inserted
    OBVIOUS
  <2>2. labels \in Seq(Part)
    <3>1. domain \in Seq(Part \cup {Empty})
      BY TrieAssumption
    <3>. QED
      BY <2>1, <3>1, SplitType
  <2>3. Tree(t) /\ Listed(t, s) /\ WellTyped(totals, inserted, compactions)
    BY <1>1, <2>1 DEF Invariant, Sound, WellShaped
  <2>4. s \in Seq(Accept) /\ \A k \in DOMAIN s : s[k].labels \in Seq(Part) /\ s[k].labels # <<>>
    BY <2>1, <2>3, ListFacts DEF WellTyped
  <2>5. Accepted = AllLabels(s) /\ InsertedAs(labels) = NamedAs(s, labels) /\ InsertedUnder(labels) = NamedUnder(s, labels)
    BY <2>1, <2>3, CountsOfNames
  <2>6. /\ UrlsOf(InsertedAs(labels)) = UrlsAs(s, labels) /\ VisitsOf(InsertedAs(labels)) = VisitsAs(s, labels)
        /\ UrlsOf(InsertedUnder(labels)) = UrlsBelow(s, labels)
        /\ VisitsOf(InsertedUnder(labels)) = VisitsBelow(s, labels)
    <3>1. InsertedAs(labels) \in SUBSET DOMAIN inserted /\ InsertedUnder(labels) \in SUBSET DOMAIN inserted
      BY DEF InsertedAs, InsertedUnder
    <3>. QED
      BY <2>1, <2>3, <2>5, <3>1, CountsOfNames DEF UrlsAs, VisitsAs, UrlsBelow, VisitsBelow
  <2>7. PICK path, at : path = PathOf(labels, Len(labels)) /\ at = At(t, path)
    OBVIOUS
  <2>8. \/ at = 0 /\ \A i \in DOMAIN t : t[i].path # path
        \/ at \in DOMAIN t /\ t[at].path = path
    BY <2>3, <2>7, AtFacts DEF Tree
  <2>9. 0 \notin DOMAIN t /\ Names(t) \subseteq DOMAIN t
    BY <2>3, TreeFacts, CountFacts
  <2>10. Lookup(trie, domain) = IF labels = <<>> \/ at = 0 THEN 0 ELSE IF t[at].is_terminal THEN at ELSE 0
    BY <2>1, <2>7 DEF Lookup
  <2>11. ASSUME labels \in Accepted
         PROVE  labels # <<>> /\ at \in Names(t)
    <3>1. PICK k \in DOMAIN s : labels = s[k].labels
      BY <2>5, <2>11 DEF AllLabels
    <3>2. PICK i \in Names(t) : t[i].path = path
      BY <2>3, <2>7, <3>1 DEF Listed
    <3>3. at = i
      BY <2>3, <2>7, <2>9, <3>2, AtNode
    <3>. QED
      BY <2>4, <3>1, <3>2, <3>3
  <2>12. ASSUME at \in Names(t)
         PROVE  labels \in Accepted
    <3>1. t[at].path = path
      BY <2>8, <2>9, <2>12
    <3>2. PICK k \in DOMAIN s : t[at].path = PathOf(s[k].labels, Len(s[k].labels))
      BY <2>3, <2>12 DEF Listed
    <3>3. labels = s[k].labels
      BY <2>2, <2>4, <2>7, <3>1, <3>2, NamesCompare
    <3>. QED
      BY <2>5, <3>3 DEF AllLabels
  <2>13. ASSUME labels \notin Accepted PROVE Lookup(trie, domain) = 0
    BY <2>8, <2>10, <2>12, <2>13 DEF Names
  <2>14. ASSUME labels \in Accepted
         PROVE  /\ Lookup(trie, domain) # 0
                /\ trie[Lookup(trie, domain)].urls = UrlsAs(s, labels)
                /\ trie[Lookup(trie, domain)].visits = VisitsAs(s, labels)
    <3>1. at \in DOMAIN t /\ at # 0 /\ t[at].is_terminal /\ labels # <<>> /\ t[at].path = path
      BY <2>8, <2>9, <2>11, <2>14 DEF Names
    <3>2. Lookup(trie, domain) = at
      BY <2>10, <3>1
    <3>3. t[at].urls = UrlsAs(s, labels) /\ t[at].visits = VisitsAs(s, labels)
      BY <2>2, <2>3, <2>7, <2>11, <2>14, <3>1 DEF Listed
    <3>. QED
      BY <2>1, <3>1, <3>2, <3>3
  <2>15. Aggregate(trie, domain) \subseteq {[urls |-> UrlsBelow(s, labels), visits |-> VisitsBelow(s, labels)]}
    <3>1. Aggregate(trie, domain) = IF labels = <<>> \/ at = 0 THEN {}
                                    ELSE {[urls |-> SubtreeUrls(t, at), visits |-> SubtreeVisits(t, at)]}
      BY <2>1, <2>7 DEF Aggregate
    <3>2. CASE labels = <<>> \/ at = 0
      BY <3>1, <3>2
    <3>3. CASE at \in DOMAIN t /\ t[at].path = path
      <4>1. SubtreeUrls(t, at) = UrlsUnder(t, path) /\ SubtreeVisits(t, at) = VisitsUnder(t, path)
        BY <2>3, <3>3, SubtreeSums DEF UrlsUnder, VisitsUnder
      <4>2. UrlsUnder(t, path) = UrlsBelow(s, labels) /\ VisitsUnder(t, path) = VisitsBelow(s, labels)
        BY <2>2, <2>3, <2>7 DEF Listed
      <4>. QED
        BY <3>1, <4>1, <4>2
    <3>. QED
      BY <2>8, <3>2, <3>3
  <2>. QED
    BY <2>1, <2>6, <2>13, <2>14, <2>15
<1>2. Invariant => FindsItsNames
  BY <1>1 DEF FindsItsNames
<1>. QED
  BY <1>2, Correct, PTL

-----------------------------------------------------------------------------
(* Top-k.  Ranked: the entry i of w stands for the node w[i], the entries    *)
(* are sorted, and a name among the first n nodes that is not among them    *)
(* has found no room.                                                        *)

TopEntry(n) == [domain |-> DomainOf(n), urls |-> n.urls, visits |-> n.visits]

Descends(v) == \A i, j \in 1 .. Len(v) : i < j => v[i].visits >= v[j].visits

Ranked(t, k, n, v, w) ==
    /\ Len(v) <= k /\ Descends(v)
    /\ w \in [1 .. Len(v) -> Names(t) \cap 1 .. n]
    /\ \A i, j \in 1 .. Len(v) : w[i] = w[j] => i = j
    /\ \A i \in 1 .. Len(v) : v[i] = TopEntry(t[w[i]])
    /\ \A m \in Names(t) \cap 1 .. n :
          \/ \E i \in 1 .. Len(v) : w[i] = m
          \/ Len(v) = k /\ \A i \in 1 .. Len(v) : v[i].visits >= t[m].visits

\* The entry e has come into v at the place p, in front of those with fewer visits.
PutAt(v, e, p, k, x) ==
    /\ p \in 1 .. Len(v) + 1
    /\ Len(x) = IF Len(v) < k THEN Len(v) + 1 ELSE k
    /\ \A i \in 1 .. Len(x) : x[i] = IF i < p THEN v[i] ELSE IF i = p THEN e ELSE v[i - 1]
    /\ \A i \in 1 .. Len(v) : i < p => v[i].visits >= e.visits
    /\ \A i \in 1 .. Len(v) : p <= i => e.visits > v[i].visits

LEMMA TopkInserts ==
    ASSUME NEW S, \A r \in S : r.visits \in Nat, NEW v \in Seq(S), NEW e \in S,
           NEW k \in Nat \ {0}, Len(v) <= k, Descends(v)
    PROVE  TopkInsert(v, k, e) \in Seq(S) /\ \E p : PutAt(v, e, p, k, TopkInsert(v, k, e))
<1>1. PICK N \in Nat : N = Len(v) /\ N <= k /\ DOMAIN v = 1 .. N
  BY LenProperties
<1>2. \A i \in 1 .. N : v[i] \in S /\ v[i].visits \in Nat
  BY <1>1, ElementOfSeq
<1>3. e.visits \in Nat
  OBVIOUS
<1>4. PICK I : I = {i \in 1 .. Len(v) : e.visits > v[i].visits}
  OBVIOUS
<1>5. PICK pos : pos = IF I # {} THEN Min(I) ELSE 0
  OBVIOUS
<1>6. PICK x : x = IF pos = 0 THEN Append(v, e) ELSE InsertAt(v, pos, e)
  OBVIOUS
<1>7. TopkInsert(v, k, e) = SubSeq(x, 1, IF Len(x) > k THEN k ELSE Len(x))
  BY <1>4, <1>5, <1>6 DEF TopkInsert, SelectInSeq
<1>8. PICK p : p = IF pos = 0 THEN N + 1 ELSE pos
  OBVIOUS
<1>9. /\ p \in 1 .. N + 1
      /\ \A i \in 1 .. N : i < p => v[i].visits >= e.visits
      /\ \A i \in 1 .. N : p <= i => e.visits > v[i].visits
  <2>1. CASE I = {}
    <3>1. p = N + 1
      BY <1>5, <1>8, <2>1
    <3>2. \A i \in 1 .. N : ~(e.visits > v[i].visits)
      BY <1>1, <1>4, <2>1
    <3>. QED
      BY <1>1, <1>2, <1>3, <3>1, <3>2
  <2>2. CASE I # {}
    <3>1. I \in SUBSET Nat /\ I \subseteq 1 .. N
      BY <1>1, <1>4
    <3>2. Min(I) \in I /\ \A y \in I : Min(I) <= y
      BY <2>2, <3>1, MinFacts
    <3>3. p = Min(I) /\ p \in 1 .. N
      BY <1>5, <1>8, <2>2, <3>1, <3>2
    <3>4. ASSUME NEW i \in 1 .. N, i < p PROVE v[i].visits >= e.visits
      <4>1. i \notin I
        BY <1>1, <3>2, <3>3, <3>4
      <4>. QED
        BY <1>1, <1>2, <1>3, <1>4, <4>1
    <3>5. ASSUME NEW i \in 1 .. N, p <= i PROVE e.visits > v[i].visits
      <4>1. e.visits > v[p].visits
        BY <1>4, <3>2, <3>3
      <4>2. p = i \/ v[p].visits >= v[i].visits
        BY <1>1, <3>3, <3>5 DEF Descends
      <4>. QED
        BY <1>2, <1>3, <3>3, <4>1, <4>2
    <3>. QED
      BY <1>1, <3>3, <3>4, <3>5
  <2>. QED
    BY <2>1, <2>2
<1>10. /\ x \in Seq(S) /\ Len(x) = N + 1
       /\ \A i \in 1 .. N + 1 : x[i] = IF i < p THEN v[i] ELSE IF i = p THEN e ELSE v[i - 1]
  <2>1. CASE pos = 0
    <3>1. x = Append(v, e) /\ p = N + 1
      BY <1>6, <1>8, <2>1
    <3>2. /\ x \in Seq(S) /\ Len(x) = N + 1
          /\ \A i \in 1 .. N : x[i] = v[i]
          /\ x[N + 1] = e
      BY <1>1, <3>1, AppendProperties
    <3>3. \A i \in 1 .. N + 1 : (i \in 1 .. N /\ i < p) \/ i = p
      BY <1>1, <3>1
    <3>. QED
      BY <1>1, <3>1, <3>2, <3>3
  <2>2. CASE pos # 0
    <3>1. PICK last, y : last \in 0 .. N /\ last = p - 1 /\ y = <<e>>
      <4>1. p - 1 \in 0 .. N
        BY <1>1, <1>9
      <4>. QED
        BY <4>1
    <3>2. p = pos /\ p = last + 1 /\ p - 1 = last
      BY <1>8, <1>9, <2>2, <3>1
    <3>3. x = Splice(v, last, y)
      BY <1>1, <1>6, <2>2, <3>1, <3>2 DEF InsertAt, Splice
    <3>4. y \in Seq(S) /\ Len(y) = 1 /\ y[1] = e
      BY <3>1
    <3>5. /\ x \in Seq(S) /\ Len(x) = N + 1
          /\ \A i \in 1 .. last : x[i] = v[i]
          /\ x[last + 1] = e
          /\ \A i \in last + 1 .. N : x[i + 1] = v[i]
      <4>1. /\ Splice(v, last, y) \in Seq(S) /\ Len(Splice(v, last, y)) = Len(v) + Len(y)
            /\ \A i \in 1 .. last : Splice(v, last, y)[i] = v[i]
            /\ \A i \in 1 .. Len(y) : Splice(v, last, y)[last + i] = y[i]
            /\ \A i \in last + 1 .. Len(v) : Splice(v, last, y)[i + Len(y)] = v[i]
        <5>1. last \in 0 .. Len(v)
          BY <1>1, <3>1
        <5>. QED
          BY ONLY <3>4, <5>1, v \in Seq(S), SplicedIn
      <4>. QED
        BY <1>1, <3>3, <3>4, <4>1
    <3>6. ASSUME NEW i \in 1 .. N + 1, i > p PROVE x[i] = v[i - 1]
      <4>1. i - 1 \in last + 1 .. N /\ (i - 1) + 1 = i
        BY <1>1, <3>2, <3>6
      <4>. QED
        BY <3>5, <4>1
    <3>7. \A i \in 1 .. N + 1 : i < p => i \in 1 .. last
      BY <1>1, <3>2
    <3>8. \A i \in 1 .. N + 1 : i < p \/ i = p \/ i > p
      BY <1>1, <1>9
    <3>. QED
      BY <1>1, <1>9, <3>2, <3>5, <3>6, <3>7, <3>8
  <2>. QED
    BY <2>1, <2>2
<1>11. PICK m \in 0 .. N + 1 : m = IF N < k THEN N + 1 ELSE k
  BY <1>1
<1>12. (IF Len(x) > k THEN k ELSE Len(x)) = m
  BY <1>1, <1>10, <1>11
<1>13. PICK z : z = TopkInsert(v, k, e) /\ z = SubSeq(x, 1, m)
  BY <1>7, <1>12
<1>14. z \in Seq(S) /\ Len(z) = m /\ \A i \in 1 .. m : z[i] = x[i]
  BY <1>1, <1>10, <1>13, FirstPart
<1>15. m \in Nat /\ \A i \in 1 .. m : i \in 1 .. N + 1
  BY <1>1, <1>11
<1>16. \A i \in 1 .. Len(z) : z[i] = IF i < p THEN v[i] ELSE IF i = p THEN e ELSE v[i - 1]
  BY <1>10, <1>14, <1>15
<1>17. PutAt(v, e, p, k, z)
  BY <1>1, <1>9, <1>11, <1>14, <1>16 DEF PutAt
<1>. QED
  BY <1>13, <1>14, <1>17

LEMMA PutInOrder ==
    ASSUME NEW S, \A r \in S : r.visits \in Nat, NEW v \in Seq(S), NEW e \in S,
           NEW k \in Nat \ {0}, Len(v) <= k, Descends(v), NEW x \in Seq(S), NEW p, PutAt(v, e, p, k, x)
    PROVE  Descends(x) /\ Len(x) <= k
<1>1. e.visits \in Nat
  OBVIOUS
<1>2. PICK N, M : N \in Nat /\ M \in Nat /\ N = Len(v) /\ M = Len(x)
  BY LenProperties
<1>3. /\ p \in 1 .. N + 1 /\ M = IF N < k THEN N + 1 ELSE k
      /\ \A i \in 1 .. M : x[i] = IF i < p THEN v[i] ELSE IF i = p THEN e ELSE v[i - 1]
      /\ \A i \in 1 .. N : i < p => v[i].visits >= e.visits
      /\ \A i \in 1 .. N : p <= i => e.visits > v[i].visits
  BY <1>2 DEF PutAt
<1>4. N <= k /\ \A i, j \in 1 .. N : i < j => v[i].visits >= v[j].visits
  BY <1>2 DEF Descends
<1>6. \A i \in 1 .. N : v[i] \in S /\ v[i].visits \in Nat
  BY <1>2, ElementOfSeq
<1>8. \A i \in 1 .. M : /\ i < p => i \in 1 .. N
                        /\ i > p => i - 1 \in 1 .. N /\ p <= i - 1
  BY <1>2, <1>3, <1>4
<1>9. \A i \in 1 .. M : /\ i < p => x[i] = v[i]
                        /\ i = p => x[i] = e
                        /\ i > p => x[i] = v[i - 1]
  BY <1>3
<1>10. \A i \in 1 .. M : i < p \/ i = p \/ i > p
  BY <1>2, <1>3
<1>15. ASSUME NEW i \in 1 .. M, NEW j \in 1 .. M, i < j
       PROVE  x[i].visits >= x[j].visits
  <2>1. CASE j < p
    BY <1>3, <1>4, <1>8, <1>9, <1>15, <2>1
  <2>2. CASE j = p
    <3>1. i < p /\ x[i] = v[i] /\ i \in 1 .. N
      BY <1>8, <1>9, <1>15, <2>2
    <3>. QED
      BY <1>3, <1>9, <2>2, <3>1
  <2>3. CASE j > p
    <3>1. x[j] = v[j - 1] /\ j - 1 \in 1 .. N /\ p <= j - 1
      BY <1>8, <1>9, <2>3
    <3>2. CASE i < p
      <4>1. x[i] = v[i] /\ i \in 1 .. N
        BY <1>8, <1>9, <3>2
      <4>2. p \in Int /\ i < j - 1
        BY <1>2, <1>3, <3>1, <3>2
      <4>. QED
        BY <1>4, <3>1, <4>1, <4>2
    <3>3. CASE i = p
      <4>1. x[i] = e /\ e.visits > v[j - 1].visits
        BY <1>3, <1>9, <3>1, <3>3
      <4>. QED
        BY <1>1, <1>6, <3>1, <4>1
    <3>4. CASE i > p
      <4>1. x[i] = v[i - 1] /\ i - 1 \in 1 .. N /\ i - 1 < j - 1
        BY <1>8, <1>9, <1>15, <3>4
      <4>. QED
        BY <1>4, <3>1, <4>1
    <3>. QED
      BY <1>10, <3>2, <3>3, <3>4
  <2>. QED
    BY <1>10, <2>1, <2>2, <2>3
<1>16. M <= k
  BY <1>2, <1>3, <1>4
<1>. QED
  BY <1>2, <1>15, <1>16 DEF Descends

LEMMA RankedMore ==
    ASSUME NEW t, NEW k \in Nat \ {0}, NEW n \in Nat \ {0}, n \in Names(t), NEW S,
           \A r \in S : r.visits \in Nat, NEW v \in Seq(S), NEW w, Ranked(t, k, n - 1, v, w),
           \A m \in Names(t) : TopEntry(t[m]) \in S /\ TopEntry(t[m]).visits = t[m].visits,
           NEW x \in Seq(S), NEW p, PutAt(v, TopEntry(t[n]), p, k, x)
    PROVE  \E u : Ranked(t, k, n, x, u)
<1>1. PICK e \in S : e = TopEntry(t[n]) /\ e.visits = t[n].visits /\ e.visits \in Nat
  OBVIOUS
<1>2. PICK N, M : N \in Nat /\ M \in Nat /\ N = Len(v) /\ M = Len(x)
  BY LenProperties
<1>3. /\ p \in 1 .. N + 1 /\ M = IF N < k THEN N + 1 ELSE k
      /\ \A i \in 1 .. M : x[i] = IF i < p THEN v[i] ELSE IF i = p THEN e ELSE v[i - 1]
      /\ \A i \in 1 .. N : i < p => v[i].visits >= e.visits
      /\ \A i \in 1 .. N : p <= i => e.visits > v[i].visits
  BY <1>1, <1>2 DEF PutAt
<1>4. /\ N <= k /\ w \in [1 .. N -> Names(t) \cap 1 .. n - 1]
      /\ \A i, j \in 1 .. N : w[i] = w[j] => i = j
      /\ \A i \in 1 .. N : v[i] = TopEntry(t[w[i]])
      /\ \A i, j \in 1 .. N : i < j => v[i].visits >= v[j].visits
  BY <1>2 DEF Ranked, Descends
<1>5. \A m \in Names(t) \cap 1 .. n - 1 :
          \/ \E i \in 1 .. N : w[i] = m
          \/ N = k /\ \A i \in 1 .. N : v[i].visits >= t[m].visits
  BY <1>2 DEF Ranked
<1>6. \A i \in 1 .. N : v[i] \in S /\ v[i].visits \in Nat
  BY <1>2, ElementOfSeq
<1>7. PICK u : u = [i \in 1 .. M |-> IF i < p THEN w[i] ELSE IF i = p THEN n ELSE w[i - 1]]
  OBVIOUS
<1>8. \A i \in 1 .. M : /\ i < p => i \in 1 .. N
                        /\ i > p => i - 1 \in 1 .. N /\ p <= i - 1
  BY <1>2, <1>3
<1>9. \A i \in 1 .. M : /\ i < p => u[i] = w[i] /\ x[i] = v[i]
                        /\ i = p => u[i] = n /\ x[i] = e
                        /\ i > p => u[i] = w[i - 1] /\ x[i] = v[i - 1]
  BY <1>3, <1>7
<1>10. \A i \in 1 .. M : i < p \/ i = p \/ i > p
  BY <1>2, <1>3
<1>11. \A i \in 1 .. N : w[i] \in Names(t) /\ w[i] \in 1 .. n - 1 /\ w[i] \in 1 .. n /\ w[i] # n
  BY <1>4
<1>12. u \in [1 .. M -> Names(t) \cap 1 .. n]
  <2>1. \A i \in 1 .. M : u[i] \in Names(t) \cap 1 .. n
    BY <1>8, <1>9, <1>10, <1>11
  <2>. QED
    BY <1>7, <2>1
<1>13. ASSUME NEW i \in 1 .. M, NEW j \in 1 .. M, u[i] = u[j]
       PROVE  i = j
  <2>1. CASE i = p
    BY <1>8, <1>9, <1>10, <1>11, <1>13, <2>1
  <2>2. CASE i < p
    <3>1. j < p \/ j > p
      BY <1>8, <1>9, <1>10, <1>11, <1>13, <2>2
    <3>2. CASE j < p
      BY <1>4, <1>8, <1>9, <1>13, <2>2, <3>2
    <3>3. CASE j > p
      <4>1. w[i] = w[j - 1] /\ i \in 1 .. N /\ j - 1 \in 1 .. N /\ p <= j - 1
        BY <1>8, <1>9, <1>13, <2>2, <3>3
      <4>2. i = j - 1
        BY <1>4, <4>1
      <4>. QED
        BY <1>3, <2>2, <4>1, <4>2
    <3>. QED
      BY <3>1, <3>2, <3>3
  <2>3. CASE i > p
    <3>1. j < p \/ j > p
      BY <1>8, <1>9, <1>10, <1>11, <1>13, <2>3
    <3>2. u[i] = w[i - 1] /\ i - 1 \in 1 .. N /\ p <= i - 1
      BY <1>8, <1>9, <2>3
    <3>3. CASE j < p
      <4>1. w[j] = w[i - 1] /\ j \in 1 .. N
        BY <1>8, <1>9, <1>13, <3>2, <3>3
      <4>2. j = i - 1
        BY <1>4, <3>2, <4>1
      <4>. QED
        BY <1>3, <3>2, <3>3, <4>2
    <3>4. CASE j > p
      <4>1. w[j - 1] = w[i - 1] /\ j - 1 \in 1 .. N
        BY <1>8, <1>9, <1>13, <3>2, <3>4
      <4>2. j - 1 = i - 1
        BY <1>4, <3>2, <4>1
      <4>. QED
        BY <4>2
    <3>. QED
      BY <3>1, <3>3, <3>4
  <2>. QED
    BY <1>10, <2>1, <2>2, <2>3
<1>14. ASSUME NEW i \in 1 .. M
       PROVE  x[i] = TopEntry(t[u[i]])
  <2>1. CASE i < p
    BY <1>4, <1>8, <1>9, <2>1
  <2>2. CASE i = p
    BY <1>1, <1>9, <2>2
  <2>3. CASE i > p
    BY <1>4, <1>8, <1>9, <2>3
  <2>. QED
    BY <1>10, <2>1, <2>2, <2>3
<1>15. Descends(x) /\ M <= k
  BY <1>1, <1>2, <1>4, <1>6, PutInOrder DEF Ranked
<1>16. ASSUME NEW m \in Names(t) \cap 1 .. n
       PROVE  \/ \E i \in 1 .. M : u[i] = m
              \/ M = k /\ \A i \in 1 .. M : x[i].visits >= t[m].visits
  <2>0. t[m].visits \in Nat
    OBVIOUS
  <2>1. CASE m = n
    <3>1. CASE p <= M
      <4>1. p \in 1 .. M
        BY <1>3, <3>1
      <4>2. u[p] = n
        BY <1>9, <4>1
      <4>. QED
        BY <2>1, <4>1, <4>2
    <3>2. CASE ~(p <= M)
      <4>1. M = k /\ \A i \in 1 .. M : i < p
        BY <1>2, <1>3, <1>4, <3>2
      <4>2. \A i \in 1 .. M : x[i].visits >= e.visits
        BY <1>3, <1>8, <1>9, <4>1
      <4>. QED
        BY <1>1, <2>1, <4>1, <4>2
    <3>. QED
      BY <3>1, <3>2
  <2>2. CASE \E q \in 1 .. N : w[q] = m
    <3>1. PICK q \in 1 .. N : w[q] = m
      BY <2>2
    <3>2. CASE q < p
      <4>1. q \in 1 .. M
        BY <1>2, <1>3, <1>4
      <4>2. u[q] = w[q]
        BY <1>9, <3>2, <4>1
      <4>. QED
        BY <3>1, <4>1, <4>2
    <3>3. CASE p <= q /\ q + 1 <= M
      <4>1. q + 1 \in 1 .. M /\ q + 1 > p /\ (q + 1) - 1 = q
        BY <1>2, <1>3, <3>3
      <4>2. u[q + 1] = w[q]
        BY <1>9, <4>1
      <4>. QED
        BY <3>1, <4>1, <4>2
    <3>4. CASE p <= q /\ ~(q + 1 <= M)
      <4>1. M = k /\ N = k /\ q = k /\ \A i \in 1 .. N : i # q => i < q
        BY <1>2, <1>3, <1>4, <3>4
      <4>2. v[q].visits = t[m].visits /\ v[q].visits \in Nat
        BY <1>4, <1>6, <3>1
      <4>3. \A i \in 1 .. N : v[i].visits >= v[q].visits
        BY <1>4, <1>6, <4>1
      <4>4. ASSUME NEW i \in 1 .. M PROVE x[i].visits >= v[q].visits
        <5>1. CASE i < p
          BY <1>8, <1>9, <4>3, <5>1
        <5>2. CASE i = p
          <6>1. x[i].visits > v[q].visits
            BY <1>3, <1>9, <3>4, <5>2
          <6>. QED
            BY <1>1, <1>9, <4>2, <5>2, <6>1
        <5>3. CASE i > p
          BY <1>8, <1>9, <4>3, <5>3
        <5>. QED
          BY <1>10, <5>1, <5>2, <5>3
      <4>. QED
        BY <4>1, <4>2, <4>4
    <3>. QED
      BY <1>2, <1>3, <3>2, <3>3, <3>4
  <2>3. CASE m # n /\ ~\E q \in 1 .. N : w[q] = m
    <3>1. m \in Names(t) \cap 1 .. n - 1
      BY <2>3
    <3>2. N = k /\ \A i \in 1 .. N : v[i].visits >= t[m].visits
      BY <1>5, <2>3, <3>1
    <3>3. M = k
      BY <1>3, <3>2
    <3>4. ASSUME NEW i \in 1 .. M PROVE x[i].visits >= t[m].visits
      <4>1. CASE i < p
        BY <1>8, <1>9, <3>2, <4>1
      <4>2. CASE i = p
        <5>1. i \in 1 .. N
          BY <3>2, <3>3
        <5>2. e.visits > v[i].visits /\ v[i].visits >= t[m].visits
          BY <1>3, <3>2, <4>2, <5>1
        <5>. QED
          BY <1>1, <1>6, <1>9, <2>0, <4>2, <5>1, <5>2
      <4>3. CASE i > p
        BY <1>8, <1>9, <3>2, <4>3
      <4>. QED
        BY <1>10, <4>1, <4>2, <4>3
    <3>. QED
      BY <3>3, <3>4
  <2>. QED
    BY <2>1, <2>2, <2>3
<1>17. M = Len(x) /\ M <= k
  BY <1>2, <1>15
<1>18. /\ \A m \in Names(t) \cap 1 .. n :
             \/ \E i \in 1 .. Len(x) : u[i] = m
             \/ Len(x) = k /\ \A i \in 1 .. Len(x) : x[i].visits >= t[m].visits
       /\ \A i \in 1 .. Len(x) : x[i] = TopEntry(t[u[i]])
       /\ \A i, j \in 1 .. Len(x) : u[i] = u[j] => i = j
       /\ Len(x) <= k /\ u \in [1 .. Len(x) -> Names(t) \cap 1 .. n]
  BY ONLY <1>12, <1>13, <1>14, <1>16, <1>17
<1>. QED
  BY ONLY <1>15, <1>18 DEF Ranked

\* What TopK does to its results at a node.
TopStep(v, n, k) == IF ~n.is_terminal THEN v ELSE TopkInsert(v, k, TopEntry(n))

\* The entries of names, and the results the limit k allows.
Entries(t) == {TopEntry(t[i]) : i \in Names(t)}
Results(t, k) == {v \in Seq(Entries(t)) : Len(v) <= k /\ Descends(v)}

LEMMA EntryFacts ==
    ASSUME NEW t, Tree(t)
    PROVE  /\ \A r \in Entries(t) : r.visits \in Nat
           /\ \A m \in Names(t) : TopEntry(t[m]) \in Entries(t) /\ TopEntry(t[m]).visits = t[m].visits
           /\ \A m \in Names(t) : t[m].visits \in Nat
<1>1. \A m \in Names(t) : t[m] \in Node
  BY TreeFacts DEF Names
<1>2. \A m \in Names(t) : t[m].visits \in Nat
  BY <1>1 DEF Node
<1>3. \A n : TopEntry(n).visits = n.visits
  BY DEF TopEntry
<1>. QED
  BY <1>2, <1>3 DEF Entries

LEMMA TopStepType ==
    ASSUME NEW t, Tree(t), NEW k \in Nat \ {0}, NEW m \in DOMAIN t, NEW v \in Results(t, k)
    PROVE  TopStep(v, t[m], k) \in Results(t, k)
<1>1. CASE ~t[m].is_terminal
  BY <1>1 DEF TopStep
<1>2. CASE t[m].is_terminal
  <2>1. PICK S : S = Entries(t)
    OBVIOUS
  <2>2. (\A r \in S : r.visits \in Nat) /\ v \in Seq(S) /\ Len(v) <= k /\ Descends(v)
    BY <2>1, EntryFacts DEF Results
  <2>3. m \in Names(t)
    BY <1>2 DEF Names
  <2>4. PICK e \in S : e = TopEntry(t[m])
    BY <2>1, <2>3, EntryFacts
  <2>5. PICK x : x = TopkInsert(v, k, e)
    OBVIOUS
  <2>6. PICK p : x \in Seq(S) /\ PutAt(v, e, p, k, x)
    BY <2>2, <2>5, TopkInserts
  <2>7. Descends(x) /\ Len(x) <= k
    BY <2>2, <2>6, PutInOrder
  <2>8. TopStep(v, t[m], k) = x
    BY <1>2, <2>4, <2>5 DEF TopStep
  <2>. QED
    BY <2>1, <2>6, <2>7, <2>8 DEF Results
<1>. QED
  BY <1>1, <1>2

\* One node more: if it is a name, it comes in at its place.
LEMMA RankedNext ==
    ASSUME NEW t, Tree(t), NEW k \in Nat \ {0}, NEW n \in DOMAIN t, n # 1,
           NEW v \in Results(t, k), NEW w, Ranked(t, k, n - 1, v, w)
    PROVE  \E u : Ranked(t, k, n, TopStep(v, t[n], k), u)
<1>0. n \in Nat \ {0}
  BY TreeFacts
<1>1. CASE ~t[n].is_terminal
  <2>1. Names(t) \cap 1 .. n = Names(t) \cap 1 .. n - 1
    <3>1. n \notin Names(t)
      BY <1>1 DEF Names
    <3>. QED
      BY <1>0, <3>1
  <2>2. TopStep(v, t[n], k) = v
    BY <1>1 DEF TopStep
  <2>3. Ranked(t, k, n, v, w)
    BY <2>1 DEF Ranked
  <2>. QED
    BY <2>2, <2>3
<1>2. CASE t[n].is_terminal
  <2>1. PICK S : S = Entries(t)
    OBVIOUS
  <2>2. /\ \A r \in S : r.visits \in Nat
        /\ \A m \in Names(t) : TopEntry(t[m]) \in S /\ TopEntry(t[m]).visits = t[m].visits
        /\ v \in Seq(S) /\ Len(v) <= k /\ Descends(v)
    BY <2>1, EntryFacts DEF Results
  <2>3. n \in Names(t)
    BY <1>2 DEF Names
  <2>4. PICK e \in S : e = TopEntry(t[n])
    BY <2>2, <2>3
  <2>5. PICK x : x = TopkInsert(v, k, e)
    OBVIOUS
  <2>6. PICK p : x \in Seq(S) /\ PutAt(v, e, p, k, x)
    BY <2>2, <2>5, TopkInserts
  <2>7. \E u : Ranked(t, k, n, x, u)
    <3>1. PutAt(v, TopEntry(t[n]), p, k, x)
      BY <2>4, <2>6
    <3>. QED
      BY <1>0, <2>2, <2>3, <2>6, <3>1, RankedMore
  <2>8. TopStep(v, t[n], k) = x
    BY <1>2, <2>4, <2>5 DEF TopStep
  <2>. QED
    BY <2>7, <2>8
<1>. QED
  BY <1>1, <1>2

LEMMA TopKRanked ==
    ASSUME NEW t, Tree(t), ~t[1].is_terminal, NEW asked \in Nat \ {0},
           NEW k \in Nat \ {0}, k = IF asked > MaxTopK THEN MaxTopK ELSE asked
    PROVE  TopK(t, asked) \in Results(t, k) /\ \E w : Ranked(t, k, Len(t), TopK(t, asked), w)
<1> DEFINE D == DOMAIN Tail(t)
           V == Results(t, k)
           Step(v, n) == TopStep(v, n, k)
           iter == CHOOSE f : f = [s \in SUBSET D |-> IF s = {} THEN <<>>
                                      ELSE Step(f[s \ {Max(s)}], Tail(t)[Max(s)])]
<1>1. TopK(t, asked) = iter[D]
  BY DEF TopK, FoldLeft, MapThenFoldSet, TopStep, TopEntry
<1>2. PICK N \in Nat : Len(t) = N + 1 /\ D = 1 .. N /\ DOMAIN t = 1 .. N + 1 /\ \A n \in 1 .. N : Tail(t)[n] = t[n + 1]
  <2>1. t \in Seq(Node) /\ t # <<>>
    BY DEF Tree
  <2>2. PICK s : s = Tail(t)
    OBVIOUS
  <2>3. s \in Seq(Node) /\ Len(s) = Len(t) - 1 /\ \A i \in 1 .. Len(s) : s[i] = t[i + 1]
    BY <2>1, <2>2, HeadTailProperties
  <2>4. DOMAIN s = 1 .. Len(s) /\ Len(s) \in Nat
    BY <2>3, LenProperties
  <2>5. Len(t) \in Nat /\ DOMAIN t = 1 .. Len(t)
    BY TreeFacts
  <2>6. PICK N \in Nat : N = Len(s)
    BY <2>4
  <2>7. Len(t) = N + 1 /\ DOMAIN t = 1 .. N + 1 /\ DOMAIN s = 1 .. N /\ \A n \in 1 .. N : s[n] = t[n + 1]
    BY <2>3, <2>4, <2>5, <2>6
  <2>. QED
    BY <2>2, <2>7
<1> HIDE DEF Step
<1>6. ASSUME NEW n \in 1 .. N, NEW v \in V
      PROVE  Step(v, Tail(t)[n]) \in V
  <2>1. n + 1 \in DOMAIN t /\ Tail(t)[n] = t[n + 1]
    BY <1>2
  <2>. QED
    BY <2>1, TopStepType DEF Step
<1>7. PICK h : h = [n \in 1 .. N |-> [v \in V |-> Step(v, Tail(t)[n])]]
  OBVIOUS
<1>8. <<>> \in V
  BY EmptySeq DEF Results, Descends
<1> HIDE DEF V, D
<1>9. Steps(h, N, V) /\ \A n \in 1 .. N, v \in V : h[n][v] = Step(v, Tail(t)[n])
  BY <1>6, <1>7 DEF Steps
<1>10. PICK f : FoldsAll(f, <<>>, h, N, V)
  BY <1>8, <1>9, FoldSolution
<1>11. \A s \in SUBSET (1 .. N) : s # {} => Max(s) \in 1 .. N
  BY GreatestIn
<1>12. f = [s \in SUBSET D |-> IF s = {} THEN <<>> ELSE Step(f[s \ {Max(s)}], Tail(t)[Max(s)])]
  <2>1. \A s \in SUBSET D : f[s] = IF s = {} THEN <<>> ELSE Step(f[s \ {Max(s)}], Tail(t)[Max(s)])
    BY <1>2, <1>9, <1>10, <1>11 DEF FoldsAll
  <2>2. f = [s \in SUBSET D |-> f[s]]
    BY <1>2, <1>10 DEF FoldsAll
  <2>. QED
    BY <2>1, <2>2
<1>13. iter = [s \in SUBSET D |-> IF s = {} THEN <<>> ELSE Step(iter[s \ {Max(s)}], Tail(t)[Max(s)])]
  BY <1>12
<1> HIDE DEF iter
<1>14. \A s \in SUBSET D : iter[s] = IF s = {} THEN <<>> ELSE Step(iter[s \ {Max(s)}], Tail(t)[Max(s)])
  BY <1>13
<1>15. FoldsOn(iter, <<>>, h, N, V)
  <2>1. iter[{}] = <<>>
    BY <1>14
  <2>2. ASSUME NEW s \in SUBSET (1 .. N), NEW v \in V, s # {}, iter[s \ {Max(s)}] = v
        PROVE  iter[s] = h[Max(s)][v]
    <3>1. iter[s] = Step(v, Tail(t)[Max(s)])
      BY <1>2, <1>14, <2>2
    <3>. QED
      BY <1>9, <1>11, <2>2, <3>1
  <2>. QED
    BY <2>1, <2>2 DEF FoldsOn
<1>16. PICK g : Stages(g, <<>>, h, N, V) /\ iter[1 .. N] = g[N]
  BY <1>8, <1>9, <1>15, FoldStages
<1>17. /\ g[0] = <<>> /\ \A n \in 0 .. N : g[n] \in V
       /\ \A n \in 1 .. N : n - 1 \in 0 .. N /\ g[n] = Step(g[n - 1], t[n + 1])
  <2>1. g \in [0 .. N -> V] /\ g[0] = <<>> /\ \A n \in 1 .. N : g[n] = h[n][g[n - 1]]
    BY <1>16 DEF Stages
  <2>2. \A n \in 1 .. N : n - 1 \in 0 .. N
    BY <1>2
  <2>3. \A n \in 1 .. N : h[n][g[n - 1]] = Step(g[n - 1], Tail(t)[n])
    BY <1>9, <2>1, <2>2
  <2>. QED
    BY <1>2, <2>1, <2>2, <2>3
<1>18. \A m \in 0 .. N : \E w : Ranked(t, k, m + 1, g[m], w)
  <2> DEFINE P == {m \in 0 .. N : \E w : Ranked(t, k, m + 1, g[m], w)}
  <2>1. 0 \in P
    <3>1. PICK w : w = [i \in 1 .. 0 |-> 0]
      OBVIOUS
    <3>2. Names(t) \cap 1 .. 0 + 1 = {}
      BY DEF Names
    <3>3. PICK v : v = <<>> /\ Len(v) = 0 /\ 1 .. Len(v) = {}
      BY EmptySeq
    <3>4. Ranked(t, k, 0 + 1, v, w)
      BY <3>1, <3>2, <3>3 DEF Ranked, Descends
    <3>5. \E u : Ranked(t, k, 0 + 1, g[0], u)
      BY <1>17, <3>3, <3>4
    <3>. QED
      BY <1>2, <3>5
  <2>2. ASSUME NEW m \in 0 .. N - 1, m \in P
        PROVE  m + 1 \in P
    <3>1. PICK w : Ranked(t, k, m + 1, g[m], w)
      BY <2>2
    <3>2. PICK n \in DOMAIN t, v \in V : n = (m + 1) + 1 /\ n # 1 /\ v = g[m] /\ n - 1 = m + 1
      BY <1>2, <1>17
    <3>3. m + 1 \in 0 .. N /\ g[m + 1] = TopStep(v, t[n], k)
      <4>1. m + 1 \in 1 .. N /\ (m + 1) - 1 = m
        BY <1>2
      <4>. QED
        BY <1>17, <3>2, <4>1 DEF Step
    <3>4. \E u : Ranked(t, k, n, TopStep(v, t[n], k), u)
      BY <3>1, <3>2, RankedNext DEF V
    <3>. QED
      BY <3>2, <3>3, <3>4
  <2> HIDE DEF P
  <2>3. \A m \in 0 .. N : m \in P
    BY <1>2, <2>1, <2>2, CountUp
  <2>. QED
    BY <2>3 DEF P
<1>19. N \in 0 .. N /\ TopK(t, asked) = g[N]
  BY <1>1, <1>2, <1>16
<1>. QED
  BY <1>2, <1>17, <1>18, <1>19 DEF V

\* What is listed is as long as it can be, and there are fewer names with more visits
\* than the last of it.
LEMMA RankedSize ==
    ASSUME NEW t, Tree(t), NEW k \in Nat \ {0}, NEW v \in Results(t, k), NEW w,
           Ranked(t, k, Len(t), v, w)
    PROVE  /\ Len(v) \in Nat /\ Len(v) <= UniqueCount(t) /\ (Len(v) < k => Len(v) = UniqueCount(t))
           /\ v # <<>> => Cardinality({m \in Names(t) : t[m].visits > Last(v).visits}) < Len(v)
<1>1. PICK N \in Nat : N = Len(v)
  BY LenProperties DEF Results
<1>2. IsFiniteSet(Names(t)) /\ Names(t) \subseteq DOMAIN t /\ UniqueCount(t) = Cardinality(Names(t))
      /\ UniqueCount(t) \in Nat
  BY CountFacts
<1>3. Names(t) \cap 1 .. Len(t) = Names(t)
  BY <1>2, TreeFacts
<1>4. /\ N <= k /\ w \in [1 .. N -> Names(t)]
      /\ \A i, j \in 1 .. N : i < j => v[i].visits >= v[j].visits
      /\ \A i, j \in 1 .. N : w[i] = w[j] => i = j
      /\ \A i \in 1 .. N : v[i] = TopEntry(t[w[i]])
      /\ \A m \in Names(t) :
            \/ \E i \in 1 .. N : w[i] = m
            \/ N = k /\ \A i \in 1 .. N : v[i].visits >= t[m].visits
  BY <1>1, <1>3 DEF Ranked, Descends
<1>5. \A n \in Nat : IsFiniteSet(1 .. n) /\ Cardinality(1 .. n) = n
  BY FS_Interval
<1>6. N <= UniqueCount(t)
  <2>1. PICK f : f = [m \in Names(t) |-> CHOOSE i \in 1 .. N : w[i] = m]
    OBVIOUS
  <2>2. \A i \in 1 .. N : w[i] \in Names(t) /\ f[w[i]] = i
    BY <1>4, <2>1
  <2>3. \A i \in 1 .. N : \E m \in Names(t) : f[m] = i
    BY <2>2
  <2>4. Cardinality(1 .. N) <= Cardinality(Names(t))
    BY ONLY <1>2, <2>3, CoveredBy
  <2>. QED
    BY <1>2, <1>5, <2>4
<1>7. ASSUME N < k PROVE N = UniqueCount(t)
  <2>1. \A m \in Names(t) : \E i \in 1 .. N : w[i] = m
    BY <1>4, <1>7
  <2>2. IsFiniteSet(1 .. N)
    BY <1>5
  <2>3. Cardinality(Names(t)) <= Cardinality(1 .. N)
    BY ONLY <2>1, <2>2, CoveredBy
  <2>. QED
    BY <1>2, <1>5, <1>6, <2>3
<1>8. ASSUME v # <<>>
      PROVE  Cardinality({m \in Names(t) : t[m].visits > Last(v).visits}) < N
  <2>1. N \in 1 .. N /\ N - 1 \in Nat
    <3>1. N # 0
      BY <1>1, <1>8, EmptySeq DEF Results
    <3>. QED
      BY <3>1
  <2>2. PICK G : G = {m \in Names(t) : t[m].visits > v[N].visits}
    OBVIOUS
  <2>3. \A i \in 1 .. N : v[i].visits = t[w[i]].visits /\ v[i].visits \in Nat
    <3>1. \A i \in 1 .. N : w[i] \in Names(t)
      BY <1>4
    <3>. QED
      BY <1>4, <3>1, EntryFacts
  <2>4. ASSUME NEW m \in G PROVE \E i \in 1 .. N - 1 : w[i] = m
    <3>1. m \in Names(t) /\ t[m].visits > v[N].visits /\ t[m].visits \in Nat
      BY <2>2, EntryFacts
    <3>2. ~(v[N].visits >= t[m].visits)
      BY <2>1, <2>3, <3>1
    <3>3. PICK i \in 1 .. N : w[i] = m
      BY <1>4, <2>1, <3>1, <3>2
    <3>4. i # N
      BY <2>3, <3>1, <3>3
    <3>. QED
      BY <3>3, <3>4
  <2>5. IsFiniteSet(1 .. N - 1) /\ Cardinality(1 .. N - 1) = N - 1
    BY <1>5, <2>1
  <2>6. IsFiniteSet(G) /\ Cardinality(G) <= Cardinality(1 .. N - 1)
    BY ONLY <2>4, <2>5, CoveredBy
  <2>7. Cardinality(G) \in Nat
    BY <2>6, FS_CardinalityType
  <2>8. Last(v) = v[N]
    BY <1>1 DEF Last
  <2>. QED
    BY <2>2, <2>5, <2>6, <2>7, <2>8
<1>. QED
  BY <1>1, <1>6, <1>7, <1>8

\* A name written back from a path that nothing was joined in is the name.
LEMMA FlattenSingles ==
    ASSUME NEW r \in Seq(Part), NEW q \in Path, Len(q) = Len(r), \A i \in 1 .. Len(r) : q[i] = <<r[i]>>
    PROVE  FlattenSeq(q) = r
<1>1. PICK N \in Nat : N = Len(q) /\ N = Len(r)
  BY LenProperties
<1>2. CASE N = 0
  BY <1>1, <1>2, EmptySeq DEF FlattenSeq, Path
<1>3. CASE N # 0
  <2> DEFINE g == [n \in 1 .. N |-> SubSeq(r, 1, n)]
             F == CHOOSE f : f = [i \in 1 .. Len(q) |-> IF i = 1 THEN q[i] ELSE f[i - 1] \o q[i]]
  <2>1. FlattenSeq(q) = F[Len(q)]
    BY <1>1, <1>3 DEF FlattenSeq
  <2>2. \A i \in 1 .. N : r[i] \in Part /\ q[i] = <<r[i]>>
    BY <1>1, ElementOfSeq
  <2>3. g[1] = q[1]
    <3>1. PICK x, y : x = SubSeq(r, 1, 1) /\ y = <<r[1]>>
      OBVIOUS
    <3>2. x \in Seq(Part) /\ Len(x) = 1 /\ x[1] = r[1]
      BY <1>1, <1>3, <3>1, FirstPart
    <3>3. y \in Seq(Part) /\ Len(y) = 1 /\ y[1] = r[1]
      BY <1>1, <1>3, <2>2, <3>1
    <3>4. x = y
      BY <3>2, <3>3, SeqEqual
    <3>5. 1 \in 1 .. N
      BY <1>3
    <3>. QED
      BY <2>2, <3>1, <3>4, <3>5
  <2>4. ASSUME NEW i \in 1 .. N, i # 1
        PROVE  g[i] = g[i - 1] \o q[i]
    <3>1. i - 1 \in 1 .. N /\ i \in 1 .. Len(r) /\ 1 \in 1 .. Len(r) /\ i \in 1 .. i
      BY <1>1, <2>4
    <3>2. SubSeq(r, 1, i) = SubSeq(r, 1, i - 1) \o <<r[i]>>
      BY <3>1, SubSeqRecursiveSecond
    <3>. QED
      BY <2>2, <3>1, <3>2
  <2>5. g = [i \in 1 .. Len(q) |-> IF i = 1 THEN q[i] ELSE g[i - 1] \o q[i]]
    <3>1. \A i \in 1 .. N : g[i] = IF i = 1 THEN q[i] ELSE g[i - 1] \o q[i]
      BY <2>3, <2>4
    <3>2. g = [i \in 1 .. N |-> g[i]]
      OBVIOUS
    <3> HIDE DEF g
    <3>. QED
      BY <1>1, <3>1, <3>2
  <2>6. PICK e : e = g
    OBVIOUS
  <2>7. \A i \in 1 .. N : e[i] = SubSeq(r, 1, i)
    BY <2>6
  <2>8. e = [i \in 1 .. Len(q) |-> IF i = 1 THEN q[i] ELSE e[i - 1] \o q[i]]
    BY <2>5, <2>6
  <2> HIDE DEF g
  <2>9. \A i \in 1 .. N : e[i] = IF i = 1 THEN q[i] ELSE e[i - 1] \o q[i]
    BY <1>1, <2>8
  <2>10. F = [i \in 1 .. Len(q) |-> IF i = 1 THEN q[i] ELSE F[i - 1] \o q[i]]
    BY <2>8
  <2> HIDE DEF F
  <2>11. \A i \in 1 .. N : F[i] = IF i = 1 THEN q[i] ELSE F[i - 1] \o q[i]
    BY <1>1, <2>10
  <2>12. \A n \in 0 .. N - 1 : F[n + 1] = e[n + 1]
    <3> DEFINE P == {n \in 0 .. N - 1 : F[n + 1] = e[n + 1]}
    <3>1. 0 \in P
      BY <1>1, <1>3, <2>9, <2>11
    <3>2. ASSUME NEW n \in 0 .. (N - 1) - 1, n \in P
          PROVE  n + 1 \in P
      <4>1. (n + 1) + 1 \in 1 .. N /\ (n + 1) + 1 # 1 /\ ((n + 1) + 1) - 1 = n + 1 /\ n + 1 \in 0 .. N - 1
        BY <1>1
      <4>2. F[(n + 1) + 1] = F[n + 1] \o q[(n + 1) + 1] /\ e[(n + 1) + 1] = e[n + 1] \o q[(n + 1) + 1]
        BY <2>9, <2>11, <4>1
      <4>. QED
        BY <3>2, <4>1, <4>2
    <3> HIDE DEF P
    <3>3. N - 1 \in Nat
      BY <1>1, <1>3
    <3>4. \A n \in 0 .. N - 1 : n \in P
      BY <3>1, <3>2, <3>3, CountUp
    <3>. QED
      BY <3>4 DEF P
  <2>13. F[N] = SubSeq(r, 1, N)
    <3>1. N - 1 \in 0 .. N - 1 /\ (N - 1) + 1 = N /\ N \in 1 .. N
      BY <1>1, <1>3
    <3>. QED
      BY <2>7, <2>12, <3>1
  <2>14. SubSeq(r, 1, N) = r
    BY <1>1, SubSeqFull
  <2>. QED
    BY <1>1, <2>1, <2>13, <2>14
<1>. QED
  BY <1>2, <1>3

LEMMA NameWritten ==
    ASSUME NEW labels \in Seq(Part), NEW n, n.path = PathOf(labels, Len(labels))
    PROVE  Reverse(DomainOf(n)) = labels
<1>1. PICK N \in Nat : N = Len(labels)
  BY LenProperties
<1>2. PICK p : p = n.path
  OBVIOUS
<1>3. p \in Path /\ Len(p) = N /\ \A i \in 1 .. N : p[i] = <<labels[i]>>
  BY <1>1, <1>2, PathOfFacts
<1>4. \A i \in 1 .. N : labels[i] \in Part /\ (N - i) + 1 \in 1 .. N /\ (N - ((N - i) + 1)) + 1 = i
  BY <1>1, ElementOfSeq
<1>5. PICK r, q : r = Reverse(labels) /\ q = Reverse(p)
  OBVIOUS
<1>6. r = [i \in 1 .. N |-> labels[(N - i) + 1]] /\ q = [i \in 1 .. N |-> p[(N - i) + 1]]
  BY <1>1, <1>3, <1>5 DEF Reverse
<1>7. r \in Seq(Part) /\ Len(r) = N
  BY <1>1, <1>4, <1>6
<1>8. q \in Path /\ Len(q) = N
  <2>1. \A i \in 1 .. N : p[i] \in Seq(Part)
    BY <1>3, ElementOfSeq DEF Path
  <2>. QED
    BY <1>1, <1>4, <1>6, <2>1 DEF Path
<1>9. \A i \in 1 .. N : q[i] = <<r[i]>>
  BY <1>3, <1>4, <1>6
<1>10. FlattenSeq(q) = r
  BY <1>7, <1>8, <1>9, FlattenSingles
<1>11. DomainOf(n) = r
  BY <1>2, <1>5, <1>10 DEF DomainOf
<1>12. Reverse(r) = labels
  <2>1. PICK c : c = Reverse(r)
    OBVIOUS
  <2>2. c = [i \in 1 .. N |-> r[(N - i) + 1]]
    BY <1>7, <2>1 DEF Reverse
  <2>3. \A i \in 1 .. N : c[i] = labels[i]
    BY <1>4, <1>6, <2>2
  <2>4. c \in Seq(Part) /\ Len(c) = N
    BY <1>1, <1>4, <2>2, <2>3
  <2>5. c = labels
    BY <1>1, <2>3, <2>4, SeqEqual
  <2>. QED
    BY <2>1, <2>5
<1>. QED
  BY <1>11, <1>12

\* Until a compaction, what is listed are names accepted, each once, with their counts.
LEMMA RankedNames ==
    ASSUME NEW t, Tree(t), NEW s \in Seq(Accept), Listed(t, s), NEW k \in Nat \ {0},
           NEW v \in Results(t, k), NEW w, Ranked(t, k, Len(t), v, w)
    PROVE  /\ \A i, j \in DOMAIN v : v[i].domain = v[j].domain => i = j
           /\ \A i \in DOMAIN v : /\ Reverse(v[i].domain) \in AllLabels(s)
                                  /\ v[i].visits = VisitsAs(s, Reverse(v[i].domain))
<1>1. PICK N \in Nat : N = Len(v) /\ DOMAIN v = 1 .. N
  BY LenProperties DEF Results
<1>2. /\ w \in [1 .. N -> Names(t)]
      /\ \A i, j \in 1 .. N : w[i] = w[j] => i = j
      /\ \A i \in 1 .. N : v[i] = TopEntry(t[w[i]])
  BY <1>1 DEF Ranked
<1>3. \A i \in 1 .. N : /\ v[i].domain = DomainOf(t[w[i]]) /\ v[i].visits = t[w[i]].visits
                        /\ w[i] \in Names(t) /\ w[i] \in DOMAIN t
  <2>1. \A n : TopEntry(n).domain = DomainOf(n) /\ TopEntry(n).visits = n.visits
    BY DEF TopEntry
  <2>2. Names(t) \subseteq DOMAIN t
    BY DEF Names
  <2>. QED
    BY <1>2, <2>1, <2>2
<1>4. ASSUME NEW i \in 1 .. N
      PROVE  LET a == Reverse(v[i].domain)
             IN /\ a \in Seq(Part) /\ a \in AllLabels(s) /\ v[i].visits = VisitsAs(s, a)
                /\ t[w[i]].path = PathOf(a, Len(a))
  <2>1. PICK m \in Names(t) : m = w[i]
    BY <1>3
  <2>2. PICK j \in DOMAIN s : t[m].path = PathOf(s[j].labels, Len(s[j].labels))
    BY DEF Listed
  <2>3. PICK a \in Seq(Part) : a = s[j].labels
    BY ListFacts
  <2>4. Reverse(DomainOf(t[m])) = a
    BY <2>2, <2>3, NameWritten
  <2>5. a \in AllLabels(s)
    BY <2>3 DEF AllLabels
  <2>6. t[m].visits = VisitsAs(s, a)
    BY <2>2, <2>3 DEF Listed
  <2>. QED
    BY <1>3, <2>1, <2>2, <2>3, <2>4, <2>5, <2>6
<1>5. ASSUME NEW i \in 1 .. N, NEW j \in 1 .. N, v[i].domain = v[j].domain
      PROVE  i = j
  <2>1. t[w[i]].path = t[w[j]].path
    BY <1>4, <1>5
  <2>2. w[i] = w[j]
    BY <1>3, <2>1 DEF Tree
  <2>. QED
    BY <1>2, <2>2
<1>. QED
  BY <1>1, <1>4, <1>5

\* trie_top_k lists the names with the most visits, sorted, as many as there are up to k,
\* and until a compaction each once, under its name (domain_trie.c:481-549).
THEOREM AlwaysTopIsTop == ReportSpec => []TopIsTop
<1>1. ASSUME Invariant, NEW asked \in 1 .. MaxTopK + 1
      PROVE  LET top    == TopK(trie, asked)
                 counts == {i \in DOMAIN trie : trie[i].is_terminal}
                 fits   == Min({asked, MaxTopK, Cardinality(counts)})
             IN /\ Len(top) = fits
                /\ \A i, j \in DOMAIN top : i < j => top[i].visits >= top[j].visits
                /\ top # <<>> =>
                     Cardinality({i \in counts : trie[i].visits > Last(top).visits}) < fits
                /\ compactions = 0 =>
                     /\ IsInjective([i \in DOMAIN top |-> top[i].domain])
                     /\ \A i \in DOMAIN top :
                         /\ Reverse(top[i].domain) \in Accepted
                         /\ top[i].visits = VisitsOf(InsertedAs(Reverse(top[i].domain)))
  <2>1. PICK t, s : t = trie /\ s = inserted
    OBVIOUS
  <2>2. /\ Tree(t) /\ ~t[1].is_terminal /\ WellTyped(totals, inserted, compactions)
        /\ s \in Seq(Accept) /\ (compactions = 0 => Listed(t, s))
    BY <1>1, <2>1 DEF Invariant, Sound, WellShaped, WellTyped
  <2>3. asked \in Nat \ {0} /\ MaxTopK \in Nat \ {0}
    BY Limits
  <2>4. PICK k \in Nat \ {0} : k = IF asked > MaxTopK THEN MaxTopK ELSE asked
    BY <2>3
  <2>5. PICK v : v = TopK(t, asked)
    OBVIOUS
  <2>6. PICK w : v \in Results(t, k) /\ Ranked(t, k, Len(t), v, w)
    BY <2>2, <2>3, <2>4, <2>5, TopKRanked
  <2>7. /\ Len(v) \in Nat /\ Len(v) <= UniqueCount(t) /\ (Len(v) < k => Len(v) = UniqueCount(t))
        /\ v # <<>> => Cardinality({m \in Names(t) : t[m].visits > Last(v).visits}) < Len(v)
    BY <2>2, <2>6, RankedSize
  <2>8. Len(v) <= k /\ DOMAIN v = 1 .. Len(v) /\ Descends(v)
    BY <2>6, LenProperties DEF Results
  <2>9. UniqueCount(t) \in Nat /\ UniqueCount(t) = Cardinality(Names(t))
    BY <2>2, CountFacts
  <2>10. Len(v) = Min({asked, MaxTopK, UniqueCount(t)})
    <3>1. PICK S : S = {asked, MaxTopK, UniqueCount(t)}
      OBVIOUS
    <3>2. S \in SUBSET Nat /\ S # {}
      BY <2>3, <2>9, <3>1
    <3>3. Min(S) \in S /\ \A y \in S : Min(S) <= y
      BY <3>2, MinFacts
    <3>4. PICK m \in Nat : m = Min(S)
      BY <3>2, <3>3
    <3>5. m <= asked /\ m <= MaxTopK /\ m <= UniqueCount(t)
      BY <3>1, <3>3, <3>4
    <3>6. m = asked \/ m = MaxTopK \/ m = UniqueCount(t)
      BY <3>1, <3>3, <3>4
    <3>7. PICK l \in Nat, u \in Nat : /\ l = Len(v) /\ u = UniqueCount(t)
                                      /\ l <= u /\ (l < k => l = u) /\ l <= k
      BY <2>7, <2>8, <2>9
    <3>8. m = l
      <4>1. CASE asked > MaxTopK
        BY ONLY <2>3, <2>4, <3>5, <3>6, <3>7, <4>1
      <4>2. CASE ~(asked > MaxTopK)
        BY ONLY <2>3, <2>4, <3>5, <3>6, <3>7, <4>2
      <4>. QED
        BY <4>1, <4>2
    <3>. QED
      BY <3>1, <3>4, <3>7, <3>8
  <2>11. \A i, j \in DOMAIN v : i < j => v[i].visits >= v[j].visits
    BY <2>8 DEF Descends
  <2>12. ASSUME compactions = 0
         PROVE  /\ IsInjective([i \in DOMAIN v |-> v[i].domain])
                /\ \A i \in DOMAIN v :
                    /\ Reverse(v[i].domain) \in Accepted
                    /\ v[i].visits = VisitsOf(InsertedAs(Reverse(v[i].domain)))
    <3>1. /\ \A i, j \in DOMAIN v : v[i].domain = v[j].domain => i = j
          /\ \A i \in DOMAIN v : /\ Reverse(v[i].domain) \in AllLabels(s)
                                 /\ v[i].visits = VisitsAs(s, Reverse(v[i].domain))
      BY <2>2, <2>6, <2>12, RankedNames
    <3>2. IsInjective([i \in DOMAIN v |-> v[i].domain])
      BY <3>1 DEF IsInjective
    <3>3. ASSUME NEW a PROVE VisitsOf(InsertedAs(a)) = VisitsAs(s, a)
      <4>1. InsertedAs(a) \in SUBSET DOMAIN inserted /\ InsertedAs(a) = NamedAs(s, a)
        BY <2>1 DEF InsertedAs, NamedAs
      <4>. QED
        BY <2>1, <2>2, <4>1, CountsOfNames DEF VisitsAs
    <3>4. Accepted = AllLabels(s)
      BY <2>1, <2>2, CountsOfNames
    <3>. QED
      BY <3>1, <3>2, <3>3, <3>4
  <2>13. Names(t) = {i \in DOMAIN trie : trie[i].is_terminal}
    BY <2>1 DEF Names
  <2>. QED
    BY <2>1, <2>5, <2>7, <2>9, <2>10, <2>11, <2>12, <2>13
<1>2. Invariant => TopIsTop
  BY <1>1 DEF TopIsTop
<1>. QED
  BY <1>2, Correct, PTL
=============================================================================
