------------------------------ MODULE SumLemmas ------------------------------
(* Lemmas about the operators of the community modules that the tracker of *)
(* sessions, the trie, the parser and the worker are built from:           *)
(* sizes of sets, the least and the greatest of a set of numbers, folds    *)
(* over sequences and sets, counting up, prefixes of sequences, and sums.  *)
(* What takes induction is proved from well-foundedness, with the set of   *)
(* the values that have the property as a parameter.                       *)
EXTENDS Integers, SequencesExt, SequenceTheorems, FiniteSetTheorems, WellFoundedInduction, TLAPS

-----------------------------------------------------------------------------
(* Sizes.                                                                   *)

\* A set has no more elements than one whose elements f takes to all of them.
LEMMA CoveredBy ==
    ASSUME NEW S, IsFiniteSet(S), NEW f, NEW T, \A y \in T : \E x \in S : f[x] = y
    PROVE  IsFiniteSet(T) /\ Cardinality(T) <= Cardinality(S)
<1>1. PICK U : U = {x \in S : f[x] \in T}
  OBVIOUS
<1>2. PICK g : g = [x \in U |-> f[x]]
  OBVIOUS
<1>3. U \in SUBSET S /\ g \in [U -> T] /\ \A y \in T : \E x \in U : g[x] = y
  BY <1>1, <1>2
<1>4. IsFiniteSet(U) /\ Cardinality(U) <= Cardinality(S)
  BY <1>3, FS_Subset
<1>5. g \in Surjection(U, T)
  BY <1>3 DEF Surjection
<1>6. IsFiniteSet(T) /\ Cardinality(T) <= Cardinality(U)
  BY <1>4, <1>5, FS_Surjection
<1>7. Cardinality(S) \in Nat /\ Cardinality(T) \in Nat /\ Cardinality(U) \in Nat
  BY <1>4, <1>6, FS_CardinalityType
<1>. QED
  BY <1>4, <1>6, <1>7

-----------------------------------------------------------------------------
(* The least and the greatest.                                             *)

LEMMA MinFacts ==
    ASSUME NEW S \in SUBSET Nat, S # {}
    PROVE  Min(S) \in S /\ \A y \in S : Min(S) <= y
<1>1. \E x \in S : \A y \in S : ~(<<y, x>> \in OpToRel(<, Nat))
  BY NatLessThanWellFounded, WFMin
<1>2. PICK x \in S : \A y \in S : ~(<<y, x>> \in OpToRel(<, Nat))
  BY <1>1
<1>3. \A y \in S : ~(y < x)
  BY <1>2 DEF OpToRel
<1>4. \A y \in S : x <= y
  BY <1>3
<1>. QED
  BY <1>4 DEF Min

LEMMA MaxFacts ==
    ASSUME NEW n \in Nat, NEW S \in SUBSET (0 .. n), S # {}
    PROVE  Max(S) \in S /\ \A y \in S : y <= Max(S)
<1> DEFINE D == {d \in Nat : n - d \in S}
<1>1. D # {}
  <2>1. PICK x \in S : TRUE
    OBVIOUS
  <2>2. n - x \in Nat /\ n - (n - x) = x
    BY <2>1
  <2>. QED
    BY <2>1, <2>2
<1>2. Min(D) \in D /\ \A d \in D : Min(D) <= d
  BY <1>1, MinFacts
<1>3. n - Min(D) \in S
  BY <1>2
<1>4. ASSUME NEW y \in S
      PROVE  n - Min(D) >= y
  <2>1. n - y \in D
    OBVIOUS
  <2>2. Min(D) <= n - y /\ Min(D) \in Nat
    BY <1>2, <2>1
  <2>. QED
    BY <2>2
<1>5. \E x \in S : \A y \in S : x >= y
  BY <1>3, <1>4
<1>6. Max(S) \in S /\ \A y \in S : Max(S) >= y
  BY <1>5 DEF Max
<1>7. \A y \in S : y \in Int
  OBVIOUS
<1>. QED
  BY <1>6, <1>7

-----------------------------------------------------------------------------
(* Finite sets: what holds of a set when it holds of its proper subsets    *)
(* holds of them all.                                                      *)

LEMMA SubsetInduction ==
    ASSUME NEW S, IsFiniteSet(S), NEW P,
           \A T \in SUBSET S : (\A U \in SUBSET T : U # T => U \in P) => T \in P
    PROVE  \A T \in SUBSET S : T \in P
<1> DEFINE Bad == {T \in SUBSET S : T \notin P}
<1> SUFFICES ASSUME Bad # {} PROVE FALSE
  OBVIOUS
<1>1. Bad \subseteq FiniteSubsetsOf(S)
  BY FS_Subset DEF FiniteSubsetsOf
<1>2. PICK T \in Bad : \A U \in Bad : ~(<<U, T>> \in StrictSubsetOrdering(S))
  <2> HIDE DEF Bad
  <2>1. IsWellFoundedOn(StrictSubsetOrdering(S), FiniteSubsetsOf(S))
    BY FS_StrictSubsetOrderingWellFounded
  <2>. QED
    BY <1>1, <2>1, WFMin
<1>3. ASSUME NEW U \in SUBSET T, U # T
      PROVE  U \in P
  <2>1. <<U, T>> \in StrictSubsetOrdering(S)
    BY <1>1, <1>3 DEF StrictSubsetOrdering
  <2>. QED
    BY <1>2, <2>1
<1>. QED
  BY <1>3

\* One of finitely many numbers is the largest.
LEMMA LargestExists ==
    ASSUME NEW S, IsFiniteSet(S), S # {}, NEW f, \A x \in S : f[x] \in Int
    PROVE  \E x \in S : \A y \in S : f[x] >= f[y]
<1> DEFINE P == {T \in SUBSET S : T = {} \/ \E x \in T : \A y \in T : f[x] >= f[y]}
<1>1. ASSUME NEW T \in SUBSET S, \A U \in SUBSET T : U # T => U \in P
      PROVE  T \in P
  <2> SUFFICES ASSUME T # {} PROVE \E x \in T : \A y \in T : f[x] >= f[y]
    OBVIOUS
  <2>1. PICK z \in T : TRUE
    OBVIOUS
  <2>2. T \ {z} \in P
    BY <1>1, <2>1
  <2>3. CASE T \ {z} = {}
    BY <2>1, <2>3
  <2>4. CASE \E x \in T \ {z} : \A y \in T \ {z} : f[x] >= f[y]
    <3>1. PICK x \in T \ {z} : \A y \in T \ {z} : f[x] >= f[y]
      BY <2>4
    <3>2. CASE f[x] >= f[z]
      BY <3>1, <3>2
    <3>3. CASE f[z] >= f[x]
      BY <3>1, <3>3
    <3>. QED
      BY <3>1, <3>2, <3>3
  <2>. QED
    BY <2>2, <2>3, <2>4
<1> HIDE DEF P
<1>2. S \in P
  BY <1>1, SubsetInduction
<1>. QED
  BY <1>2 DEF P

-----------------------------------------------------------------------------
(* Recursion over a finite set.  g folds the subsets of S into V: the empty *)
(* one is base, and h makes the value of any other from its own and the     *)
(* value of what is left without the element that pick takes from it.       *)

Folds(g, base, h, pick, S, V) ==
    /\ g \in [SUBSET S -> V]
    /\ \A s \in SUBSET S : g[s] = IF s = {} THEN base ELSE h[s][g[s \ {pick[s]}]]

\* pick takes an element of every subset of S, and h yields values of V.
Foldable(base, h, pick, S, V) ==
    /\ base \in V
    /\ \A s \in SUBSET S : s # {} => pick[s] \in s
    /\ \A s \in SUBSET S, v \in V : s # {} => h[s][v] \in V

LEMMA FoldUnique ==
    ASSUME NEW S, IsFiniteSet(S), NEW T, S \subseteq T, NEW V, NEW base, NEW h, NEW pick,
           Foldable(base, h, pick, T, V), NEW g, Folds(g, base, h, pick, S, V),
           NEW k, Folds(k, base, h, pick, T, V)
    PROVE  \A s \in SUBSET S : g[s] = k[s]
<1> DEFINE P == {s \in SUBSET S : g[s] = k[s]}
<1>1. ASSUME NEW s \in SUBSET S, \A u \in SUBSET s : u # s => u \in P
      PROVE  s \in P
  <2>1. CASE s = {}
    BY <2>1 DEF Folds
  <2>2. CASE s # {}
    <3>1. s \in SUBSET T /\ pick[s] \in s
      BY <2>2 DEF Foldable
    <3>2. g[s \ {pick[s]}] = k[s \ {pick[s]}]
      <4>1. s \ {pick[s]} \in SUBSET s /\ s \ {pick[s]} # s
        BY <3>1
      <4>. QED
        BY <1>1, <4>1
    <3>3. g[s] = h[s][g[s \ {pick[s]}]]
      BY <2>2 DEF Folds
    <3>4. k[s] = h[s][k[s \ {pick[s]}]]
      BY <2>2, <3>1 DEF Folds
    <3>. QED
      BY <3>2, <3>3, <3>4
  <2>. QED
    BY <2>1, <2>2
<1> HIDE DEF P
<1>2. \A s \in SUBSET S : s \in P
  BY <1>1, SubsetInduction
<1>. QED
  BY <1>2 DEF P

LEMMA FoldExists ==
    ASSUME NEW S, IsFiniteSet(S), NEW V, NEW base, NEW h, NEW pick,
           Foldable(base, h, pick, S, V)
    PROVE  \E g : Folds(g, base, h, pick, S, V)
<1> DEFINE P == {T \in SUBSET S : \E g : Folds(g, base, h, pick, T, V)}
<1>1. ASSUME NEW T \in SUBSET S, \A U \in SUBSET T : U # T => U \in P
      PROVE  T \in P
  <2> DEFINE Part(U)  == CHOOSE g : Folds(g, base, h, pick, U, V)
             Total(U) == Part(U)[U]
             Rest(s)  == s \ {pick[s]}
             Next(s)  == IF s = {} THEN base ELSE h[s][Total(Rest(s))]
             g        == [s \in SUBSET T |-> Next(s)]
  <2>1. \A U \in SUBSET T : U # T => Folds(Part(U), base, h, pick, U, V)
    BY <1>1
  <2>2. ASSUME NEW s \in SUBSET T, s # {}
        PROVE  /\ Rest(s) \in SUBSET T /\ Rest(s) # T /\ Rest(s) \subseteq s /\ Rest(s) # s
               /\ s \in SUBSET S
    BY <2>2 DEF Foldable
  <2>3. \A U \in SUBSET T : U # T => Total(U) \in V
    <3> SUFFICES ASSUME NEW U \in SUBSET T, U # T PROVE Total(U) \in V
      OBVIOUS
    <3>1. Folds(Part(U), base, h, pick, U, V)
      BY <2>1
    <3> HIDE DEF Part
    <3>2. Part(U) \in [SUBSET U -> V] /\ U \in SUBSET U
      BY <3>1 DEF Folds
    <3>. QED
      BY <3>2
  <2>4. ASSUME NEW s \in SUBSET T PROVE Next(s) \in V
    <3> HIDE DEF Total, Rest
    <3>1. CASE s = {}
      BY <3>1 DEF Foldable
    <3>2. CASE s # {}
      BY <2>2, <2>3, <3>2 DEF Foldable
    <3>. QED
      BY <3>1, <3>2
  <2>5. \A s \in SUBSET T : s # T => Total(s) = Next(s)
    <3>1. ASSUME {} # T PROVE Total({}) = base
      <4>1. Folds(Part({}), base, h, pick, {}, V) /\ {} \in SUBSET {}
        BY <2>1, <3>1
      <4> HIDE DEF Part
      <4>. QED
        BY <4>1 DEF Folds
    <3>2. ASSUME NEW s \in SUBSET T, s # T, s # {}
          PROVE  Total(s) = h[s][Total(Rest(s))]
      <4>1. Folds(Part(s), base, h, pick, s, V) /\ Folds(Part(Rest(s)), base, h, pick, Rest(s), V)
        BY <2>1, <2>2, <3>2
      <4>2. Total(s) = h[s][Part(s)[Rest(s)]]
        BY <3>2, <4>1 DEF Folds
      <4>3. IsFiniteSet(Rest(s)) /\ Foldable(base, h, pick, s, V)
        BY FS_Subset DEF Foldable
      <4>4. Part(Rest(s))[Rest(s)] = Part(s)[Rest(s)]
        <5>1. PICK r, k, l : r = Rest(s) /\ k = Part(s) /\ l = Part(Rest(s))
          OBVIOUS
        <5>2. Folds(k, base, h, pick, s, V) /\ Folds(l, base, h, pick, r, V) /\ r \subseteq s
          BY <2>2, <3>2, <4>1, <5>1
        <5>3. IsFiniteSet(r) /\ Foldable(base, h, pick, s, V)
          BY <4>3, <5>1
        <5>4. l[r] = k[r]
          BY <5>2, <5>3, FoldUnique
        <5> HIDE DEF Part, Rest
        <5>. QED
          BY <5>1, <5>4
      <4>. QED
        BY <4>2, <4>4
    <3> HIDE DEF Total
    <3>. QED
      BY <3>1, <3>2
  <2>6. g \in [SUBSET T -> V]
    BY <2>4
  <2>7. ASSUME NEW s \in SUBSET T, s # {}
        PROVE  g[s] = h[s][g[Rest(s)]]
    <3>1. g[Rest(s)] = Next(Rest(s)) /\ g[s] = h[s][Total(Rest(s))]
      BY <2>2, <2>7
    <3>2. Total(Rest(s)) = Next(Rest(s))
      BY <2>2, <2>5, <2>7
    <3>. QED
      BY <3>1, <3>2
  <2>8. g[{}] = base
    OBVIOUS
  <2> HIDE DEF g
  <2>9. Folds(g, base, h, pick, T, V)
    BY <2>6, <2>7, <2>8 DEF Folds
  <2>. QED
    BY <2>9
<1> HIDE DEF P
<1>2. S \in P
  BY <1>1, SubsetInduction
<1>. QED
  BY <1>2 DEF P

-----------------------------------------------------------------------------
(* Counting up: what holds of 0 and, with a number, of the next one.        *)

LEMMA CountUp ==
    ASSUME NEW n \in Nat, NEW P, 0 \in P, \A m \in 0 .. n - 1 : m \in P => m + 1 \in P
    PROVE  \A m \in 0 .. n : m \in P
<1> DEFINE Bad == {m \in 0 .. n : m \notin P}
<1> SUFFICES ASSUME Bad # {} PROVE FALSE
  OBVIOUS
<1>1. Min(Bad) \in Bad /\ \A y \in Bad : Min(Bad) <= y
  <2>1. Bad \in SUBSET Nat
    OBVIOUS
  <2> HIDE DEF Bad
  <2>. QED
    BY <2>1, MinFacts
<1>2. PICK m \in 0 .. n : m = Min(Bad) /\ m \notin P
  BY <1>1
<1>3. m # 0 /\ m - 1 \in 0 .. n - 1 /\ (m - 1) + 1 = m
  BY <1>2
<1>4. m - 1 \notin Bad
  BY <1>1, <1>2, <1>3
<1>5. m - 1 \in P
  BY <1>3, <1>4
<1>. QED
  BY <1>2, <1>3, <1>5

\* The same if it holds of a number once it holds of all smaller ones.
LEMMA CourseOfValues ==
    ASSUME NEW n \in Nat, NEW P, \A m \in 0 .. n : (\A k \in 0 .. m - 1 : k \in P) => m \in P
    PROVE  \A m \in 0 .. n : m \in P
<1> DEFINE Bad == {m \in 0 .. n : m \notin P}
<1> SUFFICES ASSUME Bad # {} PROVE FALSE
  OBVIOUS
<1>1. Min(Bad) \in Bad /\ \A y \in Bad : Min(Bad) <= y
  <2>1. Bad \in SUBSET Nat
    OBVIOUS
  <2> HIDE DEF Bad
  <2>. QED
    BY <2>1, MinFacts
<1>2. PICK m \in 0 .. n : m = Min(Bad) /\ m \notin P
  BY <1>1
<1>3. ASSUME NEW k \in 0 .. m - 1
      PROVE  k \in P
  BY <1>1, <1>2
<1>. QED
  BY <1>2, <1>3

-----------------------------------------------------------------------------
(* Folds over a sequence of length N: h[n] is the step with element n.      *)

\* The partial results of a fold from the left.
Stages(g, base, h, N, V) ==
    /\ g \in [0 .. N -> V]
    /\ g[0] = base
    /\ \A n \in 1 .. N : g[n] = h[n][g[n - 1]]

LEMMA MaxInterval ==
    ASSUME NEW n \in Nat \ {0}
    PROVE  Max(1 .. n) = n /\ (1 .. n) \ {n} = 1 .. n - 1
<1>1. Max(1 .. n) \in 1 .. n /\ \A y \in 1 .. n : y <= Max(1 .. n)
  <2>1. 1 .. n \in SUBSET (0 .. n) /\ 1 .. n # {}
    OBVIOUS
  <2>. QED
    BY <2>1, MaxFacts
<1>2. n <= Max(1 .. n)
  BY <1>1
<1>. QED
  BY <1>1, <1>2

LEMMA GreatestIn ==
    ASSUME NEW N \in Nat
    PROVE  \A s \in SUBSET (1 .. N) : s # {} => Max(s) \in 1 .. N
<1>1. \A s \in SUBSET (1 .. N) : s \in SUBSET (0 .. N)
  OBVIOUS
<1>. QED
  BY <1>1, MaxFacts

\* Every step takes V into V.
Steps(h, N, V) == \A n \in 1 .. N, v \in V : h[n][v] \in V

\* A function that satisfies the recursion of the community module, as far as V goes.
FoldsOn(iter, base, h, N, V) ==
    /\ iter[{}] = base
    /\ \A s \in SUBSET (1 .. N), v \in V :
           s # {} /\ iter[s \ {Max(s)}] = v => iter[s] = h[Max(s)][v]

FoldsAll(f, base, h, N, V) ==
    /\ f \in [SUBSET (1 .. N) -> V]
    /\ \A s \in SUBSET (1 .. N) : f[s] = IF s = {} THEN base ELSE h[Max(s)][f[s \ {Max(s)}]]

\* The recursion of the community module has a solution, and with that it is one.
LEMMA FoldSolution ==
    ASSUME NEW N \in Nat, NEW V, NEW base \in V, NEW h, Steps(h, N, V)
    PROVE  \E f : FoldsAll(f, base, h, N, V)
<1> DEFINE D == 1 .. N
<1>1. IsFiniteSet(D)
  BY FS_Interval
<1>2. ASSUME NEW s \in SUBSET D, s # {}
      PROVE  Max(s) \in s
  <2>1. s \in SUBSET (0 .. N)
    OBVIOUS
  <2>. QED
    BY <1>2, <2>1, MaxFacts
<1>3. \A s \in SUBSET D, v \in V : s # {} => h[Max(s)][v] \in V
  BY <1>2 DEF Steps
<1>4. PICK k, pick : /\ k = [s \in SUBSET D |-> [v \in V |-> h[Max(s)][v]]]
                     /\ pick = [s \in SUBSET D |-> Max(s)]
  OBVIOUS
<1> HIDE DEF D
<1>5. /\ \A s \in SUBSET D : pick[s] = Max(s)
      /\ \A s \in SUBSET D, v \in V : k[s][v] = h[Max(s)][v]
  BY <1>4
<1>6. Foldable(base, k, pick, D, V)
  BY <1>2, <1>3, <1>5 DEF Foldable
<1>7. PICK f : Folds(f, base, k, pick, D, V)
  BY <1>1, <1>6, FoldExists
<1>8. ASSUME NEW s \in SUBSET D
      PROVE  f[s] = IF s = {} THEN base ELSE h[Max(s)][f[s \ {Max(s)}]]
  <2>1. CASE s = {}
    BY <1>7, <2>1 DEF Folds
  <2>2. CASE s # {}
    <3>1. PICK v \in V : v = f[s \ {Max(s)}]
      BY <1>7 DEF Folds
    <3>2. f[s] = k[s][v]
      BY <1>5, <1>7, <2>2, <3>1 DEF Folds
    <3>. QED
      BY <1>5, <2>2, <3>1, <3>2
  <2>. QED
    BY <2>1, <2>2
<1>9. f \in [SUBSET D -> V]
  BY <1>7 DEF Folds
<1>. QED
  BY <1>8, <1>9 DEF D, FoldsAll

\* A function that satisfies the recursion, as far as it goes, has the partial results.
LEMMA FoldStages ==
    ASSUME NEW N \in Nat, NEW V, NEW base \in V, NEW h, Steps(h, N, V),
           NEW iter, FoldsOn(iter, base, h, N, V)
    PROVE  \E g : Stages(g, base, h, N, V) /\ iter[1 .. N] = g[N]
<1> DEFINE g == [n \in 0 .. N |-> iter[1 .. n]]
           P == {n \in 0 .. N : g[n] \in V}
<1>1. g[0] = base
  <2>1. 1 .. 0 = {}
    OBVIOUS
  <2>. QED
    BY <2>1 DEF FoldsOn
<1>2. ASSUME NEW n \in 1 .. N, g[n - 1] \in V
      PROVE  g[n] = h[n][g[n - 1]] /\ g[n] \in V
  <2>1. n \in Nat \ {0} /\ n - 1 \in 0 .. N /\ n \in 0 .. N /\ 1 .. n \in SUBSET (1 .. N)
        /\ 1 .. n # {}
    OBVIOUS
  <2>2. Max(1 .. n) = n /\ (1 .. n) \ {n} = 1 .. n - 1
    BY <2>1, MaxInterval
  <2>3. PICK v \in V : v = g[n - 1]
    BY <1>2
  <2>4. iter[(1 .. n) \ {Max(1 .. n)}] = v
    BY <2>1, <2>2, <2>3
  <2>5. iter[1 .. n] = h[n][v]
    BY <2>1, <2>2, <2>4 DEF FoldsOn
  <2>6. g[n] = h[n][v] /\ h[n][v] \in V
    BY <2>1, <2>5 DEF Steps
  <2>. QED
    BY <2>3, <2>6
<1>3. g = [n \in 0 .. N |-> g[n]] /\ g[N] = iter[1 .. N]
  OBVIOUS
<1> HIDE DEF g
<1>4. 0 \in P
  BY <1>1
<1>5. \A m \in 0 .. N - 1 : m \in P => m + 1 \in P
  <2> SUFFICES ASSUME NEW m \in 0 .. N - 1, m \in P PROVE m + 1 \in P
    OBVIOUS
  <2>1. m + 1 \in 1 .. N /\ (m + 1) - 1 = m
    OBVIOUS
  <2>2. g[m + 1] \in V
    BY <1>2, <2>1
  <2>. QED
    BY <2>1, <2>2
<1> HIDE DEF P
<1>6. \A m \in 0 .. N : m \in P
  BY <1>4, <1>5, CountUp
<1>7. \A m \in 0 .. N : g[m] \in V
  BY <1>6 DEF P
<1>8. g \in [0 .. N -> V]
  BY <1>3, <1>7
<1>9. \A n \in 1 .. N : g[n] = h[n][g[n - 1]]
  <2>1. \A n \in 1 .. N : n - 1 \in 0 .. N
    OBVIOUS
  <2>. QED
    BY <1>2, <1>7, <2>1
<1>. QED
  BY <1>1, <1>3, <1>8, <1>9 DEF Stages

\* A fold whose step keeps an element or skips it yields the elements it keeps, in
\* their order: b[k] is the place of the k-th of them.
Kept(b, v, e, Keep) ==
    /\ b \in [1 .. Len(v) -> Keep]
    /\ \A i, j \in 1 .. Len(v) : i < j => b[i] < b[j]
    /\ \A k \in 1 .. Len(v) : v[k] = e[b[k]]
    /\ \A n \in Keep : \E k \in 1 .. Len(v) : b[k] = n

LEMMA KeptMore ==
    ASSUME NEW E, NEW n \in Nat, NEW Keep \in SUBSET (1 .. n), NEW e, NEW v \in Seq(E), NEW b,
           Kept(b, v, e, Keep), e[n + 1] \in E
    PROVE  \E c : Kept(c, Append(v, e[n + 1]), e, Keep \cup {n + 1})
<1>1. Len(v) \in Nat
  BY LenProperties
<1>2. PICK w \in Seq(E), x \in E : w = Append(v, e[n + 1]) /\ x = e[n + 1]
  BY AppendProperties
<1>3. /\ Len(w) = Len(v) + 1 /\ w[Len(v) + 1] = x
      /\ \A k \in 1 .. Len(v) : w[k] = v[k]
  BY <1>2, AppendProperties
<1>4. PICK c : c = [k \in 1 .. Len(w) |-> IF k = Len(w) THEN n + 1 ELSE b[k]]
  OBVIOUS
<1>5. c[Len(w)] = n + 1 /\ \A k \in 1 .. Len(v) : c[k] = b[k] /\ k \in 1 .. Len(w) /\ k # Len(w)
  BY <1>1, <1>3, <1>4
<1>6. \A k \in 1 .. Len(w) : k = Len(w) \/ k \in 1 .. Len(v)
  BY <1>1, <1>3
<1>7. \A k \in 1 .. Len(v) : b[k] \in Keep /\ b[k] \in 1 .. n
  BY DEF Kept
<1>8. c \in [1 .. Len(w) -> Keep \cup {n + 1}]
  <2>1. \A k \in 1 .. Len(w) : c[k] \in Keep \cup {n + 1}
    BY <1>5, <1>6, <1>7
  <2>2. c = [k \in 1 .. Len(w) |-> c[k]]
    BY <1>4
  <2>. QED
    BY <2>1, <2>2
<1>9. ASSUME NEW i \in 1 .. Len(w), NEW j \in 1 .. Len(w), i < j
      PROVE  c[i] < c[j]
  <2>1. i \in 1 .. Len(v)
    BY <1>1, <1>3, <1>9
  <2>2. CASE j = Len(w)
    BY <1>5, <1>7, <2>1, <2>2
  <2>3. CASE j \in 1 .. Len(v)
    BY <1>5, <1>9, <2>1, <2>3 DEF Kept
  <2>. QED
    BY <1>6, <2>2, <2>3
<1>10. \A k \in 1 .. Len(w) : w[k] = e[c[k]]
  BY <1>2, <1>3, <1>5, <1>6 DEF Kept
<1>11. \A m \in Keep \cup {n + 1} : \E k \in 1 .. Len(w) : c[k] = m
  <2>1. Len(w) \in 1 .. Len(w)
    BY <1>1, <1>3
  <2>2. \A m \in Keep : \E k \in 1 .. Len(w) : c[k] = m
    BY <1>5 DEF Kept
  <2>. QED
    BY <1>5, <2>1, <2>2
<1>12. Kept(c, w, e, Keep \cup {n + 1})
  BY <1>8, <1>9, <1>10, <1>11 DEF Kept
<1>. QED
  BY <1>2, <1>12

LEMMA StagesKeep ==
    ASSUME NEW N \in Nat, NEW E, NEW Keep \in SUBSET (1 .. N), NEW e, \A n \in Keep : e[n] \in E,
           NEW h, \A n \in 1 .. N, v \in Seq(E) : h[n][v] = IF n \in Keep THEN Append(v, e[n]) ELSE v,
           NEW g, Stages(g, <<>>, h, N, Seq(E))
    PROVE  \E b : Kept(b, g[N], e, Keep)
<1> DEFINE P == {m \in 0 .. N : \E b : Kept(b, g[m], e, Keep \cap (1 .. m))}
<1>1. 0 \in P
  <2>1. g[0] = <<>> /\ Len(<<>>) = 0 /\ 1 .. 0 = {}
    BY EmptySeq DEF Stages
  <2>2. PICK b : b = [k \in 1 .. 0 |-> 0]
    OBVIOUS
  <2>3. Kept(b, g[0], e, Keep \cap (1 .. 0))
    BY <2>1, <2>2 DEF Kept
  <2>. QED
    BY <2>3
<1>2. ASSUME NEW m \in 0 .. N - 1, m \in P
      PROVE  m + 1 \in P
  <2>1. m + 1 \in 1 .. N /\ m + 1 \in 0 .. N /\ (m + 1) - 1 = m /\ m \in 0 .. N /\ m \in Nat
    OBVIOUS
  <2>2. PICK v \in Seq(E) : v = g[m] /\ g[m + 1] = h[m + 1][v]
    BY <2>1 DEF Stages
  <2>3. PICK b : Kept(b, v, e, Keep \cap (1 .. m))
    BY <1>2, <2>2
  <2>4. CASE m + 1 \notin Keep
    <3>1. Keep \cap (1 .. m + 1) = Keep \cap (1 .. m)
      BY <2>1, <2>4
    <3>2. g[m + 1] = v
      BY <2>1, <2>2, <2>4
    <3>. QED
      BY <2>1, <2>3, <3>1, <3>2
  <2>5. CASE m + 1 \in Keep
    <3>1. PICK K \in SUBSET (1 .. m) : K = Keep \cap (1 .. m)
      OBVIOUS
    <3>2. Keep \cap (1 .. m + 1) = K \cup {m + 1}
      BY <2>1, <2>5, <3>1
    <3>3. g[m + 1] = Append(v, e[m + 1]) /\ e[m + 1] \in E
      BY <2>1, <2>2, <2>5
    <3>4. \E c : Kept(c, Append(v, e[m + 1]), e, K \cup {m + 1})
      BY <2>1, <2>3, <3>1, <3>3, KeptMore
    <3>. QED
      BY <2>1, <3>2, <3>3, <3>4
  <2>. QED
    BY <2>4, <2>5
<1> HIDE DEF P
<1>3. \A m \in 0 .. N : m \in P
  BY <1>1, <1>2, CountUp
<1>4. N \in P
  BY <1>3
<1>5. Keep \cap (1 .. N) = Keep
  OBVIOUS
<1>. QED
  BY <1>4, <1>5 DEF P

LEMMA StagesExist ==
    ASSUME NEW N \in Nat, NEW V, NEW base \in V, NEW h, Steps(h, N, V)
    PROVE  \E g : Stages(g, base, h, N, V)
<1>1. PICK f : FoldsAll(f, base, h, N, V)
  BY FoldSolution
<1>2. FoldsOn(f, base, h, N, V)
  BY <1>1 DEF FoldsAll, FoldsOn
<1>. QED
  BY <1>2, FoldStages

-----------------------------------------------------------------------------
(* Prefixes.                                                                *)

LEMMA PrefixPointwise ==
    ASSUME NEW S, NEW p \in Seq(S), NEW q \in Seq(S)
    PROVE  IsPrefix(p, q) <=> Len(p) <= Len(q) /\ \A i \in 1 .. Len(p) : p[i] = q[i]
<1> SUFFICES ASSUME Len(p) <= Len(q)
             PROVE  SubSeq(p, 1, Len(p)) = SubSeq(q, 1, Len(p)) <=> \A i \in 1 .. Len(p) : p[i] = q[i]
  BY DEF IsPrefix
<1>1. Len(p) \in Nat /\ Len(q) \in Nat
  BY LenProperties
<1>2. SubSeq(p, 1, Len(p)) = p
  BY SubSeqFull
<1>3. /\ SubSeq(q, 1, Len(p)) \in Seq(S) /\ Len(SubSeq(q, 1, Len(p))) = Len(p)
      /\ \A i \in 1 .. Len(p) : SubSeq(q, 1, Len(p))[i] = q[i]
  <2>1. \A i \in 1 .. Len(p) : q[i] \in S
    BY <1>1, ElementOfSeq
  <2>. QED
    BY <1>1, <2>1, SubSeqProperties
<1>. QED
  BY <1>1, <1>2, <1>3, SeqEqual

LEMMA FirstPart ==
    ASSUME NEW S, NEW q \in Seq(S), NEW n \in 0 .. Len(q)
    PROVE  /\ SubSeq(q, 1, n) \in Seq(S) /\ Len(SubSeq(q, 1, n)) = n
           /\ \A i \in 1 .. n : SubSeq(q, 1, n)[i] = q[i]
           /\ IsPrefix(SubSeq(q, 1, n), q)
<1>1. Len(q) \in Nat
  BY LenProperties
<1>2. \A i \in 1 .. n : q[i] \in S
  BY <1>1, ElementOfSeq
<1>3. /\ SubSeq(q, 1, n) \in Seq(S) /\ Len(SubSeq(q, 1, n)) = n
      /\ \A i \in 1 .. n : SubSeq(q, 1, n)[i] = q[i]
  BY <1>1, <1>2, SubSeqProperties
<1>4. IsPrefix(SubSeq(q, 1, n), q)
  <2>1. PICK p \in Seq(S) : p = SubSeq(q, 1, n)
    BY <1>3
  <2>2. Len(p) <= Len(q) /\ \A i \in 1 .. Len(p) : p[i] = q[i]
    BY <1>1, <1>3, <2>1
  <2>3. IsPrefix(p, q)
    BY <2>2, PrefixPointwise
  <2>. QED
    BY <2>1, <2>3
<1>. QED
  BY <1>3, <1>4

LEMMA PrefixIsPart ==
    ASSUME NEW S, NEW p \in Seq(S), NEW q \in Seq(S), IsPrefix(p, q)
    PROVE  Len(p) \in 0 .. Len(q) /\ p = SubSeq(q, 1, Len(p))
<1>1. Len(p) \in Nat /\ Len(q) \in Nat
  BY LenProperties
<1>2. Len(p) <= Len(q) /\ SubSeq(p, 1, Len(p)) = SubSeq(q, 1, Len(p))
  BY DEF IsPrefix
<1>3. SubSeq(p, 1, Len(p)) = p
  BY SubSeqFull
<1>. QED
  BY <1>1, <1>2, <1>3

LEMMA PrefixReflexive ==
    ASSUME NEW S, NEW p \in Seq(S)
    PROVE  IsPrefix(p, p) /\ IsPrefix(<<>>, p)
<1>1. Len(p) \in Nat
  BY LenProperties
<1>2. IsPrefix(p, p)
  BY <1>1, PrefixPointwise
<1>3. IsPrefix(<<>>, p)
  <2>1. PICK e \in Seq(S) : e = <<>> /\ Len(e) = 0
    BY EmptySeq
  <2>2. Len(e) <= Len(p) /\ \A i \in 1 .. Len(e) : e[i] = p[i]
    BY <1>1, <2>1
  <2>3. IsPrefix(e, p)
    BY <2>2, PrefixPointwise
  <2>. QED
    BY <2>1, <2>3
<1>. QED
  BY <1>2, <1>3

LEMMA PrefixTransitive ==
    ASSUME NEW S, NEW p \in Seq(S), NEW q \in Seq(S), NEW r \in Seq(S),
           IsPrefix(p, q), IsPrefix(q, r)
    PROVE  IsPrefix(p, r)
<1>1. Len(p) \in Nat /\ Len(q) \in Nat /\ Len(r) \in Nat
  BY LenProperties
<1>2. /\ Len(p) <= Len(q) /\ \A i \in 1 .. Len(p) : p[i] = q[i]
      /\ Len(q) <= Len(r) /\ \A i \in 1 .. Len(q) : q[i] = r[i]
  BY PrefixPointwise
<1>3. Len(p) <= Len(r) /\ \A i \in 1 .. Len(p) : p[i] = r[i]
  BY <1>1, <1>2
<1>. QED
  BY <1>3, PrefixPointwise

\* Of two beginnings of one sequence the shorter is a beginning of the other.
LEMMA PrefixesCompare ==
    ASSUME NEW S, NEW p \in Seq(S), NEW q \in Seq(S), NEW r \in Seq(S),
           IsPrefix(p, r), IsPrefix(q, r), Len(p) <= Len(q)
    PROVE  IsPrefix(p, q)
<1>1. Len(p) \in Nat /\ Len(q) \in Nat /\ Len(r) \in Nat
  BY LenProperties
<1>2. /\ \A i \in 1 .. Len(p) : p[i] = r[i]
      /\ \A i \in 1 .. Len(q) : q[i] = r[i]
  BY PrefixPointwise
<1>3. \A i \in 1 .. Len(p) : p[i] = q[i]
  BY <1>1, <1>2
<1>. QED
  BY <1>3, PrefixPointwise

LEMMA PrefixOfSameLength ==
    ASSUME NEW S, NEW p \in Seq(S), NEW q \in Seq(S), IsPrefix(p, q), Len(q) <= Len(p)
    PROVE  p = q
<1>1. Len(p) \in Nat /\ Len(q) \in Nat
  BY LenProperties
<1>2. Len(p) <= Len(q) /\ \A i \in 1 .. Len(p) : p[i] = q[i]
  BY PrefixPointwise
<1>3. Len(p) = Len(q)
  BY <1>1, <1>2
<1>. QED
  BY <1>2, <1>3, SeqEqual

LEMMA FrontFacts ==
    ASSUME NEW S, NEW q \in Seq(S), q # <<>>
    PROVE  /\ Len(q) \in Nat \ {0} /\ Front(q) = SubSeq(q, 1, Len(q) - 1)
           /\ Front(q) \in Seq(S) /\ Len(Front(q)) = Len(q) - 1 /\ IsPrefix(Front(q), q)
           /\ \A i \in 1 .. Len(q) - 1 : Front(q)[i] = q[i]
           /\ Last(q) \in S /\ q = Append(Front(q), Last(q)) /\ Front(q) # q
<1>1. Len(q) \in Nat \ {0}
  BY EmptySeq
<1>2. Front(q) = SubSeq(q, 1, Len(q) - 1) /\ Last(q) = q[Len(q)]
  BY DEF Front, Last
<1>3. Len(q) - 1 \in 0 .. Len(q) /\ Len(q) \in 1 .. Len(q) /\ q[Len(q)] \in S
  BY <1>1, ElementOfSeq
<1>4. /\ Front(q) \in Seq(S) /\ Len(Front(q)) = Len(q) - 1 /\ IsPrefix(Front(q), q)
      /\ \A i \in 1 .. Len(q) - 1 : Front(q)[i] = q[i]
  BY <1>2, <1>3, FirstPart
<1>5. PICK f \in Seq(S), e \in S : f = Front(q) /\ e = Last(q)
  BY <1>2, <1>3, <1>4
<1>6. /\ Append(f, e) \in Seq(S) /\ Len(Append(f, e)) = Len(q)
      /\ \A i \in 1 .. Len(q) : Append(f, e)[i] = q[i]
  <2>1. /\ Append(f, e) \in Seq(S) /\ Len(Append(f, e)) = Len(f) + 1
        /\ \A i \in 1 .. Len(f) : Append(f, e)[i] = f[i]
        /\ Append(f, e)[Len(f) + 1] = e
    BY AppendProperties
  <2>. QED
    BY <1>1, <1>2, <1>4, <1>5, <2>1
<1>7. q = Append(f, e)
  BY <1>1, <1>6, SeqEqual
<1>8. Front(q) # q
  BY <1>1, <1>4
<1>. QED
  BY <1>1, <1>2, <1>3, <1>4, <1>5, <1>7, <1>8

LEMMA StrictPrefix ==
    ASSUME NEW S, NEW p \in Seq(S), NEW q \in Seq(S), IsPrefix(p, q), p # q
    PROVE  q # <<>> /\ IsPrefix(p, Front(q)) /\ Len(p) < Len(q)
<1>1. Len(p) \in Nat /\ Len(q) \in Nat /\ Len(p) <= Len(q)
  BY LenProperties, PrefixPointwise
<1>2. Len(p) < Len(q)
  BY <1>1, PrefixOfSameLength
<1>3. q # <<>>
  BY <1>1, <1>2, EmptySeq
<1>4. Front(q) \in Seq(S) /\ Len(Front(q)) = Len(q) - 1 /\ IsPrefix(Front(q), q)
  BY <1>3, FrontFacts
<1>5. Len(p) <= Len(Front(q))
  BY <1>1, <1>2, <1>4
<1>6. IsPrefix(p, Front(q))
  <2>1. PICK f \in Seq(S) : f = Front(q)
    BY <1>4
  <2>. QED
    BY <1>4, <1>5, <2>1, PrefixesCompare
<1>. QED
  BY <1>2, <1>3, <1>6

LEMMA AppendParts ==
    ASSUME NEW S, NEW p \in Seq(S), NEW e \in S
    PROVE  /\ Append(p, e) \in Seq(S) /\ Append(p, e) # <<>> /\ Len(Append(p, e)) = Len(p) + 1
           /\ Front(Append(p, e)) = p /\ Last(Append(p, e)) = e
<1>1. /\ Append(p, e) \in Seq(S) /\ Append(p, e) # <<>> /\ Len(Append(p, e)) = Len(p) + 1
      /\ \A i \in 1 .. Len(p) : Append(p, e)[i] = p[i]
      /\ Append(p, e)[Len(p) + 1] = e
  BY AppendProperties
<1>2. PICK q \in Seq(S) : q = Append(p, e)
  BY <1>1
<1>3. q = Append(Front(q), Last(q)) /\ Front(q) \in Seq(S) /\ Last(q) \in S
  BY <1>1, <1>2, FrontFacts
<1>. QED
  BY <1>1, <1>2, <1>3, AppendInjective

\* The sequence y put into s behind its first `last` elements.
Splice(s, last, y) == SubSeq(s, 1, last) \o y \o SubSeq(s, last + 1, Len(s))

LEMMA SplicedIn ==
    ASSUME NEW S, NEW s \in Seq(S), NEW y \in Seq(S), NEW last \in 0 .. Len(s)
    PROVE  /\ Splice(s, last, y) \in Seq(S) /\ Len(Splice(s, last, y)) = Len(s) + Len(y)
           /\ \A i \in 1 .. last : Splice(s, last, y)[i] = s[i]
           /\ \A i \in 1 .. Len(y) : Splice(s, last, y)[last + i] = y[i]
           /\ \A i \in last + 1 .. Len(s) : Splice(s, last, y)[i + Len(y)] = s[i]
<1>0. PICK N, d, r : N \in Nat /\ d \in Nat /\ N = Len(s) /\ d = Len(y) /\ r = Splice(s, last, y) /\ last \in 0 .. N
  BY LenProperties
<1>1. PICK x : x = SubSeq(s, 1, last) /\ x \in Seq(S) /\ Len(x) = last /\ \A i \in 1 .. last : x[i] = s[i]
  BY FirstPart
<1>2. PICK z : z = SubSeq(s, last + 1, N)
  OBVIOUS
<1>3. z \in Seq(S) /\ Len(z) = N - last /\ \A i \in 1 .. N - last : z[i] = s[last + i]
  <2>1. last + 1 \in Int /\ N \in Int /\ \A i \in last + 1 .. N : s[i] \in S
    BY <1>0, ElementOfSeq
  <2>2. PICK m \in Int : m = last + 1
    BY <2>1
  <2>3. z = SubSeq(s, m, N) /\ \A i \in m .. N : s[i] \in S
    BY <1>2, <2>1, <2>2
  <2>4. /\ z \in Seq(S) /\ Len(z) = IF m <= N THEN N - m + 1 ELSE 0
        /\ \A i \in 1 .. N - m + 1 : z[i] = s[m + i - 1]
    BY <1>0, <2>3, SubSeqProperties
  <2>5. Len(z) = N - last
    BY <1>0, <2>2, <2>4
  <2>6. \A i \in 1 .. N - last : i \in 1 .. N - m + 1 /\ m + i - 1 = last + i
    BY <1>0, <2>2
  <2>. QED
    BY <2>4, <2>5, <2>6
<1>4. PICK w : w = x \o y
  OBVIOUS
<1>5. /\ w \in Seq(S) /\ Len(w) = last + d
      /\ \A i \in 1 .. last + d : w[i] = IF i <= last THEN x[i] ELSE y[i - last]
  <2>1. /\ w \in Seq(S) /\ Len(w) = Len(x) + Len(y)
        /\ \A i \in 1 .. Len(x) + Len(y) : w[i] = IF i <= Len(x) THEN x[i] ELSE y[i - Len(x)]
    BY <1>1, <1>4, ConcatProperties
  <2>. QED
    BY <1>0, <1>1, <2>1
<1>6. PICK e \in Nat : e = last + d
  BY <1>0
<1>7. r = w \o z
  BY <1>0, <1>1, <1>2, <1>4 DEF Splice
<1>8. /\ r \in Seq(S) /\ Len(r) = e + (N - last)
      /\ \A i \in 1 .. e + (N - last) : r[i] = IF i <= e THEN w[i] ELSE z[i - e]
  <2>1. /\ r \in Seq(S) /\ Len(r) = Len(w) + Len(z)
        /\ \A i \in 1 .. Len(w) + Len(z) : r[i] = IF i <= Len(w) THEN w[i] ELSE z[i - Len(w)]
    <3>1. w \in Seq(S) /\ z \in Seq(S)
      BY <1>3, <1>5
    <3>. QED
      BY <1>7, <3>1, ConcatProperties
  <2>. QED
    BY <1>0, <1>3, <1>5, <1>6, <2>1
<1>9. ASSUME NEW i \in 1 .. last
      PROVE  r[i] = s[i]
  <2>1. i \in 1 .. e + (N - last) /\ i <= e /\ i \in 1 .. last + d /\ i <= last
    BY <1>0, <1>6
  <2>. QED
    BY <1>0, <1>1, <1>5, <1>8, <2>1
<1>10. ASSUME NEW i \in 1 .. d
       PROVE  r[last + i] = y[i]
  <2>1. /\ last + i \in 1 .. e + (N - last) /\ last + i <= e /\ last + i \in 1 .. last + d
        /\ ~(last + i <= last) /\ (last + i) - last = i
    BY <1>0, <1>6
  <2>. QED
    BY <1>5, <1>8, <2>1
<1>11. ASSUME NEW i \in last + 1 .. N
       PROVE  r[i + d] = s[i]
  <2>1. /\ i + d \in 1 .. e + (N - last) /\ ~(i + d <= e) /\ (i + d) - e = i - last
        /\ i - last \in 1 .. N - last /\ last + (i - last) = i
    BY <1>0, <1>6
  <2>2. r[i + d] = z[i - last]
    BY <1>8, <2>1
  <2>. QED
    BY <1>3, <2>1, <2>2
<1>12. e + (N - last) = N + d
  BY <1>0, <1>6
<1>. QED
  BY <1>0, <1>8, <1>9, <1>10, <1>11, <1>12

-----------------------------------------------------------------------------
(* Sequences of whatever elements.                                          *)

IsSeq(s) == Len(s) \in Nat /\ s = [i \in 1 .. Len(s) |-> s[i]]

LEMMA SeqElements ==
    ASSUME NEW s, IsSeq(s), NEW S, S = {s[i] : i \in 1 .. Len(s)}
    PROVE  s \in Seq(S) /\ DOMAIN s = 1 .. Len(s) /\ Len(s) \in Nat /\ (s # <<>> <=> Len(s) >= 1)
<1>1. PICK n \in Nat : n = Len(s)
  BY DEF IsSeq
<1>2. s = [i \in 1 .. n |-> s[i]]
  BY <1>1 DEF IsSeq
<1>3. s \in [1 .. n -> S]
  BY <1>1, <1>2
<1>. QED
  BY <1>1, <1>2, <1>3

LEMMA MemberIsSeq ==
    ASSUME NEW S, NEW s \in Seq(S)
    PROVE  IsSeq(s)
BY DEF IsSeq

LEMMA SeqAppend ==
    ASSUME NEW s, IsSeq(s), NEW x, NEW t, t = Append(s, x)
    PROVE  /\ IsSeq(t) /\ Len(t) = Len(s) + 1 /\ t # <<>> /\ Len(s) \in Nat
           /\ t[Len(s) + 1] = x /\ \A i \in 1 .. Len(s) : t[i] = s[i]
           /\ DOMAIN t = 1 .. Len(s) + 1 /\ DOMAIN s = 1 .. Len(s)
<1>1. PICK S : S = {s[i] : i \in 1 .. Len(s)}
  OBVIOUS
<1>2. s \in Seq(S) /\ DOMAIN s = 1 .. Len(s) /\ Len(s) \in Nat
  BY <1>1, SeqElements
<1>3. PICK T : T = S \cup {x}
  OBVIOUS
<1>4. s \in Seq(T) /\ x \in T
  BY <1>2, <1>3
<1>5. t \in Seq(T) /\ Len(t) = Len(s) + 1 /\ t[Len(s) + 1] = x
      /\ \A i \in 1 .. Len(s) : t[i] = s[i]
  BY <1>4, AppendProperties
<1>6. DOMAIN t = 1 .. Len(s) + 1 /\ t # <<>>
  BY <1>2, <1>5
<1>. QED
  BY <1>2, <1>5, <1>6, MemberIsSeq

LEMMA SeqFront ==
    ASSUME NEW s, IsSeq(s), s # <<>>, NEW t, t = Front(s)
    PROVE  /\ IsSeq(t) /\ Len(t) = Len(s) - 1 /\ Len(s) \in Nat \ {0}
           /\ \A i \in 1 .. Len(s) - 1 : t[i] = s[i]
           /\ DOMAIN t = 1 .. Len(s) - 1 /\ DOMAIN s = 1 .. Len(s)
           /\ t = <<>> <=> Len(s) = 1
<1>1. PICK S : S = {s[i] : i \in 1 .. Len(s)}
  OBVIOUS
<1>2. s \in Seq(S) /\ DOMAIN s = 1 .. Len(s) /\ Len(s) \in Nat /\ Len(s) >= 1
  BY <1>1, SeqElements
<1>3. PICK n \in Nat : n = Len(s) - 1
  <2>1. Len(s) \in Nat /\ Len(s) >= 1
    BY <1>2
  <2>2. Len(s) - 1 \in Nat
    BY <2>1
  <2>. QED
    BY <2>2
<1>4. t = SubSeq(s, 1, n)
  BY <1>3 DEF Front
<1>5. \A i \in 1 .. n : s[i] \in S
  BY <1>2, <1>3
<1>6. /\ t \in Seq(S)
      /\ Len(t) = IF 1 <= n THEN n - 1 + 1 ELSE 0
      /\ \A i \in 1 .. n - 1 + 1 : t[i] = s[1 + i - 1]
  BY <1>4, <1>5, SubSeqProperties
<1>7. Len(t) = n /\ \A i \in 1 .. n : t[i] = s[i]
  BY <1>3, <1>6
<1>8. DOMAIN t = 1 .. n /\ (t = <<>> <=> n = 0)
  BY <1>6, <1>7
<1>9. IsSeq(t)
  BY <1>6, MemberIsSeq
<1>10. Len(s) = n + 1 /\ Len(s) \in Nat \ {0}
  <2>1. Len(s) \in Nat
    BY <1>2
  <2>. QED
    BY <1>3, <2>1
<1>. QED
  BY <1>2, <1>7, <1>8, <1>9, <1>10

LEMMA SeqPart ==
    ASSUME NEW s, IsSeq(s), NEW m \in Int, NEW n \in Int, m >= 1, n <= Len(s),
           NEW t, t = SubSeq(s, m, n)
    PROVE  /\ IsSeq(t) /\ Len(t) = (IF m <= n THEN n - m + 1 ELSE 0)
           /\ \A i \in 1 .. n - m + 1 : t[i] = s[m + i - 1]
<1>1. PICK S : S = {s[i] : i \in 1 .. Len(s)}
  OBVIOUS
<1>2. s \in Seq(S) /\ Len(s) \in Nat
  BY <1>1, SeqElements
<1>3. PICK k \in Nat : k = Len(s)
  BY <1>2
<1>4. \A i \in m .. n : i \in 1 .. k
  BY <1>3
<1>5. \A i \in 1 .. k : s[i] \in S
  BY <1>1, <1>3
<1>6. \A i \in m .. n : s[i] \in S
  BY <1>4, <1>5
<1>7. /\ t \in Seq(S) /\ Len(t) = (IF m <= n THEN n - m + 1 ELSE 0)
      /\ \A i \in 1 .. n - m + 1 : t[i] = s[m + i - 1]
  BY <1>6, SubSeqProperties
<1>. QED
  BY <1>7, MemberIsSeq

LEMMA SeqPrefix ==
    ASSUME NEW s, IsSeq(s), NEW n \in Nat, n <= Len(s), NEW t, t = SubSeq(s, 1, n)
    PROVE  IsSeq(t) /\ Len(t) = n /\ \A i \in 1 .. n : t[i] = s[i]
<1>1. PICK S : S = {s[i] : i \in 1 .. Len(s)}
  OBVIOUS
<1>2. Len(s) \in Nat
  BY DEF IsSeq
<1>3. \A i \in 1 .. n : s[i] \in S
  BY <1>1, <1>2
<1>4. /\ t \in Seq(S)
      /\ Len(t) = IF 1 <= n THEN n - 1 + 1 ELSE 0
      /\ \A i \in 1 .. n - 1 + 1 : t[i] = s[1 + i - 1]
  BY <1>3, SubSeqProperties
<1>5. Len(t) = n /\ \A i \in 1 .. n : t[i] = s[i]
  BY <1>4
<1>. QED
  BY <1>4, <1>5, MemberIsSeq

LEMMA SeqConcat ==
    ASSUME NEW s, IsSeq(s), NEW t, IsSeq(t), NEW u, u = s \o t
    PROVE  IsSeq(u)
<1>1. PICK S, T : S = {s[i] : i \in 1 .. Len(s)} /\ T = {t[i] : i \in 1 .. Len(t)}
  OBVIOUS
<1>2. s \in Seq(S) /\ t \in Seq(T)
  BY <1>1, SeqElements
<1>3. PICK U : U = S \cup T
  OBVIOUS
<1>4. s \in Seq(U) /\ t \in Seq(U)
  BY <1>2, <1>3
<1>5. u \in Seq(U)
  BY <1>4, ConcatProperties
<1>. QED
  BY <1>5, MemberIsSeq

\* Two sequences are the same if their elements are.
LEMMA SeqSame ==
    ASSUME NEW s, IsSeq(s), NEW t, IsSeq(t), Len(s) = Len(t),
           \A i \in 1 .. Len(s) : s[i] = t[i]
    PROVE  s = t
BY DEF IsSeq

-----------------------------------------------------------------------------
(* Sums.  SumOf(f, S) is the sum of f over the finite set S, as the         *)
(* community module computes it: Partial(g, f, S) says that g has the       *)
(* partial sums it goes through.                                            *)

SumOf(f, S) == MapThenSumSet(LAMBDA i : f[i], S)

First(s) == CHOOSE x \in s : TRUE

Partial(g, f, S) ==
    /\ g \in [SUBSET S -> Int]
    /\ \A s \in SUBSET S : g[s] = IF s = {} THEN 0 ELSE f[First(s)] + g[s \ {First(s)}]

LEMMA FirstIn == ASSUME NEW s, s # {} PROVE First(s) \in s
BY DEF First

\* The partial sums of two functions are the same where the functions are.
LEMMA PartialUnique ==
    ASSUME NEW S, IsFiniteSet(S), NEW f, NEW h, NEW g, NEW k, NEW T,
           Partial(g, f, S), Partial(k, h, T), S \subseteq T, \A x \in S : f[x] = h[x]
    PROVE  \A s \in SUBSET S : g[s] = k[s]
<1> DEFINE P == {s \in SUBSET S : g[s] = k[s]}
<1>1. ASSUME NEW s \in SUBSET S, \A u \in SUBSET s : u # s => u \in P
      PROVE  s \in P
  <2>1. CASE s = {}
    BY <2>1 DEF Partial
  <2>2. CASE s # {}
    <3>1. First(s) \in s /\ s \ {First(s)} \in SUBSET s /\ s \ {First(s)} # s
      BY <2>2, FirstIn
    <3>2. g[s \ {First(s)}] = k[s \ {First(s)}]
      BY <1>1, <3>1
    <3>3. s \in SUBSET T /\ f[First(s)] = h[First(s)]
      BY <3>1
    <3>. QED
      BY <2>2, <3>2, <3>3 DEF Partial
  <2>. QED
    BY <2>1, <2>2
<1> HIDE DEF P
<1>2. \A s \in SUBSET S : s \in P
  BY <1>1, SubsetInduction
<1>. QED
  BY <1>2 DEF P

LEMMA PartialExists ==
    ASSUME NEW S, IsFiniteSet(S), NEW f, \A x \in S : f[x] \in Int
    PROVE  \E g : Partial(g, f, S)
<1>1. PICK h, pick : /\ h = [s \in SUBSET S |-> [v \in Int |-> f[First(s)] + v]]
                     /\ pick = [s \in SUBSET S |-> First(s)]
  OBVIOUS
<1>2. \A s \in SUBSET S : pick[s] = First(s) /\ (s # {} => First(s) \in s)
  BY <1>1, FirstIn
<1>3. \A s \in SUBSET S, v \in Int : h[s][v] = f[First(s)] + v
  BY <1>1
<1>4. Foldable(0, h, pick, S, Int)
  BY <1>2, <1>3 DEF Foldable
<1>5. PICK g : Folds(g, 0, h, pick, S, Int)
  BY <1>4, FoldExists
<1>6. ASSUME NEW s \in SUBSET S
      PROVE  g[s] = IF s = {} THEN 0 ELSE f[First(s)] + g[s \ {First(s)}]
  <2>1. g[s \ {First(s)}] \in Int
    BY <1>5 DEF Folds
  <2>2. CASE s = {}
    BY <1>5, <2>2 DEF Folds
  <2>3. CASE s # {}
    <3>1. PICK v \in Int : v = g[s \ {First(s)}]
      BY <2>1
    <3>2. g[s] = h[s][v]
      BY <1>2, <1>5, <2>3, <3>1 DEF Folds
    <3>. QED
      BY <1>3, <2>3, <3>1, <3>2
  <2>. QED
    BY <2>2, <2>3
<1>. QED
  BY <1>5, <1>6 DEF Folds, Partial

\* Adding up one by one, in whatever order the module chooses, gives one sum: any
\* element may be added last.
LEMMA PartialSplits ==
    ASSUME NEW S, IsFiniteSet(S), NEW f, \A x \in S : f[x] \in Int, NEW g, Partial(g, f, S)
    PROVE  \A s \in SUBSET S : \A x \in s : g[s] = f[x] + g[s \ {x}]
<1> DEFINE P == {s \in SUBSET S : \A x \in s : g[s] = f[x] + g[s \ {x}]}
<1>1. ASSUME NEW s \in SUBSET S, \A u \in SUBSET s : u # s => u \in P
      PROVE  s \in P
  <2> SUFFICES ASSUME NEW x \in s PROVE g[s] = f[x] + g[s \ {x}]
    OBVIOUS
  <2>1. PICK y \in s : y = First(s)
    BY FirstIn
  <2>2. g[s] = f[y] + g[s \ {y}]
    BY <2>1 DEF Partial
  <2>3. CASE x = y
    BY <2>2, <2>3
  <2>4. CASE x # y
    <3>1. PICK u, v, w : u = s \ {y} /\ v = s \ {x} /\ w = s \ {x, y}
      OBVIOUS
    <3>2. u \in P /\ v \in P /\ x \in u /\ y \in v /\ u \ {x} = w /\ v \ {y} = w
      <4>1. u \in SUBSET s /\ v \in SUBSET s /\ u # s /\ v # s
        BY <3>1
      <4>2. x \in u /\ y \in v /\ u \ {x} = w /\ v \ {y} = w
        BY <2>4, <3>1
      <4>. QED
        BY <1>1, <4>1, <4>2
    <3>3. g[u] = f[x] + g[w] /\ g[v] = f[y] + g[w]
      BY <3>2
    <3>4. g[w] \in Int /\ f[x] \in Int /\ f[y] \in Int
      BY <3>1 DEF Partial
    <3>. QED
      BY <2>2, <3>1, <3>3, <3>4
  <2>. QED
    BY <2>3, <2>4
<1> HIDE DEF P
<1>2. \A s \in SUBSET S : s \in P
  BY <1>1, SubsetInduction
<1>. QED
  BY <1>2 DEF P

\* Whatever function satisfies the recursion of the module has the partial sums.
Iterates(iter, f, S) ==
    \A s \in SUBSET S : iter[s] = IF s = {} THEN 0 ELSE f[First(s)] + iter[s \ {First(s)}]

LEMMA IterIsPartial ==
    ASSUME NEW S, IsFiniteSet(S), NEW f, NEW g, Partial(g, f, S), NEW iter,
           Iterates(iter, f, S)
    PROVE  iter[S] = g[S]
<1> DEFINE P == {s \in SUBSET S : iter[s] = g[s]}
<1>1. ASSUME NEW s \in SUBSET S, \A u \in SUBSET s : u # s => u \in P
      PROVE  s \in P
  <2>1. CASE s = {}
    BY <2>1 DEF Partial, Iterates
  <2>2. CASE s # {}
    <3>1. First(s) \in s /\ s \ {First(s)} \in SUBSET s /\ s \ {First(s)} # s
      BY <2>2, FirstIn
    <3>2. iter[s \ {First(s)}] = g[s \ {First(s)}]
      BY <1>1, <3>1
    <3>3. iter[s] = f[First(s)] + iter[s \ {First(s)}]
      BY <2>2 DEF Iterates
    <3>. QED
      BY <2>2, <3>2, <3>3 DEF Partial
  <2>. QED
    BY <2>1, <2>2
<1> HIDE DEF P
<1>2. S \in P
  BY <1>1, SubsetInduction
<1>. QED
  BY <1>2 DEF P

\* SumOf is the last of the partial sums.
LEMMA SumIsPartial ==
    ASSUME NEW S, IsFiniteSet(S), NEW f, \A x \in S : f[x] \in Int
    PROVE  \E g : Partial(g, f, S) /\ SumOf(f, S) = g[S]
<1> DEFINE iter == CHOOSE g : g = [s \in SUBSET S |-> IF s = {} THEN 0
                                    ELSE f[CHOOSE x \in s : TRUE] + g[s \ {CHOOSE x \in s : TRUE}]]
<1>1. SumOf(f, S) = iter[S]
  BY DEF SumOf, MapThenSumSet, MapThenFoldSet
<1>2. PICK g : Partial(g, f, S)
  BY PartialExists
<1>3. g = [s \in SUBSET S |-> IF s = {} THEN 0
               ELSE f[CHOOSE x \in s : TRUE] + g[s \ {CHOOSE x \in s : TRUE}]]
  BY <1>2 DEF Partial, First
<1>4. iter = [s \in SUBSET S |-> IF s = {} THEN 0
                  ELSE f[CHOOSE x \in s : TRUE] + iter[s \ {CHOOSE x \in s : TRUE}]]
  BY <1>3
<1> HIDE DEF iter
<1>5. Iterates(iter, f, S)
  BY <1>4 DEF First, Iterates
<1>6. iter[S] = g[S]
  BY <1>2, <1>5, IterIsPartial
<1>. QED
  BY <1>1, <1>2, <1>6

LEMMA IterIsSum ==
    ASSUME NEW S, IsFiniteSet(S), NEW f, \A x \in S : f[x] \in Int, NEW iter,
           Iterates(iter, f, S)
    PROVE  iter[S] = SumOf(f, S)
<1>1. PICK g : Partial(g, f, S) /\ SumOf(f, S) = g[S]
  BY SumIsPartial
<1>. QED
  BY <1>1, IterIsPartial

LEMMA SumType ==
    ASSUME NEW S, IsFiniteSet(S), NEW f, \A x \in S : f[x] \in Int
    PROVE  SumOf(f, S) \in Int
<1>1. PICK g : Partial(g, f, S) /\ SumOf(f, S) = g[S]
  BY SumIsPartial
<1>2. S \in SUBSET S
  OBVIOUS
<1>. QED
  BY <1>1, <1>2 DEF Partial

LEMMA SumEmpty == ASSUME NEW f PROVE SumOf(f, {}) = 0
<1>1. IsFiniteSet({})
  BY FS_EmptySet
<1>2. \E g : Partial(g, f, {}) /\ SumOf(f, {}) = g[{}]
  BY <1>1, SumIsPartial
<1>. QED
  BY <1>2 DEF Partial

\* Functions that agree on the set have the same sum.
LEMMA SumSame ==
    ASSUME NEW S, IsFiniteSet(S), NEW f, NEW h, \A x \in S : f[x] \in Int /\ f[x] = h[x]
    PROVE  SumOf(f, S) = SumOf(h, S)
<1>1. PICK g : Partial(g, f, S) /\ SumOf(f, S) = g[S]
  BY SumIsPartial
<1>2. \A x \in S : h[x] \in Int
  OBVIOUS
<1>3. PICK k : Partial(k, h, S) /\ SumOf(h, S) = k[S]
  BY <1>2, SumIsPartial
<1>4. \A s \in SUBSET S : g[s] = k[s]
  BY <1>1, <1>3, PartialUnique
<1>. QED
  BY <1>1, <1>3, <1>4

\* An element more adds its value.
LEMMA SumSplits ==
    ASSUME NEW S, IsFiniteSet(S), NEW f, \A x \in S : f[x] \in Int, NEW x \in S
    PROVE  SumOf(f, S) = f[x] + SumOf(f, S \ {x})
<1> DEFINE R == S \ {x}
<1>1. IsFiniteSet(R) /\ \A y \in R : f[y] \in Int
  BY FS_RemoveElement
<1>2. PICK g : Partial(g, f, S) /\ SumOf(f, S) = g[S]
  BY SumIsPartial
<1>3. PICK k : Partial(k, f, R) /\ SumOf(f, R) = k[R]
  BY <1>1, SumIsPartial
<1>4. g[S] = f[x] + g[R]
  BY <1>2, PartialSplits
<1>5. \A s \in SUBSET R : k[s] = g[s]
  BY <1>1, <1>2, <1>3, PartialUnique
<1>. QED
  BY <1>2, <1>3, <1>4, <1>5

LEMMA SumAdds ==
    ASSUME NEW S, IsFiniteSet(S), NEW x, x \notin S, NEW f, \A y \in S \cup {x} : f[y] \in Int
    PROVE  SumOf(f, S \cup {x}) = f[x] + SumOf(f, S)
<1>1. IsFiniteSet(S \cup {x}) /\ (S \cup {x}) \ {x} = S
  BY FS_AddElement
<1>. QED
  BY <1>1, SumSplits

\* The two functions are the same on the set but for one element.
DifferAt(f, h, S, x) ==
    /\ IsFiniteSet(S) /\ x \in S
    /\ \A y \in S : f[y] \in Int /\ h[y] \in Int
    /\ \A y \in S \ {x} : f[y] = h[y]

\* A function changed at one element changes the sum by as much.
LEMMA SumChanges ==
    ASSUME NEW S, NEW f, NEW h, NEW x, DifferAt(f, h, S, x)
    PROVE  SumOf(h, S) = SumOf(f, S) + (h[x] - f[x])
<1> DEFINE R == S \ {x}
<1>0. /\ IsFiniteSet(S) /\ x \in S
      /\ \A y \in S : f[y] \in Int /\ h[y] \in Int
      /\ \A y \in S \ {x} : f[y] = h[y]
  BY DEF DifferAt
<1>1. IsFiniteSet(R)
  BY <1>0, FS_RemoveElement
<1>2. SumOf(f, S) = f[x] + SumOf(f, R) /\ SumOf(h, S) = h[x] + SumOf(h, R)
  BY <1>0, SumSplits
<1>3. SumOf(f, R) = SumOf(h, R) /\ SumOf(f, R) \in Int
  BY <1>0, <1>1, SumSame, SumType
<1>. QED
  BY <1>0, <1>2, <1>3

LEMMA SumZero ==
    ASSUME NEW S, IsFiniteSet(S), NEW f, \A x \in S : f[x] = 0
    PROVE  SumOf(f, S) = 0
<1> DEFINE P == {s \in SUBSET S : SumOf(f, s) = 0}
<1>1. ASSUME NEW s \in SUBSET S, \A u \in SUBSET s : u # s => u \in P
      PROVE  s \in P
  <2>1. CASE s = {}
    BY <2>1, SumEmpty
  <2>2. CASE s # {}
    <3>1. PICK x \in s : TRUE
      BY <2>2
    <3>2. SumOf(f, s \ {x}) = 0
      BY <1>1, <3>1
    <3>3. IsFiniteSet(s) /\ \A y \in s : f[y] \in Int
      BY FS_Subset
    <3>4. SumOf(f, s) = f[x] + SumOf(f, s \ {x})
      BY <3>3, SumSplits
    <3>. QED
      BY <3>2, <3>4
  <2>. QED
    BY <2>1, <2>2
<1> HIDE DEF P
<1>2. S \in P
  BY <1>1, SubsetInduction
<1>. QED
  BY <1>2 DEF P
\* Elements that are worth nothing do not count.
LEMMA SumRest ==
    ASSUME NEW T, IsFiniteSet(T), NEW S \in SUBSET T, NEW f, \A y \in T : f[y] \in Int,
           \A y \in T \ S : f[y] = 0
    PROVE  SumOf(f, T) = SumOf(f, S)
<1> DEFINE P == {s \in SUBSET T : SumOf(f, s) = SumOf(f, s \cap S)}
<1>1. ASSUME NEW s \in SUBSET T, \A u \in SUBSET s : u # s => u \in P
      PROVE  s \in P
  <2>1. CASE s \cap S = s
    BY <2>1
  <2>2. CASE s \cap S # s
    <3>1. PICK y \in s : y \notin S
      BY <2>2
    <3>2. PICK r : r = s \ {y}
      OBVIOUS
    <3>3. r \in SUBSET s /\ r # s /\ r \cap S = s \cap S
      BY <3>1, <3>2
    <3>4. SumOf(f, r) = SumOf(f, s \cap S)
      BY <1>1, <3>3
    <3>5. IsFiniteSet(s) /\ IsFiniteSet(r) /\ (\A x \in s : f[x] \in Int) /\ (\A x \in r : f[x] \in Int)
      BY <3>3, FS_Subset
    <3>6. SumOf(f, s) = f[y] + SumOf(f, r)
      BY <3>1, <3>2, <3>5, SumSplits
    <3>7. SumOf(f, r) \in Int /\ f[y] = 0
      BY <3>1, <3>5, SumType
    <3>. QED
      BY <3>4, <3>6, <3>7
  <2>. QED
    BY <2>1, <2>2
<1> HIDE DEF P
<1>2. T \in P
  BY <1>1, SubsetInduction
<1>3. T \cap S = S
  OBVIOUS
<1>. QED
  BY <1>2, <1>3 DEF P

\* m takes S into T, keeps apart what is different, and what it misses is worth nothing.
LEMMA SumMoved ==
    ASSUME NEW S, IsFiniteSet(S), NEW T, IsFiniteSet(T), NEW m \in [S -> T],
           \A x, y \in S : m[x] = m[y] => x = y,
           NEW f, NEW g, \A x \in S : f[x] = g[m[x]], \A y \in T : g[y] \in Int,
           \A y \in T : (\A x \in S : m[x] # y) => g[y] = 0
    PROVE  SumOf(f, S) = SumOf(g, T)
<1> DEFINE Image(s) == {m[x] : x \in s}
           P == {s \in SUBSET S : SumOf(f, s) = SumOf(g, Image(s))}
<1>1. ASSUME NEW s \in SUBSET S, \A u \in SUBSET s : u # s => u \in P
      PROVE  s \in P
  <2>1. CASE s = {}
    <3>1. Image(s) = {}
      BY <2>1
    <3>. QED
      BY <2>1, <3>1, SumEmpty
  <2>2. CASE s # {}
    <3>1. PICK x \in s : TRUE
      BY <2>2
    <3>2. PICK r : r = s \ {x}
      OBVIOUS
    <3>3. r \in SUBSET s /\ r # s
      BY <3>1, <3>2
    <3>4. SumOf(f, r) = SumOf(g, Image(r))
      BY <1>1, <3>3
    <3>5. Image(s) \in SUBSET T /\ m[x] \in Image(s) /\ Image(s) \ {m[x]} = Image(r)
      BY <3>1, <3>2
    <3>6. IsFiniteSet(s) /\ IsFiniteSet(Image(s))
      BY <3>5, FS_Subset
    <3>7. (\A y \in s : f[y] \in Int) /\ (\A y \in Image(s) : g[y] \in Int)
      BY <3>5
    <3>8. SumOf(f, s) = f[x] + SumOf(f, r)
      BY <3>1, <3>2, <3>6, <3>7, SumSplits
    <3>9. SumOf(g, Image(s)) = g[m[x]] + SumOf(g, Image(r))
      <4>1. PICK I, J, y : I = Image(s) /\ J = Image(r) /\ y = m[x]
        OBVIOUS
      <4>2. IsFiniteSet(I) /\ y \in I /\ I \ {y} = J /\ \A z \in I : g[z] \in Int
        BY <3>5, <3>6, <3>7, <4>1
      <4> HIDE DEF Image
      <4>3. SumOf(g, I) = g[y] + SumOf(g, J)
        BY <4>2, SumSplits
      <4>. QED
        BY <4>1, <4>3
    <3>10. f[x] = g[m[x]]
      BY <3>1
    <3> HIDE DEF Image
    <3>11. SumOf(f, s) = SumOf(g, Image(s))
      BY <3>4, <3>8, <3>9, <3>10
    <3>. QED
      BY <3>11
  <2>. QED
    BY <2>1, <2>2
<1>2. PICK I : I = Image(S)
  OBVIOUS
<1>3. I \in SUBSET T /\ \A y \in T \ I : g[y] = 0
  BY <1>2
<1> HIDE DEF P
<1>4. S \in P
  BY <1>1, SubsetInduction
<1>5. SumOf(f, S) = SumOf(g, I)
  BY <1>2, <1>4 DEF P
<1>. QED
  BY <1>3, <1>5, SumRest
=============================================================================
