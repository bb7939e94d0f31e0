---------------------------- MODULE PipelineProofs ----------------------------
(***************************************************************************)
(* Proofs about the command line program of Pipeline.tla, for everything   *)
(* that may be installed, asked for, imported, searched for and listed in  *)
(* a file of rules, and all limits: which profiles are queried, what each  *)
(* of them brings, that a page is merged into one entry, how hits are      *)
(* ranked, what the rules list for each category, and that profiles and    *)
(* rules stay within their arrays.                                         *)
(***************************************************************************)
EXTENDS PipelineProperties, SumLemmas

-----------------------------------------------------------------------------
(* The members of a set in an order.                                       *)

StrictOrder(S, R) ==
    /\ \A s \in S : <<s, s>> \notin R
    /\ \A r, s, t \in S : <<r, s>> \in R /\ <<s, t>> \in R => <<r, t>> \in R
    /\ \A r, s \in S : r = s \/ <<r, s>> \in R \/ <<s, r>> \in R

InFront(S, R, s) == {r \in S : <<r, s>> \in R}

\* q has each member of S once, in the order R.
Goes(q, S, R) ==
    /\ IsSeq(q) /\ Len(q) = Cardinality(S) /\ DOMAIN q = 1 .. Cardinality(S)
    /\ \A n \in DOMAIN q : q[n] \in S /\ Cardinality(InFront(S, R, q[n])) = n - 1
    /\ \A i, j \in DOMAIN q : i < j => <<q[i], q[j]>> \in R /\ q[i] # q[j]
    /\ \A s \in S : \E n \in DOMAIN q : q[n] = s

LEMMA FewerInFront ==
    ASSUME NEW S, IsFiniteSet(S), NEW R, StrictOrder(S, R), NEW s \in S
    PROVE  /\ Cardinality(InFront(S, R, s)) \in 0 .. Cardinality(S) - 1
           /\ \A r \in S : <<r, s>> \in R =>
                Cardinality(InFront(S, R, r)) < Cardinality(InFront(S, R, s))
<1>1. \A r \in S : IsFiniteSet(InFront(S, R, r)) /\ Cardinality(InFront(S, R, r)) \in Nat
  <2>1. \A r \in S : InFront(S, R, r) \in SUBSET S
    BY DEF InFront
  <2>. QED
    BY <2>1, FS_Subset, FS_CardinalityType
<1>2. InFront(S, R, s) \in SUBSET S /\ InFront(S, R, s) # S
  BY DEF InFront, StrictOrder
<1>3. Cardinality(InFront(S, R, s)) < Cardinality(S) /\ Cardinality(S) \in Nat
  BY <1>1, <1>2, FS_Subset, FS_CardinalityType
<1>4. ASSUME NEW r \in S, <<r, s>> \in R
      PROVE  Cardinality(InFront(S, R, r)) < Cardinality(InFront(S, R, s))
  <2>1. InFront(S, R, r) \in SUBSET InFront(S, R, s)
    BY <1>4 DEF InFront, StrictOrder
  <2>2. r \in InFront(S, R, s) /\ r \notin InFront(S, R, r)
    BY <1>4 DEF InFront, StrictOrder
  <2>3. InFront(S, R, r) # InFront(S, R, s)
    BY <2>2
  <2>. QED
    BY <1>1, <2>1, <2>3, FS_Subset
<1>. QED
  BY <1>1, <1>3, <1>4

LEMMA RankedGoes ==
    ASSUME NEW S, IsFiniteSet(S), NEW R, StrictOrder(S, R)
    PROVE  Goes(Ranked(S, R), S, R)
<1>1. PICK m \in Nat : m = Cardinality(S)
  BY FS_CardinalityType
<1>2. PICK f : f = [s \in S |-> Cardinality(InFront(S, R, s)) + 1]
  OBVIOUS
<1>3. f \in [S -> 1 .. m] /\ \A s \in S : f[s] = Cardinality(InFront(S, R, s)) + 1
  <2>1. \A s \in S : Cardinality(InFront(S, R, s)) \in 0 .. m - 1
    BY <1>1, FewerInFront
  <2>2. \A s \in S : Cardinality(InFront(S, R, s)) + 1 \in 1 .. m
    BY <2>1
  <2>. QED
    BY <1>2, <2>2
<1>4. ASSUME NEW r \in S, NEW s \in S, <<r, s>> \in R
      PROVE  f[r] < f[s]
  <2>1. Cardinality(InFront(S, R, r)) < Cardinality(InFront(S, R, s))
    BY <1>4, FewerInFront
  <2>2. Cardinality(InFront(S, R, r)) \in Int /\ Cardinality(InFront(S, R, s)) \in Int
    BY FewerInFront
  <2>. QED
    BY <1>3, <2>1, <2>2
<1>5. \A r, s \in S : f[r] = f[s] => r = s
  <2>1. SUFFICES ASSUME NEW r \in S, NEW s \in S, r # s
                 PROVE  f[r] # f[s]
    OBVIOUS
  <2>2. f[r] \in Int /\ f[s] \in Int
    BY <1>3
  <2>3. <<r, s>> \in R \/ <<s, r>> \in R
    BY <2>1 DEF StrictOrder
  <2>4. f[r] < f[s] \/ f[s] < f[r]
    BY <1>4, <2>3
  <2>. QED
    BY <2>2, <2>4
<1>6. f \in Injection(S, 1 .. m)
  BY <1>3, <1>5 DEF Injection, IsInjective
<1>7. IsFiniteSet(1 .. m) /\ Cardinality(1 .. m) = m
  BY FS_Interval
<1>8. f \in Surjection(S, 1 .. m)
  BY <1>1, <1>6, <1>7, FS_Injection
<1>9. PICK q : q = Ranked(S, R)
  OBVIOUS
<1>10. q = [n \in 1 .. m |-> CHOOSE s \in S : Cardinality(InFront(S, R, s)) = n - 1]
  BY <1>1, <1>9 DEF Ranked, InFront
<1>11. ASSUME NEW n \in 1 .. m
       PROVE  q[n] \in S /\ f[q[n]] = n /\ Cardinality(InFront(S, R, q[n])) = n - 1
  <2>1. PICK s \in S : f[s] = n
    BY <1>8 DEF Surjection
  <2>2. Cardinality(InFront(S, R, s)) \in Int
    BY FewerInFront
  <2>3. Cardinality(InFront(S, R, s)) = n - 1
    BY <1>3, <2>1, <2>2
  <2>4. q[n] \in S /\ Cardinality(InFront(S, R, q[n])) = n - 1
    BY <1>10, <2>3
  <2>. QED
    BY <1>3, <2>4
<1>12. DOMAIN q = 1 .. m
  BY <1>10
<1>13. IsSeq(q) /\ Len(q) = m
  <2>1. q \in [1 .. m -> S]
    BY <1>10, <1>11
  <2>2. q \in Seq(S)
    BY <2>1
  <2>3. Len(q) = m
    BY <2>1, <2>2
  <2>. QED
    BY <2>2, <2>3, MemberIsSeq
<1>14. ASSUME NEW i \in 1 .. m, NEW j \in 1 .. m, i < j
       PROVE  <<q[i], q[j]>> \in R /\ q[i] # q[j]
  <2>1. q[i] # q[j]
    BY <1>11, <1>14
  <2>2. <<q[j], q[i]>> \notin R
    <3>1. SUFFICES ASSUME <<q[j], q[i]>> \in R PROVE FALSE
      OBVIOUS
    <3>2. f[q[j]] < f[q[i]]
      BY <1>4, <1>11, <3>1
    <3>. QED
      BY <1>11, <1>14, <3>2
  <2>3. q[i] \in S /\ q[j] \in S
    BY <1>11
  <2>. QED
    BY <2>1, <2>2, <2>3 DEF StrictOrder
<1>15. ASSUME NEW s \in S
       PROVE  \E n \in 1 .. m : q[n] = s
  <2>1. PICK n \in 1 .. m : n = f[s]
    BY <1>3
  <2>2. q[n] \in S /\ f[q[n]] = f[s]
    BY <1>11, <2>1
  <2>. QED
    BY <1>5, <2>2
<1>16. \A n \in DOMAIN q : q[n] \in S /\ Cardinality(InFront(S, R, q[n])) = n - 1
  BY <1>11, <1>12
<1>17. \A i, j \in DOMAIN q : i < j => <<q[i], q[j]>> \in R /\ q[i] # q[j]
  BY <1>12, <1>14
<1>18. \A s \in S : \E n \in DOMAIN q : q[n] = s
  BY <1>12, <1>15
<1>. QED
  BY <1>1, <1>9, <1>12, <1>13, <1>16, <1>17, <1>18 DEF Goes

LEMMA AscendingGoes ==
    ASSUME NEW S \in SUBSET Int, IsFiniteSet(S)
    PROVE  /\ Goes(InOrder(S), S, {w \in S \X S : w[1] < w[2]})
           /\ \A n \in DOMAIN InOrder(S) :
                Cardinality({j \in S : j < InOrder(S)[n]}) = n - 1
           /\ \A i, j \in DOMAIN InOrder(S) : i < j => InOrder(S)[i] < InOrder(S)[j]
<1>1. PICK R : R = {w \in S \X S : w[1] < w[2]}
  OBVIOUS
<1>2. \A r, s \in S : <<r, s>> \in R <=> r < s
  BY <1>1
<1>3. StrictOrder(S, R)
  BY <1>2 DEF StrictOrder
<1>4. PICK q : q = Ranked(S, R)
  OBVIOUS
<1>5. Goes(q, S, R)
  BY <1>3, <1>4, RankedGoes
<1>6. \A s \in S : InFront(S, R, s) = {j \in S : j < s}
  BY <1>2 DEF InFront
<1>7. \A n \in DOMAIN q : Cardinality({j \in S : j < q[n]}) = n - 1
  BY <1>5, <1>6 DEF Goes
<1>8. \A i, j \in DOMAIN q : i < j => q[i] < q[j]
  BY <1>2, <1>5 DEF Goes
<1>9. q = InOrder(S)
  BY <1>1, <1>4 DEF InOrder
<1>. QED
  BY <1>1, <1>5, <1>7, <1>8, <1>9

-----------------------------------------------------------------------------
(* The score of an entry.                                                  *)

LEMMA AboveFacts ==
    ASSUME NEW limits \in Seq(Int), NEW n \in Int
    PROVE  /\ Above(n, limits) \in 0 .. Len(limits)
           /\ \A m \in Int : n <= m => Above(n, limits) <= Above(m, limits)
<1>1. PICK N \in Nat : N = Len(limits) /\ DOMAIN limits = 1 .. N
  BY LenProperties
<1>2. IsFiniteSet(1 .. N) /\ Cardinality(1 .. N) = N
  BY FS_Interval
<1>3. ASSUME NEW m \in Int
      PROVE  LET over == {i \in DOMAIN limits : m > limits[i]}
             IN IsFiniteSet(over) /\ Cardinality(over) \in 0 .. N
  <2> DEFINE over == {i \in DOMAIN limits : m > limits[i]}
  <2>1. over \in SUBSET (1 .. N)
    BY <1>1
  <2>2. IsFiniteSet(over) /\ Cardinality(over) <= Cardinality(1 .. N)
    BY <1>2, <2>1, FS_Subset
  <2>. QED
    BY <1>2, <2>2, FS_CardinalityType
<1>4. ASSUME NEW m \in Int, n <= m
      PROVE  Above(n, limits) <= Above(m, limits)
  <2> DEFINE less == {i \in DOMAIN limits : n > limits[i]}
             more == {i \in DOMAIN limits : m > limits[i]}
  <2>1. \A i \in DOMAIN limits : limits[i] \in Int
    BY ElementOfSeq
  <2>2. less \in SUBSET more
    BY <1>4, <2>1
  <2>3. IsFiniteSet(more)
    BY <1>3
  <2>. QED
    BY <2>2, <2>3, FS_Subset DEF Above
<1>. QED
  BY <1>1, <1>3, <1>4 DEF Above

LEMMA QuotientOrder ==
    ASSUME NEW a \in Int, NEW b \in Int, a <= b, NEW d \in Nat \ {0}
    PROVE  a \div d \in Int /\ b \div d \in Int /\ a \div d <= b \div d
OBVIOUS

LEMMA PopularityFacts ==
    ASSUME NEW n \in Int
    PROVE  /\ Popularity(n) \in 0 .. 6
           /\ \A m \in Int : n <= m => Popularity(n) <= Popularity(m)
<1>1. PICK limits : limits = <<4, 9, 19, 49, 99>>
  OBVIOUS
<1>2. limits \in Seq(Int) /\ Len(limits) = 5
  BY <1>1
<1>3. \A m \in Int : Above(m, limits) \in 0 .. 5
  BY <1>2, AboveFacts
<1>4. \A m \in Int : n <= m => Above(n, limits) <= Above(m, limits)
  BY <1>2, AboveFacts
<1>5. \A m \in Int : Popularity(m) = IF m > 0 THEN 1 + Above(m, limits) ELSE 0
  BY <1>1 DEF Popularity
<1>. QED
  BY <1>3, <1>4, <1>5

\* An age is a number of days, and a later time of Chromium's is no older.
LEMMA AgeFacts ==
    ASSUME NEW a \in Int, NEW b \in Int
    PROVE  /\ AgeDays(a) \in Int
           /\ a > MicroFrom /\ b > MicroFrom /\ a >= b => AgeDays(a) <= AgeDays(b)
<1>1. Micro \in Nat \ {0} /\ DaySeconds \in Nat \ {0} /\ EpochOffset \in Int /\ Now \in Int
  BY TimeAssumption
<1>2. a \div Micro \in Int /\ b \div Micro \in Int /\ (a >= b => b \div Micro <= a \div Micro)
  BY <1>1, QuotientOrder
<1>3. PICK s, t \in Int : /\ s = (IF a > MicroFrom THEN (a \div Micro) - EpochOffset ELSE a)
                          /\ t = (IF b > MicroFrom THEN (b \div Micro) - EpochOffset ELSE b)
  <2>1. (IF a > MicroFrom THEN (a \div Micro) - EpochOffset ELSE a) \in Int
    BY <1>1, <1>2
  <2>2. (IF b > MicroFrom THEN (b \div Micro) - EpochOffset ELSE b) \in Int
    BY <1>1, <1>2
  <2>. QED
    BY <2>1, <2>2
<1>4. AgeDays(a) = (Now - s) \div DaySeconds /\ AgeDays(b) = (Now - t) \div DaySeconds
  BY <1>3 DEF AgeDays
<1>5. AgeDays(a) \in Int
  BY <1>1, <1>4, QuotientOrder
<1>6. ASSUME a > MicroFrom, b > MicroFrom, a >= b
      PROVE  AgeDays(a) <= AgeDays(b)
  <2>1. Now - s <= Now - t /\ Now - s \in Int /\ Now - t \in Int
    BY <1>1, <1>2, <1>3, <1>6
  <2>. QED
    BY <1>1, <1>4, <2>1, QuotientOrder
<1>. QED
  BY <1>5, <1>6

LEMMA RecencyFacts ==
    ASSUME NEW a \in Nat
    PROVE  /\ Recency(a) \in 0 .. 6
           /\ \A b \in Nat : a > MicroFrom /\ a >= b /\ (b = 0 \/ b > MicroFrom) => Recency(b) <= Recency(a)
<1>1. PICK limits : limits = <<1, 7, 30, 90, 365>>
  OBVIOUS
<1>2. limits \in Seq(Int) /\ Len(limits) = 5
  BY <1>1
<1>3. \A m \in Int : Above(m, limits) \in 0 .. 5
  BY <1>2, AboveFacts
<1>4. \A n, m \in Int : n <= m => Above(n, limits) <= Above(m, limits)
  BY <1>2, AboveFacts
<1>5. \A b \in Nat : Recency(b) = IF b > 0 THEN 6 - Above(AgeDays(b), limits) ELSE 0
  BY <1>1 DEF Recency
<1>6. \A b \in Nat : Recency(b) \in 0 .. 6
  <2>1. \A b \in Nat : AgeDays(b) \in Int
    BY AgeFacts
  <2>. QED
    BY <1>3, <1>5, <2>1
<1>7. ASSUME NEW b \in Nat, a > MicroFrom, a >= b, b = 0 \/ b > MicroFrom
      PROVE  Recency(b) <= Recency(a)
  <2>1. CASE b = 0
    BY <1>5, <1>6, <2>1
  <2>2. CASE b > MicroFrom
    <3>1. AgeDays(a) \in Int /\ AgeDays(b) \in Int /\ AgeDays(a) <= AgeDays(b)
      BY <1>7, <2>2, AgeFacts
    <3>2. Above(AgeDays(a), limits) <= Above(AgeDays(b), limits)
      BY <1>4, <3>1
    <3>3. a > 0 /\ b > 0
      BY <1>7, <2>2, SearchAssumption
    <3>. QED
      BY <1>3, <1>5, <3>1, <3>2, <3>3
  <2>. QED
    BY <1>7, <2>1, <2>2
<1>. QED
  BY <1>6, <1>7

LEMMA ScoreType ==
    ASSUME NEW q, NEW e, IsEntry(e)
    PROVE  Score(q, e) \in 0 .. 20
<1>1. \A u, t : Relevance(u, t) \in {0, 4, 6, 8}
  BY DEF Relevance
<1>2. Popularity(e.visit_count) \in 0 .. 6 /\ Recency(e.last_visit_raw) \in 0 .. 6
  BY PopularityFacts, RecencyFacts DEF IsEntry
<1>3. PICK r \in {0, 4, 6, 8} : Score(q, e) = r + Popularity(e.visit_count) + Recency(e.last_visit_raw)
  BY <1>1 DEF Score
<1>. QED
  BY <1>2, <1>3

LEMMA RelevanceFacts ==
    ASSUME NEW u \in BOOLEAN, NEW t \in BOOLEAN, NEW v \in BOOLEAN, NEW w \in BOOLEAN,
           u => v, t => w
    PROVE  Relevance(u, t) \in Nat /\ Relevance(v, w) \in Nat /\ Relevance(u, t) <= Relevance(v, w)
<1>1. \A x, y \in BOOLEAN : Relevance(x, y) = IF x THEN (IF y THEN 8 ELSE 4) ELSE (IF y THEN 6 ELSE 0)
  BY DEF Relevance
<1>. QED
  BY <1>1

LEMMA AtLeastAsGood ==
    ASSUME NEW a, IsEntry(a), NEW b, IsEntry(b), AtLeastAs(a, b)
    PROVE  Score(ParseQuery(words), b) <= Score(ParseQuery(words), a)
<1>1. PICK q : q = ParseQuery(words)
  OBVIOUS
<1> DEFINE Url(e) == \E i \in DOMAIN q.terms : UrlHit(q.terms[i], e)
           Title(e) == \E i \in DOMAIN q.terms : TitleHit(q.terms[i], e)
<1>2. (Url(b) => Url(a)) /\ (Title(b) => Title(a))
  <2> DEFINE found(e) == {<<t, "url">> : t \in {t \in DOMAIN q.terms : UrlHit(q.terms[t], e)}}
                      \cup {<<t, "title">> : t \in {t \in DOMAIN q.terms : TitleHit(q.terms[t], e)}}
  <2>1. found(b) \subseteq found(a)
    BY <1>1 DEF AtLeastAs
  <2>2. \A t : <<t, "url">> \in found(b) => <<t, "url">> \in found(a)
    BY <2>1
  <2>3. \A t : <<t, "title">> \in found(b) => <<t, "title">> \in found(a)
    BY <2>1
  <2>. QED
    BY <2>2, <2>3
<1> HIDE DEF Url, Title
<1>3. PICK r, s \in Nat : r = Relevance(Url(a), Title(a)) /\ s = Relevance(Url(b), Title(b)) /\ s <= r
  <2>1. /\ Url(a) \in BOOLEAN /\ Title(a) \in BOOLEAN
        /\ Url(b) \in BOOLEAN /\ Title(b) \in BOOLEAN
    BY DEF Url, Title
  <2>. QED
    BY <1>2, <2>1, RelevanceFacts
<1>4. /\ Popularity(b.visit_count) <= Popularity(a.visit_count)
      /\ Popularity(b.visit_count) \in Int /\ Popularity(a.visit_count) \in Int
  BY PopularityFacts DEF AtLeastAs, IsEntry
<1>5. /\ Recency(b.last_visit_raw) <= Recency(a.last_visit_raw)
      /\ Recency(b.last_visit_raw) \in Int /\ Recency(a.last_visit_raw) \in Int
  BY RecencyFacts DEF AtLeastAs, IsEntry
<1>6. /\ Score(q, a) = r + Popularity(a.visit_count) + Recency(a.last_visit_raw)
      /\ Score(q, b) = s + Popularity(b.visit_count) + Recency(b.last_visit_raw)
  BY <1>3 DEF Score, Url, Title
<1>. QED
  BY <1>1, <1>3, <1>4, <1>5, <1>6

-----------------------------------------------------------------------------
(* The order of the hits.                                                  *)

\* x is placed in front of y.
Ahead(x, y) == x.score > y.score \/ (x.score = y.score /\ x.entry_idx < y.entry_idx)

LEMMA InsertFacts ==
    ASSUME NEW H, \A x \in H : x.score \in Int, NEW v \in Seq(H), NEW x \in H
    PROVE  /\ InsertHit(v, x) \in Seq(H) /\ Len(InsertHit(v, x)) = Len(v) + 1
           /\ \E at \in 0 .. Len(v) :
                /\ \A i \in 1 .. at : InsertHit(v, x)[i] = v[i] /\ v[i].score >= x.score
                /\ InsertHit(v, x)[at + 1] = x
                /\ \A i \in at + 1 .. Len(v) : InsertHit(v, x)[i + 1] = v[i]
                /\ at < Len(v) => v[at + 1].score < x.score
<1>1. PICK N \in Nat : N = Len(v) /\ DOMAIN v = 1 .. N
  BY LenProperties
<1> DEFINE behind == {i \in DOMAIN v : v[i].score < x.score}
<1>2. \A i \in 1 .. N : v[i] \in H /\ v[i].score \in Int
  BY <1>1, ElementOfSeq
<1>3. PICK k \in 1 .. N + 1 :
        /\ k = (IF behind = {} THEN N + 1 ELSE Min(behind))
        /\ \A i \in 1 .. k - 1 : v[i].score >= x.score
        /\ k <= N => v[k].score < x.score
  <2>1. CASE behind = {}
    <3>1. \A i \in 1 .. N : v[i].score >= x.score
      BY <1>1, <1>2, <2>1
    <3>2. N + 1 \in 1 .. N + 1 /\ ~ (N + 1 <= N)
      OBVIOUS
    <3>3. (N + 1) - 1 = N
      OBVIOUS
    <3>. QED
      BY <2>1, <3>1, <3>2, <3>3
  <2>2. CASE behind # {}
    <3>1. behind \in SUBSET Nat
      BY <1>1
    <3>2. PICK b : b = behind
      OBVIOUS
    <3>3. Min(b) \in b /\ \A y \in b : Min(b) <= y
      BY <2>2, <3>1, <3>2, MinFacts
    <3>4. PICK m \in 1 .. N : m = Min(b) /\ v[m].score < x.score
      BY <1>1, <3>2, <3>3
    <3>5. ASSUME NEW i \in 1 .. m - 1
          PROVE  v[i].score >= x.score
      <4>1. i \in 1 .. N /\ ~ (m <= i)
        BY <3>4
      <4>2. i \notin b
        BY <3>3, <3>4, <4>1
      <4>. QED
        BY <1>1, <1>2, <3>2, <4>1, <4>2
    <3>6. m \in 1 .. N + 1
      OBVIOUS
    <3>. QED
      BY <2>2, <3>2, <3>4, <3>5, <3>6
  <2>. QED
    BY <2>1, <2>2
<1> HIDE DEF behind
<1>4. PICK at \in 0 .. N : k = at + 1 /\ k - 1 = at
  <2>1. k - 1 \in 0 .. N /\ k = (k - 1) + 1
    OBVIOUS
  <2>. QED
    BY <2>1
<1>5. InsertHit(v, x) = Splice(v, at, <<x>>)
  <2>1. InsertHit(v, x) = InsertAt(v, k, x)
    BY <1>1, <1>3 DEF InsertHit, behind
  <2>. QED
    BY <1>4, <2>1 DEF InsertAt, Splice
<1>6. PICK y \in Seq(H) : y = <<x>> /\ Len(y) = 1 /\ y[1] = x
  <2>1. <<x>> \in Seq(H)
    OBVIOUS
  <2>2. Len(<<x>>) = 1 /\ <<x>>[1] = x
    OBVIOUS
  <2>. QED
    BY <2>1, <2>2
<1>7. PICK t : t = InsertHit(v, x)
  OBVIOUS
<1>8. /\ t \in Seq(H) /\ Len(t) = N + 1
      /\ \A i \in 1 .. at : t[i] = v[i]
      /\ \A i \in 1 .. 1 : t[at + i] = x
      /\ \A i \in at + 1 .. N : t[i + 1] = v[i]
  <2>1. t = Splice(v, at, y) /\ at \in 0 .. Len(v)
    BY <1>1, <1>5, <1>6, <1>7
  <2>2. /\ Splice(v, at, y) \in Seq(H) /\ Len(Splice(v, at, y)) = Len(v) + Len(y)
        /\ \A i \in 1 .. at : Splice(v, at, y)[i] = v[i]
        /\ \A i \in 1 .. Len(y) : Splice(v, at, y)[at + i] = y[i]
        /\ \A i \in at + 1 .. Len(v) : Splice(v, at, y)[i + Len(y)] = v[i]
    BY <2>1, SplicedIn
  <2>3. t \in Seq(H) /\ Len(t) = N + 1 /\ \A i \in 1 .. at : t[i] = v[i]
    BY <1>1, <1>6, <2>1, <2>2
  <2>4. \A i \in 1 .. 1 : t[at + i] = x
    BY <1>6, <2>1, <2>2
  <2>5. \A i \in at + 1 .. N : t[i + 1] = v[i]
    BY <1>1, <1>6, <2>1, <2>2
  <2>. QED
    BY <2>3, <2>4, <2>5
<1>9. t[at + 1] = x
  BY <1>8
<1>10. \A i \in 1 .. at : v[i].score >= x.score
  BY <1>3, <1>4
<1>11. at < N => v[at + 1].score < x.score
  BY <1>3, <1>4
<1>. QED
  BY <1>1, <1>7, <1>8, <1>9, <1>10, <1>11

\* The hits so far are those of e up to n, in their order.
SortedTo(v, e, n) ==
    /\ Len(v) = n
    /\ \A k \in 1 .. n : \E m \in 1 .. n : v[k] = e[m]
    /\ \A i, j \in 1 .. n : i < j => Ahead(v[i], v[j])

LEMMA InsertKeepsOrder ==
    ASSUME NEW H, \A x \in H : x.score \in Int /\ x.entry_idx \in Int, NEW n \in Nat, NEW e,
           \A m \in 1 .. n + 1 : e[m] \in H,
           \A m \in 1 .. n : e[m].entry_idx < e[n + 1].entry_idx,
           NEW v \in Seq(H), SortedTo(v, e, n)
    PROVE  SortedTo(InsertHit(v, e[n + 1]), e, n + 1)
<1>1. PICK x \in H : x = e[n + 1]
  BY n + 1 \in 1 .. n + 1
<1>2. PICK t : t = InsertHit(v, x)
  OBVIOUS
<1>3. Len(v) = n
  BY DEF SortedTo
<1>4. PICK at \in 0 .. n :
        /\ \A i \in 1 .. at : t[i] = v[i] /\ v[i].score >= x.score
        /\ t[at + 1] = x
        /\ \A i \in at + 1 .. n : t[i + 1] = v[i]
        /\ at < n => v[at + 1].score < x.score
  <2>1. \E at \in 0 .. Len(v) :
          /\ \A i \in 1 .. at : InsertHit(v, x)[i] = v[i] /\ v[i].score >= x.score
          /\ InsertHit(v, x)[at + 1] = x
          /\ \A i \in at + 1 .. Len(v) : InsertHit(v, x)[i + 1] = v[i]
          /\ at < Len(v) => v[at + 1].score < x.score
    BY InsertFacts
  <2>. QED
    BY <1>2, <1>3, <2>1
<1>5. Len(t) = n + 1
  BY <1>2, <1>3, InsertFacts
<1>6. ASSUME NEW i \in 1 .. n
      PROVE  v[i] \in H /\ v[i].entry_idx < x.entry_idx
             /\ v[i].score \in Int /\ v[i].entry_idx \in Int
  <2>1. PICK m \in 1 .. n : v[i] = e[m]
    BY DEF SortedTo
  <2>. QED
    BY <1>1, <2>1
<1>7. \A i, j \in 1 .. n : i < j => Ahead(v[i], v[j])
  BY DEF SortedTo
<1>8. \A i \in at + 1 .. n : v[i].score < x.score
  <2>1. SUFFICES ASSUME NEW i \in at + 1 .. n
                 PROVE  v[i].score < x.score
    OBVIOUS
  <2>2. at < n /\ v[at + 1].score < x.score /\ at + 1 \in 1 .. n /\ i \in 1 .. n
    BY <1>4
  <2>3. at + 1 = i \/ Ahead(v[at + 1], v[i])
    BY <1>7, <2>2
  <2>4. v[i].score <= v[at + 1].score
    BY <1>6, <2>2, <2>3 DEF Ahead
  <2>5. x.score \in Int /\ v[i].score \in Int /\ v[at + 1].score \in Int
    BY <1>6, <2>2
  <2>. QED
    BY <2>2, <2>4, <2>5
<1>9. ASSUME NEW i \in 1 .. n + 1
      PROVE  \/ i \in 1 .. at /\ t[i] = v[i]
             \/ i = at + 1 /\ t[i] = x
             \/ i - 1 \in at + 1 .. n /\ t[i] = v[i - 1]
  <2>1. i \in 1 .. at \/ i = at + 1 \/ (i - 1 \in at + 1 .. n /\ (i - 1) + 1 = i)
    OBVIOUS
  <2>. QED
    BY <1>4, <2>1
<1>10. ASSUME NEW k \in 1 .. n + 1
       PROVE  \E m \in 1 .. n + 1 : t[k] = e[m]
  <2>1. CASE k = at + 1 /\ t[k] = x
    BY <1>1, <2>1
  <2>2. ASSUME NEW i \in 1 .. n, t[k] = v[i]
        PROVE  \E m \in 1 .. n + 1 : t[k] = e[m]
    BY <2>2 DEF SortedTo
  <2>3. CASE k \in 1 .. at /\ t[k] = v[k]
    <3>1. k \in 1 .. n
      BY <2>3
    <3>. QED
      BY <2>2, <2>3, <3>1
  <2>4. CASE k - 1 \in at + 1 .. n /\ t[k] = v[k - 1]
    <3>1. k - 1 \in 1 .. n
      BY <2>4
    <3>. QED
      BY <2>2, <2>4, <3>1
  <2>. QED
    BY <1>9, <2>1, <2>3, <2>4
<1>11. ASSUME NEW i \in 1 .. n + 1, NEW j \in 1 .. n + 1, i < j
       PROVE  Ahead(t[i], t[j])
  <2>1. CASE i \in 1 .. at /\ t[i] = v[i]
    <3>1. CASE j \in 1 .. at /\ t[j] = v[j]
      BY <1>7, <1>11, <2>1, <3>1
    <3>2. CASE j = at + 1 /\ t[j] = x
      <4>1. v[i].score >= x.score /\ i \in 1 .. n
        BY <1>4, <2>1
      <4>. QED
        BY <1>1, <1>6, <2>1, <3>2, <4>1 DEF Ahead
    <3>3. CASE j - 1 \in at + 1 .. n /\ t[j] = v[j - 1]
      <4>1. i \in 1 .. n /\ j - 1 \in 1 .. n /\ i < j - 1
        BY <2>1, <3>3
      <4>. QED
        BY <1>7, <2>1, <3>3, <4>1
    <3>. QED
      BY <1>9, <3>1, <3>2, <3>3
  <2>2. CASE i = at + 1 /\ t[i] = x
    <3>1. j - 1 \in at + 1 .. n /\ t[j] = v[j - 1]
      BY <1>9, <1>11, <2>2
    <3>2. v[j - 1].score < x.score /\ j - 1 \in 1 .. n
      BY <1>8, <3>1
    <3>. QED
      BY <1>1, <1>6, <2>2, <3>1, <3>2 DEF Ahead
  <2>3. CASE i - 1 \in at + 1 .. n /\ t[i] = v[i - 1]
    <3>1. j - 1 \in at + 1 .. n /\ t[j] = v[j - 1]
      <4>1. j \notin 1 .. at /\ j # at + 1
        BY <1>11, <2>3
      <4>. QED
        BY <1>9, <4>1
    <3>2. i - 1 \in 1 .. n /\ j - 1 \in 1 .. n /\ i - 1 < j - 1
      BY <1>11, <2>3, <3>1
    <3>. QED
      BY <1>7, <2>3, <3>1, <3>2
  <2>. QED
    BY <1>9, <2>1, <2>2, <2>3
<1>12. SortedTo(t, e, n + 1)
  BY <1>5, <1>10, <1>11 DEF SortedTo
<1>. QED
  BY <1>1, <1>2, <1>12

\* Sorting the hits of entries that come in their order.
LEMMA SortedHits ==
    ASSUME NEW H, \A x \in H : x.score \in Int /\ x.entry_idx \in Int, NEW e \in Seq(H),
           \A i, j \in DOMAIN e : i < j => e[i].entry_idx < e[j].entry_idx
    PROVE  LET v == FoldLeft(InsertHit, <<>>, e) IN v \in Seq(H) /\ SortedTo(v, e, Len(e))
<1> DEFINE D == DOMAIN e
           V == Seq(H)
           base == <<>>
           iter == CHOOSE f : f = [s \in SUBSET D |-> IF s = {} THEN base
                                    ELSE InsertHit(f[s \ {Max(s)}], e[Max(s)])]
<1>1. FoldLeft(InsertHit, <<>>, e) = iter[D]
  BY DEF FoldLeft, MapThenFoldSet
<1>2. PICK N \in Nat : N = Len(e) /\ D = 1 .. N
  BY LenProperties
<1>3. \A n \in 1 .. N : e[n] \in H
  BY <1>2, ElementOfSeq
<1>4. \A n \in 1 .. N, v \in V : InsertHit(v, e[n]) \in V
  BY <1>3, InsertFacts
<1>5. PICK h : h = [n \in 1 .. N |-> [v \in V |-> InsertHit(v, e[n])]]
  OBVIOUS
<1>6. base \in V
  OBVIOUS
<1>7. \A i, j \in 1 .. N : i < j => e[i].entry_idx < e[j].entry_idx
  BY <1>2
<1> HIDE DEF D, V, base
<1>8. Steps(h, N, V) /\ \A n \in 1 .. N, v \in V : h[n][v] = InsertHit(v, e[n])
  BY <1>4, <1>5 DEF Steps
<1>9. PICK f : FoldsAll(f, base, h, N, V)
  BY <1>6, <1>8, FoldSolution
<1>10. \A s \in SUBSET (1 .. N) : s # {} => Max(s) \in 1 .. N
  BY GreatestIn
<1>11. f = [s \in SUBSET D |-> IF s = {} THEN base ELSE InsertHit(f[s \ {Max(s)}], e[Max(s)])]
  <2>1. \A s \in SUBSET D : f[s] = IF s = {} THEN base ELSE InsertHit(f[s \ {Max(s)}], e[Max(s)])
    BY <1>2, <1>8, <1>9, <1>10 DEF FoldsAll
  <2>2. f = [s \in SUBSET D |-> f[s]]
    BY <1>2, <1>9 DEF FoldsAll
  <2>. QED
    BY <2>1, <2>2
<1>12. iter = [s \in SUBSET D |-> IF s = {} THEN base ELSE InsertHit(iter[s \ {Max(s)}], e[Max(s)])]
  BY <1>11
<1> HIDE DEF iter
<1>13. \A s \in SUBSET D : iter[s] = IF s = {} THEN base ELSE InsertHit(iter[s \ {Max(s)}], e[Max(s)])
  BY <1>12
<1>14. FoldsOn(iter, base, h, N, V)
  <2>1. iter[{}] = base
    BY <1>13
  <2>2. ASSUME NEW s \in SUBSET (1 .. N), NEW v \in V, s # {}, iter[s \ {Max(s)}] = v
        PROVE  iter[s] = h[Max(s)][v]
    <3>1. iter[s] = InsertHit(v, e[Max(s)])
      BY <1>2, <1>13, <2>2
    <3>. QED
      BY <1>8, <1>10, <2>2, <3>1
  <2>. QED
    BY <2>1, <2>2 DEF FoldsOn
<1>15. PICK g : Stages(g, base, h, N, V) /\ iter[1 .. N] = g[N]
  BY <1>6, <1>8, <1>14, FoldStages
<1> DEFINE P == {n \in 0 .. N : SortedTo(g[n], e, n)}
<1>16. 0 \in P
  <2>1. g[0] = <<>>
    BY <1>15 DEF Stages, base
  <2>2. Len(g[0]) = 0
    BY <2>1
  <2>3. SortedTo(g[0], e, 0)
    BY <2>2 DEF SortedTo
  <2>. QED
    BY <2>3
<1>17. ASSUME NEW n \in 0 .. N - 1, n \in P
       PROVE  n + 1 \in P
  <2>1. /\ n + 1 \in 1 .. N /\ n + 1 \in 0 .. N /\ (n + 1) - 1 = n /\ n \in 0 .. N /\ n \in Nat
        /\ \A m \in 1 .. n + 1 : m \in 1 .. N
    OBVIOUS
  <2>2. PICK v \in V : v = g[n] /\ g[n + 1] = h[n + 1][v]
    BY <1>15, <2>1 DEF Stages
  <2>3. g[n + 1] = InsertHit(v, e[n + 1])
    BY <1>8, <2>1, <2>2
  <2>4. SortedTo(v, e, n) /\ v \in Seq(H)
    BY <1>17, <2>2 DEF V
  <2>5. \A m \in 1 .. n + 1 : e[m] \in H
    BY <1>3, <2>1
  <2>6. \A m \in 1 .. n : e[m].entry_idx < e[n + 1].entry_idx
    BY <1>7, <2>1
  <2>7. SortedTo(InsertHit(v, e[n + 1]), e, n + 1)
    BY <2>1, <2>4, <2>5, <2>6, InsertKeepsOrder
  <2>. QED
    BY <2>1, <2>3, <2>7
<1> HIDE DEF P
<1>18. \A n \in 0 .. N : n \in P
  BY <1>16, <1>17, CountUp
<1>19. SortedTo(g[N], e, N) /\ g[N] \in V
  <2>1. N \in 0 .. N
    OBVIOUS
  <2>. QED
    BY <1>15, <1>18, <2>1 DEF P, Stages
<1>. QED
  BY <1>1, <1>2, <1>15, <1>19 DEF V

\* What search_execute finds is of entries, each scored, in their order.
LEMMA HitsInOrder ==
    ASSUME NEW q, NEW es, IsSeq(es), \A i \in DOMAIN es : IsEntry(es[i]),
           NEW hs, hs = SearchExecute(q, es)
    PROVE  /\ IsSeq(hs)
           /\ \A n \in DOMAIN hs : /\ hs[n].entry_idx \in DOMAIN es
                                   /\ hs[n].score = Score(q, es[hs[n].entry_idx])
           /\ \A n, m \in DOMAIN hs : n < m => Ahead(hs[n], hs[m])
<1> DEFINE all == {i \in DOMAIN es : PassesFilters(q, es[i]) /\ Overall(q, es[i])}
           first == {i \in all : Cardinality({j \in all : j < i}) < MaxResults}
<1>1. PICK N \in Nat : N = Len(es) /\ DOMAIN es = 1 .. N
  BY SeqElements DEF IsSeq
<1>2. PICK S : S = first
  OBVIOUS
<1>3. S \in SUBSET (1 .. N)
  BY <1>1, <1>2
<1>4. S \in SUBSET Int /\ IsFiniteSet(S)
  <2>1. IsFiniteSet(1 .. N) /\ 1 .. N \in SUBSET Int
    BY FS_Interval
  <2>2. IsFiniteSet(S)
    BY <1>3, <2>1, FS_Subset
  <2>. QED
    BY <1>3, <2>1, <2>2
<1>5. PICK kept : kept = InOrder(S)
  OBVIOUS
<1>6. /\ DOMAIN kept = 1 .. Cardinality(S) /\ \A n \in DOMAIN kept : kept[n] \in S
      /\ \A i, j \in DOMAIN kept : i < j => kept[i] < kept[j]
  <2>1. Goes(kept, S, {w \in S \X S : w[1] < w[2]})
    BY <1>4, <1>5, AscendingGoes
  <2>2. \A i, j \in DOMAIN kept : i < j => kept[i] < kept[j]
    BY <1>4, <1>5, AscendingGoes
  <2>. QED
    BY <2>1, <2>2 DEF Goes
<1>7. PICK K \in Nat : K = Cardinality(S)
  BY <1>4, FS_CardinalityType
<1>8. PICK e : e = [n \in 1 .. K |-> Hit(q, es, kept[n])]
  OBVIOUS
<1>9. PICK H : H = {Hit(q, es, i) : i \in S}
  OBVIOUS
<1>10. hs = FoldLeft(InsertHit, <<>>, e)
  BY <1>2, <1>5, <1>6, <1>7, <1>8 DEF SearchExecute
<1>11. \A i : Hit(q, es, i).entry_idx = i /\ Hit(q, es, i).score = Score(q, es[i])
  BY DEF Hit
<1>12. \A x \in H : /\ x.entry_idx \in DOMAIN es
                    /\ x.score = Score(q, es[x.entry_idx]) /\ x.score \in Int
  <2>1. SUFFICES ASSUME NEW i \in S
                 PROVE  /\ Hit(q, es, i).entry_idx \in DOMAIN es
                        /\ Hit(q, es, i).score = Score(q, es[Hit(q, es, i).entry_idx])
                        /\ Hit(q, es, i).score \in Int
    BY <1>9
  <2>2. i \in DOMAIN es /\ IsEntry(es[i])
    BY <1>1, <1>3
  <2>3. Score(q, es[i]) \in 0 .. 20
    BY <2>2, ScoreType
  <2>. QED
    BY <1>11, <2>2, <2>3
<1>13. e \in Seq(H) /\ DOMAIN e = 1 .. K
  <2>1. \A n \in 1 .. K : Hit(q, es, kept[n]) \in H
    BY <1>6, <1>7, <1>9
  <2>2. e \in [1 .. K -> H]
    BY <1>8, <2>1
  <2>. QED
    BY <2>2
<1>14. \A i, j \in DOMAIN e : i < j => e[i].entry_idx < e[j].entry_idx
  BY <1>6, <1>7, <1>8, <1>11, <1>13
<1>15. \A x \in H : x.score \in Int /\ x.entry_idx \in Int
  BY <1>1, <1>12
<1>16. hs \in Seq(H) /\ SortedTo(hs, e, Len(e))
  BY <1>10, <1>13, <1>14, <1>15, SortedHits
<1>17. IsSeq(hs) /\ DOMAIN hs = 1 .. Len(e) /\ \A n \in DOMAIN hs : hs[n] \in H
  <2>1. \A n \in DOMAIN hs : hs[n] \in H
    BY <1>16, ElementOfSeq
  <2>2. DOMAIN hs = 1 .. Len(hs) /\ Len(hs) = Len(e)
    BY <1>16, LenProperties DEF SortedTo
  <2>. QED
    BY <1>16, <2>1, <2>2, MemberIsSeq
<1>18. \A n, m \in DOMAIN hs : n < m => Ahead(hs[n], hs[m])
  BY <1>16, <1>17 DEF SortedTo
<1>. QED
  BY <1>12, <1>17, <1>18

LEMMA LargestOf ==
    ASSUME NEW S \in SUBSET Int, IsFiniteSet(S), S # {}
    PROVE  Max(S) \in S /\ \A y \in S : y <= Max(S)
<1>1. PICK f : f = [x \in S |-> x]
  OBVIOUS
<1>2. \E x \in S : \A y \in S : f[x] >= f[y]
  BY <1>1, LargestExists
<1>3. \E x \in S : \A y \in S : x >= y
  BY <1>1, <1>2
<1>4. Max(S) \in S /\ \A y \in S : Max(S) >= y
  BY <1>3 DEF Max
<1>. QED
  BY <1>4

-----------------------------------------------------------------------------
(* The rows that a query reads.                                            *)

ReadFrom(rows, from) == {i \in DOMAIN rows : InRange(rows[i], from) # {}}

RowOrder(rows, from) ==
    {w \in ReadFrom(rows, from) \X ReadFrom(rows, from) :
        \/ Max(InRange(rows[w[1]], from)) > Max(InRange(rows[w[2]], from))
        \/ Max(InRange(rows[w[1]], from)) = Max(InRange(rows[w[2]], from)) /\ w[1] < w[2]}

LEMMA RowTimes ==
    ASSUME NEW file, IsFile(file), NEW from
    PROVE  /\ IsFiniteSet(ReadFrom(file.rows, from))
           /\ ReadFrom(file.rows, from) \in SUBSET (1 .. Len(file.rows)) /\ Len(file.rows) \in Nat
           /\ DOMAIN file.rows = 1 .. Len(file.rows)
           /\ \A i \in ReadFrom(file.rows, from) :
                /\ Max(InRange(file.rows[i], from)) \in Nat
                /\ Max(InRange(file.rows[i], from)) \in InRange(file.rows[i], from)
                /\ \A v \in InRange(file.rows[i], from) : v <= Max(InRange(file.rows[i], from))
<1>1. PICK N \in Nat : N = Len(file.rows) /\ DOMAIN file.rows = 1 .. N
  BY SeqElements DEF IsFile, IsSeq
<1>2. ReadFrom(file.rows, from) \in SUBSET (1 .. N)
  BY <1>1 DEF ReadFrom
<1>3. IsFiniteSet(ReadFrom(file.rows, from))
  <2>1. IsFiniteSet(1 .. N)
    BY FS_Interval
  <2>. QED
    BY <1>2, <2>1, FS_Subset
<1>4. ASSUME NEW i \in ReadFrom(file.rows, from)
      PROVE  /\ Max(InRange(file.rows[i], from)) \in Nat
             /\ Max(InRange(file.rows[i], from)) \in InRange(file.rows[i], from)
             /\ \A v \in InRange(file.rows[i], from) : v <= Max(InRange(file.rows[i], from))
  <2>1. PICK R : R = InRange(file.rows[i], from)
    OBVIOUS
  <2>2. i \in DOMAIN file.rows /\ R # {}
    BY <2>1 DEF ReadFrom
  <2>3. R \in SUBSET file.rows[i].visits /\ file.rows[i].visits \in SUBSET Nat
        /\ IsFiniteSet(file.rows[i].visits)
    BY <2>1, <2>2 DEF IsFile, InRange
  <2>4. R \in SUBSET Int /\ IsFiniteSet(R) /\ R \in SUBSET Nat
    BY <2>3, FS_Subset
  <2>5. Max(R) \in R /\ \A y \in R : y <= Max(R)
    BY <2>2, <2>4, LargestOf
  <2>. QED
    BY <2>1, <2>4, <2>5
<1>. QED
  BY <1>1, <1>2, <1>3, <1>4

LEMMA NewestFirstGoes ==
    ASSUME NEW file, IsFile(file), NEW from
    PROVE  Goes(NewestFirst(file.rows, from), ReadFrom(file.rows, from), RowOrder(file.rows, from))
<1>1. PICK S, R, raw : /\ S = ReadFrom(file.rows, from) /\ R = RowOrder(file.rows, from)
                       /\ raw = [i \in S |-> Max(InRange(file.rows[i], from))]
  OBVIOUS
<1>2. IsFiniteSet(S) /\ \A i \in S : raw[i] \in Nat /\ i \in Int
  <2>1. IsFiniteSet(S) /\ S \in SUBSET (1 .. Len(file.rows)) /\ Len(file.rows) \in Nat
    BY <1>1, RowTimes
  <2>2. \A i \in S : raw[i] = Max(InRange(file.rows[i], from))
    BY <1>1
  <2>3. \A i \in S : Max(InRange(file.rows[i], from)) \in Nat
    BY <1>1, RowTimes
  <2>. QED
    BY <2>1, <2>2, <2>3
<1>3. \A i, j \in S : <<i, j>> \in R <=> raw[i] > raw[j] \/ (raw[i] = raw[j] /\ i < j)
  BY <1>1 DEF RowOrder
<1>4. StrictOrder(S, R)
  <2>1. \A s \in S : <<s, s>> \notin R
    BY <1>2, <1>3
  <2>2. \A r, s, t \in S : <<r, s>> \in R /\ <<s, t>> \in R => <<r, t>> \in R
    BY <1>2, <1>3
  <2>3. ASSUME NEW r \in S, NEW s \in S
        PROVE  r = s \/ <<r, s>> \in R \/ <<s, r>> \in R
    <3>1. r \in Int /\ s \in Int /\ raw[r] \in Nat /\ raw[s] \in Nat
      BY <1>2
    <3>2. r = s \/ raw[r] > raw[s] \/ raw[s] > raw[r]
          \/ (raw[r] = raw[s] /\ r < s) \/ (raw[s] = raw[r] /\ s < r)
      BY <3>1
    <3>. QED
      BY <1>3, <3>2
  <2>. QED
    BY <2>1, <2>2, <2>3 DEF StrictOrder
<1>5. NewestFirst(file.rows, from) = Ranked(S, R)
  BY <1>1 DEF NewestFirst, ReadFrom, RowOrder
<1>. QED
  BY <1>1, <1>2, <1>4, <1>5, RankedGoes

LEMMA SelectEntries ==
    ASSUME NEW file, IsFile(file), NEW days, NEW strict,
           NEW from, from = From(file.kind, days, strict)
    PROVE  /\ IsEntries(Select(file, days, strict))
           /\ Len(Select(file, days, strict)) = Cardinality(ReadFrom(file.rows, from))
           /\ DOMAIN Select(file, days, strict) = 1 .. Cardinality(ReadFrom(file.rows, from))
           /\ \A n \in DOMAIN Select(file, days, strict) :
                /\ NewestFirst(file.rows, from)[n] \in ReadFrom(file.rows, from)
                /\ Select(file, days, strict)[n] =
                     RowEntry(file.rows[NewestFirst(file.rows, from)[n]], from, file.kind)
<1>1. PICK S, order, es : /\ S = ReadFrom(file.rows, from) /\ order = NewestFirst(file.rows, from)
                          /\ es = Select(file, days, strict)
  OBVIOUS
<1>2. Goes(order, S, RowOrder(file.rows, from))
  BY <1>1, NewestFirstGoes
<1>3. PICK K \in Nat : K = Cardinality(S)
  BY <1>1, RowTimes, FS_CardinalityType
<1>4. DOMAIN order = 1 .. K /\ \A n \in 1 .. K : order[n] \in S
  BY <1>2, <1>3 DEF Goes
<1>5. es = [n \in 1 .. K |-> RowEntry(file.rows[order[n]], from, file.kind)]
  BY <1>1, <1>4 DEF Select
<1>6. ASSUME NEW n \in 1 .. K
      PROVE  IsEntry(es[n])
  <2>1. PICK i \in S : i = order[n]
    BY <1>4
  <2>2. es[n] = RowEntry(file.rows[i], from, file.kind)
    BY <1>5, <2>1
  <2>3. Max(InRange(file.rows[i], from)) \in Nat /\ i \in DOMAIN file.rows
    BY <1>1, RowTimes
  <2>4. file.rows[i].visit_count \in Int
    BY <2>3 DEF IsFile
  <2>. QED
    BY <2>2, <2>3, <2>4 DEF RowEntry, IsEntry
<1>7. DOMAIN es = 1 .. K /\ Len(es) = K /\ IsSeq(es)
  <2>1. PICK E : E = {es[n] : n \in 1 .. K}
    OBVIOUS
  <2>2. es \in [1 .. K -> E]
    BY <1>5, <2>1
  <2>3. es \in Seq(E) /\ Len(es) = K
    BY <2>2
  <2>. QED
    BY <2>2, <2>3, MemberIsSeq
<1>. QED
  BY <1>1, <1>3, <1>4, <1>5, <1>6, <1>7 DEF IsEntries, IsSeq

-----------------------------------------------------------------------------
(* Merging the entries of a page.                                          *)

SamePage(es, i) == {j \in DOMAIN es : es[j].url = es[i].url}

LEMMA SizeOfEntries ==
    ASSUME NEW es, IsEntries(es)
    PROVE  IsSeq(es) /\ Len(es) \in Nat /\ DOMAIN es = 1 .. Len(es)
BY SeqElements DEF IsEntries, IsSeq

LEMMA MergedFacts ==
    ASSUME NEW es, IsEntries(es), NEW i \in DOMAIN es, NEW e, e = Merged(es, i)
    PROVE  /\ IsEntry(e) /\ e.url = es[i].url /\ e.title = es[i].title
           /\ \E j \in SamePage(es, i) : e.visit_count = es[j].visit_count
           /\ \A j \in SamePage(es, i) : es[j].visit_count <= e.visit_count
           /\ \E j \in SamePage(es, i) :
                e.last_visit_raw = es[j].last_visit_raw /\ e.last_visit_time = es[j].last_visit_time
           /\ \A j \in SamePage(es, i) : es[j].last_visit_raw <= e.last_visit_raw
<1>1. PICK N \in Nat : N = Len(es) /\ DOMAIN es = 1 .. N
  BY SizeOfEntries
<1>2. PICK S : S = SamePage(es, i)
  OBVIOUS
<1>3. S \in SUBSET (1 .. N) /\ i \in S /\ IsFiniteSet(S)
  <2>1. S \in SUBSET (1 .. N) /\ i \in S
    BY <1>1, <1>2 DEF SamePage
  <2>2. IsFiniteSet(1 .. N)
    BY FS_Interval
  <2>. QED
    BY <2>1, <2>2, FS_Subset
<1>4. \A j \in S : IsEntry(es[j]) /\ es[j].visit_count \in Int /\ es[j].last_visit_raw \in Nat
  BY <1>1, <1>3 DEF IsEntries, IsEntry
<1>5. PICK C : C = {es[j].visit_count : j \in S}
  OBVIOUS
<1>6. Max(C) \in C /\ \A y \in C : y <= Max(C)
  <2>1. C \in SUBSET Int /\ C # {}
    BY <1>3, <1>4, <1>5
  <2>2. PICK f : f = [j \in S |-> es[j].visit_count]
    OBVIOUS
  <2>3. \A y \in C : \E x \in S : f[x] = y
    BY <1>5, <2>2
  <2>4. IsFiniteSet(C)
    BY <1>3, <2>3, CoveredBy
  <2>. QED
    BY <2>1, <2>4, LargestOf
<1>7. PICK newest : newest = {j \in S : \A k \in S : es[k].last_visit_raw <= es[j].last_visit_raw}
  OBVIOUS
<1>8. newest # {} /\ newest \in SUBSET Nat
  <2>1. PICK f : f = [j \in S |-> es[j].last_visit_raw]
    OBVIOUS
  <2>2. \A j \in S : f[j] \in Int
    BY <1>4, <2>1
  <2>3. PICK j \in S : \A k \in S : f[j] >= f[k]
    BY <1>3, <2>2, LargestExists
  <2>4. \A k \in S : es[k].last_visit_raw <= es[j].last_visit_raw
    BY <1>4, <2>1, <2>3
  <2>5. newest # {}
    BY <1>7, <2>4
  <2>6. newest \in SUBSET S /\ S \in SUBSET Nat
    BY <1>3, <1>7
  <2>. QED
    BY <2>5, <2>6
<1>9. PICK m \in S : m = Min(newest) /\ \A k \in S : es[k].last_visit_raw <= es[m].last_visit_raw
  <2>1. Min(newest) \in newest
    BY <1>8, MinFacts
  <2>. QED
    BY <1>7, <2>1
<1>10. e = [es[i] EXCEPT !.visit_count = Max(C), !.last_visit_raw = es[m].last_visit_raw,
                         !.last_visit_time = es[m].last_visit_time]
  BY <1>2, <1>5, <1>7, <1>9 DEF Merged, SamePage
<1>11. es[i] = [url |-> es[i].url, title |-> es[i].title, visit_count |-> es[i].visit_count,
               last_visit_raw |-> es[i].last_visit_raw, last_visit_time |-> es[i].last_visit_time]
  BY <1>3, <1>4 DEF IsEntry
<1>12. e = [url |-> es[i].url, title |-> es[i].title, visit_count |-> Max(C),
            last_visit_raw |-> es[m].last_visit_raw, last_visit_time |-> es[m].last_visit_time]
  BY <1>10, <1>11
<1>13. e.visit_count = Max(C) /\ e.last_visit_raw = es[m].last_visit_raw
       /\ e.last_visit_time = es[m].last_visit_time /\ e.url = es[i].url /\ e.title = es[i].title
  BY <1>12
<1>14. IsEntry(e)
  <2>1. Max(C) \in Int
    BY <1>4, <1>5, <1>6
  <2>2. e = [url |-> e.url, title |-> e.title, visit_count |-> e.visit_count,
            last_visit_raw |-> e.last_visit_raw, last_visit_time |-> e.last_visit_time]
    BY <1>12
  <2>. QED
    BY <1>4, <1>13, <2>1, <2>2 DEF IsEntry
<1>15. \E j \in S : e.visit_count = es[j].visit_count
  BY <1>5, <1>6, <1>13
<1>16. \A j \in S : es[j].visit_count <= e.visit_count
  BY <1>5, <1>6, <1>13
<1>17. \E j \in S : e.last_visit_raw = es[j].last_visit_raw /\ e.last_visit_time = es[j].last_visit_time
  BY <1>13
<1>18. \A j \in S : es[j].last_visit_raw <= e.last_visit_raw
  BY <1>9, <1>13
<1>. QED
  BY <1>2, <1>13, <1>14, <1>15, <1>16, <1>17, <1>18

FirstOfPage(es) == {i \in DOMAIN es : \A j \in 1 .. i - 1 : es[j].url # es[i].url}

LEMMA DeduplicatedFacts ==
    ASSUME NEW es, IsEntries(es), NEW ds, ds = Deduplicated(es)
    PROVE  /\ IsEntries(ds) /\ Len(ds) = Cardinality(FirstOfPage(es))
           /\ Goes(InOrder(FirstOfPage(es)), FirstOfPage(es),
                   {w \in FirstOfPage(es) \X FirstOfPage(es) : w[1] < w[2]})
           /\ DOMAIN InOrder(FirstOfPage(es)) = DOMAIN ds
           /\ \A n \in DOMAIN ds : /\ InOrder(FirstOfPage(es))[n] \in FirstOfPage(es)
                                   /\ ds[n] = Merged(es, InOrder(FirstOfPage(es))[n])
<1>1. PICK N \in Nat : N = Len(es) /\ DOMAIN es = 1 .. N
  BY SizeOfEntries
<1>2. PICK S, order : S = FirstOfPage(es) /\ order = InOrder(S)
  OBVIOUS
<1>3. S \in SUBSET (1 .. N) /\ S \in SUBSET Int /\ IsFiniteSet(S)
  <2>1. S \in SUBSET (1 .. N)
    BY <1>1, <1>2 DEF FirstOfPage
  <2>2. IsFiniteSet(1 .. N) /\ 1 .. N \in SUBSET Int
    BY FS_Interval
  <2>3. IsFiniteSet(S)
    BY <2>1, <2>2, FS_Subset
  <2>. QED
    BY <2>1, <2>2, <2>3
<1>4. PICK K \in Nat : K = Cardinality(S)
  BY <1>3, FS_CardinalityType
<1>5. Goes(order, S, {w \in S \X S : w[1] < w[2]})
  BY <1>2, <1>3, AscendingGoes
<1>6. DOMAIN order = 1 .. K /\ \A n \in 1 .. K : order[n] \in S
  BY <1>4, <1>5 DEF Goes
<1>7. ds = [n \in 1 .. K |-> Merged(es, order[n])]
  BY <1>2, <1>6 DEF Deduplicated, FirstOfPage
<1>8. DOMAIN ds = 1 .. K /\ Len(ds) = K /\ ds = [n \in 1 .. K |-> ds[n]]
  <2>1. PICK E : E = {ds[n] : n \in 1 .. K}
    OBVIOUS
  <2>2. ds \in [1 .. K -> E]
    BY <1>7, <2>1
  <2>. QED
    BY <2>2
<1>9. \A n \in 1 .. K : IsEntry(ds[n])
  <2>1. SUFFICES ASSUME NEW n \in 1 .. K PROVE IsEntry(ds[n])
    OBVIOUS
  <2>2. ds[n] = Merged(es, order[n]) /\ order[n] \in DOMAIN es
    BY <1>1, <1>3, <1>6, <1>7
  <2>. QED
    BY <2>2, MergedFacts
<1>10. IsEntries(ds)
  BY <1>8, <1>9 DEF IsEntries
<1>. QED
  BY <1>2, <1>4, <1>5, <1>6, <1>7, <1>8, <1>10

-----------------------------------------------------------------------------
(* The profiles that a scan finds.                                         *)

DiskTyped ==
    /\ DOMAIN disk \subseteq ToSet(BrowserTypes)
    /\ \A type \in DOMAIN disk : IsDirectory(disk[type])

PlacesOf(type) == {Direct} \cup DOMAIN disk[type].dirs

LEMMA FileTyped ==
    ASSUME DiskTyped, NEW type \in DOMAIN disk, NEW place \in PlacesOf(type)
    PROVE  IsFile(FileAt(type, place))
<1>1. IsDirectory(disk[type])
  BY DEF DiskTyped
<1>2. CASE place = Direct
  BY <1>1, <1>2 DEF FileAt, IsDirectory
<1>3. CASE place # Direct
  BY <1>1, <1>3 DEF FileAt, IsDirectory, PlacesOf
<1>. QED
  BY <1>2, <1>3

\* The first profiles of S.
FirstProfiles(type, S, ps) ==
    /\ IsSeq(ps) /\ DOMAIN ps = 1 .. Len(ps) /\ Len(ps) <= MaxProfiles
    /\ \A k \in DOMAIN ps : ps[k].place \in S /\ ps[k] = Profile(type, ps[k].place)
    /\ \A j, k \in DOMAIN ps : ps[j].place = ps[k].place => j = k
    /\ \A p \in S : (\E k \in DOMAIN ps : ps[k].place = p) <=> Cardinality({j \in S : j < p}) < MaxProfiles

LEMMA ProfileFields ==
    ASSUME NEW type, NEW place
    PROVE  /\ Profile(type, place).place = place
           /\ Profile(type, place).is_valid <=> FileAt(type, place).kind # "none"
BY DEF Profile

LEMMA FirstOfSize ==
    ASSUME NEW s, IsSeq(s), NEW n \in Nat
    PROVE  /\ IsSeq(FirstOf(s, n)) /\ Len(FirstOf(s, n)) \in Nat /\ Len(s) \in Nat
           /\ DOMAIN FirstOf(s, n) = 1 .. Len(FirstOf(s, n))
           /\ Len(FirstOf(s, n)) = IF Len(s) > n THEN n ELSE Len(s)
           /\ \A i \in DOMAIN FirstOf(s, n) : FirstOf(s, n)[i] = s[i]
<1>1. PICK m \in Nat, N \in Nat : N = Len(s) /\ m = (IF Len(s) > n THEN n ELSE Len(s)) /\ m <= N
  BY DEF IsSeq
<1>2. PICK t : t = FirstOf(s, n) /\ t = SubSeq(s, 1, m)
  BY <1>1 DEF FirstOf
<1>3. IsSeq(t) /\ Len(t) = m /\ \A i \in 1 .. m : t[i] = s[i]
  <2>1. m <= Len(s) /\ t = SubSeq(s, 1, m)
    BY <1>1, <1>2
  <2>. QED
    BY <2>1, SeqPrefix
<1>4. DOMAIN t = 1 .. Len(t)
  BY <1>3, SeqElements
<1>. QED
  BY <1>1, <1>2, <1>3, <1>4

LEMMA NumberedProfiles ==
    ASSUME NEW type, NEW S \in SUBSET Int, IsFiniteSet(S), NEW places, places = InOrder(S),
           NEW ps, ps = [i \in DOMAIN FirstOf(places, MaxProfiles) |-> Profile(type, places[i])]
    PROVE  FirstProfiles(type, S, ps)
<1>1. PICK K \in Nat : K = Cardinality(S)
  BY FS_CardinalityType
<1>2. /\ IsSeq(places) /\ Len(places) = K /\ DOMAIN places = 1 .. K
      /\ \A n \in 1 .. K : places[n] \in S
      /\ \A s \in S : \E n \in 1 .. K : places[n] = s
      /\ \A i, j \in 1 .. K : i < j => places[i] # places[j]
  <2>1. Goes(places, S, {w \in S \X S : w[1] < w[2]})
    BY AscendingGoes
  <2>. QED
    BY <1>1, <2>1 DEF Goes
<1>3. \A n \in 1 .. K : Cardinality({j \in S : j < places[n]}) = n - 1
  <2>1. \A n \in DOMAIN places : Cardinality({j \in S : j < places[n]}) = n - 1
    BY AscendingGoes
  <2>. QED
    BY <1>2, <2>1
<1>4. MaxProfiles \in Nat
  BY QueryAssumption
<1>5. PICK m \in Nat : m = (IF K > MaxProfiles THEN MaxProfiles ELSE K) /\ m <= K /\ m <= MaxProfiles
  BY <1>4
<1>6. DOMAIN FirstOf(places, MaxProfiles) = 1 .. m
  BY <1>2, <1>4, <1>5, FirstOfSize
<1>7. ps = [i \in 1 .. m |-> Profile(type, places[i])]
  BY <1>6
<1>8. IsSeq(ps) /\ DOMAIN ps = 1 .. m /\ Len(ps) = m
  <2>1. PICK E : E = {Profile(type, places[i]) : i \in 1 .. m}
    OBVIOUS
  <2>2. ps \in [1 .. m -> E]
    BY <1>7, <2>1
  <2>3. ps \in Seq(E) /\ Len(ps) = m
    BY <2>2
  <2>. QED
    BY <2>2, <2>3, MemberIsSeq
<1>9. \A k \in 1 .. m : k \in 1 .. K /\ ps[k].place = places[k] /\ ps[k] = Profile(type, places[k])
  BY <1>5, <1>7, ProfileFields
<1>10. \A j, k \in 1 .. m : ps[j].place = ps[k].place => j = k
  <2>1. SUFFICES ASSUME NEW j \in 1 .. m, NEW k \in 1 .. m, j # k
                 PROVE  places[j] # places[k]
    BY <1>9
  <2>2. j < k \/ k < j
    BY <2>1
  <2>3. j \in 1 .. K /\ k \in 1 .. K
    BY <1>9
  <2>4. \A a, b \in 1 .. K : a < b => places[a] # places[b]
    BY <1>2
  <2>. QED
    BY <2>2, <2>3, <2>4
<1>11. ASSUME NEW p \in S
       PROVE  (\E k \in 1 .. m : ps[k].place = p) <=> Cardinality({j \in S : j < p}) < MaxProfiles
  <2>1. PICK n \in 1 .. K : places[n] = p /\ Cardinality({j \in S : j < p}) = n - 1
    BY <1>2, <1>3
  <2>2. n \in 1 .. m <=> n - 1 < MaxProfiles
    BY <1>4, <1>5
  <2>3. ASSUME NEW k \in 1 .. m, ps[k].place = p
        PROVE  n \in 1 .. m
    <3>1. places[k] = places[n] /\ k \in 1 .. K
      BY <1>9, <2>1, <2>3
    <3>2. k = n
      BY <1>2, <3>1
    <3>. QED
      BY <3>2
  <2>4. n \in 1 .. m => ps[n].place = p
    BY <1>9, <2>1
  <2>. QED
    BY <2>1, <2>2, <2>3, <2>4
<1>12. \A k \in 1 .. m : ps[k].place \in S /\ ps[k] = Profile(type, ps[k].place)
  BY <1>2, <1>9
<1>. QED
  <2>1. IsSeq(ps) /\ DOMAIN ps = 1 .. Len(ps) /\ Len(ps) <= MaxProfiles
    BY <1>5, <1>8
  <2>2. \A k \in DOMAIN ps : ps[k].place \in S /\ ps[k] = Profile(type, ps[k].place)
    BY <1>8, <1>12
  <2>3. \A j, k \in DOMAIN ps : ps[j].place = ps[k].place => j = k
    BY <1>8, <1>10
  <2>4. \A p \in S : (\E k \in DOMAIN ps : ps[k].place = p) <=> Cardinality({j \in S : j < p}) < MaxProfiles
    BY <1>8, <1>11
  <2>. QED
    BY <2>1, <2>2, <2>3, <2>4 DEF FirstProfiles

\* The profiles of a browser, and those of them that hold a database.
AreProfiles(type, ps) ==
    /\ IsSeq(ps) /\ DOMAIN ps = 1 .. Len(ps) /\ Len(ps) <= MaxProfiles
    /\ \A k \in DOMAIN ps : ps[k].place \in PlacesOf(type)
    /\ \A j, k \in DOMAIN ps : ps[j].place = ps[k].place => j = k
    /\ \A p : (\E k \in DOMAIN ps : ps[k].is_valid /\ ps[k].place = p) <=> p \in Databases(type)

LEMMA ChromiumFacts ==
    ASSUME DiskTyped, NEW type \in DOMAIN disk, type # "firefox", NEW ps, ps = ChromiumProfiles(type)
    PROVE  AreProfiles(type, ps)
<1>1. PICK S : S = DOMAIN disk[type].dirs \cap (0 .. MaxNumbered)
  OBVIOUS
<1>2. S \in SUBSET Int /\ IsFiniteSet(S) /\ Direct \notin S /\ S \subseteq DOMAIN disk[type].dirs
  <2>1. S \in SUBSET (0 .. MaxNumbered) /\ MaxNumbered \in Nat
    BY <1>1, QueryAssumption
  <2>2. IsFiniteSet(0 .. MaxNumbered)
    BY <2>1, FS_Interval
  <2>3. IsFiniteSet(S)
    BY <2>1, <2>2, FS_Subset
  <2>4. S \in SUBSET Int /\ Direct \notin S
    BY <2>1 DEF Direct
  <2>. QED
    BY <1>1, <2>3, <2>4
<1>3. PICK numbered : numbered = InOrder(S)
  OBVIOUS
<1>4. IsSeq(numbered) /\ (numbered = <<>> <=> S = {})
  <2>1. Goes(numbered, S, {w \in S \X S : w[1] < w[2]})
    BY <1>2, <1>3, AscendingGoes
  <2>2. IsSeq(numbered) /\ Len(numbered) = Cardinality(S)
    BY <2>1 DEF Goes
  <2>3. Cardinality(S) = 0 <=> S = {}
    BY <1>2, FS_EmptySet
  <2>4. numbered = <<>> <=> Len(numbered) = 0
    BY <2>2 DEF IsSeq
  <2>. QED
    BY <2>2, <2>3, <2>4
<1>5. CASE S # {} \/ disk[type].direct.kind = "none"
  <2>1. ps = [i \in DOMAIN FirstOf(numbered, MaxProfiles) |-> Profile(type, numbered[i])]
    BY <1>1, <1>3, <1>4, <1>5 DEF ChromiumProfiles
  <2>2. FirstProfiles(type, S, ps)
    BY <1>2, <1>3, <2>1, NumberedProfiles
  <2>3. ASSUME NEW p
        PROVE  (\E k \in DOMAIN ps : ps[k].is_valid /\ ps[k].place = p) <=> p \in Databases(type)
    <3>1. p \in Databases(type) <=>
            /\ p \in S /\ disk[type].dirs[p].kind # "none"
            /\ Cardinality({k \in S : k < p}) < MaxProfiles
      <4>1. CASE S = {}
        <5>1. Databases(type) = {}
          BY <1>1, <1>5, <4>1 DEF Databases
        <5>. QED
          BY <4>1, <5>1
      <4>2. CASE S # {}
        BY <1>1, <4>2 DEF Databases
      <4>. QED
        BY <4>1, <4>2
    <3>2. \A k \in DOMAIN ps : /\ ps[k].place \in S
                               /\ ps[k].is_valid <=> disk[type].dirs[ps[k].place].kind # "none"
      <4>1. SUFFICES ASSUME NEW k \in DOMAIN ps
                     PROVE  /\ ps[k].place \in S
                            /\ ps[k].is_valid <=> disk[type].dirs[ps[k].place].kind # "none"
        OBVIOUS
      <4>2. ps[k].place \in S /\ ps[k] = Profile(type, ps[k].place)
        BY <2>2 DEF FirstProfiles
      <4>3. ps[k].is_valid <=> FileAt(type, ps[k].place).kind # "none"
        BY <4>2, ProfileFields
      <4>. QED
        BY <1>2, <4>2, <4>3 DEF FileAt
    <3>3. \A s \in S : (\E k \in DOMAIN ps : ps[k].place = s) <=> Cardinality({j \in S : j < s}) < MaxProfiles
      BY <2>2 DEF FirstProfiles
    <3>4. CASE p \in S
      BY <3>1, <3>2, <3>3, <3>4
    <3>5. CASE p \notin S
      BY <3>1, <3>2, <3>5
    <3>. QED
      BY <3>4, <3>5
  <2>. QED
    BY <1>2, <2>2, <2>3 DEF AreProfiles, FirstProfiles, PlacesOf
<1>6. CASE S = {} /\ disk[type].direct.kind # "none"
  <2>1. PICK places : places = <<Direct>>
    OBVIOUS
  <2>2. IsSeq(places) /\ Len(places) = 1 /\ places[1] = Direct
    BY <2>1 DEF IsSeq
  <2>3. MaxProfiles \in Nat /\ MaxProfiles >= 1
    BY QueryAssumption
  <2>4. Len(FirstOf(places, MaxProfiles)) = 1
    BY <2>2, <2>3, FirstOfSize
  <2>5. DOMAIN FirstOf(places, MaxProfiles) = 1 .. 1
    BY <2>2, <2>3, <2>4, FirstOfSize
  <2>6. ps = [i \in 1 .. 1 |-> Profile(type, places[i])]
    BY <1>1, <1>3, <1>4, <1>6, <2>1, <2>5 DEF ChromiumProfiles
  <2>7. ps[1].place = Direct /\ ps[1].is_valid
    BY <1>6, <2>2, <2>6, ProfileFields DEF FileAt
  <2>8. DOMAIN ps = 1 .. 1 /\ IsSeq(ps) /\ Len(ps) = 1
    <3>1. PICK m \in Nat : m = 1
      OBVIOUS
    <3>2. PICK E : E = {Profile(type, places[i]) : i \in 1 .. m}
      OBVIOUS
    <3>3. ps \in [1 .. m -> E]
      BY <2>6, <3>1, <3>2
    <3>4. ps \in Seq(E) /\ Len(ps) = m
      BY <3>3
    <3>. QED
      BY <3>1, <3>3, <3>4, MemberIsSeq
  <2>9. Databases(type) = {Direct}
    BY <1>1, <1>6 DEF Databases
  <2>10. ASSUME NEW p
         PROVE  (\E k \in DOMAIN ps : ps[k].is_valid /\ ps[k].place = p) <=> p \in Databases(type)
    <3>1. \A k \in DOMAIN ps : k = 1
      BY <2>8
    <3>. QED
      BY <2>7, <2>8, <2>9, <3>1
  <2>11. \A j, k \in DOMAIN ps : j = k
    BY <2>8
  <2>12. \A k \in DOMAIN ps : ps[k].place \in PlacesOf(type)
    BY <2>7, <2>8 DEF PlacesOf
  <2>13. DOMAIN ps = 1 .. Len(ps) /\ Len(ps) <= MaxProfiles
    BY <2>3, <2>8
  <2>. QED
    BY <2>8, <2>10, <2>11, <2>12, <2>13 DEF AreProfiles
<1>. QED
  BY <1>5, <1>6

LEMMA FirefoxFacts ==
    ASSUME DiskTyped, NEW type \in DOMAIN disk, type = "firefox", NEW ps, ps = FirefoxProfiles(type)
    PROVE  AreProfiles(type, ps)
<1>1. PICK S : S = {i \in DOMAIN disk[type].dirs : ~disk[type].dirs[i].hidden /\ disk[type].dirs[i].kind # "none"}
  OBVIOUS
<1>2. S \in SUBSET Int /\ IsFiniteSet(S) /\ Direct \notin S /\ S \subseteq DOMAIN disk[type].dirs
  <2>1. DOMAIN disk[type].dirs \in SUBSET Nat /\ IsFiniteSet(DOMAIN disk[type].dirs)
    BY DEF DiskTyped, IsDirectory
  <2>2. S \in SUBSET DOMAIN disk[type].dirs
    BY <1>1
  <2>3. IsFiniteSet(S)
    BY <2>1, <2>2, FS_Subset
  <2>4. S \in SUBSET Int /\ Direct \notin S
    BY <2>1, <2>2 DEF Direct
  <2>. QED
    BY <2>2, <2>3, <2>4
<1>3. PICK places : places = InOrder(S)
  OBVIOUS
<1>4. ps = [i \in DOMAIN FirstOf(places, MaxProfiles) |-> Profile(type, places[i])]
  BY <1>1, <1>3 DEF FirefoxProfiles
<1>5. FirstProfiles(type, S, ps)
  BY <1>2, <1>3, <1>4, NumberedProfiles
<1>6. ASSUME NEW p
      PROVE  (\E k \in DOMAIN ps : ps[k].is_valid /\ ps[k].place = p) <=> p \in Databases(type)
  <2>1. p \in Databases(type) <=> p \in S /\ Cardinality({k \in S : k < p}) < MaxProfiles
    <3>1. Databases(type) = {q \in S : disk[type].dirs[q].kind # "none" /\ Cardinality({k \in S : k < q}) < MaxProfiles}
      BY <1>1 DEF Databases
    <3>2. \A q \in S : disk[type].dirs[q].kind # "none"
      BY <1>1
    <3>. QED
      BY <3>1, <3>2
  <2>2. \A k \in DOMAIN ps : ps[k].place \in S /\ ps[k].is_valid
    <3>1. SUFFICES ASSUME NEW k \in DOMAIN ps
                   PROVE  ps[k].place \in S /\ ps[k].is_valid
      OBVIOUS
    <3>2. ps[k].place \in S /\ ps[k] = Profile(type, ps[k].place)
      BY <1>5 DEF FirstProfiles
    <3>3. ps[k].is_valid <=> FileAt(type, ps[k].place).kind # "none"
      BY <3>2, ProfileFields
    <3>4. FileAt(type, ps[k].place) = disk[type].dirs[ps[k].place]
      BY <1>2, <3>2 DEF FileAt
    <3>5. disk[type].dirs[ps[k].place].kind # "none"
      BY <1>1, <3>2
    <3>. QED
      BY <3>2, <3>3, <3>4, <3>5
  <2>3. \A s \in S : (\E k \in DOMAIN ps : ps[k].place = s) <=> Cardinality({j \in S : j < s}) < MaxProfiles
    BY <1>5 DEF FirstProfiles
  <2>4. CASE p \in S
    BY <2>1, <2>2, <2>3, <2>4
  <2>5. CASE p \notin S
    BY <2>1, <2>2, <2>5
  <2>. QED
    BY <2>4, <2>5
<1>. QED
  BY <1>2, <1>5, <1>6 DEF AreProfiles, FirstProfiles, PlacesOf

LEMMA ProfilesFacts ==
    ASSUME DiskTyped, NEW type \in DOMAIN disk
    PROVE  AreProfiles(type, Profiles(type))
BY ChromiumFacts, FirefoxFacts DEF Profiles

-----------------------------------------------------------------------------
(* A profile that goes away.                                               *)

LEMMA LostFile ==
    ASSUME NEW file, IsFile(file), NEW g, g = [file EXCEPT !.kind = "lost"]
    PROVE  IsFile(g) /\ g.kind = "lost" /\ g.hidden = file.hidden /\ g.rows = file.rows
<1>1. file = [kind |-> file.kind, hidden |-> file.hidden, rows |-> file.rows]
  BY DEF IsFile
<1>2. g = [kind |-> "lost", hidden |-> file.hidden, rows |-> file.rows]
  BY <1>1
<1>3. g.kind = "lost" /\ g.hidden = file.hidden /\ g.rows = file.rows
  BY <1>2
<1>4. g = [kind |-> g.kind, hidden |-> g.hidden, rows |-> g.rows]
  BY <1>2, <1>3
<1>. QED
  BY <1>3, <1>4 DEF IsFile

\* A file that is as it was, or lost.
MayBeLost(file, g, lost) ==
    /\ g.hidden = file.hidden /\ g.rows = file.rows
    /\ g.kind = file.kind \/ (lost /\ g.kind = "lost")

\* A directory that lost the file at a place.
WithLost(d, place) ==
    IF place = Direct THEN [d EXCEPT !.direct.kind = "lost"] ELSE [d EXCEPT !.dirs[place].kind = "lost"]

LEMMA LostDirectory ==
    ASSUME NEW d, IsDirectory(d), NEW place \in {Direct} \cup DOMAIN d.dirs,
           NEW e, e = WithLost(d, place)
    PROVE  /\ IsDirectory(e) /\ DOMAIN e.dirs = DOMAIN d.dirs
           /\ MayBeLost(d.direct, e.direct, place = Direct)
           /\ \A n \in DOMAIN d.dirs : MayBeLost(d.dirs[n], e.dirs[n], place = n)
<1>1. /\ d = [dirs |-> d.dirs, direct |-> d.direct]
      /\ DOMAIN d.dirs \in SUBSET Nat /\ IsFiniteSet(DOMAIN d.dirs)
      /\ IsFile(d.direct) /\ \A n \in DOMAIN d.dirs : IsFile(d.dirs[n])
  BY DEF IsDirectory
<1>2. \A file : MayBeLost(file, file, FALSE) /\ MayBeLost(file, file, TRUE)
  BY DEF MayBeLost
<1>3. CASE place = Direct
  <2>1. PICK g : g = [d.direct EXCEPT !.kind = "lost"]
    OBVIOUS
  <2>2. e = [dirs |-> d.dirs, direct |-> g]
    BY <1>1, <1>3, <2>1 DEF WithLost
  <2>3. e.dirs = d.dirs /\ e.direct = g
    BY <2>2
  <2>4. IsFile(g) /\ g.kind = "lost" /\ g.hidden = d.direct.hidden /\ g.rows = d.direct.rows
    BY <1>1, <2>1, LostFile
  <2>5. IsDirectory(e)
    BY <1>1, <2>2, <2>3, <2>4 DEF IsDirectory
  <2>6. MayBeLost(d.direct, e.direct, TRUE)
    BY <2>3, <2>4 DEF MayBeLost
  <2>7. \A n \in DOMAIN d.dirs : n # Direct
    BY <1>1 DEF Direct
  <2>8. \A n \in DOMAIN d.dirs : MayBeLost(d.dirs[n], e.dirs[n], place = n)
    BY <2>3 DEF MayBeLost
  <2>. QED
    BY <1>3, <2>3, <2>5, <2>6, <2>8 DEF MayBeLost
<1>4. CASE place # Direct
  <2>1. PICK g : g = [d.dirs[place] EXCEPT !.kind = "lost"]
    OBVIOUS
  <2>2. PICK x : x = [d.dirs EXCEPT ![place] = g]
    OBVIOUS
  <2>3. e = [dirs |-> x, direct |-> d.direct]
    BY <1>1, <1>4, <2>1, <2>2 DEF WithLost
  <2>4. e.dirs = x /\ e.direct = d.direct
    BY <2>3
  <2>5. IsFile(g) /\ g.kind = "lost" /\ g.hidden = d.dirs[place].hidden /\ g.rows = d.dirs[place].rows
    BY <1>1, <1>4, <2>1, LostFile
  <2>6. DOMAIN x = DOMAIN d.dirs /\ \A n \in DOMAIN x : x[n] = IF n = place THEN g ELSE d.dirs[n]
    BY <2>2
  <2>7. \A n \in DOMAIN x : IsFile(x[n])
    BY <1>1, <2>5, <2>6
  <2>8. IsDirectory(e)
    BY <1>1, <2>3, <2>4, <2>6, <2>7 DEF IsDirectory
  <2>9. \A n \in DOMAIN d.dirs : MayBeLost(d.dirs[n], e.dirs[n], place = n)
    BY <2>4, <2>5, <2>6 DEF MayBeLost
  <2>10. MayBeLost(d.direct, e.direct, place = Direct)
    BY <2>4 DEF MayBeLost
  <2>. QED
    BY <2>4, <2>6, <2>8, <2>9, <2>10
<1>. QED
  BY <1>3, <1>4

LEMMA LostProfile ==
    ASSUME DiskTyped, NEW type \in DOMAIN disk, NEW place \in PlacesOf(type),
           disk' = IF place = Direct THEN [disk EXCEPT ![type].direct.kind = "lost"]
                   ELSE [disk EXCEPT ![type].dirs[place].kind = "lost"]
    PROVE  /\ DiskTyped' /\ DOMAIN disk' = DOMAIN disk
           /\ \A t \in DOMAIN disk :
                /\ DOMAIN disk'[t].dirs = DOMAIN disk[t].dirs
                /\ MayBeLost(disk[t].direct, disk'[t].direct, t = type /\ place = Direct)
                /\ \A n \in DOMAIN disk[t].dirs :
                      MayBeLost(disk[t].dirs[n], disk'[t].dirs[n], t = type /\ place = n)
<1>1. PICK d, e : d = disk[type] /\ e = WithLost(d, place)
  OBVIOUS
<1>2. disk' = [disk EXCEPT ![type] = e]
  BY <1>1 DEF WithLost
<1>3. DOMAIN disk' = DOMAIN disk /\ \A t \in DOMAIN disk : disk'[t] = IF t = type THEN e ELSE disk[t]
  BY <1>2
<1>4. \A t \in DOMAIN disk : IsDirectory(disk[t])
  BY DEF DiskTyped
<1>5. /\ IsDirectory(e) /\ DOMAIN e.dirs = DOMAIN disk[type].dirs
      /\ MayBeLost(disk[type].direct, e.direct, place = Direct)
      /\ \A n \in DOMAIN disk[type].dirs : MayBeLost(disk[type].dirs[n], e.dirs[n], place = n)
  <2>1. place \in {Direct} \cup DOMAIN d.dirs /\ IsDirectory(d)
    BY <1>1, <1>4 DEF PlacesOf
  <2>2. /\ IsDirectory(e) /\ DOMAIN e.dirs = DOMAIN d.dirs
        /\ MayBeLost(d.direct, e.direct, place = Direct)
        /\ \A n \in DOMAIN d.dirs : MayBeLost(d.dirs[n], e.dirs[n], place = n)
    BY <1>1, <2>1, LostDirectory
  <2>. QED
    BY <1>1, <2>2
<1>6. \A t \in DOMAIN disk : IsDirectory(disk'[t])
  BY <1>3, <1>4, <1>5
<1>7. DiskTyped'
  BY <1>3, <1>6 DEF DiskTyped
<1>8. ASSUME NEW t \in DOMAIN disk
      PROVE  /\ DOMAIN disk'[t].dirs = DOMAIN disk[t].dirs
             /\ MayBeLost(disk[t].direct, disk'[t].direct, t = type /\ place = Direct)
             /\ \A n \in DOMAIN disk[t].dirs :
                   MayBeLost(disk[t].dirs[n], disk'[t].dirs[n], t = type /\ place = n)
  <2>1. CASE t = type
    BY <1>3, <1>5, <2>1 DEF MayBeLost
  <2>2. CASE t # type
    BY <1>3, <2>2 DEF MayBeLost
  <2>. QED
    BY <2>1, <2>2
<1>. QED
  BY <1>3, <1>7, <1>8

-----------------------------------------------------------------------------
(* Lists of entries.                                                       *)

LEMMA FirstEntries ==
    ASSUME NEW es, IsEntries(es), NEW n \in Nat, n <= Len(es), NEW fs, fs = SubSeq(es, 1, n)
    PROVE  IsEntries(fs) /\ Len(fs) = n
<1>1. IsSeq(es) /\ DOMAIN es = 1 .. Len(es) /\ Len(es) \in Nat
  BY SizeOfEntries
<1>2. IsSeq(fs) /\ Len(fs) = n /\ \A i \in 1 .. n : fs[i] = es[i]
  BY <1>1, SeqPrefix
<1>3. DOMAIN fs = 1 .. n
  BY <1>2, SeqElements
<1>4. \A i \in DOMAIN fs : IsEntry(fs[i])
  BY <1>1, <1>2, <1>3 DEF IsEntries
<1>. QED
  BY <1>2, <1>4 DEF IsEntries, IsSeq

LEMMA MoreEntries ==
    ASSUME NEW es, IsEntries(es), NEW fs, IsEntries(fs), NEW gs, gs = es \o fs
    PROVE  IsEntries(gs) /\ Len(gs) = Len(es) + Len(fs)
<1>1. IsSeq(es) /\ IsSeq(fs) /\ DOMAIN es = 1 .. Len(es) /\ DOMAIN fs = 1 .. Len(fs)
  BY SizeOfEntries
<1>2. PICK E, F, G : E = {es[i] : i \in 1 .. Len(es)} /\ F = {fs[i] : i \in 1 .. Len(fs)} /\ G = E \cup F
  OBVIOUS
<1>3. \A e \in G : IsEntry(e)
  BY <1>1, <1>2 DEF IsEntries
<1>4. es \in Seq(G) /\ fs \in Seq(G)
  <2>1. PICK m \in Nat, n \in Nat : m = Len(es) /\ n = Len(fs)
    BY <1>1 DEF IsSeq
  <2>2. es \in [1 .. m -> G]
    BY <1>1, <1>2, <2>1 DEF IsSeq
  <2>3. fs \in [1 .. n -> G]
    BY <1>1, <1>2, <2>1 DEF IsSeq
  <2>. QED
    BY <2>2, <2>3
<1>5. gs \in Seq(G) /\ Len(gs) = Len(es) + Len(fs)
  BY <1>4
<1>6. IsSeq(gs) /\ DOMAIN gs = 1 .. Len(gs)
  BY <1>5, MemberIsSeq, SeqElements
<1>7. \A i \in DOMAIN gs : IsEntry(gs[i])
  <2>1. \A i \in DOMAIN gs : gs[i] \in G
    BY <1>5, ElementOfSeq, <1>6
  <2>. QED
    BY <1>3, <2>1
<1>. QED
  BY <1>5, <1>6, <1>7 DEF IsEntries, IsSeq

-----------------------------------------------------------------------------
(* The profiles that are queried.                                          *)

LEMMA SevenTypes ==
    /\ DOMAIN BrowserTypes = 1 .. 7
    /\ \A i, j \in 1 .. 7 : BrowserTypes[i] = BrowserTypes[j] => i = j
    /\ \A t \in ToSet(BrowserTypes) : \E i \in 1 .. 7 : BrowserTypes[i] = t
<1>1. Len(BrowserTypes) = 7 /\ DOMAIN BrowserTypes = 1 .. 7
  BY DEF BrowserTypes
<1>2. \A i, j \in 1 .. 7 : BrowserTypes[i] = BrowserTypes[j] => i = j
  <2>1. /\ BrowserTypes[1] = "brave" /\ BrowserTypes[2] = "chrome" /\ BrowserTypes[3] = "chromium"
        /\ BrowserTypes[4] = "edge" /\ BrowserTypes[5] = "vivaldi" /\ BrowserTypes[6] = "opera"
        /\ BrowserTypes[7] = "firefox"
    BY DEF BrowserTypes
  <2>2. \A i \in 1 .. 7 : i = 1 \/ i = 2 \/ i = 3 \/ i = 4 \/ i = 5 \/ i = 6 \/ i = 7
    OBVIOUS
  <2>. QED
    BY <2>1, <2>2
<1>3. \A t \in ToSet(BrowserTypes) : \E i \in 1 .. 7 : BrowserTypes[i] = t
  BY <1>1 DEF ToSet
<1>. QED
  BY <1>1, <1>2, <1>3

\* What browser_scan found: every browser that has profiles, once, with them.
Scanned(sc) ==
    /\ IsSeq(sc) /\ DOMAIN sc = 1 .. Len(sc)
    /\ \A i \in DOMAIN sc : /\ sc[i].type \in DOMAIN disk /\ sc[i].profiles # <<>>
                            /\ sc[i].profiles = Profiles(sc[i].type)
    /\ \A i, j \in DOMAIN sc : sc[i].type = sc[j].type => i = j
    /\ \A t \in DOMAIN disk : Profiles(t) # <<>> => \E i \in DOMAIN sc : sc[i].type = t

LEMMA ScanFacts ==
    ASSUME DiskTyped, NEW sc, sc = BrowserScan
    PROVE  Scanned(sc)
<1>1. PICK S : S = {n \in DOMAIN BrowserTypes : BrowserTypes[n] \in DOMAIN disk /\ Profiles(BrowserTypes[n]) # <<>>}
  OBVIOUS
<1>2. S \in SUBSET (1 .. 7)
  BY <1>1, SevenTypes
<1>3. S \in SUBSET Int /\ IsFiniteSet(S)
  <2>1. PICK m \in Nat : m = 7
    OBVIOUS
  <2>2. IsFiniteSet(1 .. m)
    BY FS_Interval
  <2>3. S \in SUBSET (1 .. m)
    BY <1>2, <2>1
  <2>4. IsFiniteSet(S)
    BY <2>2, <2>3, FS_Subset
  <2>5. S \in SUBSET Int
    BY <2>3
  <2>. QED
    BY <2>4, <2>5
<1>4. PICK K \in Nat : K = Cardinality(S)
  BY <1>3, FS_CardinalityType
<1>5. PICK at : at = InOrder(S)
  OBVIOUS
<1>6. /\ DOMAIN at = 1 .. K /\ \A n \in 1 .. K : at[n] \in S
      /\ \A i, j \in 1 .. K : i < j => at[i] # at[j]
      /\ \A s \in S : \E n \in 1 .. K : at[n] = s
  <2>1. Goes(at, S, {w \in S \X S : w[1] < w[2]})
    BY <1>3, <1>5, AscendingGoes
  <2>. QED
    BY <1>4, <2>1 DEF Goes
<1>7. PICK found : found = [n \in 1 .. K |-> BrowserTypes[at[n]]]
  OBVIOUS
<1>8. found = Selected(BrowserTypes, S) /\ DOMAIN found = 1 .. K
  BY <1>5, <1>6, <1>7 DEF Selected
<1>9. sc = [i \in 1 .. K |-> [type |-> found[i], profiles |-> Profiles(found[i])]]
  BY <1>1, <1>8 DEF BrowserScan
<1>10. \A i \in 1 .. K : sc[i].type = BrowserTypes[at[i]] /\ sc[i].profiles = Profiles(sc[i].type)
  BY <1>7, <1>9
<1>11. \A i \in 1 .. K : sc[i].type \in DOMAIN disk /\ sc[i].profiles # <<>>
  BY <1>1, <1>6, <1>10
<1>12. \A i, j \in 1 .. K : sc[i].type = sc[j].type => i = j
  <2>1. SUFFICES ASSUME NEW i \in 1 .. K, NEW j \in 1 .. K, sc[i].type = sc[j].type
                 PROVE  i = j
    OBVIOUS
  <2>2. at[i] \in 1 .. 7 /\ at[j] \in 1 .. 7 /\ BrowserTypes[at[i]] = BrowserTypes[at[j]]
    BY <1>2, <1>6, <1>10, <2>1
  <2>3. at[i] = at[j]
    BY <2>2, SevenTypes
  <2>4. i < j \/ j < i \/ i = j
    BY <1>4
  <2>. QED
    BY <1>6, <2>3, <2>4
<1>13. \A t \in DOMAIN disk : Profiles(t) # <<>> => \E i \in 1 .. K : sc[i].type = t
  <2>1. SUFFICES ASSUME NEW t \in DOMAIN disk, Profiles(t) # <<>>
                 PROVE  \E i \in 1 .. K : sc[i].type = t
    OBVIOUS
  <2>2. PICK n \in 1 .. 7 : BrowserTypes[n] = t
    BY SevenTypes DEF DiskTyped
  <2>3. n \in S
    BY <1>1, <2>1, <2>2, SevenTypes
  <2>. QED
    BY <1>6, <1>10, <2>2, <2>3
<1>14. IsSeq(sc) /\ DOMAIN sc = 1 .. K /\ Len(sc) = K
  <2>1. PICK E : E = {sc[i] : i \in 1 .. K}
    OBVIOUS
  <2>2. sc \in [1 .. K -> E]
    BY <1>9, <2>1
  <2>3. sc \in Seq(E) /\ Len(sc) = K
    BY <2>2
  <2>. QED
    BY <2>2, <2>3, MemberIsSeq
<1>. QED
  BY <1>10, <1>11, <1>12, <1>13, <1>14 DEF Scanned

IsPair(w) == w = <<w[1], w[2]>> /\ w[1] \in Int /\ w[2] \in Int

\* The place of a profile.
PlaceAt(browsers, w) == <<browsers[w[1]].type, browsers[w[1]].profiles[w[2]].place>>

\* q has the places of the profiles S, in the order of loop.
LoopOver(loop, browsers, S, q) ==
    /\ IsSeq(q) /\ DOMAIN q = DOMAIN loop
    /\ \A n \in DOMAIN loop : loop[n] \in S /\ q[n] = PlaceAt(browsers, loop[n])
    /\ \A i, j \in DOMAIN loop : loop[i] = loop[j] => i = j
    /\ \A w \in S : \E n \in DOMAIN loop : loop[n] = w

LEMMA LoopedGoes ==
    ASSUME NEW S, IsFiniteSet(S), \A w \in S : IsPair(w), NEW browsers, NEW q, q = Looped(browsers, S)
    PROVE  \E loop : LoopOver(loop, browsers, S, q)
<1>1. PICK R : R = {w \in S \X S : \/ w[1][1] < w[2][1]
                                   \/ w[1][1] = w[2][1] /\ w[1][2] < w[2][2]}
  OBVIOUS
<1>2. \A r, s \in S : <<r, s>> \in R <=> r[1] < s[1] \/ (r[1] = s[1] /\ r[2] < s[2])
  BY <1>1
<1>3. StrictOrder(S, R)
  <2>1. \A s \in S : <<s, s>> \notin R
    BY <1>2 DEF IsPair
  <2>2. \A r, s, t \in S : <<r, s>> \in R /\ <<s, t>> \in R => <<r, t>> \in R
    BY <1>2 DEF IsPair
  <2>3. ASSUME NEW r \in S, NEW s \in S
        PROVE  r = s \/ <<r, s>> \in R \/ <<s, r>> \in R
    <3>1. PICK a \in Int, b \in Int, c \in Int, d \in Int :
            a = r[1] /\ b = r[2] /\ c = s[1] /\ d = s[2] /\ r = <<a, b>> /\ s = <<c, d>>
      BY DEF IsPair
    <3>2. (a = c /\ b = d) \/ a < c \/ c < a \/ (a = c /\ b < d) \/ (c = a /\ d < b)
      OBVIOUS
    <3>. QED
      BY <1>2, <3>1, <3>2
  <2>. QED
    BY <2>1, <2>2, <2>3 DEF StrictOrder
<1>4. PICK loop : loop = Ranked(S, R)
  OBVIOUS
<1>5. Goes(loop, S, R)
  BY <1>3, <1>4, RankedGoes
<1>6. PICK K \in Nat : K = Cardinality(S)
  BY FS_CardinalityType
<1>7. /\ DOMAIN loop = 1 .. K /\ \A n \in 1 .. K : loop[n] \in S
      /\ \A i, j \in 1 .. K : i < j => loop[i] # loop[j]
      /\ \A w \in S : \E n \in 1 .. K : loop[n] = w
  BY <1>5, <1>6 DEF Goes
<1>8. \A i, j \in 1 .. K : loop[i] = loop[j] => i = j
  <2>1. SUFFICES ASSUME NEW i \in 1 .. K, NEW j \in 1 .. K, i # j
                 PROVE  loop[i] # loop[j]
    OBVIOUS
  <2>2. i < j \/ j < i
    BY <2>1
  <2>. QED
    BY <1>7, <2>2
<1>9. q = [n \in 1 .. K |-> PlaceAt(browsers, loop[n])]
  BY <1>1, <1>4, <1>7 DEF Looped, PlaceAt
<1>10. IsSeq(q) /\ DOMAIN q = 1 .. K
  <2>1. PICK E : E = {PlaceAt(browsers, loop[n]) : n \in 1 .. K}
    OBVIOUS
  <2>2. q \in [1 .. K -> E]
    BY <1>9, <2>1
  <2>3. q \in Seq(E)
    BY <2>2
  <2>. QED
    BY <2>2, <2>3, MemberIsSeq
<1>11. LoopOver(loop, browsers, S, q)
  BY <1>7, <1>8, <1>9, <1>10 DEF LoopOver
<1>. QED
  BY <1>11

\* A queue of places of Types that hold a database, each of them once.
PlacesToRead(q, Types) ==
    /\ IsSeq(q) /\ DOMAIN q = 1 .. Len(q)
    /\ \A n \in DOMAIN q : /\ q[n] = <<q[n][1], q[n][2]>> /\ q[n][1] \in DOMAIN disk
                           /\ q[n][2] \in PlacesOf(q[n][1])
    /\ \A i, j \in DOMAIN q : q[i] = q[j] => i = j
    /\ \A t, p : (\E n \in DOMAIN q : q[n] = <<t, p>>) <=>
                   t \in Types /\ t \in DOMAIN disk /\ p \in Databases(t)

LEMMA QueueFacts ==
    ASSUME DiskTyped, NEW sc, Scanned(sc), NEW Types, NEW q, q = ToQuery(sc, Types)
    PROVE  PlacesToRead(q, Types)
<1>1. PICK S : S = {w \in AllProfiles(sc) : sc[w[1]].type \in Types /\ sc[w[1]].profiles[w[2]].is_valid}
  OBVIOUS
<1>2. PICK N \in Nat : N = Len(sc) /\ DOMAIN sc = 1 .. N
  BY DEF Scanned, IsSeq
<1>3. \A i \in 1 .. N : /\ sc[i].type \in DOMAIN disk /\ sc[i].profiles = Profiles(sc[i].type)
                        /\ AreProfiles(sc[i].type, sc[i].profiles)
  BY <1>2, ProfilesFacts DEF Scanned
<1>4. MaxProfiles \in Nat
  BY QueryAssumption
<1>5. S \in SUBSET ((1 .. N) \X (1 .. MaxProfiles))
  BY <1>1, <1>2 DEF AllProfiles
<1>6. IsFiniteSet(S)
  <2>1. IsFiniteSet(1 .. N) /\ IsFiniteSet(1 .. MaxProfiles)
    BY <1>4, FS_Interval
  <2>2. IsFiniteSet((1 .. N) \X (1 .. MaxProfiles))
    BY <2>1, FS_Product
  <2>. QED
    BY <1>5, <2>2, FS_Subset
<1>7. \A w \in S : IsPair(w) /\ w[1] \in 1 .. N
  BY <1>4, <1>5 DEF IsPair
<1>8. PICK loop : /\ IsSeq(q) /\ DOMAIN q = DOMAIN loop
                  /\ \A n \in DOMAIN loop : loop[n] \in S /\ q[n] = PlaceAt(sc, loop[n])
                  /\ \A i, j \in DOMAIN loop : loop[i] = loop[j] => i = j
                  /\ \A w \in S : \E n \in DOMAIN loop : loop[n] = w
  <2>1. q = Looped(sc, S)
    BY <1>1 DEF ToQuery
  <2>2. \A w \in S : IsPair(w)
    BY <1>7
  <2>3. \E l : LoopOver(l, sc, S, q)
    BY <1>6, <2>1, <2>2, LoopedGoes
  <2>. QED
    BY <2>3 DEF LoopOver
<1>9. \A w \in S : /\ sc[w[1]].type \in Types /\ sc[w[1]].profiles[w[2]].is_valid
                   /\ w[2] \in DOMAIN sc[w[1]].profiles
  BY <1>1 DEF AllProfiles
<1>10. \A w : PlaceAt(sc, w)[1] = sc[w[1]].type /\ PlaceAt(sc, w)[2] = sc[w[1]].profiles[w[2]].place
              /\ PlaceAt(sc, w) = <<PlaceAt(sc, w)[1], PlaceAt(sc, w)[2]>>
  BY DEF PlaceAt
<1>11. ASSUME NEW n \in DOMAIN q
       PROVE  /\ q[n] = <<q[n][1], q[n][2]>> /\ q[n][1] \in Types /\ q[n][1] \in DOMAIN disk
              /\ q[n][2] \in PlacesOf(q[n][1]) /\ q[n][2] \in Databases(q[n][1])
  <2>1. PICK w \in S : w = loop[n] /\ q[n] = PlaceAt(sc, w)
    BY <1>8
  <2>2. PICK t, ps : /\ t = sc[w[1]].type /\ ps = sc[w[1]].profiles
                     /\ t \in DOMAIN disk /\ AreProfiles(t, ps) /\ t \in Types
                     /\ w[2] \in DOMAIN ps /\ ps[w[2]].is_valid
    BY <1>3, <1>7, <1>9
  <2>3. ps[w[2]].place \in PlacesOf(t) /\ ps[w[2]].place \in Databases(t)
    BY <2>2 DEF AreProfiles
  <2>4. q[n] = <<q[n][1], q[n][2]>> /\ q[n][1] = t /\ q[n][2] = ps[w[2]].place
    BY <1>10, <2>1, <2>2
  <2>. QED
    BY <2>2, <2>3, <2>4
<1>12. ASSUME NEW i \in DOMAIN q, NEW j \in DOMAIN q, q[i] = q[j]
       PROVE  i = j
  <2>1. PICK v \in S, w \in S : v = loop[i] /\ w = loop[j] /\ q[i] = PlaceAt(sc, v) /\ q[j] = PlaceAt(sc, w)
    BY <1>8
  <2>2. sc[v[1]].type = sc[w[1]].type /\ sc[v[1]].profiles[v[2]].place = sc[w[1]].profiles[w[2]].place
    <3>1. PlaceAt(sc, v) = PlaceAt(sc, w)
      BY <1>12, <2>1
    <3>. QED
      BY <1>10, <3>1
  <2>3. v[1] = w[1]
    BY <1>2, <1>7, <2>2 DEF Scanned
  <2>4. v[2] = w[2]
    <3>1. PICK ps : ps = sc[v[1]].profiles /\ AreProfiles(sc[v[1]].type, ps)
      BY <1>3, <1>7
    <3>2. v[2] \in DOMAIN ps /\ w[2] \in DOMAIN ps /\ ps[v[2]].place = ps[w[2]].place
      BY <1>9, <2>2, <2>3, <3>1
    <3>. QED
      BY <3>1, <3>2 DEF AreProfiles
  <2>5. v = w
    BY <1>7, <2>3, <2>4 DEF IsPair
  <2>. QED
    BY <1>8, <2>1, <2>5
<1>13. ASSUME NEW t, NEW p, t \in Types, t \in DOMAIN disk, p \in Databases(t)
       PROVE  \E n \in DOMAIN q : q[n] = <<t, p>>
  <2>1. AreProfiles(t, Profiles(t))
    BY <1>13, ProfilesFacts
  <2>2. PICK k \in DOMAIN Profiles(t) : Profiles(t)[k].is_valid /\ Profiles(t)[k].place = p
    BY <1>13, <2>1 DEF AreProfiles
  <2>3. Profiles(t) # <<>>
    <3>1. IsSeq(Profiles(t))
      BY <2>1 DEF AreProfiles
    <3>2. DOMAIN Profiles(t) = 1 .. Len(Profiles(t)) /\ Len(Profiles(t)) \in Nat
          /\ (Profiles(t) # <<>> <=> Len(Profiles(t)) >= 1)
      BY <3>1, SeqElements
    <3>. QED
      BY <2>2, <3>2
  <2>4. PICK i \in 1 .. N : sc[i].type = t /\ sc[i].profiles = Profiles(t)
    BY <1>2, <1>3, <1>13, <2>3 DEF Scanned
  <2>5. k \in 1 .. MaxProfiles
    <3>1. PICK m \in Int : m = Len(Profiles(t)) /\ DOMAIN Profiles(t) = 1 .. m /\ m <= MaxProfiles
      BY <2>1 DEF AreProfiles, IsSeq
    <3>. QED
      BY <1>4, <2>2, <3>1
  <2>6. PICK w \in S : w = <<i, k>>
    BY <1>1, <1>2, <1>13, <2>2, <2>4, <2>5 DEF AllProfiles
  <2>7. PICK n \in DOMAIN q : q[n] = PlaceAt(sc, w)
    BY <1>8
  <2>. QED
    BY <2>2, <2>4, <2>6, <2>7 DEF PlaceAt
<1>. QED
  <2>1. IsSeq(q) /\ DOMAIN q = 1 .. Len(q)
    BY <1>8, SeqElements
  <2>2. \A i, j \in DOMAIN q : q[i] = q[j] => i = j
    BY <1>12
  <2>3. \A t, p : (\E n \in DOMAIN q : q[n] = <<t, p>>) <=>
                   t \in Types /\ t \in DOMAIN disk /\ p \in Databases(t)
    <3>1. ASSUME NEW t, NEW p, NEW n \in DOMAIN q, q[n] = <<t, p>>
          PROVE  t \in Types /\ t \in DOMAIN disk /\ p \in Databases(t)
      BY <1>11, <3>1
    <3>. QED
      BY <1>13, <3>1
  <2>. QED
    BY <1>11, <2>1, <2>2, <2>3 DEF PlacesToRead

-----------------------------------------------------------------------------
(* What is queried.                                                        *)

PlaceOf(x) == <<x.type, x.place>>

Answered(past) == [i \in DOMAIN past |-> PlaceOf(past[i])]

\* The parts of a sequence that was joined, m and n elements long.
Joined(r, p, q, m, n) ==
    /\ IsSeq(r) /\ Len(r) = m + n /\ DOMAIN r = 1 .. m + n
    /\ m = Len(p) /\ n = Len(q)
    /\ \A i \in 1 .. m : r[i] = p[i]
    /\ \A i \in 1 .. n : r[m + i] = q[i]

LEMMA SeqJoined ==
    ASSUME NEW p, IsSeq(p), NEW q, IsSeq(q), NEW r, r = p \o q
    PROVE  \E m, n \in Nat : Joined(r, p, q, m, n)
<1>1. PICK m \in Nat, n \in Nat : m = Len(p) /\ n = Len(q)
  BY DEF IsSeq
<1>2. PICK G : G = {p[i] : i \in 1 .. m} \cup {q[i] : i \in 1 .. n}
  OBVIOUS
<1>3. p \in Seq(G) /\ q \in Seq(G)
  <2>1. p \in [1 .. m -> G]
    BY <1>1, <1>2 DEF IsSeq
  <2>2. q \in [1 .. n -> G]
    BY <1>1, <1>2 DEF IsSeq
  <2>. QED
    BY <2>1, <2>2
<1>4. /\ r \in Seq(G) /\ Len(r) = m + n
      /\ \A i \in 1 .. m + n : r[i] = IF i <= m THEN p[i] ELSE q[i - m]
  <2>1. /\ r \in Seq(G) /\ Len(r) = Len(p) + Len(q)
        /\ \A i \in 1 .. Len(p) + Len(q) : r[i] = IF i <= Len(p) THEN p[i] ELSE q[i - Len(p)]
    BY <1>3, ConcatProperties
  <2>. QED
    BY <1>1, <2>1
<1>5. \A i \in 1 .. m : r[i] = p[i]
  <2>1. SUFFICES ASSUME NEW i \in 1 .. m PROVE r[i] = p[i]
    OBVIOUS
  <2>2. i \in 1 .. m + n /\ i <= m
    OBVIOUS
  <2>. QED
    BY <1>4, <2>2
<1>6. \A i \in 1 .. n : r[m + i] = q[i]
  <2>1. SUFFICES ASSUME NEW i \in 1 .. n PROVE r[m + i] = q[i]
    OBVIOUS
  <2>2. m + i \in 1 .. m + n /\ ~(m + i <= m) /\ (m + i) - m = i
    OBVIOUS
  <2>. QED
    BY <1>4, <2>2
<1>7. IsSeq(r) /\ DOMAIN r = 1 .. Len(r)
  BY <1>4, MemberIsSeq, SeqElements
<1>8. Joined(r, p, q, m, n)
  BY <1>1, <1>4, <1>5, <1>6, <1>7 DEF Joined
<1>. QED
  BY <1>8

LEMMA AnsweredPlaces ==
    ASSUME NEW past, IsSeq(past), NEW a, a = Answered(past)
    PROVE  IsSeq(a) /\ Len(a) = Len(past) /\ \A i \in 1 .. Len(past) : a[i] = PlaceOf(past[i])
<1>1. PICK m \in Nat : m = Len(past) /\ DOMAIN past = 1 .. m
  BY SeqElements DEF IsSeq
<1>2. a = [i \in 1 .. m |-> PlaceOf(past[i])]
  BY <1>1 DEF Answered
<1>3. PICK E : E = {a[i] : i \in 1 .. m}
  OBVIOUS
<1>4. a \in [1 .. m -> E]
  BY <1>2, <1>3
<1>5. a \in Seq(E) /\ Len(a) = m
  BY <1>4
<1>6. IsSeq(a)
  BY <1>5, MemberIsSeq
<1>. QED
  BY <1>1, <1>2, <1>5, <1>6

QueriedBy(past, q) == Answered(past) \o q

\* The first of the queue is answered.
Answers(past, q, x, bs, p) ==
    /\ IsSeq(past) /\ IsSeq(q) /\ q # <<>> /\ PlaceOf(x) = q[1]
    /\ bs = Append(past, x) /\ p = Tail(q)

LEMMA AnsweredFirst ==
    ASSUME NEW past, NEW q, NEW x, NEW bs, NEW p, Answers(past, q, x, bs, p)
    PROVE  IsSeq(bs) /\ IsSeq(p) /\ QueriedBy(bs, p) = QueriedBy(past, q)
<1>. USE DEF Answers
<1>1. PICK m \in Nat, n \in Nat : m = Len(past) /\ n = Len(q) /\ n >= 1
  BY SeqElements DEF IsSeq
<1>2. IsSeq(bs) /\ Len(bs) = m + 1 /\ bs[m + 1] = x /\ \A i \in 1 .. m : bs[i] = past[i]
  <2>1. IsSeq(bs) /\ Len(bs) = Len(past) + 1 /\ bs[Len(past) + 1] = x
    BY SeqAppend
  <2>2. \A i \in 1 .. Len(past) : bs[i] = past[i]
    BY SeqAppend
  <2>. QED
    BY <1>1, <2>1, <2>2
<1>3. IsSeq(p) /\ Len(p) = n - 1 /\ \A i \in 1 .. n - 1 : p[i] = q[i + 1]
  <2>1. PICK E : E = {q[i] : i \in 1 .. n}
    OBVIOUS
  <2>2. q \in Seq(E)
    BY <1>1, <2>1, SeqElements
  <2>3. p \in Seq(E) /\ Len(p) = n - 1 /\ \A i \in 1 .. n - 1 : p[i] = q[i + 1]
    BY <1>1, <2>2
  <2>. QED
    BY <2>3, MemberIsSeq
<1>4. PICK a, b, r, s : a = Answered(past) /\ b = Answered(bs) /\ r = b \o p /\ s = a \o q
  OBVIOUS
<1>5. IsSeq(a) /\ Len(a) = m /\ \A i \in 1 .. m : a[i] = PlaceOf(past[i])
  BY <1>1, <1>4, AnsweredPlaces
<1>6. IsSeq(b) /\ Len(b) = m + 1 /\ \A i \in 1 .. m + 1 : b[i] = PlaceOf(bs[i])
  <2>1. PICK k \in Nat : k = m + 1 /\ k = Len(bs)
    BY <1>2
  <2>2. IsSeq(b) /\ Len(b) = Len(bs) /\ \A i \in 1 .. Len(bs) : b[i] = PlaceOf(bs[i])
    BY <1>2, <1>4, AnsweredPlaces
  <2>. QED
    BY <2>1, <2>2
<1>7. /\ IsSeq(r) /\ Len(r) = m + n
      /\ \A i \in 1 .. m + 1 : r[i] = b[i]
      /\ \A i \in 1 .. n - 1 : r[m + 1 + i] = p[i]
  <2>1. PICK k \in Nat, l \in Nat : Joined(r, b, p, k, l)
    BY <1>3, <1>4, <1>6, SeqJoined
  <2>2. k = m + 1 /\ l = n - 1
    BY <1>3, <1>6, <2>1 DEF Joined
  <2>. QED
    BY <2>1, <2>2 DEF Joined
<1>8. /\ IsSeq(s) /\ Len(s) = m + n
      /\ \A i \in 1 .. m : s[i] = a[i]
      /\ \A i \in 1 .. n : s[m + i] = q[i]
  <2>1. PICK k \in Nat, l \in Nat : Joined(s, a, q, k, l)
    BY <1>4, <1>5, SeqJoined
  <2>2. k = m /\ l = n
    BY <1>1, <1>5, <2>1 DEF Joined
  <2>. QED
    BY <2>1, <2>2 DEF Joined
<1>9. ASSUME NEW i \in 1 .. m + n
      PROVE  r[i] = s[i]
  <2>1. CASE i <= m
    <3>1. i \in 1 .. m /\ i \in 1 .. m + 1
      BY <2>1
    <3>2. r[i] = PlaceOf(bs[i]) /\ s[i] = PlaceOf(past[i])
      BY <1>5, <1>6, <1>7, <1>8, <3>1
    <3>. QED
      BY <1>2, <3>1, <3>2
  <2>2. CASE i = m + 1
    <3>1. r[m + 1] = PlaceOf(x)
      BY <1>2, <1>6, <1>7
    <3>2. s[m + 1] = q[1]
      BY <1>1, <1>8
    <3>. QED
      BY <2>2, <3>1, <3>2
  <2>3. CASE i > m + 1
    <3>1. PICK j \in 1 .. n - 1 : i = m + 1 + j
      <4>1. i - m - 1 \in 1 .. n - 1 /\ i = m + 1 + (i - m - 1)
        BY <2>3
      <4>. QED
        BY <4>1
    <3>2. j + 1 \in 1 .. n /\ i = m + (j + 1)
      BY <3>1
    <3>3. r[i] = p[j] /\ s[i] = q[j + 1]
      BY <1>7, <1>8, <3>1, <3>2
    <3>. QED
      BY <1>3, <3>3
  <2>. QED
    BY <2>1, <2>2, <2>3
<1>10. r = s
  BY <1>7, <1>8, <1>9, SeqSame
<1>. QED
  BY <1>2, <1>3, <1>4, <1>10 DEF QueriedBy

-----------------------------------------------------------------------------
(* What there is to read stays the same.                                   *)

SameToRead ==
    /\ DOMAIN disk' = DOMAIN disk
    /\ \A t \in DOMAIN disk : PlacesOf(t)' = PlacesOf(t) /\ Databases(t)' = Databases(t)

LEMMA SameDisk ==
    ASSUME DiskTyped, UNCHANGED disk
    PROVE  DiskTyped' /\ SameToRead
<1>1. DiskTyped'
  BY DEF DiskTyped
<1>2. SameToRead
  <2>1. SUFFICES ASSUME NEW t \in DOMAIN disk
                 PROVE  PlacesOf(t)' = PlacesOf(t) /\ Databases(t)' = Databases(t)
    BY DEF SameToRead
  <2>. QED
    BY DEF PlacesOf, Databases
<1>. QED
  BY <1>1, <1>2

LEMMA LostDatabases ==
    ASSUME DiskTyped, NEW type \in DOMAIN disk, NEW place \in PlacesOf(type),
           FileAt(type, place).kind # "none",
           disk' = IF place = Direct THEN [disk EXCEPT ![type].direct.kind = "lost"]
                   ELSE [disk EXCEPT ![type].dirs[place].kind = "lost"]
    PROVE  DiskTyped' /\ SameToRead
<1>1. /\ DiskTyped' /\ DOMAIN disk' = DOMAIN disk
      /\ \A t \in DOMAIN disk :
           /\ DOMAIN disk'[t].dirs = DOMAIN disk[t].dirs
           /\ MayBeLost(disk[t].direct, disk'[t].direct, t = type /\ place = Direct)
           /\ \A n \in DOMAIN disk[t].dirs :
                 MayBeLost(disk[t].dirs[n], disk'[t].dirs[n], t = type /\ place = n)
  BY LostProfile
<1>2. ASSUME NEW t \in DOMAIN disk
      PROVE  /\ disk'[t].direct.kind # "none" <=> disk[t].direct.kind # "none"
             /\ \A n \in DOMAIN disk[t].dirs :
                  /\ disk'[t].dirs[n].hidden = disk[t].dirs[n].hidden
                  /\ disk'[t].dirs[n].kind # "none" <=> disk[t].dirs[n].kind # "none"
  <2>1. disk'[t].direct.kind # "none" <=> disk[t].direct.kind # "none"
    <3>1. MayBeLost(disk[t].direct, disk'[t].direct, t = type /\ place = Direct)
      BY <1>1
    <3>. QED
      BY <3>1 DEF MayBeLost, FileAt
  <2>2. ASSUME NEW n \in DOMAIN disk[t].dirs
        PROVE  /\ disk'[t].dirs[n].hidden = disk[t].dirs[n].hidden
               /\ disk'[t].dirs[n].kind # "none" <=> disk[t].dirs[n].kind # "none"
    <3>1. MayBeLost(disk[t].dirs[n], disk'[t].dirs[n], t = type /\ place = n)
      BY <1>1
    <3>2. n # Direct
      <4>1. DOMAIN disk[t].dirs \in SUBSET Nat
        BY DEF DiskTyped, IsDirectory
      <4>. QED
        BY <4>1 DEF Direct
    <3>. QED
      BY <3>1, <3>2 DEF MayBeLost, FileAt
  <2>. QED
    BY <2>1, <2>2
<1>3. SUFFICES ASSUME NEW t \in DOMAIN disk
               PROVE  PlacesOf(t)' = PlacesOf(t) /\ Databases(t)' = Databases(t)
  BY <1>1 DEF SameToRead
<1>4. PICK D : D = DOMAIN disk[t].dirs /\ D = DOMAIN disk'[t].dirs
  BY <1>1
<1>5. PlacesOf(t)' = PlacesOf(t)
  BY <1>4 DEF PlacesOf
<1>6. PICK K, L :
        /\ K = IF t = "firefox" THEN {i \in D : ~disk[t].dirs[i].hidden /\ disk[t].dirs[i].kind # "none"}
               ELSE D \cap 0 .. MaxNumbered
        /\ L = IF t = "firefox" THEN {i \in D : ~disk'[t].dirs[i].hidden /\ disk'[t].dirs[i].kind # "none"}
               ELSE D \cap 0 .. MaxNumbered
  OBVIOUS
<1>7. K = L /\ K \subseteq D
  <2>1. \A i \in D : /\ disk'[t].dirs[i].hidden = disk[t].dirs[i].hidden
                     /\ disk'[t].dirs[i].kind # "none" <=> disk[t].dirs[i].kind # "none"
    BY <1>2, <1>4
  <2>2. CASE t = "firefox"
    BY <1>6, <2>1, <2>2
  <2>3. CASE t # "firefox"
    BY <1>6, <2>3
  <2>. QED
    BY <2>2, <2>3
<1>8. Databases(t) = IF t # "firefox" /\ K = {} THEN {Direct} \cap {p \in {Direct} : disk[t].direct.kind # "none"}
                     ELSE {p \in K : disk[t].dirs[p].kind # "none" /\ Cardinality({k \in K : k < p}) < MaxProfiles}
  BY <1>4, <1>6 DEF Databases
<1>9. Databases(t)' = IF t # "firefox" /\ L = {} THEN {Direct} \cap {p \in {Direct} : disk'[t].direct.kind # "none"}
                      ELSE {p \in L : disk'[t].dirs[p].kind # "none" /\ Cardinality({k \in L : k < p}) < MaxProfiles}
  BY <1>4, <1>6 DEF Databases
<1>10. Databases(t)' = Databases(t)
  BY <1>2, <1>4, <1>7, <1>8, <1>9
<1>. QED
  BY <1>5, <1>10

LEMMA PlacesKept ==
    ASSUME SameToRead, NEW q, NEW Types, PlacesToRead(q, Types)
    PROVE  PlacesToRead(q, Types)'
BY DEF PlacesToRead, SameToRead

\* A place of the queue.
LEMMA QueuedPlaces ==
    ASSUME IsSeq(queue), IsSeq(answers), PlacesToRead(Queried, Asked), NEW n \in DOMAIN queue
    PROVE  /\ queue[n] = <<queue[n][1], queue[n][2]>> /\ queue[n][1] \in DOMAIN disk
           /\ queue[n][2] \in PlacesOf(queue[n][1]) /\ queue[n][2] \in Databases(queue[n][1])
<1>1. PICK r, a : r = Queried /\ a = Answered(answers) /\ r = a \o queue
  BY DEF Queried, Answered, PlaceOf
<1>2. IsSeq(a)
  BY <1>1, AnsweredPlaces
<1>3. PICK k \in Nat, l \in Nat : Joined(r, a, queue, k, l)
  BY <1>1, <1>2, SeqJoined
<1>4. n \in 1 .. l
  BY <1>3, SeqElements DEF Joined
<1>5. k + n \in DOMAIN r /\ r[k + n] = queue[n]
  <2>1. k + n \in 1 .. k + l
    BY <1>4
  <2>. QED
    BY <1>3, <1>4, <2>1 DEF Joined
<1>6. PICK w : w = queue[n]
  OBVIOUS
<1>7. w = <<w[1], w[2]>> /\ w[1] \in DOMAIN disk /\ w[2] \in PlacesOf(w[1])
  BY <1>1, <1>5, <1>6 DEF PlacesToRead
<1>8. w[2] \in Databases(w[1])
  <2>1. PICK t, p : t = w[1] /\ p = w[2]
    OBVIOUS
  <2>2. \E m \in DOMAIN r : r[m] = <<t, p>>
    BY <1>5, <1>6, <1>7, <2>1
  <2>3. p \in Databases(t)
    BY <1>1, <2>2 DEF PlacesToRead
  <2>. QED
    BY <2>1, <2>3
<1>. QED
  BY <1>6, <1>7, <1>8

LEMMA DatabaseFiles ==
    ASSUME DiskTyped, NEW type \in DOMAIN disk, NEW place \in Databases(type)
    PROVE  FileAt(type, place).kind # "none"
<1>1. Direct \notin DOMAIN disk[type].dirs
  <2>1. DOMAIN disk[type].dirs \in SUBSET Nat
    BY DEF DiskTyped, IsDirectory
  <2>. QED
    BY <2>1 DEF Direct
<1>2. CASE place = Direct
  BY <1>1, <1>2 DEF Databases, FileAt
<1>3. CASE place # Direct
  BY <1>3 DEF Databases, FileAt
<1>. QED
  BY <1>2, <1>3

-----------------------------------------------------------------------------
(* What main works on is what it takes it for.                             *)

Typed ==
    /\ DiskTyped /\ IsEntries(command.import)
    /\ IsEntries(result) /\ IsSeq(queue) /\ IsSeq(answers)
    /\ stage = "query" => queue = <<>> /\ answers = <<>> /\ result = <<>>
    /\ stage = "read" => PlacesToRead(Queried, Asked)

LEMMA NoEntries == IsEntries(<<>>) /\ IsSeq(<<>>)
<1>1. Len(<<>>) = 0 /\ DOMAIN <<>> = 1 .. 0
  OBVIOUS
<1>2. <<>> = [i \in 1 .. 0 |-> <<>>[i]]
  OBVIOUS
<1>. QED
  BY <1>1, <1>2 DEF IsEntries, IsSeq

LEMMA TypedInit == PipelineInit => Typed
<1>1. SUFFICES ASSUME PipelineInit PROVE Typed
  OBVIOUS
<1>2. PICK setup \in Setups : disk = setup.disk /\ command = setup.command
  BY <1>1 DEF PipelineInit, Init
<1>3. /\ DOMAIN disk \subseteq ToSet(BrowserTypes) /\ \A type \in DOMAIN disk : IsDirectory(disk[type])
      /\ IsEntries(command.import)
  BY <1>2, SetupAssumption
<1>4. stage = "query" /\ queue = <<>> /\ answers = <<>> /\ result = <<>>
  BY <1>1 DEF PipelineInit, Init
<1>5. IsEntries(result) /\ IsSeq(queue) /\ IsSeq(answers)
  BY <1>4, NoEntries
<1>. QED
  BY <1>3, <1>4, <1>5 DEF Typed, DiskTyped

LEMMA ScanTyped == Typed /\ Scan => Typed'
<1>1. SUFFICES ASSUME Typed, Scan PROVE Typed'
  OBVIOUS
<1>2. /\ stage = "query" /\ scan' = BrowserScan /\ queue' = ToQuery(scan', Asked)
      /\ stage' = IF scan' = <<>> THEN "import" ELSE "read"
      /\ UNCHANGED <<disk, command, answers, result>>
  BY <1>1 DEF Scan
<1>3. DiskTyped' /\ SameToRead /\ DiskTyped
  BY <1>1, <1>2, SameDisk DEF Typed
<1>4. PICK sc, q, T : sc = scan' /\ q = queue' /\ T = Asked
  OBVIOUS
<1>5. Scanned(sc)
  BY <1>2, <1>3, <1>4, ScanFacts
<1>6. PlacesToRead(q, T)
  <2>1. q = ToQuery(sc, T)
    BY <1>2, <1>4
  <2>. QED
    BY <1>3, <1>5, <2>1, QueueFacts
<1>7. PlacesToRead(q, T)'
  BY <1>3, <1>6, PlacesKept
<1>8. IsSeq(q)
  BY <1>6 DEF PlacesToRead
<1>9. Queried' = q
  <2>1. PICK past : past = answers /\ past = <<>>
    BY <1>1, <1>2 DEF Typed
  <2>2. PICK a, r : a = Answered(past) /\ r = a \o q
    OBVIOUS
  <2>3. r = Queried'
    BY <1>2, <1>4, <2>1, <2>2 DEF Queried, Answered, PlaceOf
  <2>4. IsSeq(a) /\ Len(a) = 0
    <3>1. IsSeq(past) /\ Len(past) = 0
      BY <2>1, NoEntries
    <3>. QED
      BY <2>2, <3>1, AnsweredPlaces
  <2>5. PICK k \in Nat, l \in Nat : Joined(r, a, q, k, l)
    BY <1>8, <2>2, <2>4, SeqJoined
  <2>6. k = 0 /\ IsSeq(r) /\ Len(r) = Len(q) /\ \A i \in 1 .. Len(q) : r[i] = q[i]
    BY <2>4, <2>5 DEF Joined
  <2>7. r = q
    BY <1>8, <2>6, SeqSame
  <2>. QED
    BY <2>3, <2>7
<1>10. Asked' = T
  BY <1>2, <1>4 DEF Asked
<1>11. PlacesToRead(Queried, Asked)'
  BY <1>7, <1>9, <1>10
<1>. QED
  BY <1>1, <1>2, <1>3, <1>4, <1>8, <1>11 DEF Typed

LEMMA SomeRead ==
    ASSUME NEW type, NEW N \in Nat, NEW n \in Counts(type, N)
    PROVE  n \in 0 .. N
BY DEF Counts

LEMMA SelectedPart ==
    ASSUME NEW file, IsFile(file), NEW days, NEW strict, NEW type,
           NEW rows, rows = Select(file, days, strict), NEW n \in Counts(type, Len(rows))
    PROVE  IsEntries(SubSeq(rows, 1, n)) /\ Len(SubSeq(rows, 1, n)) = n /\ n \in 0 .. Len(rows)
<1>1. IsEntries(rows)
  BY SelectEntries
<1>2. n \in 0 .. Len(rows) /\ Len(rows) \in Nat
  BY <1>1, SizeOfEntries, SomeRead
<1>3. PICK part : part = SubSeq(rows, 1, n)
  OBVIOUS
<1>4. IsEntries(part) /\ Len(part) = n
  <2>1. n \in Nat /\ n <= Len(rows)
    BY <1>2
  <2>. QED
    BY <1>1, <1>3, <2>1, FirstEntries
<1>. QED
  BY <1>2, <1>3, <1>4

LEMMA QueryProfileTyped == Typed /\ QueryProfile => Typed'
<1>1. SUFFICES ASSUME Typed, QueryProfile PROVE Typed'
  OBVIOUS
<1>2. /\ stage = "read" /\ queue # <<>> /\ queue' = Tail(queue)
      /\ UNCHANGED <<disk, command, stage, scan>>
  BY <1>1 DEF QueryProfile
<1>3. /\ DiskTyped /\ IsEntries(command.import) /\ IsEntries(result) /\ IsSeq(queue) /\ IsSeq(answers)
      /\ PlacesToRead(Queried, Asked)
  BY <1>1, <1>2 DEF Typed
<1>4. DiskTyped' /\ SameToRead
  BY <1>2, <1>3, SameDisk
<1>5. PICK type, place, file : /\ type = Head(queue)[1] /\ place = Head(queue)[2]
                               /\ file = FileAt(type, place)
  OBVIOUS
<1>6. queue[1] = <<type, place>> /\ type \in DOMAIN disk /\ place \in PlacesOf(type)
  <2>1. Head(queue) = queue[1] /\ 1 \in DOMAIN queue
    BY <1>2, <1>3, SeqElements
  <2>. QED
    BY <1>3, <1>5, <2>1, QueuedPlaces
<1>7. IsFile(file)
  BY <1>3, <1>5, <1>6, FileTyped
<1>8. PICK x : PlaceOf(x) = <<type, place>> /\ answers' = Append(answers, x)
  <2>1. \A c : PlaceOf([type |-> type, place |-> place, count |-> c]) = <<type, place>>
    BY DEF PlaceOf
  <2>2. \E c : answers' = Append(answers, [type |-> type, place |-> place, count |-> c])
    BY <1>1, <1>5 DEF QueryProfile
  <2>. QED
    BY <2>1, <2>2
<1>9. IsEntries(result')
  <2>1. CASE UNCHANGED result
    BY <1>3, <2>1
  <2>2. CASE \E rows \in {Select(file, command.days_back, FALSE)} : \E n \in Counts(type, Len(rows)) :
                 result' = result \o SubSeq(rows, 1, n)
    <3>1. PICK rows : /\ rows = Select(file, command.days_back, FALSE)
                      /\ \E n \in Counts(type, Len(rows)) : result' = result \o SubSeq(rows, 1, n)
      BY <2>2
    <3>2. PICK n \in Counts(type, Len(rows)) : result' = result \o SubSeq(rows, 1, n)
      BY <3>1
    <3>3. PICK part : part = SubSeq(rows, 1, n)
      OBVIOUS
    <3>4. IsEntries(part)
      BY <1>7, <3>1, <3>3, SelectedPart
    <3>. QED
      BY <1>3, <3>2, <3>3, <3>4, MoreEntries
  <2>3. \/ UNCHANGED result
        \/ \E rows \in {Select(file, command.days_back, FALSE)} : \E n \in Counts(type, Len(rows)) :
                 result' = result \o SubSeq(rows, 1, n)
    BY <1>1, <1>5 DEF QueryProfile
  <2>. QED
    BY <2>1, <2>2, <2>3
<1>10. PICK past, q, bs, p : past = answers /\ q = queue /\ bs = answers' /\ p = queue'
  OBVIOUS
<1>11. IsSeq(bs) /\ IsSeq(p) /\ QueriedBy(bs, p) = QueriedBy(past, q)
  <2>1. IsSeq(past) /\ IsSeq(q) /\ q # <<>> /\ PlaceOf(x) = q[1] /\ bs = Append(past, x) /\ p = Tail(q)
    BY <1>2, <1>3, <1>6, <1>8, <1>10
  <2>2. Answers(past, q, x, bs, p)
    BY <2>1 DEF Answers
  <2>. QED
    BY <2>2, AnsweredFirst
<1>12. Queried' = Queried
  BY <1>10, <1>11 DEF Queried, QueriedBy, Answered, PlaceOf
<1>13. PICK r, T : r = Queried /\ T = Asked /\ PlacesToRead(r, T)
  BY <1>3
<1>14. PlacesToRead(r, T)'
  BY <1>4, <1>13, PlacesKept
<1>15. Asked' = T
  BY <1>2, <1>13 DEF Asked
<1>16. PlacesToRead(Queried, Asked)'
  BY <1>12, <1>13, <1>14, <1>15
<1>. QED
  BY <1>2, <1>3, <1>4, <1>9, <1>10, <1>11, <1>16 DEF Typed

LEMMA DeduplicateTyped == Typed /\ Deduplicate => Typed'
<1>1. SUFFICES ASSUME Typed, Deduplicate PROVE Typed'
  OBVIOUS
<1>2. /\ stage' \in {"import", "unmerged"} /\ UNCHANGED <<disk, command, scan, queue, answers>>
      /\ result' = result \/ result' = Deduplicated(result)
  BY <1>1 DEF Deduplicate
<1>3. DiskTyped /\ IsEntries(command.import) /\ IsEntries(result) /\ IsSeq(queue) /\ IsSeq(answers)
  BY <1>1 DEF Typed
<1>4. DiskTyped'
  BY <1>2, <1>3, SameDisk
<1>5. IsEntries(Deduplicated(result))
  BY <1>3, DeduplicatedFacts
<1>6. IsEntries(result')
  BY <1>2, <1>3, <1>5
<1>. QED
  BY <1>2, <1>3, <1>4, <1>6 DEF Typed

LEMMA QueryFileTyped == Typed /\ QueryFile => Typed'
<1>1. SUFFICES ASSUME Typed, QueryFile PROVE Typed'
  OBVIOUS
<1>2. /\ stage = "query" /\ stage' \in {"failed", "import"}
      /\ UNCHANGED <<disk, command, scan, queue>>
  BY <1>1 DEF QueryFile
<1>3. DiskTyped /\ IsEntries(command.import) /\ IsEntries(result) /\ IsSeq(queue) /\ IsSeq(answers)
  BY <1>1 DEF Typed
<1>4. DiskTyped'
  BY <1>2, <1>3, SameDisk
<1>5. PICK type, file :
        /\ type = command.type
        /\ file = IF type \in DOMAIN disk /\ 0 \in DOMAIN disk[type].dirs THEN FileAt(type, 0)
                  ELSE [kind |-> "none"]
  OBVIOUS
<1>6. IsSeq(answers')
  <2>1. \E x : answers' = <<x>>
    BY <1>1, <1>5 DEF QueryFile
  <2>2. PICK x : answers' = <<x>>
    BY <2>1
  <2>3. answers' \in Seq({x})
    BY <2>2
  <2>. QED
    BY <2>3, MemberIsSeq
<1>7. IsEntries(result')
  <2>1. CASE UNCHANGED result
    BY <1>3, <2>1
  <2>2. CASE /\ file.kind = "chromium"
             /\ \E rows \in {Select(file, command.days_back, TRUE)} : \E n \in Counts(type, Len(rows)) :
                  result' = SubSeq(rows, 1, n)
    <3>1. type \in DOMAIN disk /\ 0 \in DOMAIN disk[type].dirs /\ file = FileAt(type, 0)
      BY <1>5, <2>2
    <3>2. 0 \in PlacesOf(type)
      BY <3>1 DEF PlacesOf
    <3>3. IsFile(file)
      BY <1>3, <3>1, <3>2, FileTyped
    <3>4. PICK rows : /\ rows = Select(file, command.days_back, TRUE)
                      /\ \E n \in Counts(type, Len(rows)) : result' = SubSeq(rows, 1, n)
      BY <2>2
    <3>5. PICK n \in Counts(type, Len(rows)) : result' = SubSeq(rows, 1, n)
      BY <3>4
    <3>6. PICK part : part = SubSeq(rows, 1, n)
      OBVIOUS
    <3>7. IsEntries(part)
      BY <3>3, <3>4, <3>6, SelectedPart
    <3>. QED
      BY <3>5, <3>6, <3>7
  <2>3. \/ UNCHANGED result
        \/ /\ file.kind = "chromium"
           /\ \E rows \in {Select(file, command.days_back, TRUE)} : \E n \in Counts(type, Len(rows)) :
                 result' = SubSeq(rows, 1, n)
    BY <1>1, <1>5 DEF QueryFile
  <2>. QED
    BY <2>1, <2>2, <2>3
<1>. QED
  BY <1>2, <1>3, <1>4, <1>6, <1>7 DEF Typed

LEMMA ImportTyped == Typed /\ Import => Typed'
<1>1. SUFFICES ASSUME Typed, Import PROVE Typed'
  OBVIOUS
<1>2. /\ result' = result \o command.import /\ stage' = "stats"
      /\ UNCHANGED <<disk, command, scan, queue, answers>>
  BY <1>1 DEF Import
<1>3. DiskTyped /\ IsEntries(command.import) /\ IsEntries(result) /\ IsSeq(queue) /\ IsSeq(answers)
  BY <1>1 DEF Typed
<1>4. DiskTyped'
  BY <1>2, <1>3, SameDisk
<1>5. PICK es, fs, gs : es = result /\ fs = command.import /\ gs = es \o fs
  OBVIOUS
<1>6. IsEntries(gs)
  BY <1>3, <1>5, MoreEntries
<1>. QED
  BY <1>2, <1>3, <1>4, <1>5, <1>6 DEF Typed

LEMMA LoseProfileTyped == Typed /\ LoseProfile => Typed'
<1>1. SUFFICES ASSUME Typed, LoseProfile PROVE Typed'
  OBVIOUS
<1>2. stage = "read" /\ UNCHANGED <<command, stage, scan, queue, answers, result>>
  BY <1>1 DEF LoseProfile
<1>3. /\ DiskTyped /\ IsEntries(command.import) /\ IsEntries(result) /\ IsSeq(queue) /\ IsSeq(answers)
      /\ PlacesToRead(Queried, Asked)
  BY <1>1, <1>2 DEF Typed
<1>4. PICK i \in DOMAIN queue :
        disk' = IF queue[i][2] = Direct THEN [disk EXCEPT ![queue[i][1]].direct.kind = "lost"]
                ELSE [disk EXCEPT ![queue[i][1]].dirs[queue[i][2]].kind = "lost"]
  BY <1>1 DEF LoseProfile
<1>5. PICK type, place : type = queue[i][1] /\ place = queue[i][2]
  OBVIOUS
<1>6. type \in DOMAIN disk /\ place \in PlacesOf(type) /\ place \in Databases(type)
  BY <1>3, <1>5, QueuedPlaces
<1>7. FileAt(type, place).kind # "none"
  BY <1>3, <1>6, DatabaseFiles
<1>8. disk' = IF place = Direct THEN [disk EXCEPT ![type].direct.kind = "lost"]
              ELSE [disk EXCEPT ![type].dirs[place].kind = "lost"]
  BY <1>4, <1>5
<1>9. DiskTyped' /\ SameToRead
  BY <1>3, <1>6, <1>7, <1>8, LostDatabases
<1>10. PICK r, T : r = Queried /\ T = Asked /\ PlacesToRead(r, T)
  BY <1>3
<1>11. PlacesToRead(r, T)'
  BY <1>9, <1>10, PlacesKept
<1>12. Queried' = r /\ Asked' = T
  BY <1>2, <1>10 DEF Queried, Asked
<1>13. PlacesToRead(Queried, Asked)'
  BY <1>11, <1>12
<1>. QED
  BY <1>2, <1>3, <1>9, <1>13 DEF Typed

LEMMA ReportsTyped ==
    Typed /\ (Statistics \/ CategorizeEntries \/ Search \/ UNCHANGED vars) => Typed'
<1>1. SUFFICES ASSUME Typed, Statistics \/ CategorizeEntries \/ Search \/ UNCHANGED vars PROVE Typed'
  OBVIOUS
<1>2. UNCHANGED <<disk, command, queue, answers, result>>
  BY <1>1 DEF Statistics, CategorizeEntries, Search, vars, queryVars
<1>3. stage' = stage \/ stage' \in {"done", "categorize", "search"}
  BY <1>1 DEF Statistics, CategorizeEntries, Search, vars, queryVars
<1>4. DiskTyped /\ IsEntries(command.import) /\ IsEntries(result) /\ IsSeq(queue) /\ IsSeq(answers)
  BY <1>1 DEF Typed
<1>5. DiskTyped' /\ SameToRead
  BY <1>2, <1>4, SameDisk
<1>6. ASSUME stage' = "read"
      PROVE  PlacesToRead(Queried, Asked)'
  <2>1. PICK r, T : r = Queried /\ T = Asked /\ PlacesToRead(r, T)
    BY <1>1, <1>3, <1>6 DEF Typed
  <2>2. PlacesToRead(r, T)'
    BY <1>5, <2>1, PlacesKept
  <2>3. Queried' = r /\ Asked' = T
    BY <1>2, <2>1 DEF Queried, Asked
  <2>. QED
    BY <2>2, <2>3
<1>7. stage' = "query" => queue = <<>> /\ answers = <<>> /\ result = <<>>
  BY <1>1, <1>3 DEF Typed
<1>. QED
  BY <1>2, <1>4, <1>5, <1>6, <1>7 DEF Typed

LEMMA TypedNext == Typed /\ [Next]_vars => Typed'
BY ScanTyped, QueryProfileTyped, DeduplicateTyped, QueryFileTyped, ImportTyped, LoseProfileTyped,
   ReportsTyped DEF Next, Query, QueryNext

\* Every step works on entries, profiles and answers that are what it takes them for.
LEMMA AlwaysTyped == Spec => []Typed
<1>1. PipelineInit => Typed
  BY TypedInit
<1>2. Typed /\ [Next]_vars => Typed'
  BY TypedNext
<1>. QED
  BY <1>1, <1>2, PTL DEF Spec

-----------------------------------------------------------------------------
(* What a search finds.                                                    *)

HitsFound == hits = <<>> \/ (stage = "done" /\ hits = SearchExecute(ParseQuery(words), result))

LEMMA HitsFoundNext == HitsFound /\ [Next]_vars => HitsFound'
<1>1. SUFFICES ASSUME HitsFound, [Next]_vars PROVE HitsFound'
  OBVIOUS
<1>2. CASE Query
  <2>1. stage # "done" /\ UNCHANGED hits
    BY <1>2 DEF Query, analysisVars, QueryNext, Scan, QueryProfile, Deduplicate, QueryFile, Import, LoseProfile
  <2>. QED
    BY <1>1, <2>1 DEF HitsFound
<1>3. CASE Statistics \/ CategorizeEntries
  <2>1. stage # "done" /\ UNCHANGED hits
    BY <1>3 DEF Statistics, CategorizeEntries
  <2>. QED
    BY <1>1, <2>1 DEF HitsFound
<1>4. CASE Search
  <2>1. stage = "search" /\ stage' = "done" /\ UNCHANGED result
    BY <1>4 DEF Search
  <2>2. UNCHANGED hits \/ \E query \in Queries : words' = query /\ hits' = SearchExecute(ParseQuery(query), result)
    BY <1>4 DEF Search
  <2>3. CASE UNCHANGED hits
    BY <1>1, <2>1, <2>3 DEF HitsFound
  <2>4. CASE \E query \in Queries : words' = query /\ hits' = SearchExecute(ParseQuery(query), result)
    <3>1. hits' = SearchExecute(ParseQuery(words'), result')
      BY <2>1, <2>4
    <3>2. SearchExecute(ParseQuery(words), result)' = SearchExecute(ParseQuery(words'), result')
      OBVIOUS
    <3>. QED
      BY <2>1, <3>1, <3>2 DEF HitsFound
  <2>. QED
    BY <2>2, <2>3, <2>4
<1>5. CASE UNCHANGED vars
  BY <1>1, <1>5 DEF HitsFound, vars, queryVars, analysisVars
<1>. QED
  BY <1>1, <1>2, <1>3, <1>4, <1>5 DEF Next

LEMMA FoundBestFirst == Typed /\ HitsFound => BestFirst
<1>1. SUFFICES ASSUME Typed, HitsFound, NEW n \in DOMAIN hits, NEW m \in DOMAIN hits, n < m
               PROVE  LET first == result[hits[n].entry_idx]
                          later == result[hits[m].entry_idx]
                      IN /\ hits[n].score \in hits[m].score .. 20
                         /\ hits[n].score = hits[m].score => hits[n].entry_idx < hits[m].entry_idx
                         /\ AtLeastAs(later, first) => hits[m].score = hits[n].score
  BY DEF BestFirst
<1>2. IsSeq(result) /\ \A i \in DOMAIN result : IsEntry(result[i])
  BY <1>1 DEF Typed, IsEntries, IsSeq
<1>3. PICK q, hs : q = ParseQuery(words) /\ hs = hits /\ hs = SearchExecute(q, result)
  <2>1. DOMAIN hits # {}
    BY <1>1
  <2>2. hits # <<>>
    BY <2>1
  <2>. QED
    BY <1>1, <2>2 DEF HitsFound
<1>4. /\ \A k \in DOMAIN hs : /\ hs[k].entry_idx \in DOMAIN result
                              /\ hs[k].score = Score(q, result[hs[k].entry_idx])
      /\ \A k, l \in DOMAIN hs : k < l => Ahead(hs[k], hs[l])
  BY <1>2, <1>3, HitsInOrder
<1>5. PICK x, y, a, b : x = hs[n] /\ y = hs[m] /\ a = result[x.entry_idx] /\ b = result[y.entry_idx]
  OBVIOUS
<1>6. IsEntry(a) /\ IsEntry(b) /\ x.score = Score(q, a) /\ y.score = Score(q, b)
  BY <1>1, <1>2, <1>3, <1>4, <1>5
<1>7. x.score \in 0 .. 20 /\ y.score \in 0 .. 20
  BY <1>6, ScoreType
<1>8. x.score > y.score \/ (x.score = y.score /\ x.entry_idx < y.entry_idx)
  <2>1. Ahead(x, y)
    BY <1>1, <1>3, <1>4, <1>5
  <2>. QED
    BY <2>1 DEF Ahead
<1>9. AtLeastAs(b, a) => x.score <= y.score
  BY <1>3, <1>6, AtLeastAsGood
<1>10. x.score \in y.score .. 20
  BY <1>7, <1>8
<1>11. x.score = y.score => x.entry_idx < y.entry_idx
  BY <1>7, <1>8
<1>12. AtLeastAs(b, a) => y.score = x.score
  BY <1>7, <1>8, <1>9
<1>. QED
  BY <1>3, <1>5, <1>10, <1>11, <1>12

\* AlwaysBestFirst: whatever is asked for of whatever was read, the hits of a search are in
\* the order of their scores, and no entry is behind one that it is at least as good as
\* (search_compute_score, search_execute).
THEOREM AlwaysBestFirst == Spec => []BestFirst
<1>1. PipelineInit => HitsFound
  BY DEF PipelineInit, HitsFound
<1>2. HitsFound /\ [Next]_vars => HitsFound'
  BY HitsFoundNext
<1>3. Typed /\ HitsFound => BestFirst
  BY FoundBestFirst
<1>. QED
  BY <1>1, <1>2, <1>3, AlwaysTyped, PTL DEF Spec

-----------------------------------------------------------------------------
(* The rules stay within their arrays.  Names, Rules and Keywords are the  *)
(* sets that what is loaded comes from.                                    *)

Limited(cs) ==
    /\ Len(cs) <= MaxCategories
    /\ \A c \in DOMAIN cs : Len(cs[c].rules) <= MaxRules /\ Len(cs[c].keywords) <= MaxKeywords

Upto(S, n) == {s \in Seq(S) : Len(s) <= n}

CategoriesOf(Names, Rules, Keywords) ==
    [name : Names, rules : Upto(Rules, MaxRules), keywords : Upto(Keywords, MaxKeywords)]

Engines(C) == [categories : Upto(C, MaxCategories), current : Nat]

WellPlaced(C) == {x \in Engines(C) : x.current <= Len(x.categories)}

LEMMA ExtendedFits ==
    ASSUME NEW S, NEW n \in Nat, NEW old \in Upto(S, n), NEW more \in Seq(S)
    PROVE  Extended(old, more, n) \in Upto(S, n)
<1>1. PICK all \in Seq(S) : all = old \o more
  BY ConcatProperties DEF Upto
<1>2. PICK N \in Nat, m \in Nat : N = Len(all) /\ m = (IF N > n THEN n ELSE N) /\ m <= N /\ m <= n
  OBVIOUS
<1>3. Extended(old, more, n) = SubSeq(all, 1, m)
  BY <1>1, <1>2 DEF Extended
<1>4. IsSeq(all) /\ m <= Len(all)
  BY <1>2, MemberIsSeq
<1>5. PICK t : t = SubSeq(all, 1, m)
  OBVIOUS
<1>6. IsSeq(t) /\ Len(t) = m /\ \A i \in 1 .. m : t[i] = all[i]
  BY <1>4, <1>5, SeqPrefix
<1>7. \A i \in 1 .. m : all[i] \in S
  BY <1>2, ElementOfSeq
<1>8. t \in [1 .. m -> S]
  BY <1>6, <1>7 DEF IsSeq
<1>9. t \in Seq(S)
  BY <1>8
<1>. QED
  BY <1>2, <1>3, <1>5, <1>6, <1>9 DEF Upto

LEMMA SectionFits ==
    ASSUME NEW Names, NEW Rules, NEW Keywords, NEW C, C = CategoriesOf(Names, Rules, Keywords),
           NEW x \in WellPlaced(C), NEW name \in Names
    PROVE  Section(x, name) \in WellPlaced(C)
<1>1. PICK cs \in Upto(C, MaxCategories), k \in Nat :
        x = [categories |-> cs, current |-> k] /\ k <= Len(cs) /\ x.categories = cs /\ x.current = k
  BY DEF WellPlaced, Engines
<1>2. PICK n \in Nat : n = Len(cs) /\ DOMAIN cs = 1 .. n /\ n <= MaxCategories /\ cs \in Seq(C)
  BY DEF Upto
<1>3. PICK same : same = {c \in DOMAIN cs : SameText(cs[c].name, name)}
  OBVIOUS
<1>4. CASE same # {}
  <2>1. same \in SUBSET Nat
    BY <1>2, <1>3
  <2>2. Min(same) \in same
    BY <1>4, <2>1, MinFacts
  <2>3. PICK m : m = Min(same) /\ m \in same
    BY <2>2
  <2>4. m \in Nat /\ m <= n
    BY <1>2, <1>3, <2>3
  <2>5. Section(x, name) = [categories |-> cs, current |-> m]
    BY <1>1, <1>3, <1>4, <2>3 DEF Section
  <2>. QED
    BY <1>2, <2>4, <2>5 DEF WellPlaced, Engines
<1>5. CASE same = {} /\ n < MaxCategories
  <2>1. PICK e : e = [name |-> name, rules |-> <<>>, keywords |-> <<>>]
    OBVIOUS
  <2>2. e \in C
    <3>1. <<>> \in Seq(Rules) /\ <<>> \in Seq(Keywords) /\ Len(<<>>) = 0
      OBVIOUS
    <3>2. <<>> \in Upto(Rules, MaxRules) /\ <<>> \in Upto(Keywords, MaxKeywords)
      BY <3>1, CategorizeAssumption DEF Upto
    <3>. QED
      BY <2>1, <3>2 DEF CategoriesOf
  <2>3. PICK ds : ds = Append(cs, e) /\ ds \in Seq(C) /\ Len(ds) = n + 1
    <3>1. Append(cs, e) \in Seq(C) /\ Len(Append(cs, e)) = Len(cs) + 1
      BY <1>2, <2>2, AppendProperties
    <3>. QED
      BY <1>2, <3>1
  <2>4. Section(x, name) = [categories |-> ds, current |-> n + 1]
    BY <1>1, <1>2, <1>3, <1>5, <2>1, <2>3 DEF Section
  <2>5. ds \in Upto(C, MaxCategories)
    BY <1>2, <1>5, <2>3, CategorizeAssumption DEF Upto
  <2>. QED
    BY <1>2, <2>3, <2>4, <2>5 DEF WellPlaced, Engines
<1>6. CASE same = {} /\ ~(n < MaxCategories)
  <2>1. Section(x, name) = [categories |-> cs, current |-> 0]
    BY <1>1, <1>2, <1>3, <1>6 DEF Section
  <2>. QED
    BY <1>2, <2>1 DEF WellPlaced, Engines
<1>. QED
  BY <1>4, <1>5, <1>6

\* What a line brings is of the sets.
LineOf(line, Names, Rules, Keywords) ==
    /\ line.kind = "section" => line.name \in Names
    /\ line.kind = "domains" => DomainRules(line.list) \in Seq(Rules)
    /\ line.kind = "keywords" => NotEmpty(line.list) \in Seq(Keywords)
    /\ line.kind = "path" => [type |-> "path", domain |-> line.name, pattern |-> line.list[1]] \in Rules

LEMMA LineFits ==
    ASSUME NEW Names, NEW Rules, NEW Keywords, NEW C, C = CategoriesOf(Names, Rules, Keywords),
           NEW x \in WellPlaced(C), NEW line, LineOf(line, Names, Rules, Keywords)
    PROVE  LoadLine(x, line) \in WellPlaced(C)
<1>1. PICK cs \in Upto(C, MaxCategories), k \in Nat :
        x = [categories |-> cs, current |-> k] /\ k <= Len(cs) /\ x.categories = cs /\ x.current = k
  BY DEF WellPlaced, Engines
<1>2. PICK n \in Nat : n = Len(cs) /\ DOMAIN cs = 1 .. n /\ n <= MaxCategories /\ cs \in Seq(C)
  BY DEF Upto
<1>3. ASSUME NEW d \in C, k # 0, NEW y, y = [x EXCEPT !.categories[k] = d]
      PROVE  y \in WellPlaced(C)
  <2>1. PICK ds : ds = [cs EXCEPT ![k] = d] /\ y = [categories |-> ds, current |-> k]
    BY <1>1, <1>3
  <2>2. cs \in [1 .. n -> C]
    BY <1>2
  <2>3. ds \in [1 .. n -> C]
    BY <1>3, <2>1, <2>2
  <2>4. ds \in Seq(C) /\ Len(ds) = n
    BY <2>3
  <2>. QED
    BY <1>1, <1>2, <2>1, <2>4 DEF WellPlaced, Engines, Upto
<1>4. CASE k # 0
  <2>1. PICK cat \in C : cat = cs[k]
    <3>1. k \in 1 .. n
      BY <1>1, <1>2, <1>4
    <3>. QED
      BY <1>2, <3>1, ElementOfSeq
  <2>2. cat.rules \in Upto(Rules, MaxRules) /\ cat.keywords \in Upto(Keywords, MaxKeywords)
    BY <2>1 DEF CategoriesOf
  <2>3. ASSUME NEW more \in Seq(Rules), NEW y, y = [x EXCEPT !.categories[k].rules = Extended(@, more, MaxRules)]
        PROVE  y \in WellPlaced(C)
    <3>1. PICK d : d = [cat EXCEPT !.rules = Extended(@, more, MaxRules)]
      OBVIOUS
    <3>2. Extended(cat.rules, more, MaxRules) \in Upto(Rules, MaxRules)
      BY <2>2, ExtendedFits, CategorizeAssumption
    <3>3. d \in C
      BY <2>1, <3>1, <3>2 DEF CategoriesOf
    <3>4. y = [x EXCEPT !.categories[k] = d]
      BY <1>1, <2>1, <2>3, <3>1
    <3>. QED
      BY <1>3, <1>4, <3>3, <3>4
  <2>4. ASSUME NEW more \in Seq(Keywords),
               NEW y, y = [x EXCEPT !.categories[k].keywords = Extended(@, more, MaxKeywords)]
        PROVE  y \in WellPlaced(C)
    <3>1. PICK d : d = [cat EXCEPT !.keywords = Extended(@, more, MaxKeywords)]
      OBVIOUS
    <3>2. Extended(cat.keywords, more, MaxKeywords) \in Upto(Keywords, MaxKeywords)
      BY <2>2, ExtendedFits, CategorizeAssumption
    <3>3. d \in C
      BY <2>1, <3>1, <3>2 DEF CategoriesOf
    <3>4. y = [x EXCEPT !.categories[k] = d]
      BY <1>1, <2>1, <2>4, <3>1
    <3>. QED
      BY <1>3, <1>4, <3>3, <3>4
  <2>5. CASE line.kind = "section"
    <3>1. LoadLine(x, line) = Section(x, line.name) /\ line.name \in Names
      BY <2>5 DEF LoadLine, LineOf
    <3>. QED
      BY <3>1, SectionFits
  <2>6. CASE line.kind = "domains"
    <3>1. PICK more \in Seq(Rules) : more = DomainRules(line.list)
      BY <2>6 DEF LineOf
    <3>2. LoadLine(x, line) = [x EXCEPT !.categories[k].rules = Extended(@, more, MaxRules)]
      BY <1>1, <1>4, <2>6, <3>1 DEF LoadLine
    <3>. QED
      BY <2>3, <3>2
  <2>7. CASE line.kind = "keywords"
    <3>1. PICK more \in Seq(Keywords) : more = NotEmpty(line.list)
      BY <2>7 DEF LineOf
    <3>2. LoadLine(x, line) = [x EXCEPT !.categories[k].keywords = Extended(@, more, MaxKeywords)]
      BY <1>1, <1>4, <2>7, <3>1 DEF LoadLine
    <3>. QED
      BY <2>4, <3>2
  <2>8. CASE line.kind = "path"
    <3>1. PICK rule \in Rules : rule = [type |-> "path", domain |-> line.name, pattern |-> line.list[1]]
      BY <2>8 DEF LineOf
    <3>2. PICK more \in Seq(Rules) : more = <<rule>>
      <4>1. <<rule>> \in Seq(Rules)
        OBVIOUS
      <4>. QED
        BY <4>1
    <3>3. LoadLine(x, line) = [x EXCEPT !.categories[k].rules = Extended(@, more, MaxRules)]
      BY <1>1, <1>4, <2>8, <3>1, <3>2 DEF LoadLine
    <3>. QED
      BY <2>3, <3>3
  <2>9. CASE line.kind \notin {"section", "domains", "keywords", "path"}
    BY <2>9 DEF LoadLine
  <2>. QED
    BY <2>5, <2>6, <2>7, <2>8, <2>9
<1>5. CASE k = 0
  <2>1. CASE line.kind = "section"
    <3>1. LoadLine(x, line) = Section(x, line.name) /\ line.name \in Names
      BY <2>1 DEF LoadLine, LineOf
    <3>. QED
      BY <3>1, SectionFits
  <2>2. CASE line.kind # "section"
    BY <1>1, <1>5, <2>2 DEF LoadLine
  <2>. QED
    BY <2>1, <2>2
<1>. QED
  BY <1>4, <1>5

LEMMA SeqWithin ==
    ASSUME NEW s, IsSeq(s), NEW S, \A i \in DOMAIN s : s[i] \in S
    PROVE  s \in Seq(S)
<1>1. PICK m \in Nat : m = Len(s) /\ DOMAIN s = 1 .. m
  BY SeqElements DEF IsSeq
<1>2. s \in [1 .. m -> S]
  BY <1>1 DEF IsSeq
<1>. QED
  BY <1>2

LEMMA MappedIsSeq ==
    ASSUME NEW K \in Nat, NEW f, f = [n \in 1 .. K |-> f[n]]
    PROVE  IsSeq(f) /\ Len(f) = K /\ DOMAIN f = 1 .. K
<1>1. PICK E : E = {f[n] : n \in 1 .. K}
  OBVIOUS
<1>2. f \in [1 .. K -> E]
  BY <1>1
<1>3. f \in Seq(E) /\ Len(f) = K
  BY <1>2
<1>. QED
  BY <1>2, <1>3, MemberIsSeq

LEMMA NotEmptyIsSeq ==
    ASSUME NEW list, IsSeq(list)
    PROVE  IsSeq(NotEmpty(list)) /\ IsSeq(DomainRules(list))
<1>1. PICK N \in Nat : N = Len(list) /\ DOMAIN list = 1 .. N
  BY SeqElements DEF IsSeq
<1>2. PICK S, at : S = {i \in DOMAIN list : list[i] # <<>>} /\ at = InOrder(S)
  OBVIOUS
<1>3. S \in SUBSET Int /\ IsFiniteSet(S)
  <2>1. IsFiniteSet(1 .. N) /\ S \in SUBSET (1 .. N)
    BY <1>1, <1>2, FS_Interval
  <2>2. IsFiniteSet(S)
    BY <2>1, FS_Subset
  <2>3. S \in SUBSET Int
    BY <2>1
  <2>. QED
    BY <2>2, <2>3
<1>4. PICK K \in Nat : K = Cardinality(S)
  BY <1>3, FS_CardinalityType
<1>5. DOMAIN at = 1 .. K
  <2>1. Goes(at, S, {w \in S \X S : w[1] < w[2]})
    BY <1>2, <1>3, AscendingGoes
  <2>. QED
    BY <1>4, <2>1 DEF Goes
<1>6. PICK f : f = [n \in 1 .. K |-> list[at[n]]]
  OBVIOUS
<1>7. NotEmpty(list) = f
  BY <1>2, <1>5, <1>6 DEF NotEmpty, Selected
<1>8. f = [n \in 1 .. K |-> f[n]]
  BY <1>6
<1>9. IsSeq(f) /\ DOMAIN f = 1 .. K
  BY <1>8, MappedIsSeq
<1>10. PICK g : g = [i \in 1 .. K |-> [type |-> "domain", domain |-> f[i], pattern |-> <<>>]]
  OBVIOUS
<1>11. DomainRules(list) = g
  BY <1>7, <1>9, <1>10 DEF DomainRules
<1>12. g = [n \in 1 .. K |-> g[n]]
  BY <1>10
<1>13. IsSeq(g)
  BY <1>12, MappedIsSeq
<1>. QED
  BY <1>7, <1>9, <1>11, <1>13

LEMMA DefaultsFit ==
    ASSUME NEW Names, NEW Rules, NEW Keywords, NEW C, C = CategoriesOf(Names, Rules, Keywords),
           \A c \in DOMAIN Builtin :
              /\ Builtin[c].name \in Names
              /\ \A i \in DOMAIN Builtin[c].rules : Builtin[c].rules[i] \in Rules
              /\ \A i \in DOMAIN Builtin[c].keywords : Builtin[c].keywords[i] \in Keywords
    PROVE  InitDefaults \in WellPlaced(C)
<1>1. IsSeq(Builtin) /\ \A c \in DOMAIN Builtin : IsCategory(Builtin[c])
  BY BuiltinAssumption DEF IsList, IsSeq
<1>2. ASSUME NEW c \in DOMAIN Builtin
      PROVE  Builtin[c] \in C
  <2>1. PICK cat : cat = Builtin[c] /\ IsCategory(cat)
    BY <1>1
  <2>2. PICK r, k : r = cat.rules /\ k = cat.keywords
    OBVIOUS
  <2>3. /\ cat = [name |-> cat.name, rules |-> r, keywords |-> k]
        /\ IsSeq(r) /\ IsSeq(k) /\ Len(r) <= MaxRules /\ Len(k) <= MaxKeywords
    BY <2>1, <2>2 DEF IsCategory, IsList, IsSeq
  <2>4. r \in Seq(Rules) /\ k \in Seq(Keywords)
    <3>1. \A i \in DOMAIN r : r[i] \in Rules
      BY <2>1, <2>2
    <3>2. \A i \in DOMAIN k : k[i] \in Keywords
      BY <2>1, <2>2
    <3>. QED
      BY <2>3, <3>1, <3>2, SeqWithin
  <2>5. r \in Upto(Rules, MaxRules) /\ k \in Upto(Keywords, MaxKeywords) /\ cat.name \in Names
    BY <2>1, <2>3, <2>4 DEF Upto
  <2>. QED
    BY <2>1, <2>3, <2>5 DEF CategoriesOf
<1>3. Builtin \in Seq(C)
  BY <1>1, <1>2, SeqWithin
<1>4. Builtin \in Upto(C, MaxCategories) /\ Len(Builtin) \in Nat
  BY <1>3, CategorizeAssumption DEF Upto
<1>. QED
  BY <1>4 DEF InitDefaults, WellPlaced, Engines

\* What the engine is after n lines.
Loads(g, e, C) ==
    /\ g[0] = InitDefaults
    /\ \A n \in 0 .. Len(e) : g[n] \in WellPlaced(C)
    /\ \A n \in 1 .. Len(e) : g[n] = LoadLine(g[n - 1], e[n])
    /\ FoldLeft(LoadLine, InitDefaults, e) = g[Len(e)]

LEMMA RulesFold ==
    ASSUME NEW Names, NEW Rules, NEW Keywords, NEW C, C = CategoriesOf(Names, Rules, Keywords),
           InitDefaults \in WellPlaced(C), NEW e, IsSeq(e),
           \A i \in DOMAIN e : LineOf(e[i], Names, Rules, Keywords)
    PROVE  \E g : Loads(g, e, C)
<1> DEFINE D == DOMAIN e
           V == WellPlaced(C)
           base == InitDefaults
           iter == CHOOSE f : f = [s \in SUBSET D |-> IF s = {} THEN base
                                    ELSE LoadLine(f[s \ {Max(s)}], e[Max(s)])]
<1>1. FoldLeft(LoadLine, InitDefaults, e) = iter[D]
  BY DEF FoldLeft, MapThenFoldSet
<1>2. PICK N \in Nat : N = Len(e) /\ D = 1 .. N
  BY SeqElements DEF IsSeq
<1>3. \A n \in 1 .. N, v \in V : LoadLine(v, e[n]) \in V
  <2>1. SUFFICES ASSUME NEW n \in 1 .. N, NEW v \in V PROVE LoadLine(v, e[n]) \in V
    OBVIOUS
  <2>2. PICK line : line = e[n] /\ LineOf(line, Names, Rules, Keywords)
    BY <1>2
  <2>3. LoadLine(v, line) \in V
    BY <2>2, LineFits
  <2>. QED
    BY <2>2, <2>3
<1>4. PICK h : h = [n \in 1 .. N |-> [v \in V |-> LoadLine(v, e[n])]]
  OBVIOUS
<1>5. base \in V
  OBVIOUS
<1> HIDE DEF D, V, base
<1>6. Steps(h, N, V) /\ \A n \in 1 .. N, v \in V : h[n][v] = LoadLine(v, e[n])
  BY <1>3, <1>4 DEF Steps
<1>7. PICK f : FoldsAll(f, base, h, N, V)
  BY <1>5, <1>6, FoldSolution
<1>8. \A s \in SUBSET (1 .. N) : s # {} => Max(s) \in 1 .. N
  BY GreatestIn
<1>9. f = [s \in SUBSET D |-> IF s = {} THEN base ELSE LoadLine(f[s \ {Max(s)}], e[Max(s)])]
  <2>1. \A s \in SUBSET D : f[s] = IF s = {} THEN base ELSE LoadLine(f[s \ {Max(s)}], e[Max(s)])
    BY <1>2, <1>6, <1>7, <1>8 DEF FoldsAll
  <2>2. f = [s \in SUBSET D |-> f[s]]
    BY <1>2, <1>7 DEF FoldsAll
  <2>. QED
    BY <2>1, <2>2
<1>10. iter = [s \in SUBSET D |-> IF s = {} THEN base ELSE LoadLine(iter[s \ {Max(s)}], e[Max(s)])]
  BY <1>9
<1> HIDE DEF iter
<1>11. \A s \in SUBSET D : iter[s] = IF s = {} THEN base ELSE LoadLine(iter[s \ {Max(s)}], e[Max(s)])
  BY <1>10
<1>12. FoldsOn(iter, base, h, N, V)
  <2>1. iter[{}] = base
    BY <1>11
  <2>2. ASSUME NEW s \in SUBSET (1 .. N), NEW v \in V, s # {}, iter[s \ {Max(s)}] = v
        PROVE  iter[s] = h[Max(s)][v]
    <3>1. iter[s] = LoadLine(v, e[Max(s)])
      BY <1>2, <1>11, <2>2
    <3>. QED
      BY <1>6, <1>8, <2>2, <3>1
  <2>. QED
    BY <2>1, <2>2 DEF FoldsOn
<1>13. PICK g : Stages(g, base, h, N, V) /\ iter[1 .. N] = g[N]
  BY <1>5, <1>6, <1>12, FoldStages
<1>14. \A n \in 0 .. N : g[n] \in V
  BY <1>13 DEF Stages
<1>15. g[0] = base
  BY <1>13 DEF Stages
<1>16. \A n \in 1 .. N : g[n] = LoadLine(g[n - 1], e[n])
  <2>1. SUFFICES ASSUME NEW n \in 1 .. N PROVE g[n] = LoadLine(g[n - 1], e[n])
    OBVIOUS
  <2>2. n - 1 \in 0 .. N /\ g[n - 1] \in V
    BY <1>14
  <2>3. g[n] = h[n][g[n - 1]]
    BY <1>13 DEF Stages
  <2>. QED
    BY <1>6, <2>2, <2>3
<1>17. FoldLeft(LoadLine, InitDefaults, e) = g[N]
  BY <1>1, <1>2, <1>13
<1>. QED
  BY <1>2, <1>14, <1>15, <1>16, <1>17 DEF V, base, Loads

LEMMA Gathered ==
    ASSUME NEW D, NEW f, f = [c \in D |-> f[c]]
    PROVE  \E S : \A c \in D : \A i \in DOMAIN f[c] : f[c][i] \in S
<1>1. PICK S : S = UNION {{f[c][i] : i \in DOMAIN f[c]} : c \in D}
  OBVIOUS
<1>2. ASSUME NEW c \in D, NEW i \in DOMAIN f[c]
      PROVE  f[c][i] \in S
  <2>1. PICK T : T = {f[c][j] : j \in DOMAIN f[c]}
    OBVIOUS
  <2>2. f[c][i] \in T
    BY <2>1
  <2>3. T \in {{f[d][j] : j \in DOMAIN f[d]} : d \in D}
    BY <2>1
  <2>. QED
    BY <1>1, <2>2, <2>3
<1>. QED
  BY <1>2

\* The lines of a file of rules, each with a list.
IsRuleFile(e) == IsSeq(e) /\ \A i \in DOMAIN e : IsSeq(e[i].list)

\* A sequence is what gives a value to each number up to its length.
LEMMA NumberedIsSeq ==
    ASSUME NEW n \in Nat, NEW s, s = [i \in 1 .. n |-> s[i]]
    PROVE  IsSeq(s) /\ Len(s) = n
<1>1. PICK E : E = {s[i] : i \in 1 .. n}
  OBVIOUS
<1>2. s \in [1 .. n -> E]
  BY <1>1
<1>3. Len(s) = n
  BY <1>2
<1>. QED
  BY <1>3 DEF IsSeq

\* What is read of a file of rules is such a file, with as many lines.
LEMMA ReadLinesFacts ==
    ASSUME NEW given \in RuleFiles, NEW file, file = ReadLines(given)
    PROVE  IsRuleFile(file) /\ Len(file) = Len(given) /\ DOMAIN file = DOMAIN given
<1>1. IsSeq(given) /\ \A i \in DOMAIN given : IsSeq(given[i].list)
  BY RuleFilesAssumption DEF IsList, IsSeq
<1>2. PICK n \in Nat : n = Len(given) /\ DOMAIN given = 1 .. n
  BY <1>1, SeqElements DEF IsSeq
<1>3. file = [i \in 1 .. n |-> file[i]]
  BY <1>2 DEF ReadLines
<1>4. IsSeq(file) /\ Len(file) = n
  BY <1>3, NumberedIsSeq
<1>5. ASSUME NEW i \in DOMAIN given
      PROVE  IsSeq(file[i].list)
  <2>1. PICK line : line = given[i] /\ IsSeq(line.list) /\ file[i] = ReadLine(line)
    BY <1>1 DEF ReadLines
  <2>2. PICK list : list = ReadLine(line).list
    OBVIOUS
  <2>3. list = [k \in DOMAIN line.list |-> list[k]]
    BY <2>2 DEF ReadLine
  <2>4. PICK m \in Nat : m = Len(line.list) /\ DOMAIN line.list = 1 .. m
    BY <2>1, SeqElements DEF IsSeq
  <2>5. IsSeq(list)
    BY <2>3, <2>4, NumberedIsSeq
  <2>. QED
    BY <2>1, <2>2, <2>5
<1>. QED
  BY <1>2, <1>3, <1>4, <1>5 DEF IsRuleFile

\* What a file of rules and the built in categories bring.
LEMMA RulesSource ==
    ASSUME NEW file, IsRuleFile(file)
    PROVE  \E Names, Rules, Keywords, C :
             /\ C = CategoriesOf(Names, Rules, Keywords) /\ InitDefaults \in WellPlaced(C)
             /\ \A i \in DOMAIN file : LineOf(file[i], Names, Rules, Keywords)
<1>1. IsSeq(file) /\ \A i \in DOMAIN file : IsSeq(file[i].list)
  BY DEF IsRuleFile
<1>2. PICK A : \A c \in DOMAIN Builtin : \A i \in DOMAIN Builtin[c].rules : Builtin[c].rules[i] \in A
  <2>1. PICK f : f = [c \in DOMAIN Builtin |-> Builtin[c].rules]
    OBVIOUS
  <2>2. f = [c \in DOMAIN Builtin |-> f[c]] /\ \A c \in DOMAIN Builtin : f[c] = Builtin[c].rules
    BY <2>1
  <2>3. PICK A : \A c \in DOMAIN Builtin : \A i \in DOMAIN f[c] : f[c][i] \in A
    BY <2>2, Gathered
  <2>. QED
    BY <2>2, <2>3
<1>3. PICK B : \A c \in DOMAIN Builtin : \A i \in DOMAIN Builtin[c].keywords : Builtin[c].keywords[i] \in B
  <2>1. PICK f : f = [c \in DOMAIN Builtin |-> Builtin[c].keywords]
    OBVIOUS
  <2>2. f = [c \in DOMAIN Builtin |-> f[c]] /\ \A c \in DOMAIN Builtin : f[c] = Builtin[c].keywords
    BY <2>1
  <2>3. PICK B : \A c \in DOMAIN Builtin : \A i \in DOMAIN f[c] : f[c][i] \in B
    BY <2>2, Gathered
  <2>. QED
    BY <2>2, <2>3
<1>4. PICK d : d = [i \in DOMAIN file |-> DomainRules(file[i].list)]
  OBVIOUS
<1>5. PICK k : k = [i \in DOMAIN file |-> NotEmpty(file[i].list)]
  OBVIOUS
<1>6. PICK E : \A i \in DOMAIN file : \A j \in DOMAIN d[i] : d[i][j] \in E
  <2>1. d = [i \in DOMAIN file |-> d[i]]
    BY <1>4
  <2>. QED
    BY <2>1, Gathered
<1>7. PICK F : \A i \in DOMAIN file : \A j \in DOMAIN k[i] : k[i][j] \in F
  <2>1. k = [i \in DOMAIN file |-> k[i]]
    BY <1>5
  <2>. QED
    BY <2>1, Gathered
<1>8. PICK P : P = {[type |-> "path", domain |-> file[i].name, pattern |-> file[i].list[1]] : i \in DOMAIN file}
  OBVIOUS
<1>9. PICK G, H : G = {Builtin[c].name : c \in DOMAIN Builtin} /\ H = {file[i].name : i \in DOMAIN file}
  OBVIOUS
<1>10. PICK Names, Rules, Keywords :
         Names = G \cup H /\ Rules = A \cup E \cup P /\ Keywords = B \cup F
  OBVIOUS
<1>11. PICK C : C = CategoriesOf(Names, Rules, Keywords)
  OBVIOUS
<1>12. InitDefaults \in WellPlaced(C)
  <2>1. \A c \in DOMAIN Builtin :
          /\ Builtin[c].name \in Names
          /\ \A i \in DOMAIN Builtin[c].rules : Builtin[c].rules[i] \in Rules
          /\ \A i \in DOMAIN Builtin[c].keywords : Builtin[c].keywords[i] \in Keywords
    <3>1. ASSUME NEW c \in DOMAIN Builtin
          PROVE  Builtin[c].name \in Names
      BY <1>9, <1>10
    <3>2. ASSUME NEW c \in DOMAIN Builtin, NEW i \in DOMAIN Builtin[c].rules
          PROVE  Builtin[c].rules[i] \in Rules
      BY <1>2, <1>10
    <3>3. ASSUME NEW c \in DOMAIN Builtin, NEW i \in DOMAIN Builtin[c].keywords
          PROVE  Builtin[c].keywords[i] \in Keywords
      BY <1>3, <1>10
    <3>. QED
      BY <3>1, <3>2, <3>3
  <2>. QED
    BY <1>11, <2>1, DefaultsFit
<1>13. ASSUME NEW i \in DOMAIN file
       PROVE  LineOf(file[i], Names, Rules, Keywords)
  <2>1. d[i] = DomainRules(file[i].list) /\ k[i] = NotEmpty(file[i].list)
    BY <1>4, <1>5
  <2>2. IsSeq(d[i]) /\ IsSeq(k[i])
    BY <1>1, <2>1, NotEmptyIsSeq
  <2>3. \A j \in DOMAIN d[i] : d[i][j] \in Rules
    BY <1>6, <1>10
  <2>4. \A j \in DOMAIN k[i] : k[i][j] \in Keywords
    BY <1>7, <1>10
  <2>5. d[i] \in Seq(Rules) /\ k[i] \in Seq(Keywords)
    BY <2>2, <2>3, <2>4, SeqWithin
  <2>6. file[i].name \in Names
    BY <1>9, <1>10
  <2>7. [type |-> "path", domain |-> file[i].name, pattern |-> file[i].list[1]] \in Rules
    <3>1. [type |-> "path", domain |-> file[i].name, pattern |-> file[i].list[1]] \in P
      BY <1>8
    <3>. QED
      BY <1>10, <3>1
  <2>. QED
    BY <2>1, <2>5, <2>6, <2>7 DEF LineOf
<1>. QED
  BY <1>11, <1>12, <1>13

\* Whatever a file of rules says, the categories stay within their arrays.
LEMMA RulesFit ==
    ASSUME NEW given \in RuleFiles
    PROVE  Limited(LoadRules(given))
<1>0. PICK file : file = ReadLines(given) /\ IsRuleFile(file)
  BY ReadLinesFacts
<1>1. IsSeq(file) /\ Len(file) \in Nat
  BY <1>0 DEF IsRuleFile, IsSeq
<1>2. PICK Names, Rules, Keywords, C :
         /\ C = CategoriesOf(Names, Rules, Keywords) /\ InitDefaults \in WellPlaced(C)
         /\ \A i \in DOMAIN file : LineOf(file[i], Names, Rules, Keywords)
  BY <1>0, RulesSource
<1>3. PICK x : x = FoldLeft(LoadLine, InitDefaults, file) /\ x \in WellPlaced(C)
  <2>1. PICK g : Loads(g, file, C)
    BY <1>1, <1>2, RulesFold
  <2>2. Len(file) \in 0 .. Len(file)
    BY <1>1
  <2>. QED
    BY <2>1, <2>2 DEF Loads
<1>4. PICK cs : cs = x.categories /\ cs \in Upto(C, MaxCategories)
  BY <1>3 DEF WellPlaced, Engines
<1>5. Limited(cs)
  <2>1. cs \in Seq(C) /\ Len(cs) <= MaxCategories
    BY <1>4 DEF Upto
  <2>2. \A c \in DOMAIN cs : cs[c] \in C
    BY <2>1
  <2>3. \A cat \in C : Len(cat.rules) <= MaxRules /\ Len(cat.keywords) <= MaxKeywords
    BY <1>2 DEF CategoriesOf, Upto
  <2>. QED
    BY <2>1, <2>2, <2>3 DEF Limited
<1>. QED
  BY <1>0, <1>3, <1>4, <1>5 DEF LoadRules

-----------------------------------------------------------------------------
(* The limits of the arrays.                                               *)

Unreported == {"query", "read", "unmerged", "import", "stats"}

Sized ==
    /\ stage \in Unreported \cup {"categorize", "search", "done", "failed"}
    /\ \A i \in DOMAIN scan : Len(scan[i].profiles) \in 1 .. MaxProfiles
    /\ stage \in Unreported => stats.total_urls = 0
    /\ stats.total_urls \in {0, Len(result)}
    /\ Limited(categories)

LEMMA SizedInit == PipelineInit => Sized
<1>1. SUFFICES ASSUME PipelineInit PROVE Sized
  OBVIOUS
<1>2. stage = "query" /\ scan = <<>> /\ stats.total_urls = 0 /\ categories = <<>>
  BY <1>1 DEF PipelineInit, Init, NoStats
<1>3. DOMAIN <<>> = {} /\ Len(<<>>) = 0
  OBVIOUS
<1>4. MaxCategories \in Nat
  BY CategorizeAssumption
<1>5. Limited(categories)
  BY <1>2, <1>3, <1>4 DEF Limited
<1>. QED
  BY <1>2, <1>3, <1>5 DEF Sized, Unreported

\* A scan finds no more profiles of a browser than there is room for.
LEMMA ScanLimits ==
    ASSUME DiskTyped, NEW sc, sc = BrowserScan, NEW i \in DOMAIN sc
    PROVE  Len(sc[i].profiles) \in 1 .. MaxProfiles
<1>1. Scanned(sc)
  BY ScanFacts
<1>2. PICK ps, t : t = sc[i].type /\ ps = sc[i].profiles /\ t \in DOMAIN disk /\ ps # <<>> /\ ps = Profiles(t)
  BY <1>1 DEF Scanned
<1>3. AreProfiles(t, ps)
  BY <1>2, ProfilesFacts
<1>4. IsSeq(ps) /\ Len(ps) <= MaxProfiles
  BY <1>3 DEF AreProfiles
<1>5. PICK K \in Nat : K = Len(ps) /\ DOMAIN ps = 1 .. K
  BY <1>4, SeqElements DEF IsSeq
<1>6. K # 0
  BY <1>2, <1>4, <1>5 DEF IsSeq
<1>7. MaxProfiles \in Nat
  BY QueryAssumption
<1>. QED
  BY <1>2, <1>4, <1>5, <1>6, <1>7

LEMMA SizedNext == Typed /\ Sized /\ [Next]_vars => Sized'
<1>1. SUFFICES ASSUME Typed, Sized, [Next]_vars PROVE Sized'
  OBVIOUS
<1>2. CASE UNCHANGED vars
  BY <1>1, <1>2 DEF vars, queryVars, analysisVars, Sized, Limited
<1>3. CASE Query
  <2>1. stage \in Unreported /\ stats' = stats /\ categories' = categories
    BY <1>3 DEF Query, analysisVars, QueryNext, Scan, QueryProfile, Deduplicate, QueryFile, Import,
                LoseProfile, Unreported
  <2>2. stage' \in Unreported \cup {"failed"}
    BY <1>3, <2>1 DEF Query, QueryNext, Scan, QueryProfile, Deduplicate, QueryFile, Import,
                LoseProfile, Unreported
  <2>3. stats.total_urls = 0
    BY <1>1, <2>1 DEF Sized
  <2>4. Limited(categories)'
    BY <1>1, <2>1 DEF Sized, Limited
  <2>5. CASE Scan
    <3>1. DiskTyped /\ scan' = BrowserScan
      BY <1>1, <2>5 DEF Typed, Scan
    <3>2. PICK sc : sc = scan' /\ sc = BrowserScan
      BY <3>1
    <3>3. \A i \in DOMAIN sc : Len(sc[i].profiles) \in 1 .. MaxProfiles
      BY <3>1, <3>2, ScanLimits
    <3>. QED
      BY <2>1, <2>2, <2>3, <2>4, <3>2, <3>3 DEF Sized, Unreported
  <2>6. CASE ~Scan
    <3>1. scan' = scan
      BY <1>3, <2>6 DEF Query, QueryNext, QueryProfile, Deduplicate, QueryFile, Import, LoseProfile
    <3>. QED
      BY <1>1, <2>1, <2>2, <2>3, <2>4, <3>1 DEF Sized, Unreported
  <2>. QED
    BY <2>5, <2>6
<1>4. CASE Statistics
  <2>1. stage = "stats" /\ scan' = scan /\ result' = result /\ categories' = categories
    BY <1>4 DEF Statistics
  <2>2. /\ stage' \in {"done", "categorize"}
        /\ stats' = stats \/ stats' = ComputeStats(result)
    BY <1>4 DEF Statistics
  <2>3. ComputeStats(result).total_urls = Len(result)
    BY DEF ComputeStats
  <2>4. stats'.total_urls \in {0, Len(result')}
    BY <1>1, <2>1, <2>2, <2>3 DEF Sized
  <2>5. Limited(categories)'
    BY <1>1, <2>1 DEF Sized, Limited
  <2>. QED
    BY <1>1, <2>1, <2>2, <2>4, <2>5 DEF Sized, Unreported
<1>5. CASE CategorizeEntries
  <2>1. /\ stage = "categorize" /\ stage' = "search"
        /\ scan' = scan /\ result' = result /\ stats' = stats
    BY <1>5 DEF CategorizeEntries
  <2>2. categories' = categories \/ \E file \in RuleFiles : categories' = LoadRules(file)
    BY <1>5 DEF CategorizeEntries
  <2>3. PICK cs : cs = categories' /\ Limited(cs)
    <3>1. CASE categories' = categories
      BY <1>1, <3>1 DEF Sized
    <3>2. CASE \E file \in RuleFiles : categories' = LoadRules(file)
      BY <3>2, RulesFit
    <3>. QED
      BY <2>2, <3>1, <3>2
  <2>4. Limited(categories)'
    BY <2>3 DEF Limited
  <2>. QED
    BY <1>1, <2>1, <2>4 DEF Sized, Unreported
<1>6. CASE Search
  <2>1. /\ stage = "search" /\ stage' = "done"
        /\ scan' = scan /\ result' = result /\ stats' = stats /\ categories' = categories
    BY <1>6 DEF Search
  <2>2. Limited(categories)'
    BY <1>1, <2>1 DEF Sized, Limited
  <2>. QED
    BY <1>1, <2>1, <2>2 DEF Sized, Unreported
<1>. QED
  BY <1>1, <1>2, <1>3, <1>4, <1>5, <1>6 DEF Next

LEMMA LimitsKept == Typed /\ Sized => TypeOK
<1>1. SUFFICES ASSUME Typed, Sized PROVE TypeOK
  OBVIOUS
<1>2. \A i \in DOMAIN result : result[i].visit_count \in Int /\ result[i].last_visit_raw \in Nat
  BY <1>1 DEF Typed, IsEntries, IsEntry
<1>. QED
  BY <1>1, <1>2 DEF Sized, Unreported, Limited, TypeOK

LEMMA QueriedOnce ==
    ASSUME NEW q, NEW Types, PlacesToRead(q, Types)
    PROVE  /\ IsInjective(q)
           /\ ToSet(q) = UNION {{<<t, p>> : p \in Databases(t)} : t \in Types \cap DOMAIN disk}
<1>1. IsInjective(q)
  BY DEF PlacesToRead, IsInjective
<1>2. PICK U : U = UNION {{<<t, p>> : p \in Databases(t)} : t \in Types \cap DOMAIN disk}
  OBVIOUS
<1>3. ASSUME NEW w \in ToSet(q)
      PROVE  w \in U
  <2>1. PICK n \in DOMAIN q : w = q[n]
    BY <1>3 DEF ToSet
  <2>2. PICK t, p : w = <<t, p>>
    BY <2>1 DEF PlacesToRead
  <2>3. t \in Types \cap DOMAIN disk /\ p \in Databases(t)
    BY <2>1, <2>2 DEF PlacesToRead
  <2>. QED
    BY <1>2, <2>2, <2>3
<1>4. ASSUME NEW w \in U
      PROVE  w \in ToSet(q)
  <2>1. PICK t \in Types \cap DOMAIN disk : w \in {<<t, p>> : p \in Databases(t)}
    BY <1>2, <1>4
  <2>2. PICK p \in Databases(t) : w = <<t, p>>
    BY <2>1
  <2>3. \E n \in DOMAIN q : q[n] = <<t, p>>
    BY <2>1, <2>2 DEF PlacesToRead
  <2>. QED
    BY <2>2, <2>3 DEF ToSet
<1>. QED
  BY <1>1, <1>2, <1>3, <1>4

\* Whatever is installed and asked for, however a directory is laid out and whatever
\* profiles go away, the profiles queried and those still to query are each of the
\* databases of the browsers that were asked for, once, and nothing else, and the
\* profiles, the categories and their rules stay within their arrays (browser_scan,
\* browser_query_all, browser_query_by_type, cat_engine_load_rules_buffer).
THEOREM AlwaysEachProfileOnce == Spec => []EachProfileOnce
<1>1. PipelineInit => Typed /\ Sized
  BY TypedInit, SizedInit
<1>2. (Typed /\ Sized) /\ [Next]_vars => (Typed /\ Sized)'
  BY TypedNext, SizedNext
<1>3. Typed /\ Sized => EachProfileOnce
  <2>1. SUFFICES ASSUME Typed, Sized PROVE EachProfileOnce
    OBVIOUS
  <2>2. TypeOK
    BY <2>1, LimitsKept
  <2>3. ASSUME stage = "read"
        PROVE  /\ IsInjective(Queried)
               /\ ToSet(Queried) = UNION {{<<t, p>> : p \in Databases(t)} : t \in Asked \cap DOMAIN disk}
    <3>1. PICK q, Types : q = Queried /\ Types = Asked
      OBVIOUS
    <3>2. PlacesToRead(q, Types)
      BY <2>1, <2>3, <3>1 DEF Typed
    <3>3. /\ IsInjective(q)
          /\ ToSet(q) = UNION {{<<t, p>> : p \in Databases(t)} : t \in Types \cap DOMAIN disk}
      BY <3>2, QueriedOnce
    <3>. QED
      BY <3>1, <3>3
  <2>. QED
    BY <2>2, <2>3 DEF EachProfileOnce
<1>. QED
  BY <1>1, <1>2, <1>3, PTL DEF Spec

-----------------------------------------------------------------------------
(* Where in the result the entries of an answer begin.                     *)

\* A total is the sum of its numbers.
LEMMA TotalIsSum ==
    ASSUME NEW e, IsSeq(e), \A i \in DOMAIN e : e[i] \in Int
    PROVE  Total(e) = SumOf(e, DOMAIN e)
<1> DEFINE D == DOMAIN e
           iter == CHOOSE f : f = [s \in SUBSET D |-> IF s = {} THEN 0
                                    ELSE f[s \ {Max(s)}] + e[Max(s)]]
<1>1. Total(e) = iter[D]
  BY DEF Total, FoldLeft, MapThenFoldSet
<1>2. PICK N \in Nat : N = Len(e) /\ D = 1 .. N
  BY SeqElements DEF IsSeq
<1>3. IsFiniteSet(D)
  BY <1>2, FS_Interval
<1>4. ASSUME NEW s \in SUBSET D, s # {}
      PROVE  Max(s) \in s
  <2>1. s \in SUBSET (0 .. N)
    BY <1>2
  <2>. QED
    BY <1>4, <2>1, MaxFacts
<1>5. ASSUME NEW s \in SUBSET D, s # {}
      PROVE  SumOf(e, s) = SumOf(e, s \ {Max(s)}) + e[Max(s)]
  <2>1. PICK m \in s : m = Max(s)
    BY <1>4, <1>5
  <2>2. IsFiniteSet(s) /\ \A x \in s : e[x] \in Int
    BY <1>3, FS_Subset
  <2>3. SumOf(e, s) = e[m] + SumOf(e, s \ {m})
    BY <2>2, SumSplits
  <2>4. SumOf(e, s \ {m}) \in Int
    <3>1. IsFiniteSet(s \ {m}) /\ \A x \in s \ {m} : e[x] \in Int
      BY <2>2, FS_RemoveElement
    <3>. QED
      BY <3>1, SumType
  <2>. QED
    BY <2>1, <2>2, <2>3, <2>4
<1>6. PICK f : f = [s \in SUBSET D |-> SumOf(e, s)]
  OBVIOUS
<1>7. f = [s \in SUBSET D |-> IF s = {} THEN 0 ELSE f[s \ {Max(s)}] + e[Max(s)]]
  <2>1. \A s \in SUBSET D : f[s] = IF s = {} THEN 0 ELSE f[s \ {Max(s)}] + e[Max(s)]
    <3>1. ASSUME NEW s \in SUBSET D
          PROVE  f[s] = IF s = {} THEN 0 ELSE f[s \ {Max(s)}] + e[Max(s)]
      <4>1. CASE s = {}
        BY <1>6, <4>1, SumEmpty
      <4>2. CASE s # {}
        <5>1. s \ {Max(s)} \in SUBSET D
          OBVIOUS
        <5>2. f[s] = SumOf(e, s) /\ f[s \ {Max(s)}] = SumOf(e, s \ {Max(s)})
          BY <1>6, <5>1
        <5>. QED
          BY <1>5, <4>2, <5>2
      <4>. QED
        BY <4>1, <4>2
    <3>. QED
      BY <3>1
  <2>2. f = [s \in SUBSET D |-> f[s]]
    BY <1>6
  <2>. QED
    BY <2>1, <2>2
<1>8. iter = [s \in SUBSET D |-> IF s = {} THEN 0 ELSE iter[s \ {Max(s)}] + e[Max(s)]]
  BY <1>7
<1> HIDE DEF iter
<1>9. \A s \in SUBSET D : iter[s] = IF s = {} THEN 0 ELSE iter[s \ {Max(s)}] + e[Max(s)]
  BY <1>8
<1>10. PICK P : P = {s \in SUBSET D : iter[s] = SumOf(e, s)}
  OBVIOUS
<1>11. ASSUME NEW s \in SUBSET D, \A u \in SUBSET s : u # s => u \in P
       PROVE  s \in P
  <2>1. CASE s = {}
    BY <1>9, <1>10, <2>1, SumEmpty
  <2>2. CASE s # {}
    <3>1. s \ {Max(s)} \in P
      BY <1>4, <1>11, <2>2
    <3>2. iter[s] = iter[s \ {Max(s)}] + e[Max(s)]
      BY <1>9, <2>2
    <3>3. iter[s \ {Max(s)}] = SumOf(e, s \ {Max(s)})
      BY <1>10, <3>1
    <3>. QED
      BY <1>5, <1>10, <2>2, <3>2, <3>3
  <2>. QED
    BY <2>1, <2>2
<1>12. \A s \in SUBSET D : s \in P
  BY <1>3, <1>11, SubsetInduction
<1>. QED
  BY <1>1, <1>10, <1>12

\* How many entries an answer has brought, and where those of the k-th begin.
Brought(a) == Max({a.count, 0})

Start(past, k) == Total([i \in 1 .. k - 1 |-> Brought(past[i])])

LEMMA BroughtFacts ==
    ASSUME NEW a, a.count \in Int
    PROVE  Brought(a) \in Nat /\ (a.count >= 0 => Brought(a) = a.count) /\ (a.count < 0 => Brought(a) = 0)
<1>0. PICK n \in Int : n = a.count
  OBVIOUS
<1>9. PICK S : S = {n, 0}
  OBVIOUS
<1>1. S = {n, 0} /\ S \in SUBSET Int /\ S # {}
  <2>1. n \in S
    BY <1>9
  <2>. QED
    BY <1>9, <2>1
<1>2. IsFiniteSet(S)
  <2>1. IsFiniteSet({0})
    BY FS_Singleton
  <2>2. S = {0} \cup {n}
    BY <1>1
  <2>. QED
    BY <2>1, <2>2, FS_AddElement
<1>3. PICK m : m = Max(S) /\ m \in S /\ \A y \in S : y <= m
  BY <1>1, <1>2, LargestOf
<1>4. n <= m /\ 0 <= m /\ (m = n \/ m = 0)
  BY <1>1, <1>3
<1>. QED
  BY <1>0, <1>1, <1>3, <1>4 DEF Brought

LEMMA StartSum ==
    ASSUME NEW past, IsSeq(past), \A i \in DOMAIN past : past[i].count \in Int,
           NEW k \in Nat, k <= Len(past), NEW f, f = [i \in DOMAIN past |-> Brought(past[i])]
    PROVE  Start(past, k + 1) = SumOf(f, 1 .. k)
<1>1. PICK N \in Nat : N = Len(past) /\ DOMAIN past = 1 .. N
  BY SeqElements DEF IsSeq
<1>2. PICK e : e = [i \in 1 .. k |-> Brought(past[i])]
  OBVIOUS
<1>3. Start(past, k + 1) = Total(e)
  <2>1. (k + 1) - 1 = k
    OBVIOUS
  <2>. QED
    BY <1>2, <2>1 DEF Start
<1>4. \A i \in 1 .. k : i \in DOMAIN past /\ Brought(past[i]) \in Nat
  <2>1. \A i \in 1 .. k : i \in DOMAIN past
    BY <1>1
  <2>. QED
    BY <2>1, BroughtFacts
<1>5. IsSeq(e) /\ DOMAIN e = 1 .. k
  <2>1. e = [i \in 1 .. k |-> e[i]]
    BY <1>2
  <2>. QED
    BY <2>1, MappedIsSeq
<1>6. \A i \in 1 .. k : e[i] \in Int /\ e[i] = f[i]
  BY <1>2, <1>4
<1>7. Total(e) = SumOf(e, 1 .. k)
  BY <1>5, <1>6, TotalIsSum
<1>8. IsFiniteSet(1 .. k)
  BY FS_Interval
<1>9. SumOf(e, 1 .. k) = SumOf(f, 1 .. k)
  BY <1>6, <1>8, SumSame
<1>. QED
  BY <1>3, <1>7, <1>9

\* The entries of an answer begin where those of the answer before it end.
LEMMA StartFacts ==
    ASSUME NEW past, IsSeq(past), \A i \in DOMAIN past : past[i].count \in Int
    PROVE  /\ Start(past, 1) = 0
           /\ \A k \in DOMAIN past : Start(past, k) \in Int /\ Start(past, k + 1) = Start(past, k) + Brought(past[k])
<1>1. PICK N \in Nat : N = Len(past) /\ DOMAIN past = 1 .. N
  BY SeqElements DEF IsSeq
<1>2. PICK f : f = [i \in DOMAIN past |-> Brought(past[i])]
  OBVIOUS
<1>3. \A i \in 1 .. N : f[i] \in Int /\ f[i] = Brought(past[i])
  BY <1>1, <1>2, BroughtFacts
<1>4. Start(past, 1) = 0
  <2>1. PICK z \in Nat : z = 0
    OBVIOUS
  <2>2. Start(past, z + 1) = SumOf(f, 1 .. z)
    BY <1>1, <1>2, <2>1, StartSum
  <2>3. 1 .. z = {} /\ z + 1 = 1
    BY <2>1
  <2>. QED
    BY <2>2, <2>3, SumEmpty
<1>5. ASSUME NEW k \in DOMAIN past
      PROVE  Start(past, k) \in Int /\ Start(past, k + 1) = Start(past, k) + Brought(past[k])
  <2>1. PICK j \in Nat : k = j + 1 /\ k \in Nat /\ k <= N /\ j <= N
    <3>1. k - 1 \in Nat /\ k = (k - 1) + 1
      BY <1>1
    <3>. QED
      BY <1>1, <3>1
  <2>2. Start(past, j + 1) = SumOf(f, 1 .. j)
    BY <1>1, <1>2, <2>1, StartSum
  <2>3. Start(past, k + 1) = SumOf(f, 1 .. k)
    BY <1>1, <1>2, <2>1, StartSum
  <2>4. 1 .. k = (1 .. j) \cup {k} /\ k \notin 1 .. j
    BY <2>1
  <2>5. IsFiniteSet(1 .. j)
    BY FS_Interval
  <2>6. \A y \in (1 .. j) \cup {k} : f[y] \in Int
    BY <1>1, <1>3, <2>1
  <2>7. SumOf(f, (1 .. j) \cup {k}) = f[k] + SumOf(f, 1 .. j)
    BY <2>4, <2>5, <2>6, SumAdds
  <2>8. SumOf(f, 1 .. j) \in Int
    BY <2>5, <2>6, SumType
  <2>9. f[k] = Brought(past[k]) /\ f[k] \in Int
    BY <1>1, <1>3
  <2>10. PICK u \in Int : u = SumOf(f, 1 .. j)
    BY <2>8
  <2>11. Start(past, k) = u
    BY <2>1, <2>2, <2>10
  <2>12. Start(past, k + 1) = f[k] + u
    BY <2>3, <2>4, <2>7, <2>10
  <2>. QED
    BY <2>9, <2>11, <2>12
<1>. QED
  BY <1>4, <1>5

LEMMA StartKept ==
    ASSUME NEW past, IsSeq(past), NEW bs, \A i \in DOMAIN past : bs[i] = past[i],
           NEW k \in Nat, k <= Len(past)
    PROVE  Start(bs, k + 1) = Start(past, k + 1)
<1>1. (k + 1) - 1 = k
  OBVIOUS
<1>2. \A i \in 1 .. k : bs[i] = past[i]
  <2>1. DOMAIN past = 1 .. Len(past) /\ Len(past) \in Nat
    BY SeqElements DEF IsSeq
  <2>. QED
    BY <2>1
<1>3. PICK e : e = [i \in 1 .. k |-> Brought(past[i])]
  OBVIOUS
<1>4. e = [i \in 1 .. k |-> Brought(bs[i])]
  BY <1>2, <1>3
<1>5. Start(past, k + 1) = Total(e)
  BY <1>1, <1>3 DEF Start
<1>6. Start(bs, k + 1) = Total(e)
  BY <1>1, <1>4 DEF Start
<1>. QED
  BY <1>5, <1>6

-----------------------------------------------------------------------------
(* What of the result an answer has brought.                               *)

\* From the place b on, es has the first n of the rows of a file of this type that are
\* read, all of them unless reading may break off.
PartOf(rows, type, from, n, es, b) ==
    /\ n \in 0 .. Cardinality(ReadFrom(rows, from))
    /\ type \in Failing \/ n = Cardinality(ReadFrom(rows, from))
    /\ \A i \in 1 .. n : es[b + i] = RowEntry(rows[NewestFirst(rows, from)[i]], from, Format(type))

FromOf(type, days, strict) == From(Format(type), days, strict)

RowsAt(a) == FileAt(a.type, a.place).rows

\* An answer of a query for these days, and its entries in es from the place b on.
AnswerOf(a, days, strict, es, b) ==
    /\ a.count \in Int
    /\ a.count >= 0 => /\ a.type \in DOMAIN disk /\ a.place \in PlacesOf(a.type)
                       /\ PartOf(RowsAt(a), a.type, FromOf(a.type, days, strict), a.count, es, b)

\* es are the entries that the answers have brought.
Parts(past, days, strict, es) ==
    /\ IsSeq(past) /\ IsSeq(es) /\ Len(es) = Start(past, Len(past) + 1)
    /\ \A k \in DOMAIN past : AnswerOf(past[k], days, strict, es, Start(past, k))

LEMMA CountsOfParts ==
    ASSUME NEW past, NEW days, NEW strict, NEW es, Parts(past, days, strict, es)
    PROVE  \A i \in DOMAIN past : past[i].count \in Int
BY DEF Parts, AnswerOf

\* Before the k-th answer the places of es are those of the earlier answers.
LEMMA StartsWithin ==
    ASSUME NEW past, IsSeq(past), \A i \in DOMAIN past : past[i].count \in Int
    PROVE  \A k \in 1 .. Len(past) + 1 :
              Start(past, k) \in Nat /\ \A j \in DOMAIN past : j < k => Start(past, j) + Brought(past[j]) <= Start(past, k)
<1>1. PICK N \in Nat : N = Len(past) /\ DOMAIN past = 1 .. N
  BY SeqElements DEF IsSeq
<1>2. PICK s : s = [k \in 1 .. N + 1 |-> Start(past, k)]
  OBVIOUS
<1>3. PICK f : f = [k \in 1 .. N |-> Brought(past[k])]
  OBVIOUS
<1>4. \A k \in 1 .. N : f[k] \in Nat
  BY <1>1, <1>3, BroughtFacts
<1>5. s[1] = 0 /\ \A k \in 1 .. N : s[k] \in Int /\ s[k + 1] = s[k] + f[k]
  <2>1. 1 \in 1 .. N + 1 /\ \A k \in 1 .. N : k \in 1 .. N + 1 /\ k + 1 \in 1 .. N + 1
    OBVIOUS
  <2>2. s[1] = Start(past, 1) /\ \A k \in 1 .. N : /\ s[k] = Start(past, k) /\ s[k + 1] = Start(past, k + 1)
                                                   /\ f[k] = Brought(past[k])
    BY <1>2, <1>3, <2>1
  <2>3. /\ Start(past, 1) = 0
        /\ \A k \in DOMAIN past : Start(past, k) \in Int /\ Start(past, k + 1) = Start(past, k) + Brought(past[k])
    BY StartFacts
  <2>. QED
    BY <1>1, <2>2, <2>3
<1>6. PICK P : P = {k \in Nat : k <= N => s[k + 1] \in Nat /\ \A j \in 1 .. N : j < k + 1 => s[j] + f[j] <= s[k + 1]}
  OBVIOUS
<1>7. 0 \in P
  BY <1>5, <1>6
<1>8. ASSUME NEW k \in P
      PROVE  k + 1 \in P
  <2>1. k \in Nat /\ (k <= N => s[k + 1] \in Nat /\ \A j \in 1 .. N : j < k + 1 => s[j] + f[j] <= s[k + 1])
    BY <1>6
  <2>2. ASSUME k + 1 <= N
        PROVE  s[k + 2] \in Nat /\ \A j \in 1 .. N : j < k + 2 => s[j] + f[j] <= s[k + 2]
    <3>1. k + 1 \in 1 .. N /\ (k + 1) + 1 = k + 2
      BY <2>1, <2>2
    <3>2. s[k + 1] \in Nat /\ f[k + 1] \in Nat /\ s[k + 2] = s[k + 1] + f[k + 1]
      BY <1>4, <1>5, <2>1, <2>2, <3>1
    <3>3. ASSUME NEW j \in 1 .. N, j < k + 2
          PROVE  s[j] + f[j] <= s[k + 2]
      <4>1. CASE j = k + 1
        BY <3>2, <4>1
      <4>2. CASE j < k + 1
        <5>1. s[j] + f[j] <= s[k + 1] /\ s[j] \in Int /\ f[j] \in Nat
          BY <1>4, <1>5, <2>1, <2>2, <4>2
        <5>. QED
          BY <3>2, <5>1
      <4>. QED
        BY <2>1, <3>3, <4>1, <4>2
    <3>. QED
      BY <3>2, <3>3
  <2>3. (k + 1) + 1 = k + 2 /\ k + 1 \in Nat
    BY <2>1
  <2>. QED
    BY <1>6, <2>2, <2>3
<1>9. \A k \in 0 .. N : k \in P
  <2>1. \A m \in 0 .. N - 1 : m \in P => m + 1 \in P
    BY <1>8
  <2>. QED
    BY <1>7, <2>1, CountUp
<1>10. ASSUME NEW k \in 1 .. N + 1
       PROVE  s[k] \in Nat /\ \A j \in 1 .. N : j < k => s[j] + f[j] <= s[k]
  <2>1. k - 1 \in P /\ k - 1 \in Nat /\ k - 1 <= N /\ (k - 1) + 1 = k
    BY <1>9
  <2>. QED
    BY <1>6, <2>1
<1>11. \A k \in 1 .. N + 1 : s[k] = Start(past, k)
  BY <1>2
<1>12. \A j \in 1 .. N : s[j] = Start(past, j) /\ f[j] = Brought(past[j])
  BY <1>2, <1>3
<1>. QED
  BY <1>1, <1>10, <1>11, <1>12

\* An answer moved with its entries.
LEMMA AnswerMoved ==
    ASSUME NEW a, NEW days, NEW strict, NEW es, NEW b, AnswerOf(a, days, strict, es, b),
           NEW gs, NEW c, \A i \in 1 .. Brought(a) : gs[c + i] = es[b + i]
    PROVE  AnswerOf(a, days, strict, gs, c)
<1>1. SUFFICES ASSUME a.count >= 0
               PROVE  PartOf(RowsAt(a), a.type, FromOf(a.type, days, strict), a.count, gs, c)
  BY DEF AnswerOf
<1>2. Brought(a) = a.count
  BY <1>1, BroughtFacts DEF AnswerOf
<1>3. PICK rows, from, n : rows = RowsAt(a) /\ from = FromOf(a.type, days, strict) /\ n = a.count
  OBVIOUS
<1>4. PartOf(rows, a.type, from, n, es, b)
  BY <1>1, <1>3 DEF AnswerOf
<1>5. PartOf(rows, a.type, from, n, gs, c)
  BY <1>2, <1>3, <1>4 DEF PartOf
<1>. QED
  BY <1>3, <1>5

\* One answer more, with its entries behind the others.
MoreParts(past, days, strict, es, x, part, bs, gs) ==
    /\ Parts(past, days, strict, es)
    /\ IsSeq(part) /\ Len(part) = Brought(x) /\ AnswerOf(x, days, strict, part, 0)
    /\ bs = Append(past, x) /\ gs = es \o part

LEMMA PartsAnswered ==
    ASSUME NEW past, NEW days, NEW strict, NEW es, NEW x, NEW part, NEW bs, NEW gs,
           MoreParts(past, days, strict, es, x, part, bs, gs)
    PROVE  Parts(bs, days, strict, gs)
<1>. USE DEF MoreParts
<1>1. PICK N \in Nat : N = Len(past) /\ DOMAIN past = 1 .. N
  BY SeqElements DEF IsSeq, Parts
<1>2. /\ IsSeq(past) /\ IsSeq(es) /\ Len(es) = Start(past, N + 1)
      /\ \A i \in DOMAIN past : past[i].count \in Int
  BY <1>1, CountsOfParts DEF Parts
<1>3. IsSeq(bs) /\ Len(bs) = N + 1 /\ bs[N + 1] = x /\ \A i \in DOMAIN past : bs[i] = past[i]
  <2>1. IsSeq(bs) /\ Len(bs) = Len(past) + 1 /\ bs[Len(past) + 1] = x
    BY <1>2, SeqAppend
  <2>2. \A i \in 1 .. Len(past) : bs[i] = past[i]
    BY <1>2, SeqAppend
  <2>. QED
    BY <1>1, <2>1, <2>2
<1>4. DOMAIN bs = 1 .. N + 1
  BY <1>3, SeqElements
<1>5. \A i \in DOMAIN bs : bs[i].count \in Int
  <2>1. x.count \in Int
    BY DEF AnswerOf
  <2>2. \A i \in 1 .. N + 1 : i \in 1 .. N \/ i = N + 1
    OBVIOUS
  <2>. QED
    BY <1>1, <1>2, <1>3, <1>4, <2>1, <2>2
<1>6. \A k \in 1 .. N + 1 : Start(bs, k) = Start(past, k)
  <2>1. SUFFICES ASSUME NEW k \in 1 .. N + 1 PROVE Start(bs, k) = Start(past, k)
    OBVIOUS
  <2>2. PICK j \in Nat : k = j + 1 /\ j <= N
    <3>1. k - 1 \in Nat /\ k = (k - 1) + 1 /\ k - 1 <= N
      OBVIOUS
    <3>. QED
      BY <3>1
  <2>. QED
    BY <1>1, <1>2, <1>3, <2>2, StartKept
<1>7. PICK m \in Nat, n \in Nat : Joined(gs, es, part, m, n)
  BY <1>2, SeqJoined
<1>8. m = Start(past, N + 1) /\ n = Brought(x)
  BY <1>2, <1>7 DEF Joined
<1>9. Len(gs) = Start(bs, N + 2)
  <2>1. /\ N + 1 \in DOMAIN bs /\ (N + 1) + 1 = N + 2
    BY <1>4
  <2>2. Start(bs, N + 2) = Start(bs, N + 1) + Brought(bs[N + 1])
    BY <1>3, <1>5, <2>1, StartFacts
  <2>3. Start(bs, N + 1) = Start(past, N + 1)
    BY <1>6
  <2>. QED
    BY <1>3, <1>7, <1>8, <2>2, <2>3 DEF Joined
<1>10. ASSUME NEW k \in DOMAIN bs
       PROVE  AnswerOf(bs[k], days, strict, gs, Start(bs, k))
  <2>1. CASE k \in 1 .. N
    <3>0. PICK a, b : a = past[k] /\ b = Start(past, k)
      OBVIOUS
    <3>1. b \in Nat /\ b + Brought(a) <= m /\ Brought(a) \in Nat
      <4>1. k \in 1 .. Len(past) + 1 /\ N + 1 \in 1 .. Len(past) + 1 /\ k \in DOMAIN past /\ k < N + 1
        BY <1>1, <2>1
      <4>2. Start(past, k) \in Nat
        BY <1>2, <4>1, StartsWithin
      <4>3. Start(past, k) + Brought(past[k]) <= Start(past, N + 1)
        BY <1>2, <4>1, StartsWithin
      <4>4. Brought(past[k]) \in Nat
        BY <1>2, <4>1, BroughtFacts
      <4>. QED
        BY <1>8, <3>0, <4>2, <4>3, <4>4
    <3>2. AnswerOf(a, days, strict, es, b)
      BY <1>1, <2>1, <3>0 DEF Parts
    <3>3. \A i \in 1 .. Brought(a) : gs[b + i] = es[b + i]
      <4>1. \A i \in 1 .. Brought(a) : b + i \in 1 .. m
        BY <3>1
      <4>. QED
        BY <1>7, <4>1 DEF Joined
    <3>4. AnswerOf(a, days, strict, gs, b)
      BY <3>2, <3>3, AnswerMoved
    <3>5. bs[k] = a /\ Start(bs, k) = b
      BY <1>1, <1>3, <1>6, <2>1, <3>0
    <3>. QED
      BY <3>4, <3>5
  <2>2. CASE k = N + 1
    <3>0. PICK z \in Nat : z = 0
      OBVIOUS
    <3>1. \A i \in 1 .. Brought(x) : gs[m + i] = part[z + i]
      <4>1. \A i \in 1 .. Brought(x) : z + i = i /\ i \in 1 .. n
        BY <1>7, <1>8, <3>0
      <4>. QED
        BY <1>7, <4>1 DEF Joined
    <3>2. AnswerOf(x, days, strict, gs, m)
      <4>1. AnswerOf(x, days, strict, part, z)
        BY <3>0
      <4>. HIDE DEF MoreParts
      <4>. QED
        BY <3>1, <4>1, AnswerMoved
    <3>3. Start(bs, k) = m /\ bs[k] = x
      BY <1>3, <1>6, <1>8, <2>2
    <3>. QED
      BY <3>2, <3>3
  <2>. QED
    BY <1>4, <2>1, <2>2
<1>11. IsSeq(gs)
  BY <1>7 DEF Joined
<1>12. Len(bs) + 1 = N + 2
  BY <1>3
<1>. QED
  BY <1>3, <1>9, <1>10, <1>11, <1>12 DEF Parts

-----------------------------------------------------------------------------
(* A profile's rows and their entries.                                     *)

Shifted(b, a, k, d) == b = a - k * d

LEMMA ShiftedQuotient ==
    ASSUME NEW a \in Int, NEW k \in Int, NEW d \in Nat \ {0}, NEW b, Shifted(b, a, k, d)
    PROVE  b \div d = a \div d - k
<1>. USE DEF Shifted
<1>1. PICK q \in Int : q = a \div d /\ d * q <= a /\ a < d * q + d
  OBVIOUS
<1>2. PICK p \in Int : p = b \div d /\ d * p <= a - k * d /\ a - k * d < d * p + d
  <2>1. k * d \in Int
    OBVIOUS
  <2>2. b \in Int
    BY <2>1
  <2>3. PICK p \in Int : p = b \div d /\ d * p <= b /\ b < d * p + d
    BY <2>2
  <2>. QED
    BY <2>3
<1>3. d * (q - k) = d * q - k * d
  OBVIOUS
<1>4. PICK r \in Int : r = q - k /\ d * r <= a - k * d /\ a - k * d < d * r + d
  <2>1. PICK r \in Int : r = q - k
    OBVIOUS
  <2>2. d * r = d * q - k * d /\ d * q \in Int /\ k * d \in Int
    BY <1>3, <2>1
  <2>3. PICK x \in Int, y \in Int : x = d * q /\ y = k * d
    BY <2>2
  <2>4. x <= a /\ a < x + d /\ d * r = x - y
    BY <1>1, <2>2, <2>3
  <2>5. d * r <= a - y /\ a - y < d * r + d
    BY <2>4
  <2>. QED
    BY <2>1, <2>3, <2>5
<1>5. p = r
  <2>1. d * p < d * r + d /\ d * r < d * p + d
    BY <1>2, <1>4
  <2>2. d * p + d = d * (p + 1) /\ d * r + d = d * (r + 1)
    OBVIOUS
  <2>3. p < r + 1
    <3>1. SUFFICES ASSUME p >= r + 1 PROVE FALSE
      OBVIOUS
    <3>2. d * p >= d * (r + 1)
      BY <3>1
    <3>. QED
      BY <2>1, <2>2, <3>2
  <2>4. r < p + 1
    <3>1. SUFFICES ASSUME r >= p + 1 PROVE FALSE
      OBVIOUS
    <3>2. d * r >= d * (p + 1)
      BY <3>1
    <3>. QED
      BY <2>1, <2>2, <3>2
  <2>. QED
    BY <2>3, <2>4
<1>. QED
  BY <1>1, <1>2, <1>4, <1>5

LEMMA SecondsOf ==
    ASSUME NEW raw \in Nat, NEW type
    PROVE  Seconds(raw, type) \in Int /\ Normalize(raw, Format(type)) = Seconds(raw, type)
<1>1. Micro \in Nat \ {0} /\ EpochOffset \in Nat
  BY TimeAssumption
<1>2. raw \div Micro \in Int
  BY <1>1
<1>3. (raw - EpochOffset * Micro) \div Micro = raw \div Micro - EpochOffset
  <2>1. PICK k \in Int, d \in Nat \ {0} : k = EpochOffset /\ d = Micro
    BY <1>1
  <2>2. PICK b : Shifted(b, raw, k, d)
    BY DEF Shifted
  <2>3. b \div d = raw \div d - k
    BY <2>2, ShiftedQuotient
  <2>. QED
    BY <2>1, <2>2, <2>3 DEF Shifted
<1>. QED
  BY <1>1, <1>2, <1>3 DEF Seconds, Normalize, Format

\* The entry of a row that is read is the row's.
LEMMA ReadEntry ==
    ASSUME NEW file, IsFile(file), NEW from \in Int, NEW type, NEW i \in ReadFrom(file.rows, from),
           NEW e, e = RowEntry(file.rows[i], from, Format(type))
    PROVE  /\ IsEntryOf(e, file.rows[i], type) /\ Latest(file.rows[i]) \in Nat
           /\ Latest(file.rows[i]) = Max(InRange(file.rows[i], from))
<1>0. PICK row, m : row = file.rows[i] /\ m = Max(InRange(row, from))
  OBVIOUS
<1>1. /\ row = file.rows[i] /\ m = Max(InRange(row, from)) /\ m \in Nat /\ m \in InRange(row, from)
      /\ \A v \in InRange(row, from) : v <= m
  BY <1>0, RowTimes
<1>2. row.visits \in SUBSET Nat /\ IsFiniteSet(row.visits) /\ m \in row.visits /\ m >= from
  <2>1. i \in DOMAIN file.rows
    BY DEF ReadFrom
  <2>. QED
    BY <1>1, <2>1 DEF IsFile, InRange
<1>3. PICK l : l = Max(row.visits) /\ l \in row.visits /\ \A v \in row.visits : v <= l
  <2>1. row.visits \in SUBSET Int /\ row.visits # {}
    BY <1>2
  <2>. QED
    BY <1>2, <2>1, LargestOf
<1>4. l = m
  <2>1. l \in Nat /\ m <= l
    BY <1>2, <1>3
  <2>2. l \in InRange(row, from)
    BY <1>2, <1>3, <2>1 DEF InRange
  <2>. QED
    BY <1>1, <2>1, <2>2
<1>5. Normalize(m, Format(type)) = Seconds(m, type)
  BY <1>1, SecondsOf
<1>6. /\ e.url = row.url /\ e.title = row.title /\ e.visit_count = row.visit_count
      /\ e.last_visit_raw = m /\ e.last_visit_time = Normalize(m, Format(type))
  BY <1>1 DEF RowEntry
<1>7. Latest(row) = m
  BY <1>3, <1>4 DEF Latest
<1>. QED
  BY <1>1, <1>5, <1>6, <1>7 DEF IsEntryOf

Strict == command.source \notin {"all", "type"}

\* The command line.
Commanded == command.days_back \in Nat

LEMMA FromFacts ==
    ASSUME NEW days \in Nat, NEW strict, NEW type
    PROVE  FromOf(type, days, strict) \in Int
<1>1. Cutoff(days, Format(type)) \in Int
  BY TimeAssumption DEF Cutoff
<1>. QED
  BY <1>1 DEF FromOf, From

LEMMA SinceRead ==
    ASSUME Commanded, NEW type, NEW row, row.visits \in SUBSET Nat,
           NEW from \in Int, from = FromOf(type, command.days_back, Strict)
    PROVE  Since(row, type) <=> InRange(row, from) # {}
<1>1. PICK days \in Nat : days = command.days_back
  BY DEF Commanded
<1>2. CASE days = 0
  <2>1. from = 0
    BY <1>1, <1>2 DEF FromOf, From
  <2>2. InRange(row, from) = row.visits
    BY <2>1 DEF InRange
  <2>. QED
    BY <1>1, <1>2, <2>2 DEF Since
<1>3. CASE days > 0
  <2>1. PICK unix \in Int : unix = Now - days * DaySeconds
    BY TimeAssumption
  <2>2. PICK c \in Int : c = Cutoff(days, Format(type))
    BY TimeAssumption DEF Cutoff
  <2>3. c = (unix + (IF type = "firefox" THEN 0 ELSE EpochOffset)) * Micro
    BY <1>1, <2>1, <2>2, TimeAssumption DEF Cutoff, Format
  <2>4. from = c + (IF Strict THEN 1 ELSE 0)
    BY <1>1, <1>3, <2>2 DEF FromOf, From
  <2>5. Since(row, type) <=> \E v \in row.visits : v > c \/ (v = c /\ command.source \in {"all", "type"})
    BY <1>1, <1>3, <2>1, <2>3 DEF Since
  <2>6. \A v \in row.visits : v >= from <=> v > c \/ (v = c /\ command.source \in {"all", "type"})
    BY <2>4 DEF Strict
  <2>. QED
    BY <2>5, <2>6 DEF InRange
<1>. QED
  BY <1>2, <1>3

LEMMA WantedRead ==
    ASSUME DiskTyped, Commanded, NEW a, a.type \in DOMAIN disk, a.place \in PlacesOf(a.type),
           NEW from, from = FromOf(a.type, command.days_back, Strict)
    PROVE  from \in Int /\ Wanted(a) = ReadFrom(RowsAt(a), from)
<1>1. PICK file : file = FileAt(a.type, a.place) /\ IsFile(file)
  <2>1. PICK type, place : type = a.type /\ place = a.place
    OBVIOUS
  <2>. QED
    BY <2>1, FileTyped
<1>2. RowsAt(a) = file.rows /\ Rows(a) = file.rows
  BY <1>1 DEF RowsAt, Rows
<1>3. from \in Int
  <2>1. PICK days \in Nat : days = command.days_back
    BY DEF Commanded
  <2>. QED
    BY <2>1, FromFacts
<1>4. ASSUME NEW i \in DOMAIN file.rows
      PROVE  Since(file.rows[i], a.type) <=> InRange(file.rows[i], from) # {}
  <2>1. PICK row, type : row = file.rows[i] /\ type = a.type /\ row.visits \in SUBSET Nat
    BY <1>1 DEF IsFile
  <2>2. from = FromOf(type, command.days_back, Strict)
    BY <2>1
  <2>. QED
    BY <1>3, <2>1, <2>2, SinceRead
<1>5. Wanted(a) = {i \in DOMAIN file.rows : Since(file.rows[i], a.type)}
  BY <1>2 DEF Wanted
<1>. QED
  BY <1>2, <1>3, <1>4, <1>5 DEF ReadFrom

\* The rows that are read before a row.
ReadBefore(r, rows, wanted) ==
    {j \in wanted : \/ Latest(rows[j]) > Latest(rows[r])
                    \/ Latest(rows[j]) = Latest(rows[r]) /\ j < r}

\* The rows that an answer has brought, in their order: of each the entry is at its place.
Brings(a, es, b, order, rows, wanted) ==
    /\ \A i \in 1 .. a.count : order[i] \in wanted /\ IsEntryOf(es[b + i], rows[order[i]], a.type)
    /\ \A i, j \in 1 .. a.count : i < j => order[i] # order[j]
    /\ \A i, j \in 1 .. a.count : i < j => Latest(rows[order[i]]) >= Latest(rows[order[j]])
    /\ \A r \in wanted : \/ \E i \in 1 .. a.count : order[i] = r
                         \/ \A i \in 1 .. a.count : Latest(rows[order[i]]) >= Latest(rows[r])
    /\ a.type \in Failing \/ a.count = Cardinality(wanted)
    /\ \A i \in 1 .. a.count : Cardinality(ReadBefore(order[i], rows, wanted)) = i - 1
    /\ \A r \in wanted : Cardinality(ReadBefore(r, rows, wanted)) < a.count => \E i \in 1 .. a.count : order[i] = r
    /\ \A i, j \in 1 .. a.count : i < j => order[i] \in ReadBefore(order[j], rows, wanted)

LEMMA RowOrderPairs ==
    ASSUME NEW rows, NEW from, NEW i \in ReadFrom(rows, from), NEW j \in ReadFrom(rows, from)
    PROVE  <<i, j>> \in RowOrder(rows, from) <=>
             \/ Max(InRange(rows[i], from)) > Max(InRange(rows[j], from))
             \/ Max(InRange(rows[i], from)) = Max(InRange(rows[j], from)) /\ i < j
BY DEF RowOrder

LEMMA AnswerBrings ==
    ASSUME DiskTyped, Commanded, NEW a, a.count >= 0, NEW es, NEW b,
           AnswerOf(a, command.days_back, Strict, es, b)
    PROVE  \E order : Brings(a, es, b, order, Rows(a), Wanted(a))
<1>1. PICK type, place, n, days, strict :
        /\ type = a.type /\ place = a.place /\ n = a.count
        /\ days = command.days_back /\ strict = Strict
  OBVIOUS
<1>2. type \in DOMAIN disk /\ place \in PlacesOf(type)
  BY <1>1 DEF AnswerOf
<1>3. PICK file : file = FileAt(type, place) /\ IsFile(file)
  BY <1>2, FileTyped
<1>4. PICK rows, from, S : rows = file.rows /\ from = FromOf(type, days, strict) /\ S = ReadFrom(rows, from)
  OBVIOUS
<1>5. Rows(a) = rows /\ RowsAt(a) = rows
  BY <1>1, <1>3, <1>4 DEF Rows, RowsAt
<1>6. from \in Int /\ Wanted(a) = S
  <2>1. from = FromOf(a.type, command.days_back, Strict)
    BY <1>1, <1>4
  <2>2. a.type \in DOMAIN disk /\ a.place \in PlacesOf(a.type)
    BY <1>1, <1>2
  <2>. QED
    BY <1>4, <1>5, <2>1, <2>2, WantedRead
<1>7. PICK K \in Nat : K = Cardinality(S)
  BY <1>3, <1>4, RowTimes, FS_CardinalityType
<1>8. PartOf(rows, type, from, n, es, b)
  BY <1>1, <1>4, <1>5 DEF AnswerOf
<1>9. PICK order, R : order = NewestFirst(rows, from) /\ R = RowOrder(rows, from)
  OBVIOUS
<1>10. Goes(order, S, R)
  BY <1>3, <1>4, <1>9, NewestFirstGoes
<1>11. /\ n \in 0 .. K /\ (type \in Failing \/ n = K)
       /\ \A i \in 1 .. n : es[b + i] = RowEntry(rows[order[i]], from, Format(type))
  BY <1>4, <1>7, <1>8, <1>9 DEF PartOf
<1>12. /\ DOMAIN order = 1 .. K /\ \A i \in 1 .. K : order[i] \in S
       /\ \A i, j \in 1 .. K : i < j => <<order[i], order[j]>> \in R /\ order[i] # order[j]
       /\ \A s \in S : \E i \in 1 .. K : order[i] = s
  BY <1>7, <1>10 DEF Goes
<1>13. \A r \in S : Latest(rows[r]) \in Nat /\ Latest(rows[r]) = Max(InRange(rows[r], from))
  <2>1. SUFFICES ASSUME NEW r \in S
                 PROVE  Latest(rows[r]) \in Nat /\ Latest(rows[r]) = Max(InRange(rows[r], from))
    OBVIOUS
  <2>2. PICK e : e = RowEntry(file.rows[r], from, Format(type))
    OBVIOUS
  <2>3. r \in ReadFrom(file.rows, from)
    BY <1>4
  <2>4. Latest(file.rows[r]) \in Nat /\ Latest(file.rows[r]) = Max(InRange(file.rows[r], from))
    BY <1>3, <1>6, <2>2, <2>3, ReadEntry
  <2>. QED
    BY <1>4, <2>4
<1>14. ASSUME NEW i \in 1 .. n
       PROVE  order[i] \in S /\ IsEntryOf(es[b + i], rows[order[i]], type)
  <2>1. i \in 1 .. K
    BY <1>11
  <2>2. PICK r, e : r = order[i] /\ e = es[b + i]
    OBVIOUS
  <2>3. r \in S /\ e = RowEntry(rows[r], from, Format(type))
    BY <1>11, <1>12, <2>1, <2>2
  <2>4. r \in ReadFrom(file.rows, from) /\ e = RowEntry(file.rows[r], from, Format(type))
    BY <1>4, <2>3
  <2>5. IsEntryOf(e, file.rows[r], type)
    BY <1>3, <1>6, <2>4, ReadEntry
  <2>. QED
    BY <1>4, <2>2, <2>3, <2>5
<1>15. \A i, j \in 1 .. K : i < j => Latest(rows[order[i]]) >= Latest(rows[order[j]])
  <2>1. SUFFICES ASSUME NEW i \in 1 .. K, NEW j \in 1 .. K, i < j
                 PROVE  Latest(rows[order[i]]) >= Latest(rows[order[j]])
    OBVIOUS
  <2>2. PICK r \in S, s \in S : r = order[i] /\ s = order[j] /\ <<r, s>> \in R
    BY <1>12, <2>1
  <2>3. Max(InRange(rows[r], from)) > Max(InRange(rows[s], from))
          \/ Max(InRange(rows[r], from)) = Max(InRange(rows[s], from))
    BY <1>9, <2>2 DEF RowOrder
  <2>. QED
    BY <1>13, <2>2, <2>3
<1>16. ASSUME NEW r \in S
       PROVE  \/ \E i \in 1 .. n : order[i] = r
              \/ \A i \in 1 .. n : Latest(rows[order[i]]) >= Latest(rows[r])
  <2>1. PICK k \in 1 .. K : order[k] = r
    BY <1>12
  <2>2. CASE k <= n
    <3>1. k \in 1 .. n
      BY <1>11, <2>2
    <3>. QED
      BY <2>1, <3>1
  <2>3. CASE k > n
    <3>1. \A i \in 1 .. n : i \in 1 .. K /\ i < k
      BY <1>11, <2>3
    <3>. QED
      BY <1>15, <2>1, <3>1
  <2>. QED
    BY <1>11, <2>2, <2>3
<1>17. \A i, j \in 1 .. n : i \in 1 .. K /\ j \in 1 .. K
  BY <1>11
<1>18. ASSUME NEW i \in 1 .. K
       PROVE  Cardinality(ReadBefore(order[i], rows, S)) = i - 1
  <2>1. PICK r \in S : r = order[i]
    BY <1>12
  <2>2. ASSUME NEW j \in S
        PROVE  <<j, r>> \in R <=> \/ Latest(rows[j]) > Latest(rows[r])
                                  \/ Latest(rows[j]) = Latest(rows[r]) /\ j < r
    <3>1. /\ Latest(rows[j]) = Max(InRange(rows[j], from))
          /\ Latest(rows[r]) = Max(InRange(rows[r], from))
      BY <1>13
    <3>2. <<j, r>> \in R <=> \/ Max(InRange(rows[j], from)) > Max(InRange(rows[r], from))
                             \/ Max(InRange(rows[j], from)) = Max(InRange(rows[r], from)) /\ j < r
      <4>1. j \in ReadFrom(rows, from) /\ r \in ReadFrom(rows, from)
        BY <1>4
      <4>. QED
        BY <1>9, <4>1, RowOrderPairs
    <3>. QED
      BY <3>1, <3>2
  <2>3. InFront(S, R, r) = ReadBefore(r, rows, S)
    <3>1. \A j \in S : j \in InFront(S, R, r) <=> j \in ReadBefore(r, rows, S)
      BY <2>2 DEF InFront, ReadBefore
    <3>2. InFront(S, R, r) \subseteq S /\ ReadBefore(r, rows, S) \subseteq S
      BY DEF InFront, ReadBefore
    <3>. QED
      BY <3>1, <3>2
  <2>4. Cardinality(InFront(S, R, order[i])) = i - 1
    BY <1>10, <1>12 DEF Goes
  <2>. QED
    BY <2>1, <2>3, <2>4
<1>19. ASSUME NEW r \in S, Cardinality(ReadBefore(r, rows, S)) < n
       PROVE  \E i \in 1 .. n : order[i] = r
  <2>1. PICK k \in 1 .. K : order[k] = r
    BY <1>12
  <2>2. k - 1 < n
    BY <1>18, <1>19, <2>1
  <2>3. k \in 1 .. n
    BY <1>11, <2>2
  <2>. QED
    BY <2>1, <2>3
<1>20. \A i \in 1 .. n : Cardinality(ReadBefore(order[i], rows, S)) = i - 1
  BY <1>17, <1>18
<1>21. ASSUME NEW i \in 1 .. n, NEW j \in 1 .. n, i < j
       PROVE  order[i] \in ReadBefore(order[j], rows, S)
  <2>1. PICK q \in S, r \in S : q = order[i] /\ r = order[j] /\ <<q, r>> \in R
    BY <1>12, <1>17, <1>21
  <2>2. \/ Max(InRange(rows[q], from)) > Max(InRange(rows[r], from))
        \/ Max(InRange(rows[q], from)) = Max(InRange(rows[r], from)) /\ q < r
    <3>1. q \in ReadFrom(rows, from) /\ r \in ReadFrom(rows, from)
      BY <1>4
    <3>. QED
      BY <1>9, <2>1, <3>1, RowOrderPairs
  <2>3. /\ Latest(rows[q]) = Max(InRange(rows[q], from))
        /\ Latest(rows[r]) = Max(InRange(rows[r], from))
    BY <1>13
  <2>4. q \in ReadBefore(r, rows, S)
    BY <2>2, <2>3 DEF ReadBefore
  <2>. QED
    BY <2>1, <2>4
<1>22. Brings(a, es, b, order, rows, S)
  <2>1. \A i, j \in 1 .. n : i < j => order[i] # order[j]
    BY <1>12, <1>17
  <2>2. \A i, j \in 1 .. n : i < j => Latest(rows[order[i]]) >= Latest(rows[order[j]])
    BY <1>15, <1>17
  <2>. QED
    BY <1>1, <1>7, <1>11, <1>14, <1>16, <1>19, <1>20, <1>21, <2>1, <2>2 DEF Brings
<1>. QED
  BY <1>5, <1>6, <1>22

-----------------------------------------------------------------------------
(* The newest of each profile.                                             *)

\* The row an entry is of, among those of an answer.
OfRow(e, rows, wanted, type) == {r \in wanted : IsEntryOf(e, rows[r], type)}

\* A page has one row.
OneEach(rows, wanted) ==
    wanted \subseteq DOMAIN rows /\ \A i, j \in DOMAIN rows : rows[i].url = rows[j].url => i = j

\* t are n elements of s, behind b others.
Between(t, s, b, n) ==
    IsSeq(s) /\ b \in Nat /\ n \in Nat /\ b + n <= Len(s) /\ t = SubSeq(s, b + 1, b + n)

LEMMA SeqBetween ==
    ASSUME NEW t, NEW s, NEW b, NEW n, Between(t, s, b, n)
    PROVE  Len(t) = n /\ DOMAIN t = 1 .. n /\ (\A i \in 1 .. n : t[i] = s[b + i]) /\ (t # <<>> => n >= 1)
<1>1. b \in Nat /\ n \in Nat /\ t = SubSeq(s, b + 1, b + n) /\ IsSeq(s)
  BY DEF Between
<1>2. PICK N \in Nat : N = Len(s) /\ b + n <= N
  BY SeqElements DEF Between, IsSeq
<1>3. PICK S : S = {s[i] : i \in 1 .. N}
  OBVIOUS
<1>4. PICK k \in Int : k = b + 1
  BY <1>1
<1>5. PICK l \in Int : l = b + n
  BY <1>1
<1>6. \A i \in k .. l : s[i] \in S
  <2>1. \A i \in k .. l : i \in 1 .. N
    BY <1>1, <1>2, <1>4, <1>5
  <2>. QED
    BY <1>3, <2>1
<1>7. PICK u : u = SubSeq(s, k, l)
  OBVIOUS
<1>8. u \in Seq(S) /\ Len(u) = (IF k <= l THEN l - k + 1 ELSE 0) /\ \A i \in 1 .. l - k + 1 : u[i] = s[k + i - 1]
  BY <1>6, <1>7, SubSeqProperties
<1>9. u = t
  BY <1>1, <1>4, <1>5, <1>7
<1>10. Len(u) = n
  BY <1>1, <1>4, <1>5, <1>8
<1>11. DOMAIN u = 1 .. n
  BY <1>8, <1>10
<1>12. l - k + 1 = n /\ \A i \in 1 .. n : k + i - 1 = b + i
  BY <1>1, <1>4, <1>5
<1>13. \A i \in 1 .. n : u[i] = s[b + i]
  BY <1>8, <1>12
<1>14. u # <<>> => n >= 1
  BY <1>1, <1>8, <1>10
<1>. QED
  BY <1>9, <1>10, <1>11, <1>13, <1>14

\* What NewestOfEachProfile says of an answer whose entries are mine.
NewestOf(a, mine, rows, wanted) ==
    /\ \A i \in DOMAIN mine : Cardinality(OfRow(mine[i], rows, wanted, a.type)) = 1
    /\ \A i \in DOMAIN mine : \A j \in DOMAIN mine : i < j =>
          /\ OfRow(mine[i], rows, wanted, a.type) # OfRow(mine[j], rows, wanted, a.type)
          /\ mine[i].last_visit_raw >= mine[j].last_visit_raw
    /\ a.type \in Failing \/ Len(mine) = Cardinality(wanted)
    /\ mine # <<>> => \A r \in wanted :
          Latest(rows[r]) > Last(mine).last_visit_raw =>
             \E i \in DOMAIN mine : r \in OfRow(mine[i], rows, wanted, a.type)

LEMMA BroughtNewest ==
    ASSUME NEW a, a.count \in Nat, NEW es, NEW b \in Nat, NEW mine, Between(mine, es, b, a.count),
           NEW order, NEW rows, NEW wanted, Brings(a, es, b, order, rows, wanted),
           OneEach(rows, wanted),
           \A r \in wanted : Latest(rows[r]) \in Nat
    PROVE  NewestOf(a, mine, rows, wanted)
<1>0. PICK n \in Nat : n = a.count
  OBVIOUS
<1>01. PICK type : type = a.type
  OBVIOUS
<1>1. n = a.count /\ type = a.type
  BY <1>0, <1>01
<1>2. /\ Len(mine) = n /\ DOMAIN mine = 1 .. n /\ (mine # <<>> => n >= 1)
      /\ \A i \in 1 .. n : mine[i] = es[b + i]
  <2>1. Between(mine, es, b, n)
    BY <1>1
  <2>. QED
    BY <2>1, SeqBetween
<1>3. /\ \A i \in 1 .. n : order[i] \in wanted /\ IsEntryOf(mine[i], rows[order[i]], type)
      /\ \A i, j \in 1 .. n : i < j => order[i] # order[j]
      /\ \A i, j \in 1 .. n : i < j => Latest(rows[order[i]]) >= Latest(rows[order[j]])
      /\ \A r \in wanted : \/ \E i \in 1 .. n : order[i] = r
                           \/ \A i \in 1 .. n : Latest(rows[order[i]]) >= Latest(rows[r])
      /\ type \in Failing \/ n = Cardinality(wanted)
  BY <1>1, <1>2 DEF Brings
<1>4. ASSUME NEW i \in 1 .. n
      PROVE  OfRow(mine[i], rows, wanted, type) = {order[i]}
  <2>0. PICK e : e = mine[i]
    OBVIOUS
  <2>1. PICK r \in wanted : e = mine[i] /\ r = order[i] /\ IsEntryOf(e, rows[r], type)
    BY <1>3, <2>0
  <2>2. ASSUME NEW s \in wanted, IsEntryOf(e, rows[s], type)
        PROVE  s = r
    <3>1. rows[s].url = rows[r].url
      BY <2>1, <2>2 DEF IsEntryOf
    <3>. QED
      BY <2>1, <3>1 DEF OneEach
  <2>3. OfRow(e, rows, wanted, type) = {r}
    BY <2>1, <2>2 DEF OfRow
  <2>. QED
    BY <2>1, <2>3
<1>5. \A i \in 1 .. n : mine[i].last_visit_raw = Latest(rows[order[i]])
  BY <1>3 DEF IsEntryOf
<1>6. \A i \in DOMAIN mine : Cardinality(OfRow(mine[i], rows, wanted, type)) = 1
  <2>1. SUFFICES ASSUME NEW i \in 1 .. n PROVE Cardinality(OfRow(mine[i], rows, wanted, type)) = 1
    BY <1>2
  <2>. QED
    BY <1>4, FS_Singleton
<1>7. ASSUME NEW i \in DOMAIN mine, NEW j \in DOMAIN mine, i < j
      PROVE  /\ OfRow(mine[i], rows, wanted, type) # OfRow(mine[j], rows, wanted, type)
             /\ mine[i].last_visit_raw >= mine[j].last_visit_raw
  <2>1. i \in 1 .. n /\ j \in 1 .. n
    BY <1>2
  <2>2. order[i] # order[j] /\ Latest(rows[order[i]]) >= Latest(rows[order[j]])
    BY <1>3, <1>7, <2>1
  <2>3. OfRow(mine[i], rows, wanted, type) = {order[i]} /\ OfRow(mine[j], rows, wanted, type) = {order[j]}
    BY <1>4, <2>1
  <2>4. {order[i]} # {order[j]}
    BY <2>2
  <2>. QED
    BY <1>5, <2>1, <2>2, <2>3, <2>4
<1>8. ASSUME mine # <<>>, NEW r \in wanted, Latest(rows[r]) > Last(mine).last_visit_raw
      PROVE  \E i \in DOMAIN mine : r \in OfRow(mine[i], rows, wanted, type)
  <2>1. n # 0
    BY <1>2, <1>8
  <2>2. n \in 1 .. n /\ Last(mine) = mine[n]
    BY <1>2, <2>1 DEF Last
  <2>3. PICK l \in Nat, m \in Nat : l = Latest(rows[r]) /\ m = Latest(rows[order[n]])
    BY <1>3, <2>2
  <2>4. l > m
    BY <1>5, <1>8, <2>2, <2>3
  <2>7. ~(m >= l)
    BY <2>3, <2>4
  <2>8. ~(\A i \in 1 .. n : Latest(rows[order[i]]) >= Latest(rows[r]))
    BY <2>2, <2>3, <2>7
  <2>5. PICK i \in 1 .. n : order[i] = r
    BY <1>3, <2>8
  <2>6. r \in OfRow(mine[i], rows, wanted, type)
    BY <1>4, <2>5
  <2>. QED
    BY <1>2, <2>6
<1>. QED
  BY <1>1, <1>2, <1>3, <1>6, <1>7, <1>8 DEF NewestOf

-----------------------------------------------------------------------------
(* Every query adds the entries of its answer.                             *)

\* What a query of a file gives, and the answer that tells of it.
Reads(file, type, place, days, strict, n, part, x) ==
    /\ file = FileAt(type, place) /\ file.kind = Format(type)
    /\ n \in Counts(type, Len(Select(file, days, strict)))
    /\ part = SubSeq(Select(file, days, strict), 1, n)
    /\ x = [type |-> type, place |-> place, count |-> n]

LEMMA SelectedAnswer ==
    ASSUME DiskTyped, NEW type \in DOMAIN disk, NEW place \in PlacesOf(type), NEW file,
           NEW days, NEW strict, NEW n, NEW part, NEW x, Reads(file, type, place, days, strict, n, part, x)
    PROVE  IsSeq(part) /\ Len(part) = Brought(x) /\ AnswerOf(x, days, strict, part, 0)
<1>. USE DEF Reads
<1>1. PICK es, from, rows : /\ es = Select(file, days, strict) /\ from = From(file.kind, days, strict)
                            /\ rows = file.rows
  OBVIOUS
<1>2. IsFile(file)
  BY FileTyped
<1>3. PICK order, S : order = NewestFirst(rows, from) /\ S = ReadFrom(rows, from)
  OBVIOUS
<1>4. IsEntries(es) /\ Len(es) = Cardinality(S) /\ DOMAIN es = 1 .. Cardinality(S)
  BY <1>1, <1>2, <1>3, SelectEntries
<1>5. \A i \in DOMAIN es : es[i] = RowEntry(rows[order[i]], from, file.kind)
  BY <1>1, <1>2, <1>3, SelectEntries
<1>6. PICK K \in Nat : K = Len(es)
  BY <1>4, SizeOfEntries
<1>7. n \in 0 .. K
  BY <1>1, <1>6, SomeRead
<1>8. type \in Failing \/ n = K
  BY <1>1, <1>6 DEF Counts
<1>9. part = SubSeq(es, 1, n) /\ IsSeq(es) /\ n \in Nat /\ n <= Len(es)
  BY <1>1, <1>4, <1>6, <1>7, SizeOfEntries
<1>10. IsSeq(part) /\ Len(part) = n
  BY <1>9, SeqPrefix
<1>11. \A i \in 1 .. n : part[i] = es[i]
  BY <1>9, SeqPrefix
<1>12. x.count = n /\ x.type = type /\ x.place = place
  OBVIOUS
<1>13. Brought(x) = n
  <2>1. x.count \in Int /\ x.count >= 0
    BY <1>9, <1>12
  <2>. QED
    BY <1>12, <2>1, BroughtFacts
<1>14. \A i \in 1 .. n : part[0 + i] = RowEntry(rows[order[i]], from, Format(type))
  <2>1. SUFFICES ASSUME NEW i \in 1 .. n PROVE part[0 + i] = RowEntry(rows[order[i]], from, Format(type))
    OBVIOUS
  <2>2. i \in DOMAIN es /\ 0 + i = i
    BY <1>4, <1>6, <1>7
  <2>. QED
    BY <1>5, <1>11, <2>2
<1>15. PartOf(rows, type, from, n, part, 0)
  BY <1>3, <1>4, <1>6, <1>7, <1>8, <1>14 DEF PartOf
<1>16. RowsAt(x) = rows /\ FromOf(x.type, days, strict) = from
  BY <1>1, <1>12 DEF RowsAt, FromOf
<1>17. PartOf(RowsAt(x), x.type, FromOf(x.type, days, strict), x.count, part, 0)
  BY <1>12, <1>15, <1>16
<1>18. x.count \in Int /\ x.type \in DOMAIN disk /\ x.place \in PlacesOf(x.type)
  BY <1>9, <1>12
<1>. QED
  BY <1>10, <1>13, <1>17, <1>18 DEF AnswerOf

\* A query that failed.
LEMMA FailedAnswer ==
    ASSUME NEW type, NEW place, NEW days, NEW strict, NEW x, x = [type |-> type, place |-> place, count |-> -1]
    PROVE  IsSeq(<<>>) /\ Len(<<>>) = Brought(x) /\ AnswerOf(x, days, strict, <<>>, 0)
<1>1. x.count \in Int /\ x.count < 0 /\ ~(x.count >= 0)
  OBVIOUS
<1>2. Brought(x) = 0
  BY <1>1, BroughtFacts
<1>. QED
  BY <1>1, <1>2, NoEntries DEF AnswerOf

LEMMA NoParts ==
    ASSUME NEW days, NEW strict
    PROVE  Parts(<<>>, days, strict, <<>>)
<1>1. PICK none : none = <<>> /\ IsSeq(none) /\ Len(none) = 0 /\ DOMAIN none = {}
  BY NoEntries
<1>2. \A i \in DOMAIN none : none[i].count \in Int
  BY <1>1
<1>3. Start(none, 1) = 0
  BY <1>1, <1>2, StartFacts
<1>4. Len(none) + 1 = 1
  BY <1>1
<1>. QED
  BY <1>1, <1>3, <1>4 DEF Parts

\* One answer to nothing asked before.
LEMMA FirstParts ==
    ASSUME NEW days, NEW strict, NEW x, NEW part,
           IsSeq(part), Len(part) = Brought(x), AnswerOf(x, days, strict, part, 0)
    PROVE  Parts(<<x>>, days, strict, part)
<1>1. PICK none, bs, gs : none = <<>> /\ bs = Append(none, x) /\ gs = none \o part
  OBVIOUS
<1>2. Parts(none, days, strict, none)
  BY <1>1, NoParts
<1>3. MoreParts(none, days, strict, none, x, part, bs, gs)
  BY <1>1, <1>2 DEF MoreParts
<1>4. Parts(bs, days, strict, gs)
  BY <1>3, PartsAnswered
<1>5. bs = <<x>>
  BY <1>1
<1>6. gs = part
  <2>1. PICK S : S = {part[i] : i \in 1 .. Len(part)} /\ part \in Seq(S)
    BY SeqElements
  <2>. QED
    BY <1>1, <2>1
<1>. QED
  BY <1>4, <1>5, <1>6

\* Nothing of the rows of a file is lost with it.
SameRows ==
    /\ DOMAIN disk' = DOMAIN disk
    /\ \A t \in DOMAIN disk : /\ PlacesOf(t)' = PlacesOf(t)
                              /\ \A p \in PlacesOf(t) : FileAt(t, p)'.rows = FileAt(t, p).rows

LEMMA PartsKept ==
    ASSUME SameRows, NEW past, NEW days, NEW strict, NEW es, Parts(past, days, strict, es)
    PROVE  Parts(past, days, strict, es)'
<1>1. ASSUME NEW k \in DOMAIN past
      PROVE  AnswerOf(past[k], days, strict, es, Start(past, k))'
  <2>1. PICK a, b, from : a = past[k] /\ b = Start(past, k) /\ from = FromOf(a.type, days, strict)
    OBVIOUS
  <2>2. AnswerOf(a, days, strict, es, b)
    BY <2>1 DEF Parts
  <2>3. a.count \in Int
    BY <2>2 DEF AnswerOf
  <2>4. ASSUME a.count >= 0
        PROVE  /\ (a.type \in DOMAIN disk /\ a.place \in PlacesOf(a.type))'
               /\ PartOf(RowsAt(a), a.type, from, a.count, es, b)'
    <3>1. a.type \in DOMAIN disk /\ a.place \in PlacesOf(a.type) /\ PartOf(RowsAt(a), a.type, from, a.count, es, b)
      BY <2>1, <2>2, <2>4 DEF AnswerOf
    <3>2. FileAt(a.type, a.place)'.rows = FileAt(a.type, a.place).rows
      BY <3>1 DEF SameRows
    <3>3. RowsAt(a)' = RowsAt(a)
      BY <3>2 DEF RowsAt
    <3>4. a.type \in DOMAIN disk' /\ a.place \in PlacesOf(a.type)'
      BY <3>1 DEF SameRows
    <3>. QED
      BY <3>1, <3>3, <3>4
  <2>5. AnswerOf(a, days, strict, es, b)'
    BY <2>1, <2>3, <2>4 DEF AnswerOf
  <2>. QED
    BY <2>1, <2>5
<1>. QED
  BY <1>1 DEF Parts

LEMMA SameDiskRows ==
    ASSUME UNCHANGED disk
    PROVE  SameRows
BY DEF SameRows, PlacesOf, FileAt

LEMMA LostRows ==
    ASSUME DiskTyped, NEW type \in DOMAIN disk, NEW place \in PlacesOf(type),
           disk' = IF place = Direct THEN [disk EXCEPT ![type].direct.kind = "lost"]
                   ELSE [disk EXCEPT ![type].dirs[place].kind = "lost"]
    PROVE  SameRows
<1>1. /\ DOMAIN disk' = DOMAIN disk
      /\ \A t \in DOMAIN disk :
           /\ DOMAIN disk'[t].dirs = DOMAIN disk[t].dirs
           /\ MayBeLost(disk[t].direct, disk'[t].direct, t = type /\ place = Direct)
           /\ \A n \in DOMAIN disk[t].dirs :
                 MayBeLost(disk[t].dirs[n], disk'[t].dirs[n], t = type /\ place = n)
  BY LostProfile
<1>2. ASSUME NEW t \in DOMAIN disk
      PROVE  /\ PlacesOf(t)' = PlacesOf(t)
             /\ \A p \in PlacesOf(t) : FileAt(t, p)'.rows = FileAt(t, p).rows
  <2>1. PlacesOf(t)' = PlacesOf(t)
    BY <1>1 DEF PlacesOf
  <2>2. disk'[t].direct.rows = disk[t].direct.rows
    BY <1>1 DEF MayBeLost
  <2>3. \A n \in DOMAIN disk[t].dirs : disk'[t].dirs[n].rows = disk[t].dirs[n].rows
    BY <1>1 DEF MayBeLost
  <2>4. \A p \in PlacesOf(t) : FileAt(t, p)'.rows = FileAt(t, p).rows
    BY <2>2, <2>3 DEF FileAt, PlacesOf
  <2>. QED
    BY <2>1, <2>4
<1>. QED
  BY <1>1, <1>2 DEF SameRows

-----------------------------------------------------------------------------
(* The result is put together of the entries of the answers.               *)

Unmerged == stage \in {"read", "unmerged"} \/ (stage = "import" /\ command.source \in {"type", "db", "brave"})

Segmented ==
    /\ Commanded
    /\ stage = "query" /\ "firefox" \in DOMAIN disk => KeepsNoChromium(disk["firefox"])
    /\ stage \in {"read", "unmerged"} => command.source \in {"all", "type"}
    /\ Unmerged => Parts(answers, command.days_back, Strict, result)
    /\ Merging => \E es : /\ IsEntries(es) /\ Parts(answers, command.days_back, Strict, es)
                          /\ result = Deduplicated(es)

LEMMA SegmentedInit == PipelineInit => Segmented
<1>1. SUFFICES ASSUME PipelineInit PROVE Segmented
  OBVIOUS
<1>2. PICK setup \in Setups : disk = setup.disk /\ command = setup.command
  BY <1>1 DEF PipelineInit, Init
<1>3. Commanded /\ ("firefox" \in DOMAIN disk => KeepsNoChromium(disk["firefox"]))
  BY <1>2, SetupAssumption DEF Commanded
<1>4. stage = "query"
  BY <1>1 DEF PipelineInit, Init
<1>. QED
  BY <1>3, <1>4 DEF Segmented, Unmerged, Merging

LEMMA NothingMerged == Deduplicated(<<>>) = <<>>
<1>1. PICK none, ds : none = <<>> /\ ds = Deduplicated(none) /\ IsEntries(none) /\ DOMAIN none = {}
  BY NoEntries
<1>2. IsEntries(ds) /\ Len(ds) = Cardinality(FirstOfPage(none))
  BY <1>1, DeduplicatedFacts
<1>3. FirstOfPage(none) = {}
  BY <1>1 DEF FirstOfPage
<1>4. Len(ds) = 0
  BY <1>2, <1>3, FS_EmptySet
<1>5. IsSeq(ds)
  BY <1>2, SizeOfEntries
<1>6. ds = <<>>
  BY <1>4, <1>5, SeqElements
<1>. QED
  BY <1>1, <1>6

LEMMA ScanSegments == Typed /\ Segmented /\ Scan => Segmented'
<1>1. SUFFICES ASSUME Typed, Segmented, Scan PROVE Segmented'
  OBVIOUS
<1>2. /\ stage = "query" /\ command.source \in {"all", "type"} /\ stage' \in {"import", "read"}
      /\ UNCHANGED <<command, answers, result>>
  BY <1>1 DEF Scan
<1>3. answers = <<>> /\ result = <<>>
  BY <1>1, <1>2 DEF Typed
<1>4. PICK days, strict : days = command.days_back /\ strict = Strict /\ strict = Strict'
  BY <1>2 DEF Strict
<1>5. Parts(<<>>, days, strict, <<>>)'
  <2>1. UNCHANGED disk
    BY <1>1 DEF Scan
  <2>2. SameRows
    BY <2>1, SameDiskRows
  <2>3. PICK past, es : past = <<>> /\ es = <<>> /\ Parts(past, days, strict, es)
    BY NoParts
  <2>4. Parts(past, days, strict, es)'
    BY <2>2, <2>3, PartsKept
  <2>. QED
    BY <2>3, <2>4
<1>6. Parts(answers, command.days_back, Strict, result)'
  BY <1>2, <1>3, <1>4, <1>5
<1>7. Merging' => \E es : /\ IsEntries(es) /\ Parts(answers, command.days_back, Strict, es)'
                          /\ result' = Deduplicated(es)
  <2>1. PICK es : es = <<>> /\ IsEntries(es) /\ es = result' /\ Deduplicated(es) = es
    BY <1>2, <1>3, NoEntries, NothingMerged
  <2>. QED
    BY <1>6, <2>1
<1>8. Commanded'
  BY <1>1, <1>2 DEF Segmented, Commanded
<1>. QED
  BY <1>2, <1>6, <1>7, <1>8 DEF Segmented

LEMMA QueryProfileSegments == Typed /\ Segmented /\ QueryProfile => Segmented'
<1>1. SUFFICES ASSUME Typed, Segmented, QueryProfile PROVE Segmented'
  OBVIOUS
<1>2. /\ stage = "read" /\ queue # <<>> /\ UNCHANGED <<disk, command, stage>>
  BY <1>1 DEF QueryProfile
<1>3. DiskTyped /\ IsSeq(queue) /\ IsSeq(answers) /\ PlacesToRead(Queried, Asked) /\ IsEntries(result)
  BY <1>1, <1>2 DEF Typed
<1>4. PICK type, place, file : /\ type = Head(queue)[1] /\ place = Head(queue)[2]
                               /\ file = FileAt(type, place)
  OBVIOUS
<1>5. type \in DOMAIN disk /\ place \in PlacesOf(type)
  <2>1. Head(queue) = queue[1] /\ 1 \in DOMAIN queue
    BY <1>2, <1>3, SeqElements
  <2>. QED
    BY <1>3, <1>4, <2>1, QueuedPlaces
<1>6. command.source \in {"all", "type"} /\ Parts(answers, command.days_back, Strict, result) /\ Commanded
  BY <1>1, <1>2 DEF Segmented, Unmerged
<1>7. PICK days, strict : days = command.days_back /\ strict = Strict /\ strict = FALSE
  BY <1>6 DEF Strict
<1>8. PICK past, es, bs, gs : past = answers /\ es = result /\ bs = answers' /\ gs = result'
  OBVIOUS
<1>9. Parts(past, days, strict, es)
  BY <1>6, <1>7, <1>8
<1>10. Parts(bs, days, strict, gs)
  <2>1. CASE file.kind # Format(type)
    <3>1. PICK x, part : x = [type |-> type, place |-> place, count |-> -1] /\ part = <<>>
      OBVIOUS
    <3>2. bs = Append(past, x) /\ gs = es
      BY <1>1, <1>4, <1>8, <2>1, <3>1 DEF QueryProfile
    <3>3. IsSeq(part) /\ Len(part) = Brought(x) /\ AnswerOf(x, days, strict, part, 0)
      BY <3>1, FailedAnswer
    <3>4. gs = es \o part
      <4>1. IsSeq(es)
        BY <1>9 DEF Parts
      <4>2. PICK S : S = {es[i] : i \in 1 .. Len(es)} /\ es \in Seq(S)
        BY <4>1, SeqElements
      <4>. QED
        BY <3>1, <3>2, <4>2
    <3>5. MoreParts(past, days, strict, es, x, part, bs, gs)
      BY <1>9, <3>2, <3>3, <3>4 DEF MoreParts
    <3>. QED
      BY <3>5, PartsAnswered
  <2>2. CASE file.kind = Format(type)
    <3>1. PICK rows : /\ rows = Select(file, days, FALSE)
                      /\ \E n \in Counts(type, Len(rows)) :
                            /\ answers' = Append(answers, [type |-> type, place |-> place, count |-> n])
                            /\ result' = result \o SubSeq(rows, 1, n)
      BY <1>1, <1>4, <1>7, <2>2 DEF QueryProfile
    <3>2. PICK n \in Counts(type, Len(rows)) :
            /\ answers' = Append(answers, [type |-> type, place |-> place, count |-> n])
            /\ result' = result \o SubSeq(rows, 1, n)
      BY <3>1
    <3>3. PICK x, part : x = [type |-> type, place |-> place, count |-> n] /\ part = SubSeq(rows, 1, n)
      OBVIOUS
    <3>4. Reads(file, type, place, days, strict, n, part, x)
      BY <1>4, <1>7, <2>2, <3>1, <3>2, <3>3 DEF Reads
    <3>5. IsSeq(part) /\ Len(part) = Brought(x) /\ AnswerOf(x, days, strict, part, 0)
      BY <1>3, <1>5, <3>4, SelectedAnswer
    <3>6. MoreParts(past, days, strict, es, x, part, bs, gs)
      BY <1>8, <1>9, <3>2, <3>3, <3>5 DEF MoreParts
    <3>. QED
      BY <3>6, PartsAnswered
  <2>. QED
    BY <2>1, <2>2
<1>11. Parts(bs, days, strict, gs)'
  <2>1. SameRows
    BY <1>2, SameDiskRows
  <2>. QED
    BY <1>10, <2>1, PartsKept
<1>12. Parts(answers, command.days_back, Strict, result)'
  <2>1. command.days_back' = days /\ Strict' = strict
    BY <1>2, <1>7 DEF Strict
  <2>. QED
    BY <1>8, <1>11, <2>1
<1>13. stage' # "query" /\ Commanded' /\ ~Merging' /\ command'.source \in {"all", "type"}
  BY <1>2, <1>6 DEF Commanded, Merging
<1>. QED
  BY <1>12, <1>13 DEF Segmented

LEMMA DeduplicateSegments == Typed /\ Segmented /\ Deduplicate => Segmented'
<1>1. SUFFICES ASSUME Typed, Segmented, Deduplicate PROVE Segmented'
  OBVIOUS
<1>2. stage = "read" /\ stage' \in {"import", "unmerged"} /\ UNCHANGED <<disk, command, answers>>
  BY <1>1 DEF Deduplicate
<1>3. IsEntries(result)
  BY <1>1 DEF Typed
<1>4. command.source \in {"all", "type"} /\ Parts(answers, command.days_back, Strict, result) /\ Commanded
  BY <1>1, <1>2 DEF Segmented, Unmerged
<1>5. PICK past, es, days, strict :
        past = answers /\ es = result /\ days = command.days_back /\ strict = Strict
  OBVIOUS
<1>6. Parts(past, days, strict, es)'
  <2>1. SameRows
    BY <1>2, SameDiskRows
  <2>2. Parts(past, days, strict, es)
    BY <1>4, <1>5
  <2>. QED
    BY <2>1, <2>2, PartsKept
<1>7. answers' = past /\ command.days_back' = days /\ Strict' = strict
  BY <1>2, <1>5 DEF Strict
<1>9. ASSUME Unmerged'
      PROVE  Parts(answers, command.days_back, Strict, result)'
  <2>1. result' = result
    BY <1>1, <1>2, <1>9 DEF Deduplicate, Unmerged
  <2>. QED
    BY <1>5, <1>6, <1>7, <2>1
<1>10. ASSUME Merging'
       PROVE  \E fs : IsEntries(fs) /\ Parts(answers, command.days_back, Strict, fs)' /\ result' = Deduplicated(fs)
  <2>1. result' = Deduplicated(es)
    BY <1>1, <1>2, <1>5, <1>10 DEF Deduplicate, Merging
  <2>2. Parts(answers, command.days_back, Strict, es)'
    BY <1>6, <1>7
  <2>. QED
    BY <1>3, <1>5, <2>1, <2>2
<1>11. stage' # "query" /\ Commanded' /\ command'.source \in {"all", "type"}
  BY <1>2, <1>4 DEF Commanded
<1>. QED
  BY <1>9, <1>10, <1>11 DEF Segmented

LEMMA QueryFileSegments == Typed /\ Segmented /\ QueryFile => Segmented'
<1>1. SUFFICES ASSUME Typed, Segmented, QueryFile PROVE Segmented'
  OBVIOUS
<1>2. /\ stage = "query" /\ command.source \in {"db", "brave"} /\ stage' \in {"failed", "import"}
      /\ UNCHANGED <<disk, command>>
  BY <1>1 DEF QueryFile
<1>3. DiskTyped /\ answers = <<>> /\ result = <<>>
  BY <1>1, <1>2 DEF Typed
<1>4. Commanded /\ ("firefox" \in DOMAIN disk => KeepsNoChromium(disk["firefox"]))
  BY <1>1, <1>2 DEF Segmented
<1>5. PICK type, file :
        /\ type = command.type
        /\ file = IF type \in DOMAIN disk /\ 0 \in DOMAIN disk[type].dirs THEN FileAt(type, 0)
                  ELSE [kind |-> "none"]
  OBVIOUS
<1>6. PICK days, strict : days = command.days_back /\ strict = Strict /\ strict = TRUE
  BY <1>2 DEF Strict
<1>7. PICK place : place = 0
  OBVIOUS
<1>8. PICK bs, gs : bs = answers' /\ gs = result'
  OBVIOUS
<1>9. Parts(bs, days, strict, gs)
  <2>1. CASE file.kind # "chromium"
    <3>1. PICK x, part : x = [type |-> type, place |-> place, count |-> -1] /\ part = <<>>
      OBVIOUS
    <3>2. bs = <<x>> /\ gs = part
      BY <1>1, <1>3, <1>5, <1>7, <1>8, <2>1, <3>1 DEF QueryFile
    <3>3. IsSeq(part) /\ Len(part) = Brought(x) /\ AnswerOf(x, days, strict, part, 0)
      BY <3>1, FailedAnswer
    <3>. QED
      BY <3>2, <3>3, FirstParts
  <2>2. CASE file.kind = "chromium"
    <3>1. /\ type \in DOMAIN disk /\ place \in DOMAIN disk[type].dirs /\ file = FileAt(type, place)
          /\ Format(type) = "chromium"
      <4>1. type \in DOMAIN disk /\ place \in DOMAIN disk[type].dirs /\ file = FileAt(type, place)
        BY <1>5, <1>7, <2>2
      <4>2. file = disk[type].dirs[place]
        BY <1>7, <4>1 DEF FileAt, Direct
      <4>3. type # "firefox"
        BY <1>4, <2>2, <4>1, <4>2 DEF KeepsNoChromium
      <4>. QED
        BY <4>1, <4>3 DEF Format
    <3>2. place \in PlacesOf(type)
      BY <3>1 DEF PlacesOf
    <3>3. PICK rows : /\ rows = Select(file, days, TRUE)
                      /\ \E n \in Counts(type, Len(rows)) :
                            /\ answers' = <<[type |-> type, place |-> place, count |-> n]>>
                            /\ result' = SubSeq(rows, 1, n)
      BY <1>1, <1>5, <1>6, <1>7, <2>2 DEF QueryFile
    <3>4. PICK n \in Counts(type, Len(rows)) :
            /\ answers' = <<[type |-> type, place |-> place, count |-> n]>>
            /\ result' = SubSeq(rows, 1, n)
      BY <3>3
    <3>5. PICK x, part : x = [type |-> type, place |-> place, count |-> n] /\ part = SubSeq(rows, 1, n)
      OBVIOUS
    <3>6. Reads(file, type, place, days, strict, n, part, x)
      BY <1>6, <2>2, <3>1, <3>3, <3>4, <3>5 DEF Reads
    <3>7. IsSeq(part) /\ Len(part) = Brought(x) /\ AnswerOf(x, days, strict, part, 0)
      BY <1>3, <3>1, <3>2, <3>6, SelectedAnswer
    <3>8. bs = <<x>> /\ gs = part
      BY <1>8, <3>4, <3>5
    <3>. QED
      BY <3>7, <3>8, FirstParts
  <2>. QED
    BY <2>1, <2>2
<1>10. Parts(bs, days, strict, gs)'
  <2>1. SameRows
    BY <1>2, SameDiskRows
  <2>. QED
    BY <1>9, <2>1, PartsKept
<1>11. Parts(answers, command.days_back, Strict, result)'
  <2>1. command.days_back' = days /\ Strict' = strict
    BY <1>2, <1>6 DEF Strict
  <2>. QED
    BY <1>8, <1>10, <2>1
<1>12. Commanded' /\ ~Merging' /\ stage' \notin {"query", "read", "unmerged"}
  BY <1>2, <1>4 DEF Commanded, Merging
<1>. QED
  BY <1>11, <1>12 DEF Segmented

LEMMA LoseProfileSegments == Typed /\ Segmented /\ LoseProfile => Segmented'
<1>1. SUFFICES ASSUME Typed, Segmented, LoseProfile PROVE Segmented'
  OBVIOUS
<1>2. stage = "read" /\ UNCHANGED <<command, stage, answers, result>>
  BY <1>1 DEF LoseProfile
<1>3. DiskTyped /\ IsSeq(queue) /\ IsSeq(answers) /\ PlacesToRead(Queried, Asked)
  BY <1>1, <1>2 DEF Typed
<1>4. PICK i \in DOMAIN queue :
        disk' = IF queue[i][2] = Direct THEN [disk EXCEPT ![queue[i][1]].direct.kind = "lost"]
                ELSE [disk EXCEPT ![queue[i][1]].dirs[queue[i][2]].kind = "lost"]
  BY <1>1 DEF LoseProfile
<1>5. PICK type, place : type = queue[i][1] /\ place = queue[i][2]
  OBVIOUS
<1>6. type \in DOMAIN disk /\ place \in PlacesOf(type)
  BY <1>3, <1>5, QueuedPlaces
<1>7. SameRows
  <2>1. disk' = IF place = Direct THEN [disk EXCEPT ![type].direct.kind = "lost"]
                ELSE [disk EXCEPT ![type].dirs[place].kind = "lost"]
    BY <1>4, <1>5
  <2>. QED
    BY <1>3, <1>6, <2>1, LostRows
<1>8. command.source \in {"all", "type"} /\ Parts(answers, command.days_back, Strict, result) /\ Commanded
  BY <1>1, <1>2 DEF Segmented, Unmerged
<1>9. PICK past, es, days, strict :
        past = answers /\ es = result /\ days = command.days_back /\ strict = Strict
  OBVIOUS
<1>10. Parts(past, days, strict, es)'
  <2>1. Parts(past, days, strict, es)
    BY <1>8, <1>9
  <2>. QED
    BY <1>7, <2>1, PartsKept
<1>11. Parts(answers, command.days_back, Strict, result)'
  <2>1. command.days_back' = days /\ Strict' = strict
    BY <1>2, <1>9 DEF Strict
  <2>. QED
    BY <1>2, <1>9, <1>10, <2>1
<1>12. stage' # "query" /\ Commanded' /\ ~Merging' /\ command'.source \in {"all", "type"}
  BY <1>2, <1>8 DEF Commanded, Merging
<1>. QED
  BY <1>11, <1>12 DEF Segmented

\* The other steps come after the query.
LEMMA LaterSegments ==
    Segmented /\ (Import \/ Statistics \/ CategorizeEntries \/ Search) => Segmented'
<1>1. SUFFICES ASSUME Segmented, Import \/ Statistics \/ CategorizeEntries \/ Search PROVE Segmented'
  OBVIOUS
<1>2. UNCHANGED command /\ stage' \in {"stats", "done", "categorize", "search"}
  BY <1>1 DEF Import, Statistics, CategorizeEntries, Search
<1>3. Commanded'
  BY <1>1, <1>2 DEF Segmented, Commanded
<1>. QED
  BY <1>2, <1>3 DEF Segmented, Unmerged, Merging

LEMMA StandstillSegments == Segmented /\ UNCHANGED vars => Segmented'
<1>1. SUFFICES ASSUME Segmented, UNCHANGED vars PROVE Segmented'
  OBVIOUS
<1>2. UNCHANGED <<disk, command, stage, answers, result>>
  BY <1>1 DEF vars, queryVars
<1>3. PICK days, strict : days = command.days_back /\ strict = Strict
  OBVIOUS
<1>4. command.days_back' = days /\ Strict' = strict /\ (Unmerged' <=> Unmerged) /\ (Merging' <=> Merging)
  BY <1>2, <1>3 DEF Strict, Unmerged, Merging
<1>5. SameRows
  BY <1>2, SameDiskRows
<1>6. ASSUME NEW es, Parts(answers, command.days_back, Strict, es)
      PROVE  Parts(answers, command.days_back, Strict, es)'
  <2>1. PICK past : past = answers /\ Parts(past, days, strict, es)
    BY <1>3, <1>6
  <2>2. Parts(past, days, strict, es)'
    BY <1>5, <2>1, PartsKept
  <2>. QED
    BY <1>2, <1>4, <2>1, <2>2
<1>7. ASSUME Unmerged'
      PROVE  Parts(answers, command.days_back, Strict, result)'
  <2>1. PICK es : es = result /\ Parts(answers, command.days_back, Strict, es)
    BY <1>1, <1>4, <1>7 DEF Segmented
  <2>2. Parts(answers, command.days_back, Strict, es)'
    BY <1>6, <2>1
  <2>. QED
    BY <1>2, <2>1, <2>2
<1>8. ASSUME Merging'
      PROVE  \E es : IsEntries(es) /\ Parts(answers, command.days_back, Strict, es)' /\ result' = Deduplicated(es)
  <2>1. PICK es : IsEntries(es) /\ Parts(answers, command.days_back, Strict, es) /\ result = Deduplicated(es)
    BY <1>1, <1>4, <1>8 DEF Segmented
  <2>2. Parts(answers, command.days_back, Strict, es)'
    BY <1>6, <2>1
  <2>. QED
    BY <1>2, <2>1, <2>2
<1>9. Commanded' /\ (stage' \in {"read", "unmerged"} => command'.source \in {"all", "type"})
  BY <1>1, <1>2 DEF Segmented, Commanded
<1>10. stage' = "query" /\ "firefox" \in DOMAIN disk' => KeepsNoChromium(disk["firefox"])'
  BY <1>1, <1>2 DEF Segmented, KeepsNoChromium
<1>. QED
  BY <1>7, <1>8, <1>9, <1>10 DEF Segmented

LEMMA SegmentedNext == Typed /\ Segmented /\ [Next]_vars => Segmented'
BY ScanSegments, QueryProfileSegments, DeduplicateSegments, QueryFileSegments, LoseProfileSegments,
   LaterSegments, StandstillSegments DEF Next, Query, QueryNext

\* What there is to read of a file that answered.
LEMMA WantedFacts ==
    ASSUME DiskTyped, Commanded, NEW a, a.type \in DOMAIN disk, a.place \in PlacesOf(a.type)
    PROVE  OneEach(Rows(a), Wanted(a)) /\ \A r \in Wanted(a) : Latest(Rows(a)[r]) \in Nat
<1>1. PICK type, place : type = a.type /\ place = a.place
  OBVIOUS
<1>2. PICK file : file = FileAt(type, place) /\ IsFile(file)
  BY <1>1, FileTyped
<1>3. Rows(a) = file.rows /\ RowsAt(a) = file.rows
  BY <1>1, <1>2 DEF Rows, RowsAt
<1>4. PICK from : from = FromOf(a.type, command.days_back, Strict)
  OBVIOUS
<1>5. from \in Int /\ Wanted(a) = ReadFrom(file.rows, from)
  BY <1>3, <1>4, WantedRead
<1>6. OneEach(file.rows, Wanted(a))
  <2>1. \A i, j \in DOMAIN file.rows : file.rows[i].url = file.rows[j].url => i = j
    BY <1>2 DEF IsFile
  <2>2. Wanted(a) \subseteq DOMAIN file.rows
    BY <1>5 DEF ReadFrom
  <2>. QED
    BY <2>1, <2>2 DEF OneEach
<1>7. ASSUME NEW r \in Wanted(a)
      PROVE  Latest(file.rows[r]) \in Nat
  <2>1. PICK e : e = RowEntry(file.rows[r], from, Format(type))
    OBVIOUS
  <2>2. r \in ReadFrom(file.rows, from)
    BY <1>5
  <2>. QED
    BY <1>2, <1>5, <2>1, <2>2, ReadEntry
<1>. QED
  BY <1>3, <1>6, <1>7

LEMMA AnswerNewest ==
    ASSUME DiskTyped, Commanded, NEW past, NEW es, Parts(past, command.days_back, Strict, es),
           NEW k \in DOMAIN past, past[k].count >= 0,
           NEW mine, mine = SubSeq(es, Start(past, k) + 1, Start(past, k) + past[k].count)
    PROVE  NewestOf(past[k], mine, Rows(past[k]), Wanted(past[k]))
<1>1. PICK a : a = past[k]
  OBVIOUS
<1>2. PICK b : b = Start(past, k)
  OBVIOUS
<1>3. IsSeq(past) /\ IsSeq(es) /\ Len(es) = Start(past, Len(past) + 1) /\ \A i \in DOMAIN past : past[i].count \in Int
  BY CountsOfParts DEF Parts
<1>4. PICK N \in Nat : N = Len(past) /\ DOMAIN past = 1 .. N
  BY <1>3, SeqElements
<1>5. a.count \in Nat /\ Brought(a) = a.count
  <2>1. a.count \in Int /\ a.count >= 0
    BY <1>1, <1>3
  <2>. QED
    BY <2>1, BroughtFacts
<1>6. b \in Nat /\ b + a.count <= Len(es)
  <2>1. k \in 1 .. Len(past) + 1 /\ Len(past) + 1 \in 1 .. Len(past) + 1 /\ k < Len(past) + 1
    BY <1>4
  <2>2. Start(past, k) \in Nat
    BY <1>3, <2>1, StartsWithin
  <2>3. Start(past, k) + Brought(past[k]) <= Start(past, Len(past) + 1)
    BY <1>3, <2>1, StartsWithin
  <2>. QED
    BY <1>1, <1>2, <1>3, <1>5, <2>2, <2>3
<1>7. AnswerOf(a, command.days_back, Strict, es, b)
  BY <1>1, <1>2 DEF Parts
<1>8. a.type \in DOMAIN disk /\ a.place \in PlacesOf(a.type)
  BY <1>1, <1>7 DEF AnswerOf
<1>9. PICK rows, wanted : rows = Rows(a) /\ wanted = Wanted(a)
  OBVIOUS
<1>10. OneEach(rows, wanted) /\ \A r \in wanted : Latest(rows[r]) \in Nat
  BY <1>8, <1>9, WantedFacts
<1>11. PICK order : Brings(a, es, b, order, rows, wanted)
  <2>1. a.count >= 0
    BY <1>1
  <2>2. \E order : Brings(a, es, b, order, Rows(a), Wanted(a))
    BY <1>7, <2>1, AnswerBrings
  <2>. QED
    BY <1>9, <2>2
<1>12. Between(mine, es, b, a.count)
  BY <1>1, <1>2, <1>3, <1>5, <1>6 DEF Between
<1>13. NewestOf(a, mine, rows, wanted)
  BY <1>5, <1>6, <1>10, <1>11, <1>12, BroughtNewest
<1>. QED
  BY <1>1, <1>9, <1>13

\* Whatever is installed, however many rows a query reads before it breaks off and
\* whatever profiles go away, every profile that answered has brought its newest rows of
\* the last days, each once, newest first, with the time of its browser's epoch, and its
\* entries stand in the result behind those of the profiles before it
\* (generic_query_history, browser_query_all, browser_query_by_type, history_db_query).
THEOREM AlwaysNewestOfEachProfile == Spec => []NewestOfEachProfile
<1>1. PipelineInit => Typed /\ Segmented
  BY TypedInit, SegmentedInit
<1>2. (Typed /\ Segmented) /\ [Next]_vars => (Typed /\ Segmented)'
  BY TypedNext, SegmentedNext
<1>3. Typed /\ Segmented => NewestOfEachProfile
  <2>1. SUFFICES ASSUME Typed, Segmented, Unmerged PROVE
           /\ Len(result) = Before(Len(answers) + 1)
           /\ \A k \in {j \in DOMAIN answers : answers[j].count >= 0} :
                 NewestOf(answers[k], SubSeq(result, Before(k) + 1, Before(k) + answers[k].count),
                          Rows(answers[k]), Wanted(answers[k]))
    BY DEF NewestOfEachProfile, NewestOf, OfRow, Unmerged
  <2>2. DiskTyped /\ Commanded /\ Parts(answers, command.days_back, Strict, result)
    BY <2>1 DEF Typed, Segmented
  <2>3. PICK past, es : past = answers /\ es = result /\ Parts(past, command.days_back, Strict, es)
    BY <2>2
  <2>4. \A k : Before(k) = Start(past, k)
    BY <2>3 DEF Before, Start, Brought
  <2>5. Len(es) = Start(past, Len(past) + 1)
    BY <2>3 DEF Parts
  <2>6. ASSUME NEW k \in DOMAIN past, past[k].count >= 0
        PROVE  NewestOf(past[k], SubSeq(es, Start(past, k) + 1, Start(past, k) + past[k].count),
                        Rows(past[k]), Wanted(past[k]))
    <3>1. PICK mine : mine = SubSeq(es, Start(past, k) + 1, Start(past, k) + past[k].count)
      OBVIOUS
    <3>. QED
      BY <2>2, <2>3, <2>6, <3>1, AnswerNewest
  <2>. QED
    BY <2>3, <2>4, <2>5, <2>6
<1>. QED
  BY <1>1, <1>2, <1>3, PTL DEF Spec

-----------------------------------------------------------------------------
(* One entry of each page.                                                 *)

\* The rows of an answer that were read.
Taken(a) == {i \in Wanted(a) : Cardinality(ReadBefore(i, Rows(a), Wanted(a))) < a.count}

ReadRow(k, i) == [row |-> Rows(answers[k])[i], type |-> answers[k].type, at |-> <<k, i>>]

LEMMA ReadRowsTaken == ReadRows = UNION {{ReadRow(k, i) : i \in Taken(answers[k])} : k \in DOMAIN answers}
BY DEF ReadRows, Taken, ReadBefore, ReadRow

\* Every answer came from a database.
Placed == \A k \in DOMAIN answers : answers[k].type \in DOMAIN disk /\ answers[k].place \in PlacesOf(answers[k].type)

LEMMA WantedFinite ==
    ASSUME DiskTyped, NEW a, a.type \in DOMAIN disk, a.place \in PlacesOf(a.type), NEW S, S \subseteq Wanted(a)
    PROVE  Cardinality(S) \in Nat
<1>1. PICK type, place : type = a.type /\ place = a.place
  OBVIOUS
<1>2. PICK file : file = FileAt(type, place) /\ IsFile(file)
  BY <1>1, FileTyped
<1>3. Rows(a) = file.rows
  BY <1>1, <1>2 DEF Rows
<1>4. PICK N \in Nat : DOMAIN file.rows = 1 .. N
  BY <1>2 DEF IsFile
<1>5. IsFiniteSet(1 .. N)
  BY FS_Interval
<1>6. S \subseteq 1 .. N
  BY <1>3, <1>4 DEF Wanted
<1>. QED
  BY <1>5, <1>6, FS_Subset, FS_CardinalityType

\* What was read of an answer and its entries are the same.
LEMMA AnswerTaken ==
    ASSUME DiskTyped, Commanded, NEW a, a.type \in DOMAIN disk, a.place \in PlacesOf(a.type),
           NEW es, NEW b, AnswerOf(a, command.days_back, Strict, es, b)
    PROVE  /\ \A i \in 1 .. Brought(a) : \E r \in Taken(a) : IsEntryOf(es[b + i], Rows(a)[r], a.type)
           /\ \A r \in Taken(a) : \E i \in 1 .. Brought(a) : IsEntryOf(es[b + i], Rows(a)[r], a.type)
           /\ \A r \in Taken(a) : Latest(Rows(a)[r]) \in Nat
<1>1. a.count \in Int
  BY DEF AnswerOf
<1>2. PICK rows, wanted : rows = Rows(a) /\ wanted = Wanted(a)
  OBVIOUS
<1>3. \A r \in Taken(a) : r \in wanted /\ Cardinality(ReadBefore(r, rows, wanted)) < a.count
  BY <1>2 DEF Taken
<1>4. CASE a.count < 0
  <2>1. Brought(a) = 0
    BY <1>1, <1>4, BroughtFacts
  <2>2. \A r \in Taken(a) : FALSE
    <3>1. SUFFICES ASSUME NEW r \in Taken(a) PROVE FALSE
      OBVIOUS
    <3>2. PICK S : S = ReadBefore(r, rows, wanted) /\ S \subseteq Wanted(a)
      BY <1>2 DEF ReadBefore
    <3>3. Cardinality(S) \in Nat
      BY <3>2, WantedFinite
    <3>. QED
      BY <1>1, <1>3, <1>4, <3>2, <3>3
  <2>. QED
    BY <2>1, <2>2
<1>5. CASE a.count >= 0
  <2>1. Brought(a) = a.count
    BY <1>1, <1>5, BroughtFacts
  <2>2. PICK order : Brings(a, es, b, order, rows, wanted)
    <3>1. \E order : Brings(a, es, b, order, Rows(a), Wanted(a))
      BY <1>5, AnswerBrings
    <3>. QED
      BY <1>2, <3>1
  <2>3. ASSUME NEW i \in 1 .. a.count
        PROVE  \E r \in Taken(a) : IsEntryOf(es[b + i], rows[r], a.type)
    <3>1. PICK r \in wanted : r = order[i] /\ IsEntryOf(es[b + i], rows[r], a.type)
      BY <2>2 DEF Brings
    <3>2. Cardinality(ReadBefore(r, rows, wanted)) = i - 1
      BY <2>2, <3>1 DEF Brings
    <3>3. i - 1 < a.count
      BY <1>1
    <3>4. r \in Taken(a)
      BY <1>2, <3>1, <3>2, <3>3 DEF Taken
    <3>. QED
      BY <3>1, <3>4
  <2>4. ASSUME NEW r \in Taken(a)
        PROVE  \E i \in 1 .. a.count : IsEntryOf(es[b + i], rows[r], a.type)
    <3>1. PICK i \in 1 .. a.count : order[i] = r
      BY <1>3, <2>2 DEF Brings
    <3>. QED
      BY <2>2, <3>1 DEF Brings
  <2>5. \A r \in Taken(a) : Latest(Rows(a)[r]) \in Nat
    <3>1. \A r \in Wanted(a) : Latest(Rows(a)[r]) \in Nat
      BY WantedFacts
    <3>. QED
      BY <1>2, <1>3, <3>1
  <2>. QED
    BY <1>2, <2>1, <2>3, <2>4, <2>5
<1>. QED
  BY <1>1, <1>4, <1>5

LEMMA Segments ==
    ASSUME NEW N \in Nat, NEW s, NEW f, s[1] = 0,
           \A k \in 1 .. N : s[k] \in Nat /\ f[k] \in Nat /\ s[k + 1] = s[k] + f[k]
    PROVE  \A i \in 1 .. s[N + 1] : \E k \in 1 .. N : \E j \in 1 .. f[k] : i = s[k] + j
<1> DEFINE Within(i) == \E k \in 1 .. N : \E j \in 1 .. f[k] : i = s[k] + j
<1>1. PICK P : P = {m \in Nat : m <= N => \A i \in 1 .. s[m + 1] : Within(i)}
  OBVIOUS
<1>. HIDE DEF Within
<1>2. 0 \in P
  <2>1. 1 .. s[0 + 1] = {}
    OBVIOUS
  <2>. QED
    BY <1>1, <2>1
<1>3. ASSUME NEW m \in 0 .. N - 1, m \in P
      PROVE  m + 1 \in P
  <2>1. m \in Nat /\ m + 1 \in Nat /\ m <= N /\ \A i \in 1 .. s[m + 1] : Within(i)
    BY <1>1, <1>3
  <2>2. PICK k \in 1 .. N : k = m + 1
    OBVIOUS
  <2>3. s[k] \in Nat /\ f[k] \in Nat /\ s[k + 1] = s[k] + f[k]
    OBVIOUS
  <2>4. ASSUME NEW i \in 1 .. s[k + 1]
        PROVE  Within(i)
    <3>1. CASE i <= s[k]
      <4>1. i \in 1 .. s[m + 1]
        BY <2>2, <2>3, <3>1
      <4>. QED
        BY <2>1, <4>1
    <3>2. CASE i > s[k]
      <4>1. i - s[k] \in 1 .. f[k] /\ i = s[k] + (i - s[k])
        BY <2>3, <3>2
      <4>. QED
        BY <4>1 DEF Within
    <3>. QED
      BY <2>3, <3>1, <3>2
  <2>. QED
    BY <1>1, <2>1, <2>2, <2>4
<1>4. \A m \in 0 .. N : m \in P
  BY <1>2, <1>3, CountUp
<1>5. \A i \in 1 .. s[N + 1] : Within(i)
  BY <1>1, <1>4
<1>. QED
  BY <1>5 DEF Within

\* The places of the entries of the answers are all the places.
LEMMA StartsCover ==
    ASSUME NEW past, IsSeq(past), \A i \in DOMAIN past : past[i].count \in Int
    PROVE  \A i \in 1 .. Start(past, Len(past) + 1) :
              \E k \in DOMAIN past : \E j \in 1 .. Brought(past[k]) : i = Start(past, k) + j
<1>1. PICK N \in Nat : N = Len(past) /\ DOMAIN past = 1 .. N
  BY SeqElements DEF IsSeq
<1>2. PICK s : s = [k \in 1 .. N + 1 |-> Start(past, k)]
  OBVIOUS
<1>3. PICK f : f = [k \in 1 .. N |-> Brought(past[k])]
  OBVIOUS
<1>4. s[1] = 0
  <2>1. Start(past, 1) = 0 /\ 1 \in 1 .. N + 1
    BY StartFacts
  <2>. QED
    BY <1>2, <2>1
<1>5. ASSUME NEW k \in 1 .. N
      PROVE  /\ s[k] \in Nat /\ f[k] \in Nat /\ s[k + 1] = s[k] + f[k]
             /\ s[k] = Start(past, k) /\ f[k] = Brought(past[k])
  <2>1. k \in 1 .. Len(past) + 1 /\ k \in DOMAIN past /\ k \in 1 .. N + 1 /\ k + 1 \in 1 .. N + 1
    BY <1>1
  <2>2. s[k] = Start(past, k) /\ f[k] = Brought(past[k]) /\ s[k + 1] = Start(past, k + 1)
    BY <1>2, <1>3, <2>1
  <2>3. Start(past, k) \in Nat
    BY <2>1, StartsWithin
  <2>4. Start(past, k + 1) = Start(past, k) + Brought(past[k])
    BY <2>1, StartFacts
  <2>5. Brought(past[k]) \in Nat
    BY <2>1, BroughtFacts
  <2>. QED
    BY <2>2, <2>3, <2>4, <2>5
<1>6. \A i \in 1 .. s[N + 1] : \E k \in 1 .. N : \E j \in 1 .. f[k] : i = s[k] + j
  BY <1>4, <1>5, Segments
<1>7. s[N + 1] = Start(past, Len(past) + 1)
  BY <1>1, <1>2
<1>8. ASSUME NEW i \in 1 .. s[N + 1]
      PROVE  \E k \in DOMAIN past : \E j \in 1 .. Brought(past[k]) : i = Start(past, k) + j
  <2>1. PICK k \in 1 .. N : \E j \in 1 .. f[k] : i = s[k] + j
    BY <1>6
  <2>2. s[k] = Start(past, k) /\ f[k] = Brought(past[k]) /\ k \in DOMAIN past
    BY <1>1, <1>5
  <2>. QED
    BY <2>1, <2>2
<1>. QED
  BY <1>7, <1>8

\* The entries are those of the rows that were read.
Covering(es) ==
    /\ \A i \in DOMAIN es : \E r \in ReadRows : IsEntryOf(es[i], r.row, r.type)
    /\ \A r \in ReadRows : \E i \in DOMAIN es : IsEntryOf(es[i], r.row, r.type)
    /\ \A r \in ReadRows : Latest(r.row) \in Nat

LEMMA PartsCover ==
    ASSUME DiskTyped, Commanded, Placed, NEW es, Parts(answers, command.days_back, Strict, es)
    PROVE  Covering(es)
<1>1. PICK past : past = answers
  OBVIOUS
<1>2. /\ IsSeq(past) /\ IsSeq(es) /\ Len(es) = Start(past, Len(past) + 1)
      /\ \A i \in DOMAIN past : past[i].count \in Int
  BY <1>1, CountsOfParts DEF Parts
<1>3. PICK N \in Nat : N = Len(past) /\ DOMAIN past = 1 .. N
  BY <1>2, SeqElements
<1>4. PICK M \in Nat : M = Len(es) /\ DOMAIN es = 1 .. M
  BY <1>2, SeqElements
<1>5. ASSUME NEW k \in DOMAIN past
      PROVE  LET a == past[k] IN
             /\ \A i \in 1 .. Brought(a) : \E r \in Taken(a) : IsEntryOf(es[Start(past, k) + i], Rows(a)[r], a.type)
             /\ \A r \in Taken(a) : \E i \in 1 .. Brought(a) : IsEntryOf(es[Start(past, k) + i], Rows(a)[r], a.type)
             /\ \A r \in Taken(a) : Latest(Rows(a)[r]) \in Nat
  <2>1. PICK a, b : a = past[k] /\ b = Start(past, k)
    OBVIOUS
  <2>2. a.type \in DOMAIN disk /\ a.place \in PlacesOf(a.type)
    BY <1>1, <2>1 DEF Placed
  <2>3. AnswerOf(a, command.days_back, Strict, es, b)
    BY <1>1, <2>1 DEF Parts
  <2>4. /\ \A i \in 1 .. Brought(a) : \E r \in Taken(a) : IsEntryOf(es[b + i], Rows(a)[r], a.type)
        /\ \A r \in Taken(a) : \E i \in 1 .. Brought(a) : IsEntryOf(es[b + i], Rows(a)[r], a.type)
        /\ \A r \in Taken(a) : Latest(Rows(a)[r]) \in Nat
    BY <2>2, <2>3, AnswerTaken
  <2>. QED
    BY <2>1, <2>4
<1>6. ASSUME NEW k \in DOMAIN past, NEW i \in Taken(past[k])
      PROVE  ReadRow(k, i).row = Rows(past[k])[i] /\ ReadRow(k, i).type = past[k].type
  BY <1>1 DEF ReadRow
<1>7. ASSUME NEW i \in DOMAIN es
      PROVE  \E r \in ReadRows : IsEntryOf(es[i], r.row, r.type)
  <2>1. PICK k \in DOMAIN past : \E j \in 1 .. Brought(past[k]) : i = Start(past, k) + j
    BY <1>2, <1>4, StartsCover
  <2>2. PICK j \in 1 .. Brought(past[k]) : i = Start(past, k) + j
    BY <2>1
  <2>3. PICK n \in Taken(past[k]) : IsEntryOf(es[i], Rows(past[k])[n], past[k].type)
    BY <1>5, <2>2
  <2>4. PICK r : r = ReadRow(k, n)
    OBVIOUS
  <2>5. r \in ReadRows
    BY <1>1, <2>4, ReadRowsTaken
  <2>6. r.row = Rows(past[k])[n] /\ r.type = past[k].type
    BY <1>6, <2>4
  <2>. QED
    BY <2>3, <2>5, <2>6
<1>8. ASSUME NEW r \in ReadRows
      PROVE  Latest(r.row) \in Nat /\ \E i \in DOMAIN es : IsEntryOf(es[i], r.row, r.type)
  <2>1. PICK k \in DOMAIN past : r \in {ReadRow(k, n) : n \in Taken(past[k])}
    BY <1>1, ReadRowsTaken
  <2>2. PICK n \in Taken(past[k]) : r = ReadRow(k, n)
    BY <2>1
  <2>3. r.row = Rows(past[k])[n] /\ r.type = past[k].type
    BY <1>6, <2>2
  <2>4. PICK j \in 1 .. Brought(past[k]) : IsEntryOf(es[Start(past, k) + j], Rows(past[k])[n], past[k].type)
    BY <1>5
  <2>5. Start(past, k) + j \in DOMAIN es
    <3>1. k \in 1 .. Len(past) + 1 /\ Len(past) + 1 \in 1 .. Len(past) + 1 /\ k < Len(past) + 1
      BY <1>3
    <3>2. Start(past, k) \in Nat
      BY <1>2, <3>1, StartsWithin
    <3>3. Start(past, k) + Brought(past[k]) <= Start(past, Len(past) + 1)
      BY <1>2, <3>1, StartsWithin
    <3>4. Brought(past[k]) \in Nat
      BY <1>2, BroughtFacts
    <3>. QED
      BY <1>2, <1>4, <3>2, <3>3, <3>4
  <2>6. Latest(Rows(past[k])[n]) \in Nat
    BY <1>5
  <2>. QED
    BY <2>3, <2>4, <2>5, <2>6
<1>. QED
  BY <1>7, <1>8 DEF Covering

LEMMA MaxIs ==
    ASSUME NEW S, S \in SUBSET Int, NEW m \in S, \A y \in S : y <= m
    PROVE  Max(S) = m
<1>1. Max(S) \in S /\ \A y \in S : Max(S) >= y
  BY DEF Max
<1>2. Max(S) \in Int /\ m \in Int
  BY <1>1
<1>3. Max(S) >= m /\ Max(S) <= m
  BY <1>1
<1>. QED
  BY <1>2, <1>3

\* Of browsers with the same clock the later time is the later second.
LEMMA SecondsOrder ==
    ASSUME NEW a \in Nat, NEW b \in Nat, a <= b, NEW s, NEW t, Format(s) = Format(t)
    PROVE  Seconds(a, s) \in Int /\ Seconds(b, t) \in Int /\ Seconds(a, s) <= Seconds(b, t)
<1>1. Micro \in Nat \ {0} /\ EpochOffset \in Int
  BY TimeAssumption
<1>2. a \div Micro \in Int /\ b \div Micro \in Int /\ a \div Micro <= b \div Micro
  BY <1>1, QuotientOrder
<1>3. s = "firefox" <=> t = "firefox"
  BY DEF Format
<1>. QED
  BY <1>1, <1>2, <1>3 DEF Seconds

\* One format of all of them.
LEMMA OneFormat ==
    ASSUME NEW R, Cardinality({Format(r.type) : r \in R}) = 1
    PROVE  \A r, s \in R : Format(r.type) = Format(s.type)
<1>1. PICK C : C = {Format(r.type) : r \in R}
  OBVIOUS
<1>2. IsFiniteSet(C)
  <2>1. C \subseteq {"firefox"} \cup {"chromium"}
    BY <1>1 DEF Format
  <2>2. IsFiniteSet({"firefox"}) /\ IsFiniteSet({"chromium"})
    BY FS_Singleton
  <2>3. IsFiniteSet({"firefox"} \cup {"chromium"})
    BY <2>2, FS_Union
  <2>. QED
    BY <2>1, <2>3, FS_Subset
<1>3. Cardinality(C) = 1
  BY <1>1
<1>4. PICK x : C = {x}
  BY <1>2, <1>3, FS_Singleton
<1>5. \A r \in R : Format(r.type) = x
  BY <1>1, <1>4
<1>. QED
  BY <1>5

\* What OneEntryPerPage says of an entry and the rows of its page, and of all entries.
OfPage(e, mine) ==
    /\ e.visit_count = Max({r.row.visit_count : r \in mine})
    /\ Cardinality({Format(r.type) : r \in mine}) = 1 =>
          /\ e.last_visit_raw = Max({Latest(r.row) : r \in mine})
          /\ e.last_visit_time = Max({Seconds(Latest(r.row), r.type) : r \in mine})

PagesInOrder(ds) ==
    \A i, j \in DOMAIN ds : i < j =>
        \E r \in {r \in ReadRows : r.row.url = ds[i].url} :
            \A s \in {s \in ReadRows : s.row.url = ds[j].url} : ReadEarlier(r, s)

OnePerPage(ds) ==
    /\ PagesInOrder(ds)
    /\ {ds[i].url : i \in DOMAIN ds} = {r.row.url : r \in ReadRows}
    /\ \A i \in DOMAIN ds : /\ \A j \in DOMAIN ds : i # j => ds[i].url # ds[j].url
                            /\ OfPage(ds[i], {r \in ReadRows : r.row.url = ds[i].url})

\* What is known of the rows of a page from an entry that all of its entries went into.
LEMMA PageOf ==
    ASSUME NEW es, IsEntries(es), Covering(es), NEW i \in DOMAIN es, NEW e, e = Merged(es, i),
           NEW mine, mine = {r \in ReadRows : r.row.url = e.url}
    PROVE  OfPage(e, mine)
<1>1. /\ IsEntry(e) /\ e.url = es[i].url
      /\ \E j \in SamePage(es, i) : e.visit_count = es[j].visit_count
      /\ \A j \in SamePage(es, i) : es[j].visit_count <= e.visit_count
      /\ \E j \in SamePage(es, i) :
           e.last_visit_raw = es[j].last_visit_raw /\ e.last_visit_time = es[j].last_visit_time
      /\ \A j \in SamePage(es, i) : es[j].last_visit_raw <= e.last_visit_raw
  BY MergedFacts
<1>2. ASSUME NEW j \in SamePage(es, i)
      PROVE  \E r \in mine : IsEntryOf(es[j], r.row, r.type)
  <2>1. j \in DOMAIN es /\ es[j].url = e.url
    BY <1>1 DEF SamePage
  <2>2. PICK r \in ReadRows : IsEntryOf(es[j], r.row, r.type)
    BY <2>1 DEF Covering
  <2>3. r.row.url = e.url
    BY <2>1, <2>2 DEF IsEntryOf
  <2>. QED
    BY <2>2, <2>3
<1>3. ASSUME NEW r \in mine
      PROVE  \E j \in SamePage(es, i) : IsEntryOf(es[j], r.row, r.type)
  <2>1. r \in ReadRows /\ r.row.url = e.url
    OBVIOUS
  <2>2. PICK j \in DOMAIN es : IsEntryOf(es[j], r.row, r.type)
    BY <2>1 DEF Covering
  <2>3. es[j].url = es[i].url
    BY <1>1, <2>1, <2>2 DEF IsEntryOf
  <2>4. j \in SamePage(es, i)
    BY <2>3 DEF SamePage
  <2>. QED
    BY <2>2, <2>4
<1>4. \A j \in SamePage(es, i) : es[j].visit_count \in Int /\ es[j].last_visit_raw \in Nat
  <2>1. \A j \in SamePage(es, i) : IsEntry(es[j])
    BY DEF SamePage, IsEntries
  <2>. QED
    BY <2>1 DEF IsEntry
<1>5. e.visit_count = Max({r.row.visit_count : r \in mine})
  <2>1. PICK V, m : V = {r.row.visit_count : r \in mine} /\ m = e.visit_count
    OBVIOUS
  <2>2. ASSUME NEW v \in V
        PROVE  v \in Int /\ v <= m
    <3>1. PICK r \in mine : v = r.row.visit_count
      BY <2>1
    <3>2. PICK j \in SamePage(es, i) : IsEntryOf(es[j], r.row, r.type)
      BY <1>3
    <3>3. v = es[j].visit_count
      BY <3>1, <3>2 DEF IsEntryOf
    <3>. QED
      BY <1>1, <1>4, <2>1, <3>3
  <2>3. m \in V
    <3>1. PICK j \in SamePage(es, i) : m = es[j].visit_count
      BY <1>1, <2>1
    <3>2. PICK r \in mine : IsEntryOf(es[j], r.row, r.type)
      BY <1>2
    <3>3. m = r.row.visit_count
      BY <3>1, <3>2 DEF IsEntryOf
    <3>. QED
      BY <2>1, <3>3
  <2>4. V \in SUBSET Int /\ \A y \in V : y <= m
    BY <2>2
  <2>5. Max(V) = m
    BY <2>3, <2>4, MaxIs
  <2>. QED
    BY <2>1, <2>5
<1>6. e.last_visit_raw = Max({Latest(r.row) : r \in mine})
  <2>1. PICK V, m : V = {Latest(r.row) : r \in mine} /\ m = e.last_visit_raw
    OBVIOUS
  <2>2. ASSUME NEW v \in V
        PROVE  v \in Int /\ v <= m
    <3>1. PICK r \in mine : v = Latest(r.row)
      BY <2>1
    <3>2. PICK j \in SamePage(es, i) : IsEntryOf(es[j], r.row, r.type)
      BY <1>3
    <3>3. v = es[j].last_visit_raw
      BY <3>1, <3>2 DEF IsEntryOf
    <3>. QED
      BY <1>1, <1>4, <2>1, <3>3
  <2>3. m \in V
    <3>1. PICK j \in SamePage(es, i) : m = es[j].last_visit_raw
      BY <1>1, <2>1
    <3>2. PICK r \in mine : IsEntryOf(es[j], r.row, r.type)
      BY <1>2
    <3>3. m = Latest(r.row)
      BY <3>1, <3>2 DEF IsEntryOf
    <3>. QED
      BY <2>1, <3>3
  <2>4. V \in SUBSET Int /\ \A y \in V : y <= m
    BY <2>2
  <2>5. Max(V) = m
    BY <2>3, <2>4, MaxIs
  <2>. QED
    BY <2>1, <2>5
<1>7. ASSUME Cardinality({Format(r.type) : r \in mine}) = 1
      PROVE  e.last_visit_time = Max({Seconds(Latest(r.row), r.type) : r \in mine})
  <2>1. PICK V, m : V = {Seconds(Latest(r.row), r.type) : r \in mine} /\ m = e.last_visit_time
    OBVIOUS
  <2>2. PICK j \in SamePage(es, i) :
          e.last_visit_raw = es[j].last_visit_raw /\ e.last_visit_time = es[j].last_visit_time
    BY <1>1
  <2>3. PICK q \in mine : IsEntryOf(es[j], q.row, q.type)
    BY <1>2
  <2>4. m = Seconds(Latest(q.row), q.type) /\ e.last_visit_raw = Latest(q.row)
    BY <2>1, <2>2, <2>3 DEF IsEntryOf
  <2>5. \A r \in mine : Format(r.type) = Format(q.type)
    BY <1>7, OneFormat
  <2>6. ASSUME NEW v \in V
        PROVE  v \in Int /\ v <= m
    <3>1. PICK r \in mine : v = Seconds(Latest(r.row), r.type)
      BY <2>1
    <3>2. PICK k \in SamePage(es, i) : IsEntryOf(es[k], r.row, r.type)
      BY <1>3
    <3>3. Latest(r.row) = es[k].last_visit_raw
      BY <3>2 DEF IsEntryOf
    <3>4. PICK x \in Nat : x = Latest(r.row)
      BY <1>4, <3>3
    <3>5. PICK y \in Nat : y = Latest(q.row)
      BY <1>4, <2>2, <2>4
    <3>6. x <= y
      BY <1>1, <2>4, <3>3, <3>4, <3>5
    <3>7. Format(r.type) = Format(q.type)
      BY <2>5
    <3>8. PICK s, t : s = r.type /\ t = q.type
      OBVIOUS
    <3>9. Seconds(x, s) \in Int /\ Seconds(x, s) <= Seconds(y, t)
      BY <3>6, <3>7, <3>8, SecondsOrder
    <3>. QED
      BY <2>4, <3>1, <3>4, <3>5, <3>8, <3>9
  <2>7. m \in V
    BY <2>1, <2>4
  <2>8. V \in SUBSET Int /\ \A y \in V : y <= m
    BY <2>6
  <2>9. Max(V) = m
    BY <2>7, <2>8, MaxIs
  <2>. QED
    BY <2>1, <2>9
<1>. QED
  BY <1>5, <1>6, <1>7 DEF OfPage

\* Where the entry of a row is among those of its answer, and among all.
Spot(a, r) == Cardinality(ReadBefore(r, Rows(a), Wanted(a))) + 1
SpotInAll(k, r) == Start(answers, k) + Spot(answers[k], r)

\* The entries of an answer are at the spots of its rows, in the order of these.
LEMMA AnswerSpots ==
    ASSUME DiskTyped, Commanded, NEW a, a.type \in DOMAIN disk, a.place \in PlacesOf(a.type),
           NEW es, NEW b, AnswerOf(a, command.days_back, Strict, es, b)
    PROVE  /\ \A r \in Taken(a) : /\ Spot(a, r) \in 1 .. Brought(a)
                                  /\ IsEntryOf(es[b + Spot(a, r)], Rows(a)[r], a.type)
           /\ \A i \in 1 .. Brought(a) : \E r \in Taken(a) : Spot(a, r) = i
           /\ \A q, r \in Taken(a) : Spot(a, q) < Spot(a, r) => q \in ReadBefore(r, Rows(a), Wanted(a))
<1>1. a.count \in Int
  BY DEF AnswerOf
<1>2. PICK rows, wanted : rows = Rows(a) /\ wanted = Wanted(a)
  OBVIOUS
<1>3. ASSUME NEW r \in Taken(a)
      PROVE  r \in wanted /\ Cardinality(ReadBefore(r, rows, wanted)) \in 0 .. a.count - 1
  <2>1. r \in wanted /\ Cardinality(ReadBefore(r, rows, wanted)) < a.count
    BY <1>2 DEF Taken
  <2>2. PICK S : S = ReadBefore(r, rows, wanted) /\ S \subseteq Wanted(a)
    BY <1>2 DEF ReadBefore
  <2>3. Cardinality(S) \in Nat
    BY <2>2, WantedFinite
  <2>. QED
    BY <1>1, <2>1, <2>2, <2>3
<1>4. CASE a.count < 0
  <2>1. Brought(a) = 0
    BY <1>1, <1>4, BroughtFacts
  <2>2. \A r \in Taken(a) : FALSE
    BY <1>1, <1>3, <1>4
  <2>. QED
    BY <2>1, <2>2
<1>5. CASE a.count >= 0
  <2>1. Brought(a) = a.count
    BY <1>1, <1>5, BroughtFacts
  <2>2. PICK order : Brings(a, es, b, order, rows, wanted)
    <3>1. \E order : Brings(a, es, b, order, Rows(a), Wanted(a))
      BY <1>5, AnswerBrings
    <3>. QED
      BY <1>2, <3>1
  <2>3. ASSUME NEW i \in 1 .. a.count
        PROVE  order[i] \in Taken(a) /\ Spot(a, order[i]) = i
    <3>1. order[i] \in wanted /\ Cardinality(ReadBefore(order[i], rows, wanted)) = i - 1
      BY <2>2 DEF Brings
    <3>2. i - 1 < a.count /\ (i - 1) + 1 = i
      BY <1>1
    <3>. QED
      BY <1>2, <3>1, <3>2 DEF Taken, Spot
  <2>4. ASSUME NEW r \in Taken(a)
        PROVE  Spot(a, r) \in 1 .. a.count /\ order[Spot(a, r)] = r
    <3>1. PICK c \in 0 .. a.count - 1 : c = Cardinality(ReadBefore(r, rows, wanted))
      BY <1>3
    <3>2. r \in wanted /\ Cardinality(ReadBefore(r, rows, wanted)) < a.count
      BY <1>1, <1>3, <3>1
    <3>3. PICK i \in 1 .. a.count : order[i] = r
      BY <2>2, <3>2 DEF Brings
    <3>. QED
      BY <2>3, <3>3
  <2>5. ASSUME NEW r \in Taken(a)
        PROVE  IsEntryOf(es[b + Spot(a, r)], rows[r], a.type)
    <3>1. PICK i \in 1 .. a.count : i = Spot(a, r) /\ order[i] = r
      BY <2>4
    <3>2. IsEntryOf(es[b + i], rows[order[i]], a.type)
      BY <2>2 DEF Brings
    <3>. QED
      BY <3>1, <3>2
  <2>6. ASSUME NEW q \in Taken(a), NEW r \in Taken(a), Spot(a, q) < Spot(a, r)
        PROVE  q \in ReadBefore(r, rows, wanted)
    <3>1. PICK i \in 1 .. a.count, j \in 1 .. a.count : i < j /\ order[i] = q /\ order[j] = r
      BY <2>4, <2>6
    <3>2. order[i] \in ReadBefore(order[j], rows, wanted)
      BY <2>2, <3>1 DEF Brings
    <3>. QED
      BY <3>1, <3>2
  <2>7. \A i \in 1 .. a.count : \E r \in Taken(a) : Spot(a, r) = i
    BY <2>3
  <2>. QED
    BY <1>2, <2>1, <2>4, <2>5, <2>6, <2>7
<1>. QED
  BY <1>1, <1>4, <1>5

\* The entries are at the spots of the rows that were read, in the order of these.
InReadOrder(es) ==
    /\ \A k \in DOMAIN answers : \A n \in Taken(answers[k]) :
          SpotInAll(k, n) \in DOMAIN es /\ IsEntryOf(es[SpotInAll(k, n)], Rows(answers[k])[n], answers[k].type)
    /\ \A i \in DOMAIN es : \E k \in DOMAIN answers : \E n \in Taken(answers[k]) : i = SpotInAll(k, n)
    /\ \A k, l \in DOMAIN answers : \A n \in Taken(answers[k]), m \in Taken(answers[l]) :
          SpotInAll(k, n) < SpotInAll(l, m) => ReadEarlier(ReadRow(k, n), ReadRow(l, m))

LEMMA PartsInOrder ==
    ASSUME DiskTyped, Commanded, Placed, NEW es, Parts(answers, command.days_back, Strict, es)
    PROVE  InReadOrder(es)
<1>1. PICK past : past = answers
  OBVIOUS
<1>2. /\ IsSeq(past) /\ IsSeq(es) /\ Len(es) = Start(past, Len(past) + 1)
      /\ \A i \in DOMAIN past : past[i].count \in Int
  BY <1>1, CountsOfParts DEF Parts
<1>3. PICK N \in Nat : N = Len(past) /\ DOMAIN past = 1 .. N
  BY <1>2, SeqElements
<1>4. PICK M \in Nat : M = Len(es) /\ DOMAIN es = 1 .. M
  BY <1>2, SeqElements
<1>5. \A k \in 1 .. N + 1 :
        Start(past, k) \in Nat /\ \A j \in 1 .. N : j < k => Start(past, j) + Brought(past[j]) <= Start(past, k)
  BY <1>2, <1>3, StartsWithin
<1>6. M = Start(past, N + 1)
  BY <1>2, <1>3, <1>4
<1>7. \A k \in 1 .. N : Brought(past[k]) \in Nat
  BY <1>2, <1>3, BroughtFacts
<1>8. ASSUME NEW k \in 1 .. N
      PROVE  /\ \A r \in Taken(past[k]) :
                  /\ Spot(past[k], r) \in 1 .. Brought(past[k])
                  /\ IsEntryOf(es[Start(past, k) + Spot(past[k], r)], Rows(past[k])[r], past[k].type)
             /\ \A i \in 1 .. Brought(past[k]) : \E r \in Taken(past[k]) : Spot(past[k], r) = i
             /\ \A q, r \in Taken(past[k]) : Spot(past[k], q) < Spot(past[k], r) =>
                  q \in ReadBefore(r, Rows(past[k]), Wanted(past[k]))
  <2>1. PICK a, b : a = past[k] /\ b = Start(past, k)
    OBVIOUS
  <2>2. a.type \in DOMAIN disk /\ a.place \in PlacesOf(a.type)
    BY <1>1, <1>3, <2>1 DEF Placed
  <2>3. AnswerOf(a, command.days_back, Strict, es, b)
    BY <1>1, <1>3, <2>1 DEF Parts
  <2>4. /\ \A r \in Taken(a) : /\ Spot(a, r) \in 1 .. Brought(a)
                               /\ IsEntryOf(es[b + Spot(a, r)], Rows(a)[r], a.type)
        /\ \A i \in 1 .. Brought(a) : \E r \in Taken(a) : Spot(a, r) = i
        /\ \A q, r \in Taken(a) : Spot(a, q) < Spot(a, r) => q \in ReadBefore(r, Rows(a), Wanted(a))
    BY <2>2, <2>3, AnswerSpots
  <2>. QED
    BY <2>1, <2>4
<1>9. ASSUME NEW k \in 1 .. N, NEW n \in Taken(past[k])
       PROVE  \E b \in Nat, c \in Nat, s \in Nat :
                s \in 1 .. c /\ b = Start(past, k) /\ c = Brought(past[k]) /\ s = Spot(past[k], n)
  <2>1. PICK b : b = Start(past, k)
    OBVIOUS
  <2>2. PICK c : c = Brought(past[k])
    OBVIOUS
  <2>3. PICK s : s = Spot(past[k], n)
    OBVIOUS
  <2>4. k \in 1 .. N + 1 /\ b \in Nat
    BY <1>5, <2>1
  <2>5. c \in Nat
    BY <1>7, <2>2
  <2>6. s \in 1 .. c
    BY <1>8, <2>2, <2>3
  <2>7. s \in Nat
    BY <2>5, <2>6
  <2>. QED
    BY <2>1, <2>2, <2>3, <2>4, <2>5, <2>6, <2>7
<1>10. \A k \in 1 .. N : \A n \in Taken(past[k]) : SpotInAll(k, n) = Start(past, k) + Spot(past[k], n)
  BY <1>1 DEF SpotInAll
<1>11. ASSUME NEW k \in 1 .. N, NEW n \in Taken(past[k])
       PROVE  SpotInAll(k, n) \in DOMAIN es /\ IsEntryOf(es[SpotInAll(k, n)], Rows(past[k])[n], past[k].type)
  <2>1. PICK b \in Nat, c \in Nat, s \in Nat : s \in 1 .. c /\ b = Start(past, k) /\ c = Brought(past[k]) /\ s = Spot(past[k], n)
    BY <1>9
  <2>2. b + c <= M
    BY <1>5, <1>6, <2>1
  <2>3. b + s \in 1 .. M
    BY <2>1, <2>2
  <2>. QED
    BY <1>4, <1>8, <1>10, <2>1, <2>3
<1>12. ASSUME NEW i \in DOMAIN es
       PROVE  \E k \in 1 .. N : \E n \in Taken(past[k]) : i = SpotInAll(k, n)
  <2>1. PICK k \in 1 .. N : \E j \in 1 .. Brought(past[k]) : i = Start(past, k) + j
    BY <1>2, <1>3, <1>4, StartsCover
  <2>2. PICK j \in 1 .. Brought(past[k]) : i = Start(past, k) + j
    BY <2>1
  <2>3. PICK n \in Taken(past[k]) : Spot(past[k], n) = j
    BY <1>8, <2>2
  <2>. QED
    BY <1>10, <2>2, <2>3
<1>13. ASSUME NEW k \in 1 .. N, NEW l \in 1 .. N, NEW n \in Taken(past[k]), NEW m \in Taken(past[l]),
              SpotInAll(k, n) < SpotInAll(l, m)
       PROVE  ReadEarlier(ReadRow(k, n), ReadRow(l, m))
  <2>1. PICK q, r : q = ReadRow(k, n) /\ r = ReadRow(l, m)
    OBVIOUS
  <2>2. /\ q.row = Rows(past[k])[n] /\ q.at[1] = k /\ q.at[2] = n
        /\ r.row = Rows(past[l])[m] /\ r.at[1] = l /\ r.at[2] = m
    BY <1>1, <2>1 DEF ReadRow
  <2>3. PICK b \in Nat, c \in Nat, s \in Nat : s \in 1 .. c /\ b = Start(past, k) /\ c = Brought(past[k]) /\ s = Spot(past[k], n)
    BY <1>9
  <2>4. PICK d \in Nat, e \in Nat, t \in Nat : t \in 1 .. e /\ d = Start(past, l) /\ e = Brought(past[l]) /\ t = Spot(past[l], m)
    BY <1>9
  <2>5. b + s < d + t
    BY <1>10, <1>13, <2>3, <2>4
  <2>6. ~(l < k)
    <3>1. SUFFICES ASSUME l < k PROVE FALSE
      OBVIOUS
    <3>2. d + e <= b
      BY <1>5, <2>3, <2>4, <3>1
    <3>. QED
      BY <2>3, <2>4, <2>5, <3>2
  <2>7. CASE k < l
    BY <2>1, <2>2, <2>7 DEF ReadEarlier
  <2>8. CASE k = l
    <3>1. s < t
      BY <2>3, <2>4, <2>5, <2>8
    <3>2. n \in ReadBefore(m, Rows(past[k]), Wanted(past[k]))
      BY <1>8, <2>3, <2>4, <2>8, <3>1
    <3>3. \/ Latest(q.row) > Latest(r.row)
          \/ Latest(q.row) = Latest(r.row) /\ n < m
      BY <2>2, <2>8, <3>2 DEF ReadBefore
    <3>. QED
      BY <2>1, <2>2, <2>8, <3>3 DEF ReadEarlier
  <2>. QED
    BY <2>6, <2>7, <2>8
<1>. QED
  BY <1>1, <1>3, <1>11, <1>12, <1>13 DEF InReadOrder

\* The pages after a merge, each with the first of its entries.
LEMMA MergedPages ==
    ASSUME NEW es, IsEntries(es), NEW ds, ds = Deduplicated(es)
    PROVE  /\ \A n \in DOMAIN ds : \E i \in DOMAIN es : ds[n] = Merged(es, i)
           /\ \A i \in DOMAIN es : \E n \in DOMAIN ds : ds[n].url = es[i].url
           /\ \A m, n \in DOMAIN ds : m # n => ds[m].url # ds[n].url
           /\ \A m, n \in DOMAIN ds : m < n =>
                \E i \in DOMAIN es : /\ es[i].url = ds[m].url
                                     /\ \A j \in DOMAIN es : es[j].url = ds[n].url => i < j
<1>1. PICK N \in Nat : N = Len(es) /\ DOMAIN es = 1 .. N
  BY SizeOfEntries
<1>2. PICK S, order, R : S = FirstOfPage(es) /\ order = InOrder(S) /\ R = {w \in S \X S : w[1] < w[2]}
  OBVIOUS
<1>3. S \subseteq 1 .. N
  BY <1>1, <1>2 DEF FirstOfPage
<1>4. /\ Goes(order, S, R) /\ DOMAIN order = DOMAIN ds
      /\ \A n \in DOMAIN ds : order[n] \in S /\ ds[n] = Merged(es, order[n])
  BY <1>2, DeduplicatedFacts
<1>5. \A n \in DOMAIN ds : ds[n].url = es[order[n]].url
  <2>1. SUFFICES ASSUME NEW n \in DOMAIN ds PROVE ds[n].url = es[order[n]].url
    OBVIOUS
  <2>2. PICK i \in DOMAIN es : i = order[n] /\ ds[n] = Merged(es, i)
    BY <1>1, <1>3, <1>4
  <2>3. Merged(es, i).url = es[i].url
    BY MergedFacts
  <2>. QED
    BY <2>2, <2>3
<1>6. ASSUME NEW i \in DOMAIN es
      PROVE  \E n \in DOMAIN ds : ds[n].url = es[i].url
  <2>1. PICK A : A = {j \in 1 .. N : es[j].url = es[i].url}
    OBVIOUS
  <2>2. A \in SUBSET Nat /\ A # {}
    BY <1>1, <2>1
  <2>3. PICK m : m = Min(A) /\ m \in A /\ \A y \in A : m <= y
    BY <2>2, MinFacts
  <2>4. ASSUME NEW j \in 1 .. m - 1
        PROVE  es[j].url # es[m].url
    <3>1. m \in 1 .. N /\ j \in 1 .. N /\ ~(m <= j)
      BY <2>1, <2>3
    <3>2. j \notin A
      BY <2>3, <3>1
    <3>. QED
      BY <2>1, <2>3, <3>1, <3>2
  <2>5. m \in S
    BY <1>1, <1>2, <2>1, <2>3, <2>4 DEF FirstOfPage
  <2>6. PICK n \in DOMAIN ds : order[n] = m
    BY <1>4, <2>5 DEF Goes
  <2>. QED
    BY <1>5, <2>1, <2>3, <2>6
<1>7. ASSUME NEW i \in S, NEW j \in S, i < j
      PROVE  es[i].url # es[j].url
  <2>1. i \in 1 .. j - 1
    BY <1>3, <1>7
  <2>. QED
    BY <1>2, <2>1 DEF FirstOfPage
<1>8. ASSUME NEW m \in DOMAIN ds, NEW n \in DOMAIN ds, m # n
      PROVE  ds[m].url # ds[n].url
  <2>1. order[m] \in S /\ order[n] \in S /\ order[m] # order[n]
    <3>1. PICK K : DOMAIN order = 1 .. K /\ K = Cardinality(S)
      BY <1>4 DEF Goes
    <3>2. m \in Int /\ n \in Int
      BY <1>4, <3>1
    <3>3. m < n \/ n < m
      BY <1>8, <3>2
    <3>4. order[m] # order[n]
      BY <1>4, <3>3 DEF Goes
    <3>. QED
      BY <1>4, <3>4
  <2>2. PICK i \in S, j \in S : i = order[m] /\ j = order[n] /\ i # j
    BY <2>1
  <2>3. i < j \/ j < i
    BY <1>3, <2>2
  <2>4. es[i].url # es[j].url
    BY <1>7, <2>3
  <2>. QED
    BY <1>5, <2>2, <2>4
<1>9. \A n \in DOMAIN ds : \E i \in DOMAIN es : ds[n] = Merged(es, i)
  BY <1>1, <1>3, <1>4
<1>10. ASSUME NEW m \in DOMAIN ds, NEW n \in DOMAIN ds, m < n
       PROVE  \E i \in DOMAIN es : /\ es[i].url = ds[m].url
                                   /\ \A j \in DOMAIN es : es[j].url = ds[n].url => i < j
  <2>1. PICK i \in S, k \in S : i = order[m] /\ k = order[n]
    BY <1>4
  <2>2. i < k
    <3>1. <<order[m], order[n]>> \in R
      BY <1>4, <1>10 DEF Goes
    <3>. QED
      BY <1>2, <2>1, <3>1
  <2>3. i \in 1 .. N /\ k \in 1 .. N /\ es[i].url = ds[m].url /\ es[k].url = ds[n].url
    BY <1>3, <1>5, <2>1
  <2>4. ASSUME NEW j \in 1 .. N, es[j].url = ds[n].url
        PROVE  i < j
    <3>1. j \notin 1 .. k - 1
      BY <1>2, <2>1, <2>3, <2>4 DEF FirstOfPage
    <3>. QED
      BY <2>2, <2>3, <2>4, <3>1
  <2>. QED
    BY <1>1, <2>3, <2>4
<1>. QED
  BY <1>6, <1>8, <1>9, <1>10

\* The first entry of a page is of the first row of it that was read.
LEMMA OrderOfPages ==
    ASSUME NEW es, IsEntries(es), InReadOrder(es), NEW ds, ds = Deduplicated(es)
    PROVE  PagesInOrder(ds)
<1>1. SUFFICES ASSUME NEW m \in DOMAIN ds, NEW n \in DOMAIN ds, m < n
               PROVE  \E r \in {r \in ReadRows : r.row.url = ds[m].url} :
                        \A s \in {s \in ReadRows : s.row.url = ds[n].url} : ReadEarlier(r, s)
  BY DEF PagesInOrder
<1>2. PICK i \in DOMAIN es : /\ es[i].url = ds[m].url
                             /\ \A j \in DOMAIN es : es[j].url = ds[n].url => i < j
  BY <1>1, MergedPages
<1>3. PICK k \in DOMAIN answers : \E x \in Taken(answers[k]) : i = SpotInAll(k, x)
  BY DEF InReadOrder
<1>4. PICK x \in Taken(answers[k]) : i = SpotInAll(k, x)
  BY <1>3
<1>5. PICK r : r = ReadRow(k, x)
  OBVIOUS
<1>6. r \in ReadRows
  BY <1>5, ReadRowsTaken
<1>7. r.row = Rows(answers[k])[x] /\ r.row.url = ds[m].url
  <2>1. IsEntryOf(es[i], Rows(answers[k])[x], answers[k].type)
    BY <1>4 DEF InReadOrder
  <2>2. r.row = Rows(answers[k])[x]
    BY <1>5 DEF ReadRow
  <2>. QED
    BY <1>2, <2>1, <2>2 DEF IsEntryOf
<1>8. ASSUME NEW s \in ReadRows, s.row.url = ds[n].url
      PROVE  ReadEarlier(r, s)
  <2>1. PICK l \in DOMAIN answers : s \in {ReadRow(l, y) : y \in Taken(answers[l])}
    BY ReadRowsTaken
  <2>2. PICK y \in Taken(answers[l]) : s = ReadRow(l, y)
    BY <2>1
  <2>3. PICK j : j = SpotInAll(l, y)
    OBVIOUS
  <2>4. j \in DOMAIN es /\ IsEntryOf(es[j], Rows(answers[l])[y], answers[l].type)
    BY <2>3 DEF InReadOrder
  <2>5. s.row = Rows(answers[l])[y]
    BY <2>2 DEF ReadRow
  <2>6. es[j].url = ds[n].url
    BY <1>8, <2>4, <2>5 DEF IsEntryOf
  <2>7. SpotInAll(k, x) < SpotInAll(l, y)
    BY <1>2, <1>4, <2>3, <2>4, <2>6
  <2>8. ReadEarlier(ReadRow(k, x), ReadRow(l, y))
    BY <2>7 DEF InReadOrder
  <2>. QED
    BY <1>5, <2>2, <2>8
<1>. QED
  BY <1>6, <1>7, <1>8

\* The answers that a merge goes over came from databases.
Known == Merging => Placed

LEMMA QueriedPlaced ==
    ASSUME IsSeq(queue), IsSeq(answers), PlacesToRead(Queried, Asked)
    PROVE  Placed
<1>1. SUFFICES ASSUME NEW k \in DOMAIN answers
               PROVE  answers[k].type \in DOMAIN disk /\ answers[k].place \in PlacesOf(answers[k].type)
  BY DEF Placed
<1>2. PICK r, a : r = Queried /\ a = Answered(answers) /\ r = a \o queue
  BY DEF Queried, Answered, PlaceOf
<1>3. IsSeq(a) /\ Len(a) = Len(answers) /\ \A i \in 1 .. Len(answers) : a[i] = PlaceOf(answers[i])
  BY <1>2, AnsweredPlaces
<1>4. PICK m \in Nat, n \in Nat : Joined(r, a, queue, m, n)
  BY <1>2, <1>3, SeqJoined
<1>5. k \in 1 .. Len(answers) /\ m = Len(answers)
  BY <1>3, <1>4, SeqElements DEF Joined
<1>6. k \in DOMAIN r /\ r[k] = PlaceOf(answers[k])
  <2>1. k \in 1 .. m /\ k \in 1 .. m + n
    BY <1>5
  <2>. QED
    BY <1>3, <1>4, <1>5, <2>1 DEF Joined
<1>7. PICK w : w = r[k] /\ w[1] = answers[k].type /\ w[2] = answers[k].place
  BY <1>6 DEF PlaceOf
<1>8. w[1] \in DOMAIN disk /\ w[2] \in PlacesOf(w[1])
  BY <1>2, <1>6, <1>7 DEF PlacesToRead
<1>. QED
  BY <1>7, <1>8

LEMMA KnownInit == PipelineInit => Known
BY DEF PipelineInit, Init, Known, Merging

LEMMA KnownNext == Typed /\ Segmented /\ Known /\ [Next]_vars => Known'
<1>1. SUFFICES ASSUME Typed, Segmented, Known, [Next]_vars, Merging' PROVE Placed'
  BY DEF Known
<1>2. CASE Scan
  <2>1. answers' = <<>>
    BY <1>1, <1>2 DEF Scan, Typed
  <2>2. DOMAIN answers' = {}
    BY <2>1
  <2>. QED
    BY <2>2 DEF Placed
<1>3. CASE Deduplicate
  <2>1. IsSeq(queue) /\ IsSeq(answers) /\ PlacesToRead(Queried, Asked)
    BY <1>1, <1>3 DEF Deduplicate, Typed
  <2>2. Placed
    BY <2>1, QueriedPlaced
  <2>3. UNCHANGED <<answers, disk>>
    BY <1>3 DEF Deduplicate
  <2>. QED
    BY <2>2, <2>3 DEF Placed, PlacesOf
<1>4. CASE QueryFile
  BY <1>1, <1>4 DEF QueryFile, Merging
<1>5. CASE QueryProfile \/ LoseProfile
  BY <1>1, <1>5 DEF QueryProfile, LoseProfile, Merging
<1>6. CASE Import \/ Statistics \/ CategorizeEntries \/ Search
  BY <1>1, <1>6 DEF Import, Statistics, CategorizeEntries, Search, Merging
<1>7. CASE UNCHANGED vars
  <2>1. UNCHANGED <<disk, command, stage, answers>>
    BY <1>7 DEF vars, queryVars
  <2>. QED
    BY <1>1, <2>1 DEF Known, Merging, Placed, PlacesOf
<1>. QED
  BY <1>1, <1>2, <1>3, <1>4, <1>5, <1>6, <1>7 DEF Next, Query, QueryNext

\* Whatever the browsers of a computer hold, in whatever order their profiles were read
\* and however many of them failed or broke off, after a merge every page that was read
\* is in the result once, with the greatest of its counts, and with the latest of its
\* times wherever the browsers that know it share a clock; and a page is in front of
\* another if the first of its rows was read before all rows of the other
\* (browser_query_all, browser_deduplicate).
THEOREM AlwaysOneEntryPerPage == Spec => []OneEntryPerPage
<1>1. PipelineInit => Typed /\ Segmented /\ Known
  BY TypedInit, SegmentedInit, KnownInit
<1>2. (Typed /\ Segmented /\ Known) /\ [Next]_vars => (Typed /\ Segmented /\ Known)'
  BY TypedNext, SegmentedNext, KnownNext
<1>3. Typed /\ Segmented /\ Known => OneEntryPerPage
  <2>1. SUFFICES ASSUME Typed, Segmented, Known, Merging PROVE OneEntryPerPage
    BY DEF OneEntryPerPage
  <2>2. PICK es : /\ IsEntries(es) /\ Parts(answers, command.days_back, Strict, es)
                  /\ result = Deduplicated(es)
    BY <2>1 DEF Segmented
  <2>3. Covering(es)
    <3>1. DiskTyped /\ Commanded /\ Placed
      BY <2>1 DEF Typed, Segmented, Known
    <3>. QED
      BY <2>2, <3>1, PartsCover
  <2>4. PICK ds : ds = result /\ ds = Deduplicated(es)
    BY <2>2
  <2>5. /\ \A n \in DOMAIN ds : \E i \in DOMAIN es : ds[n] = Merged(es, i)
        /\ \A i \in DOMAIN es : \E n \in DOMAIN ds : ds[n].url = es[i].url
        /\ \A m, n \in DOMAIN ds : m # n => ds[m].url # ds[n].url
    BY <2>2, <2>4, MergedPages
  <2>6. {ds[i].url : i \in DOMAIN ds} = {r.row.url : r \in ReadRows}
    <3>1. ASSUME NEW n \in DOMAIN ds
          PROVE  \E r \in ReadRows : ds[n].url = r.row.url
      <4>1. PICK i \in DOMAIN es : ds[n] = Merged(es, i)
        BY <2>5
      <4>2. PICK e : e = ds[n] /\ e = Merged(es, i)
        BY <4>1
      <4>3. e.url = es[i].url
        BY <2>2, <4>2, MergedFacts
      <4>4. PICK r \in ReadRows : IsEntryOf(es[i], r.row, r.type)
        BY <2>3 DEF Covering
      <4>. QED
        BY <4>2, <4>3, <4>4 DEF IsEntryOf
    <3>2. ASSUME NEW r \in ReadRows
          PROVE  \E n \in DOMAIN ds : ds[n].url = r.row.url
      <4>1. PICK i \in DOMAIN es : IsEntryOf(es[i], r.row, r.type)
        BY <2>3 DEF Covering
      <4>2. PICK n \in DOMAIN ds : ds[n].url = es[i].url
        BY <2>5
      <4>. QED
        BY <4>1, <4>2 DEF IsEntryOf
    <3>. QED
      BY <3>1, <3>2
  <2>7. ASSUME NEW n \in DOMAIN ds
        PROVE  OfPage(ds[n], {r \in ReadRows : r.row.url = ds[n].url})
    <3>1. PICK i \in DOMAIN es : ds[n] = Merged(es, i)
      BY <2>5
    <3>2. PICK e : e = ds[n]
      OBVIOUS
    <3>3. PICK mine : mine = {r \in ReadRows : r.row.url = e.url}
      OBVIOUS
    <3>4. e = Merged(es, i)
      BY <3>1, <3>2
    <3>5. OfPage(e, mine)
      BY <2>2, <2>3, <3>3, <3>4, PageOf
    <3>. QED
      BY <3>2, <3>3, <3>5
  <2>8. PagesInOrder(ds)
    <3>1. DiskTyped /\ Commanded /\ Placed
      BY <2>1 DEF Typed, Segmented, Known
    <3>2. InReadOrder(es)
      BY <2>2, <3>1, PartsInOrder
    <3>. QED
      BY <2>2, <2>4, <3>2, OrderOfPages
  <2>9. OnePerPage(ds)
    BY <2>5, <2>6, <2>7, <2>8 DEF OnePerPage
  <2>10. OnePerPage(result)
    BY <2>4, <2>9
  <2>. QED
    BY <2>10 DEF OnePerPage, OfPage, PagesInOrder, OneEntryPerPage
<1>. QED
  BY <1>1, <1>2, <1>3, PTL DEF Spec

-----------------------------------------------------------------------------
(* Sequences one after another.                                            *)

\* The first n of the sequences p, one after another.
Flat(p, n) == FlattenSeq([i \in 1 .. n |-> p[i]])

LEMMA FlatEmpty == ASSUME NEW p PROVE Flat(p, 0) = <<>>
<1>1. PICK q : q = [i \in 1 .. 0 |-> p[i]]
  OBVIOUS
<1>2. q = <<>> /\ Len(q) = 0
  BY <1>1
<1>. QED
  BY <1>1, <1>2 DEF Flat, FlattenSeq

\* Partial results of what FlattenSeq computes.
Flattens(g, p, n) ==
    /\ g = [i \in 1 .. n |-> g[i]]
    /\ \A i \in 1 .. n : g[i] = IF i = 1 THEN p[i] ELSE g[i - 1] \o p[i]

LEMMA FlatSteps ==
    ASSUME NEW n \in Nat, NEW p, \A i \in 1 .. n : IsSeq(p[i])
    PROVE  \E g : Flattens(g, p, n) /\ \A i \in 1 .. n : IsSeq(g[i])
<1>1. PICK E : E = UNION {{p[i][k] : k \in 1 .. Len(p[i])} : i \in 1 .. n}
  OBVIOUS
<1>2. ASSUME NEW i \in 1 .. n
      PROVE  p[i] \in Seq(E)
  <2>1. PICK s : s = p[i] /\ IsSeq(s)
    OBVIOUS
  <2>2. DOMAIN s = 1 .. Len(s)
    BY <2>1, SeqElements
  <2>3. ASSUME NEW k \in DOMAIN s PROVE s[k] \in E
    <3>1. PICK S : S = {p[i][m] : m \in 1 .. Len(p[i])}
      OBVIOUS
    <3>2. s[k] \in S /\ S \subseteq E
      BY <1>1, <2>1, <2>2, <3>1
    <3>. QED
      BY <3>2
  <2>. QED
    BY <2>1, <2>3, SeqWithin
<1>3. PICK V : V = Seq(E) /\ <<>> \in V
  <2>1. <<>> \in Seq(E)
    BY EmptySeq
  <2>. QED
    BY <2>1
<1>4. PICK h : h = [i \in 1 .. n |-> [v \in V |-> v \o p[i]]]
  OBVIOUS
<1>5. \A i \in 1 .. n, v \in V : h[i][v] = v \o p[i] /\ h[i][v] \in V
  BY <1>2, <1>3, <1>4, ConcatProperties
<1>6. PICK f : Stages(f, <<>>, h, n, V)
  <2>1. Steps(h, n, V)
    BY <1>5 DEF Steps
  <2>. QED
    BY <1>3, <2>1, StagesExist
<1>7. PICK g : g = [i \in 1 .. n |-> f[i]]
  OBVIOUS
<1>8. g = [i \in 1 .. n |-> g[i]] /\ \A i \in 1 .. n : g[i] = f[i]
  BY <1>7
<1>9. \A i \in 0 .. n : f[i] \in V
  BY <1>6 DEF Stages
<1>10. ASSUME NEW i \in 1 .. n
       PROVE  g[i] = IF i = 1 THEN p[i] ELSE g[i - 1] \o p[i]
  <2>1. i - 1 \in 0 .. n /\ f[i - 1] \in V
    BY <1>9
  <2>2. f[i] = f[i - 1] \o p[i]
    BY <1>5, <1>6, <2>1 DEF Stages
  <2>3. CASE i = 1
    <3>1. f[i - 1] = <<>>
      BY <1>6, <2>3 DEF Stages
    <3>2. <<>> \o p[i] = p[i]
      BY <1>2, ConcatEmptySeq
    <3>. QED
      BY <1>8, <2>2, <2>3, <3>1, <3>2
  <2>4. CASE i # 1
    <3>1. i - 1 \in 1 .. n
      BY <2>4
    <3>. QED
      BY <1>8, <2>2, <2>4, <3>1
  <2>. QED
    BY <2>3, <2>4
<1>11. \A i \in 1 .. n : IsSeq(g[i])
  <2>1. \A i \in 1 .. n : g[i] \in Seq(E)
    BY <1>3, <1>8, <1>9
  <2>. QED
    BY <2>1, MemberIsSeq
<1>. QED
  BY <1>8, <1>10, <1>11 DEF Flattens

\* One sequence more.
LEMMA FlatNext ==
    ASSUME NEW n \in Nat, NEW p, \A i \in 1 .. n + 1 : IsSeq(p[i])
    PROVE  Flat(p, n + 1) = Flat(p, n) \o p[n + 1] /\ IsSeq(Flat(p, n))
<1>1. PICK g : Flattens(g, p, n + 1) /\ \A i \in 1 .. n + 1 : IsSeq(g[i])
  BY FlatSteps
<1>2. ASSUME NEW m \in 1 .. n + 1
      PROVE  Flat(p, m) = g[m]
  <2>1. PICK q : q = [i \in 1 .. m |-> p[i]] /\ Len(q) = m /\ m # 0
    <3>1. PICK q : q = [i \in 1 .. m |-> p[i]]
      OBVIOUS
    <3>2. q = [i \in 1 .. m |-> q[i]] /\ m \in Nat
      BY <3>1
    <3>. QED
      BY <3>1, <3>2, MappedIsSeq
  <2> DEFINE flatten == CHOOSE f : f = [i \in 1 .. Len(q) |-> IF i = 1 THEN q[i] ELSE f[i - 1] \o q[i]]
  <2>2. FlattenSeq(q) = flatten[Len(q)]
    BY <2>1 DEF FlattenSeq
  <2>3. PICK f : f = [i \in 1 .. m |-> g[i]]
    OBVIOUS
  <2>4. f = [i \in 1 .. Len(q) |-> IF i = 1 THEN q[i] ELSE f[i - 1] \o q[i]]
    <3>1. ASSUME NEW i \in 1 .. m
          PROVE  g[i] = IF i = 1 THEN q[i] ELSE f[i - 1] \o q[i]
      <4>1. i \in 1 .. n + 1 /\ q[i] = p[i] /\ (i # 1 => i - 1 \in 1 .. m)
        BY <2>1
      <4>2. g[i] = IF i = 1 THEN p[i] ELSE g[i - 1] \o p[i]
        BY <1>1, <4>1 DEF Flattens
      <4>3. i # 1 => f[i - 1] = g[i - 1]
        BY <2>3, <4>1
      <4>. QED
        BY <4>1, <4>2, <4>3
    <3>. QED
      BY <2>1, <2>3, <3>1
  <2>5. flatten = [i \in 1 .. Len(q) |-> IF i = 1 THEN q[i] ELSE flatten[i - 1] \o q[i]]
    BY <2>4
  <2> HIDE DEF flatten
  <2>6. \A i \in 1 .. m : flatten[i] = IF i = 1 THEN p[i] ELSE flatten[i - 1] \o p[i]
    BY <2>1, <2>5
  <2>7. PICK P : P = {i \in 0 .. m : i = 0 \/ flatten[i] = g[i]}
    OBVIOUS
  <2>8. \A i \in 0 .. m : i \in P
    <3>1. 0 \in P
      BY <2>7
    <3>2. ASSUME NEW k \in 0 .. m - 1, k \in P
          PROVE  k + 1 \in P
      <4>1. k + 1 \in 1 .. m /\ k + 1 \in 1 .. n + 1 /\ (k + 1) - 1 = k
        OBVIOUS
      <4>2. flatten[k + 1] = IF k + 1 = 1 THEN p[k + 1] ELSE flatten[k] \o p[k + 1]
        BY <2>6, <4>1
      <4>3. g[k + 1] = IF k + 1 = 1 THEN p[k + 1] ELSE g[k] \o p[k + 1]
        BY <1>1, <4>1 DEF Flattens
      <4>4. k = 0 \/ flatten[k] = g[k]
        BY <2>7, <3>2
      <4>5. flatten[k + 1] = g[k + 1]
        BY <4>2, <4>3, <4>4
      <4>. QED
        BY <2>7, <4>1, <4>5
    <3>3. m \in Nat
      OBVIOUS
    <3>. QED
      BY <3>1, <3>2, <3>3, CountUp
  <2>9. flatten[m] = g[m]
    BY <2>7, <2>8
  <2>. QED
    BY <2>1, <2>2, <2>9 DEF Flat
<1>3. n + 1 \in 1 .. n + 1 /\ (n + 1) - 1 = n
  OBVIOUS
<1>4. g[n + 1] = IF n + 1 = 1 THEN p[n + 1] ELSE g[n] \o p[n + 1]
  BY <1>1, <1>3 DEF Flattens
<1>5. CASE n = 0
  <2>1. Flat(p, n) = <<>> /\ IsSeq(<<>>)
    BY <1>5, FlatEmpty DEF IsSeq
  <2>2. <<>> \o p[n + 1] = p[n + 1]
    <3>1. PICK s : s = p[n + 1] /\ IsSeq(s)
      BY <1>3
    <3>2. PICK S : S = {s[k] : k \in 1 .. Len(s)}
      OBVIOUS
    <3>3. s \in Seq(S)
      BY <3>1, <3>2, SeqElements
    <3>4. <<>> \o s = s
      BY <3>3, ConcatEmptySeq
    <3>. QED
      BY <3>1, <3>4
  <2>3. Flat(p, n + 1) = g[n + 1]
    BY <1>2, <1>3
  <2>4. g[n + 1] = p[n + 1]
    BY <1>4, <1>5
  <2>. QED
    BY <2>1, <2>2, <2>3, <2>4
<1>6. CASE n # 0
  <2>1. n \in 1 .. n + 1 /\ n + 1 # 1
    BY <1>6
  <2>2. Flat(p, n) = g[n] /\ IsSeq(g[n])
    BY <1>1, <1>2, <2>1
  <2>3. Flat(p, n + 1) = g[n + 1]
    BY <1>2, <1>3
  <2>4. g[n + 1] = g[n] \o p[n + 1]
    BY <1>4, <2>1
  <2>. QED
    BY <2>2, <2>3, <2>4
<1>. QED
  BY <1>5, <1>6

\* All of them.
LEMMA FlatAll ==
    ASSUME NEW n \in Nat, NEW p, p = [i \in 1 .. n |-> p[i]]
    PROVE  FlattenSeq(p) = Flat(p, n)
BY DEF Flat

\* What is empty adds nothing.
LEMMA FlatOfNothing ==
    ASSUME NEW n \in Nat, NEW p, \A i \in 1 .. n : p[i] = <<>>
    PROVE  Flat(p, n) = <<>>
<1>1. PICK P : P = {m \in 0 .. n : Flat(p, m) = <<>>}
  OBVIOUS
<1>2. 0 \in P
  BY <1>1, FlatEmpty
<1>3. ASSUME NEW m \in 0 .. n - 1, m \in P
      PROVE  m + 1 \in P
  <2>1. m \in Nat /\ m + 1 \in 1 .. n /\ m + 1 \in 0 .. n
    OBVIOUS
  <2>2. \A i \in 1 .. m + 1 : IsSeq(p[i])
    <3>1. IsSeq(<<>>)
      BY DEF IsSeq
    <3>2. \A i \in 1 .. m + 1 : p[i] = <<>>
      OBVIOUS
    <3>. QED
      BY <3>1, <3>2
  <2>3. Flat(p, m + 1) = Flat(p, m) \o p[m + 1]
    BY <2>1, <2>2, FlatNext
  <2>4. <<>> \o <<>> = <<>>
    OBVIOUS
  <2>. QED
    BY <1>1, <1>3, <2>1, <2>3, <2>4
<1>4. \A m \in 0 .. n : m \in P
  BY <1>2, <1>3, CountUp
<1>5. n \in 0 .. n
  OBVIOUS
<1>. QED
  BY <1>1, <1>4, <1>5

\* With an empty sequence at either end nothing changes.
LEMMA JoinedWithNothing ==
    ASSUME NEW s, IsSeq(s)
    PROVE  s \o <<>> = s /\ <<>> \o s = s
<1>1. PICK S : S = {s[k] : k \in 1 .. Len(s)}
  OBVIOUS
<1>2. s \in Seq(S)
  BY <1>1, SeqElements
<1>. QED
  BY <1>2, ConcatEmptySeq

\* What there is room for of what there was room for and more is that of all together.
LEMMA RoomForMore ==
    ASSUME NEW s, IsSeq(s), NEW t, IsSeq(t), NEW k \in Nat
    PROVE  FirstOf(FirstOf(s, k) \o t, k) = FirstOf(s \o t, k)
<1>1. PICK a : a = FirstOf(s, k) /\ IsSeq(a) /\ Len(a) \in Nat /\ Len(s) \in Nat
  BY FirstOfSize
<1>2. Len(a) = (IF Len(s) > k THEN k ELSE Len(s)) /\ \A i \in 1 .. Len(a) : a[i] = s[i]
  BY <1>1, FirstOfSize
<1>3. CASE Len(s) <= k
  <2>1. a = s
    <3>1. Len(a) = Len(s)
      BY <1>1, <1>2, <1>3
    <3>. QED
      BY <1>1, <1>2, <3>1, SeqSame
  <2>. QED
    BY <1>1, <2>1
<1>4. CASE Len(s) > k
  <2>1. PICK b, c : b = a \o t /\ c = s \o t
    OBVIOUS
  <2>2. PICK m \in Nat, l \in Nat : Joined(b, a, t, m, l)
    BY <1>1, <2>1, SeqJoined
  <2>3. PICK n \in Nat, j \in Nat : Joined(c, s, t, n, j)
    BY <2>1, SeqJoined
  <2>4. m = k /\ n > k
    BY <1>1, <1>2, <1>4, <2>2, <2>3 DEF Joined
  <2>5. /\ IsSeq(b) /\ IsSeq(c) /\ Len(b) >= k /\ Len(c) > k
        /\ \A i \in 1 .. k : b[i] = a[i] /\ c[i] = s[i]
    BY <2>2, <2>3, <2>4 DEF Joined
  <2>6. PICK u, v : u = FirstOf(b, k) /\ v = FirstOf(c, k)
    OBVIOUS
  <2>7. IsSeq(u) /\ Len(u) = k /\ \A i \in 1 .. k : u[i] = b[i]
    BY <2>5, <2>6, FirstOfSize
  <2>8. IsSeq(v) /\ Len(v) = k /\ \A i \in 1 .. k : v[i] = c[i]
    BY <2>5, <2>6, FirstOfSize
  <2>9. \A i \in 1 .. k : u[i] = v[i]
    BY <1>2, <2>2, <2>4, <2>5, <2>7, <2>8 DEF Joined
  <2>10. u = v
    BY <2>7, <2>8, <2>9, SeqSame
  <2>. QED
    BY <1>1, <2>1, <2>6, <2>10
<1>. QED
  BY <1>1, <1>3, <1>4

LEMMA AllThereIsRoomFor ==
    ASSUME NEW s, IsSeq(s), NEW k \in Nat, Len(s) <= k
    PROVE  FirstOf(s, k) = s
<1>1. Len(FirstOf(s, k)) = Len(s)
  BY FirstOfSize
<1>. QED
  BY <1>1, FirstOfSize, SeqSame

\* The domains of rules.
LEMMA DomainsFacts ==
    ASSUME NEW s, IsSeq(s)
    PROVE  /\ IsSeq(DomainsOf(s)) /\ Len(DomainsOf(s)) = Len(s)
           /\ \A i \in 1 .. Len(s) : DomainsOf(s)[i] = s[i].domain
<1>1. PICK n \in Nat : n = Len(s) /\ DOMAIN s = 1 .. n
  BY SeqElements DEF IsSeq
<1>2. PICK d : d = [i \in 1 .. n |-> s[i].domain]
  OBVIOUS
<1>3. DomainsOf(s) = d
  BY <1>1, <1>2 DEF DomainsOf
<1>4. d = [i \in 1 .. n |-> d[i]] /\ \A i \in 1 .. n : d[i] = s[i].domain
  BY <1>2
<1>5. IsSeq(d) /\ Len(d) = n
  BY <1>4, MappedIsSeq
<1>. QED
  BY <1>1, <1>3, <1>4, <1>5

LEMMA DomainsJoined ==
    ASSUME NEW s, IsSeq(s), NEW t, IsSeq(t)
    PROVE  IsSeq(s \o t) /\ DomainsOf(s \o t) = DomainsOf(s) \o DomainsOf(t)
<1>1. PICK r : r = s \o t
  OBVIOUS
<1>2. PICK m \in Nat, n \in Nat : Joined(r, s, t, m, n)
  BY <1>1, SeqJoined
<1>3. PICK a, b, c, d : a = DomainsOf(s) /\ b = DomainsOf(t) /\ c = DomainsOf(r) /\ d = a \o b
  OBVIOUS
<1>4. IsSeq(a) /\ IsSeq(b) /\ IsSeq(c) /\ Len(a) = m /\ Len(b) = n /\ Len(c) = m + n
  BY <1>2, <1>3, DomainsFacts DEF Joined
<1>5. PICK k \in Nat, l \in Nat : Joined(d, a, b, k, l)
  BY <1>3, <1>4, SeqJoined
<1>6. k = m /\ l = n
  BY <1>4, <1>5 DEF Joined
<1>7. ASSUME NEW i \in 1 .. m + n
      PROVE  c[i] = d[i]
  <2>1. c[i] = r[i].domain
    BY <1>2, <1>3, DomainsFacts DEF Joined
  <2>2. CASE i <= m
    <3>1. i \in 1 .. m
      BY <2>2
    <3>2. r[i] = s[i] /\ d[i] = a[i]
      BY <1>2, <1>5, <1>6, <3>1 DEF Joined
    <3>3. a[i] = s[i].domain
      BY <1>2, <1>3, <3>1, DomainsFacts DEF Joined
    <3>. QED
      BY <2>1, <3>2, <3>3
  <2>3. CASE i > m
    <3>1. PICK j \in 1 .. n : i = m + j
      <4>1. i - m \in 1 .. n /\ i = m + (i - m)
        BY <2>3
      <4>. QED
        BY <4>1
    <3>2. r[i] = t[j] /\ d[i] = b[j]
      BY <1>2, <1>5, <1>6, <3>1 DEF Joined
    <3>3. b[j] = t[j].domain
      BY <1>2, <1>3, <3>1, DomainsFacts DEF Joined
    <3>. QED
      BY <2>1, <3>2, <3>3
  <2>. QED
    BY <2>2, <2>3
<1>8. IsSeq(d) /\ Len(d) = m + n
  BY <1>5, <1>6 DEF Joined
<1>9. c = d
  BY <1>4, <1>7, <1>8, SeqSame
<1>10. IsSeq(r)
  BY <1>2 DEF Joined
<1>. QED
  BY <1>1, <1>3, <1>9, <1>10

LEMMA DomainsOfFirst ==
    ASSUME NEW s, IsSeq(s), NEW k \in Nat
    PROVE  IsSeq(FirstOf(s, k)) /\ DomainsOf(FirstOf(s, k)) = FirstOf(DomainsOf(s), k)
<1>1. PICK a : a = FirstOf(s, k) /\ IsSeq(a)
  BY FirstOfSize
<1>2. PICK m \in Nat : m = Len(a) /\ m = (IF Len(s) > k THEN k ELSE Len(s)) /\ \A i \in 1 .. m : a[i] = s[i]
  BY <1>1, FirstOfSize
<1>3. PICK d, e, f : d = DomainsOf(s) /\ e = DomainsOf(a) /\ f = FirstOf(d, k)
  OBVIOUS
<1>4. IsSeq(d) /\ Len(d) = Len(s) /\ \A i \in 1 .. Len(s) : d[i] = s[i].domain
  BY <1>3, DomainsFacts
<1>5. IsSeq(e) /\ Len(e) = m /\ \A i \in 1 .. m : e[i] = a[i].domain
  BY <1>1, <1>2, <1>3, DomainsFacts
<1>6. IsSeq(f) /\ Len(f) = m /\ \A i \in 1 .. m : f[i] = d[i]
  BY <1>2, <1>3, <1>4, FirstOfSize
<1>7. \A i \in 1 .. m : i \in 1 .. Len(s)
  BY <1>2 DEF IsSeq
<1>8. \A i \in 1 .. m : e[i] = f[i]
  BY <1>2, <1>4, <1>5, <1>6, <1>7
<1>9. e = f
  BY <1>5, <1>6, <1>8, SeqSame
<1>. QED
  BY <1>1, <1>3, <1>9

-----------------------------------------------------------------------------
(* What the first n lines of a file of rules list.                         *)

\* The section after n lines has this name.
Under(e, n, name) ==
    LET heads == {j \in 1 .. n : e[j].kind = "section"}
    IN heads # {} /\ SameText(e[Max(heads)].name, name)

PieceAt(e, i, name, kinds) ==
    IF e[i].kind \in kinds /\ Under(e, i - 1, name)
    THEN IF e[i].kind = "path" THEN <<e[i].name>> ELSE NotEmpty(e[i].list)
    ELSE <<>>

Pieces(e, name, kinds) == [i \in DOMAIN e |-> PieceAt(e, i, name, kinds)]

ListedTo(e, n, name, kinds) == Flat(Pieces(e, name, kinds), n)

LEMMA PiecesAreSeqs ==
    ASSUME NEW e, IsRuleFile(e), NEW name, NEW kinds, NEW i \in DOMAIN e
    PROVE  Pieces(e, name, kinds)[i] = PieceAt(e, i, name, kinds) /\ IsSeq(PieceAt(e, i, name, kinds))
<1>1. IsSeq(<<>>)
  BY DEF IsSeq
<1>2. PICK line : line = e[i] /\ IsSeq(line.list)
  BY DEF IsRuleFile
<1>3. IsSeq(NotEmpty(line.list))
  BY <1>2, NotEmptyIsSeq
<1>4. PICK w : w = line.name
  OBVIOUS
<1>5. IsSeq(<<w>>)
  <2>1. <<w>> \in Seq({w})
    OBVIOUS
  <2>. QED
    BY <2>1, MemberIsSeq
<1>. QED
  BY <1>1, <1>2, <1>3, <1>4, <1>5 DEF Pieces, PieceAt

LEMMA ListedNext ==
    ASSUME NEW e, IsRuleFile(e), NEW name, NEW kinds, NEW n \in Nat, n + 1 \in DOMAIN e
    PROVE  /\ IsSeq(ListedTo(e, n, name, kinds)) /\ IsSeq(PieceAt(e, n + 1, name, kinds))
           /\ ListedTo(e, n + 1, name, kinds) = ListedTo(e, n, name, kinds) \o PieceAt(e, n + 1, name, kinds)
<1>1. PICK p : p = Pieces(e, name, kinds)
  OBVIOUS
<1>2. DOMAIN e = 1 .. Len(e) /\ Len(e) \in Nat
  BY SeqElements DEF IsRuleFile, IsSeq
<1>3. \A i \in 1 .. n + 1 : i \in DOMAIN e
  BY <1>2
<1>4. \A i \in 1 .. n + 1 : IsSeq(p[i])
  BY <1>1, <1>3, PiecesAreSeqs
<1>5. Flat(p, n + 1) = Flat(p, n) \o p[n + 1] /\ IsSeq(Flat(p, n))
  BY <1>4, FlatNext
<1>6. p[n + 1] = PieceAt(e, n + 1, name, kinds) /\ IsSeq(PieceAt(e, n + 1, name, kinds))
  BY <1>1, PiecesAreSeqs
<1>. QED
  BY <1>1, <1>5, <1>6 DEF ListedTo

\* A line that lists nothing of these kinds for the category.
LEMMA NothingListed ==
    ASSUME NEW e, IsRuleFile(e), NEW name, NEW kinds, NEW n \in Nat, n + 1 \in DOMAIN e,
           e[n + 1].kind \notin kinds \/ ~Under(e, n, name)
    PROVE  ListedTo(e, n + 1, name, kinds) = ListedTo(e, n, name, kinds)
<1>1. (n + 1) - 1 = n
  OBVIOUS
<1>2. PieceAt(e, n + 1, name, kinds) = <<>>
  BY <1>1 DEF PieceAt
<1>3. PICK s : s = ListedTo(e, n, name, kinds) /\ IsSeq(s)
  BY ListedNext
<1>4. s \o <<>> = s
  BY <1>3, JoinedWithNothing
<1>. QED
  BY <1>2, <1>3, <1>4, ListedNext

LEMMA DomainsListed ==
    ASSUME NEW list, IsSeq(list)
    PROVE  DomainsOf(DomainRules(list)) = NotEmpty(list)
<1>1. PICK g, r : g = NotEmpty(list) /\ r = DomainRules(list) /\ IsSeq(g)
  BY NotEmptyIsSeq
<1>2. PICK n \in Nat : n = Len(g) /\ DOMAIN g = 1 .. n
  BY <1>1, SeqElements DEF IsSeq
<1>3. r = [i \in 1 .. n |-> [type |-> "domain", domain |-> g[i], pattern |-> <<>>]]
  BY <1>1, <1>2 DEF DomainRules
<1>4. DomainsOf(r) = [i \in 1 .. n |-> r[i].domain]
  BY <1>3 DEF DomainsOf
<1>5. \A i \in 1 .. n : r[i].domain = g[i]
  BY <1>3
<1>6. DomainsOf(r) = [i \in 1 .. n |-> g[i]]
  BY <1>4, <1>5
<1>7. g = [i \in 1 .. n |-> g[i]]
  BY <1>1, <1>2 DEF IsSeq
<1>. QED
  BY <1>1, <1>6, <1>7

LEMMA JoinedTwice ==
    ASSUME NEW s, IsSeq(s), NEW t, IsSeq(t), NEW u, IsSeq(u)
    PROVE  (s \o t) \o u = s \o (t \o u)
<1>1. PICK S, T, U : /\ S = {s[k] : k \in 1 .. Len(s)} /\ T = {t[k] : k \in 1 .. Len(t)}
                     /\ U = {u[k] : k \in 1 .. Len(u)}
  OBVIOUS
<1>2. s \in Seq(S) /\ t \in Seq(T) /\ u \in Seq(U)
  BY <1>1, SeqElements
<1>3. PICK V : V = S \cup T \cup U
  OBVIOUS
<1>4. s \in Seq(V) /\ t \in Seq(V) /\ u \in Seq(V)
  BY <1>2, <1>3
<1>. QED
  BY <1>4, ConcatAssociative

LEMMA StartsAreSeqs ==
    ASSUME NEW name
    PROVE  IsSeq(StartDomains(name)) /\ IsSeq(StartKeywords(name))
<1>1. IsSeq(<<>>)
  BY DEF IsSeq
<1>2. CASE FromStart(name) = {}
  BY <1>1, <1>2 DEF StartDomains, StartKeywords
<1>3. CASE FromStart(name) # {}
  <2>1. IsSeq(Builtin) /\ \A c \in DOMAIN Builtin : IsCategory(Builtin[c])
    BY BuiltinAssumption DEF IsList, IsSeq
  <2>2. DOMAIN Builtin = 1 .. Len(Builtin)
    BY <2>1, SeqElements
  <2>3. FromStart(name) \in SUBSET Nat
    BY <2>2 DEF FromStart
  <2>4. PICK c : c = Min(FromStart(name)) /\ c \in FromStart(name)
    BY <1>3, <2>3, MinFacts
  <2>5. c \in DOMAIN Builtin
    BY <2>4 DEF FromStart
  <2>6. IsSeq(Builtin[c].rules) /\ IsSeq(Builtin[c].keywords)
    BY <2>1, <2>5 DEF IsCategory, IsList, IsSeq
  <2>7. IsSeq(DomainsOf(Builtin[c].rules))
    BY <2>6, DomainsFacts
  <2>. QED
    BY <1>3, <2>4, <2>6, <2>7 DEF StartDomains, StartKeywords
<1>. QED
  BY <1>2, <1>3

\* Rules and keywords are what the first n lines list for a category of this name.
DomainsAsListed(name, rules, e, n) ==
    /\ IsSeq(rules)
    /\ DomainsOf(rules) = FirstOf(StartDomains(name) \o ListedTo(e, n, name, {"domains", "path"}), MaxRules)

KeywordsAsListed(name, keywords, e, n) ==
    /\ IsSeq(keywords)
    /\ keywords = FirstOf(StartKeywords(name) \o ListedTo(e, n, name, {"keywords"}), MaxKeywords)

\* What a line adds.
LEMMA DomainsAdded ==
    ASSUME NEW e, IsRuleFile(e), NEW name, NEW n \in Nat, n + 1 \in DOMAIN e,
           NEW rules, DomainsAsListed(name, rules, e, n),
           NEW more, IsSeq(more), DomainsOf(more) = PieceAt(e, n + 1, name, {"domains", "path"})
    PROVE  DomainsAsListed(name, Extended(rules, more, MaxRules), e, n + 1)
<1>1. PICK a, l, p, kinds : /\ kinds = {"domains", "path"} /\ a = StartDomains(name)
                            /\ l = ListedTo(e, n, name, kinds) /\ p = PieceAt(e, n + 1, name, kinds)
  OBVIOUS
<1>2. IsSeq(a) /\ IsSeq(l) /\ IsSeq(p) /\ ListedTo(e, n + 1, name, kinds) = l \o p
  BY <1>1, StartsAreSeqs, ListedNext
<1>3. MaxRules \in Nat
  BY CategorizeAssumption
<1>4. PICK k \in Nat : k = MaxRules
  BY <1>3
<1>5. IsSeq(rules) /\ DomainsOf(rules) = FirstOf(a \o l, k)
  BY <1>1, <1>4 DEF DomainsAsListed
<1>6. PICK all : all = rules \o more /\ IsSeq(all) /\ DomainsOf(all) = DomainsOf(rules) \o p
  <2>1. IsSeq(rules \o more) /\ DomainsOf(rules \o more) = DomainsOf(rules) \o DomainsOf(more)
    BY <1>5, DomainsJoined
  <2>2. DomainsOf(more) = p
    BY <1>1
  <2>. QED
    BY <2>1, <2>2
<1>7. Extended(rules, more, k) = FirstOf(all, k)
  BY <1>6 DEF Extended, FirstOf
<1>8. IsSeq(FirstOf(all, k)) /\ DomainsOf(FirstOf(all, k)) = FirstOf(DomainsOf(all), k)
  BY <1>6, DomainsOfFirst
<1>9. FirstOf(FirstOf(a \o l, k) \o p, k) = FirstOf((a \o l) \o p, k)
  <2>1. IsSeq(a \o l)
    BY <1>2, SeqConcat
  <2>. QED
    BY <1>2, <2>1, RoomForMore
<1>10. (a \o l) \o p = a \o (l \o p)
  BY <1>2, JoinedTwice
<1>11. DomainsOf(FirstOf(all, k)) = FirstOf(a \o (l \o p), k)
  BY <1>5, <1>6, <1>8, <1>9, <1>10
<1>. QED
  BY <1>1, <1>2, <1>4, <1>7, <1>8, <1>11 DEF DomainsAsListed

LEMMA KeywordsAdded ==
    ASSUME NEW e, IsRuleFile(e), NEW name, NEW n \in Nat, n + 1 \in DOMAIN e,
           NEW keywords, KeywordsAsListed(name, keywords, e, n),
           NEW more, more = PieceAt(e, n + 1, name, {"keywords"})
    PROVE  KeywordsAsListed(name, Extended(keywords, more, MaxKeywords), e, n + 1)
<1>1. PICK a, l, kinds : /\ kinds = {"keywords"} /\ a = StartKeywords(name)
                         /\ l = ListedTo(e, n, name, kinds) /\ more = PieceAt(e, n + 1, name, kinds)
  OBVIOUS
<1>2. IsSeq(a) /\ IsSeq(l) /\ IsSeq(more) /\ ListedTo(e, n + 1, name, kinds) = l \o more
  BY <1>1, StartsAreSeqs, ListedNext
<1>3. PICK k \in Nat : k = MaxKeywords
  BY CategorizeAssumption
<1>4. IsSeq(keywords) /\ keywords = FirstOf(a \o l, k)
  BY <1>1, <1>3 DEF KeywordsAsListed
<1>5. Extended(keywords, more, k) = FirstOf(keywords \o more, k)
  BY DEF Extended, FirstOf
<1>6. IsSeq(FirstOf(keywords \o more, k))
  BY <1>2, <1>4, SeqConcat, FirstOfSize
<1>7. FirstOf(FirstOf(a \o l, k) \o more, k) = FirstOf((a \o l) \o more, k)
  <2>1. IsSeq(a \o l)
    BY <1>2, SeqConcat
  <2>. QED
    BY <1>2, <2>1, RoomForMore
<1>8. (a \o l) \o more = a \o (l \o more)
  BY <1>2, JoinedTwice
<1>. QED
  BY <1>1, <1>2, <1>3, <1>4, <1>5, <1>6, <1>7, <1>8 DEF KeywordsAsListed

LEMMA DomainsKept ==
    ASSUME NEW e, IsRuleFile(e), NEW name, NEW n \in Nat, n + 1 \in DOMAIN e,
           NEW rules, DomainsAsListed(name, rules, e, n),
           e[n + 1].kind \notin {"domains", "path"} \/ ~Under(e, n, name)
    PROVE  DomainsAsListed(name, rules, e, n + 1)
<1>1. ListedTo(e, n + 1, name, {"domains", "path"}) = ListedTo(e, n, name, {"domains", "path"})
  BY NothingListed
<1>. QED
  BY <1>1 DEF DomainsAsListed

LEMMA KeywordsKept ==
    ASSUME NEW e, IsRuleFile(e), NEW name, NEW n \in Nat, n + 1 \in DOMAIN e,
           NEW keywords, KeywordsAsListed(name, keywords, e, n),
           e[n + 1].kind \notin {"keywords"} \/ ~Under(e, n, name)
    PROVE  KeywordsAsListed(name, keywords, e, n + 1)
<1>1. ListedTo(e, n + 1, name, {"keywords"}) = ListedTo(e, n, name, {"keywords"})
  BY NothingListed
<1>. QED
  BY <1>1 DEF KeywordsAsListed

LEMMA SameTextFacts ==
    ASSUME NEW a, NEW b, NEW c
    PROVE  /\ SameText(a, a) /\ (SameText(a, b) => SameText(b, a))
           /\ (SameText(a, b) /\ SameText(b, c) => SameText(a, c))
BY DEF SameText

\* A line that opens a section, and one that does not.
LEMMA SectionOpened ==
    ASSUME NEW e, NEW n \in Nat, e[n + 1].kind = "section", NEW name
    PROVE  Under(e, n + 1, name) <=> SameText(e[n + 1].name, name)
<1>1. PICK heads : heads = {j \in 1 .. n + 1 : e[j].kind = "section"}
  OBVIOUS
<1>2. heads \in SUBSET (1 .. n + 1) /\ n + 1 \in heads /\ n + 1 \in Nat
  BY <1>1
<1>3. Max(heads) \in heads /\ \A j \in heads : j <= Max(heads)
  <2>1. PICK m \in Nat : m = n + 1
    OBVIOUS
  <2>2. heads \in SUBSET (0 .. m) /\ heads # {}
    BY <1>2, <2>1
  <2>. QED
    BY <2>2, MaxFacts
<1>4. Max(heads) = n + 1
  <2>1. PICK m \in 1 .. n + 1 : m = Max(heads) /\ m >= n + 1
    BY <1>2, <1>3
  <2>. QED
    BY <2>1
<1>. QED
  BY <1>1, <1>2, <1>4 DEF Under

LEMMA SectionGoesOn ==
    ASSUME NEW e, NEW n \in Nat, e[n + 1].kind # "section", NEW name
    PROVE  Under(e, n + 1, name) <=> Under(e, n, name)
<1>1. {j \in 1 .. n + 1 : e[j].kind = "section"} = {j \in 1 .. n : e[j].kind = "section"}
  <2>1. ASSUME NEW j
        PROVE  (j \in 1 .. n + 1 /\ e[j].kind = "section") <=> (j \in 1 .. n /\ e[j].kind = "section")
    <3>1. j \in 1 .. n + 1 <=> j \in 1 .. n \/ j = n + 1
      OBVIOUS
    <3>. QED
      BY <3>1
  <2>. QED
    BY <2>1
<1>. QED
  BY <1>1 DEF Under

\* The names of a section are the same text.
LEMMA OneSection ==
    ASSUME NEW e, NEW n, NEW a, NEW b, Under(e, n, a), Under(e, n, b)
    PROVE  SameText(a, b)
<1>1. PICK t : SameText(t, a) /\ SameText(t, b)
  BY DEF Under
<1>. QED
  BY <1>1, SameTextFacts

\* Categories that hold what the first n lines list, and the one of the section.
AsListed(cs, e, n) ==
    \A c \in DOMAIN cs : /\ DomainsAsListed(cs[c].name, cs[c].rules, e, n)
                         /\ KeywordsAsListed(cs[c].name, cs[c].keywords, e, n)

NamedOnce(cs) == \A c, d \in DOMAIN cs : SameText(cs[d].name, cs[c].name) => d = c

AllNamed(cs, e, n) ==
    /\ \A b \in DOMAIN Builtin : \E c \in DOMAIN cs : cs[c].name = Builtin[b].name
    /\ Len(cs) < MaxCategories =>
         \A j \in 1 .. n : e[j].kind = "section" => \E c \in DOMAIN cs : SameText(cs[c].name, e[j].name)

InPlace(cs, k, e, n) ==
    IF k = 0 THEN \A c \in DOMAIN cs : ~Under(e, n, cs[c].name)
    ELSE k \in DOMAIN cs /\ Under(e, n, cs[k].name)

Loaded(x, e, n) ==
    /\ AsListed(x.categories, e, n) /\ NamedOnce(x.categories) /\ AllNamed(x.categories, e, n)
    /\ InPlace(x.categories, x.current, e, n)

\* The names stay with a line that opens no section.
LEMMA NamesStay ==
    ASSUME NEW e, NEW n \in Nat, e[n + 1].kind # "section",
           NEW cs, NEW ds, NEW k, DOMAIN ds = DOMAIN cs, Len(ds) = Len(cs),
           \A c \in DOMAIN cs : ds[c].name = cs[c].name,
           NamedOnce(cs), AllNamed(cs, e, n), InPlace(cs, k, e, n)
    PROVE  NamedOnce(ds) /\ AllNamed(ds, e, n + 1) /\ InPlace(ds, k, e, n + 1)
<1>1. NamedOnce(ds)
  BY DEF NamedOnce
<1>2. AllNamed(ds, e, n + 1)
  <2>1. \A b \in DOMAIN Builtin : \E c \in DOMAIN ds : ds[c].name = Builtin[b].name
    BY DEF AllNamed
  <2>2. ASSUME Len(ds) < MaxCategories, NEW j \in 1 .. n + 1, e[j].kind = "section"
        PROVE  \E c \in DOMAIN ds : SameText(ds[c].name, e[j].name)
    <3>1. j \in 1 .. n
      BY <2>2
    <3>2. PICK c \in DOMAIN cs : SameText(cs[c].name, e[j].name)
      BY <2>2, <3>1 DEF AllNamed
    <3>. QED
      BY <3>2
  <2>. QED
    BY <2>1, <2>2 DEF AllNamed
<1>3. InPlace(ds, k, e, n + 1)
  <2>1. \A name : Under(e, n + 1, name) <=> Under(e, n, name)
    BY SectionGoesOn
  <2>. QED
    BY <2>1 DEF InPlace
<1>. QED
  BY <1>1, <1>2, <1>3

\* A section that opens leaves what is listed and goes on with the category of its name.
LEMMA SectionFound ==
    ASSUME NEW e, IsRuleFile(e), NEW n \in Nat, n + 1 \in DOMAIN e, e[n + 1].kind = "section",
           NEW cs, NEW k \in DOMAIN cs, k # 0, SameText(cs[k].name, e[n + 1].name),
           AsListed(cs, e, n), NamedOnce(cs), AllNamed(cs, e, n)
    PROVE  AsListed(cs, e, n + 1) /\ AllNamed(cs, e, n + 1) /\ InPlace(cs, k, e, n + 1)
<1>1. AsListed(cs, e, n + 1)
  <2>1. SUFFICES ASSUME NEW c \in DOMAIN cs
                 PROVE  /\ DomainsAsListed(cs[c].name, cs[c].rules, e, n + 1)
                        /\ KeywordsAsListed(cs[c].name, cs[c].keywords, e, n + 1)
    BY DEF AsListed
  <2>2. PICK name, rules, keywords : name = cs[c].name /\ rules = cs[c].rules /\ keywords = cs[c].keywords
    OBVIOUS
  <2>3. DomainsAsListed(name, rules, e, n) /\ KeywordsAsListed(name, keywords, e, n)
    BY <2>2 DEF AsListed
  <2>4. e[n + 1].kind \notin {"domains", "path"} /\ e[n + 1].kind \notin {"keywords"}
    OBVIOUS
  <2>. QED
    BY <2>2, <2>3, <2>4, DomainsKept, KeywordsKept
<1>2. AllNamed(cs, e, n + 1)
  <2>1. \A b \in DOMAIN Builtin : \E c \in DOMAIN cs : cs[c].name = Builtin[b].name
    BY DEF AllNamed
  <2>2. ASSUME Len(cs) < MaxCategories, NEW j \in 1 .. n + 1, e[j].kind = "section"
        PROVE  \E c \in DOMAIN cs : SameText(cs[c].name, e[j].name)
    <3>1. CASE j = n + 1
      BY <3>1
    <3>2. CASE j \in 1 .. n
      BY <2>2, <3>2 DEF AllNamed
    <3>. QED
      BY <3>1, <3>2
  <2>. QED
    BY <2>1, <2>2 DEF AllNamed
<1>3. InPlace(cs, k, e, n + 1)
  <2>1. Under(e, n + 1, cs[k].name)
    BY SectionOpened, SameTextFacts
  <2>. QED
    BY <2>1 DEF InPlace
<1>. QED
  BY <1>1, <1>2, <1>3

\* A section that there is no room for.
LEMMA SectionSkipped ==
    ASSUME NEW e, IsRuleFile(e), NEW n \in Nat, n + 1 \in DOMAIN e, e[n + 1].kind = "section",
           NEW cs, ~(Len(cs) < MaxCategories), \A c \in DOMAIN cs : ~SameText(cs[c].name, e[n + 1].name),
           AsListed(cs, e, n), AllNamed(cs, e, n)
    PROVE  AsListed(cs, e, n + 1) /\ AllNamed(cs, e, n + 1) /\ InPlace(cs, 0, e, n + 1)
<1>1. AsListed(cs, e, n + 1)
  <2>1. SUFFICES ASSUME NEW c \in DOMAIN cs
                 PROVE  /\ DomainsAsListed(cs[c].name, cs[c].rules, e, n + 1)
                        /\ KeywordsAsListed(cs[c].name, cs[c].keywords, e, n + 1)
    BY DEF AsListed
  <2>2. PICK name, rules, keywords : name = cs[c].name /\ rules = cs[c].rules /\ keywords = cs[c].keywords
    OBVIOUS
  <2>3. DomainsAsListed(name, rules, e, n) /\ KeywordsAsListed(name, keywords, e, n)
    BY <2>2 DEF AsListed
  <2>4. e[n + 1].kind \notin {"domains", "path"} /\ e[n + 1].kind \notin {"keywords"}
    OBVIOUS
  <2>. QED
    BY <2>2, <2>3, <2>4, DomainsKept, KeywordsKept
<1>2. AllNamed(cs, e, n + 1)
  BY DEF AllNamed
<1>3. InPlace(cs, 0, e, n + 1)
  <2>1. \A c \in DOMAIN cs : ~Under(e, n + 1, cs[c].name)
    BY SectionOpened, SameTextFacts
  <2>. QED
    BY <2>1 DEF InPlace
<1>. QED
  BY <1>1, <1>2, <1>3

\* Nothing was listed for a category that a section opens.
LEMMA NewIsEmpty ==
    ASSUME NEW e, IsRuleFile(e), NEW n \in Nat, n + 1 \in DOMAIN e, e[n + 1].kind = "section",
           NEW cs, Len(cs) < MaxCategories, \A c \in DOMAIN cs : ~SameText(cs[c].name, e[n + 1].name),
           AllNamed(cs, e, n)
    PROVE  DomainsAsListed(e[n + 1].name, <<>>, e, n + 1) /\ KeywordsAsListed(e[n + 1].name, <<>>, e, n + 1)
<1>1. PICK name : name = e[n + 1].name
  OBVIOUS
<1>2. FromStart(name) = {}
  <2>1. ASSUME NEW b \in DOMAIN Builtin
        PROVE  ~SameText(Builtin[b].name, name)
    <3>1. PICK c \in DOMAIN cs : cs[c].name = Builtin[b].name
      BY DEF AllNamed
    <3>. QED
      BY <1>1, <3>1
  <2>. QED
    BY <2>1 DEF FromStart
<1>3. DOMAIN e = 1 .. Len(e) /\ Len(e) \in Nat
  BY SeqElements DEF IsRuleFile, IsSeq
<1>4. ASSUME NEW i \in 1 .. n + 1
      PROVE  ~Under(e, i - 1, name)
  <2>1. SUFFICES ASSUME Under(e, i - 1, name) PROVE FALSE
    OBVIOUS
  <2>2. PICK m \in Nat : m = i - 1 /\ m <= n
    OBVIOUS
  <2>3. PICK heads : heads = {j \in 1 .. m : e[j].kind = "section"}
    OBVIOUS
  <2>4. heads # {} /\ SameText(e[Max(heads)].name, name)
    BY <2>1, <2>2, <2>3 DEF Under
  <2>5. Max(heads) \in heads
    <3>1. heads \in SUBSET (0 .. m)
      BY <2>3
    <3>. QED
      BY <2>4, <3>1, MaxFacts
  <2>6. PICK j \in 1 .. n : e[j].kind = "section" /\ SameText(e[j].name, name)
    BY <2>2, <2>3, <2>4, <2>5
  <2>7. PICK c \in DOMAIN cs : SameText(cs[c].name, e[j].name)
    BY <2>6 DEF AllNamed
  <2>8. SameText(cs[c].name, name)
    BY <2>6, <2>7, SameTextFacts
  <2>. QED
    BY <1>1, <2>8
<1>5. ASSUME NEW kinds
      PROVE  ListedTo(e, n + 1, name, kinds) = <<>>
  <2>1. PICK p : p = Pieces(e, name, kinds)
    OBVIOUS
  <2>2. \A i \in 1 .. n + 1 : p[i] = <<>>
    <3>1. \A i \in 1 .. n + 1 : i \in DOMAIN e
      BY <1>3
    <3>2. \A i \in 1 .. n + 1 : PieceAt(e, i, name, kinds) = <<>>
      BY <1>4 DEF PieceAt
    <3>. QED
      BY <2>1, <3>1, <3>2 DEF Pieces
  <2>3. PICK m \in Nat : m = n + 1
    OBVIOUS
  <2>4. Flat(p, m) = <<>>
    BY <2>2, <2>3, FlatOfNothing
  <2>. QED
    BY <2>1, <2>3, <2>4 DEF ListedTo
<1>6. IsSeq(<<>>) /\ <<>> \o <<>> = <<>> /\ Len(<<>>) = 0 /\ MaxRules \in Nat /\ MaxKeywords \in Nat
  BY CategorizeAssumption DEF IsSeq
<1>7. FirstOf(<<>>, MaxRules) = <<>> /\ FirstOf(<<>>, MaxKeywords) = <<>>
  BY <1>6, AllThereIsRoomFor
<1>8. DomainsOf(<<>>) = <<>>
  BY DEF DomainsOf
<1>9. StartDomains(name) = <<>> /\ StartKeywords(name) = <<>>
  BY <1>2 DEF StartDomains, StartKeywords
<1>10. DomainsAsListed(name, <<>>, e, n + 1)
  BY <1>5, <1>6, <1>7, <1>8, <1>9 DEF DomainsAsListed
<1>11. KeywordsAsListed(name, <<>>, e, n + 1)
  BY <1>5, <1>6, <1>7, <1>9 DEF KeywordsAsListed
<1>. QED
  BY <1>1, <1>10, <1>11

\* A section that adds a category.
LEMMA SectionAdded ==
    ASSUME NEW e, IsRuleFile(e), NEW n \in Nat, n + 1 \in DOMAIN e, e[n + 1].kind = "section",
           NEW cs, IsSeq(cs), Len(cs) < MaxCategories, \A c \in DOMAIN cs : ~SameText(cs[c].name, e[n + 1].name),
           AsListed(cs, e, n), NamedOnce(cs), AllNamed(cs, e, n),
           NEW ds, ds = Append(cs, [name |-> e[n + 1].name, rules |-> <<>>, keywords |-> <<>>])
    PROVE  /\ AsListed(ds, e, n + 1) /\ NamedOnce(ds) /\ AllNamed(ds, e, n + 1)
           /\ InPlace(ds, Len(cs) + 1, e, n + 1)
<1>1. PICK new : new = [name |-> e[n + 1].name, rules |-> <<>>, keywords |-> <<>>] /\ ds = Append(cs, new)
  OBVIOUS
<1>2. PICK m \in Nat : m = Len(cs)
  BY DEF IsSeq
<1>3. /\ DOMAIN cs = 1 .. m /\ DOMAIN ds = 1 .. m + 1 /\ Len(ds) = m + 1
      /\ ds[m + 1] = new /\ \A c \in 1 .. m : ds[c] = cs[c]
  BY <1>1, <1>2, SeqAppend
<1>4. new.name = e[n + 1].name /\ new.rules = <<>> /\ new.keywords = <<>>
  BY <1>1
<1>5. ASSUME NEW c \in DOMAIN ds, c # m + 1
      PROVE  c \in DOMAIN cs /\ ds[c] = cs[c]
  <2>1. c \in 1 .. m
    BY <1>3, <1>5
  <2>. QED
    BY <1>3, <2>1
<1>6. AsListed(ds, e, n + 1)
  <2>1. SUFFICES ASSUME NEW c \in DOMAIN ds
                 PROVE  /\ DomainsAsListed(ds[c].name, ds[c].rules, e, n + 1)
                        /\ KeywordsAsListed(ds[c].name, ds[c].keywords, e, n + 1)
    BY DEF AsListed
  <2>2. CASE c = m + 1
    <3>1. DomainsAsListed(e[n + 1].name, <<>>, e, n + 1) /\ KeywordsAsListed(e[n + 1].name, <<>>, e, n + 1)
      BY NewIsEmpty
    <3>. QED
      BY <1>3, <1>4, <2>2, <3>1
  <2>3. CASE c # m + 1
    <3>1. PICK name, rules, keywords : name = cs[c].name /\ rules = cs[c].rules /\ keywords = cs[c].keywords
      OBVIOUS
    <3>2. DomainsAsListed(name, rules, e, n) /\ KeywordsAsListed(name, keywords, e, n)
      BY <1>5, <2>3, <3>1 DEF AsListed
    <3>3. e[n + 1].kind \notin {"domains", "path"} /\ e[n + 1].kind \notin {"keywords"}
      OBVIOUS
    <3>4. DomainsAsListed(name, rules, e, n + 1) /\ KeywordsAsListed(name, keywords, e, n + 1)
      BY <3>2, <3>3, DomainsKept, KeywordsKept
    <3>. QED
      BY <1>5, <2>3, <3>1, <3>4
  <2>. QED
    BY <2>2, <2>3
<1>7. NamedOnce(ds)
  <2>1. SUFFICES ASSUME NEW c \in DOMAIN ds, NEW d \in DOMAIN ds, SameText(ds[d].name, ds[c].name)
                 PROVE  d = c
    BY DEF NamedOnce
  <2>2. CASE c = m + 1 /\ d # m + 1
    BY <1>3, <1>4, <1>5, <2>1, <2>2
  <2>3. CASE c # m + 1 /\ d = m + 1
    <3>1. SameText(cs[c].name, e[n + 1].name)
      BY <1>3, <1>4, <1>5, <2>1, <2>3, SameTextFacts
    <3>. QED
      BY <1>5, <2>3, <3>1
  <2>4. CASE c # m + 1 /\ d # m + 1
    BY <1>5, <2>1, <2>4 DEF NamedOnce
  <2>. QED
    BY <2>2, <2>3, <2>4
<1>8. AllNamed(ds, e, n + 1)
  <2>1. \A c \in DOMAIN cs : c \in DOMAIN ds /\ ds[c] = cs[c]
    BY <1>3
  <2>2. \A b \in DOMAIN Builtin : \E c \in DOMAIN ds : ds[c].name = Builtin[b].name
    <3>1. SUFFICES ASSUME NEW b \in DOMAIN Builtin
                   PROVE  \E c \in DOMAIN ds : ds[c].name = Builtin[b].name
      OBVIOUS
    <3>2. PICK c \in DOMAIN cs : cs[c].name = Builtin[b].name
      BY DEF AllNamed
    <3>. QED
      BY <2>1, <3>2
  <2>3. ASSUME NEW j \in 1 .. n + 1, e[j].kind = "section"
        PROVE  \E c \in DOMAIN ds : SameText(ds[c].name, e[j].name)
    <3>1. CASE j = n + 1
      BY <1>3, <1>4, <3>1, SameTextFacts
    <3>2. CASE j \in 1 .. n
      <4>1. PICK c \in DOMAIN cs : SameText(cs[c].name, e[j].name)
        BY <2>3, <3>2 DEF AllNamed
      <4>. QED
        BY <2>1, <4>1
    <3>. QED
      BY <3>1, <3>2
  <2>. QED
    BY <2>2, <2>3 DEF AllNamed
<1>9. InPlace(ds, m + 1, e, n + 1)
  <2>1. Under(e, n + 1, ds[m + 1].name)
    BY <1>3, <1>4, SectionOpened, SameTextFacts
  <2>2. m + 1 # 0 /\ m + 1 \in DOMAIN ds
    BY <1>3
  <2>. QED
    BY <2>1, <2>2 DEF InPlace
<1>. QED
  BY <1>2, <1>6, <1>7, <1>8, <1>9

LEMMA SectionLoads ==
    ASSUME NEW e, IsRuleFile(e), NEW n \in Nat, n + 1 \in DOMAIN e, e[n + 1].kind = "section",
           NEW C, NEW x \in WellPlaced(C), Loaded(x, e, n)
    PROVE  Loaded(Section(x, e[n + 1].name), e, n + 1)
<1>1. PICK cs, k : x = [categories |-> cs, current |-> k] /\ x.categories = cs /\ x.current = k /\ cs \in Seq(C)
  BY DEF WellPlaced, Engines, Upto
<1>2. IsSeq(cs) /\ DOMAIN cs = 1 .. Len(cs)
  BY <1>1, MemberIsSeq
<1>3. PICK m \in Nat : m = Len(cs)
  BY <1>2 DEF IsSeq
<1>4. AsListed(cs, e, n) /\ NamedOnce(cs) /\ AllNamed(cs, e, n)
  BY <1>1 DEF Loaded
<1>5. PICK name, same : name = e[n + 1].name /\ same = {c \in DOMAIN cs : SameText(cs[c].name, name)}
  OBVIOUS
<1>6. CASE same # {}
  <2>1. same \in SUBSET Nat
    BY <1>2, <1>5
  <2>2. PICK c : c = Min(same) /\ c \in same
    BY <1>6, <2>1, MinFacts
  <2>3. Section(x, name) = [categories |-> cs, current |-> c]
    BY <1>1, <1>5, <1>6, <2>2 DEF Section
  <2>4. c \in DOMAIN cs /\ c # 0 /\ SameText(cs[c].name, e[n + 1].name)
    BY <1>2, <1>5, <2>2
  <2>5. AsListed(cs, e, n + 1) /\ AllNamed(cs, e, n + 1) /\ InPlace(cs, c, e, n + 1)
    BY <1>4, <2>4, SectionFound
  <2>. QED
    BY <1>4, <1>5, <2>3, <2>5 DEF Loaded
<1>7. CASE same = {} /\ m < MaxCategories
  <2>1. PICK ds : ds = Append(cs, [name |-> name, rules |-> <<>>, keywords |-> <<>>])
    OBVIOUS
  <2>2. Section(x, name) = [categories |-> ds, current |-> m + 1]
    BY <1>1, <1>3, <1>5, <1>7, <2>1 DEF Section
  <2>3. \A c \in DOMAIN cs : ~SameText(cs[c].name, e[n + 1].name)
    BY <1>5, <1>7
  <2>4. /\ AsListed(ds, e, n + 1) /\ NamedOnce(ds) /\ AllNamed(ds, e, n + 1)
        /\ InPlace(ds, m + 1, e, n + 1)
    BY <1>2, <1>3, <1>4, <1>5, <1>7, <2>1, <2>3, SectionAdded
  <2>. QED
    BY <1>5, <2>2, <2>4 DEF Loaded
<1>8. CASE same = {} /\ ~(m < MaxCategories)
  <2>1. Section(x, name) = [categories |-> cs, current |-> 0]
    BY <1>1, <1>3, <1>5, <1>8 DEF Section
  <2>2. \A c \in DOMAIN cs : ~SameText(cs[c].name, e[n + 1].name)
    BY <1>5, <1>8
  <2>3. AsListed(cs, e, n + 1) /\ AllNamed(cs, e, n + 1) /\ InPlace(cs, 0, e, n + 1)
    BY <1>3, <1>4, <1>8, <2>2, SectionSkipped
  <2>. QED
    BY <1>4, <1>5, <2>1, <2>3 DEF Loaded
<1>. QED
  BY <1>6, <1>7, <1>8

\* A line that lists nothing for a category, because of its kind or its section.
LEMMA CategoryKept ==
    ASSUME NEW e, IsRuleFile(e), NEW n \in Nat, n + 1 \in DOMAIN e,
           NEW cs, NEW c \in DOMAIN cs, AsListed(cs, e, n),
           e[n + 1].kind \notin {"domains", "path", "keywords"} \/ ~Under(e, n, cs[c].name)
    PROVE  /\ DomainsAsListed(cs[c].name, cs[c].rules, e, n + 1)
           /\ KeywordsAsListed(cs[c].name, cs[c].keywords, e, n + 1)
<1>1. PICK name, rules, keywords : name = cs[c].name /\ rules = cs[c].rules /\ keywords = cs[c].keywords
  OBVIOUS
<1>2. DomainsAsListed(name, rules, e, n) /\ KeywordsAsListed(name, keywords, e, n)
  BY <1>1 DEF AsListed
<1>3. e[n + 1].kind \notin {"domains", "path"} \/ ~Under(e, n, name)
  BY <1>1
<1>4. e[n + 1].kind \notin {"keywords"} \/ ~Under(e, n, name)
  BY <1>1
<1>5. DomainsAsListed(name, rules, e, n + 1)
  BY <1>2, <1>3, DomainsKept
<1>6. KeywordsAsListed(name, keywords, e, n + 1)
  BY <1>2, <1>4, KeywordsKept
<1>. QED
  BY <1>1, <1>5, <1>6

\* A line changes the category of its section only.
LEMMA CategoryChanged ==
    ASSUME NEW e, IsRuleFile(e), NEW n \in Nat, n + 1 \in DOMAIN e, e[n + 1].kind # "section",
           NEW cs, IsSeq(cs), AsListed(cs, e, n), NamedOnce(cs), AllNamed(cs, e, n),
           NEW k, k # 0, InPlace(cs, k, e, n),
           NEW d, d.name = cs[k].name, DomainsAsListed(d.name, d.rules, e, n + 1),
           KeywordsAsListed(d.name, d.keywords, e, n + 1),
           NEW ds, ds = [cs EXCEPT ![k] = d]
    PROVE  /\ AsListed(ds, e, n + 1) /\ NamedOnce(ds) /\ AllNamed(ds, e, n + 1)
           /\ InPlace(ds, k, e, n + 1)
<1>1. k \in DOMAIN cs /\ Under(e, n, cs[k].name)
  BY DEF InPlace
<1>2. PICK m \in Nat : m = Len(cs) /\ DOMAIN cs = 1 .. m
  BY SeqElements DEF IsSeq
<1>3. DOMAIN ds = DOMAIN cs /\ ds[k] = d /\ \A c \in DOMAIN cs : c # k => ds[c] = cs[c]
  BY <1>1
<1>4. Len(ds) = Len(cs)
  <2>1. ds = [c \in 1 .. m |-> ds[c]]
    BY <1>2
  <2>. QED
    BY <1>2, <2>1, MappedIsSeq
<1>5. AsListed(ds, e, n + 1)
  <2>1. SUFFICES ASSUME NEW c \in DOMAIN cs
                 PROVE  /\ DomainsAsListed(ds[c].name, ds[c].rules, e, n + 1)
                        /\ KeywordsAsListed(ds[c].name, ds[c].keywords, e, n + 1)
    BY <1>3 DEF AsListed
  <2>2. CASE c = k
    BY <1>3, <2>2
  <2>3. CASE c # k
    <3>1. ~Under(e, n, cs[c].name)
      <4>1. SUFFICES ASSUME Under(e, n, cs[c].name) PROVE FALSE
        OBVIOUS
      <4>2. SameText(cs[c].name, cs[k].name)
        BY <1>1, <4>1, OneSection
      <4>. QED
        BY <1>1, <2>3, <4>2 DEF NamedOnce
    <3>2. /\ DomainsAsListed(cs[c].name, cs[c].rules, e, n + 1)
          /\ KeywordsAsListed(cs[c].name, cs[c].keywords, e, n + 1)
      BY <3>1, CategoryKept
    <3>. QED
      BY <1>3, <2>3, <3>2
  <2>. QED
    BY <2>2, <2>3
<1>6. \A c \in DOMAIN cs : ds[c].name = cs[c].name
  <2>1. SUFFICES ASSUME NEW c \in DOMAIN cs PROVE ds[c].name = cs[c].name
    OBVIOUS
  <2>2. c = k \/ ds[c] = cs[c]
    BY <1>3
  <2>. QED
    BY <1>3, <2>2
<1>7. NamedOnce(ds) /\ AllNamed(ds, e, n + 1) /\ InPlace(ds, k, e, n + 1)
  BY <1>3, <1>4, <1>6, NamesStay
<1>. QED
  BY <1>5, <1>7

\* A line that changes nothing.
LEMMA NothingChanged ==
    ASSUME NEW e, IsRuleFile(e), NEW n \in Nat, n + 1 \in DOMAIN e, e[n + 1].kind # "section",
           NEW cs, AsListed(cs, e, n), NamedOnce(cs), AllNamed(cs, e, n), NEW k, InPlace(cs, k, e, n),
           e[n + 1].kind \notin {"domains", "path", "keywords"} \/ k = 0
    PROVE  /\ AsListed(cs, e, n + 1) /\ NamedOnce(cs) /\ AllNamed(cs, e, n + 1)
           /\ InPlace(cs, k, e, n + 1)
<1>1. AsListed(cs, e, n + 1)
  <2>1. SUFFICES ASSUME NEW c \in DOMAIN cs
                 PROVE  /\ DomainsAsListed(cs[c].name, cs[c].rules, e, n + 1)
                        /\ KeywordsAsListed(cs[c].name, cs[c].keywords, e, n + 1)
    BY DEF AsListed
  <2>2. e[n + 1].kind \notin {"domains", "path", "keywords"} \/ ~Under(e, n, cs[c].name)
    BY DEF InPlace
  <2>. QED
    BY <2>2, CategoryKept
<1>2. NamedOnce(cs) /\ AllNamed(cs, e, n + 1) /\ InPlace(cs, k, e, n + 1)
  BY NamesStay
<1>. QED
  BY <1>1, <1>2

\* What a line adds to the category of its section.
LEMMA RulesChanged ==
    ASSUME NEW e, IsRuleFile(e), NEW n \in Nat, n + 1 \in DOMAIN e, e[n + 1].kind \in {"domains", "path"},
           NEW cs, IsSeq(cs), AsListed(cs, e, n), NamedOnce(cs), AllNamed(cs, e, n),
           NEW k, k # 0, InPlace(cs, k, e, n),
           NEW more, IsSeq(more), DomainsOf(more) = PieceAt(e, n + 1, cs[k].name, {"domains", "path"}),
           NEW d, d.name = cs[k].name, d.rules = Extended(cs[k].rules, more, MaxRules),
           d.keywords = cs[k].keywords,
           NEW ds, ds = [cs EXCEPT ![k] = d]
    PROVE  /\ AsListed(ds, e, n + 1) /\ NamedOnce(ds) /\ AllNamed(ds, e, n + 1)
           /\ InPlace(ds, k, e, n + 1)
<1>1. k \in DOMAIN cs
  BY DEF InPlace
<1>2. PICK name, rules, keywords : name = cs[k].name /\ rules = cs[k].rules /\ keywords = cs[k].keywords
  OBVIOUS
<1>3. DomainsAsListed(name, rules, e, n) /\ KeywordsAsListed(name, keywords, e, n)
  BY <1>1, <1>2 DEF AsListed
<1>4. DomainsAsListed(name, Extended(rules, more, MaxRules), e, n + 1)
  BY <1>2, <1>3, DomainsAdded
<1>5. e[n + 1].kind \notin {"keywords"} /\ e[n + 1].kind # "section"
  OBVIOUS
<1>6. KeywordsAsListed(name, keywords, e, n + 1)
  BY <1>3, <1>5, KeywordsKept
<1>7. DomainsAsListed(d.name, d.rules, e, n + 1) /\ KeywordsAsListed(d.name, d.keywords, e, n + 1)
  BY <1>2, <1>4, <1>6
<1>. QED
  BY <1>5, <1>7, CategoryChanged

LEMMA KeywordsChanged ==
    ASSUME NEW e, IsRuleFile(e), NEW n \in Nat, n + 1 \in DOMAIN e, e[n + 1].kind = "keywords",
           NEW cs, IsSeq(cs), AsListed(cs, e, n), NamedOnce(cs), AllNamed(cs, e, n),
           NEW k, k # 0, InPlace(cs, k, e, n),
           NEW more, more = PieceAt(e, n + 1, cs[k].name, {"keywords"}),
           NEW d, d.name = cs[k].name, d.rules = cs[k].rules,
           d.keywords = Extended(cs[k].keywords, more, MaxKeywords),
           NEW ds, ds = [cs EXCEPT ![k] = d]
    PROVE  /\ AsListed(ds, e, n + 1) /\ NamedOnce(ds) /\ AllNamed(ds, e, n + 1)
           /\ InPlace(ds, k, e, n + 1)
<1>1. k \in DOMAIN cs
  BY DEF InPlace
<1>2. PICK name, rules, keywords : name = cs[k].name /\ rules = cs[k].rules /\ keywords = cs[k].keywords
  OBVIOUS
<1>3. DomainsAsListed(name, rules, e, n) /\ KeywordsAsListed(name, keywords, e, n)
  BY <1>1, <1>2 DEF AsListed
<1>4. KeywordsAsListed(name, Extended(keywords, more, MaxKeywords), e, n + 1)
  BY <1>2, <1>3, KeywordsAdded
<1>5. e[n + 1].kind \notin {"domains", "path"} /\ e[n + 1].kind # "section"
  OBVIOUS
<1>6. DomainsAsListed(name, rules, e, n + 1)
  BY <1>3, <1>5, DomainsKept
<1>7. DomainsAsListed(d.name, d.rules, e, n + 1) /\ KeywordsAsListed(d.name, d.keywords, e, n + 1)
  BY <1>2, <1>4, <1>6
<1>. QED
  BY <1>5, <1>7, CategoryChanged

\* The piece of a line in its section.
LEMMA PieceOf ==
    ASSUME NEW e, IsRuleFile(e), NEW n \in Nat, n + 1 \in DOMAIN e,
           NEW cs, NEW k, k # 0, InPlace(cs, k, e, n), NEW line, line = e[n + 1], NEW name, name = cs[k].name
    PROVE  /\ line.kind = "domains" =>
                /\ IsSeq(DomainRules(line.list))
                /\ DomainsOf(DomainRules(line.list)) = PieceAt(e, n + 1, name, {"domains", "path"})
           /\ line.kind = "keywords" => NotEmpty(line.list) = PieceAt(e, n + 1, name, {"keywords"})
           /\ line.kind = "path" => <<line.name>> = PieceAt(e, n + 1, name, {"domains", "path"})
<1>1. Under(e, (n + 1) - 1, name)
  <2>1. Under(e, n, name)
    BY DEF InPlace
  <2>2. (n + 1) - 1 = n
    OBVIOUS
  <2>. QED
    BY <2>1, <2>2
<1>2. IsSeq(line.list)
  BY DEF IsRuleFile
<1>3. IsSeq(DomainRules(line.list)) /\ DomainsOf(DomainRules(line.list)) = NotEmpty(line.list)
  BY <1>2, NotEmptyIsSeq, DomainsListed
<1>. QED
  BY <1>1, <1>3 DEF PieceAt

LEMMA PathRule ==
    ASSUME NEW rule, NEW domain, domain = rule.domain
    PROVE  IsSeq(<<rule>>) /\ DomainsOf(<<rule>>) = <<domain>>
<1>1. <<rule>> \in Seq({rule}) /\ Len(<<rule>>) = 1 /\ <<rule>>[1] = rule
  OBVIOUS
<1>2. IsSeq(<<rule>>)
  BY <1>1, MemberIsSeq
<1>3. PICK d : d = DomainsOf(<<rule>>) /\ IsSeq(d) /\ Len(d) = 1 /\ d[1] = domain
  BY <1>1, <1>2, DomainsFacts
<1>4. PICK t : t = <<domain>> /\ IsSeq(t) /\ Len(t) = 1 /\ t[1] = domain
  <2>1. <<domain>> \in Seq({domain}) /\ Len(<<domain>>) = 1 /\ <<domain>>[1] = domain
    OBVIOUS
  <2>. QED
    BY <2>1, MemberIsSeq
<1>5. \A i \in 1 .. 1 : d[i] = t[i]
  BY <1>3, <1>4
<1>6. d = t
  BY <1>3, <1>4, <1>5, SeqSame
<1>. QED
  BY <1>2, <1>3, <1>4, <1>6

\* One line more.
LEMMA LineLoads ==
    ASSUME NEW e, IsRuleFile(e), NEW n \in Nat, n + 1 \in DOMAIN e,
           NEW Names, NEW Rules, NEW Keywords, NEW C, C = CategoriesOf(Names, Rules, Keywords),
           NEW x \in WellPlaced(C), Loaded(x, e, n)
    PROVE  Loaded(LoadLine(x, e[n + 1]), e, n + 1)
<1>1. PICK cs, k : x = [categories |-> cs, current |-> k] /\ x.categories = cs /\ x.current = k /\ cs \in Seq(C)
  BY DEF WellPlaced, Engines, Upto
<1>2. IsSeq(cs)
  BY <1>1, MemberIsSeq
<1>3. AsListed(cs, e, n) /\ NamedOnce(cs) /\ AllNamed(cs, e, n) /\ InPlace(cs, k, e, n)
  BY <1>1 DEF Loaded
<1>4. PICK line : line = e[n + 1]
  OBVIOUS
<1>5. PICK y : y = LoadLine(x, line)
  OBVIOUS
<1>6. CASE line.kind = "section"
  <2>1. y = Section(x, line.name)
    BY <1>5, <1>6 DEF LoadLine
  <2>2. Loaded(Section(x, e[n + 1].name), e, n + 1)
    BY <1>4, <1>6, SectionLoads
  <2>. QED
    BY <1>4, <1>5, <2>1, <2>2
<1>7. CASE line.kind # "section" /\ (k = 0 \/ line.kind \notin {"domains", "path", "keywords"})
  <2>1. y = x
    BY <1>1, <1>5, <1>7 DEF LoadLine
  <2>2. /\ AsListed(cs, e, n + 1) /\ NamedOnce(cs) /\ AllNamed(cs, e, n + 1)
        /\ InPlace(cs, k, e, n + 1)
    BY <1>3, <1>4, <1>7, NothingChanged
  <2>3. Loaded(x, e, n + 1)
    BY <1>1, <2>2 DEF Loaded
  <2>. QED
    BY <1>4, <1>5, <2>1, <2>3
<1>8. CASE k # 0 /\ line.kind \in {"domains", "path", "keywords"}
  <2>1. PICK cat : cat = cs[k] /\ cat = [name |-> cat.name, rules |-> cat.rules, keywords |-> cat.keywords]
    <3>1. k \in DOMAIN cs
      BY <1>3, <1>8 DEF InPlace
    <3>2. PICK cat \in C : cat = cs[k]
      BY <1>1, <3>1
    <3>3. cat = [name |-> cat.name, rules |-> cat.rules, keywords |-> cat.keywords]
      BY <3>2 DEF CategoriesOf
    <3>. QED
      BY <3>2, <3>3
  <2>2. ASSUME NEW d, NEW ds, ds = [cs EXCEPT ![k] = d], y = [categories |-> ds, current |-> k],
               /\ AsListed(ds, e, n + 1) /\ NamedOnce(ds) /\ AllNamed(ds, e, n + 1)
               /\ InPlace(ds, k, e, n + 1)
        PROVE  Loaded(y, e, n + 1)
    BY <2>2 DEF Loaded
  <2>3. ASSUME NEW more, IsSeq(more), line.kind # "keywords",
               DomainsOf(more) = PieceAt(e, n + 1, cat.name, {"domains", "path"}),
               y = [x EXCEPT !.categories[k].rules = Extended(@, more, MaxRules)]
        PROVE  Loaded(y, e, n + 1)
    <3>1. PICK d : d = [cat EXCEPT !.rules = Extended(@, more, MaxRules)]
      OBVIOUS
    <3>2. PICK ds : ds = [cs EXCEPT ![k] = d]
      OBVIOUS
    <3>3. y = [categories |-> ds, current |-> k]
      BY <1>1, <2>1, <2>3, <3>1, <3>2
    <3>4. d.name = cs[k].name /\ d.rules = Extended(cs[k].rules, more, MaxRules) /\ d.keywords = cs[k].keywords
      BY <2>1, <3>1
    <3>5. e[n + 1].kind \in {"domains", "path"} /\ DomainsOf(more) = PieceAt(e, n + 1, cs[k].name, {"domains", "path"})
      BY <1>4, <1>8, <2>1, <2>3
    <3>6. /\ AsListed(ds, e, n + 1) /\ NamedOnce(ds) /\ AllNamed(ds, e, n + 1)
          /\ InPlace(ds, k, e, n + 1)
      BY <1>2, <1>3, <1>8, <2>3, <3>2, <3>4, <3>5, RulesChanged
    <3>. QED
      BY <2>2, <3>2, <3>3, <3>6
  <2>4. CASE line.kind = "domains"
    <3>1. PICK more : more = DomainRules(line.list) /\ IsSeq(more)
                      /\ DomainsOf(more) = PieceAt(e, n + 1, cat.name, {"domains", "path"})
      BY <1>3, <1>4, <1>8, <2>1, <2>4, PieceOf
    <3>2. y = [x EXCEPT !.categories[k].rules = Extended(@, more, MaxRules)]
      BY <1>1, <1>5, <1>8, <2>4, <3>1 DEF LoadLine
    <3>. QED
      BY <1>4, <1>5, <2>3, <2>4, <3>1, <3>2
  <2>5. CASE line.kind = "path"
    <3>1. PICK rule : rule = [type |-> "path", domain |-> line.name, pattern |-> line.list[1]]
      OBVIOUS
    <3>2. PICK more : more = <<rule>> /\ IsSeq(more) /\ DomainsOf(more) = <<line.name>>
      <4>1. PICK domain : domain = line.name /\ domain = rule.domain
        BY <3>1
      <4>2. IsSeq(<<rule>>) /\ DomainsOf(<<rule>>) = <<domain>>
        BY <4>1, PathRule
      <4>3. PICK more : more = <<rule>>
        OBVIOUS
      <4>4. IsSeq(more) /\ DomainsOf(more) = <<domain>>
        BY <4>2, <4>3
      <4>. QED
        BY <4>1, <4>3, <4>4
    <3>3. DomainsOf(more) = PieceAt(e, n + 1, cat.name, {"domains", "path"})
      BY <1>3, <1>4, <1>8, <2>1, <2>5, <3>2, PieceOf
    <3>4. y = [x EXCEPT !.categories[k].rules = Extended(@, more, MaxRules)]
      BY <1>1, <1>5, <1>8, <2>5, <3>1, <3>2 DEF LoadLine
    <3>. QED
      BY <1>4, <1>5, <2>3, <2>5, <3>2, <3>3, <3>4
  <2>6. CASE line.kind = "keywords"
    <3>1. PICK more : more = NotEmpty(line.list) /\ more = PieceAt(e, n + 1, cat.name, {"keywords"})
      BY <1>3, <1>4, <1>8, <2>1, <2>6, PieceOf
    <3>2. y = [x EXCEPT !.categories[k].keywords = Extended(@, more, MaxKeywords)]
      BY <1>1, <1>5, <1>8, <2>6, <3>1 DEF LoadLine
    <3>3. PICK d : d = [cat EXCEPT !.keywords = Extended(@, more, MaxKeywords)]
      OBVIOUS
    <3>4. PICK ds : ds = [cs EXCEPT ![k] = d]
      OBVIOUS
    <3>5. y = [categories |-> ds, current |-> k]
      BY <1>1, <2>1, <3>2, <3>3, <3>4
    <3>6. /\ d.name = cs[k].name /\ d.rules = cs[k].rules
          /\ d.keywords = Extended(cs[k].keywords, more, MaxKeywords)
      BY <2>1, <3>3
    <3>7. e[n + 1].kind = "keywords" /\ more = PieceAt(e, n + 1, cs[k].name, {"keywords"})
      BY <1>4, <2>1, <2>6, <3>1
    <3>8. /\ AsListed(ds, e, n + 1) /\ NamedOnce(ds) /\ AllNamed(ds, e, n + 1)
          /\ InPlace(ds, k, e, n + 1)
      BY <1>2, <1>3, <1>8, <3>4, <3>6, <3>7, KeywordsChanged
    <3>. QED
      BY <1>4, <1>5, <2>2, <3>4, <3>5, <3>8
  <2>. QED
    BY <1>8, <2>4, <2>5, <2>6
<1>. QED
  BY <1>6, <1>7, <1>8

\* Before the first line there are the categories that are built in.
LEMMA DefaultsLoaded ==
    ASSUME NEW e
    PROVE  Loaded(InitDefaults, e, 0)
<1>1. IsSeq(Builtin) /\ \A c \in DOMAIN Builtin : IsCategory(Builtin[c])
  BY BuiltinAssumption DEF IsList, IsSeq
<1>2. DOMAIN Builtin = 1 .. Len(Builtin)
  BY <1>1, SeqElements
<1>3. \A c, d \in DOMAIN Builtin : SameText(Builtin[d].name, Builtin[c].name) => d = c
  BY BuiltinAssumption
<1>4. \A name, kinds : ListedTo(e, 0, name, kinds) = <<>>
  <2>1. SUFFICES ASSUME NEW name, NEW kinds PROVE ListedTo(e, 0, name, kinds) = <<>>
    OBVIOUS
  <2>2. PICK p : p = Pieces(e, name, kinds)
    OBVIOUS
  <2>. QED
    BY <2>2, FlatEmpty DEF ListedTo
<1>5. \A name : ~Under(e, 0, name)
  <2>1. {j \in 1 .. 0 : e[j].kind = "section"} = {}
    OBVIOUS
  <2>. QED
    BY <2>1 DEF Under
<1>6. AsListed(Builtin, e, 0)
  <2>1. SUFFICES ASSUME NEW c \in DOMAIN Builtin
                 PROVE  /\ DomainsAsListed(Builtin[c].name, Builtin[c].rules, e, 0)
                        /\ KeywordsAsListed(Builtin[c].name, Builtin[c].keywords, e, 0)
    BY DEF AsListed
  <2>2. PICK name, rules, keywords :
          name = Builtin[c].name /\ rules = Builtin[c].rules /\ keywords = Builtin[c].keywords
    OBVIOUS
  <2>3. IsSeq(rules) /\ Len(rules) <= MaxRules /\ IsSeq(keywords) /\ Len(keywords) <= MaxKeywords
    BY <1>1, <2>2 DEF IsCategory, IsList, IsSeq
  <2>4. FromStart(name) = {c}
    <3>1. \A d \in DOMAIN Builtin : SameText(Builtin[d].name, name) <=> d = c
      BY <1>3, <2>2, SameTextFacts
    <3>. QED
      BY <3>1 DEF FromStart
  <2>5. Min(FromStart(name)) = c
    <3>1. FromStart(name) \in SUBSET Nat /\ FromStart(name) # {}
      BY <1>2, <2>4
    <3>2. Min(FromStart(name)) \in FromStart(name)
      BY <3>1, MinFacts
    <3>. QED
      BY <2>4, <3>2
  <2>6. StartDomains(name) = DomainsOf(rules) /\ StartKeywords(name) = keywords
    BY <2>2, <2>4, <2>5 DEF StartDomains, StartKeywords
  <2>7. PICK d : d = DomainsOf(rules) /\ IsSeq(d) /\ Len(d) <= MaxRules
    BY <2>3, DomainsFacts
  <2>8. d \o <<>> = d /\ keywords \o <<>> = keywords
    BY <2>3, <2>7, JoinedWithNothing
  <2>9. FirstOf(d, MaxRules) = d /\ FirstOf(keywords, MaxKeywords) = keywords
    BY <2>3, <2>7, AllThereIsRoomFor, CategorizeAssumption
  <2>10. DomainsAsListed(name, rules, e, 0)
    BY <1>4, <2>3, <2>6, <2>7, <2>8, <2>9 DEF DomainsAsListed
  <2>11. KeywordsAsListed(name, keywords, e, 0)
    BY <1>4, <2>3, <2>6, <2>8, <2>9 DEF KeywordsAsListed
  <2>. QED
    BY <2>2, <2>10, <2>11
<1>7. NamedOnce(Builtin)
  BY <1>3 DEF NamedOnce
<1>8. AllNamed(Builtin, e, 0)
  BY DEF AllNamed
<1>9. InPlace(Builtin, 0, e, 0)
  BY <1>5 DEF InPlace
<1>. QED
  BY <1>6, <1>7, <1>8, <1>9 DEF Loaded, InitDefaults

\* The whole file.
LEMMA FileLoaded ==
    ASSUME NEW given \in RuleFiles, NEW file, file = ReadLines(given)
    PROVE  \E x : x.categories = LoadRules(given) /\ Loaded(x, file, Len(file))
<1>1. IsSeq(file) /\ Len(file) \in Nat /\ DOMAIN file = 1 .. Len(file) /\ IsRuleFile(file)
  <2>1. IsRuleFile(file)
    BY ReadLinesFacts
  <2>. QED
    BY <2>1, SeqElements DEF IsSeq, IsRuleFile
<1>2. PICK Names, Rules, Keywords, C :
         /\ C = CategoriesOf(Names, Rules, Keywords) /\ InitDefaults \in WellPlaced(C)
         /\ \A i \in DOMAIN file : LineOf(file[i], Names, Rules, Keywords)
  BY <1>1, RulesSource
<1>3. PICK g : Loads(g, file, C)
  BY <1>1, <1>2, RulesFold
<1>4. PICK N \in Nat : N = Len(file)
  BY <1>1
<1>5. PICK P : P = {n \in 0 .. N : Loaded(g[n], file, n)}
  OBVIOUS
<1>6. 0 \in P
  <2>1. g[0] = InitDefaults
    BY <1>3 DEF Loads
  <2>2. Loaded(InitDefaults, file, 0)
    BY DefaultsLoaded
  <2>. QED
    BY <1>5, <2>1, <2>2
<1>7. ASSUME NEW n \in 0 .. N - 1, n \in P
      PROVE  n + 1 \in P
  <2>1. n \in Nat /\ n \in 0 .. N /\ n + 1 \in 1 .. N /\ (n + 1) - 1 = n
    OBVIOUS
  <2>2. g[n + 1] = LoadLine(g[n], file[n + 1])
    BY <1>3, <1>4, <2>1 DEF Loads
  <2>3. PICK x \in WellPlaced(C) : x = g[n]
    BY <1>3, <1>4, <2>1 DEF Loads
  <2>4. Loaded(x, file, n)
    BY <1>5, <1>7, <2>3
  <2>5. n + 1 \in DOMAIN file
    BY <1>1, <1>4, <2>1
  <2>6. Loaded(LoadLine(x, file[n + 1]), file, n + 1)
    BY <1>1, <1>2, <2>1, <2>4, <2>5, LineLoads
  <2>7. Loaded(g[n + 1], file, n + 1)
    BY <2>2, <2>3, <2>6
  <2>. QED
    BY <1>5, <2>1, <2>7
<1>8. \A n \in 0 .. N : n \in P
  BY <1>6, <1>7, CountUp
<1>9. Loaded(g[N], file, N)
  BY <1>5, <1>8
<1>10. LoadRules(given) = g[N].categories
  BY <1>3, <1>4 DEF Loads, LoadRules
<1>. QED
  BY <1>4, <1>9, <1>10

-----------------------------------------------------------------------------
(* RulesInTheirSection.                                                    *)

\* The categories are those of the lines that were read.
Ruled ==
    \/ lines = <<>> /\ categories = <<>>
    \/ lines \in RuleFiles /\ categories = LoadRules(lines)

\* All lines together.
LEMMA AllListed ==
    ASSUME lines \in RuleFiles, NEW name, NEW kinds
    PROVE  Listed(name, kinds) = ListedTo(Seen, Len(Seen), name, kinds)
<1>1. PICK e : e = Seen
  OBVIOUS
<1>2. IsSeq(e) /\ DOMAIN e = DOMAIN lines
  BY <1>1, ReadLinesFacts DEF Seen, IsRuleFile
<1>3. PICK N \in Nat : N = Len(e) /\ DOMAIN e = 1 .. N
  BY <1>2, SeqElements DEF IsSeq
<1>4. \A i \in DOMAIN e : ListedAt(i, name, kinds) = PieceAt(e, i, name, kinds)
  BY <1>1 DEF ListedAt, InSection, PieceAt, Under, NotEmpty
<1>5. PICK p : p = Pieces(e, name, kinds)
  OBVIOUS
<1>6. p = [i \in 1 .. N |-> p[i]] /\ \A i \in 1 .. N : p[i] = ListedAt(i, name, kinds)
  BY <1>3, <1>4, <1>5 DEF Pieces
<1>7. FlattenSeq(p) = Flat(p, N)
  BY <1>6, FlatAll
<1>8. p = [i \in DOMAIN lines |-> ListedAt(i, name, kinds)]
  BY <1>2, <1>3, <1>6
<1>9. Listed(name, kinds) = FlattenSeq(p)
  BY <1>8 DEF Listed
<1>. QED
  BY <1>1, <1>3, <1>5, <1>7, <1>9 DEF ListedTo

LEMMA RuledInTheirSection == Ruled => RulesInTheirSection
<1>1. CASE lines = <<>> /\ categories = <<>>
  <2>1. DOMAIN <<>> = {}
    OBVIOUS
  <2>. QED
    BY <1>1, <2>1 DEF RulesInTheirSection
<1>2. CASE lines \in RuleFiles /\ categories = LoadRules(lines)
  <2>1. PICK cs, n, x : cs = categories /\ n = Len(Seen) /\ x.categories = cs /\ Loaded(x, Seen, n)
    BY <1>2, FileLoaded DEF Seen
  <2>2. AsListed(cs, Seen, n) /\ NamedOnce(cs) /\ AllNamed(cs, Seen, n)
    BY <2>1 DEF Loaded
  <2>3. \A c \in DOMAIN cs, d \in DOMAIN cs : SameText(cs[d].name, cs[c].name) => d = c
    BY <2>2 DEF NamedOnce
  <2>4. ASSUME NEW c \in DOMAIN cs
        PROVE  /\ DomainsOf(cs[c].rules) =
                     FirstOf(StartDomains(cs[c].name) \o Listed(cs[c].name, {"domains", "path"}), MaxRules)
               /\ cs[c].keywords =
                     FirstOf(StartKeywords(cs[c].name) \o Listed(cs[c].name, {"keywords"}), MaxKeywords)
    <3>1. PICK name : name = cs[c].name
      OBVIOUS
    <3>2. DomainsAsListed(name, cs[c].rules, Seen, n) /\ KeywordsAsListed(name, cs[c].keywords, Seen, n)
      BY <2>2, <3>1 DEF AsListed
    <3>3. /\ ListedTo(Seen, n, name, {"domains", "path"}) = Listed(name, {"domains", "path"})
          /\ ListedTo(Seen, n, name, {"keywords"}) = Listed(name, {"keywords"})
      BY <1>2, <2>1, AllListed
    <3>. QED
      BY <3>1, <3>2, <3>3 DEF DomainsAsListed, KeywordsAsListed
  <2>5. ASSUME Len(cs) < MaxCategories, NEW name \in Named
        PROVE  \E c \in DOMAIN cs : SameText(cs[c].name, name)
    <3>1. PICK i \in DOMAIN lines : Seen[i].kind = "section" /\ name = Seen[i].name
      BY <2>5 DEF Named
    <3>2. DOMAIN lines = 1 .. n
      <4>1. IsSeq(Seen) /\ DOMAIN Seen = DOMAIN lines
        BY <1>2, ReadLinesFacts DEF Seen, IsRuleFile
      <4>. QED
        BY <2>1, <4>1, SeqElements
    <3>. QED
      BY <2>2, <2>5, <3>1, <3>2 DEF AllNamed
  <2>. QED
    BY <2>1, <2>3, <2>4, <2>5 DEF RulesInTheirSection
<1>. QED
  BY <1>1, <1>2 DEF Ruled

LEMMA RuledNext == Ruled /\ [Next]_vars => Ruled'
<1>1. SUFFICES ASSUME Ruled, [Next]_vars PROVE Ruled'
  OBVIOUS
<1>2. CASE UNCHANGED <<lines, categories>>
  BY <1>1, <1>2 DEF Ruled
<1>3. CASE CategorizeEntries
  <2>1. CASE command.categorize
    <3>1. PICK file \in RuleFiles : lines' = file /\ categories' = LoadRules(file)
      BY <1>3, <2>1 DEF CategorizeEntries
    <3>. QED
      BY <3>1 DEF Ruled
  <2>2. CASE ~command.categorize
    <3>1. UNCHANGED <<lines, categories>>
      BY <1>3, <2>2 DEF CategorizeEntries
    <3>. QED
      BY <1>2, <3>1
  <2>. QED
    BY <2>1, <2>2
<1>4. CASE Query \/ Statistics \/ Search \/ UNCHANGED vars
  <2>1. UNCHANGED <<lines, categories>>
    BY <1>4 DEF Query, Statistics, Search, analysisVars, vars
  <2>. QED
    BY <1>2, <2>1
<1>. QED
  BY <1>1, <1>3, <1>4 DEF Next

\* AlwaysRulesInTheirSection: whatever a file of rules says, every category holds what it has
\* from the start and what is read of the lines in the sections of its name, in that order and
\* as far as there is room, no two categories are of one name, and no section is without one
\* unless the categories are all in use.  A line that is longer than the buffer is cut, and
\* what is left of its last item is a rule as the others are (cat_engine_load_rules_buffer).
THEOREM AlwaysRulesInTheirSection == Spec => []RulesInTheirSection
<1>1. PipelineInit => Ruled
  BY DEF PipelineInit, Ruled
<1>2. Ruled /\ [Next]_vars => Ruled'
  BY RuledNext
<1>3. Ruled => RulesInTheirSection
  BY RuledInTheirSection
<1>. QED
  BY <1>1, <1>2, <1>3, PTL DEF Spec
=============================================================================
