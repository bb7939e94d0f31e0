---------------------------- MODULE WorkerLogProofs ----------------------------
(* Proofs about the browser library of WorkerLog.tla: the log in memory,    *)
(* the one in the database and the answers agree, and the tracked addresses *)
(* are those that were navigated to, for every number of pages, loads,      *)
(* fetches and failures and for every cap.                                  *)
EXTENDS WorkerLogProperties, FiniteSetTheorems, SequenceTheorems, TLAPS

-----------------------------------------------------------------------------
(* The inductive invariant.                                                *)

WorkerStates == {"installing", "activating", "activated", "redundant"}

\* The types that TypeOK leaves open.
Typed ==
    /\ TypeOK
    /\ worker \in [id : Nat, state : WorkerStates]
    /\ fetched \in 0 .. MaxFetches /\ since \in 0 .. fetched
    /\ asked \in [Pages -> 0 .. fetched]
    /\ calls \in Seq(Nat) /\ disturbed \in BOOLEAN
    /\ loads \in Nat /\ faults \in Nat

\* The log in memory ends with the newest fetch, and is empty only if the worker was
\* started after it.
LogIsCurrent ==
    /\ Unbroken(historyLog)
    /\ historyLog = <<>> => since = fetched
    /\ historyLog # <<>> => Last(historyLog) = fetched

\* A question is handled, and an answer arrives, only while its page is still the same:
\* were it asking again, the answer could be older than the question.
AnswersAreCurrent ==
    /\ \A p \in messages : at[p] \in {"request", "done"}
    /\ \A a \in answers : at[a.page] \in {"request", "done"} /\ Answers(a.page, a.history)
    /\ \A p \in Pages : history[p] # NoHistory => at[p] = "done" /\ Answers(p, history[p])

Rising(s) == \A i, j \in DOMAIN s : i < j => s[i] < s[j]

\* What is stored is older than what is being stored, and that was fetched since the
\* worker was started.
StoreInOrder ==
    /\ Rising(stored) /\ Rising(storing)
    /\ \A i \in DOMAIN stored : stored[i] <= fetched
    /\ \A j \in DOMAIN storing : since < storing[j] /\ storing[j] <= fetched
    /\ \A i \in DOMAIN stored, j \in DOMAIN storing : stored[i] < storing[j]
    /\ faults = 0 => Len(stored) + Len(storing) = fetched

NoRepeats(s) == \A i \in 1 .. Len(s) - 1 : s[i] # s[i + 1]

\* The places in u where an address follows that is not the one before.
NewIn(u) == {i \in DOMAIN u : i = 1 \/ u[i - 1] # u[i]}
RankIn(u, i) == Cardinality({j \in NewIn(u) : j <= i})
PlaceOf(u, k) == CHOOSE i \in NewIn(u) : RankIn(u, i) = k
Distinct(u) == [k \in 1 .. Cardinality(NewIn(u)) |-> u[PlaceOf(u, k)]]

\* Every rank is the rank of a place: what LogOf chooses exists.
Ranked(u) == \A k \in 1 .. Cardinality(NewIn(u)) : \E i \in NewIn(u) : RankIn(u, i) = k

\* A page that is about to write has read a log that does not end with its address, so
\* that what it writes has no repetition even if another page has written since.
TrackedInOrder ==
    /\ Len(tracked) <= MaxTracked /\ NoRepeats(tracked)
    /\ tracked = <<>> <=> calls = <<>>
    /\ calls # <<>> => Last(tracked) = Last(calls)
    /\ \A p \in Pages : at[p] \in {"set", "setAgain"} =>
            /\ Len(read[p]) <= MaxTracked /\ NoRepeats(read[p])
            /\ ~IsRepeat(read[p], url[p])
    /\ Ranked(calls)
    /\ ~disturbed => tracked = LogOf(calls)

IInv == Typed /\ LogIsCurrent /\ AnswersAreCurrent /\ StoreInOrder /\ TrackedInOrder

-----------------------------------------------------------------------------
(* Lemmas about sequences.                                                 *)

\* The end of a sequence.
LEMMA SuffixFacts ==
    ASSUME NEW S, NEW s \in Seq(S), NEW f \in 1 .. Len(s) + 1, NEW t, t = SubSeq(s, f, Len(s))
    PROVE  t \in Seq(S) /\ Len(t) = Len(s) - f + 1 /\ \A i \in 1 .. Len(t) : t[i] = s[f + i - 1]
<1>1. Len(s) \in Nat /\ \A i \in f .. Len(s) : s[i] \in S
  BY LenProperties, ElementOfSeq
<1>2. /\ t \in Seq(S)
      /\ Len(t) = IF f <= Len(s) THEN Len(s) - f + 1 ELSE 0
      /\ \A i \in 1 .. Len(s) - f + 1 : t[i] = s[f + i - 1]
  BY <1>1, SubSeqProperties
<1>3. Len(t) = Len(s) - f + 1
  BY <1>1, <1>2
<1>. QED
  BY <1>2, <1>3

\* Two neighbours in s are neighbours in t.
StepsOf(s, t) ==
    \A i \in 1 .. Len(s) - 1 : \E j \in 1 .. Len(t) - 1 : s[i] = t[j] /\ s[i + 1] = t[j + 1]

\* What slice(-n) keeps.
LEMMA LastOfFacts ==
    ASSUME NEW S, NEW s \in Seq(S), NEW n \in Nat \ {0}
    PROVE  /\ LastOf(s, n) \in Seq(S)
           /\ Len(LastOf(s, n)) <= n
           /\ s # <<>> => LastOf(s, n) # <<>> /\ Last(LastOf(s, n)) = Last(s)
           /\ StepsOf(LastOf(s, n), s)
<1>1. /\ Len(s) \in Nat /\ (s # <<>> => Len(s) >= 1)
      /\ \A i \in 1 .. Len(s) : s[i] \in S
  BY EmptySeq, LenProperties, ElementOfSeq
<1>2. PICK f : f = IF Len(s) > n THEN Len(s) - n + 1 ELSE 1
  OBVIOUS
<1>3. f \in 1 .. Len(s) + 1 /\ (s # <<>> => f <= Len(s)) /\ Len(s) - f + 1 <= n
  BY <1>1, <1>2
<1>4. PICK t : t = LastOf(s, n)
  OBVIOUS
<1>41. t = SubSeq(s, f, Len(s))
  BY <1>2, <1>4 DEF LastOf
<1>5. t \in Seq(S) /\ Len(t) = Len(s) - f + 1 /\ \A i \in 1 .. Len(t) : t[i] = s[f + i - 1]
  BY <1>3, <1>41, SuffixFacts
<1>6. Len(t) <= n
  BY <1>3, <1>5
<1>7. s # <<>> => t # <<>> /\ Last(t) = Last(s)
  <2>1. SUFFICES ASSUME s # <<>> PROVE t # <<>> /\ Last(t) = Last(s)
    OBVIOUS
  <2>2. Len(t) \in 1 .. Len(s) /\ f + Len(t) - 1 = Len(s)
    BY <1>1, <1>3, <1>5, <2>1
  <2>3. t[Len(t)] = s[Len(s)]
    BY <1>5, <2>2
  <2>. QED
    BY <2>2, <2>3 DEF Last
<1>8. \A i \in 1 .. Len(t) - 1 : \E j \in 1 .. Len(s) - 1 : t[i] = s[j] /\ t[i + 1] = s[j + 1]
  <2>1. TAKE i \in 1 .. Len(t) - 1
  <2>2. f + i - 1 \in 1 .. Len(s) - 1 /\ i \in 1 .. Len(t) /\ i + 1 \in 1 .. Len(t)
        /\ f + (i + 1) - 1 = (f + i - 1) + 1
    BY <1>1, <1>3, <1>5
  <2>3. t[i] = s[f + i - 1] /\ t[i + 1] = s[(f + i - 1) + 1]
    BY <1>5, <2>2
  <2>. QED
    BY <2>2, <2>3
<1>. QED
  BY <1>4, <1>5, <1>6, <1>7, <1>8 DEF StepsOf

\* Cutting a log before an entry is added to it makes no difference.
LEMMA LastOfLastOf ==
    ASSUME NEW S, NEW s \in Seq(S), NEW x \in S, NEW n \in Nat \ {0}
    PROVE  LastOf(Append(LastOf(s, n), x), n) = LastOf(Append(s, x), n)
<1>1. CASE Len(s) <= n
  <2>1. LastOf(s, n) = SubSeq(s, 1, Len(s))
    <3>1. ~(Len(s) > n)
      BY <1>1, LenProperties
    <3>. QED
      BY <3>1 DEF LastOf
  <2>2. LastOf(s, n) = s
    BY <2>1, SubSeqFull
  <2>. QED
    BY <2>2
<1>2. CASE Len(s) > n
  <2>0. Len(s) \in Nat
    BY LenProperties
  <2>1. PICK t : t = LastOf(s, n)
    OBVIOUS
  <2>2. t = SubSeq(s, Len(s) - n + 1, Len(s)) /\ Len(s) - n + 1 \in 1 .. Len(s) + 1
    BY <1>2, <2>0, <2>1 DEF LastOf
  <2>3. t \in Seq(S) /\ Len(t) = n /\ \A i \in 1 .. n : t[i] = s[Len(s) - n + i]
    <3>1. /\ t \in Seq(S) /\ Len(t) = Len(s) - (Len(s) - n + 1) + 1
          /\ \A i \in 1 .. Len(t) : t[i] = s[Len(s) - n + 1 + i - 1]
      BY <2>2, SuffixFacts
    <3>2. Len(t) = n /\ \A i \in 1 .. n : Len(s) - n + 1 + i - 1 = Len(s) - n + i
      BY <1>2, <2>0, <3>1
    <3>. QED
      BY <3>1, <3>2
  <2>4. PICK tx : tx = Append(t, x)
    OBVIOUS
  <2>5. PICK sx : sx = Append(s, x)
    OBVIOUS
  <2>6. /\ tx \in Seq(S) /\ Len(tx) = n + 1 /\ tx[n + 1] = x
        /\ \A i \in 1 .. n : tx[i] = t[i]
    BY <2>3, <2>4, AppendProperties
  <2>7. /\ sx \in Seq(S) /\ Len(sx) = Len(s) + 1 /\ sx[Len(s) + 1] = x
        /\ \A i \in 1 .. Len(s) : sx[i] = s[i]
    BY <2>0, <2>5, AppendProperties
  <2>8. PICK a : a = LastOf(tx, n)
    OBVIOUS
  <2>9. PICK b : b = LastOf(sx, n)
    OBVIOUS
  <2>10. a \in Seq(S) /\ Len(a) = n /\ \A i \in 1 .. n : a[i] = tx[i + 1]
    <3>1. a = SubSeq(tx, 2, Len(tx))
      <4>1. Len(tx) > n /\ Len(tx) - n + 1 = 2
        BY <2>6
      <4>. QED
        BY <2>8, <4>1 DEF LastOf
    <3>2. /\ a \in Seq(S) /\ Len(a) = Len(tx) - 2 + 1
          /\ \A i \in 1 .. Len(a) : a[i] = tx[2 + i - 1]
      <4>1. 2 \in 1 .. Len(tx) + 1
        BY <2>6
      <4>. QED
        BY <2>6, <3>1, <4>1, SuffixFacts
    <3>3. Len(a) = n /\ \A i \in 1 .. n : 2 + i - 1 = i + 1
      BY <2>6, <3>2
    <3>. QED
      BY <3>2, <3>3
  <2>11. b \in Seq(S) /\ Len(b) = n /\ \A i \in 1 .. n : b[i] = sx[Len(s) - n + 1 + i]
    <3>1. b = SubSeq(sx, Len(s) - n + 2, Len(sx))
      <4>1. Len(sx) > n /\ Len(sx) - n + 1 = Len(s) - n + 2
        BY <1>2, <2>0, <2>7
      <4>. QED
        BY <2>9, <4>1 DEF LastOf
    <3>2. /\ b \in Seq(S) /\ Len(b) = Len(sx) - (Len(s) - n + 2) + 1
          /\ \A i \in 1 .. Len(b) : b[i] = sx[Len(s) - n + 2 + i - 1]
      <4>1. Len(s) - n + 2 \in 1 .. Len(sx) + 1
        BY <1>2, <2>0, <2>7
      <4>. QED
        BY <2>7, <3>1, <4>1, SuffixFacts
    <3>3. Len(b) = n /\ \A i \in 1 .. n : Len(s) - n + 2 + i - 1 = Len(s) - n + 1 + i
      BY <1>2, <2>0, <2>7, <3>2
    <3>. QED
      BY <3>2, <3>3
  <2>12. ASSUME NEW i \in 1 .. n PROVE a[i] = b[i]
    <3>1. CASE i = n
      <4>1. Len(s) - n + 1 + i = Len(s) + 1
        BY <2>0, <3>1
      <4>. QED
        BY <2>6, <2>7, <2>10, <2>11, <3>1, <4>1
    <3>2. CASE i # n
      <4>1. i + 1 \in 1 .. n /\ Len(s) - n + 1 + i \in 1 .. Len(s) /\ Len(s) - n + (i + 1) = Len(s) - n + 1 + i
        BY <1>2, <2>0, <3>2
      <4>2. a[i] = s[Len(s) - n + (i + 1)]
        BY <2>3, <2>6, <2>10, <4>1
      <4>. QED
        BY <2>7, <2>11, <4>1, <4>2
    <3>. QED
      BY <3>1, <3>2
  <2>. QED
    BY <2>1, <2>4, <2>5, <2>8, <2>9, <2>10, <2>11, <2>12, SeqEqual
<1>. QED
  BY <1>1, <1>2, LenProperties

\* A log that is added to keeps its steps.
LEMMA AppendSteps ==
    ASSUME NEW S, NEW s \in Seq(S), NEW x \in S, NEW i \in 1 .. Len(Append(s, x)) - 1
    PROVE  \/ i \in 1 .. Len(s) - 1 /\ Append(s, x)[i] = s[i] /\ Append(s, x)[i + 1] = s[i + 1]
           \/ s # <<>> /\ Append(s, x)[i] = Last(s) /\ Append(s, x)[i + 1] = x
<1>1. Len(Append(s, x)) = Len(s) + 1 /\ Len(s) \in Nat
  OBVIOUS
<1>2. CASE i < Len(s)
  BY <1>1, <1>2
<1>3. CASE i = Len(s)
  BY <1>1, <1>3 DEF Last
<1>. QED
  BY <1>1, <1>2, <1>3

LEMMA Caps ==
    /\ MaxLog \in Nat \ {0} /\ MaxTracked \in Nat \ {0}
    /\ MaxPages \in Nat /\ MaxLoads \in Nat /\ MaxFetches \in Nat /\ MaxFaults \in Nat
BY LogAssumption

\* Adding an entry that is not the last one, or cutting, brings no repetition.
LEMMA NoRepeatsAppend ==
    ASSUME NEW s \in Seq(Nat), NEW x \in Nat, NoRepeats(s), ~IsRepeat(s, x)
    PROVE  NoRepeats(LastOf(Append(s, x), MaxTracked))
<1>1. Append(s, x) \in Seq(Nat)
  OBVIOUS
<1>2. \A j \in 1 .. Len(Append(s, x)) - 1 : Append(s, x)[j] # Append(s, x)[j + 1]
  BY AppendSteps DEF NoRepeats, IsRepeat
<1>3. PICK t : t = Append(s, x)
  OBVIOUS
<1>4. \A j \in 1 .. Len(t) - 1 : t[j] # t[j + 1]
  BY <1>2, <1>3
<1>5. PICK u : u = LastOf(t, MaxTracked)
  OBVIOUS
<1>6. StepsOf(u, t)
  BY <1>1, <1>3, <1>5, Caps, LastOfFacts
<1>7. ASSUME NEW i \in 1 .. Len(u) - 1
      PROVE  u[i] # u[i + 1]
  <2>1. PICK j \in 1 .. Len(t) - 1 : u[i] = t[j] /\ u[i + 1] = t[j + 1]
    BY <1>6 DEF StepsOf
  <2>. QED
    BY <1>4, <2>1
<1>. QED
  BY <1>3, <1>5, <1>7 DEF NoRepeats

\* The newest fetch keeps the log in memory without a hole.
LEMMA UnbrokenAppend ==
    ASSUME NEW s \in Histories, NEW x \in 1 .. MaxFetches, Unbroken(s),
           s # <<>> => x = Last(s) + 1
    PROVE  /\ LastOf(Append(s, x), MaxLog) \in Histories
           /\ Unbroken(LastOf(Append(s, x), MaxLog))
           /\ LastOf(Append(s, x), MaxLog) # <<>>
           /\ Last(LastOf(Append(s, x), MaxLog)) = x
<1>1. s \in Seq(1 .. MaxFetches)
  BY DEF Histories
<1>2. PICK t : t = Append(s, x)
  OBVIOUS
<1>3. t \in Seq(1 .. MaxFetches) /\ t # <<>> /\ Last(t) = x
  BY <1>1, <1>2, AppendProperties DEF Last
<1>4. \A j \in 1 .. Len(t) - 1 : t[j + 1] = t[j] + 1
  BY <1>1, <1>2, AppendSteps DEF Unbroken
<1>5. PICK u : u = LastOf(t, MaxLog)
  OBVIOUS
<1>6. /\ u \in Seq(1 .. MaxFetches) /\ Len(u) <= MaxLog /\ u # <<>> /\ Last(u) = Last(t)
      /\ StepsOf(u, t)
  BY <1>3, <1>5, Caps, LastOfFacts
<1>7. \A i \in 1 .. Len(u) - 1 : u[i + 1] = u[i] + 1
  BY <1>4, <1>6 DEF StepsOf
<1>. QED
  BY <1>2, <1>3, <1>5, <1>6, <1>7 DEF Unbroken, Histories

-----------------------------------------------------------------------------
(* LogOf, one address at a time.                                           *)

LEMMA LogOfDistinct ==
    ASSUME NEW u
    PROVE  LogOf(u) = LastOf(Distinct(u), MaxTracked)
BY DEF LogOf, Distinct, PlaceOf, RankIn, NewIn

LEMMA NewInFacts ==
    ASSUME NEW u \in Seq(Nat)
    PROVE  /\ NewIn(u) \subseteq 1 .. Len(u)
           /\ IsFiniteSet(NewIn(u)) /\ Cardinality(NewIn(u)) \in Nat
           /\ \A i \in NewIn(u) : /\ IsFiniteSet({j \in NewIn(u) : j <= i})
                                  /\ RankIn(u, i) \in 1 .. Cardinality(NewIn(u))
<1>1. Len(u) \in Nat /\ NewIn(u) \subseteq 1 .. Len(u)
  BY DEF NewIn
<1>2. IsFiniteSet(NewIn(u)) /\ Cardinality(NewIn(u)) \in Nat
  <2>1. IsFiniteSet(1 .. Len(u))
    BY <1>1, FS_Interval
  <2>2. IsFiniteSet(NewIn(u))
    BY <1>1, <2>1, FS_Subset
  <2>. QED
    BY <2>2, FS_CardinalityType
<1>3. ASSUME NEW i \in NewIn(u)
      PROVE  IsFiniteSet({j \in NewIn(u) : j <= i}) /\ RankIn(u, i) \in 1 .. Cardinality(NewIn(u))
  <2>1. {j \in NewIn(u) : j <= i} \subseteq NewIn(u) /\ i \in {j \in NewIn(u) : j <= i}
    BY <1>1
  <2>2. PICK T : T = {j \in NewIn(u) : j <= i}
    OBVIOUS
  <2>3. IsFiniteSet(T) /\ Cardinality(T) <= Cardinality(NewIn(u)) /\ Cardinality(T) \in Nat
    BY <1>2, <2>1, <2>2, FS_Subset, FS_CardinalityType
  <2>4. Cardinality(T) # 0
    BY <2>1, <2>2, <2>3, FS_EmptySet
  <2>. QED
    BY <1>2, <2>2, <2>3, <2>4 DEF RankIn
<1>. QED
  BY <1>1, <1>2, <1>3

\* A later place has a higher rank.
LEMMA RanksDiffer ==
    ASSUME NEW u \in Seq(Nat), NEW i \in NewIn(u), NEW k \in NewIn(u), i < k
    PROVE  RankIn(u, i) < RankIn(u, k)
<1>1. PICK S : S = {j \in NewIn(u) : j <= i}
  OBVIOUS
<1>2. PICK T : T = {j \in NewIn(u) : j <= k}
  OBVIOUS
<1>3. i \in Nat /\ k \in Nat /\ NewIn(u) \subseteq Nat
  BY NewInFacts, LenProperties
<1>4. S \subseteq T /\ k \in T /\ k \notin S
  BY <1>1, <1>2, <1>3
<1>5. IsFiniteSet(T) /\ IsFiniteSet(S) /\ Cardinality(S) \in Nat /\ Cardinality(T) \in Nat
  BY <1>1, <1>2, NewInFacts, FS_CardinalityType
<1>6. Cardinality(S) <= Cardinality(T) /\ (Cardinality(S) = Cardinality(T) => S = T)
  BY <1>4, <1>5, FS_Subset
<1>7. Cardinality(S) < Cardinality(T)
  BY <1>4, <1>5, <1>6
<1>. QED
  BY <1>1, <1>2, <1>7 DEF RankIn

LEMMA PlaceFacts ==
    ASSUME NEW u \in Seq(Nat), Ranked(u), NEW k \in 1 .. Cardinality(NewIn(u))
    PROVE  /\ PlaceOf(u, k) \in NewIn(u) /\ RankIn(u, PlaceOf(u, k)) = k
           /\ \A i \in NewIn(u) : RankIn(u, i) = k => i = PlaceOf(u, k)
<1>1. \E i \in NewIn(u) : RankIn(u, i) = k
  BY DEF Ranked
<1>2. PlaceOf(u, k) \in NewIn(u) /\ RankIn(u, PlaceOf(u, k)) = k
  BY <1>1 DEF PlaceOf
<1>3. PICK q : q = PlaceOf(u, k)
  OBVIOUS
<1>4. ASSUME NEW i \in NewIn(u), RankIn(u, i) = k, i # q PROVE FALSE
  <2>1. i \in Nat /\ q \in Nat /\ q \in NewIn(u)
    BY <1>2, <1>3, NewInFacts
  <2>2. CASE i < q
    BY <1>2, <1>3, <1>4, <2>1, <2>2, RanksDiffer
  <2>3. CASE q < i
    BY <1>2, <1>3, <1>4, <2>1, <2>3, RanksDiffer
  <2>. QED
    BY <1>4, <2>1, <2>2, <2>3
<1>. QED
  BY <1>2, <1>3, <1>4

LEMMA DistinctFacts ==
    ASSUME NEW u \in Seq(Nat), Ranked(u)
    PROVE  /\ Distinct(u) \in Seq(Nat) /\ Len(Distinct(u)) = Cardinality(NewIn(u))
           /\ \A k \in 1 .. Cardinality(NewIn(u)) : Distinct(u)[k] = u[PlaceOf(u, k)]
<1>1. PICK c \in Nat : c = Cardinality(NewIn(u))
  BY NewInFacts
<1>2. \A k \in 1 .. c : u[PlaceOf(u, k)] \in Nat
  BY <1>1, PlaceFacts, NewInFacts, ElementOfSeq
<1>3. PICK d : d = [k \in 1 .. c |-> u[PlaceOf(u, k)]]
  OBVIOUS
<1>4. d \in Seq(Nat) /\ Len(d) = c /\ \A k \in 1 .. c : d[k] = u[PlaceOf(u, k)]
  BY <1>2, <1>3
<1>5. Distinct(u) = d
  BY <1>1, <1>3 DEF Distinct
<1>. QED
  BY <1>1, <1>4, <1>5

\* A repeated address is no place of its own.
LEMMA DistinctRepeat ==
    ASSUME NEW u \in Seq(Nat), NEW x \in Nat, Ranked(u), u # <<>>, Last(u) = x
    PROVE  Ranked(Append(u, x)) /\ Distinct(Append(u, x)) = Distinct(u)
<1>1. PICK v : v = Append(u, x)
  OBVIOUS
<1>2. PICK n \in Nat : n = Len(u)
  BY LenProperties
<1>3. n >= 1 /\ u[n] = x
  BY <1>2, EmptySeq DEF Last
<1>4. /\ v \in Seq(Nat) /\ Len(v) = n + 1 /\ v[n + 1] = x /\ \A i \in 1 .. n : v[i] = u[i]
      /\ DOMAIN v = 1 .. n + 1 /\ DOMAIN u = 1 .. n
  BY <1>1, <1>2, AppendProperties, LenProperties
<1>5. NewIn(v) = NewIn(u)
  <2>1. ASSUME NEW i \in 1 .. n PROVE i \in NewIn(v) <=> i \in NewIn(u)
    <3>1. CASE i = 1
      BY <1>4, <3>1 DEF NewIn
    <3>2. CASE i # 1
      <4>1. i - 1 \in 1 .. n /\ i \in 1 .. n + 1
        BY <3>2
      <4>2. v[i - 1] = u[i - 1] /\ v[i] = u[i]
        BY <1>4, <4>1
      <4>. QED
        BY <1>4, <3>2, <4>1, <4>2 DEF NewIn
    <3>. QED
      BY <3>1, <3>2
  <2>2. n + 1 \notin NewIn(v)
    <3>1. (n + 1) - 1 = n /\ n + 1 # 1 /\ v[n] = x
      BY <1>3, <1>4
    <3>. QED
      BY <1>4, <3>1 DEF NewIn
  <2>3. NewIn(u) \subseteq 1 .. n /\ NewIn(v) \subseteq 1 .. n + 1
    BY <1>4 DEF NewIn
  <2>4. \A i \in 1 .. n + 1 : i \in 1 .. n \/ i = n + 1
    OBVIOUS
  <2>. QED
    BY <2>1, <2>2, <2>3, <2>4
<1>6. \A i : RankIn(v, i) = RankIn(u, i)
  BY <1>5 DEF RankIn
<1>7. Ranked(v)
  BY <1>5, <1>6 DEF Ranked
<1>8. ASSUME NEW k \in 1 .. Cardinality(NewIn(u))
      PROVE  Distinct(v)[k] = Distinct(u)[k]
  <2>1. PlaceOf(v, k) \in NewIn(u) /\ RankIn(u, PlaceOf(v, k)) = k
    BY <1>4, <1>5, <1>6, <1>7, PlaceFacts
  <2>2. PlaceOf(v, k) = PlaceOf(u, k)
    BY <2>1, PlaceFacts
  <2>3. PlaceOf(u, k) \in 1 .. n
    BY <1>2, <2>1, <2>2, NewInFacts
  <2>4. Distinct(v)[k] = v[PlaceOf(v, k)] /\ Distinct(u)[k] = u[PlaceOf(u, k)]
    BY <1>4, <1>5, <1>7, DistinctFacts
  <2>. QED
    BY <1>4, <2>2, <2>3, <2>4
<1>9. Distinct(v) \in Seq(Nat) /\ Distinct(u) \in Seq(Nat) /\ Len(Distinct(v)) = Len(Distinct(u))
      /\ Len(Distinct(u)) = Cardinality(NewIn(u))
  BY <1>4, <1>5, <1>7, DistinctFacts
<1>10. Distinct(v) = Distinct(u)
  BY <1>8, <1>9, SeqEqual
<1>. QED
  BY <1>1, <1>7, <1>10

\* Another address is one place more.
LEMMA DistinctAppend ==
    ASSUME NEW u \in Seq(Nat), NEW x \in Nat, Ranked(u), u # <<>> => Last(u) # x
    PROVE  Ranked(Append(u, x)) /\ Distinct(Append(u, x)) = Append(Distinct(u), x)
<1>1. PICK v : v = Append(u, x)
  OBVIOUS
<1>2. PICK n \in Nat : n = Len(u)
  BY LenProperties
<1>3. n >= 1 => u[n] # x
  BY <1>2, EmptySeq DEF Last
<1>4. /\ v \in Seq(Nat) /\ Len(v) = n + 1 /\ v[n + 1] = x /\ \A i \in 1 .. n : v[i] = u[i]
      /\ DOMAIN v = 1 .. n + 1 /\ DOMAIN u = 1 .. n
  BY <1>1, <1>2, AppendProperties, LenProperties
<1>5. NewIn(v) = NewIn(u) \cup {n + 1}
  <2>1. ASSUME NEW i \in 1 .. n PROVE i \in NewIn(v) <=> i \in NewIn(u)
    <3>1. CASE i = 1
      BY <1>4, <3>1 DEF NewIn
    <3>2. CASE i # 1
      <4>1. i - 1 \in 1 .. n /\ i \in 1 .. n + 1
        BY <3>2
      <4>2. v[i - 1] = u[i - 1] /\ v[i] = u[i]
        BY <1>4, <4>1
      <4>. QED
        BY <1>4, <3>2, <4>1, <4>2 DEF NewIn
    <3>. QED
      BY <3>1, <3>2
  <2>2. n + 1 \in NewIn(v)
    <3>1. CASE n = 0
      BY <1>4, <3>1 DEF NewIn
    <3>2. CASE n # 0
      <4>1. (n + 1) - 1 = n /\ n + 1 \in 1 .. n + 1 /\ v[n] # x
        BY <1>3, <1>4, <3>2
      <4>. QED
        BY <1>4, <4>1 DEF NewIn
    <3>. QED
      BY <3>1, <3>2
  <2>3. NewIn(u) \subseteq 1 .. n /\ NewIn(v) \subseteq 1 .. n + 1
    BY <1>4 DEF NewIn
  <2>4. \A i \in 1 .. n + 1 : i \in 1 .. n \/ i = n + 1
    OBVIOUS
  <2>. QED
    BY <2>1, <2>2, <2>3, <2>4
<1>6. PICK c \in Nat : c = Cardinality(NewIn(u))
  BY NewInFacts
<1>7. NewIn(u) \subseteq 1 .. n /\ IsFiniteSet(NewIn(u)) /\ n + 1 \notin NewIn(u)
  BY <1>2, NewInFacts
<1>8. Cardinality(NewIn(v)) = c + 1
  BY <1>5, <1>6, <1>7, FS_AddElement
<1>9. ASSUME NEW i \in NewIn(u) PROVE RankIn(v, i) = RankIn(u, i) /\ RankIn(v, i) \in 1 .. c
  <2>1. ~(n + 1 <= i)
    BY <1>7
  <2>2. {j \in NewIn(v) : j <= i} = {j \in NewIn(u) : j <= i}
    BY <1>5, <2>1
  <2>. QED
    BY <1>6, <2>2, NewInFacts DEF RankIn
<1>10. RankIn(v, n + 1) = c + 1
  <2>1. {j \in NewIn(v) : j <= n + 1} = NewIn(v)
    BY <1>5, <1>7
  <2>. QED
    BY <1>8, <2>1 DEF RankIn
<1>11. Ranked(v)
  <2>1. SUFFICES ASSUME NEW k \in 1 .. c + 1 PROVE \E i \in NewIn(v) : RankIn(v, i) = k
    BY <1>8 DEF Ranked
  <2>2. CASE k \in 1 .. c
    <3>1. PICK i \in NewIn(u) : RankIn(u, i) = k
      BY <1>6, <2>2 DEF Ranked
    <3>. QED
      BY <1>5, <1>9, <3>1
  <2>3. CASE k = c + 1
    BY <1>5, <1>10, <2>3
  <2>. QED
    BY <2>2, <2>3
<1>12. ASSUME NEW k \in 1 .. c
       PROVE  Distinct(v)[k] = Distinct(u)[k]
  <2>1. PlaceOf(u, k) \in NewIn(u) /\ RankIn(u, PlaceOf(u, k)) = k
    BY <1>6, PlaceFacts
  <2>2. PlaceOf(v, k) = PlaceOf(u, k)
    <3>1. PlaceOf(u, k) \in NewIn(v) /\ RankIn(v, PlaceOf(u, k)) = k
      BY <1>5, <1>9, <2>1
    <3>2. k \in 1 .. Cardinality(NewIn(v))
      BY <1>8
    <3>. QED
      BY <1>4, <1>11, <3>1, <3>2, PlaceFacts
  <2>3. PlaceOf(u, k) \in 1 .. n
    BY <1>7, <2>1
  <2>4. k \in 1 .. Cardinality(NewIn(v)) /\ k \in 1 .. Cardinality(NewIn(u))
    BY <1>6, <1>8
  <2>5. Distinct(v)[k] = v[PlaceOf(v, k)] /\ Distinct(u)[k] = u[PlaceOf(u, k)]
    BY <1>4, <1>11, <2>4, DistinctFacts
  <2>. QED
    BY <1>4, <2>2, <2>3, <2>5
<1>13. Distinct(v)[c + 1] = x
  <2>1. c + 1 \in 1 .. Cardinality(NewIn(v))
    BY <1>8
  <2>2. n + 1 = PlaceOf(v, c + 1)
    BY <1>4, <1>5, <1>10, <1>11, <2>1, PlaceFacts
  <2>3. Distinct(v)[c + 1] = v[PlaceOf(v, c + 1)]
    BY <1>4, <1>11, <2>1, DistinctFacts
  <2>. QED
    BY <1>4, <2>2, <2>3
<1>14. PICK d : d = Distinct(u)
  OBVIOUS
<1>15. d \in Seq(Nat) /\ Len(d) = c /\ Distinct(v) \in Seq(Nat) /\ Len(Distinct(v)) = c + 1
  BY <1>4, <1>6, <1>8, <1>11, <1>14, DistinctFacts
<1>16. /\ Append(d, x) \in Seq(Nat) /\ Len(Append(d, x)) = c + 1
       /\ Append(d, x)[c + 1] = x /\ \A k \in 1 .. c : Append(d, x)[k] = d[k]
  BY <1>15, AppendProperties
<1>17. \A k \in 1 .. c + 1 : Distinct(v)[k] = Append(d, x)[k]
  <2>1. TAKE k \in 1 .. c + 1
  <2>2. k \in 1 .. c \/ k = c + 1
    OBVIOUS
  <2>. QED
    BY <1>12, <1>13, <1>14, <1>16, <2>2
<1>18. Distinct(v) = Append(d, x)
  BY <1>15, <1>16, <1>17, SeqEqual
<1>. QED
  BY <1>1, <1>11, <1>14, <1>18

\* What the log of the addresses is after one more of them.
LEMMA LogOfAppend ==
    ASSUME NEW u \in Seq(Nat), NEW x \in Nat, Ranked(u)
    PROVE  /\ Ranked(Append(u, x))
           /\ (u # <<>> /\ Last(u) = x) => LogOf(Append(u, x)) = LogOf(u)
           /\ (u # <<>> => Last(u) # x) =>
                LogOf(Append(u, x)) = LastOf(Append(LogOf(u), x), MaxTracked)
<1>1. CASE u # <<>> /\ Last(u) = x
  BY <1>1, DistinctRepeat, LogOfDistinct
<1>2. CASE u # <<>> => Last(u) # x
  <2>1. Ranked(Append(u, x)) /\ Distinct(Append(u, x)) = Append(Distinct(u), x)
    BY <1>2, DistinctAppend
  <2>2. LastOf(Append(LastOf(Distinct(u), MaxTracked), x), MaxTracked)
          = LastOf(Append(Distinct(u), x), MaxTracked)
    <3>1. PICK d : d = Distinct(u)
      OBVIOUS
    <3>2. d \in Seq(Nat)
      BY <3>1, DistinctFacts
    <3>. QED
      BY Caps, <3>1, <3>2, LastOfLastOf
  <2>3. Append(u, x) \in Seq(Nat)
    OBVIOUS
  <2>4. LogOf(u) = LastOf(Distinct(u), MaxTracked)
    BY LogOfDistinct
  <2>5. LogOf(Append(u, x)) = LastOf(Distinct(Append(u, x)), MaxTracked)
    BY <2>1, <2>3, LogOfDistinct
  <2>. QED
    BY <1>2, <2>1, <2>2, <2>4, <2>5
<1>. QED
  BY <1>1, <1>2

LEMMA LogOfNothing == Ranked(<<>>) /\ LogOf(<<>>) = <<>>
<1>1. NewIn(<<>>) = {}
  BY DEF NewIn
<1>2. Cardinality(NewIn(<<>>)) = 0
  BY <1>1, FS_EmptySet
<1>3. Ranked(<<>>)
  BY <1>2 DEF Ranked
<1>4. <<>> \in Seq(Nat)
  OBVIOUS
<1>5. PICK d : d = Distinct(<<>>)
  OBVIOUS
<1>6. d \in Seq(Nat) /\ Len(d) = 0
  BY <1>2, <1>3, <1>4, <1>5, DistinctFacts
<1>7. d = <<>>
  BY <1>6
<1>8. LastOf(<<>>, MaxTracked) = <<>>
  BY Caps DEF LastOf
<1>. QED
  BY <1>3, <1>5, <1>7, <1>8, LogOfDistinct

-----------------------------------------------------------------------------
(* What a step leaves alone, so that each part of the invariant looks only *)
(* at the actions that touch it.                                           *)

\* The logs, and what the worker keeps of the past.
LogsSame == UNCHANGED <<historyLog, storing, stored, since, fetched>>

LEMMA WhoWritesLogs ==
    ASSUME [Next]_vars
    PROVE  \/ LogsSame /\ faults' \in {faults, faults + 1}
           \/ Fetch \/ StoreHistoryEntry \/ Stop
<1>1. CASE \E p \in Pages : Load(p) \/ Leave(p) \/ PageStep(p) \/ Message(p)
  <2> SUFFICES ASSUME NEW p \in Pages, Load(p) \/ Leave(p) \/ PageStep(p) \/ Message(p)
               PROVE  LogsSame /\ faults' \in {faults, faults + 1}
    BY <1>1
  <2>1. CASE Load(p)
    BY <2>1 DEF Load, LogsSame, workerVars
  <2>2. CASE Leave(p)
    BY <2>2 DEF Leave, LogsSame, workerVars
  <2>3. CASE Message(p)
    BY <2>3 DEF Message, LogsSame, workerVars
  <2>4. CASE TrackLocalHistory(p)
    BY <2>4 DEF TrackLocalHistory, LogsSame, workerVars
  <2>5. CASE SetItem(p)
    BY <2>5 DEF SetItem, LogsSame, workerVars, Fails
  <2>6. CASE DetectIncognito(p)
    BY <2>6 DEF DetectIncognito, LogsSame, workerVars
  <2>7. CASE RegisterServiceWorker(p)
    BY <2>7 DEF RegisterServiceWorker, LogsSame, workerVars, Fails
  <2>8. CASE RequestHistory(p)
    BY <2>8 DEF RequestHistory, LogsSame, workerVars
  <2>9. CASE TimesOut(p)
    BY <2>9 DEF TimesOut, LogsSame, workerVars
  <2>. QED
    BY <2>1, <2>2, <2>3, <2>4, <2>5, <2>6, <2>7, <2>8, <2>9 DEF PageStep
<1>2. CASE \E a \in answers : Answered(a)
  BY <1>2 DEF Answered, LogsSame, workerVars
<1>3. CASE Install \/ Activate
  BY <1>3 DEF Install, Activate, LogsSame, workerVars, Fails
<1>4. CASE UNCHANGED vars
  BY <1>4 DEF vars, LogsSame, workerVars
<1>. QED
  BY <1>1, <1>2, <1>3, <1>4 DEF Next

\* The tracked addresses, and what a page is about to write.
TrackingSame ==
    /\ UNCHANGED <<tracked, calls, disturbed>>
    /\ \A p \in Pages : at'[p] \in {"set", "setAgain"} =>
            at[p] = at'[p] /\ read'[p] = read[p] /\ url'[p] = url[p]

LEMMA WhoTracks ==
    ASSUME Typed, [Next]_vars
    PROVE  TrackingSame \/ \E p \in Pages : TrackLocalHistory(p) \/ SetItem(p)
<1>0. DOMAIN at = Pages /\ DOMAIN url = Pages /\ DOMAIN read = Pages
  BY DEF Typed, TypeOK
<1>1. CASE \E p \in Pages : Load(p) \/ Leave(p) \/ Message(p) \/ DetectIncognito(p)
                              \/ RegisterServiceWorker(p) \/ RequestHistory(p) \/ TimesOut(p)
  <2> SUFFICES ASSUME NEW p \in Pages,
                      Load(p) \/ Leave(p) \/ Message(p) \/ DetectIncognito(p)
                        \/ RegisterServiceWorker(p) \/ RequestHistory(p) \/ TimesOut(p)
               PROVE  TrackingSame
    BY <1>1
  <2>1. CASE Load(p)
    BY <1>0, <2>1 DEF Load, Step, TrackingSame, localVars
  <2>2. CASE Leave(p)
    BY <1>0, <2>2 DEF Leave, TrackingSame, localVars
  <2>3. CASE Message(p)
    BY <2>3 DEF Message, TrackingSame, localVars, pageVars
  <2>4. CASE DetectIncognito(p)
    BY <1>0, <2>4 DEF DetectIncognito, Step, TrackingSame, localVars
  <2>5. CASE RegisterServiceWorker(p)
    BY <1>0, <2>5 DEF RegisterServiceWorker, Step, TrackingSame, localVars
  <2>6. CASE RequestHistory(p)
    BY <1>0, <2>6 DEF RequestHistory, Step, TrackingSame, localVars
  <2>7. CASE TimesOut(p)
    BY <1>0, <2>7 DEF TimesOut, Step, TrackingSame, localVars
  <2>. QED
    BY <2>1, <2>2, <2>3, <2>4, <2>5, <2>6, <2>7
<1>2. CASE \E a \in answers : Answered(a)
  <2>1. PICK a \in answers : Answered(a)
    BY <1>2
  <2>2. at' \in {at, [at EXCEPT ![a.page] = "done"]} /\ UNCHANGED <<tracked, calls, disturbed, read, url>>
    BY <2>1 DEF Answered, localVars
  <2>. QED
    BY <1>0, <2>2 DEF TrackingSame
<1>3. CASE Install \/ Activate \/ Fetch \/ StoreHistoryEntry \/ Stop
  BY <1>3 DEF Install, Activate, Fetch, StoreHistoryEntry, Stop, TrackingSame, localVars, pageVars
<1>4. CASE UNCHANGED vars
  BY <1>4 DEF vars, TrackingSame, localVars, pageVars
<1>. QED
  BY <1>1, <1>2, <1>3, <1>4 DEF Next, PageStep

-----------------------------------------------------------------------------
(* The logs.                                                               *)

LEMMA LogStep ==
    ASSUME Typed, LogIsCurrent, [Next]_vars
    PROVE  LogIsCurrent'
<1>1. CASE LogsSame
  BY <1>1 DEF LogsSame, LogIsCurrent, Unbroken
<1>2. CASE Fetch
  <2>1. fetched \in 0 .. MaxFetches /\ fetched' = fetched + 1 /\ fetched < MaxFetches
    BY <1>2 DEF Fetch, Typed
  <2>2. fetched' \in 1 .. MaxFetches /\ historyLog \in Histories
    BY <2>1, Caps DEF Typed, TypeOK
  <2>3. historyLog # <<>> => fetched' = Last(historyLog) + 1
    BY <2>1 DEF LogIsCurrent
  <2>4. historyLog' = LastOf(Append(historyLog, fetched'), MaxLog)
    BY <1>2 DEF Fetch
  <2>5. Unbroken(historyLog') /\ historyLog' # <<>> /\ Last(historyLog') = fetched'
    BY <2>2, <2>3, <2>4, UnbrokenAppend DEF LogIsCurrent
  <2>. QED
    BY <2>5 DEF LogIsCurrent
<1>3. CASE StoreHistoryEntry
  BY <1>3 DEF StoreHistoryEntry, LogIsCurrent, Unbroken
<1>4. CASE Stop
  <2>1. historyLog' = <<>> /\ since' = fetched /\ fetched' = fetched
    BY <1>4 DEF Stop
  <2>. QED
    BY <2>1, Caps DEF LogIsCurrent, Unbroken
<1>. QED
  BY <1>1, <1>2, <1>3, <1>4, WhoWritesLogs

\* The parts of a sequence that is taken apart.
LEMMA TailFacts ==
    ASSUME NEW S, NEW s \in Seq(S), s # <<>>
    PROVE  /\ Len(s) \in Nat \ {0} /\ Head(s) = s[1] /\ Head(s) \in S
           /\ Tail(s) \in Seq(S) /\ Len(Tail(s)) = Len(s) - 1
           /\ \A i \in 1 .. Len(s) - 1 : Tail(s)[i] = s[i + 1]
BY HeadTailProperties, EmptySeq

LEMMA StoreStep ==
    ASSUME Typed, StoreInOrder, [Next]_vars
    PROVE  StoreInOrder'
<1>0. /\ stored \in Seq(1 .. MaxFetches) /\ storing \in Seq(1 .. MaxFetches)
      /\ fetched \in 0 .. MaxFetches /\ since \in 0 .. fetched /\ faults \in Nat
  BY DEF Typed, TypeOK, Histories
<1>01. /\ DOMAIN stored = 1 .. Len(stored) /\ Len(stored) \in Nat
       /\ DOMAIN storing = 1 .. Len(storing) /\ Len(storing) \in Nat
       /\ \A i \in DOMAIN stored : stored[i] \in Nat
       /\ \A i \in DOMAIN storing : storing[i] \in Nat
  <2>1. \A i \in 1 .. Len(stored) : stored[i] \in 1 .. MaxFetches
    BY <1>0, ElementOfSeq
  <2>2. \A i \in 1 .. Len(storing) : storing[i] \in 1 .. MaxFetches
    BY <1>0, ElementOfSeq
  <2>. QED
    BY <1>0, <2>1, <2>2, LenProperties
<1>1. CASE LogsSame /\ faults' \in {faults, faults + 1}
  <2>1. faults' = 0 => faults = 0
    BY <1>0, <1>1
  <2>. QED
    BY <1>1, <2>1 DEF LogsSame, StoreInOrder, Rising
<1>2. CASE Fetch
  <2>1. /\ fetched' = fetched + 1 /\ fetched' \in 1 .. MaxFetches
        /\ storing' = Append(storing, fetched') /\ stored' = stored /\ since' = since
        /\ faults' = faults
    BY <1>0, <1>2, Caps DEF Fetch
  <2>2. /\ Len(storing') = Len(storing) + 1 /\ DOMAIN storing' = 1 .. Len(storing) + 1
        /\ storing'[Len(storing) + 1] = fetched + 1
        /\ \A j \in 1 .. Len(storing) : storing'[j] = storing[j]
    BY <1>0, <2>1, AppendProperties, LenProperties
  <2>3. \A j \in DOMAIN storing' : \/ j \in DOMAIN storing /\ storing'[j] = storing[j]
                                   \/ j = Len(storing) + 1 /\ storing'[j] = fetched + 1
    BY <1>01, <2>2
  <2>4. Rising(storing')
    <3>1. \A j \in 1 .. Len(storing) : storing[j] <= fetched
      BY <1>01 DEF StoreInOrder
    <3>2. ASSUME NEW i \in DOMAIN storing', NEW j \in DOMAIN storing', i < j
          PROVE  storing'[i] < storing'[j]
      <4>1. i \in 1 .. Len(storing) /\ storing'[i] = storing[i] /\ storing[i] \in Nat
        BY <1>01, <2>2, <3>2
      <4>2. CASE j \in DOMAIN storing /\ storing'[j] = storing[j]
        BY <1>01, <3>2, <4>1, <4>2 DEF StoreInOrder, Rising
      <4>3. CASE j = Len(storing) + 1 /\ storing'[j] = fetched + 1
        BY <1>0, <3>1, <4>1, <4>3
      <4>. QED
        BY <2>3, <4>2, <4>3
    <3>. QED
      BY <3>2 DEF Rising
  <2>5. \A j \in DOMAIN storing' : since' < storing'[j] /\ storing'[j] <= fetched'
    BY <1>0, <1>01, <2>1, <2>3 DEF StoreInOrder
  <2>6. \A i \in DOMAIN stored', j \in DOMAIN storing' : stored'[i] < storing'[j]
    BY <1>0, <1>01, <2>1, <2>3 DEF StoreInOrder
  <2>7. \A i \in DOMAIN stored' : stored'[i] <= fetched'
    BY <1>0, <1>01, <2>1 DEF StoreInOrder
  <2>8. faults' = 0 => Len(stored') + Len(storing') = fetched'
    BY <1>01, <2>1, <2>2 DEF StoreInOrder
  <2>9. Rising(stored')
    BY <2>1 DEF StoreInOrder, Rising
  <2>. QED
    BY <2>4, <2>5, <2>6, <2>7, <2>8, <2>9 DEF StoreInOrder
<1>3. CASE StoreHistoryEntry
  <2>1. /\ storing # <<>> /\ storing' = Tail(storing) /\ UNCHANGED <<since, fetched>>
        /\ \/ stored' = Append(stored, Head(storing)) /\ faults' = faults
           \/ stored' = stored /\ faults' = faults + 1
    BY <1>3 DEF StoreHistoryEntry, Fails
  <2>2. /\ Len(storing) \in Nat \ {0} /\ Head(storing) = storing[1] /\ 1 \in DOMAIN storing
        /\ Head(storing) \in 1 .. MaxFetches
        /\ Len(storing') = Len(storing) - 1 /\ DOMAIN storing' = 1 .. Len(storing) - 1
        /\ \A i \in 1 .. Len(storing) - 1 : storing'[i] = storing[i + 1]
    <3>1. /\ Len(storing) \in Nat \ {0} /\ Head(storing) = storing[1]
          /\ Head(storing) \in 1 .. MaxFetches
          /\ storing' \in Seq(1 .. MaxFetches) /\ Len(storing') = Len(storing) - 1
          /\ \A i \in 1 .. Len(storing) - 1 : storing'[i] = storing[i + 1]
      BY <1>0, <2>1, TailFacts
    <3>2. DOMAIN storing' = 1 .. Len(storing')
      BY <3>1, LenProperties
    <3>. QED
      BY <1>01, <3>1, <3>2
  <2>3. \A i \in DOMAIN storing' : i + 1 \in DOMAIN storing /\ 1 < i + 1 /\ storing'[i] = storing[i + 1]
    BY <1>01, <2>2
  <2>4. Rising(storing') /\ \A i \in DOMAIN storing' : storing[1] < storing'[i]
    <3>1. \A i, j \in DOMAIN storing' : i < j => i + 1 < j + 1
      BY <2>2
    <3>. QED
      BY <1>01, <2>2, <2>3, <3>1 DEF StoreInOrder, Rising
  <2>5. \A j \in DOMAIN storing' : since' < storing'[j] /\ storing'[j] <= fetched'
    BY <2>1, <2>3 DEF StoreInOrder
  <2>6. CASE stored' = stored /\ faults' = faults + 1
    <3>1. \A i \in DOMAIN stored', j \in DOMAIN storing' : stored'[i] < storing'[j]
      BY <2>3, <2>6 DEF StoreInOrder
    <3>2. faults' # 0 /\ Rising(stored') /\ \A i \in DOMAIN stored' : stored'[i] <= fetched'
      BY <1>0, <2>1, <2>6 DEF StoreInOrder, Rising
    <3>. QED
      BY <2>4, <2>5, <3>1, <3>2 DEF StoreInOrder
  <2>7. CASE stored' = Append(stored, Head(storing)) /\ faults' = faults
    <3>1. /\ Len(stored') = Len(stored) + 1 /\ DOMAIN stored' = 1 .. Len(stored) + 1
          /\ stored'[Len(stored) + 1] = storing[1]
          /\ \A j \in 1 .. Len(stored) : stored'[j] = stored[j]
      BY <1>0, <2>2, <2>7, AppendProperties, LenProperties
    <3>2. \A i \in DOMAIN stored' : \/ i \in DOMAIN stored /\ stored'[i] = stored[i]
                                    \/ i = Len(stored) + 1 /\ stored'[i] = storing[1]
      BY <1>01, <3>1
    <3>3. Rising(stored')
      <4>1. \A i \in DOMAIN stored : stored[i] < storing[1]
        BY <2>2 DEF StoreInOrder
      <4>2. \A i, j \in DOMAIN stored : i < j => stored[i] < stored[j]
        BY DEF StoreInOrder, Rising
      <4>3. SUFFICES ASSUME NEW i \in DOMAIN stored', NEW j \in DOMAIN stored', i < j
                     PROVE  stored'[i] < stored'[j]
        BY DEF Rising
      <4>4. i \in DOMAIN stored /\ stored'[i] = stored[i]
        <5>1. i # Len(stored) + 1
          BY <1>01, <3>1, <4>3
        <5>. QED
          BY <3>2, <5>1
      <4>5. CASE j \in DOMAIN stored /\ stored'[j] = stored[j]
        BY <4>2, <4>3, <4>4, <4>5
      <4>6. CASE j = Len(stored) + 1 /\ stored'[j] = storing[1]
        BY <4>1, <4>4, <4>6
      <4>. QED
        BY <3>2, <4>5, <4>6
    <3>4. \A i \in DOMAIN stored', j \in DOMAIN storing' : stored'[i] < storing'[j]
      BY <2>3, <2>4, <3>2 DEF StoreInOrder
    <3>5. \A i \in DOMAIN stored' : stored'[i] <= fetched'
      BY <2>1, <2>2, <3>2 DEF StoreInOrder
    <3>6. faults' = 0 => Len(stored') + Len(storing') = fetched'
      BY <1>01, <2>1, <2>2, <2>7, <3>1 DEF StoreInOrder
    <3>. QED
      BY <2>4, <2>5, <3>3, <3>4, <3>5, <3>6 DEF StoreInOrder
  <2>. QED
    BY <2>1, <2>6, <2>7
<1>4. CASE Stop
  <2>1. storing' = <<>> /\ stored' = stored /\ fetched' = fetched /\ faults' = faults + 1
    BY <1>4 DEF Stop, Fails
  <2>2. DOMAIN storing' = {} /\ faults' # 0
    BY <1>0, <2>1
  <2>. QED
    BY <2>1, <2>2 DEF StoreInOrder, Rising
<1>. QED
  BY <1>1, <1>2, <1>3, <1>4, WhoWritesLogs

-----------------------------------------------------------------------------
(* The types.                                                              *)

Places == {"closed", "track", "set", "detect", "trackAgain", "setAgain", "register",
           "activation", "request", "done"}

\* The types, one part for the pages, one for the logs and one for the rest.
PagesTyped ==
    /\ at \in [Pages -> Places]
    /\ url \in [Pages -> Nat] /\ read \in [Pages -> Seq(Nat)]
    /\ controlled \in [Pages -> BOOLEAN]
    /\ tracked \in Seq(Nat) /\ calls \in Seq(Nat) /\ disturbed \in BOOLEAN
    /\ loads \in Nat /\ faults \in Nat

AnswersTyped ==
    /\ history \in [Pages -> Histories \cup {NoHistory}]
    /\ messages \subseteq Pages /\ answers \subseteq [page : Pages, history : Histories]

WorkerTyped ==
    /\ worker \in [id : Nat, state : WorkerStates]
    /\ worker_of \in [Pages -> 0 .. worker.id]

LogsTyped ==
    /\ historyLog \in Histories /\ storing \in Histories /\ stored \in Histories
    /\ fetched \in 0 .. MaxFetches /\ since \in 0 .. fetched
    /\ asked \in [Pages -> 0 .. fetched]

LEMMA TypedParts ==
    Typed <=> (PagesTyped /\ AnswersTyped /\ WorkerTyped /\ LogsTyped)
<1>1. worker \in [id : Nat, state : WorkerStates] => worker.state \in WorkerStates
  OBVIOUS
<1>2. {historyLog, storing, stored} \subseteq Histories
      <=> historyLog \in Histories /\ storing \in Histories /\ stored \in Histories
  OBVIOUS
<1>3. TypeOK <=>
        /\ at \in [Pages -> Places]
        /\ url \in [Pages -> Nat] /\ read \in [Pages -> Seq(Nat)]
        /\ worker_of \in [Pages -> 0 .. worker.id] /\ controlled \in [Pages -> BOOLEAN]
        /\ history \in [Pages -> Histories \cup {NoHistory}]
        /\ tracked \in Seq(Nat) /\ {historyLog, storing, stored} \subseteq Histories
        /\ worker.state \in WorkerStates
        /\ messages \subseteq Pages /\ answers \subseteq [page : Pages, history : Histories]
  BY DEF TypeOK, Places, WorkerStates
<1>. QED
  BY <1>1, <1>2, <1>3, Zenon DEF Typed, PagesTyped, AnswersTyped, WorkerTyped, LogsTyped

LEMMA PagesTypedStep ==
    ASSUME PagesTyped, [Next]_vars
    PROVE  PagesTyped'
<1>1. CASE \E p \in Pages : Load(p) \/ Leave(p) \/ PageStep(p) \/ Message(p)
  <2> SUFFICES ASSUME NEW p \in Pages, Load(p) \/ Leave(p) \/ PageStep(p) \/ Message(p)
               PROVE  PagesTyped'
    BY <1>1
  <2>1. CASE Load(p)
    <3>1. PICK u \in 1 .. loads + 1 : url' = [url EXCEPT ![p] = u]
      BY <2>1 DEF Load
    <3>2. PICK force \in BOOLEAN : controlled' =
            [controlled EXCEPT ![p] = ~force /\ worker.state \in {"activating", "activated"}]
      BY <2>1 DEF Load
    <3>3. u \in Nat /\ loads + 1 \in Nat
      BY DEF PagesTyped
    <3>4. url' \in [Pages -> Nat]
      BY <3>1, <3>3 DEF PagesTyped
    <3>5. controlled' \in [Pages -> BOOLEAN]
      BY <3>2 DEF PagesTyped
    <3>. QED
      BY <2>1, <3>3, <3>4, <3>5 DEF Load, Step, PagesTyped, Places, localVars
  <2>2. CASE Leave(p)
    BY <2>2 DEF Leave, PagesTyped, Places, localVars
  <2>3. CASE Message(p)
    BY <2>3 DEF Message, PagesTyped, localVars, pageVars
  <2>4. CASE TrackLocalHistory(p)
    <3>1. /\ at' \in [Pages -> Places] /\ read' \in [Pages -> Seq(Nat)]
      <4>1. PICK again \in BOOLEAN :
                LET next == IF again THEN "register" ELSE "detect"
                IN IF IsRepeat(tracked, url[p])
                   THEN at' = [at EXCEPT ![p] = next] /\ UNCHANGED read
                   ELSE /\ at' = [at EXCEPT ![p] = IF again THEN "setAgain" ELSE "set"]
                        /\ read' = [read EXCEPT ![p] = tracked]
        BY <2>4 DEF TrackLocalHistory
      <4>. QED
        BY <4>1 DEF PagesTyped, Places
    <3>2. calls' \in Seq(Nat)
      <4>1. calls' = calls \/ calls' = Append(calls, url[p])
        BY <2>4 DEF TrackLocalHistory
      <4>2. url[p] \in Nat
        BY DEF PagesTyped
      <4>3. calls \in Seq(Nat) /\ Append(calls, url[p]) \in Seq(Nat)
        BY <4>2 DEF PagesTyped
      <4>. QED
        BY <4>1, <4>3
    <3>. QED
      BY <2>4, <3>1, <3>2 DEF TrackLocalHistory, PagesTyped
  <2>5. CASE SetItem(p)
    <3>1. at' \in [Pages -> Places]
      BY <2>5 DEF SetItem, Step, PagesTyped, Places
    <3>2. read' \in [Pages -> Seq(Nat)]
      BY <2>5 DEF SetItem, PagesTyped
    <3>30. faults' \in Nat
      BY <2>5 DEF SetItem, Fails, localVars, PagesTyped
    <3>31. disturbed' \in BOOLEAN
      <4>1. disturbed' = disturbed \/ disturbed' = (disturbed \/ tracked # read[p])
        BY <2>5 DEF SetItem, localVars
      <4>2. (disturbed \/ tracked # read[p]) \in BOOLEAN
        BY Zenon
      <4>. QED
        BY <4>1, <4>2, Zenon DEF PagesTyped
    <3>3. faults' \in Nat /\ disturbed' \in BOOLEAN
      BY <3>30, <3>31
    <3>4. calls' \in Seq(Nat) /\ tracked' \in Seq(Nat)
      <4>1. url[p] \in Nat /\ read[p] \in Seq(Nat)
        BY DEF PagesTyped
      <4>2. Append(calls, url[p]) \in Seq(Nat) /\ Append(read[p], url[p]) \in Seq(Nat)
        BY <4>1 DEF PagesTyped
      <4>3. LastOf(Append(read[p], url[p]), MaxTracked) \in Seq(Nat)
        BY <4>2, Caps, LastOfFacts
      <4>. QED
        BY <2>5, <4>2, <4>3 DEF SetItem, localVars, PagesTyped
    <3>. QED
      BY <2>5, <3>1, <3>2, <3>3, <3>4 DEF SetItem, PagesTyped
  <2>6. CASE DetectIncognito(p)
    BY <2>6 DEF DetectIncognito, Step, PagesTyped, Places, localVars
  <2>7. CASE RegisterServiceWorker(p)
    <3>1. at' \in [Pages -> Places]
      BY <2>7 DEF RegisterServiceWorker, Step, PagesTyped, Places
    <3>2. faults' \in Nat
      BY <2>7 DEF RegisterServiceWorker, Fails, PagesTyped
    <3>3. UNCHANGED <<url, read, controlled, localVars, loads>>
      BY <2>7 DEF RegisterServiceWorker
    <3>. QED
      BY <3>1, <3>2, <3>3 DEF PagesTyped, localVars
  <2>8. CASE RequestHistory(p)
    BY <2>8 DEF RequestHistory, Step, PagesTyped, Places, localVars
  <2>9. CASE TimesOut(p)
    BY <2>9 DEF TimesOut, Step, PagesTyped, Places, localVars
  <2>. QED
    BY <2>1, <2>2, <2>3, <2>4, <2>5, <2>6, <2>7, <2>8, <2>9 DEF PageStep
<1>2. CASE \E a \in answers : Answered(a)
  <2>1. PICK a \in answers : Answered(a)
    BY <1>2
  <2>2. at' = at \/ at' = [at EXCEPT ![a.page] = "done"]
    BY <2>1 DEF Answered
  <2>. QED
    BY <2>1, <2>2 DEF Answered, PagesTyped, Places, localVars
<1>3. CASE Install \/ Activate
  <2>1. faults' \in Nat
    BY <1>3 DEF Install, Activate, Fails, PagesTyped
  <2>2. controlled' \in [Pages -> BOOLEAN]
    <3>1. controlled' = controlled \/ controlled' = [p \in Pages |-> at[p] # "closed"]
      BY <1>3 DEF Install, Activate, pageVars
    <3>2. [p \in Pages |-> at[p] # "closed"] \in [Pages -> BOOLEAN]
      OBVIOUS
    <3>. QED
      BY <3>1, <3>2 DEF PagesTyped
  <2>3. UNCHANGED <<at, url, read, localVars, loads>>
    BY <1>3 DEF Install, Activate, pageVars
  <2>. QED
    BY <2>1, <2>2, <2>3 DEF PagesTyped, localVars
<1>4. CASE Fetch \/ StoreHistoryEntry \/ Stop
  BY <1>4 DEF Fetch, StoreHistoryEntry, Stop, Fails, PagesTyped, localVars, pageVars
<1>5. CASE UNCHANGED vars
  BY <1>5 DEF vars, PagesTyped, localVars, pageVars
<1>. QED
  BY <1>1, <1>2, <1>3, <1>4, <1>5 DEF Next

LEMMA AnswersTypedStep ==
    ASSUME AnswersTyped, LogsTyped, [Next]_vars
    PROVE  AnswersTyped'
<1>0. answers \subseteq [page : Pages, history : Histories]
  BY DEF AnswersTyped
<1>1. CASE \E p \in Pages : Load(p) \/ Leave(p) \/ PageStep(p) \/ Message(p)
  <2> SUFFICES ASSUME NEW p \in Pages, Load(p) \/ Leave(p) \/ PageStep(p) \/ Message(p)
               PROVE  AnswersTyped'
    BY <1>1
  <2>1. CASE Load(p)
    BY <2>1 DEF Load, AnswersTyped
  <2>2. CASE Leave(p)
    BY <2>2 DEF Leave, AnswersTyped
  <2>3. CASE Message(p)
    <3>1. answers' = answers \cup {[page |-> p, history |-> historyLog]} /\ messages' = messages \ {p}
      BY <2>3 DEF Message
    <3>2. [page |-> p, history |-> historyLog] \in [page : Pages, history : Histories]
      BY DEF LogsTyped
    <3>3. history' = history
      BY <2>3 DEF Message, pageVars
    <3>. QED
      BY <1>0, <3>1, <3>2, <3>3 DEF AnswersTyped
  <2>4. CASE TrackLocalHistory(p)
    BY <2>4 DEF TrackLocalHistory, AnswersTyped
  <2>5. CASE SetItem(p)
    BY <2>5 DEF SetItem, AnswersTyped
  <2>6. CASE DetectIncognito(p)
    BY <2>6 DEF DetectIncognito, AnswersTyped
  <2>7. CASE RegisterServiceWorker(p)
    BY <2>7 DEF RegisterServiceWorker, AnswersTyped
  <2>8. CASE RequestHistory(p)
    BY <2>8 DEF RequestHistory, AnswersTyped
  <2>9. CASE TimesOut(p)
    BY <2>9 DEF TimesOut, AnswersTyped
  <2>. QED
    BY <2>1, <2>2, <2>3, <2>4, <2>5, <2>6, <2>7, <2>8, <2>9 DEF PageStep
<1>2. CASE \E a \in answers : Answered(a)
  <2>1. PICK a \in answers : Answered(a)
    BY <1>2
  <2>2. a.history \in Histories /\ a.page \in Pages
    BY <1>0
  <2>3. history' = history \/ history' = [history EXCEPT ![a.page] = a.history]
    BY <2>1 DEF Answered
  <2>. QED
    BY <1>0, <2>1, <2>2, <2>3 DEF Answered, AnswersTyped
<1>3. CASE Install \/ Activate
  BY <1>3 DEF Install, Activate, AnswersTyped, pageVars
<1>4. CASE Fetch \/ StoreHistoryEntry \/ Stop
  BY <1>4 DEF Fetch, StoreHistoryEntry, Stop, AnswersTyped, pageVars
<1>5. CASE UNCHANGED vars
  BY <1>5 DEF vars, AnswersTyped, pageVars
<1>. QED
  BY <1>1, <1>2, <1>3, <1>4, <1>5 DEF Next

LEMMA WorkerTypedStep ==
    ASSUME WorkerTyped, [Next]_vars
    PROVE  WorkerTyped'
<1>0. /\ worker.id \in Nat /\ worker.state \in WorkerStates
      /\ worker = [id |-> worker.id, state |-> worker.state]
      /\ worker_of \in [Pages -> 0 .. worker.id]
  BY DEF WorkerTyped
<1>1. CASE \E p \in Pages : RegisterServiceWorker(p)
  <2>1. PICK p \in Pages : RegisterServiceWorker(p)
    BY <1>1
  <2>2. CASE worker' = worker /\ worker_of' = worker_of
    BY <2>2 DEF WorkerTyped
  <2>3. CASE /\ worker' = IF worker.state = "redundant"
                          THEN [id |-> worker.id + 1, state |-> "installing"] ELSE worker
             /\ worker_of' = [worker_of EXCEPT ![p] = worker'.id]
    <3>1. PICK n \in Nat : n = worker.id
      BY <1>0
    <3>2. PICK m : m = worker'.id
      OBVIOUS
    <3>3. m \in {n, n + 1} /\ worker' \in [id : Nat, state : WorkerStates]
      <4>1. CASE worker.state = "redundant"
        BY <2>3, <3>1, <3>2, <4>1 DEF WorkerStates
      <4>2. CASE worker.state # "redundant"
        BY <2>3, <3>1, <3>2, <4>2 DEF WorkerTyped
      <4>. QED
        BY <4>1, <4>2
    <3>4. worker_of \in [Pages -> 0 .. m] /\ m \in 0 .. m
      BY <1>0, <3>1, <3>3
    <3>5. worker_of' \in [Pages -> 0 .. m]
      BY <2>3, <3>2, <3>4
    <3>. QED
      BY <3>2, <3>3, <3>5 DEF WorkerTyped
  <2>. QED
    BY <2>1, <2>2, <2>3 DEF RegisterServiceWorker
<1>2. CASE \E p \in Pages : \/ Load(p) \/ Leave(p) \/ Message(p) \/ TrackLocalHistory(p) \/ SetItem(p)
                            \/ DetectIncognito(p) \/ RequestHistory(p) \/ TimesOut(p)
  <2>1. PICK p \in Pages : \/ Load(p) \/ Leave(p) \/ Message(p) \/ TrackLocalHistory(p) \/ SetItem(p)
                           \/ DetectIncognito(p) \/ RequestHistory(p) \/ TimesOut(p)
    BY <1>2
  <2>2. worker' = worker
    BY <2>1 DEF Load, Leave, Message, TrackLocalHistory, SetItem, DetectIncognito, RequestHistory,
                TimesOut
  <2>3. worker_of' = worker_of \/ worker_of' = [worker_of EXCEPT ![p] = 0]
    BY <2>1 DEF Load, Leave, Message, TrackLocalHistory, SetItem, DetectIncognito, RequestHistory,
                TimesOut, pageVars
  <2>4. 0 \in 0 .. worker.id
    BY <1>0
  <2>. QED
    BY <1>0, <2>2, <2>3, <2>4 DEF WorkerTyped
<1>3. CASE \E a \in answers : Answered(a)
  BY <1>3 DEF Answered, WorkerTyped
<1>4. CASE Install \/ Activate
  <2>1. /\ worker_of' = worker_of
        /\ \E x \in WorkerStates : worker' = [worker EXCEPT !.state = x]
    BY <1>4 DEF Install, Activate, pageVars, WorkerStates
  <2>2. PICK x \in WorkerStates : worker' = [worker EXCEPT !.state = x]
    BY <2>1
  <2>3. worker' \in [id : Nat, state : WorkerStates] /\ worker'.id = worker.id
    BY <2>2 DEF WorkerTyped
  <2>. QED
    BY <1>0, <2>1, <2>3 DEF WorkerTyped
<1>5. CASE Fetch \/ StoreHistoryEntry \/ Stop
  BY <1>5 DEF Fetch, StoreHistoryEntry, Stop, WorkerTyped, pageVars
<1>6. CASE UNCHANGED vars
  BY <1>6 DEF vars, WorkerTyped, pageVars
<1>. QED
  BY <1>1, <1>2, <1>3, <1>4, <1>5, <1>6 DEF Next, PageStep

\* When a page asked: its question is of now, or it has left.
LEMMA WhoAsks ==
    ASSUME [Next]_vars
    PROVE  \/ asked' = asked
           \/ \E p \in Pages : Leave(p) \/ RequestHistory(p)
<1>1. CASE \E p \in Pages : Load(p) \/ PageStep(p) \/ Message(p)
  <2> SUFFICES ASSUME NEW p \in Pages, Load(p) \/ PageStep(p) \/ Message(p), ~RequestHistory(p)
               PROVE  asked' = asked
    BY <1>1
  <2>. QED
    BY DEF PageStep, Load, Message, TrackLocalHistory, SetItem, DetectIncognito,
           RegisterServiceWorker, TimesOut, pageVars
<1>2. CASE (\E a \in answers : Answered(a)) \/ UNCHANGED vars
  BY <1>2 DEF Answered, vars, pageVars
<1>3. CASE Install \/ Activate \/ Fetch \/ StoreHistoryEntry \/ Stop
  BY <1>3 DEF Install, Activate, Fetch, StoreHistoryEntry, Stop, pageVars
<1>. QED
  BY <1>1, <1>2, <1>3 DEF Next

LEMMA LogsTypedStep ==
    ASSUME LogsTyped, [Next]_vars
    PROVE  LogsTyped'
<1>0. /\ MaxFetches \in Nat /\ fetched \in 0 .. MaxFetches /\ since \in 0 .. fetched
      /\ asked \in [Pages -> 0 .. fetched]
      /\ historyLog \in Seq(1 .. MaxFetches) /\ storing \in Seq(1 .. MaxFetches)
      /\ stored \in Seq(1 .. MaxFetches)
  BY Caps DEF LogsTyped, Histories
<1>1. fetched' \in fetched .. MaxFetches /\ since' \in 0 .. fetched'
  <2>1. CASE LogsSame
    BY <1>0, <2>1 DEF LogsSame
  <2>2. CASE Fetch
    BY <1>0, <2>2 DEF Fetch
  <2>3. CASE StoreHistoryEntry
    BY <1>0, <2>3 DEF StoreHistoryEntry
  <2>4. CASE Stop
    BY <1>0, <2>4 DEF Stop
  <2>. QED
    BY <2>1, <2>2, <2>3, <2>4, WhoWritesLogs
<1>2. asked' \in [Pages -> 0 .. fetched']
  <2>1. asked \in [Pages -> 0 .. fetched']
    BY <1>0, <1>1
  <2>2. CASE asked' = asked
    BY <2>1, <2>2
  <2>3. CASE \E p \in Pages : Leave(p) \/ RequestHistory(p)
    <3>1. PICK p \in Pages : Leave(p) \/ RequestHistory(p)
      BY <2>3
    <3>2. asked' = [asked EXCEPT ![p] = 0] \/ asked' = [asked EXCEPT ![p] = fetched]
      BY <3>1 DEF Leave, RequestHistory
    <3>3. 0 \in 0 .. fetched' /\ fetched \in 0 .. fetched'
      BY <1>0, <1>1
    <3>. QED
      BY <2>1, <3>2, <3>3
  <2>. QED
    BY <2>2, <2>3, WhoAsks
<1>3. /\ historyLog' \in Seq(1 .. MaxFetches) /\ storing' \in Seq(1 .. MaxFetches)
      /\ stored' \in Seq(1 .. MaxFetches)
  <2>1. CASE LogsSame
    BY <1>0, <2>1 DEF LogsSame
  <2>2. CASE Fetch
    <3>1. fetched' \in 1 .. MaxFetches
      BY <1>0, <2>2 DEF Fetch
    <3>2. /\ Append(historyLog, fetched') \in Seq(1 .. MaxFetches)
          /\ Append(storing, fetched') \in Seq(1 .. MaxFetches)
      BY <1>0, <3>1, AppendProperties
    <3>3. LastOf(Append(historyLog, fetched'), MaxLog) \in Seq(1 .. MaxFetches)
      BY <3>2, Caps, LastOfFacts
    <3>. QED
      BY <1>0, <2>2, <3>2, <3>3 DEF Fetch
  <2>3. CASE StoreHistoryEntry
    <3>1. Tail(storing) \in Seq(1 .. MaxFetches) /\ Head(storing) \in 1 .. MaxFetches
      BY <1>0, <2>3, TailFacts DEF StoreHistoryEntry
    <3>2. Append(stored, Head(storing)) \in Seq(1 .. MaxFetches)
      BY <1>0, <3>1, AppendProperties
    <3>. QED
      BY <1>0, <2>3, <3>1, <3>2 DEF StoreHistoryEntry
  <2>4. CASE Stop
    <3>1. historyLog' = <<>> /\ storing' = <<>> /\ stored' = stored
      BY <2>4 DEF Stop
    <3>. QED
      BY <1>0, <3>1, EmptySeq
  <2>. QED
    BY <2>1, <2>2, <2>3, <2>4, WhoWritesLogs
<1>4. fetched' \in 0 .. MaxFetches
  BY <1>0, <1>1
<1>. QED
  BY <1>1, <1>2, <1>3, <1>4 DEF LogsTyped, Histories

LEMMA TypedStep == ASSUME Typed, [Next]_vars PROVE Typed'
<1>1. PagesTyped /\ AnswersTyped /\ WorkerTyped /\ LogsTyped
  BY TypedParts
<1>2. PagesTyped' /\ AnswersTyped' /\ WorkerTyped' /\ LogsTyped'
  BY <1>1, PagesTypedStep, AnswersTypedStep, WorkerTypedStep, LogsTypedStep
<1>3. (Typed <=> (PagesTyped /\ AnswersTyped /\ WorkerTyped /\ LogsTyped))'
  BY TypedParts, PTL
<1>. QED
  BY <1>2, <1>3

-----------------------------------------------------------------------------
(* The answers.                                                            *)

\* The worker is only ever started later.
LEMMA SinceGrows == ASSUME Typed, [Next]_vars PROVE since' \in Nat /\ since \in Nat /\ since' >= since
<1>1. fetched \in Nat /\ since \in 0 .. fetched
  BY DEF Typed
<1>2. since' \in {since, fetched}
  BY WhoWritesLogs DEF LogsSame, Fetch, StoreHistoryEntry, Stop
<1>. QED
  BY <1>1, <1>2

\* An answer stays one to a question that stays the same.
LEMMA AnswersKept ==
    ASSUME Typed, Typed', [Next]_vars, NEW p \in Pages, asked'[p] = asked[p], NEW h, Answers(p, h)
    PROVE  Answers(p, h)'
<1>1. asked[p] \in Nat /\ since \in Nat /\ since' \in Nat /\ since' >= since
  BY SinceGrows DEF Typed
<1>2. h = <<>> /\ since >= asked[p] => since' >= asked'[p]
  BY <1>1
<1>. QED
  BY <1>2 DEF Answers, Unbroken

LEMMA AskedPages ==
    ASSUME Typed
    PROVE  messages \subseteq Pages /\ \A a \in answers : a.page \in Pages
<1>1. messages \subseteq Pages /\ answers \subseteq [page : Pages, history : Histories]
  BY DEF Typed, TypeOK
<1>. QED
  BY <1>1

\* Page p goes on that has no question or answer under way.
GoesOn(p) ==
    /\ at[p] \notin {"request", "done"}
    /\ \A q \in Pages \ {p} : at'[q] = at[q] /\ asked'[q] = asked[q]
    /\ messages' \subseteq messages \cup {p} /\ (p \in messages' => at'[p] = "request")
    /\ answers' = answers /\ history' = history

LEMMA GoesOnKeeps ==
    ASSUME Typed, Typed', [Next]_vars, AnswersAreCurrent, NEW p \in Pages, GoesOn(p)
    PROVE  AnswersAreCurrent'
<1>0. messages \subseteq Pages /\ \A a \in answers : a.page \in Pages
  BY AskedPages
<1>1. \A q \in messages : q # p
  BY DEF GoesOn, AnswersAreCurrent
<1>2. \A q \in messages' : at'[q] \in {"request", "done"}
  BY <1>0, <1>1 DEF GoesOn, AnswersAreCurrent
<1>3. ASSUME NEW a \in answers'
      PROVE  at'[a.page] \in {"request", "done"} /\ Answers(a.page, a.history)'
  <2>1. a \in answers /\ a.page # p /\ a.page \in Pages
    BY <1>0 DEF GoesOn, AnswersAreCurrent
  <2>2. at'[a.page] = at[a.page] /\ asked'[a.page] = asked[a.page] /\ Answers(a.page, a.history)
    BY <2>1 DEF GoesOn, AnswersAreCurrent
  <2>. QED
    BY <2>1, <2>2, AnswersKept DEF AnswersAreCurrent
<1>4. ASSUME NEW q \in Pages, history'[q] # NoHistory
      PROVE  at'[q] = "done" /\ Answers(q, history[q])'
  <2>1. q # p /\ history'[q] = history[q] /\ at[q] = "done" /\ Answers(q, history[q])
    BY <1>4 DEF GoesOn, AnswersAreCurrent
  <2>2. PICK h : h = history[q]
    OBVIOUS
  <2>3. at'[q] = at[q] /\ asked'[q] = asked[q]
    BY <2>1 DEF GoesOn
  <2>4. Answers(q, h)'
    BY <2>1, <2>2, <2>3, AnswersKept
  <2>5. Answers(q, history[q])'
    BY <2>1, <2>2, <2>4 DEF Answers
  <2>. QED
    BY <2>1, <2>3, <2>5
<1>. QED
  BY <1>2, <1>3, <1>4 DEF AnswersAreCurrent

\* Nothing happens to a question, except that a page may stop waiting.
LEMMA WaitsKeep ==
    ASSUME Typed, Typed', [Next]_vars, AnswersAreCurrent,
           \A q \in Pages : at'[q] = at[q] \/ (at[q] = "request" /\ at'[q] = "done"),
           asked' = asked, messages' = messages, answers' = answers, history' = history
    PROVE  AnswersAreCurrent'
<1>0. messages \subseteq Pages /\ \A a \in answers : a.page \in Pages
  BY AskedPages
<1>1. \A q \in messages' : at'[q] \in {"request", "done"}
  BY <1>0 DEF AnswersAreCurrent
<1>2. ASSUME NEW a \in answers'
      PROVE  at'[a.page] \in {"request", "done"} /\ Answers(a.page, a.history)'
  <2>1. a.page \in Pages /\ at[a.page] \in {"request", "done"} /\ Answers(a.page, a.history)
    BY <1>0 DEF AnswersAreCurrent
  <2>. QED
    BY <2>1, AnswersKept
<1>3. ASSUME NEW q \in Pages, history'[q] # NoHistory
      PROVE  at'[q] = "done" /\ Answers(q, history[q])'
  <2>1. history'[q] = history[q] /\ at[q] = "done" /\ Answers(q, history[q])
    BY <1>3 DEF AnswersAreCurrent
  <2>2. PICK h : h = history[q]
    OBVIOUS
  <2>3. Answers(q, h)'
    BY <2>1, <2>2, AnswersKept
  <2>4. Answers(q, history[q])'
    BY <2>1, <2>2, <2>3 DEF Answers
  <2>. QED
    BY <2>1, <2>4
<1>. QED
  BY <1>1, <1>2, <1>3 DEF AnswersAreCurrent

LEMMA LeaveKeeps ==
    ASSUME Typed, Typed', [Next]_vars, AnswersAreCurrent, NEW p \in Pages, Leave(p)
    PROVE  AnswersAreCurrent'
<1>0. messages \subseteq Pages /\ \A a \in answers : a.page \in Pages
  BY AskedPages
<1>1. \A q \in Pages \ {p} : at'[q] = at[q] /\ asked'[q] = asked[q] /\ history'[q] = history[q]
  BY DEF Leave, Typed, TypeOK
<1>2. history'[p] = NoHistory
  BY DEF Leave, Typed, TypeOK
<1>3. messages' = messages \ {p} /\ answers' = {a \in answers : a.page # p}
  BY DEF Leave
<1>4. \A q \in messages' : at'[q] \in {"request", "done"}
  BY <1>0, <1>1, <1>3 DEF AnswersAreCurrent
<1>5. ASSUME NEW a \in answers'
      PROVE  at'[a.page] \in {"request", "done"} /\ Answers(a.page, a.history)'
  <2>1. a.page \in Pages \ {p} /\ at[a.page] \in {"request", "done"} /\ Answers(a.page, a.history)
    BY <1>0, <1>3 DEF AnswersAreCurrent
  <2>. QED
    BY <1>1, <2>1, AnswersKept
<1>6. ASSUME NEW q \in Pages, history'[q] # NoHistory
      PROVE  at'[q] = "done" /\ Answers(q, history[q])'
  <2>1. q \in Pages \ {p} /\ history'[q] = history[q] /\ at[q] = "done" /\ Answers(q, history[q])
    BY <1>1, <1>2, <1>6 DEF AnswersAreCurrent
  <2>2. PICK h : h = history[q]
    OBVIOUS
  <2>3. Answers(q, h)'
    BY <1>1, <2>1, <2>2, AnswersKept
  <2>4. Answers(q, history[q])'
    BY <2>1, <2>2, <2>3 DEF Answers
  <2>. QED
    BY <1>1, <2>1, <2>4
<1>. QED
  BY <1>4, <1>5, <1>6 DEF AnswersAreCurrent

LEMMA MessageKeeps ==
    ASSUME Typed, Typed', [Next]_vars, LogIsCurrent, AnswersAreCurrent, NEW p \in Pages, Message(p)
    PROVE  AnswersAreCurrent'
<1>0. messages \subseteq Pages /\ \A a \in answers : a.page \in Pages
  BY AskedPages
<1>1. /\ p \in messages /\ messages' = messages \ {p} /\ at' = at /\ asked' = asked
      /\ history' = history /\ since' = since /\ fetched' = fetched
      /\ answers' = answers \cup {[page |-> p, history |-> historyLog]}
  BY DEF Message, pageVars, workerVars
<1>2. Answers(p, historyLog)
  <2>1. asked[p] <= fetched
    BY DEF Typed
  <2>. QED
    BY <2>1 DEF Answers, LogIsCurrent, Typed
<1>3. \A q \in messages' : at'[q] \in {"request", "done"}
  BY <1>1 DEF AnswersAreCurrent
<1>4. ASSUME NEW a \in answers'
      PROVE  at'[a.page] \in {"request", "done"} /\ Answers(a.page, a.history)'
  <2>1. CASE a \in answers
    <3>1. a.page \in Pages /\ at[a.page] \in {"request", "done"} /\ Answers(a.page, a.history)
      BY <1>0, <2>1 DEF AnswersAreCurrent
    <3>. QED
      BY <1>1, <3>1, AnswersKept
  <2>2. CASE a = [page |-> p, history |-> historyLog]
    <3>1. a.page = p /\ a.history = historyLog /\ at[p] \in {"request", "done"}
      BY <1>1, <2>2 DEF AnswersAreCurrent
    <3>2. Answers(a.page, a.history)
      BY <1>2, <3>1
    <3>3. a.page \in Pages /\ asked'[a.page] = asked[a.page]
      BY <1>1, <3>1
    <3>4. Answers(a.page, a.history)'
      BY <3>2, <3>3, AnswersKept
    <3>. QED
      BY <1>1, <3>1, <3>4
  <2>. QED
    BY <1>1, <2>1, <2>2
<1>5. ASSUME NEW q \in Pages, history'[q] # NoHistory
      PROVE  at'[q] = "done" /\ Answers(q, history[q])'
  <2>1. history'[q] = history[q] /\ at'[q] = "done" /\ Answers(q, history[q])
    BY <1>1, <1>5 DEF AnswersAreCurrent
  <2>2. Answers(q, history[q])'
    BY <1>1, <2>1 DEF Answers, Unbroken
  <2>. QED
    BY <2>1, <2>2
<1>. QED
  BY <1>3, <1>4, <1>5 DEF AnswersAreCurrent

LEMMA AnsweredKeeps ==
    ASSUME Typed, Typed', [Next]_vars, AnswersAreCurrent, NEW b \in answers, Answered(b)
    PROVE  AnswersAreCurrent'
<1>0. messages \subseteq Pages /\ \A a \in answers : a.page \in Pages
  BY AskedPages
<1>1. /\ answers' = answers \ {b} /\ messages' = messages /\ asked' = asked /\ since' = since
      /\ b.page \in Pages /\ Answers(b.page, b.history)
      /\ \/ at' = [at EXCEPT ![b.page] = "done"] /\ history' = [history EXCEPT ![b.page] = b.history]
         \/ at' = at /\ history' = history
  <2>1. b.page \in Pages /\ Answers(b.page, b.history)
    BY <1>0 DEF AnswersAreCurrent
  <2>2. answers' = answers \ {b} /\ messages' = messages /\ asked' = asked /\ since' = since
    BY DEF Answered, workerVars
  <2>3. \/ at' = [at EXCEPT ![b.page] = "done"] /\ history' = [history EXCEPT ![b.page] = b.history]
        \/ at' = at /\ history' = history
    BY DEF Answered
  <2>. QED
    BY <2>1, <2>2, <2>3
<1>2. \A q \in Pages : at[q] \in {"request", "done"} => at'[q] \in {"request", "done"}
  <2>1. DOMAIN at = Pages
    BY DEF Typed, TypeOK
  <2>2. at' = [at EXCEPT ![b.page] = "done"] \/ at' = at
    BY <1>1
  <2>. QED
    BY <2>1, <2>2
<1>3. \A q \in messages' : at'[q] \in {"request", "done"}
  BY <1>0, <1>1, <1>2 DEF AnswersAreCurrent
<1>4. ASSUME NEW a \in answers'
      PROVE  at'[a.page] \in {"request", "done"} /\ Answers(a.page, a.history)'
  <2>1. a.page \in Pages /\ at[a.page] \in {"request", "done"} /\ Answers(a.page, a.history)
    BY <1>0, <1>1 DEF AnswersAreCurrent
  <2>. QED
    BY <1>1, <1>2, <2>1, AnswersKept
<1>5. ASSUME NEW q \in Pages, history'[q] # NoHistory
      PROVE  at'[q] = "done" /\ Answers(q, history[q])'
  <2>1. CASE at'[q] = "done" /\ q = b.page /\ history'[q] = b.history
    <3>1. Answers(q, history[q])'
      BY <1>1, <2>1 DEF Answers, Unbroken
    <3>. QED
      BY <2>1, <3>1
  <2>2. CASE at'[q] = at[q] /\ history'[q] = history[q]
    <3>1. at[q] = "done" /\ Answers(q, history[q])
      BY <1>5, <2>2 DEF AnswersAreCurrent
    <3>2. Answers(q, history[q])'
      BY <1>1, <2>2, <3>1 DEF Answers, Unbroken
    <3>. QED
      BY <2>2, <3>1, <3>2
  <2>3. at \in [Pages -> Places] /\ history \in [Pages -> Histories \cup {NoHistory}]
    BY TypedParts DEF PagesTyped, AnswersTyped
  <2>. QED
    BY <1>1, <1>5, <2>1, <2>2, <2>3
<1>. QED
  BY <1>3, <1>4, <1>5 DEF AnswersAreCurrent

LEMMA AnswersStep ==
    ASSUME Typed, Typed', LogIsCurrent, AnswersAreCurrent, [Next]_vars
    PROVE  AnswersAreCurrent'
<1>0. DOMAIN at = Pages /\ DOMAIN asked = Pages
  BY DEF Typed, TypeOK
<1>1. ASSUME NEW p \in Pages, Load(p) PROVE AnswersAreCurrent'
  <2>1. GoesOn(p)
    BY <1>0, <1>1 DEF Load, Step, GoesOn, AnswersAreCurrent
  <2>. QED
    BY <2>1, GoesOnKeeps
<1>2. ASSUME NEW p \in Pages, TrackLocalHistory(p) PROVE AnswersAreCurrent'
  <2>1. PICK again \in BOOLEAN :
            LET next == IF again THEN "register" ELSE "detect"
            IN /\ at[p] = IF again THEN "trackAgain" ELSE "track"
               /\ IF IsRepeat(tracked, url[p])
                  THEN at' = [at EXCEPT ![p] = next] /\ UNCHANGED read
                  ELSE /\ at' = [at EXCEPT ![p] = IF again THEN "setAgain" ELSE "set"]
                       /\ read' = [read EXCEPT ![p] = tracked]
    BY <1>2 DEF TrackLocalHistory
  <2>2. at[p] \notin {"request", "done"} /\ \A q \in Pages \ {p} : at'[q] = at[q]
    BY <1>0, <2>1
  <2>3. GoesOn(p)
    BY <1>2, <2>2 DEF TrackLocalHistory, GoesOn, AnswersAreCurrent
  <2>. QED
    BY <2>3, GoesOnKeeps
<1>3. ASSUME NEW p \in Pages, SetItem(p) PROVE AnswersAreCurrent'
  <2>1. GoesOn(p)
    BY <1>0, <1>3 DEF SetItem, Step, GoesOn, AnswersAreCurrent
  <2>. QED
    BY <2>1, GoesOnKeeps
<1>4. ASSUME NEW p \in Pages, DetectIncognito(p) \/ RegisterServiceWorker(p) PROVE AnswersAreCurrent'
  <2>1. GoesOn(p)
    BY <1>0, <1>4 DEF DetectIncognito, RegisterServiceWorker, Step, GoesOn, AnswersAreCurrent
  <2>. QED
    BY <2>1, GoesOnKeeps
<1>5. ASSUME NEW p \in Pages, RequestHistory(p) PROVE AnswersAreCurrent'
  <2>1. GoesOn(p)
    BY <1>0, <1>5 DEF RequestHistory, Step, GoesOn, AnswersAreCurrent
  <2>. QED
    BY <2>1, GoesOnKeeps
<1>6. ASSUME NEW p \in Pages, TimesOut(p) PROVE AnswersAreCurrent'
  <2>1. /\ \A q \in Pages : at'[q] = at[q] \/ (at[q] = "request" /\ at'[q] = "done")
        /\ asked' = asked /\ messages' = messages /\ answers' = answers /\ history' = history
    BY <1>0, <1>6 DEF TimesOut, Step
  <2>. QED
    BY <2>1, WaitsKeep
<1>7. CASE Install \/ Activate \/ Fetch \/ StoreHistoryEntry \/ Stop \/ UNCHANGED vars
  <2>1. /\ at' = at /\ asked' = asked /\ messages' = messages /\ answers' = answers
        /\ history' = history
    BY <1>7 DEF Install, Activate, Fetch, StoreHistoryEntry, Stop, vars, pageVars
  <2>. QED
    BY <2>1, WaitsKeep
<1>8. CASE \E p \in Pages : Leave(p) \/ Message(p)
  BY <1>8, LeaveKeeps, MessageKeeps
<1>9. CASE \E a \in answers : Answered(a)
  BY <1>9, AnsweredKeeps
<1>. QED
  BY <1>1, <1>2, <1>3, <1>4, <1>5, <1>6, <1>7, <1>8, <1>9 DEF Next, PageStep

-----------------------------------------------------------------------------
(* The tracked addresses.                                                  *)

LEMMA IsRepeatFacts ==
    ASSUME TrackedInOrder, NEW u
    PROVE  IsRepeat(tracked, u) <=> (calls # <<>> /\ Last(calls) = u)
BY DEF TrackedInOrder, IsRepeat

\* A repeated address is not written, another one is to be.
LEMMA TrackKeeps ==
    ASSUME Typed, TrackedInOrder, NEW p \in Pages, TrackLocalHistory(p)
    PROVE  TrackedInOrder'
<1>0. /\ DOMAIN at = Pages /\ DOMAIN read = Pages /\ url[p] \in Nat
      /\ calls \in Seq(Nat) /\ tracked \in Seq(Nat)
  BY DEF Typed, TypeOK
<1>1. UNCHANGED <<url, tracked, disturbed>>
  BY DEF TrackLocalHistory
<1>2. CASE IsRepeat(tracked, url[p])
  <2>1. /\ calls' = Append(calls, url[p]) /\ read' = read
        /\ \E next \in {"register", "detect"} : at' = [at EXCEPT ![p] = next]
    BY <1>2 DEF TrackLocalHistory
  <2>2. calls # <<>> /\ Last(calls) = url[p] /\ Ranked(calls)
    BY <1>2, IsRepeatFacts DEF TrackedInOrder
  <2>3. calls' # <<>> /\ Last(calls') = url[p]
    BY <1>0, <2>1, AppendProperties DEF Last
  <2>4. Ranked(calls') /\ LogOf(calls') = LogOf(calls)
    BY <1>0, <2>1, <2>2, LogOfAppend
  <2>5. tracked # <<>> /\ Last(tracked) = url[p]
    BY <1>2 DEF IsRepeat
  <2>6. ASSUME NEW q \in Pages, at'[q] \in {"set", "setAgain"}
        PROVE  Len(read'[q]) <= MaxTracked /\ NoRepeats(read'[q]) /\ ~IsRepeat(read'[q], url'[q])
    <3>1. at'[q] = at[q]
      BY <1>0, <2>1, <2>6
    <3>. QED
      BY <1>1, <2>1, <2>6, <3>1 DEF TrackedInOrder
  <2>. QED
    BY <1>1, <2>3, <2>4, <2>5, <2>6 DEF TrackedInOrder
<1>3. CASE ~IsRepeat(tracked, url[p])
  <2>1. /\ calls' = calls /\ read' = [read EXCEPT ![p] = tracked]
        /\ \E next \in {"set", "setAgain"} : at' = [at EXCEPT ![p] = next]
    BY <1>3 DEF TrackLocalHistory
  <2>2. ASSUME NEW q \in Pages, at'[q] \in {"set", "setAgain"}
        PROVE  Len(read'[q]) <= MaxTracked /\ NoRepeats(read'[q]) /\ ~IsRepeat(read'[q], url'[q])
    <3>1. CASE q = p
      BY <1>0, <1>1, <1>3, <2>1, <3>1 DEF TrackedInOrder
    <3>2. CASE q # p
      <4>1. at'[q] = at[q] /\ read'[q] = read[q]
        BY <1>0, <2>1, <3>2
      <4>. QED
        BY <1>1, <2>2, <4>1 DEF TrackedInOrder
    <3>. QED
      BY <3>1, <3>2
  <2>. QED
    BY <1>1, <2>1, <2>2 DEF TrackedInOrder
<1>. QED
  BY <1>2, <1>3

\* What is written follows the log that was read, which is the one that is there as long
\* as no page has written in between.
LEMMA SetItemKeeps ==
    ASSUME Typed, TrackedInOrder, NEW p \in Pages, SetItem(p)
    PROVE  TrackedInOrder'
<1>0. /\ DOMAIN at = Pages /\ DOMAIN read = Pages /\ url[p] \in Nat /\ read[p] \in Seq(Nat)
      /\ calls \in Seq(Nat) /\ tracked \in Seq(Nat)
  BY DEF Typed, TypeOK
<1>1. /\ at[p] \in {"set", "setAgain"} /\ url' = url /\ read' = [read EXCEPT ![p] = <<>>]
      /\ \E next \in {"register", "detect"} : at' = [at EXCEPT ![p] = next]
  BY DEF SetItem, Step
<1>2. /\ Len(read[p]) <= MaxTracked /\ NoRepeats(read[p]) /\ ~IsRepeat(read[p], url[p])
  BY <1>1 DEF TrackedInOrder
<1>3. ASSUME NEW q \in Pages, at'[q] \in {"set", "setAgain"}
      PROVE  Len(read'[q]) <= MaxTracked /\ NoRepeats(read'[q]) /\ ~IsRepeat(read'[q], url'[q])
  <2>1. q # p /\ at'[q] = at[q] /\ read'[q] = read[q]
    BY <1>0, <1>1, <1>3
  <2>. QED
    BY <1>1, <1>3, <2>1 DEF TrackedInOrder
<1>4. CASE UNCHANGED localVars
  BY <1>3, <1>4 DEF localVars, TrackedInOrder
<1>5. CASE /\ tracked' = LastOf(Append(read[p], url[p]), MaxTracked)
           /\ calls' = Append(calls, url[p])
           /\ disturbed' = (disturbed \/ tracked # read[p])
  <2>1. PICK t : t = Append(read[p], url[p])
    OBVIOUS
  <2>2. t \in Seq(Nat) /\ t # <<>> /\ Last(t) = url[p]
    BY <1>0, <2>1, AppendProperties DEF Last
  <2>3. /\ tracked' \in Seq(Nat) /\ Len(tracked') <= MaxTracked
        /\ tracked' # <<>> /\ Last(tracked') = url[p]
    BY <1>5, <2>1, <2>2, Caps, LastOfFacts
  <2>4. NoRepeats(tracked')
    BY <1>0, <1>2, <1>5, NoRepeatsAppend
  <2>5. calls' # <<>> /\ Last(calls') = url[p]
    BY <1>0, <1>5, AppendProperties DEF Last
  <2>6. Ranked(calls) /\ Ranked(calls')
    BY <1>0, <1>5, LogOfAppend DEF TrackedInOrder
  <2>7. ASSUME ~disturbed' PROVE tracked' = LogOf(calls')
    <3>1. ~disturbed /\ tracked = read[p]
      BY <1>5, <2>7
    <3>2. tracked = LogOf(calls) /\ ~IsRepeat(tracked, url[p])
      BY <1>2, <3>1 DEF TrackedInOrder
    <3>3. calls # <<>> => Last(calls) # url[p]
      BY <3>2, IsRepeatFacts
    <3>4. LogOf(Append(calls, url[p])) = LastOf(Append(LogOf(calls), url[p]), MaxTracked)
      BY <1>0, <2>6, <3>3, LogOfAppend
    <3>. QED
      BY <1>5, <3>1, <3>2, <3>4
  <2>. QED
    BY <1>3, <2>3, <2>4, <2>5, <2>6, <2>7 DEF TrackedInOrder
<1>. QED
  BY <1>4, <1>5 DEF SetItem

LEMMA TrackedStep ==
    ASSUME Typed, TrackedInOrder, [Next]_vars
    PROVE  TrackedInOrder'
<1>1. CASE TrackingSame
  <2>1. UNCHANGED <<tracked, calls, disturbed>>
    BY <1>1 DEF TrackingSame
  <2>2. ASSUME NEW q \in Pages, at'[q] \in {"set", "setAgain"}
        PROVE  Len(read'[q]) <= MaxTracked /\ NoRepeats(read'[q]) /\ ~IsRepeat(read'[q], url'[q])
    BY <1>1, <2>2 DEF TrackingSame, TrackedInOrder
  <2>. QED
    BY <2>1, <2>2 DEF TrackedInOrder
<1>2. CASE \E p \in Pages : TrackLocalHistory(p) \/ SetItem(p)
  BY <1>2, TrackKeeps, SetItemKeeps
<1>. QED
  BY <1>1, <1>2, WhoTracks

-----------------------------------------------------------------------------
(* The theorems.                                                           *)

LEMMA InitOK == ASSUME Init PROVE IInv
<1>1. /\ MaxLog \in Nat \ {0} /\ MaxTracked \in Nat \ {0} /\ MaxFetches \in Nat
  BY Caps
<1>2. <<>> \in Histories /\ <<>> \in Seq(Nat) /\ Len(<<>>) = 0 /\ DOMAIN <<>> = {}
  BY DEF Histories
<1>3. Typed
  <2>1. PagesTyped
    BY <1>2 DEF Init, PagesTyped, Places
  <2>2. AnswersTyped
    BY DEF Init, AnswersTyped
  <2>3. WorkerTyped
    BY DEF Init, WorkerTyped, WorkerStates
  <2>4. LogsTyped
    BY <1>1, <1>2 DEF Init, LogsTyped
  <2>. QED
    BY <2>1, <2>2, <2>3, <2>4, TypedParts
<1>4. LogIsCurrent
  BY <1>1, <1>2 DEF Init, LogIsCurrent, Unbroken
<1>5. AnswersAreCurrent
  BY DEF Init, AnswersAreCurrent
<1>6. StoreInOrder
  BY <1>2 DEF Init, StoreInOrder, Rising
<1>7. TrackedInOrder
  BY <1>1, <1>2, LogOfNothing DEF Init, TrackedInOrder, NoRepeats
<1>. QED
  BY <1>3, <1>4, <1>5, <1>6, <1>7 DEF IInv

\* The inductive invariant holds of every reachable state, for every number of pages and
\* every cap, whatever calls of the browser fail.
THEOREM Invariance == Spec => []IInv
<1>1. Init => IInv
  BY InitOK
<1>2. IInv /\ [Next]_vars => IInv'
  <2> SUFFICES ASSUME IInv, [Next]_vars PROVE IInv'
    OBVIOUS
  <2>1. Typed /\ LogIsCurrent /\ AnswersAreCurrent /\ StoreInOrder /\ TrackedInOrder
    BY DEF IInv
  <2>2. Typed'
    BY <2>1, TypedStep
  <2>3. LogIsCurrent' /\ StoreInOrder' /\ TrackedInOrder'
    BY <2>1, LogStep, StoreStep, TrackedStep
  <2>4. AnswersAreCurrent'
    BY <2>1, <2>2, AnswersStep
  <2>. QED
    BY <2>2, <2>3, <2>4 DEF IInv
<1>. QED
  BY <1>1, <1>2, PTL DEF Spec

\* What is stored and being stored, one after the other.
LEMMA BothFacts ==
    ASSUME Typed, StoreInOrder
    PROVE  /\ Len(stored \o storing) = Len(stored) + Len(storing)
           /\ \A i, j \in 1 .. Len(stored \o storing) :
                i < j => (stored \o storing)[i] < (stored \o storing)[j]
           /\ \A i \in 1 .. Len(stored \o storing) : (stored \o storing)[i] \in Nat
<1>1. /\ stored \in Seq(1 .. MaxFetches) /\ storing \in Seq(1 .. MaxFetches)
  BY DEF Typed, TypeOK, Histories
<1>2. PICK a \in Nat : a = Len(stored)
  BY <1>1, LenProperties
<1>3. PICK b \in Nat : b = Len(storing)
  BY <1>1, LenProperties
<1>4. PICK s : s = stored \o storing
  OBVIOUS
<1>5. /\ s \in Seq(1 .. MaxFetches) /\ Len(s) = a + b
      /\ \A i \in 1 .. a + b : s[i] = IF i <= a THEN stored[i] ELSE storing[i - a]
  BY <1>1, <1>2, <1>3, <1>4, ConcatProperties
<1>6. /\ \A i, j \in 1 .. a : i < j => stored[i] < stored[j]
      /\ \A i, j \in 1 .. b : i < j => storing[i] < storing[j]
      /\ \A i \in 1 .. a, j \in 1 .. b : stored[i] < storing[j]
  BY <1>1, <1>2, <1>3, LenProperties DEF StoreInOrder, Rising
<1>7. ASSUME NEW i \in 1 .. a + b, NEW j \in 1 .. a + b, i < j PROVE s[i] < s[j]
  <2>1. CASE j <= a
    <3>1. i <= a /\ i \in 1 .. a /\ j \in 1 .. a
      BY <1>7, <2>1
    <3>2. s[i] = stored[i] /\ s[j] = stored[j]
      BY <1>5, <2>1, <3>1
    <3>. QED
      BY <1>6, <1>7, <3>1, <3>2
  <2>2. CASE i <= a /\ j > a
    <3>1. i \in 1 .. a /\ j - a \in 1 .. b /\ ~(j <= a)
      BY <2>2
    <3>2. s[i] = stored[i] /\ s[j] = storing[j - a]
      BY <1>5, <2>2, <3>1
    <3>. QED
      BY <1>6, <3>1, <3>2
  <2>3. CASE i > a
    <3>1. i - a \in 1 .. b /\ j - a \in 1 .. b /\ i - a < j - a /\ ~(i <= a) /\ ~(j <= a)
      BY <1>7, <2>3
    <3>2. s[i] = storing[i - a] /\ s[j] = storing[j - a]
      BY <1>5, <3>1
    <3>. QED
      BY <1>6, <3>1, <3>2
  <2>. QED
    BY <2>1, <2>2, <2>3
<1>8. \A i \in 1 .. Len(s) : s[i] \in 1 .. MaxFetches
  BY <1>5, ElementOfSeq
<1>. QED
  BY <1>2, <1>3, <1>4, <1>5, <1>7, <1>8

\* The log in memory, the one in the database and the answers agree.
THEOREM LogsAlwaysAgree == Spec => []LogsAgree
<1>1. IInv => LogsAgree
  <2> SUFFICES ASSUME Typed, AnswersAreCurrent, StoreInOrder PROVE LogsAgree
    BY DEF IInv
  <2>1. TypeOK
    BY DEF Typed
  <2>2. \A a \in answers : Answers(a.page, a.history)
    BY DEF AnswersAreCurrent
  <2>3. \A p \in Pages : history[p] # NoHistory => at[p] \in {"done", "closed"} /\ Answers(p, history[p])
    BY DEF AnswersAreCurrent
  <2>4. ToSet(storing) \subseteq since + 1 .. fetched
    <3>1. \A j \in DOMAIN storing : storing[j] \in 1 .. MaxFetches
      <4>1. storing \in Seq(1 .. MaxFetches)
        BY DEF Typed, TypeOK, Histories
      <4>2. \A j \in 1 .. Len(storing) : storing[j] \in 1 .. MaxFetches
        BY <4>1, ElementOfSeq
      <4>. QED
        BY <4>1, <4>2, LenProperties
    <3>2. since \in Nat /\ fetched \in Nat
      BY Caps DEF Typed
    <3>. QED
      BY <3>1, <3>2, Caps DEF StoreInOrder, ToSet
  <2>5. PICK s : s = stored \o storing
    OBVIOUS
  <2>6. /\ Len(s) = Len(stored) + Len(storing)
        /\ \A i, j \in 1 .. Len(s) : i < j => s[i] < s[j]
        /\ \A i \in 1 .. Len(s) : s[i] \in Nat
        /\ s \in Seq(1 .. MaxFetches)
    BY <2>5, BothFacts, ConcatProperties DEF Typed, TypeOK, Histories
  <2>7. IsSorted(s, <)
    BY <2>6 DEF IsSorted
  <2>8. IsInjective(s)
    <3>1. SUFFICES ASSUME NEW i \in 1 .. Len(s), NEW j \in 1 .. Len(s), i # j PROVE s[i] # s[j]
      BY <2>6, LenProperties DEF IsInjective
    <3>2. i < j \/ j < i
      BY <3>1
    <3>. QED
      BY <2>6, <3>2
  <2>9. faults = 0 => Len(s) = fetched
    BY <2>6 DEF StoreInOrder
  <2>. QED
    BY <2>1, <2>2, <2>3, <2>4, <2>5, <2>7, <2>8, <2>9 DEF LogsAgree
<1>. QED
  BY <1>1, Invariance, PTL

\* The tracked addresses are those that were navigated to, and their log is in order
\* even if two pages have written over each other.
THEOREM NavigationIsTracked == Spec => []TracksNavigation
<1>1. IInv => TracksNavigation
  BY DEF IInv, TrackedInOrder, NoRepeats, TracksNavigation
<1>. QED
  BY <1>1, Invariance, PTL
=============================================================================
