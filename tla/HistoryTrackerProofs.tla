------------------------ MODULE HistoryTrackerProofs ------------------------
(* Proofs about the worker of HistoryTracker.tla, for every number of tabs, *)
(* entries and requests, every speed of storage and every bound: counters   *)
(* and history agree, whatever overlapping flushes do no entry is stored    *)
(* twice or shown twice and none out of order before a write fails, what a  *)
(* request found in the buffer is flushed before its handler reads, and the *)
(* buffer is watched by its timer; the worker implements SharedHistory.     *)
EXTENDS HistoryTrackerProperties, SumLemmas

-----------------------------------------------------------------------------
(* The operators on entries.                                               *)

\* The entries from private windows, and the others, are finitely many.
LEMMA PartsFinite ==
    ASSUME NEW s \in Seq(Entry)
    PROVE  /\ IsFiniteSet(IncognitoIn(s)) /\ Cardinality(IncognitoIn(s)) \in Nat
           /\ IsFiniteSet(NormalIn(s)) /\ Cardinality(NormalIn(s)) \in Nat
           /\ Cardinality(IncognitoIn(s)) + Cardinality(NormalIn(s)) = Len(s)
<1>1. DOMAIN s = 1..Len(s) /\ Len(s) \in Nat
  BY LenProperties
<1>2. IsFiniteSet(1..Len(s)) /\ Cardinality(1..Len(s)) = Len(s)
  BY <1>1, FS_Interval
<1>3. IncognitoIn(s) \in SUBSET (1..Len(s)) /\ NormalIn(s) \in SUBSET (1..Len(s))
  BY <1>1 DEF IncognitoIn, NormalIn
<1>4. IsFiniteSet(IncognitoIn(s)) /\ IsFiniteSet(NormalIn(s))
  BY <1>2, <1>3, FS_Subset
<1>5. Cardinality(IncognitoIn(s)) \in Nat /\ Cardinality(NormalIn(s)) \in Nat
  BY <1>4, FS_CardinalityType
<1>6. /\ IncognitoIn(s) \cup NormalIn(s) = 1..Len(s)
      /\ IncognitoIn(s) \cap NormalIn(s) = {}
  BY <1>1 DEF IncognitoIn, NormalIn
<1>7. Cardinality(IncognitoIn(s)) + Cardinality(NormalIn(s)) = Len(s)
  <2>1. Cardinality(IncognitoIn(s) \cup NormalIn(s)) =
            Cardinality(IncognitoIn(s)) + Cardinality(NormalIn(s))
              - Cardinality(IncognitoIn(s) \cap NormalIn(s))
    BY <1>4, FS_Union
  <2>2. Cardinality(IncognitoIn(s) \cap NormalIn(s)) = 0
    BY <1>6, FS_EmptySet
  <2>3. Cardinality(IncognitoIn(s) \cup NormalIn(s)) = Len(s)
    BY <1>2, <1>6
  <2>. QED
    BY <1>1, <1>5, <2>1, <2>2, <2>3
<1>. QED
  BY <1>4, <1>5, <1>7

\* The private entries of a concatenation are those of its two parts.
LEMMA IncognitoConcat ==
    ASSUME NEW s \in Seq(Entry), NEW t \in Seq(Entry)
    PROVE  Cardinality(IncognitoIn(s \o t)) =
               Cardinality(IncognitoIn(s)) + Cardinality(IncognitoIn(t))
<1> DEFINE shifted == {Len(s) + i : i \in IncognitoIn(t)}
           f == [i \in IncognitoIn(t) |-> Len(s) + i]
<1>1. /\ s \o t \in Seq(Entry) /\ Len(s \o t) = Len(s) + Len(t)
      /\ Len(s) \in Nat /\ Len(t) \in Nat
      /\ DOMAIN s = 1..Len(s) /\ DOMAIN t = 1..Len(t)
      /\ DOMAIN (s \o t) = 1..(Len(s) + Len(t))
  BY ConcatProperties, LenProperties
<1>2. \A i \in 1..(Len(s) + Len(t)) :
        (s \o t)[i] = IF i <= Len(s) THEN s[i] ELSE t[i - Len(s)]
  BY ConcatProperties
<1>3. IncognitoIn(s \o t) = IncognitoIn(s) \cup shifted
  <2>1. ASSUME NEW i \in IncognitoIn(s \o t)
        PROVE  i \in IncognitoIn(s) \cup shifted
    <3>1. i \in 1..(Len(s) + Len(t)) /\ IsIncognito((s \o t)[i])
      BY <1>1 DEF IncognitoIn
    <3>2. CASE i <= Len(s)
      BY <1>1, <1>2, <3>1, <3>2 DEF IncognitoIn
    <3>3. CASE i > Len(s)
      <4>1. i - Len(s) \in 1..Len(t) /\ IsIncognito(t[i - Len(s)])
        BY <1>1, <1>2, <3>1, <3>3
      <4>2. i - Len(s) \in IncognitoIn(t) /\ i = Len(s) + (i - Len(s))
        BY <1>1, <3>1, <4>1 DEF IncognitoIn
      <4>. QED
        BY <4>2
    <3>. QED
      BY <1>1, <3>1, <3>2, <3>3
  <2>2. ASSUME NEW i \in IncognitoIn(s)
        PROVE  i \in IncognitoIn(s \o t)
    BY <1>1, <1>2 DEF IncognitoIn
  <2>3. ASSUME NEW i \in IncognitoIn(t)
        PROVE  Len(s) + i \in IncognitoIn(s \o t)
    <3>1. /\ i \in 1..Len(t) /\ IsIncognito(t[i])
          /\ Len(s) + i \in 1..(Len(s) + Len(t))
          /\ ~(Len(s) + i <= Len(s)) /\ (Len(s) + i) - Len(s) = i
      BY <1>1 DEF IncognitoIn
    <3>2. (s \o t)[Len(s) + i] = t[i]
      BY <1>2, <3>1
    <3>. QED
      BY <1>1, <3>1, <3>2 DEF IncognitoIn
  <2>. QED
    BY <2>1, <2>2, <2>3
<1>4. f \in Bijection(IncognitoIn(t), shifted)
  <2>1. IncognitoIn(t) \subseteq Int
    BY <1>1 DEF IncognitoIn
  <2>2. f \in [IncognitoIn(t) -> shifted]
    OBVIOUS
  <2>3. \A i, j \in IncognitoIn(t) : f[i] = f[j] => i = j
    BY <1>1, <2>1
  <2>4. \A k \in shifted : \E i \in IncognitoIn(t) : f[i] = k
    OBVIOUS
  <2>. QED
    BY <2>2, <2>3, <2>4 DEF Bijection, Injection, Surjection, IsInjective
<1>5. /\ IsFiniteSet(shifted)
      /\ Cardinality(shifted) = Cardinality(IncognitoIn(t))
  BY <1>4, PartsFinite, FS_Bijection DEF ExistsBijection
<1>6. IncognitoIn(s) \cap shifted = {}
  BY <1>1 DEF IncognitoIn
<1>7. Cardinality(IncognitoIn(s) \cup shifted) =
          Cardinality(IncognitoIn(s)) + Cardinality(shifted)
            - Cardinality(IncognitoIn(s) \cap shifted)
  BY <1>5, PartsFinite, FS_Union
<1>8. Cardinality(IncognitoIn(s) \cap shifted) = 0
  BY <1>6, FS_EmptySet
<1>9. Cardinality(IncognitoIn(s)) \in Nat /\ Cardinality(IncognitoIn(t)) \in Nat
  BY PartsFinite
<1>10. Cardinality(IncognitoIn(s \o t)) = Cardinality(IncognitoIn(s) \cup shifted)
  BY <1>3
<1>. QED
  BY <1>5, <1>7, <1>8, <1>9, <1>10

\* The counters stay counters, and a flush writes a history that is capped.
LEMMA CountType ==
    ASSUME NEW s \in Stats, NEW batch \in Seq(Entry)
    PROVE  Count(s, batch) \in Stats
BY PartsFinite, LenProperties DEF Count, Stats

LEMMA TrimType ==
    ASSUME NEW h \in Seq(Entry)
    PROVE  /\ Trim(h) \in Seq(Entry)
           /\ Len(Trim(h)) = IF Len(h) > MaxEntries THEN MaxEntries ELSE Len(h)
<1>1. Len(h) \in Nat /\ MaxEntries \in Nat \ {0} /\ \A i \in 1..Len(h) : h[i] \in Entry
  BY ElementOfSeq, LenProperties, ConstantsAssumption
<1>2. CASE Len(h) > MaxEntries
  <2>1. /\ Len(h) - MaxEntries + 1 \in Int
        /\ \A i \in Len(h) - MaxEntries + 1 .. Len(h) : h[i] \in Entry
    BY <1>1, <1>2
  <2>2. /\ SubSeq(h, Len(h) - MaxEntries + 1, Len(h)) \in Seq(Entry)
        /\ Len(SubSeq(h, Len(h) - MaxEntries + 1, Len(h))) = MaxEntries
    BY <1>1, <1>2, <2>1, SubSeqProperties
  <2>. QED
    BY <1>2, <2>2 DEF Trim
<1>3. CASE ~(Len(h) > MaxEntries)
  BY <1>3 DEF Trim
<1>. QED
  BY <1>2, <1>3
-----------------------------------------------------------------------------
(* Type correctness.                                                       *)

\* The empty buffer or history and the zero counters.
LEMMA EmptyValues == <<>> \in Seq(Entry) /\ ZeroStats \in Stats
<1>1. <<>> \in Seq(Entry)
  BY EmptySeq
<1>2. ZeroStats \in Stats
  BY DEF ZeroStats, Stats
<1>. QED
  BY <1>1, <1>2

\* A continuation is what the call it awaits says it is.
LEMMA CallCases ==
    ASSUME NEW c \in Call
    PROVE  /\ c.at = "flushGet" => c \in FlushGet
           /\ c.at = "flushSet" => c \in FlushSet
           /\ c.at = "readGet" => c \in ReadGet
           /\ c.at = "clearSet" => c \in ClearSet
BY DEF Call, FlushGet, FlushSet, ReadGet, ClearSet

\* A new request is a request.
LEMMA NewRequestType ==
    ASSUME TypeOK, NEW kind \in Kinds, NEW filter \in Filters
    PROVE  NewRequest(kind, filter) \in Request
<1>1. Ids(pending) \in SUBSET Nat
  <2>1. \A i \in DOMAIN pending : pending[i] \in Entry
    BY ElementOfSeq, LenProperties DEF TypeOK
  <2>. QED
    BY <2>1 DEF Ids, Entry
<1>. QED
  BY <1>1 DEF TypeOK, NewRequest, Request

\* What a resolved flush lets go on is a read.
LEMMA ResumeType ==
    ASSUME TypeOK, NEW next \in Awaiting
    PROVE  Resume(next) \subseteq ReadGet
<1>1. ASSUME NEW r \in Request
      PROVE  GetForRead(r) \in ReadGet
  BY DEF TypeOK, GetForRead, ReadGet
<1>. QED
  BY <1>1 DEF Resume, Awaiting

\* A flush leaves the worker's memory well typed.
LEMMA FlushType ==
    ASSUME TypeOK, NEW buffer \in Seq(Entry), NEW next \in Awaiting,
           FlushToStorage(buffer, next)
    PROVE  pending' \in Seq(Entry) /\ timer' \in BOOLEAN /\ calls' \subseteq Call
<1>1. GetForFlush(buffer, next) \in FlushGet
  BY DEF TypeOK, GetForFlush, FlushGet
<1>2. Resume(next) \subseteq Call
  BY ResumeType DEF Call
<1>3. calls' \subseteq Call
  BY <1>1, <1>2 DEF FlushToStorage, TypeOK, Call
<1>. QED
  BY <1>3, EmptyValues DEF FlushToStorage

\* The types are kept by every callback of the browser and of the popup ...
LEMMA EventsType ==
    ASSUME TypeOK,
           \/ OnInstalled
           \/ \E t \in Tabs : OnUpdated(t) \/ OnCommitted(t) \/ ContentData(t)
           \/ TimerFires
           \/ \E kind \in Kinds, filter \in Filters : AskToRead(kind, filter)
           \/ AskToClear
    PROVE  TypeOK'
<1> USE DEF TypeOK, workerVars, storageVars, browserVars
<1>1. CASE OnInstalled
  <2>1. history' \in Seq(Entry) /\ stats' \in Stats /\ failures' \in Nat
    <3>1. history' \in Seq(Entry)
      BY <1>1, EmptyValues DEF OnInstalled
    <3>2. stats' \in Stats
      BY <1>1, EmptyValues DEF OnInstalled
    <3>3. failures' \in Nat
      BY <1>1 DEF OnInstalled, MayFail
    <3>. QED
      BY <3>1, <3>2, <3>3
  <2>. QED
    BY <1>1, <2>1 DEF OnInstalled
<1>2. ASSUME NEW t \in Tabs, OnUpdated(t)
      PROVE  TypeOK'
  <2> DEFINE entry == [id |-> recorded + 1, tab |-> t, page |-> page[t], about |-> 0]
  <2>1. Append(pending, entry) \in Seq(Entry)
    BY AppendProperties DEF Entry
  <2>2. NoRequest \in Awaiting
    BY DEF Awaiting
  <2>3. pending' \in Seq(Entry) /\ timer' \in BOOLEAN /\ calls' \subseteq Call
    BY <1>2, <2>1, <2>2, FlushType DEF OnUpdated, ArmTimer
  <2>. QED
    BY <1>2, <2>3 DEF OnUpdated
<1>3. ASSUME NEW t \in Tabs, OnCommitted(t)
      PROVE  TypeOK'
  <2>1. NoRequest \in Awaiting
    BY DEF Awaiting
  <2>2. pending' \in Seq(Entry) /\ timer' \in BOOLEAN /\ calls' \subseteq Call
    BY <1>3, <2>1, FlushType DEF OnCommitted
  <2>. QED
    BY <1>3, <2>2 DEF OnCommitted
<1>4. ASSUME NEW t \in Tabs, ContentData(t)
      PROVE  TypeOK'
  <2>1. ASSUME NEW i
        PROVE  [pending EXCEPT ![i].about = page[t]] \in Seq(Entry)
    <3>1. CASE i \in 1..Len(pending)
      <4>1. [pending[i] EXCEPT !.about = page[t]] \in Entry
        <5>1. pending[i] \in Entry /\ page[t] \in Nat
          BY <3>1, ElementOfSeq
        <5>. QED
          BY <5>1 DEF Entry
      <4>. QED
        BY <3>1, <4>1, ExceptSeq
    <3>2. CASE i \notin 1..Len(pending)
      <4>1. pending \in [1..Len(pending) -> Entry] /\ DOMAIN pending = 1..Len(pending)
        BY LenProperties
      <4>2. [pending EXCEPT ![i].about = page[t]] = pending
        BY <3>2, <4>1
      <4>. QED
        BY <4>2
    <3>. QED
      BY <3>1, <3>2
  <2>2. pending' \in Seq(Entry)
    BY <1>4, <2>1 DEF ContentData
  <2>. QED
    BY <1>4, <2>2 DEF ContentData
<1>5. CASE TimerFires
  <2>1. NoRequest \in Awaiting
    BY DEF Awaiting
  <2>2. pending' \in Seq(Entry) /\ timer' \in BOOLEAN /\ calls' \subseteq Call
    BY <1>5, <2>1, FlushType DEF TimerFires
  <2>. QED
    BY <1>5, <2>2 DEF TimerFires
<1>6. ASSUME NEW kind \in Kinds, NEW filter \in Filters, AskToRead(kind, filter)
      PROVE  TypeOK'
  <2>1. NewRequest(kind, filter) \in Awaiting
    BY NewRequestType DEF Awaiting
  <2>2. pending' \in Seq(Entry) /\ timer' \in BOOLEAN /\ calls' \subseteq Call
    BY <1>6, <2>1, FlushType DEF AskToRead
  <2>. QED
    BY <1>6, <2>2 DEF AskToRead
<1>7. CASE AskToClear
  <2>1. NewRequest("clearHistory", "all") \in Request
    BY <1>7, NewRequestType, ConstantsAssumption DEF AskToClear
  <2>2. \A ok \in BOOLEAN :
            [at |-> "clearSet", ok |-> ok, request |-> NewRequest("clearHistory", "all")]
                \in ClearSet
    BY <2>1 DEF ClearSet
  <2>3. calls' \subseteq Call
    BY <1>7, <2>2 DEF AskToClear, Call
  <2>4. history' \in Seq(Entry) /\ stats' \in Stats /\ failures' \in Nat
    <3>1. history' \in Seq(Entry)
      BY <1>7, EmptyValues DEF AskToClear
    <3>2. stats' \in Stats
      BY <1>7, EmptyValues DEF AskToClear
    <3>3. failures' \in Nat
      BY <1>7 DEF AskToClear, MayFail
    <3>. QED
      BY <3>1, <3>2, <3>3
  <2>. QED
    BY <1>7, <2>3, <2>4 DEF AskToClear
<1>. QED
  BY <1>1, <1>2, <1>3, <1>4, <1>5, <1>6, <1>7

\* ... and by every answer of storage.
LEMMA AnswersType ==
    ASSUME TypeOK, NEW c \in calls, StorageAnswers(c)
    PROVE  TypeOK'
<1> USE DEF TypeOK, workerVars, storageVars, browserVars
<1>1. c \in Call
  OBVIOUS
<1>2. CASE FlushGot(c)
  <2>1. c \in FlushGet
    BY <1>1, <1>2, CallCases DEF FlushGot
  <2>2. /\ c.history \o c.batch \in Seq(Entry)
        /\ Appended(c.history, c.batch) \in Seq(Entry)
        /\ Count(c.stats, c.batch) \in Stats
    BY <2>1, ConcatProperties, TrimType, CountType DEF FlushGet, Appended
  <2>3. \A ok \in BOOLEAN :
            [at |-> "flushSet", batch |-> c.batch, next |-> c.next, ok |-> ok] \in FlushSet
    BY <2>1 DEF FlushGet, FlushSet
  <2>4. calls' \subseteq Call
    BY <1>2, <2>3 DEF FlushGot, Call
  <2>5. history' \in Seq(Entry) /\ stats' \in Stats /\ failures' \in Nat
    BY <1>2, <2>2 DEF FlushGot, MayFail
  <2>. QED
    BY <1>2, <2>4, <2>5 DEF FlushGot, StorageAnswers
<1>3. CASE FlushStored(c)
  <2>1. c.next \in Awaiting
    BY <1>1, <1>3, CallCases DEF FlushStored, FlushSet
  <2>2. calls' \subseteq Call
    BY <1>3, <2>1, ResumeType DEF FlushStored, Call
  <2>. QED
    BY <1>3, <2>2 DEF FlushStored, StorageAnswers
<1>4. CASE FlushRejected(c)
  <2>1. c.next \in Awaiting /\ c.batch \in Seq(Entry)
    BY <1>1, <1>4, CallCases DEF FlushRejected, FlushSet, FlushGet
  <2>2. PutBack(c) /\ failures' \in Nat
    BY <1>4 DEF FlushRejected, MayFail
  <2>3. calls' \subseteq Call
    BY <2>1, <2>2, ResumeType DEF PutBack, Call
  <2>4. pending' \in Seq(Entry)
    BY <2>1, <2>2, ConcatProperties DEF PutBack
  <2>. QED
    BY <2>2, <2>3, <2>4 DEF PutBack, StorageAnswers
<1>5. CASE ReadGot(c)
  <2>1. c.request \in Request /\ c.history \in Seq(Entry)
    BY <1>1, <1>5, CallCases DEF ReadGot, ReadGet
  <2>2. downloads' \subseteq Download
    BY <1>5, <2>1 DEF ReadGot, Download
  <2>3. \A a \in answers' : a.request \in Request
    BY <1>5, <2>1 DEF ReadGot
  <2>. QED
    BY <1>5, <2>2, <2>3 DEF ReadGot, StorageAnswers
<1>6. CASE ReadRejected(c)
  BY <1>6 DEF ReadRejected, StorageAnswers, MayFail
<1>7. CASE ClearDone(c)
  <2>1. c.request \in Request
    BY <1>1, <1>7, CallCases DEF ClearDone, ClearSet
  <2>2. \A a \in answers' : a.request \in Request
    BY <1>7, <2>1 DEF ClearDone
  <2>3. forgotten' \in Nat
    BY <1>7, <2>1 DEF ClearDone, Request
  <2>. QED
    BY <1>7, <2>2, <2>3 DEF ClearDone, StorageAnswers
<1>. QED
  BY <1>2, <1>3, <1>4, <1>5, <1>6, <1>7 DEF StorageAnswers

\* TypeOK is an invariant.
THEOREM TypeCorrect == Spec => []TypeOK
<1>1. Init => TypeOK
  <2> SUFFICES ASSUME Init PROVE TypeOK
    OBVIOUS
  <2>1. pending \in Seq(Entry) /\ history \in Seq(Entry) /\ stats \in Stats
    BY EmptyValues DEF Init
  <2>2. /\ recorded \in Nat /\ asked \in Nat /\ forgotten \in Nat
        /\ failures \in Nat /\ stops \in Nat
    BY DEF Init
  <2>3. /\ timer \in BOOLEAN /\ installed \in BOOLEAN
        /\ page \in [Tabs -> Nat] /\ described \in [Tabs -> BOOLEAN]
    BY DEF Init
  <2>4. /\ calls \subseteq Call /\ downloads \subseteq Download
        /\ \A a \in answers : a.request \in Request
    BY DEF Init
  <2>. QED
    BY <2>1, <2>2, <2>3, <2>4 DEF TypeOK
<1>2. TypeOK /\ [Next]_vars => TypeOK'
  <2> SUFFICES ASSUME TypeOK, [Next]_vars
               PROVE  TypeOK'
    OBVIOUS
  <2>1. ASSUME NEW c \in calls, StorageAnswers(c)
        PROVE  TypeOK'
    BY <2>1, AnswersType
  <2>2. ASSUME NEW d \in downloads, DownloadDone(d)
        PROVE  TypeOK'
    BY <2>2 DEF DownloadDone, TypeOK, Download, storageVars, browserVars
  <2>3. CASE Killed \/ IdleTimeout
    <3>1. StopWorker
      BY <2>3 DEF Killed, IdleTimeout
    <3>2. pending' \in Seq(Entry) /\ timer' \in BOOLEAN /\ stops' \in Nat
      <4>1. pending' \in Seq(Entry)
        BY <3>1, EmptyValues DEF StopWorker
      <4>2. timer' \in BOOLEAN
        BY <3>1 DEF StopWorker
      <4>3. stops \in Nat
        BY DEF TypeOK
      <4>4. stops' \in Nat
        BY <3>1, <4>3 DEF StopWorker
      <4>. QED
        BY <4>1, <4>2, <4>4
    <3>3. calls' \subseteq Call /\ downloads' \subseteq Download
      BY <3>1 DEF StopWorker
    <3>. QED
      BY <3>1, <3>2, <3>3 DEF StopWorker, TypeOK, storageVars, browserVars
  <2>4. CASE UNCHANGED vars
    BY <2>4 DEF vars, workerVars, storageVars, browserVars, TypeOK
  <2>. QED
    BY <2>1, <2>2, <2>3, <2>4, EventsType DEF Next
<1>. QED
  BY <1>1, <1>2, PTL DEF Spec

-----------------------------------------------------------------------------
(* The counters and the history agree.  CountersAgree speaks of storage and *)
(* of every snapshot of it a continuation holds; with the types it is       *)
(* inductive, because a snapshot is taken of both keys at once.             *)

\* The empty history and the zero counters agree.
LEMMA AgreeEmpty == Agree(<<>>, ZeroStats)
<1>1. Len(<<>>) = 0 /\ MaxEntries \in Nat
  BY ConstantsAssumption
<1>2. IncognitoIn(<<>>) = {}
  BY DEF IncognitoIn
<1>3. Cardinality(IncognitoIn(<<>>)) = 0
  BY <1>2, FS_EmptySet
<1>. QED
  BY <1>1, <1>3 DEF Agree, ZeroStats

\* Whatever history and counters a flush has read: if they agree, what it writes
\* agrees, trimmed or not.
LEMMA AgreeAppended ==
    ASSUME NEW h \in Seq(Entry), NEW s \in Stats, NEW batch \in Seq(Entry),
           Agree(h, s)
    PROVE  Agree(Appended(h, batch), Count(s, batch))
<1> DEFINE total == s.total + Len(batch)
<1>1. /\ Len(h) \in Nat /\ Len(batch) \in Nat /\ MaxEntries \in Nat
      /\ s.total \in Nat /\ s.incognito \in Nat /\ s.normal \in Nat
  BY LenProperties, ConstantsAssumption DEF Stats
<1>2. /\ Cardinality(IncognitoIn(batch)) \in Nat
      /\ Cardinality(NormalIn(batch)) \in Nat
      /\ Cardinality(IncognitoIn(batch)) + Cardinality(NormalIn(batch)) = Len(batch)
  BY PartsFinite
<1>3. h \o batch \in Seq(Entry) /\ Len(h \o batch) = Len(h) + Len(batch)
  BY ConcatProperties
<1>4. Len(Appended(h, batch)) = IF Len(h) + Len(batch) > MaxEntries
                                THEN MaxEntries ELSE Len(h) + Len(batch)
  BY <1>3, TrimType DEF Appended
<1>5. Len(h) = IF s.total > MaxEntries THEN MaxEntries ELSE s.total
  BY DEF Agree
<1>6. Len(Appended(h, batch)) = IF total > MaxEntries THEN MaxEntries ELSE total
  BY <1>1, <1>4, <1>5
<1>7. total = (s.incognito + Cardinality(IncognitoIn(batch)))
                + (s.normal + Cardinality(NormalIn(batch)))
  BY <1>1, <1>2 DEF Agree
<1>8. ASSUME total <= MaxEntries
      PROVE  s.incognito + Cardinality(IncognitoIn(batch))
                 = Cardinality(IncognitoIn(Appended(h, batch)))
  <2>1. s.total <= MaxEntries /\ ~(Len(h \o batch) > MaxEntries)
    BY <1>1, <1>3, <1>5, <1>8
  <2>2. Appended(h, batch) = h \o batch
    BY <2>1 DEF Appended, Trim
  <2>3. s.incognito = Cardinality(IncognitoIn(h))
    BY <2>1 DEF Agree
  <2>. QED
    BY <2>2, <2>3, IncognitoConcat
<1>. QED
  BY <1>6, <1>7, <1>8 DEF Agree, Count

\* The calls a resolved flush issues carry what storage holds.
LEMMA AgreeResumed ==
    ASSUME Agree(history, stats), NEW next, NEW c \in Resume(next)
    PROVE  Agree(c.history, c.stats)
BY DEF Resume, GetForRead

\* A step preserves CountersAgree if what storage then holds agrees and so does
\* every snapshot in the calls it adds.
LEMMA AgreeKept ==
    ASSUME CountersAgree, NEW added, calls' \subseteq calls \cup added,
           Agree(history', stats'),
           \A c \in added : c.at \in {"flushGet", "readGet"} => Agree(c.history, c.stats)
    PROVE  CountersAgree'
BY DEF CountersAgree, Agree, IncognitoIn

\* A step that adds no call preserves it if what storage then holds agrees.
LEMMA AgreeNoneAdded ==
    ASSUME CountersAgree, calls' \subseteq calls, Agree(history', stats')
    PROVE  CountersAgree'
BY DEF CountersAgree, Agree, IncognitoIn

\* A flush that starts reads both keys, and so does the handler it lets go on.
LEMMA AgreeFlush ==
    ASSUME CountersAgree, NEW buffer, NEW next, FlushToStorage(buffer, next),
           UNCHANGED storageVars
    PROVE  CountersAgree'
<1> DEFINE added == Resume(next) \cup {GetForFlush(buffer, next)}
<1>1. Agree(history, stats) /\ Agree(history', stats')
  BY DEF CountersAgree, storageVars
<1>2. calls' \subseteq calls \cup added
  BY DEF FlushToStorage
<1>3. \A c \in added : Agree(c.history, c.stats)
  BY <1>1, AgreeResumed DEF GetForFlush
<1>. QED
  BY <1>1, <1>2, <1>3, AgreeKept

\* The callbacks of the browser and the popup that flush ...
LEMMA AgreeEvents ==
    ASSUME CountersAgree,
           \/ \E t \in Tabs : OnUpdated(t) \/ OnCommitted(t) \/ ContentData(t)
           \/ TimerFires
           \/ \E kind \in Kinds, filter \in Filters : AskToRead(kind, filter)
    PROVE  CountersAgree'
<1>1. UNCHANGED storageVars
  BY DEF OnUpdated, OnCommitted, ContentData, TimerFires, AskToRead, storageVars
<1>2. CASE UNCHANGED calls
  <2>1. Agree(history', stats')
    BY <1>1 DEF CountersAgree, storageVars
  <2>. QED
    BY <1>2, <2>1, AgreeNoneAdded
<1>3. CASE \E buffer, next : FlushToStorage(buffer, next)
  BY <1>1, <1>3, AgreeFlush
<1>4. UNCHANGED calls \/ \E buffer, next : FlushToStorage(buffer, next)
  BY DEF OnUpdated, OnCommitted, ContentData, TimerFires, AskToRead
<1>. QED
  BY <1>2, <1>3, <1>4

\* ... those that write empty keys ...
LEMMA AgreeCleared ==
    ASSUME CountersAgree, OnInstalled \/ AskToClear
    PROVE  CountersAgree'
<1>1. Agree(history', stats')
  <2>1. CASE history' = <<>> /\ stats' = ZeroStats
    BY <2>1, AgreeEmpty
  <2>2. CASE UNCHANGED storageVars
    BY <2>2 DEF CountersAgree, storageVars
  <2>. QED
    BY <2>1, <2>2 DEF OnInstalled, AskToClear
<1>2. CASE OnInstalled
  BY <1>1, <1>2, AgreeKept DEF OnInstalled, workerVars
<1>3. CASE AskToClear
  <2> DEFINE added == {[at |-> "clearSet", ok |-> ok,
                        request |-> NewRequest("clearHistory", "all")] : ok \in BOOLEAN}
  <2>1. calls' \subseteq calls \cup added
    BY <1>3 DEF AskToClear
  <2>2. \A c \in added : c.at \notin {"flushGet", "readGet"}
    OBVIOUS
  <2>. QED
    BY <1>1, <2>1, <2>2, AgreeKept
<1>. QED
  BY <1>2, <1>3

\* ... and the answers of storage: only a flush that has its snapshot writes, and
\* what it writes is the snapshot with its batch appended and counted.
LEMMA AgreeAnswers ==
    ASSUME TypeOK, CountersAgree, NEW c \in calls, StorageAnswers(c)
    PROVE  CountersAgree'
<1>1. Agree(history, stats)
  BY DEF CountersAgree
<1>2. CASE FlushGot(c)
  <2>1. c \in FlushGet /\ Agree(c.history, c.stats)
    BY <1>2, CallCases DEF FlushGot, TypeOK, CountersAgree
  <2>2. Agree(Appended(c.history, c.batch), Count(c.stats, c.batch))
    BY <2>1, AgreeAppended DEF FlushGet
  <2>3. Agree(history', stats')
    BY <1>1, <1>2, <2>2 DEF FlushGot, storageVars
  <2> DEFINE added == {[at |-> "flushSet", batch |-> c.batch, next |-> c.next,
                        ok |-> ok] : ok \in BOOLEAN}
  <2>4. calls' \subseteq calls \cup added
    BY <1>2 DEF FlushGot
  <2>5. \A d \in added : d.at \notin {"flushGet", "readGet"}
    OBVIOUS
  <2>. QED
    BY <2>3, <2>4, <2>5, AgreeKept
<1>3. CASE FlushStored(c) \/ FlushRejected(c)
  <2>1. Agree(history', stats')
    BY <1>1, <1>3 DEF FlushStored, FlushRejected, PutBack, storageVars
  <2>2. calls' \subseteq calls \cup Resume(c.next)
    BY <1>3 DEF FlushStored, FlushRejected, PutBack
  <2>. QED
    BY <1>1, <2>1, <2>2, AgreeResumed, AgreeKept
<1>4. CASE ReadGot(c) \/ ReadRejected(c) \/ ClearDone(c)
  <2>1. Agree(history', stats')
    BY <1>1, <1>4 DEF ReadGot, ReadRejected, ClearDone, storageVars
  <2>2. calls' \subseteq calls
    BY <1>4 DEF ReadGot, ReadRejected, ClearDone
  <2>. QED
    BY <2>1, <2>2, AgreeNoneAdded
<1>. QED
  BY <1>2, <1>3, <1>4 DEF StorageAnswers

\* CountersAgree is an invariant.
THEOREM CountersNeverDrift == Spec => []CountersAgree
<1>1. Init => CountersAgree
  BY AgreeEmpty DEF Init, CountersAgree
<1>2. TypeOK /\ CountersAgree /\ [Next]_vars => CountersAgree'
  <2> SUFFICES ASSUME TypeOK, CountersAgree, [Next]_vars
               PROVE  CountersAgree'
    OBVIOUS
  <2>1. ASSUME NEW d \in downloads, DownloadDone(d)
        PROVE  CountersAgree'
    <3>1. UNCHANGED <<history, stats, calls>>
      BY <2>1 DEF DownloadDone, storageVars
    <3>. QED
      BY <3>1, AgreeNoneAdded DEF CountersAgree
  <2>2. CASE Killed \/ IdleTimeout
    <3>1. StopWorker
      BY <2>2 DEF Killed, IdleTimeout
    <3>2. Agree(history', stats') /\ calls' \subseteq calls
      BY <3>1 DEF StopWorker, storageVars, CountersAgree
    <3>. QED
      BY <3>2, AgreeNoneAdded
  <2>3. CASE UNCHANGED vars
    <3>1. UNCHANGED <<history, stats, calls>>
      BY <2>3 DEF vars, workerVars, storageVars
    <3>. QED
      BY <3>1, AgreeNoneAdded DEF CountersAgree
  <2>. QED
    BY <2>1, <2>2, <2>3, AgreeEvents, AgreeCleared, AgreeAnswers DEF Next
<1>. QED
  BY <1>1, <1>2, TypeCorrect, PTL DEF Spec
-----------------------------------------------------------------------------
(* The numbers of a sequence of entries.                                   *)

LEMMA IdsEmpty == Ids(<<>>) = {} /\ Distinct(<<>>)
BY DEF Ids, Distinct

\* A concatenation has the numbers of its two parts, and repeats none if neither
\* part does and they share none.
LEMMA IdsConcat ==
    ASSUME NEW s \in Seq(Entry), NEW t \in Seq(Entry)
    PROVE  /\ Ids(s \o t) = Ids(s) \cup Ids(t)
           /\ (Distinct(s) /\ Distinct(t) /\ Ids(s) \cap Ids(t) = {}) => Distinct(s \o t)
<1>1. /\ s \o t \in Seq(Entry) /\ Len(s \o t) = Len(s) + Len(t)
      /\ Len(s) \in Nat /\ Len(t) \in Nat
      /\ DOMAIN s = 1..Len(s) /\ DOMAIN t = 1..Len(t)
      /\ DOMAIN (s \o t) = 1..(Len(s) + Len(t))
  BY ConcatProperties, LenProperties
<1>2. \A i \in 1..(Len(s) + Len(t)) :
        (s \o t)[i] = IF i <= Len(s) THEN s[i] ELSE t[i - Len(s)]
  BY ConcatProperties
<1>3. \A i \in DOMAIN s : i \in DOMAIN (s \o t) /\ (s \o t)[i] = s[i]
  BY <1>1, <1>2
<1>4. \A i \in DOMAIN t : Len(s) + i \in DOMAIN (s \o t) /\ (s \o t)[Len(s) + i] = t[i]
  BY <1>1, <1>2
<1>5. \A i \in DOMAIN (s \o t) :
        \/ i \in DOMAIN s /\ (s \o t)[i] = s[i]
        \/ i - Len(s) \in DOMAIN t /\ (s \o t)[i] = t[i - Len(s)]
  BY <1>1, <1>2
<1>6. Ids(s \o t) = Ids(s) \cup Ids(t)
  <2>1. ASSUME NEW x \in Ids(s \o t) PROVE x \in Ids(s) \cup Ids(t)
    <3>1. PICK i \in DOMAIN (s \o t) : x = (s \o t)[i].id
      BY DEF Ids
    <3>. QED
      BY <1>5, <3>1 DEF Ids
  <2>2. ASSUME NEW x \in Ids(s) PROVE x \in Ids(s \o t)
    BY <1>3 DEF Ids
  <2>3. ASSUME NEW x \in Ids(t) PROVE x \in Ids(s \o t)
    <3>1. PICK i \in DOMAIN t : x = t[i].id
      BY DEF Ids
    <3>2. x = (s \o t)[Len(s) + i].id
      BY <1>4, <3>1
    <3>. QED
      BY <1>4, <3>2 DEF Ids
  <2>. QED
    BY <2>1, <2>2, <2>3
<1>7. ASSUME Distinct(s), Distinct(t), Ids(s) \cap Ids(t) = {},
             NEW i \in DOMAIN (s \o t), NEW j \in DOMAIN (s \o t),
             (s \o t)[i].id = (s \o t)[j].id
      PROVE  i = j
  <2>1. CASE i \in DOMAIN s /\ (s \o t)[i] = s[i] /\ j \in DOMAIN s /\ (s \o t)[j] = s[j]
    BY <1>7, <2>1 DEF Distinct
  <2>2. CASE /\ i - Len(s) \in DOMAIN t /\ (s \o t)[i] = t[i - Len(s)]
             /\ j - Len(s) \in DOMAIN t /\ (s \o t)[j] = t[j - Len(s)]
    <3>1. i - Len(s) = j - Len(s)
      BY <1>7, <2>2 DEF Distinct
    <3>. QED
      BY <3>1, <1>1
  <2>3. CASE /\ i \in DOMAIN s /\ (s \o t)[i] = s[i]
             /\ j - Len(s) \in DOMAIN t /\ (s \o t)[j] = t[j - Len(s)]
    BY <1>7, <2>3 DEF Ids
  <2>4. CASE /\ i - Len(s) \in DOMAIN t /\ (s \o t)[i] = t[i - Len(s)]
             /\ j \in DOMAIN s /\ (s \o t)[j] = s[j]
    BY <1>7, <2>4 DEF Ids
  <2>. QED
    BY <1>5, <2>1, <2>2, <2>3, <2>4
<1>. QED
  BY <1>6, <1>7 DEF Distinct

\* What is left of a history after it was capped.
LEMMA TrimElements ==
    ASSUME NEW h \in Seq(Entry)
    PROVE  \E k \in Nat :
             \A i \in 1..Len(Trim(h)) : i + k \in 1..Len(h) /\ Trim(h)[i] = h[i + k]
<1>1. Len(h) \in Nat /\ MaxEntries \in Nat \ {0} /\ \A i \in 1..Len(h) : h[i] \in Entry
  BY ElementOfSeq, LenProperties, ConstantsAssumption
<1>2. CASE Len(h) > MaxEntries
  <2> DEFINE m == Len(h) - MaxEntries + 1
  <2>1. m \in Int /\ Len(h) \in Int /\ \A i \in m .. Len(h) : h[i] \in Entry
    BY <1>1, <1>2
  <2>2. /\ Len(SubSeq(h, m, Len(h))) = IF m <= Len(h) THEN Len(h) - m + 1 ELSE 0
        /\ \A i \in 1 .. Len(h) - m + 1 : SubSeq(h, m, Len(h))[i] = h[m + i - 1]
    BY <2>1, SubSeqProperties
  <2>3. Trim(h) = SubSeq(h, m, Len(h))
    BY <1>2 DEF Trim
  <2>4. Len(Trim(h)) = MaxEntries /\ Len(h) - m + 1 = MaxEntries
    BY <1>1, <1>2, <2>2, <2>3
  <2>5. m - 1 \in Nat /\ m - 1 = Len(h) - MaxEntries
    BY <1>1, <1>2
  <2>6. ASSUME NEW i \in 1..Len(Trim(h))
        PROVE  i + (m - 1) \in 1..Len(h) /\ Trim(h)[i] = h[i + (m - 1)]
    <3>1. Trim(h)[i] = h[m + i - 1] /\ m + i - 1 = i + (m - 1)
      BY <2>2, <2>3, <2>4, <1>1
    <3>. QED
      BY <1>1, <1>2, <2>4, <3>1
  <2>. QED
    BY <2>5, <2>6
<1>3. CASE ~(Len(h) > MaxEntries)
  <2>1. Trim(h) = h
    BY <1>3 DEF Trim
  <2>2. \A i \in 1..Len(Trim(h)) : i + 0 \in 1..Len(h) /\ Trim(h)[i] = h[i + 0]
    BY <1>1, <2>1
  <2>. QED
    BY <2>2
<1>. QED
  BY <1>2, <1>3

LEMMA IdsTrim ==
    ASSUME NEW h \in Seq(Entry)
    PROVE  /\ Ids(Trim(h)) \subseteq Ids(h)
           /\ Distinct(h) => Distinct(Trim(h))
<1>1. PICK k \in Nat :
        \A i \in 1..Len(Trim(h)) : i + k \in 1..Len(h) /\ Trim(h)[i] = h[i + k]
  BY TrimElements
<1>2. /\ DOMAIN h = 1..Len(h) /\ DOMAIN Trim(h) = 1..Len(Trim(h))
      /\ Len(Trim(h)) \in Nat
  BY TrimType, LenProperties
<1>3. Ids(Trim(h)) \subseteq Ids(h)
  BY <1>1, <1>2 DEF Ids
<1>4. ASSUME Distinct(h), NEW i \in DOMAIN Trim(h), NEW j \in DOMAIN Trim(h),
             Trim(h)[i].id = Trim(h)[j].id
      PROVE  i = j
  <2>1. i + k = j + k
    <3>1. i + k \in DOMAIN h /\ Trim(h)[i] = h[i + k]
      BY <1>1, <1>2, <1>4
    <3>2. j + k \in DOMAIN h /\ Trim(h)[j] = h[j + k]
      BY <1>1, <1>2, <1>4
    <3>3. h[i + k].id = h[j + k].id
      BY <1>4, <3>1, <3>2
    <3>4. PICK a, b : a = i + k /\ b = j + k
      OBVIOUS
    <3>5. a = b
      BY <1>4, <3>1, <3>2, <3>3, <3>4 DEF Distinct
    <3>. QED
      BY <3>4, <3>5
  <2>2. i \in Nat /\ j \in Nat
    BY <1>2
  <2>. QED
    BY <2>1, <2>2
<1>. QED
  BY <1>3, <1>4 DEF Distinct

\* A buffer with one more entry.
LEMMA IdsAppend ==
    ASSUME NEW s \in Seq(Entry), NEW e \in Entry
    PROVE  /\ Ids(Append(s, e)) = Ids(s) \cup {e.id}
           /\ (Distinct(s) /\ e.id \notin Ids(s)) => Distinct(Append(s, e))
<1> DEFINE t == <<e>>
<1>1. Append(s, e) = s \o t /\ t \in Seq(Entry)
  BY AppendIsConcat
<1>2. DOMAIN t = {1} /\ t[1] = e
  OBVIOUS
<1>3. Ids(t) = {e.id} /\ Distinct(t)
  BY <1>2 DEF Ids, Distinct
<1> HIDE DEF t
<1>4. /\ Ids(s \o t) = Ids(s) \cup Ids(t)
      /\ (Distinct(s) /\ Distinct(t) /\ Ids(s) \cap Ids(t) = {}) => Distinct(s \o t)
  BY <1>1, IdsConcat
<1>. QED
  BY <1>1, <1>3, <1>4

-----------------------------------------------------------------------------
(* AtMostOnce.  It is a relation between a buffer, the histories there are  *)
(* and the calls whose batch is still to be written; with the numbers being *)
(* those recorded so far it is inductive, since the next number is new.     *)

Apart(buffer, hs, unwritten) ==
    /\ Distinct(buffer)
    /\ \A h \in hs : Distinct(h) /\ Ids(h) \cap Ids(buffer) = {}
    /\ \A c \in unwritten :
         /\ Distinct(c.batch)
         /\ Ids(c.batch) \cap Ids(buffer) = {}
         /\ \A h \in hs : Ids(h) \cap Ids(c.batch) = {}
         /\ \A d \in unwritten \ {c} : Ids(c.batch) \cap Ids(d.batch) = {}

Known(buffer, hs, unwritten, n) ==
    /\ Ids(buffer) \subseteq 1..n
    /\ \A h \in hs : Ids(h) \subseteq 1..n
    /\ \A c \in unwritten : Ids(c.batch) \subseteq 1..n

Sound(buffer, hs, unwritten, n) ==
    Apart(buffer, hs, unwritten) /\ Known(buffer, hs, unwritten, n)

Unwrittens == {c \in calls : Unwritten(c)}

\* The inductive invariant: AtMostOnce, of numbers recorded.
OnceInv == Sound(pending, Histories, Unwrittens, recorded)

\* Less in the buffer, fewer histories but for empty ones, fewer calls.
LEMMA SoundFewer ==
    ASSUME NEW b, NEW hs, NEW u, NEW n, Sound(b, hs, u, n),
           NEW b2, Ids(b2) \subseteq Ids(b), Distinct(b2),
           NEW hs2, \A h \in hs2 : h \in hs \/ h = <<>>,
           NEW u2, u2 \subseteq u
    PROVE  Sound(b2, hs2, u2, n)
BY IdsEmpty DEF Sound, Apart, Known

\* The buffer becomes the batch of a call.
LEMMA SoundTaken ==
    ASSUME NEW b, NEW hs, NEW u, NEW n, Sound(b, hs, u, n),
           NEW c, c.batch = b,
           NEW u2, u2 \subseteq u \cup {c}
    PROVE  Sound(<<>>, hs, u2, n)
BY IdsEmpty DEF Sound, Apart, Known

\* The batch of a call is written behind a history.
LEMMA SoundWritten ==
    ASSUME NEW b, NEW hs, NEW u, NEW n, Sound(b, hs, u, n),
           NEW c \in u, NEW h \in hs,
           NEW w, Ids(w) \subseteq Ids(h) \cup Ids(c.batch), Distinct(w),
           NEW hs2, hs2 \subseteq hs \cup {w},
           NEW u2, u2 \subseteq u \ {c}
    PROVE  Sound(b, hs2, u2, n)
<1>1. Apart(b, hs2, u2)
  <2>1. \A g \in hs2 : Distinct(g) /\ Ids(g) \cap Ids(b) = {}
    BY DEF Sound, Apart
  <2>2. \A d \in u2, g \in hs2 : Ids(g) \cap Ids(d.batch) = {}
    BY DEF Sound, Apart
  <2>. QED
    BY <2>1, <2>2 DEF Sound, Apart
<1>2. Known(b, hs2, u2, n)
  BY DEF Sound, Known
<1>. QED
  BY <1>1, <1>2 DEF Sound

\* A call is followed by another with the same batch.
LEMMA SoundFollowed ==
    ASSUME NEW b, NEW hs, NEW u, NEW n, Sound(b, hs, u, n),
           NEW c \in u, NEW d, d.batch = c.batch,
           NEW hs2, hs2 \subseteq hs,
           NEW u2, u2 \subseteq (u \ {c}) \cup {d}
    PROVE  Sound(b, hs2, u2, n)
BY DEF Sound, Apart, Known

\* The batch of a call is put back.
LEMMA SoundPutBack ==
    ASSUME NEW b, NEW hs, NEW u, NEW n, Sound(b, hs, u, n),
           NEW c \in u,
           NEW b2, Ids(b2) = Ids(c.batch) \cup Ids(b), Distinct(b2),
           NEW hs2, hs2 \subseteq hs,
           NEW u2, u2 \subseteq u \ {c}
    PROVE  Sound(b2, hs2, u2, n)
BY DEF Sound, Apart, Known

\* A new entry in the buffer.
LEMMA SoundRecorded ==
    ASSUME NEW b, NEW hs, NEW u, NEW n \in Nat, Sound(b, hs, u, n),
           NEW b2, Ids(b2) = Ids(b) \cup {n + 1}, Distinct(b2)
    PROVE  Sound(b2, hs, u, n + 1)
<1>1. \A x : x \subseteq 1..n => x \subseteq 1..(n + 1) /\ n + 1 \notin x
  OBVIOUS
<1>2. Known(b2, hs, u, n + 1)
  BY <1>1 DEF Sound, Known
<1>3. Apart(b2, hs, u)
  <2>1. /\ \A h \in hs : n + 1 \notin Ids(h)
        /\ \A c \in u : n + 1 \notin Ids(c.batch)
    BY <1>1 DEF Sound, Known
  <2>. QED
    BY <2>1 DEF Sound, Apart
<1>. QED
  BY <1>2, <1>3 DEF Sound

-----------------------------------------------------------------------------
(* What the steps of the worker do to buffer, histories and calls.         *)

\* A read that goes on after a flush shows the history there is, and writes nothing.
LEMMA ResumedReads ==
    ASSUME NEW next, NEW c \in Resume(next)
    PROVE  c.at = "readGet" /\ c.history = history /\ ~Unwritten(c)
BY DEF Resume, GetForRead, Unwritten

\* Calls may end and reads be added: no history and no unwritten batch is new.
LEMMA NothingNew ==
    ASSUME NEW next, calls' \subseteq calls \cup Resume(next), history' = history
    PROVE  Histories' \subseteq Histories /\ Unwrittens' \subseteq Unwrittens
BY ResumedReads DEF Histories, Unwrittens, Unwritten

\* Calls may end and the history be emptied.
LEMMA OnlyCleared ==
    ASSUME calls' \subseteq calls, history' \in {history, <<>>}
    PROVE  /\ \A h \in Histories' : h \in Histories \/ h = <<>>
           /\ Unwrittens' \subseteq Unwrittens
BY DEF Histories, Unwrittens, Unwritten

\* A flush takes the buffer.
LEMMA FlushTakes ==
    ASSUME NEW buffer, NEW next, FlushToStorage(buffer, next), history' = history
    PROVE  /\ pending' = <<>>
           /\ Histories' \subseteq Histories
           /\ Unwrittens' \subseteq Unwrittens \cup {GetForFlush(buffer, next)}
           /\ GetForFlush(buffer, next).batch = buffer
BY ResumedReads DEF FlushToStorage, GetForFlush, Histories, Unwrittens, Unwritten

LEMMA OnceFlush ==
    ASSUME NEW buffer, NEW next, FlushToStorage(buffer, next), history' = history,
           NEW n, Sound(buffer, Histories, Unwrittens, n)
    PROVE  Sound(pending', Histories', Unwrittens', n)
<1>1. Sound(<<>>, Histories, Unwrittens', n)
  BY FlushTakes, SoundTaken
<1>2. /\ Ids(pending') \subseteq Ids(<<>>) /\ Distinct(pending')
      /\ \A h \in Histories' : h \in Histories \/ h = <<>>
      /\ Unwrittens' \subseteq Unwrittens'
  BY FlushTakes, IdsEmpty
<1>. QED
  BY <1>1, <1>2, SoundFewer

\* The callbacks of the browser and the popup keep entries apart ...
LEMMA OnceEvents ==
    ASSUME TypeOK, OnceInv,
           \/ OnInstalled
           \/ \E t \in Tabs : OnUpdated(t) \/ OnCommitted(t) \/ ContentData(t)
           \/ TimerFires
           \/ \E kind \in Kinds, filter \in Filters : AskToRead(kind, filter)
           \/ AskToClear
    PROVE  OnceInv'
<1> USE DEF OnceInv
<1>1. CASE OnInstalled
  <2>1. /\ calls' = calls /\ pending' = pending /\ recorded' = recorded
        /\ history' \in {history, <<>>}
    BY <1>1 DEF OnInstalled, workerVars, storageVars
  <2>2. Distinct(pending)
    BY DEF Sound, Apart
  <2>. QED
    BY <2>1, <2>2, OnlyCleared, SoundFewer
<1>2. ASSUME NEW t \in Tabs, OnUpdated(t)
      PROVE  OnceInv'
  <2> DEFINE entry == [id |-> recorded + 1, tab |-> t, page |-> page[t], about |-> 0]
             buffer == Append(pending, entry)
  <2>1. entry \in Entry /\ entry.id = recorded + 1 /\ pending \in Seq(Entry) /\ recorded \in Nat
    BY DEF TypeOK, Entry
  <2>2. Ids(buffer) = Ids(pending) \cup {recorded + 1}
    BY <2>1, IdsAppend
  <2>3. Distinct(buffer)
    <3>1. Distinct(pending) /\ Ids(pending) \subseteq 1..recorded
      BY DEF Sound, Apart, Known
    <3>2. recorded + 1 \notin Ids(pending)
      BY <2>1, <3>1
    <3>. QED
      BY <2>1, <3>1, <3>2, IdsAppend
  <2>4. Sound(buffer, Histories, Unwrittens, recorded + 1)
    BY <2>1, <2>2, <2>3, SoundRecorded
  <2>5. history' = history /\ recorded' = recorded + 1
    BY <1>2 DEF OnUpdated, storageVars
  <2>6. CASE FlushToStorage(buffer, NoRequest)
    BY <2>4, <2>5, <2>6, OnceFlush
  <2>7. CASE pending' = buffer /\ calls' = calls
    BY <2>4, <2>5, <2>7 DEF Histories, Unwrittens, Unwritten
  <2>. QED
    BY <1>2, <2>6, <2>7 DEF OnUpdated
<1>3. ASSUME NEW t \in Tabs, OnCommitted(t)
      PROVE  OnceInv'
  <2>1. history' = history /\ recorded' = recorded
    BY <1>3 DEF OnCommitted, storageVars
  <2>2. CASE FlushToStorage(pending, NoRequest)
    BY <2>1, <2>2, OnceFlush
  <2>3. CASE pending' = pending /\ calls' = calls
    BY <2>1, <2>3 DEF Histories, Unwrittens, Unwritten
  <2>. QED
    BY <1>3, <2>2, <2>3 DEF OnCommitted
<1>4. ASSUME NEW t \in Tabs, ContentData(t)
      PROVE  OnceInv'
  <2>1. history' = history /\ recorded' = recorded /\ calls' = calls
    BY <1>4 DEF ContentData, storageVars
  <2>2. Ids(pending') = Ids(pending) /\ Distinct(pending')
    <3>1. pending' = pending \/ \E i : pending' = [pending EXCEPT ![i].about = page[t]]
      BY <1>4 DEF ContentData
    <3>2. pending \in [1..Len(pending) -> Entry]
      BY LenProperties DEF TypeOK
    <3>3. DOMAIN pending' = DOMAIN pending /\ \A j \in DOMAIN pending : pending'[j].id = pending[j].id
      BY <3>1, <3>2 DEF Entry
    <3>. QED
      BY <3>3 DEF Ids, Distinct, Sound, Apart
  <2>. QED
    BY <2>1, <2>2, SoundFewer, OnlyCleared
<1>5. CASE TimerFires
  BY <1>5, OnceFlush DEF TimerFires, storageVars
<1>6. ASSUME NEW kind \in Kinds, NEW filter \in Filters, AskToRead(kind, filter)
      PROVE  OnceInv'
  BY <1>6, OnceFlush DEF AskToRead, storageVars
<1>7. CASE AskToClear
  <2>1. /\ pending' = pending /\ recorded' = recorded /\ history' \in {history, <<>>}
        /\ \A c \in calls' : c \in calls \/ c.at = "clearSet"
    BY <1>7 DEF AskToClear, storageVars
  <2>2. /\ \A h \in Histories' : h \in Histories \/ h = <<>>
        /\ Unwrittens' \subseteq Unwrittens
    BY <2>1 DEF Histories, Unwrittens, Unwritten
  <2>3. Distinct(pending)
    BY DEF Sound, Apart
  <2>. QED
    BY <2>1, <2>2, <2>3, SoundFewer
<1>. QED
  BY <1>1, <1>2, <1>3, <1>4, <1>5, <1>6, <1>7

\* ... and so do the answers of storage: a batch is written once, or put back before
\* anything else can become of it.
LEMMA OnceAnswers ==
    ASSUME TypeOK, OnceInv, NEW c \in calls, StorageAnswers(c)
    PROVE  OnceInv'
<1> USE DEF OnceInv
<1>1. c \in Call /\ recorded' = recorded /\ Distinct(pending) /\ pending \in Seq(Entry)
  BY DEF TypeOK, StorageAnswers, Sound, Apart
<1>2. CASE FlushGot(c)
  <2>1. c \in FlushGet /\ c \in Unwrittens /\ c.history \in Histories
    BY <1>1, <1>2, CallCases DEF FlushGot, Unwrittens, Unwritten, Histories
  <2> DEFINE done(ok) == [at |-> "flushSet", batch |-> c.batch, next |-> c.next, ok |-> ok]
             written == Appended(c.history, c.batch)
  <2>2. pending' = pending
    BY <1>2 DEF FlushGot
  <2>3. CASE calls' = (calls \ {c}) \cup {done(TRUE)} /\ history' = written
    <3>1. /\ c.history \in Seq(Entry) /\ c.batch \in Seq(Entry)
          /\ c.history \o c.batch \in Seq(Entry)
      BY <2>1, ConcatProperties DEF FlushGet
    <3>2. Distinct(c.history) /\ Distinct(c.batch) /\ Ids(c.history) \cap Ids(c.batch) = {}
      BY <2>1 DEF Sound, Apart
    <3>3. Ids(written) \subseteq Ids(c.history) \cup Ids(c.batch) /\ Distinct(written)
      <4>1. /\ Ids(c.history \o c.batch) = Ids(c.history) \cup Ids(c.batch)
            /\ Distinct(c.history \o c.batch)
        BY <3>1, <3>2, IdsConcat
      <4>. QED
        BY <3>1, <4>1, IdsTrim DEF Appended
    <3>4. Histories' \subseteq Histories \cup {written}
      BY <2>3 DEF Histories
    <3>5. Unwrittens' \subseteq Unwrittens \ {c}
      BY <2>1, <2>3 DEF Unwrittens, Unwritten, FlushGet
    <3>. QED
      BY <1>1, <2>1, <2>2, <3>3, <3>4, <3>5, SoundWritten
  <2>4. CASE calls' = (calls \ {c}) \cup {done(FALSE)} /\ history' = history
    <3>1. PICK d : d = done(FALSE)
      OBVIOUS
    <3>2. d.batch = c.batch
      BY <3>1
    <3>3. Histories' \subseteq Histories /\ Unwrittens' \subseteq (Unwrittens \ {c}) \cup {d}
      BY <2>4, <3>1 DEF Histories, Unwrittens, Unwritten
    <3>. QED
      BY <1>1, <2>1, <2>2, <3>2, <3>3, SoundFollowed
  <2>. QED
    BY <1>2, <2>3, <2>4 DEF FlushGot, storageVars
<1>3. CASE FlushStored(c)
  <2>1. pending' = pending /\ history' = history /\ calls' \subseteq calls \cup Resume(c.next)
    BY <1>3 DEF FlushStored, storageVars
  <2>. QED
    BY <1>1, <2>1, NothingNew, SoundFewer
<1>4. CASE FlushRejected(c)
  <2>1. c \in Unwrittens /\ c.batch \in Seq(Entry)
    BY <1>1, <1>4, CallCases DEF FlushRejected, Unwrittens, Unwritten, FlushGet, FlushSet
  <2>2. /\ pending' = c.batch \o pending /\ history' = history
        /\ calls' = (calls \ {c}) \cup Resume(c.next)
    BY <1>4 DEF FlushRejected, PutBack, storageVars
  <2>3. Distinct(c.batch) /\ Ids(c.batch) \cap Ids(pending) = {}
    BY <2>1 DEF Sound, Apart
  <2>4. Ids(pending') = Ids(c.batch) \cup Ids(pending) /\ Distinct(pending')
    BY <1>1, <2>1, <2>2, <2>3, IdsConcat
  <2>5. Histories' \subseteq Histories /\ Unwrittens' \subseteq Unwrittens \ {c}
    BY <2>2, ResumedReads DEF Histories, Unwrittens, Unwritten
  <2>. QED
    BY <1>1, <2>1, <2>4, <2>5, SoundPutBack
<1>5. CASE ReadGot(c) \/ ReadRejected(c) \/ ClearDone(c)
  <2>1. pending' = pending /\ history' = history /\ calls' \subseteq calls
    BY <1>5 DEF ReadGot, ReadRejected, ClearDone, storageVars
  <2>. QED
    BY <1>1, <2>1, OnlyCleared, SoundFewer
<1>. QED
  BY <1>2, <1>3, <1>4, <1>5 DEF StorageAnswers

\* OnceInv is inductive, with the types.
LEMMA OnceInvariant == Spec => []OnceInv
<1>1. Init => OnceInv
  <2> SUFFICES ASSUME Init PROVE OnceInv
    OBVIOUS
  <2>1. Histories = {<<>>} /\ Unwrittens = {} /\ pending = <<>>
    BY DEF Init, Histories, Unwrittens
  <2>. QED
    BY <2>1, IdsEmpty DEF OnceInv, Sound, Apart, Known
<1>2. TypeOK /\ OnceInv /\ [Next]_vars => OnceInv'
  <2> SUFFICES ASSUME TypeOK, OnceInv, [Next]_vars
               PROVE  OnceInv'
    OBVIOUS
  <2>1. Distinct(pending) /\ Ids(pending) \subseteq Ids(pending)
    BY DEF OnceInv, Sound, Apart
  <2>2. ASSUME UNCHANGED <<history, calls, pending, recorded>>
        PROVE  OnceInv'
    BY <2>1, <2>2, OnlyCleared, SoundFewer DEF OnceInv
  <2>3. ASSUME NEW d \in downloads, DownloadDone(d)
        PROVE  OnceInv'
    BY <2>2, <2>3 DEF DownloadDone, storageVars
  <2>4. CASE Killed \/ IdleTimeout
    <3>1. /\ calls' \subseteq calls /\ history' = history /\ recorded' = recorded
          /\ pending' = <<>>
      BY <2>4 DEF Killed, IdleTimeout, StopWorker, storageVars
    <3>. QED
      BY <3>1, IdsEmpty, OnlyCleared, SoundFewer DEF OnceInv
  <2>5. CASE UNCHANGED vars
    BY <2>2, <2>5 DEF vars, workerVars, storageVars
  <2>. QED
    BY <2>3, <2>4, <2>5, OnceEvents, OnceAnswers DEF Next
<1>. QED
  BY <1>1, <1>2, TypeCorrect, PTL DEF Spec

\* AtMostOnce is an invariant: whatever overlaps, fails and is retried, no entry is
\* stored twice, for every cap, speed of storage and number of failures.
THEOREM NeverStoredTwice == Spec => []AtMostOnce
<1>1. OnceInv => AtMostOnce
  BY DEF OnceInv, Sound, Apart, Unwrittens, AtMostOnce
<1>. QED
  BY <1>1, OnceInvariant, PTL

-----------------------------------------------------------------------------
(* BufferWatched.  Only a rejected write fills the buffer without a timer,  *)
(* and before a write has failed no call awaits a rejected one.             *)

NoneRejected == failures = 0 => \A c \in calls : c.at = "flushSet" => c.ok

WatchInv == BufferWatched /\ NoneRejected

\* A flush leaves an empty buffer and no timer.
LEMMA WatchFlush ==
    ASSUME WatchInv, NEW buffer, NEW next, FlushToStorage(buffer, next),
           failures' = failures
    PROVE  WatchInv'
<1>1. BufferWatched'
  BY EmptySeq, ConstantsAssumption DEF FlushToStorage, BufferWatched
<1>2. NoneRejected'
  BY ResumedReads DEF FlushToStorage, WatchInv, NoneRejected, GetForFlush
<1>. QED
  BY <1>1, <1>2 DEF WatchInv

\* A step that leaves buffer and timer alone, and adds no rejected write without
\* counting a failure.
LEMMA WatchKept ==
    ASSUME TypeOK, WatchInv, UNCHANGED <<pending, timer>>,
           failures' \in {failures, failures + 1},
           failures' = failures => NoneRejected'
    PROVE  WatchInv'
<1>1. failures \in Nat /\ (failures' = 0 => failures' = failures)
  BY DEF TypeOK
<1>2. BufferWatched'
  BY <1>1 DEF WatchInv, BufferWatched
<1>3. NoneRejected'
  BY <1>1 DEF NoneRejected
<1>. QED
  BY <1>2, <1>3 DEF WatchInv

LEMMA WatchEvents ==
    ASSUME TypeOK, WatchInv,
           \/ OnInstalled
           \/ \E t \in Tabs : OnUpdated(t) \/ OnCommitted(t) \/ ContentData(t)
           \/ TimerFires
           \/ \E kind \in Kinds, filter \in Filters : AskToRead(kind, filter)
           \/ AskToClear
    PROVE  WatchInv'
<1>1. CASE OnInstalled
  <2>1. UNCHANGED <<pending, timer, calls>> /\ failures' \in {failures, failures + 1}
    BY <1>1 DEF OnInstalled, workerVars, MayFail
  <2>. QED
    BY <2>1, WatchKept DEF WatchInv, NoneRejected
<1>2. ASSUME NEW t \in Tabs, OnUpdated(t)
      PROVE  WatchInv'
  <2> DEFINE entry == [id |-> recorded + 1, tab |-> t, page |-> page[t], about |-> 0]
             buffer == Append(pending, entry)
  <2>1. failures' = failures
    BY <1>2 DEF OnUpdated
  <2>2. CASE FlushToStorage(buffer, NoRequest)
    BY <2>1, <2>2, WatchFlush
  <2>3. CASE ~Full(buffer) /\ pending' = buffer /\ ArmTimer /\ calls' = calls
    <3>1. buffer # <<>> /\ Len(buffer) \in Nat
      <4>1. entry \in Entry /\ pending \in Seq(Entry)
        BY DEF TypeOK, Entry
      <4>. QED
        BY <4>1, AppendProperties, LenProperties
    <3>2. Len(buffer) < FlushAt
      BY <2>3, <3>1, ConstantsAssumption DEF Full
    <3>. QED
      BY <2>1, <2>3, <3>1, <3>2 DEF ArmTimer, WatchInv, BufferWatched, NoneRejected
  <2>. QED
    BY <1>2, <2>2, <2>3 DEF OnUpdated
<1>3. ASSUME NEW t \in Tabs, OnCommitted(t)
      PROVE  WatchInv'
  BY <1>3, WatchFlush DEF OnCommitted, WatchInv, BufferWatched, NoneRejected
<1>4. ASSUME NEW t \in Tabs, ContentData(t)
      PROVE  WatchInv'
  <2>1. Len(pending') = Len(pending) /\ (pending' = <<>> <=> pending = <<>>)
    <3>1. pending' = pending \/ \E i : pending' = [pending EXCEPT ![i].about = page[t]]
      BY <1>4 DEF ContentData
    <3>2. pending \in [1..Len(pending) -> Entry] /\ Len(pending) \in Nat
      BY LenProperties DEF TypeOK
    <3>3. DOMAIN pending' = 1..Len(pending) /\ DOMAIN pending = 1..Len(pending)
      BY <3>1, <3>2
    <3>4. ASSUME NEW i, pending' = [pending EXCEPT ![i].about = page[t]], i \in 1..Len(pending)
          PROVE  pending' \in Seq(Entry) /\ Len(pending') = Len(pending)
      <4>1. [pending[i] EXCEPT !.about = page[t]] \in Entry
        BY <3>2, <3>4 DEF TypeOK, Entry
      <4>. QED
        BY <3>4, <4>1, ExceptSeq DEF TypeOK
    <3>5. ASSUME NEW i, pending' = [pending EXCEPT ![i].about = page[t]], i \notin 1..Len(pending)
          PROVE  pending' = pending
      BY <3>2, <3>5
    <3>6. pending' \in Seq(Entry) /\ Len(pending') = Len(pending)
      BY <3>1, <3>4, <3>5 DEF TypeOK
    <3>. QED
      BY <3>6, EmptySeq DEF TypeOK
  <2>2. UNCHANGED <<timer, calls, failures>>
    BY <1>4 DEF ContentData
  <2>. QED
    BY <2>1, <2>2 DEF WatchInv, BufferWatched, NoneRejected
<1>5. CASE TimerFires
  BY <1>5, WatchFlush DEF TimerFires
<1>6. ASSUME NEW kind \in Kinds, NEW filter \in Filters, AskToRead(kind, filter)
      PROVE  WatchInv'
  BY <1>6, WatchFlush DEF AskToRead
<1>7. CASE AskToClear
  <2>1. /\ UNCHANGED <<pending, timer>> /\ failures' \in {failures, failures + 1}
        /\ \A c \in calls' : c \in calls \/ c.at = "clearSet"
    BY <1>7 DEF AskToClear, MayFail
  <2>. QED
    BY <2>1, WatchKept DEF WatchInv, NoneRejected
<1>. QED
  BY <1>1, <1>2, <1>3, <1>4, <1>5, <1>6, <1>7

LEMMA WatchAnswers ==
    ASSUME TypeOK, WatchInv, NEW c \in calls, StorageAnswers(c)
    PROVE  WatchInv'
<1>1. CASE FlushGot(c)
  <2>1. /\ UNCHANGED <<pending, timer>> /\ failures' \in {failures, failures + 1}
        /\ failures' = failures => NoneRejected'
    BY <1>1 DEF FlushGot, MayFail, WatchInv, NoneRejected, TypeOK
  <2>. QED
    BY <2>1, WatchKept
<1>2. CASE FlushStored(c)
  <2>1. UNCHANGED <<pending, timer, failures>> /\ NoneRejected'
    BY <1>2, ResumedReads DEF FlushStored, WatchInv, NoneRejected
  <2>. QED
    BY <2>1, WatchKept
<1>3. CASE FlushRejected(c)
  <2>1. failures' # 0
    BY <1>3 DEF FlushRejected, WatchInv, NoneRejected, MayFail, TypeOK
  <2>2. /\ pending' = c.batch \o pending /\ timer' = timer
        /\ c.batch \in Seq(Entry) /\ pending \in Seq(Entry)
    BY <1>3, CallCases DEF FlushRejected, PutBack, TypeOK, FlushGet, FlushSet
  <2>3. timer' => pending' # <<>>
    BY <2>2, ConcatEqualIffEmpty DEF WatchInv, BufferWatched
  <2>. QED
    BY <2>1, <2>3 DEF WatchInv, BufferWatched, NoneRejected
<1>4. CASE ReadGot(c) \/ ReadRejected(c) \/ ClearDone(c)
  <2>1. /\ UNCHANGED <<pending, timer>> /\ calls' \subseteq calls
        /\ failures' \in {failures, failures + 1}
    BY <1>4 DEF ReadGot, ReadRejected, ClearDone, MayFail
  <2>. QED
    BY <2>1, WatchKept DEF WatchInv, NoneRejected
<1>. QED
  BY <1>1, <1>2, <1>3, <1>4 DEF StorageAnswers

\* WatchInv is inductive, with the types.
LEMMA WatchInvariant == Spec => []WatchInv
<1>1. Init => WatchInv
  BY EmptySeq, ConstantsAssumption DEF Init, WatchInv, BufferWatched, NoneRejected
<1>2. TypeOK /\ WatchInv /\ [Next]_vars => WatchInv'
  <2> SUFFICES ASSUME TypeOK, WatchInv, [Next]_vars
               PROVE  WatchInv'
    OBVIOUS
  <2>1. ASSUME UNCHANGED <<pending, timer, calls, failures>>
        PROVE  WatchInv'
    BY <2>1 DEF WatchInv, BufferWatched, NoneRejected
  <2>2. ASSUME NEW d \in downloads, DownloadDone(d)
        PROVE  WatchInv'
    BY <2>1, <2>2 DEF DownloadDone
  <2>3. CASE Killed \/ IdleTimeout
    <3>1. pending' = <<>> /\ timer' = FALSE /\ calls' = {}
      BY <2>3 DEF Killed, IdleTimeout, StopWorker
    <3>. QED
      BY <3>1, EmptySeq, ConstantsAssumption DEF WatchInv, BufferWatched, NoneRejected
  <2>4. CASE UNCHANGED vars
    BY <2>1, <2>4 DEF vars, workerVars
  <2>. QED
    BY <2>2, <2>3, <2>4, WatchEvents, WatchAnswers DEF Next
<1>. QED
  BY <1>1, <1>2, TypeCorrect, PTL DEF Spec

\* BufferWatched is an invariant: a timer never fires on an empty buffer, and until a
\* write fails the buffer has a timer and room, whatever the limits are.
THEOREM BufferIsWatched == Spec => []BufferWatched
<1>1. WatchInv => BufferWatched
  BY DEF WatchInv
<1>. QED
  BY <1>1, WatchInvariant, PTL

-----------------------------------------------------------------------------
(* StoredInOrder.  Until a write fails, what a flush has read is older than *)
(* its batch, and its batch is older than the buffer.                       *)

Before(s, t) == \A i \in 1..Len(s), j \in 1..Len(t) : s[i].id < t[j].id

Ordered(buffer, hs, flushes) ==
    /\ IsSorted(buffer, Older)
    /\ \A h \in hs : IsSorted(h, Older) /\ Before(h, buffer)
    /\ \A c \in flushes :
         IsSorted(c.batch, Older) /\ Before(c.history, c.batch) /\ Before(c.batch, buffer)

OrderInv == failures = 0 => Ordered(pending, Histories, Flushes)

LEMMA OrderEmpty == IsSorted(<<>>, Older) /\ \A s : Before(s, <<>>) /\ Before(<<>>, s)
BY DEF IsSorted, Before

LEMMA OrderConcat ==
    ASSUME NEW s \in Seq(Entry), NEW t \in Seq(Entry),
           IsSorted(s, Older), IsSorted(t, Older), Before(s, t)
    PROVE  IsSorted(s \o t, Older)
<1>1. /\ Len(s \o t) = Len(s) + Len(t) /\ Len(s) \in Nat /\ Len(t) \in Nat
      /\ \A i \in 1..(Len(s) + Len(t)) :
            (s \o t)[i] = IF i <= Len(s) THEN s[i] ELSE t[i - Len(s)]
  BY ConcatProperties, LenProperties
<1>2. ASSUME NEW i \in 1..(Len(s) + Len(t)), NEW j \in 1..(Len(s) + Len(t)), i < j
      PROVE  (s \o t)[i].id < (s \o t)[j].id
  <2>1. CASE j <= Len(s)
    <3>1. i \in 1..Len(s) /\ j \in 1..Len(s) /\ (s \o t)[i] = s[i] /\ (s \o t)[j] = s[j]
      BY <1>1, <1>2, <2>1
    <3>. QED
      BY <1>2, <3>1 DEF IsSorted, Older
  <2>2. CASE i <= Len(s) /\ Len(s) < j
    <3>1. /\ i \in 1..Len(s) /\ j - Len(s) \in 1..Len(t)
          /\ (s \o t)[i] = s[i] /\ (s \o t)[j] = t[j - Len(s)]
      BY <1>1, <1>2, <2>2
    <3>. QED
      BY <3>1 DEF Before
  <2>3. CASE Len(s) < i
    <3>1. /\ i - Len(s) \in 1..Len(t) /\ j - Len(s) \in 1..Len(t) /\ i - Len(s) < j - Len(s)
          /\ (s \o t)[i] = t[i - Len(s)] /\ (s \o t)[j] = t[j - Len(s)]
      BY <1>1, <1>2, <2>3
    <3>. QED
      BY <3>1 DEF IsSorted, Older
  <2>. QED
    BY <1>1, <1>2, <2>1, <2>2, <2>3
<1>. QED
  BY <1>1, <1>2 DEF IsSorted, Older

\* A concatenation is before what both its parts are before.
LEMMA BeforeConcat ==
    ASSUME NEW s \in Seq(Entry), NEW t \in Seq(Entry), NEW u,
           Before(s, u), Before(t, u)
    PROVE  Before(s \o t, u)
<1>1. /\ Len(s \o t) = Len(s) + Len(t) /\ Len(s) \in Nat /\ Len(t) \in Nat
      /\ \A i \in 1..(Len(s) + Len(t)) :
            (s \o t)[i] = IF i <= Len(s) THEN s[i] ELSE t[i - Len(s)]
  BY ConcatProperties, LenProperties
<1>2. ASSUME NEW i \in 1..Len(s \o t), NEW j \in 1..Len(u)
      PROVE  (s \o t)[i].id < u[j].id
  <2>1. CASE i <= Len(s)
    BY <1>1, <1>2, <2>1 DEF Before
  <2>2. CASE ~(i <= Len(s))
    <3>1. i - Len(s) \in 1..Len(t) /\ (s \o t)[i] = t[i - Len(s)]
      BY <1>1, <1>2, <2>2
    <3>. QED
      BY <3>1 DEF Before
  <2>. QED
    BY <2>1, <2>2
<1>. QED
  BY <1>2 DEF Before

LEMMA OrderTrim ==
    ASSUME NEW h \in Seq(Entry), IsSorted(h, Older), NEW u, Before(h, u)
    PROVE  IsSorted(Trim(h), Older) /\ Before(Trim(h), u)
<1>1. PICK k \in Nat :
        \A i \in 1..Len(Trim(h)) : i + k \in 1..Len(h) /\ Trim(h)[i] = h[i + k]
  BY TrimElements
<1>2. Before(Trim(h), u)
  BY <1>1 DEF Before
<1>3. ASSUME NEW i \in 1..Len(Trim(h)), NEW j \in 1..Len(Trim(h)), i < j
      PROVE  Trim(h)[i].id < Trim(h)[j].id
  <2>1. i + k < j + k /\ i + k \in 1..Len(h) /\ j + k \in 1..Len(h)
    BY <1>1, <1>3
  <2>2. h[i + k].id < h[j + k].id
    BY <2>1 DEF IsSorted, Older
  <2>. QED
    BY <1>1, <2>2
<1>. QED
  BY <1>2, <1>3 DEF IsSorted, Older

\* A new entry is newer than any sequence of entries recorded before it.
LEMMA OrderAppend ==
    ASSUME NEW s \in Seq(Entry), NEW e \in Entry, NEW n \in Nat, e.id = n + 1
    PROVE  /\ (IsSorted(s, Older) /\ Ids(s) \subseteq 1..n) => IsSorted(Append(s, e), Older)
           /\ \A r \in Seq(Entry) :
                 (Before(r, s) /\ Ids(r) \subseteq 1..n) => Before(r, Append(s, e))
<1>1. /\ Len(Append(s, e)) = Len(s) + 1 /\ Len(s) \in Nat
      /\ \A i \in 1..Len(s) : Append(s, e)[i] = s[i]
      /\ Append(s, e)[Len(s) + 1] = e
  BY AppendProperties, LenProperties
<1>2. ASSUME NEW r \in Seq(Entry), Ids(r) \subseteq 1..n, NEW i \in 1..Len(r)
      PROVE  r[i].id < n + 1
  <2>1. r[i].id \in Ids(r)
    BY <1>2, LenProperties DEF Ids
  <2>. QED
    BY <1>2, <2>1
<1>3. ASSUME IsSorted(s, Older), Ids(s) \subseteq 1..n,
             NEW i \in 1..Len(Append(s, e)), NEW j \in 1..Len(Append(s, e)), i < j
      PROVE  Append(s, e)[i].id < Append(s, e)[j].id
  <2>1. i \in 1..Len(s) /\ Append(s, e)[i] = s[i]
    BY <1>1, <1>3
  <2>2. CASE j \in 1..Len(s)
    BY <1>1, <1>3, <2>1, <2>2 DEF IsSorted, Older
  <2>3. CASE j = Len(s) + 1
    BY <1>1, <1>2, <1>3, <2>1, <2>3
  <2>. QED
    BY <1>1, <1>3, <2>2, <2>3
<1>4. ASSUME NEW r \in Seq(Entry), Before(r, s), Ids(r) \subseteq 1..n
      PROVE  Before(r, Append(s, e))
  <2>1. \A i \in 1..Len(r) : r[i].id < n + 1
    BY <1>2, <1>4
  <2>. QED
    BY <1>1, <1>4, <2>1 DEF Before
<1>. QED
  BY <1>3, <1>4 DEF IsSorted, Older

LEMMA OrderFewer ==
    ASSUME NEW b, NEW hs, NEW fs, Ordered(b, hs, fs),
           NEW b2 \in {b, <<>>},
           NEW hs2, \A h \in hs2 : h \in hs \/ h = <<>>,
           NEW fs2, fs2 \subseteq fs
    PROVE  Ordered(b2, hs2, fs2)
BY OrderEmpty DEF Ordered

LEMMA OrderTaken ==
    ASSUME NEW b, NEW hs, NEW fs, Ordered(b, hs, fs),
           NEW c, c.batch = b, c.history \in hs,
           NEW fs2, fs2 \subseteq fs \cup {c}
    PROVE  Ordered(<<>>, hs, fs2)
BY OrderEmpty DEF Ordered

LEMMA OrderFlush ==
    ASSUME NEW buffer, NEW next, FlushToStorage(buffer, next), history' = history,
           Ordered(buffer, Histories, Flushes)
    PROVE  Ordered(pending', Histories', Flushes')
<1>1. PICK c : c = GetForFlush(buffer, next)
  OBVIOUS
<1>2. c.batch = buffer /\ c.history \in Histories
  BY <1>1 DEF GetForFlush, Histories
<1>3. Flushes' \subseteq Flushes \cup {c}
  BY <1>1, ResumedReads DEF FlushToStorage, Flushes
<1>4. Ordered(<<>>, Histories, Flushes')
  BY <1>2, <1>3, OrderTaken
<1>5. pending' = <<>> /\ \A h \in Histories' : h \in Histories \/ h = <<>>
  BY FlushTakes
<1>. QED
  BY <1>4, <1>5, OrderFewer

\* A step in which calls may end and reads begin, that empties buffer or history
\* or leaves them.
LEMMA OrderKept ==
    ASSUME TypeOK, OrderInv, failures' \in {failures, failures + 1},
           NEW next, \A c \in calls' : c \in calls \cup Resume(next) \/ c.at \in {"clearSet", "flushSet"},
           history' \in {history, <<>>}, pending' \in {pending, <<>>}
    PROVE  OrderInv'
<1>1. failures' = 0 => failures = 0
  BY DEF TypeOK
<1>2. Flushes' \subseteq Flushes
  BY ResumedReads DEF Flushes
<1>3. \A h \in Histories' : h \in Histories \/ h = <<>>
  BY ResumedReads DEF Histories
<1>. QED
  BY <1>1, <1>2, <1>3, OrderFewer DEF OrderInv

\* Every history and every batch is a sequence of entries recorded so far.
LEMMA FlushFacts ==
    ASSUME TypeOK, OnceInv
    PROVE  /\ \A h \in Histories : h \in Seq(Entry) /\ Ids(h) \subseteq 1..recorded
           /\ \A c \in Flushes : /\ c.batch \in Seq(Entry) /\ Ids(c.batch) \subseteq 1..recorded
                                 /\ c.history \in Histories
           /\ pending \in Seq(Entry) /\ Ids(pending) \subseteq 1..recorded
<1>1. \A h \in Histories : h \in Seq(Entry)
  BY CallCases DEF TypeOK, Histories, FlushGet, ReadGet
<1>2. \A c \in Flushes : c.batch \in Seq(Entry) /\ c \in Unwrittens /\ c.history \in Histories
  BY CallCases DEF TypeOK, Flushes, FlushGet, Unwrittens, Unwritten, Histories
<1>. QED
  BY <1>1, <1>2 DEF OnceInv, Sound, Known, TypeOK

LEMMA OrderEvents ==
    ASSUME TypeOK, OnceInv, OrderInv,
           \/ OnInstalled
           \/ \E t \in Tabs : OnUpdated(t) \/ OnCommitted(t) \/ ContentData(t)
           \/ TimerFires
           \/ \E kind \in Kinds, filter \in Filters : AskToRead(kind, filter)
           \/ AskToClear
    PROVE  OrderInv'
<1>1. CASE OnInstalled
  <2>1. /\ failures' \in {failures, failures + 1} /\ calls' = calls
        /\ history' \in {history, <<>>} /\ pending' = pending
    BY <1>1 DEF OnInstalled, workerVars, storageVars, MayFail
  <2>. QED
    BY <2>1, OrderKept
<1>2. ASSUME NEW t \in Tabs, OnUpdated(t)
      PROVE  OrderInv'
  <2> DEFINE entry == [id |-> recorded + 1, tab |-> t, page |-> page[t], about |-> 0]
             buffer == Append(pending, entry)
  <2>1. /\ entry \in Entry /\ entry.id = recorded + 1 /\ recorded \in Nat
        /\ history' = history /\ failures' = failures
    BY <1>2 DEF TypeOK, Entry, OnUpdated, storageVars
  <2>2. ASSUME failures = 0
        PROVE  Ordered(buffer, Histories, Flushes)
    <3>1. Ordered(pending, Histories, Flushes)
      BY <2>2 DEF OrderInv
    <3>2. IsSorted(buffer, Older)
      BY <2>1, <3>1, FlushFacts, OrderAppend DEF Ordered
    <3>3. \A h \in Histories : IsSorted(h, Older) /\ Before(h, buffer)
      BY <2>1, <3>1, FlushFacts, OrderAppend DEF Ordered
    <3>4. \A c \in Flushes : /\ IsSorted(c.batch, Older) /\ Before(c.history, c.batch)
                            /\ Before(c.batch, buffer)
      BY <2>1, <3>1, FlushFacts, OrderAppend DEF Ordered
    <3>. QED
      BY <3>2, <3>3, <3>4 DEF Ordered
  <2>3. CASE FlushToStorage(buffer, NoRequest)
    BY <2>1, <2>2, <2>3, OrderFlush DEF OrderInv
  <2>4. CASE pending' = buffer /\ calls' = calls
    BY <2>1, <2>2, <2>4 DEF OrderInv, Histories, Flushes
  <2>. QED
    BY <1>2, <2>3, <2>4 DEF OnUpdated
<1>3. ASSUME NEW t \in Tabs, OnCommitted(t)
      PROVE  OrderInv'
  <2>1. history' = history /\ failures' = failures
    BY <1>3 DEF OnCommitted, storageVars
  <2>2. CASE FlushToStorage(pending, NoRequest)
    BY <2>1, <2>2, OrderFlush DEF OrderInv
  <2>3. CASE pending' = pending /\ calls' = calls
    BY <2>1, <2>3, OrderKept
  <2>. QED
    BY <1>3, <2>2, <2>3 DEF OnCommitted
<1>4. ASSUME NEW t \in Tabs, ContentData(t)
      PROVE  OrderInv'
  <2>1. history' = history /\ failures' = failures /\ calls' = calls
    BY <1>4 DEF ContentData, storageVars
  <2>2. Len(pending') = Len(pending) /\ \A j \in 1..Len(pending) : pending'[j].id = pending[j].id
    <3>1. pending' = pending \/ \E i : pending' = [pending EXCEPT ![i].about = page[t]]
      BY <1>4 DEF ContentData
    <3>2. pending \in [1..Len(pending) -> Entry] /\ Len(pending) \in Nat
      BY LenProperties DEF TypeOK
    <3>3. DOMAIN pending' = 1..Len(pending) /\ \A j \in 1..Len(pending) : pending'[j].id = pending[j].id
      BY <3>1, <3>2 DEF Entry
    <3>4. pending' \in Seq(Entry)
      BY <1>4, EventsType DEF TypeOK
    <3>5. DOMAIN pending' = 1..Len(pending') /\ Len(pending') \in Nat
      BY <3>4, LenProperties
    <3>. QED
      BY <3>2, <3>3, <3>5
  <2>3. /\ \A s : Before(s, pending) => Before(s, pending')
        /\ IsSorted(pending, Older) => IsSorted(pending', Older)
    BY <2>2 DEF Before, IsSorted, Older
  <2>4. Histories' = Histories /\ Flushes' = Flushes
    BY <2>1 DEF Histories, Flushes
  <2>. QED
    BY <2>1, <2>3, <2>4 DEF OrderInv, Ordered
<1>5. CASE TimerFires
  BY <1>5, OrderFlush DEF TimerFires, storageVars, OrderInv
<1>6. ASSUME NEW kind \in Kinds, NEW filter \in Filters, AskToRead(kind, filter)
      PROVE  OrderInv'
  BY <1>6, OrderFlush DEF AskToRead, storageVars, OrderInv
<1>7. CASE AskToClear
  <2>1. /\ pending' = pending /\ history' \in {history, <<>>}
        /\ failures' \in {failures, failures + 1}
        /\ \A c \in calls' : c \in calls \/ c.at = "clearSet"
    BY <1>7 DEF AskToClear, storageVars, MayFail
  <2>. QED
    BY <2>1, OrderKept
<1>. QED
  BY <1>1, <1>2, <1>3, <1>4, <1>5, <1>6, <1>7

LEMMA OrderAnswers ==
    ASSUME TypeOK, OnceInv, WatchInv, OrderInv, NEW c \in calls, StorageAnswers(c)
    PROVE  OrderInv'
<1>1. CASE FlushGot(c)
  <2> DEFINE written == Appended(c.history, c.batch)
  <2>1. pending' = pending /\ failures' \in {failures, failures + 1}
    BY <1>1 DEF FlushGot, MayFail
  <2>2. CASE history' = history
    <3>1. \A d \in calls' : d \in calls \/ d.at = "flushSet"
      BY <1>1 DEF FlushGot
    <3>. QED
      BY <2>1, <2>2, <3>1, OrderKept
  <2>3. CASE history' = written /\ failures' = failures
    <3> SUFFICES ASSUME failures = 0
                 PROVE  Ordered(pending', Histories', Flushes')
      BY <2>3 DEF OrderInv
    <3>1. Ordered(pending, Histories, Flushes)
      BY DEF OrderInv
    <3>2. c \in Flushes /\ c.history \in Histories
      BY <1>1 DEF FlushGot, Flushes, Histories
    <3>3. c.history \in Seq(Entry) /\ c.batch \in Seq(Entry) /\ c.history \o c.batch \in Seq(Entry)
      BY <3>2, FlushFacts, ConcatProperties
    <3>4. IsSorted(c.history \o c.batch, Older) /\ Before(c.history \o c.batch, pending)
      BY <3>1, <3>2, <3>3, OrderConcat, BeforeConcat DEF Ordered
    <3>5. IsSorted(written, Older) /\ Before(written, pending)
      BY <3>3, <3>4, OrderTrim DEF Appended
    <3>6. Histories' \subseteq Histories \cup {written} /\ Flushes' \subseteq Flushes
      BY <1>1, <2>3 DEF FlushGot, Histories, Flushes
    <3>. QED
      BY <2>1, <3>1, <3>5, <3>6 DEF Ordered
  <2>. QED
    BY <1>1, <2>2, <2>3 DEF FlushGot, storageVars
<1>2. CASE FlushStored(c)
  BY <1>2, OrderKept DEF FlushStored, storageVars
<1>3. CASE FlushRejected(c)
  <2>1. failures' # 0
    BY <1>3 DEF FlushRejected, WatchInv, NoneRejected, MayFail, TypeOK
  <2>. QED
    BY <2>1 DEF OrderInv
<1>4. CASE ReadGot(c) \/ ReadRejected(c) \/ ClearDone(c)
  <2>1. /\ pending' = pending /\ history' = history /\ calls' \subseteq calls
        /\ failures' \in {failures, failures + 1}
    BY <1>4 DEF ReadGot, ReadRejected, ClearDone, MayFail, storageVars
  <2>. QED
    BY <2>1, OrderKept
<1>. QED
  BY <1>1, <1>2, <1>3, <1>4 DEF StorageAnswers

\* OrderInv is inductive, with the other invariants.
LEMMA OrderInvariant == Spec => []OrderInv
<1>1. Init => OrderInv
  <2> SUFFICES ASSUME Init PROVE OrderInv
    OBVIOUS
  <2>1. Histories = {<<>>} /\ Flushes = {} /\ pending = <<>>
    BY DEF Init, Histories, Flushes
  <2>. QED
    BY <2>1, OrderEmpty DEF OrderInv, Ordered
<1>2. TypeOK /\ OnceInv /\ WatchInv /\ OrderInv /\ [Next]_vars => OrderInv'
  <2> SUFFICES ASSUME TypeOK, OnceInv, WatchInv, OrderInv, [Next]_vars
               PROVE  OrderInv'
    OBVIOUS
  <2>1. ASSUME UNCHANGED <<failures, history, calls>>, pending' \in {pending, <<>>}
        PROVE  OrderInv'
    BY <2>1, OrderKept
  <2>2. ASSUME NEW d \in downloads, DownloadDone(d)
        PROVE  OrderInv'
    BY <2>1, <2>2 DEF DownloadDone, storageVars
  <2>3. CASE Killed \/ IdleTimeout
    BY <2>3, OrderKept DEF Killed, IdleTimeout, StopWorker, storageVars
  <2>4. CASE UNCHANGED vars
    BY <2>1, <2>4 DEF vars, workerVars, storageVars
  <2>. QED
    BY <2>2, <2>3, <2>4, OrderEvents, OrderAnswers DEF Next
<1>. QED
  BY <1>1, <1>2, TypeCorrect, OnceInvariant, WatchInvariant, PTL DEF Spec

\* StoredInOrder is an invariant: as long as no write fails, flushes that overlap in
\* any way write back snapshots that are in the order of recording.
THEOREM HistoryInOrder == Spec => []StoredInOrder
<1>1. OrderInv => StoredInOrder
  BY DEF OrderInv, Ordered, StoredInOrder
<1>. QED
  BY <1>1, OrderInvariant, PTL

-----------------------------------------------------------------------------
(* FlushedFirst.  A call has a request waiting for it if it reads for that  *)
(* request or is the flush its handler awaits; until a write fails, what a  *)
(* request found in the buffer is neither in the buffer nor in any batch    *)
(* but that of its own flush.                                               *)

Waiting(c) ==
    IF c.at = "readGet" THEN {c.request}
    ELSE IF c.at \in {"flushGet", "flushSet"} THEN {c.next} \ {NoRequest} ELSE {}

OnlyIn(ids, c) ==
    /\ ids \subseteq 1..recorded
    /\ ids \cap Ids(pending) = {}
    /\ \A d \in Unwrittens \ {c} : ids \cap Ids(d.batch) = {}

\* The inductive invariant.
HeldInv == failures = 0 => \A c \in calls : \A r \in Waiting(c) : OnlyIn(r.held, c)

\* What a resolved flush lets go on reads for the request that awaited it.
LEMMA ResumedWaits ==
    ASSUME NEW next, NEW c \in Resume(next)
    PROVE  c.at = "readGet" /\ Waiting(c) = {next} /\ next # NoRequest /\ ~Unwritten(c)
<1>1. next # NoRequest /\ c = GetForRead(next)
  BY DEF Resume
<1>2. c.at = "readGet" /\ c.request = next
  BY <1>1 DEF GetForRead
<1>. QED
  BY <1>1, <1>2 DEF Waiting, Unwritten

\* Steps in which calls may end, and none begins that writes or has a request waiting.
LEMMA HeldKept ==
    ASSUME TypeOK, HeldInv, failures' \in {failures, failures + 1}, recorded' = recorded,
           Ids(pending') \subseteq Ids(pending),
           \A c \in calls' : c \in calls \/ (Waiting(c) = {} /\ ~Unwritten(c))
    PROVE  HeldInv'
<1> SUFFICES ASSUME failures' = 0, NEW c \in calls', NEW r \in Waiting(c)
             PROVE  OnlyIn(r.held, c)'
  BY DEF HeldInv, Waiting
<1>1. failures = 0
  BY DEF TypeOK
<1>2. c \in calls
  OBVIOUS
<1>3. OnlyIn(r.held, c)
  BY <1>1, <1>2 DEF HeldInv
<1>4. Unwrittens' \subseteq Unwrittens
  BY DEF Unwrittens, Unwritten
<1>. QED
  BY <1>3, <1>4 DEF OnlyIn

\* A flush takes what its request found in the buffer, and nobody else has that.
LEMMA HeldFlush ==
    ASSUME TypeOK, HeldInv, failures' = failures,
           NEW buffer, NEW next, FlushToStorage(buffer, next),
           Sound(buffer, Histories, Unwrittens, recorded'),
           recorded' \in {recorded, recorded + 1},
           Ids(buffer) \subseteq Ids(pending) \cup {recorded + 1},
           next # NoRequest => next.held = Ids(buffer)
    PROVE  HeldInv'
<1> SUFFICES ASSUME failures = 0, NEW c \in calls', NEW r \in Waiting(c)
             PROVE  OnlyIn(r.held, c)'
  BY DEF HeldInv, Waiting
<1>1. PICK new : new = GetForFlush(buffer, next)
  OBVIOUS
<1>2. new.at = "flushGet" /\ new.batch = buffer /\ new.next = next
  BY <1>1 DEF GetForFlush
<1>3. pending' = <<>> /\ Ids(pending') = {}
  BY IdsEmpty DEF FlushToStorage
<1>4. Unwrittens' \subseteq Unwrittens \cup {new}
  BY <1>1, ResumedWaits DEF FlushToStorage, Unwrittens, Unwritten
<1>5. c = new \/ c \in Resume(next) \/ c \in calls
  BY <1>1 DEF FlushToStorage
<1>6. /\ Ids(buffer) \subseteq 1..recorded'
      /\ \A d \in Unwrittens : Ids(buffer) \cap Ids(d.batch) = {}
  BY DEF Sound, Apart, Known
<1>7. recorded \in Nat
  BY DEF TypeOK
<1>8. CASE c = new
  <2>1. r = next /\ next # NoRequest
    BY <1>2, <1>8 DEF Waiting
  <2>2. r.held = Ids(buffer)
    BY <2>1
  <2>. QED
    BY <1>3, <1>4, <1>6, <1>8, <2>2 DEF OnlyIn
<1>9. CASE c \in Resume(next)
  <2>1. r = next /\ next # NoRequest
    BY <1>9, ResumedWaits
  <2>2. CASE buffer = <<>>
    <3>1. r.held = {}
      BY <2>1, <2>2, IdsEmpty
    <3>. QED
      BY <3>1 DEF OnlyIn
  <2>3. CASE buffer # <<>>
    <3>1. calls' = calls \cup {new}
      BY <1>1, <2>3 DEF FlushToStorage
    <3>2. c \in calls /\ c # new
      <4>1. c.at = "readGet"
        BY <1>9, ResumedWaits
      <4>. QED
        BY <1>2, <3>1, <4>1
    <3>3. OnlyIn(r.held, c)
      BY <3>2 DEF HeldInv
    <3>4. r.held \cap Ids(buffer) = {}
      BY <1>7, <3>3 DEF OnlyIn
    <3>5. r.held \subseteq 1..recorded'
      BY <1>7, <3>3 DEF OnlyIn
    <3>. QED
      BY <1>2, <1>3, <1>4, <3>3, <3>4, <3>5 DEF OnlyIn
  <2>. QED
    BY <2>2, <2>3
<1>10. CASE c \in calls
  <2>1. OnlyIn(r.held, c)
    BY <1>10 DEF HeldInv
  <2>2. r.held \cap Ids(buffer) = {}
    BY <1>7, <2>1 DEF OnlyIn
  <2>3. r.held \subseteq 1..recorded'
    BY <1>7, <2>1 DEF OnlyIn
  <2>. QED
    BY <1>2, <1>3, <1>4, <2>1, <2>2, <2>3 DEF OnlyIn
<1>. QED
  BY <1>5, <1>8, <1>9, <1>10

LEMMA HeldEvents ==
    ASSUME TypeOK, OnceInv, HeldInv,
           \/ OnInstalled
           \/ \E t \in Tabs : OnUpdated(t) \/ OnCommitted(t) \/ ContentData(t)
           \/ TimerFires
           \/ \E kind \in Kinds, filter \in Filters : AskToRead(kind, filter)
           \/ AskToClear
    PROVE  HeldInv'
<1>1. recorded \in Nat /\ pending \in Seq(Entry)
  BY DEF TypeOK
<1>2. ASSUME NEW next, FlushToStorage(pending, next), UNCHANGED <<failures, recorded>>,
             next # NoRequest => next.held = Ids(pending)
      PROVE  HeldInv'
  <2>1. Sound(pending, Histories, Unwrittens, recorded')
    BY <1>2 DEF OnceInv
  <2>. QED
    BY <1>2, <2>1, HeldFlush
<1>3. CASE OnInstalled
  <2>1. UNCHANGED <<pending, calls, recorded>> /\ failures' \in {failures, failures + 1}
    BY <1>3 DEF OnInstalled, workerVars, MayFail
  <2>. QED
    BY <2>1, HeldKept
<1>4. ASSUME NEW t \in Tabs, OnUpdated(t)
      PROVE  HeldInv'
  <2>1. PICK e : e = [id |-> recorded + 1, tab |-> t, page |-> page[t], about |-> 0]
    OBVIOUS
  <2>2. e \in Entry /\ e.id = recorded + 1
    BY <2>1 DEF Entry, TypeOK
  <2>3. PICK buffer : buffer = Append(pending, e)
    OBVIOUS
  <2>4. Ids(buffer) = Ids(pending) \cup {recorded + 1}
    BY <1>1, <2>2, <2>3, IdsAppend
  <2>5. Distinct(buffer)
    <3>1. Distinct(pending) /\ Ids(pending) \subseteq 1..recorded
      BY DEF OnceInv, Sound, Apart, Known
    <3>2. recorded + 1 \notin Ids(pending)
      BY <1>1, <3>1
    <3>. QED
      BY <1>1, <2>2, <2>3, <3>1, <3>2, IdsAppend
  <2>6. UNCHANGED failures /\ recorded' = recorded + 1
    BY <1>4 DEF OnUpdated
  <2>7. Sound(buffer, Histories, Unwrittens, recorded')
    BY <1>1, <2>4, <2>5, <2>6, SoundRecorded DEF OnceInv
  <2>8. FlushToStorage(buffer, NoRequest) \/ (pending' = buffer /\ calls' = calls)
    BY <1>4, <2>1, <2>3 DEF OnUpdated
  <2>9. CASE FlushToStorage(buffer, NoRequest)
    BY <2>4, <2>6, <2>7, <2>9, HeldFlush
  <2>10. CASE pending' = buffer /\ calls' = calls
    <3> SUFFICES ASSUME failures = 0, NEW c \in calls, NEW r \in Waiting(c)
                 PROVE  OnlyIn(r.held, c)'
      BY <2>6, <2>10 DEF HeldInv, Waiting
    <3>1. OnlyIn(r.held, c)
      BY DEF HeldInv
    <3>2. r.held \subseteq 1..recorded' /\ r.held \cap Ids(pending') = {}
      BY <1>1, <2>4, <2>6, <2>10, <3>1 DEF OnlyIn
    <3>3. Unwrittens' = Unwrittens
      BY <2>10 DEF Unwrittens, Unwritten
    <3>. QED
      BY <3>1, <3>2, <3>3 DEF OnlyIn
  <2>. QED
    BY <2>8, <2>9, <2>10
<1>5. ASSUME NEW t \in Tabs, OnCommitted(t)
      PROVE  HeldInv'
  <2>1. UNCHANGED <<failures, recorded>>
    BY <1>5 DEF OnCommitted
  <2>2. FlushToStorage(pending, NoRequest) \/ UNCHANGED <<pending, calls>>
    BY <1>5 DEF OnCommitted
  <2>. QED
    BY <1>2, <2>1, <2>2, HeldKept
<1>6. ASSUME NEW t \in Tabs, ContentData(t)
      PROVE  HeldInv'
  <2>1. UNCHANGED <<failures, recorded, calls>>
    BY <1>6 DEF ContentData
  <2>2. Ids(pending') = Ids(pending)
    <3>1. pending' = pending \/ \E i : pending' = [pending EXCEPT ![i].about = page[t]]
      BY <1>6 DEF ContentData
    <3>2. pending \in [1..Len(pending) -> Entry]
      BY <1>1, LenProperties
    <3>3. DOMAIN pending' = DOMAIN pending /\ \A j \in DOMAIN pending : pending'[j].id = pending[j].id
      BY <3>1, <3>2 DEF Entry
    <3>. QED
      BY <3>3 DEF Ids
  <2>. QED
    BY <2>1, <2>2, HeldKept
<1>7. CASE TimerFires
  BY <1>2, <1>7 DEF TimerFires
<1>8. ASSUME NEW kind \in Kinds, NEW filter \in Filters, AskToRead(kind, filter)
      PROVE  HeldInv'
  <2>1. NewRequest(kind, filter).held = Ids(pending)
    BY DEF NewRequest
  <2>. QED
    BY <1>2, <1>8, <2>1 DEF AskToRead
<1>9. CASE AskToClear
  <2>1. UNCHANGED <<pending, recorded>> /\ failures' \in {failures, failures + 1}
    BY <1>9 DEF AskToClear, MayFail
  <2>2. \A c \in calls' : c \in calls \/ c.at = "clearSet"
    BY <1>9 DEF AskToClear
  <2>. QED
    BY <2>1, <2>2, HeldKept DEF Waiting, Unwritten
<1>. QED
  BY <1>3, <1>4, <1>5, <1>6, <1>7, <1>8, <1>9

LEMMA HeldAnswers ==
    ASSUME TypeOK, WatchInv, HeldInv, NEW c \in calls, StorageAnswers(c)
    PROVE  HeldInv'
<1>1. recorded' = recorded /\ failures \in Nat
  BY DEF StorageAnswers, TypeOK
<1>2. CASE FlushGot(c)
  <2> SUFFICES ASSUME failures' = 0, NEW e \in calls', NEW r \in Waiting(e)
               PROVE  OnlyIn(r.held, e)'
    BY DEF HeldInv, Waiting
  <2>1. failures = 0 /\ pending' = pending /\ c.at = "flushGet"
    BY <1>1, <1>2 DEF FlushGot, MayFail
  <2>2. PICK d : d = [at |-> "flushSet", batch |-> c.batch, next |-> c.next, ok |-> TRUE]
    OBVIOUS
  <2>3. d.at = "flushSet" /\ d.next = c.next /\ d.ok
    BY <2>2
  <2>4. calls' = (calls \ {c}) \cup {d}
    <3>1. PICK ok \in BOOLEAN :
            /\ calls' = (calls \ {c}) \cup
                    {[at |-> "flushSet", batch |-> c.batch, next |-> c.next, ok |-> ok]}
            /\ ok \/ failures' = failures + 1
      BY <1>2 DEF FlushGot, MayFail
    <3>2. ok = TRUE
      BY <1>1, <2>1, <3>1
    <3>. QED
      BY <2>2, <3>1, <3>2
  <2>5. Unwrittens' \subseteq Unwrittens \ {c}
    BY <2>3, <2>4 DEF Unwrittens, Unwritten
  <2>6. PICK f \in calls : r \in Waiting(f) /\ (f = e \/ f = c)
    BY <2>1, <2>3, <2>4 DEF Waiting
  <2>7. OnlyIn(r.held, f)
    BY <2>1, <2>6 DEF HeldInv
  <2>. QED
    BY <1>1, <2>1, <2>5, <2>6, <2>7 DEF OnlyIn
<1>3. CASE FlushStored(c)
  <2> SUFFICES ASSUME failures = 0, NEW e \in calls', NEW r \in Waiting(e)
               PROVE  OnlyIn(r.held, e)'
    BY <1>3 DEF FlushStored, HeldInv, Waiting
  <2>1. pending' = pending /\ c.at = "flushSet" /\ ~Unwritten(c)
    BY <1>3 DEF FlushStored, Unwritten
  <2>2. calls' = (calls \ {c}) \cup Resume(c.next)
    BY <1>3 DEF FlushStored
  <2>3. Unwrittens' \subseteq Unwrittens
    BY <2>2, ResumedWaits DEF Unwrittens, Unwritten
  <2>4. PICK f \in calls : r \in Waiting(f) /\ (f = e \/ f = c)
    <3>1. ASSUME e \in Resume(c.next)
          PROVE  r \in Waiting(c)
      <4>1. r = c.next /\ c.next # NoRequest
        BY <3>1, ResumedWaits
      <4>. QED
        BY <2>1, <4>1 DEF Waiting
    <3>. QED
      BY <2>2, <3>1
  <2>5. OnlyIn(r.held, f)
    BY <2>4 DEF HeldInv
  <2>6. c \notin Unwrittens
    BY <2>1 DEF Unwrittens
  <2>. QED
    BY <1>1, <2>1, <2>3, <2>4, <2>5, <2>6 DEF OnlyIn
<1>4. CASE FlushRejected(c)
  <2>1. failures' # 0
    BY <1>4 DEF FlushRejected, WatchInv, NoneRejected, MayFail, TypeOK
  <2>. QED
    BY <2>1 DEF HeldInv
<1>5. CASE ReadGot(c) \/ ReadRejected(c) \/ ClearDone(c)
  <2>1. /\ pending' = pending /\ calls' \subseteq calls
        /\ failures' \in {failures, failures + 1}
    BY <1>5 DEF ReadGot, ReadRejected, ClearDone, MayFail
  <2>. QED
    BY <1>1, <2>1, HeldKept
<1>. QED
  BY <1>2, <1>3, <1>4, <1>5 DEF StorageAnswers

\* FlushedFirst is an invariant: until a write fails, what the buffer held when a
\* request was sent is written when its handler reads, for every speed of storage and
\* every overlap of flushes, reads, clears and stops.
THEOREM HeldIsFlushed == Spec => []FlushedFirst
<1>1. Init => HeldInv
  BY DEF Init, HeldInv
<1>2. TypeOK /\ OnceInv /\ WatchInv /\ HeldInv /\ [Next]_vars => HeldInv'
  <2> SUFFICES ASSUME TypeOK, OnceInv, WatchInv, HeldInv, [Next]_vars
               PROVE  HeldInv'
    OBVIOUS
  <2>1. ASSUME UNCHANGED <<failures, recorded>>, calls' \subseteq calls, pending' \in {pending, <<>>}
        PROVE  HeldInv'
    BY <2>1, HeldKept, IdsEmpty
  <2>2. ASSUME NEW d \in downloads, DownloadDone(d)
        PROVE  HeldInv'
    BY <2>1, <2>2 DEF DownloadDone
  <2>3. CASE Killed \/ IdleTimeout
    BY <2>1, <2>3 DEF Killed, IdleTimeout, StopWorker
  <2>4. CASE UNCHANGED vars
    BY <2>1, <2>4 DEF vars, workerVars
  <2>. QED
    BY <2>2, <2>3, <2>4, HeldEvents, HeldAnswers DEF Next
<1>3. HeldInv => FlushedFirst
  <2> SUFFICES ASSUME HeldInv, failures = 0, NEW c \in calls, c.at = "readGet"
               PROVE  /\ c.request.held \cap Ids(pending) = {}
                      /\ \A d \in calls : Unwritten(d) => c.request.held \cap Ids(d.batch) = {}
    BY DEF FlushedFirst
  <2>1. OnlyIn(c.request.held, c) /\ ~Unwritten(c)
    BY DEF HeldInv, Waiting, Unwritten
  <2>. QED
    BY <2>1 DEF OnlyIn, Unwrittens
<1>. QED
  BY <1>1, <1>2, <1>3, TypeCorrect, OnceInvariant, WatchInvariant, PTL DEF Spec

-----------------------------------------------------------------------------
(* What readers are shown.                                                *)

\* The filter of a read keeps some entries in their order: it skips or appends them.
LEMMA MatchingPart ==
    ASSUME NEW s \in Seq(Entry), NEW filter
    PROVE  \E w \in Seq(Entry), K \in SUBSET (1..Len(s)) :
             w = Matching(s, filter) /\ \E b : Kept(b, w, s, K)
<1> DEFINE D == DOMAIN s
           V == Seq(Entry)
           Keep(v, e) == IF Matches(e, filter) THEN Append(v, e) ELSE v
           iter == CHOOSE f : f = [x \in SUBSET D |-> IF x = {} THEN <<>>
                                      ELSE Keep(f[x \ {Max(x)}], s[Max(x)])]
<1>1. Matching(s, filter) = iter[D]
  BY DEF Matching, FoldLeft, MapThenFoldSet
<1>2. PICK N \in Nat : N = Len(s) /\ D = 1..N /\ \A n \in 1..N : s[n] \in Entry
  BY LenProperties, ElementOfSeq
<1>3. PICK K \in SUBSET (1..N) : K = {n \in 1..N : Matches(s[n], filter)}
  OBVIOUS
<1>4. \A n \in 1..N : \A v : Keep(v, s[n]) = IF n \in K THEN Append(v, s[n]) ELSE v
  BY <1>3
<1> HIDE DEF Keep
<1>5. ASSUME NEW n \in 1..N, NEW v \in V
      PROVE  Keep(v, s[n]) \in V
  <2>1. Append(v, s[n]) \in Seq(Entry)
    BY <1>2, AppendProperties
  <2>. QED
    BY <1>4, <2>1
<1>6. PICK h : h = [n \in 1..N |-> [v \in V |-> Keep(v, s[n])]]
  OBVIOUS
<1>7. <<>> \in V
  BY EmptySeq
<1> HIDE DEF V, D
<1>8. Steps(h, N, V) /\ \A n \in 1..N, v \in V : h[n][v] = Keep(v, s[n])
  BY <1>5, <1>6 DEF Steps
<1>9. PICK f : FoldsAll(f, <<>>, h, N, V)
  BY <1>7, <1>8, FoldSolution
<1>10. \A x \in SUBSET (1..N) : x # {} => Max(x) \in 1..N
  BY GreatestIn
<1>11. f = [x \in SUBSET D |-> IF x = {} THEN <<>> ELSE Keep(f[x \ {Max(x)}], s[Max(x)])]
  <2>1. \A x \in SUBSET D : f[x] = IF x = {} THEN <<>> ELSE Keep(f[x \ {Max(x)}], s[Max(x)])
    BY <1>2, <1>8, <1>9, <1>10 DEF FoldsAll
  <2>2. f = [x \in SUBSET D |-> f[x]]
    BY <1>2, <1>9 DEF FoldsAll
  <2>. QED
    BY <2>1, <2>2
<1>12. iter = [x \in SUBSET D |-> IF x = {} THEN <<>> ELSE Keep(iter[x \ {Max(x)}], s[Max(x)])]
  BY <1>11
<1> HIDE DEF iter
<1>13. \A x \in SUBSET D : iter[x] = IF x = {} THEN <<>> ELSE Keep(iter[x \ {Max(x)}], s[Max(x)])
  BY <1>12
<1>14. FoldsOn(iter, <<>>, h, N, V)
  <2>1. iter[{}] = <<>>
    BY <1>13
  <2>2. ASSUME NEW x \in SUBSET (1..N), NEW v \in V, x # {}, iter[x \ {Max(x)}] = v
        PROVE  iter[x] = h[Max(x)][v]
    <3>1. iter[x] = Keep(v, s[Max(x)])
      BY <1>2, <1>13, <2>2
    <3>. QED
      BY <1>8, <1>10, <2>2, <3>1
  <2>. QED
    BY <2>1, <2>2 DEF FoldsOn
<1>15. PICK g : Stages(g, <<>>, h, N, V) /\ iter[1..N] = g[N]
  BY <1>7, <1>8, <1>14, FoldStages
<1>16. PICK w \in Seq(Entry) : w = g[N]
  <2>1. N \in 0..N
    BY <1>2
  <2>. QED
    BY <1>15, <2>1 DEF Stages, V
<1>17. PICK b : Kept(b, w, s, K)
  <2>1. \A n \in 1..N, v \in Seq(Entry) : h[n][v] = IF n \in K THEN Append(v, s[n]) ELSE v
    BY <1>4, <1>8 DEF V
  <2>2. \A n \in K : s[n] \in Entry
    BY <1>2
  <2>3. Stages(g, <<>>, h, N, Seq(Entry))
    BY <1>15 DEF V
  <2>. QED
    BY <1>16, <2>1, <2>2, <2>3, StagesKeep
<1>. QED
  BY <1>1, <1>2, <1>15, <1>16, <1>17

\* What a reader is shown of a history is a part of it, backwards: each entry once if
\* history has it once, and beginning with the newest if history is in order.
LEMMA ViewBackwards ==
    ASSUME NEW s \in Seq(Entry), NEW filter
    PROVE  /\ Distinct(s) => Distinct(View(s, filter))
           /\ IsSorted(s, Older) => IsSorted(View(s, filter), LAMBDA e, f : e.id > f.id)
<1>0. PICK w \in Seq(Entry), K \in SUBSET (1..Len(s)) :
        w = Matching(s, filter) /\ \E b : Kept(b, w, s, K)
  BY MatchingPart
<1>1. PICK b : w = Matching(s, filter) /\ Kept(b, w, s, K)
  BY <1>0
<1>2. Len(w) \in Nat /\ \A i \in 1..Len(w) : w[i] \in Entry
  BY LenProperties, ElementOfSeq
<1>3. PICK r : r = Reverse(w)
  OBVIOUS
<1>4. r = [i \in 1..Len(w) |-> w[(Len(w) - i) + 1]]
  BY <1>3 DEF Reverse
<1>5. r \in Seq(Entry) /\ Len(r) = Len(w) /\ \A i \in 1..Len(w) : r[i] = w[(Len(w) - i) + 1]
  <2>1. \A i \in 1..Len(w) : (Len(w) - i) + 1 \in 1..Len(w)
    BY <1>2
  <2>. QED
    BY <1>2, <1>4, <2>1
<1>6. PICK n \in 0..Len(r) : n = IF Len(r) < Limit THEN Len(r) ELSE Limit
  BY <1>2, <1>5, ConstantsAssumption
<1>7. PICK v : v = SubSeq(r, 1, n) /\ v = View(s, filter)
  BY <1>1, <1>3, <1>6 DEF View
<1>8. Len(v) = n /\ \A i \in 1..n : v[i] = r[i]
  BY <1>5, <1>7, FirstPart
<1>9. DOMAIN v = 1..n
  BY <1>5, <1>6, <1>7
<1>10. ASSUME NEW i \in 1..n
       PROVE  \E k \in 1..Len(w) : k = (Len(w) - i) + 1 /\ v[i] = w[k]
  <2>1. i \in 1..Len(w) /\ (Len(w) - i) + 1 \in 1..Len(w)
    BY <1>2, <1>5
  <2>. QED
    BY <1>5, <1>8, <2>1
<1>11. ASSUME NEW i \in 1..n, NEW j \in 1..n, i < j
       PROVE  \E k \in 1..Len(s), l \in 1..Len(s) : l < k /\ v[i] = s[k] /\ v[j] = s[l]
  <2>1. PICK k \in 1..Len(w) : k = (Len(w) - i) + 1 /\ v[i] = w[k]
    BY <1>10
  <2>2. PICK l \in 1..Len(w) : l = (Len(w) - j) + 1 /\ v[j] = w[l]
    BY <1>10
  <2>3. l < k
    BY <1>2, <1>11, <2>1, <2>2
  <2>4. b[k] \in 1..Len(s) /\ b[l] \in 1..Len(s) /\ b[l] < b[k] /\ w[k] = s[b[k]] /\ w[l] = s[b[l]]
    BY <1>1, <2>3 DEF Kept
  <2>. QED
    BY <2>1, <2>2, <2>4
<1>12. ASSUME Distinct(s)
       PROVE  Distinct(v)
  <2>1. ASSUME NEW i \in 1..n, NEW j \in 1..n, i < j
        PROVE  v[i].id # v[j].id
    <3>1. PICK k \in 1..Len(s), l \in 1..Len(s) : l < k /\ v[i] = s[k] /\ v[j] = s[l]
      BY <1>11, <2>1
    <3>2. DOMAIN s = 1..Len(s)
      BY LenProperties
    <3>. QED
      BY <1>12, <3>1, <3>2 DEF Distinct
  <2>2. ASSUME NEW i \in 1..n, NEW j \in 1..n, v[i].id = v[j].id
        PROVE  i = j
    BY <2>1, <2>2
  <2>. QED
    BY <1>9, <2>2 DEF Distinct
<1>13. ASSUME IsSorted(s, Older), NEW i \in 1..Len(v), NEW j \in 1..Len(v), i < j
       PROVE  v[i].id > v[j].id
  <2>1. PICK k \in 1..Len(s), l \in 1..Len(s) : l < k /\ v[i] = s[k] /\ v[j] = s[l]
    BY <1>8, <1>11, <1>13
  <2>2. s[l].id < s[k].id
    BY <1>13, <2>1 DEF IsSorted, Older
  <2>3. s[l].id \in Nat /\ s[k].id \in Nat
    <3>1. s[l] \in Entry /\ s[k] \in Entry
      BY <2>1, ElementOfSeq
    <3>. QED
      BY <3>1 DEF Entry
  <2>. QED
    BY <2>1, <2>2, <2>3
<1>14. IsSorted(s, Older) => IsSorted(v, LAMBDA e, f : e.id > f.id)
  BY <1>13 DEF IsSorted
<1>. QED
  BY <1>7, <1>12, <1>14

\* Neither a clear nor a download answers a getHistory.
OthersAnswer ==
    /\ \A c \in calls : c.at = "clearSet" => c.request.kind # "getHistory"
    /\ \A d \in downloads : d.request.kind # "getHistory"

LEMMA OthersAnswerStill ==
    ASSUME OthersAnswer, [Next]_vars
    PROVE  OthersAnswer'
<1>1. ASSUME NEW buffer, NEW next, FlushToStorage(buffer, next), NEW c \in calls', c.at = "clearSet"
      PROVE  c \in calls
  BY <1>1 DEF FlushToStorage, Resume, GetForRead, GetForFlush
<1>2. ASSUME NEW next, NEW c \in Resume(next)
      PROVE  c.at # "clearSet"
  BY <1>2 DEF Resume, GetForRead
<1>3. ASSUME NEW c \in calls', c.at = "clearSet"
      PROVE  c.request.kind # "getHistory"
  <2>1. CASE c \in calls
    BY <1>3, <2>1 DEF OthersAnswer
  <2>2. CASE AskToClear
    <3>1. CASE c \notin calls
      <4>1. PICK r : r = NewRequest("clearHistory", "all")
        OBVIOUS
      <4>2. r.kind = "clearHistory"
        BY <4>1 DEF NewRequest
      <4>3. c.request = r
        BY <2>2, <3>1, <4>1 DEF AskToClear
      <4>. QED
        BY <4>2, <4>3
    <3>. QED
      BY <2>1, <3>1
  <2>3. ASSUME NEW d \in calls, StorageAnswers(d)
        PROVE  c \in calls
    <3>1. CASE FlushGot(d)
      BY <1>3, <3>1 DEF FlushGot
    <3>2. CASE FlushStored(d)
      BY <1>2, <1>3, <3>2 DEF FlushStored
    <3>3. CASE FlushRejected(d)
      BY <1>2, <1>3, <3>3 DEF FlushRejected, PutBack
    <3>4. CASE ReadGot(d) \/ ReadRejected(d) \/ ClearDone(d)
      BY <3>4 DEF ReadGot, ReadRejected, ClearDone
    <3>. QED
      BY <2>3, <3>1, <3>2, <3>3, <3>4 DEF StorageAnswers
  <2>4. CASE \/ \E t \in Tabs : OnUpdated(t) \/ OnCommitted(t)
             \/ TimerFires
             \/ \E kind \in Kinds, filter \in Filters : AskToRead(kind, filter)
    <3>1. calls' = calls \/ \E buffer, next : FlushToStorage(buffer, next)
      BY <2>4 DEF OnUpdated, OnCommitted, TimerFires, AskToRead
    <3>. QED
      BY <1>1, <1>3, <2>1, <3>1
  <2>5. CASE OnInstalled \/ (\E t \in Tabs : ContentData(t)) \/ UNCHANGED vars
    BY <2>1, <2>5 DEF OnInstalled, ContentData, vars, workerVars
  <2>6. ASSUME NEW d \in downloads, DownloadDone(d)
        PROVE  c \in calls
    BY <2>6 DEF DownloadDone
  <2>7. CASE Killed \/ IdleTimeout
    BY <2>7 DEF Killed, IdleTimeout, StopWorker
  <2>. QED
    BY <2>1, <2>2, <2>3, <2>4, <2>5, <2>6, <2>7 DEF Next
<1>4. ASSUME NEW d \in downloads'
      PROVE  d.request.kind # "getHistory"
  <2>1. CASE d \in downloads
    BY <2>1 DEF OthersAnswer
  <2>2. ASSUME NEW c \in calls, StorageAnswers(c)
        PROVE  d.request.kind # "getHistory"
    <3>1. CASE ReadGot(c)
      BY <2>1, <3>1 DEF ReadGot
    <3>2. CASE FlushGot(c) \/ FlushStored(c) \/ FlushRejected(c) \/ ReadRejected(c) \/ ClearDone(c)
      BY <2>1, <3>2 DEF FlushGot, FlushStored, FlushRejected, PutBack, ReadRejected, ClearDone
    <3>. QED
      BY <2>2, <3>1, <3>2 DEF StorageAnswers
  <2>3. CASE \/ OnInstalled
             \/ \E t \in Tabs : OnUpdated(t) \/ OnCommitted(t) \/ ContentData(t)
             \/ TimerFires
             \/ \E kind \in Kinds, filter \in Filters : AskToRead(kind, filter)
             \/ AskToClear
             \/ UNCHANGED vars
    BY <2>1, <2>3 DEF OnInstalled, OnUpdated, OnCommitted, ContentData, TimerFires, AskToRead,
                      AskToClear, vars, workerVars
  <2>4. ASSUME NEW e \in downloads, DownloadDone(e)
        PROVE  d \in downloads
    BY <2>4 DEF DownloadDone
  <2>5. CASE Killed \/ IdleTimeout
    BY <2>5 DEF Killed, IdleTimeout, StopWorker
  <2>. QED
    BY <2>1, <2>2, <2>3, <2>4, <2>5 DEF Next
<1>. QED
  BY <1>3, <1>4 DEF OthersAnswer

\* Only a getHistory that has read is answered with entries.
LEMMA AnsweredFromRead ==
    ASSUME TypeOK, OthersAnswer, [Next]_vars, NEW a \in answers', a.request.kind = "getHistory"
    PROVE  \/ a \in answers
           \/ \E c \in calls : c.at = "readGet" /\ a.entries = View(c.history, c.request.filter)
<1>1. ASSUME NEW c \in calls, StorageAnswers(c), a \notin answers
      PROVE  c.at = "readGet" /\ a.entries = View(c.history, c.request.filter)
  <2>1. CASE ReadGot(c)
    <3>1. c.at = "readGet"
      BY <2>1 DEF ReadGot
    <3>2. CASE answers' = answers \cup {[request |-> c.request, entries |-> View(c.history, c.request.filter)]}
      <4>1. a = [request |-> c.request, entries |-> View(c.history, c.request.filter)]
        BY <1>1, <3>2
      <4>. QED
        BY <3>1, <4>1
    <3>3. CASE /\ c.request.kind = "getStats"
               /\ answers' = answers \cup
                    {[request |-> c.request, stats |-> c.stats, currentEntries |-> Len(c.history)]}
      <4>1. a.request = c.request
        BY <1>1, <3>3
      <4>. QED
        BY <3>3, <4>1
    <3>. QED
      BY <1>1, <2>1, <3>2, <3>3 DEF ReadGot
  <2>2. CASE ClearDone(c)
    <3>1. c.at = "clearSet" /\ a = [request |-> c.request]
      BY <1>1, <2>2 DEF ClearDone
    <3>2. a.request = c.request
      BY <3>1
    <3>. QED
      BY <3>1, <3>2 DEF OthersAnswer
  <2>3. CASE FlushGot(c) \/ FlushStored(c) \/ FlushRejected(c) \/ ReadRejected(c)
    BY <1>1, <2>3 DEF FlushGot, FlushStored, FlushRejected, PutBack, ReadRejected
  <2>. QED
    BY <1>1, <2>1, <2>2, <2>3 DEF StorageAnswers
<1>2. ASSUME NEW d \in downloads, DownloadDone(d), a \notin answers
      PROVE  FALSE
  <2>1. PICK ok : a = [request |-> d.request, ok |-> ok, count |-> Len(d.entries)]
    BY <1>2 DEF DownloadDone
  <2>2. a.request = d.request
    BY <2>1
  <2>. QED
    BY <2>2 DEF OthersAnswer
<1>3. CASE \/ OnInstalled
           \/ \E t \in Tabs : OnUpdated(t) \/ OnCommitted(t) \/ ContentData(t)
           \/ TimerFires
           \/ \E kind \in Kinds, filter \in Filters : AskToRead(kind, filter)
           \/ AskToClear
           \/ UNCHANGED vars
  BY <1>3 DEF OnInstalled, OnUpdated, OnCommitted, ContentData, TimerFires, AskToRead,
              AskToClear, vars
<1>4. CASE Killed \/ IdleTimeout
  BY <1>4 DEF Killed, IdleTimeout, StopWorker
<1>. QED
  BY <1>1, <1>2, <1>3, <1>4 DEF Next

\* Failures are only counted up.
LEMMA FailuresGrow ==
    ASSUME [Next]_vars
    PROVE  failures' \in {failures, failures + 1}
BY DEF Next, vars, MayFail, OnInstalled, OnUpdated, OnCommitted, ContentData, TimerFires,
       AskToRead, AskToClear, StorageAnswers, FlushGot, FlushStored, FlushRejected, ReadGot,
       ReadRejected, ClearDone, DownloadDone, Killed, IdleTimeout, StopWorker

\* The inductive invariant, with those of the histories that are read.
ShownInv == OthersAnswer /\ ShownOnceInOrder

\* ShownOnceInOrder is an invariant: whatever overlaps, fails and is put back, no
\* getHistory lists an entry twice, and until a write fails the newest comes first.
THEOREM ReadersSeeOnceInOrder == Spec => []ShownOnceInOrder
<1>1. Init => ShownInv
  BY DEF Init, ShownInv, OthersAnswer, ShownOnceInOrder
<1>2. TypeOK /\ OnceInv /\ OrderInv /\ ShownInv /\ [Next]_vars => ShownInv'
  <2> SUFFICES ASSUME TypeOK, OnceInv, OrderInv, ShownInv, [Next]_vars
               PROVE  ShownInv'
    OBVIOUS
  <2>1. OthersAnswer'
    BY OthersAnswerStill DEF ShownInv
  <2>2. failures' = 0 => failures = 0
    BY FailuresGrow DEF TypeOK
  <2>3. ASSUME NEW a \in answers', a.request.kind = "getHistory"
        PROVE  /\ Distinct(a.entries)
               /\ failures' = 0 => IsSorted(a.entries, LAMBDA e, f : e.id > f.id)
    <3>1. CASE a \in answers
      BY <2>2, <2>3, <3>1 DEF ShownInv, ShownOnceInOrder
    <3>2. ASSUME NEW c \in calls, c.at = "readGet", a.entries = View(c.history, c.request.filter)
          PROVE  /\ Distinct(a.entries)
                 /\ failures' = 0 => IsSorted(a.entries, LAMBDA e, f : e.id > f.id)
      <4>1. PICK s \in Seq(Entry) : s = c.history /\ s \in Histories
        <5>1. c \in ReadGet
          BY <3>2, CallCases DEF TypeOK
        <5>. QED
          BY <3>2, <5>1 DEF ReadGet, Histories
      <4>2. Distinct(s) /\ (failures = 0 => IsSorted(s, Older))
        BY <4>1 DEF OnceInv, Sound, Apart, OrderInv, Ordered
      <4>3. /\ Distinct(View(s, c.request.filter))
            /\ failures = 0 => IsSorted(View(s, c.request.filter), LAMBDA e, f : e.id > f.id)
        BY <4>2, ViewBackwards
      <4>. QED
        BY <2>2, <3>2, <4>1, <4>3
    <3>3. OthersAnswer
      BY DEF ShownInv
    <3>. QED
      BY <2>3, <3>1, <3>2, <3>3, AnsweredFromRead
  <2>4. ShownOnceInOrder'
    BY <2>3 DEF ShownOnceInOrder, Distinct, IsSorted
  <2>. QED
    BY <2>1, <2>4 DEF ShownInv
<1>3. ShownInv => ShownOnceInOrder
  BY DEF ShownInv
<1>. QED
  BY <1>1, <1>2, <1>3, TypeCorrect, OnceInvariant, OrderInvariant, PTL DEF Spec

-----------------------------------------------------------------------------
(* The refinement of SharedHistory.                                        *)

LEMMA IdsOfFacts ==
    ASSUME NEW s \in Seq(Entry)
    PROVE  IdsOf(s) \in Seq(Nat) /\ Len(IdsOf(s)) = Len(s)
           /\ \A i \in 1..Len(s) : IdsOf(s)[i] = s[i].id
<1>1. DOMAIN s = 1..Len(s) /\ Len(s) \in Nat /\ \A i \in 1..Len(s) : s[i] \in Entry
  OBVIOUS
<1>2. IdsOf(s) = [i \in 1..Len(s) |-> s[i].id]
  BY <1>1 DEF IdsOf
<1>3. \A i \in 1..Len(s) : s[i].id \in Nat
  BY <1>1 DEF Entry
<1>. QED
  BY <1>1, <1>2, <1>3

\* The second part of a concatenation.
LEMMA ConcatRight ==
    ASSUME NEW S, NEW a \in Seq(S), NEW b \in Seq(S), NEW n \in Nat, Len(a) = n,
           NEW i \in n + 1 .. n + Len(b)
    PROVE  (a \o b)[i] = b[i - n]
<1>1. Len(b) \in Nat
  BY LenProperties
<1>2. i \in 1 .. Len(a) + Len(b) /\ i > Len(a)
  BY <1>1
<1>. QED
  BY <1>2, ConcatProperties

LEMMA IdsOfEmpty == IdsOf(<<>>) = <<>>
BY DEF IdsOf

LEMMA IdsOfConcat ==
    ASSUME NEW s \in Seq(Entry), NEW t \in Seq(Entry)
    PROVE  IdsOf(s \o t) = IdsOf(s) \o IdsOf(t)
<1>1. s \o t \in Seq(Entry) /\ Len(s \o t) = Len(s) + Len(t)
  BY ConcatProperties
<1>2. /\ IdsOf(s) \in Seq(Nat) /\ IdsOf(t) \in Seq(Nat) /\ IdsOf(s \o t) \in Seq(Nat)
      /\ Len(IdsOf(s)) = Len(s) /\ Len(IdsOf(t)) = Len(t)
      /\ Len(IdsOf(s \o t)) = Len(s) + Len(t)
  BY <1>1, IdsOfFacts
<1>3. IdsOf(s) \o IdsOf(t) \in Seq(Nat) /\ Len(IdsOf(s) \o IdsOf(t)) = Len(s) + Len(t)
  BY <1>2, ConcatProperties
<1>4. ASSUME NEW i \in 1..(Len(s) + Len(t))
      PROVE  IdsOf(s \o t)[i] = (IdsOf(s) \o IdsOf(t))[i]
  <2>1. IdsOf(s \o t)[i] = (s \o t)[i].id
    BY <1>1, IdsOfFacts
  <2>0. i \in 1..(Len(s) + Len(t)) /\ Len(s) \in Nat /\ Len(t) \in Nat
    OBVIOUS
  <2>2. CASE i <= Len(s)
    <3>1. (s \o t)[i] = s[i] /\ (IdsOf(s) \o IdsOf(t))[i] = IdsOf(s)[i] /\ i \in 1..Len(s)
      BY <1>2, <2>2
    <3>. QED
      BY <2>1, <3>1, IdsOfFacts
  <2>3. CASE i > Len(s)
    <3> DEFINE j == i - Len(s)
    <3>1. j \in 1..Len(t) /\ i \in Len(s) + 1 .. Len(s) + Len(t)
      BY <2>3, <2>0
    <3>2. (s \o t)[i] = t[j]
      BY <3>1, <2>0, ConcatRight
    <3>3. (IdsOf(s) \o IdsOf(t))[i] = IdsOf(t)[j]
      <4>1. PICK a, b : a = IdsOf(s) /\ b = IdsOf(t)
        OBVIOUS
      <4>2. a \in Seq(Nat) /\ b \in Seq(Nat) /\ Len(a) = Len(s) /\ Len(b) = Len(t)
        BY <1>2, <4>1
      <4>3. (a \o b)[i] = b[i - Len(s)]
        BY <4>2, <3>1, <2>0, ConcatRight
      <4>. QED
        BY <4>1, <4>3
    <3> HIDE DEF j
    <3>4. IdsOf(t)[j] = t[j].id
      BY <3>1, IdsOfFacts
    <3>. QED
      BY <2>1, <3>2, <3>3, <3>4
  <2>4. i <= Len(s) \/ i > Len(s)
    BY <2>0
  <2>. QED
    BY <2>2, <2>3, <2>4
<1>. QED
  BY <1>2, <1>3, <1>4, SeqEqual

LEMMA IdsOfAppend ==
    ASSUME NEW s \in Seq(Entry), NEW e \in Entry
    PROVE  IdsOf(Append(s, e)) = Append(IdsOf(s), e.id)
<1>1. <<e>> \in Seq(Entry) /\ Append(s, e) = s \o <<e>>
  BY AppendIsConcat
<1>2. IdsOf(<<e>>) = <<e.id>>
  BY DEF IdsOf
<1>3. IdsOf(s) \in Seq(Nat) /\ e.id \in Nat
  BY IdsOfFacts DEF Entry
<1>4. Append(IdsOf(s), e.id) = IdsOf(s) \o <<e.id>>
  BY <1>3, AppendIsConcat
<1>. QED
  BY <1>1, <1>2, <1>4, IdsOfConcat

\* The cap cuts the identities as it cuts the entries.
LEMMA IdsOfTrim ==
    ASSUME NEW s \in Seq(Entry)
    PROVE  IdsOf(Trim(s)) = Shared!Newest(IdsOf(s))
<1>1. MaxEntries \in Nat \ {0} /\ Len(s) \in Nat
  BY ConstantsAssumption
<1>2. IdsOf(s) \in Seq(Nat) /\ Len(IdsOf(s)) = Len(s)
  BY IdsOfFacts
<1>3. CASE Len(s) > MaxEntries
  <2> DEFINE m == Len(s) - MaxEntries + 1
             cut == SubSeq(s, m, Len(s))
             ids == SubSeq(IdsOf(s), m, Len(s))
  <2>1. m \in 1..Len(s)
    BY <1>1, <1>3
  <2>2. /\ cut \in Seq(Entry) /\ Len(cut) = Len(s) - m + 1
        /\ \A i \in 1..(Len(s) - m + 1) : cut[i] = s[m + i - 1]
    <3>1. m \in Int /\ Len(s) \in Int /\ m <= Len(s)
      BY <1>1, <2>1
    <3>2. \A i \in m .. Len(s) : s[i] \in Entry
      BY <1>1, <2>1, ElementOfSeq
    <3> HIDE DEF m
    <3>. QED
      BY <3>1, <3>2, SubSeqProperties
  <2>3. /\ ids \in Seq(Nat) /\ Len(ids) = Len(s) - m + 1
        /\ \A i \in 1..(Len(s) - m + 1) : ids[i] = IdsOf(s)[m + i - 1]
    <3>1. m \in Int /\ Len(s) \in Int /\ m <= Len(s)
      BY <1>1, <2>1
    <3>2. \A i \in m .. Len(s) : IdsOf(s)[i] \in Nat
      BY <1>1, <1>2, <2>1, ElementOfSeq
    <3> HIDE DEF m
    <3>. QED
      BY <3>1, <3>2, SubSeqProperties
  <2>4. Trim(s) = cut /\ Shared!Newest(IdsOf(s)) = ids
    BY <1>2, <1>3 DEF Trim, Shared!Newest
  <2>5. /\ IdsOf(cut) \in Seq(Nat) /\ Len(IdsOf(cut)) = Len(cut)
        /\ \A i \in 1..Len(cut) : IdsOf(cut)[i] = cut[i].id
    BY <2>2, IdsOfFacts
  <2>6. \A i \in 1..Len(s) : IdsOf(s)[i] = s[i].id
    BY IdsOfFacts
  <2> HIDE DEF cut, ids
  <2>7. \A i \in 1..Len(cut) : IdsOf(cut)[i] = ids[i]
    <3> TAKE i \in 1..Len(cut)
    <3>1. i \in 1..(Len(s) - m + 1) /\ m + i - 1 \in 1..Len(s)
      BY <1>1, <2>1, <2>2
    <3>. QED
      BY <3>1, <2>2, <2>3, <2>5, <2>6
  <2>. QED
    BY <2>2, <2>3, <2>4, <2>5, <2>7, SeqEqual
<1>4. CASE ~(Len(s) > MaxEntries)
  BY <1>2, <1>4 DEF Trim, Shared!Newest
<1>. QED
  BY <1>3, <1>4

-----------------------------------------------------------------------------
(* A batch is never empty, so that no two are the same.                     *)

Filled == \A c \in Unwrittens : c.batch # <<>>

LEMMA FilledStep ==
    ASSUME Filled, [Next]_vars
    PROVE  Filled'
<1> SUFFICES ASSUME NEW c \in calls', Unwritten(c)
             PROVE  c.batch # <<>>
  BY DEF Filled, Unwrittens, Unwritten
<1>1. CASE c \in calls
  BY <1>1 DEF Filled, Unwrittens
<1>2. ASSUME NEW buffer, NEW next, FlushToStorage(buffer, next)
      PROVE  c.batch # <<>>
  <2>1. CASE c = GetForFlush(buffer, next) /\ buffer # <<>>
    BY <2>1 DEF GetForFlush
  <2>. QED
    BY <1>1, <1>2, <2>1, ResumedReads DEF FlushToStorage
<1>3. ASSUME NEW d \in calls, StorageAnswers(d)
      PROVE  c.batch # <<>>
  <2>1. CASE FlushGot(d)
    <3>1. CASE c \notin calls
      <4>1. PICK ok : c = [at |-> "flushSet", batch |-> d.batch, next |-> d.next, ok |-> ok]
        BY <2>1, <3>1 DEF FlushGot
      <4>2. c.batch = d.batch
        BY <4>1
      <4>3. d \in Unwrittens
        BY <2>1 DEF FlushGot, Unwrittens, Unwritten
      <4>. QED
        BY <4>2, <4>3 DEF Filled
    <3>. QED
      BY <1>1, <3>1
  <2>2. CASE FlushStored(d) \/ FlushRejected(d)
    BY <1>1, <2>2, ResumedReads DEF FlushStored, FlushRejected, PutBack
  <2>3. CASE ReadGot(d) \/ ReadRejected(d) \/ ClearDone(d)
    BY <1>1, <2>3 DEF ReadGot, ReadRejected, ClearDone
  <2>. QED
    BY <1>3, <2>1, <2>2, <2>3 DEF StorageAnswers
<1>4. CASE \/ \E t \in Tabs : OnUpdated(t) \/ OnCommitted(t)
           \/ TimerFires
           \/ \E kind \in Kinds, filter \in Filters : AskToRead(kind, filter)
  <2>1. calls' = calls \/ \E buffer, next : FlushToStorage(buffer, next)
    BY <1>4 DEF OnUpdated, OnCommitted, TimerFires, AskToRead
  <2>. QED
    BY <1>1, <1>2, <2>1
<1>5. CASE AskToClear
  <2>1. c \in calls \/ c.at = "clearSet"
    BY <1>5 DEF AskToClear
  <2>. QED
    BY <1>1, <2>1 DEF Unwritten
<1>6. CASE \/ OnInstalled \/ (\E t \in Tabs : ContentData(t)) \/ UNCHANGED vars
           \/ \E d \in downloads : DownloadDone(d)
  BY <1>1, <1>6 DEF OnInstalled, ContentData, DownloadDone, vars, workerVars
<1>7. CASE Killed \/ IdleTimeout
  BY <1>7 DEF Killed, IdleTimeout, StopWorker
<1>. QED
  BY <1>3, <1>4, <1>5, <1>6, <1>7 DEF Next

LEMMA FilledInvariant == Spec => []Filled
<1>1. Init => Filled
  BY DEF Init, Filled, Unwrittens
<1>2. Filled /\ [Next]_vars => Filled'
  BY FilledStep
<1>. QED
  BY <1>1, <1>2, PTL DEF Spec

\* Two calls that still have to write have different batches.
LEMMA BatchesDiffer ==
    ASSUME TypeOK, OnceInv, Filled, NEW c \in Unwrittens, NEW d \in Unwrittens,
           IdsOf(c.batch) = IdsOf(d.batch)
    PROVE  c = d
<1>1. c.batch \in Seq(Entry) /\ d.batch \in Seq(Entry)
  BY CallCases DEF TypeOK, Unwrittens, Unwritten, FlushGet, FlushSet
<1>2. Len(c.batch) \in Nat /\ c.batch # <<>>
  BY <1>1, LenProperties DEF Filled
<1>3. 1 \in 1..Len(c.batch)
  BY <1>1, <1>2, EmptySeq
<1>4. 1 \in DOMAIN c.batch /\ 1 \in DOMAIN d.batch /\ c.batch[1].id = d.batch[1].id
  <2>1. Len(d.batch) = Len(c.batch)
    BY <1>1, IdsOfFacts
  <2>2. IdsOf(c.batch)[1] = c.batch[1].id /\ IdsOf(d.batch)[1] = d.batch[1].id
    BY <1>1, <1>3, <2>1, IdsOfFacts
  <2>. QED
    BY <1>1, <1>3, <2>1, <2>2, LenProperties
<1>5. Ids(c.batch) \cap Ids(d.batch) # {}
  BY <1>4 DEF Ids
<1>. QED
  BY <1>5 DEF OnceInv, Sound, Apart

-----------------------------------------------------------------------------
(* What the steps do to savers and returning batches.                       *)

LEMMA SaversStay ==
    ASSUME Flushes' = Flushes, Rejected' = Rejected
    PROVE  Saving' = Saving /\ Returning' = Returning
BY DEF Saving, Returning

\* A flush hands the buffer over, or there is nothing to hand over.
LEMMA FlushHandsOver ==
    ASSUME NEW buffer, NEW next, FlushToStorage(buffer, next), history' = history
    PROVE  /\ IdsOf(pending') = <<>> /\ Returning' = Returning
           /\ \/ buffer = <<>> /\ Saving' = Saving
              \/ /\ buffer # <<>>
                 /\ Saving' = Saving \cup {[batch |-> IdsOf(buffer), base |-> IdsOf(history)]}
<1>1. IdsOf(pending') = <<>>
  BY IdsOfEmpty DEF FlushToStorage
<1>2. CASE buffer = <<>> /\ calls' = calls \cup Resume(next)
  <2>1. Flushes' = Flushes /\ Rejected' = Rejected
    BY <1>2, ResumedReads DEF Flushes, Rejected
  <2>. QED
    BY <1>1, <1>2, <2>1, SaversStay
<1>3. CASE buffer # <<>> /\ calls' = calls \cup {GetForFlush(buffer, next)}
  <2>1. PICK new : new = GetForFlush(buffer, next)
    OBVIOUS
  <2>2. new.at = "flushGet" /\ new.batch = buffer /\ new.history = history
    BY <2>1 DEF GetForFlush
  <2>3. Flushes' = Flushes \cup {new} /\ Rejected' = Rejected
    BY <1>3, <2>1, <2>2 DEF Flushes, Rejected
  <2>4. Saver(new) = [batch |-> IdsOf(buffer), base |-> IdsOf(history)]
    BY <2>2 DEF Saver
  <2>5. Saving' = Saving \cup {Saver(new)} /\ Returning' = Returning
    BY <2>3 DEF Saving, Returning
  <2>. QED
    BY <1>1, <1>3, <2>4, <2>5
<1>. QED
  BY <1>2, <1>3 DEF FlushToStorage

\* A saver is done.
LEMMA SaverLeaves ==
    ASSUME TypeOK, OnceInv, Filled, NEW c \in Flushes, Flushes' = Flushes \ {c}
    PROVE  Saver(c) \in Saving /\ Saving' = Saving \ {Saver(c)}
<1>1. Flushes \subseteq Unwrittens
  BY DEF Flushes, Unwrittens, Unwritten
<1>2. \A d \in Flushes : Saver(d) = Saver(c) => d = c
  <2> TAKE d \in Flushes
  <2>1. Saver(d) = Saver(c) => IdsOf(d.batch) = IdsOf(c.batch)
    BY DEF Saver
  <2>. QED
    BY <1>1, <2>1, BatchesDiffer
<1>. QED
  BY <1>2 DEF Saving

\* A returning batch is back.
LEMMA BatchLeaves ==
    ASSUME TypeOK, OnceInv, Filled, NEW c \in Rejected, Rejected' = Rejected \ {c}
    PROVE  IdsOf(c.batch) \in Returning /\ Returning' = Returning \ {IdsOf(c.batch)}
<1>1. Rejected \subseteq Unwrittens
  BY DEF Rejected, Unwrittens, Unwritten
<1>2. \A d \in Rejected : IdsOf(d.batch) = IdsOf(c.batch) => d = c
  BY <1>1, BatchesDiffer
<1>. QED
  BY <1>2 DEF Returning

-----------------------------------------------------------------------------
(* Every step is one of SharedHistory, or none.                             *)

SharedStep == [Shared!Next]_(Shared!vars)

LEMMA SharedStutter ==
    ASSUME UNCHANGED <<recorded, IdsOf(pending), Saving, Returning, IdsOf(history), stops>>
    PROVE  SharedStep
BY DEF SharedStep, Shared!vars

LEMMA SharedClear ==
    ASSUME UNCHANGED <<recorded, IdsOf(pending), Saving, Returning, stops>>,
           history' \in {history, <<>>}
    PROVE  SharedStep
<1>1. CASE history' = <<>>
  BY <1>1, IdsOfEmpty DEF SharedStep, Shared!Next, Shared!Clear
<1>2. CASE history' = history
  BY <1>2, SharedStutter
<1>. QED
  BY <1>1, <1>2

LEMMA SharedFlush ==
    ASSUME TypeOK, NEW next, FlushToStorage(pending, next), UNCHANGED <<recorded, history, stops>>
    PROVE  SharedStep
<1>1. CASE pending = <<>>
  BY <1>1, FlushHandsOver, IdsOfEmpty, SharedStutter
<1>2. CASE pending # <<>>
  <2>1. IdsOf(pending) # <<>>
    <3>1. Len(IdsOf(pending)) = Len(pending) /\ IdsOf(pending) \in Seq(Nat)
      BY IdsOfFacts DEF TypeOK
    <3>. QED
      BY <1>2, <3>1, EmptySeq DEF TypeOK
  <2>. QED
    BY <1>2, <2>1, FlushHandsOver DEF SharedStep, Shared!Next, Shared!Begin, Shared!HandOver
<1>. QED
  BY <1>1, <1>2

LEMMA SharedOnUpdated ==
    ASSUME TypeOK, NEW t \in Tabs, OnUpdated(t)
    PROVE  SharedStep
<1>1. PICK e : e = [id |-> recorded + 1, tab |-> t, page |-> page[t], about |-> 0]
  OBVIOUS
<1>2. e \in Entry /\ e.id = recorded + 1
  BY <1>1 DEF Entry, TypeOK
<1>3. PICK buffer : buffer = Append(pending, e)
  OBVIOUS
<1>4. pending \in Seq(Entry) /\ buffer \in Seq(Entry)
  BY <1>2, <1>3 DEF TypeOK
<1>5. IdsOf(buffer) = Append(IdsOf(pending), recorded + 1) /\ buffer # <<>>
  BY <1>2, <1>3, <1>4, IdsOfAppend, AppendProperties
<1>6. recorded' = recorded + 1 /\ UNCHANGED <<history, stops>>
  BY DEF OnUpdated, storageVars
<1>7. \/ FlushToStorage(buffer, NoRequest)
      \/ pending' = buffer /\ calls' = calls
  BY <1>1, <1>3 DEF OnUpdated
<1>8. CASE FlushToStorage(buffer, NoRequest)
  <2>1. Shared!Accept
    BY <1>5, <1>6, <1>8, FlushHandsOver DEF Shared!Accept, Shared!HandOver
  <2>. QED
    BY <2>1 DEF SharedStep, Shared!Next
<1>9. CASE pending' = buffer /\ calls' = calls
  <2>1. Saving' = Saving /\ Returning' = Returning
    BY <1>9, SaversStay DEF Flushes, Rejected
  <2>2. Shared!Accept
    BY <1>5, <1>6, <1>9, <2>1 DEF Shared!Accept
  <2>. QED
    BY <2>2 DEF SharedStep, Shared!Next
<1>. QED
  BY <1>7, <1>8, <1>9

\* The metadata of a page changes no number.
LEMMA SharedContentData ==
    ASSUME TypeOK, NEW t \in Tabs, ContentData(t)
    PROVE  SharedStep
<1>1. PICK i, n : pending' = pending \/ pending' = [pending EXCEPT ![i].about = n]
  BY DEF ContentData
<1>2. UNCHANGED <<recorded, history, stops, calls>>
  BY DEF ContentData, storageVars
<1>3. pending \in Seq(Entry)
  BY DEF TypeOK
<1>4. IdsOf(pending') = IdsOf(pending)
  <2>1. CASE pending' = [pending EXCEPT ![i].about = n]
    <3>1. DOMAIN pending' = DOMAIN pending
      BY <1>3, <2>1, LenProperties
    <3>2. \A k \in DOMAIN pending : pending'[k].id = pending[k].id
      <4> TAKE k \in DOMAIN pending
      <4>1. CASE k = i
        <5>1. pending'[k] = [pending[k] EXCEPT !.about = n] /\ pending[k] \in Entry
          BY <1>3, <2>1, <4>1, LenProperties
        <5>. QED
          BY <5>1 DEF Entry
      <4>2. CASE k # i
        BY <1>3, <2>1, <4>2, LenProperties
      <4>. QED
        BY <4>1, <4>2
    <3>. QED
      BY <3>1, <3>2 DEF IdsOf
  <2>. QED
    BY <1>1, <2>1
<1>5. Saving' = Saving /\ Returning' = Returning
  BY <1>2, SaversStay DEF Flushes, Rejected
<1>. QED
  BY <1>2, <1>4, <1>5, SharedStutter

LEMMA SharedEvents ==
    ASSUME TypeOK,
           \/ OnInstalled
           \/ \E t \in Tabs : OnUpdated(t) \/ OnCommitted(t) \/ ContentData(t)
           \/ TimerFires
           \/ \E kind \in Kinds, filter \in Filters : AskToRead(kind, filter)
           \/ AskToClear
    PROVE  SharedStep
<1>1. CASE OnInstalled
  <2>1. UNCHANGED <<recorded, stops, calls, pending>> /\ history' \in {history, <<>>}
    BY <1>1 DEF OnInstalled, workerVars, storageVars
  <2>2. Saving' = Saving /\ Returning' = Returning
    BY <2>1, SaversStay DEF Flushes, Rejected
  <2>. QED
    BY <2>1, <2>2, SharedClear
<1>2. CASE AskToClear
  <2>1. UNCHANGED <<recorded, stops, pending>> /\ history' \in {history, <<>>}
    BY <1>2 DEF AskToClear, storageVars
  <2>2. PICK c : calls' = calls \cup {c} /\ c.at = "clearSet"
    <3>1. PICK ok, r : calls' = calls \cup {[at |-> "clearSet", ok |-> ok, request |-> r]}
      BY <1>2 DEF AskToClear
    <3>2. [at |-> "clearSet", ok |-> ok, request |-> r].at = "clearSet"
      OBVIOUS
    <3>. QED
      BY <3>1, <3>2
  <2>3. Saving' = Saving /\ Returning' = Returning
    BY <2>2, SaversStay DEF Flushes, Rejected
  <2>. QED
    BY <2>1, <2>3, SharedClear
<1>3. ASSUME NEW t \in Tabs, OnCommitted(t)
      PROVE  SharedStep
  <2>1. UNCHANGED <<recorded, history, stops>>
    BY <1>3 DEF OnCommitted, storageVars
  <2>2. FlushToStorage(pending, NoRequest) \/ UNCHANGED <<pending, calls>>
    BY <1>3 DEF OnCommitted
  <2>3. CASE UNCHANGED <<pending, calls>>
    <3>1. Saving' = Saving /\ Returning' = Returning
      BY <2>3, SaversStay DEF Flushes, Rejected
    <3>. QED
      BY <2>1, <2>3, <3>1, SharedStutter
  <2>. QED
    BY <2>1, <2>2, <2>3, SharedFlush
<1>4. CASE TimerFires
  <2>1. UNCHANGED <<recorded, history, stops>> /\ FlushToStorage(pending, NoRequest)
    BY <1>4 DEF TimerFires, storageVars
  <2>. QED
    BY <2>1, SharedFlush
<1>5. ASSUME NEW kind \in Kinds, NEW filter \in Filters, AskToRead(kind, filter)
      PROVE  SharedStep
  <2>1. /\ UNCHANGED <<recorded, history, stops>>
        /\ FlushToStorage(pending, NewRequest(kind, filter))
    BY <1>5 DEF AskToRead, storageVars
  <2>. QED
    BY <2>1, SharedFlush
<1>. QED
  BY <1>1, <1>2, <1>3, <1>4, <1>5, SharedOnUpdated, SharedContentData

\* A flush that has read becomes the Write or the Fail, one that is rejected the Retry
\* or the Return; the other answers change nothing that is promised.
LEMMA SharedAnswers ==
    ASSUME TypeOK, OnceInv, Filled, NEW c \in calls, StorageAnswers(c)
    PROVE  SharedStep
<1>1. UNCHANGED <<recorded, stops>>
  BY DEF StorageAnswers
<1>2. pending \in Seq(Entry) /\ history \in Seq(Entry)
  BY DEF TypeOK
<1>3. CASE FlushGot(c)
  <2>1. c \in Flushes /\ c.batch \in Seq(Entry) /\ c.history \in Seq(Entry)
    BY <1>3, CallCases DEF TypeOK, FlushGot, Flushes, FlushGet
  <2>2. PICK ok \in BOOLEAN :
            /\ calls' = (calls \ {c}) \cup
                 {[at |-> "flushSet", batch |-> c.batch, next |-> c.next, ok |-> ok]}
            /\ \/ ok /\ history' = Appended(c.history, c.batch)
               \/ ~ok /\ history' = history
    BY <1>3 DEF FlushGot, storageVars
  <2>3. PICK d : /\ calls' = (calls \ {c}) \cup {d}
                 /\ d.at = "flushSet" /\ d.batch = c.batch /\ d.ok = ok
    <3> DEFINE s == [at |-> "flushSet", batch |-> c.batch, next |-> c.next, ok |-> ok]
    <3>1. s.at = "flushSet" /\ s.batch = c.batch /\ s.ok = ok
      OBVIOUS
    <3>2. calls' = (calls \ {c}) \cup {s}
      BY <2>2
    <3> HIDE DEF s
    <3>. QED
      BY <3>1, <3>2
  <2>4. c.at = "flushGet" /\ pending' = pending
    BY <1>3 DEF FlushGot
  <2>5. Flushes' = Flushes \ {c}
    BY <2>3, <2>4 DEF Flushes
  <2>6. Saver(c) \in Saving /\ Saving' = Saving \ {Saver(c)}
    BY <2>1, <2>5, SaverLeaves
  <2>7. Saver(c).batch = IdsOf(c.batch) /\ Saver(c).base = IdsOf(c.history)
    BY DEF Saver
  <2>8. CASE ok
    <3>1. Rejected' = Rejected
      BY <2>3, <2>4, <2>8 DEF Rejected
    <3>2. Returning' = Returning
      BY <3>1 DEF Returning
    <3>3. c.history \o c.batch \in Seq(Entry) /\ history' = Trim(c.history \o c.batch)
      BY <2>1, <2>2, <2>8, ConcatProperties DEF Appended
    <3>4. IdsOf(history') = Shared!Newest(IdsOf(c.history) \o IdsOf(c.batch))
      BY <2>1, <3>3, IdsOfTrim, IdsOfConcat
    <3>5. Shared!Write(Saver(c))
      BY <1>1, <2>4, <2>6, <2>7, <3>2, <3>4 DEF Shared!Write
    <3>. QED
      BY <2>6, <3>5 DEF SharedStep, Shared!Next
  <2>9. CASE ~ok
    <3>1. Rejected' = Rejected \cup {d}
      BY <2>3, <2>4, <2>9 DEF Rejected
    <3>2. Returning' = Returning \cup {IdsOf(c.batch)}
      BY <2>3, <3>1 DEF Returning
    <3>3. Shared!Fail(Saver(c))
      BY <1>1, <2>2, <2>4, <2>6, <2>7, <2>9, <3>2 DEF Shared!Fail
    <3>. QED
      BY <2>6, <3>3 DEF SharedStep, Shared!Next
  <2>. QED
    BY <2>8, <2>9
<1>4. CASE FlushRejected(c)
  <2>1. /\ calls' = (calls \ {c}) \cup Resume(c.next)
        /\ pending' = c.batch \o pending /\ history' = history
        /\ c.at = "flushGet" \/ (c.at = "flushSet" /\ ~c.ok)
    BY <1>4 DEF FlushRejected, PutBack, storageVars
  <2>2. c.batch \in Seq(Entry)
    BY <2>1, CallCases DEF TypeOK, FlushGet, FlushSet
  <2>3. IdsOf(pending') = IdsOf(c.batch) \o IdsOf(pending)
    BY <1>2, <2>1, <2>2, IdsOfConcat
  <2>4. CASE c.at = "flushGet"
    <3>1. c \in Flushes /\ Flushes' = Flushes \ {c} /\ Rejected' = Rejected
      BY <2>1, <2>4, ResumedReads DEF Flushes, Rejected
    <3>2. /\ Saver(c) \in Saving /\ Saving' = Saving \ {Saver(c)} /\ Returning' = Returning
          /\ Saver(c).batch = IdsOf(c.batch)
      BY <3>1, SaverLeaves DEF Returning, Saver
    <3>3. Shared!Retry(Saver(c))
      BY <1>1, <2>1, <2>3, <3>2 DEF Shared!Retry
    <3>. QED
      BY <3>2, <3>3 DEF SharedStep, Shared!Next
  <2>5. CASE c.at = "flushSet" /\ ~c.ok
    <3>1. c \in Rejected /\ Rejected' = Rejected \ {c} /\ Flushes' = Flushes
      BY <2>1, <2>5, ResumedReads DEF Flushes, Rejected
    <3>2. /\ IdsOf(c.batch) \in Returning /\ Returning' = Returning \ {IdsOf(c.batch)}
          /\ Saving' = Saving
      BY <3>1, BatchLeaves DEF Saving
    <3>3. Shared!Return(IdsOf(c.batch))
      BY <1>1, <2>1, <2>3, <3>2 DEF Shared!Return
    <3>. QED
      BY <3>2, <3>3 DEF SharedStep, Shared!Next
  <2>. QED
    BY <2>1, <2>4, <2>5
<1>5. CASE FlushStored(c)
  <2>1. /\ calls' = (calls \ {c}) \cup Resume(c.next) /\ UNCHANGED <<pending, history>>
        /\ c.at = "flushSet" /\ c.ok
    BY <1>5 DEF FlushStored, storageVars
  <2>2. Flushes' = Flushes /\ Rejected' = Rejected
    BY <2>1, ResumedReads DEF Flushes, Rejected
  <2>. QED
    BY <1>1, <2>1, <2>2, SaversStay, SharedStutter
<1>6. CASE ReadGot(c) \/ ReadRejected(c) \/ ClearDone(c)
  <2>1. /\ calls' = calls \ {c} /\ UNCHANGED <<pending, history>>
        /\ c.at \in {"readGet", "clearSet"}
    BY <1>6 DEF ReadGot, ReadRejected, ClearDone, storageVars
  <2>2. Flushes' = Flushes /\ Rejected' = Rejected
    BY <2>1 DEF Flushes, Rejected
  <2>. QED
    BY <1>1, <2>1, <2>2, SaversStay, SharedStutter
<1>. QED
  BY <1>3, <1>4, <1>5, <1>6 DEF StorageAnswers

LEMMA StepsAreShared ==
    ASSUME TypeOK, OnceInv, Filled, [Next]_vars
    PROVE  SharedStep
<1>1. ASSUME UNCHANGED <<recorded, calls, pending, history, stops>>
      PROVE  SharedStep
  <2>1. Saving' = Saving /\ Returning' = Returning
    BY <1>1, SaversStay DEF Flushes, Rejected
  <2>. QED
    BY <1>1, <2>1, SharedStutter
<1>2. ASSUME NEW d \in downloads, DownloadDone(d)
      PROVE  SharedStep
  BY <1>1, <1>2 DEF DownloadDone, storageVars
<1>3. CASE Killed \/ IdleTimeout
  <2>1. calls' = {} /\ pending' = <<>> /\ stops' = stops + 1 /\ UNCHANGED <<recorded, history>>
    BY <1>3 DEF Killed, IdleTimeout, StopWorker, storageVars
  <2>2. Saving' = {} /\ Returning' = {}
    BY <2>1 DEF Saving, Returning, Flushes, Rejected
  <2>. QED
    BY <2>1, <2>2, IdsOfEmpty DEF SharedStep, Shared!Next, Shared!Lose
<1>4. CASE UNCHANGED vars
  BY <1>1, <1>4 DEF vars, workerVars, storageVars
<1>. QED
  BY <1>2, <1>3, <1>4, SharedEvents, SharedAnswers DEF Next

\* ImplementsSharedHistory holds for every speed of storage and whatever fails: what is
\* written is one flush's copy with its whole batch at the end, capped, and a batch is
\* written once or comes back as a whole; a stop loses what is volatile and no more.
THEOREM TrackerImplementsShared == Spec => ImplementsSharedHistory
<1>1. Init => Shared!Init
  BY IdsOfEmpty DEF Init, Shared!Init, Saving, Returning, Flushes, Rejected
<1>2. TypeOK /\ OnceInv /\ Filled /\ [Next]_vars => [Shared!Next]_(Shared!vars)
  BY StepsAreShared DEF SharedStep
<1>. QED
  BY <1>1, <1>2, TypeCorrect, OnceInvariant, FilledInvariant, PTL
     DEF Spec, ImplementsSharedHistory, Shared!Spec
=============================================================================
