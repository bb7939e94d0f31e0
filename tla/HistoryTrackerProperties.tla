---------------------- MODULE HistoryTrackerProperties ----------------------
(* What the tracker of HistoryTracker.tla does, and what it says it does.  *)
EXTENDS HistoryTracker

\* Every variable has the type its declaration says.
TypeOK ==
    /\ pending \in Seq(Entry)
    /\ timer \in BOOLEAN
    /\ calls \subseteq Call
    /\ downloads \subseteq Download
    /\ history \in Seq(Entry)
    /\ stats \in Stats
    /\ installed \in BOOLEAN
    /\ page \in [Tabs -> Nat]
    /\ described \in [Tabs -> BOOLEAN]
    /\ \A a \in answers : a.request \in Request
    /\ recorded \in Nat /\ asked \in Nat /\ forgotten \in Nat
    /\ failures \in Nat /\ stops \in Nat

-----------------------------------------------------------------------------
(* What is still to be written: in the buffer, in the batch of a flush     *)
(* that has not written yet, or in one whose write was rejected and that   *)
(* will put it back.                                                       *)

Unwritten(c) == c.at = "flushGet" \/ (c.at = "flushSet" /\ ~c.ok)

Distinct(s) == \A i, j \in DOMAIN s : s[i].id = s[j].id => i = j

\* The histories there are: the stored one and the snapshots of it that will
\* be written back or shown.
Histories == {history} \cup {c.history : c \in {d \in calls : d.at \in {"flushGet", "readGet"}}}

\* AtMostOnce: however flushes overlap, fail and retry, an entry is stored at
\* most once, and an entry that will be written (again) is in no history yet:
\* "Put entries back for retry" never duplicates one (background.js:105-144).
AtMostOnce ==
    LET unwritten == {c \in calls : Unwritten(c)}
    IN /\ Distinct(pending)
       /\ \A h \in Histories : Distinct(h) /\ Ids(h) \cap Ids(pending) = {}
       /\ \A c \in unwritten :
            /\ Distinct(c.batch)
            /\ Ids(c.batch) \cap Ids(pending) = {}
            /\ \A h \in Histories : Ids(h) \cap Ids(c.batch) = {}
            /\ \A d \in unwritten \ {c} : Ids(c.batch) \cap Ids(d.batch) = {}

\* The counters agree with a history: they add up, the history is as long as
\* they say or full, and as long as it never was full they count its entries.
Agree(h, s) ==
    /\ s.total = s.incognito + s.normal
    /\ Len(h) = IF s.total > MaxEntries THEN MaxEntries ELSE s.total
    /\ s.total <= MaxEntries => s.incognito = Cardinality(IncognitoIn(h))

\* CountersAgree: history and counters are two keys, read and written together
\* by overlapping flushes and by clearHistory; they never drift apart, in storage
\* or in what a handler is about to answer (background.js:106-137, 180, 208, 266).
CountersAgree ==
    /\ Agree(history, stats)
    /\ \A c \in calls : c.at \in {"flushGet", "readGet"} => Agree(c.history, c.stats)

\* BufferWatched: an armed timer has something to flush, and until a write has
\* failed the buffer always has a timer and stays below the immediate-flush
\* limit (background.js:74-82, 94-98).
BufferWatched ==
    /\ timer => pending # <<>>
    /\ failures = 0 => ((pending # <<>> => timer) /\ Len(pending) < FlushAt)

Older(e, f) == e.id < f.id

\* StoredInOrder: until a write has failed, overlapping flushes cannot reorder
\* history, although each writes back a snapshot of its own: every flush appends
\* entries newer than all it read (background.js:102-121).
StoredInOrder == failures = 0 => \A h \in Histories : IsSorted(h, Older)

-----------------------------------------------------------------------------
(* What a reader is told.                                                  *)

\* FlushedFirst: until a write has failed, what the buffer held when a request was sent
\* is written when its handler reads, however flushes, reads and answers overlap: no
\* other flush, clear or request takes it or hands it back (background.js:177-180).
FlushedFirst ==
    failures = 0 =>
        \A c \in calls : c.at = "readGet" =>
            /\ c.request.held \cap Ids(pending) = {}
            /\ \A d \in calls : Unwritten(d) => c.request.held \cap Ids(d.batch) = {}

\* ShownOnceInOrder: no getHistory answer lists an entry twice, whatever fails, is put
\* back and retried; until a write has failed each lists the newest first
\* (background.js:182-199).
ShownOnceInOrder ==
    \A a \in answers : a.request.kind = "getHistory" =>
        /\ Distinct(a.entries)
        /\ failures = 0 => IsSorted(a.entries, LAMBDA e, f : e.id > f.id)

\* ReadsAreComplete: "Flush any pending entries first" (background.js:177): when a
\* handler reads, no entry recorded before its request is still unwritten.  The popup
\* sends two requests at once (popup.js:40,43); the second finds the buffer empty.
ReadsAreComplete ==
    failures = 0 =>
        \A c \in calls : c.at = "readGet" =>
            \A id \in 1..c.request.upTo :
                /\ id \notin Ids(pending)
                /\ \A d \in calls : Unwritten(d) => id \notin Ids(d.batch)

-----------------------------------------------------------------------------
(* What becomes of an entry.                                               *)

\* Drains: with storage answering, whatever is in the buffer is flushed.
Drains == pending # <<>> ~> pending = <<>>

\* NothingLost: "Captures all tab navigations (including incognito) and stores them
\* in chrome.storage.local." (background.js:4-5).
NothingLost == \A id \in 1..MaxRecorded : recorded >= id ~> id \in Ids(history)

\* Answered: storage answering, every request is answered in the end, or its
\* download waits for the user.
Answered ==
    \A r \in 1..MaxRequests :
        asked >= r ~> \E a \in answers \cup downloads : a.request.id = r

-----------------------------------------------------------------------------
(* However storage answers, the worker implements SharedHistory: a flush   *)
(* that has read is a saver, one whose write was rejected returns its      *)
(* batch.                                                                  *)

IdsOf(s) == [i \in DOMAIN s |-> s[i].id]

Flushes  == {c \in calls : c.at = "flushGet"}
Rejected == {c \in calls : c.at = "flushSet" /\ ~c.ok}

Saver(c) == [batch |-> IdsOf(c.batch), base |-> IdsOf(c.history)]

Saving    == {Saver(c) : c \in Flushes}
Returning == {IdsOf(c.batch) : c \in Rejected}

Shared == INSTANCE SharedHistory WITH
    Cap       <- MaxEntries,
    accepted  <- recorded,
    buffer    <- IdsOf(pending),
    saving    <- Saving,
    returning <- Returning,
    log       <- IdsOf(history),
    losses    <- stops

\* ImplementsSharedHistory: whatever flushes, reads, clears, failed writes and stops
\* overlap, what is written is what one flush has read with its whole batch at the end,
\* capped; a batch is written once or comes back to the front of the buffer as a whole.
ImplementsSharedHistory == Shared!Spec
=============================================================================
