--------------------------- MODULE HistoryTracker ---------------------------
(***************************************************************************)
(* The service worker of the browser extension (extension/background.js)   *)
(* with the three parties it talks to: the browser, whose tab events call  *)
(* its listeners; the popup, whose messages call its handlers; and         *)
(* chrome.storage.local, which it reads and writes through promises.       *)
(*                                                                         *)
(* JavaScript runs one callback to completion, so an action of this module *)
(* is one callback: everything up to the next await that really waits.     *)
(* What an async function still has to do is the storage call it awaits:   *)
(* "calls" is the set of calls whose answer the worker has not seen, each  *)
(* with the local variables its continuation will use.                     *)
(*                                                                         *)
(* Storage serves one extension's calls in the order they are issued, so a *)
(* call takes effect when it is issued and only its answer comes later: a  *)
(* get carries the snapshot it will return, a set has been applied or has  *)
(* failed.  Answers may come in any order.                                 *)
(***************************************************************************)
EXTENDS Integers, Sequences, FiniteSets, SequencesExt

CONSTANTS
    Tabs,           \* the browser's tabs
    IncognitoTabs,  \* those of private windows
    Kinds,          \* the messages the popup sends
    Filters,        \* the filters it asks for
    NoRequest,      \* "no handler awaits this flush"
    MaxEntries,     \* MAX_ENTRIES: the cap of the stored history
    FlushAt,        \* onUpdated flushes a buffer this long (50)
    CommitFlushAt,  \* onCommitted flushes a buffer this long (5)
    FlushInterval,  \* FLUSH_INTERVAL, in seconds
    IdleLimit,      \* seconds without an event before the worker is stopped
    Limit,          \* the limit of a getHistory message
    Storage,        \* how soon storage answers, see StorageSpeeds
    MaxRecorded, MaxRequests, MaxPages, MaxFailures, MaxStops   \* bounds

\* Other events may come before storage answers a call; if it is "timely", not a timeout
\* armed after the call was issued, which takes 30 s; if it is "slow", any.
StorageSpeeds == {"timely", "slow"}

ASSUME ConstantsAssumption ==
    /\ IncognitoTabs \subseteq Tabs
    /\ Kinds \subseteq {"getHistory", "getStats", "exportJSON", "clearHistory"}
    /\ "all" \in Filters /\ Filters \subseteq {"all", "incognito", "normal"}
    /\ {MaxEntries, FlushAt, CommitFlushAt, Limit} \subseteq Nat \ {0}
    /\ {FlushInterval, IdleLimit} \subseteq Nat
    /\ Storage \in StorageSpeeds
    /\ {MaxRecorded, MaxRequests, MaxPages, MaxFailures, MaxStops} \subseteq Nat

VARIABLES
    \* the worker's memory, lost when the browser stops it
    pending,    \* pendingEntries
    timer,      \* is flushTimer armed?
    calls,      \* storage calls not answered yet
    downloads,  \* exports waiting for chrome.downloads
    \* chrome.storage.local
    history,    \* trackedHistory
    stats,      \* trackerStats
    installed,  \* has onInstalled been delivered?
    \* the browser
    page,       \* page[t]: the page tab t shows, counted by its commits
    described,  \* described[t]: has that page's content script sent its data?
    \* the popup, and counters
    answers,    \* the responses sent
    recorded,   \* entries recorded so far: the identity and age of an entry
    asked,      \* requests sent so far
    forgotten,  \* entries up to this one were cleared, says an answered request
    failures, stops

workerVars  == <<pending, timer, calls, downloads>>
storageVars == <<history, stats>>
browserVars == <<page, described>>
vars == <<workerVars, storageVars, installed, browserVars, answers, recorded,
          asked, forgotten, failures, stops>>

-----------------------------------------------------------------------------
(* Data.  An entry keeps its order of recording, its tab and page, and the *)
(* page its description and keywords are about (0: it has none).           *)

Entry == [id : Nat \ {0}, tab : Tabs, page : Nat, about : Nat]

IsIncognito(e) == e.tab \in IncognitoTabs

Stats == [total : Nat, incognito : Nat, normal : Nat]

ZeroStats == [total |-> 0, incognito |-> 0, normal |-> 0]

\* The numbers of a sequence of entries.
Ids(s) == {s[i].id : i \in DOMAIN s}

\* A request, with what had been recorded and forgotten and what the buffer held when
\* it was sent.
Request == [id : Nat \ {0}, kind : Kinds, filter : Filters,
            upTo : Nat, since : Nat, held : SUBSET Nat]

Awaiting == Request \cup {NoRequest}

FlushGet == [at : {"flushGet"}, batch : Seq(Entry), next : Awaiting,
             history : Seq(Entry), stats : Stats]
FlushSet == [at : {"flushSet"}, batch : Seq(Entry), next : Awaiting, ok : BOOLEAN]
ReadGet  == [at : {"readGet"}, request : Request,
             history : Seq(Entry), stats : Stats]
ClearSet == [at : {"clearSet"}, request : Request, ok : BOOLEAN]

Call == FlushGet \cup FlushSet \cup ReadGet \cup ClearSet

Download == [request : Request, entries : Seq(Entry)]

\* The entries of a sequence that are, and are not, from a private window.
IncognitoIn(s) == {i \in DOMAIN s : IsIncognito(s[i])}
NormalIn(s)    == {i \in DOMAIN s : ~IsIncognito(s[i])}

\* Mutant: slice(-(MAX_ENTRIES + 1)).
TrimToMore(h) == IF Len(h) > MaxEntries
                 THEN SubSeq(h, Len(h) - MaxEntries, Len(h))
                 ELSE h

\* history.slice(-MAX_ENTRIES) of a history that is over the cap
Trim(h) == IF Len(h) > MaxEntries
           THEN SubSeq(h, Len(h) - MaxEntries + 1, Len(h))
           ELSE h

\* Mutant: the batch in front of what was read.
Prepended(h, batch) == Trim(batch \o h)

\* The history a flush writes.
Appended(h, batch) == Trim(h \o batch)

\* Mutant: private entries are taken off the normal ones.
TakenOff(s, batch) ==
    [total     |-> s.total + Len(batch),
     incognito |-> s.incognito + Cardinality(IncognitoIn(batch)),
     normal    |-> s.normal - Cardinality(IncognitoIn(batch))]

\* The counters after a batch is added to the ones that were read.
Count(s, batch) ==
    [total     |-> s.total + Len(batch),
     incognito |-> s.incognito + Cardinality(IncognitoIn(batch)),
     normal    |-> s.normal + Cardinality(NormalIn(batch))]

Matches(e, filter) ==
    \/ filter = "all"
    \/ filter = "incognito" /\ IsIncognito(e)
    \/ filter = "normal" /\ ~IsIncognito(e)

\* history.filter(...) of a read: a fold, as the provers cannot expand SelectSeq.
Matching(h, filter) ==
    FoldLeft(LAMBDA v, e : IF Matches(e, filter) THEN Append(v, e) ELSE v, <<>>, h)

\* What handleGetHistory sends: filtered, most recent first, limited.
View(h, filter) ==
    LET newest == Reverse(Matching(h, filter))
    IN SubSeq(newest, 1, IF Len(newest) < Limit THEN Len(newest) ELSE Limit)

-----------------------------------------------------------------------------
Init ==
    /\ pending = <<>>
    /\ timer = FALSE
    /\ calls = {}
    /\ downloads = {}
    /\ history = <<>>       \* a missing key reads as [] ...
    /\ stats = ZeroStats    \* ... and as zero counters
    /\ installed = FALSE
    /\ page = [t \in Tabs |-> 0]          \* open before the extension was:
    /\ described = [t \in Tabs |-> TRUE]  \* no content script runs there
    /\ answers = {}
    /\ recorded = 0
    /\ asked = 0
    /\ forgotten = 0
    /\ failures = 0
    /\ stops = 0

\* A storage call issued now may fail.
MayFail == failures < MaxFailures /\ failures' = failures + 1

-----------------------------------------------------------------------------
(* flushToStorage, as far as its first await.  "next" is the request whose *)
(* handler awaits the flush.  With nothing to write the promise resolves   *)
(* at once and that handler goes on to read, in the same callback.         *)

GetForFlush(batch, next) ==
    [at |-> "flushGet", batch |-> batch, next |-> next,
     history |-> history, stats |-> stats]

GetForRead(request) ==
    [at |-> "readGet", request |-> request, history |-> history, stats |-> stats]

\* Mutant: nobody goes on.
ResumeNobody(next) == {}

\* The calls issued when the flush that "next" awaits has resolved.
Resume(next) == {GetForRead(r) : r \in {next} \ {NoRequest}}

\* Mutant: the handler calls flushToStorage without await.
FlushNotAwaited(buffer, next) ==
    /\ timer' = FALSE
    /\ pending' = <<>>
    /\ calls' = calls \cup Resume(next) \cup
                {GetForFlush(b, NoRequest) : b \in {buffer} \ {<<>>}}

FlushToStorage(buffer, next) ==
    /\ timer' = FALSE
    /\ pending' = <<>>
    /\ \/ /\ buffer = <<>>
          /\ calls' = calls \cup Resume(next)
       \/ /\ buffer # <<>>
          /\ calls' = calls \cup {GetForFlush(buffer, next)}

-----------------------------------------------------------------------------
(* Browser events.                                                         *)

\* onInstalled: empty history and counters, written without awaiting.
OnInstalled ==
    /\ ~installed
    /\ installed' = TRUE
    /\ \/ history' = <<>> /\ stats' = ZeroStats /\ UNCHANGED failures
       \/ UNCHANGED storageVars /\ MayFail
    /\ UNCHANGED <<workerVars, browserVars, answers, recorded, asked, forgotten, stops>>

\* Mutants: a buffer one longer; a timer that is not scheduled again.
OverFull(buffer) == Len(buffer) > FlushAt
LeaveTimer == timer' = timer

\* "Immediate flush if buffer is getting large", else a timer
Full(buffer) == Len(buffer) >= FlushAt
ArmTimer == timer' = TRUE

\* tabs.onUpdated for a page of tab t that has completed.
OnUpdated(t) ==
    /\ installed
    /\ recorded < MaxRecorded
    /\ recorded' = recorded + 1
    /\ LET entry  == [id |-> recorded + 1, tab |-> t, page |-> page[t], about |-> 0]
           buffer == Append(pending, entry)
       IN \/ /\ Full(buffer)
             /\ FlushToStorage(buffer, NoRequest)
          \/ /\ ~Full(buffer)
             /\ pending' = buffer
             /\ ArmTimer
             /\ UNCHANGED calls
    /\ UNCHANGED <<downloads, storageVars, installed, browserVars, answers, asked,
                   forgotten, failures, stops>>

\* webNavigation.onCommitted: tab t shows a new page.
OnCommitted(t) ==
    /\ installed
    /\ page[t] < MaxPages
    /\ page' = [page EXCEPT ![t] = @ + 1]
    /\ described' = [described EXCEPT ![t] = FALSE]
    /\ \/ /\ Len(pending) >= CommitFlushAt
          /\ FlushToStorage(pending, NoRequest)
       \/ /\ Len(pending) < CommitFlushAt
          /\ UNCHANGED <<pending, timer, calls>>
    /\ UNCHANGED <<downloads, storageVars, installed, answers, recorded, asked,
                   forgotten, failures, stops>>

\* The setTimeout of onUpdated fires.  Every flush cancels the timer, so a flush or
\* a read in flight is older than a timer that is armed.
TimerFires ==
    /\ installed
    /\ timer
    /\ Storage = "timely" => \A c \in calls : c.at = "clearSet"
    /\ FlushToStorage(pending, NoRequest)
    /\ UNCHANGED <<downloads, storageVars, installed, browserVars, answers, recorded,
                   asked, forgotten, failures, stops>>

\* handleContentData: the content script of tab t's page sends its metadata a
\* second after document_idle, which may be before or after the page completes.
\* The last pending entry of the tab gets it.
ContentData(t) ==
    /\ installed
    /\ ~described[t]
    /\ described' = [described EXCEPT ![t] = TRUE]
    /\ LET ofTab(e) == e.tab = t
           i == SelectLastInSeq(pending, ofTab)
       IN pending' = IF i = 0 THEN pending
                     ELSE [pending EXCEPT ![i].about = page[t]]
    /\ UNCHANGED <<timer, calls, downloads, storageVars, installed, page, answers,
                   recorded, asked, forgotten, failures, stops>>

-----------------------------------------------------------------------------
(* Messages of the popup.                                                  *)

NewRequest(kind, filter) ==
    [id |-> asked + 1, kind |-> kind, filter |-> filter,
     upTo |-> recorded, since |-> forgotten, held |-> Ids(pending)]

\* handleGetHistory, handleGetStats, handleExportJSON: flush first, then read.
AskToRead(kind, filter) ==
    /\ installed
    /\ kind # "clearHistory"
    /\ kind # "getHistory" => filter = "all"    \* no other message has a filter
    /\ asked < MaxRequests
    /\ asked' = asked + 1
    /\ FlushToStorage(pending, NewRequest(kind, filter))
    /\ UNCHANGED <<downloads, storageVars, installed, browserVars, answers, recorded,
                   forgotten, failures, stops>>

\* handleClearHistory: one set of both keys; the buffer is left alone.
AskToClear ==
    /\ installed
    /\ "clearHistory" \in Kinds
    /\ asked < MaxRequests
    /\ asked' = asked + 1
    /\ \E ok \in BOOLEAN :
        /\ calls' = calls \cup {[at |-> "clearSet", ok |-> ok,
                                 request |-> NewRequest("clearHistory", "all")]}
        /\ \/ ok /\ history' = <<>> /\ stats' = ZeroStats /\ UNCHANGED failures
           \/ ~ok /\ UNCHANGED storageVars /\ MayFail
    /\ UNCHANGED <<pending, timer, downloads, installed, browserVars, answers,
                   recorded, forgotten, stops>>

-----------------------------------------------------------------------------
(* Storage answers: the continuations.                                     *)

\* The flush has its snapshot: append, cap, count, and write both keys.
FlushGot(c) ==
    /\ c.at = "flushGet"
    /\ \E ok \in BOOLEAN :
        /\ calls' = (calls \ {c}) \cup
                    {[at |-> "flushSet", batch |-> c.batch, next |-> c.next, ok |-> ok]}
        /\ \/ /\ ok
              /\ history' = Appended(c.history, c.batch)
              /\ stats' = Count(c.stats, c.batch)
              /\ UNCHANGED failures
           \/ /\ ~ok
              /\ UNCHANGED storageVars
              /\ MayFail
    /\ UNCHANGED <<pending, timer, downloads, answers, forgotten>>

\* The write is done: the flush resolves.
FlushStored(c) ==
    /\ c.at = "flushSet"
    /\ c.ok
    /\ calls' = (calls \ {c}) \cup Resume(c.next)
    /\ UNCHANGED <<pending, timer, downloads, storageVars, answers, forgotten, failures>>

\* Mutant: the batch is not put back.
DropBatch(c) ==
    /\ calls' = (calls \ {c}) \cup Resume(c.next)
    /\ UNCHANGED <<pending, timer, downloads, storageVars, answers, forgotten>>

\* catch: the get or the set was rejected.  The batch goes back to the front
\* of the buffer, no timer is armed, and the flush resolves all the same.
PutBack(c) ==
    /\ pending' = c.batch \o pending
    /\ calls' = (calls \ {c}) \cup Resume(c.next)
    /\ UNCHANGED <<timer, downloads, storageVars, answers, forgotten>>

\* Mutant: a finally instead of the catch.
PutBackAlways(c) == c.at = "flushSet" /\ UNCHANGED failures /\ PutBack(c)

FlushRejected(c) ==
    \/ c.at = "flushGet" /\ MayFail /\ PutBack(c)
    \/ c.at = "flushSet" /\ ~c.ok /\ UNCHANGED failures /\ PutBack(c)

\* A handler has its snapshot: it answers, or starts the download.
ReadGot(c) ==
    /\ c.at = "readGet"
    /\ calls' = calls \ {c}
    /\ LET r == c.request
       IN \/ /\ r.kind = "getHistory"
             /\ answers' = answers \cup
                    {[request |-> r, entries |-> View(c.history, r.filter)]}
             /\ UNCHANGED downloads
          \/ /\ r.kind = "getStats"
             /\ answers' = answers \cup
                    {[request |-> r, stats |-> c.stats, currentEntries |-> Len(c.history)]}
             /\ UNCHANGED downloads
          \/ /\ r.kind = "exportJSON"
             /\ downloads' = downloads \cup {[request |-> r, entries |-> c.history]}
             /\ UNCHANGED answers
    /\ UNCHANGED <<pending, timer, storageVars, forgotten, failures>>

\* A get outside flushToStorage is not caught: the request is never answered.
ReadRejected(c) ==
    /\ c.at = "readGet"
    /\ MayFail
    /\ calls' = calls \ {c}
    /\ UNCHANGED <<pending, timer, downloads, storageVars, answers, forgotten>>

\* handleClearHistory answers, or its rejection goes unanswered.
ClearDone(c) ==
    /\ c.at = "clearSet"
    /\ calls' = calls \ {c}
    /\ \/ /\ c.ok
          /\ answers' = answers \cup {[request |-> c.request]}
          /\ forgotten' = IF c.request.upTo > forgotten THEN c.request.upTo ELSE forgotten
       \/ /\ ~c.ok
          /\ UNCHANGED <<answers, forgotten>>
    /\ UNCHANGED <<pending, timer, downloads, storageVars, failures>>

StorageAnswers(c) ==
    /\ \/ FlushGot(c)
       \/ FlushStored(c)
       \/ FlushRejected(c)
       \/ ReadGot(c)
       \/ ReadRejected(c)
       \/ ClearDone(c)
    /\ UNCHANGED <<installed, browserVars, recorded, asked, stops>>

\* chrome.downloads.download resolves, or is rejected (the user cancelled).
DownloadDone(d) ==
    /\ downloads' = downloads \ {d}
    /\ \E ok \in BOOLEAN :
        answers' = answers \cup
            {[request |-> d.request, ok |-> ok, count |-> Len(d.entries)]}
    /\ UNCHANGED <<pending, timer, calls, storageVars, installed, browserVars, recorded,
                   asked, forgotten, failures, stops>>

-----------------------------------------------------------------------------
(* The end of a worker.  Its memory is gone, what it had asked of storage  *)
(* is not; the next event starts a worker with an empty buffer.            *)

StopWorker ==
    /\ stops < MaxStops
    /\ stops' = stops + 1
    /\ pending' = <<>>
    /\ timer' = FALSE
    /\ calls' = {}
    /\ downloads' = {}
    /\ UNCHANGED <<storageVars, installed, browserVars, answers, recorded, asked,
                   forgotten, failures>>

\* The browser exits, crashes or updates the extension: at any time.
Killed == workerVars # <<<<>>, FALSE, {}, {}>> /\ StopWorker

\* IdleLimit seconds without an event.  A timer armed by then has fired if its
\* interval is shorter than that.
IdleTimeout ==
    /\ pending # <<>>
    /\ calls = {} /\ downloads = {}
    /\ timer => FlushInterval >= IdleLimit
    /\ StopWorker

-----------------------------------------------------------------------------
Next ==
    \/ OnInstalled
    \/ \E t \in Tabs : OnUpdated(t) \/ OnCommitted(t) \/ ContentData(t)
    \/ TimerFires
    \/ \E kind \in Kinds, filter \in Filters : AskToRead(kind, filter)
    \/ AskToClear
    \/ \E c \in calls : StorageAnswers(c)
    \/ \E d \in downloads : DownloadDone(d)
    \/ Killed
    \/ IdleTimeout

Spec == Init /\ [][Next]_vars

(* Storage answers every call and the event loop runs a due timer; nobody  *)
(* promises that the user goes on browsing or closes the save dialog.      *)
Fairness ==
    /\ WF_vars(TimerFires)
    /\ WF_vars(\E c \in calls : StorageAnswers(c))

FairSpec == Spec /\ Fairness
=============================================================================
