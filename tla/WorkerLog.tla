------------------------------ MODULE WorkerLog ------------------------------
(***************************************************************************)
(* The browser library: the pages of an origin that run                    *)
(* js/brave-history-access.js, the service worker js/history-sw.js they    *)
(* share, and the localStorage and IndexedDB of the origin.                *)
(*                                                                         *)
(* An action is a callback up to the next await.  Two pages of an origin   *)
(* may run in two processes, so that one may write localStorage between    *)
(* another's getItem and setItem.  The browser stops the worker at any     *)
(* time between two events and starts it again for the next.               *)
(***************************************************************************)
EXTENDS Naturals, Sequences, SequencesExt, FiniteSets

CONSTANTS
    MaxPages,       \* bound: tabs of the origin
    MaxLog,         \* the cap of historyLog (1000)
    MaxTracked,     \* the cap of braveHistoryTrack (1000)
    MaxLoads,       \* bound: page loads
    MaxFetches,     \* bound: fetches the worker sees
    MaxFaults       \* bound: stops of the worker and failures of the browser's calls

\* Tabs and addresses are numbered in the order in which they are first loaded.
Pages == 1 .. MaxPages

ASSUME LogAssumption ==
    /\ {MaxLog, MaxTracked} \subseteq Nat \ {0}
    /\ {MaxPages, MaxLoads, MaxFetches, MaxFaults} \subseteq Nat

VARIABLES
    \* a page: where its script is, and its local variables
    at, url, read, worker_of, controlled, history,
    \* the origin
    tracked,        \* localStorage.braveHistoryTrack, as addresses
    worker,         \* [id, state] of the newest worker; id 0: none was registered
    historyLog,     \* of the running worker; fetches are numbered
    storing,        \* the entries whose transaction has not completed, in order
    stored,         \* the object store "history" of BraveHistoryDB
    messages,       \* the pages whose GET_HISTORY the worker has not handled
    answers,        \* the answers on their way: [page, history]
    \* for the bounds and the properties
    loads, faults,
    fetched,        \* fetches the worker has seen
    since,          \* those before its last start
    asked,          \* those before a page's question
    calls,          \* the addresses trackLocalHistory wrote or found repeated
    disturbed       \* did a page write between another's getItem and setItem

pageVars   == <<at, url, read, worker_of, controlled, history, asked>>
localVars  == <<tracked, calls, disturbed>>
workerVars == <<historyLog, storing, stored, since>>
vars == <<pageVars, localVars, workerVars, worker, messages, answers, loads, faults, fetched>>

NoHistory == <<0>>      \* null, in a result without success

Init ==
    /\ at = [p \in Pages |-> "closed"]
    /\ url = [p \in Pages |-> 1]
    /\ read = [p \in Pages |-> <<>>]
    /\ worker_of = [p \in Pages |-> 0]
    /\ controlled = [p \in Pages |-> FALSE]
    /\ history = [p \in Pages |-> NoHistory]
    /\ asked = [p \in Pages |-> 0]
    /\ tracked = <<>> /\ calls = <<>> /\ disturbed = FALSE
    /\ worker = [id |-> 0, state |-> "redundant"]
    /\ historyLog = <<>> /\ storing = <<>> /\ stored = <<>> /\ since = 0
    /\ messages = {} /\ answers = {}
    /\ loads = 0 /\ faults = 0 /\ fetched = 0

\* One of the calls that may reject does.
Fails == faults < MaxFaults /\ faults' = faults + 1

Step(p, from, to) == at[p] = from /\ at' = [at EXCEPT ![p] = to]

-----------------------------------------------------------------------------
(* The pages.                                                              *)

\* Mutant: the oldest entries are kept.
OldestOf(s, n) == SubSeq(s, 1, IF Len(s) > n THEN n ELSE Len(s))

\* slice(-n)
LastOf(s, n) == SubSeq(s, IF Len(s) > n THEN Len(s) - n + 1 ELSE 1, Len(s))

\* A page is loaded: an active worker controls it unless it is reloaded by force.
Load(p) ==
    /\ loads < MaxLoads /\ loads' = loads + 1 /\ p <= loads'
    /\ Step(p, "closed", "track")
    /\ \E u \in 1 .. loads' : url' = [url EXCEPT ![p] = u]
    /\ \E force \in BOOLEAN : controlled' =
          [controlled EXCEPT ![p] = ~force /\ worker.state \in {"activating", "activated"}]
    /\ UNCHANGED <<read, worker_of, history, asked, localVars, workerVars, worker,
                   messages, answers, faults, fetched>>

\* The page is closed, or left for another.
Leave(p) ==
    /\ at[p] # "closed"
    /\ at' = [at EXCEPT ![p] = "closed"]
    /\ read' = [read EXCEPT ![p] = <<>>]
    /\ worker_of' = [worker_of EXCEPT ![p] = 0]
    /\ controlled' = [controlled EXCEPT ![p] = FALSE]
    /\ history' = [history EXCEPT ![p] = NoHistory]
    /\ url' = [url EXCEPT ![p] = 1]
    /\ asked' = [asked EXCEPT ![p] = 0]
    /\ messages' = messages \ {p}
    /\ answers' = {a \in answers : a.page # p}
    /\ UNCHANGED <<localVars, workerVars, worker, loads, faults, fetched>>

\* Mutant: any earlier visit to the address counts.
VisitedBefore(log, u) == u \in ToSet(log)

\* Avoid consecutive duplicates
IsRepeat(log, u) == log # <<>> /\ Last(log) = u

\* trackLocalHistory up to its getItem, which initializeBraveHistoryAccess calls first and
\* detectIncognitoAndGetHistory again; a repeated address is not written.
TrackLocalHistory(p) ==
    /\ \E again \in BOOLEAN :
        LET next == IF again THEN "register" ELSE "detect"
        IN /\ at[p] = IF again THEN "trackAgain" ELSE "track"
           /\ IF IsRepeat(tracked, url[p])
              THEN at' = [at EXCEPT ![p] = next] /\ UNCHANGED read
              ELSE /\ at' = [at EXCEPT ![p] = IF again THEN "setAgain" ELSE "set"]
                   /\ read' = [read EXCEPT ![p] = tracked]
           /\ calls' = IF IsRepeat(tracked, url[p]) THEN Append(calls, url[p]) ELSE calls
    /\ UNCHANGED <<url, worker_of, controlled, history, asked, tracked, disturbed,
                   workerVars, worker, messages, answers, loads, faults, fetched>>

\* Its setItem, which throws when the quota is exceeded.
SetItem(p) ==
    /\ \E again \in BOOLEAN : IF again THEN Step(p, "setAgain", "register") ELSE Step(p, "set", "detect")
    /\ \/ /\ tracked' = LastOf(Append(read[p], url[p]), MaxTracked)
          /\ calls' = Append(calls, url[p])
          /\ disturbed' = (disturbed \/ tracked # read[p])
          /\ UNCHANGED faults
       \/ Fails /\ UNCHANGED localVars
    /\ read' = [read EXCEPT ![p] = <<>>]
    /\ UNCHANGED <<url, worker_of, controlled, history, asked, workerVars, worker,
                   messages, answers, loads, fetched>>

\* detectIncognito: in a private window nothing more is tracked.
DetectIncognito(p) ==
    /\ \E next \in {"trackAgain", "register"} : Step(p, "detect", next)
    /\ UNCHANGED <<url, read, worker_of, controlled, history, asked, localVars, workerVars,
                   worker, messages, answers, loads, faults, fetched>>

\* registerServiceWorker up to its first wait: there may be no support, or register rejects,
\* or the worker is there, or a new one is installed.
RegisterServiceWorker(p) ==
    /\ \/ Fails /\ Step(p, "register", "done") /\ UNCHANGED <<worker, worker_of>>
       \/ /\ Step(p, "register", "activation")
          /\ worker' = IF worker.state = "redundant"
                       THEN [id |-> worker.id + 1, state |-> "installing"] ELSE worker
          /\ worker_of' = [worker_of EXCEPT ![p] = worker'.id]
          /\ UNCHANGED faults
    /\ UNCHANGED <<url, read, controlled, history, asked, localVars, workerVars, messages,
                   answers, loads, fetched>>

\* Mutant: only an activated worker ends the wait.
IsActivated(p) == worker.id = worker_of[p] /\ worker.state = "activated"

\* The worker a page has found is activated or redundant; it may be an earlier one.
IsSettled(p) == worker.id # worker_of[p] \/ worker.state \in {"activated", "redundant"}

\* The request for the history, through a port; without a controller nothing is sent.
RequestHistory(p) ==
    /\ IsSettled(p)
    /\ Step(p, "activation", "request")
    /\ worker_of' = [worker_of EXCEPT ![p] = 0]
    /\ messages' = IF controlled[p] THEN messages \cup {p} ELSE messages
    /\ asked' = [asked EXCEPT ![p] = fetched]
    /\ UNCHANGED <<url, read, controlled, history, localVars, workerVars, worker, answers,
                   loads, faults, fetched>>

\* The answer arrives: after the timeout nobody waits for it.
Answered(a) ==
    /\ answers' = answers \ {a}
    /\ IF at[a.page] = "request"
       THEN /\ at' = [at EXCEPT ![a.page] = "done"]
            /\ history' = [history EXCEPT ![a.page] = a.history]
       ELSE UNCHANGED <<at, history>>
    /\ UNCHANGED <<url, read, worker_of, controlled, asked, localVars, workerVars, worker,
                   messages, loads, faults, fetched>>

\* _withTimeout: the timer fires first.
TimesOut(p) ==
    /\ Step(p, "request", "done")
    /\ UNCHANGED <<url, read, worker_of, controlled, history, asked, localVars, workerVars,
                   worker, messages, answers, loads, faults, fetched>>

-----------------------------------------------------------------------------
(* The worker.                                                             *)

\* install: if the cache cannot be opened the worker becomes redundant, else it does
\* not wait for pages of another version.
Install ==
    /\ worker.state = "installing"
    /\ \/ worker' = [worker EXCEPT !.state = "activating"] /\ UNCHANGED faults
       \/ Fails /\ worker' = [worker EXCEPT !.state = "redundant"]
    /\ UNCHANGED <<pageVars, localVars, workerVars, messages, answers, loads, fetched>>

\* activate: every page is claimed, unless the caches fail first; the worker is activated
\* in any case.
Activate ==
    /\ worker.state = "activating"
    /\ worker' = [worker EXCEPT !.state = "activated"]
    /\ \/ controlled' = [p \in Pages |-> at[p] # "closed"] /\ UNCHANGED faults
       \/ Fails /\ UNCHANGED controlled
    /\ UNCHANGED <<at, url, read, worker_of, history, asked, localVars, workerVars, messages,
                   answers, loads, fetched>>

\* fetch, of a page the worker controls; storeHistoryEntry is not awaited.
Fetch ==
    /\ worker.state = "activated"
    /\ \E p \in Pages : controlled[p]
    /\ fetched < MaxFetches /\ fetched' = fetched + 1
    /\ historyLog' = LastOf(Append(historyLog, fetched'), MaxLog)
    /\ storing' = Append(storing, fetched')
    /\ UNCHANGED <<pageVars, localVars, stored, since, worker, messages, answers, loads,
                   faults>>

\* message: GET_HISTORY
Message(p) ==
    /\ p \in messages
    /\ messages' = messages \ {p}
    /\ answers' = answers \cup {[page |-> p, history |-> historyLog]}
    /\ UNCHANGED <<pageVars, localVars, workerVars, worker, loads, faults, fetched>>

\* storeHistoryEntry: the oldest transaction completes, or the database cannot be opened.
\* Transactions on one store complete in the order in which they were created.
StoreHistoryEntry ==
    /\ storing # <<>>
    /\ storing' = Tail(storing)
    /\ \/ stored' = Append(stored, Head(storing)) /\ UNCHANGED faults
       \/ Fails /\ UNCHANGED stored
    /\ UNCHANGED <<pageVars, localVars, historyLog, since, worker, messages, answers, loads,
                   fetched>>

\* The browser stops the worker, and its transactions with it.
Stop ==
    /\ worker.state = "activated"
    /\ Fails
    /\ historyLog' = <<>>
    /\ storing' = <<>>
    /\ since' = fetched
    /\ UNCHANGED <<pageVars, localVars, stored, worker, messages, answers, loads, fetched>>

-----------------------------------------------------------------------------
PageStep(p) ==
    TrackLocalHistory(p) \/ SetItem(p) \/ DetectIncognito(p)
        \/ RegisterServiceWorker(p) \/ RequestHistory(p) \/ TimesOut(p)

Next ==
    \/ \E p \in Pages : Load(p) \/ Leave(p) \/ PageStep(p) \/ Message(p)
    \/ \E a \in answers : Answered(a)
    \/ Install \/ Activate \/ Fetch \/ StoreHistoryEntry \/ Stop

Spec == Init /\ [][Next]_vars

\* A page's tasks run, its timers fire, and installing and activating a worker ends.
FairSpec ==
    /\ Spec
    /\ \A p \in Pages : WF_vars(PageStep(p))
    /\ WF_vars(Install) /\ WF_vars(Activate)
=============================================================================
