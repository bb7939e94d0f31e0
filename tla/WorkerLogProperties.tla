-------------------------- MODULE WorkerLogProperties --------------------------
(* What the browser library's logs and answers keep, whatever pages and    *)
(* the worker do in between.                                               *)
EXTENDS WorkerLog, FiniteSetsExt

Histories == Seq(1 .. MaxFetches)

\* Every variable has the type its declaration says.
TypeOK ==
    /\ at \in [Pages -> {"closed", "track", "set", "detect", "trackAgain", "setAgain", "register",
                         "activation", "request", "done"}]
    /\ url \in [Pages -> Nat] /\ read \in [Pages -> Seq(Nat)]
    /\ worker_of \in [Pages -> 0 .. worker.id] /\ controlled \in [Pages -> BOOLEAN]
    /\ history \in [Pages -> Histories \cup {NoHistory}]
    /\ tracked \in Seq(Nat) /\ {historyLog, storing, stored} \subseteq Histories
    /\ worker.state \in {"installing", "activating", "activated", "redundant"}
    /\ messages \subseteq Pages /\ answers \subseteq [page : Pages, history : Histories]

\* A history without a hole, no longer than the cap.
Unbroken(h) == Len(h) <= MaxLog /\ \A i \in 1 .. Len(h) - 1 : h[i + 1] = h[i] + 1

\* What is answered to a page is all that was fetched up to a moment after its question,
\* or the newest of it that fits; nothing only if the worker was stopped.
Answers(p, h) ==
    /\ Unbroken(h)
    /\ IF h = <<>> THEN since >= asked[p] ELSE Last(h) >= asked[p]

\* LogsAgree: however long an answer is on its way and whatever is fetched, stopped or
\* timed out meanwhile, it is as new as its question, and is not used when it comes late;
\* the log in memory and the one in the database are of the same fetches: the database
\* has them in order, each once, and has all of them unless the worker was stopped or a
\* transaction failed (history-sw.js:37-80, 120-135, brave-history-access.js:59-69, 228-243).
LogsAgree ==
    /\ TypeOK
    /\ \A a \in answers : Answers(a.page, a.history)
    /\ \A p \in Pages : history[p] # NoHistory => at[p] \in {"done", "closed"} /\ Answers(p, history[p])
    /\ ToSet(storing) \subseteq since + 1 .. fetched
    /\ IsSorted(stored \o storing, <)
    /\ IsInjective(stored \o storing)
    /\ faults = 0 => Len(stored \o storing) = fetched

\* What a log of the addresses in u, one after the other, is to be: a repeated address
\* once, and the newest that fit.
LogOf(u) ==
    LET new == {i \in DOMAIN u : i = 1 \/ u[i - 1] # u[i]}
        at_(k) == CHOOSE i \in new : Cardinality({j \in new : j <= i}) = k
    IN LastOf([k \in 1 .. Cardinality(new) |-> u[at_(k)]], MaxTracked)

\* TracksNavigation: braveHistoryTrack is the log of the addresses tracked, consecutive
\* duplicates once, as long as no page has written it between another's getItem and its
\* setItem; if one has, it is still capped, without consecutive duplicates and ends with
\* the address written last (brave-history-access.js:159-187, 339-343, 488).
TracksNavigation ==
    /\ ~disturbed => tracked = LogOf(calls)
    /\ Len(tracked) <= MaxTracked
    /\ \A i \in 1 .. Len(tracked) - 1 : tracked[i] # tracked[i + 1]
    /\ calls # <<>> => Last(tracked) = Last(calls)

\* Served: registerServiceWorker comes to an end with a history or without one, also if
\* the worker becomes redundant while a page waits for it, or does not control the page,
\* and nothing is sent (brave-history-access.js:215-243).
Served == \A p \in Pages : at[p] = "register" ~> at[p] \in {"done", "closed"}
=============================================================================
