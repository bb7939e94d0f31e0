---------------------- MODULE SessionTrackerProperties ----------------------
(* What the session tracker of SessionTracker.tla keeps, and what its      *)
(* comments say of it.                                                     *)
EXTENDS SessionTracker

\* Every variable has the type its declaration says.
TypeOK ==
    /\ sessions \in Seq(Session)
    /\ session_capacity \in Nat
    /\ current_state \in States
    /\ last_event_time \in Int
    /\ driver \in Drivers
    /\ clock \in Nat /\ events \in Nat
    /\ finished \in BOOLEAN
    /\ seen \in Seq([time : Int, session : Nat \ {0}])

-----------------------------------------------------------------------------
(* The tabs of a session.                                                  *)

\* ActiveTabOpen: the active tab of a session is an open one, and there is none
\* only when no tab is open, whatever is closed, switched to or refused
\* (session_tracker.c:262-283, 394-444).
ActiveTabOpen ==
    \A k \in DOMAIN sessions :
        LET s == sessions[k]
        IN IF s.active_tab_id = -1
           THEN ActiveTabs(s) = {}
           ELSE \E i \in ActiveTabs(s) : s.tabs[i].tab_id = s.active_tab_id

\* A session has loaded as many pages as its tabs have, or more when
\* memory ran out (session_tracker.c:398-401, 428-432, 446-456).
PagesAgree ==
    \A k \in DOMAIN sessions :
        LET s     == sessions[k]
            loads == MapThenSumSet(LAMBDA i : s.tabs[i].page_loads, DOMAIN s.tabs)
        IN s.page_count = loads \/ (OutOfMemory /\ s.page_count > loads)

\* No array outgrows its capacity, no capacity its limit; a tab's
\* id is found once, and at no time were more tabs open than the session says
\* (session_tracker.c:225-256, 368-379).
WithinCapacity ==
    /\ Len(sessions) <= session_capacity /\ session_capacity <= MaxSessions
    /\ \A k \in DOMAIN sessions :
        LET s == sessions[k]
        IN /\ Len(s.tabs) <= s.tab_capacity /\ s.tab_capacity <= MaxTabs
           /\ Cardinality(ActiveTabs(s)) <= s.max_concurrent_tabs
           /\ \A i, j \in DOMAIN s.tabs : s.tabs[i].tab_id = s.tabs[j].tab_id => i = j
           /\ \A i \in DOMAIN s.tabs : s.tabs[i].tab_id < s.next_tab_id

\* The tracker shows the state of the current session, and the
\* transitions counted lead from ACTIVE to the state the session is in
\* (session_tracker.c:385-388, 489-495).
CountedTransitions ==
    /\ sessions # <<>> => current_state = Last(sessions).state
    /\ \A k \in DOMAIN sessions :
        LET s == sessions[k]
            Into(x)  == MapThenSumSet(LAMBDA y : s.transitions[<<y, x>>], States)
            OutOf(x) == MapThenSumSet(LAMBDA y : s.transitions[<<x, y>>], States)
            Is(x, y) == IF x = y THEN 1 ELSE 0
        IN \A x \in States : Into(x) - OutOf(x) = Is(x, s.state) - Is(x, "ACTIVE")

\* CountsAgree: however tabs open, close and load, sessions follow one another and
\* memory fails half way, the numbers a session keeps are those of its tabs and of
\* its states, and stay within its limits (session_tracker.c:225-256, 342-499).
CountsAgree == TypeOK /\ PagesAgree /\ WithinCapacity /\ CountedTransitions

\* ClosedStaysClosed: nothing happens to a tab that was closed, "close tab then
\* navigate on it", or to a session that is over (session_fuzzer.c:14).
ClosedStaysClosed ==
    [][\A k \in DOMAIN sessions :
        /\ \A i \in DOMAIN sessions[k].tabs :
            ~sessions[k].tabs[i].is_active => sessions'[k].tabs[i] = sessions[k].tabs[i]
        /\ k < Len(sessions) => sessions'[k] = sessions[k]]_vars

-----------------------------------------------------------------------------
(* The sessions.                                                           *)

\* The events seen that come more than the gap after every event before them.
AfterGap ==
    {i \in DOMAIN seen : \A j \in 1 .. i - 1 : seen[i].time - seen[j].time > Gap}

\* GroupedByGaps: "Groups history entries into browsing sessions based on temporal
\* gaps" (session_tracker.c:4-5), as long as no event is refused: an event is in the
\* session counted by the gaps up to it, although the tracker remembers only the end
\* of the current session and an undated event gets a time of its own; and a session
\* reaches from its first event to its latest.
GroupedByGaps ==
  Len(seen) = events =>
    /\ \A i \in DOMAIN seen :
        seen[i].session = Cardinality({g \in AfterGap : g <= i})
    /\ \A k \in DOMAIN sessions :
        LET times == {seen[i].time : i \in {j \in DOMAIN seen : seen[j].session = k}}
        IN /\ \A t \in times : t <= sessions[k].end_time
           /\ {sessions[k].start_time, sessions[k].end_time} \subseteq times

\* The whole seconds from a session's first event to its latest.
WholeSeconds(s) == (s.end_time - s.start_time) \div Second

\* LongestOfAll: "Compute aggregate statistics across all sessions"
\* (session_tracker.h:172): after an analysis no session lasts longer than the one
\* it calls the longest, the last session included, by as much as whole seconds and
\* a float of minutes can tell: there is none to which another float of minutes
\* belongs, and a larger one.  A session that is longer by a part of a second, or by
\* less than the float's precision, need not be the one
\* (session_tracker.c:359-365, 634-639, 655-670).
LongestOfAll ==
    (driver = "analyze" /\ finished) =>
        \A k \in DOMAIN sessions : \A f \in MinuteFloats :
            f <= WholeSeconds(sessions[k]) =>
                f <= WholeSeconds(sessions[summary.longest_session_idx])
=============================================================================
