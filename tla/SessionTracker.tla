--------------------------- MODULE SessionTracker ---------------------------
(***************************************************************************)
(* The session tracker of the command-line tool (c/session_tracker.c):     *)
(* tab events, grouped into sessions by the gaps between their times, open *)
(* and close the tabs of a session, move between them and drive a state    *)
(* machine.  Two drivers feed it: session_tracker_analyze, which turns     *)
(* every history entry into a navigation, oldest first, and the event      *)
(* stream of fuzz/session_fuzzer.c.                                        *)
(*                                                                         *)
(* Times are in the units the browsers count in, Second of them a second;  *)
(* the C code's are micro seconds.                                         *)
(***************************************************************************)
EXTENDS TabContext, FiniteSets

CONSTANTS
    Domain,         \* Domain[url]: hash of the url's host, modulo SESSION_MAX_TABS
    MaxTabs,        \* SESSION_MAX_TABS (64)
    TabCapacity,    \* the tab slots a session starts with (8)
    MaxSessions,    \* SESSION_MAX_SESSIONS (1024)
    SessionCapacity,\* the session slots the tracker starts with (32)
    Gap,            \* SESSION_GAP_SECONDS (1800)
    DeepPages,      \* more pages than this may be a deep browse (3)
    RapidSwitches,  \* more switches than this may be rapid fire (5)
    Minute, HalfMinute,
    Second,         \* 1000000
    MinuteFloats,   \* for each value a float of minutes can have, the least number
                    \* of whole seconds that is rounded to it
    Drivers,        \* of "analyze" and "events"
    EventTypes,     \* those in the event stream
    Raws,           \* time stamps of history entries; not positive: it has none
    Deltas,         \* times from one event of the stream to the next
    MaxEvents       \* bound: events in the stream, or entries

Types == {"OPEN", "CLOSE", "NAVIGATE", "SWITCH", "RELOAD", "BACK", "FORWARD"}

ASSUME TrackerAssumption ==
    /\ Domain \in [Urls -> Nat \ {0}]
    /\ {MaxTabs, TabCapacity, MaxSessions, SessionCapacity, Gap} \subseteq Nat \ {0}
    /\ TabCapacity <= MaxTabs /\ SessionCapacity <= MaxSessions
    /\ {DeepPages, RapidSwitches, Minute, HalfMinute} \subseteq Nat
    /\ Second \in Nat \ {0}
    /\ MinuteFloats \subseteq Nat /\ 0 \in MinuteFloats
    /\ Drivers \subseteq {"analyze", "events"}
    /\ EventTypes \subseteq Types
    /\ Raws \subseteq Int
    /\ Deltas \subseteq Nat \ {0}
    /\ MaxEvents \in Nat

States == {"IDLE", "ACTIVE", "DEEP_BROWSE", "RAPID_FIRE"}

VARIABLES
    sessions,           \* the last one is current_session
    session_capacity,
    current_state,
    last_event_time,
    summary,            \* what session_tracker_compute_stats has computed
    \* the drivers
    driver,
    todo,               \* the entries analyze has yet to replay
    clock,              \* running_timestamp of the event stream
    events,             \* events or entries fed so far
    finished,
    \* for the properties
    seen                \* the events accepted: their times and sessions

trackerVars == <<sessions, session_capacity, current_state, last_event_time>>
vars == <<trackerVars, summary, driver, todo, clock, events, finished, seen>>

Session == [start_time : Int, end_time : Int, state : States,
            tabs : Seq(Tab), tab_capacity : Nat,
            active_tab_id : Nat \cup {-1}, next_tab_id : Nat \ {0},
            page_count : Nat, tab_switches : Nat, max_concurrent_tabs : Nat,
            duration : Nat, transitions : [States \X States -> Nat]]

SessionCreate(timestamp) ==
    [start_time |-> timestamp, end_time |-> timestamp, state |-> "ACTIVE",
     tabs |-> <<>>, tab_capacity |-> TabCapacity,
     active_tab_id |-> -1, next_tab_id |-> 1,
     page_count |-> 0, tab_switches |-> 0, max_concurrent_tabs |-> 0,
     duration |-> 0, transitions |-> [p \in States \X States |-> 0]]

-----------------------------------------------------------------------------
(* The tabs of a session.                                                  *)

ActiveTabs(s) == {i \in DOMAIN s.tabs : s.tabs[i].is_active}

\* session_find_tab: the index of the tab, 0 if there is none
FindTab(s, id) == SelectInSeq(s.tabs, LAMBDA t : t.tab_id = id)

\* Mutant: the limit is compared with one too few.
OneTooMany(s) == Len(s.tabs) <= Doubled(s.tab_capacity, MaxTabs)

\* The session with room for one more tab, if it can have one.
HasTabRoom(s) ==
    \/ Len(s.tabs) < s.tab_capacity
    \/ Len(s.tabs) < Doubled(s.tab_capacity, MaxTabs)
GrownTabs(s) ==
    IF Len(s.tabs) < s.tab_capacity THEN s
    ELSE [s EXCEPT !.tab_capacity = Doubled(@, MaxTabs)]

\* session_add_tab, when it returns a tab: the last one
AddTab(s) ==
    LET added  == [GrownTabs(s) EXCEPT !.tabs = Append(@, TabCreate(s.next_tab_id)),
                                       !.next_tab_id = @ + 1]
        active == Cardinality(ActiveTabs(added))
    IN [added EXCEPT !.max_concurrent_tabs = IF active > @ THEN active ELSE @]

\* session_add_tab, when it returns NULL: at the limit, or out of memory for the
\* array or for the tab, whose id is spent.
NoTabAdded(s) ==
    {t \in {s} : ~HasTabRoom(s)} \cup
    (IF OutOfMemory /\ HasTabRoom(s)
     THEN {[GrownTabs(s) EXCEPT !.next_tab_id = @ + 1]} \cup
          {t \in {s} : GrownTabs(s) # s}
     ELSE {})

\* Mutant: the closed tab stays the active one.
CloseOnly(s, id) ==
    LET i == FindTab(s, id)
    IN IF i = 0 THEN s ELSE [s EXCEPT !.tabs[i].is_active = FALSE]

\* session_close_tab: the last tab still open becomes the active one
CloseTab(s, id) ==
    LET i      == FindTab(s, id)
        closed == [s EXCEPT !.tabs[i].is_active = FALSE]
        last   == SelectLastInSeq(closed.tabs, LAMBDA t : t.is_active)
    IN IF i = 0 THEN s
       ELSE IF s.active_tab_id # id THEN closed
       ELSE [closed EXCEPT !.active_tab_id =
                IF last = 0 THEN -1 ELSE closed.tabs[last].tab_id]

\* Mutant: the newest tab, open or not.
NewestTab(s) == Len(s.tabs)

\* The index of the active tab if it is open, else 0.
ActiveTab(s) ==
    LET i == IF s.active_tab_id > 0 THEN FindTab(s, s.active_tab_id) ELSE 0
    IN IF i = 0 THEN 0 ELSE IF s.tabs[i].is_active THEN i ELSE 0

-----------------------------------------------------------------------------
(* The event switch: the sessions an event may leave.                      *)

\* A page is loaded in tab i; it counts although tab_navigate may have failed.
Load(s, i, url) ==
    IF url = NoUrl THEN {s}
    ELSE {[s EXCEPT !.tabs[i] = t, !.page_count = @ + 1] :
             t \in TabNavigate(s.tabs[i], url)}

\* The tab an OPEN, or a NAVIGATE without an open tab, adds and activates.
WithNewTab(s) == [AddTab(s) EXCEPT !.active_tab_id = s.next_tab_id]

Open(s, url) ==
    IF HasTabRoom(s) THEN Load(WithNewTab(s), Len(s.tabs) + 1, url) ELSE {}

Close(s, id) ==
    LET target == IF id <= 0 /\ s.active_tab_id > 0 THEN s.active_tab_id ELSE id
    IN IF target > 0 THEN CloseTab(s, target) ELSE s

Navigate(s, url) ==
    IF ActiveTab(s) # 0 THEN Load(s, ActiveTab(s), url) ELSE Open(s, url)

Switch(s, id) ==
    LET i == FindTab(s, id)
    IN IF i = 0 THEN s
       ELSE IF ~s.tabs[i].is_active THEN s
       ELSE [s EXCEPT !.active_tab_id = id, !.tab_switches = @ + 1]

\* RELOAD, BACK and FORWARD do something to the active tab.
InActiveTab(s, Does(_)) ==
    IF ActiveTab(s) = 0 THEN s ELSE [s EXCEPT !.tabs[ActiveTab(s)] = Does(@)]

Reload(s) ==
    LET counted == [s EXCEPT !.page_count = @ + 1]
    IN IF ActiveTab(s) = 0 THEN s
       ELSE InActiveTab(counted, LAMBDA t : [t EXCEPT !.page_loads = @ + 1])

Handled(s, e) ==
    CASE e.type = "OPEN"     -> Open(s, e.url)
      [] e.type = "CLOSE"    -> {Close(s, e.tab_id)}
      [] e.type = "NAVIGATE" -> Navigate(s, e.url)
      [] e.type = "SWITCH"   -> {Switch(s, e.tab_id)}
      [] e.type = "RELOAD"   -> {Reload(s)}
      [] e.type = "BACK"     -> {InActiveTab(s, TabGoBack)}
      [] e.type = "FORWARD"  -> {InActiveTab(s, TabGoForward)}

\* The sessions an event that returns -1 leaves: a tab it needs is not added.
Refused(s, e) ==
    IF e.type = "OPEN" \/ (e.type = "NAVIGATE" /\ ActiveTab(s) = 0)
    THEN NoTabAdded(s) ELSE {}

-----------------------------------------------------------------------------
(* The state machine.                                                      *)

\* compute_state_transition, called after the session's end_time is updated
StateTransition(s, timestamp, type) ==
    LET delta == timestamp - s.end_time
    IN CASE delta > Gap -> "IDLE"
         [] delta <= Gap /\ s.state = "IDLE" ->
              IF type \in {"OPEN", "NAVIGATE"} THEN "ACTIVE" ELSE "IDLE"
         [] delta <= Gap /\ s.state = "ACTIVE" ->
              IF s.tab_switches = 0 /\ s.page_count > DeepPages THEN "DEEP_BROWSE"
              ELSE IF s.tab_switches > RapidSwitches /\ delta < Minute
              THEN "RAPID_FIRE" ELSE "ACTIVE"
         [] delta <= Gap /\ s.state = "DEEP_BROWSE" ->
              IF type = "SWITCH" THEN "ACTIVE" ELSE "DEEP_BROWSE"
         [] delta <= Gap /\ s.state = "RAPID_FIRE" ->
              IF delta > HalfMinute THEN "ACTIVE" ELSE "RAPID_FIRE"

Extended(s, timestamp) ==
    [s EXCEPT !.end_time = IF timestamp > @ THEN timestamp ELSE @]

Transited(s, new) ==
    IF new = s.state THEN s
    ELSE [s EXCEPT !.transitions[<<s.state, new>>] = @ + 1, !.state = new]

\* What an event that was handled does last.
Concluded(s, timestamp, type) ==
    LET extended == Extended(s, timestamp)
    IN Transited(extended, StateTransition(extended, timestamp, type))

-----------------------------------------------------------------------------
(* session_tracker_process_event                                           *)

\* An event without a time stamp comes a second after the last one.
Effective(timestamp) ==
    IF timestamp <= 0 THEN last_event_time + Second ELSE timestamp

\* Mutant: a gap is counted from the start of the session.
SinceStart(timestamp) ==
    IF sessions = <<>> THEN TRUE ELSE timestamp - Last(sessions).start_time > Gap

NeedsSession(timestamp) ==
    IF sessions = <<>> THEN TRUE ELSE timestamp - Last(sessions).end_time > Gap

\* (float)seconds / 60.0f, as the least seconds that give that float
Minutes(seconds) == Max({f \in MinuteFloats : f <= seconds})

\* duration_minutes of the last session: what is less than a second is cut off.
Finalized ==
    LET s == Last(sessions)
        duration == s.end_time - s.start_time
    IN IF sessions = <<>> THEN <<>>
       ELSE [sessions EXCEPT ![Len(sessions)].duration = Minutes(duration \div Second)]

HasSessionRoom == Len(sessions) < Doubled(session_capacity, MaxSessions)
                  \/ Len(sessions) < session_capacity

GrownSessions == IF Len(sessions) < session_capacity THEN session_capacity
                 ELSE Doubled(session_capacity, MaxSessions)

\* The event needs a session and there is none for it: -1, with the current
\* session finalized and, out of memory for the session only, the array grown.
NoSession(timestamp) ==
    /\ NeedsSession(timestamp)
    /\ \/ ~HasSessionRoom /\ UNCHANGED session_capacity
       \/ OutOfMemory /\ HasSessionRoom /\ session_capacity' = GrownSessions
       \/ OutOfMemory /\ HasSessionRoom /\ Len(sessions) >= session_capacity
          /\ UNCHANGED session_capacity
    /\ sessions' = Finalized
    /\ UNCHANGED <<current_state, last_event_time, seen>>

\* The sessions with the one the event belongs to at the end.
SessionsFor(timestamp) ==
    IF NeedsSession(timestamp) THEN Append(Finalized, SessionCreate(timestamp))
    ELSE sessions

\* The event switch, the end time and the state machine; or a -1 that skips them.
InSession(e, timestamp) ==
    /\ NeedsSession(timestamp) => HasSessionRoom
    /\ session_capacity' =
           IF NeedsSession(timestamp) THEN GrownSessions ELSE session_capacity
    /\ LET current == SessionsFor(timestamp)
           s       == Last(current)
           Becomes(t) == sessions' = [current EXCEPT ![Len(current)] = t]
           state   == IF NeedsSession(timestamp) THEN "ACTIVE" ELSE current_state
       IN \/ \E t \in Handled(s, e) :
                LET done == Concluded(t, timestamp, e.type)
                IN /\ Becomes(done)
                   /\ current_state' = IF done.state = t.state THEN state ELSE done.state
                   /\ last_event_time' = timestamp
                   /\ seen' = Append(seen, [time |-> timestamp, session |-> Len(current)])
          \/ \E t \in Refused(s, e) :
                /\ Becomes(t)
                /\ current_state' = state
                /\ UNCHANGED <<last_event_time, seen>>

ProcessEvent(e) ==
    LET timestamp == Effective(e.timestamp)
    IN NoSession(timestamp) \/ InSession(e, timestamp)

-----------------------------------------------------------------------------
(* session_tracker_compute_stats; the averages are left out                *)

\* Mutant: the largest number so far is not remembered.
LastPositive(numbers, otherwise) ==
    LET positive == {i \in DOMAIN numbers : numbers[i] > 0}
    IN IF positive = {} THEN otherwise ELSE Max(positive)

\* The index of the first of the largest numbers, if one is positive.
FirstLargest(numbers, otherwise) ==
    LET largest == {i \in DOMAIN numbers : \A j \in DOMAIN numbers : numbers[i] >= numbers[j]}
    IN IF numbers[Min(largest)] > 0 THEN Min(largest) ELSE otherwise

\* Indexes count from 1 here; calloc leaves the first session's.
NoSummary == [total_sessions |-> 0, total_pages |-> 0,
              longest_session_idx |-> 1, most_tabs_session_idx |-> 1]

ComputeStats(ss) ==
    IF ss = <<>> THEN summary
    ELSE [total_sessions |-> Len(ss),
          total_pages |-> MapThenSumSet(LAMBDA i : ss[i].page_count, DOMAIN ss),
          longest_session_idx |->
              FirstLargest([i \in DOMAIN ss |-> ss[i].duration],
                           summary.longest_session_idx),
          most_tabs_session_idx |->
              FirstLargest([i \in DOMAIN ss |-> ss[i].max_concurrent_tabs],
                           summary.most_tabs_session_idx)]

-----------------------------------------------------------------------------
(* The drivers.                                                            *)

\* The history entries analyze gets, in the order of their time stamps.
Results ==
    UNION {{f \in [1..n -> [raw : Raws, url : Urls]] :
                \A i, j \in 1..n : i < j => f[i].raw <= f[j].raw} : n \in 1..MaxEvents}

Entries(f) == {[id |-> i, raw |-> f[i].raw, url |-> f[i].url] : i \in DOMAIN f}

Init ==
    /\ sessions = <<>>
    /\ session_capacity = SessionCapacity
    /\ current_state = "IDLE"
    /\ last_event_time = 0
    /\ summary = NoSummary
    /\ driver \in Drivers
    /\ todo \in IF driver = "analyze" THEN {Entries(f) : f \in Results} ELSE {{}}
    /\ clock = Gap
    /\ events = 0
    /\ finished = FALSE
    /\ seen = <<>>

\* session_tracker_analyze: a qsort by time, equal times in any order, then the
\* oldest entry first; the pseudo tab id is that of the url's domain.
AnalyzeEntry ==
    /\ driver = "analyze"
    /\ \E entry \in todo :
        /\ \A other \in todo : entry.raw <= other.raw
        /\ todo' = todo \ {entry}
        /\ events' = events + 1
        /\ ProcessEvent([type |-> "NAVIGATE", tab_id |-> Domain[entry.url],
                         url |-> entry.url, timestamp |-> entry.raw])
    /\ UNCHANGED <<summary, driver, clock, finished>>

\* Its end: the last session is finalized and the statistics are computed.
Analyzed ==
    /\ driver = "analyze"
    /\ todo = {} /\ ~finished
    /\ finished' = TRUE
    /\ sessions' = Finalized
    /\ summary' = ComputeStats(Finalized)
    /\ UNCHANGED <<session_capacity, current_state, last_event_time, driver, todo,
                   clock, events, seen>>

\* The events session_parse_events makes of bytes; only a CLOSE or a SWITCH looks
\* at the tab id, and only an OPEN or a NAVIGATE at the url.
Parsed ==
    {e \in [type : EventTypes, tab_id : 1 .. MaxTabs + 1, url : Url] :
        /\ e.type \notin {"CLOSE", "SWITCH"} => e.tab_id = 1
        /\ e.type \notin {"OPEN", "NAVIGATE"} => e.url = NoUrl}

StreamEvent ==
    /\ driver = "events"
    /\ ~finished
    /\ events < MaxEvents
    /\ events' = events + 1
    /\ \E delta \in Deltas, e \in Parsed :
        /\ clock' = clock + delta
        /\ ProcessEvent([type |-> e.type, tab_id |-> e.tab_id, url |-> e.url,
                         timestamp |-> clock + delta])
    /\ UNCHANGED <<summary, driver, todo, finished>>

\* The stream ends; the last session is not finalized.
StreamEnds ==
    /\ driver = "events"
    /\ ~finished
    /\ finished' = TRUE
    /\ summary' = ComputeStats(sessions)
    /\ UNCHANGED <<trackerVars, driver, todo, clock, events, seen>>

Next == AnalyzeEntry \/ Analyzed \/ StreamEvent \/ StreamEnds

Spec == Init /\ [][Next]_vars
=============================================================================
