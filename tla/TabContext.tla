----------------------------- MODULE TabContext -----------------------------
(***************************************************************************)
(* One tab of the session tracker (c/session_tracker.c): what the          *)
(* functions on a TabContext compute.  Positions count from 0 as in the C  *)
(* code; nav_count is the length of nav_history.  Titles and the two time  *)
(* stamps of a tab, which nothing reads, are left out.                     *)
(***************************************************************************)
EXTENDS Integers, Sequences, SequencesExt

CONSTANTS
    Urls,
    NoUrl,          \* the empty string
    MaxChain,       \* SESSION_MAX_CHAIN (128)
    NavCapacity,    \* the slots a tab starts with (16)
    OutOfMemory     \* can an allocation fail?

ASSUME TabAssumption ==
    /\ NoUrl \notin Urls
    /\ MaxChain \in Nat \ {0, 1}
    /\ NavCapacity \in 1..MaxChain
    /\ OutOfMemory \in BOOLEAN

Url == Urls \cup {NoUrl}

Tab == [tab_id : Nat \ {0}, is_active : BOOLEAN, nav_history : Seq(Urls),
        nav_capacity : Nat, nav_position : Nat \cup {-1},
        current_url : Url, referrer_url : Url, page_loads : Nat]

\* The capacity an array that is full would get.
Doubled(capacity, limit) == IF 2 * capacity > limit THEN limit ELSE 2 * capacity

TabCreate(id) ==
    [tab_id |-> id, is_active |-> TRUE, nav_history |-> <<>>,
     nav_capacity |-> NavCapacity, nav_position |-> -1,
     current_url |-> NoUrl, referrer_url |-> NoUrl, page_loads |-> 0]

-----------------------------------------------------------------------------
(* tab_navigate: cut what is forward of the position, make room, push.     *)

\* Mutant: nothing is cut.
Uncut(tab) == tab

Truncated(tab) ==
    IF tab.nav_position \in 0 .. Len(tab.nav_history) - 2
    THEN [tab EXCEPT !.nav_history = SubSeq(@, 1, tab.nav_position + 1)]
    ELSE tab

\* Mutant: the array is taken to have room at its limit.
Unshifted(tab) ==
    IF Len(tab.nav_history) < tab.nav_capacity
    THEN tab
    ELSE [tab EXCEPT !.nav_capacity = Doubled(@, MaxChain)]

\* A full array grows, or at its limit loses its first URL.
WithRoom(tab) ==
    LET larger == Doubled(tab.nav_capacity, MaxChain)
    IN IF Len(tab.nav_history) < tab.nav_capacity
       THEN tab
       ELSE IF Len(tab.nav_history) < larger
            THEN [tab EXCEPT !.nav_capacity = larger]
            ELSE [tab EXCEPT !.nav_history = Tail(@)]

Pushed(tab, url) ==
    [tab EXCEPT !.nav_history  = Append(@, url),
                !.nav_position = Len(tab.nav_history),
                !.referrer_url = tab.current_url,
                !.current_url  = url,
                !.page_loads   = @ + 1]

\* The tabs a navigation may leave: its result is not looked at by any caller.
\* Without memory to grow it has cut only; without memory for the URL it has made
\* room and set the referrer.
TabNavigate(tab, url) ==
    LET cut   == Truncated(tab)
        roomy == WithRoom(cut)
    IN {Pushed(roomy, url)} \cup
       (IF OutOfMemory
        THEN {[roomy EXCEPT !.referrer_url = tab.current_url]} \cup
             {t \in {cut} : roomy.nav_capacity # cut.nav_capacity}
        ELSE {})

-----------------------------------------------------------------------------
(* tab_go_back and tab_go_forward                                          *)

MoveTo(tab, position) ==
    [tab EXCEPT !.nav_position = position,
                !.referrer_url = tab.current_url,
                !.current_url  = tab.nav_history[position + 1]]

TabGoBack(tab) ==
    IF tab.nav_position <= 0 THEN tab ELSE MoveTo(tab, tab.nav_position - 1)

TabGoForward(tab) ==
    IF tab.nav_position >= Len(tab.nav_history) - 1 THEN tab
    ELSE MoveTo(tab, tab.nav_position + 1)
=============================================================================
