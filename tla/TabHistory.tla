----------------------------- MODULE TabHistory -----------------------------
(***************************************************************************)
(* One open tab of a session, by itself: the navigations, moves and        *)
(* reloads that session_tracker_process_event applies to the active tab.   *)
(* The tab's array with a position is to be a back/forward list.           *)
(***************************************************************************)
EXTENDS TabContext

CONSTANT MaxLoads       \* bound: page loads

VARIABLE tab

TabInit == tab = TabCreate(1)

\* TAB_EVENT_NAVIGATE and TAB_EVENT_OPEN with a URL
NavigateTab(url) ==
    /\ tab.page_loads < MaxLoads
    /\ tab' \in TabNavigate(tab, url)

\* TAB_EVENT_RELOAD
ReloadTab ==
    /\ tab.page_loads < MaxLoads
    /\ tab' = [tab EXCEPT !.page_loads = @ + 1]

\* TAB_EVENT_BACK and TAB_EVENT_FORWARD
Back    == tab' = TabGoBack(tab)
Forward == tab' = TabGoForward(tab)

TabNext == ReloadTab \/ Back \/ Forward \/ \E url \in Urls : NavigateTab(url)

TabSpec == TabInit /\ [][TabNext]_tab

-----------------------------------------------------------------------------
Count == Len(tab.nav_history)

\* The tab is one.
TabTypeOK == tab \in Tab

Position == IF tab.nav_position < Count THEN tab.nav_position ELSE Count - 1

\* current_url, kept apart from the array, is the URL the array has at the position
\* (session_tracker.c:117-126, 147-152).
ShowsItsPosition ==
    tab.current_url = IF Count = 0 THEN NoUrl ELSE tab.nav_history[Position + 1]

\* InBounds: whatever visits fail between shifting, cutting and writing, the array is
\* never fuller than its capacity nor larger than its limit, current_url is the URL at
\* the position, and the position is a URL's; only when a visit failed after its shift
\* (session_tracker.c:98-116) is it one past the last.  So what tab_go_back and
\* tab_go_forward read is a URL, and what tab_navigate writes is a slot.
InBounds ==
    /\ TabTypeOK
    /\ Count <= tab.nav_capacity /\ tab.nav_capacity <= MaxChain
    /\ tab.nav_position < Count \/ (OutOfMemory /\ tab.nav_position = Count)
    /\ tab.nav_position = -1 => Count = 0
    /\ ShowsItsPosition

BackForward == INSTANCE BackForwardList WITH
    Pages     <- Urls,
    Nowhere   <- NoUrl,
    Cap       <- MaxChain,
    MayForget <- OutOfMemory,
    past      <- SubSeq(tab.nav_history, 1, Position),
    page      <- tab.current_url,
    future    <- SubSeq(tab.nav_history, Position + 2, Count)

\* ImplementsBackForwardList: cutting, growing, shifting and moving the position
\* implement the back/forward list a user expects.
ImplementsBackForwardList == BackForward!Spec
=============================================================================
