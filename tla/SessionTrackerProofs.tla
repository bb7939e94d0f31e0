------------------------- MODULE SessionTrackerProofs -------------------------
(* Proofs about the session tracker of SessionTracker.tla, for both        *)
(* drivers, every capacity and limit, and allocations that may fail.       *)
EXTENDS SessionTrackerProperties, TabHistoryProofs, SumLemmas

-----------------------------------------------------------------------------
(* The operators of the community modules, as the tracker uses them.       *)

LEMMA FindTabFacts ==
    ASSUME NEW s, s.tabs \in Seq(Tab), NEW id
    PROVE  \/ /\ FindTab(s, id) = 0
              /\ \A i \in DOMAIN s.tabs : s.tabs[i].tab_id # id
           \/ /\ FindTab(s, id) \in DOMAIN s.tabs
              /\ s.tabs[FindTab(s, id)].tab_id = id
<1> DEFINE I == {i \in 1 .. Len(s.tabs) : s.tabs[i].tab_id = id}
<1>1. FindTab(s, id) = IF I # {} THEN Min(I) ELSE 0
  BY DEF FindTab, SelectInSeq
<1>2. DOMAIN s.tabs = 1 .. Len(s.tabs) /\ Len(s.tabs) \in Nat
  OBVIOUS
<1>3. CASE I = {}
  BY <1>1, <1>2, <1>3
<1>4. CASE I # {}
  <2>0. I \in SUBSET Nat
    BY <1>2
  <2>1. Min(I) \in I
    <3> HIDE DEF I
    <3>. QED  BY <1>4, <2>0, MinFacts
  <2>2. PICK m : m = Min(I)
    OBVIOUS
  <2>3. m \in 1 .. Len(s.tabs) /\ s.tabs[m].tab_id = id
    BY <2>1, <2>2
  <2>4. FindTab(s, id) = m
    BY <1>1, <1>4, <2>2
  <2>. QED
    BY <1>2, <2>3, <2>4
<1>. QED
  BY <1>3, <1>4

\* The last open tab, as session_close_tab looks for it.
LastOpen(tabs) == SelectLastInSeq(tabs, LAMBDA t : t.is_active)

LEMMA LastOpenFacts ==
    ASSUME NEW tabs \in Seq(Tab)
    PROVE  \/ LastOpen(tabs) = 0 /\ \A i \in DOMAIN tabs : ~tabs[i].is_active
           \/ LastOpen(tabs) \in DOMAIN tabs /\ tabs[LastOpen(tabs)].is_active
<1> DEFINE I == {i \in 1 .. Len(tabs) : tabs[i].is_active}
           last == LastOpen(tabs)
<1>1. last = IF I # {} THEN Max(I) ELSE 0
  BY DEF LastOpen, SelectLastInSeq
<1>2. DOMAIN tabs = 1 .. Len(tabs) /\ Len(tabs) \in Nat
  OBVIOUS
<1>3. CASE I = {}
  BY <1>1, <1>2, <1>3
<1>4. CASE I # {}
  <2>1. I \in SUBSET (0 .. Len(tabs))
    BY <1>2
  <2>2. Max(I) \in I
    BY <1>2, <1>4, <2>1, MaxFacts
  <2>. QED
    BY <1>1, <1>2, <1>4, <2>2
<1>. QED
  BY <1>3, <1>4

\* Loads(tabs) is the sum in PagesAgree.
LoadsOf(tabs) == [i \in DOMAIN tabs |-> tabs[i].page_loads]

Loads(tabs) == SumOf(LoadsOf(tabs), DOMAIN tabs)

LEMMA LoadsFacts ==
    ASSUME NEW tabs \in Seq(Tab)
    PROVE  /\ IsFiniteSet(DOMAIN tabs) /\ DOMAIN tabs = 1 .. Len(tabs)
           /\ \A i \in DOMAIN tabs : LoadsOf(tabs)[i] = tabs[i].page_loads
                                     /\ LoadsOf(tabs)[i] \in Nat
<1>1. DOMAIN tabs = 1 .. Len(tabs) /\ Len(tabs) \in Nat /\ \A i \in DOMAIN tabs : tabs[i] \in Tab
  OBVIOUS
<1>. QED
  BY <1>1, FS_Interval, TabFacts DEF LoadsOf

LEMMA LoadsIsSum ==
    ASSUME NEW tabs \in Seq(Tab)
    PROVE  MapThenSumSet(LAMBDA i : tabs[i].page_loads, DOMAIN tabs) = Loads(tabs)
<1> DEFINE D == DOMAIN tabs
           f == LoadsOf(tabs)
           iter == CHOOSE g : g = [s \in SUBSET D |-> IF s = {} THEN 0
                       ELSE tabs[CHOOSE x \in s : TRUE].page_loads + g[s \ {CHOOSE x \in s : TRUE}]]
<1>1. MapThenSumSet(LAMBDA i : tabs[i].page_loads, D) = iter[D]
  BY DEF MapThenSumSet, MapThenFoldSet
<1>2. IsFiniteSet(D) /\ \A i \in D : f[i] = tabs[i].page_loads /\ f[i] \in Int
  BY LoadsFacts
<1> HIDE DEF D, f
<1>3. PICK g : Partial(g, f, D)
  BY <1>2, PartialExists
<1>4. \A s \in SUBSET D : s # {} => f[First(s)] = tabs[First(s)].page_loads
  BY <1>2, FirstIn
<1>5. g = [s \in SUBSET D |-> IF s = {} THEN 0
               ELSE tabs[CHOOSE x \in s : TRUE].page_loads + g[s \ {CHOOSE x \in s : TRUE}]]
  <2>1. g = [s \in SUBSET D |-> g[s]]
    BY <1>3 DEF Partial
  <2>2. \A s \in SUBSET D : g[s] = IF s = {} THEN 0
                                   ELSE tabs[First(s)].page_loads + g[s \ {First(s)}]
    BY <1>3, <1>4 DEF Partial
  <2>3. [s \in SUBSET D |-> g[s]] = [s \in SUBSET D |->
            IF s = {} THEN 0 ELSE tabs[First(s)].page_loads + g[s \ {First(s)}]]
    BY <2>2
  <2>. QED
    BY <2>1, <2>3, Zenon DEF First
<1>6. iter = [s \in SUBSET D |-> IF s = {} THEN 0
                  ELSE tabs[CHOOSE x \in s : TRUE].page_loads + iter[s \ {CHOOSE x \in s : TRUE}]]
  BY <1>5
<1> HIDE DEF iter
<1>7. Iterates(iter, f, D)
  <2>1. iter = [s \in SUBSET D |-> IF s = {} THEN 0
                     ELSE tabs[First(s)].page_loads + iter[s \ {First(s)}]]
    BY <1>6, Zenon DEF First
  <2>2. \A s \in SUBSET D : iter[s] = IF s = {} THEN 0
                                      ELSE tabs[First(s)].page_loads + iter[s \ {First(s)}]
    BY <2>1, Zenon
  <2>3. ASSUME NEW s \in SUBSET D
        PROVE  iter[s] = IF s = {} THEN 0 ELSE f[First(s)] + iter[s \ {First(s)}]
    BY <1>4, <2>2
  <2>. QED
    BY <2>3 DEF Iterates
<1>8. iter[D] = SumOf(f, D)
  BY <1>2, <1>7, IterIsSum
<1>. QED
  BY <1>1, <1>8 DEF Loads, D, f

-----------------------------------------------------------------------------
(* The inductive invariant of a session's tabs.                            *)

DistinctIds(s) ==
    /\ \A i \in DOMAIN s.tabs : s.tabs[i].tab_id < s.next_tab_id
    /\ \A i, j \in DOMAIN s.tabs : s.tabs[i].tab_id = s.tabs[j].tab_id => i = j

ActiveIsOpen(s) ==
    IF s.active_tab_id = -1
    THEN ActiveTabs(s) = {}
    ELSE \E i \in ActiveTabs(s) : s.tabs[i].tab_id = s.active_tab_id

PagesCounted(s) ==
    s.page_count = Loads(s.tabs) \/ (OutOfMemory /\ s.page_count > Loads(s.tabs))

TabsOK(s) ==
    /\ s \in Session
    /\ s.tab_capacity \in 1..MaxTabs /\ Len(s.tabs) <= s.tab_capacity
    /\ \A i \in DOMAIN s.tabs : Bounded(s.tabs[i])
    /\ DistinctIds(s)
    /\ Cardinality(ActiveTabs(s)) <= s.max_concurrent_tabs
    /\ ActiveIsOpen(s)
    /\ PagesCounted(s)

\* What no operation on the tabs changes.
Frame(s, t) ==
    /\ t.start_time = s.start_time /\ t.end_time = s.end_time
    /\ t.state = s.state /\ t.duration = s.duration /\ t.transitions = s.transitions

\* A closed tab stays as it is.
ClosedKept(s, t) ==
    \A i \in DOMAIN s.tabs : ~s.tabs[i].is_active => i \in DOMAIN t.tabs /\ t.tabs[i] = s.tabs[i]

\* What an operation on the tabs of a session does.
Evolves(s, t) == TabsOK(t) /\ Frame(s, t) /\ ClosedKept(s, t)

LEMMA SessionFacts ==
    ASSUME NEW s \in Session
    PROVE  /\ s.start_time \in Int /\ s.end_time \in Int /\ s.state \in States
           /\ s.tabs \in Seq(Tab) /\ s.tab_capacity \in Nat
           /\ s.active_tab_id \in Nat \cup {-1} /\ s.next_tab_id \in Nat \ {0}
           /\ s.page_count \in Nat /\ s.tab_switches \in Nat /\ s.max_concurrent_tabs \in Nat
           /\ s.duration \in Nat /\ s.transitions \in [States \X States -> Nat]
           /\ Len(s.tabs) \in Nat /\ DOMAIN s.tabs = 1 .. Len(s.tabs)
           /\ \A i \in DOMAIN s.tabs : s.tabs[i] \in Tab
<1>1. /\ s.start_time \in Int /\ s.end_time \in Int /\ s.state \in States
      /\ s.tabs \in Seq(Tab) /\ s.tab_capacity \in Nat
      /\ s.active_tab_id \in Nat \cup {-1} /\ s.next_tab_id \in Nat \ {0}
      /\ s.page_count \in Nat /\ s.tab_switches \in Nat /\ s.max_concurrent_tabs \in Nat
      /\ s.duration \in Nat /\ s.transitions \in [States \X States -> Nat]
  BY DEF Session
<1>. QED
  BY <1>1

\* A session's fields: those that an EXCEPT does not name stay.
SessionFields ==
    {"start_time", "end_time", "state", "tabs", "tab_capacity", "active_tab_id", "next_tab_id",
     "page_count", "tab_switches", "max_concurrent_tabs", "duration", "transitions"}

LEMMA SessionDomain == ASSUME NEW s \in Session PROVE DOMAIN s = SessionFields
BY DEF Session, SessionFields

LEMMA SessionExcept ==
    ASSUME NEW s \in Session, NEW v \in Seq(Tab), NEW n \in Nat
    PROVE  [s EXCEPT !.tabs = v, !.page_count = n] \in Session
BY DEF Session

LEMMA SessionExceptCount ==
    ASSUME NEW s \in Session, NEW n \in Nat
    PROVE  [s EXCEPT !.page_count = n] \in Session
BY DEF Session

LEMMA EvolvesTrans ==
    ASSUME NEW s, NEW t, NEW u, Evolves(s, t), Evolves(t, u)
    PROVE  Evolves(s, u)
BY DEF Evolves, Frame, ClosedKept

LEMMA EvolvesSame == ASSUME NEW s, TabsOK(s) PROVE Evolves(s, s)
BY DEF Evolves, Frame, ClosedKept

LEMMA ActiveFinite ==
    ASSUME NEW s \in Session
    PROVE  IsFiniteSet(ActiveTabs(s)) /\ Cardinality(ActiveTabs(s)) \in Nat
           /\ ActiveTabs(s) \subseteq DOMAIN s.tabs
<1>1. ActiveTabs(s) \subseteq 1 .. Len(s.tabs) /\ Len(s.tabs) \in Nat
  BY SessionFacts DEF ActiveTabs
<1>2. IsFiniteSet(1 .. Len(s.tabs))
  BY <1>1, FS_Interval
<1>3. IsFiniteSet(ActiveTabs(s))
  BY <1>1, <1>2, FS_Subset
<1>. QED
  BY <1>3, FS_CardinalityType DEF ActiveTabs

LEMMA LoadsNat == ASSUME NEW tabs \in Seq(Tab) PROVE Loads(tabs) \in Int
<1>1. IsFiniteSet(DOMAIN tabs) /\ \A i \in DOMAIN tabs : LoadsOf(tabs)[i] \in Int
  BY LoadsFacts
<1>. QED
  BY <1>1, SumType DEF Loads

\* One tab changes: the sum changes by as much.
LEMMA LoadsChange ==
    ASSUME NEW tabs \in Seq(Tab), NEW i \in DOMAIN tabs, NEW t \in Tab
    PROVE  Loads([tabs EXCEPT ![i] = t]) = Loads(tabs) + (t.page_loads - tabs[i].page_loads)
<1>1. PICK new : new = [tabs EXCEPT ![i] = t]
  OBVIOUS
<1>2. new \in Seq(Tab) /\ DOMAIN new = DOMAIN tabs /\ new[i] = t
      /\ \A j \in DOMAIN tabs \ {i} : new[j] = tabs[j]
  BY <1>1
<1>3. /\ IsFiniteSet(DOMAIN tabs)
      /\ \A j \in DOMAIN tabs : /\ LoadsOf(tabs)[j] = tabs[j].page_loads /\ LoadsOf(tabs)[j] \in Int
                                /\ LoadsOf(new)[j] = new[j].page_loads /\ LoadsOf(new)[j] \in Int
  BY <1>2, LoadsFacts
<1>4. \A j \in DOMAIN tabs \ {i} : LoadsOf(tabs)[j] = LoadsOf(new)[j]
  BY <1>2, <1>3
<1>5. PICK f, h, D : f = LoadsOf(tabs) /\ h = LoadsOf(new) /\ D = DOMAIN tabs
  OBVIOUS
<1>6. SumOf(h, D) = SumOf(f, D) + (h[i] - f[i])
  <2>1. IsFiniteSet(D) /\ i \in D /\ \A y \in D : f[y] \in Int /\ h[y] \in Int
    BY <1>3, <1>5
  <2>2. \A y \in D \ {i} : f[y] = h[y]
    BY <1>4, <1>5
  <2>3. DifferAt(f, h, D, i)
    BY <2>1, <2>2 DEF DifferAt
  <2>. QED
    BY <2>3, SumChanges
<1>7. h[i] = t.page_loads /\ f[i] = tabs[i].page_loads
  BY <1>2, <1>3, <1>5
<1>8. Loads(new) = SumOf(h, D) /\ Loads(tabs) = SumOf(f, D)
  BY <1>2, <1>5 DEF Loads
<1>. QED
  BY <1>1, <1>6, <1>7, <1>8

\* A new tab has loaded nothing yet.
LEMMA LoadsAppend ==
    ASSUME NEW tabs \in Seq(Tab), NEW t \in Tab, t.page_loads = 0
    PROVE  Loads(Append(tabs, t)) = Loads(tabs)
<1>1. PICK new : new = Append(tabs, t)
  OBVIOUS
<1>2. PICK n : n = Len(tabs) + 1
  OBVIOUS
<1>3. /\ new \in Seq(Tab) /\ n \in Nat /\ DOMAIN new = 1 .. n /\ new[n] = t
      /\ DOMAIN tabs = 1 .. n - 1 /\ \A j \in DOMAIN tabs : new[j] = tabs[j]
  BY <1>1, <1>2
<1>4. DOMAIN new = DOMAIN tabs \cup {n} /\ n \notin DOMAIN tabs
  <2>1. 1 .. n = (1 .. n - 1) \cup {n} /\ n \notin 1 .. n - 1
    BY <1>2, <1>3
  <2>. QED
    BY <1>3, <2>1
<1>5. /\ IsFiniteSet(DOMAIN tabs)
      /\ \A j \in DOMAIN new : LoadsOf(new)[j] = new[j].page_loads /\ LoadsOf(new)[j] \in Int
      /\ \A j \in DOMAIN tabs : LoadsOf(tabs)[j] = tabs[j].page_loads /\ LoadsOf(tabs)[j] \in Int
  BY <1>3, LoadsFacts
<1>6. SumOf(LoadsOf(new), DOMAIN new) = LoadsOf(new)[n] + SumOf(LoadsOf(new), DOMAIN tabs)
  BY <1>4, <1>5, SumAdds
<1>7. \A j \in DOMAIN tabs : LoadsOf(tabs)[j] = LoadsOf(new)[j]
  BY <1>3, <1>4, <1>5
<1>8. SumOf(LoadsOf(tabs), DOMAIN tabs) = SumOf(LoadsOf(new), DOMAIN tabs)
  BY <1>5, <1>7, SumSame
<1>9. LoadsOf(new)[n] = 0 /\ Loads(tabs) \in Int
  BY <1>3, <1>4, <1>5, LoadsNat
<1>. QED
  BY <1>1, <1>6, <1>8, <1>9 DEF Loads

-----------------------------------------------------------------------------
(* What happens to one open tab.                                           *)

\* t is s with tab i replaced by u; its pages and switches may differ too.
Replaces(s, t, i, u) ==
    /\ t \in Session /\ Frame(s, t)
    /\ t.tabs = [s.tabs EXCEPT ![i] = u]
    /\ t.tab_capacity = s.tab_capacity /\ t.active_tab_id = s.active_tab_id
    /\ t.next_tab_id = s.next_tab_id /\ t.max_concurrent_tabs = s.max_concurrent_tabs

\* The page count keeps up with the loads of the tab that is replaced.
CountsAlong(s, t, i, u) ==
    \/ t.page_count = s.page_count + (u.page_loads - s.tabs[i].page_loads)
    \/ OutOfMemory /\ t.page_count > s.page_count + (u.page_loads - s.tabs[i].page_loads)

\* The same tab, still open.
SameTab(t, u) == Bounded(u) /\ u.tab_id = t.tab_id /\ u.is_active = t.is_active

LEMMA ReplacedTab ==
    ASSUME NEW s, TabsOK(s), NEW i \in ActiveTabs(s), NEW u, NEW t,
           SameTab(s.tabs[i], u), Replaces(s, t, i, u), CountsAlong(s, t, i, u)
    PROVE  Evolves(s, t)
<1>1. /\ s \in Session /\ t \in Session /\ s.tabs \in Seq(Tab) /\ DOMAIN s.tabs = 1 .. Len(s.tabs)
      /\ Len(s.tabs) \in Nat /\ i \in DOMAIN s.tabs /\ s.tabs[i].is_active /\ u \in Tab
      /\ s.tabs[i] \in Tab /\ u.is_active
  BY SessionFacts DEF TabsOK, Replaces, ActiveTabs, SameTab, Bounded
<1>2. /\ DOMAIN t.tabs = DOMAIN s.tabs /\ Len(t.tabs) = Len(s.tabs) /\ t.tabs[i] = u
      /\ \A j \in DOMAIN s.tabs \ {i} : t.tabs[j] = s.tabs[j]
  BY <1>1 DEF Replaces
<1>3. \A j \in DOMAIN s.tabs : /\ t.tabs[j].tab_id = s.tabs[j].tab_id
                               /\ t.tabs[j].is_active = s.tabs[j].is_active
                               /\ Bounded(t.tabs[j])
  <2> SUFFICES ASSUME NEW j \in DOMAIN s.tabs
               PROVE  /\ t.tabs[j].tab_id = s.tabs[j].tab_id
                      /\ t.tabs[j].is_active = s.tabs[j].is_active
                      /\ Bounded(t.tabs[j])
    OBVIOUS
  <2>1. CASE j = i
    BY <1>2, <2>1 DEF SameTab
  <2>2. CASE j # i
    BY <1>2, <2>2 DEF TabsOK
  <2>. QED
    BY <2>1, <2>2
<1>4. ActiveTabs(t) = ActiveTabs(s)
  BY <1>2, <1>3 DEF ActiveTabs
<1>5. PagesCounted(t)
  <2>1. Loads(t.tabs) = Loads(s.tabs) + (u.page_loads - s.tabs[i].page_loads)
    BY <1>1, LoadsChange DEF Replaces
  <2>2. /\ Loads(s.tabs) \in Int /\ u.page_loads \in Nat /\ s.tabs[i].page_loads \in Nat
        /\ s.page_count \in Nat /\ t.page_count \in Nat
    BY <1>1, LoadsNat, TabFacts, SessionFacts
  <2>. QED
    BY <2>1, <2>2 DEF PagesCounted, CountsAlong, TabsOK
<1>6. DistinctIds(t)
  BY <1>2, <1>3 DEF DistinctIds, TabsOK, Replaces
<1>7. ActiveIsOpen(t)
  <2>1. ActiveIsOpen(s) /\ ActiveTabs(s) \subseteq DOMAIN s.tabs
    BY DEF TabsOK, ActiveTabs
  <2>2. t.active_tab_id = s.active_tab_id
    BY DEF Replaces
  <2>. QED
    BY <1>3, <1>4, <2>1, <2>2 DEF ActiveIsOpen
<1>8. ClosedKept(s, t)
  BY <1>1, <1>2 DEF ClosedKept
<1>. QED
  BY <1>1, <1>2, <1>3, <1>4, <1>5, <1>6, <1>7, <1>8 DEF Evolves, TabsOK, Replaces

\* A page loaded in an open tab.
LEMMA LoadEvolves ==
    ASSUME NEW s, TabsOK(s), NEW i \in ActiveTabs(s), NEW url \in Url, NEW t \in Load(s, i, url)
    PROVE  Evolves(s, t)
<1>1. CASE url = NoUrl
  BY <1>1, EvolvesSame DEF Load
<1>2. CASE url # NoUrl
  <2>1. PICK u \in TabNavigate(s.tabs[i], url) : t = [s EXCEPT !.tabs[i] = u, !.page_count = @ + 1]
    BY <1>2 DEF Load
  <2>2. /\ s \in Session /\ i \in DOMAIN s.tabs /\ Bounded(s.tabs[i]) /\ url \in Urls
        /\ s.tabs \in Seq(Tab) /\ s.page_count \in Nat /\ s.tabs[i] \in Tab
    BY <1>2, SessionFacts DEF TabsOK, ActiveTabs, Url
  <2>3. /\ SameTab(s.tabs[i], u)
        /\ u.page_loads = s.tabs[i].page_loads + 1 \/ (OutOfMemory /\ u.page_loads = s.tabs[i].page_loads)
    BY <2>1, <2>2, BoundedNavigate DEF SameTab
  <2>4. [s.tabs EXCEPT ![i] = u] \in Seq(Tab)
    BY <2>2, <2>3 DEF SameTab, Bounded
  <2>5. Replaces(s, t, i, u) /\ t.page_count = s.page_count + 1
    <3>1. PICK v, n : v = [s.tabs EXCEPT ![i] = u] /\ n = s.page_count + 1
      OBVIOUS
    <3>2. t = [s EXCEPT !.tabs = v, !.page_count = n]
      BY <2>1, <3>1
    <3>3. v \in Seq(Tab) /\ n \in Nat
      BY <2>2, <2>4, <3>1
    <3>4. t \in Session
      BY <2>2, <3>2, <3>3, SessionExcept
    <3>5. DOMAIN s = SessionFields
      BY <2>2, SessionDomain
    <3>. QED
      BY <3>1, <3>2, <3>4, <3>5 DEF Replaces, Frame, SessionFields
  <2>6. CountsAlong(s, t, i, u)
    BY <2>2, <2>3, <2>5, TabFacts DEF CountsAlong
  <2>. QED
    BY <2>3, <2>5, <2>6, ReplacedTab
<1>. QED
  BY <1>1, <1>2

\* The tab an event works in, if there is one, is open.
LEMMA ActiveTabFacts ==
    ASSUME NEW s, s \in Session
    PROVE  ActiveTab(s) = 0 \/ ActiveTab(s) \in ActiveTabs(s)
<1>1. FindTab(s, s.active_tab_id) = 0 \/ FindTab(s, s.active_tab_id) \in DOMAIN s.tabs
  BY FindTabFacts, SessionFacts
<1>. QED
  BY <1>1 DEF ActiveTab, ActiveTabs

LEMMA ReloadEvolves ==
    ASSUME NEW s, TabsOK(s)
    PROVE  Evolves(s, Reload(s))
<1>1. CASE ActiveTab(s) = 0
  BY <1>1, EvolvesSame DEF Reload
<1>2. CASE ActiveTab(s) # 0
  <2>1. PICK i : i = ActiveTab(s)
    OBVIOUS
  <2>2. i \in ActiveTabs(s) /\ s \in Session
    BY <1>2, <2>1, ActiveTabFacts DEF TabsOK
  <2>3. /\ i \in DOMAIN s.tabs /\ Bounded(s.tabs[i])
        /\ s.tabs \in Seq(Tab) /\ s.page_count \in Nat /\ s.tabs[i] \in Tab
    BY <2>2, SessionFacts DEF TabsOK, ActiveTabs
  <2>4. PICK c, n : n = s.page_count + 1 /\ c = [s EXCEPT !.page_count = n]
    OBVIOUS
  <2>5. /\ c \in Session /\ c.tabs = s.tabs /\ c.active_tab_id = s.active_tab_id
        /\ c.page_count = s.page_count + 1 /\ Frame(s, c) /\ c.tab_capacity = s.tab_capacity
        /\ c.next_tab_id = s.next_tab_id /\ c.max_concurrent_tabs = s.max_concurrent_tabs
    <3>1. c \in Session
      BY <2>2, <2>3, <2>4, SessionExceptCount
    <3>2. DOMAIN s = SessionFields
      BY <2>2, SessionDomain
    <3>. QED
      BY <2>4, <3>1, <3>2 DEF Frame, SessionFields
  <2>6. ActiveTab(c) = i
    BY <2>1, <2>5 DEF ActiveTab, FindTab, SelectInSeq
  <2>7. PICK u : u = [s.tabs[i] EXCEPT !.page_loads = @ + 1]
    OBVIOUS
  <2>8. SameTab(s.tabs[i], u) /\ u.page_loads = s.tabs[i].page_loads + 1
    BY <2>3, <2>7, BoundedReload DEF SameTab
  <2>9. PICK t : t = Reload(s)
    OBVIOUS
  <2>10. t = [c EXCEPT !.tabs[i] = u]
    <3>1. t = InActiveTab(c, LAMBDA x : [x EXCEPT !.page_loads = @ + 1])
      BY <1>2, <2>4, <2>9 DEF Reload
    <3>2. t = [c EXCEPT !.tabs[i] = [c.tabs[i] EXCEPT !.page_loads = c.tabs[i].page_loads + 1]]
      BY <1>2, <2>1, <2>6, <3>1 DEF InActiveTab
    <3>. QED
      BY <3>2, <2>5, <2>7
  <2>11. [s.tabs EXCEPT ![i] = u] \in Seq(Tab)
    BY <2>3, <2>8 DEF SameTab, Bounded
  <2>12. Replaces(s, t, i, u) /\ t.page_count = s.page_count + 1
    BY <2>5, <2>10, <2>11 DEF Replaces, Session, Frame
  <2>13. CountsAlong(s, t, i, u)
    BY <2>3, <2>8, <2>12, TabFacts DEF CountsAlong
  <2>. QED
    BY <2>2, <2>8, <2>9, <2>12, <2>13, ReplacedTab
<1>. QED
  BY <1>1, <1>2

LEMMA MoveEvolves ==
    ASSUME NEW s, TabsOK(s), NEW t \in {InActiveTab(s, TabGoBack), InActiveTab(s, TabGoForward)}
    PROVE  Evolves(s, t)
<1>1. CASE ActiveTab(s) = 0
  BY <1>1, EvolvesSame DEF InActiveTab
<1>2. CASE ActiveTab(s) # 0
  <2>1. PICK i : i = ActiveTab(s)
    OBVIOUS
  <2>2. i \in ActiveTabs(s) /\ s \in Session
    BY <1>2, <2>1, ActiveTabFacts DEF TabsOK
  <2>3. /\ i \in DOMAIN s.tabs /\ Bounded(s.tabs[i])
        /\ s.tabs \in Seq(Tab) /\ s.page_count \in Nat /\ s.tabs[i] \in Tab
    BY <2>2, SessionFacts DEF TabsOK, ActiveTabs
  <2>4. PICK u \in {TabGoBack(s.tabs[i]), TabGoForward(s.tabs[i])} : t = [s EXCEPT !.tabs[i] = u]
    BY <1>2, <2>1 DEF InActiveTab
  <2>5. SameTab(s.tabs[i], u) /\ u.page_loads = s.tabs[i].page_loads
    BY <2>3, <2>4, BoundedMoves DEF SameTab
  <2>6. [s.tabs EXCEPT ![i] = u] \in Seq(Tab)
    BY <2>3, <2>5 DEF SameTab, Bounded
  <2>7. Replaces(s, t, i, u) /\ t.page_count = s.page_count
    BY <2>2, <2>4, <2>6 DEF Replaces, Session, Frame
  <2>8. CountsAlong(s, t, i, u)
    BY <2>3, <2>5, <2>7, TabFacts DEF CountsAlong
  <2>. QED
    BY <2>2, <2>5, <2>7, <2>8, ReplacedTab
<1>. QED
  BY <1>1, <1>2

-----------------------------------------------------------------------------
(* A tab is added, or is not.                                              *)

LEMMA GrownFacts ==
    ASSUME NEW s, TabsOK(s), HasTabRoom(s)
    PROVE  LET g == GrownTabs(s)
           IN /\ g \in Session
              /\ g.tab_capacity \in 1..MaxTabs /\ Len(s.tabs) < g.tab_capacity
              /\ \A f \in SessionFields \ {"tab_capacity"} : g[f] = s[f]
<1>1. s \in Session /\ s.tab_capacity \in 1..MaxTabs /\ Len(s.tabs) \in Nat /\ MaxTabs \in Nat
  BY SessionFacts, TrackerAssumption DEF TabsOK
<1>2. CASE Len(s.tabs) < s.tab_capacity
  BY <1>1, <1>2 DEF GrownTabs
<1>3. CASE ~(Len(s.tabs) < s.tab_capacity)
  <2>1. PICK c : c = Doubled(s.tab_capacity, MaxTabs)
    OBVIOUS
  <2>2. c \in Nat /\ c \in 1..MaxTabs /\ Len(s.tabs) < c
    BY <1>1, <1>3, <2>1 DEF HasTabRoom, Doubled
  <2>3. PICK g : g = GrownTabs(s)
    OBVIOUS
  <2>4. g = [s EXCEPT !.tab_capacity = c]
    BY <1>3, <2>1, <2>3 DEF GrownTabs
  <2>5. g \in Session
    BY <1>1, <2>2, <2>4 DEF Session
  <2>6. DOMAIN s = SessionFields
    BY <1>1, SessionDomain
  <2>7. g.tab_capacity = c /\ \A f \in SessionFields \ {"tab_capacity"} : g[f] = s[f]
    BY <2>4, <2>6 DEF SessionFields
  <2>. QED
    BY <2>2, <2>3, <2>5, <2>7
<1>. QED
  BY <1>2, <1>3

\* The fields of the session with a new tab in it.
LEMMA NewTabFields ==
    ASSUME NEW s, TabsOK(s), HasTabRoom(s)
    PROVE  LET t == WithNewTab(s)
           IN /\ t \in Session
              /\ t.tabs = Append(s.tabs, TabCreate(s.next_tab_id))
              /\ t.next_tab_id = s.next_tab_id + 1
              /\ t.active_tab_id = s.next_tab_id
              /\ t.tab_capacity \in 1..MaxTabs /\ Len(s.tabs) < t.tab_capacity
              /\ Cardinality(ActiveTabs(t)) <= t.max_concurrent_tabs
              /\ t.page_count = s.page_count /\ Frame(s, t)
<1>1. PICK g, v, n : /\ g = GrownTabs(s) /\ n = s.next_tab_id + 1
                     /\ v = Append(s.tabs, TabCreate(s.next_tab_id))
  OBVIOUS
<1>2. /\ s \in Session /\ s.tabs \in Seq(Tab) /\ s.next_tab_id \in Nat \ {0}
  BY SessionFacts DEF TabsOK
<1>3. /\ g \in Session /\ g.tab_capacity \in 1..MaxTabs /\ Len(s.tabs) < g.tab_capacity
      /\ \A f \in SessionFields \ {"tab_capacity"} : g[f] = s[f]
      /\ DOMAIN g = SessionFields
  BY <1>1, GrownFacts, SessionDomain
<1>4. v \in Seq(Tab) /\ n \in Nat \ {0}
  <2>1. Bounded(TabCreate(s.next_tab_id))
    BY <1>2, BoundedCreate
  <2>. QED
    BY <1>1, <1>2, <2>1 DEF Bounded
<1>5. PICK a : a = [g EXCEPT !.tabs = v, !.next_tab_id = n]
  OBVIOUS
<1>6. a \in Session
  BY <1>3, <1>4, <1>5 DEF Session
<1>7. /\ a.tabs = v /\ a.next_tab_id = n /\ a.tab_capacity = g.tab_capacity
      /\ \A f \in SessionFields \ {"tab_capacity", "tabs", "next_tab_id"} : a[f] = s[f]
  BY <1>3, <1>5 DEF SessionFields
<1>8. PICK m : m = IF Cardinality(ActiveTabs(a)) > a.max_concurrent_tabs
                   THEN Cardinality(ActiveTabs(a)) ELSE a.max_concurrent_tabs
  OBVIOUS
<1>9. m \in Nat /\ Cardinality(ActiveTabs(a)) <= m
  <2>1. Cardinality(ActiveTabs(a)) \in Nat /\ a.max_concurrent_tabs \in Nat
    BY <1>6, ActiveFinite, SessionFacts
  <2>. QED
    BY <1>8, <2>1
<1>10. PICK b : b = [a EXCEPT !.max_concurrent_tabs = m]
  OBVIOUS
<1>11. b \in Session
  BY <1>6, <1>9, <1>10 DEF Session
<1>12. PICK t : t = [b EXCEPT !.active_tab_id = s.next_tab_id]
  OBVIOUS
<1>13. t \in Session
  BY <1>2, <1>11, <1>12 DEF Session
<1>14. DOMAIN a = SessionFields /\ DOMAIN b = SessionFields
  BY <1>6, <1>11, SessionDomain
<1>15. /\ t.tabs = v /\ t.next_tab_id = n /\ t.tab_capacity = g.tab_capacity
       /\ t.max_concurrent_tabs = m /\ t.active_tab_id = s.next_tab_id
       /\ \A f \in {"start_time", "end_time", "state", "page_count", "duration", "transitions"} :
            t[f] = s[f]
  BY <1>7, <1>10, <1>12, <1>14 DEF SessionFields
<1>16. g.tabs = s.tabs /\ g.next_tab_id = s.next_tab_id
  BY <1>3 DEF SessionFields
<1>17. b = AddTab(s)
  BY <1>1, <1>5, <1>8, <1>10, <1>16 DEF AddTab
<1>18. t = WithNewTab(s)
  BY <1>12, <1>17 DEF WithNewTab
<1>19. ActiveTabs(t) = ActiveTabs(a)
  BY <1>7, <1>15 DEF ActiveTabs
<1>. QED
  BY <1>1, <1>3, <1>9, <1>13, <1>15, <1>18, <1>19 DEF Frame

\* The new tab is open, and the one the session is in.
LEMMA NewTabEvolves ==
    ASSUME NEW s, TabsOK(s), HasTabRoom(s)
    PROVE  Evolves(s, WithNewTab(s)) /\ Len(s.tabs) + 1 \in ActiveTabs(WithNewTab(s))
<1>1. PICK t, u, n : /\ t = WithNewTab(s) /\ u = TabCreate(s.next_tab_id)
                     /\ n = Len(s.tabs) + 1
  OBVIOUS
<1>2. /\ s \in Session /\ s.tabs \in Seq(Tab) /\ s.next_tab_id \in Nat \ {0}
      /\ Len(s.tabs) \in Nat /\ DOMAIN s.tabs = 1 .. Len(s.tabs)
      /\ \A i \in DOMAIN s.tabs : s.tabs[i] \in Tab
  BY SessionFacts DEF TabsOK
<1>3. /\ Bounded(u) /\ u \in Tab /\ u.tab_id = s.next_tab_id /\ u.is_active /\ u.page_loads = 0
  BY <1>1, <1>2, BoundedCreate DEF TabCreate, Bounded
<1>4. /\ t \in Session
      /\ t.tabs = Append(s.tabs, u)
      /\ t.next_tab_id = s.next_tab_id + 1
      /\ t.active_tab_id = s.next_tab_id
      /\ t.tab_capacity \in 1..MaxTabs /\ Len(s.tabs) < t.tab_capacity
      /\ Cardinality(ActiveTabs(t)) <= t.max_concurrent_tabs
      /\ t.page_count = s.page_count /\ Frame(s, t)
  BY <1>1, NewTabFields
<1>5. /\ Len(t.tabs) = n /\ DOMAIN t.tabs = 1 .. n /\ t.tabs[n] = u /\ n \in Nat
      /\ \A i \in DOMAIN s.tabs : i \in DOMAIN t.tabs /\ t.tabs[i] = s.tabs[i]
  BY <1>1, <1>2, <1>3, <1>4
<1>6. \A i \in DOMAIN t.tabs : i = n \/ i \in DOMAIN s.tabs
  BY <1>1, <1>2, <1>5
<1>7. \A i \in DOMAIN s.tabs : s.tabs[i].tab_id < s.next_tab_id /\ s.tabs[i].tab_id \in Nat
  BY <1>2, TabFacts DEF TabsOK, DistinctIds
<1>8. DistinctIds(t)
  <2>1. \A i \in DOMAIN t.tabs : t.tabs[i].tab_id < t.next_tab_id
    BY <1>2, <1>3, <1>4, <1>5, <1>6, <1>7
  <2>2. \A i, j \in DOMAIN t.tabs : t.tabs[i].tab_id = t.tabs[j].tab_id => i = j
    BY <1>2, <1>3, <1>5, <1>6, <1>7 DEF TabsOK, DistinctIds
  <2>. QED
    BY <2>1, <2>2 DEF DistinctIds
<1>9. \A i \in DOMAIN t.tabs : Bounded(t.tabs[i])
  BY <1>3, <1>5, <1>6 DEF TabsOK
<1>10. n \in ActiveTabs(t)
  BY <1>1, <1>2, <1>3, <1>5 DEF ActiveTabs
<1>11. ActiveIsOpen(t)
  BY <1>2, <1>3, <1>4, <1>5, <1>10 DEF ActiveIsOpen
<1>12. PagesCounted(t)
  <2>1. Loads(t.tabs) = Loads(s.tabs)
    BY <1>2, <1>3, <1>4, LoadsAppend
  <2>. QED
    BY <1>4, <2>1 DEF PagesCounted, TabsOK
<1>13. ClosedKept(s, t)
  BY <1>5 DEF ClosedKept
<1>14. Len(t.tabs) <= t.tab_capacity
  <2>1. t.tab_capacity \in Nat
    BY <1>4, SessionFacts
  <2>. QED
    BY <1>1, <1>2, <1>4, <1>5, <2>1
<1>. QED
  BY <1>1, <1>4, <1>8, <1>9, <1>10, <1>11, <1>12, <1>13, <1>14 DEF Evolves, TabsOK

\* The session differs in nothing that matters to its tabs.
SameTabs(s, t) ==
    /\ t \in Session /\ Frame(s, t)
    /\ t.tabs = s.tabs /\ t.active_tab_id = s.active_tab_id
    /\ t.tab_capacity \in 1..MaxTabs /\ Len(s.tabs) <= t.tab_capacity
    /\ t.next_tab_id >= s.next_tab_id
    /\ t.page_count = s.page_count /\ t.max_concurrent_tabs = s.max_concurrent_tabs

LEMMA SameTabsEvolves ==
    ASSUME NEW s, TabsOK(s), NEW t, SameTabs(s, t)
    PROVE  Evolves(s, t)
<1>1. ActiveTabs(t) = ActiveTabs(s)
  BY DEF SameTabs, ActiveTabs
<1>2. /\ s.next_tab_id \in Nat /\ t.next_tab_id \in Nat
      /\ \A i \in DOMAIN s.tabs : s.tabs[i].tab_id \in Nat
  BY SessionFacts, TabFacts DEF SameTabs, TabsOK
<1>3. DistinctIds(t)
  BY <1>2 DEF SameTabs, TabsOK, DistinctIds
<1>4. ActiveIsOpen(t) /\ PagesCounted(t) /\ ClosedKept(s, t)
  BY <1>1 DEF SameTabs, TabsOK, ActiveIsOpen, PagesCounted, ClosedKept
<1>. QED
  BY <1>1, <1>3, <1>4 DEF SameTabs, TabsOK, Evolves

LEMMA NoTabEvolves ==
    ASSUME NEW s, TabsOK(s), NEW t \in NoTabAdded(s)
    PROVE  Evolves(s, t)
<1>1. t = s \/ (HasTabRoom(s) /\ t = [GrownTabs(s) EXCEPT !.next_tab_id = @ + 1])
  BY DEF NoTabAdded
<1>2. CASE HasTabRoom(s) /\ t = [GrownTabs(s) EXCEPT !.next_tab_id = @ + 1]
  <2>1. PICK g, n : g = GrownTabs(s) /\ n = g.next_tab_id + 1
    OBVIOUS
  <2>2. /\ g \in Session /\ g.tab_capacity \in 1..MaxTabs /\ Len(s.tabs) < g.tab_capacity
        /\ \A f \in SessionFields \ {"tab_capacity"} : g[f] = s[f]
        /\ DOMAIN g = SessionFields
    BY <1>2, <2>1, GrownFacts, SessionDomain
  <2>3. n \in Nat \ {0} /\ n >= s.next_tab_id
    <3>1. g.next_tab_id \in Nat \ {0} /\ g.next_tab_id = s.next_tab_id
      BY <2>2, SessionFacts DEF SessionFields
    <3>. QED
      BY <2>1, <3>1
  <2>4. t = [g EXCEPT !.next_tab_id = n]
    BY <1>2, <2>1
  <2>5. t \in Session
    BY <2>2, <2>3, <2>4 DEF Session
  <2>6. /\ t.next_tab_id = n /\ t.tab_capacity = g.tab_capacity
        /\ \A f \in SessionFields \ {"tab_capacity", "next_tab_id"} : t[f] = s[f]
    BY <2>2, <2>4 DEF SessionFields
  <2>7. t.tab_capacity \in Nat /\ Len(s.tabs) \in Nat
    BY <2>5, SessionFacts DEF TabsOK
  <2>8. SameTabs(s, t)
    BY <2>2, <2>3, <2>5, <2>6, <2>7 DEF SameTabs, Frame, SessionFields
  <2>. QED
    BY <2>8, SameTabsEvolves
<1>. QED
  BY <1>1, <1>2, EvolvesSame

-----------------------------------------------------------------------------
(* A tab is closed, or switched to.                                        *)

LEMMA OneTabReplaced ==
    ASSUME NEW tabs \in Seq(Tab), NEW i \in DOMAIN tabs, NEW u \in Tab, NEW v,
           v = [tabs EXCEPT ![i] = u]
    PROVE  /\ v \in Seq(Tab) /\ DOMAIN v = DOMAIN tabs /\ Len(v) = Len(tabs) /\ v[i] = u
           /\ \A j \in DOMAIN tabs \ {i} : v[j] = tabs[j]
OBVIOUS

LEMMA ClosedTabFacts ==
    ASSUME NEW u, Bounded(u)
    PROVE  LET v == [u EXCEPT !.is_active = FALSE]
           IN /\ Bounded(v) /\ ~v.is_active
              /\ v.tab_id = u.tab_id /\ v.page_loads = u.page_loads
              /\ ~u.is_active => v = u
<1>1. PICK v : v = [u EXCEPT !.is_active = FALSE]
  OBVIOUS
<1>2. /\ v \in Tab /\ ~v.is_active /\ v.nav_history = u.nav_history
      /\ v.nav_position = u.nav_position /\ v.current_url = u.current_url
      /\ v.nav_capacity = u.nav_capacity /\ v.tab_id = u.tab_id /\ v.page_loads = u.page_loads
  BY <1>1 DEF Bounded, Tab
<1>3. ~u.is_active => v = u
  <2>1. u.is_active \in BOOLEAN
    BY TabFacts DEF Bounded
  <2>2. u \in Tab
    BY DEF Bounded
  <2>. QED
    BY <1>1, <2>1, <2>2 DEF Tab
<1>4. Bounded(v)
  BY <1>2 DEF Bounded, ShownAt
<1>. QED
  BY <1>1, <1>2, <1>3, <1>4

ClosedAt(tabs, i) == [tabs EXCEPT ![i].is_active = FALSE]

\* The session with tab i closed; the tab it is in is seen to afterwards.
LEMMA ClosingFacts ==
    ASSUME NEW s, TabsOK(s), NEW i \in DOMAIN s.tabs, NEW a \in Nat \cup {-1}, NEW v, NEW t,
           v = ClosedAt(s.tabs, i),
           t = [s EXCEPT !.tabs = v, !.active_tab_id = a], ActiveIsOpen(t)
    PROVE  Evolves(s, t)
<1>1. /\ s \in Session /\ s.tabs \in Seq(Tab) /\ Len(s.tabs) \in Nat
      /\ DOMAIN s.tabs = 1 .. Len(s.tabs) /\ DOMAIN s = SessionFields
      /\ \A j \in DOMAIN s.tabs : s.tabs[j] \in Tab
  BY SessionFacts, SessionDomain DEF TabsOK
<1>2. PICK u : u = [s.tabs[i] EXCEPT !.is_active = FALSE]
  OBVIOUS
<1>3. /\ Bounded(u) /\ u \in Tab /\ ~u.is_active /\ u.tab_id = s.tabs[i].tab_id
      /\ u.page_loads = s.tabs[i].page_loads
      /\ ~s.tabs[i].is_active => u = s.tabs[i]
  <2>1. Bounded(s.tabs[i])
    BY DEF TabsOK
  <2>2. Bounded(u)
    BY <1>2, <2>1, ClosedTabFacts
  <2>. QED
    BY <1>2, <2>1, <2>2, ClosedTabFacts DEF Bounded
<1>4. v = [s.tabs EXCEPT ![i] = u]
  BY <1>2 DEF ClosedAt
<1>5. /\ v \in Seq(Tab) /\ DOMAIN v = DOMAIN s.tabs /\ Len(v) = Len(s.tabs) /\ v[i] = u
      /\ \A j \in DOMAIN s.tabs \ {i} : v[j] = s.tabs[j]
  BY <1>1, <1>3, <1>4, OneTabReplaced
<1>6. t \in Session
  BY <1>1, <1>5 DEF Session
<1>7. /\ t.tabs = v /\ t.active_tab_id = a
      /\ \A f \in SessionFields \ {"tabs", "active_tab_id"} : t[f] = s[f]
  BY <1>1 DEF SessionFields
<1>8. \A j \in DOMAIN s.tabs : /\ v[j].tab_id = s.tabs[j].tab_id /\ Bounded(v[j])
                               /\ ~s.tabs[j].is_active => v[j] = s.tabs[j]
  <2> SUFFICES ASSUME NEW j \in DOMAIN s.tabs
               PROVE  /\ v[j].tab_id = s.tabs[j].tab_id /\ Bounded(v[j])
                      /\ ~s.tabs[j].is_active => v[j] = s.tabs[j]
    OBVIOUS
  <2>1. CASE j = i
    BY <1>3, <1>5, <2>1
  <2>2. CASE j # i
    BY <1>5, <2>2 DEF TabsOK
  <2>. QED
    BY <2>1, <2>2
<1>9. ActiveTabs(t) \subseteq ActiveTabs(s)
  BY <1>3, <1>5, <1>7 DEF ActiveTabs
<1>10. Cardinality(ActiveTabs(t)) <= t.max_concurrent_tabs
  <2>1. Cardinality(ActiveTabs(t)) <= Cardinality(ActiveTabs(s))
    BY <1>1, <1>9, ActiveFinite, FS_Subset
  <2>2. Cardinality(ActiveTabs(t)) \in Nat /\ Cardinality(ActiveTabs(s)) \in Nat
    BY <1>1, <1>6, ActiveFinite
  <2>3. t.max_concurrent_tabs = s.max_concurrent_tabs /\ s.max_concurrent_tabs \in Nat
    BY <1>1, <1>7, SessionFacts DEF SessionFields
  <2>. QED
    BY <2>1, <2>2, <2>3 DEF TabsOK
<1>11. PagesCounted(t)
  <2>1. Loads(v) = Loads(s.tabs)
    <3>1. Loads(v) = Loads(s.tabs) + (u.page_loads - s.tabs[i].page_loads)
      BY <1>1, <1>3, <1>4, LoadsChange
    <3>2. u.page_loads \in Nat /\ Loads(s.tabs) \in Int
      BY <1>1, <1>3, LoadsNat, TabFacts
    <3>. QED
      BY <1>3, <3>1, <3>2
  <2>2. t.page_count = s.page_count
    BY <1>7 DEF SessionFields
  <2>. QED
    BY <1>7, <2>1, <2>2 DEF PagesCounted, TabsOK
<1>12. DistinctIds(t)
  <2>1. t.next_tab_id = s.next_tab_id
    BY <1>7 DEF SessionFields
  <2>. QED
    BY <1>5, <1>7, <1>8, <2>1 DEF DistinctIds, TabsOK
<1>13. ClosedKept(s, t)
  BY <1>5, <1>7, <1>8 DEF ClosedKept
<1>14. t.tab_capacity = s.tab_capacity /\ Frame(s, t)
  BY <1>7 DEF Frame, SessionFields
<1>. QED
  BY <1>5, <1>6, <1>7, <1>8, <1>10, <1>11, <1>12, <1>13, <1>14 DEF Evolves, TabsOK

LEMMA CloseTabEvolves ==
    ASSUME NEW s, TabsOK(s), NEW id
    PROVE  Evolves(s, CloseTab(s, id))
<1>1. PICK i : i = FindTab(s, id)
  OBVIOUS
<1>2. CASE i = 0
  BY <1>1, <1>2, EvolvesSame DEF CloseTab
<1>3. CASE i # 0
  <2>1. /\ s \in Session /\ s.tabs \in Seq(Tab) /\ s.active_tab_id \in Nat \cup {-1}
        /\ DOMAIN s = SessionFields /\ \A j \in DOMAIN s.tabs : s.tabs[j] \in Tab
    BY SessionFacts, SessionDomain DEF TabsOK
  <2>2. i \in DOMAIN s.tabs /\ s.tabs[i].tab_id = id
    BY <1>1, <1>3, <2>1, FindTabFacts
  <2>3. PICK v, t, closed :
            /\ v = ClosedAt(s.tabs, i)
            /\ t = CloseTab(s, id)
            /\ closed = [s EXCEPT !.tabs[i].is_active = FALSE]
    OBVIOUS
  <2>4. closed = [s EXCEPT !.tabs = v]
    BY <2>3 DEF ClosedAt
  <2>5. /\ v \in Seq(Tab) /\ DOMAIN v = DOMAIN s.tabs /\ ~v[i].is_active
        /\ \A j \in DOMAIN s.tabs \ {i} : v[j] = s.tabs[j]
        /\ \A j \in DOMAIN s.tabs : v[j] \in Tab
    <3>1. PICK u : u = [s.tabs[i] EXCEPT !.is_active = FALSE]
      OBVIOUS
    <3>2. u \in Tab /\ ~u.is_active
      BY <2>1, <2>2, <3>1 DEF Tab
    <3>3. v = [s.tabs EXCEPT ![i] = u]
      BY <2>3, <3>1 DEF ClosedAt
    <3>. QED
      BY <2>1, <2>2, <3>2, <3>3
  <2>6. CASE s.active_tab_id # id
    <3>1. t = [s EXCEPT !.tabs = v, !.active_tab_id = s.active_tab_id]
      <4>1. t = closed
        BY <1>1, <1>3, <2>3, <2>6 DEF CloseTab
      <4>. QED
        BY <2>1, <2>4, <4>1 DEF SessionFields
    <3>2. t.tabs = v /\ t.active_tab_id = s.active_tab_id
      BY <2>1, <3>1 DEF SessionFields
    <3>3. ActiveIsOpen(t)
      BY <2>2, <2>5, <2>6, <3>2 DEF ActiveIsOpen, ActiveTabs, TabsOK
    <3>. QED
      BY <2>1, <2>2, <2>3, <3>1, <3>3, ClosingFacts
  <2>7. CASE s.active_tab_id = id
    <3>1. PICK last : last = LastOpen(v)
      OBVIOUS
    <3>2. PICK a : a = IF last = 0 THEN -1 ELSE v[last].tab_id
      OBVIOUS
    <3>3. closed.tabs = v
      BY <2>1, <2>4 DEF SessionFields
    <3>4. t = [closed EXCEPT !.active_tab_id = a]
      <4>1. t = [closed EXCEPT !.active_tab_id =
                     IF LastOpen(closed.tabs) = 0 THEN -1
                     ELSE closed.tabs[LastOpen(closed.tabs)].tab_id]
        BY <1>1, <1>3, <2>3, <2>7 DEF CloseTab, LastOpen
      <4>. QED
        BY <3>1, <3>2, <3>3, <4>1
    <3>5. t = [s EXCEPT !.tabs = v, !.active_tab_id = a]
      BY <2>1, <2>4, <3>4 DEF SessionFields
    <3>6. t.tabs = v /\ t.active_tab_id = a
      BY <2>1, <3>5 DEF SessionFields
    <3>7. \/ last = 0 /\ \A j \in DOMAIN v : ~v[j].is_active
          \/ last \in DOMAIN v /\ v[last].is_active
      BY <2>5, <3>1, LastOpenFacts
    <3>8. a \in Nat \cup {-1} /\ ActiveIsOpen(t)
      <4>1. CASE last = 0 /\ \A j \in DOMAIN v : ~v[j].is_active
        BY <3>2, <3>6, <4>1 DEF ActiveIsOpen, ActiveTabs
      <4>2. CASE last # 0 /\ last \in DOMAIN v /\ v[last].is_active
        <5>1. v[last].tab_id \in Nat \ {0} /\ a = v[last].tab_id
          BY <2>5, <3>2, <4>2, TabFacts
        <5>. QED
          BY <3>6, <4>2, <5>1 DEF ActiveIsOpen, ActiveTabs
      <4>3. 0 \notin DOMAIN v
        BY <2>1, <2>5
      <4>. QED
        BY <3>7, <4>1, <4>2, <4>3
    <3>. QED
      BY <2>1, <2>2, <2>3, <3>5, <3>8, ClosingFacts
  <2>. QED
    BY <2>6, <2>7
<1>. QED
  BY <1>2, <1>3

LEMMA SwitchEvolves ==
    ASSUME NEW s, TabsOK(s), NEW id \in Nat \ {0}
    PROVE  Evolves(s, Switch(s, id))
<1>1. PICK i, t : i = FindTab(s, id) /\ t = Switch(s, id)
  OBVIOUS
<1>2. CASE t = s
  BY <1>1, <1>2, EvolvesSame
<1>3. CASE t # s
  <2>1. /\ i # 0 /\ s.tabs[i].is_active
        /\ t = [s EXCEPT !.active_tab_id = id, !.tab_switches = @ + 1]
    BY <1>1, <1>3 DEF Switch
  <2>2. PICK n : n = s.tab_switches + 1
    OBVIOUS
  <2>3. s \in Session /\ n \in Nat /\ DOMAIN s = SessionFields
    BY <2>2, SessionFacts, SessionDomain DEF TabsOK
  <2>4. i \in DOMAIN s.tabs /\ s.tabs[i].tab_id = id
    BY <1>1, <2>1, FindTabFacts, SessionFacts DEF TabsOK
  <2>5. t = [s EXCEPT !.active_tab_id = id, !.tab_switches = n]
    BY <2>1, <2>2
  <2>6. t \in Session
    BY <2>3, <2>5 DEF Session
  <2>7. /\ t.active_tab_id = id
        /\ \A f \in SessionFields \ {"active_tab_id", "tab_switches"} : t[f] = s[f]
    BY <2>3, <2>5 DEF SessionFields
  <2>8. /\ t.tabs = s.tabs /\ t.tab_capacity = s.tab_capacity /\ t.next_tab_id = s.next_tab_id
        /\ t.page_count = s.page_count /\ t.max_concurrent_tabs = s.max_concurrent_tabs
        /\ Frame(s, t)
    BY <2>7 DEF SessionFields, Frame
  <2>9. ActiveTabs(t) = ActiveTabs(s) /\ i \in ActiveTabs(s)
    BY <2>1, <2>4, <2>8 DEF ActiveTabs
  <2>10. ActiveIsOpen(t)
    BY <2>4, <2>7, <2>8, <2>9 DEF ActiveIsOpen
  <2>11. DistinctIds(t) /\ PagesCounted(t) /\ ClosedKept(s, t)
    BY <2>8 DEF TabsOK, DistinctIds, PagesCounted, ClosedKept
  <2>. QED
    BY <1>1, <2>6, <2>8, <2>9, <2>10, <2>11 DEF TabsOK, Evolves
<1>. QED
  BY <1>2, <1>3

LEMMA OpenEvolves ==
    ASSUME NEW s, TabsOK(s), NEW url \in Url, NEW t \in Open(s, url)
    PROVE  Evolves(s, t)
<1>1. HasTabRoom(s) /\ t \in Load(WithNewTab(s), Len(s.tabs) + 1, url)
  BY DEF Open
<1>2. PICK n, i : n = WithNewTab(s) /\ i = Len(s.tabs) + 1
  OBVIOUS
<1>3. Evolves(s, n) /\ i \in ActiveTabs(n) /\ t \in Load(n, i, url)
  BY <1>1, <1>2, NewTabEvolves
<1>4. TabsOK(n)
  BY <1>3 DEF Evolves
<1>5. Evolves(n, t)
  BY <1>3, <1>4, LoadEvolves
<1>. QED
  BY <1>3, <1>5, EvolvesTrans

LEMMA NavigateEvolves ==
    ASSUME NEW s, TabsOK(s), NEW url \in Url, NEW t \in Navigate(s, url)
    PROVE  Evolves(s, t)
<1>1. CASE ActiveTab(s) # 0
  <2>1. PICK i : i = ActiveTab(s)
    OBVIOUS
  <2>2. i \in ActiveTabs(s) /\ t \in Load(s, i, url)
    BY <1>1, <2>1, ActiveTabFacts DEF Navigate, TabsOK
  <2>. QED
    BY <2>2, LoadEvolves
<1>2. CASE ActiveTab(s) = 0
  BY <1>2, OpenEvolves DEF Navigate
<1>. QED
  BY <1>1, <1>2

\* An event, as the drivers make them.
IsEvent(e) == e.type \in Types /\ e.tab_id \in Nat \ {0} /\ e.url \in Url

\* Whatever an event does to a session, handled or refused, its tabs stay in order.
LEMMA EventEvolves ==
    ASSUME NEW s, TabsOK(s), NEW e, IsEvent(e), NEW t \in Handled(s, e) \cup Refused(s, e)
    PROVE  Evolves(s, t)
<1>1. e.type \in Types /\ e.tab_id \in Nat \ {0} /\ e.url \in Url
  BY DEF IsEvent
<1>2. CASE t \in Refused(s, e)
  BY <1>2, NoTabEvolves DEF Refused
<1>3. CASE t \in Handled(s, e)
  <2>1. CASE e.type = "OPEN"
    BY <1>1, <1>3, <2>1, OpenEvolves DEF Handled
  <2>2. CASE e.type = "CLOSE"
    <3>1. t = Close(s, e.tab_id)
      BY <1>3, <2>2 DEF Handled
    <3>. QED
      BY <3>1, CloseTabEvolves, EvolvesSame DEF Close
  <2>3. CASE e.type = "NAVIGATE"
    BY <1>1, <1>3, <2>3, NavigateEvolves DEF Handled
  <2>4. CASE e.type = "SWITCH"
    BY <1>1, <1>3, <2>4, SwitchEvolves DEF Handled
  <2>5. CASE e.type = "RELOAD"
    BY <1>3, <2>5, ReloadEvolves DEF Handled
  <2>6. CASE e.type = "BACK"
    <3>1. t = InActiveTab(s, TabGoBack)
      BY <1>3, <2>6 DEF Handled
    <3>. QED
      BY <3>1, MoveEvolves
  <2>7. CASE e.type = "FORWARD"
    <3>1. t = InActiveTab(s, TabGoForward)
      BY <1>3, <2>7 DEF Handled
    <3>. QED
      BY <3>1, MoveEvolves
  <2>. QED
    BY <1>1, <2>1, <2>2, <2>3, <2>4, <2>5, <2>6, <2>7 DEF Types
<1>. QED
  BY <1>2, <1>3

-----------------------------------------------------------------------------
(* The state machine of a session: its transitions are counted.            *)

IntoOf(s, x)  == [y \in States |-> s.transitions[<<y, x>>]]
OutOfOf(s, x) == [y \in States |-> s.transitions[<<x, y>>]]

Is(x, y) == IF x = y THEN 1 ELSE 0

\* Every state but the first and the last is entered as often as it is left.
StatesCounted(s) ==
    \A x \in States :
        SumOf(IntoOf(s, x), States) - SumOf(OutOfOf(s, x), States) = Is(x, s.state) - Is(x, "ACTIVE")

\* A session's tabs, times and transitions.
SessionOK(s) == TabsOK(s) /\ s.start_time <= s.end_time /\ StatesCounted(s)

Timed(s) == s.duration = Minutes(WholeSeconds(s))

\* The minutes of a number of seconds, by the largest of the floats up to it.
LEMMA MinutesFacts ==
    ASSUME NEW n \in Nat
    PROVE  /\ Minutes(n) \in MinuteFloats /\ Minutes(n) \in Nat /\ Minutes(n) <= n
           /\ \A f \in MinuteFloats : f <= n => f <= Minutes(n)
<1>1. PICK F : F = {f \in MinuteFloats : f <= n}
  OBVIOUS
<1>2. F \in SUBSET (0 .. n) /\ F # {} /\ F \subseteq MinuteFloats /\ MinuteFloats \subseteq Nat
  <2>1. MinuteFloats \subseteq Nat /\ 0 \in MinuteFloats
    BY TrackerAssumption
  <2>2. \A f : f \in F <=> f \in MinuteFloats /\ f <= n
    BY <1>1
  <2>3. \A f \in MinuteFloats : f \in Nat
    BY <2>1
  <2>4. 0 \in F
    BY <2>1, <2>2
  <2>5. \A f \in F : f \in 0 .. n
    BY <2>2, <2>3
  <2>. QED
    BY <2>1, <2>2, <2>4, <2>5
<1>3. Max(F) \in F /\ \A f \in F : f <= Max(F)
  BY <1>2, MaxFacts
<1>4. PICK m : m = Max(F)
  OBVIOUS
<1>5. m \in F /\ (\A f \in F : f <= m) /\ Minutes(n) = m
  BY <1>1, <1>3, <1>4 DEF Minutes
<1>. QED
  BY <1>1, <1>2, <1>5

LEMMA WholeSecondsNat ==
    ASSUME NEW x \in Nat
    PROVE  x \div Second \in Nat
BY TrackerAssumption

LEMMA StatesFinite == IsFiniteSet(States)
<1>1. IsFiniteSet({"RAPID_FIRE"})
  BY FS_Singleton
<1>2. IsFiniteSet({"RAPID_FIRE"} \cup {"DEEP_BROWSE"})
  BY <1>1, FS_AddElement
<1>3. IsFiniteSet({"RAPID_FIRE"} \cup {"DEEP_BROWSE"} \cup {"ACTIVE"})
  BY <1>2, FS_AddElement
<1>4. IsFiniteSet({"RAPID_FIRE"} \cup {"DEEP_BROWSE"} \cup {"ACTIVE"} \cup {"IDLE"})
  BY <1>3, FS_AddElement
<1>5. States = {"RAPID_FIRE"} \cup {"DEEP_BROWSE"} \cup {"ACTIVE"} \cup {"IDLE"}
  BY DEF States
<1>. QED
  BY <1>4, <1>5

LEMMA CountsTyped ==
    ASSUME NEW s \in Session, NEW x \in States
    PROVE  \A y \in States : /\ IntoOf(s, x)[y] = s.transitions[<<y, x>>] /\ IntoOf(s, x)[y] \in Nat
                             /\ OutOfOf(s, x)[y] = s.transitions[<<x, y>>] /\ OutOfOf(s, x)[y] \in Nat
<1>1. s.transitions \in [States \X States -> Nat]
  BY SessionFacts
<1>. QED
  BY <1>1 DEF IntoOf, OutOfOf

\* t has one transition more, from the state of s to the new one.
OneMore(s, t, new) == t.transitions = [s.transitions EXCEPT ![<<s.state, new>>] = @ + 1]

LEMMA TransitedCounts ==
    ASSUME NEW s \in Session, StatesCounted(s), NEW new \in States, new # s.state, NEW t \in Session,
           t.state = new, OneMore(s, t, new)
    PROVE  StatesCounted(t)
<1> SUFFICES ASSUME NEW x \in States
             PROVE  SumOf(IntoOf(t, x), States) - SumOf(OutOfOf(t, x), States)
                      = Is(x, t.state) - Is(x, "ACTIVE")
  BY DEF StatesCounted
<1>1. PICK old : old = s.state
  OBVIOUS
<1>2. PICK i, j, f, h : /\ f = IntoOf(s, x) /\ h = IntoOf(t, x)
                        /\ i = OutOfOf(s, x) /\ j = OutOfOf(t, x)
  OBVIOUS
<1>3. old \in States /\ s.transitions \in [States \X States -> Nat]
  BY <1>1, SessionFacts
<1>4. \A y, z \in States : t.transitions[<<y, z>>] =
          IF y = old /\ z = new THEN s.transitions[<<y, z>>] + 1 ELSE s.transitions[<<y, z>>]
  BY <1>1, <1>3 DEF OneMore
<1>5. \A y \in States : /\ f[y] = s.transitions[<<y, x>>] /\ f[y] \in Int
                        /\ h[y] = t.transitions[<<y, x>>] /\ h[y] \in Int
                        /\ i[y] = s.transitions[<<x, y>>] /\ i[y] \in Int
                        /\ j[y] = t.transitions[<<x, y>>] /\ j[y] \in Int
  <2>1. \A y \in States : /\ f[y] = s.transitions[<<y, x>>] /\ f[y] \in Nat
                          /\ i[y] = s.transitions[<<x, y>>] /\ i[y] \in Nat
    BY <1>2, CountsTyped
  <2>2. \A y \in States : /\ h[y] = t.transitions[<<y, x>>] /\ h[y] \in Nat
                          /\ j[y] = t.transitions[<<x, y>>] /\ j[y] \in Nat
    BY <1>2, CountsTyped
  <2>. QED
    BY <2>1, <2>2
<1>6. /\ x = new  => h[old] = f[old] + 1 /\ \A y \in States \ {old} : f[y] = h[y]
      /\ x # new  => \A y \in States : f[y] = h[y]
      /\ x = old  => j[new] = i[new] + 1 /\ \A y \in States \ {new} : i[y] = j[y]
      /\ x # old  => \A y \in States : i[y] = j[y]
  <2>1. ASSUME NEW y \in States
        PROVE  /\ h[y] = IF y = old /\ x = new THEN f[y] + 1 ELSE f[y]
               /\ j[y] = IF x = old /\ y = new THEN i[y] + 1 ELSE i[y]
    <3>1. /\ t.transitions[<<y, x>>] =
               IF y = old /\ x = new THEN s.transitions[<<y, x>>] + 1 ELSE s.transitions[<<y, x>>]
          /\ t.transitions[<<x, y>>] =
               IF x = old /\ y = new THEN s.transitions[<<x, y>>] + 1 ELSE s.transitions[<<x, y>>]
      BY <1>4
    <3>. QED
      BY <1>5, <3>1
  <2>. QED
    BY <1>3, <2>1
<1>7. /\ SumOf(f, States) \in Int /\ SumOf(h, States) \in Int
      /\ SumOf(i, States) \in Int /\ SumOf(j, States) \in Int
  BY <1>5, StatesFinite, SumType
<1>8. SumOf(h, States) = SumOf(f, States) + Is(x, new)
  <2>1. CASE x = new
    <3>1. DifferAt(f, h, States, old)
      <4>1. \A y \in States \ {old} : f[y] = h[y]
        BY <1>6, <2>1
      <4>. QED
        BY <1>3, <1>5, <4>1, StatesFinite DEF DifferAt
    <3>2. h[old] - f[old] = 1
      <4>1. h[old] = f[old] + 1
        BY <1>6, <2>1
      <4>2. f[old] \in Int
        BY <1>3, <1>5
      <4>. QED
        BY <4>1, <4>2
    <3>. QED
      BY <2>1, <3>1, <3>2, SumChanges DEF Is
  <2>2. CASE x # new
    <3>1. \A y \in States : f[y] \in Int /\ f[y] = h[y]
      BY <1>5, <1>6, <2>2
    <3>. QED
      BY <1>7, <2>2, <3>1, StatesFinite, SumSame DEF Is
  <2>. QED
    BY <2>1, <2>2
<1>9. SumOf(j, States) = SumOf(i, States) + Is(x, old)
  <2>1. CASE x = old
    <3>1. DifferAt(i, j, States, new)
      <4>1. \A y \in States \ {new} : i[y] = j[y]
        BY <1>6, <2>1
      <4>. QED
        BY <1>3, <1>5, <4>1, StatesFinite DEF DifferAt
    <3>2. j[new] - i[new] = 1
      <4>1. j[new] = i[new] + 1
        BY <1>6, <2>1
      <4>2. i[new] \in Int
        BY <1>3, <1>5
      <4>. QED
        BY <4>1, <4>2
    <3>. QED
      BY <2>1, <3>1, <3>2, SumChanges DEF Is
  <2>2. CASE x # old
    <3>1. \A y \in States : i[y] \in Int /\ i[y] = j[y]
      BY <1>5, <1>6, <2>2
    <3>. QED
      BY <1>7, <2>2, <3>1, StatesFinite, SumSame DEF Is
  <2>. QED
    BY <2>1, <2>2
<1>10. SumOf(f, States) - SumOf(i, States) = Is(x, old) - Is(x, "ACTIVE")
  BY <1>1, <1>2 DEF StatesCounted
<1>11. Is(x, old) \in Int /\ Is(x, new) \in Int /\ Is(x, "ACTIVE") \in Int
  BY DEF Is
<1>. QED
  BY <1>2, <1>7, <1>8, <1>9, <1>10, <1>11

\* The sums of CountedTransitions.
LEMMA IntoIsSum ==
    ASSUME NEW s \in Session, NEW x \in States
    PROVE  MapThenSumSet(LAMBDA y : s.transitions[<<y, x>>], States) = SumOf(IntoOf(s, x), States)
<1> DEFINE f == IntoOf(s, x)
           iter == CHOOSE g : g = [q \in SUBSET States |-> IF q = {} THEN 0
                       ELSE s.transitions[<<CHOOSE z \in q : TRUE, x>>] + g[q \ {CHOOSE z \in q : TRUE}]]
<1>1. MapThenSumSet(LAMBDA y : s.transitions[<<y, x>>], States) = iter[States]
  BY DEF MapThenSumSet, MapThenFoldSet
<1> HIDE DEF iter
<1>0. f = IntoOf(s, x)
  OBVIOUS
<1> HIDE DEF f
<1>2. \A y \in States : f[y] = s.transitions[<<y, x>>] /\ f[y] \in Int
  <2>1. \A y \in States : IntoOf(s, x)[y] = s.transitions[<<y, x>>] /\ IntoOf(s, x)[y] \in Nat
    BY CountsTyped
  <2>. QED
    BY <1>0, <2>1
<1> USE DEF iter
<1>3. PICK g : Partial(g, f, States)
  BY <1>2, StatesFinite, PartialExists
<1>4. \A q \in SUBSET States : q # {} => f[First(q)] = s.transitions[<<First(q), x>>]
  BY <1>2, FirstIn
<1>5. g = [q \in SUBSET States |-> IF q = {} THEN 0
               ELSE s.transitions[<<CHOOSE z \in q : TRUE, x>>] + g[q \ {CHOOSE z \in q : TRUE}]]
  BY <1>3, <1>4 DEF Partial, First
<1>6. iter = [q \in SUBSET States |-> IF q = {} THEN 0
                  ELSE s.transitions[<<CHOOSE z \in q : TRUE, x>>] + iter[q \ {CHOOSE z \in q : TRUE}]]
  BY <1>5
<1> HIDE DEF iter
<1>7. Iterates(iter, f, States)
  BY <1>4, <1>6 DEF Iterates, First
<1>8. iter[States] = SumOf(f, States)
  BY <1>2, <1>7, StatesFinite, IterIsSum
<1>. QED
  BY <1>1, <1>8 DEF f

LEMMA OutOfIsSum ==
    ASSUME NEW s \in Session, NEW x \in States
    PROVE  MapThenSumSet(LAMBDA y : s.transitions[<<x, y>>], States) = SumOf(OutOfOf(s, x), States)
<1> DEFINE f == OutOfOf(s, x)
           iter == CHOOSE g : g = [q \in SUBSET States |-> IF q = {} THEN 0
                       ELSE s.transitions[<<x, CHOOSE z \in q : TRUE>>] + g[q \ {CHOOSE z \in q : TRUE}]]
<1>1. MapThenSumSet(LAMBDA y : s.transitions[<<x, y>>], States) = iter[States]
  BY DEF MapThenSumSet, MapThenFoldSet
<1> HIDE DEF iter
<1>0. f = OutOfOf(s, x)
  OBVIOUS
<1> HIDE DEF f
<1>2. \A y \in States : f[y] = s.transitions[<<x, y>>] /\ f[y] \in Int
  <2>1. \A y \in States : OutOfOf(s, x)[y] = s.transitions[<<x, y>>] /\ OutOfOf(s, x)[y] \in Nat
    BY CountsTyped
  <2>. QED
    BY <1>0, <2>1
<1> USE DEF iter
<1>3. PICK g : Partial(g, f, States)
  BY <1>2, StatesFinite, PartialExists
<1>4. \A q \in SUBSET States : q # {} => f[First(q)] = s.transitions[<<x, First(q)>>]
  BY <1>2, FirstIn
<1>5. g = [q \in SUBSET States |-> IF q = {} THEN 0
               ELSE s.transitions[<<x, CHOOSE z \in q : TRUE>>] + g[q \ {CHOOSE z \in q : TRUE}]]
  BY <1>3, <1>4 DEF Partial, First
<1>6. iter = [q \in SUBSET States |-> IF q = {} THEN 0
                  ELSE s.transitions[<<x, CHOOSE z \in q : TRUE>>] + iter[q \ {CHOOSE z \in q : TRUE}]]
  BY <1>5
<1> HIDE DEF iter
<1>7. Iterates(iter, f, States)
  BY <1>4, <1>6 DEF Iterates, First
<1>8. iter[States] = SumOf(f, States)
  BY <1>2, <1>7, StatesFinite, IterIsSum
<1>. QED
  BY <1>1, <1>8 DEF f

LEMMA NextState ==
    ASSUME NEW s \in Session, NEW timestamp \in Int, NEW type
    PROVE  StateTransition(s, timestamp, type) \in States
<1>1. s.state \in States /\ timestamp - s.end_time \in Int /\ Gap \in Nat
  BY SessionFacts, TrackerAssumption
<1>2. timestamp - s.end_time > Gap \/ timestamp - s.end_time <= Gap
  BY <1>1
<1>. QED
  BY <1>1, <1>2 DEF StateTransition, States

\* What an event that was handled does last, to the session and nothing to its tabs.
LEMMA ConcludedFacts ==
    ASSUME NEW s, SessionOK(s), NEW timestamp \in Int, NEW type
    PROVE  LET done == Concluded(s, timestamp, type)
           IN /\ SessionOK(done)
              /\ done.start_time = s.start_time /\ done.tabs = s.tabs
              /\ done.end_time = IF timestamp > s.end_time THEN timestamp ELSE s.end_time
<1>1. PICK e, n, new : /\ n = IF timestamp > s.end_time THEN timestamp ELSE s.end_time
                       /\ e = Extended(s, timestamp)
                       /\ new = StateTransition(e, timestamp, type)
  OBVIOUS
<1>2. PICK d : d = Concluded(s, timestamp, type)
  OBVIOUS
<1>3. s \in Session /\ TabsOK(s) /\ DOMAIN s = SessionFields /\ StatesCounted(s)
      /\ s.start_time \in Int /\ s.end_time \in Int /\ s.start_time <= s.end_time
  BY SessionDomain, SessionFacts DEF SessionOK, TabsOK
<1>4. n \in Int /\ s.start_time <= n
  BY <1>1, <1>3
<1>5. e = [s EXCEPT !.end_time = n]
  BY <1>1 DEF Extended
<1>6. e \in Session
  BY <1>3, <1>4, <1>5 DEF Session
<1>7. /\ e.end_time = n /\ DOMAIN e = SessionFields
      /\ \A f \in SessionFields \ {"end_time"} : e[f] = s[f]
  BY <1>3, <1>5 DEF SessionFields
<1>8. new \in States
  BY <1>1, <1>6, NextState
<1>9. StatesCounted(e)
  BY <1>3, <1>7 DEF StatesCounted, IntoOf, OutOfOf, SessionFields
<1>10. /\ d \in Session /\ StatesCounted(d) /\ d.end_time = n
       /\ \A f \in SessionFields \ {"end_time", "state", "transitions"} : d[f] = s[f]
  <2>1. CASE new = e.state
    BY <1>1, <1>2, <1>6, <1>7, <1>9, <2>1 DEF Concluded, Transited
  <2>2. CASE new # e.state
    <3>1. PICK c : c = [e.transitions EXCEPT ![<<e.state, new>>] = @ + 1]
      OBVIOUS
    <3>2. c \in [States \X States -> Nat]
      <4>1. e.transitions \in [States \X States -> Nat] /\ <<e.state, new>> \in States \X States
        BY <1>6, <1>8, SessionFacts
      <4>2. e.transitions[<<e.state, new>>] + 1 \in Nat
        BY <4>1
      <4>. QED
        BY <3>1, <4>1, <4>2
    <3>3. d = [e EXCEPT !.transitions = c, !.state = new]
      BY <1>1, <1>2, <2>2, <3>1 DEF Concluded, Transited
    <3>4. d \in Session
      BY <1>6, <1>8, <3>2, <3>3 DEF Session
    <3>5. /\ d.transitions = c /\ d.state = new /\ d.end_time = n
          /\ \A f \in SessionFields \ {"end_time", "state", "transitions"} : d[f] = s[f]
      BY <1>7, <3>3 DEF SessionFields
    <3>6. StatesCounted(d)
      BY <1>6, <1>8, <1>9, <2>2, <3>1, <3>4, <3>5, TransitedCounts DEF OneMore
    <3>. QED
      BY <3>4, <3>5, <3>6
  <2>. QED
    BY <2>1, <2>2
<1>11. /\ d.start_time = s.start_time /\ d.tabs = s.tabs /\ d.tab_capacity = s.tab_capacity
       /\ d.active_tab_id = s.active_tab_id /\ d.next_tab_id = s.next_tab_id
       /\ d.page_count = s.page_count /\ d.max_concurrent_tabs = s.max_concurrent_tabs
  BY <1>10 DEF SessionFields
<1>12. TabsOK(d)
  <2>1. ActiveTabs(d) = ActiveTabs(s)
    BY <1>11 DEF ActiveTabs
  <2>. QED
    BY <1>3, <1>10, <1>11, <2>1 DEF TabsOK, DistinctIds, ActiveIsOpen, PagesCounted
<1>. QED
  BY <1>1, <1>2, <1>4, <1>10, <1>11, <1>12 DEF SessionOK

\* A session that has just been created.
LEMMA CreatedOK ==
    ASSUME NEW timestamp \in Int
    PROVE  SessionOK(SessionCreate(timestamp))
<1>1. PICK s, c : s = SessionCreate(timestamp) /\ c = [p \in States \X States |-> 0]
  OBVIOUS
<1>2. /\ TabCapacity \in 1..MaxTabs /\ TabCapacity \in Nat
      /\ c \in [States \X States -> Nat] /\ "ACTIVE" \in States
  BY <1>1, TrackerAssumption DEF States
<1>3. s \in Session
  BY <1>1, <1>2 DEF SessionCreate, Session
<1>4. /\ s.tabs = <<>> /\ s.active_tab_id = -1 /\ s.next_tab_id = 1 /\ s.page_count = 0
      /\ s.max_concurrent_tabs = 0 /\ s.tab_capacity = TabCapacity /\ s.state = "ACTIVE"
      /\ s.start_time = s.end_time /\ s.end_time \in Int /\ s.transitions = c
  BY <1>1 DEF SessionCreate
<1>5. DOMAIN s.tabs = {} /\ Len(s.tabs) = 0 /\ s.tabs \in Seq(Tab)
  BY <1>4
<1>6. ActiveTabs(s) = {} /\ Cardinality(ActiveTabs(s)) = 0
  BY <1>5, FS_EmptySet DEF ActiveTabs
<1>7. Loads(s.tabs) = 0
  BY <1>5, SumEmpty DEF Loads
<1>8. TabsOK(s)
  BY <1>2, <1>3, <1>4, <1>5, <1>6, <1>7 DEF TabsOK, DistinctIds, ActiveIsOpen, PagesCounted
<1>9. StatesCounted(s)
  <2> SUFFICES ASSUME NEW x \in States
               PROVE  SumOf(IntoOf(s, x), States) - SumOf(OutOfOf(s, x), States)
                        = Is(x, s.state) - Is(x, "ACTIVE")
    BY DEF StatesCounted
  <2>1. \A y \in States : IntoOf(s, x)[y] = 0 /\ OutOfOf(s, x)[y] = 0
    BY <1>1, <1>4 DEF IntoOf, OutOfOf
  <2>2. SumOf(IntoOf(s, x), States) = 0 /\ SumOf(OutOfOf(s, x), States) = 0
    BY <2>1, StatesFinite, SumZero
  <2>. QED
    BY <1>4, <2>2 DEF Is
<1>. QED
  BY <1>1, <1>4, <1>8, <1>9 DEF SessionOK

\* What an event does to the session it belongs to.
LEMMA EventOK ==
    ASSUME NEW s, SessionOK(s), NEW e, IsEvent(e), NEW t \in Handled(s, e) \cup Refused(s, e)
    PROVE  SessionOK(t) /\ Frame(s, t) /\ ClosedKept(s, t)
<1>1. TabsOK(t) /\ Frame(s, t) /\ ClosedKept(s, t)
  BY EventEvolves DEF SessionOK, Evolves
<1>2. StatesCounted(t)
  BY <1>1 DEF SessionOK, StatesCounted, Frame, IntoOf, OutOfOf
<1>. QED
  BY <1>1, <1>2 DEF SessionOK, Frame

-----------------------------------------------------------------------------
(* The inductive invariant of the tracker.                                 *)

SeenEvent == [time : Int, session : Nat \ {0}]

TrackerOK ==
    /\ sessions \in Seq(Session)
    /\ \A k \in DOMAIN sessions : SessionOK(sessions[k])
    /\ session_capacity \in 1..MaxSessions /\ Len(sessions) <= session_capacity
    /\ current_state \in States
    /\ sessions # <<>> => current_state = Last(sessions).state
    /\ last_event_time \in Int

DriverOK ==
    /\ driver \in Drivers
    /\ clock \in Nat /\ events \in Nat
    /\ finished \in BOOLEAN
    /\ todo \subseteq [id : Nat, raw : Int, url : Urls]
    /\ seen \in Seq(SeenEvent) /\ Len(seen) <= events

\* Every session but the last has its duration, and the last one once all is analyzed.
DurationsOK ==
    /\ \A k \in DOMAIN sessions : k < Len(sessions) => Timed(sessions[k])
    /\ ~finished => summary = NoSummary
    /\ (driver = "analyze" /\ finished) => todo = {}

\* The events of q that come after a gap, and those among them up to event i.
After(q) == {i \in DOMAIN q : \A j \in 1 .. i - 1 : q[i].time - q[j].time > Gap}

UpTo(q, i) == {g \in After(q) : g <= i}

\* Session k of the events q reaches from its first event to its latest.
Spans(q, k, s) ==
    /\ \A i \in DOMAIN q : q[i].session = k => q[i].time <= s.end_time
    /\ \E i \in DOMAIN q : q[i].session = k /\ q[i].time = s.start_time
    /\ \E i \in DOMAIN q : q[i].session = k /\ q[i].time = s.end_time

\* What GroupedByGaps says of the events q and the sessions ss.
Grouped(q, ss) ==
    /\ \A i \in DOMAIN q : q[i].session = Cardinality(UpTo(q, i))
    /\ \A k \in DOMAIN ss : Spans(q, k, ss[k])

\* There are as many sessions as gaps, and the end of the last one is the latest of
\* all times: comparing with it alone is then comparing with every event before.
Orderly(q, ss) ==
    /\ ss = <<>> <=> q = <<>>
    /\ Len(ss) = Cardinality(After(q))
    /\ \A i \in DOMAIN q : /\ q[i].session \in DOMAIN ss
                           /\ q[i].time <= ss[Len(ss)].end_time

\* No event has been refused.
NoneRefused == Len(seen) = events

IInv == /\ TrackerOK /\ DriverOK /\ DurationsOK /\ LongestOfAll
        /\ NoneRefused => Grouped(seen, sessions) /\ Orderly(seen, sessions)

-----------------------------------------------------------------------------
(* The session an event belongs to.                                        *)

LEMMA LastFacts ==
    ASSUME NEW S, NEW q \in Seq(S), q # <<>>
    PROVE  /\ Len(q) \in Nat \ {0} /\ DOMAIN q = 1 .. Len(q) /\ Len(q) \in DOMAIN q
           /\ Last(q) = q[Len(q)] /\ Last(q) \in S
<1>1. Len(q) # 0 /\ Len(q) \in Nat
  BY EmptySeq
<1>2. Len(q) \in 1 .. Len(q) /\ DOMAIN q = 1 .. Len(q)
  BY <1>1
<1>. QED
  BY <1>1, <1>2 DEF Last

\* The duration of a session is set, and nothing else of it.
LEMMA DurationSet ==
    ASSUME NEW s, SessionOK(s), NEW d, d = Minutes(WholeSeconds(s)),
           NEW u, u = [s EXCEPT !.duration = d]
    PROVE  /\ SessionOK(u) /\ Timed(u)
           /\ u.tabs = s.tabs /\ u.state = s.state
           /\ u.start_time = s.start_time /\ u.end_time = s.end_time
<1>1. /\ s \in Session /\ DOMAIN s = SessionFields /\ s.start_time \in Int /\ s.end_time \in Int
      /\ s.start_time <= s.end_time
  BY SessionDomain, SessionFacts DEF SessionOK, TabsOK
<1>2. d \in Nat
  <2>1. PICK x : x = s.end_time - s.start_time
    OBVIOUS
  <2>2. x \in Nat
    BY <1>1, <2>1
  <2>3. WholeSeconds(s) \in Nat
    BY <2>1, <2>2, WholeSecondsNat DEF WholeSeconds
  <2>. QED
    BY <2>3, MinutesFacts
<1>3. u \in Session
  BY <1>1, <1>2 DEF Session
<1>4. u.duration = d /\ \A f \in SessionFields \ {"duration"} : u[f] = s[f]
  BY <1>1 DEF SessionFields
<1>5. /\ u.start_time = s.start_time /\ u.end_time = s.end_time /\ u.state = s.state
      /\ u.tabs = s.tabs /\ u.tab_capacity = s.tab_capacity /\ u.transitions = s.transitions
      /\ u.active_tab_id = s.active_tab_id /\ u.next_tab_id = s.next_tab_id
      /\ u.page_count = s.page_count /\ u.max_concurrent_tabs = s.max_concurrent_tabs
  BY <1>4 DEF SessionFields
<1>6. ActiveTabs(u) = ActiveTabs(s)
  BY <1>5 DEF ActiveTabs
<1>7. TabsOK(u)
  BY <1>3, <1>5, <1>6 DEF SessionOK, TabsOK, DistinctIds, ActiveIsOpen, PagesCounted
<1>8. StatesCounted(u)
  BY <1>5 DEF SessionOK, StatesCounted, IntoOf, OutOfOf
<1>9. WholeSeconds(u) = WholeSeconds(s)
  BY <1>5 DEF WholeSeconds
<1>. QED
  BY <1>1, <1>4, <1>5, <1>7, <1>8, <1>9 DEF SessionOK, Timed

\* The sessions of q are those of p with durations set.
Continues(p, q) ==
    /\ q \in Seq(Session) /\ Len(q) >= Len(p)
    /\ \A k \in DOMAIN q : SessionOK(q[k])
    /\ \A k \in DOMAIN p : /\ k \in DOMAIN q
                           /\ q[k].tabs = p[k].tabs /\ q[k].state = p[k].state
                           /\ q[k].start_time = p[k].start_time /\ q[k].end_time = p[k].end_time
                           /\ k < Len(p) => q[k] = p[k]

LEMMA FinalizedFacts ==
    ASSUME TrackerOK
    PROVE  /\ Continues(sessions, Finalized) /\ Len(Finalized) = Len(sessions)
           /\ Len(sessions) \in DOMAIN Finalized => Timed(Finalized[Len(sessions)])
<1>1. CASE sessions = <<>>
  <2>1. Finalized = <<>> /\ DOMAIN sessions = {} /\ Finalized \in Seq(Session) /\ DOMAIN Finalized = {}
        /\ Len(Finalized) = Len(sessions) /\ Len(sessions) \in Nat
    BY <1>1 DEF Finalized
  <2>. QED
    BY <2>1 DEF Continues
<1>2. CASE sessions # <<>>
  <2>1. PICK n, s, d, u : /\ n = Len(sessions) /\ s = sessions[n]
                          /\ d = Minutes(WholeSeconds(s)) /\ u = [s EXCEPT !.duration = d]
    OBVIOUS
  <2>2. /\ sessions \in Seq(Session) /\ n \in Nat \ {0} /\ DOMAIN sessions = 1 .. n
        /\ n \in DOMAIN sessions /\ s = Last(sessions) /\ SessionOK(s)
    BY <1>2, <2>1, LastFacts DEF TrackerOK
  <2>3. PICK q : q = Finalized
    OBVIOUS
  <2>4. q = [sessions EXCEPT ![n] = u]
    BY <1>2, <2>1, <2>2, <2>3 DEF Finalized, WholeSeconds
  <2>5. /\ SessionOK(u) /\ Timed(u) /\ u.tabs = s.tabs /\ u.state = s.state
        /\ u.start_time = s.start_time /\ u.end_time = s.end_time
    BY <2>1, <2>2, DurationSet
  <2>6. u \in Session
    BY <2>5 DEF SessionOK, TabsOK
  <2>7. /\ q \in Seq(Session) /\ Len(q) = n /\ DOMAIN q = 1 .. n /\ q[n] = u
        /\ \A k \in 1 .. n : k # n => q[k] = sessions[k]
    BY <2>2, <2>4, <2>6
  <2>8. \A k \in DOMAIN q : SessionOK(q[k])
    BY <2>2, <2>5, <2>7 DEF TrackerOK
  <2>9. Continues(sessions, q)
    <3>1. ASSUME NEW k \in 1 .. n
          PROVE  /\ q[k].tabs = sessions[k].tabs /\ q[k].state = sessions[k].state
                 /\ q[k].start_time = sessions[k].start_time
                 /\ q[k].end_time = sessions[k].end_time
                 /\ k < n => q[k] = sessions[k]
      <4>1. CASE k = n
        <5>1. sessions[k] = s
          BY <2>1, <4>1, Zenon
        <5>2. q[k] = u
          BY <2>7, <4>1
        <5>3. ~(k < n)
          BY <2>2, <4>1
        <5>. QED
          BY <2>5, <5>1, <5>2, <5>3
      <4>2. CASE k # n
        BY <2>7, <4>2
      <4>. QED
        BY <4>1, <4>2
    <3>. QED
      BY <2>1, <2>2, <2>7, <2>8, <3>1 DEF Continues
  <2>. QED
    BY <2>1, <2>3, <2>5, <2>7, <2>9
<1>. QED
  BY <1>1, <1>2

LEMMA CurrentFacts ==
    ASSUME TrackerOK, NEW timestamp \in Int
    PROVE  LET current == SessionsFor(timestamp)
               n       == Len(current)
           IN /\ Continues(sessions, current)
              /\ n \in Nat \ {0} /\ n \in DOMAIN current /\ Last(current) = current[n]
              /\ IF NeedsSession(timestamp)
                 THEN /\ n = Len(sessions) + 1 /\ current[n] = SessionCreate(timestamp)
                      /\ n - 1 \in DOMAIN sessions => Timed(current[n - 1])
                 ELSE sessions # <<>> /\ current = sessions
<1>1. PICK current, n, m : /\ current = SessionsFor(timestamp) /\ n = Len(current)
                           /\ m = Len(sessions)
  OBVIOUS
<1>2. m \in Nat /\ sessions \in Seq(Session) /\ DOMAIN sessions = 1 .. m
  BY <1>1 DEF TrackerOK
<1>3. CASE NeedsSession(timestamp)
  <2>1. PICK q, s : q = Finalized /\ s = SessionCreate(timestamp)
    OBVIOUS
  <2>2. Continues(sessions, q) /\ Len(q) = m /\ (m \in DOMAIN q => Timed(q[m]))
    BY <1>1, <2>1, FinalizedFacts
  <2>3. q \in Seq(Session) /\ SessionOK(s) /\ s \in Session /\ DOMAIN q = 1 .. m
    BY <1>2, <2>1, <2>2, CreatedOK DEF Continues, SessionOK, TabsOK
  <2>4. current = Append(q, s)
    BY <1>1, <1>3, <2>1 DEF SessionsFor
  <2>5. /\ current \in Seq(Session) /\ n = m + 1 /\ DOMAIN current = 1 .. n
        /\ current[n] = s /\ \A k \in 1 .. m : current[k] = q[k]
    BY <1>1, <1>2, <2>2, <2>3, <2>4
  <2>6. \A k \in 1 .. n : k = n \/ k \in 1 .. m
    BY <1>2, <2>5
  <2>7. \A k \in DOMAIN current : SessionOK(current[k])
    BY <2>2, <2>3, <2>5, <2>6 DEF Continues
  <2>8. \A k \in 1 .. m : k \in 1 .. n
    BY <1>2, <2>5
  <2>9. Continues(sessions, current)
    BY <1>1, <1>2, <2>2, <2>5, <2>7, <2>8 DEF Continues
  <2>10. n \in Nat \ {0} /\ n \in DOMAIN current /\ Last(current) = current[n]
    BY <1>1, <1>2, <2>5 DEF Last
  <2>11. n - 1 = m
    BY <1>2, <2>5
  <2>12. n - 1 \in DOMAIN sessions => Timed(current[n - 1])
    BY <1>2, <2>2, <2>3, <2>5, <2>11
  <2>. QED
    BY <1>1, <1>3, <2>1, <2>5, <2>9, <2>10, <2>12
<1>4. CASE ~NeedsSession(timestamp)
  <2>1. sessions # <<>> /\ current = sessions
    BY <1>1, <1>4 DEF NeedsSession, SessionsFor
  <2>2. Continues(sessions, sessions)
    BY <1>2 DEF Continues, TrackerOK
  <2>3. n \in Nat \ {0} /\ n \in DOMAIN current /\ Last(current) = current[n]
    BY <1>1, <1>2, <2>1, LastFacts
  <2>. QED
    BY <1>1, <1>4, <2>1, <2>2, <2>3
<1>. QED
  BY <1>3, <1>4

-----------------------------------------------------------------------------
(* What an event does to the tracker, in the terms the proofs need.        *)

\* There is no session for the event.
Rejected(timestamp) ==
    /\ NeedsSession(timestamp)
    /\ sessions' = Finalized
    /\ session_capacity' \in 1..MaxSessions /\ Len(sessions) <= session_capacity'
    /\ UNCHANGED <<current_state, last_event_time, seen>>

\* The session at the end of current becomes u, whether the event counts or not.
Becomes(current, u, timestamp) ==
    LET n == Len(current)
        s == current[n]
    IN /\ sessions' = [current EXCEPT ![n] = u]
       /\ SessionOK(u) /\ u.start_time = s.start_time /\ ClosedKept(s, u)
       /\ current_state' = u.state
       /\ session_capacity' \in 1..MaxSessions /\ n <= session_capacity'
       /\ \/ /\ u.end_time = IF timestamp > s.end_time THEN timestamp ELSE s.end_time
             /\ last_event_time' = timestamp
             /\ seen' = Append(seen, [time |-> timestamp, session |-> n])
          \/ u.end_time = s.end_time /\ UNCHANGED <<last_event_time, seen>>

LEMMA GrownSessionsFacts ==
    ASSUME TrackerOK, HasSessionRoom
    PROVE  /\ GrownSessions \in 1..MaxSessions
           /\ Len(sessions) + 1 <= GrownSessions /\ session_capacity <= GrownSessions
<1>1. /\ session_capacity \in 1..MaxSessions /\ MaxSessions \in Nat /\ Len(sessions) \in Nat
      /\ Len(sessions) <= session_capacity
  BY TrackerAssumption DEF TrackerOK
<1>. QED
  BY <1>1 DEF HasSessionRoom, GrownSessions, Doubled

LEMMA EventStep ==
    ASSUME TrackerOK, NEW e, IsEvent(e), e.timestamp \in Int, ProcessEvent(e)
    PROVE  \E timestamp \in Int :
               \/ Rejected(timestamp)
               \/ \E u : Becomes(SessionsFor(timestamp), u, timestamp)
<1>1. PICK timestamp : timestamp = Effective(e.timestamp)
  OBVIOUS
<1>2. timestamp \in Int
  BY <1>1 DEF Effective, TrackerOK
<1>3. /\ session_capacity \in 1..MaxSessions /\ MaxSessions \in Nat /\ Len(sessions) \in Nat
      /\ Len(sessions) <= session_capacity
  BY TrackerAssumption DEF TrackerOK
<1>4. CASE NoSession(timestamp)
  <2>1. session_capacity' \in 1..MaxSessions /\ Len(sessions) <= session_capacity'
    <3>1. session_capacity' = session_capacity \/ (HasSessionRoom /\ session_capacity' = GrownSessions)
      BY <1>4 DEF NoSession
    <3>2. CASE HasSessionRoom /\ session_capacity' = GrownSessions
      <4>1. /\ GrownSessions \in 1..MaxSessions /\ Len(sessions) + 1 <= GrownSessions
        BY <3>2, GrownSessionsFacts
      <4>. QED
        BY <1>3, <3>2, <4>1
    <3>. QED
      BY <1>3, <3>1, <3>2
  <2>. QED
    BY <1>2, <1>4, <2>1 DEF NoSession, Rejected
<1>5. CASE InSession(e, timestamp)
  <2>1. PICK current, n, s, state :
            /\ current = SessionsFor(timestamp) /\ n = Len(current) /\ s = current[n]
            /\ state = IF NeedsSession(timestamp) THEN "ACTIVE" ELSE current_state
    OBVIOUS
  <2>2. /\ Continues(sessions, current)
        /\ n \in Nat \ {0} /\ n \in DOMAIN current /\ Last(current) = s
        /\ IF NeedsSession(timestamp)
           THEN n = Len(sessions) + 1 /\ s = SessionCreate(timestamp)
           ELSE sessions # <<>> /\ current = sessions
    BY <1>2, <2>1, CurrentFacts
  <2>3. SessionOK(s)
    BY <2>1, <2>2 DEF Continues
  <2>4. s.state = state
    BY <2>1, <2>2 DEF TrackerOK, SessionCreate
  <2>5. session_capacity' \in 1..MaxSessions /\ n <= session_capacity'
    <3>1. CASE NeedsSession(timestamp)
      <4>1. HasSessionRoom /\ session_capacity' = GrownSessions
        BY <1>5, <3>1 DEF InSession
      <4>. QED
        BY <2>2, <3>1, <4>1, GrownSessionsFacts
    <3>2. CASE ~NeedsSession(timestamp)
      <4>1. session_capacity' = session_capacity
        BY <1>5, <3>2 DEF InSession
      <4>. QED
        BY <1>3, <2>1, <2>2, <3>2, <4>1
    <3>. QED
      BY <3>1, <3>2
  <2>6. CASE \E t \in Handled(s, e) :
               LET done == Concluded(t, timestamp, e.type)
               IN /\ sessions' = [current EXCEPT ![n] = done]
                  /\ current_state' = IF done.state = t.state THEN state ELSE done.state
                  /\ last_event_time' = timestamp
                  /\ seen' = Append(seen, [time |-> timestamp, session |-> n])
    <3>1. PICK t \in Handled(s, e) :
               LET done == Concluded(t, timestamp, e.type)
               IN /\ sessions' = [current EXCEPT ![n] = done]
                  /\ current_state' = IF done.state = t.state THEN state ELSE done.state
                  /\ last_event_time' = timestamp
                  /\ seen' = Append(seen, [time |-> timestamp, session |-> n])
      BY <2>6
    <3>2. PICK u : u = Concluded(t, timestamp, e.type)
      OBVIOUS
    <3>3. SessionOK(t) /\ Frame(s, t) /\ ClosedKept(s, t)
      BY <2>3, EventOK
    <3>4. /\ SessionOK(u) /\ u.start_time = t.start_time /\ u.tabs = t.tabs
          /\ u.end_time = IF timestamp > t.end_time THEN timestamp ELSE t.end_time
      BY <1>2, <3>2, <3>3, ConcludedFacts
    <3>5. /\ u.start_time = s.start_time
          /\ u.end_time = IF timestamp > s.end_time THEN timestamp ELSE s.end_time
      BY <3>3, <3>4 DEF Frame
    <3>6. ClosedKept(s, u)
      BY <3>3, <3>4 DEF ClosedKept
    <3>7. current_state' = u.state
      BY <2>4, <3>1, <3>2, <3>3 DEF Frame
    <3>8. Becomes(current, u, timestamp)
      BY <2>1, <2>5, <3>1, <3>2, <3>4, <3>5, <3>6, <3>7 DEF Becomes
    <3>. QED
      BY <1>2, <2>1, <3>8
  <2>7. CASE \E t \in Refused(s, e) :
               /\ sessions' = [current EXCEPT ![n] = t]
               /\ current_state' = state
               /\ UNCHANGED <<last_event_time, seen>>
    <3>1. PICK u \in Refused(s, e) : /\ sessions' = [current EXCEPT ![n] = u]
                                     /\ current_state' = state
                                     /\ UNCHANGED <<last_event_time, seen>>
      BY <2>7
    <3>2. SessionOK(u) /\ Frame(s, u) /\ ClosedKept(s, u)
      BY <2>3, EventOK
    <3>3. u.start_time = s.start_time /\ u.end_time = s.end_time /\ u.state = state
      BY <2>4, <3>2 DEF Frame
    <3>4. Becomes(current, u, timestamp)
      BY <2>1, <2>5, <3>1, <3>2, <3>3 DEF Becomes
    <3>. QED
      BY <1>2, <2>1, <3>4
  <2>. QED
    BY <1>5, <2>1, <2>2, <2>6, <2>7 DEF InSession
<1>. QED
  BY <1>1, <1>4, <1>5 DEF ProcessEvent

\* The sessions after an event.
LEMMA BecomesFacts ==
    ASSUME TrackerOK, NEW timestamp \in Int, NEW u, Becomes(SessionsFor(timestamp), u, timestamp)
    PROVE  LET current == SessionsFor(timestamp)
               n       == Len(current)
           IN /\ sessions' \in Seq(Session) /\ Len(sessions') = n /\ DOMAIN sessions' = 1 .. n
              /\ n \in Nat \ {0} /\ sessions'[n] = u
              /\ \A k \in 1 .. n : /\ SessionOK(sessions'[k])
                                   /\ k # n => sessions'[k] = current[k]
<1>1. PICK current, n : current = SessionsFor(timestamp) /\ n = Len(current)
  OBVIOUS
<1>2. /\ current \in Seq(Session) /\ n \in Nat \ {0} /\ n \in DOMAIN current /\ DOMAIN current = 1 .. n
      /\ \A k \in DOMAIN current : SessionOK(current[k])
  <2>1. Continues(sessions, current) /\ n \in Nat \ {0} /\ n \in DOMAIN current
    BY <1>1, CurrentFacts
  <2>2. current \in Seq(Session) /\ \A k \in DOMAIN current : SessionOK(current[k])
    BY <2>1 DEF Continues
  <2>. QED
    BY <1>1, <2>1, <2>2
<1>3. SessionOK(u) /\ u \in Session /\ sessions' = [current EXCEPT ![n] = u]
  BY <1>1 DEF Becomes, SessionOK, TabsOK
<1>4. /\ sessions' \in Seq(Session) /\ Len(sessions') = n /\ DOMAIN sessions' = 1 .. n
      /\ sessions'[n] = u /\ \A k \in 1 .. n : k # n => sessions'[k] = current[k]
  BY <1>1, <1>2, <1>3
<1>. QED
  BY <1>1, <1>2, <1>3, <1>4

-----------------------------------------------------------------------------
(* The invariant holds initially and is kept: the tracker and the drivers. *)

\* Both drivers feed events of the right kind.
LEMMA AnEvent ==
    ASSUME TrackerOK, DriverOK, AnalyzeEntry \/ StreamEvent
    PROVE  \E timestamp \in Int :
               \/ Rejected(timestamp)
               \/ \E u : Becomes(SessionsFor(timestamp), u, timestamp)
<1>1. \E e : IsEvent(e) /\ e.timestamp \in Int /\ ProcessEvent(e)
  <2>1. CASE AnalyzeEntry
    <3>1. PICK entry \in todo :
              ProcessEvent([type |-> "NAVIGATE", tab_id |-> Domain[entry.url],
                            url |-> entry.url, timestamp |-> entry.raw])
      BY <2>1 DEF AnalyzeEntry
    <3>2. PICK e : e = [type |-> "NAVIGATE", tab_id |-> Domain[entry.url],
                        url |-> entry.url, timestamp |-> entry.raw]
      OBVIOUS
    <3>3. entry.raw \in Int /\ entry.url \in Urls /\ Domain[entry.url] \in Nat \ {0}
      BY TrackerAssumption DEF DriverOK
    <3>4. IsEvent(e) /\ e.timestamp \in Int
      BY <3>2, <3>3 DEF IsEvent, Types, Url
    <3>. QED
      BY <3>1, <3>2, <3>4
  <2>2. CASE StreamEvent
    <3>1. PICK delta \in Deltas, d \in Parsed :
              ProcessEvent([type |-> d.type, tab_id |-> d.tab_id, url |-> d.url,
                            timestamp |-> clock + delta])
      BY <2>2 DEF StreamEvent
    <3>2. PICK e : e = [type |-> d.type, tab_id |-> d.tab_id, url |-> d.url,
                        timestamp |-> clock + delta]
      OBVIOUS
    <3>3. d.type \in Types /\ d.tab_id \in Nat \ {0} /\ d.url \in Url /\ clock + delta \in Int
      BY TrackerAssumption DEF Parsed, DriverOK
    <3>4. IsEvent(e) /\ e.timestamp \in Int
      BY <3>2, <3>3 DEF IsEvent
    <3>. QED
      BY <3>1, <3>2, <3>4
  <2>. QED
    BY <2>1, <2>2
<1>. QED
  BY <1>1, EventStep

\* The sessions once their durations are set, at a rejection or at the end of an analysis.
LEMMA FinalizedOK ==
    ASSUME TrackerOK, sessions' = Finalized
    PROVE  /\ sessions' \in Seq(Session) /\ Len(sessions') = Len(sessions)
           /\ \A k \in DOMAIN sessions' : SessionOK(sessions'[k])
           /\ sessions' # <<>> => sessions # <<>> /\ Last(sessions').state = Last(sessions).state
<1>1. /\ sessions' \in Seq(Session) /\ Len(sessions') = Len(sessions)
      /\ \A k \in DOMAIN sessions' : SessionOK(sessions'[k])
      /\ \A k \in DOMAIN sessions : sessions'[k].state = sessions[k].state
  BY FinalizedFacts DEF Continues
<1>2. sessions \in Seq(Session)
  BY DEF TrackerOK
<1>3. ASSUME sessions' # <<>>
      PROVE  sessions # <<>> /\ Last(sessions').state = Last(sessions).state
  <2>1. Len(sessions) # 0
    BY <1>1, <1>3, EmptySeq
  <2>2. sessions # <<>>
    BY <2>1
  <2>3. Last(sessions) = sessions[Len(sessions)] /\ Len(sessions) \in DOMAIN sessions
    BY <1>2, <2>2, LastFacts
  <2>4. Last(sessions') = sessions'[Len(sessions)]
    BY <1>1 DEF Last
  <2>. QED
    BY <1>1, <2>2, <2>3, <2>4
<1>. QED
  BY <1>1, <1>3

LEMMA TrackerStep ==
    ASSUME TrackerOK, DriverOK, [Next]_vars
    PROVE  TrackerOK'
<1>1. CASE AnalyzeEntry \/ StreamEvent
  <2>1. PICK timestamp \in Int : \/ Rejected(timestamp)
                                 \/ \E u : Becomes(SessionsFor(timestamp), u, timestamp)
    BY <1>1, AnEvent
  <2>2. CASE Rejected(timestamp)
    <3>1. /\ sessions' \in Seq(Session) /\ Len(sessions') = Len(sessions)
          /\ \A k \in DOMAIN sessions' : SessionOK(sessions'[k])
          /\ sessions' # <<>> => sessions # <<>> /\ Last(sessions').state = Last(sessions).state
      BY <2>2, FinalizedOK DEF Rejected
    <3>. QED
      BY <2>2, <3>1 DEF Rejected, TrackerOK
  <2>3. ASSUME NEW u, Becomes(SessionsFor(timestamp), u, timestamp)
        PROVE  TrackerOK'
    <3>1. PICK n : n = Len(SessionsFor(timestamp))
      OBVIOUS
    <3>2. /\ sessions' \in Seq(Session) /\ Len(sessions') = n /\ DOMAIN sessions' = 1 .. n
          /\ n \in Nat \ {0} /\ sessions'[n] = u
          /\ \A k \in 1 .. n : SessionOK(sessions'[k])
      BY <2>3, <3>1, BecomesFacts
    <3>3. /\ session_capacity' \in 1..MaxSessions /\ n <= session_capacity'
          /\ current_state' = u.state /\ SessionOK(u)
          /\ last_event_time' = timestamp \/ last_event_time' = last_event_time
      BY <2>3, <3>1 DEF Becomes
    <3>4. u.state \in States
      BY <3>3, SessionFacts DEF SessionOK, TabsOK
    <3>5. Last(sessions') = u
      BY <3>2 DEF Last
    <3>. QED
      BY <3>2, <3>3, <3>4, <3>5 DEF TrackerOK
  <2>. QED
    BY <2>1, <2>2, <2>3
<1>2. CASE Analyzed
  <2>1. /\ sessions' \in Seq(Session) /\ Len(sessions') = Len(sessions)
        /\ \A k \in DOMAIN sessions' : SessionOK(sessions'[k])
        /\ sessions' # <<>> => sessions # <<>> /\ Last(sessions').state = Last(sessions).state
    BY <1>2, FinalizedOK DEF Analyzed
  <2>. QED
    BY <1>2, <2>1 DEF Analyzed, TrackerOK
<1>3. CASE StreamEnds \/ UNCHANGED vars
  BY <1>3 DEF StreamEnds, vars, trackerVars, TrackerOK, Last
<1>. QED
  BY <1>1, <1>2, <1>3 DEF Next

LEMMA DriverStep ==
    ASSUME TrackerOK, DriverOK, [Next]_vars
    PROVE  DriverOK'
<1>1. CASE AnalyzeEntry \/ StreamEvent
  <2>1. /\ driver' = driver /\ clock' \in Nat /\ events' = events + 1 /\ finished' = finished
        /\ todo' \subseteq todo
    <3>1. CASE AnalyzeEntry
      <4>1. clock \in Nat
        BY DEF DriverOK
      <4>. QED
        BY <3>1, <4>1 DEF AnalyzeEntry
    <3>2. CASE StreamEvent
      <4>1. PICK delta \in Deltas : clock' = clock + delta
        BY <3>2 DEF StreamEvent
      <4>2. clock' \in Nat
        BY <4>1, TrackerAssumption DEF DriverOK
      <4>. QED
        BY <3>2, <4>2 DEF StreamEvent
    <3>. QED
      BY <1>1, <3>1, <3>2
  <2>2. PICK timestamp \in Int : \/ Rejected(timestamp)
                                 \/ \E u : Becomes(SessionsFor(timestamp), u, timestamp)
    BY <1>1, AnEvent
  <2>3. PICK n : n = Len(SessionsFor(timestamp))
    OBVIOUS
  <2>4. n \in Nat \ {0}
    BY <2>3, CurrentFacts
  <2>5. \/ seen' = seen
        \/ seen' = Append(seen, [time |-> timestamp, session |-> n])
    BY <2>2, <2>3 DEF Rejected, Becomes
  <2>6. [time |-> timestamp, session |-> n] \in SeenEvent
    BY <2>4 DEF SeenEvent
  <2>7. seen' \in Seq(SeenEvent) /\ Len(seen') <= Len(seen) + 1
    BY <2>5, <2>6 DEF DriverOK
  <2>. QED
    BY <2>1, <2>7 DEF DriverOK
<1>2. CASE Analyzed \/ StreamEnds \/ UNCHANGED vars
  BY <1>2 DEF Analyzed, StreamEnds, vars, DriverOK
<1>. QED
  BY <1>1, <1>2 DEF Next

LEMMA InitOK == ASSUME Init PROVE TrackerOK /\ DriverOK
<1>1. TrackerOK
  <2>1. sessions = <<>> /\ sessions \in Seq(Session) /\ DOMAIN sessions = {} /\ Len(sessions) = 0
    BY DEF Init
  <2>. QED
    BY <2>1, TrackerAssumption DEF Init, TrackerOK, States
<1>2. todo \subseteq [id : Nat, raw : Int, url : Urls]
  <2>1. todo = {} \/ \E f \in Results : todo = Entries(f)
    BY DEF Init
  <2>2. ASSUME NEW f \in Results
        PROVE  Entries(f) \subseteq [id : Nat, raw : Int, url : Urls]
    <3>1. PICK n \in 1..MaxEvents : f \in [1..n -> [raw : Raws, url : Urls]]
      BY DEF Results
    <3>2. ASSUME NEW i \in DOMAIN f
          PROVE  i \in Nat /\ f[i].raw \in Int /\ f[i].url \in Urls
      <4>0. n \in Nat
        BY TrackerAssumption
      <4>1. i \in 1..n /\ f[i] \in [raw : Raws, url : Urls]
        BY <3>1
      <4>2. Raws \subseteq Int
        BY TrackerAssumption
      <4>3. i \in Nat
        BY <4>0, <4>1
      <4>4. f[i].raw \in Raws /\ f[i].url \in Urls
        BY <4>1
      <4>. QED
        BY <4>2, <4>3, <4>4
    <3>. QED
      BY <3>2 DEF Entries
  <2>. QED
    BY <2>1, <2>2
<1>3. seen \in Seq(SeenEvent) /\ Len(seen) = 0
  BY DEF Init
<1>4. driver \in Drivers /\ clock \in Nat /\ events = 0 /\ finished \in BOOLEAN
  <2>1. Gap \in Nat
    BY TrackerAssumption
  <2>2. driver \in Drivers /\ clock = Gap /\ events = 0 /\ finished = FALSE
    BY DEF Init
  <2>. QED
    BY <2>1, <2>2
<1>5. events \in Nat /\ Len(seen) <= events
  BY <1>3, <1>4
<1>. QED
  BY <1>1, <1>2, <1>3, <1>4, <1>5 DEF DriverOK

-----------------------------------------------------------------------------
(* Closed tabs, sessions that are over, and the longest session.           *)

\* What an event does to the sessions there were.
LEMMA EventKeeps ==
    ASSUME TrackerOK, AnalyzeEntry \/ StreamEvent, DriverOK
    PROVE  /\ Len(sessions') >= Len(sessions) /\ DOMAIN sessions' = 1 .. Len(sessions')
           /\ \A k \in DOMAIN sessions :
                /\ k \in DOMAIN sessions' /\ ClosedKept(sessions[k], sessions'[k])
                /\ k < Len(sessions) => sessions'[k] = sessions[k]
                /\ k < Len(sessions') /\ ~(k < Len(sessions)) => Timed(sessions'[k])
<1>1. PICK timestamp \in Int : \/ Rejected(timestamp)
                               \/ \E u : Becomes(SessionsFor(timestamp), u, timestamp)
  BY AnEvent
<1>2. PICK m : m = Len(sessions)
  OBVIOUS
<1>3. m \in Nat /\ DOMAIN sessions = 1 .. m
  BY <1>2 DEF TrackerOK
<1>4. CASE Rejected(timestamp)
  <2>1. Continues(sessions, sessions') /\ Len(sessions') = m
    BY <1>2, <1>4, FinalizedFacts DEF Rejected
  <2>2. DOMAIN sessions' = 1 .. m
    BY <2>1 DEF Continues
  <2>. QED
    BY <1>2, <1>3, <2>1, <2>2 DEF Continues, ClosedKept
<1>5. ASSUME NEW u, Becomes(SessionsFor(timestamp), u, timestamp)
      PROVE  /\ Len(sessions') >= m /\ DOMAIN sessions' = 1 .. Len(sessions')
             /\ \A k \in 1 .. m :
                /\ k \in DOMAIN sessions' /\ ClosedKept(sessions[k], sessions'[k])
                /\ k < m => sessions'[k] = sessions[k]
                /\ k < Len(sessions') /\ ~(k < m) => Timed(sessions'[k])
  <2>1. PICK current, n : current = SessionsFor(timestamp) /\ n = Len(current)
    OBVIOUS
  <2>2. /\ Len(sessions') = n /\ DOMAIN sessions' = 1 .. n /\ n \in Nat \ {0}
        /\ sessions'[n] = u /\ \A k \in 1 .. n : k # n => sessions'[k] = current[k]
    BY <1>5, <2>1, BecomesFacts
  <2>3. /\ Continues(sessions, current)
        /\ IF NeedsSession(timestamp)
           THEN n = m + 1 /\ (n - 1 \in DOMAIN sessions => Timed(current[n - 1]))
           ELSE sessions # <<>> /\ current = sessions
    BY <1>2, <2>1, CurrentFacts
  <2>4. ClosedKept(current[n], u)
    BY <1>5, <2>1 DEF Becomes
  <2>5. n >= m
    BY <1>2, <1>3, <2>1, <2>2, <2>3
  <2>6. ASSUME NEW k \in 1 .. m
        PROVE  /\ k \in 1 .. n /\ ClosedKept(sessions[k], sessions'[k])
               /\ k < m => sessions'[k] = sessions[k]
               /\ k < n /\ ~(k < m) => Timed(sessions'[k])
    <3>1. k \in 1 .. n
      BY <1>3, <2>2, <2>5
    <3>2. current[k].tabs = sessions[k].tabs /\ (k < m => current[k] = sessions[k])
      BY <1>2, <1>3, <2>3 DEF Continues
    <3>3. CASE NeedsSession(timestamp)
      <4>1. k # n /\ n = m + 1
        BY <1>3, <2>3, <3>3
      <4>2. sessions'[k] = current[k]
        BY <2>2, <3>1, <4>1
      <4>3. ~(k < m) => k = n - 1
        BY <1>3, <4>1
      <4>4. ~(k < m) => Timed(sessions'[k])
        BY <1>3, <2>3, <3>3, <4>2, <4>3
      <4>5. ClosedKept(sessions[k], sessions'[k])
        BY <3>2, <4>2 DEF ClosedKept
      <4>. QED
        BY <3>1, <3>2, <4>2, <4>4, <4>5
    <3>4. CASE ~NeedsSession(timestamp)
      <4>1. current = sessions /\ n = m
        BY <1>2, <2>1, <2>3, <3>4
      <4>2. CASE k = n
        BY <2>2, <2>4, <3>1, <4>1, <4>2
      <4>3. CASE k # n
        <5>1. sessions'[k] = sessions[k]
          BY <2>2, <3>1, <4>1, <4>3
        <5>2. k < m
          BY <1>3, <4>1, <4>3
        <5>. QED
          BY <3>1, <5>1, <5>2 DEF ClosedKept
      <4>. QED
        BY <4>2, <4>3
    <3>. QED
      BY <3>3, <3>4
  <2>. QED
    BY <2>2, <2>5, <2>6
<1>. QED
  BY <1>1, <1>2, <1>3, <1>4, <1>5

LEMMA DurationsStep ==
    ASSUME TrackerOK, DriverOK, DurationsOK, [Next]_vars
    PROVE  DurationsOK'
<1>1. CASE AnalyzeEntry \/ StreamEvent
  <2>1. /\ finished' = finished /\ summary' = summary /\ driver' = driver
        /\ todo = {} => todo' = {}
    BY <1>1 DEF AnalyzeEntry, StreamEvent
  <2>2. /\ Len(sessions') >= Len(sessions) /\ DOMAIN sessions' = 1 .. Len(sessions')
        /\ \A k \in DOMAIN sessions :
                /\ k < Len(sessions) => sessions'[k] = sessions[k]
                /\ k < Len(sessions') /\ ~(k < Len(sessions)) => Timed(sessions'[k])
    BY <1>1, EventKeeps
  <2>3. \A k \in DOMAIN sessions' : k < Len(sessions') => Timed(sessions'[k])
    <3> SUFFICES ASSUME NEW k \in DOMAIN sessions', k < Len(sessions') PROVE Timed(sessions'[k])
      OBVIOUS
    <3>1. Len(sessions') <= Len(sessions) + 1
      <4>1. PICK timestamp \in Int : \/ Rejected(timestamp)
                                     \/ \E u : Becomes(SessionsFor(timestamp), u, timestamp)
        BY <1>1, AnEvent
      <4>2. CASE Rejected(timestamp)
        <5>1. Len(sessions') = Len(sessions) /\ Len(sessions) \in Nat
          BY <4>2, FinalizedFacts DEF Rejected, TrackerOK
        <5>. QED
          BY <5>1
      <4>3. ASSUME NEW u, Becomes(SessionsFor(timestamp), u, timestamp)
            PROVE  Len(sessions') <= Len(sessions) + 1
        <5>1. Len(sessions') = Len(SessionsFor(timestamp)) /\ Len(sessions) \in Nat
          BY <4>3, BecomesFacts DEF TrackerOK
        <5>2. \/ Len(SessionsFor(timestamp)) = Len(sessions) + 1
              \/ SessionsFor(timestamp) = sessions
          BY CurrentFacts
        <5>. QED
          BY <5>1, <5>2
      <4>. QED
        BY <4>1, <4>2, <4>3
    <3>2. sessions' \in Seq(Session) /\ sessions \in Seq(Session)
      BY TrackerStep DEF TrackerOK
    <3>3. Len(sessions) \in Nat /\ Len(sessions') \in Nat /\ DOMAIN sessions = 1 .. Len(sessions)
      BY <3>2
    <3>4. k \in DOMAIN sessions
      BY <2>2, <3>1, <3>3
    <3>5. CASE k < Len(sessions)
      BY <2>2, <3>4, <3>5 DEF DurationsOK
    <3>. QED
      BY <2>2, <3>4, <3>5
  <2>. QED
    BY <2>1, <2>3 DEF DurationsOK
<1>2. CASE Analyzed
  <2>1. /\ Continues(sessions, sessions') /\ Len(sessions') = Len(sessions)
        /\ todo' = {} /\ finished'
    BY <1>2, FinalizedFacts DEF Analyzed
  <2>2. sessions \in Seq(Session) /\ sessions' \in Seq(Session)
    BY <2>1 DEF TrackerOK, Continues
  <2>3. DOMAIN sessions' = DOMAIN sessions
    BY <2>1, <2>2
  <2>. QED
    BY <2>1, <2>3 DEF DurationsOK, Continues
<1>3. CASE StreamEnds
  BY <1>3 DEF StreamEnds, trackerVars, DurationsOK
<1>4. CASE UNCHANGED vars
  BY <1>4 DEF vars, trackerVars, DurationsOK
<1>. QED
  BY <1>1, <1>2, <1>3, <1>4 DEF Next

\* The step of ClosedStaysClosed.
KeepsClosed ==
    \A k \in DOMAIN sessions :
        /\ \A i \in DOMAIN sessions[k].tabs :
            ~sessions[k].tabs[i].is_active => sessions'[k].tabs[i] = sessions[k].tabs[i]
        /\ k < Len(sessions) => sessions'[k] = sessions[k]

LEMMA ClosedStep ==
    ASSUME TrackerOK, DriverOK, [Next]_vars
    PROVE  KeepsClosed
<1>1. CASE AnalyzeEntry \/ StreamEvent
  BY <1>1, EventKeeps DEF KeepsClosed, ClosedKept
<1>2. CASE Analyzed
  <2>1. Continues(sessions, sessions')
    BY <1>2, FinalizedFacts DEF Analyzed
  <2>. QED
    BY <2>1 DEF Continues, KeepsClosed
<1>3. CASE StreamEnds \/ UNCHANGED vars
  BY <1>3 DEF StreamEnds, vars, trackerVars, KeepsClosed
<1>. QED
  BY <1>1, <1>2, <1>3 DEF Next

\* The first of the largest numbers is one of the largest.
LEMMA FirstLargestFacts ==
    ASSUME NEW n \in Nat \ {0}, NEW f \in [1..n -> Nat], NEW otherwise \in 1..n
    PROVE  /\ FirstLargest(f, otherwise) \in 1..n
           /\ \A j \in 1..n : f[j] <= f[FirstLargest(f, otherwise)]
<1> DEFINE L == {i \in DOMAIN f : \A j \in DOMAIN f : f[i] >= f[j]}
<1>1. DOMAIN f = 1..n /\ 1 \in 1..n /\ \A j \in 1..n : f[j] \in Nat
  OBVIOUS
<1>2. L # {}
  <2>0. n \in Int /\ 1 \in Int
    OBVIOUS
  <2>1. IsFiniteSet(1..n)
    BY <2>0, FS_Interval
  <2>2. \E x \in 1..n : \A y \in 1..n : f[x] >= f[y]
    <3>1. 1..n # {} /\ \A x \in 1..n : f[x] \in Int
      BY <1>1
    <3>. QED
      BY <2>1, <3>1, LargestExists
  <2>. QED
    BY <1>1, <2>2
<1>3. L \in SUBSET Nat
  BY <1>1
<1>4. PICK m : m = Min(L)
  OBVIOUS
<1>5. m \in L
  <2> HIDE DEF L
  <2>. QED
    BY <1>2, <1>3, <1>4, MinFacts
<1>6. m \in 1..n /\ \A j \in 1..n : f[j] <= f[m]
  BY <1>1, <1>5
<1>7. FirstLargest(f, otherwise) = IF f[m] > 0 THEN m ELSE otherwise
  BY <1>4 DEF FirstLargest
<1>8. CASE f[m] > 0
  BY <1>6, <1>7, <1>8
<1>9. CASE ~(f[m] > 0)
  <2>1. \A j \in 1..n : f[j] = 0
    BY <1>1, <1>6, <1>9
  <2>. QED
    BY <1>7, <1>9, <2>1
<1>. QED
  BY <1>8, <1>9

LEMMA LongestStep ==
    ASSUME TrackerOK, DriverOK, DurationsOK, LongestOfAll, [Next]_vars
    PROVE  LongestOfAll'
<1>1. CASE AnalyzeEntry
  <2>1. driver = "analyze" /\ todo # {} /\ finished' = finished
    BY <1>1 DEF AnalyzeEntry
  <2>2. ~finished'
    BY <2>1 DEF DurationsOK
  <2>. QED
    BY <2>2 DEF LongestOfAll
<1>2. CASE StreamEvent \/ StreamEnds
  BY <1>2 DEF StreamEvent, StreamEnds, LongestOfAll
<1>3. CASE Analyzed
  <2>1. /\ sessions' = Finalized /\ summary' = ComputeStats(Finalized) /\ ~finished
    BY <1>3 DEF Analyzed
  <2>2. PICK ss, n : ss = Finalized /\ n = Len(ss)
    OBVIOUS
  <2>3. /\ Continues(sessions, ss) /\ n = Len(sessions)
        /\ n \in DOMAIN ss => Timed(ss[n])
    BY <2>2, FinalizedFacts
  <2>4. /\ ss \in Seq(Session) /\ n \in Nat /\ DOMAIN ss = 1..n
        /\ \A k \in 1..n : SessionOK(ss[k])
    <3>1. ss \in Seq(Session) /\ \A k \in DOMAIN ss : SessionOK(ss[k])
      BY <2>3 DEF Continues
    <3>. QED
      BY <2>2, <3>1
  <2>5. DOMAIN sessions = 1..n /\ \A k \in 1..n : k < n => ss[k] = sessions[k]
    <3>1. sessions \in Seq(Session)
      BY DEF TrackerOK
    <3>. QED
      BY <2>3, <3>1 DEF Continues
  <2>6. \A k \in 1..n : Timed(ss[k])
    <3> SUFFICES ASSUME NEW k \in 1..n PROVE Timed(ss[k])
      OBVIOUS
    <3>1. CASE k < n
      BY <2>3, <2>5, <3>1 DEF DurationsOK
    <3>2. CASE ~(k < n)
      <4>1. k = n
        BY <2>4, <3>2
      <4>. QED
        BY <2>3, <2>4, <4>1
    <3>. QED
      BY <3>1, <3>2
  <2>7. CASE n = 0
    BY <2>1, <2>2, <2>4, <2>7 DEF LongestOfAll
  <2>8. CASE n # 0
    <3>1. ss # <<>> /\ 1 \in 1..n /\ n \in Nat \ {0}
      BY <2>2, <2>4, <2>8
    <3>2. summary.longest_session_idx = 1
      BY <2>1 DEF DurationsOK, NoSummary
    <3>3. PICK f : f = [i \in DOMAIN ss |-> ss[i].duration]
      OBVIOUS
    <3>4. f \in [1..n -> Nat] /\ \A k \in 1..n : f[k] = ss[k].duration
      BY <2>4, <3>3, SessionFacts
    <3>5. PICK best : best = FirstLargest(f, 1)
      OBVIOUS
    <3>6. best \in 1..n /\ \A k \in 1..n : f[k] <= f[best]
      BY <3>1, <3>4, <3>5, FirstLargestFacts
    <3>7. summary'.longest_session_idx = best
      BY <2>1, <2>2, <3>1, <3>2, <3>3, <3>5 DEF ComputeStats
    <3>8. \A k \in 1..n : f[k] = Minutes(WholeSeconds(ss[k])) /\ WholeSeconds(ss[k]) \in Nat
      <4> SUFFICES ASSUME NEW k \in 1..n PROVE WholeSeconds(ss[k]) \in Nat
        BY <2>6, <3>4 DEF Timed
      <4>1. PICK s, x : s = ss[k] /\ x = s.end_time - s.start_time
        OBVIOUS
      <4>2. SessionOK(s) /\ s \in Session
        BY <2>4, <4>1 DEF SessionOK, TabsOK
      <4>3. x \in Nat
        BY <4>1, <4>2, SessionFacts DEF SessionOK
      <4>. QED
        BY <4>1, <4>3, WholeSecondsNat DEF WholeSeconds
    <3>9. ASSUME NEW k \in 1..n, NEW g \in MinuteFloats, g <= WholeSeconds(ss[k])
          PROVE  g <= WholeSeconds(ss[best])
      <4>1. PICK a \in Nat, b \in Nat : a = WholeSeconds(ss[k]) /\ b = WholeSeconds(ss[best])
        BY <3>6, <3>8
      <4>2. PICK c \in Nat, d \in Nat : c = Minutes(a) /\ d = Minutes(b)
        BY MinutesFacts
      <4>3. c <= d
        BY <3>6, <3>8, <4>1, <4>2
      <4>4. g \in Nat /\ g <= c /\ d <= b
        BY <3>9, <4>1, <4>2, MinutesFacts, TrackerAssumption
      <4>. QED
        BY <4>1, <4>3, <4>4
    <3>. QED
      BY <2>1, <2>2, <2>4, <3>7, <3>9 DEF LongestOfAll
  <2>. QED
    BY <2>7, <2>8
<1>4. CASE UNCHANGED vars
  BY <1>4 DEF vars, trackerVars, LongestOfAll
<1>. QED
  BY <1>1, <1>2, <1>3, <1>4 DEF Next

-----------------------------------------------------------------------------
(* The sessions are those of the gaps.                                     *)

LEMMA GroupedMeans ==
    ASSUME Grouped(seen, sessions)
    PROVE  GroupedByGaps
<1>1. AfterGap = After(seen)
  BY DEF AfterGap, After
<1>2. \A i \in DOMAIN seen : seen[i].session = Cardinality({g \in AfterGap : g <= i})
  BY <1>1 DEF Grouped, UpTo
<1>3. ASSUME NEW k \in DOMAIN sessions
      PROVE  LET times == {seen[i].time : i \in {j \in DOMAIN seen : seen[j].session = k}}
             IN /\ \A t \in times : t <= sessions[k].end_time
                /\ {sessions[k].start_time, sessions[k].end_time} \subseteq times
  BY DEF Grouped, Spans
<1>. QED
  BY <1>2, <1>3 DEF GroupedByGaps

LEMMA AfterFinite ==
    ASSUME NEW q \in Seq(SeenEvent)
    PROVE  IsFiniteSet(After(q)) /\ Cardinality(After(q)) \in Nat /\ After(q) \subseteq 1 .. Len(q)
<1>1. After(q) \subseteq 1 .. Len(q) /\ Len(q) \in Nat
  BY DEF After
<1>2. IsFiniteSet(1 .. Len(q))
  BY <1>1, FS_Interval
<1>3. IsFiniteSet(After(q))
  BY <1>1, <1>2, FS_Subset
<1>. QED
  BY <1>1, <1>3, FS_CardinalityType

\* The event x comes more than the gap after all of q.
AfterAll(q, x) == \A j \in DOMAIN q : x.time - q[j].time > Gap

\* An event more is one more after a gap, or leaves those that are.
LEMMA AfterAppend ==
    ASSUME NEW q \in Seq(SeenEvent), NEW x \in SeenEvent
    PROVE  LET r == Append(q, x)
               n == Len(q) + 1
           IN /\ \A i \in 1 .. Len(q) : UpTo(r, i) = UpTo(q, i)
              /\ UpTo(r, n) = After(r)
              /\ AfterAll(q, x) => Cardinality(After(r)) = Cardinality(After(q)) + 1
              /\ ~AfterAll(q, x) => Cardinality(After(r)) = Cardinality(After(q))
<1>0. PICK r, n : r = Append(q, x) /\ n = Len(q) + 1
  OBVIOUS
<1>1. /\ r \in Seq(SeenEvent) /\ n \in Nat /\ n = Len(q) + 1 /\ Len(q) \in Nat /\ DOMAIN q = 1 .. Len(q)
      /\ DOMAIN r = 1 .. n /\ r[n] = x /\ \A j \in 1 .. Len(q) : r[j] = q[j]
  BY <1>0
<1>2. \A i \in 1 .. Len(q) : i \in After(r) <=> i \in After(q)
  <2> SUFFICES ASSUME NEW i \in 1 .. Len(q) PROVE i \in After(r) <=> i \in After(q)
    OBVIOUS
  <2>1. i \in DOMAIN r /\ i \in DOMAIN q /\ r[i] = q[i]
    BY <1>1
  <2>2. \A j \in 1 .. i - 1 : r[j] = q[j]
    BY <1>1
  <2>. QED
    BY <2>1, <2>2 DEF After
<1>3. n \in After(r) <=> AfterAll(q, x)
  <2>1. n \in DOMAIN r /\ n - 1 = Len(q)
    BY <1>1
  <2>. QED
    BY <1>1, <2>1 DEF After, AfterAll
<1>4. /\ IsFiniteSet(After(q)) /\ Cardinality(After(q)) \in Nat
      /\ After(q) \subseteq 1 .. Len(q) /\ After(r) \subseteq 1 .. n
  <2>1. Len(r) = n
    BY <1>1
  <2>. QED
    BY <1>1, <2>1, AfterFinite
<1>5. \A i \in 1 .. Len(q) : UpTo(r, i) = UpTo(q, i)
  <2> SUFFICES ASSUME NEW i \in 1 .. Len(q) PROVE UpTo(r, i) = UpTo(q, i)
    OBVIOUS
  <2>1. \A g \in 1 .. n : g <= i => g \in 1 .. Len(q)
    BY <1>1
  <2>. QED
    BY <1>1, <1>2, <1>4, <2>1 DEF UpTo
<1>6. UpTo(r, n) = After(r)
  BY <1>1, <1>4 DEF UpTo
<1>7. \A g \in 1 .. n : g = n \/ g \in 1 .. Len(q)
  BY <1>1
<1>8. n \notin 1 .. Len(q)
  BY <1>1
<1>9. CASE AfterAll(q, x)
  <2>1. After(r) = After(q) \cup {n} /\ n \notin After(q)
    BY <1>2, <1>3, <1>4, <1>7, <1>8, <1>9
  <2>2. Cardinality(After(r)) = Cardinality(After(q)) + 1
    BY <1>4, <2>1, FS_AddElement
  <2>. QED
    BY <1>0, <1>5, <1>6, <1>9, <2>2
<1>10. CASE ~AfterAll(q, x)
  <2>1. After(r) = After(q)
    BY <1>2, <1>3, <1>4, <1>7, <1>8, <1>10
  <2>. QED
    BY <1>0, <1>5, <1>6, <1>10, <2>1
<1>. QED
  BY <1>9, <1>10

\* An event of time ts joins the last of the sessions ss, or opens one: tt are the
\* sessions after it.
Joins(ss, tt, ts, n) ==
    LET opens == IF ss = <<>> THEN TRUE ELSE ts - ss[Len(ss)].end_time > Gap
    IN /\ n = IF opens THEN Len(ss) + 1 ELSE Len(ss)
       /\ Len(tt) = n /\ DOMAIN tt = 1 .. n /\ n \in Nat \ {0}
       /\ \A k \in 1 .. n : k # n => /\ tt[k].start_time = ss[k].start_time
                                     /\ tt[k].end_time = ss[k].end_time
       /\ tt[n].start_time = IF opens THEN ts ELSE ss[n].start_time
       /\ tt[n].end_time = IF opens \/ ts > ss[n].end_time THEN ts ELSE ss[n].end_time

LEMMA GroupedAppend ==
    ASSUME NEW q \in Seq(SeenEvent), NEW ss \in Seq(Session), Grouped(q, ss), Orderly(q, ss),
           NEW tt, NEW ts \in Int, NEW n, Joins(ss, tt, ts, n),
           NEW r, r = Append(q, [time |-> ts, session |-> n])
    PROVE  Grouped(r, tt) /\ Orderly(r, tt)
<1>1. PICK x, m, l, opens :
          /\ x = [time |-> ts, session |-> n] /\ m = Len(q) /\ l = Len(ss)
          /\ opens = IF ss = <<>> THEN TRUE ELSE ts - ss[l].end_time > Gap
  OBVIOUS
<1>2. /\ n = IF opens THEN l + 1 ELSE l
      /\ Len(tt) = n /\ DOMAIN tt = 1 .. n /\ n \in Nat \ {0}
      /\ \A k \in 1 .. n : k # n => /\ tt[k].start_time = ss[k].start_time
                                    /\ tt[k].end_time = ss[k].end_time
      /\ tt[n].start_time = IF opens THEN ts ELSE ss[n].start_time
      /\ tt[n].end_time = IF opens \/ ts > ss[n].end_time THEN ts ELSE ss[n].end_time
  BY <1>1 DEF Joins
<1>3. /\ x \in SeenEvent /\ x.time = ts /\ x.session = n
      /\ m \in Nat /\ l \in Nat /\ DOMAIN q = 1 .. m /\ DOMAIN ss = 1 .. l
  BY <1>1, <1>2 DEF SeenEvent
<1>4. /\ r \in Seq(SeenEvent) /\ DOMAIN r = 1 .. m + 1 /\ r[m + 1] = x
      /\ \A i \in 1 .. m : r[i] = q[i]
      /\ \A i \in 1 .. m + 1 : i = m + 1 \/ i \in 1 .. m
      /\ 1 .. m \subseteq 1 .. m + 1 /\ m + 1 \in 1 .. m + 1 /\ r # <<>>
  BY <1>1, <1>3
<1>5. /\ \A i \in 1 .. m : q[i].time \in Int /\ q[i].session \in Nat \ {0}
      /\ \A k \in 1 .. l : ss[k].start_time \in Int /\ ss[k].end_time \in Int
      /\ Gap \in Nat
  <2>1. \A i \in 1 .. m : q[i] \in SeenEvent
    BY <1>1, <1>3
  <2>2. \A k \in 1 .. l : ss[k] \in Session
    BY <1>1, <1>3
  <2>. QED
    BY <2>1, <2>2, SessionFacts, TrackerAssumption DEF SeenEvent
<1>6. /\ \A i \in 1 .. m : UpTo(r, i) = UpTo(q, i)
      /\ UpTo(r, m + 1) = After(r)
      /\ AfterAll(q, x) => Cardinality(After(r)) = Cardinality(After(q)) + 1
      /\ ~AfterAll(q, x) => Cardinality(After(r)) = Cardinality(After(q))
  BY <1>1, <1>3, AfterAppend
<1>7. /\ ss = <<>> <=> q = <<>>
      /\ l = Cardinality(After(q))
      /\ \A i \in 1 .. m : q[i].session \in 1 .. l /\ q[i].time <= ss[l].end_time
  BY <1>1, <1>3 DEF Orderly
<1>8. /\ \A i \in 1 .. m : q[i].session = Cardinality(UpTo(q, i))
      /\ \A k \in 1 .. l : Spans(q, k, ss[k])
  BY <1>3 DEF Grouped
<1>9. l = 0 <=> ss = <<>>
  BY <1>1
<1>10. opens <=> AfterAll(q, x)
  <2>1. CASE ss = <<>>
    BY <1>1, <1>7, <2>1 DEF AfterAll
  <2>2. CASE ss # <<>>
    <3>1. l \in 1 .. l
      BY <1>3, <1>9, <2>2
    <3>2. opens <=> ts - ss[l].end_time > Gap
      BY <1>1, <2>2
    <3>3. PICK i \in 1 .. m : q[i].time = ss[l].end_time
      BY <1>3, <1>8, <3>1 DEF Spans
    <3>4. ASSUME ts - ss[l].end_time > Gap, NEW j \in 1 .. m
          PROVE  ts - q[j].time > Gap
      <4>1. q[j].time <= ss[l].end_time /\ q[j].time \in Int /\ ss[l].end_time \in Int
        BY <1>5, <1>7, <3>1
      <4>2. Gap \in Nat
        BY <1>5
      <4>. QED
        BY <3>4, <4>1, <4>2
    <3>5. AfterAll(q, x) <=> ts - ss[l].end_time > Gap
      <4>1. AfterAll(q, x) <=> \A j \in 1 .. m : ts - q[j].time > Gap
        BY <1>3 DEF AfterAll
      <4>. QED
        BY <3>3, <3>4, <4>1
    <3>. QED
      BY <3>2, <3>5
  <2>. QED
    BY <2>1, <2>2
<1>11. Len(tt) = Cardinality(After(r))
  <2>1. CASE opens
    <3>1. Len(tt) = l + 1
      BY <1>2, <2>1
    <3>2. Cardinality(After(r)) = Cardinality(After(q)) + 1
      BY <1>6, <1>10, <2>1
    <3>. QED
      BY <1>7, <3>1, <3>2
  <2>2. CASE ~opens
    <3>1. Len(tt) = l
      BY <1>2, <2>2
    <3>2. Cardinality(After(r)) = Cardinality(After(q))
      BY <1>6, <1>10, <2>2
    <3>. QED
      BY <1>7, <3>1, <3>2
  <2>. QED
    BY <2>1, <2>2
<1>12. l <= n /\ n <= l + 1 /\ (~opens => n = l /\ n \in 1 .. l)
  BY <1>2, <1>3
<1>13. ASSUME NEW i \in 1 .. m
       PROVE  q[i].time <= tt[n].end_time
  <2>1. q[i].time \in Int /\ q[i].time <= ss[l].end_time /\ l # 0
    BY <1>3, <1>5, <1>7
  <2>2. ss[l].end_time \in Int
    BY <1>3, <1>5, <2>1
  <2>3. CASE opens
    <3>1. ts - q[i].time > Gap
      BY <1>3, <1>10, <2>3 DEF AfterAll
    <3>2. tt[n].end_time = ts
      BY <1>2, <2>3
    <3>. QED
      BY <1>5, <2>1, <3>1, <3>2
  <2>4. CASE ~opens
    <3>1. tt[n].end_time = IF ts > ss[l].end_time THEN ts ELSE ss[l].end_time
      BY <1>2, <1>12, <2>4
    <3>. QED
      BY <2>1, <2>2, <3>1
  <2>. QED
    BY <2>3, <2>4
<1>14. ts <= tt[n].end_time
  <2>1. CASE opens
    BY <1>2, <2>1
  <2>2. CASE ~opens
    <3>1. ss[n].end_time \in Int
      BY <1>5, <1>12, <2>2
    <3>2. tt[n].end_time = IF ts > ss[n].end_time THEN ts ELSE ss[n].end_time
      BY <1>2, <2>2
    <3>. QED
      BY <3>1, <3>2
  <2>. QED
    BY <2>1, <2>2
<1>15. Orderly(r, tt)
  <2>1. tt # <<>>
    BY <1>2
  <2>2. ASSUME NEW i \in 1 .. m + 1
        PROVE  r[i].session \in 1 .. n /\ r[i].time <= tt[n].end_time
    <3>1. CASE i = m + 1
      BY <1>2, <1>3, <1>4, <1>14, <3>1
    <3>2. CASE i \in 1 .. m
      <4>1. q[i].session \in 1 .. n
        BY <1>2, <1>3, <1>7, <1>12, <3>2
      <4>. QED
        BY <1>4, <1>13, <3>2, <4>1
    <3>. QED
      BY <1>4, <3>1, <3>2
  <2>. QED
    BY <1>2, <1>4, <1>11, <2>1, <2>2 DEF Orderly
<1>16. ASSUME NEW i \in 1 .. m + 1
       PROVE  r[i].session = Cardinality(UpTo(r, i))
  <2>1. CASE i = m + 1
    BY <1>2, <1>3, <1>4, <1>6, <1>11, <2>1
  <2>2. CASE i \in 1 .. m
    BY <1>4, <1>6, <1>8, <2>2
  <2>. QED
    BY <1>4, <2>1, <2>2
<1>17. ASSUME NEW k \in 1 .. n
       PROVE  Spans(r, k, tt[k])
  <2>1. CASE k # n
    <3>1. k \in 1 .. l /\ tt[k].start_time = ss[k].start_time /\ tt[k].end_time = ss[k].end_time
      BY <1>2, <1>3, <1>12, <2>1
    <3>2. Spans(q, k, ss[k])
      BY <1>8, <3>1
    <3>3. \A i \in 1 .. m + 1 : r[i].session = k => i \in 1 .. m /\ r[i] = q[i]
      BY <1>3, <1>4, <2>1
    <3>4. \A i \in 1 .. m : i \in 1 .. m + 1 /\ r[i] = q[i]
      BY <1>4
    <3>. QED
      BY <1>3, <1>4, <3>1, <3>2, <3>3, <3>4 DEF Spans
  <2>2. CASE k = n /\ opens
    <3>1. tt[n].start_time = ts /\ tt[n].end_time = ts /\ n = l + 1
      BY <1>2, <2>2
    <3>2. \A i \in 1 .. m : q[i].session # n
      BY <1>3, <1>7, <3>1
    <3>3. \A i \in 1 .. m + 1 : r[i].session = n => r[i].time = ts
      BY <1>3, <1>4, <3>2
    <3>4. r[m + 1].session = n /\ r[m + 1].time = ts /\ m + 1 \in DOMAIN r
      BY <1>3, <1>4
    <3>5. \A i \in DOMAIN r : r[i].session = n => r[i].time <= tt[n].end_time
      BY <1>4, <3>1, <3>3
    <3>. QED
      BY <2>2, <3>1, <3>4, <3>5 DEF Spans
  <2>3. CASE k = n /\ ~opens
    <3>1. /\ n = l /\ n \in 1 .. l /\ tt[n].start_time = ss[n].start_time
          /\ tt[n].end_time = IF ts > ss[n].end_time THEN ts ELSE ss[n].end_time
      BY <1>2, <1>12, <2>3
    <3>2. Spans(q, n, ss[n])
      BY <1>8, <3>1
    <3>3. \A i \in 1 .. m + 1 : r[i].time <= tt[n].end_time
      BY <1>3, <1>4, <1>13, <1>14
    <3>4. /\ \E i \in 1 .. m : r[i].session = n /\ r[i].time = ss[n].start_time
          /\ \E i \in 1 .. m : r[i].session = n /\ r[i].time = ss[n].end_time
      BY <1>3, <1>4, <3>2 DEF Spans
    <3>5. r[m + 1].session = n /\ r[m + 1].time = ts
      BY <1>3, <1>4
    <3>6. \E i \in 1 .. m + 1 : r[i].session = n /\ r[i].time = tt[n].end_time
      <4>1. CASE ts > ss[n].end_time
        BY <1>4, <3>1, <3>5, <4>1
      <4>2. CASE ~(ts > ss[n].end_time)
        BY <1>4, <3>1, <3>4, <4>2
      <4>. QED
        BY <4>1, <4>2
    <3>. QED
      BY <1>4, <2>3, <3>1, <3>3, <3>4, <3>6 DEF Spans
  <2>. QED
    BY <2>1, <2>2, <2>3
<1>18. Grouped(r, tt)
  BY <1>2, <1>4, <1>16, <1>17 DEF Grouped
<1>. QED
  BY <1>15, <1>18

LEMMA BecomesJoins ==
    ASSUME TrackerOK, NEW ts \in Int, NEW u, Becomes(SessionsFor(ts), u, ts),
           seen' = Append(seen, [time |-> ts, session |-> Len(SessionsFor(ts))]),
           u.end_time = LET s == SessionsFor(ts)[Len(SessionsFor(ts))]
                        IN IF ts > s.end_time THEN ts ELSE s.end_time
    PROVE  Joins(sessions, sessions', ts, Len(SessionsFor(ts)))
<1>1. PICK current, n, l : current = SessionsFor(ts) /\ n = Len(current) /\ l = Len(sessions)
  OBVIOUS
<1>2. /\ Len(sessions') = n /\ DOMAIN sessions' = 1 .. n /\ n \in Nat \ {0} /\ sessions'[n] = u
      /\ \A k \in 1 .. n : k # n => sessions'[k] = current[k]
  BY <1>1, BecomesFacts
<1>3. /\ Continues(sessions, current)
      /\ IF NeedsSession(ts) THEN n = l + 1 /\ current[n] = SessionCreate(ts)
         ELSE sessions # <<>> /\ current = sessions
  BY <1>1, CurrentFacts
<1>4. l \in Nat /\ DOMAIN sessions = 1 .. l
  BY <1>1 DEF TrackerOK
<1>5. NeedsSession(ts) = IF sessions = <<>> THEN TRUE ELSE ts - sessions[l].end_time > Gap
  BY <1>1 DEF NeedsSession, Last
<1>6. /\ u.start_time = current[n].start_time
      /\ u.end_time = IF ts > current[n].end_time THEN ts ELSE current[n].end_time
  BY <1>1 DEF Becomes
<1>7. ASSUME NEW k \in 1 .. n, k # n
      PROVE  /\ sessions'[k].start_time = sessions[k].start_time
             /\ sessions'[k].end_time = sessions[k].end_time
  <2>1. k \in 1 .. l
    BY <1>1, <1>2, <1>3, <1>4, <1>7
  <2>2. current[k].start_time = sessions[k].start_time /\ current[k].end_time = sessions[k].end_time
    BY <1>3, <1>4, <2>1 DEF Continues
  <2>. QED
    BY <1>2, <1>7, <2>2
<1>8. CASE NeedsSession(ts)
  <2>1. current[n].start_time = ts /\ current[n].end_time = ts /\ n = l + 1
    BY <1>3, <1>8 DEF SessionCreate
  <2>2. u.start_time = ts /\ u.end_time = ts
    BY <1>6, <2>1
  <2>. QED
    BY <1>1, <1>2, <1>5, <1>7, <1>8, <2>1, <2>2 DEF Joins
<1>9. CASE ~NeedsSession(ts)
  <2>1. current = sessions /\ n = l
    BY <1>1, <1>3, <1>9
  <2>. QED
    BY <1>1, <1>2, <1>5, <1>6, <1>7, <1>9, <2>1 DEF Joins
<1>. QED
  BY <1>8, <1>9

\* Only the times of the sessions count.
LEMMA GroupedSame ==
    ASSUME NEW q \in Seq(SeenEvent), NEW ss \in Seq(Session), NEW tt,
           Grouped(q, ss), Orderly(q, ss), Continues(ss, tt), Len(tt) = Len(ss)
    PROVE  Grouped(q, tt) /\ Orderly(q, tt)
<1>1. PICK l : l = Len(ss)
  OBVIOUS
<1>2. /\ l \in Nat /\ tt \in Seq(Session) /\ DOMAIN ss = 1 .. l /\ DOMAIN tt = 1 .. l
      /\ \A k \in 1 .. l : tt[k].start_time = ss[k].start_time /\ tt[k].end_time = ss[k].end_time
  <2>1. tt \in Seq(Session) /\ DOMAIN ss = 1 .. l /\ l \in Nat
    BY <1>1 DEF Continues
  <2>. QED
    BY <1>1, <2>1 DEF Continues
<1>3. ss = <<>> <=> tt = <<>>
  BY <1>1, <1>2
<1>4. Grouped(q, tt)
  BY <1>2 DEF Grouped, Spans
<1>5. \A i \in DOMAIN q : q[i].session \in 1 .. l /\ q[i].time <= ss[l].end_time
  BY <1>1, <1>2 DEF Orderly
<1>6. \A i \in DOMAIN q : l \in 1 .. l
  BY <1>2, <1>5
<1>. QED
  BY <1>1, <1>2, <1>3, <1>4, <1>5, <1>6 DEF Orderly

LEMMA GroupedStep ==
    ASSUME TrackerOK, DriverOK, NoneRefused => Grouped(seen, sessions) /\ Orderly(seen, sessions),
           [Next]_vars, NoneRefused'
    PROVE  (Grouped(seen, sessions) /\ Orderly(seen, sessions))'
<1>1. /\ seen \in Seq(SeenEvent) /\ Len(seen) <= events /\ events \in Nat /\ Len(seen) \in Nat
      /\ sessions \in Seq(Session)
  BY DEF DriverOK, TrackerOK
<1>2. CASE AnalyzeEntry \/ StreamEvent
  <2>1. events' = events + 1
    BY <1>2 DEF AnalyzeEntry, StreamEvent
  <2>2. seen' # seen
    BY <1>1, <2>1 DEF NoneRefused
  <2>3. PICK ts \in Int : \/ Rejected(ts) \/ \E u : Becomes(SessionsFor(ts), u, ts)
    BY <1>2, AnEvent
  <2>4. PICK u : Becomes(SessionsFor(ts), u, ts)
    BY <2>2, <2>3 DEF Rejected
  <2>5. PICK n : n = Len(SessionsFor(ts))
    OBVIOUS
  <2>6. /\ seen' = Append(seen, [time |-> ts, session |-> n])
        /\ u.end_time = IF ts > SessionsFor(ts)[n].end_time THEN ts ELSE SessionsFor(ts)[n].end_time
    BY <2>2, <2>4, <2>5 DEF Becomes
  <2>7. NoneRefused
    <3>1. Len(seen') = Len(seen) + 1
      BY <1>1, <2>6
    <3>. QED
      BY <1>1, <2>1, <3>1 DEF NoneRefused
  <2>8. Joins(sessions, sessions', ts, n)
    BY <2>4, <2>5, <2>6, BecomesJoins
  <2>9. Grouped(seen, sessions) /\ Orderly(seen, sessions)
    BY <2>7
  <2>10. Grouped(seen', sessions') /\ Orderly(seen', sessions')
    BY <1>1, <2>6, <2>8, <2>9, GroupedAppend
  <2>. QED
    BY <2>10
<1>3. CASE Analyzed
  <2>1. /\ seen' = seen /\ events' = events
        /\ Continues(sessions, sessions') /\ Len(sessions') = Len(sessions)
    BY <1>3, FinalizedFacts DEF Analyzed
  <2>2. Grouped(seen, sessions) /\ Orderly(seen, sessions)
    BY <2>1 DEF NoneRefused
  <2>3. Grouped(seen, sessions') /\ Orderly(seen, sessions')
    BY <1>1, <2>1, <2>2, GroupedSame
  <2>. QED
    BY <2>1, <2>3
<1>4. CASE StreamEnds \/ UNCHANGED vars
  <2>1. seen' = seen /\ events' = events /\ sessions' = sessions
    BY <1>4 DEF StreamEnds, vars, trackerVars
  <2>. QED
    BY <2>1 DEF NoneRefused
<1>. QED
  BY <1>2, <1>3, <1>4 DEF Next

-----------------------------------------------------------------------------
(* The theorems.                                                           *)

\* The inductive invariant holds of every reachable state, in both drivers, with every
\* capacity and limit, memory failing anywhere.
THEOREM Invariance == Spec => []IInv
<1>1. Init => IInv
  <2> SUFFICES ASSUME Init PROVE IInv
    OBVIOUS
  <2>1. TrackerOK /\ DriverOK
    BY InitOK
  <2>2. sessions = <<>> /\ DOMAIN sessions = {} /\ seen = <<>> /\ DOMAIN seen = {}
        /\ Len(sessions) = 0 /\ ~finished /\ summary = NoSummary
    BY DEF Init
  <2>3. DurationsOK /\ LongestOfAll
    BY <2>2 DEF DurationsOK, LongestOfAll
  <2>4. Cardinality(After(seen)) = 0
    <3>1. After(seen) = {}
      BY <2>2 DEF After
    <3>. QED
      BY <3>1, FS_EmptySet
  <2>5. Grouped(seen, sessions) /\ Orderly(seen, sessions)
    BY <2>2, <2>4 DEF Grouped, Orderly
  <2>. QED
    BY <2>1, <2>3, <2>5 DEF IInv
<1>2. IInv /\ [Next]_vars => IInv'
  <2> SUFFICES ASSUME IInv, [Next]_vars PROVE IInv'
    OBVIOUS
  <2>1. TrackerOK /\ DriverOK /\ DurationsOK /\ LongestOfAll
    BY DEF IInv
  <2>2. NoneRefused => Grouped(seen, sessions) /\ Orderly(seen, sessions)
    BY DEF IInv
  <2>3. TrackerOK' /\ DriverOK'
    BY <2>1, TrackerStep, DriverStep
  <2>4. DurationsOK' /\ LongestOfAll'
    BY <2>1, DurationsStep, LongestStep
  <2>5. (NoneRefused => Grouped(seen, sessions) /\ Orderly(seen, sessions))'
    BY <2>1, <2>2, GroupedStep
  <2>. QED
    BY <2>3, <2>4, <2>5 DEF IInv
<1>. QED
  BY <1>1, <1>2, PTL DEF Spec

\* The active tab of a session is an open one, and there is none only when no tab is
\* open, for any stream of events and any failure of memory.
THEOREM ActiveTabIsOpen == Spec => []ActiveTabOpen
<1>1. IInv => ActiveTabOpen
  BY DEF IInv, TrackerOK, SessionOK, TabsOK, ActiveIsOpen, ActiveTabOpen
<1>. QED
  BY <1>1, Invariance, PTL

\* The numbers a session keeps are those of its tabs and of its state machine, within
\* the capacities and the limits.
THEOREM CountsAlwaysAgree == Spec => []CountsAgree
<1>1. IInv => CountsAgree
  <2> SUFFICES ASSUME TrackerOK, DriverOK PROVE CountsAgree
    BY DEF IInv
  <2>1. TypeOK
    <3>1. session_capacity \in Nat
      BY TrackerAssumption DEF TrackerOK
    <3>. QED
      BY <3>1 DEF TrackerOK, DriverOK, SeenEvent, TypeOK
  <2>2. \A k \in DOMAIN sessions : TabsOK(sessions[k]) /\ StatesCounted(sessions[k])
    BY DEF TrackerOK, SessionOK
  <2>3. PagesAgree
    <3> SUFFICES ASSUME NEW k \in DOMAIN sessions
                 PROVE  LET s     == sessions[k]
                            loads == MapThenSumSet(LAMBDA i : s.tabs[i].page_loads, DOMAIN s.tabs)
                        IN s.page_count = loads \/ (OutOfMemory /\ s.page_count > loads)
      BY DEF PagesAgree
    <3>1. PagesCounted(sessions[k]) /\ sessions[k].tabs \in Seq(Tab)
      BY <2>2, SessionFacts DEF TabsOK
    <3>2. MapThenSumSet(LAMBDA i : sessions[k].tabs[i].page_loads, DOMAIN sessions[k].tabs)
            = Loads(sessions[k].tabs)
      BY <3>1, LoadsIsSum
    <3>. QED
      BY <3>1, <3>2 DEF PagesCounted
  <2>4. WithinCapacity
    <3>1. Len(sessions) <= session_capacity /\ session_capacity <= MaxSessions
      BY TrackerAssumption DEF TrackerOK
    <3>2. \A k \in DOMAIN sessions : sessions[k].tab_capacity <= MaxTabs
      BY <2>2, TrackerAssumption DEF TabsOK
    <3>. QED
      BY <2>2, <3>1, <3>2 DEF WithinCapacity, TabsOK, DistinctIds
  <2>5. CountedTransitions
    <3>1. \A k \in DOMAIN sessions : sessions[k] \in Session
      BY <2>2 DEF TabsOK
    <3>2. ASSUME NEW k \in DOMAIN sessions, NEW x \in States
          PROVE  MapThenSumSet(LAMBDA y : sessions[k].transitions[<<y, x>>], States)
                   - MapThenSumSet(LAMBDA y : sessions[k].transitions[<<x, y>>], States)
                 = (IF x = sessions[k].state THEN 1 ELSE 0) - (IF x = "ACTIVE" THEN 1 ELSE 0)
      <4>1. MapThenSumSet(LAMBDA y : sessions[k].transitions[<<y, x>>], States)
              = SumOf(IntoOf(sessions[k], x), States)
        BY <3>1, IntoIsSum
      <4>2. MapThenSumSet(LAMBDA y : sessions[k].transitions[<<x, y>>], States)
              = SumOf(OutOfOf(sessions[k], x), States)
        BY <3>1, OutOfIsSum
      <4>. QED
        BY <2>2, <4>1, <4>2 DEF StatesCounted, Is
    <3>. QED
      BY <3>2 DEF CountedTransitions, TrackerOK
  <2>. QED
    BY <2>1, <2>3, <2>4, <2>5 DEF CountsAgree
<1>. QED
  BY <1>1, Invariance, PTL

\* Nothing happens to a tab that was closed or to a session that is over.
THEOREM ClosedTabsStayClosed == Spec => ClosedStaysClosed
<1>1. IInv /\ [Next]_vars => [KeepsClosed]_vars
  BY ClosedStep DEF IInv
<1>2. ClosedStaysClosed <=> [][KeepsClosed]_vars
  BY DEF ClosedStaysClosed, KeepsClosed
<1>. QED
  BY <1>1, <1>2, Invariance, PTL DEF Spec

\* As long as no event is refused, the sessions are those that the gaps between all the
\* times make, and a session reaches from its first event to its latest.
THEOREM SessionsFollowGaps == Spec => []GroupedByGaps
<1>1. IInv => GroupedByGaps
  <2>1. CASE NoneRefused
    BY <2>1, GroupedMeans DEF IInv
  <2>2. CASE ~NoneRefused
    BY <2>2 DEF NoneRefused, GroupedByGaps
  <2>. QED
    BY <2>1, <2>2
<1>. QED
  BY <1>1, Invariance, PTL

\* After an analysis no session lasts longer than the one called the longest, by as
\* much as whole seconds and a float of minutes can tell.
THEOREM LongestIsLongest == Spec => []LongestOfAll
<1>1. IInv => LongestOfAll
  BY DEF IInv
<1>. QED
  BY <1>1, Invariance, PTL
=============================================================================
