--------------------------- MODULE TabHistoryProofs ---------------------------
(* Proofs about the tabs of the session tracker: what the functions of     *)
(* TabContext.tla do to a tab, which those about whole sessions rest on    *)
(* too, and of one tab by itself, TabHistory.tla, that its position stays  *)
(* in its array and that it is a back/forward list.                        *)
EXTENDS TabHistory, SequenceTheorems, TLAPS

-----------------------------------------------------------------------------
(* A tab that is bounded stays bounded, also when memory runs out half way. *)


\* The position of the page that is shown: a visit that failed after its shift has
\* left nav_position one past the last URL.
ShownAt(t) == IF t.nav_position < Len(t.nav_history) THEN t.nav_position
              ELSE Len(t.nav_history) - 1

\* A position past the last URL leaves a free slot: the shift that led to it has made
\* one.  Without this a second failure could shift again and leave it two past.
Bounded(t) ==
    /\ t \in Tab
    /\ t.nav_capacity \in 1..MaxChain
    /\ Len(t.nav_history) <= t.nav_capacity
    /\ \/ t.nav_position < Len(t.nav_history)
       \/ /\ OutOfMemory
          /\ t.nav_position = Len(t.nav_history)
          /\ Len(t.nav_history) < t.nav_capacity
    /\ t.nav_position = -1 => Len(t.nav_history) = 0
    /\ t.current_url = IF Len(t.nav_history) = 0 THEN NoUrl
                       ELSE t.nav_history[ShownAt(t) + 1]

\* What the fields of a tab are, and the numbers in it.
LEMMA TabFacts ==
    ASSUME NEW t \in Tab
    PROVE  /\ t.tab_id \in Nat \ {0} /\ t.is_active \in BOOLEAN
           /\ t.nav_history \in Seq(Urls) /\ Len(t.nav_history) \in Nat
           /\ t.nav_capacity \in Nat /\ t.nav_position \in Nat \cup {-1}
           /\ t.current_url \in Url /\ t.referrer_url \in Url /\ t.page_loads \in Nat
           /\ \A i \in 1..Len(t.nav_history) : t.nav_history[i] \in Urls
BY DEF Tab

LEMMA BoundedCreate ==
    ASSUME NEW id \in Nat \ {0}
    PROVE  Bounded(TabCreate(id))
<1>1. PICK t : t = TabCreate(id)
  OBVIOUS
<1>2. t \in Tab
  BY <1>1, TabAssumption DEF TabCreate, Tab, Url
<1>3. /\ t.nav_history = <<>> /\ t.nav_position = -1 /\ t.nav_capacity = NavCapacity
      /\ t.current_url = NoUrl
  BY <1>1 DEF TabCreate
<1>4. NavCapacity \in 1..MaxChain /\ MaxChain \in Nat
  BY TabAssumption
<1>. QED
  BY <1>1, <1>2, <1>3, <1>4 DEF Bounded

-----------------------------------------------------------------------------
(* tab_navigate, step by step.                                             *)

\* Nothing is forward of the position of a tab that has been cut.
AtItsEnd(t) == Bounded(t) /\ t.nav_position >= Len(t.nav_history) - 1

\* Cutting keeps the URLs up to the one that is shown.
LEMMA CutFacts ==
    ASSUME NEW t, Bounded(t)
    PROVE  LET cut == Truncated(t)
               n   == Len(t.nav_history)
           IN /\ AtItsEnd(cut)
              /\ cut.nav_history = IF n = 0 THEN <<>> ELSE SubSeq(t.nav_history, 1, ShownAt(t) + 1)
              /\ Len(cut.nav_history) = IF n = 0 THEN 0 ELSE ShownAt(t) + 1
              /\ \A f \in {"tab_id", "is_active", "nav_capacity", "nav_position", "current_url",
                           "referrer_url", "page_loads"} : cut[f] = t[f]
<1> DEFINE h == t.nav_history  p == t.nav_position  n == Len(h)
           cut == Truncated(t)
<1>1. t \in Tab /\ h \in Seq(Urls) /\ n \in Nat /\ p \in Nat \cup {-1} /\ t.nav_capacity \in Nat
  BY TabFacts DEF Bounded
<1>2. CASE p \in 0 .. n - 2
  <2>1. PICK s : s = SubSeq(h, 1, p + 1)
    OBVIOUS
  <2>2. s \in Seq(Urls) /\ Len(s) = p + 1 /\ \A i \in 1 .. p + 1 : s[i] = h[i]
    BY <1>1, <1>2, <2>1, SubSeqProperties
  <2>3. cut = [t EXCEPT !.nav_history = s]
    BY <1>2, <2>1 DEF Truncated
  <2>4. cut \in Tab
    BY <1>1, <2>2, <2>3 DEF Tab
  <2>5. /\ cut.nav_history = s
        /\ cut.nav_capacity = t.nav_capacity /\ cut.nav_position = p
        /\ cut.current_url = t.current_url /\ cut.tab_id = t.tab_id
        /\ cut.is_active = t.is_active /\ cut.referrer_url = t.referrer_url
        /\ cut.page_loads = t.page_loads
    BY <1>1, <2>3 DEF Tab
  <2>6. ShownAt(t) = p /\ ShownAt(cut) = p /\ n # 0
    BY <1>1, <1>2, <2>2, <2>5 DEF ShownAt
  <2>7. t.current_url = h[p + 1] /\ n <= t.nav_capacity /\ t.nav_capacity \in 1..MaxChain
    BY <2>6 DEF Bounded
  <2> HIDE DEF cut
  <2>8. Bounded(cut)
    BY <1>1, <1>2, <2>2, <2>4, <2>5, <2>6, <2>7 DEF Bounded
  <2>9. AtItsEnd(cut)
    BY <2>8, <2>2, <2>5, <1>1, <1>2 DEF AtItsEnd
  <2>. QED
    BY <2>1, <2>2, <2>5, <2>6, <2>9 DEF cut
<1>3. CASE p \notin 0 .. n - 2
  <2>1. cut = t
    BY <1>3 DEF Truncated
  <2>2. p >= n - 1
    BY <1>1, <1>3 DEF Bounded
  <2>3. ShownAt(t) = n - 1
    BY <1>1, <2>2 DEF ShownAt, Bounded
  <2>4. n # 0 => SubSeq(h, 1, n) = h
    BY <1>1, SubSeqFull
  <2>5. n = 0 => h = <<>>
    BY <1>1, EmptySeq
  <2>6. AtItsEnd(cut)
    BY <1>1, <2>1, <2>2 DEF AtItsEnd
  <2>7. h = IF n = 0 THEN <<>> ELSE SubSeq(h, 1, ShownAt(t) + 1)
    <3>1. ShownAt(t) + 1 = n
      BY <1>1, <2>3
    <3>. QED
      BY <2>4, <2>5, <3>1
  <2>8. n = IF n = 0 THEN 0 ELSE ShownAt(t) + 1
    BY <1>1, <2>3
  <2>. QED
    BY <2>1, <2>6, <2>7, <2>8
<1>. QED
  BY <1>2, <1>3

\* Making room leaves a free slot.  At the limit the first URL goes, and the position,
\* which is not moved, is one past the last.
LEMMA RoomFacts ==
    ASSUME NEW t, AtItsEnd(t)
    PROVE  LET roomy == WithRoom(t)
               h     == t.nav_history
           IN /\ roomy \in Tab
              /\ roomy.nav_capacity \in 1..MaxChain
              /\ Len(roomy.nav_history) < roomy.nav_capacity
              /\ roomy.nav_history = IF Len(h) >= MaxChain THEN Tail(h) ELSE h
              /\ roomy.nav_capacity # t.nav_capacity => roomy.nav_history = h
              /\ Len(h) >= MaxChain => h # <<>> /\ Len(h) = MaxChain /\ t.nav_position = Len(h) - 1
              /\ roomy.nav_position = t.nav_position
              /\ roomy.tab_id = t.tab_id /\ roomy.is_active = t.is_active
              /\ roomy.current_url = t.current_url /\ roomy.referrer_url = t.referrer_url
              /\ roomy.page_loads = t.page_loads
<1> DEFINE h == t.nav_history  n == Len(h)  c == t.nav_capacity
           roomy == WithRoom(t)  larger == Doubled(c, MaxChain)
<1>1. /\ t \in Tab /\ h \in Seq(Urls) /\ n \in Nat /\ c \in 1..MaxChain /\ n <= c
      /\ MaxChain \in Nat \ {0, 1}
  BY TabFacts, TabAssumption DEF AtItsEnd, Bounded
<1>2. larger \in 1..MaxChain /\ (larger > c \/ (larger = c /\ c = MaxChain) \/ larger = MaxChain)
  BY <1>1 DEF Doubled
<1>3. n >= MaxChain => n = MaxChain /\ h # <<>>
  BY <1>1
<1>4. n >= MaxChain => t.nav_position = n - 1
  BY <1>1, TabFacts DEF AtItsEnd, Bounded
<1>5. CASE n < c
  <2>1. roomy = t /\ ~(n >= MaxChain)
    BY <1>1, <1>5 DEF WithRoom
  <2>. QED
    BY <1>1, <1>3, <1>4, <1>5, <2>1
<1>6. CASE ~(n < c) /\ n < larger
  <2>1. roomy = [t EXCEPT !.nav_capacity = larger] /\ ~(n >= MaxChain)
    BY <1>1, <1>2, <1>6 DEF WithRoom
  <2>2. roomy \in Tab /\ roomy.nav_capacity = larger /\ roomy.nav_history = h
        /\ roomy.nav_position = t.nav_position /\ roomy.current_url = t.current_url
        /\ roomy.referrer_url = t.referrer_url /\ roomy.tab_id = t.tab_id
        /\ roomy.is_active = t.is_active /\ roomy.page_loads = t.page_loads
    BY <1>1, <1>2, <2>1 DEF Tab
  <2> HIDE DEF roomy, larger
  <2>. QED
    BY <1>2, <1>6, <2>1, <2>2 DEF roomy
<1>7. CASE ~(n < c) /\ ~(n < larger)
  <2>1. n = MaxChain /\ c = MaxChain /\ h # <<>>
    BY <1>1, <1>2, <1>7 DEF Doubled
  <2>2. PICK s : s = Tail(h)
    OBVIOUS
  <2>3. s \in Seq(Urls) /\ Len(s) = n - 1
    BY <1>1, <2>1, <2>2, HeadTailProperties
  <2>4. roomy = [t EXCEPT !.nav_history = s]
    BY <1>7, <2>2 DEF WithRoom
  <2>5. roomy \in Tab /\ roomy.nav_capacity = c /\ roomy.nav_history = s
        /\ roomy.nav_position = t.nav_position /\ roomy.current_url = t.current_url
        /\ roomy.referrer_url = t.referrer_url /\ roomy.tab_id = t.tab_id
        /\ roomy.is_active = t.is_active /\ roomy.page_loads = t.page_loads
    BY <1>1, <2>3, <2>4 DEF Tab
  <2> HIDE DEF roomy
  <2>. QED
    BY <1>1, <1>3, <1>4, <2>1, <2>2, <2>3, <2>5 DEF roomy
<1>. QED
  BY <1>5, <1>6, <1>7

\* A tab with room is bounded: with a position past its end only when memory can fail.
LEMMA RoomBounded ==
    ASSUME NEW t, AtItsEnd(t), OutOfMemory, NEW r \in Url
    PROVE  Bounded([WithRoom(t) EXCEPT !.referrer_url = r])
<1> DEFINE h == t.nav_history  n == Len(h)  roomy == WithRoom(t)
<1>1. PICK u : u = [roomy EXCEPT !.referrer_url = r]
  OBVIOUS
<1>2. PICK k : k = roomy.nav_history
  OBVIOUS
<1>3. /\ roomy \in Tab /\ roomy.nav_capacity \in 1..MaxChain
      /\ Len(k) < roomy.nav_capacity /\ k = IF n >= MaxChain THEN Tail(h) ELSE h
      /\ n >= MaxChain => h # <<>> /\ n = MaxChain /\ t.nav_position = n - 1
      /\ roomy.nav_position = t.nav_position /\ roomy.current_url = t.current_url
  BY <1>2, RoomFacts
<1> SUFFICES Bounded(u)
  BY <1>1
<1> HIDE DEF roomy
<1>4. u \in Tab /\ u.nav_history = k /\ u.nav_capacity = roomy.nav_capacity
      /\ u.nav_position = t.nav_position /\ u.current_url = t.current_url
  BY <1>1, <1>2, <1>3 DEF Tab
<1>5. /\ h \in Seq(Urls) /\ n \in Nat /\ t.nav_position \in Nat \cup {-1} /\ k \in Seq(Urls)
      /\ u.nav_capacity \in 1..MaxChain /\ MaxChain \in Nat \ {0, 1}
  BY <1>3, <1>4, TabFacts, TabAssumption DEF AtItsEnd, Bounded
<1>6. /\ t.nav_position >= n - 1 /\ t.nav_position <= n
      /\ t.nav_position = -1 => n = 0
      /\ t.current_url = IF n = 0 THEN NoUrl ELSE h[n]
  BY <1>5 DEF AtItsEnd, Bounded, ShownAt
<1>7. CASE n >= MaxChain
  <2>1. k = Tail(h) /\ Len(k) = n - 1 /\ n >= 2 /\ t.nav_position = n - 1
    BY <1>3, <1>5, <1>7, HeadTailProperties
  <2>2. k[n - 1] = h[n]
    BY <1>3, <1>5, <1>7, <2>1, HeadTailProperties
  <2>3. ShownAt(u) = n - 2
    BY <1>4, <1>5, <2>1 DEF ShownAt
  <2>4. /\ Len(k) <= u.nav_capacity
        /\ t.nav_position = Len(k) /\ Len(k) < u.nav_capacity /\ t.nav_position # -1
        /\ t.current_url = k[ShownAt(u) + 1] /\ Len(k) # 0
    BY <1>3, <1>4, <1>5, <1>6, <2>1, <2>2, <2>3
  <2>. QED
    BY <1>1, <1>4, <1>5, <2>4 DEF Bounded
<1>8. CASE n < MaxChain
  <2>1. k = h /\ ShownAt(u) = n - 1
    BY <1>3, <1>4, <1>5, <1>6, <1>8 DEF ShownAt
  <2>2. /\ Len(k) <= u.nav_capacity
        /\ t.nav_position < Len(k) \/ (t.nav_position = Len(k) /\ Len(k) < u.nav_capacity)
        /\ t.nav_position = -1 => Len(k) = 0
    BY <1>3, <1>4, <1>5, <1>6, <2>1
  <2>3. t.current_url = IF Len(k) = 0 THEN NoUrl ELSE k[ShownAt(u) + 1]
    BY <1>5, <1>6, <2>1
  <2>. QED
    BY <1>1, <1>4, <1>5, <2>2, <2>3 DEF Bounded
<1>. QED
  BY <1>5, <1>7, <1>8

\* A visit that succeeds shows its URL, at the end of the array.
LEMMA PushFacts ==
    ASSUME NEW t, AtItsEnd(t), NEW url \in Urls
    PROVE  LET pushed == Pushed(WithRoom(t), url)
               k      == WithRoom(t).nav_history
           IN /\ Bounded(pushed)
              /\ pushed.nav_history = Append(k, url) /\ k \in Seq(Urls)
              /\ pushed.nav_position = Len(k) /\ pushed.current_url = url
              /\ pushed.page_loads = t.page_loads + 1
              /\ pushed.tab_id = t.tab_id /\ pushed.is_active = t.is_active
<1> DEFINE roomy == WithRoom(t)  k == roomy.nav_history
<1>1. PICK u : u = Pushed(roomy, url)
  OBVIOUS
<1>2. /\ roomy \in Tab /\ roomy.nav_capacity \in 1..MaxChain /\ Len(k) < roomy.nav_capacity
      /\ roomy.page_loads = t.page_loads
      /\ roomy.tab_id = t.tab_id /\ roomy.is_active = t.is_active
  BY RoomFacts
<1>3. k \in Seq(Urls) /\ Len(k) \in Nat
  BY <1>2, TabFacts
<1> HIDE DEF roomy
<1>4. /\ u \in Tab /\ u.nav_history = Append(k, url) /\ u.nav_position = Len(k)
      /\ u.current_url = url /\ u.page_loads = roomy.page_loads + 1
      /\ u.nav_capacity = roomy.nav_capacity
      /\ u.tab_id = roomy.tab_id /\ u.is_active = roomy.is_active
  <2>1. PICK a, q, loads, c : a = Append(k, url) /\ q = Len(k) /\ loads = roomy.page_loads + 1
                              /\ c = roomy.current_url
    OBVIOUS
  <2>2. a \in Seq(Urls) /\ q \in Nat /\ loads \in Nat /\ c \in Url /\ url \in Url
    BY <1>2, <1>3, <2>1, TabFacts DEF Url
  <2>3. u = [roomy EXCEPT !.nav_history = a, !.nav_position = q, !.referrer_url = c,
                          !.current_url = url, !.page_loads = loads]
    BY <1>1, <2>1 DEF Pushed
  <2>4. /\ u \in Tab /\ u.nav_history = a /\ u.nav_position = q /\ u.current_url = url
        /\ u.page_loads = loads /\ u.nav_capacity = roomy.nav_capacity
        /\ u.tab_id = roomy.tab_id /\ u.is_active = roomy.is_active
    BY <1>2, <2>2, <2>3 DEF Tab
  <2>. QED
    BY <2>1, <2>4
<1>5. Len(u.nav_history) = Len(k) + 1 /\ u.nav_history[Len(k) + 1] = url
  BY <1>3, <1>4
<1>6. Bounded(u)
  <2>1. ShownAt(u) = Len(k)
    BY <1>3, <1>4, <1>5 DEF ShownAt
  <2>2. /\ Len(u.nav_history) <= u.nav_capacity /\ u.nav_position < Len(u.nav_history)
        /\ u.nav_position # -1 /\ Len(u.nav_history) # 0
    BY <1>2, <1>3, <1>4, <1>5
  <2>. QED
    BY <1>2, <1>4, <1>5, <2>1, <2>2 DEF Bounded
<1>. QED
  BY <1>1, <1>2, <1>3, <1>4, <1>6 DEF roomy

\* The three ways a navigation can end, each from the tab cut at its position.
LEMMA NavigateCases ==
    ASSUME NEW t, NEW url, NEW u \in TabNavigate(t, url)
    PROVE  LET cut == Truncated(t)
           IN \/ u = Pushed(WithRoom(cut), url)
              \/ OutOfMemory /\ u = [WithRoom(cut) EXCEPT !.referrer_url = t.current_url]
              \/ OutOfMemory /\ u = cut /\ WithRoom(cut).nav_capacity # cut.nav_capacity
BY DEF TabNavigate

LEMMA BoundedNavigate ==
    ASSUME NEW t, Bounded(t), NEW url \in Urls, NEW u \in TabNavigate(t, url)
    PROVE  /\ Bounded(u)
           /\ u.tab_id = t.tab_id /\ u.is_active = t.is_active
           /\ \/ u.page_loads = t.page_loads + 1
              \/ OutOfMemory /\ u.page_loads = t.page_loads
<1>1. PICK cut : cut = Truncated(t)
  OBVIOUS
<1>2. /\ AtItsEnd(cut) /\ cut.tab_id = t.tab_id /\ cut.is_active = t.is_active
      /\ cut.page_loads = t.page_loads
  BY <1>1, CutFacts
<1>3. t.current_url \in Url
  BY TabFacts DEF Bounded
<1>4. CASE u = Pushed(WithRoom(cut), url)
  BY <1>2, <1>4, PushFacts
<1>5. CASE OutOfMemory /\ u = [WithRoom(cut) EXCEPT !.referrer_url = t.current_url]
  <2>1. Bounded(u)
    BY <1>2, <1>3, <1>5, RoomBounded
  <2>2. PICK r : r = WithRoom(cut)
    OBVIOUS
  <2>3. /\ r \in Tab /\ r.tab_id = cut.tab_id /\ r.is_active = cut.is_active
        /\ r.page_loads = cut.page_loads
    BY <1>2, <2>2, RoomFacts
  <2>4. u.tab_id = r.tab_id /\ u.is_active = r.is_active /\ u.page_loads = r.page_loads
    BY <1>5, <2>2, <2>3 DEF Tab
  <2>. QED
    BY <1>2, <1>5, <2>1, <2>3, <2>4
<1>6. CASE OutOfMemory /\ u = cut
  BY <1>2, <1>6 DEF AtItsEnd
<1>. QED
  BY <1>1, <1>4, <1>5, <1>6, NavigateCases

-----------------------------------------------------------------------------
(* tab_go_back, tab_go_forward and a reload.                               *)

\* What a move leaves, at a position of the array.
LEMMA MoveFacts ==
    ASSUME NEW t, Bounded(t), NEW p \in 0 .. Len(t.nav_history) - 1
    PROVE  LET m == MoveTo(t, p)
           IN /\ Bounded(m)
              /\ m.nav_history = t.nav_history /\ m.nav_position = p
              /\ m.current_url = t.nav_history[p + 1]
              /\ m.tab_id = t.tab_id /\ m.is_active = t.is_active /\ m.page_loads = t.page_loads
<1>1. PICK m : m = MoveTo(t, p)
  OBVIOUS
<1>2. /\ t \in Tab /\ t.nav_history \in Seq(Urls) /\ Len(t.nav_history) \in Nat
      /\ t.nav_history[p + 1] \in Urls /\ p \in Nat /\ p < Len(t.nav_history)
  BY TabFacts DEF Bounded
<1>3. m \in Tab
  BY <1>1, <1>2 DEF MoveTo, Tab, Url
<1>4. /\ m.nav_history = t.nav_history /\ m.nav_position = p
      /\ m.current_url = t.nav_history[p + 1] /\ m.nav_capacity = t.nav_capacity
      /\ m.tab_id = t.tab_id /\ m.is_active = t.is_active /\ m.page_loads = t.page_loads
  BY <1>1, <1>2 DEF MoveTo, Tab
<1>5. Bounded(m)
  BY <1>2, <1>3, <1>4 DEF Bounded, ShownAt
<1>. QED
  BY <1>1, <1>4, <1>5

LEMMA BoundedMoves ==
    ASSUME NEW t, Bounded(t), NEW u \in {TabGoBack(t), TabGoForward(t)}
    PROVE  /\ Bounded(u)
           /\ u.tab_id = t.tab_id /\ u.is_active = t.is_active /\ u.page_loads = t.page_loads
<1>1. \/ u = t
      \/ t.nav_position > 0 /\ u = MoveTo(t, t.nav_position - 1)
      \/ t.nav_position < Len(t.nav_history) - 1 /\ u = MoveTo(t, t.nav_position + 1)
  <2>1. t.nav_position \in Int /\ Len(t.nav_history) \in Nat
    BY TabFacts DEF Bounded
  <2>. QED
    BY <2>1 DEF TabGoBack, TabGoForward
<1>2. t.nav_position \in Nat \cup {-1} /\ Len(t.nav_history) \in Nat
  BY TabFacts DEF Bounded
<1>3. CASE t.nav_position > 0 /\ u = MoveTo(t, t.nav_position - 1)
  <2>1. t.nav_position - 1 \in 0 .. Len(t.nav_history) - 1
    BY <1>2, <1>3 DEF Bounded
  <2>. QED
    BY <1>3, <2>1, MoveFacts
<1>4. CASE t.nav_position < Len(t.nav_history) - 1 /\ u = MoveTo(t, t.nav_position + 1)
  <2>1. t.nav_position + 1 \in 0 .. Len(t.nav_history) - 1
    BY <1>2, <1>4
  <2>. QED
    BY <1>4, <2>1, MoveFacts
<1>. QED
  BY <1>1, <1>3, <1>4

LEMMA BoundedReload ==
    ASSUME NEW t, Bounded(t)
    PROVE  LET u == [t EXCEPT !.page_loads = @ + 1]
           IN /\ Bounded(u)
              /\ u.nav_history = t.nav_history /\ u.nav_position = t.nav_position
              /\ u.current_url = t.current_url
              /\ u.tab_id = t.tab_id /\ u.is_active = t.is_active
              /\ u.page_loads = t.page_loads + 1
<1>1. PICK u : u = [t EXCEPT !.page_loads = @ + 1]
  OBVIOUS
<1>2. /\ u \in Tab /\ u.nav_history = t.nav_history /\ u.nav_position = t.nav_position
      /\ u.current_url = t.current_url /\ u.nav_capacity = t.nav_capacity
      /\ u.tab_id = t.tab_id /\ u.is_active = t.is_active
      /\ u.page_loads = t.page_loads + 1
  BY <1>1 DEF Bounded, Tab
<1>3. Bounded(u)
  BY <1>2 DEF Bounded, ShownAt
<1>. QED
  BY <1>1, <1>2, <1>3

-----------------------------------------------------------------------------
(* One tab by itself.                                                      *)


\* Bounded is inductive; InBounds, which says nothing of the slot that a position past
\* the end leaves free, is not.
LEMMA BoundedInvariant == TabSpec => []Bounded(tab)
<1>1. TabInit => Bounded(tab)
  BY BoundedCreate DEF TabInit
<1>2. Bounded(tab) /\ [TabNext]_tab => Bounded(tab)'
  <2> SUFFICES ASSUME Bounded(tab), [TabNext]_tab
               PROVE  Bounded(tab')
    OBVIOUS
  <2>1. CASE ReloadTab
    BY <2>1, BoundedReload DEF ReloadTab
  <2>2. CASE Back \/ Forward
    BY <2>2, BoundedMoves DEF Back, Forward
  <2>3. ASSUME NEW url \in Urls, NavigateTab(url)
        PROVE  Bounded(tab')
    BY <2>3, BoundedNavigate DEF NavigateTab
  <2>. QED
    BY <2>1, <2>2, <2>3 DEF TabNext
<1>. QED
  BY <1>1, <1>2, PTL DEF TabSpec

\* InBounds is an invariant, for every limit of the array: whatever visits fail, what
\* tab_go_back and tab_go_forward read is a URL and current_url is the one at the
\* position.
THEOREM PositionInBounds == TabSpec => []InBounds
<1>1. Bounded(tab) => InBounds
  BY DEF Bounded, InBounds, TabTypeOK, Count, ShowsItsPosition, Position, ShownAt, Tab
<1>. QED
  BY <1>1, BoundedInvariant, PTL

-----------------------------------------------------------------------------
(* The refinement of BackForwardList, on the values t and u of a tab       *)
(* before and after a step.                                                *)

PastOf(t)   == SubSeq(t.nav_history, 1, ShownAt(t))
FutureOf(t) == SubSeq(t.nav_history, ShownAt(t) + 2, Len(t.nav_history))

KeptOf(pages) == IF Len(pages) >= MaxChain THEN Tail(pages) ELSE pages

ListVisit(t, u, url) ==
    /\ PastOf(u) = IF t.current_url = NoUrl THEN <<>>
                   ELSE KeptOf(Append(PastOf(t), t.current_url))
    /\ u.current_url = url
    /\ FutureOf(u) = <<>>

ListBack(t, u) ==
    /\ PastOf(t) # <<>>
    /\ u.current_url = PastOf(t)[Len(PastOf(t))]
    /\ PastOf(u) = SubSeq(PastOf(t), 1, Len(PastOf(t)) - 1)
    /\ FutureOf(u) = <<t.current_url>> \o FutureOf(t)

ListForward(t, u) ==
    /\ FutureOf(t) # <<>>
    /\ u.current_url = Head(FutureOf(t))
    /\ PastOf(u) = Append(PastOf(t), t.current_url)
    /\ FutureOf(u) = Tail(FutureOf(t))

ListForget(t, u) ==
    /\ OutOfMemory
    /\ t.current_url # NoUrl
    /\ FutureOf(u) = <<>>
    /\ \/ PastOf(u) = PastOf(t)
       \/ PastOf(t) # <<>> /\ PastOf(u) = Tail(PastOf(t))
    /\ u.current_url = t.current_url

ListSame(t, u) ==
    PastOf(u) = PastOf(t) /\ FutureOf(u) = FutureOf(t) /\ u.current_url = t.current_url

ListStep(t, u) ==
    \/ ListBack(t, u) \/ ListForward(t, u) \/ ListForget(t, u) \/ ListSame(t, u)
    \/ \E url \in Urls : ListVisit(t, u, url)

LEMMA ListStepIsNext ==
    ListStep(tab, tab') => [BackForward!Next]_(BackForward!vars)
<1> USE DEF PastOf, FutureOf, ShownAt, Position, Count
<1>1. ListBack(tab, tab') => BackForward!Back
  BY DEF ListBack, BackForward!Back, BackForward!Last, BackForward!Front
<1>2. ListForward(tab, tab') => BackForward!Forward
  BY DEF ListForward, BackForward!Forward
<1>3. ListForget(tab, tab') => BackForward!Forget
  BY DEF ListForget, BackForward!Forget
<1>4. ListSame(tab, tab') => UNCHANGED BackForward!vars
  BY DEF ListSame, BackForward!vars
<1>5. ASSUME NEW url \in Urls, ListVisit(tab, tab', url)
      PROVE  BackForward!Visit(url)
  BY <1>5 DEF ListVisit, BackForward!Visit, BackForward!Kept, KeptOf
<1>. QED
  BY <1>1, <1>2, <1>3, <1>4, <1>5 DEF ListStep, BackForward!Next

\* An empty tab shows nothing; any other shows the URL between its past and its future.
LEMMA ShownFacts ==
    ASSUME NEW t, Bounded(t)
    PROVE  LET h == t.nav_history
               n == Len(h)
               q == ShownAt(t)
           IN /\ h \in Seq(Urls) /\ n \in Nat
              /\ n = 0 => t.current_url = NoUrl /\ h = <<>> /\ q = -1
              /\ n # 0 => /\ q \in 0 .. n - 1
                          /\ t.current_url = h[q + 1]
                          /\ t.current_url \in Urls /\ t.current_url # NoUrl
<1>1. /\ t.nav_history \in Seq(Urls) /\ Len(t.nav_history) \in Nat
      /\ t.nav_position \in Nat \cup {-1}
  BY TabFacts DEF Bounded
<1>2. Len(t.nav_history) = 0 => t.nav_history = <<>> /\ ShownAt(t) = -1
                                /\ t.current_url = NoUrl
  BY <1>1, EmptySeq DEF Bounded, ShownAt
<1>3. Len(t.nav_history) # 0 => ShownAt(t) \in 0 .. Len(t.nav_history) - 1
  BY <1>1 DEF Bounded, ShownAt
<1>4. Len(t.nav_history) # 0 => t.current_url = t.nav_history[ShownAt(t) + 1]
  BY <1>1 DEF Bounded
<1>5. Len(t.nav_history) # 0 => t.nav_history[ShownAt(t) + 1] \in Urls
  BY <1>1, <1>3
<1>6. NoUrl \notin Urls
  BY TabAssumption
<1> HIDE DEF Bounded, ShownAt
<1>. QED
  BY <1>1, <1>2, <1>3, <1>4, <1>5, <1>6

LEMMA PastFacts ==
    ASSUME NEW t, Bounded(t), Len(t.nav_history) # 0
    PROVE  /\ PastOf(t) \in Seq(Urls) /\ Len(PastOf(t)) = ShownAt(t)
           /\ \A i \in 1 .. ShownAt(t) : PastOf(t)[i] = t.nav_history[i]
<1>1. ShownAt(t) \in 0 .. Len(t.nav_history) - 1 /\ t.nav_history \in Seq(Urls)
      /\ Len(t.nav_history) \in Nat
  BY ShownFacts
<1>. QED
  BY <1>1, SubSeqProperties DEF PastOf

\* The past and the page shown are the URLs up to it.
LEMMA PastAndShown ==
    ASSUME NEW t, Bounded(t), Len(t.nav_history) # 0
    PROVE  Append(PastOf(t), t.current_url) = SubSeq(t.nav_history, 1, ShownAt(t) + 1)
<1> DEFINE h == t.nav_history  q == ShownAt(t)
<1>1. /\ q \in 0 .. Len(h) - 1 /\ h \in Seq(Urls) /\ Len(h) \in Nat
      /\ t.current_url = h[q + 1] /\ t.current_url \in Urls
  BY ShownFacts
<1>2. SubSeq(h, 1, q + 1) = SubSeq(h, 1, q) \o <<h[q + 1]>>
  <2>1. 1 \in 1 .. Len(h) /\ q + 1 \in 1 .. Len(h) /\ (q + 1) - 1 = q
    BY <1>1
  <2>2. SubSeq(h, 1, q + 1) = SubSeq(h, 1, (q + 1) - 1) \o <<h[q + 1]>>
    BY <1>1, <2>1, SubSeqRecursiveSecond
  <2>. QED
    BY <2>1, <2>2
<1>3. Append(PastOf(t), t.current_url) = PastOf(t) \o <<t.current_url>>
  BY <1>1, PastFacts, AppendIsConcat
<1>. QED
  BY <1>1, <1>2, <1>3 DEF PastOf

LEMMA MoveIsListStep ==
    ASSUME NEW t, Bounded(t), NEW u \in {TabGoBack(t), TabGoForward(t)}
    PROVE  ListStep(t, u)
<1> DEFINE h == t.nav_history  n == Len(h)  p == t.nav_position
<1>1. h \in Seq(Urls) /\ n \in Nat /\ p \in Nat \cup {-1}
  BY TabFacts DEF Bounded
<1>2. \/ u = t
      \/ p > 0 /\ u = MoveTo(t, p - 1)
      \/ p < n - 1 /\ u = MoveTo(t, p + 1)
  BY <1>1 DEF TabGoBack, TabGoForward
<1>3. ASSUME p > 0, u = MoveTo(t, p - 1), p < n
      PROVE  ListBack(t, u)
  <2>1. ShownAt(t) = p /\ t.current_url = h[p + 1]
    BY <1>1, <1>3, ShownFacts DEF ShownAt
  <2>2. u.nav_history = h /\ u.nav_position = p - 1 /\ u.current_url = h[p]
    BY <1>1, <1>3, MoveFacts
  <2>3. ShownAt(u) = p - 1
    BY <1>1, <1>3, <2>2 DEF ShownAt
  <2>4. Len(PastOf(t)) = p /\ PastOf(t)[p] = h[p] /\ PastOf(t) # <<>>
    BY <1>1, <1>3, <2>1, PastFacts
  <2>5. SubSeq(SubSeq(h, 1, p), 1, p - 1) = SubSeq(h, 1, p - 1)
    <3>1. CASE p = 1
      BY <3>1, SubSeqEmpty
    <3>2. CASE p > 1
      BY <1>1, <1>3, <3>2, SubSeqOfSubSeq
    <3>. QED
      BY <1>1, <1>3, <3>1, <3>2
  <2>6. PastOf(u) = SubSeq(PastOf(t), 1, p - 1)
    BY <2>1, <2>2, <2>3, <2>5 DEF PastOf
  <2>7. SubSeq(h, p + 1, n) = <<h[p + 1]>> \o SubSeq(h, p + 2, n)
    <3>1. p + 1 \in 1 .. n /\ n \in p + 1 .. n /\ (p + 1) + 1 = p + 2
      BY <1>1, <1>3
    <3>. QED
      BY <1>1, <3>1, SubSeqRecursiveFirst
  <2>8. FutureOf(u) = SubSeq(h, p + 1, n) /\ FutureOf(t) = SubSeq(h, p + 2, n)
    <3>1. (p - 1) + 2 = p + 1
      BY <1>1
    <3>. QED
      BY <2>1, <2>2, <2>3, <3>1 DEF FutureOf
  <2>. QED
    BY <2>1, <2>2, <2>4, <2>6, <2>7, <2>8 DEF ListBack
<1>4. ASSUME p > 0, u = MoveTo(t, p - 1), ~(p < n)
      PROVE  ListSame(t, u)
  <2>1. p = n /\ ShownAt(t) = n - 1 /\ t.current_url = h[n]
    BY <1>1, <1>4, ShownFacts DEF Bounded, ShownAt
  <2>2. u.nav_history = h /\ u.nav_position = n - 1 /\ u.current_url = h[n]
    BY <1>1, <1>4, <2>1, MoveFacts
  <2>3. ShownAt(u) = n - 1
    BY <1>1, <2>2 DEF ShownAt
  <2>. QED
    BY <2>1, <2>2, <2>3 DEF ListSame, PastOf, FutureOf
<1>5. ASSUME p < n - 1, u = MoveTo(t, p + 1)
      PROVE  ListForward(t, u)
  <2>1. p \in 0 .. n - 2 /\ n # 0
    BY <1>1, <1>5 DEF Bounded
  <2>2. ShownAt(t) = p
    BY <1>1, <2>1 DEF ShownAt
  <2>3. u.nav_history = h /\ u.nav_position = p + 1 /\ u.current_url = h[p + 2]
    <3>1. p + 1 \in 0 .. n - 1 /\ (p + 1) + 1 = p + 2
      BY <1>1, <2>1
    <3>. QED
      BY <1>5, <3>1, MoveFacts
  <2>4. ShownAt(u) = p + 1
    BY <1>1, <2>1, <2>3 DEF ShownAt
  <2>5. PastOf(u) = Append(PastOf(t), t.current_url)
    BY <2>1, <2>2, <2>3, <2>4, PastAndShown DEF PastOf
  <2>6. FutureOf(t) = SubSeq(h, p + 2, n)
    BY <2>2 DEF FutureOf
  <2>7. FutureOf(u) = SubSeq(h, p + 3, n)
    <3>1. (p + 1) + 2 = p + 3
      BY <1>1
    <3>. QED
      BY <2>3, <2>4, <3>1 DEF FutureOf
  <2>8. Head(SubSeq(h, p + 2, n)) = h[p + 2] /\ Tail(SubSeq(h, p + 2, n)) = SubSeq(h, p + 3, n)
        /\ SubSeq(h, p + 2, n) # <<>>
    <3>1. p + 2 \in 1 .. n /\ n \in p + 2 .. n /\ (p + 2) + 1 = p + 3
      BY <1>1, <2>1
    <3>2. \A i \in p + 2 .. n : h[i] \in Urls
      BY <1>1, <2>1
    <3>3. Len(SubSeq(h, p + 2, n)) = n - (p + 2) + 1
      BY <1>1, <3>1, <3>2, SubSeqProperties
    <3>4. SubSeq(h, p + 2, n) # <<>>
      <4>1. Len(SubSeq(h, p + 2, n)) # 0
        BY <1>1, <3>1, <3>3
      <4>. QED
        BY <4>1, EmptySeq
    <3>5. Head(SubSeq(h, p + 2, n)) = h[p + 2]
          /\ Tail(SubSeq(h, p + 2, n)) = SubSeq(h, (p + 2) + 1, n)
      BY <1>1, <3>1, HeadTailOfSubSeq
    <3>. QED
      BY <3>1, <3>4, <3>5
  <2>. QED
    BY <2>3, <2>5, <2>6, <2>7, <2>8 DEF ListForward
<1>6. u = t => ListSame(t, u)
  BY DEF ListSame
<1>. QED
  BY <1>2, <1>3, <1>4, <1>5, <1>6 DEF ListStep

\* A navigation visits its URL, or forgets for want of memory, or does nothing.
LEMMA NavigateIsListStep ==
    ASSUME NEW t, Bounded(t), NEW url \in Urls, NEW u \in TabNavigate(t, url)
    PROVE  ListStep(t, u)
<1> DEFINE h == t.nav_history  n == Len(h)  q == ShownAt(t)
<1>1. PICK cut : cut = Truncated(t)
  OBVIOUS
<1>2. PICK g : g = cut.nav_history
  OBVIOUS
<1>3. /\ AtItsEnd(cut) /\ g = IF n = 0 THEN <<>> ELSE SubSeq(h, 1, q + 1)
      /\ Len(g) = IF n = 0 THEN 0 ELSE q + 1
      /\ cut.nav_position = t.nav_position /\ cut.current_url = t.current_url
      /\ cut.nav_capacity = t.nav_capacity
  BY <1>1, <1>2, CutFacts
<1>4. Bounded(cut) /\ Bounded(u) /\ cut.nav_position >= Len(g) - 1
  BY <1>2, <1>3, BoundedNavigate DEF AtItsEnd
<1>5. PICK roomy : roomy = WithRoom(cut)
  OBVIOUS
<1>6. PICK k : k = roomy.nav_history
  OBVIOUS
<1>7. /\ roomy \in Tab
      /\ k = IF Len(g) >= MaxChain THEN Tail(g) ELSE g
      /\ roomy.nav_capacity # cut.nav_capacity => k = g
      /\ Len(g) >= MaxChain => g # <<>> /\ Len(g) = MaxChain /\ cut.nav_position = Len(g) - 1
      /\ roomy.nav_position = cut.nav_position
      /\ roomy.current_url = cut.current_url
  BY <1>2, <1>3, <1>5, <1>6, RoomFacts
<1>8. /\ h \in Seq(Urls) /\ n \in Nat /\ g \in Seq(Urls) /\ Len(g) \in Nat /\ k \in Seq(Urls)
      /\ MaxChain \in Nat \ {0, 1}
      /\ cut.nav_position \in Nat \cup {-1}
  BY <1>2, <1>4, <1>6, <1>7, TabFacts, TabAssumption DEF Bounded
<1>9. /\ n = 0 => t.current_url = NoUrl /\ h = <<>> /\ q = -1
      /\ n # 0 => q \in 0 .. n - 1 /\ t.current_url \in Urls /\ t.current_url # NoUrl
  BY ShownFacts
<1>10. n # 0 => Append(PastOf(t), t.current_url) = g
  BY <1>3, PastAndShown
<1>11. CASE u = Pushed(roomy, url)
  <2>1. u.nav_history = Append(k, url) /\ u.nav_position = Len(k) /\ u.current_url = url
    BY <1>3, <1>5, <1>6, <1>11, PushFacts
  <2>2. Len(u.nav_history) = Len(k) + 1 /\ Len(k) \in Nat
    BY <1>8, <2>1
  <2>3. ShownAt(u) = Len(k)
    BY <2>1, <2>2 DEF ShownAt
  <2>4. FutureOf(u) = <<>>
    BY <2>2, <2>3, SubSeqEmpty DEF FutureOf
  <2>5. PastOf(u) = k
    <3>1. Append(k, url) = k \o <<url>> /\ <<url>> \in Seq(Urls)
      BY <1>8, AppendIsConcat
    <3>2. CASE k = <<>>
      BY <2>1, <2>2, <2>3, <3>2, SubSeqEmpty DEF PastOf
    <3>3. CASE k # <<>>
      <4>1. 1 \in 1 .. Len(k) /\ Len(k) \in 1 .. Len(k)
        BY <1>8, <3>3, EmptySeq
      <4>2. SubSeq(k \o <<url>>, 1, Len(k)) = SubSeq(k, 1, Len(k))
        BY <1>8, <3>1, <4>1, SubSeqOfConcat1
      <4>. QED
        BY <1>8, <2>1, <2>3, <3>1, <4>2, SubSeqFull DEF PastOf
    <3>. QED
      BY <3>2, <3>3
  <2>6. k = IF t.current_url = NoUrl THEN <<>> ELSE KeptOf(Append(PastOf(t), t.current_url))
    <3>1. CASE n = 0
      BY <1>3, <1>7, <1>8, <1>9, <3>1
    <3>2. CASE n # 0
      BY <1>7, <1>9, <1>10, <3>2 DEF KeptOf
    <3>. QED
      BY <3>1, <3>2
  <2>. QED
    BY <2>1, <2>4, <2>5, <2>6 DEF ListStep, ListVisit
<1>12. CASE /\ OutOfMemory /\ u.nav_position = cut.nav_position
            /\ u.current_url = cut.current_url /\ u.nav_history = k
  <2>1. CASE n = 0
    <3>1. k = <<>> /\ Len(k) = 0
      BY <1>3, <1>7, <1>8, <2>1
    <3>2. u.nav_position = t.nav_position /\ u.nav_history = h
      BY <1>3, <1>9, <1>12, <2>1, <3>1
    <3>. QED
      BY <1>3, <1>12, <3>2 DEF ListStep, ListSame, PastOf, FutureOf, ShownAt
  <2>2. CASE n # 0
    <3>1. q \in 0 .. n - 1 /\ t.current_url # NoUrl /\ g = SubSeq(h, 1, q + 1) /\ Len(g) = q + 1
      BY <1>3, <1>9, <2>2
    <3>2. CASE Len(g) >= MaxChain
      <4>1. k = Tail(g) /\ g # <<>> /\ Len(k) = q /\ cut.nav_position = q /\ q >= 1
        BY <1>7, <1>8, <3>1, <3>2, HeadTailProperties
      <4>2. ShownAt(u) = q - 1
        BY <1>12, <4>1, <3>1, <1>8 DEF ShownAt
      <4>3. FutureOf(u) = <<>>
        <5>1. Len(k) < (q - 1) + 2 /\ Len(k) \in Int /\ (q - 1) + 2 \in Int
          BY <1>8, <3>1, <4>1
        <5>. QED
          BY <1>12, <4>2, <5>1, SubSeqEmpty DEF FutureOf
      <4>4. PastOf(u) = SubSeq(k, 1, q - 1)
        BY <1>12, <4>2 DEF PastOf
      <4>5. PastOf(t) \in Seq(Urls) /\ Len(PastOf(t)) = q /\ PastOf(t) # <<>>
            /\ \A i \in 1 .. q : PastOf(t)[i] = h[i]
        <5>1. PastOf(t) \in Seq(Urls) /\ Len(PastOf(t)) = q
              /\ \A i \in 1 .. q : PastOf(t)[i] = h[i]
          BY <2>2, PastFacts
        <5>2. q # 0
          BY <1>8, <3>1, <4>1
        <5>. QED
          BY <5>1, <5>2, EmptySeq
      <4>6. PICK a : a = Tail(PastOf(t))
        OBVIOUS
      <4>7. a \in Seq(Urls) /\ Len(a) = q - 1 /\ \A i \in 1 .. q - 1 : a[i] = PastOf(t)[i + 1]
        BY <4>5, <4>6, HeadTailProperties
      <4>8. \A i \in 1 .. Len(k) : k[i] = g[i + 1]
        BY <1>8, <4>1, HeadTailProperties
      <4>9. \A i \in 1 .. q + 1 : g[i] = h[i]
        BY <1>8, <3>1, SubSeqProperties
      <4>10. PICK b : b = SubSeq(k, 1, q - 1)
        OBVIOUS
      <4>11. b \in Seq(Urls) /\ Len(b) = q - 1 /\ \A i \in 1 .. q - 1 : b[i] = k[i]
        <5>1. \A i \in 1 .. q - 1 : k[i] \in Urls
          BY <1>8, <3>1, <4>1
        <5>2. q - 1 \in Nat /\ 1 \in Int
          BY <1>8, <3>1, <4>1
        <5>3. /\ b \in Seq(Urls) /\ Len(b) = IF 1 <= q - 1 THEN (q - 1) - 1 + 1 ELSE 0
              /\ \A i \in 1 .. (q - 1) - 1 + 1 : b[i] = k[1 + i - 1]
          BY <4>10, <5>1, <5>2, SubSeqProperties
        <5>. QED
          BY <5>2, <5>3
      <4>12. a = b
        <5>1. \A i \in 1 .. q - 1 : a[i] = b[i]
          <6> TAKE i \in 1 .. q - 1
          <6>1. i + 1 \in 1 .. q /\ i + 1 \in 1 .. q + 1 /\ i \in 1 .. q
            BY <1>8, <3>1, <4>1
          <6>. QED
            BY <6>1, <4>1, <4>5, <4>7, <4>8, <4>9, <4>11
        <5>. QED
          BY <4>7, <4>11, <5>1, SeqEqual
      <4>. QED
        BY <1>3, <1>12, <3>1, <4>3, <4>4, <4>5, <4>6, <4>10, <4>12 DEF ListStep, ListForget
    <3>3. CASE Len(g) < MaxChain
      <4>1. k = g
        BY <1>7, <1>8, <3>3
      <4>2. ShownAt(u) = q
        BY <1>4, <1>8, <1>12, <3>1, <4>1 DEF ShownAt
      <4>3. FutureOf(u) = <<>>
        BY <1>8, <1>12, <3>1, <4>1, <4>2, SubSeqEmpty DEF FutureOf
      <4>4. SubSeq(SubSeq(h, 1, q + 1), 1, q) = SubSeq(h, 1, q)
        <5>1. CASE q = 0
          BY <5>1, SubSeqEmpty
        <5>2. CASE q # 0
          <6>1. /\ 1 \in 1 .. Len(h) /\ q + 1 \in 1 .. Len(h)
                /\ 1 \in 1 .. (q + 1) - 1 + 1 /\ q \in 1 .. (q + 1) - 1 + 1
                /\ 1 + 1 - 1 = 1 /\ 1 + q - 1 = q
            BY <1>8, <3>1, <5>2
          <6>2. SubSeq(SubSeq(h, 1, q + 1), 1, q) = SubSeq(h, 1 + 1 - 1, 1 + q - 1)
            BY <1>8, <6>1, SubSeqOfSubSeq
          <6>. QED
            BY <6>1, <6>2
        <5>. QED
          BY <5>1, <5>2
      <4>5. PastOf(u) = PastOf(t)
        BY <1>12, <3>1, <4>1, <4>2, <4>4 DEF PastOf
      <4>. QED
        BY <1>3, <1>12, <3>1, <4>3, <4>5 DEF ListStep, ListForget
    <3>. QED
      BY <1>8, <3>2, <3>3
  <2>. QED
    BY <2>1, <2>2
<1>13. CASE OutOfMemory /\ u = [roomy EXCEPT !.referrer_url = t.current_url]
  <2>1. /\ u.nav_position = roomy.nav_position /\ u.current_url = roomy.current_url
        /\ u.nav_history = roomy.nav_history
    BY <1>7, <1>13 DEF Tab
  <2>. QED
    BY <1>6, <1>7, <1>12, <1>13, <2>1
<1>14. CASE OutOfMemory /\ u = cut /\ roomy.nav_capacity # cut.nav_capacity
  BY <1>2, <1>7, <1>12, <1>14
<1>. QED
  BY <1>1, <1>5, <1>11, <1>13, <1>14, NavigateCases

\* ImplementsBackForwardList: whatever is visited, left and revisited, and whatever
\* fails for want of memory, the array with a position is the back/forward list of
\* BackForwardList with the same cap.
THEOREM TabIsBackForwardList == TabSpec => ImplementsBackForwardList
<1>1. TabInit => BackForward!Init
  <2> SUFFICES ASSUME TabInit PROVE BackForward!Init
    OBVIOUS
  <2>1. tab.nav_history = <<>> /\ tab.nav_position = -1 /\ tab.current_url = NoUrl
    BY DEF TabInit, TabCreate
  <2>2. Count = 0 /\ Position = -1
    BY <2>1 DEF Count, Position
  <2>3. SubSeq(tab.nav_history, 1, Position) = <<>>
        /\ SubSeq(tab.nav_history, Position + 2, Count) = <<>>
    <3>1. SubSeq(tab.nav_history, 1, -1) = <<>> /\ SubSeq(tab.nav_history, 1, 0) = <<>>
      BY SubSeqEmpty
    <3>2. Position + 2 = 1
      BY <2>2
    <3>. QED
      BY <2>2, <3>1, <3>2
  <2>. QED
    BY <2>1, <2>3 DEF BackForward!Init
<1>2. Bounded(tab) /\ [TabNext]_tab => [BackForward!Next]_(BackForward!vars)
  <2> SUFFICES ASSUME Bounded(tab), [TabNext]_tab
               PROVE  ListStep(tab, tab')
    BY ListStepIsNext
  <2>1. CASE ReloadTab
    <3>1. tab' = [tab EXCEPT !.page_loads = @ + 1]
      BY <2>1 DEF ReloadTab
    <3>2. /\ tab'.nav_history = tab.nav_history /\ tab'.nav_position = tab.nav_position
          /\ tab'.current_url = tab.current_url
      BY <3>1, BoundedReload
    <3>. QED
      BY <3>2 DEF ListStep, ListSame, PastOf, FutureOf, ShownAt
  <2>2. CASE Back \/ Forward
    BY <2>2, MoveIsListStep DEF Back, Forward
  <2>3. ASSUME NEW url \in Urls, NavigateTab(url)
        PROVE  ListStep(tab, tab')
    BY <2>3, NavigateIsListStep DEF NavigateTab
  <2>4. CASE UNCHANGED tab
    BY <2>4 DEF ListStep, ListSame
  <2>. QED
    BY <2>1, <2>2, <2>3, <2>4 DEF TabNext
<1>. QED
  BY <1>1, <1>2, BoundedInvariant, PTL DEF TabSpec, ImplementsBackForwardList, BackForward!Spec
=============================================================================
