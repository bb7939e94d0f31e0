------------------------- MODULE ConfigParserProofs -------------------------
(* Proofs about ConfigParser.tla: parsing opens no file twice and stays     *)
(* within the limits of config, every pair is stored in the section its own *)
(* file puts it in, what is quoted is kept, and what was found valid reads  *)
(* as written once the defaults are in, for all lines, limits and schemas.  *)
EXTENDS ConfigParserProperties, SumLemmas, SequenceTheorems

-----------------------------------------------------------------------------
(* The inductive invariant.                                                *)

IsFrame(f) ==
    /\ f = [section |-> f.section, partial |-> f.partial, opened |-> f.opened]
    /\ IsSeq(f.partial)

Shaped ==
    /\ IsSeq(frames) /\ \A k \in DOMAIN frames : IsFrame(frames[k])
    /\ config = [entries |-> config.entries, sections |-> config.sections,
                 include_paths |-> config.include_paths]
    /\ IsSeq(config.entries) /\ IsSeq(config.sections) /\ IsSeq(config.include_paths)
    /\ IsSeq(log)

\* The section in effect in front of line i for what the include line `frame` opened.
InEffect(sec, l, frame, i) ==
    LET above == {j \in 1 .. i - 1 : l[j].frame = frame /\ l[j].what = "section"}
    IN IF above # {} THEN l[Max(above)].name ELSE IF frame = 0 THEN <<>> ELSE sec[frame]

\* The recursion of SectionOf.
Recurs(sec, l) == sec = [i \in DOMAIN l |-> InEffect(sec, l, l[i].frame, i)]

\* A line belongs to a file whose @include is further up.
Framed(l) == IsSeq(l) /\ \A i \in DOMAIN l : l[i].frame \in 0 .. i - 1

\* Every call is in the section that is in effect for its file; calls opened earlier are
\* further out, so that a header changes the section of one call only.
Placed(calls, sec, l) ==
    /\ \A k \in DOMAIN calls :
        /\ calls[k].opened \in 0 .. Len(l)
        /\ calls[k].section = InEffect(sec, l, calls[k].opened, Len(l) + 1)
    /\ \A j, k \in DOMAIN calls : j < k => calls[j].opened < calls[k].opened

CallsInSection ==
    /\ Recurs(SectionOf, log)
    /\ Framed(log)
    /\ Placed(frames, SectionOf, log)

\* The pairs of the log are the entries, in their order, each in the section of its line.
PairsOf(l)   == {i \in DOMAIN l : l[i].what = "pair"}
RankIn(l, i) == Cardinality({j \in PairsOf(l) : j <= i})

Stored(entries, sec, l) ==
    /\ Len(entries) = Cardinality(PairsOf(l))
    /\ \A i \in PairsOf(l) :
        /\ IsSeq(l[i].value) /\ l[i].name = KeyOf(l[i].value)
        /\ entries[RankIn(l, i)] = Entry(sec[i], l[i].name, ValueOf(l[i].value))

\* Until the defaults are filled in.
PairsStored == outcome \notin {"valid", "invalid"} => Stored(config.entries, SectionOf, log)

DefaultOf(i) ==
    DefaultEntry(Schema[i].section, Schema[i].key, CHOOSE d \in Schema[i].default : TRUE)

\* Entries were appended to es.
Begins(es, ds) == Len(es) <= Len(ds) /\ \A i \in 1 .. Len(es) : ds[i] = es[i]

\* The defaults of the first n items of the schema have been added to es.
Completes(es, ds, n) ==
    /\ IsSeq(ds) /\ Begins(es, ds)
    /\ \A k \in Len(es) + 1 .. Len(ds) :
        \E j \in DOMAIN Schema : Schema[j].default # {} /\ ds[k] = DefaultOf(j)
    /\ \A j \in 1 .. n : Schema[j].default # {} /\ Len(ds) < MaxKeys =>
        FindEntry(ds, Schema[j].section, Schema[j].key) # 0

\* The defaults follow what was stored, which was valid if that was found.
DefaultsAdded ==
    outcome \in {"valid", "invalid"} =>
        \E es : /\ IsSeq(es) /\ Stored(es, SectionOf, log)
                /\ outcome = "valid" => Validates(es)
                /\ Completes(es, config.entries, Len(Schema))

IInv == Shaped /\ EachFileOnce /\ CallsInSection /\ PairsStored /\ DefaultsAdded

-----------------------------------------------------------------------------
(* The frames.                                                             *)

LEMMA CurrentFacts ==
    ASSUME Shaped, frames # <<>>, NEW cur, cur = Current
    PROVE  /\ Len(frames) \in Nat \ {0} /\ DOMAIN frames = 1 .. Len(frames)
           /\ cur = frames[Len(frames)] /\ IsFrame(cur)
<1>1. IsSeq(frames) /\ \A k \in DOMAIN frames : IsFrame(frames[k])
  BY DEF Shaped
<1>2. Len(frames) \in Nat \ {0} /\ DOMAIN frames = 1 .. Len(frames)
  BY <1>1, SeqFront
<1>3. cur = frames[Len(frames)]
  BY DEF Current, Last
<1>. QED
  BY <1>1, <1>2, <1>3

LEMMA WithCurrentFacts ==
    ASSUME IsSeq(frames), frames # <<>>, NEW f, NEW t, t = WithCurrent(f)
    PROVE  /\ IsSeq(t) /\ Len(t) = Len(frames) /\ t # <<>> /\ Len(frames) \in Nat \ {0}
           /\ t[Len(frames)] = f /\ \A k \in 1 .. Len(frames) - 1 : t[k] = frames[k]
           /\ DOMAIN t = 1 .. Len(frames) /\ DOMAIN frames = 1 .. Len(frames)
<1>1. PICK u : u = Front(frames)
  OBVIOUS
<1>2. /\ IsSeq(u) /\ Len(u) = Len(frames) - 1 /\ Len(frames) \in Nat \ {0}
      /\ \A i \in 1 .. Len(frames) - 1 : u[i] = frames[i]
      /\ DOMAIN frames = 1 .. Len(frames)
  BY <1>1, SeqFront
<1>3. t = Append(u, f)
  BY <1>1 DEF WithCurrent
<1>30. IsSeq(u)
  BY <1>2
<1>4. PICK n \in Nat \ {0} : n = Len(frames)
  BY <1>2
<1>5. IsSeq(t) /\ Len(t) = Len(u) + 1 /\ t # <<>> /\ t[Len(u) + 1] = f
  BY <1>3, <1>30, SeqAppend
<1>6. \A i \in 1 .. Len(u) : t[i] = u[i]
  BY <1>3, <1>30, SeqAppend
<1>7. DOMAIN t = 1 .. Len(u) + 1
  BY <1>3, <1>30, SeqAppend
<1>8. Len(u) = n - 1 /\ Len(u) + 1 = n
  BY <1>2, <1>4
<1>. QED
  BY <1>2, <1>4, <1>5, <1>6, <1>7, <1>8

-----------------------------------------------------------------------------
(* What a line may do.                                                     *)

\* The call goes on, in a section and with a line continued so far.
Goes(section, partial) ==
    frames' = WithCurrent([section |-> section, partial |-> partial, opened |-> Current.opened])

\* The call goes on and one for the file included begins.
Opens ==
    frames' = Append(WithCurrent([section |-> Current.section, partial |-> <<>>,
                                  opened |-> Current.opened]),
                     [section |-> Current.section, partial |-> <<>>, opened |-> Len(log) + 1])

Passes ==
    \E partial, what, name, value :
        /\ IsSeq(partial) /\ what \notin {"pair", "section"}
        /\ Goes(Current.section, partial) /\ Logged(what, name, value)
        /\ config' = config /\ outcome' = outcome

Includes ==
    \E path, line :
        /\ Logged("include", <<>>, line) /\ outcome' = outcome
        /\ \/ config' = config /\ Goes(Current.section, <<>>)
           \/ /\ MayInclude(path)
              /\ config' = [entries |-> config.entries, sections |-> config.sections,
                            include_paths |-> Append(config.include_paths, path)]
              /\ Goes(Current.section, <<>>) \/ Opens

Heads ==
    \E section, line :
        /\ Logged("section", section, line) /\ outcome' = outcome
        /\ Goes(section, <<>>)
        /\ \/ config' = config
           \/ /\ ~Contains(config.sections, section) /\ Len(config.sections) < MaxSections
              /\ config' = [entries |-> config.entries, include_paths |-> config.include_paths,
                            sections |-> Append(config.sections, section)]

Stores ==
    \E line :
        /\ IsSeq(line) /\ HasRoom
        /\ Logged("pair", KeyOf(line), line) /\ outcome' = outcome
        /\ Goes(Current.section, <<>>)
        /\ config' = [sections |-> config.sections, include_paths |-> config.include_paths,
                      entries |-> Append(config.entries,
                                         Entry(Current.section, KeyOf(line), ValueOf(line)))]

Refuses ==
    \E line : Return("error") /\ Logged("refused", KeyOf(line), line) /\ config' = config

LEMMA TrimIsSeq ==
    ASSUME NEW s, IsSeq(s)
    PROVE  IsSeq(TrimWhitespace(s))
<1> DEFINE solid == {i \in DOMAIN s : s[i] # Space}
<1>1. DOMAIN s = 1 .. Len(s) /\ Len(s) \in Nat
  BY SeqElements
<1>2. CASE solid = {}
  <2>1. IsSeq(<<>>)
    BY DEF IsSeq
  <2>. QED
    BY <1>2, <2>1 DEF TrimWhitespace
<1>3. CASE solid # {}
  <2>1. solid \in SUBSET (0 .. Len(s)) /\ solid \in SUBSET Nat
    BY <1>1
  <2>2. Min(solid) \in solid /\ Max(solid) \in solid
    BY <1>1, <1>3, <2>1, MinFacts, MaxFacts
  <2>3. PICK a, b : a = Min(solid) /\ b = Max(solid)
    OBVIOUS
  <2>4. a \in 1 .. Len(s) /\ b \in 1 .. Len(s)
    BY <1>1, <2>2, <2>3
  <2>5. a \in Int /\ b \in Int /\ a >= 1 /\ b <= Len(s)
    BY <1>1, <2>4
  <2>6. PICK t : t = SubSeq(s, a, b)
    OBVIOUS
  <2>7. IsSeq(t)
    BY <2>5, <2>6, SeqPart
  <2>. QED
    BY <1>3, <2>3, <2>6, <2>7 DEF TrimWhitespace
<1>. QED
  BY <1>2, <1>3

LEMMA FrameFields ==
    ASSUME NEW f, IsFrame(f), NEW x, NEW y
    PROVE  /\ [f EXCEPT !.partial = x] =
                [section |-> f.section, partial |-> x, opened |-> f.opened]
           /\ [f EXCEPT !.partial = x, !.section = y] =
                [section |-> y, partial |-> x, opened |-> f.opened]
<1>1. f = [section |-> f.section, partial |-> f.partial, opened |-> f.opened]
  BY DEF IsFrame
<1>2. PICK a, b, c : a = f.section /\ b = f.partial /\ c = f.opened
  OBVIOUS
<1>3. f = [section |-> a, partial |-> b, opened |-> c]
  BY <1>1, <1>2
<1>4. [f EXCEPT !.partial = x] = [section |-> a, partial |-> x, opened |-> c]
  BY <1>3
<1>5. [f EXCEPT !.partial = x, !.section = y] = [section |-> y, partial |-> x, opened |-> c]
  <2>1. PICK g : g = [f EXCEPT !.partial = x]
    OBVIOUS
  <2>2. g = [section |-> a, partial |-> x, opened |-> c]
    BY <1>4, <2>1
  <2>3. [g EXCEPT !.section = y] = [section |-> y, partial |-> x, opened |-> c]
    BY <2>2
  <2>4. [f EXCEPT !.partial = x, !.section = y] = [[f EXCEPT !.partial = x] EXCEPT !.section = y]
    OBVIOUS
  <2>. QED
    BY <2>1, <2>3, <2>4
<1>. QED
  BY <1>2, <1>4, <1>5

LEMMA ConfigFields ==
    ASSUME Shaped, NEW x
    PROVE  /\ [config EXCEPT !.entries = x] =
                [entries |-> x, sections |-> config.sections,
                 include_paths |-> config.include_paths]
           /\ [config EXCEPT !.sections = x] =
                [entries |-> config.entries, sections |-> x,
                 include_paths |-> config.include_paths]
           /\ [config EXCEPT !.include_paths = x] =
                [entries |-> config.entries, sections |-> config.sections, include_paths |-> x]
<1>1. config = [entries |-> config.entries, sections |-> config.sections,
                include_paths |-> config.include_paths]
  BY DEF Shaped
<1>2. PICK a, b, c : a = config.entries /\ b = config.sections /\ c = config.include_paths
  OBVIOUS
<1>3. config = [entries |-> a, sections |-> b, include_paths |-> c]
  BY <1>1, <1>2
<1>. QED
  BY <1>2, <1>3

LEMMA ReadLineCases ==
    ASSUME Shaped, frames # <<>>, NEW text \in Lines, ReadLine(text)
    PROVE  outcome = "parsing" /\ (Passes \/ Includes \/ Heads \/ Stores \/ Refuses)
<1>1. PICK cur : cur = Current
  OBVIOUS
<1>2. IsFrame(cur)
  BY <1>1, CurrentFacts
<1>3. /\ \A x : [cur EXCEPT !.partial = x]
                  = [section |-> cur.section, partial |-> x, opened |-> cur.opened]
      /\ \A y : [cur EXCEPT !.partial = <<>>, !.section = y]
                  = [section |-> y, partial |-> <<>>, opened |-> cur.opened]
  BY <1>2, FrameFields
<1>4. PICK joined, line : joined = cur.partial \o text /\ line = TrimWhitespace(joined)
  OBVIOUS
<1>5. IsSeq(joined) /\ IsSeq(line)
  <2>1. text \in Seq(STRING)
    BY ParserAssumption
  <2>2. IsSeq(joined)
    BY <1>2, <1>4, <2>1, MemberIsSeq, SeqConcat DEF IsFrame
  <2>. QED
    BY <1>4, <2>2, TrimIsSeq
<1>6. IsSeq(<<>>)
  BY DEF IsSeq
<1>7. outcome = "parsing"
  BY DEF ReadLine
<1>8. CASE joined # <<>> /\ Last(joined) = Backslash
  <2>1. /\ frames' = WithCurrent([Current EXCEPT !.partial = Append(Front(joined), Space)])
        /\ Logged("partial", <<>>, text)
        /\ UNCHANGED <<config, outcome>>
    BY <1>1, <1>4, <1>8 DEF ReadLine
  <2>2. PICK partial : partial = Append(Front(joined), Space)
    OBVIOUS
  <2>3. IsSeq(partial)
    <3>1. PICK front : front = Front(joined)
      OBVIOUS
    <3>2. IsSeq(front)
      BY <1>5, <1>8, <3>1, SeqFront
    <3>. QED
      BY <2>2, <3>1, <3>2, SeqAppend
  <2>4. Goes(Current.section, partial)
    BY <1>1, <1>3, <2>1, <2>2 DEF Goes
  <2>. QED
    BY <1>7, <2>1, <2>3, <2>4 DEF Passes
<1>9. CASE ~(joined # <<>> /\ Last(joined) = Backslash)
  <2>1. Skip(line) \/ Include(line) \/ Header(line) \/ Pair(line)
    BY <1>1, <1>4, <1>9 DEF ReadLine
  <2>2. CASE Skip(line)
    <3>1. Goes(Current.section, <<>>) /\ Logged("skip", <<>>, line) /\ UNCHANGED <<config, outcome>>
      BY <1>1, <1>3, <2>2 DEF Skip, Goes
    <3>. QED
      BY <1>6, <1>7, <3>1 DEF Passes
  <2>3. CASE Include(line)
    <3>1. PICK path : path = StripQuotes(TrimWhitespace(Tail(line)))
      OBVIOUS
    <3>2. PICK here : here = WithCurrent([Current EXCEPT !.partial = <<>>])
      OBVIOUS
    <3>3. /\ config' = IF MayInclude(path) THEN [config EXCEPT !.include_paths = Append(@, path)]
                       ELSE config
          /\ \/ frames' = here
             \/ /\ MayInclude(path)
                /\ frames' = Append(here, OpenIn(Current.section, Len(log) + 1))
          /\ Logged("include", <<>>, line) /\ outcome' = outcome
      BY <2>3, <3>1, <3>2 DEF Include
    <3>4. here = WithCurrent([section |-> Current.section, partial |-> <<>>,
                              opened |-> Current.opened])
      BY <1>1, <1>3, <3>2
    <3>5. OpenIn(Current.section, Len(log) + 1)
            = [section |-> Current.section, partial |-> <<>>, opened |-> Len(log) + 1]
      BY DEF OpenIn, Frame
    <3>6. \A x : [config EXCEPT !.include_paths = x] =
                   [entries |-> config.entries, sections |-> config.sections, include_paths |-> x]
      BY ConfigFields
    <3>7. frames' = here => Goes(Current.section, <<>>)
      BY <3>4 DEF Goes
    <3>8. frames' = Append(here, OpenIn(Current.section, Len(log) + 1)) => Opens
      BY <3>4, <3>5 DEF Opens
    <3>. QED
      BY <1>7, <3>3, <3>6, <3>7, <3>8 DEF Includes
  <2>4. CASE Header(line)
    <3>1. PICK section : section = TrimWhitespace(Tail(Before(line, {"]"})))
      OBVIOUS
    <3>2. /\ frames' = WithCurrent([Current EXCEPT !.partial = <<>>, !.section = section])
          /\ config' = IF Contains(config.sections, section)
                            \/ Len(config.sections) >= MaxSections
                       THEN config
                       ELSE [config EXCEPT !.sections = Append(@, section)]
          /\ Logged("section", section, line) /\ outcome' = outcome
      BY <2>4, <3>1 DEF Header
    <3>3. Goes(section, <<>>)
      BY <1>1, <1>3, <3>2 DEF Goes
    <3>4. \A x : [config EXCEPT !.sections = x] =
                   [entries |-> config.entries, include_paths |-> config.include_paths,
                    sections |-> x]
      BY ConfigFields
    <3>5. Len(config.sections) \in Nat /\ MaxSections \in Nat
      BY ParserAssumption DEF Shaped, IsSeq
    <3>6. ~(Len(config.sections) >= MaxSections) => Len(config.sections) < MaxSections
      BY <3>5
    <3>. QED
      BY <1>7, <3>2, <3>3, <3>4, <3>6 DEF Heads
  <2>5. CASE Pair(line) /\ HasRoom
    <3>1. PICK entry : entry = Entry(Current.section, KeyOf(line), ValueOf(line))
      OBVIOUS
    <3>2. /\ config' = [config EXCEPT !.entries = Append(@, entry)]
          /\ frames' = WithCurrent([Current EXCEPT !.partial = <<>>])
          /\ Logged("pair", KeyOf(line), line) /\ outcome' = outcome
      BY <2>5, <3>1 DEF Pair
    <3>3. Goes(Current.section, <<>>)
      BY <1>1, <1>3, <3>2 DEF Goes
    <3>4. \A x : [config EXCEPT !.entries = x] =
                   [sections |-> config.sections, include_paths |-> config.include_paths,
                    entries |-> x]
      BY ConfigFields
    <3>. QED
      BY <1>5, <1>7, <2>5, <3>1, <3>2, <3>3, <3>4 DEF Stores
  <2>6. CASE Pair(line) /\ ~HasRoom
    BY <1>7, <2>6 DEF Pair, Refuses
  <2>. QED
    BY <2>1, <2>2, <2>3, <2>4, <2>5, <2>6
<1>. QED
  BY <1>8, <1>9

LEMMA GoesFacts ==
    ASSUME Shaped, frames # <<>>, NEW section, NEW partial, IsSeq(partial),
           Goes(section, partial)
    PROVE  /\ IsSeq(frames') /\ frames' # <<>> /\ Len(frames') = Len(frames)
           /\ DOMAIN frames' = DOMAIN frames /\ DOMAIN frames = 1 .. Len(frames)
           /\ \A k \in DOMAIN frames' : IsFrame(frames'[k]) /\ frames'[k].opened = frames[k].opened
           /\ \A k \in DOMAIN frames' : k # Len(frames) => frames'[k].section = frames[k].section
           /\ frames'[Len(frames)].section = section
<1>1. PICK f : f = [section |-> section, partial |-> partial, opened |-> Current.opened]
  OBVIOUS
<1>2. frames' = WithCurrent(f)
  BY <1>1 DEF Goes
<1>3. IsFrame(f) /\ f.section = section /\ f.opened = Current.opened
  BY <1>1 DEF IsFrame
<1>4. IsSeq(frames) /\ \A k \in DOMAIN frames : IsFrame(frames[k])
  BY DEF Shaped
<1>5. PICK t : t = frames'
  OBVIOUS
<1>6. t = WithCurrent(f)
  BY <1>2, <1>5
<1>7. /\ IsSeq(t) /\ Len(t) = Len(frames) /\ t # <<>> /\ Len(frames) \in Nat \ {0}
      /\ t[Len(frames)] = f /\ \A k \in 1 .. Len(frames) - 1 : t[k] = frames[k]
      /\ DOMAIN t = 1 .. Len(frames) /\ DOMAIN frames = 1 .. Len(frames)
  BY <1>4, <1>6, WithCurrentFacts
<1>8. Current = frames[Len(frames)]
  BY DEF Current, Last
<1>9. PICK n \in Nat \ {0} : n = Len(frames)
  BY <1>7
<1>10. \A k \in 1 .. n : k = n \/ k \in 1 .. n - 1
  OBVIOUS
<1>11. ASSUME NEW k \in 1 .. n
       PROVE  /\ IsFrame(t[k]) /\ t[k].opened = frames[k].opened
              /\ k # n => t[k].section = frames[k].section
  <2>1. CASE k = n
    BY <1>3, <1>7, <1>8, <1>9, <2>1
  <2>2. CASE k \in 1 .. n - 1
    BY <1>4, <1>7, <1>9, <2>2
  <2>. QED
    BY <1>10, <2>1, <2>2
<1>12. t[n].section = section
  BY <1>3, <1>7, <1>9
<1>. QED
  BY <1>5, <1>7, <1>9, <1>11, <1>12

LEMMA OpensFacts ==
    ASSUME Shaped, frames # <<>>, Opens
    PROVE  /\ IsSeq(frames') /\ frames' # <<>> /\ Len(frames') = Len(frames) + 1
           /\ DOMAIN frames' = 1 .. Len(frames) + 1 /\ DOMAIN frames = 1 .. Len(frames)
           /\ Len(frames) \in Nat \ {0}
           /\ \A k \in DOMAIN frames' : IsFrame(frames'[k])
           /\ \A k \in DOMAIN frames : /\ frames'[k].opened = frames[k].opened
                                       /\ frames'[k].section = frames[k].section
           /\ frames'[Len(frames) + 1].section = frames[Len(frames)].section
           /\ frames'[Len(frames) + 1].opened = Len(log) + 1
<1>1. PICK f, g : /\ f = [section |-> Current.section, partial |-> <<>>, opened |-> Current.opened]
                  /\ g = [section |-> Current.section, partial |-> <<>>, opened |-> Len(log) + 1]
  OBVIOUS
<1>2. PICK t, u : t = frames' /\ u = WithCurrent(f)
  OBVIOUS
<1>3. t = Append(u, g)
  BY <1>1, <1>2 DEF Opens
<1>4. IsSeq(<<>>)
  BY DEF IsSeq
<1>5. /\ IsFrame(f) /\ f.section = Current.section /\ f.opened = Current.opened
      /\ IsFrame(g) /\ g.section = Current.section /\ g.opened = Len(log) + 1
  BY <1>1, <1>4 DEF IsFrame
<1>6. IsSeq(frames) /\ \A k \in DOMAIN frames : IsFrame(frames[k])
  BY DEF Shaped
<1>7. /\ IsSeq(u) /\ Len(u) = Len(frames) /\ Len(frames) \in Nat \ {0}
      /\ u[Len(frames)] = f /\ \A k \in 1 .. Len(frames) - 1 : u[k] = frames[k]
      /\ DOMAIN frames = 1 .. Len(frames)
  BY <1>2, <1>6, WithCurrentFacts
<1>8. Current = frames[Len(frames)]
  BY DEF Current, Last
<1>9. PICK n \in Nat \ {0} : n = Len(frames)
  BY <1>7
<1>10. Len(u) = n /\ IsSeq(u)
  BY <1>7, <1>9
<1>11. IsSeq(t) /\ t # <<>> /\ Len(t) = n + 1 /\ t[n + 1] = g
  BY <1>3, <1>10, SeqAppend
<1>12. DOMAIN t = 1 .. n + 1
  BY <1>3, <1>10, SeqAppend
<1>13. \A k \in 1 .. n : t[k] = u[k]
  BY <1>3, <1>10, SeqAppend
<1>14. ASSUME NEW k \in 1 .. n
       PROVE  /\ IsFrame(t[k]) /\ t[k].opened = frames[k].opened
              /\ t[k].section = frames[k].section
  <2>1. CASE k = n
    BY <1>5, <1>7, <1>8, <1>9, <1>13, <2>1
  <2>2. CASE k \in 1 .. n - 1
    BY <1>6, <1>7, <1>9, <1>13, <2>2
  <2>. QED
    BY <2>1, <2>2
<1>15. \A k \in 1 .. n + 1 : IsFrame(t[k])
  BY <1>5, <1>11, <1>14
<1>16. t[n + 1].section = frames[n].section /\ t[n + 1].opened = Len(log) + 1
  BY <1>5, <1>8, <1>9, <1>11
<1>. QED
  BY <1>2, <1>7, <1>9, <1>11, <1>12, <1>14, <1>15, <1>16

LEMMA ReturnFacts ==
    ASSUME Shaped, frames # <<>>, NEW rc, Return(rc)
    PROVE  /\ IsSeq(frames') /\ Len(frames') = Len(frames) - 1 /\ Len(frames) \in Nat \ {0}
           /\ DOMAIN frames' = 1 .. Len(frames) - 1 /\ DOMAIN frames = 1 .. Len(frames)
           /\ \A k \in DOMAIN frames' : frames'[k] = frames[k] /\ IsFrame(frames'[k])
           /\ outcome' = IF frames' = <<>> THEN rc ELSE outcome
<1>1. IsSeq(frames) /\ \A k \in DOMAIN frames : IsFrame(frames[k])
  BY DEF Shaped
<1>2. PICK t : t = frames'
  OBVIOUS
<1>3. t = Front(frames) /\ outcome' = IF Len(frames) = 1 THEN rc ELSE outcome
  BY <1>2 DEF Return
<1>4. /\ IsSeq(t) /\ Len(t) = Len(frames) - 1 /\ Len(frames) \in Nat \ {0}
      /\ \A i \in 1 .. Len(frames) - 1 : t[i] = frames[i]
      /\ DOMAIN t = 1 .. Len(frames) - 1 /\ DOMAIN frames = 1 .. Len(frames)
      /\ t = <<>> <=> Len(frames) = 1
  BY <1>1, <1>3, SeqFront
<1>5. \A k \in 1 .. Len(frames) - 1 : IsFrame(t[k])
  BY <1>1, <1>4
<1>. QED
  BY <1>2, <1>3, <1>4, <1>5

LEMMA LoggedFacts ==
    ASSUME IsSeq(log), NEW what, NEW name, NEW value, Logged(what, name, value)
    PROVE  /\ IsSeq(log') /\ Len(log') = Len(log) + 1 /\ Len(log) \in Nat
           /\ DOMAIN log' = 1 .. Len(log) + 1 /\ DOMAIN log = 1 .. Len(log)
           /\ \A i \in DOMAIN log : log'[i] = log[i]
           /\ log'[Len(log) + 1] = [frame |-> Current.opened, what |-> what,
                                    name |-> name, value |-> value]
<1>1. PICK x, t : /\ x = [frame |-> Current.opened, what |-> what, name |-> name, value |-> value]
                  /\ t = log'
  OBVIOUS
<1>2. t = Append(log, x)
  BY <1>1 DEF Logged
<1>3. IsSeq(t) /\ Len(t) = Len(log) + 1 /\ t[Len(log) + 1] = x /\ Len(log) \in Nat
  BY <1>2, SeqAppend
<1>4. DOMAIN t = 1 .. Len(log) + 1 /\ DOMAIN log = 1 .. Len(log)
  BY <1>2, SeqAppend
<1>5. \A i \in 1 .. Len(log) : t[i] = log[i]
  BY <1>2, SeqAppend
<1>. QED
  BY <1>1, <1>3, <1>4, <1>5

\* A path that is not contained is included for the first time.
LEMMA InjectiveAppend ==
    ASSUME NEW s, IsSeq(s), IsInjective(s), NEW x, ~Contains(s, x)
    PROVE  IsInjective(Append(s, x))
<1>1. PICK t : t = Append(s, x)
  OBVIOUS
<1>2. PICK n \in Nat : n = Len(s)
  BY SeqElements
<1>3. t[n + 1] = x /\ DOMAIN t = 1 .. n + 1 /\ DOMAIN s = 1 .. n
  BY <1>1, <1>2, SeqAppend
<1>4. \A i \in 1 .. n : t[i] = s[i]
  BY <1>1, <1>2, SeqAppend
<1>5. \A i \in 1 .. n : s[i] # x
  BY <1>2 DEF Contains
<1>6. ASSUME NEW i \in 1 .. n + 1, NEW j \in 1 .. n + 1, t[i] = t[j]
      PROVE  i = j
  <2>1. CASE i \in 1 .. n /\ j \in 1 .. n
    <3>1. s[i] = s[j]
      BY <1>4, <1>6, <2>1
    <3>. QED
      BY <1>3, <2>1, <3>1 DEF IsInjective
  <2>2. CASE i = n + 1 /\ j \in 1 .. n
    BY <1>3, <1>4, <1>5, <1>6, <2>2
  <2>3. CASE i \in 1 .. n /\ j = n + 1
    BY <1>3, <1>4, <1>5, <1>6, <2>3
  <2>4. CASE i = n + 1 /\ j = n + 1
    BY <2>4
  <2>. QED
    BY <2>1, <2>2, <2>3, <2>4
<1>. QED
  BY <1>1, <1>3, <1>6 DEF IsInjective

-----------------------------------------------------------------------------
(* No file twice.                                                          *)

Types == {"string", "int", "float", "bool", "array"}

LEMMA EntryType ==
    ASSUME NEW section, NEW key, NEW value
    PROVE  /\ Entry(section, key, value).type \in Types
           /\ DefaultEntry(section, key, value).type \in Types
<1>1. \A text : DetectType(text) \in Types
  BY DEF DetectType, Types
<1>. QED
  BY <1>1 DEF Entry, DefaultEntry

\* What EachFileOnce says of a configuration.
ConfigOnce(c) ==
    /\ Len(c.entries) <= MaxKeys
    /\ \A i \in DOMAIN c.entries : c.entries[i].type \in Types
    /\ Len(c.sections) <= MaxSections /\ IsInjective(c.sections)
    /\ Len(c.include_paths) <= MaxIncludes /\ IsInjective(c.include_paths)

LEMMA EachFileOnceParts ==
    EachFileOnce <=>
        /\ outcome \in {"parsing", "ok", "error", "valid", "invalid"}
        /\ (outcome = "parsing") = (frames # <<>>)
        /\ ConfigOnce(config) /\ Len(frames) <= Len(config.include_paths)
BY DEF EachFileOnce, TypeOK, ConfigOnce, Types

LEMMA Limits == MaxSections \in Nat \ {0} /\ MaxKeys \in Nat \ {0} /\ MaxIncludes \in Nat \ {0}
BY ParserAssumption

\* The lines that leave config as it is.
LEMMA OnceSame ==
    ASSUME Shaped, EachFileOnce, frames # <<>>, config' = config, outcome' = outcome,
           NEW section, NEW partial, IsSeq(partial), Goes(section, partial),
           NEW what, NEW name, NEW value, Logged(what, name, value)
    PROVE  Shaped' /\ EachFileOnce'
<1>1. /\ IsSeq(frames') /\ frames' # <<>> /\ Len(frames') = Len(frames)
      /\ \A k \in DOMAIN frames' : IsFrame(frames'[k])
  BY GoesFacts
<1>2. IsSeq(log')
  BY LoggedFacts DEF Shaped
<1>3. Shaped'
  BY <1>1, <1>2 DEF Shaped
<1>4. EachFileOnce'
  BY <1>1, EachFileOnceParts DEF EachFileOnce, TypeOK
<1>. QED
  BY <1>3, <1>4

LEMMA OnceIncludes ==
    ASSUME Shaped, EachFileOnce, frames # <<>>, Includes
    PROVE  Shaped' /\ EachFileOnce'
<1>1. PICK path, line :
        /\ Logged("include", <<>>, line) /\ outcome' = outcome
        /\ \/ config' = config /\ Goes(Current.section, <<>>)
           \/ /\ MayInclude(path)
              /\ config' = [entries |-> config.entries, sections |-> config.sections,
                            include_paths |-> Append(config.include_paths, path)]
              /\ Goes(Current.section, <<>>) \/ Opens
  BY DEF Includes
<1>2. IsSeq(<<>>)
  BY DEF IsSeq
<1>3. CASE config' = config /\ Goes(Current.section, <<>>)
  BY <1>1, <1>2, <1>3, OnceSame
<1>4. CASE /\ MayInclude(path)
           /\ config' = [entries |-> config.entries, sections |-> config.sections,
                         include_paths |-> Append(config.include_paths, path)]
           /\ Goes(Current.section, <<>>) \/ Opens
  <2>1. PICK t : t = Append(config.include_paths, path)
    OBVIOUS
  <2>2. /\ config' = [entries |-> config.entries, sections |-> config.sections,
                      include_paths |-> t]
        /\ config'.entries = config.entries /\ config'.sections = config.sections
        /\ config'.include_paths = t
    BY <1>4, <2>1
  <2>3. /\ IsSeq(config.include_paths) /\ IsInjective(config.include_paths)
        /\ ~Contains(config.include_paths, path) /\ Len(config.include_paths) < MaxIncludes
    BY <1>4, EachFileOnceParts DEF Shaped, ConfigOnce, MayInclude, IsCircularInclude
  <2>4. IsSeq(t) /\ Len(t) = Len(config.include_paths) + 1 /\ Len(config.include_paths) \in Nat
    BY <2>1, <2>3, SeqAppend
  <2>5. IsInjective(t)
    BY <2>1, <2>3, InjectiveAppend
  <2>6. Len(t) <= MaxIncludes
    BY <2>3, <2>4, Limits
  <2>7. /\ IsSeq(frames') /\ frames' # <<>> /\ Len(frames') <= Len(frames) + 1
        /\ \A k \in DOMAIN frames' : IsFrame(frames'[k])
    <3>1. Len(frames) \in Nat
      BY DEF Shaped, IsSeq
    <3>2. CASE Goes(Current.section, <<>>)
      BY <1>2, <3>1, <3>2, GoesFacts
    <3>3. CASE Opens
      BY <3>1, <3>3, OpensFacts
    <3>. QED
      BY <1>4, <3>2, <3>3
  <2>8. IsSeq(log')
    BY <1>1, LoggedFacts DEF Shaped
  <2>9. Shaped'
    <3>1. IsSeq(config.entries) /\ IsSeq(config.sections)
      BY DEF Shaped
    <3>2. IsSeq(config'.entries) /\ IsSeq(config'.sections) /\ IsSeq(config'.include_paths)
      BY <2>2, <2>4, <3>1
    <3>3. config' = [entries |-> config'.entries, sections |-> config'.sections,
                     include_paths |-> config'.include_paths]
      BY <2>2
    <3>. QED
      BY <2>7, <2>8, <3>2, <3>3 DEF Shaped
  <2>10. ConfigOnce(config')
    <3>1. ConfigOnce(config)
      BY EachFileOnceParts
    <3>. QED
      BY <2>2, <2>5, <2>6, <3>1 DEF ConfigOnce
  <2>11. Len(frames') <= Len(t)
    <3>1. Len(frames) <= Len(config.include_paths) /\ Len(frames) \in Nat /\ Len(frames') \in Nat
      BY <2>7, EachFileOnceParts DEF Shaped, IsSeq
    <3>. QED
      BY <2>4, <2>7, <3>1
  <2>12. EachFileOnce'
    BY <1>1, <2>2, <2>7, <2>10, <2>11, EachFileOnceParts
       DEF EachFileOnce, TypeOK, ConfigOnce, Types
  <2>. QED
    BY <2>9, <2>12
<1>. QED
  BY <1>1, <1>3, <1>4

\* The lines that add to a table of config.
LEMMA OnceAdds ==
    ASSUME Shaped, EachFileOnce, frames # <<>>, outcome' = outcome,
           NEW section, Goes(section, <<>>),
           NEW what, NEW name, NEW value, Logged(what, name, value),
           NEW es, IsSeq(es), NEW ss, IsSeq(ss),
           config' = [entries |-> es, sections |-> ss, include_paths |-> config.include_paths],
           ConfigOnce(config')
    PROVE  Shaped' /\ EachFileOnce'
<1>1. /\ IsSeq(frames') /\ frames' # <<>> /\ Len(frames') = Len(frames)
      /\ \A k \in DOMAIN frames' : IsFrame(frames'[k])
  <2>1. IsSeq(<<>>)
    BY DEF IsSeq
  <2>. QED
    BY <2>1, GoesFacts
<1>2. IsSeq(log')
  BY LoggedFacts DEF Shaped
<1>3. /\ config'.entries = es /\ config'.sections = ss
      /\ config'.include_paths = config.include_paths
  OBVIOUS
<1>4. Shaped'
  <2>1. IsSeq(config'.entries) /\ IsSeq(config'.sections) /\ IsSeq(config'.include_paths)
    BY <1>3 DEF Shaped
  <2>2. config' = [entries |-> config'.entries, sections |-> config'.sections,
                   include_paths |-> config'.include_paths]
    BY <1>3
  <2>. QED
    BY <1>1, <1>2, <2>1, <2>2 DEF Shaped
<1>5. EachFileOnce'
  BY <1>1, <1>3, EachFileOnceParts DEF EachFileOnce, TypeOK, ConfigOnce, Types
<1>. QED
  BY <1>4, <1>5

LEMMA OnceHeads ==
    ASSUME Shaped, EachFileOnce, frames # <<>>, Heads
    PROVE  Shaped' /\ EachFileOnce'
<1>1. PICK section, line :
        /\ Logged("section", section, line) /\ outcome' = outcome
        /\ Goes(section, <<>>)
        /\ \/ config' = config
           \/ /\ ~Contains(config.sections, section) /\ Len(config.sections) < MaxSections
              /\ config' = [entries |-> config.entries, include_paths |-> config.include_paths,
                            sections |-> Append(config.sections, section)]
  BY DEF Heads
<1>2. CASE config' = config
  <2>1. IsSeq(<<>>)
    BY DEF IsSeq
  <2>. QED
    BY <1>1, <1>2, <2>1, OnceSame
<1>3. CASE /\ ~Contains(config.sections, section) /\ Len(config.sections) < MaxSections
           /\ config' = [entries |-> config.entries, include_paths |-> config.include_paths,
                         sections |-> Append(config.sections, section)]
  <2>1. PICK t, es : t = Append(config.sections, section) /\ es = config.entries
    OBVIOUS
  <2>2. IsSeq(config.sections) /\ IsSeq(es) /\ ConfigOnce(config)
    BY <2>1, EachFileOnceParts DEF Shaped
  <2>3. IsSeq(t) /\ Len(t) = Len(config.sections) + 1 /\ Len(config.sections) \in Nat
    BY <2>1, <2>2, SeqAppend
  <2>4. IsInjective(t)
    BY <1>3, <2>1, <2>2, InjectiveAppend DEF ConfigOnce
  <2>5. Len(t) <= MaxSections
    BY <1>3, <2>3, Limits
  <2>6. config' = [entries |-> es, sections |-> t, include_paths |-> config.include_paths]
    BY <1>3, <2>1
  <2>7. ConfigOnce(config')
    <3>1. /\ config'.entries = config.entries /\ config'.sections = t
          /\ config'.include_paths = config.include_paths
      BY <2>1, <2>6
    <3>. QED
      BY <2>2, <2>4, <2>5, <3>1 DEF ConfigOnce
  <2>. QED
    BY <1>1, <2>2, <2>3, <2>6, <2>7, OnceAdds
<1>. QED
  BY <1>1, <1>2, <1>3

LEMMA OnceStores ==
    ASSUME Shaped, EachFileOnce, frames # <<>>, Stores
    PROVE  Shaped' /\ EachFileOnce'
<1>1. PICK line :
        /\ HasRoom
        /\ Logged("pair", KeyOf(line), line) /\ outcome' = outcome
        /\ Goes(Current.section, <<>>)
        /\ config' = [sections |-> config.sections, include_paths |-> config.include_paths,
                      entries |-> Append(config.entries,
                                         Entry(Current.section, KeyOf(line), ValueOf(line)))]
  BY DEF Stores
<1>2. PICK e : e = Entry(Current.section, KeyOf(line), ValueOf(line))
  OBVIOUS
<1>3. e.type \in Types
  BY <1>2, EntryType
<1>4. PICK t, ss : t = Append(config.entries, e) /\ ss = config.sections
  OBVIOUS
<1>5. IsSeq(config.entries) /\ IsSeq(ss) /\ ConfigOnce(config)
  BY <1>4, EachFileOnceParts DEF Shaped
<1>6. IsSeq(t) /\ Len(t) = Len(config.entries) + 1 /\ Len(config.entries) \in Nat
  BY <1>4, <1>5, SeqAppend
<1>7. Len(t) <= MaxKeys
  BY <1>1, <1>6, Limits DEF HasRoom
<1>8. \A i \in DOMAIN t : t[i].type \in Types
  <2>1. PICK n \in Nat : n = Len(config.entries)
    BY <1>6
  <2>2. DOMAIN t = 1 .. n + 1 /\ DOMAIN config.entries = 1 .. n /\ t[n + 1] = e
    BY <1>4, <1>5, <2>1, SeqAppend
  <2>3. \A i \in 1 .. n : t[i] = config.entries[i]
    BY <1>4, <1>5, <2>1, SeqAppend
  <2>4. \A i \in 1 .. n + 1 : i = n + 1 \/ i \in 1 .. n
    OBVIOUS
  <2>. QED
    BY <1>3, <1>5, <2>2, <2>3, <2>4 DEF ConfigOnce
<1>9. config' = [entries |-> t, sections |-> ss, include_paths |-> config.include_paths]
  BY <1>1, <1>2, <1>4
<1>10. ConfigOnce(config')
  <2>1. /\ config'.entries = t /\ config'.sections = config.sections
        /\ config'.include_paths = config.include_paths
    BY <1>4, <1>9
  <2>. QED
    BY <1>5, <1>7, <1>8, <2>1 DEF ConfigOnce
<1>. QED
  BY <1>1, <1>5, <1>6, <1>9, <1>10, OnceAdds

\* A call that returns, refused or at the end of its file.
LEMMA OnceReturns ==
    ASSUME Shaped, EachFileOnce, outcome = "parsing", NEW rc \in {"ok", "error"}, Return(rc),
           config' = config, IsSeq(log')
    PROVE  Shaped' /\ EachFileOnce'
<1>1. frames # <<>>
  BY EachFileOnceParts
<1>2. /\ IsSeq(frames') /\ Len(frames') = Len(frames) - 1 /\ Len(frames) \in Nat \ {0}
      /\ \A k \in DOMAIN frames' : IsFrame(frames'[k])
      /\ outcome' = IF frames' = <<>> THEN rc ELSE outcome
  BY <1>1, ReturnFacts
<1>3. Shaped'
  BY <1>2 DEF Shaped
<1>4. Len(config.include_paths) \in Nat /\ Len(frames) <= Len(config.include_paths)
  BY EachFileOnceParts DEF Shaped, IsSeq
<1>5. Len(frames') <= Len(config.include_paths)
  BY <1>2, <1>4
<1>6. /\ outcome' \in {"parsing", "ok", "error", "valid", "invalid"}
      /\ (outcome' = "parsing") = (frames' # <<>>)
  BY <1>2
<1>7. EachFileOnce'
  BY <1>5, <1>6 DEF EachFileOnce, TypeOK
<1>. QED
  BY <1>3, <1>7

-----------------------------------------------------------------------------
(* The defaults, one item of the schema after the other.                   *)

Filled(es, i) ==
    IF \/ Len(es) >= MaxKeys \/ Schema[i].default = {}
       \/ FindEntry(es, Schema[i].section, Schema[i].key) # 0
    THEN es ELSE Append(es, DefaultOf(i))

LEMMA FilledFits ==
    ASSUME NEW E, NEW es \in Seq(E), Len(es) <= MaxKeys, NEW i, DefaultOf(i) \in E
    PROVE  Filled(es, i) \in Seq(E) /\ Len(Filled(es, i)) <= MaxKeys
<1>1. CASE \/ Len(es) >= MaxKeys \/ Schema[i].default = {}
           \/ FindEntry(es, Schema[i].section, Schema[i].key) # 0
  BY <1>1 DEF Filled
<1>2. CASE ~(\/ Len(es) >= MaxKeys \/ Schema[i].default = {}
             \/ FindEntry(es, Schema[i].section, Schema[i].key) # 0)
  <2>1. PICK d : d = DefaultOf(i)
    OBVIOUS
  <2>2. Filled(es, i) = Append(es, d)
    BY <1>2, <2>1 DEF Filled
  <2>3. Append(es, d) \in Seq(E) /\ Len(Append(es, d)) = Len(es) + 1 /\ Len(es) \in Nat
    BY <2>1, AppendProperties, LenProperties
  <2>4. Len(es) < MaxKeys
    BY <1>2, <2>3, Limits
  <2>. QED
    BY <2>2, <2>3, <2>4, Limits
<1>. QED
  BY <1>1, <1>2

\* The results of the defaults, one after the other, each with room for what it has.
FilledIn(g, es, E) ==
    /\ g \in [0 .. Len(Schema) -> {v \in Seq(E) : Len(v) <= MaxKeys}]
    /\ g[0] = es
    /\ \A n \in 1 .. Len(Schema) : g[n] = Filled(g[n - 1], n)

LEMMA DefaultStages ==
    ASSUME NEW E, NEW es \in Seq(E), Len(es) <= MaxKeys,
           \A i \in DOMAIN Schema : DefaultOf(i) \in E
    PROVE  \E g : FilledIn(g, es, E) /\ WithDefaults(es) = g[Len(Schema)]
<1> DEFINE D == DOMAIN Schema
           V == {v \in Seq(E) : Len(v) <= MaxKeys}
           iter == CHOOSE f : f = [x \in SUBSET D |-> IF x = {} THEN es
                                    ELSE Filled(f[x \ {Max(x)}], Max(x))]
<1>1. WithDefaults(es) = iter[D]
  BY DEF WithDefaults, FoldLeft, MapThenFoldSet, Filled, DefaultOf
<1>2. PICK N \in Nat : N = Len(Schema) /\ D = 1 .. N
  BY ParserAssumption, LenProperties
<1>3. \A n \in 1 .. N, v \in V : Filled(v, n) \in V
  BY <1>2, FilledFits
<1>4. PICK h : h = [n \in 1 .. N |-> [v \in V |-> Filled(v, n)]]
  OBVIOUS
<1>5. es \in V
  OBVIOUS
<1> HIDE DEF D, V
<1>6. Steps(h, N, V) /\ \A n \in 1 .. N, v \in V : h[n][v] = Filled(v, n)
  BY <1>3, <1>4 DEF Steps
<1>7. PICK f : FoldsAll(f, es, h, N, V)
  BY <1>5, <1>6, FoldSolution
<1>8. \A x \in SUBSET (1 .. N) : x # {} => Max(x) \in 1 .. N
  BY GreatestIn
<1>9. f = [x \in SUBSET D |-> IF x = {} THEN es ELSE Filled(f[x \ {Max(x)}], Max(x))]
  <2>1. \A x \in SUBSET D : f[x] = IF x = {} THEN es ELSE Filled(f[x \ {Max(x)}], Max(x))
    BY <1>2, <1>6, <1>7, <1>8 DEF FoldsAll
  <2>2. f = [x \in SUBSET D |-> f[x]]
    BY <1>2, <1>7 DEF FoldsAll
  <2>. QED
    BY <2>1, <2>2
<1>10. iter = [x \in SUBSET D |-> IF x = {} THEN es ELSE Filled(iter[x \ {Max(x)}], Max(x))]
  BY <1>9
<1> HIDE DEF iter
<1>11. \A x \in SUBSET D : iter[x] = IF x = {} THEN es ELSE Filled(iter[x \ {Max(x)}], Max(x))
  BY <1>10
<1>12. FoldsOn(iter, es, h, N, V)
  <2>1. iter[{}] = es
    BY <1>11
  <2>2. ASSUME NEW x \in SUBSET (1 .. N), NEW v \in V, x # {}, iter[x \ {Max(x)}] = v
        PROVE  iter[x] = h[Max(x)][v]
    <3>1. iter[x] = Filled(v, Max(x))
      BY <1>2, <1>11, <2>2
    <3>. QED
      BY <1>6, <1>8, <2>2, <3>1
  <2>. QED
    BY <2>1, <2>2 DEF FoldsOn
<1>13. PICK g : Stages(g, es, h, N, V) /\ iter[1 .. N] = g[N]
  BY <1>5, <1>6, <1>12, FoldStages
<1>14. \A n \in 1 .. N : g[n] = Filled(g[n - 1], n)
  <2>1. \A n \in 1 .. N : n - 1 \in 0 .. N
    OBVIOUS
  <2>. QED
    BY <1>6, <1>13, <2>1 DEF Stages
<1>15. FilledIn(g, es, E)
  BY <1>2, <1>13, <1>14 DEF FilledIn, Stages, V
<1>. QED
  BY <1>1, <1>2, <1>13, <1>15

LEMMA DefaultsFit ==
    ASSUME NEW E, NEW es \in Seq(E), Len(es) <= MaxKeys,
           \A i \in DOMAIN Schema : DefaultOf(i) \in E
    PROVE  WithDefaults(es) \in Seq(E) /\ Len(WithDefaults(es)) <= MaxKeys
<1>1. PICK g : FilledIn(g, es, E) /\ WithDefaults(es) = g[Len(Schema)]
  BY DefaultStages
<1>2. Len(Schema) \in 0 .. Len(Schema)
  BY ParserAssumption, LenProperties
<1>. QED
  BY <1>1, <1>2 DEF FilledIn

\* What find_entry looks for.
IsOf(e, section, key) == e.section = section /\ e.key = key

\* find_entry finds the first entry there is.
LEMMA FindFacts ==
    ASSUME NEW es, Len(es) \in Nat, NEW section, NEW key, NEW k, k = FindEntry(es, section, key)
    PROVE  \/ k = 0 /\ \A i \in 1 .. Len(es) : ~IsOf(es[i], section, key)
           \/ /\ k \in 1 .. Len(es) /\ IsOf(es[k], section, key)
              /\ \A i \in 1 .. k - 1 : ~IsOf(es[i], section, key)
<1>1. PICK I : I = {i \in 1 .. Len(es) : IsOf(es[i], section, key)}
  OBVIOUS
<1>2. k = IF I # {} THEN Min(I) ELSE 0
  BY <1>1 DEF FindEntry, SelectInSeq, IsOf
<1>3. CASE I = {}
  BY <1>1, <1>2, <1>3
<1>4. CASE I # {}
  <2>1. I \in SUBSET Nat
    BY <1>1
  <2>2. k \in I /\ \A i \in I : k <= i
    BY <1>2, <1>4, <2>1, MinFacts
  <2>3. \A i \in 1 .. k - 1 : i \in 1 .. Len(es) /\ i \notin I
    BY <1>1, <2>2
  <2>. QED
    BY <1>1, <2>2, <2>3
<1>. QED
  BY <1>3, <1>4

LEMMA FindFirst ==
    ASSUME NEW es, Len(es) \in Nat, NEW section, NEW key,
           NEW k \in 1 .. Len(es), IsOf(es[k], section, key),
           \A i \in 1 .. k - 1 : ~IsOf(es[i], section, key)
    PROVE  FindEntry(es, section, key) = k
<1>1. PICK f : f = FindEntry(es, section, key)
  OBVIOUS
<1>2. \/ f = 0 /\ \A i \in 1 .. Len(es) : ~IsOf(es[i], section, key)
      \/ /\ f \in 1 .. Len(es) /\ IsOf(es[f], section, key)
         /\ \A i \in 1 .. f - 1 : ~IsOf(es[i], section, key)
  BY <1>1, FindFacts
<1>3. f \in 1 .. Len(es) /\ ~(f < k) /\ ~(k < f)
  BY <1>2
<1>. QED
  BY <1>1, <1>3

\* What is appended hides nothing.
LEMMA FindKept ==
    ASSUME NEW es, Len(es) \in Nat, NEW ds, Len(ds) \in Nat, Begins(es, ds),
           NEW section, NEW key, FindEntry(es, section, key) # 0
    PROVE  FindEntry(ds, section, key) = FindEntry(es, section, key)
<1>1. PICK k : k = FindEntry(es, section, key)
  OBVIOUS
<1>2. /\ k \in 1 .. Len(es) /\ IsOf(es[k], section, key)
      /\ \A i \in 1 .. k - 1 : ~IsOf(es[i], section, key)
  BY <1>1, FindFacts
<1>3. k \in 1 .. Len(ds) /\ ds[k] = es[k] /\ \A i \in 1 .. k - 1 : ds[i] = es[i]
  BY <1>2 DEF Begins
<1>4. IsOf(ds[k], section, key) /\ \A i \in 1 .. k - 1 : ~IsOf(ds[i], section, key)
  BY <1>2, <1>3
<1>. QED
  BY <1>1, <1>3, <1>4, FindFirst

LEMMA DefaultFields ==
    ASSUME NEW j
    PROVE  IsOf(DefaultOf(j), Schema[j].section, Schema[j].key)
BY DEF DefaultOf, DefaultEntry, IsOf

\* One item more.
LEMMA CompletesNext ==
    ASSUME NEW es, IsSeq(es), NEW v, NEW n \in Nat, Completes(es, v, n), n + 1 \in DOMAIN Schema,
           NEW w, w = Filled(v, n + 1)
    PROVE  Completes(es, w, n + 1)
<1>1. PICK j : j = n + 1
  OBVIOUS
<1>2. IsSeq(v) /\ Len(v) \in Nat /\ Len(es) \in Nat /\ Begins(es, v)
  BY DEF Completes, IsSeq
<1>3. CASE \/ Len(v) >= MaxKeys \/ Schema[j].default = {}
           \/ FindEntry(v, Schema[j].section, Schema[j].key) # 0
  <2>1. w = v
    BY <1>1, <1>3 DEF Filled
  <2>2. Schema[j].default # {} /\ Len(v) < MaxKeys =>
            FindEntry(v, Schema[j].section, Schema[j].key) # 0
    BY <1>2, <1>3, Limits
  <2>3. \A i \in 1 .. n + 1 : i \in 1 .. n \/ i = j
    BY <1>1
  <2>. QED
    BY <2>1, <2>2, <2>3 DEF Completes
<1>4. CASE ~(\/ Len(v) >= MaxKeys \/ Schema[j].default = {}
             \/ FindEntry(v, Schema[j].section, Schema[j].key) # 0)
  <2>1. PICK d : d = DefaultOf(j)
    OBVIOUS
  <2>2. w = Append(v, d)
    BY <1>1, <1>4, <2>1 DEF Filled
  <2>3. /\ IsSeq(w) /\ Len(w) = Len(v) + 1 /\ w[Len(w)] = d
        /\ \A i \in 1 .. Len(v) : w[i] = v[i]
    BY <1>2, <2>2, SeqAppend
  <2>4. Begins(v, w)
    BY <1>2, <2>3 DEF Begins
  <2>5. Begins(es, w)
    BY <1>2, <2>3 DEF Begins
  <2>6. ASSUME NEW k \in Len(es) + 1 .. Len(w)
        PROVE  \E i \in DOMAIN Schema : Schema[i].default # {} /\ w[k] = DefaultOf(i)
    <3>1. CASE k = Len(w)
      BY <1>1, <1>4, <2>1, <2>3, <3>1
    <3>2. CASE k # Len(w)
      <4>1. k \in Len(es) + 1 .. Len(v) /\ w[k] = v[k]
        BY <1>2, <2>3, <3>2
      <4>. QED
        BY <4>1 DEF Completes
    <3>. QED
      BY <3>1, <3>2
  <2>7. ASSUME NEW i \in 1 .. n + 1, Schema[i].default # {}, Len(w) < MaxKeys
        PROVE  FindEntry(w, Schema[i].section, Schema[i].key) # 0
    <3>1. CASE i = j
      <4>1. IsOf(w[Len(w)], Schema[i].section, Schema[i].key)
        BY <2>1, <2>3, <3>1, DefaultFields
      <4>2. Len(w) \in 1 .. Len(w)
        BY <1>2, <2>3
      <4>. QED
        BY <4>1, <4>2, FindFacts
    <3>2. CASE i # j
      <4>1. i \in 1 .. n /\ Len(v) < MaxKeys
        BY <1>1, <1>2, <2>3, <2>7, <3>2, Limits
      <4>2. FindEntry(v, Schema[i].section, Schema[i].key) # 0
        BY <2>7, <4>1 DEF Completes
      <4>. QED
        BY <1>2, <2>3, <2>4, <4>2, FindKept
    <3>. QED
      BY <3>1, <3>2
  <2>. QED
    BY <2>3, <2>5, <2>6, <2>7 DEF Completes
<1>. QED
  BY <1>3, <1>4

LEMMA CompletesAll ==
    ASSUME NEW es, IsSeq(es), Len(es) <= MaxKeys
    PROVE  Completes(es, WithDefaults(es), Len(Schema))
<1>1. PICK S, E : S = {es[i] : i \in 1 .. Len(es)} /\ E = S \cup {DefaultOf(i) : i \in DOMAIN Schema}
  OBVIOUS
<1>2. es \in Seq(E)
  <2>1. es \in Seq(S) /\ S \subseteq E
    BY <1>1, SeqElements
  <2>. QED
    BY <2>1
<1>3. \A i \in DOMAIN Schema : DefaultOf(i) \in E
  BY <1>1
<1>4. PICK g : FilledIn(g, es, E) /\ WithDefaults(es) = g[Len(Schema)]
  BY <1>2, <1>3, DefaultStages
<1>5. PICK N \in Nat : N = Len(Schema) /\ DOMAIN Schema = 1 .. N
  BY ParserAssumption, LenProperties
<1> DEFINE P == {m \in 0 .. N : Completes(es, g[m], m)}
<1>6. 0 \in P
  <2>1. g[0] = es /\ Len(es) \in Nat
    BY <1>4 DEF FilledIn, IsSeq
  <2>2. Completes(es, es, 0)
    BY <2>1 DEF Completes, Begins
  <2>. QED
    BY <2>1, <2>2
<1>7. \A m \in 0 .. N - 1 : m \in P => m + 1 \in P
  <2> SUFFICES ASSUME NEW m \in 0 .. N - 1, m \in P PROVE m + 1 \in P
    OBVIOUS
  <2>1. m + 1 \in 1 .. N /\ m + 1 \in 0 .. N /\ (m + 1) - 1 = m /\ m \in Nat
    OBVIOUS
  <2>2. PICK v, w : v = g[m] /\ w = g[m + 1]
    OBVIOUS
  <2>3. Completes(es, v, m) /\ w = Filled(v, m + 1) /\ m + 1 \in DOMAIN Schema
    BY <1>4, <1>5, <2>1, <2>2 DEF FilledIn
  <2>4. Completes(es, w, m + 1)
    BY <2>1, <2>3, CompletesNext
  <2>. QED
    BY <2>1, <2>2, <2>4
<1> HIDE DEF P
<1>8. \A m \in 0 .. N : m \in P
  BY <1>6, <1>7, CountUp
<1>9. N \in P
  BY <1>8
<1>. QED
  BY <1>4, <1>5, <1>9 DEF P

LEMMA OnceCompletes ==
    ASSUME Shaped, EachFileOnce, Complete
    PROVE  Shaped' /\ EachFileOnce'
<1>1. /\ outcome \in {"ok", "error"} /\ outcome' \in {"valid", "invalid"}
      /\ config' = [config EXCEPT !.entries = WithDefaults(@)]
      /\ frames' = frames /\ log' = log
  BY DEF Complete
<1>2. PICK es, ds : es = config.entries /\ ds = WithDefaults(es)
  OBVIOUS
<1>3. IsSeq(es) /\ ConfigOnce(config) /\ frames = <<>>
  BY <1>1, <1>2, EachFileOnceParts DEF Shaped
<1>4. PICK E : E = {es[i] : i \in 1 .. Len(es)} \cup {DefaultOf(i) : i \in DOMAIN Schema}
  OBVIOUS
<1>5. \A e \in E : e.type \in Types
  <2>1. \A i \in 1 .. Len(es) : es[i].type \in Types
    BY <1>2, <1>3, SeqElements DEF ConfigOnce
  <2>2. \A i \in DOMAIN Schema : DefaultOf(i).type \in Types
    BY EntryType DEF DefaultOf
  <2>. QED
    BY <1>4, <2>1, <2>2
<1>6. es \in Seq(E) /\ Len(es) <= MaxKeys /\ \A i \in DOMAIN Schema : DefaultOf(i) \in E
  <2>1. PICK S : S = {es[i] : i \in 1 .. Len(es)}
    OBVIOUS
  <2>2. es \in Seq(S)
    BY <1>3, <2>1, SeqElements
  <2>3. S \subseteq E
    BY <1>4, <2>1
  <2>4. es \in Seq(E)
    BY <2>2, <2>3
  <2>. QED
    BY <1>2, <1>3, <1>4, <2>4 DEF ConfigOnce
<1>7. ds \in Seq(E) /\ Len(ds) <= MaxKeys
  BY <1>2, <1>6, DefaultsFit
<1>8. IsSeq(ds) /\ \A i \in DOMAIN ds : ds[i].type \in Types
  <2>1. IsSeq(ds)
    BY <1>7, MemberIsSeq
  <2>2. \A i \in DOMAIN ds : ds[i] \in E
    BY <1>7
  <2>. QED
    BY <1>5, <2>1, <2>2
<1>9. config' = [entries |-> ds, sections |-> config.sections,
                 include_paths |-> config.include_paths]
  BY <1>1, <1>2, ConfigFields
<1>10. /\ config'.entries = ds /\ config'.sections = config.sections
       /\ config'.include_paths = config.include_paths
  BY <1>9
<1>11. Shaped'
  <2>1. IsSeq(config'.entries) /\ IsSeq(config'.sections) /\ IsSeq(config'.include_paths)
    BY <1>8, <1>10 DEF Shaped
  <2>2. config' = [entries |-> config'.entries, sections |-> config'.sections,
                   include_paths |-> config'.include_paths]
    BY <1>9, <1>10
  <2>. QED
    BY <1>1, <2>1, <2>2 DEF Shaped
<1>12. EachFileOnce'
  <2>1. ConfigOnce(config')
    BY <1>3, <1>7, <1>8, <1>10 DEF ConfigOnce
  <2>2. Len(frames') <= Len(config'.include_paths)
    BY <1>1, <1>10, EachFileOnceParts
  <2>3. outcome' # "parsing" /\ ~(frames' # <<>>)
    BY <1>1, <1>3
  <2>. QED
    BY <1>1, <1>10, <2>1, <2>2, <2>3 DEF EachFileOnce, TypeOK, ConfigOnce, Types
<1>. QED
  BY <1>11, <1>12

LEMMA OnceInit == Init => Shaped /\ EachFileOnce
<1> SUFFICES ASSUME Init PROVE Shaped /\ EachFileOnce
  OBVIOUS
<1>1. PICK f : f = [section |-> <<>>, partial |-> <<>>, opened |-> 0]
  OBVIOUS
<1>2. IsSeq(<<>>) /\ IsSeq(<<f>>) /\ IsSeq(<<Top>>)
  BY DEF IsSeq
<1>3. frames = <<f>> /\ log = <<>> /\ outcome = "parsing"
      /\ config = [entries |-> <<>>, sections |-> <<>>, include_paths |-> <<Top>>]
  BY <1>1 DEF Init, Frame
<1>4. IsFrame(f)
  BY <1>1, <1>2 DEF IsFrame
<1>5. Shaped
  BY <1>2, <1>3, <1>4 DEF Shaped
<1>6. EachFileOnce
  <2>1. IsInjective(<<>>) /\ IsInjective(<<Top>>)
    BY DEF IsInjective
  <2>2. config.entries = <<>> /\ config.sections = <<>> /\ config.include_paths = <<Top>>
    BY <1>3
  <2>3. Len(frames) = 1 /\ Len(config.include_paths) = 1
    BY <1>3, <2>2
  <2>. QED
    BY <1>3, <2>1, <2>2, <2>3, Limits DEF EachFileOnce, TypeOK
<1>. QED
  BY <1>5, <1>6

LEMMA OnceStep ==
    ASSUME Shaped, EachFileOnce, [Next]_vars
    PROVE  Shaped' /\ EachFileOnce'
<1>1. ASSUME NEW text \in Lines, ReadLine(text)
      PROVE  Shaped' /\ EachFileOnce'
  <2>1. outcome = "parsing"
    BY <1>1 DEF ReadLine
  <2>2. frames # <<>>
    BY <2>1, EachFileOnceParts
  <2>3. Passes \/ Includes \/ Heads \/ Stores \/ Refuses
    BY <1>1, <2>2, ReadLineCases
  <2>4. CASE Passes
    BY <2>2, <2>4, OnceSame DEF Passes
  <2>5. CASE Refuses
    <3>1. IsSeq(log')
      BY <2>5, LoggedFacts DEF Refuses, Shaped
    <3>. QED
      BY <2>1, <2>5, <3>1, OnceReturns DEF Refuses
  <2>. QED
    BY <2>2, <2>3, <2>4, <2>5, OnceIncludes, OnceHeads, OnceStores
<1>2. CASE EndOfFile
  <2>1. outcome = "parsing" /\ Return("ok") /\ config' = config /\ IsSeq(log')
    BY <1>2 DEF EndOfFile, Shaped
  <2>. QED
    BY <2>1, OnceReturns
<1>3. CASE Complete
  BY <1>3, OnceCompletes
<1>4. CASE UNCHANGED vars
  BY <1>4 DEF vars, Shaped, EachFileOnce, TypeOK
<1>. QED
  BY <1>1, <1>2, <1>3, <1>4 DEF Next

-----------------------------------------------------------------------------
(* The section a line is in.  A log grows by one line x: the sections of    *)
(* the lines that were there stay the same.                                *)

SectionsOf(l) == CHOOSE sec : Recurs(sec, l)

LEMMA SectionOfIs == SectionOf = SectionsOf(log)
BY DEF SectionOf, SectionsOf, Recurs, InEffect

LEMMA FramedFacts ==
    ASSUME NEW l, Framed(l)
    PROVE  /\ Len(l) \in Nat /\ DOMAIN l = 1 .. Len(l)
           /\ \A i \in 1 .. Len(l) : l[i].frame \in 0 .. i - 1
BY SeqElements DEF Framed

LEMMA AboveFacts ==
    ASSUME NEW b \in Nat, NEW above \in SUBSET (1 .. b), above # {}
    PROVE  Max(above) \in above /\ \A j \in above : j <= Max(above)
<1>1. above \in SUBSET (0 .. b)
  OBVIOUS
<1>. QED
  BY <1>1, MaxFacts

\* Only the lines above count.
LEMMA InEffectLocal ==
    ASSUME NEW l, NEW r, NEW sec, NEW tec, NEW frame, NEW i \in Nat,
           \A j \in 1 .. i - 1 : l[j] = r[j], frame # 0 => sec[frame] = tec[frame]
    PROVE  InEffect(sec, l, frame, i) = InEffect(tec, r, frame, i)
<1>1. PICK above : above = {j \in 1 .. i - 1 : l[j].frame = frame /\ l[j].what = "section"}
  OBVIOUS
<1>2. above = {j \in 1 .. i - 1 : r[j].frame = frame /\ r[j].what = "section"}
  BY <1>1
<1>3. /\ InEffect(sec, l, frame, i) =
            IF above # {} THEN l[Max(above)].name ELSE IF frame = 0 THEN <<>> ELSE sec[frame]
      /\ InEffect(tec, r, frame, i) =
            IF above # {} THEN r[Max(above)].name ELSE IF frame = 0 THEN <<>> ELSE tec[frame]
  BY <1>1, <1>2 DEF InEffect
<1>4. CASE above # {}
  <2>1. above \in SUBSET (1 .. i)
    BY <1>1
  <2>2. Max(above) \in above
    BY <1>4, <2>1, AboveFacts
  <2>3. Max(above) \in 1 .. i - 1
    BY <1>1, <2>2
  <2>. QED
    BY <1>3, <1>4, <2>3
<1>5. CASE above = {}
  BY <1>3, <1>5
<1>. QED
  BY <1>4, <1>5

\* The sections of the lines of l are those they have in every longer log.
LEMMA RecursUnique ==
    ASSUME NEW l, Framed(l), NEW r, Len(l) <= Len(r), Len(r) \in Nat, DOMAIN r = 1 .. Len(r),
           \A j \in 1 .. Len(l) : l[j] = r[j],
           NEW sec, Recurs(sec, l), NEW tec, Recurs(tec, r)
    PROVE  \A i \in 1 .. Len(l) : sec[i] = tec[i]
<1>1. PICK n \in Nat : n = Len(l)
  BY FramedFacts
<1>2. DOMAIN l = 1 .. n /\ \A i \in 1 .. n : l[i].frame \in 0 .. i - 1
  BY <1>1, FramedFacts
<1>3. PICK Bad : Bad = {i \in 1 .. n : sec[i] # tec[i]}
  OBVIOUS
<1>4. ASSUME Bad # {} PROVE FALSE
  <2>1. PICK m : m = Min(Bad)
    OBVIOUS
  <2>2. m \in Bad /\ \A i \in Bad : m <= i
    <3>1. Bad \in SUBSET Nat
      BY <1>3
    <3>. QED
      BY <1>4, <2>1, <3>1, MinFacts
  <2>3. m \in 1 .. n /\ m \in Nat /\ m \in 1 .. Len(r)
    BY <1>1, <1>3, <2>2
  <2>4. PICK frame : frame = l[m].frame
    OBVIOUS
  <2>5. frame \in 0 .. m - 1 /\ r[m].frame = frame
    BY <1>1, <1>2, <2>3, <2>4
  <2>6. frame # 0 => sec[frame] = tec[frame]
    <3>1. SUFFICES ASSUME frame # 0 PROVE sec[frame] = tec[frame]
      OBVIOUS
    <3>2. frame \in 1 .. n /\ frame \notin Bad
      BY <2>2, <2>3, <2>5, <3>1
    <3>. QED
      BY <1>3, <3>2
  <2>7. sec[m] = InEffect(sec, l, frame, m)
    BY <1>2, <2>3, <2>4 DEF Recurs
  <2>8. tec[m] = InEffect(tec, r, frame, m)
    BY <2>3, <2>5 DEF Recurs
  <2>9. \A j \in 1 .. m - 1 : l[j] = r[j]
    BY <1>1, <2>3
  <2>10. InEffect(sec, l, frame, m) = InEffect(tec, r, frame, m)
    BY <2>3, <2>6, <2>9, InEffectLocal
  <2>. QED
    BY <1>3, <2>2, <2>7, <2>8, <2>10
<1>. QED
  BY <1>1, <1>3, <1>4

\* r is l with the line x behind it.
Extends(r, l, x) ==
    /\ Framed(l) /\ x.frame \in 0 .. Len(l)
    /\ Len(r) = Len(l) + 1 /\ DOMAIN r = 1 .. Len(l) + 1
    /\ \A j \in 1 .. Len(l) : r[j] = l[j]
    /\ r[Len(l) + 1] = x

LEMMA RecursExtends ==
    ASSUME NEW l, NEW r, NEW x, Extends(r, l, x), Recurs(SectionsOf(l), l)
    PROVE  /\ Recurs(SectionsOf(r), r)
           /\ \A i \in 1 .. Len(l) : SectionsOf(r)[i] = SectionsOf(l)[i]
<1>1. PICK n \in Nat : n = Len(l)
  BY FramedFacts DEF Extends
<1>2. /\ DOMAIN l = 1 .. n /\ \A i \in 1 .. n : l[i].frame \in 0 .. i - 1
      /\ x.frame \in 0 .. n /\ Len(r) = n + 1 /\ DOMAIN r = 1 .. n + 1
      /\ \A j \in 1 .. n : r[j] = l[j]
      /\ r[n + 1] = x
  BY <1>1, FramedFacts DEF Extends
<1>3. PICK sec : sec = SectionsOf(l)
  OBVIOUS
<1>4. Recurs(sec, l)
  BY <1>3
<1>5. PICK last : last = InEffect(sec, r, x.frame, n + 1)
  OBVIOUS
<1>6. PICK tec : tec = [i \in 1 .. n + 1 |-> IF i = n + 1 THEN last ELSE sec[i]]
  OBVIOUS
<1>7. \A i \in 1 .. n : tec[i] = sec[i]
  BY <1>6
<1>8. tec[n + 1] = last
  BY <1>6
<1>9. ASSUME NEW i \in 1 .. n + 1
      PROVE  tec[i] = InEffect(tec, r, r[i].frame, i)
  <2>1. CASE i = n + 1
    <3>1. PICK frame \in 0 .. n : frame = x.frame
      BY <1>2
    <3>2. frame # 0 => sec[frame] = tec[frame]
      BY <1>7
    <3>3. \A j \in 1 .. (n + 1) - 1 : r[j] = r[j]
      OBVIOUS
    <3>4. InEffect(sec, r, frame, n + 1) = InEffect(tec, r, frame, n + 1)
      BY <3>2, <3>3, InEffectLocal
    <3>. QED
      BY <1>2, <1>5, <1>8, <2>1, <3>1, <3>4
  <2>2. CASE i \in 1 .. n
    <3>1. PICK frame \in 0 .. i - 1 : frame = l[i].frame
      BY <1>2, <2>2
    <3>2. frame # 0 => sec[frame] = tec[frame]
      BY <1>7, <2>2
    <3>3. \A j \in 1 .. i - 1 : l[j] = r[j]
      BY <1>2, <2>2
    <3>4. InEffect(sec, l, frame, i) = InEffect(tec, r, frame, i)
      BY <2>2, <3>2, <3>3, InEffectLocal
    <3>5. sec[i] = InEffect(sec, l, frame, i)
      BY <1>2, <1>4, <2>2, <3>1 DEF Recurs
    <3>. QED
      BY <1>2, <1>7, <2>2, <3>1, <3>4, <3>5
  <2>. QED
    BY <2>1, <2>2
<1>10. Recurs(tec, r)
  <2>1. tec = [i \in 1 .. n + 1 |-> tec[i]]
    BY <1>6
  <2>2. [i \in 1 .. n + 1 |-> tec[i]] = [i \in 1 .. n + 1 |-> InEffect(tec, r, r[i].frame, i)]
    BY <1>9
  <2>. QED
    BY <1>2, <2>1, <2>2 DEF Recurs
<1>11. Recurs(SectionsOf(r), r)
  BY <1>10 DEF SectionsOf
<1>12. \A i \in 1 .. Len(l) : sec[i] = SectionsOf(r)[i]
  <2>1. PICK uec : uec = SectionsOf(r)
    OBVIOUS
  <2>2. Recurs(uec, r)
    BY <1>11, <2>1
  <2>3. /\ Framed(l) /\ Len(l) <= Len(r) /\ Len(r) \in Nat /\ DOMAIN r = 1 .. Len(r)
        /\ \A j \in 1 .. Len(l) : l[j] = r[j]
    BY <1>1, <1>2 DEF Extends
  <2>. QED
    BY <1>4, <2>1, <2>2, <2>3, RecursUnique
<1>. QED
  BY <1>3, <1>11, <1>12

\* The first n elements are the same.
Agree(s, t, n) == \A i \in 1 .. n : s[i] = t[i]

\* A header counts from the next line on, for its own file only.
LEMMA InEffectNext ==
    ASSUME NEW l, NEW r, NEW x, Extends(r, l, x), NEW n, n = Len(l), NEW frame \in 0 .. n,
           NEW sec, NEW tec, Agree(tec, sec, n),
           NEW here, here = n + 1, NEW below, below = n + 2
    PROVE  InEffect(tec, r, frame, below) =
             IF x.frame = frame /\ x.what = "section" THEN x.name
             ELSE InEffect(sec, l, frame, here)
<1>1. n \in Nat /\ r[n + 1] = x /\ \A j \in 1 .. n : r[j] = l[j]
  BY FramedFacts DEF Extends
<1>11. \A i \in 1 .. n : tec[i] = sec[i]
  BY DEF Agree
<1>2. PICK above, next :
        /\ above = {j \in 1 .. (n + 1) - 1 : l[j].frame = frame /\ l[j].what = "section"}
        /\ next = {j \in 1 .. (n + 2) - 1 : r[j].frame = frame /\ r[j].what = "section"}
  OBVIOUS
<1>3. /\ InEffect(sec, l, frame, n + 1) =
            IF above # {} THEN l[Max(above)].name ELSE IF frame = 0 THEN <<>> ELSE sec[frame]
      /\ InEffect(tec, r, frame, n + 2) =
            IF next # {} THEN r[Max(next)].name ELSE IF frame = 0 THEN <<>> ELSE tec[frame]
  BY <1>2 DEF InEffect
<1>4. \A j \in next : j = n + 1 \/ j \in above
  BY <1>1, <1>2
<1>5. above \subseteq next /\ \A j \in above : j \in 1 .. n
  BY <1>1, <1>2
<1>6. n + 1 \in next <=> x.frame = frame /\ x.what = "section"
  BY <1>1, <1>2
<1>7. n + 1 \in Nat /\ n + 2 \in Nat
  BY <1>1
<1>10. above \in SUBSET (1 .. n + 1) /\ next \in SUBSET (1 .. n + 2)
  BY <1>1, <1>2
<1>8. CASE n + 1 \in next
  <2>1. PICK m : m = Max(next)
    OBVIOUS
  <2>2. m \in next /\ n + 1 <= m
    BY <1>7, <1>8, <1>10, <2>1, AboveFacts
  <2>3. m = n + 1
    BY <1>1, <1>4, <1>5, <2>2
  <2>. QED
    BY <1>1, <1>3, <1>6, <1>8, <2>1, <2>3
<1>9. CASE n + 1 \notin next
  <2>1. next = above
    BY <1>4, <1>5, <1>9
  <2>2. CASE above # {}
    <3>1. Max(above) \in above
      BY <1>7, <1>10, <2>2, AboveFacts
    <3>2. Max(above) \in 1 .. n
      BY <1>5, <3>1
    <3>. QED
      BY <1>1, <1>3, <1>6, <1>9, <2>1, <2>2, <3>2
  <2>3. CASE above = {}
    <3>1. frame # 0 => tec[frame] = sec[frame]
      BY <1>1, <1>11
    <3>. QED
      BY <1>3, <1>6, <1>9, <2>1, <2>3, <3>1
  <2>. QED
    BY <2>2, <2>3
<1>. QED
  BY <1>8, <1>9

\* A file starts in the section of the line that includes it.
LEMMA InEffectOpened ==
    ASSUME NEW l, NEW r, NEW x, Extends(r, l, x), NEW n, n = Len(l), NEW tec,
           NEW here, here = n + 1, NEW below, below = n + 2
    PROVE  InEffect(tec, r, here, below) = tec[here]
<1>1. /\ n \in Nat /\ r[n + 1] = x /\ \A j \in 1 .. n : r[j] = l[j]
      /\ x.frame \in 0 .. n /\ \A j \in 1 .. n : l[j].frame \in 0 .. j - 1
  BY FramedFacts DEF Extends
<1>2. \A j \in 1 .. (n + 2) - 1 : r[j].frame # n + 1
  <2>1. TAKE j \in 1 .. (n + 2) - 1
  <2>2. j = n + 1 \/ j \in 1 .. n
    BY <1>1
  <2>. QED
    BY <1>1, <2>2
<1>3. {j \in 1 .. (n + 2) - 1 : r[j].frame = n + 1 /\ r[j].what = "section"} = {}
  BY <1>2
<1>4. n + 1 # 0
  BY <1>1
<1>. QED
  BY <1>3, <1>4 DEF InEffect

\* The calls that were there stay where they are; the innermost follows a header x.
Follows(next, calls, top, x) ==
    /\ DOMAIN calls = 1 .. top /\ DOMAIN next = 1 .. top
    /\ \A k \in 1 .. top : next[k].opened = calls[k].opened
    /\ \A k \in 1 .. top : k # top => next[k].section = calls[k].section
    /\ x.frame = calls[top].opened
    /\ next[top].section = IF x.what = "section" THEN x.name ELSE calls[top].section

LEMMA PlacedKept ==
    ASSUME NEW l, NEW r, NEW x, Extends(r, l, x),
           NEW sec, NEW tec, Agree(tec, sec, Len(l)),
           NEW calls, NEW next, NEW top \in Nat \ {0},
           Placed(calls, sec, l), Follows(next, calls, top, x)
    PROVE  Placed(next, tec, r)
<1>1. PICK n \in Nat : n = Len(l)
  BY FramedFacts DEF Extends
<1>2. Len(r) = n + 1
  BY <1>1 DEF Extends
<1>20. /\ DOMAIN calls = 1 .. top /\ DOMAIN next = 1 .. top
       /\ \A k \in 1 .. top : next[k].opened = calls[k].opened
       /\ \A k \in 1 .. top : k # top => next[k].section = calls[k].section
       /\ x.frame = calls[top].opened
       /\ next[top].section = IF x.what = "section" THEN x.name ELSE calls[top].section
  BY DEF Follows
<1>3. /\ \A k \in 1 .. top : calls[k].opened \in 0 .. n
      /\ \A k \in 1 .. top : calls[k].section = InEffect(sec, l, calls[k].opened, n + 1)
      /\ \A j, k \in 1 .. top : j < k => calls[j].opened < calls[k].opened
  BY <1>1, <1>20 DEF Placed
<1>4. \A k \in 1 .. top : k # top => calls[k].opened # x.frame
  <2>1. TAKE k \in 1 .. top
  <2>2. SUFFICES ASSUME k # top PROVE calls[k].opened # x.frame
    OBVIOUS
  <2>3. k < top /\ top \in 1 .. top
    BY <2>2
  <2>4. calls[k].opened < calls[top].opened
    BY <1>3, <2>3
  <2>5. PICK a, b \in Int : a = calls[k].opened /\ b = calls[top].opened
    BY <1>3, <2>3
  <2>. QED
    BY <1>20, <2>4, <2>5
<1>5. ASSUME NEW k \in 1 .. top
      PROVE  next[k].section = InEffect(tec, r, next[k].opened, n + 2)
  <2>1. PICK frame \in 0 .. n : frame = calls[k].opened
    BY <1>3
  <2>2. InEffect(tec, r, frame, n + 2) =
          IF x.frame = frame /\ x.what = "section" THEN x.name
          ELSE InEffect(sec, l, frame, n + 1)
    <3>1. Agree(tec, sec, n)
      BY <1>1 DEF Agree
    <3>2. Extends(r, l, x) /\ n = Len(l)
      BY <1>1
    <3>3. PICK here, below : here = n + 1 /\ below = n + 2
      OBVIOUS
    <3>4. InEffect(tec, r, frame, below) =
            IF x.frame = frame /\ x.what = "section" THEN x.name
            ELSE InEffect(sec, l, frame, here)
      BY <3>1, <3>2, <3>3, InEffectNext
    <3>. QED
      BY <3>3, <3>4
  <2>3. next[k].opened = frame /\ calls[k].section = InEffect(sec, l, frame, n + 1)
    BY <1>3, <1>20, <2>1
  <2>4. CASE k = top
    BY <1>20, <2>1, <2>2, <2>3, <2>4
  <2>5. CASE k # top
    <3>1. x.frame # frame
      BY <1>4, <2>1, <2>5
    <3>. QED
      BY <1>20, <2>2, <2>3, <2>5, <3>1
  <2>. QED
    BY <2>4, <2>5
<1>6. \A k \in 1 .. top : next[k].opened \in 0 .. n + 1
  BY <1>3, <1>20
<1>7. Len(r) + 1 = n + 2
  BY <1>2
<1>8. \A j, k \in 1 .. top : j < k => next[j].opened < next[k].opened
  BY <1>3, <1>20
<1>. QED
  BY <1>2, <1>5, <1>20, <1>6, <1>7, <1>8 DEF Placed

\* A line is in the section of its call.
LEMMA SectionOfLast ==
    ASSUME NEW l, NEW r, NEW x, Extends(r, l, x),
           NEW sec, NEW tec, Agree(tec, sec, Len(l)), Recurs(tec, r),
           NEW calls, NEW top \in DOMAIN calls, Placed(calls, sec, l), x.frame = calls[top].opened,
           NEW here, here = Len(l) + 1
    PROVE  tec[here] = calls[top].section
<1>1. PICK n \in Nat : n = Len(l)
  BY FramedFacts DEF Extends
<1>2. Len(r) = n + 1 /\ DOMAIN r = 1 .. n + 1 /\ r[n + 1] = x /\ \A j \in 1 .. n : r[j] = l[j]
  BY <1>1 DEF Extends
<1>3. PICK frame \in 0 .. n : frame = calls[top].opened
  BY <1>1 DEF Placed
<1>4. tec[n + 1] = InEffect(tec, r, frame, n + 1)
  <2>1. n + 1 \in DOMAIN r /\ r[n + 1].frame = frame
    BY <1>2, <1>3
  <2>. QED
    BY <2>1 DEF Recurs
<1>5. InEffect(sec, l, frame, n + 1) = InEffect(tec, r, frame, n + 1)
  <2>1. frame # 0 => sec[frame] = tec[frame]
    BY <1>1, <1>3 DEF Agree
  <2>2. \A j \in 1 .. (n + 1) - 1 : l[j] = r[j]
    BY <1>2
  <2>. QED
    BY <2>1, <2>2, InEffectLocal
<1>6. calls[top].section = InEffect(sec, l, frame, n + 1)
  BY <1>1, <1>3 DEF Placed
<1>. QED
  BY <1>1, <1>4, <1>5, <1>6

\* The call that is opened starts in the section of the one it is nested in.
Nests(next, calls, top, x) ==
    /\ DOMAIN calls = 1 .. top /\ DOMAIN next = 1 .. top + 1
    /\ \A k \in 1 .. top : /\ next[k].opened = calls[k].opened
                            /\ next[k].section = calls[k].section
    /\ x.frame = calls[top].opened /\ next[top + 1].section = calls[top].section

\* A file that is opened starts in the section its @include is in.
LEMMA PlacedOpens ==
    ASSUME NEW l, NEW r, NEW x, Extends(r, l, x), x.what # "section",
           NEW sec, NEW tec, Agree(tec, sec, Len(l)), Recurs(tec, r),
           NEW calls, NEW next, NEW top \in Nat \ {0}, Nests(next, calls, top, x),
           Placed(calls, sec, l), next[top + 1].opened = Len(l) + 1
    PROVE  Placed(next, tec, r)
<1>20. /\ DOMAIN calls = 1 .. top /\ DOMAIN next = 1 .. top + 1
       /\ \A k \in 1 .. top : /\ next[k].opened = calls[k].opened
                               /\ next[k].section = calls[k].section
       /\ x.frame = calls[top].opened /\ next[top + 1].section = calls[top].section
  BY DEF Nests
<1>1. PICK n \in Nat : n = Len(l)
  BY FramedFacts DEF Extends
<1>2. Len(r) = n + 1 /\ DOMAIN r = 1 .. n + 1 /\ r[n + 1] = x /\ \A j \in 1 .. n : r[j] = l[j]
  BY <1>1 DEF Extends
<1>3. PICK outer : outer = [k \in 1 .. top |-> next[k]]
  OBVIOUS
<1>4. \A k \in 1 .. top : outer[k] = next[k]
  BY <1>3
<1>5. DOMAIN outer = 1 .. top
  BY <1>3
<1>6. Placed(outer, tec, r)
  <2>1. \A k \in 1 .. top : outer[k].opened = calls[k].opened
    BY <1>4, <1>20
  <2>2. \A k \in 1 .. top : k # top => outer[k].section = calls[k].section
    BY <1>4, <1>20
  <2>3. top \in 1 .. top
    OBVIOUS
  <2>4. outer[top].section = IF x.what = "section" THEN x.name ELSE calls[top].section
    BY <1>4, <1>20, <2>3
  <2>5. Follows(outer, calls, top, x)
    BY <1>5, <1>20, <2>1, <2>2, <2>4 DEF Follows
  <2>. QED
    BY <2>5, PlacedKept
<1>7. /\ \A k \in 1 .. top : next[k].opened \in 0 .. n + 1
      /\ \A k \in 1 .. top : next[k].section = InEffect(tec, r, next[k].opened, Len(r) + 1)
      /\ \A j, k \in 1 .. top : j < k => next[j].opened < next[k].opened
  BY <1>2, <1>4, <1>5, <1>6 DEF Placed
<1>8. \A k \in 1 .. top : calls[k].opened \in 0 .. n
  BY <1>1, <1>20 DEF Placed
<1>9. next[top + 1].section = InEffect(tec, r, next[top + 1].opened, Len(r) + 1)
  <2>2. tec[n + 1] = calls[top].section
    <3>1. top \in DOMAIN calls /\ n + 1 = Len(l) + 1
      BY <1>1, <1>20
    <3>2. PICK here : here = n + 1
      OBVIOUS
    <3>3. tec[here] = calls[top].section
      BY <1>20, <3>1, <3>2, SectionOfLast
    <3>. QED
      BY <3>2, <3>3
  <2>5. InEffect(tec, r, n + 1, n + 2) = tec[n + 1]
    <3>1. PICK here, below : here = n + 1 /\ below = n + 2
      OBVIOUS
    <3>2. InEffect(tec, r, here, below) = tec[here]
      BY <1>1, <3>1, InEffectOpened
    <3>. QED
      BY <3>1, <3>2
  <2>6. Len(r) + 1 = n + 2 /\ next[top + 1].opened = n + 1
    BY <1>1, <1>2
  <2>. QED
    BY <1>20, <2>2, <2>5, <2>6
<1>10. \A k \in 1 .. top + 1 : k = top + 1 \/ k \in 1 .. top
  OBVIOUS
<1>11. next[top + 1].opened = n + 1 /\ n + 1 \in 0 .. n + 1
  BY <1>1
<1>12. ASSUME NEW j \in 1 .. top + 1, NEW k \in 1 .. top + 1, j < k
       PROVE  next[j].opened < next[k].opened
  <2>1. j \in 1 .. top
    BY <1>12
  <2>2. CASE k \in 1 .. top
    BY <1>7, <1>12, <2>1, <2>2
  <2>3. CASE k = top + 1
    <3>1. next[j].opened \in 0 .. n
      BY <1>8, <1>20, <2>1
    <3>. QED
      BY <1>11, <2>3, <3>1
  <2>. QED
    BY <1>10, <2>2, <2>3
<1>. QED
  BY <1>2, <1>7, <1>9, <1>10, <1>11, <1>12, <1>20 DEF Placed

LEMMA PlacedReturns ==
    ASSUME NEW l, NEW sec, NEW calls, NEW next, NEW top \in Nat \ {0},
           DOMAIN calls = 1 .. top, DOMAIN next = 1 .. top - 1,
           \A k \in 1 .. top - 1 : next[k] = calls[k], Placed(calls, sec, l)
    PROVE  Placed(next, sec, l)
<1>1. \A k \in 1 .. top - 1 : k \in 1 .. top
  OBVIOUS
<1>. QED
  BY <1>1 DEF Placed

-----------------------------------------------------------------------------
(* Every step leaves the calls in their sections.                          *)

\* The line that is logged.
LineLogged(what, name, value) ==
    [frame |-> Current.opened, what |-> what, name |-> name, value |-> value]

LEMMA LogGrows ==
    ASSUME Shaped, frames # <<>>, CallsInSection,
           NEW what, NEW name, NEW value, Logged(what, name, value),
           NEW x, x = LineLogged(what, name, value), NEW top, top = Len(frames)
    PROVE  /\ Extends(log', log, x) /\ Framed(log')
           /\ Recurs(SectionOf', log') /\ Agree(SectionOf', SectionOf, Len(log))
           /\ x.frame = frames[top].opened /\ x.what = what /\ x.name = name /\ x.value = value
           /\ top \in Nat \ {0} /\ DOMAIN frames = 1 .. top
<1>1. IsSeq(log) /\ Framed(log) /\ Recurs(SectionOf, log) /\ Placed(frames, SectionOf, log)
  BY DEF Shaped, CallsInSection
<1>2. PICK n \in Nat : n = Len(log)
  BY <1>1 DEF IsSeq
<1>3. PICK f, d : f = Current.opened /\ d = frames[top].opened
  OBVIOUS
<1>4. f = d /\ top \in Nat \ {0} /\ DOMAIN frames = 1 .. top
  <2>1. PICK cur : cur = Current
    OBVIOUS
  <2>. QED
    BY <1>3, <2>1, CurrentFacts
<1>5. d \in 0 .. n
  <2>1. top \in DOMAIN frames
    BY <1>4
  <2>. QED
    BY <1>1, <1>2, <1>3, <2>1 DEF Placed
<1>6. x = [frame |-> f, what |-> what, name |-> name, value |-> value]
  BY <1>3 DEF LineLogged
<1>7. x.frame = f /\ x.what = what /\ x.name = name /\ x.value = value
  BY <1>6
<1>8. PICK r : r = log'
  OBVIOUS
<1>9. /\ IsSeq(r) /\ Len(r) = n + 1 /\ DOMAIN r = 1 .. n + 1 /\ DOMAIN log = 1 .. n
      /\ \A i \in 1 .. n : r[i] = log[i]
  BY <1>1, <1>2, <1>8, LoggedFacts
<1>10. r[n + 1] = x
  BY <1>1, <1>2, <1>3, <1>6, <1>8, LoggedFacts
<1>11. Extends(r, log, x)
  BY <1>1, <1>2, <1>4, <1>5, <1>7, <1>9, <1>10 DEF Extends
<1>12. Framed(r)
  <2>1. \A i \in 1 .. n : log[i].frame \in 0 .. i - 1
    BY <1>1, <1>9 DEF Framed
  <2>2. \A i \in 1 .. n + 1 : r[i].frame \in 0 .. i - 1
    <3>1. TAKE i \in 1 .. n + 1
    <3>2. CASE i \in 1 .. n
      BY <1>9, <2>1, <3>2
    <3>3. CASE i = n + 1
      BY <1>4, <1>5, <1>7, <1>10, <3>3
    <3>. QED
      BY <3>2, <3>3
  <2>. QED
    BY <1>9, <2>2 DEF Framed
<1>13. SectionOf = SectionsOf(log) /\ SectionOf' = SectionsOf(r)
  <2>1. SectionOf' = SectionsOf(log')
    BY DEF SectionOf, SectionsOf, Recurs, InEffect
  <2>. QED
    BY <1>8, <2>1, SectionOfIs
<1>14. Recurs(SectionsOf(log), log)
  BY <1>1, <1>13
<1>15. /\ Recurs(SectionsOf(r), r)
       /\ \A i \in 1 .. Len(log) : SectionsOf(r)[i] = SectionsOf(log)[i]
  BY <1>11, <1>14, RecursExtends
<1>16. Agree(SectionsOf(r), SectionsOf(log), Len(log))
  BY <1>15 DEF Agree
<1>17. Recurs(SectionOf', r) /\ Agree(SectionOf', SectionOf, Len(log))
  BY <1>13, <1>15, <1>16
<1>. QED
  BY <1>3, <1>4, <1>7, <1>8, <1>11, <1>12, <1>17

\* A call goes on: it changes its section with a header, and only then.
LEMMA SectionsKept ==
    ASSUME Shaped, frames # <<>>, CallsInSection,
           NEW what, NEW name, NEW value, Logged(what, name, value),
           NEW section, NEW partial, IsSeq(partial), Goes(section, partial),
           IF what = "section" THEN section = name ELSE section = Current.section
    PROVE  CallsInSection'
<1>1. PICK x, top : x = LineLogged(what, name, value) /\ top = Len(frames)
  OBVIOUS
<1>2. PICK l, r, sec, tec, calls, next :
        /\ l = log /\ r = log' /\ sec = SectionOf /\ tec = SectionOf'
        /\ calls = frames /\ next = frames'
  OBVIOUS
<1>3. /\ Extends(r, l, x) /\ Framed(r) /\ Recurs(tec, r) /\ Agree(tec, sec, Len(l))
      /\ x.frame = calls[top].opened /\ x.what = what /\ x.name = name
      /\ top \in Nat \ {0} /\ DOMAIN calls = 1 .. top
  BY <1>1, <1>2, LogGrows
<1>4. /\ DOMAIN next = 1 .. top
      /\ \A k \in DOMAIN next : next[k].opened = calls[k].opened
      /\ \A k \in DOMAIN next : k # Len(frames) => next[k].section = calls[k].section
      /\ next[Len(frames)].section = section
  BY <1>2, <1>3, GoesFacts
<1>5. Current.section = calls[top].section
  BY <1>1, <1>2 DEF Current, Last
<1>6. next[top].section = IF x.what = "section" THEN x.name ELSE calls[top].section
  BY <1>1, <1>3, <1>4, <1>5
<1>7. Follows(next, calls, top, x)
  BY <1>1, <1>3, <1>4, <1>6 DEF Follows
<1>8. Placed(calls, sec, l)
  BY <1>2 DEF CallsInSection
<1>9. Placed(next, tec, r)
  BY <1>3, <1>7, <1>8, PlacedKept
<1>. QED
  BY <1>2, <1>3, <1>9 DEF CallsInSection

LEMMA SectionsOpened ==
    ASSUME Shaped, frames # <<>>, CallsInSection,
           NEW what, NEW name, NEW value, Logged(what, name, value), what # "section", Opens
    PROVE  CallsInSection'
<1>1. PICK x, top : x = LineLogged(what, name, value) /\ top = Len(frames)
  OBVIOUS
<1>2. PICK l, r, sec, tec, calls, next :
        /\ l = log /\ r = log' /\ sec = SectionOf /\ tec = SectionOf'
        /\ calls = frames /\ next = frames'
  OBVIOUS
<1>3. /\ Extends(r, l, x) /\ Framed(r) /\ Recurs(tec, r) /\ Agree(tec, sec, Len(l))
      /\ x.frame = calls[top].opened /\ x.what = what
      /\ top \in Nat \ {0} /\ DOMAIN calls = 1 .. top
  BY <1>1, <1>2, LogGrows
<1>4. /\ DOMAIN next = 1 .. top + 1
      /\ \A k \in DOMAIN calls : /\ next[k].opened = calls[k].opened
                                 /\ next[k].section = calls[k].section
      /\ next[top + 1].section = calls[top].section
      /\ next[top + 1].opened = Len(l) + 1
  BY <1>1, <1>2, OpensFacts
<1>5. Nests(next, calls, top, x)
  BY <1>3, <1>4 DEF Nests
<1>6. Placed(calls, sec, l)
  BY <1>2 DEF CallsInSection
<1>7. Placed(next, tec, r)
  BY <1>3, <1>4, <1>5, <1>6, PlacedOpens
<1>. QED
  BY <1>2, <1>3, <1>7 DEF CallsInSection

\* A call returns, at the end of its file or at a pair that is refused.
LEMMA SectionsReturned ==
    ASSUME Shaped, frames # <<>>, CallsInSection, NEW rc, Return(rc),
           NEW what, NEW name, NEW value,
           log' = log \/ (Logged(what, name, value) /\ what # "section")
    PROVE  CallsInSection'
<1>1. PICK top : top = Len(frames)
  OBVIOUS
<1>2. PICK calls, next : calls = frames /\ next = frames'
  OBVIOUS
<1>3. /\ top \in Nat \ {0} /\ DOMAIN calls = 1 .. top /\ DOMAIN next = 1 .. top - 1
      /\ \A k \in 1 .. top - 1 : next[k] = calls[k]
  BY <1>1, <1>2, ReturnFacts
<1>4. Placed(calls, SectionOf, log) /\ Framed(log) /\ Recurs(SectionOf, log)
  BY <1>2 DEF CallsInSection
<1>5. CASE log' = log
  <2>1. SectionOf' = SectionOf
    BY <1>5 DEF SectionOf
  <2>2. PICK sec, l : sec = SectionOf /\ l = log
    OBVIOUS
  <2>3. Placed(next, sec, l)
    BY <1>3, <1>4, <2>2, PlacedReturns
  <2>. QED
    BY <1>2, <1>4, <1>5, <2>1, <2>2, <2>3 DEF CallsInSection
<1>6. CASE Logged(what, name, value) /\ what # "section"
  <2>1. PICK x : x = LineLogged(what, name, value)
    OBVIOUS
  <2>2. PICK l, r, sec, tec : l = log /\ r = log' /\ sec = SectionOf /\ tec = SectionOf'
    OBVIOUS
  <2>3. /\ Extends(r, l, x) /\ Framed(r) /\ Recurs(tec, r) /\ Agree(tec, sec, Len(l))
        /\ x.frame = calls[top].opened /\ x.what = what
    BY <1>1, <1>2, <1>6, <2>1, <2>2, LogGrows
  <2>4. Follows(calls, calls, top, x)
    BY <1>3, <1>6, <2>3 DEF Follows
  <2>5. Placed(calls, tec, r)
    BY <1>3, <1>4, <2>2, <2>3, <2>4, PlacedKept
  <2>6. Placed(next, tec, r)
    BY <1>3, <2>5, PlacedReturns
  <2>. QED
    BY <1>2, <2>2, <2>3, <2>6 DEF CallsInSection
<1>. QED
  BY <1>5, <1>6

LEMMA SectionsInit == Init => CallsInSection
<1> SUFFICES ASSUME Init PROVE CallsInSection
  OBVIOUS
<1>1. PICK f : f = [section |-> <<>>, partial |-> <<>>, opened |-> 0]
  OBVIOUS
<1>2. frames = <<f>> /\ log = <<>>
  BY <1>1 DEF Init, Frame
<1>3. Framed(log)
  BY <1>2 DEF Framed, IsSeq
<1>4. Recurs(SectionOf, log)
  <2>1. PICK sec : sec = [i \in DOMAIN log |-> <<>>]
    OBVIOUS
  <2>2. DOMAIN log = {}
    BY <1>2
  <2>3. \A t : [i \in DOMAIN log |-> InEffect(t, log, log[i].frame, i)] = sec
    BY <2>1, <2>2
  <2>4. Recurs(sec, log)
    BY <2>3 DEF Recurs
  <2>. QED
    BY <2>4, SectionOfIs DEF SectionsOf
<1>5. InEffect(SectionOf, log, 0, 1) = <<>>
  BY DEF InEffect
<1>6. f.section = <<>> /\ f.opened = 0
  BY <1>1
<1>7. DOMAIN frames = {1} /\ frames[1] = f /\ Len(log) = 0 /\ Len(log) + 1 = 1
  BY <1>2
<1>8. Placed(frames, SectionOf, log)
  BY <1>5, <1>6, <1>7 DEF Placed
<1>. QED
  BY <1>3, <1>4, <1>8 DEF CallsInSection

LEMMA SectionsStep ==
    ASSUME Shaped, EachFileOnce, CallsInSection, [Next]_vars
    PROVE  CallsInSection'
<1>1. ASSUME NEW text \in Lines, ReadLine(text)
      PROVE  CallsInSection'
  <2>1. frames # <<>>
    BY <1>1, EachFileOnceParts DEF ReadLine
  <2>2. IsSeq(<<>>)
    BY DEF IsSeq
  <2>3. Passes \/ Includes \/ Heads \/ Stores \/ Refuses
    BY <1>1, <2>1, ReadLineCases
  <2>4. CASE Passes
    BY <2>1, <2>4, SectionsKept DEF Passes
  <2>5. CASE Includes
    <3>1. PICK line : Logged("include", <<>>, line) /\ (Goes(Current.section, <<>>) \/ Opens)
      BY <2>5 DEF Includes
    <3>2. CASE Goes(Current.section, <<>>)
      BY <2>1, <2>2, <3>1, <3>2, SectionsKept
    <3>3. CASE Opens
      BY <2>1, <3>1, <3>3, SectionsOpened
    <3>. QED
      BY <3>1, <3>2, <3>3
  <2>6. CASE Heads
    BY <2>1, <2>2, <2>6, SectionsKept DEF Heads
  <2>7. CASE Stores
    <3>1. PICK line : Logged("pair", KeyOf(line), line) /\ Goes(Current.section, <<>>)
      BY <2>7 DEF Stores
    <3>. QED
      BY <2>1, <2>2, <3>1, SectionsKept
  <2>8. CASE Refuses
    <3>1. PICK line : Return("error") /\ Logged("refused", KeyOf(line), line)
      BY <2>8 DEF Refuses
    <3>. QED
      BY <2>1, <3>1, SectionsReturned
  <2>. QED
    BY <2>3, <2>4, <2>5, <2>6, <2>7, <2>8
<1>2. CASE EndOfFile
  <2>1. frames # <<>> /\ Return("ok") /\ log' = log
    BY <1>2, EachFileOnceParts DEF EndOfFile
  <2>. QED
    BY <2>1, SectionsReturned
<1>3. CASE frames' = frames /\ log' = log
  <2>1. SectionOf' = SectionOf
    BY <1>3 DEF SectionOf
  <2>. QED
    BY <1>3, <2>1 DEF CallsInSection
<1>. QED
  BY <1>1, <1>2, <1>3 DEF Next, Complete, vars

-----------------------------------------------------------------------------
(* Every step stores the pair it reads.                                    *)

LEMMA PairsFacts == Pairs = PairsOf(log) /\ \A i : RankOf(i) = RankIn(log, i)
BY DEF Pairs, PairsOf, RankOf, RankIn

LEMMA EntryFields ==
    ASSUME NEW section, NEW key, NEW value, NEW e, e = Entry(section, key, value)
    PROVE  e.section = section /\ e.key = key /\ e.value = ExpandedValue(value)
BY DEF Entry

\* What a line adds to the pairs.
LEMMA PairsExtend ==
    ASSUME NEW l, NEW r, NEW x, Extends(r, l, x), NEW n, n = Len(l)
    PROVE  /\ n \in Nat /\ PairsOf(l) \in SUBSET (1 .. n)
           /\ \A i \in PairsOf(l) : r[i] = l[i] /\ RankIn(r, i) = RankIn(l, i)
           /\ PairsOf(r) = IF x.what = "pair" THEN PairsOf(l) \cup {n + 1} ELSE PairsOf(l)
           /\ RankIn(r, n + 1) = Cardinality(PairsOf(r)) /\ r[n + 1] = x
<1>1. /\ n \in Nat /\ DOMAIN l = 1 .. n /\ DOMAIN r = 1 .. n + 1 /\ r[n + 1] = x
      /\ \A j \in 1 .. n : r[j] = l[j]
  BY FramedFacts DEF Extends
<1>2. PICK P, Q : P = PairsOf(l) /\ Q = PairsOf(r)
  OBVIOUS
<1>3. P = {i \in 1 .. n : l[i].what = "pair"} /\ Q = {i \in 1 .. n + 1 : r[i].what = "pair"}
  BY <1>1, <1>2 DEF PairsOf
<1>4. P \in SUBSET (1 .. n) /\ \A i \in P : r[i] = l[i]
  BY <1>1, <1>3
<1>5. \A i \in 1 .. n + 1 : i \in Q <=> i \in P \/ (i = n + 1 /\ x.what = "pair")
  BY <1>1, <1>3
<1>6. Q = IF x.what = "pair" THEN P \cup {n + 1} ELSE P
  <2>1. Q \subseteq 1 .. n + 1 /\ P \subseteq 1 .. n + 1 /\ n + 1 \in 1 .. n + 1
    BY <1>1, <1>3
  <2>. QED
    BY <1>5, <2>1
<1>7. ASSUME NEW i \in P
      PROVE  RankIn(r, i) = RankIn(l, i)
  <2>1. i \in 1 .. n
    BY <1>4
  <2>2. \A j \in Q : j <= i => j \in P
    BY <1>1, <1>5, <1>6, <2>1
  <2>3. P \subseteq Q
    BY <1>6
  <2>4. {j \in Q : j <= i} = {j \in P : j <= i}
    BY <2>2, <2>3
  <2>. QED
    BY <1>2, <2>4 DEF RankIn
<1>8. RankIn(r, n + 1) = Cardinality(Q)
  <2>1. \A j \in Q : j <= n + 1
    BY <1>1, <1>3
  <2>2. {j \in Q : j <= n + 1} = Q
    BY <2>1
  <2>. QED
    BY <1>2, <2>2 DEF RankIn
<1>. QED
  BY <1>1, <1>2, <1>4, <1>6, <1>7, <1>8

LEMMA RankFacts ==
    ASSUME NEW l, NEW n \in Nat, PairsOf(l) \in SUBSET (1 .. n)
    PROVE  /\ IsFiniteSet(PairsOf(l)) /\ Cardinality(PairsOf(l)) \in Nat
           /\ \A i \in PairsOf(l) : RankIn(l, i) \in 1 .. Cardinality(PairsOf(l))
<1>1. IsFiniteSet(1 .. n)
  BY FS_Interval
<1>2. PICK P : P = PairsOf(l)
  OBVIOUS
<1>3. IsFiniteSet(P) /\ Cardinality(P) \in Nat
  BY <1>1, <1>2, FS_Subset, FS_CardinalityType
<1>4. ASSUME NEW i \in P
      PROVE  RankIn(l, i) \in 1 .. Cardinality(P)
  <2>1. PICK R : R = {j \in P : j <= i}
    OBVIOUS
  <2>2. R \in SUBSET P
    BY <2>1
  <2>3. IsFiniteSet(R) /\ Cardinality(R) <= Cardinality(P) /\ Cardinality(R) \in Nat
    BY <1>3, <2>2, FS_Subset, FS_CardinalityType
  <2>4. i \in R
    BY <1>2, <2>1
  <2>5. Cardinality(R) # 0
    BY <2>3, <2>4, FS_EmptySet
  <2>6. RankIn(l, i) = Cardinality(R)
    BY <1>2, <2>1 DEF RankIn
  <2>. QED
    BY <1>3, <2>3, <2>5, <2>6
<1>. QED
  BY <1>2, <1>3, <1>4

LEMMA StoredKept ==
    ASSUME NEW l, NEW r, NEW x, Extends(r, l, x), x.what # "pair",
           NEW sec, NEW tec, Agree(tec, sec, Len(l)), NEW entries, Stored(entries, sec, l)
    PROVE  Stored(entries, tec, r)
<1>1. PICK n : n = Len(l)
  OBVIOUS
<1>2. /\ n \in Nat /\ PairsOf(l) \in SUBSET (1 .. n) /\ PairsOf(r) = PairsOf(l)
      /\ \A i \in PairsOf(l) : r[i] = l[i] /\ RankIn(r, i) = RankIn(l, i)
  BY <1>1, PairsExtend
<1>3. \A i \in PairsOf(l) : tec[i] = sec[i]
  BY <1>1, <1>2 DEF Agree
<1>. QED
  BY <1>2, <1>3 DEF Stored

LEMMA StoredAdds ==
    ASSUME NEW l, NEW r, NEW x, Extends(r, l, x), x.what = "pair",
           IsSeq(x.value), x.name = KeyOf(x.value),
           NEW sec, NEW tec, Agree(tec, sec, Len(l)),
           NEW entries, IsSeq(entries), Stored(entries, sec, l),
           NEW here, here = Len(l) + 1,
           NEW more, more = Append(entries, Entry(tec[here], x.name, ValueOf(x.value)))
    PROVE  Stored(more, tec, r)
<1>1. PICK n : n = Len(l)
  OBVIOUS
<1>2. /\ n \in Nat /\ PairsOf(l) \in SUBSET (1 .. n) /\ PairsOf(r) = PairsOf(l) \cup {n + 1}
      /\ \A i \in PairsOf(l) : r[i] = l[i] /\ RankIn(r, i) = RankIn(l, i)
      /\ RankIn(r, n + 1) = Cardinality(PairsOf(r)) /\ r[n + 1] = x
  BY <1>1, PairsExtend
<1>3. PICK e : e = Entry(tec[here], x.name, ValueOf(x.value))
  OBVIOUS
<1>4. PICK m \in Nat : m = Cardinality(PairsOf(l))
  BY <1>2, RankFacts
<1>5. Len(entries) = m
  BY <1>4 DEF Stored
<1>6. more = Append(entries, e)
  BY <1>3
<1>7. Len(more) = m + 1 /\ more[m + 1] = e /\ \A k \in 1 .. m : more[k] = entries[k]
  BY <1>5, <1>6, SeqAppend
<1>8. n + 1 \notin PairsOf(l)
  BY <1>2
<1>9. Cardinality(PairsOf(r)) = m + 1
  <2>1. IsFiniteSet(PairsOf(l))
    BY <1>2, RankFacts
  <2>. QED
    BY <1>2, <1>4, <1>8, <2>1, FS_AddElement
<1>10. ASSUME NEW i \in PairsOf(l)
       PROVE  /\ IsSeq(r[i].value) /\ r[i].name = KeyOf(r[i].value)
              /\ more[RankIn(r, i)] = Entry(tec[i], r[i].name, ValueOf(r[i].value))
  <2>1. RankIn(l, i) \in 1 .. m
    BY <1>2, <1>4, RankFacts
  <2>2. more[RankIn(r, i)] = entries[RankIn(l, i)]
    BY <1>2, <1>7, <2>1
  <2>3. tec[i] = sec[i]
    BY <1>1, <1>2 DEF Agree
  <2>. QED
    BY <1>2, <2>2, <2>3 DEF Stored
<1>11. /\ IsSeq(r[n + 1].value) /\ r[n + 1].name = KeyOf(r[n + 1].value)
       /\ more[RankIn(r, n + 1)] = Entry(tec[n + 1], r[n + 1].name, ValueOf(r[n + 1].value))
  <2>1. here = n + 1
    BY <1>1
  <2>2. more[RankIn(r, n + 1)] = e
    BY <1>2, <1>7, <1>9
  <2>. QED
    BY <1>2, <1>3, <2>1, <2>2
<1>. QED
  BY <1>2, <1>7, <1>9, <1>10, <1>11 DEF Stored

\* A step that logs a line which is no pair, and leaves the entries.
LEMMA PairsKept ==
    ASSUME Shaped, frames # <<>>, CallsInSection, PairsStored, outcome = "parsing",
           NEW what, NEW name, NEW value, Logged(what, name, value), what # "pair",
           config'.entries = config.entries
    PROVE  PairsStored'
<1>1. PICK x, top : x = LineLogged(what, name, value) /\ top = Len(frames)
  OBVIOUS
<1>2. PICK l, r, sec, tec, entries :
        /\ l = log /\ r = log' /\ sec = SectionOf /\ tec = SectionOf'
        /\ entries = config.entries
  OBVIOUS
<1>3. Extends(r, l, x) /\ Agree(tec, sec, Len(l)) /\ x.what = what
  BY <1>1, <1>2, LogGrows
<1>4. Stored(entries, sec, l)
  BY <1>2 DEF PairsStored
<1>5. Stored(entries, tec, r)
  BY <1>3, <1>4, StoredKept
<1>. QED
  BY <1>2, <1>5 DEF PairsStored

LEMMA PairsStores ==
    ASSUME Shaped, frames # <<>>, CallsInSection, PairsStored, outcome = "parsing", Stores
    PROVE  PairsStored'
<1>1. PICK line :
        /\ IsSeq(line) /\ Logged("pair", KeyOf(line), line)
        /\ config' = [sections |-> config.sections, include_paths |-> config.include_paths,
                      entries |-> Append(config.entries,
                                         Entry(Current.section, KeyOf(line), ValueOf(line)))]
  BY DEF Stores
<1>2. PICK x, top : x = LineLogged("pair", KeyOf(line), line) /\ top = Len(frames)
  OBVIOUS
<1>3. PICK l, r, sec, tec, calls, entries, more, here :
        /\ l = log /\ r = log' /\ sec = SectionOf /\ tec = SectionOf' /\ calls = frames
        /\ entries = config.entries /\ more = config'.entries /\ here = Len(l) + 1
  OBVIOUS
<1>4. /\ Extends(r, l, x) /\ Agree(tec, sec, Len(l)) /\ Recurs(tec, r)
      /\ x.frame = calls[top].opened /\ x.what = "pair" /\ x.name = KeyOf(line) /\ x.value = line
      /\ top \in Nat \ {0} /\ DOMAIN calls = 1 .. top
  BY <1>1, <1>2, <1>3, LogGrows
<1>5. Placed(calls, sec, l) /\ Stored(entries, sec, l) /\ IsSeq(entries)
  BY <1>3 DEF CallsInSection, PairsStored, Shaped
<1>6. top \in DOMAIN calls
  BY <1>4
<1>7. tec[here] = calls[top].section
  BY <1>3, <1>4, <1>5, <1>6, SectionOfLast
<1>8. Current.section = calls[top].section
  BY <1>2, <1>3 DEF Current, Last
<1>9. more = Append(entries, Entry(Current.section, KeyOf(line), ValueOf(line)))
  BY <1>1, <1>3
<1>10. more = Append(entries, Entry(tec[here], x.name, ValueOf(x.value)))
  BY <1>4, <1>7, <1>8, <1>9
<1>11. IsSeq(x.value) /\ x.name = KeyOf(x.value)
  BY <1>1, <1>4
<1>12. Stored(more, tec, r)
  BY <1>3, <1>4, <1>5, <1>10, <1>11, StoredAdds
<1>. QED
  BY <1>3, <1>12 DEF PairsStored

LEMMA PairsInit == Init => PairsStored
<1> SUFFICES ASSUME Init PROVE PairsStored
  OBVIOUS
<1>1. log = <<>> /\ config.entries = <<>>
  BY DEF Init
<1>2. PairsOf(log) = {}
  BY <1>1 DEF PairsOf
<1>3. Len(config.entries) = 0
  BY <1>1
<1>. QED
  BY <1>2, <1>3, FS_EmptySet DEF PairsStored, Stored

LEMMA PairsStep ==
    ASSUME Shaped, EachFileOnce, CallsInSection, PairsStored, [Next]_vars
    PROVE  PairsStored'
<1>1. ASSUME NEW text \in Lines, ReadLine(text)
      PROVE  PairsStored'
  <2>1. frames # <<>> /\ outcome = "parsing"
    BY <1>1, EachFileOnceParts DEF ReadLine
  <2>2. Passes \/ Includes \/ Heads \/ Stores \/ Refuses
    BY <1>1, <2>1, ReadLineCases
  <2>3. CASE Stores
    BY <2>1, <2>3, PairsStores
  <2>4. ASSUME Passes \/ Includes \/ Heads \/ Refuses
        PROVE  \E what, name, value : /\ Logged(what, name, value) /\ what # "pair"
                                      /\ config'.entries = config.entries
    <3>1. CASE Passes
      BY <3>1 DEF Passes
    <3>2. CASE Includes
      BY <3>2 DEF Includes
    <3>3. CASE Heads
      BY <3>3 DEF Heads
    <3>4. CASE Refuses
      BY <3>4 DEF Refuses
    <3>. QED
      BY <2>4, <3>1, <3>2, <3>3, <3>4
  <2>. QED
    BY <2>1, <2>2, <2>3, <2>4, PairsKept
<1>2. CASE EndOfFile
  <2>1. outcome = "parsing" /\ config' = config /\ log' = log
    BY <1>2 DEF EndOfFile
  <2>2. SectionOf' = SectionOf
    BY <2>1 DEF SectionOf
  <2>. QED
    BY <2>1, <2>2 DEF PairsStored
<1>3. CASE Complete
  BY <1>3 DEF Complete, PairsStored
<1>4. CASE UNCHANGED vars
  <2>1. outcome' = outcome /\ config' = config /\ log' = log
    BY <1>4 DEF vars
  <2>2. SectionOf' = SectionOf
    BY <2>1 DEF SectionOf
  <2>. QED
    BY <2>1, <2>2 DEF PairsStored
<1>. QED
  BY <1>1, <1>2, <1>3, <1>4 DEF Next

-----------------------------------------------------------------------------
(* What was written first is what is found, defaults or not.               *)

\* Every entry stored is a pair's, and those of earlier pairs come first.
LEMMA RanksOnto ==
    ASSUME NEW l, NEW n \in Nat, PairsOf(l) \in SUBSET (1 .. n),
           NEW k \in 1 .. Cardinality(PairsOf(l))
    PROVE  \E i \in PairsOf(l) : RankIn(l, i) = k
<1>1. PICK P, m : P = PairsOf(l) /\ m = Cardinality(P)
  OBVIOUS
<1>2. P \in SUBSET (1 .. n) /\ IsFiniteSet(P) /\ m \in Nat /\ k \in 1 .. m
  BY <1>1, RankFacts
<1>3. PICK f : f = [i \in P |-> RankIn(l, i)]
  OBVIOUS
<1>4. f \in [P -> 1 .. m] /\ \A i \in P : f[i] = RankIn(l, i)
  BY <1>1, <1>3, RankFacts
<1>5. ASSUME NEW i \in P, NEW j \in P, i < j
      PROVE  f[i] # f[j]
  <2>1. PICK Q, R : Q = {x \in P : x <= i} /\ R = {x \in P : x <= j}
    OBVIOUS
  <2>2. R \in SUBSET P /\ Q \in SUBSET R
    <3>1. P \subseteq Int /\ i \in Int /\ j \in Int
      BY <1>2
    <3>2. \A x \in P : x <= i => x <= j
      BY <1>5, <3>1
    <3>. QED
      BY <2>1, <3>2
  <2>3. IsFiniteSet(R) /\ j \in R /\ j \notin Q
    BY <1>2, <1>5, <2>1, <2>2, FS_Subset
  <2>4. Cardinality(Q) # Cardinality(R)
    BY <2>2, <2>3, FS_Subset
  <2>5. f[i] = Cardinality(Q) /\ f[j] = Cardinality(R)
    BY <1>1, <1>4, <2>1 DEF RankIn
  <2>. QED
    BY <2>4, <2>5
<1>6. f \in Injection(P, 1 .. m)
  <2>1. \A i, j \in P : f[i] = f[j] => i = j
    <3>1. \A i, j \in P : i < j \/ j < i \/ i = j
      BY <1>2
    <3>. QED
      BY <1>5, <3>1
  <2>. QED
    BY <1>4, <2>1 DEF Injection, IsInjective
<1>7. IsFiniteSet(1 .. m) /\ Cardinality(1 .. m) = m
  BY <1>2, FS_Interval
<1>8. f \in Surjection(P, 1 .. m)
  BY <1>1, <1>6, <1>7, FS_Injection
<1>9. \E i \in P : f[i] = k
  BY <1>2, <1>8 DEF Surjection
<1>. QED
  BY <1>1, <1>4, <1>9

LEMMA RanksInOrder ==
    ASSUME NEW l, NEW n \in Nat, PairsOf(l) \in SUBSET (1 .. n),
           NEW i \in PairsOf(l), NEW j \in PairsOf(l), i <= j
    PROVE  RankIn(l, i) <= RankIn(l, j)
<1>1. PICK P : P = PairsOf(l)
  OBVIOUS
<1>2. IsFiniteSet(P)
  BY <1>1, RankFacts
<1>3. PICK Q, R : Q = {x \in P : x <= i} /\ R = {x \in P : x <= j}
  OBVIOUS
<1>4. R \in SUBSET P /\ Q \in SUBSET R
  BY <1>1, <1>3
<1>5. Cardinality(Q) <= Cardinality(R)
  BY <1>2, <1>4, FS_Subset
<1>. QED
  BY <1>1, <1>3, <1>5 DEF RankIn

\* The lines with a value for a key.
WrittenIn(l, sec, section, key) == {j \in PairsOf(l) : sec[j] = section /\ l[j].name = key}

LEMMA FirstWritten ==
    ASSUME NEW l, NEW n \in Nat, PairsOf(l) \in SUBSET (1 .. n), NEW sec,
           NEW es, IsSeq(es), Stored(es, sec, l), NEW section, NEW key,
           NEW W, W = WrittenIn(l, sec, section, key), W # {}
    PROVE  LET k == FindEntry(es, section, key)
           IN k \in 1 .. Len(es) /\ es[k].value = ExpandedValue(ValueOf(l[Min(W)].value))
<1>1. PICK P, m : P = PairsOf(l) /\ m = Min(W)
  OBVIOUS
<1>2. W \in SUBSET Nat /\ W \in SUBSET P /\ \A j \in W : sec[j] = section /\ l[j].name = key
  BY <1>1 DEF WrittenIn
<1>3. m \in W /\ \A j \in W : m <= j
  BY <1>1, <1>2, MinFacts
<1>4. PICK k : k = RankIn(l, m)
  OBVIOUS
<1>5. Len(es) = Cardinality(P) /\ k \in 1 .. Len(es)
  BY <1>1, <1>2, <1>3, <1>4, RankFacts DEF Stored
<1>6. es[k] = Entry(section, key, ValueOf(l[m].value))
  BY <1>1, <1>2, <1>3, <1>4 DEF Stored
<1>7. IsOf(es[k], section, key) /\ es[k].value = ExpandedValue(ValueOf(l[m].value))
  BY <1>6, EntryFields DEF IsOf
<1>8. ASSUME NEW q \in 1 .. k - 1
      PROVE  ~IsOf(es[q], section, key)
  <2>1. q \in 1 .. Cardinality(PairsOf(l))
    BY <1>1, <1>5
  <2>2. PICK i \in PairsOf(l) : RankIn(l, i) = q
    BY <2>1, RanksOnto
  <2>3. ~(m <= i)
    <3>1. k \in Int /\ q < k
      BY <1>5
    <3>2. m \in PairsOf(l)
      BY <1>1, <1>2, <1>3
    <3>. QED
      BY <1>4, <2>2, <3>1, <3>2, RanksInOrder
  <2>4. i \notin W
    BY <1>3, <2>3
  <2>5. es[q] = Entry(sec[i], l[i].name, ValueOf(l[i].value))
    BY <2>2 DEF Stored
  <2>6. ~(sec[i] = section /\ l[i].name = key)
    BY <2>4 DEF WrittenIn
  <2>. QED
    BY <2>5, <2>6, EntryFields DEF IsOf
<1>9. Len(es) \in Nat
  BY DEF IsSeq
<1>10. FindEntry(es, section, key) = k
  BY <1>5, <1>7, <1>8, <1>9, FindFirst
<1>. QED
  BY <1>1, <1>5, <1>7, <1>10

\* An entry found is one of those stored, or a default for its key.
LEMMA FoundIn ==
    ASSUME NEW es, IsSeq(es), NEW ds, NEW n, Completes(es, ds, n), NEW section, NEW key,
           NEW k, k = FindEntry(ds, section, key), k # 0
    PROVE  \/ k = FindEntry(es, section, key) /\ ds[k] = es[k]
           \/ /\ FindEntry(es, section, key) = 0 /\ IsOf(ds[k], section, key)
              /\ \E j \in DOMAIN Schema : Schema[j].default # {} /\ ds[k] = DefaultOf(j)
<1>1. PICK f : f = FindEntry(es, section, key)
  OBVIOUS
<1>2. Len(es) \in Nat /\ IsSeq(ds) /\ Len(ds) \in Nat /\ Begins(es, ds)
  BY DEF Completes, IsSeq
<1>3. CASE f # 0
  <2>1. k = f
    BY <1>1, <1>2, <1>3, FindKept
  <2>2. f \in 1 .. Len(es)
    BY <1>1, <1>2, <1>3, FindFacts
  <2>. QED
    BY <1>1, <1>2, <2>1, <2>2 DEF Begins
<1>4. CASE f = 0
  <2>1. \A i \in 1 .. Len(es) : ~IsOf(es[i], section, key)
    <3>1. \/ f = 0 /\ \A i \in 1 .. Len(es) : ~IsOf(es[i], section, key)
          \/ f \in 1 .. Len(es)
      BY <1>1, <1>2, FindFacts
    <3>. QED
      BY <1>2, <1>4, <3>1
  <2>2. k \in 1 .. Len(ds) /\ IsOf(ds[k], section, key)
    BY <1>2, FindFacts
  <2>3. k \notin 1 .. Len(es)
    BY <1>2, <2>1, <2>2 DEF Begins
  <2>4. k \in Len(es) + 1 .. Len(ds)
    BY <1>2, <2>2, <2>3
  <2>. QED
    BY <1>1, <1>4, <2>2, <2>4 DEF Completes
<1>. QED
  BY <1>3, <1>4

\* Defaults as the schema asks keep what is valid so.
LEMMA StaysValid ==
    ASSUME SoundDefaults, NEW es, IsSeq(es), Validates(es), NEW ds, NEW n, Completes(es, ds, n)
    PROVE  Validates(ds)
<1>1. SUFFICES ASSUME NEW i \in DOMAIN Schema, NEW k,
                      k = FindEntry(ds, Schema[i].section, Schema[i].key)
               PROVE  IF k = 0 THEN ~Schema[i].required ELSE Satisfies(ds[k], Schema[i])
  BY DEF Validates
<1>2. PICK section, key, f : /\ section = Schema[i].section /\ key = Schema[i].key
                             /\ f = FindEntry(es, section, key)
  OBVIOUS
<1>3. IF f = 0 THEN ~Schema[i].required ELSE Satisfies(es[f], Schema[i])
  BY <1>2 DEF Validates
<1>4. Len(es) \in Nat /\ Len(ds) \in Nat /\ Begins(es, ds)
  BY DEF Completes, IsSeq
<1>5. CASE k = 0
  <2>1. k = FindEntry(ds, section, key)
    BY <1>1, <1>2
  <2>2. f # 0 => FindEntry(ds, section, key) = f
    BY <1>2, <1>4, FindKept
  <2>3. f = 0
    BY <1>5, <2>1, <2>2
  <2>. QED
    BY <1>3, <1>5, <2>3
<1>6. CASE k # 0
  <2>1. k = FindEntry(ds, section, key)
    BY <1>1, <1>2
  <2>2. \/ k = f /\ ds[k] = es[k]
        \/ /\ f = 0 /\ IsOf(ds[k], section, key)
           /\ \E j \in DOMAIN Schema : Schema[j].default # {} /\ ds[k] = DefaultOf(j)
    BY <1>2, <1>6, <2>1, FoundIn
  <2>3. CASE k = f /\ ds[k] = es[k]
    BY <1>3, <1>6, <2>3
  <2>4. ASSUME IsOf(ds[k], section, key), NEW j \in DOMAIN Schema,
               Schema[j].default # {}, ds[k] = DefaultOf(j)
        PROVE  Satisfies(ds[k], Schema[i])
    <3>1. Schema[j].section = section /\ Schema[j].key = key
      BY <2>4, DefaultFields DEF IsOf
    <3>2. Satisfies(DefaultOf(j), Schema[i])
      BY <1>2, <2>4, <3>1 DEF SoundDefaults, DefaultOf
    <3>. QED
      BY <2>4, <3>2
  <2>. QED
    BY <1>6, <2>2, <2>3, <2>4
<1>. QED
  BY <1>5, <1>6

LEMMA DefaultsInit == Init => DefaultsAdded
BY DEF Init, DefaultsAdded

LEMMA DefaultsStep ==
    ASSUME Shaped, EachFileOnce, PairsStored, DefaultsAdded, [Next]_vars
    PROVE  DefaultsAdded'
<1>1. ASSUME NEW text \in Lines, ReadLine(text)
      PROVE  outcome' \notin {"valid", "invalid"}
  <2>1. frames # <<>> /\ outcome = "parsing"
    BY <1>1, EachFileOnceParts DEF ReadLine
  <2>2. Passes \/ Includes \/ Heads \/ Stores \/ Refuses
    BY <1>1, <2>1, ReadLineCases
  <2>3. CASE Passes
    BY <2>1, <2>3 DEF Passes
  <2>4. CASE Includes
    BY <2>1, <2>4 DEF Includes
  <2>5. CASE Heads
    BY <2>1, <2>5 DEF Heads
  <2>6. CASE Stores
    BY <2>1, <2>6 DEF Stores
  <2>7. CASE Refuses
    BY <2>1, <2>7 DEF Refuses, Return
  <2>. QED
    BY <2>2, <2>3, <2>4, <2>5, <2>6, <2>7
<1>2. ASSUME EndOfFile
      PROVE  outcome' \notin {"valid", "invalid"}
  BY <1>2 DEF EndOfFile, Return
<1>3. CASE Complete
  <2>1. PICK es, ds : es = config.entries /\ ds = WithDefaults(es)
    OBVIOUS
  <2>2. /\ outcome \in {"ok", "error"} /\ log' = log
        /\ outcome' = IF Validates(es) THEN "valid" ELSE "invalid"
        /\ config' = [config EXCEPT !.entries = ds]
    BY <1>3, <2>1 DEF Complete
  <2>3. IsSeq(es) /\ Len(es) <= MaxKeys
    BY <2>1, EachFileOnceParts DEF Shaped, ConfigOnce
  <2>4. config'.entries = ds
    BY <2>2 DEF Shaped
  <2>5. Stored(es, SectionOf, log)
    BY <2>1, <2>2 DEF PairsStored
  <2>6. SectionOf' = SectionOf
    BY <2>2 DEF SectionOf
  <2>7. Completes(es, ds, Len(Schema))
    BY <2>1, <2>3, CompletesAll
  <2>8. outcome' = "valid" => Validates(es)
    BY <2>2
  <2>. QED
    BY <2>2, <2>3, <2>4, <2>5, <2>6, <2>7, <2>8 DEF DefaultsAdded
<1>4. CASE UNCHANGED vars
  <2>1. outcome' = outcome /\ config' = config /\ log' = log
    BY <1>4 DEF vars
  <2>2. SectionOf' = SectionOf
    BY <2>1 DEF SectionOf
  <2>. QED
    BY <2>1, <2>2 DEF DefaultsAdded
<1>. QED
  BY <1>1, <1>2, <1>3, <1>4 DEF Next, DefaultsAdded

-----------------------------------------------------------------------------
(* What is in quotes is the value.                                         *)

LEMMA BeforeIsSeq ==
    ASSUME NEW s, IsSeq(s), NEW S, NEW t, t = Before(s, S)
    PROVE  IsSeq(t) /\ Len(t) \in Nat
<1>1. PICK I : I = {i \in 1 .. Len(s) : s[i] \in S}
  OBVIOUS
<1>2. t = IF I # {} THEN (IF Min(I) = 0 THEN s ELSE SubSeq(s, 1, Min(I) - 1)) ELSE s
  BY <1>1 DEF Before, SelectInSeq
<1>3. Len(s) \in Nat
  BY DEF IsSeq
<1>4. IsSeq(t)
  <2>1. CASE I # {} /\ Min(I) # 0
    <3>1. I \in SUBSET Nat
      BY <1>1, <1>3
    <3>2. PICK m : m = Min(I)
      OBVIOUS
    <3>3. m \in I
      BY <2>1, <3>1, <3>2, MinFacts
    <3>4. m \in 1 .. Len(s)
      BY <1>1, <3>3
    <3>5. PICK n \in Nat : n = m - 1
      BY <1>3, <3>4
    <3>6. n <= Len(s)
      BY <1>3, <3>4, <3>5
    <3>7. t = SubSeq(s, 1, n)
      BY <1>2, <2>1, <3>2, <3>5
    <3>. QED
      BY <3>6, <3>7, SeqPrefix
  <2>2. CASE ~(I # {} /\ Min(I) # 0)
    <3>1. t = s
      BY <1>2, <2>2
    <3>. QED
      BY <3>1
  <2>. QED
    BY <2>1, <2>2
<1>. QED
  BY <1>4 DEF IsSeq

\* Spaces behind the closing quote are trimmed away, to the quote and no further.
LEMMA TrimToQuote ==
    ASSUME NEW v, IsSeq(v), NEW at \in Nat, at >= 1, NEW m \in Nat, at <= m, m <= Len(v),
           v[1] # Space, v[at] # Space, \A i \in at + 1 .. m : v[i] = Space,
           NEW u, u = SubSeq(v, 1, m)
    PROVE  TrimWhitespace(u) = SubSeq(v, 1, at)
<1>1. IsSeq(u) /\ Len(u) = m /\ \A i \in 1 .. m : u[i] = v[i]
  <2>1. IsSeq(v) /\ m \in Nat /\ m <= Len(v) /\ u = SubSeq(v, 1, m)
    OBVIOUS
  <2>2. IsSeq(u) /\ Len(u) = m
    <3>1. IsSeq(u)
      BY <2>1, SeqPrefix, Zenon
    <3>2. Len(u) = m
      BY <2>1, SeqPrefix
    <3>. QED
      BY <3>1, <3>2
  <2>3. \A i \in 1 .. m : u[i] = v[i]
    BY <2>1, SeqPrefix
  <2>. QED
    BY <2>2, <2>3
<1>2. DOMAIN u = 1 .. m
  BY <1>1, SeqElements
<1>3. PICK solid : solid = {i \in DOMAIN u : u[i] # Space}
  OBVIOUS
<1>4. solid \subseteq 1 .. m /\ 1 \in solid /\ at \in solid
  BY <1>1, <1>2, <1>3
<1>5. \A i \in solid : i <= at
  BY <1>1, <1>2, <1>3
<1>6. solid \in SUBSET Nat /\ solid \in SUBSET (0 .. m) /\ solid # {}
  BY <1>4
<1>7. PICK a, b : a = Min(solid) /\ b = Max(solid)
  OBVIOUS
<1>8. a \in solid /\ \A i \in solid : a <= i
  BY <1>6, <1>7, MinFacts
<1>9. b \in solid /\ \A i \in solid : i <= b
  BY <1>6, <1>7, MaxFacts
<1>10. a = 1
  <2>1. a <= 1 /\ a \in 1 .. m
    BY <1>4, <1>8
  <2>. QED
    BY <2>1
<1>11. b = at
  <2>1. at <= b /\ b <= at /\ b \in 1 .. m
    BY <1>4, <1>5, <1>9
  <2>. QED
    BY <2>1
<1>12. TrimWhitespace(u) = SubSeq(u, 1, at)
  BY <1>3, <1>6, <1>7, <1>10, <1>11 DEF TrimWhitespace
<1>13. PICK p, q : p = SubSeq(u, 1, at) /\ q = SubSeq(v, 1, at)
  OBVIOUS
<1>14. at <= Len(u) /\ at <= Len(v)
  <2>1. Len(v) \in Nat
    BY DEF IsSeq
  <2>. QED
    BY <1>1, <2>1
<1>15. IsSeq(p) /\ Len(p) = at /\ \A i \in 1 .. at : p[i] = u[i]
  <2>1. IsSeq(u) /\ at \in Nat /\ at <= Len(u) /\ p = SubSeq(u, 1, at)
    BY <1>1, <1>13, <1>14
  <2>2. IsSeq(p) /\ Len(p) = at
    <3>1. IsSeq(p)
      BY <2>1, SeqPrefix, Zenon
    <3>2. Len(p) = at
      BY <2>1, SeqPrefix
    <3>. QED
      BY <3>1, <3>2
  <2>3. \A i \in 1 .. at : p[i] = u[i]
    BY <2>1, SeqPrefix
  <2>. QED
    BY <2>2, <2>3
<1>16. IsSeq(q) /\ Len(q) = at /\ \A i \in 1 .. at : q[i] = v[i]
  <2>1. IsSeq(v) /\ at \in Nat /\ at <= Len(v) /\ q = SubSeq(v, 1, at)
    BY <1>13, <1>14
  <2>2. IsSeq(q) /\ Len(q) = at
    <3>1. IsSeq(q)
      BY <2>1, SeqPrefix, Zenon
    <3>2. Len(q) = at
      BY <2>1, SeqPrefix
    <3>. QED
      BY <3>1, <3>2
  <2>3. \A i \in 1 .. at : q[i] = v[i]
    BY <2>1, SeqPrefix
  <2>. QED
    BY <2>2, <2>3
<1>17. Len(p) = Len(q) /\ \A i \in 1 .. Len(p) : p[i] = q[i]
  BY <1>1, <1>14, <1>15, <1>16
<1>18. p = q
  BY <1>15, <1>16, <1>17, SeqSame
<1>. QED
  BY <1>12, <1>13, <1>18

LEMMA InsideQuotes ==
    ASSUME NEW w, IsSeq(w), Len(w) >= 2, w[1] \in Quotes, w[Len(w)] = w[1],
           NEW t, t = StripQuotes(w)
    PROVE  IsSeq(t) /\ Len(t) = Len(w) - 2 /\ \A i \in 1 .. Len(w) - 2 : t[i] = w[i + 1]
<1>1. PICK n \in Nat : n = Len(w)
  BY DEF IsSeq
<1>2. w # <<>>
  <2>1. Len(w) >= 1
    BY <1>1
  <2>. QED
    BY <2>1, SeqElements
<1>3. PICK S : S = {w[i] : i \in 1 .. Len(w)}
  OBVIOUS
<1>4. w \in Seq(S)
  BY <1>3, SeqElements
<1>5. Head(w) = w[1] /\ Last(w) = w[Len(w)]
  BY <1>2, <1>4 DEF Last
<1>6. PICK f : f = Front(w)
  OBVIOUS
<1>7. /\ IsSeq(f) /\ Len(f) = Len(w) - 1 /\ Len(w) \in Nat \ {0}
      /\ \A i \in 1 .. Len(w) - 1 : f[i] = w[i]
      /\ DOMAIN f = 1 .. Len(w) - 1 /\ DOMAIN w = 1 .. Len(w)
      /\ f = <<>> <=> Len(w) = 1
  BY <1>2, <1>6, SeqFront
<1>8. t = Tail(f)
  BY <1>5, <1>6 DEF StripQuotes
<1>9. PICK T : T = {f[i] : i \in 1 .. Len(f)}
  OBVIOUS
<1>10. f \in Seq(T) /\ f # <<>> /\ Len(f) = n - 1
  <2>1. f \in Seq(T)
    BY <1>7, <1>9, SeqElements
  <2>2. Len(w) # 1
    BY <1>1
  <2>. QED
    BY <1>1, <1>7, <2>1, <2>2
<1>11. t \in Seq(T) /\ Len(t) = Len(f) - 1 /\ \A i \in 1 .. Len(t) : t[i] = f[i + 1]
  BY <1>8, <1>10, HeadTailProperties
<1>12. IsSeq(t)
  BY <1>11, MemberIsSeq
<1>13. Len(t) = n - 2
  BY <1>10, <1>11
<1>14. ASSUME NEW i \in 1 .. n - 2
       PROVE  t[i] = w[i + 1]
  <2>1. t[i] = f[i + 1] /\ i + 1 \in 1 .. n - 1
    BY <1>11, <1>13
  <2>2. f[i + 1] = w[i + 1]
    BY <1>1, <1>7, <2>1
  <2>. QED
    BY <2>1, <2>2
<1>. QED
  BY <1>1, <1>12, <1>13, <1>14

LEMMA StripToBody ==
    ASSUME NEW v, IsSeq(v), NEW at \in Nat, at >= 2, at <= Len(v),
           v[1] \in Quotes, v[at] = v[1], NEW w, w = SubSeq(v, 1, at)
    PROVE  StripQuotes(w) = SubSeq(v, 2, at - 1)
<1>1. Len(v) \in Nat /\ at \in Int /\ at - 1 \in Int /\ at - 1 <= Len(v) /\ 1 <= at
  BY DEF IsSeq
<1>2. IsSeq(w)
  BY SeqPrefix
<1>3. Len(w) = at /\ \A i \in 1 .. at : w[i] = v[i]
  BY SeqPrefix
<1>5. w[1] = v[1] /\ w[at] = v[at]
  BY <1>1, <1>3
<1>7. Len(w) >= 2 /\ w[1] \in Quotes /\ w[Len(w)] = w[1]
  BY <1>3, <1>5
<1>8. PICK t, q : t = StripQuotes(w) /\ q = SubSeq(v, 2, at - 1)
  OBVIOUS
<1>9. IsSeq(t) /\ Len(t) = Len(w) - 2 /\ \A i \in 1 .. Len(w) - 2 : t[i] = w[i + 1]
  BY <1>2, <1>7, <1>8, InsideQuotes
<1>10. at - 2 = Len(w) - 2
  BY <1>3
<1>11. IsSeq(t) /\ Len(t) = at - 2 /\ \A i \in 1 .. at - 2 : t[i] = w[i + 1]
  BY <1>9, <1>10
<1>12. IsSeq(q) /\ Len(q) = at - 2 /\ \A i \in 1 .. at - 2 : q[i] = v[i + 1]
  <2>1. PICK a, b \in Int : a = 2 /\ b = at - 1
    BY <1>1
  <2>2. q = SubSeq(v, a, b) /\ a >= 1 /\ b <= Len(v)
    BY <1>1, <1>8, <2>1
  <2>3. IsSeq(q)
    BY <2>2, SeqPart
  <2>4. Len(q) = (IF a <= b THEN b - a + 1 ELSE 0)
    BY <2>2, SeqPart
  <2>5. \A i \in 1 .. b - a + 1 : q[i] = v[a + i - 1]
    BY <2>2, SeqPart
  <2>6. Len(q) = at - 2
    BY <2>1, <2>4
  <2>7. ASSUME NEW i \in 1 .. at - 2
        PROVE  q[i] = v[i + 1]
    <3>1. i \in 1 .. b - a + 1 /\ a + i - 1 = i + 1
      BY <1>1, <2>1
    <3>2. q[i] = v[a + i - 1]
      BY <2>5, <3>1
    <3>. QED
      BY <3>1, <3>2
  <2>. QED
    BY <2>3, <2>6, <2>7
<1>13. Len(t) = Len(q) /\ \A i \in 1 .. Len(t) : t[i] = q[i]
  <2>1. Len(t) = Len(q)
    BY <1>11, <1>12
  <2>2. ASSUME NEW i \in 1 .. at - 2
        PROVE  t[i] = q[i]
    <3>1. t[i] = w[i + 1] /\ q[i] = v[i + 1]
      BY <1>11, <1>12
    <3>2. w[i + 1] = v[i + 1]
      BY <1>3
    <3>. QED
      BY <3>1, <3>2
  <2>. QED
    BY <1>11, <2>1, <2>2
<1>14. t = q
  BY <1>11, <1>12, <1>13, SeqSame
<1>. QED
  BY <1>8, <1>14

\* What is left of a text that is trimmed starts with its first solid token.
LEMMA TrimHead ==
    ASSUME NEW t, IsSeq(t), NEW u, u = TrimWhitespace(t)
    PROVE  /\ u = <<>> => \A i \in 1 .. Len(t) : t[i] = Space
           /\ u # <<>> => \E k \in 1 .. Len(t) : /\ t[k] = Head(u)
                                                 /\ \A i \in 1 .. k - 1 : t[i] = Space
<1>1. PICK n \in Nat : n = Len(t)
  BY DEF IsSeq
<1>2. DOMAIN t = 1 .. n
  BY <1>1, SeqElements
<1>3. PICK solid : solid = {i \in 1 .. n : t[i] # Space}
  OBVIOUS
<1>4. u = IF solid = {} THEN <<>> ELSE SubSeq(t, Min(solid), Max(solid))
  BY <1>2, <1>3 DEF TrimWhitespace
<1>5. CASE solid = {}
  <2>1. u = <<>>
    BY <1>4, <1>5
  <2>2. \A i \in 1 .. n : t[i] = Space
    BY <1>3, <1>5
  <2>. QED
    BY <1>1, <2>1, <2>2
<1>6. CASE solid # {}
  <2>1. PICK a, b : a = Min(solid) /\ b = Max(solid)
    OBVIOUS
  <2>2. solid \in SUBSET Nat /\ solid \in SUBSET (0 .. n)
    BY <1>3
  <2>3. a \in solid /\ \A i \in solid : a <= i
    BY <1>6, <2>1, <2>2, MinFacts
  <2>4. b \in solid
    BY <1>6, <2>1, <2>2, MaxFacts
  <2>5. a \in 1 .. n /\ b \in 1 .. n /\ a <= b
    BY <1>3, <2>3, <2>4
  <2>6. IsSeq(t) /\ a \in Int /\ b \in Int /\ a >= 1 /\ b <= Len(t) /\ u = SubSeq(t, a, b)
    BY <1>1, <1>4, <1>6, <2>1, <2>5
  <2>7. IsSeq(u)
    BY TrimIsSeq
  <2>8. Len(u) = (IF a <= b THEN b - a + 1 ELSE 0)
    BY <2>6, SeqPart
  <2>9. \A i \in 1 .. b - a + 1 : u[i] = t[a + i - 1]
    BY <2>6, SeqPart
  <2>10. Len(u) >= 1
    BY <2>5, <2>8
  <2>11. u[1] = t[a]
    <3>1. 1 \in 1 .. b - a + 1 /\ a + 1 - 1 = a
      BY <2>5
    <3>. QED
      BY <2>9, <3>1
  <2>12. u # <<>> /\ Head(u) = u[1]
    <3>1. PICK S : S = {u[i] : i \in 1 .. Len(u)}
      OBVIOUS
    <3>2. u \in Seq(S) /\ u # <<>>
      BY <2>7, <2>10, <3>1, SeqElements
    <3>. QED
      BY <3>2
  <2>13. \A i \in 1 .. a - 1 : t[i] = Space
    <3>1. TAKE i \in 1 .. a - 1
    <3>2. i \in 1 .. n /\ ~(a <= i)
      BY <2>5
    <3>3. i \notin solid
      BY <2>3, <3>2
    <3>. QED
      BY <1>3, <3>2, <3>3
  <2>14. a \in 1 .. Len(t) /\ t[a] = Head(u)
    BY <1>1, <2>5, <2>11, <2>12
  <2>. QED
    BY <2>12, <2>13, <2>14
<1>. QED
  BY <1>5, <1>6

\* The signs of quotation up to the i-th token, and those of the kind that does not open v.
QuotesTo(v, i) == Cardinality({j \in 1 .. i : v[j] \in Quotes})

OthersTo(v, i) == Cardinality({j \in 2 .. i : v[j] \in Quotes \ {v[1]}})

\* v starts with a quote, and the next one of its kind is at `at`.
Quoted(v, at) ==
    /\ IsSeq(v) /\ at \in 2 .. Len(v)
    /\ v[1] \in Quotes /\ v[at] = v[1]
    /\ \A i \in 2 .. at - 1 : v[i] # v[1]

\* The other signs come in pairs in front of a comment sign.
PairedIn(v, at) ==
    /\ \A i \in 2 .. at : v[i] \in Comment => OthersTo(v, i) % 2 = 0
    /\ at < Len(v) => OthersTo(v, at) % 2 = 0

LEMMA QuotesToFacts ==
    ASSUME NEW v, NEW at, Quoted(v, at), NEW i \in 2 .. at
    PROVE  /\ OthersTo(v, i) \in Nat
           /\ QuotesTo(v, i) = OthersTo(v, i) + (IF i = at THEN 2 ELSE 1)
<1>1. PICK n \in Nat : n = Len(v)
  BY DEF Quoted, IsSeq
<1>2. /\ at \in 2 .. n /\ v[1] \in Quotes /\ v[at] = v[1] /\ \A j \in 2 .. at - 1 : v[j] # v[1]
  BY <1>1 DEF Quoted
<1>3. PICK Q, O : Q = {j \in 1 .. i : v[j] \in Quotes} /\ O = {j \in 2 .. i : v[j] \in Quotes \ {v[1]}}
  OBVIOUS
<1>4. QuotesTo(v, i) = Cardinality(Q) /\ OthersTo(v, i) = Cardinality(O)
  BY <1>3 DEF QuotesTo, OthersTo
<1>5. IsFiniteSet(O) /\ Cardinality(O) \in Nat
  <2>1. IsFiniteSet(2 .. i) /\ O \in SUBSET (2 .. i)
    BY <1>2, <1>3, FS_Interval
  <2>2. IsFiniteSet(O)
    BY <2>1, FS_Subset
  <2>. QED
    BY <2>2, FS_CardinalityType
<1>6. 1 \notin O /\ at \notin O
  BY <1>2, <1>3
<1>7. PICK P : P = O \cup {1}
  OBVIOUS
<1>8. IsFiniteSet(P) /\ Cardinality(P) = Cardinality(O) + 1
  BY <1>5, <1>6, <1>7, FS_AddElement
<1>9. CASE i = at
  <2>1. Q = P \cup {at}
    <3>1. ASSUME NEW j \in 1 .. i
          PROVE  v[j] \in Quotes <=> j \in P \cup {at}
      <4>1. CASE j = 1 \/ j = at
        BY <1>2, <1>7, <4>1
      <4>2. CASE j # 1 /\ j # at
        <5>1. j \in 2 .. i /\ j \in 2 .. at - 1
          BY <1>2, <1>9, <4>2
        <5>2. j \in O <=> v[j] \in Quotes
          BY <1>2, <1>3, <5>1
        <5>. QED
          BY <1>7, <4>2, <5>2
      <4>. QED
        BY <4>1, <4>2
    <3>2. P \cup {at} \subseteq 1 .. i
      BY <1>2, <1>3, <1>7, <1>9
    <3>. QED
      BY <1>3, <3>1, <3>2
  <2>2. at \notin P
    BY <1>2, <1>6, <1>7
  <2>3. Cardinality(P \cup {at}) = Cardinality(P) + 1
    BY <1>8, <2>2, FS_AddElement
  <2>4. PICK c \in Nat : c = Cardinality(O)
    BY <1>5
  <2>5. Cardinality(Q) = c + 2
    BY <1>8, <2>1, <2>3, <2>4
  <2>. QED
    BY <1>4, <1>9, <2>4, <2>5
<1>10. CASE i # at
  <2>1. Q = P
    <3>1. ASSUME NEW j \in 1 .. i
          PROVE  v[j] \in Quotes <=> j \in P
      <4>1. CASE j = 1
        BY <1>2, <1>7, <4>1
      <4>2. CASE j # 1
        <5>1. j \in 2 .. i /\ j \in 2 .. at - 1
          BY <1>2, <1>10, <4>2
        <5>2. j \in O <=> v[j] \in Quotes
          BY <1>2, <1>3, <5>1
        <5>. QED
          BY <1>7, <4>2, <5>2
      <4>. QED
        BY <4>1, <4>2
    <3>2. P \subseteq 1 .. i
      BY <1>2, <1>3, <1>7
    <3>. QED
      BY <1>3, <3>1, <3>2
  <2>2. PICK c \in Nat : c = Cardinality(O)
    BY <1>5
  <2>3. Cardinality(Q) = c + 1
    BY <1>8, <2>1, <2>2
  <2>. QED
    BY <1>4, <1>10, <2>2, <2>3
<1>. QED
  BY <1>9, <1>10

\* Behind the closing quote come spaces, and then a comment or nothing.
ClosedAt(v, at) ==
    \/ \A i \in at + 1 .. Len(v) : v[i] = Space
    \/ \E e \in at + 1 .. Len(v) : v[e] \in Comment /\ \A i \in at + 1 .. e - 1 : v[i] = Space

\* Up to the closing quote no comment sign ends the value.
LEMMA NoCommentInQuotes ==
    ASSUME NEW v, NEW at, Quoted(v, at), PairedIn(v, at), NEW i \in 1 .. at,
           v[i] \in Comment
    PROVE  QuotesTo(v, i) % 2 # 0
<1>1. PICK n \in Nat : n = Len(v)
  BY DEF Quoted, IsSeq
<1>2. at \in 2 .. n /\ v[1] \in Quotes /\ v[at] = v[1]
  BY <1>1 DEF Quoted
<1>3. v[1] \notin Comment /\ v[at] \notin Comment
  BY <1>2 DEF Quotes, Comment
<1>4. i \in 2 .. at /\ i # at
  BY <1>2, <1>3
<1>5. PICK c : c = OthersTo(v, i)
  OBVIOUS
<1>6. c \in Nat /\ c % 2 = 0
  BY <1>4, <1>5, QuotesToFacts DEF PairedIn
<1>7. QuotesTo(v, i) = c + 1
  BY <1>4, <1>5, QuotesToFacts
<1>8. (c + 1) % 2 # 0
  BY <1>6
<1>. QED
  BY <1>7, <1>8

\* The first comment sign behind the closing quote ends the value.
LEMMA CommentBehindQuotes ==
    ASSUME NEW v, NEW at, Quoted(v, at), PairedIn(v, at), NEW e \in at + 1 .. Len(v),
           \A i \in at + 1 .. e : v[i] \notin Quotes
    PROVE  QuotesTo(v, e) % 2 = 0
<1>1. PICK n \in Nat : n = Len(v)
  BY DEF Quoted, IsSeq
<1>2. at \in 2 .. n /\ e \in at + 1 .. n /\ at < n
  BY <1>1 DEF Quoted
<1>3. {j \in 1 .. e : v[j] \in Quotes} = {j \in 1 .. at : v[j] \in Quotes}
  <2>1. \A j \in 1 .. e : v[j] \in Quotes => j \in 1 .. at
    <3>1. TAKE j \in 1 .. e
    <3>2. CASE j <= at
      BY <1>2, <3>2
    <3>3. CASE ~(j <= at)
      BY <1>2, <3>3
    <3>. QED
      BY <3>2, <3>3
  <2>2. \A j \in 1 .. at : j \in 1 .. e
    BY <1>2
  <2>. QED
    BY <2>1, <2>2
<1>4. QuotesTo(v, e) = QuotesTo(v, at)
  BY <1>3 DEF QuotesTo
<1>5. PICK c : c = OthersTo(v, at)
  OBVIOUS
<1>6. c \in Nat /\ c % 2 = 0 /\ QuotesTo(v, at) = c + 2
  <2>1. at \in 2 .. at
    BY <1>2
  <2>. QED
    BY <1>1, <1>2, <1>5, <2>1, QuotesToFacts DEF PairedIn
<1>7. (c + 2) % 2 = 0
  BY <1>6
<1>. QED
  BY <1>4, <1>6, <1>7

LEMMA QuotedValue ==
    ASSUME NEW v, NEW at, Quoted(v, at), PairedIn(v, at), ClosedAt(v, at)
    PROVE  StripQuotes(TrimWhitespace(StripComment(v))) = SubSeq(v, 2, at - 1)
<1>1. PICK n \in Nat : n = Len(v)
  BY DEF Quoted, IsSeq
<1>2. IsSeq(v) /\ at \in 2 .. n /\ v[at] \in Quotes /\ v[1] \in Quotes /\ v[at] = v[1]
  BY <1>1 DEF Quoted
<1>3. v[at] # Space /\ v[1] # Space /\ Space \notin Comment /\ Space \notin Quotes
  BY <1>2 DEF Quotes, Space, Comment
<1>4. PICK ends : ends = {i \in DOMAIN v : v[i] \in Comment /\ QuotesTo(v, i) % 2 = 0}
  OBVIOUS
<1>5. StripComment(v) = IF ends = {} THEN v ELSE SubSeq(v, 1, Min(ends) - 1)
  BY <1>4 DEF StripComment, QuotesTo
<1>5a. /\ DOMAIN v = 1 .. n /\ ends \in SUBSET (1 .. n)
       /\ \A i \in ends : v[i] \in Comment /\ i \in at + 1 .. n
  <2>1. DOMAIN v = 1 .. n
    BY <1>1, <1>2, SeqElements
  <2>2. ASSUME NEW i \in ends
        PROVE  v[i] \in Comment /\ i \in at + 1 .. n
    <3>1. i \in 1 .. n /\ v[i] \in Comment /\ QuotesTo(v, i) % 2 = 0
      BY <1>4, <2>1
    <3>2. i \notin 1 .. at
      BY <3>1, NoCommentInQuotes
    <3>. QED
      BY <1>2, <3>1, <3>2
  <2>. QED
    BY <1>4, <2>1, <2>2
<1>6. \E m \in Nat : /\ at <= m /\ m <= n /\ StripComment(v) = SubSeq(v, 1, m)
                     /\ \A i \in at + 1 .. m : v[i] = Space
  <2>1. CASE \A i \in at + 1 .. n : v[i] = Space
    <3>1. ends = {}
      BY <1>3, <1>5a, <2>1
    <3>2. StripComment(v) = v
      BY <1>5, <3>1
    <3>3. PICK w : w = SubSeq(v, 1, n)
      OBVIOUS
    <3>4. n <= Len(v)
      BY <1>1
    <3>5. IsSeq(w)
      BY <1>2, <3>3, <3>4, SeqPrefix, Zenon
    <3>6. Len(w) = n
      BY <1>2, <3>3, <3>4, SeqPrefix
    <3>7. \A i \in 1 .. n : w[i] = v[i]
      BY <1>2, <3>3, <3>4, SeqPrefix
    <3>8. w = v
      BY <1>1, <1>2, <3>5, <3>6, <3>7, SeqSame
    <3>9. at <= n /\ n <= n
      BY <1>2
    <3>. QED
      BY <2>1, <3>2, <3>3, <3>8, <3>9
  <2>2. CASE \E e \in at + 1 .. n : v[e] \in Comment /\ \A i \in at + 1 .. e - 1 : v[i] = Space
    <3>1. PICK e \in at + 1 .. n : v[e] \in Comment /\ \A i \in at + 1 .. e - 1 : v[i] = Space
      BY <2>2
    <3>2. \A i \in at + 1 .. e : v[i] \notin Quotes
      <4>1. v[e] \notin Quotes
        BY <3>1 DEF Comment, Quotes
      <4>2. TAKE i \in at + 1 .. e
      <4>3. CASE i = e
        BY <4>1, <4>3
      <4>4. CASE i # e
        BY <1>2, <1>3, <3>1, <4>4
      <4>. QED
        BY <4>3, <4>4
    <3>3. QuotesTo(v, e) % 2 = 0
      BY <1>1, <3>2, CommentBehindQuotes
    <3>4. e \in ends /\ ends \in SUBSET Nat /\ ends # {}
      <4>1. e \in DOMAIN v
        BY <1>2, <1>5a
      <4>. QED
        BY <1>4, <1>5a, <3>1, <3>3, <4>1
    <3>5. PICK f : f = Min(ends)
      OBVIOUS
    <3>6. f \in ends /\ f <= e
      BY <3>4, <3>5, MinFacts
    <3>7. f \in at + 1 .. n /\ v[f] \in Comment
      BY <1>5a, <3>6
    <3>8. f \notin at + 1 .. e - 1
      BY <1>3, <3>1, <3>7
    <3>9. f = e
      BY <1>2, <3>1, <3>6, <3>7, <3>8
    <3>10. StripComment(v) = SubSeq(v, 1, e - 1)
      BY <1>5, <3>4, <3>5, <3>9
    <3>11. e - 1 \in Nat /\ at <= e - 1 /\ e - 1 <= n
      BY <1>2, <3>1
    <3>. QED
      BY <3>1, <3>10, <3>11
  <2>. QED
    BY <1>1, <2>1, <2>2 DEF ClosedAt
<1>7. PICK m \in Nat : /\ at <= m /\ m <= n /\ StripComment(v) = SubSeq(v, 1, m)
                       /\ \A i \in at + 1 .. m : v[i] = Space
  BY <1>6
<1>8. at \in Nat /\ at >= 1 /\ at >= 2 /\ at <= Len(v) /\ m <= Len(v)
  BY <1>1, <1>2, <1>7
<1>9. TrimWhitespace(StripComment(v)) = SubSeq(v, 1, at)
  <2>1. PICK u : u = SubSeq(v, 1, m)
    OBVIOUS
  <2>2. TrimWhitespace(u) = SubSeq(v, 1, at)
    BY <1>2, <1>3, <1>7, <1>8, <2>1, TrimToQuote
  <2>. QED
    BY <1>7, <2>1, <2>2
<1>10. PICK w : w = SubSeq(v, 1, at)
  OBVIOUS
<1>11. StripQuotes(w) = SubSeq(v, 2, at - 1)
  BY <1>2, <1>8, <1>10, StripToBody
<1>. QED
  BY <1>9, <1>10, <1>11

\* The value of a line whose value is quoted.
LEMMA ValueIsBody ==
    ASSUME NEW line, IsSeq(line), NEW q \in InQuotes(line), Paired(q)
    PROVE  ValueOf(line) = Body(q)
<1>1. PICK raw, v : raw = SubSeq(line, Len(Before(line, {"="})) + 2, Len(line))
                    /\ v = TrimWhitespace(raw)
  OBVIOUS
<1>2. IsSeq(v)
  <2>1. PICK a, b : a = Len(Before(line, {"="})) + 2 /\ b = Len(line)
    OBVIOUS
  <2>2. Len(Before(line, {"="})) \in Nat
    BY BeforeIsSeq
  <2>3. IsSeq(line) /\ a \in Int /\ b \in Int /\ a >= 1 /\ b <= Len(line) /\ raw = SubSeq(line, a, b)
    BY <1>1, <2>1, <2>2 DEF IsSeq
  <2>4. IsSeq(raw)
    BY <2>3, SeqPart
  <2>. QED
    BY <1>1, <2>4, TrimIsSeq
<1>3. PICK n \in Nat : n = Len(v)
  BY <1>2 DEF IsSeq
<1>4. PICK same, at, tail, rest :
        /\ same = {i \in 2 .. n : v[i] = Head(v)} /\ at = Min(same)
        /\ tail = SubSeq(v, at + 1, n) /\ rest = TrimWhitespace(tail)
  OBVIOUS
<1>5. InQuotes(line) =
        IF v = <<>> \/ Head(v) \notin Quotes \/ same = {} THEN {}
        ELSE IF rest = <<>> \/ Head(rest) \in Comment THEN {[value |-> v, close |-> at]} ELSE {}
  BY <1>1, <1>3, <1>4 DEF InQuotes
<1>6. /\ v # <<>> /\ Head(v) \in Quotes /\ same # {}
      /\ rest = <<>> \/ Head(rest) \in Comment
      /\ q = [value |-> v, close |-> at]
  BY <1>5
<1>6a. q.value = v /\ q.close = at /\ Body(q) = SubSeq(v, 2, at - 1)
  BY <1>6 DEF Body
<1>7. Head(v) = v[1] /\ n >= 1
  <2>1. PICK S : S = {v[i] : i \in 1 .. Len(v)}
    OBVIOUS
  <2>2. v \in Seq(S) /\ Len(v) >= 1
    BY <1>2, <1>6, <2>1, SeqElements
  <2>. QED
    BY <1>3, <1>6, <2>2
<1>8. at \in same /\ \A i \in same : at <= i
  <2>1. same \in SUBSET Nat
    BY <1>3, <1>4
  <2>. QED
    BY <1>4, <1>6, <2>1, MinFacts
<1>9. at \in 2 .. n /\ at \in Nat /\ v[at] \in Quotes /\ v[1] \in Quotes /\ v[at] = v[1]
  <2>1. \A i \in same : i \in 2 .. n /\ v[i] = Head(v)
    BY <1>4
  <2>2. at \in 2 .. n /\ v[at] = Head(v)
    BY <1>8, <2>1
  <2>. QED
    BY <1>6, <1>7, <2>2
<1>10. Quoted(v, at)
  <2>1. ASSUME NEW i \in 2 .. at - 1
        PROVE  v[i] # v[1]
    <3>1. i \in 2 .. n /\ ~(at <= i)
      BY <1>9
    <3>2. i \notin same
      BY <1>8, <3>1
    <3>. QED
      BY <1>4, <1>7, <3>1, <3>2
  <2>. QED
    BY <1>2, <1>3, <1>9, <2>1 DEF Quoted
<1>10a. PairedIn(v, at)
  <2>1. \A i : OthersTo(v, i) = Cardinality({j \in 2 .. i : q.value[j] \in Quotes \ {Head(q.value)}})
    BY <1>6a, <1>7 DEF OthersTo
  <2>2. /\ \A i \in 2 .. q.close : q.value[i] \in Comment => OthersTo(v, i) % 2 = 0
        /\ q.close < Len(q.value) => OthersTo(v, q.close) % 2 = 0
    BY <2>1 DEF Paired
  <2>. QED
    BY <1>6a, <2>2 DEF PairedIn
<1>11. IsSeq(tail) /\ Len(tail) = n - at /\ \A i \in 1 .. n - at : tail[i] = v[at + i]
  <2>1. PICK a, b : a = at + 1 /\ b = n
    OBVIOUS
  <2>2. IsSeq(v) /\ a \in Int /\ b \in Int /\ a >= 1 /\ b <= Len(v) /\ tail = SubSeq(v, a, b)
    BY <1>2, <1>3, <1>4, <1>9, <2>1
  <2>3. IsSeq(tail)
    BY <2>2, SeqPart
  <2>4. Len(tail) = (IF a <= b THEN b - a + 1 ELSE 0)
    BY <2>2, SeqPart
  <2>5. \A i \in 1 .. b - a + 1 : tail[i] = v[a + i - 1]
    BY <2>2, SeqPart
  <2>6. Len(tail) = n - at
    BY <1>9, <2>1, <2>4
  <2>7. ASSUME NEW i \in 1 .. n - at
        PROVE  tail[i] = v[at + i]
    <3>1. i \in 1 .. b - a + 1 /\ a + i - 1 = at + i
      BY <1>9, <2>1
    <3>2. tail[i] = v[a + i - 1]
      BY <2>5, <3>1
    <3>. QED
      BY <3>1, <3>2
  <2>. QED
    BY <2>3, <2>6, <2>7
<1>12. \A i \in at + 1 .. n : i - at \in 1 .. n - at /\ v[i] = tail[i - at]
  <2>1. TAKE i \in at + 1 .. n
  <2>2. i - at \in 1 .. n - at /\ at + (i - at) = i
    BY <1>9
  <2>. QED
    BY <1>11, <2>2
<1>13. ClosedAt(v, at)
  <2>1. IsSeq(tail) /\ rest = TrimWhitespace(tail)
    BY <1>4, <1>11
  <2>2. CASE rest = <<>>
    <3>1. \A i \in 1 .. n - at : tail[i] = Space
      BY <1>11, <2>1, <2>2, TrimHead
    <3>2. \A i \in at + 1 .. n : v[i] = Space
      BY <1>12, <3>1
    <3>. QED
      BY <1>3, <3>2 DEF ClosedAt
  <2>3. CASE rest # <<>>
    <3>1. \E k \in 1 .. Len(tail) : tail[k] = Head(rest) /\ \A i \in 1 .. k - 1 : tail[i] = Space
      BY <2>1, <2>3, TrimHead
    <3>2. PICK k \in 1 .. n - at : tail[k] = Head(rest) /\ \A i \in 1 .. k - 1 : tail[i] = Space
      BY <1>11, <3>1
    <3>3. PICK e : e = at + k
      OBVIOUS
    <3>4. e \in at + 1 .. n /\ v[e] = tail[k]
      BY <1>9, <1>11, <3>3
    <3>5. v[e] \in Comment
      BY <1>6, <2>3, <3>2, <3>4
    <3>6. \A i \in at + 1 .. e - 1 : v[i] = Space
      <4>1. TAKE i \in at + 1 .. e - 1
      <4>2. i \in at + 1 .. n /\ i - at \in 1 .. k - 1
        BY <1>9, <3>3
      <4>. QED
        BY <1>12, <3>2, <4>2
    <3>. QED
      BY <1>3, <3>4, <3>5, <3>6 DEF ClosedAt
  <2>. QED
    BY <2>2, <2>3
<1>14. StripQuotes(TrimWhitespace(StripComment(v))) = SubSeq(v, 2, at - 1)
  BY <1>10, <1>10a, <1>13, QuotedValue
<1>15. ValueOf(line) = StripQuotes(TrimWhitespace(StripComment(v)))
  BY <1>1 DEF ValueOf
<1>. QED
  BY <1>6a, <1>14, <1>15

-----------------------------------------------------------------------------
(* The theorems.                                                           *)

LEMMA Invariance == Spec => []IInv
<1>1. Init => IInv
  BY OnceInit, SectionsInit, PairsInit, DefaultsInit DEF IInv
<1>2. IInv /\ [Next]_vars => IInv'
  BY OnceStep, SectionsStep, PairsStep, DefaultsStep DEF IInv
<1>. QED
  BY <1>1, <1>2, PTL DEF Spec

\* However files include one another, none is opened twice, parsing never nests deeper than
\* the files it may open, and config keeps its limits (config_parser.c:173-180, 268-300).
THEOREM FilesOpenedOnce == Spec => []EachFileOnce
<1>1. IInv => EachFileOnce
  BY DEF IInv
<1>. QED
  BY <1>1, Invariance, PTL

\* Every pair is stored once, in the order of the lines, in the section its own file puts
\* it in (config_parser.c:189-197, 291).
THEOREM PairsInTheirSection == Spec => []InItsSection
<1>1. IInv => InItsSection
  <2>1. SUFFICES ASSUME IInv, outcome \notin {"valid", "invalid"}
                 PROVE  /\ Len(config.entries) = Cardinality(Pairs)
                        /\ \A i \in Pairs : /\ EntryOf(i).section = SectionOf[i]
                                            /\ EntryOf(i).key = log[i].name
    BY DEF InItsSection
  <2>2. Stored(config.entries, SectionOf, log)
    BY <2>1 DEF IInv, PairsStored
  <2>3. ASSUME NEW i \in Pairs
        PROVE  EntryOf(i).section = SectionOf[i] /\ EntryOf(i).key = log[i].name
    <3>1. EntryOf(i) = Entry(SectionOf[i], log[i].name, ValueOf(log[i].value))
      BY <2>2, PairsFacts DEF Stored, EntryOf
    <3>. QED
      BY <3>1, EntryFields
  <2>. QED
    BY <2>2, <2>3, PairsFacts DEF Stored
<1>. QED
  BY <1>1, Invariance, PTL

\* What stands in quotes is the value, comment signs, spaces and all, before variables are
\* expanded, when signs of quotation of the other kind come in pairs in front of every
\* comment sign (config_parser.c:348-358, 373).
THEOREM QuotedStaysQuoted == Spec => []QuotedIsKept
<1>1. IInv => QuotedIsKept
  <2>1. SUFFICES ASSUME IInv, outcome \notin {"valid", "invalid"}, NEW i \in Pairs,
                        NEW q \in InQuotes(log[i].value), Paired(q)
                 PROVE  EntryOf(i).value = ExpandedValue(Body(q))
    BY DEF QuotedIsKept
  <2>2. Stored(config.entries, SectionOf, log)
    BY <2>1 DEF IInv, PairsStored
  <2>3. EntryOf(i) = Entry(SectionOf[i], log[i].name, ValueOf(log[i].value))
    BY <2>2, PairsFacts DEF Stored, EntryOf
  <2>4. IsSeq(log[i].value)
    BY <2>2, PairsFacts DEF Stored
  <2>5. ValueOf(log[i].value) = Body(q)
    BY <2>1, <2>4, ValueIsBody
  <2>. QED
    BY <2>3, <2>5, EntryFields
<1>. QED
  BY <1>1, Invariance, PTL

\* When the defaults of the schema are what it asks for itself, filling them in keeps what
\* was found valid so, hides nothing that was written, and leaves out a default only if the
\* table is full (config_parser.c:505-610).
THEOREM ReadsAsValidated == ASSUME SoundDefaults PROVE Spec => []ValidatedReads
<1>1. ASSUME IInv, outcome = "valid"
      PROVE  ValidatedReads
  <2>1. PICK ds, l, sec : ds = config.entries /\ l = log /\ sec = SectionOf
    OBVIOUS
  <2>2. PICK es :
          /\ IsSeq(es) /\ Stored(es, sec, l) /\ Validates(es)
          /\ Completes(es, ds, Len(Schema))
    BY <1>1, <2>1 DEF IInv, DefaultsAdded
  <2>3. PICK n \in Nat : DOMAIN l = 1 .. n /\ PairsOf(l) \in SUBSET (1 .. n)
    BY <1>1, <2>1 DEF IInv, CallsInSection, Framed, IsSeq, PairsOf
  <2>4. Validates(ds)
    BY <2>2, StaysValid
  <2>5. Len(es) \in Nat /\ Len(ds) \in Nat /\ Begins(es, ds)
    BY <2>2 DEF Completes, IsSeq
  <2>6. ASSUME NEW i \in DOMAIN Schema, NEW section, NEW key, NEW k, NEW W,
               section = Schema[i].section, key = Schema[i].key,
               k = FindEntry(ds, section, key), W = WrittenIn(l, sec, section, key)
        PROVE  /\ Schema[i].type = "int" /\ (Schema[i].min # 0 \/ Schema[i].max # 0) /\ k # 0 =>
                    GetInt(ds[k]) \in Schema[i].min .. Schema[i].max
               /\ Schema[i].default # {} /\ Len(ds) < MaxKeys => k # 0
               /\ W # {} => ds[k].value = ExpandedValue(ValueOf(l[Min(W)].value))
    <3>1. ASSUME Schema[i].type = "int", Schema[i].min # 0 \/ Schema[i].max # 0, k # 0
          PROVE  GetInt(ds[k]) \in Schema[i].min .. Schema[i].max
      <4>1. Satisfies(ds[k], Schema[i])
        BY <2>4, <2>6, <3>1 DEF Validates
      <4>2. ds[k].type = "int" /\ ds[k].int_value \in Schema[i].min .. Schema[i].max
        BY <3>1, <4>1 DEF Satisfies
      <4>. QED
        BY <4>2 DEF GetInt
    <3>2. Schema[i].default # {} /\ Len(ds) < MaxKeys => k # 0
      <4>1. DOMAIN Schema = 1 .. Len(Schema)
        BY ParserAssumption, LenProperties
      <4>. QED
        BY <2>2, <2>6, <4>1 DEF Completes
    <3>3. ASSUME W # {}
          PROVE  ds[k].value = ExpandedValue(ValueOf(l[Min(W)].value))
      <4>1. PICK f : f = FindEntry(es, section, key)
        OBVIOUS
      <4>2. f \in 1 .. Len(es) /\ es[f].value = ExpandedValue(ValueOf(l[Min(W)].value))
        BY <2>2, <2>3, <2>6, <3>3, <4>1, FirstWritten
      <4>3. k = f
        BY <2>5, <2>6, <4>1, <4>2, FindKept
      <4>. QED
        BY <2>5, <4>2, <4>3 DEF Begins
    <3>. QED
      BY <3>1, <3>2, <3>3
  <2>7. ASSUME NEW i \in DOMAIN Schema, NEW W,
               W = {j \in Pairs : /\ SectionOf[j] = Schema[i].section
                                  /\ log[j].name = Schema[i].key}
        PROVE  W = WrittenIn(l, sec, Schema[i].section, Schema[i].key)
    BY <2>1, <2>7, PairsFacts DEF WrittenIn
  <2>8. ASSUME NEW i \in DOMAIN Schema, NEW k,
               k = FindEntry(config.entries, Schema[i].section, Schema[i].key), NEW W,
               W = {j \in Pairs : /\ SectionOf[j] = Schema[i].section
                                  /\ log[j].name = Schema[i].key}
        PROVE  /\ Schema[i].type = "int" /\ (Schema[i].min # 0 \/ Schema[i].max # 0) /\ k # 0 =>
                    GetInt(config.entries[k]) \in Schema[i].min .. Schema[i].max
               /\ Schema[i].default # {} /\ Len(config.entries) < MaxKeys => k # 0
               /\ W # {} =>
                    config.entries[k].value = ExpandedValue(ValueOf(log[Min(W)].value))
    <3>1. PICK section, key : section = Schema[i].section /\ key = Schema[i].key
      OBVIOUS
    <3>2. k = FindEntry(ds, section, key) /\ W = WrittenIn(l, sec, section, key)
      BY <2>1, <2>7, <2>8, <3>1
    <3>3. /\ Schema[i].type = "int" /\ (Schema[i].min # 0 \/ Schema[i].max # 0) /\ k # 0 =>
                GetInt(ds[k]) \in Schema[i].min .. Schema[i].max
          /\ Schema[i].default # {} /\ Len(ds) < MaxKeys => k # 0
          /\ W # {} => ds[k].value = ExpandedValue(ValueOf(l[Min(W)].value))
      BY ONLY <2>6, <3>1, <3>2, i \in DOMAIN Schema
    <3>. QED
      BY <2>1, <3>3
  <2>9. Validates(config.entries)
    BY <2>1, <2>4
  <2>. QED
    BY <2>8, <2>9 DEF ValidatedReads
<1>2. IInv => ValidatedReads
  BY <1>1 DEF ValidatedReads
<1>. QED
  BY <1>2, Invariance, PTL
=============================================================================
