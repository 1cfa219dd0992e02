--------------------------- MODULE RepositoryProofs ---------------------------
(***************************************************************************)
(* Proofs about the repositories the application has at hand: the handle   *)
(* of the one that is shown (RepoHandles), and the forest of a repository  *)
(* and its submodules that are fetched and pulled in turn (RepoForest).    *)
(***************************************************************************)
EXTENDS RepoHandles, RepoForest, SequenceTheorems, TLAPS

-----------------------------------------------------------------------------
(***************************************************************************)
(* One handle is open, the controllers and the tasks work on the one of    *)
(* the repository that is shown, and it heads the recent ones, for all     *)
(* paths, tasks and lengths of the list. The strengthening follows the     *)
(* handle of each model of the list: it is the current one, or on its way  *)
(* to its deletion, or none, and it opened the model's own repository.     *)
(***************************************************************************)

\* A session on its way, the number of its handles not bounded.
Sessions ==
  [opened : Seq(Path \cup {NoPath}), doomed : SUBSET Nat, current : Nat, held : Nat,
   repos : Seq(Path), handleOf : [Path -> Nat], selected : Path \cup {NoPath}]

\* Every handle that something points at was opened, and no model has one
\* that was freed.
Linked(s) ==
  /\ s \in Sessions /\ Once(s.repos)
  /\ s.doomed \subseteq DOMAIN s.opened /\ freed \subseteq DOMAIN s.opened
  /\ s.current \in DOMAIN s.opened /\ s.held \in DOMAIN s.opened \cup {Null}
  /\ \A p \in Path : s.handleOf[p] \in (DOMAIN s.opened \ freed) \cup {Null}

\* One handle is open, and a model has that of its own repository, unless
\* it is one of those a clone made.
SoleHandle(s) == DOMAIN s.opened \ (s.doomed \cup freed) = {s.current}

Own(s, b) == \A p \in Path \ b : s.handleOf[p] # Null => s.opened[s.handleOf[p]] = p

\* The controllers were not given the handle yet, which opened nothing.
Untold(s) == s.held = Null /\ s.opened[s.current] = NoPath

Sole(s, b) == SoleHandle(s) /\ Own(s, b) /\ (s.held = s.current \/ Untold(s))

\* It is the handle of the repository shown.
Shown(s, b) ==
  s.selected # NoPath =>
    /\ s.handleOf[s.selected] \in {Null, s.current}
    /\ s.selected \notin b => s.opened[s.current] = s.selected

Fit(s, b) == Sole(s, b) /\ Shown(s, b)

\* A task whose repository is still shown uses the handle of the controllers.
AtHome ==
  \A t \in Task : task[t] # NoTask /\ t \notin moved =>
    /\ ~strayed /\ session.selected # NoPath /\ task[t].for = session.selected
    /\ task[t].using \in {Null, session.held}

HandlesInv ==
  /\ HandlesTypeOK /\ Linked(session) /\ RecentFirst
  /\ ~reopened => /\ Sole(session, borrowed) /\ AtHome
                  /\ strayed \/ Shown(session, borrowed)

-----------------------------------------------------------------------------
(* The lists. *)

LEMMA DroppedType ==
  ASSUME NEW list \in Seq(Path), Once(list), NEW p \in Path
  PROVE  /\ Dropped(list, p) \in Seq(Path) /\ Once(Dropped(list, p))
         /\ Len(Dropped(list, p)) <= Len(list)
         /\ \A j \in DOMAIN Dropped(list, p) : Dropped(list, p)[j] # p
<1>1. Len(list) \in Nat /\ DOMAIN list = 1 .. Len(list) /\ list \in [1 .. Len(list) -> Path]
  BY LenProperties
<1>2. CASE \A k \in DOMAIN list : list[k] # p
  <2>1. Dropped(list, p) = list
    BY <1>2 DEF Dropped
  <2> QED BY <1>1, <1>2, <2>1
<1>3. CASE \E k \in DOMAIN list : list[k] = p
  <2> DEFINE at == CHOOSE k \in DOMAIN list : list[k] = p
             n == Len(list) - 1
             d == [j \in 1 .. n |-> list[IF j < at THEN j ELSE j + 1]]
  <2>1. at \in 1 .. Len(list) /\ list[at] = p
    BY <1>1, <1>3
  <2>2. Dropped(list, p) = d
    BY <1>3 DEF Dropped
  <2> HIDE DEF at
  <2>3. n \in Nat
    BY <1>1, <2>1
  <2>4. \A j \in 1 .. n :
          /\ (IF j < at THEN j ELSE j + 1) \in 1 .. Len(list)
          /\ (IF j < at THEN j ELSE j + 1) # at
    BY <1>1, <2>1
  <2>5. d \in [1 .. n -> Path]
    BY <1>1, <2>4
  <2>6. d \in Seq(Path) /\ Len(d) = n /\ DOMAIN d = 1 .. n
    <3> HIDE DEF d
    <3>1. d \in Seq(Path)
      BY <2>3, <2>5, SeqDef
    <3>2. DOMAIN d = 1 .. n /\ DOMAIN d = 1 .. Len(d) /\ Len(d) \in Nat
      BY <2>5, <3>1, LenProperties
    <3> QED BY <2>3, <3>1, <3>2
  <2>7. \A j \in 1 .. n : d[j] # p
    BY <1>1, <2>1, <2>4 DEF Once
  <2>8. Once(d)
    <3> SUFFICES ASSUME NEW i \in 1 .. n, NEW j \in 1 .. n, d[i] = d[j] PROVE i = j
      BY <2>6 DEF Once
    <3> QED BY <1>1, <2>1, <2>4 DEF Once
  <2>9. n <= Len(list)
    BY <1>1
  <2> HIDE DEF n, d
  <2> QED BY <2>2, <2>6, <2>7, <2>8, <2>9
<1> QED BY <1>2, <1>3

\* The repository selected heads the list, or is not in a list that is full.
LEMMA RecentsType ==
  ASSUME HandlesTypeOK, NEW p \in Path
  PROVE  /\ Recents(p) \in Seq(Path) /\ Len(Recents(p)) <= MaxRecent /\ Once(Recents(p))
         /\ \/ Recents(p) # <<>> /\ Head(Recents(p)) = p
            \/ Len(Recents(p)) = MaxRecent /\ \A i \in DOMAIN Recents(p) : Recents(p)[i] # p
<1> DEFINE others == Dropped(recents, p)
           all == <<p>> \o others
<1>1. /\ others \in Seq(Path) /\ Once(others) /\ Len(others) <= MaxRecent
      /\ \A j \in DOMAIN others : others[j] # p
      /\ Len(others) \in Nat /\ DOMAIN others = 1 .. Len(others)
  <2>1. Len(recents) \in Nat /\ Len(others) \in Nat /\ MaxRecent \in Nat
    BY DroppedType, LenProperties, HandlesBoundAssumption DEF HandlesTypeOK
  <2> QED BY <2>1, DroppedType, LenProperties DEF HandlesTypeOK
<1> HIDE DEF others
<1>2. /\ <<p>> \in Seq(Path) /\ Len(<<p>>) = 1 /\ <<p>>[1] = p
  OBVIOUS
<1>3. /\ all \in Seq(Path) /\ Len(all) = Len(others) + 1 /\ all[1] = p
      /\ \A i \in 1 .. Len(others) : all[i + 1] = others[i]
  <2>1. /\ all \in Seq(Path) /\ Len(all) = 1 + Len(others)
        /\ \A i \in 1 .. 1 + Len(others) : all[i] = IF i <= 1 THEN <<p>>[i] ELSE others[i - 1]
    BY <1>1, <1>2, ConcatProperties
  <2>2. all[1] = p
    BY <1>1, <1>2, <2>1
  <2>3. ASSUME NEW i \in 1 .. Len(others)
        PROVE  all[i + 1] = others[i]
    <3>1. i + 1 \in 1 .. 1 + Len(others) /\ ~(i + 1 <= 1) /\ (i + 1) - 1 = i
      BY <1>1
    <3> QED BY <2>1, <3>1
  <2> QED BY <1>1, <2>1, <2>2, <2>3
<1>4. CASE Len(all) > MaxRecent
  <2>1. Len(others) = MaxRecent /\ MaxRecent \in Nat \ {0}
    <3> HIDE DEF all
    <3>1. Len(others) \in Nat /\ Len(others) <= MaxRecent
      BY <1>1
    <3>2. Len(others) + 1 > MaxRecent
      BY <1>3, <1>4
    <3>3. MaxRecent \in Nat \ {0}
      BY HandlesBoundAssumption
    <3> QED BY <3>1, <3>2, <3>3
  <2>2. Recents(p) = SubSeq(all, 2, Len(all))
    BY <1>3, <1>4, <2>1 DEF Recents, others
  <2>3. all # <<>>
    BY <1>3, <2>1
  <2>4. Recents(p) = Tail(all)
    BY <1>3, <2>2, <2>3, TailIsSubSeq
  <2>5. /\ Tail(all) \in Seq(Path) /\ Len(Tail(all)) = Len(others)
        /\ \A i \in 1 .. Len(others) : Tail(all)[i] = others[i]
    BY <1>1, <1>3, <2>3, HeadTailProperties
  <2>6. Tail(all) = others
    BY <1>1, <2>5, SeqEqual
  <2> QED BY <1>1, <2>1, <2>4, <2>6
<1>5. CASE ~(Len(all) > MaxRecent)
  <2>1. Recents(p) = all
    BY <1>5 DEF Recents, others
  <2>2. all # <<>> /\ Head(all) = p /\ Len(all) <= MaxRecent /\ DOMAIN all = 1 .. Len(others) + 1
    <3>1. all # <<>> /\ DOMAIN all = 1 .. Len(others) + 1
      BY <1>1, <1>3, LenProperties
    <3> QED BY <1>1, <1>3, <1>5, <3>1, HandlesBoundAssumption
  <2>3. Once(all)
    <3> SUFFICES ASSUME NEW i \in 1 .. Len(others) + 1, NEW j \in 1 .. Len(others) + 1,
                        all[i] = all[j]
                 PROVE  i = j
      BY <2>2 DEF Once
    <3>1. \A k \in 1 .. Len(others) + 1 :
            k # 1 => k - 1 \in 1 .. Len(others) /\ all[k] = others[k - 1]
      <4> SUFFICES ASSUME NEW k \in 1 .. Len(others) + 1, k # 1
                   PROVE  k - 1 \in 1 .. Len(others) /\ all[k] = others[k - 1]
        OBVIOUS
      <4>1. k - 1 \in 1 .. Len(others) /\ (k - 1) + 1 = k
        BY <1>1
      <4> QED BY <1>3, <4>1
    <3> QED BY <1>1, <1>3, <3>1 DEF Once
  <2> QED BY <1>3, <2>1, <2>2, <2>3
<1> QED BY <1>4, <1>5

-----------------------------------------------------------------------------
(* What the functions of the controllers leave of a session. *)

LEMMA OpenedType ==
  ASSUME NEW s, Linked(s), NEW p \in Path
  PROVE  LET o == Opened(s, p)
             h == Len(s.opened) + 1
         IN  /\ o \in Sessions /\ h \in Nat \ {0}
             /\ DOMAIN s.opened = 1 .. h - 1 /\ DOMAIN o.opened = 1 .. h /\ Len(o.opened) = h
             /\ o.opened[h] = p /\ \A g \in 1 .. h - 1 : o.opened[g] = s.opened[g]
             /\ o.current = h /\ o.held = h /\ o.doomed = s.doomed \cup {s.current}
             /\ o.repos = s.repos /\ o.handleOf = s.handleOf /\ o.selected = s.selected
<1> DEFINE h == Len(s.opened) + 1
           list == Append(s.opened, p)
           o == [s EXCEPT !.opened = list, !.current = h, !.held = h, !.doomed = @ \cup {s.current}]
<1>1. /\ s.opened \in Seq(Path \cup {NoPath}) /\ s.doomed \in SUBSET Nat /\ s.current \in Nat
      /\ s \in Sessions
  BY DEF Linked, Sessions
<1>2. Len(s.opened) \in Nat /\ DOMAIN s.opened = 1 .. Len(s.opened)
  BY <1>1, LenProperties
<1>3. /\ list \in Seq(Path \cup {NoPath}) /\ Len(list) = h
      /\ \A g \in 1 .. Len(s.opened) : list[g] = s.opened[g]
      /\ list[h] = p
  <2>1. p \in Path \cup {NoPath}
    OBVIOUS
  <2> QED BY <1>1, <2>1, AppendProperties
<1>4. DOMAIN list = 1 .. Len(list)
  BY <1>3, LenProperties
<1> HIDE DEF list
<1>5. h \in Nat \ {0} /\ h - 1 = Len(s.opened)
  BY <1>2
<1> HIDE DEF h
<1>6. /\ o \in Sessions /\ o.opened = list /\ o.current = h /\ o.held = h
      /\ o.doomed = s.doomed \cup {s.current}
      /\ o.repos = s.repos /\ o.handleOf = s.handleOf /\ o.selected = s.selected
  BY <1>1, <1>3, <1>5 DEF Sessions
<1> HIDE DEF o
<1>7. Opened(s, p) = o
  BY DEF Opened, o, h, list
<1>8. /\ h \in Nat \ {0} /\ DOMAIN s.opened = 1 .. h - 1
      /\ DOMAIN o.opened = 1 .. h /\ Len(o.opened) = h
      /\ o.opened[h] = p /\ \A g \in 1 .. h - 1 : o.opened[g] = s.opened[g]
  BY <1>2, <1>3, <1>4, <1>5, <1>6
<1> QED BY <1>6, <1>7, <1>8 DEF h

\* A handle just opened is none of those freed, and the only one open.
LEMMA OpenedLinked ==
  ASSUME NEW s, Linked(s), NEW p \in Path
  PROVE  LET o == Opened(s, p)
         IN  Linked(o) /\ o.current \notin freed /\ o.current \in Nat \ {0}
<1> DEFINE h == Len(s.opened) + 1
           o == Opened(s, p)
<1>1. /\ o \in Sessions /\ h \in Nat \ {0}
      /\ DOMAIN s.opened = 1 .. h - 1 /\ DOMAIN o.opened = 1 .. h
      /\ o.current = h /\ o.held = h /\ o.doomed = s.doomed \cup {s.current}
      /\ o.repos = s.repos /\ o.handleOf = s.handleOf
  BY OpenedType
<1>2. 1 .. h - 1 \subseteq 1 .. h /\ h \in 1 .. h /\ h \notin 1 .. h - 1
  BY <1>1
<1> HIDE DEF o, h
<1>3. Linked(o) /\ h \notin freed
  BY <1>1, <1>2 DEF Linked
<1> QED BY <1>1, <1>3 DEF o

LEMMA OpenedAlone ==
  ASSUME NEW s, Linked(s), NEW b, NEW p \in Path, SoleHandle(s), Own(s, b)
  PROVE  LET o == Opened(s, p) IN SoleHandle(o) /\ Own(o, b) /\ o.held = o.current
<1> DEFINE h == Len(s.opened) + 1
           o == Opened(s, p)
<1>1. /\ h \in Nat \ {0} /\ DOMAIN s.opened = 1 .. h - 1 /\ DOMAIN o.opened = 1 .. h
      /\ \A g \in 1 .. h - 1 : o.opened[g] = s.opened[g]
      /\ o.current = h /\ o.held = h /\ o.doomed = s.doomed \cup {s.current}
      /\ o.handleOf = s.handleOf
  BY OpenedType
<1>2. 1 .. h = (1 .. h - 1) \cup {h} /\ h \notin 1 .. h - 1
  BY <1>1
<1> HIDE DEF o, h
<1>3. SoleHandle(o)
  BY <1>1, <1>2 DEF SoleHandle, Linked
<1>4. Own(o, b)
  BY <1>1 DEF Own, Linked
<1> QED BY <1>1, <1>3, <1>4 DEF o

\* A model is selected: it is shown, with its handle current.
LEMMA SelectedLinked ==
  ASSUME NEW s, Linked(s), s.current \notin freed, NEW p \in Path
  PROVE  LET t == Selected(s, p)
         IN  Linked(t) /\ t.selected = p /\ t.current \notin freed /\ t.repos = s.repos
<1>1. CASE s.handleOf[p] # Null
  <2> DEFINE h == s.handleOf[p]
             t == [s EXCEPT !.current = h, !.held = IF h = s.current THEN @ ELSE h,
                            !.selected = p]
  <2>1. h \in DOMAIN s.opened \ freed /\ h \in Nat /\ s \in Sessions
    BY <1>1 DEF Linked, Sessions
  <2>2. Selected(s, p) = t
    BY <1>1, <2>1 DEF Selected, WithCurrent, Sessions
  <2>3. /\ t \in Sessions /\ t.opened = s.opened /\ t.doomed = s.doomed /\ t.repos = s.repos
        /\ t.handleOf = s.handleOf /\ t.current = h /\ t.held \in {s.held, h} /\ t.selected = p
    BY <2>1 DEF Sessions
  <2> HIDE DEF t, h
  <2> QED BY <2>1, <2>2, <2>3 DEF Linked
<1>2. CASE s.handleOf[p] = Null
  <2> DEFINE o == Opened(s, p)
             h == Len(s.opened) + 1
             t == [o EXCEPT !.selected = p, !.handleOf[p] = h]
  <2>1. /\ o \in Sessions /\ h \in Nat \ {0} /\ o.current = h /\ o.repos = s.repos
        /\ DOMAIN o.opened = 1 .. h
    BY OpenedType
  <2>2. Linked(o) /\ h \notin freed
    BY <2>1, OpenedLinked
  <2>3. Selected(s, p) = t
    BY <1>2 DEF Selected
  <2> HIDE DEF o, h
  <2>4. /\ t \in Sessions /\ t.opened = o.opened /\ t.doomed = o.doomed /\ t.repos = o.repos
        /\ \A q \in Path : t.handleOf[q] = IF q = p THEN h ELSE o.handleOf[q]
        /\ t.current = o.current /\ t.held = o.held /\ t.selected = p
    BY <2>1 DEF Sessions
  <2> HIDE DEF t
  <2>5. h \in 1 .. h
    BY <2>1
  <2> QED BY <2>1, <2>2, <2>3, <2>4, <2>5 DEF Linked
<1> QED BY <1>1, <1>2

LEMMA SelectedFit ==
  ASSUME NEW s, NEW b, Linked(s), SoleHandle(s), Own(s, b), NEW p \in Path,
         s.handleOf[p] \in {Null, s.current}, s.held = s.current \/ Untold(s)
  PROVE  Fit(Selected(s, p), b)
<1>0. p # NoPath /\ s \in Sessions
  BY NoPathAssumption DEF Linked
<1>1. CASE s.handleOf[p] # Null
  <2> DEFINE t == [s EXCEPT !.current = s.current, !.held = s.held, !.selected = p]
  <2>1. s.handleOf[p] = s.current
    BY <1>1
  <2>2. Selected(s, p) = t
    BY <1>0, <1>1, <2>1 DEF Selected, WithCurrent, Sessions
  <2>3. /\ t.opened = s.opened /\ t.doomed = s.doomed /\ t.handleOf = s.handleOf
        /\ t.current = s.current /\ t.held = s.held /\ t.selected = p
    BY <1>0 DEF Sessions
  <2> HIDE DEF t
  <2>4. SoleHandle(t) /\ Own(t, b)
    BY <2>3 DEF SoleHandle, Own
  <2>5. t.held = t.current \/ Untold(t)
    BY <2>3 DEF Untold
  <2>6. t.handleOf[p] = t.current /\ (p \notin b => t.opened[t.current] = p)
    BY <1>1, <2>1, <2>3 DEF Own
  <2> QED BY <2>2, <2>3, <2>4, <2>5, <2>6 DEF Fit, Sole, Shown
<1>2. CASE s.handleOf[p] = Null
  <2> DEFINE o == Opened(s, p)
             h == Len(s.opened) + 1
             t == [o EXCEPT !.selected = p, !.handleOf[p] = h]
  <2>1. /\ o \in Sessions /\ h \in Nat \ {0} /\ o.current = h /\ o.opened[h] = p
    BY OpenedType
  <2>2. SoleHandle(o) /\ Own(o, b) /\ o.held = o.current
    BY OpenedAlone
  <2>3. Selected(s, p) = t
    BY <1>2 DEF Selected
  <2> HIDE DEF o, h
  <2>4. /\ t.opened = o.opened /\ t.doomed = o.doomed
        /\ \A q \in Path : t.handleOf[q] = IF q = p THEN h ELSE o.handleOf[q]
        /\ t.current = h /\ t.held = h /\ t.selected = p
    BY <2>1, <2>2 DEF Sessions
  <2> HIDE DEF t
  <2>5. SoleHandle(t)
    BY <2>1, <2>2, <2>4 DEF SoleHandle
  <2>6. Own(t, b)
    BY <2>1, <2>2, <2>4 DEF Own
  <2> QED BY <2>1, <2>3, <2>4, <2>5, <2>6 DEF Fit, Sole, Shown
<1> QED BY <1>1, <1>2

\* A new model gets the current handle.
LEMMA ModelType ==
  ASSUME NEW s, Linked(s), s.current \notin freed, NEW p \in Path, p \notin ListedPaths(s)
  PROVE  LET m == [s EXCEPT !.repos = Append(@, p), !.handleOf[p] = s.current]
         IN  /\ Linked(m) /\ m.opened = s.opened /\ m.doomed = s.doomed
             /\ m.current = s.current /\ m.held = s.held
             /\ \A q \in Path : m.handleOf[q] = IF q = p THEN s.current ELSE s.handleOf[q]
<1> DEFINE list == Append(s.repos, p)
           m == [s EXCEPT !.repos = list, !.handleOf[p] = s.current]
<1>1. s \in Sessions /\ s.repos \in Seq(Path) /\ Once(s.repos) /\ s.current \in Nat
  BY DEF Linked, Sessions
<1>2. Len(s.repos) \in Nat /\ DOMAIN s.repos = 1 .. Len(s.repos)
  BY <1>1, LenProperties
<1>3. /\ list \in Seq(Path) /\ Len(list) = Len(s.repos) + 1
      /\ \A i \in 1 .. Len(s.repos) : list[i] = s.repos[i]
      /\ list[Len(s.repos) + 1] = p
  BY <1>1, AppendProperties
<1>4. DOMAIN list = 1 .. Len(s.repos) + 1
  BY <1>3, LenProperties
<1> HIDE DEF list
<1>5. Once(list)
  <2>1. \A i \in 1 .. Len(s.repos) + 1 : i # Len(s.repos) + 1 => i \in 1 .. Len(s.repos)
    BY <1>2
  <2>2. \A i \in 1 .. Len(s.repos) : s.repos[i] # p
    BY <1>2 DEF ListedPaths
  <2> QED BY <1>1, <1>2, <1>3, <1>4, <2>1, <2>2 DEF Once
<1>6. /\ m \in Sessions /\ m.repos = list /\ m.opened = s.opened /\ m.doomed = s.doomed
      /\ m.current = s.current /\ m.held = s.held
      /\ \A q \in Path : m.handleOf[q] = IF q = p THEN s.current ELSE s.handleOf[q]
  BY <1>1, <1>3 DEF Sessions
<1> HIDE DEF m
<1>7. Linked(m)
  BY <1>5, <1>6 DEF Linked
<1> QED BY <1>6, <1>7 DEF m, list

LEMMA CreatedLinked ==
  ASSUME NEW s, Linked(s), s.current \notin freed, NEW p \in Path
  PROVE  LET t == Created(s, p)
         IN  Linked(t) /\ t.selected = p /\ t.current \notin freed
<1>1. CASE p \in ListedPaths(s)
  BY <1>1, SelectedLinked DEF Created
<1>2. CASE p \notin ListedPaths(s)
  <2> DEFINE m == [s EXCEPT !.repos = Append(@, p), !.handleOf[p] = s.current]
  <2>1. Linked(m) /\ m.current \notin freed
    BY <1>2, ModelType
  <2>2. Created(s, p) = Selected(m, p)
    BY <1>2 DEF Created
  <2> HIDE DEF m
  <2> QED BY <2>1, <2>2, SelectedLinked
<1> QED BY <1>1, <1>2

LEMMA CreatedFit ==
  ASSUME NEW s, NEW b, Linked(s), SoleHandle(s), s.held = s.current \/ Untold(s), NEW p \in Path,
         p \in ListedPaths(s) => s.handleOf[p] = Null /\ Own(s, b),
         p \notin ListedPaths(s) => Own(s, b \cup {p}) /\ (p \in b \/ s.opened[s.current] = p)
  PROVE  Fit(Created(s, p), b)
<1>1. CASE p \in ListedPaths(s)
  BY <1>1, SelectedFit DEF Created
<1>2. CASE p \notin ListedPaths(s)
  <2> DEFINE m == [s EXCEPT !.repos = Append(@, p), !.handleOf[p] = s.current]
  <2>0. s.current \notin freed
    BY DEF SoleHandle
  <2>1. /\ Linked(m) /\ m.opened = s.opened /\ m.doomed = s.doomed
        /\ m.current = s.current /\ m.held = s.held
        /\ \A q \in Path : m.handleOf[q] = IF q = p THEN s.current ELSE s.handleOf[q]
    BY <1>2, <2>0, ModelType
  <2>2. Created(s, p) = Selected(m, p)
    BY <1>2 DEF Created
  <2> HIDE DEF m
  <2>3. SoleHandle(m) /\ Own(m, b) /\ (m.held = m.current \/ Untold(m))
    BY <1>2, <2>1 DEF SoleHandle, Own, Untold
  <2> QED BY <2>1, <2>2, <2>3, SelectedFit
<1> QED BY <1>1, <1>2

LEMMA WithoutType ==
  ASSUME NEW s, Linked(s), NEW p \in Path
  PROVE  LET w == WithoutRepo(s, p)
         IN  /\ Linked(w) /\ w.opened = s.opened /\ w.doomed = s.doomed
             /\ w.current = s.current /\ w.held = s.held /\ w.selected = s.selected
             /\ w.repos \in Seq(Path)
             /\ \A q \in Path : w.handleOf[q] = IF q = p THEN Null ELSE s.handleOf[q]
<1> DEFINE list == Dropped(s.repos, p)
           w == [s EXCEPT !.repos = list, !.handleOf[p] = Null]
<1>1. s \in Sessions /\ s.repos \in Seq(Path) /\ Once(s.repos) /\ Null \in Nat
  BY DEF Linked, Sessions, Null
<1>2. list \in Seq(Path) /\ Once(list)
  BY <1>1, DroppedType
<1> HIDE DEF list
<1>3. /\ w \in Sessions /\ w.repos = list /\ w.opened = s.opened /\ w.doomed = s.doomed
      /\ w.current = s.current /\ w.held = s.held /\ w.selected = s.selected
      /\ \A q \in Path : w.handleOf[q] = IF q = p THEN Null ELSE s.handleOf[q]
  BY <1>1, <1>2 DEF Sessions
<1>4. WithoutRepo(s, p) = w
  BY DEF WithoutRepo, list
<1> HIDE DEF w
<1>5. Linked(w)
  BY <1>2, <1>3 DEF Linked
<1> QED BY <1>2, <1>3, <1>4, <1>5

\* A session within the bound is one of the type invariant.
LEMMA LinkedTyped ==
  ASSUME NEW s, Linked(s), Len(s.opened) <= MaxHandles
  PROVE  s \in Session /\ {s.current, s.held} \subseteq DOMAIN s.opened \cup {Null}
<1>1. Len(s.opened) \in Nat /\ DOMAIN s.opened = 1 .. Len(s.opened) /\ s \in Sessions
  BY LenProperties DEF Linked, Sessions
<1>2. DOMAIN s.opened \subseteq Handle
  BY <1>1, HandlesBoundAssumption DEF Handle
<1>3. s.handleOf \in [Path -> Handle \cup {Null}]
  BY <1>1, <1>2 DEF Linked, Sessions
<1> QED BY <1>1, <1>2, <1>3 DEF Linked, Sessions, Session

-----------------------------------------------------------------------------
(* Every step preserves the invariant. *)

\* The session of a program that starts.
LEMMA FirstType ==
  /\ FirstSession \in Sessions /\ Len(FirstSession.opened) = 1
  /\ DOMAIN FirstSession.opened = {1} /\ Once(FirstSession.repos)
  /\ FirstSession.doomed = {} /\ FirstSession.current = 1 /\ FirstSession.held = Null
  /\ FirstSession.repos = <<>> /\ FirstSession.selected = NoPath
  /\ \A p \in Path : FirstSession.handleOf[p] = Null
<1> DEFINE list == <<NoPath>>
           f == [opened |-> list, doomed |-> {}, current |-> 1, held |-> Null,
                 repos |-> <<>>, handleOf |-> [p \in Path |-> Null], selected |-> NoPath]
<1>1. /\ list \in Seq(Path \cup {NoPath}) /\ DOMAIN list = {1} /\ Len(list) = 1
      /\ <<>> \in Seq(Path) /\ DOMAIN <<>> = {}
  <2>1. list \in Seq(Path \cup {NoPath}) /\ Len(list) = 1
    OBVIOUS
  <2>2. DOMAIN list = 1 .. 1 /\ 1 .. 1 = {1}
    BY <2>1, LenProperties
  <2>3. <<>> \in Seq(Path) /\ DOMAIN <<>> = 1 .. 0 /\ 1 .. 0 = {}
    BY LenProperties, EmptySeq
  <2> QED BY <2>1, <2>2, <2>3
<1> HIDE DEF list
<1>2. /\ f.opened = list /\ f.doomed = {} /\ f.current = 1 /\ f.held = Null /\ f.repos = <<>>
      /\ f.handleOf = [p \in Path |-> Null] /\ f.selected = NoPath /\ f \in Sessions
  BY <1>1 DEF Sessions, Null
<1>3. FirstSession = f
  BY DEF FirstSession, list
<1> HIDE DEF f
<1> QED BY <1>1, <1>2, <1>3 DEF Once

\* The program has started.
Started ==
  /\ session = FirstSession /\ freed = {} /\ clone = [p \in Path |-> "no"]
  /\ task = [t \in Task |-> NoTask]
  /\ reopened = FALSE /\ borrowed = {} /\ strayed = FALSE /\ moved = {}

LEMMA StartedInv ==
  ASSUME Started, exist \subseteq Path,
         recents \in Seq(Path), Len(recents) <= MaxRecent, Once(recents)
  PROVE  HandlesInv
<1>1. Linked(session) /\ Fit(session, {})
  <2>1. FirstSession.opened[1] = NoPath
    BY DEF FirstSession
  <2> QED BY <2>1, FirstType DEF Started, Linked, Fit, Sole, Shown, SoleHandle, Own, Untold
<1>2. Len(session.opened) <= MaxHandles
  BY FirstType, HandlesBoundAssumption DEF Started
<1>3. NoTask \in [for : Path \cup {NoPath}, using : Handle \cup {Null}]
  BY DEF NoTask
<1>4. HandlesTypeOK
  <2>1. session \in Session /\ {session.current, session.held} \subseteq DOMAIN session.opened \cup {Null}
    BY <1>1, <1>2, LinkedTyped
  <2>2. clone \in [Path -> {"no", "running", "cloned", "failed"}]
    BY DEF Started
  <2>3. task \in [Task -> [for : Path \cup {NoPath}, using : Handle \cup {Null}]]
    BY <1>3 DEF Started
  <2>4. Once(session.repos) /\ session.doomed \subseteq DOMAIN session.opened
        /\ freed \subseteq DOMAIN session.opened
    BY FirstType DEF Started
  <2> QED BY <1>2, <2>1, <2>2, <2>3, <2>4 DEF Started, HandlesTypeOK
<1>5. RecentFirst
  BY FirstType DEF Started, RecentFirst
<1>6. Fit(session, borrowed) /\ AtHome
  BY <1>1 DEF Started, AtHome
<1> QED BY <1>1, <1>4, <1>5, <1>6 DEF HandlesInv, Fit

LEMMA HandlesInitInv == HandlesInit => HandlesInv
<1> SUFFICES ASSUME HandlesInit PROVE HandlesInv
  OBVIOUS
<1>1. <<>> \in Seq(Path) /\ Len(<<>>) <= MaxRecent /\ Once(<<>>)
  <2>1. Len(<<>>) = 0 /\ <<>> \in Seq(Path) /\ DOMAIN <<>> = 1 .. 0 /\ 1 .. 0 = {}
    BY LenProperties, EmptySeq
  <2> QED BY <2>1, HandlesBoundAssumption DEF Once
<1> QED BY <1>1, StartedInv, PathAssumption DEF HandlesInit, Started

\* A handler of the user-interface thread leaves the session s.
LEMMA BecomesStep ==
  ASSUME HandlesInv, NEW s, NEW p, Becomes(s, p), Linked(s),
         (p = NoPath /\ s.selected = session.selected) \/ (p \in Path /\ s.selected = p),
         UNCHANGED <<freed, task>>, exist' = exist,
         clone' \in [Path -> {"no", "running", "cloned", "failed"}],
         reopened' \in BOOLEAN, borrowed' \subseteq Path,
         ~reopened' => /\ ~reopened /\ Sole(s, borrowed')
                       /\ strayed' \/ Shown(s, borrowed')
  PROVE  HandlesInv'
<1>0. p = NoPath <=> p \notin Path
  BY NoPathAssumption
<1>1. /\ session' = s /\ Len(s.opened) <= MaxHandles
      /\ s \in Session /\ {s.current, s.held} \subseteq DOMAIN s.opened \cup {Null}
  BY LinkedTyped DEF Becomes
<1>2. /\ recents' \in Seq(Path) /\ Len(recents') <= MaxRecent /\ Once(recents')
      /\ RecentFirst'
  <2>1. CASE p = NoPath
    BY <1>1, <2>1 DEF HandlesInv, HandlesTypeOK, RecentFirst, Becomes
  <2>2. CASE p \in Path
    <3>1. recents' = Recents(p) /\ session'.selected = p
      BY <1>0, <1>1, <2>2 DEF Becomes
    <3> HIDE DEF Recents
    <3> QED BY <2>2, <3>1, RecentsType DEF HandlesInv, RecentFirst
  <2> QED BY <2>1, <2>2
<1>3. moved' \subseteq Task /\ strayed' \in BOOLEAN
  BY DEF HandlesInv, HandlesTypeOK, Becomes
<1>4. HandlesTypeOK'
  BY <1>1, <1>2, <1>3 DEF HandlesInv, HandlesTypeOK, Linked
<1>5. Linked(session)'
  BY <1>1 DEF Linked
<1>6. ASSUME ~reopened'
      PROVE  /\ Sole(session, borrowed)' /\ AtHome'
             /\ strayed' \/ Shown(session, borrowed)'
  <2>1. Sole(session, borrowed)' /\ (strayed' \/ Shown(session, borrowed)')
    BY <1>1, <1>6 DEF Sole, Shown, SoleHandle, Own, Untold
  <2>2. AtHome
    BY <1>6 DEF HandlesInv
  <2>3. AtHome'
    BY <1>1, <2>2 DEF AtHome, Becomes
  <2> QED BY <2>1, <2>3
<1> QED BY <1>2, <1>4, <1>5, <1>6 DEF HandlesInv

LEMMA OpenStep ==
  ASSUME HandlesInv, NEW p \in Path, OpenRepository(p)
  PROVE  HandlesInv'
<1> DEFINE o == Opened(session, p)
           s == Created(o, p)
<1>1. Linked(session) /\ HandlesTypeOK
  BY DEF HandlesInv
<1>2. Linked(o) /\ o.current \notin freed
  BY <1>1, OpenedLinked
<1>3. /\ o.opened[o.current] = p /\ o.held = o.current /\ o.handleOf = session.handleOf
      /\ ListedPaths(o) = ListedPaths(session)
  BY <1>1, OpenedType DEF ListedPaths
<1>4. ASSUME ~reopened'
      PROVE  ~reopened /\ SoleHandle(o) /\ Own(o, borrowed)
  <2>1. SoleHandle(session) /\ Own(session, borrowed) /\ ~reopened
    BY <1>4 DEF HandlesInv, Sole, OpenRepository
  <2> QED BY <1>1, <2>1, OpenedAlone
<1>5. ASSUME ~reopened'
      PROVE  Fit(s, borrowed')
  <2>1. ~Again(p)
    BY <1>5 DEF OpenRepository
  <2>2. p \in ListedPaths(o) => o.handleOf[p] = Null /\ Own(o, borrowed')
    BY <1>3, <1>4, <1>5, <2>1 DEF Again, OpenRepository
  <2>3. p \notin ListedPaths(o) => Own(o, borrowed' \cup {p})
    BY <1>3, <1>4, <1>5 DEF OpenRepository, Own
  <2> HIDE DEF o
  <2> QED BY <1>2, <1>3, <1>4, <1>5, <2>2, <2>3, CreatedFit
<1>6. o.selected = session.selected /\ o.held # session.held
  <2>1. session.held \in DOMAIN session.opened \cup {Null}
    BY <1>1 DEF Linked
  <2> HIDE DEF o
  <2>2. /\ o.held = Len(session.opened) + 1 /\ o.selected = session.selected
        /\ DOMAIN session.opened = 1 .. (Len(session.opened) + 1) - 1
        /\ Len(session.opened) + 1 \in Nat \ {0}
    BY <1>1, OpenedType DEF o
  <2> QED BY <2>1, <2>2 DEF Null
<1> HIDE DEF o
<1>7. Linked(s) /\ s.selected = p
  BY <1>2, CreatedLinked
<1> HIDE DEF s
<1>8. /\ UNCHANGED <<freed, task, exist, clone>>
      /\ \/ Becomes(s, p)
         \/ Becomes(o, NoPath) /\ p \in ListedPaths(session)
  BY DEF OpenRepository, MustOpen, o, s
<1>9. reopened' \in BOOLEAN /\ borrowed' \subseteq Path
      /\ clone' \in [Path -> {"no", "running", "cloned", "failed"}]
  BY <1>1, <1>8 DEF OpenRepository, HandlesTypeOK
<1>10. CASE Becomes(s, p)
  <2>1. ~reopened' => ~reopened /\ Sole(s, borrowed') /\ Shown(s, borrowed')
    BY <1>4, <1>5 DEF Fit
  <2> QED BY <1>7, <1>8, <1>9, <1>10, <2>1, BecomesStep
<1>11. CASE Becomes(o, NoPath) /\ p \in ListedPaths(session)
  <2>1. strayed' = TRUE
    BY <1>6, <1>11 DEF Becomes
  <2>2. borrowed' = borrowed
    BY <1>11 DEF OpenRepository
  <2>3. ~reopened' => ~reopened /\ Sole(o, borrowed')
    BY <1>3, <1>4, <2>2 DEF Sole
  <2> QED BY <1>2, <1>6, <1>8, <1>9, <1>11, <2>1, <2>3, BecomesStep
<1> QED BY <1>8, <1>10, <1>11

LEMMA SelectStep ==
  ASSUME HandlesInv, NEW p \in Path, SelectRepository(p)
  PROVE  HandlesInv'
<1> DEFINE s == Selected(session, p)
<1>1. Linked(session) /\ HandlesTypeOK /\ session.current \notin freed /\ session.doomed = {}
  BY DEF HandlesInv, SelectRepository, UserMayAct, Sound
<1>2. Linked(s) /\ s.selected = p
  BY <1>1, SelectedLinked
<1>3. ASSUME ~reopened
      PROVE  Sole(s, borrowed) /\ Shown(s, borrowed)
  <2>1. /\ SoleHandle(session) /\ Own(session, borrowed)
        /\ session.held = session.current \/ Untold(session)
    BY <1>3 DEF HandlesInv, Sole
  <2>2. session.handleOf[p] \in {Null, session.current}
    BY <1>1, <2>1 DEF SoleHandle, Linked
  <2>3. Fit(s, borrowed)
    BY <1>1, <2>1, <2>2, SelectedFit
  <2> HIDE DEF s
  <2> QED BY <2>3 DEF Fit
<1> HIDE DEF s
<1>4. Becomes(s, p) /\ UNCHANGED <<freed, task, exist, clone, reopened, borrowed>>
  BY DEF SelectRepository, s
<1> QED BY <1>1, <1>2, <1>3, <1>4, BecomesStep DEF HandlesTypeOK

LEMMA CloseStep ==
  ASSUME HandlesInv, NEW p \in Path, CloseRepo(p)
  PROVE  HandlesInv'
<1> DEFINE w == WithoutRepo(session, p)
           first == Head(w.repos)
           s == Selected(w, first)
<1>1. Linked(session) /\ HandlesTypeOK /\ session.current \notin freed /\ session.doomed = {}
  BY DEF HandlesInv, CloseRepo, UserMayAct, Sound
<1>2. /\ Linked(w) /\ w.opened = session.opened /\ w.doomed = session.doomed
      /\ w.current = session.current /\ w.held = session.held /\ w.selected = session.selected
      /\ w.repos \in Seq(Path)
      /\ \A q \in Path : w.handleOf[q] = IF q = p THEN Null ELSE session.handleOf[q]
  BY <1>1, WithoutType
<1>4. UNCHANGED <<freed, task, exist, clone, reopened, borrowed>>
  BY DEF CloseRepo
<1>5. \/ Becomes(w, NoPath)
      \/ w.repos # <<>> /\ Becomes(s, first)
  BY DEF CloseRepo
<1> HIDE DEF w
<1>6. ASSUME ~reopened
      PROVE  /\ Sole(w, borrowed)
             /\ Shown(session, borrowed) => Shown(w, borrowed)
             /\ \A q \in Path : w.handleOf[q] \in {Null, w.current}
  <2>1. Sole(session, borrowed)
    BY <1>6 DEF HandlesInv
  <2>2. Sole(w, borrowed)
    BY <1>2, <2>1 DEF Sole, SoleHandle, Own, Untold
  <2>3. \A q \in Path : w.handleOf[q] \in {Null, w.current}
    BY <1>1, <1>2, <2>2 DEF Sole, SoleHandle, Linked
  <2>4. session.selected \in Path \cup {NoPath}
    BY <1>1 DEF Linked, Sessions
  <2>5. ASSUME Shown(session, borrowed)
        PROVE  Shown(w, borrowed)
    BY <1>2, <2>3, <2>4, <2>5 DEF Shown
  <2> QED BY <2>2, <2>3, <2>5
<1>0. reopened' \in BOOLEAN /\ borrowed' \subseteq Path
      /\ clone' \in [Path -> {"no", "running", "cloned", "failed"}]
  BY <1>1, <1>4 DEF HandlesTypeOK
<1>7. CASE Becomes(w, NoPath)
  <2>0. strayed' = strayed
    BY <1>1, <1>2, <1>7 DEF Becomes, HandlesTypeOK
  <2>1. ~reopened' => ~reopened /\ Sole(w, borrowed') /\ (strayed' \/ Shown(w, borrowed'))
    BY <1>4, <1>6, <2>0 DEF HandlesInv
  <2>2. /\ w.selected = session.selected /\ Linked(w)
        /\ UNCHANGED <<freed, task>> /\ exist' = exist
    BY <1>2, <1>4
  <2> HIDE DEF first, s
  <2> QED BY <1>0, <1>7, <2>1, <2>2, BecomesStep
<1>8. CASE w.repos # <<>> /\ Becomes(s, first)
  <2>1. first \in Path
    BY <1>2, <1>8, HeadTailProperties
  <2> HIDE DEF first
  <2>2. Linked(s) /\ s.selected = first
    BY <1>1, <1>2, <2>1, SelectedLinked
  <2>3. ~reopened => Sole(s, borrowed) /\ Shown(s, borrowed)
    <3>1. ASSUME ~reopened PROVE Fit(s, borrowed)
      BY <1>2, <1>6, <2>1, <3>1, SelectedFit DEF Sole
    <3> HIDE DEF s
    <3> QED BY <3>1 DEF Fit
  <2> HIDE DEF s
  <2> QED BY <1>0, <1>4, <1>8, <2>1, <2>2, <2>3, BecomesStep
<1> QED BY <1>5, <1>7, <1>8

LEMMA CloneStep ==
  ASSUME HandlesInv, NEW p \in Path, OnCloneFinished(p)
  PROVE  HandlesInv'
<1>1. /\ Linked(session) /\ HandlesTypeOK /\ session.current \notin freed
      /\ UNCHANGED <<freed, task, exist>>
      /\ clone' \in [Path -> {"no", "running", "cloned", "failed"}]
  BY DEF HandlesInv, OnCloneFinished, Sound, HandlesTypeOK
<1>2. CASE UNCHANGED <<session, recents, history>>
  <2>1. HandlesTypeOK'
    BY <1>1, <1>2 DEF HandlesTypeOK, history
  <2> QED BY <1>1, <1>2, <2>1 DEF HandlesInv, Linked, RecentFirst, Sole, Shown, SoleHandle, Own, Untold, AtHome, history
<1> DEFINE c == Created(session, p)
           o == Opened(c, p)
           s == Created(o, p)
<1>3. Linked(c) /\ c.selected = p /\ c.current \notin freed
  BY <1>1, CreatedLinked
<1>4. CASE /\ Becomes(c, p)
           /\ borrowed' = IF p \in ListedPaths(session) THEN borrowed ELSE borrowed \cup {p}
           /\ reopened' = (reopened \/ Again(p))
  <2>1. ASSUME ~reopened'
        PROVE  ~reopened /\ Sole(c, borrowed') /\ Shown(c, borrowed')
    <3>1. ~reopened /\ ~Again(p)
      BY <1>4, <2>1
    <3>2. /\ SoleHandle(session) /\ Own(session, borrowed)
          /\ session.held = session.current \/ Untold(session)
      BY <3>1 DEF HandlesInv, Sole
    <3>3. p \in ListedPaths(session) => session.handleOf[p] = Null /\ Own(session, borrowed')
      BY <1>4, <3>1, <3>2 DEF Again
    <3>4. p \notin ListedPaths(session) => Own(session, borrowed' \cup {p}) /\ p \in borrowed'
      BY <1>4, <3>2 DEF Own
    <3>5. Fit(c, borrowed')
      BY <1>1, <3>2, <3>3, <3>4, CreatedFit
    <3> HIDE DEF c
    <3> QED BY <3>1, <3>5 DEF Fit
  <2> HIDE DEF c
  <2>2. reopened' \in BOOLEAN /\ borrowed' \subseteq Path
    BY <1>1, <1>4 DEF HandlesTypeOK
  <2> QED BY <1>1, <1>3, <1>4, <2>1, <2>2, BecomesStep
<1>5. CASE Becomes(s, p) /\ borrowed' = borrowed \cup {p} /\ reopened' = TRUE
  <2> HIDE DEF c
  <2>1. Linked(o) /\ o.current \notin freed
    BY <1>3, OpenedLinked
  <2> HIDE DEF o
  <2>2. Linked(s) /\ s.selected = p
    BY <2>1, CreatedLinked
  <2> HIDE DEF s
  <2>3. reopened' = TRUE /\ borrowed' \subseteq Path
    BY <1>1, <1>5 DEF HandlesTypeOK
  <2> QED BY <1>1, <1>5, <2>2, <2>3, BecomesStep
<1> QED BY <1>2, <1>4, <1>5 DEF OnCloneFinished

\* A handle is destroyed, and no model keeps it.
LEMMA DestroyStep ==
  ASSUME HandlesInv, NEW h \in Handle, Destroy(h)
  PROVE  HandlesInv'
<1> DEFINE t == [session EXCEPT !.doomed = @ \ {h},
                   !.handleOf = [p \in Path |-> IF @[p] = h THEN Null ELSE @[p]]]
<1>1. Linked(session) /\ HandlesTypeOK /\ session \in Sessions /\ h \in session.doomed
      /\ session' = t /\ freed' = freed \cup {h}
      /\ borrowed' = {p \in borrowed : session.handleOf[p] # h}
      /\ UNCHANGED <<recents, clone, exist, task, reopened, strayed, moved>>
  BY DEF HandlesInv, Linked, Destroy
<1>2. /\ t \in Sessions /\ t.doomed = session.doomed \ {h} /\ t.opened = session.opened
      /\ t.current = session.current /\ t.held = session.held /\ t.repos = session.repos
      /\ t.selected = session.selected
      /\ \A p \in Path :
           t.handleOf[p] = IF session.handleOf[p] = h THEN Null ELSE session.handleOf[p]
  BY <1>1 DEF Sessions, Null
<1> HIDE DEF t
<1>3. h \in DOMAIN session.opened /\ h # Null
  BY <1>1 DEF Linked, Handle, Null
<1>4. Linked(session)'
  BY <1>1, <1>2, <1>3 DEF Linked
<1>5. Len(session'.opened) <= MaxHandles
  BY <1>1, <1>2 DEF HandlesTypeOK
<1>6. session' \in Session /\ {session'.current, session'.held} \subseteq DOMAIN session'.opened \cup {Null}
  <2>1. h \in Nat
    BY <1>1 DEF Sessions
  <2>2. /\ t \in Session
    BY <1>1, <1>2, <1>3 DEF HandlesTypeOK, Session, Sessions
  <2> QED BY <1>1, <1>2, <2>2 DEF HandlesTypeOK
<1>7. HandlesTypeOK'
  BY <1>1, <1>2, <1>3, <1>5, <1>6 DEF HandlesTypeOK
<1>8. RecentFirst'
  BY <1>1, <1>2 DEF HandlesInv, RecentFirst
<1>9. ASSUME ~reopened'
      PROVE  /\ Sole(session, borrowed)' /\ AtHome'
             /\ strayed' \/ Shown(session, borrowed)'
  <2>1. Sole(session, borrowed) /\ AtHome /\ (strayed \/ Shown(session, borrowed))
    BY <1>1, <1>9 DEF HandlesInv
  <2>2. SoleHandle(session)'
    BY <1>1, <1>2, <2>1 DEF Sole, SoleHandle
  <2>3. Own(session, borrowed)'
    BY <1>1, <1>2, <2>1 DEF Sole, Own
  <2>4. (session.held = session.current \/ Untold(session))'
    BY <1>1, <1>2, <2>1 DEF Sole, Untold
  <2>5. h # session.current
    BY <1>1, <2>1 DEF Sole, SoleHandle
  <2>6. ASSUME Shown(session, borrowed), session.selected # NoPath
        PROVE  /\ session'.handleOf[session.selected] \in {Null, session.current}
               /\ session.selected \notin borrowed' =>
                    session.opened[session.current] = session.selected
    <3>1. session.selected \in Path
      BY <1>1, <2>6 DEF Sessions
    <3>2. session.handleOf[session.selected] # h
      BY <1>3, <2>5, <2>6 DEF Shown
    <3>3. session.selected \notin borrowed' => session.selected \notin borrowed
      BY <1>1, <3>2
    <3>4. session'.handleOf[session.selected] = session.handleOf[session.selected]
      BY <1>1, <1>2, <3>1, <3>2
    <3> QED BY <2>6, <3>3, <3>4 DEF Shown
  <2>7. strayed' \/ Shown(session, borrowed)'
    BY <1>1, <1>2, <2>1, <2>6 DEF Shown
  <2>8. AtHome'
    BY <1>1, <1>2, <2>1 DEF AtHome
  <2> QED BY <2>2, <2>3, <2>4, <2>7, <2>8 DEF Sole
<1> QED BY <1>4, <1>7, <1>8, <1>9 DEF HandlesInv

\* A step of the tasks, or of the threads that clone.
LEMMA QuietStep ==
  ASSUME HandlesInv, UNCHANGED <<session, freed, recents, reopened, borrowed, strayed>>,
         clone' \in [Path -> {"no", "running", "cloned", "failed"}], exist' \subseteq Path,
         task' \in [Task -> [for : Path \cup {NoPath}, using : Handle \cup {Null}]],
         moved' \subseteq Task, ~reopened => AtHome'
  PROVE  HandlesInv'
<1>1. HandlesTypeOK'
  BY DEF HandlesInv, HandlesTypeOK
<1>2. Linked(session)' /\ RecentFirst'
  BY DEF HandlesInv, Linked, RecentFirst
<1>3. ~reopened => Sole(session, borrowed)' /\ (strayed' \/ Shown(session, borrowed)')
  BY DEF HandlesInv, Sole, Shown, SoleHandle, Own, Untold
<1> QED BY <1>1, <1>2, <1>3 DEF HandlesInv

LEMMA TaskStep ==
  ASSUME HandlesInv, NEW t \in Task, StartTask(t) \/ Call(t) \/ Return(t)
  PROVE  HandlesInv'
<1> DEFINE Kind == [for : Path \cup {NoPath}, using : Handle \cup {Null}]
<1>1. /\ HandlesTypeOK /\ UNCHANGED <<session, freed, recents, reopened, borrowed, strayed, clone, exist>>
      /\ task \in [Task -> Kind] /\ session.held \in Handle \cup {Null}
      /\ session.selected \in Path \cup {NoPath}
  BY DEF HandlesInv, HandlesTypeOK, Session, StartTask, Call, Return, history
<1>2. moved' \in {moved, moved \ {t}, moved \cup {t}} /\ moved' \subseteq Task
  BY <1>1 DEF HandlesTypeOK, StartTask, Call, Return, history
<1> DEFINE new == task'[t]
<1>3. /\ \E k \in Kind : task' = [task EXCEPT ![t] = k]
      /\ \/ /\ new = [for |-> session.selected, using |-> Null] /\ session.selected # NoPath
            /\ strayed => t \in moved'
         \/ /\ task[t] # NoTask /\ moved' = moved /\ new.for = task[t].for
            /\ new.using \in {Null, session.held}
         \/ new = NoTask
  <2>1. CASE StartTask(t)
    <3>1. [for |-> session.selected, using |-> Null] \in Kind
      BY <1>1
    <3> QED BY <1>1, <2>1, <3>1 DEF StartTask
  <2>2. CASE Call(t)
    <3>1. task[t] \in Kind
      BY <1>1
    <3>2. [task[t] EXCEPT !.using = session.held] \in Kind
      BY <1>1, <3>1
    <3>3. task' = [task EXCEPT ![t] = [task[t] EXCEPT !.using = session.held]]
      BY <2>2 DEF Call
    <3> QED BY <1>1, <2>2, <3>1, <3>2, <3>3 DEF Call, history
  <2>3. CASE Return(t)
    <3>1. task[t] \in Kind /\ NoTask \in Kind
      BY <1>1 DEF NoTask
    <3>2. [task[t] EXCEPT !.using = Null] \in Kind
      BY <3>1
    <3>3. task' = [task EXCEPT ![t] = [task[t] EXCEPT !.using = Null]] \/ task' = [task EXCEPT ![t] = NoTask]
      BY <2>3 DEF Return
    <3> QED BY <1>1, <2>3, <3>1, <3>2, <3>3 DEF Return, history
  <2> QED BY <2>1, <2>2, <2>3
<1>4. task' \in [Task -> Kind] /\ \A u \in Task : u # t => task'[u] = task[u]
  BY <1>1, <1>3
<1>5. ~reopened => AtHome'
  <2> SUFFICES ASSUME AtHome PROVE AtHome'
    BY DEF HandlesInv
  <2> SUFFICES ASSUME NEW u \in Task, task'[u] # NoTask, u \notin moved'
               PROVE  /\ ~strayed /\ session.selected # NoPath /\ task'[u].for = session.selected
                      /\ task'[u].using \in {Null, session.held}
    BY <1>1 DEF AtHome
  <2>1. CASE u # t
    BY <1>2, <1>4, <2>1 DEF AtHome
  <2>2. CASE u = t
    BY <1>3, <2>2 DEF AtHome
  <2> QED BY <2>1, <2>2
<1> QED BY <1>1, <1>2, <1>4, <1>5, QuietStep DEF HandlesTypeOK

LEMMA CloneThreadStep ==
  ASSUME HandlesInv, NEW p \in Path, CloneRepository(p) \/ CloneEnds(p)
  PROVE  HandlesInv'
<1>1. /\ HandlesTypeOK /\ UNCHANGED <<session, freed, recents, task, reopened, borrowed, strayed, moved>>
      /\ clone' \in [Path -> {"no", "running", "cloned", "failed"}] /\ exist' \subseteq Path
  BY DEF HandlesInv, HandlesTypeOK, CloneRepository, CloneEnds, history
<1>2. ~reopened => AtHome'
  BY <1>1 DEF HandlesInv, AtHome
<1> QED BY <1>1, <1>2, QuietStep DEF HandlesTypeOK

LEMMA RestartStep ==
  ASSUME HandlesInv, Restart
  PROVE  HandlesInv'
<1>1. (Started /\ exist \subseteq Path
        /\ recents \in Seq(Path) /\ Len(recents) <= MaxRecent /\ Once(recents) => HandlesInv)'
  BY StartedInv, PTL
<1>2. Started'
  BY DEF Restart, Started
<1>3. (exist \subseteq Path /\ recents \in Seq(Path) /\ Len(recents) <= MaxRecent /\ Once(recents))'
  BY DEF HandlesInv, HandlesTypeOK, Restart
<1> QED BY <1>1, <1>2, <1>3

LEMMA HandlesStepInv == HandlesInv /\ [HandlesNext]_handlesVars => HandlesInv'
<1> SUFFICES ASSUME HandlesInv, [HandlesNext]_handlesVars PROVE HandlesInv'
  OBVIOUS
<1>1. CASE UNCHANGED handlesVars
  <2>1. UNCHANGED <<session, freed, recents, clone, exist, task, reopened, borrowed, strayed, moved>>
    BY <1>1 DEF handlesVars, history
  <2>2. HandlesTypeOK'
    BY <2>1 DEF HandlesInv, HandlesTypeOK
  <2> QED BY <2>1, <2>2
        DEF HandlesInv, Linked, RecentFirst, Sole, Shown, SoleHandle, Own, Untold, AtHome
<1>2. CASE HandlesNext
  BY <1>2, OpenStep, SelectStep, CloseStep, CloneThreadStep, CloneStep, DestroyStep, TaskStep,
     RestartStep DEF HandlesNext
<1> QED BY <1>1, <1>2

LEMMA HandlesInductive == HandlesSpec => []HandlesInv
  BY HandlesInitInv, HandlesStepInv, PTL DEF HandlesSpec

-----------------------------------------------------------------------------
(* The properties of the runs. *)

\* One repository is open, the controllers work on the one that is shown, and
\* it heads the recent ones, however repositories are opened, cloned, selected
\* and closed and whenever disposed handles are freed (GitRepository.cpp:55-120,
\* RepositoryController.qml:75-243, UiSession.qml:30-44).
THEOREM HandlesSound == HandlesSpec => []HandlesAreSound
<1>1. HandlesInv => HandlesTypeOK /\ RecentFirst
  BY DEF HandlesInv
<1>2. HandlesInv => OneOpenHandle
  BY DEF HandlesInv, Sole, SoleHandle, Untold, OneOpenHandle, Alive
<1>3. ASSUME HandlesInv
      PROVE  ShownIsHeld
  <2> SUFFICES ASSUME session.selected # NoPath, ~reopened, ~strayed, session.selected \notin borrowed
               PROVE  session.held # Null /\ session.opened[session.held] = session.selected
    BY DEF ShownIsHeld
  <2>1. session.held = session.current /\ session.opened[session.current] = session.selected
    BY <1>3 DEF HandlesInv, Sole, Shown, Untold
  <2>2. DOMAIN session.opened = 1 .. Len(session.opened) /\ session.current \in DOMAIN session.opened
    BY <1>3, LenProperties DEF HandlesInv, Linked, Sessions
  <2>3. session.current # Null
    BY <2>2 DEF Null
  <2> QED BY <2>1, <2>3
<1>4. HandlesInv => HandlesAreSound
  BY <1>1, <1>2, <1>3 DEF HandlesAreSound
<1> QED BY <1>4, HandlesInductive, PTL

\* While the selection stays as it was when a fetch, pull or push was started,
\* each of its calls into libgit2 finds an open handle of the repository it was
\* asked for (GitRemote.cpp:686-838, IGitController.cpp:8-19).
THEOREM TasksHome == HandlesSpec => []TasksStayHome
<1>1. ASSUME HandlesInv
      PROVE  TasksStayHome
  <2> SUFFICES ASSUME NEW t \in Task, task[t].using # Null, t \notin moved, ~reopened,
                      task[t].for \notin borrowed
               PROVE  task[t].using \in Alive /\ session.opened[task[t].using] = task[t].for
    BY DEF TasksStayHome
  <2>1. task[t] # NoTask
    BY DEF NoTask
  <2>2. /\ Sole(session, borrowed) /\ AtHome
        /\ strayed \/ Shown(session, borrowed)
    BY <1>1 DEF HandlesInv
  <2>3. /\ ~strayed /\ session.selected # NoPath /\ task[t].for = session.selected
        /\ task[t].using = session.held
    BY <2>1, <2>2 DEF AtHome
  <2>4. session.held = session.current /\ session.opened[session.current] = session.selected
    BY <2>2, <2>3 DEF Sole, Shown, Untold
  <2>5. session.current \in Alive
    BY <2>2 DEF Sole, SoleHandle, Alive
  <2> QED BY <2>3, <2>4, <2>5
<1> QED BY <1>1, HandlesInductive, PTL

-----------------------------------------------------------------------------
(***************************************************************************)
(* Proofs about RepoForest. The calls that have begun are a stack, and a   *)
(* property of the moments between two events, when it is empty, is made   *)
(* inductive by saying what each frame on top of it owes: a call of        *)
(* processNextOperation or of finishFetchFlow is still to move the queue   *)
(* on, and nothing is under way while it is.                               *)
(***************************************************************************)

-----------------------------------------------------------------------------
(* The invariant. *)

\* A frame on top that still moves the queue on.
Going ==
  \/ Top("process") \/ Top("next") \/ Top("finish")
  \/ (Top("pull") \/ Top("told")) /\ Head(calls).left # <<>>

\* A fetch or pull of i from r is on its thread, or its end is not told yet.
Matches(f, o, i, r) == f.op = o /\ f.for = i /\ f.remote = r
Aloft(o, i, r) ==
  \/ \E k \in DOMAIN running : Matches(running[k], o, i, r)
  \/ \E k \in DOMAIN posted : Matches(posted[k].flight, o, i, r)

\* Its end will be recognised.
Moving ==
  \/ Aloft("fetch", flow.item, flow.current)
  \/ handlers # <<>> /\ \E i \in Item, r \in Remote : Aloft("pull", i, r)

Nothing == running = <<>> /\ posted = <<>>
Home == odd \cap {"several", "left"} = {}
Asked == odd \cap {"blank", "forgotten", "unasked"} = {}

\* Only calls of four kinds are waited in, and the last two hold no other.
Stacked ==
  /\ \A k \in 2..Len(calls) : calls[k].do \in {"enqueue", "pull", "told", "confirmed"}
  /\ \A k \in 1..Len(calls) : calls[k].do = "confirmed" => k = Len(calls)

\* The fetch of an item goes through its remotes, and op is not forgotten.
Flowing ==
  flow # NoFlow =>
    /\ flow.item \in Item /\ op # None /\ flow.next >= 1
    /\ flow.next = 1 => flow.current = None
    /\ flow.next > 1 => /\ flow.next - 1 \in 1..Len(RemotesOf[flow.item])
                        /\ flow.current = RemotesOf[flow.item][flow.next - 1]

\* A popup that shows no list has an empty queue and asks nothing.
Closed ==
  popup # "listed" =>
    /\ state = "Ready" /\ queue = <<>> /\ ~asked
    /\ calls # <<>> => Len(calls) = 1 /\ Top("told")

ReadyGoes == state = "Ready" /\ queue # <<>> => Top("process")

BusyGoes == state \in Busy /\ odd \cap {"left", "refused"} = {} => Moving \/ Going

\* What the top of the stack says of the one operation at a time.
TopRests ==
  /\ Going => Nothing
  /\ Top("process") => flow = NoFlow /\ handlers = <<>>
  /\ Top("next") \/ Top("finish") => flow # NoFlow /\ handlers = <<>> /\ state \in Busy
  /\ Top("pull") /\ Head(calls).left # <<>> =>
       /\ flow = NoFlow /\ handlers = <<>> /\ state \in Busy
       /\ current = Head(calls).for /\ Head(calls).left = RemotesOf[Head(calls).for]
  /\ Top("told") /\ Head(calls).left # <<>> =>
       flow = NoFlow /\ Head(calls).left = handlers

\* What is waited in was on its last remote, or its last closure.
RestRests ==
  /\ \A k \in 1..Len(calls) :
       calls[k].do \in {"pull", "told"} => Len(calls[k].left) <= 1
  /\ \A k \in 2..Len(calls) :
       calls[k].do \in {"pull", "told"} => calls[k].left = <<>>

\* The flight under way is the one of flow, or of the one closure.
Expected(f) ==
  /\ f.op = "fetch" => flow.item = f.for /\ flow.current = f.remote
  /\ f.op = "pull" => handlers = <<f.for>> /\ RemotesOf[f.for] = <<f.remote>>

Awaited ==
  /\ \A k \in DOMAIN running : running[k].home /\ Expected(running[k])
  /\ \A k \in DOMAIN posted : Expected(posted[k].flight)

AtRest ==
  state \in {"Ready", "Pause"} => Nothing /\ handlers = <<>> /\ flow = NoFlow

Single ==
  /\ Len(running) + Len(posted) <= 1 /\ Len(handlers) <= 1
  /\ flow # NoFlow => current = flow.item /\ handlers = <<>>

Alone == Home => TopRests /\ RestRests /\ Awaited /\ AtRest /\ Single

\* What was got so far.
GotSoFar ==
  flow # NoFlow =>
    \A k \in 1..flow.next - 2 : RemotesOf[flow.item][k] \in got[flow.item]
GotFlow ==
  /\ GotSoFar
  /\ Top("next") /\ flow.next > 1 => flow.current \in got[flow.item]
  /\ Top("finish") /\ Head(calls).with = "Done" =>
       Range(RemotesOf[flow.item]) \subseteq got[flow.item]
GotPosted ==
  \A k \in DOMAIN posted :
    posted[k].ok => posted[k].flight.remote \in got[posted[k].flight.for]
GotTold ==
  Top("told") /\ Head(calls).left # <<>> /\ Head(calls).ok =>
    Range(RemotesOf[Head(Head(calls).left)]) \subseteq got[Head(Head(calls).left)]
GotDone ==
  \A i \in Item : status[i] = "Done" => Range(RemotesOf[i]) \subseteq got[i]

Got == Home => GotFlow /\ GotPosted /\ GotTold /\ GotDone

\* Those that wait are remembered, and once they were answered for, are on
\* their way back into the queue.
Enqueued(i) ==
  \E j \in 1..Len(calls) : calls[j].do = "enqueue" /\ i \in Range(calls[j].items)
Answering == \E k \in 1..Len(calls) : calls[k].do = "confirmed"
Waits(i) == status[i] = "PAT waiting"

Remembered == waiting # <<>> => asked /\ op # None
Waiters ==
  Asked =>
    /\ \A i \in Item : Waits(i) => i \in Range(waiting)
    /\ Answering => pat = "given" /\ \A i \in Item : Waits(i) => Enqueued(i)
    /\ Top("finish") /\ Head(calls).with = "PAT waiting" =>
         flow.item \in Range(waiting) /\ ~Answering

Inner ==
  /\ Stacked /\ Flowing /\ Closed /\ ReadyGoes /\ BusyGoes
  /\ Alone /\ Got /\ Remembered /\ Waiters
IInv == TypeOK /\ Inner

-----------------------------------------------------------------------------
(* The stack. *)

LEMMA FrameParts ==
  ASSUME NEW f \in Frame
  PROVE  /\ f.do = "enqueue" =>
              /\ f.op \in Op /\ f.items \in Seq(Item)
              /\ f.items # <<>> => [f EXCEPT !.items = Tail(@)] \in Frame
         /\ f.do = "pull" =>
              /\ f.for \in Item /\ f.left \in Seq(Remote)
              /\ f.left # <<>> => [f EXCEPT !.left = Tail(@)] \in Frame
         /\ f.do = "told" =>
              /\ f.ok \in BOOLEAN /\ f.left \in Seq(Item)
              /\ f.left # <<>> => [f EXCEPT !.left = Tail(@)] \in Frame
         /\ f.do = "finish" => f.with \in Status
<1>1. CASE f \in [do : {"process", "next", "confirmed"}]
  BY <1>1
<1>2. CASE f \in [do : {"finish"}, with : Status]
  BY <1>2
<1>3. CASE f \in [do : {"enqueue"}, op : Op, items : Seq(Item)]
  BY <1>3 DEF Frame
<1>4. CASE f \in [do : {"pull"}, for : Item, left : Seq(Remote)]
  BY <1>4 DEF Frame
<1>5. CASE f \in [do : {"told"}, left : Seq(Item), ok : BOOLEAN]
  BY <1>5 DEF Frame
<1>6. QED  BY <1>1, <1>2, <1>3, <1>4, <1>5 DEF Frame

LEMMA Popped ==
  ASSUME calls \in Seq(Frame), calls # <<>>, Returns
  PROVE  /\ calls' \in Seq(Frame) /\ Len(calls') = Len(calls) - 1
         /\ \A k \in 1..Len(calls) - 1 : calls'[k] = calls[k + 1]
BY DEF Returns

LEMMA Replaced ==
  ASSUME NEW f \in Frame, calls \in Seq(Frame), calls # <<>>, ReturnsTo(f)
  PROVE  /\ calls' \in Seq(Frame) /\ Len(calls') = Len(calls)
         /\ Head(calls') = f /\ calls' # <<>> /\ calls'[1] = f
         /\ \A k \in 2..Len(calls) : calls'[k] = calls[k]
BY DEF ReturnsTo

LEMMA Pushed ==
  ASSUME NEW f \in Frame, NEW g \in Frame, calls \in Seq(Frame), calls # <<>>,
         Calls(f, g)
  PROVE  /\ calls' \in Seq(Frame) /\ Len(calls') = Len(calls) + 1
         /\ Head(calls') = f /\ calls' # <<>> /\ calls'[1] = f /\ calls'[2] = g
         /\ \A k \in 3..Len(calls) + 1 : calls'[k] = calls[k - 1]
BY DEF Calls

\* The frame on top.
LEMMA OnTop ==
  ASSUME calls \in Seq(Frame), calls # <<>>
  PROVE  Head(calls) \in Frame /\ Head(calls) = calls[1] /\ Len(calls) \in Nat \ {0}
OBVIOUS

-----------------------------------------------------------------------------
(* Types. *)

LEMMA Short ==
  ASSUME NEW S
  PROVE  <<>> \in Seq(S) /\ (\A x \in S : <<x>> \in Seq(S))
         /\ (\A x, y \in S : <<x, y>> \in Seq(S))
OBVIOUS

LEMMA Joined ==
  ASSUME NEW S, NEW x \in S, NEW y \in S
  PROVE  /\ <<>> \o <<x>> = <<x>>
         /\ <<x>> \o <<y>> \in Seq(S) /\ Len(<<x>> \o <<y>>) = 2
         /\ (<<x>> \o <<y>>)[1] = x /\ (<<x>> \o <<y>>)[2] = y
OBVIOUS

\* A flight taken out of, or turned in, a sequence of them.
LEMMA Without ==
  ASSUME NEW S, NEW s \in Seq(S), NEW k,
         NEW t, t = [j \in 1..Len(s) - 1 |-> s[IF j < k THEN j ELSE j + 1]]
  PROVE  t \in Seq(S)
<1>1. \A j \in 1..Len(s) - 1 : (IF j < k THEN j ELSE j + 1) \in 1..Len(s)
  OBVIOUS
<1>2. CASE s = <<>>
  <2>1. Len(s) = 0
    BY <1>2
  <2>2. 1..Len(s) - 1 = 1..0
    BY <2>1
  <2>3. t \in [1..0 -> S]
    BY <2>1, <2>2
  <2>4. QED  BY <2>3
<1>3. CASE s # <<>>
  <2>1. Len(s) - 1 \in Nat
    BY <1>3
  <2>2. t \in [1..Len(s) - 1 -> S]
    BY <1>1
  <2>3. QED  BY <2>1, <2>2
<1>4. QED  BY <1>2, <1>3

LEMMA TurnedType ==
  ASSUME NEW i, NEW s \in Seq(Flight)
  PROVE  /\ Repository(i, s) \in Seq(Flight) /\ DOMAIN Repository(i, s) = DOMAIN s
         /\ \A k \in DOMAIN s :
              /\ Repository(i, s)[k].op = s[k].op /\ Repository(i, s)[k].for = s[k].for
              /\ Repository(i, s)[k].remote = s[k].remote
<1> DEFINE Turned(f) == [f EXCEPT !.home = @ /\ f.for = i]
<1>1. ASSUME NEW f \in Flight
      PROVE  /\ Turned(f) \in Flight /\ Turned(f).op = f.op /\ Turned(f).for = f.for
             /\ Turned(f).remote = f.remote
  BY <1>1 DEF Flight
<1>2. Repository(i, s) = [k \in DOMAIN s |-> Turned(s[k])]
  BY DEF Repository
<1>3. \A k \in DOMAIN s : s[k] \in Flight
  OBVIOUS
<1> HIDE DEF Turned
<1>4. Repository(i, s) \in [1..Len(s) -> Flight]
  BY <1>1, <1>2, <1>3
<1>5. QED  BY <1>1, <1>2, <1>3, <1>4
\* The sets of TypeOK, by name.
Queues == Seq([op : Op, item : Item])
Flows == [item : Item \cup {None}, next : Nat, current : Remote \cup {None}]
Items == Seq(Item)
Flights == Seq(Flight)
Outcomes == Seq(Outcome)
Statuses == [Item -> Status \cup {None}]
Gots == [Item -> SUBSET Remote]
Stacks == Seq(Frame)

TypedWork == /\ queue \in Queues /\ state \in Busy \cup {"Ready", "Pause"} /\ flow \in Flows
             /\ op \in Op \cup {None} /\ status \in Statuses
TypedPassword == waiting \in Items /\ pat \in {"", "skip", "given"} /\ asked \in BOOLEAN
TypedThreads == /\ current \in Item \cup {None} /\ pulling \in BOOLEAN
                /\ running \in Flights /\ posted \in Outcomes /\ handlers \in Items
TypedWindow == /\ popup \in {"closed", "scanning", "listed"}
               /\ opens \in 0..MaxOpens /\ asks \in 0..MaxAsks
TypedRest == calls \in Stacks /\ got \in Gots /\ odd \subseteq Odd

LEMMA Typed ==
  TypeOK <=> /\ TypedWork /\ TypedPassword /\ TypedThreads /\ TypedWindow /\ TypedRest
BY DEF TypeOK, TypedWork, TypedPassword, TypedThreads, TypedWindow, TypedRest,
       Queues, Flows, Items, Flights, Outcomes, Statuses, Gots, Stacks

LEMMA TypedNext ==
  TypeOK' <=> /\ TypedWork' /\ TypedPassword' /\ TypedThreads' /\ TypedWindow'
              /\ TypedRest'
BY DEF TypeOK, TypedWork, TypedPassword, TypedThreads, TypedWindow, TypedRest,
       Queues, Flows, Items, Flights, Outcomes, Statuses, Gots, Stacks

LEMMA Untouched ==
  /\ TypedWork /\ UNCHANGED work => TypedWork'
  /\ TypedPassword /\ UNCHANGED password => TypedPassword'
  /\ TypedThreads /\ UNCHANGED threads => TypedThreads'
  /\ TypedWindow /\ UNCHANGED window => TypedWindow'
BY DEF TypedWork, TypedPassword, TypedThreads, TypedWindow, work, password, threads, window

LEMMA SeqFacts ==
  ASSUME NEW S
  PROVE  /\ <<>> \in Seq(S)
         /\ \A s \in Seq(S) : s # <<>> => Tail(s) \in Seq(S) /\ Head(s) \in S
         /\ \A s \in Seq(S), x \in S : Append(s, x) \in Seq(S)
OBVIOUS

LEMMA QueueFacts ==
  /\ <<>> \in Queues
  /\ \A q \in Queues : q # <<>> => Tail(q) \in Queues /\ Head(q) \in [op : Op, item : Item]
  /\ \A q \in Queues, o \in Op, i \in Item : Append(q, [op |-> o, item |-> i]) \in Queues
<1> DEFINE Entry == [op : Op, item : Item]
<1>1. \A o \in Op, i \in Item : [op |-> o, item |-> i] \in Entry
  OBVIOUS
<1>2. Queues = Seq(Entry)
  BY DEF Queues
<1> HIDE DEF Entry
<1>3. QED  BY <1>1, <1>2, SeqFacts DEF Entry

LEMMA ItemFacts ==
  /\ <<>> \in Items
  /\ \A s \in Items : s # <<>> => Tail(s) \in Items /\ Head(s) \in Item
  /\ \A s \in Items, i \in Item : Append(s, i) \in Items
BY DEF Items

LEMMA OutcomeFacts ==
  /\ \A s \in Outcomes : s # <<>> => Tail(s) \in Outcomes /\ Head(s) \in Outcome
  /\ \A s \in Outcomes, f \in Flight, ok \in BOOLEAN :
       Append(s, [flight |-> f, ok |-> ok]) \in Outcomes
<1>1. \A f \in Flight, ok \in BOOLEAN : [flight |-> f, ok |-> ok] \in Outcome
  BY DEF Outcome
<1>2. QED  BY <1>1, SeqFacts DEF Outcomes

LEMMA FlightFacts ==
  ASSUME NEW s \in Flights
  PROVE  /\ \A f \in Flight : Append(s, f) \in Flights
         /\ \A k \in 1..Len(s) : s[k] \in Flight
         /\ \A i : Repository(i, s) \in Flights
         /\ \A k : [j \in 1..Len(s) - 1 |-> s[IF j < k THEN j ELSE j + 1]] \in Flights
BY TurnedType, Without DEF Flights

LEMMA FlowFacts ==
  /\ NoFlow \in Flows
  /\ \A i \in Item : [NoFlow EXCEPT !.item = i] \in Flows
  /\ \A f \in Flows, r \in Remote : [f EXCEPT !.next = @ + 1, !.current = r] \in Flows
<1>1. NoFlow \in Flows /\ \A i \in Item : [NoFlow EXCEPT !.item = i] \in Flows
  BY DEF Flows, NoFlow
<1>2. ASSUME NEW f \in Flows, NEW r \in Remote
      PROVE  [f EXCEPT !.next = @ + 1, !.current = r] \in Flows
  <2>1. f.next \in Nat /\ f.item \in Item \cup {None}
    BY <1>2 DEF Flows
  <2>2. \A n \in Nat : [f EXCEPT !.next = n, !.current = r] \in Flows
    BY <1>2 DEF Flows
  <2>3. [f EXCEPT !.next = @ + 1, !.current = r] = [f EXCEPT !.next = f.next + 1, !.current = r]
    OBVIOUS
  <2>4. f.next + 1 \in Nat
    BY <2>1
  <2>5. QED  BY <2>2, <2>3, <2>4
<1>3. QED  BY <1>1, <1>2

LEMMA StatusFacts ==
  ASSUME NEW s \in Statuses
  PROVE  \A i : \A w \in Status : [s EXCEPT ![i] = w] \in Statuses
BY DEF Statuses

LEMMA GotFacts ==
  ASSUME NEW g \in Gots
  PROVE  /\ \A i : [g EXCEPT ![i] = {}] \in Gots
         /\ \A i \in Item, r \in Remote : [g EXCEPT ![i] = @ \cup {r}] \in Gots
BY DEF Gots

LEMMA TypeStep ==
  ASSUME TypeOK, Flowing, [Next]_vars
  PROVE  TypeOK'
<1>0. TypedWork /\ TypedPassword /\ TypedThreads /\ TypedWindow /\ TypedRest
  BY Typed
<1>1. CASE Enqueue
  <2>1. calls # <<>> /\ Head(calls) \in Frame /\ Head(calls).do = "enqueue"
    BY <1>1, <1>0, OnTop DEF Enqueue, Take, Top, Idle, TypedRest, Stacks
  <2> DEFINE f == Head(calls)
             after == [f EXCEPT !.items = Tail(@)]
  <2>2. f.items \in Items /\ f.op \in Op
    BY <2>1, FrameParts DEF Items
  <2>3. Process \in Frame /\ (f.items # <<>> => after \in Frame)
    BY <2>1, FrameParts DEF Frame, Process
  <2>4. \/ f.items = <<>> /\ Returns
        \/ f.items # <<>> /\ (Calls(Process, after) \/ ReturnsTo(after))
    BY <1>1 DEF Enqueue
  <2>5. calls' \in Stacks
    BY <1>0, <2>1, <2>3, <2>4, Popped, Replaced, Pushed DEF Stacks, TypedRest
  <2>6. TypedRest'
    BY <1>1, <1>0, <2>5 DEF Enqueue, TypedRest
  <2>7. CASE f.items = <<>>
    BY <1>1, <1>0, <2>6, <2>7, Untouched, TypedNext DEF Enqueue
  <2>8. CASE f.items # <<>>
    <3>1. Head(f.items) \in Item /\ "Pending" \in Status
      BY <2>2, <2>8, ItemFacts DEF Status
    <3>2. TypedWork'
      <4>1. queue' \in Queues
        <5>1. queue' = Append(queue, [op |-> f.op, item |-> Head(f.items)])
          BY <1>1, <2>8 DEF Enqueue
        <5> HIDE DEF f
        <5>2. QED  BY <1>0, <2>2, <3>1, <5>1, QueueFacts DEF TypedWork
      <4>2. status' \in Statuses
        BY <1>1, <1>0, <2>8, <3>1 DEF Enqueue, TypedWork, Statuses
      <4>3. QED  BY <1>1, <1>0, <2>8, <4>1, <4>2 DEF Enqueue, TypedWork
    <3>3. QED
      BY <1>1, <1>0, <2>6, <3>2, Untouched, TypedNext DEF Enqueue
  <2>9. QED  BY <2>7, <2>8
<1>2. CASE Rest
  <2>5. TypedWork'
    BY <1>2, <1>0 DEF Rest, TypedWork
  <2>6. TypedRest'
    BY <1>2, <1>0, Popped DEF Rest, Top, Idle, TypedRest, Stacks
  <2>7. QED
    BY <1>2, <1>0, <2>5, <2>6, Untouched, TypedNext DEF Rest
<1>3. CASE Halt
  <2>1. "Stoped" \in Status
    BY DEF Status
  <2>5. TypedWork'
    BY <1>3, <1>0, <2>1, QueueFacts, FlowFacts DEF Halt, TypedWork, Statuses
  <2>6. TypedPassword'
    BY <1>3, <1>0, ItemFacts DEF Halt, TypedPassword
  <2>7. TypedRest'
    BY <1>3, <1>0, Popped DEF Halt, Top, Idle, TypedRest, Stacks, Odd
  <2>8. QED
    BY <1>3, <1>0, <2>5, <2>6, <2>7, Untouched, TypedNext DEF Halt
<1>4. ASSUME NEW o \in Op, NEW i \in Item, NothingToDo(o, i) PROVE TypeOK'
  <2>1. "Canceled" \in Status /\ "Done" \in Status
    BY DEF Status
  <2>5. TypedWork'
    BY <1>4, <1>0, <2>1, QueueFacts, StatusFacts DEF NothingToDo, Take, TypedWork, Busy
  <2>6. TypedThreads'
    BY <1>4, <1>0, FlightFacts DEF NothingToDo, TypedThreads
  <2>7. TypedRest'
    BY <1>4, <1>0, GotFacts DEF NothingToDo, Take, TypedRest
  <2>8. QED
    BY <1>4, <1>0, <2>5, <2>6, <2>7, Untouched, TypedNext DEF NothingToDo
<1>5. ASSUME NEW i \in Item, ExecuteFetch(i) PROVE TypeOK'
  <2>1. "Fetching" \in Status
    BY DEF Status
  <2>2. [do |-> "next"] \in Frame
    BY DEF Frame
  <2>3. calls' \in Stacks
    BY <1>5, <1>0, <2>2, Replaced DEF ExecuteFetch, Take, Top, Idle, TypedRest, Stacks
  <2>5. TypedWork'
    <3>1. status' \in Statuses
      BY <1>5, <1>0, <2>1, StatusFacts DEF ExecuteFetch, TypedWork
    <3>2. queue' \in Queues /\ flow' \in Flows
      BY <1>5, <1>0, QueueFacts, FlowFacts DEF ExecuteFetch, Take, TypedWork
    <3>3. QED  BY <1>5, <1>0, <3>1, <3>2 DEF ExecuteFetch, Take, TypedWork, Busy, Op
  <2>6. TypedThreads'
    BY <1>5, <1>0, FlightFacts DEF ExecuteFetch, TypedThreads
  <2>7. TypedRest'
    BY <1>5, <1>0, <2>3, GotFacts DEF ExecuteFetch, Take, TypedRest, Odd
  <2>8. QED
    BY <1>5, <1>0, <2>5, <2>6, <2>7, Untouched, TypedNext DEF ExecuteFetch
<1>6. ASSUME NEW i \in Item, ExecutePull(i) PROVE TypeOK'
  <2>1. "Pulling" \in Status
    BY DEF Status
  <2>2. [do |-> "pull", for |-> i, left |-> RemotesOf[i]] \in Frame
    BY RemotesAssumption DEF Frame
  <2>3. calls' \in Stacks
    BY <1>6, <1>0, <2>2, Replaced DEF ExecutePull, Take, Top, Idle, TypedRest, Stacks
  <2>5. TypedWork'
    <3>1. status' \in Statuses
      BY <1>6, <1>0, <2>1, StatusFacts DEF ExecutePull, TypedWork
    <3>2. queue' \in Queues /\ flow' \in Flows
      BY <1>6, <1>0, QueueFacts, FlowFacts DEF ExecutePull, Take, TypedWork
    <3>3. QED  BY <1>6, <1>0, <3>1, <3>2 DEF ExecutePull, Take, TypedWork, Busy, Op
  <2>6. TypedThreads'
    BY <1>6, <1>0, FlightFacts DEF ExecutePull, TypedThreads
  <2>7. TypedRest'
    BY <1>6, <1>0, <2>3, GotFacts DEF ExecutePull, Take, TypedRest, Odd
  <2>8. QED
    BY <1>6, <1>0, <2>5, <2>6, <2>7, Untouched, TypedNext DEF ExecutePull
<1>7. CASE FetchIsDone
  <2>1. Finish("Done") \in Frame
    BY DEF Frame, Finish, Status
  <2>5. TypedRest'
    BY <1>7, <1>0, <2>1, Replaced DEF FetchIsDone, Top, Idle, TypedRest, Stacks
  <2>6. QED
    BY <1>7, <1>0, <2>5, Untouched, TypedNext DEF FetchIsDone
<1>8. ASSUME NEW r \in Remote, FetchNext(r) PROVE TypeOK'
  <2>1. /\ Finish("Canceled") \in Frame /\ Finish("PAT waiting") \in Frame
        /\ Finish("Skipped") \in Frame
    BY DEF Frame, Finish, Status
  <2>2. calls' \in Stacks
    <3>1. \/ ReturnsTo(Finish("Canceled")) \/ ReturnsTo(Finish("PAT waiting"))
          \/ ReturnsTo(Finish("Skipped")) \/ Returns
      BY <1>8 DEF FetchNext
    <3>2. calls # <<>>
      BY <1>8 DEF FetchNext, Top, Idle
    <3>3. QED  BY <1>0, <2>1, <3>1, <3>2, Replaced, Popped DEF TypedRest, Stacks
  <2>3. flow.item \in Item
    BY <1>8 DEF FetchNext, Flowing
  <2>4. Flies("fetch", flow.item, r) => running' \in Flights
    <3> DEFINE e == [op |-> "fetch", for |-> flow.item, remote |-> r, home |-> current = flow.item]
    <3>1. e \in Flight
      BY <1>8, <2>3 DEF Flight, Op
    <3>2. Flies("fetch", flow.item, r) => running' = Append(running, e)
      BY DEF Flies
    <3> HIDE DEF e
    <3>3. QED  BY <1>0, <3>1, <3>2, FlightFacts DEF TypedThreads
  <2>5. TypedWork'
    BY <1>8, <1>0, FlowFacts DEF FetchNext, TypedWork
  <2>6. TypedPassword'
    BY <1>8, <1>0, <2>3, ItemFacts DEF FetchNext, TypedPassword, password
  <2>7. TypedThreads'
    BY <1>8, <1>0, <2>4 DEF FetchNext, TypedThreads, password
  <2>8. TypedRest'
    BY <1>8, <1>0, <2>2 DEF FetchNext, TypedRest, Odd, password
  <2>9. QED
    BY <1>8, <1>0, <2>5, <2>6, <2>7, <2>8, Untouched, TypedNext DEF FetchNext
<1>9. CASE FinishFetchFlow
  <2>1. calls # <<>> /\ Head(calls) \in Frame /\ Head(calls).do = "finish"
    BY <1>9, <1>0, OnTop DEF FinishFetchFlow, Take, Top, Idle, TypedRest, Stacks
  <2>2. Head(calls).with \in Status
    BY <2>1, FrameParts
  <2>3. Process \in Frame
    BY DEF Frame, Process
  <2>5. TypedWork'
    BY <1>9, <1>0, <2>2, FlowFacts, StatusFacts DEF FinishFetchFlow, TypedWork
  <2>6. TypedRest'
    BY <1>9, <1>0, <2>1, <2>3, Replaced DEF FinishFetchFlow, TypedRest, Stacks
  <2>7. QED
    BY <1>9, <1>0, <2>5, <2>6, Untouched, TypedNext DEF FinishFetchFlow
<1>10. ASSUME NEW i \in Item, NEW r \in Remote, PullNext(i, r) PROVE TypeOK'
  <2>1. calls # <<>> /\ Head(calls) \in Frame /\ Head(calls).do = "pull"
    BY <1>10, <1>0, OnTop DEF PullNext, Take, Top, Idle, TypedRest, Stacks
  <2> DEFINE after == [Head(calls) EXCEPT !.left = Tail(@)]
  <2>2. Process \in Frame /\ after \in Frame
    BY <1>10, <2>1, FrameParts DEF Frame, Process, PullNext
  <2>3. calls' \in Stacks
    <3>1. ReturnsTo(after) \/ Calls(Process, after)
      BY <1>10 DEF PullNext
    <3>2. QED  BY <1>0, <2>1, <2>2, <3>1, Replaced, Pushed DEF TypedRest, Stacks
  <2>4. Flies("pull", i, r) => running' \in Flights
    <3> DEFINE e == [op |-> "pull", for |-> i, remote |-> r, home |-> current = i]
    <3>1. e \in Flight
      BY <1>10 DEF Flight, Op
    <3>2. Flies("pull", i, r) => running' = Append(running, e)
      BY DEF Flies
    <3> HIDE DEF e
    <3>3. QED  BY <1>0, <3>1, <3>2, FlightFacts DEF TypedThreads
  <2>5. "Canceled" \in Status /\ "PAT waiting" \in Status
    BY DEF Status
  <2>6. TypedWork'
    <3>1. \/ UNCHANGED status \/ status' = [status EXCEPT ![i] = "Canceled"]
          \/ status' = [status EXCEPT ![i] = "PAT waiting"]
      BY <1>10 DEF PullNext
    <3>2. status' \in Statuses
      BY <1>0, <2>5, <3>1 DEF TypedWork, Statuses
    <3>3. QED  BY <1>10, <1>0, <3>2 DEF PullNext, TypedWork
  <2>7. TypedThreads'
    BY <1>10, <1>0, <2>4, ItemFacts DEF PullNext, TypedThreads
  <2>8. TypedRest'
    BY <1>10, <1>0, <2>3 DEF PullNext, TypedRest, Odd
  <2>9. QED
    BY <1>10, <1>0, <2>6, <2>7, <2>8, Untouched, TypedNext DEF PullNext
<1>11. CASE PullsStarted
  <2>5. TypedRest'
    BY <1>11, <1>0, Popped DEF PullsStarted, Top, Idle, TypedRest, Stacks
  <2>6. QED
    BY <1>11, <1>0, <2>5, Untouched, TypedNext DEF PullsStarted
<1>12. ASSUME NEW k \in 1..Len(running), NEW ok \in BOOLEAN, End(k, ok) PROVE TypeOK'
  <2>1. running[k] \in Flight
    BY <1>12, <1>0, FlightFacts DEF TypedThreads
  <2>2. running[k].for \in Item /\ running[k].remote \in Remote
    BY <2>1 DEF Flight
  <2>5. TypedThreads'
    BY <1>12, <1>0, <2>1, FlightFacts, OutcomeFacts DEF End, TypedThreads
  <2>6. TypedRest'
    BY <1>12, <1>0, <2>2, GotFacts DEF End, TypedRest
  <2>7. QED
    BY <1>12, <1>0, <2>5, <2>6, Untouched, TypedNext DEF End
<1>13. CASE OnFetchFinished
  <2>1. calls' \in Stacks
    <3>1. [do |-> "next"] \in Frame /\ Finish("Canceled") \in Frame
      BY DEF Frame, Finish, Status
    <3>2. calls' = <<>> \/ calls' = <<[do |-> "next"]>> \/ calls' = <<Finish("Canceled")>>
      BY <1>13 DEF OnFetchFinished
    <3>3. QED  BY <3>1, <3>2, Short DEF Stacks
  <2>5. TypedThreads'
    BY <1>13, <1>0, OutcomeFacts DEF OnFetchFinished, TypedThreads
  <2>6. TypedRest'
    BY <1>13, <1>0, <2>1 DEF OnFetchFinished, TypedRest
  <2>7. QED
    BY <1>13, <1>0, <2>5, <2>6, Untouched, TypedNext DEF OnFetchFinished
<1>14. CASE PullFinished
  <2>1. Head(posted) \in Outcome
    BY <1>14, <1>0, OutcomeFacts DEF PullFinished, TypedThreads
  <2>2. [do |-> "told", left |-> handlers, ok |-> Head(posted).ok] \in Frame
    BY <1>0, <2>1 DEF Frame, Outcome, TypedThreads, Items
  <2>3. calls' \in Stacks
    BY <1>14, <2>2, Short DEF PullFinished, Stacks
  <2>5. TypedThreads'
    BY <1>14, <1>0, OutcomeFacts DEF PullFinished, TypedThreads
  <2>6. TypedRest'
    BY <1>14, <1>0, <2>3 DEF PullFinished, TypedRest
  <2>7. QED
    BY <1>14, <1>0, <2>5, <2>6, Untouched, TypedNext DEF PullFinished
<1>15. CASE OnPullFinished
  <2>1. calls # <<>> /\ Head(calls) \in Frame /\ Head(calls).do = "told"
    BY <1>15, <1>0, OnTop DEF OnPullFinished, Take, Top, Idle, TypedRest, Stacks
  <2> DEFINE f == Head(calls)
             after == [f EXCEPT !.left = Tail(@)]
             k == CHOOSE j \in DOMAIN handlers : handlers[j] = Head(f.left)
             cut == [j \in 1..Len(handlers) - 1 |-> handlers[IF j < k THEN j ELSE j + 1]]
  <2>2. cut \in Items
    <3> HIDE DEF k
    <3>1. QED  BY <1>0, Without DEF TypedThreads, Items
  <2>3. Process \in Frame /\ (f.left # <<>> => after \in Frame)
    BY <2>1, FrameParts DEF Frame, Process
  <2>4. \/ Returns /\ UNCHANGED <<status, handlers>>
        \/ f.left # <<>> /\ ReturnsTo(after) /\ UNCHANGED <<status, handlers>>
        \/ /\ f.left # <<>> /\ Calls(Process, after) /\ handlers' = cut
           /\ status' = [status EXCEPT ![Head(f.left)] = IF f.ok THEN "Done" ELSE "Canceled"]
    BY <1>15 DEF OnPullFinished
  <2> HIDE DEF after, cut
  <2>5. calls' \in Stacks
    BY <1>0, <2>1, <2>3, <2>4, Popped, Replaced, Pushed DEF Stacks, TypedRest
  <2>6. TypedRest'
    BY <1>15, <1>0, <2>5 DEF OnPullFinished, TypedRest
  <2>7. TypedThreads'
    BY <1>15, <1>0, <2>2, <2>4 DEF OnPullFinished, TypedThreads
  <2>8. "Done" \in Status /\ "Canceled" \in Status
    BY DEF Status
  <2>9. status' \in Statuses
    BY <1>0, <2>4, <2>8 DEF TypedWork, Statuses
  <2>10. TypedWork'
    BY <1>15, <1>0, <2>9 DEF OnPullFinished, TypedWork
  <2>11. QED
    BY <1>15, <1>0, <2>6, <2>7, <2>10, Untouched, TypedNext DEF OnPullFinished
<1>16. ASSUME NEW o \in Op, NEW items \in Selection, Ask(o, items) PROVE TypeOK'
  <2>1. calls' \in Stacks
    <3>1. [do |-> "enqueue", op |-> o, items |-> items] \in Frame
      BY <1>16, RemotesAssumption DEF Frame
    <3>2. QED  BY <1>16, <3>1, Short DEF Ask, Stacks
  <2>5. TypedWindow'
    BY <1>16, <1>0, BoundAssumption DEF Ask, TypedWindow
  <2>6. TypedRest'
    BY <1>16, <1>0, <2>1 DEF Ask, TypedRest
  <2>7. QED
    BY <1>16, <1>0, <2>5, <2>6, Untouched, TypedNext DEF Ask
<1>17. CASE PauseQueue
  <2>5. TypedWork'
    BY <1>17, <1>0 DEF PauseQueue, TypedWork, Busy
  <2>6. TypedRest'
    BY <1>17, <1>0 DEF PauseQueue, TypedRest
  <2>7. QED
    BY <1>17, <1>0, <2>5, <2>6, Untouched, TypedNext DEF PauseQueue
<1>18. CASE ResumeQueue
  <2>1. calls' \in Stacks
    <3>1. Process \in Frame
      BY DEF Frame, Process
    <3>2. QED  BY <1>18, <3>1, Short DEF ResumeQueue, Stacks
  <2>5. TypedWork'
    BY <1>18, <1>0 DEF ResumeQueue, TypedWork, Busy
  <2>6. TypedRest'
    BY <1>18, <1>0, <2>1 DEF ResumeQueue, TypedRest
  <2>7. QED
    BY <1>18, <1>0, <2>5, <2>6, Untouched, TypedNext DEF ResumeQueue
<1>19. CASE StopQueue
  <2>1. calls' \in Stacks
    <3>1. Process \in Frame
      BY DEF Frame, Process
    <3>2. QED  BY <1>19, <3>1, Short DEF StopQueue, Stacks
  <2>5. TypedWork'
    BY <1>19, <1>0 DEF StopQueue, TypedWork, Busy
  <2>6. TypedRest'
    BY <1>19, <1>0, <2>1 DEF StopQueue, TypedRest
  <2>7. QED
    BY <1>19, <1>0, <2>5, <2>6, Untouched, TypedNext DEF StopQueue
<1>20. ASSUME NEW p \in {"", "given"}, Confirm(p) PROVE TypeOK'
  <2>1. calls' \in Stacks
    <3> DEFINE confirmed == [do |-> "confirmed"]
               enqueue == [do |-> "enqueue", op |-> op, items |-> waiting]
    <3>1. confirmed \in Frame /\ (op # None => enqueue \in Frame)
      BY <1>0 DEF Frame, TypedWork, TypedPassword, Items
    <3>2. op = None => calls' = <<>> \o <<confirmed>>
      BY <1>20 DEF Confirm
    <3>3. op # None => calls' = <<enqueue>> \o <<confirmed>>
      BY <1>20 DEF Confirm
    <3> HIDE DEF confirmed, enqueue
    <3>4. QED  BY <3>1, <3>2, <3>3, Joined, Short DEF Stacks
  <2>5. TypedPassword'
    BY <1>20, <1>0 DEF Confirm, TypedPassword
  <2>6. TypedRest'
    BY <1>20, <1>0, <2>1 DEF Confirm, TypedRest, Odd
  <2>7. QED
    BY <1>20, <1>0, <2>5, <2>6, Untouched, TypedNext DEF Confirm
<1>21. CASE Confirmed
  <2>5. TypedPassword'
    BY <1>21, <1>0, ItemFacts DEF Confirmed, TypedPassword
  <2>6. TypedRest'
    BY <1>21, <1>0, Popped DEF Confirmed, Top, Idle, TypedRest, Stacks
  <2>7. QED
    BY <1>21, <1>0, <2>5, <2>6, Untouched, TypedNext DEF Confirmed
<1>22. CASE Reject
  <2>1. "Skipped" \in Status
    BY DEF Status
  <2>5. TypedPassword'
    BY <1>22, <1>0, ItemFacts DEF Reject, TypedPassword
  <2>6. TypedWork'
    BY <1>22, <1>0, <2>1 DEF Reject, TypedWork, Statuses
  <2>7. TypedRest'
    BY <1>22, <1>0 DEF Reject, TypedRest
  <2>8. QED
    BY <1>22, <1>0, <2>5, <2>6, <2>7, Untouched, TypedNext DEF Reject
<1>23. ASSUME NEW p \in {"skip", "given"}, AskedElsewhere(p) PROVE TypeOK'
  <2>5. TypedPassword'
    BY <1>23, <1>0 DEF AskedElsewhere, TypedPassword
  <2>6. TypedRest'
    BY <1>23, <1>0 DEF AskedElsewhere, TypedRest, Odd
  <2>7. QED
    BY <1>23, <1>0, <2>5, <2>6, Untouched, TypedNext DEF AskedElsewhere
<1>24. CASE OpenPopup
  <2>5. TypedWindow'
    BY <1>24, <1>0, BoundAssumption DEF OpenPopup, TypedWindow
  <2>6. TypedRest'
    BY <1>24, <1>0 DEF OpenPopup, TypedRest
  <2>7. QED
    BY <1>24, <1>0, <2>5, <2>6, Untouched, TypedNext DEF OpenPopup
<1>25. CASE OnScanFinished
  <2>1. "Pending" \in Status
    BY DEF Status
  <2>5. TypedWork'
    BY <1>25, <1>0, <2>1 DEF OnScanFinished, TypedWork, Statuses
  <2>6. TypedThreads'
    BY <1>25, <1>0, FlightFacts DEF OnScanFinished, TypedThreads
  <2>7. TypedWindow'
    BY <1>25, <1>0 DEF OnScanFinished, TypedWindow
  <2>8. TypedRest'
    BY <1>25, <1>0 DEF OnScanFinished, TypedRest
  <2>9. QED
    BY <1>25, <1>0, <2>5, <2>6, <2>7, <2>8, Untouched, TypedNext DEF OnScanFinished
<1>26. CASE ClosePopup
  <2>5. TypedWork'
    BY <1>26, <1>0, QueueFacts DEF ClosePopup, TypedWork, Statuses, Blank
  <2>6. TypedPassword'
    BY <1>26, <1>0 DEF ClosePopup, TypedPassword
  <2>7. TypedWindow'
    BY <1>26, <1>0 DEF ClosePopup, TypedWindow
  <2>8. TypedRest'
    BY <1>26, <1>0 DEF ClosePopup, TypedRest, Odd, Gots
  <2>9. QED
    BY <1>26, <1>0, <2>5, <2>6, <2>7, <2>8, Untouched, TypedNext DEF ClosePopup
<1>27. CASE UNCHANGED vars
  BY <1>27, <1>0, Untouched, TypedNext DEF vars, TypedRest
<1>28. QED
  BY <1>1, <1>2, <1>3, <1>4, <1>5, <1>6, <1>7, <1>8, <1>9, <1>10, <1>11, <1>12, <1>13,
     <1>14, <1>15, <1>16, <1>17, <1>18, <1>19, <1>20, <1>21, <1>22, <1>23, <1>24,
     <1>25, <1>26, <1>27
  DEF Next, Step, Tell, User, Threads

-----------------------------------------------------------------------------
(* The stack, and what is on top of it after a step. *)

Waited == {"enqueue", "pull", "told", "confirmed"}

\* A call returns: the one that waited for it is on top.
LEMMA TopPop ==
  ASSUME TypeOK, Stacked, calls # <<>>, Returns
  PROVE  /\ calls' # <<>> =>
              Len(calls) > 1 /\ Head(calls') = calls[2] /\ Head(calls').do \in Waited
         /\ ~Top("process")' /\ ~Top("next")' /\ ~Top("finish")'
         /\ Len(calls') = Len(calls) - 1
         /\ \A k \in 1..Len(calls') : calls'[k] = calls[k + 1] /\ k + 1 \in 2..Len(calls)
<1>1. calls \in Seq(Frame)
  BY DEF TypeOK
<1>2. calls' = Tail(calls)
  BY DEF Returns
<1>3. calls' # <<>> => Len(calls) > 1 /\ Head(calls') = calls[2]
  BY <1>1, <1>2
<1>4. Len(calls) > 1 => calls[2].do \in Waited
  BY <1>1 DEF Stacked, Waited
<1>5. calls' # <<>> => Head(calls').do \in Waited
  BY <1>3, <1>4
<1>6. Len(calls') = Len(calls) - 1
      /\ \A k \in 1..Len(calls') : calls'[k] = calls[k + 1] /\ k + 1 \in 2..Len(calls)
  BY <1>1, Popped
<1>7. QED  BY <1>3, <1>5, <1>6 DEF Top, Idle, Waited

\* A call goes on in another, or in the same frame.
LEMMA TopReplace ==
  ASSUME TypeOK, calls # <<>>, NEW f \in Frame, ReturnsTo(f)
  PROVE  /\ calls' # <<>> /\ Head(calls') = f /\ calls'[1] = f
         /\ Len(calls') = Len(calls) /\ Len(calls) \in Nat \ {0}
         /\ \A k \in 2..Len(calls') : calls'[k] = calls[k] /\ k \in 2..Len(calls)
         /\ \A k \in 1..Len(calls') : k = 1 \/ k \in 2..Len(calls')
<1>1. calls \in Seq(Frame)
  BY DEF TypeOK
<1>2. Len(calls) \in Nat \ {0}
  BY <1>1, OnTop
<1>3. /\ Len(calls') = Len(calls) /\ Head(calls') = f /\ calls' # <<>> /\ calls'[1] = f
      /\ \A k \in 2..Len(calls) : calls'[k] = calls[k]
  BY <1>1, Replaced
<1>4. QED  BY <1>2, <1>3

\* A call waits for another.
LEMMA TopPush ==
  ASSUME TypeOK, calls # <<>>, NEW f \in Frame, NEW g \in Frame, Calls(f, g)
  PROVE  /\ calls' # <<>> /\ Head(calls') = f /\ calls'[1] = f /\ calls'[2] = g
         /\ Len(calls') = Len(calls) + 1 /\ Len(calls) \in Nat \ {0}
         /\ \A k \in 3..Len(calls') : calls'[k] = calls[k - 1] /\ k - 1 \in 2..Len(calls)
         /\ \A k \in 1..Len(calls') : k = 1 \/ k = 2 \/ k \in 3..Len(calls')
<1>1. calls \in Seq(Frame)
  BY DEF TypeOK
<1>2. Len(calls) \in Nat \ {0}
  BY <1>1, OnTop
<1>3. /\ Len(calls') = Len(calls) + 1 /\ Head(calls') = f /\ calls' # <<>>
      /\ calls'[1] = f /\ calls'[2] = g
      /\ \A k \in 3..Len(calls) + 1 : calls'[k] = calls[k - 1]
  BY <1>1, Pushed
<1>4. QED  BY <1>2, <1>3

LEMMA TopNew ==
  ASSUME NEW f, calls' = <<f>>
  PROVE  /\ calls' # <<>> /\ Head(calls') = f /\ calls'[1] = f /\ Len(calls') = 1
         /\ \A k \in 1..Len(calls') : k = 1
OBVIOUS

\* What is on top.
LEMMA TopOf ==
  ASSUME TypeOK, NEW d, Top(d)
  PROVE  /\ calls # <<>> /\ Head(calls) \in Frame /\ Head(calls).do = d
         /\ Head(calls) = calls[1] /\ Len(calls) \in Nat \ {0}
BY OnTop DEF TypeOK, Top, Idle

LEMMA NewFrames ==
  /\ Process \in Frame /\ Process.do = "process" /\ [do |-> "next"] \in Frame
  /\ [do |-> "confirmed"] \in Frame
  /\ \A s \in Status : Finish(s) \in Frame /\ Finish(s).do = "finish" /\ Finish(s).with = s
  /\ \A o \in Op, s \in Seq(Item) : [do |-> "enqueue", op |-> o, items |-> s] \in Frame
  /\ \A i \in Item, s \in Seq(Remote) : [do |-> "pull", for |-> i, left |-> s] \in Frame
  /\ \A s \in Seq(Item), b \in BOOLEAN : [do |-> "told", left |-> s, ok |-> b] \in Frame
  /\ {"Canceled", "Done", "PAT waiting", "Skipped"} \subseteq Status
BY DEF Process, Finish, Frame, Status

\* What is left of a frame that was waited in.
LEMMA After ==
  ASSUME NEW f \in Frame
  PROVE  /\ f.do = "enqueue" /\ f.items # <<>> =>
              /\ [f EXCEPT !.items = Tail(@)] \in Frame
              /\ [f EXCEPT !.items = Tail(@)].do = "enqueue"
              /\ [f EXCEPT !.items = Tail(@)].items = Tail(f.items)
         /\ f.do \in {"pull", "told"} /\ f.left # <<>> =>
              /\ [f EXCEPT !.left = Tail(@)] \in Frame
              /\ [f EXCEPT !.left = Tail(@)].do = f.do
              /\ [f EXCEPT !.left = Tail(@)].left = Tail(f.left)
         /\ f.do = "pull" /\ f.left # <<>> =>
              /\ [f EXCEPT !.left = Tail(@)].for = f.for
         /\ f.do = "told" /\ f.left # <<>> =>
              /\ [f EXCEPT !.left = Tail(@)].ok = f.ok
<1>1. CASE f.do = "enqueue" /\ f.items # <<>>
  <2>1. [f EXCEPT !.items = Tail(@)] \in Frame
    BY <1>1, FrameParts
  <2>2. f \in [do : {"enqueue"}, op : Op, items : Seq(Item)]
    BY <1>1 DEF Frame
  <2>3. QED  BY <1>1, <2>1, <2>2
<1>2. CASE f.do = "pull" /\ f.left # <<>>
  <2>1. [f EXCEPT !.left = Tail(@)] \in Frame
    BY <1>2, FrameParts
  <2>2. f \in [do : {"pull"}, for : Item, left : Seq(Remote)]
    BY <1>2 DEF Frame
  <2>3. QED  BY <1>2, <2>1, <2>2
<1>3. CASE f.do = "told" /\ f.left # <<>>
  <2>1. [f EXCEPT !.left = Tail(@)] \in Frame
    BY <1>3, FrameParts
  <2>2. f \in [do : {"told"}, left : Seq(Item), ok : BOOLEAN]
    BY <1>3 DEF Frame
  <2>3. QED  BY <1>3, <2>1, <2>2
<1>4. QED  BY <1>1, <1>2, <1>3

-----------------------------------------------------------------------------
(* What the four moves of the stack keep of the frames that wait. *)

LEMMA Pops ==
  ASSUME TypeOK, Stacked, calls # <<>>, Returns
  PROVE  /\ Stacked' /\ (RestRests => RestRests') /\ (Answering' => Answering)
         /\ \A i : Enqueued(i) =>
              Enqueued(i)' \/ (Head(calls).do = "enqueue" /\ i \in Range(Head(calls).items))
<1>1. /\ calls \in Seq(Frame) /\ Len(calls) \in Nat \ {0} /\ Head(calls) = calls[1]
      /\ Len(calls') = Len(calls) - 1
      /\ \A k \in 1..Len(calls') : calls'[k] = calls[k + 1] /\ k + 1 \in 2..Len(calls)
  BY TopPop, OnTop DEF TypeOK
<1>2. Stacked'
  BY <1>1 DEF Stacked
<1>3. RestRests => RestRests'
  <2> SUFFICES ASSUME RestRests PROVE RestRests'
    OBVIOUS
  <2>1. ASSUME NEW k \in 1..Len(calls'), calls'[k].do \in {"pull", "told"}
        PROVE  calls'[k].left = <<>>
    BY <1>1, <2>1 DEF RestRests
  <2> QED BY <1>1, <2>1 DEF RestRests
<1>4. Answering' => Answering
  BY <1>1 DEF Answering
<1>5. ASSUME NEW i, Enqueued(i)
      PROVE  Enqueued(i)' \/ (Head(calls).do = "enqueue" /\ i \in Range(Head(calls).items))
  <2>1. PICK m \in 1..Len(calls) : calls[m].do = "enqueue" /\ i \in Range(calls[m].items)
    BY <1>5 DEF Enqueued
  <2>2. CASE m = 1
    BY <1>1, <2>1, <2>2
  <2>3. CASE m # 1
    <3>1. m - 1 \in 1..Len(calls') /\ calls'[m - 1] = calls[m]
      BY <1>1, <2>1, <2>3
    <3>2. calls'[m - 1].do = "enqueue" /\ i \in Range(calls'[m - 1].items)
      BY <2>1, <3>1
    <3>3. QED  BY <3>1, <3>2 DEF Enqueued
  <2>4. QED  BY <2>2, <2>3
<1>6. QED  BY <1>2, <1>3, <1>4, <1>5

LEMMA Replaces ==
  ASSUME TypeOK, Stacked, calls # <<>>, NEW f \in Frame, f.do # "confirmed",
         ReturnsTo(f)
  PROVE  /\ Stacked'
         /\ RestRests /\ (f.do \in {"pull", "told"} => Len(f.left) <= 1) => RestRests'
         /\ Answering' => Answering
         /\ \A i : Enqueued(i) =>
              Enqueued(i)' \/ (Head(calls).do = "enqueue" /\ i \in Range(Head(calls).items))
         /\ \A i : f.do = "enqueue" /\ i \in Range(f.items) => Enqueued(i)'
<1>1. /\ calls \in Seq(Frame) /\ Len(calls) \in Nat \ {0} /\ Head(calls) = calls[1]
      /\ calls'[1] = f /\ Len(calls') = Len(calls)
      /\ \A k \in 2..Len(calls') : calls'[k] = calls[k] /\ k \in 2..Len(calls)
      /\ \A k \in 1..Len(calls') : k = 1 \/ k \in 2..Len(calls')
  BY TopReplace, OnTop DEF TypeOK
<1>2. Stacked'
  BY <1>1 DEF Stacked
<1>3. RestRests /\ (f.do \in {"pull", "told"} => Len(f.left) <= 1) => RestRests'
  BY <1>1 DEF RestRests
<1>4. Answering' => Answering
  BY <1>1 DEF Answering
<1>5. ASSUME NEW i, Enqueued(i)
      PROVE  Enqueued(i)' \/ (Head(calls).do = "enqueue" /\ i \in Range(Head(calls).items))
  <2>1. PICK m \in 1..Len(calls) : calls[m].do = "enqueue" /\ i \in Range(calls[m].items)
    BY <1>5 DEF Enqueued
  <2>2. CASE m = 1
    BY <1>1, <2>1, <2>2
  <2>3. CASE m # 1
    <3>1. m \in 1..Len(calls') /\ calls'[m] = calls[m]
      BY <1>1, <2>1, <2>3
    <3>2. calls'[m].do = "enqueue" /\ i \in Range(calls'[m].items)
      BY <2>1, <3>1
    <3>3. QED  BY <3>1, <3>2 DEF Enqueued
  <2>4. QED  BY <2>2, <2>3
<1>6. \A i : f.do = "enqueue" /\ i \in Range(f.items) => Enqueued(i)'
  BY <1>1 DEF Enqueued
<1>7. QED  BY <1>2, <1>3, <1>4, <1>5, <1>6

LEMMA Pushes ==
  ASSUME TypeOK, Stacked, calls # <<>>, NEW g \in Frame,
         g.do \in {"enqueue", "pull", "told"}, Calls(Process, g)
  PROVE  /\ Stacked'
         /\ RestRests /\ (g.do \in {"pull", "told"} => g.left = <<>>) => RestRests'
         /\ Answering' => Answering
         /\ \A i : Enqueued(i) =>
              Enqueued(i)' \/ (Head(calls).do = "enqueue" /\ i \in Range(Head(calls).items))
         /\ \A i : g.do = "enqueue" /\ i \in Range(g.items) => Enqueued(i)'
<1>1. /\ calls \in Seq(Frame) /\ Len(calls) \in Nat \ {0} /\ Head(calls) = calls[1]
      /\ calls'[1] = Process /\ calls'[2] = g /\ Len(calls') = Len(calls) + 1
      /\ \A k \in 3..Len(calls') : calls'[k] = calls[k - 1] /\ k - 1 \in 2..Len(calls)
      /\ \A k \in 1..Len(calls') : k = 1 \/ k = 2 \/ k \in 3..Len(calls')
  BY TopPush, OnTop, NewFrames DEF TypeOK
<1>2. Process.do = "process"
  BY NewFrames
<1>3. Stacked'
  BY <1>1, <1>2 DEF Stacked
<1>4. RestRests /\ (g.do \in {"pull", "told"} => g.left = <<>>) => RestRests'
  <2>1. SUFFICES ASSUME RestRests, g.do \in {"pull", "told"} => g.left = <<>>
                 PROVE  RestRests'
    OBVIOUS
  <2>2. g.do \in {"pull", "told"} => Len(g.left) <= 1
    BY <2>1
  <2>3. QED  BY <1>1, <1>2, <2>1, <2>2 DEF RestRests
<1>5. Answering' => Answering
  BY <1>1, <1>2 DEF Answering
<1>6. ASSUME NEW i, Enqueued(i)
      PROVE  Enqueued(i)' \/ (Head(calls).do = "enqueue" /\ i \in Range(Head(calls).items))
  <2>1. PICK m \in 1..Len(calls) : calls[m].do = "enqueue" /\ i \in Range(calls[m].items)
    BY <1>6 DEF Enqueued
  <2>2. CASE m = 1
    BY <1>1, <2>1, <2>2
  <2>3. CASE m # 1
    <3>1. m + 1 \in 1..Len(calls') /\ calls'[m + 1] = calls[m]
      BY <1>1, <2>1, <2>3
    <3>2. calls'[m + 1].do = "enqueue" /\ i \in Range(calls'[m + 1].items)
      BY <2>1, <3>1
    <3>3. QED  BY <3>1, <3>2 DEF Enqueued
  <2>4. QED  BY <2>2, <2>3
<1>7. \A i : g.do = "enqueue" /\ i \in Range(g.items) => Enqueued(i)'
  BY <1>1 DEF Enqueued
<1>8. QED  BY <1>3, <1>4, <1>5, <1>6, <1>7

LEMMA News ==
  ASSUME NEW f, f.do # "confirmed", calls' = <<f>> \/ calls' = <<>>
  PROVE  /\ Stacked' /\ ~Answering'
         /\ (f.do \in {"pull", "told"} => Len(f.left) <= 1) => RestRests'
<1>1. CASE calls' = <<>>
  BY <1>1 DEF Stacked, Answering, RestRests
<1>2. CASE calls' = <<f>>
  <2>1. calls'[1] = f /\ Len(calls') = 1
    BY <1>2
  <2>2. QED  BY <2>1 DEF Stacked, Answering, RestRests
<1>3. QED  BY <1>1, <1>2

LEMMA Keeps ==
  ASSUME UNCHANGED calls
  PROVE  /\ (Stacked => Stacked') /\ (RestRests => RestRests')
         /\ (Answering' = Answering) /\ \A i : Enqueued(i)' = Enqueued(i)
         /\ \A d : Top(d)' = Top(d)
BY DEF Stacked, RestRests, Answering, Enqueued, Top, Idle

-----------------------------------------------------------------------------
(* What a step keeps that leaves the data alone. *)

\* Nothing on top owes anything; nor is the queue to be moved on.
Calm ==
  calls # <<>> =>
    \/ Head(calls).do \in {"process", "enqueue", "confirmed"}
    \/ Head(calls).do \in {"pull", "told"} /\ Head(calls).left = <<>>
Quiet == Calm /\ ~Top("process")

LEMMA CalmKeeps ==
  ASSUME Calm'
  PROVE  /\ GotTold' /\ (GotSoFar' => GotFlow')
         /\ ~(Top("finish") /\ Head(calls).with = "PAT waiting")'
BY DEF Calm, GotTold, GotFlow, Top, Idle

LEMMA QuietRests ==
  ASSUME Quiet'
  PROVE  TopRests' /\ ~Going'
BY DEF Quiet, Calm, TopRests, Going, Top, Idle

LEMMA ProcessRests ==
  ASSUME calls' # <<>>, Head(calls') = Process
  PROVE  /\ Going' /\ Calm' /\ Top("process")'
         /\ Nothing' /\ flow' = NoFlow /\ handlers' = <<>> => TopRests'
BY NewFrames DEF Calm, Going, TopRests, Top, Idle

LEMMA PopQuiet ==
  ASSUME TypeOK, Stacked, RestRests, calls # <<>>, Returns
  PROVE  Quiet'
<1>1. CASE calls' = <<>>
  BY <1>1 DEF Quiet, Calm, Top, Idle
<1>2. CASE calls' # <<>>
  <2>1. /\ Len(calls) > 1 /\ Head(calls') = calls[2] /\ Head(calls').do \in Waited
        /\ Len(calls) \in Nat
    BY <1>2, TopPop, OnTop DEF TypeOK
  <2>2. calls[2].do \in {"pull", "told"} => calls[2].left = <<>>
    BY <2>1 DEF RestRests
  <2>3. QED  BY <1>2, <2>1, <2>2 DEF Quiet, Calm, Top, Idle, Waited
<1>3. QED  BY <1>1, <1>2

Same(f, g) == f.op = g.op /\ f.for = g.for /\ f.remote = g.remote
FlightsKept ==
  /\ \A k \in DOMAIN running :
       \/ \E m \in DOMAIN running' : Same(running[k], running'[m])
       \/ \E m \in DOMAIN posted' : Same(running[k], posted'[m].flight)
  /\ \A k \in DOMAIN posted :
       \E m \in DOMAIN posted' : Same(posted[k].flight, posted'[m].flight)

LEMMA MovingStays ==
  ASSUME FlightsKept, Moving, UNCHANGED flow, handlers # <<>> => handlers' # <<>>
  PROVE  Moving'
<1>1. ASSUME NEW o, NEW i, NEW r, Aloft(o, i, r)
      PROVE  \/ \E m \in DOMAIN running' : Matches(running'[m], o, i, r)
             \/ \E m \in DOMAIN posted' : Matches(posted'[m].flight, o, i, r)
  <2>1. CASE \E k \in DOMAIN running : Matches(running[k], o, i, r)
    BY <2>1 DEF FlightsKept, Same, Matches
  <2>2. CASE \E k \in DOMAIN posted : Matches(posted[k].flight, o, i, r)
    BY <2>2 DEF FlightsKept, Same, Matches
  <2>3. QED  BY <1>1, <2>1, <2>2 DEF Aloft
<1>2. CASE Aloft("fetch", flow.item, flow.current)
  BY <1>1, <1>2 DEF Moving, Aloft
<1>3. CASE handlers # <<>> /\ \E i \in Item, r \in Remote : Aloft("pull", i, r)
  <2>1. PICK i \in Item, r \in Remote : Aloft("pull", i, r)
    BY <1>3
  <2>2. \/ \E m \in DOMAIN running' : Matches(running'[m], "pull", i, r)
        \/ \E m \in DOMAIN posted' : Matches(posted'[m].flight, "pull", i, r)
    BY <1>1, <2>1
  <2>3. QED  BY <1>3, <2>2 DEF Moving, Aloft
<1>4. QED  BY <1>2, <1>3 DEF Moving

LEMMA FlightsStay == UNCHANGED <<running, posted>> => FlightsKept
BY DEF FlightsKept, Same

LEMMA FlightsGrow ==
  ASSUME running \in Seq(Flight), NEW e, running' = Append(running, e), UNCHANGED posted
  PROVE  /\ FlightsKept
         /\ Len(running) + 1 \in DOMAIN running' /\ running'[Len(running) + 1] = e
BY DEF FlightsKept, Same

\* A step that leaves the flights, the flow and the closures alone.
LEMMA DataStays ==
  ASSUME UNCHANGED <<flow, handlers, running, posted>>
  PROVE  /\ (Moving => Moving') /\ (Awaited => Awaited') /\ (Nothing => Nothing')
<1>1. Moving => Moving'
  BY FlightsStay, MovingStays
<1>2. Awaited => Awaited'
  BY DEF Awaited, Expected
<1>3. QED  BY <1>1, <1>2 DEF Nothing

LEMMA ListedStays ==
  ASSUME popup = "listed", UNCHANGED popup
  PROVE  Closed'
BY DEF Closed

LEMMA FlowStays ==
  ASSUME Flowing, UNCHANGED <<flow, op>>
  PROVE  Flowing'
BY DEF Flowing

\* A call other than of a closure is made with the list shown only.
LEMMA Listed ==
  ASSUME TypeOK, Closed, NEW d, Top(d), d # "told"
  PROVE  popup = "listed"
BY DEF Closed, Top, Idle

LEMMA Parts ==
  ASSUME IInv
  PROVE  /\ TypeOK /\ Stacked /\ Flowing /\ Closed /\ ReadyGoes /\ BusyGoes
         /\ Alone /\ Got /\ Remembered /\ Waiters
BY DEF IInv, Inner

LEMMA Whole ==
  ASSUME Stacked', Flowing', Closed', ReadyGoes', BusyGoes', Alone', Got', Remembered',
         Waiters'
  PROVE  Inner'
BY DEF Inner

-----------------------------------------------------------------------------
(* Each action. *)

LEMMA RangeTail ==
  ASSUME NEW S, NEW s \in Seq(S), s # <<>>, NEW x \in Range(s), x # Head(s)
  PROVE  x \in Range(Tail(s))
<1>1. PICK k \in 1..Len(s) : s[k] = x
  BY DEF Range
<1>2. k # 1
  BY <1>1
<1>3. k - 1 \in 1..Len(Tail(s)) /\ Tail(s)[k - 1] = x /\ 1..Len(Tail(s)) = DOMAIN Tail(s)
  BY <1>1, <1>2
<1>4. QED  BY <1>3 DEF Range

LEMMA RangeAppend ==
  ASSUME NEW S, NEW s \in Seq(S), NEW x \in S
  PROVE  x \in Range(Append(s, x)) /\ \A y : y \in Range(s) => y \in Range(Append(s, x))
<1> DEFINE t == Append(s, x)
<1>1. /\ Len(t) = Len(s) + 1 /\ t[Len(s) + 1] = x /\ DOMAIN t = 1..Len(s) + 1
      /\ \A k \in 1..Len(s) : t[k] = s[k]
  OBVIOUS
<1>2. Len(s) \in Nat /\ DOMAIN s = 1..Len(s)
  OBVIOUS
<1> HIDE DEF t
<1>3. x \in Range(t)
  BY <1>1, <1>2 DEF Range
<1>4. ASSUME NEW y \in Range(s)  PROVE y \in Range(t)
  <2>1. PICK k \in 1..Len(s) : y = s[k]
    BY <1>2, <1>4 DEF Range
  <2>2. k \in DOMAIN t /\ t[k] = y
    BY <1>1, <1>2, <2>1
  <2>3. QED  BY <2>2 DEF Range
<1>5. QED  BY <1>3, <1>4 DEF t

LEMMA EnqueueStep ==
  ASSUME IInv, Enqueue
  PROVE  Inner'
<1> DEFINE f == Head(calls)
           after == [f EXCEPT !.items = Tail(@)]
<1>1. /\ TypeOK /\ Stacked /\ Flowing /\ Closed /\ ReadyGoes /\ BusyGoes
      /\ Alone /\ Got /\ Remembered /\ Waiters
  BY Parts
<1>2. /\ calls # <<>> /\ f \in Frame /\ f.do = "enqueue" /\ popup = "listed"
      /\ f.items \in Seq(Item)
  BY <1>1, TopOf, Listed, FrameParts DEF Enqueue
<1>3. f.items # <<>> => after \in Frame /\ after.do = "enqueue" /\ after.items = Tail(f.items)
  BY <1>2, After
<1>4. \/ /\ f.items = <<>> /\ Returns /\ UNCHANGED <<queue, status, state>>
      \/ /\ f.items # <<>> /\ state = "Ready" /\ Calls(Process, after)
         /\ UNCHANGED state
      \/ /\ f.items # <<>> /\ state # "Ready" /\ ReturnsTo(after)
         /\ UNCHANGED state
  BY DEF Enqueue, work
<1>5. f.items # <<>> => status' = [status EXCEPT ![Head(f.items)] = "Pending"]
  BY DEF Enqueue
<1>6. UNCHANGED <<flow, op, password, threads, window, got, odd>>
  BY DEF Enqueue, work
<1> HIDE DEF f, after
<1>7. f = Head(calls)
  BY DEF f
<1>8. /\ Stacked' /\ (Answering' => Answering) /\ (RestRests => RestRests')
      /\ \A i : Enqueued(i) => Enqueued(i)' \/ i \in Range(f.items)
      /\ f.items # <<>> => \A i : i \in Range(Tail(f.items)) => Enqueued(i)'
  <2>1. CASE f.items = <<>> /\ Returns
    BY <1>1, <1>2, <1>4, <1>7, <2>1, Pops
  <2>2. CASE f.items # <<>> /\ Calls(Process, after)
    BY <1>1, <1>2, <1>3, <1>7, <2>2, Pushes
  <2>3. CASE f.items # <<>> /\ ReturnsTo(after)
    BY <1>1, <1>2, <1>3, <1>7, <2>3, Replaces
  <2>4. QED  BY <1>4, <2>1, <2>2, <2>3
<1>9. Flowing' /\ Closed' /\ Remembered'
  <2>1. UNCHANGED <<flow, op, popup, waiting, asked>>
    BY <1>6 DEF password, window
  <2>2. QED  BY <1>1, <1>2, <2>1, FlowStays, ListedStays DEF Remembered
<1>10. \/ /\ state = "Ready" /\ calls' # <<>> /\ Head(calls') = Process
       \/ /\ Home => Quiet'
          /\ ~Top("finish")' /\ (f.items = <<>> \/ state # "Ready")
  <2>1. CASE f.items = <<>> /\ Returns
    <3>1. Home => Quiet'
      BY <1>1, <1>2, <2>1, PopQuiet DEF Alone
    <3>2. QED  BY <1>1, <1>2, <2>1, <3>1, TopPop
  <2>2. CASE state = "Ready" /\ f.items # <<>> /\ Calls(Process, after)
    BY <1>1, <1>2, <1>3, <2>2, TopPush, NewFrames
  <2>3. CASE f.items # <<>> /\ state # "Ready" /\ ReturnsTo(after)
    <3>1. calls' # <<>> /\ Head(calls') = after
      BY <1>1, <1>2, <1>3, <2>3, TopReplace
    <3>2. QED  BY <1>3, <2>3, <3>1 DEF Quiet, Calm, Top, Idle
  <2>4. QED  BY <1>4, <2>1, <2>2, <2>3
<1>11. ReadyGoes'
  <2>1. CASE calls' # <<>> /\ Head(calls') = Process
    BY <2>1, NewFrames DEF ReadyGoes, Top, Idle
  <2>2. CASE f.items = <<>> \/ state # "Ready"
    <3>1. state = "Ready" => queue = <<>>
      BY <1>1, <1>2, <1>7 DEF ReadyGoes, Top
    <3>2. QED  BY <1>4, <2>2, <3>1 DEF ReadyGoes
  <2>3. QED  BY <1>10, <2>1, <2>2
<1>12. UNCHANGED <<handlers, running, posted, current>>
  BY <1>6 DEF threads
<1>13. BusyGoes'
  <2>1. ~Going
    BY <1>2, <1>7 DEF Going, Top
  <2>2. Moving => Moving'
    BY <1>6, <1>12, DataStays
  <2>3. QED  BY <1>1, <1>4, <1>6, <2>1, <2>2 DEF BusyGoes
<1>14. Alone'
  <2>1. SUFFICES ASSUME Home
                 PROVE  TopRests' /\ RestRests' /\ Awaited' /\ AtRest' /\ Single'
    BY <1>6 DEF Alone, Home
  <2>2. TopRests /\ RestRests /\ Awaited /\ AtRest /\ Single
    BY <1>1, <2>1 DEF Alone
  <2>3. TopRests'
    <3>1. CASE state = "Ready" /\ calls' # <<>> /\ Head(calls') = Process
      BY <1>6, <1>12, <2>2, <3>1, ProcessRests DEF AtRest, Nothing
    <3>2. CASE Quiet'
      BY <3>2, QuietRests
    <3>3. QED  BY <1>10, <2>1, <3>1, <3>2
  <2>4. Awaited'
    BY <1>6, <1>12, <2>2, DataStays
  <2>5. AtRest' /\ Single'
    BY <1>4, <1>6, <1>12, <2>2 DEF AtRest, Single, Nothing
  <2>6. QED  BY <1>8, <2>2, <2>3, <2>4, <2>5
<1>15. Got'
  <2>1. SUFFICES ASSUME Home
                 PROVE  GotFlow' /\ GotPosted' /\ GotTold' /\ GotDone'
    BY <1>6 DEF Got, Home
  <2>2. GotFlow /\ GotPosted /\ GotDone
    BY <1>1, <2>1 DEF Got
  <2>3. Calm'
    BY <1>10, <2>1, ProcessRests DEF Quiet
  <2>4. GotSoFar' /\ GotPosted'
    BY <1>6, <1>12, <2>2 DEF GotFlow, GotSoFar, GotPosted
  <2>5. GotDone'
    BY <1>1, <1>4, <1>5, <1>6, <2>2 DEF GotDone, TypeOK
  <2>6. QED  BY <2>3, <2>4, <2>5, CalmKeeps
<1>16. Waiters'
  <2>1. SUFFICES ASSUME Asked
                 PROVE  /\ \A i \in Item : Waits(i)' => i \in Range(waiting')
                        /\ Answering' => /\ pat' = "given"
                                         /\ \A i \in Item : Waits(i)' => Enqueued(i)'
                        /\ ~(Top("finish") /\ Head(calls).with = "PAT waiting")'
    BY <1>6 DEF Waiters, Asked
  <2>2. ~(Top("finish") /\ Head(calls).with = "PAT waiting")'
    BY <1>10, ProcessRests, CalmKeeps DEF Top
  <2>3. ASSUME NEW i \in Item, Waits(i)'
        PROVE  Waits(i) /\ (f.items = <<>> \/ i # Head(f.items))
    BY <1>1, <1>2, <1>4, <1>5, <2>3 DEF Waits, TypeOK
  <2>4. ASSUME NEW i \in Item, Answering, Waits(i), f.items = <<>> \/ i # Head(f.items)
        PROVE  Enqueued(i)'
    <3>1. Enqueued(i)
      BY <1>1, <2>1, <2>4 DEF Waiters
    <3>2. CASE i \in Range(f.items)
      <4>1. f.items # <<>>
        BY <3>2 DEF Range
      <4>2. i \in Range(Tail(f.items))
        BY <1>2, <2>4, <3>2, <4>1, RangeTail
      <4>3. QED  BY <1>8, <4>1, <4>2
    <3>3. QED  BY <1>8, <3>1, <3>2
  <2>5. QED
    BY <1>1, <1>6, <1>8, <2>1, <2>2, <2>3, <2>4 DEF Waiters, password
<1>17. QED
  BY <1>8, <1>9, <1>11, <1>13, <1>14, <1>15, <1>16, Whole

\* What most steps keep of what was got, and of those that wait.
LEMMA GotStays ==
  ASSUME GotFlow, GotPosted, GotDone, Calm', UNCHANGED <<flow, posted, got>>,
         \A i \in Item : status'[i] = "Done" => status[i] = "Done"
  PROVE  GotFlow' /\ GotPosted' /\ GotTold' /\ GotDone'
<1>1. GotSoFar'
  BY DEF GotFlow, GotSoFar
<1>2. GotPosted' /\ GotDone'
  BY DEF GotPosted, GotDone
<1>3. QED  BY <1>1, <1>2, CalmKeeps

LEMMA WaitersStay ==
  ASSUME Waiters, Asked' => Asked, UNCHANGED <<waiting, pat>>, Answering' => Answering,
         \A i \in Item : Waits(i)' => Waits(i),
         \A i \in Item : Enqueued(i) => Enqueued(i)',
         ~(Top("finish") /\ Head(calls).with = "PAT waiting")'
  PROVE  Waiters'
BY DEF Waiters

\* What processNextOperation finds when it is called.
LEMMA AtProcess ==
  ASSUME IInv, Top("process")
  PROVE  /\ TypeOK /\ Stacked /\ Flowing /\ Closed /\ Alone /\ Got /\ Remembered /\ Waiters
         /\ calls # <<>> /\ Head(calls).do = "process" /\ popup = "listed"
         /\ Home => /\ running = <<>> /\ posted = <<>> /\ flow = NoFlow /\ handlers = <<>>
                    /\ RestRests /\ GotFlow /\ GotPosted /\ GotDone
<1>1. TypeOK /\ Stacked /\ Flowing /\ Closed /\ Alone /\ Got /\ Remembered /\ Waiters
  BY Parts
<1>2. calls # <<>> /\ Head(calls).do = "process" /\ popup = "listed"
  BY <1>1, TopOf, Listed
<1>3. Home => /\ running = <<>> /\ posted = <<>> /\ flow = NoFlow /\ handlers = <<>>
              /\ RestRests /\ GotFlow /\ GotPosted /\ GotDone
  BY <1>1 DEF Alone, Got, TopRests, Going, Nothing
<1>4. QED  BY <1>1, <1>2, <1>3

\* After it returns.
LEMMA Returned ==
  ASSUME TypeOK, Stacked, calls # <<>>, Head(calls).do # "enqueue", Returns
  PROVE  /\ Stacked' /\ (Answering' => Answering) /\ (RestRests => RestRests' /\ Quiet')
         /\ \A i \in Item : Enqueued(i) => Enqueued(i)'
         /\ ~Top("finish")' /\ ~Top("process")' /\ ~Top("next")'
BY Pops, PopQuiet, TopPop

LEMMA RestStep ==
  ASSUME IInv, Rest
  PROVE  Inner'
<1>1. Top("process") /\ Returns
  BY DEF Rest
<1>2. /\ state' = IF queue = <<>> THEN "Ready" ELSE "Pause"
      /\ UNCHANGED <<queue, flow, op, status, password, threads, window, got, odd>>
  BY DEF Rest
<1>3. /\ TypeOK /\ Stacked /\ Flowing /\ Closed /\ Alone /\ Got /\ Remembered /\ Waiters
      /\ calls # <<>> /\ Head(calls).do = "process" /\ popup = "listed"
      /\ Home => /\ running = <<>> /\ posted = <<>> /\ flow = NoFlow /\ handlers = <<>>
                 /\ RestRests /\ GotFlow /\ GotPosted /\ GotDone
  BY <1>1, AtProcess
<1>4. /\ Stacked' /\ (Answering' => Answering) /\ (RestRests => RestRests' /\ Quiet')
      /\ (\A i \in Item : Enqueued(i) => Enqueued(i)') /\ ~Top("finish")'
  BY <1>1, <1>3, Returned
<1>5. Flowing' /\ Closed' /\ Remembered'
  BY <1>2, <1>3, FlowStays, ListedStays DEF password, window, Remembered
<1>6. ReadyGoes' /\ BusyGoes'
  BY <1>2 DEF ReadyGoes, BusyGoes, Busy
<1>7. Alone'
  <2>1. SUFFICES ASSUME Home
                 PROVE  TopRests' /\ RestRests' /\ Awaited' /\ AtRest' /\ Single'
    BY <1>2 DEF Alone, Home
  <2>2. /\ running' = <<>> /\ posted' = <<>> /\ flow' = NoFlow /\ handlers' = <<>>
        /\ RestRests' /\ Quiet'
    BY <1>2, <1>3, <1>4, <2>1 DEF threads
  <2>3. TopRests' /\ Awaited' /\ AtRest' /\ Single'
    BY <2>2, QuietRests DEF Awaited, AtRest, Single, Nothing
  <2>4. QED  BY <2>2, <2>3
<1>8. Got'
  <2>1. SUFFICES ASSUME Home
                 PROVE  GotFlow' /\ GotPosted' /\ GotTold' /\ GotDone'
    BY <1>2 DEF Got, Home
  <2>2. Calm' /\ UNCHANGED <<flow, posted, got, status>>
    BY <1>2, <1>3, <1>4, <2>1 DEF threads, Quiet
  <2>3. QED  BY <1>3, <2>1, <2>2, GotStays
<1>9. Waiters'
  BY <1>2, <1>3, <1>4, WaitersStay DEF password, Waits, Asked
<1>10. QED
  BY <1>4, <1>5, <1>6, <1>7, <1>8, <1>9, Whole

LEMMA HaltStep ==
  ASSUME IInv, Halt
  PROVE  Inner'
<1>1. Top("process") /\ Returns
  BY DEF Halt
<1>2. /\ queue' = <<>> /\ state' = "Ready" /\ flow' = NoFlow /\ waiting' = <<>>
      /\ \A i \in Item : status'[i] = "Stoped" \/ status'[i] = status[i]
      /\ odd \subseteq odd' /\ (waiting = <<>> \/ "forgotten" \in odd')
      /\ UNCHANGED <<pat, asked, threads, window, got>>
  BY DEF Halt
<1>3. /\ TypeOK /\ Stacked /\ Flowing /\ Closed /\ Alone /\ Got /\ Remembered /\ Waiters
      /\ calls # <<>> /\ Head(calls).do = "process" /\ popup = "listed"
      /\ Home => /\ running = <<>> /\ posted = <<>> /\ flow = NoFlow /\ handlers = <<>>
                 /\ RestRests /\ GotFlow /\ GotPosted /\ GotDone
  BY <1>1, AtProcess
<1>4. /\ Stacked' /\ (Answering' => Answering) /\ (RestRests => RestRests' /\ Quiet')
      /\ (\A i \in Item : Enqueued(i) => Enqueued(i)') /\ ~Top("finish")'
  BY <1>1, <1>3, Returned
<1>5. Flowing' /\ Closed' /\ Remembered'
  BY <1>2, <1>3, ListedStays DEF window, Remembered, Flowing
<1>6. ReadyGoes' /\ BusyGoes'
  BY <1>2 DEF ReadyGoes, BusyGoes, Busy
<1>7. Alone'
  <2>1. SUFFICES ASSUME Home
                 PROVE  TopRests' /\ RestRests' /\ Awaited' /\ AtRest' /\ Single'
    BY <1>2 DEF Alone, Home
  <2>2. /\ running' = <<>> /\ posted' = <<>> /\ flow' = NoFlow /\ handlers' = <<>>
        /\ RestRests' /\ Quiet'
    BY <1>2, <1>3, <1>4, <2>1 DEF threads
  <2>3. TopRests' /\ Awaited' /\ AtRest' /\ Single'
    BY <2>2, QuietRests DEF Awaited, AtRest, Single, Nothing
  <2>4. QED  BY <2>2, <2>3
<1>8. Got'
  <2>1. SUFFICES ASSUME Home
                 PROVE  GotFlow' /\ GotPosted' /\ GotTold' /\ GotDone'
    BY <1>2 DEF Got, Home
  <2>2. Calm' /\ UNCHANGED <<flow, posted, got>>
    BY <1>2, <1>3, <1>4, <2>1 DEF threads, Quiet
  <2>3. \A i \in Item : status'[i] = "Done" => status[i] = "Done"
    BY <1>2
  <2>4. QED  BY <1>3, <2>1, <2>2, <2>3, GotStays
<1>9. Waiters'
  <2>1. CASE waiting = <<>>
    <3>1. UNCHANGED <<waiting, pat>> /\ (Asked' => Asked)
      BY <1>2, <2>1 DEF Asked
    <3>2. \A i \in Item : Waits(i)' => Waits(i)
      BY <1>2 DEF Waits
    <3>3. QED  BY <1>3, <1>4, <3>1, <3>2, WaitersStay
  <2>2. CASE "forgotten" \in odd'
    BY <2>2 DEF Waiters, Asked
  <2>3. QED  BY <1>2, <2>1, <2>2
<1>10. QED
  BY <1>4, <1>5, <1>6, <1>7, <1>8, <1>9, Whole

\* A repository is given to the controller while nothing runs.
LEMMA NoneTurned ==
  ASSUME NEW i, running = <<>>, running' = Repository(i, running)
  PROVE  running' = <<>>
BY DEF Repository

LEMMA TopProcess ==
  ASSUME Top("process")'
  PROVE  /\ Going' /\ Calm'
         /\ Nothing' /\ flow' = NoFlow /\ handlers' = <<>> => TopRests'
BY DEF Calm, Going, TopRests, Top, Idle

LEMMA NothingToDoStep ==
  ASSUME IInv, NEW o \in Op, NEW i \in Item, NothingToDo(o, i)
  PROVE  Inner'
<1>1. Top("process")
  BY DEF NothingToDo, Take
<1>2. /\ state' = "Running" /\ op' = o /\ got' = [got EXCEPT ![i] = {}]
      /\ \/ status' = [status EXCEPT ![i] = "Canceled"]
         \/ status' = [status EXCEPT ![i] = "Done"] /\ RemotesOf[i] = <<>>
      /\ UNCHANGED running \/ running' = Repository(i, running)
      /\ UNCHANGED <<flow, password, pulling, posted, handlers, window, calls, odd>>
  BY DEF NothingToDo, Take
<1>3. /\ TypeOK /\ Stacked /\ Flowing /\ Closed /\ Alone /\ Got /\ Remembered /\ Waiters
      /\ calls # <<>> /\ Head(calls).do = "process" /\ popup = "listed"
      /\ Home => /\ running = <<>> /\ posted = <<>> /\ flow = NoFlow /\ handlers = <<>>
                 /\ RestRests /\ GotFlow /\ GotPosted /\ GotDone
  BY <1>1, AtProcess
<1>4. Top("process")' /\ Stacked' /\ Calm' /\ Going'
  BY <1>1, <1>2, <1>3, Keeps, TopProcess DEF Top, Idle
<1>5. Flowing' /\ Closed' /\ Remembered'
  BY <1>2, <1>3, ListedStays DEF password, window, Remembered, Flowing, Op, None
<1>6. ReadyGoes' /\ BusyGoes'
  BY <1>2, <1>4 DEF ReadyGoes, BusyGoes
<1>7. Alone'
  <2>1. SUFFICES ASSUME Home
                 PROVE  TopRests' /\ RestRests' /\ Awaited' /\ AtRest' /\ Single'
    BY <1>2 DEF Alone, Home
  <2>2. running' = <<>> /\ posted' = <<>> /\ flow' = NoFlow /\ handlers' = <<>>
    BY <1>2, <1>3, <2>1, NoneTurned
  <2>3. RestRests'
    BY <1>2, <1>3, <2>1, Keeps
  <2>4. TopRests' /\ Awaited' /\ AtRest' /\ Single'
    BY <1>2, <1>4, <2>2, TopProcess DEF Awaited, AtRest, Single, Nothing
  <2>5. QED  BY <2>3, <2>4
<1>8. Got'
  <2>1. SUFFICES ASSUME Home
                 PROVE  GotFlow' /\ GotPosted' /\ GotTold' /\ GotDone'
    BY <1>2 DEF Got, Home
  <2>2. GotSoFar' /\ GotPosted'
    BY <1>2, <1>3, <2>1 DEF GotSoFar, GotPosted
  <2>3. ASSUME NEW j \in Item, status'[j] = "Done"
        PROVE  Range(RemotesOf[j]) \subseteq got'[j]
    <3>1. CASE j = i
      <4>1. RemotesOf[i] = <<>>
        BY <1>2, <1>3, <2>3, <3>1 DEF TypeOK
      <4>2. QED  BY <3>1, <4>1 DEF Range
    <3>2. CASE j # i
      <4>1. status[j] = "Done" /\ got'[j] = got[j]
        BY <1>2, <1>3, <2>3, <3>2 DEF TypeOK
      <4>2. QED  BY <1>3, <2>1, <4>1 DEF GotDone
    <3>3. QED  BY <3>1, <3>2
  <2>4. GotDone'
    BY <2>3 DEF GotDone, Range
  <2>5. QED  BY <1>4, <2>2, <2>4, CalmKeeps
<1>9. Waiters'
  <2>1. \A j \in Item : Waits(j)' => Waits(j)
    BY <1>2, <1>3 DEF Waits, TypeOK
  <2>2. (\A j \in Item : Enqueued(j) => Enqueued(j)') /\ (Answering' => Answering)
    BY <1>2, Keeps
  <2>3. QED  BY <1>2, <1>3, <1>4, <2>1, <2>2, CalmKeeps, WaitersStay DEF password, Asked
<1>10. QED
  BY <1>4, <1>5, <1>6, <1>7, <1>8, <1>9, Whole

LEMMA ExecuteFetchStep ==
  ASSUME IInv, NEW i \in Item, ExecuteFetch(i)
  PROVE  Inner'
<1> DEFINE f == [do |-> "next"]
<1>1. Top("process") /\ ReturnsTo(f)
  BY DEF ExecuteFetch, Take
<1>2. /\ state' = "Running" /\ op' = "fetch" /\ got' = [got EXCEPT ![i] = {}]
      /\ status' = [status EXCEPT ![i] = "Fetching"]
      /\ current' = i /\ running' = Repository(i, running)
      /\ flow' = [NoFlow EXCEPT !.item = i]
      /\ UNCHANGED <<password, pulling, posted, handlers, window, odd>>
  BY DEF ExecuteFetch, Take
<1>3. /\ TypeOK /\ Stacked /\ Flowing /\ Closed /\ Alone /\ Got /\ Remembered /\ Waiters
      /\ calls # <<>> /\ Head(calls).do = "process" /\ popup = "listed"
      /\ Home => /\ running = <<>> /\ posted = <<>> /\ flow = NoFlow /\ handlers = <<>>
                 /\ RestRests /\ GotFlow /\ GotPosted /\ GotDone
  BY <1>1, AtProcess
<1>4. f \in Frame /\ f.do = "next"
  BY NewFrames
<1> HIDE DEF f
<1>5. calls' # <<>> /\ Head(calls') = f
  BY <1>1, <1>3, <1>4, TopReplace
<1>6. Top("next")' /\ ~Top("process")' /\ ~Top("finish")' /\ ~Top("told")' /\ ~Top("pull")'
  BY <1>4, <1>5 DEF Top, Idle
<1>7. /\ Stacked' /\ (RestRests => RestRests') /\ (Answering' => Answering)
      /\ \A j \in Item : Enqueued(j) => Enqueued(j)'
  BY <1>1, <1>3, <1>4, Replaces
<1>8. flow'.item = i /\ flow'.next = 1 /\ flow'.current = None /\ flow' # NoFlow
  BY <1>2, NoneAssumption DEF NoFlow
<1>9. Flowing' /\ Closed' /\ Remembered'
  BY <1>2, <1>3, <1>8, ListedStays DEF password, window, Remembered, Flowing, Op, None
<1>10. ReadyGoes' /\ BusyGoes'
  BY <1>2, <1>6 DEF ReadyGoes, BusyGoes, Going
<1>11. Alone'
  <2>1. SUFFICES ASSUME Home
                 PROVE  TopRests' /\ RestRests' /\ Awaited' /\ AtRest' /\ Single'
    BY <1>2 DEF Alone, Home
  <2>2. running' = <<>> /\ posted' = <<>> /\ handlers' = <<>> /\ RestRests'
    BY <1>2, <1>3, <1>7, <2>1, NoneTurned
  <2>3. TopRests'
    BY <1>2, <1>6, <1>8, <2>2 DEF TopRests, Nothing, Busy
  <2>4. Awaited' /\ AtRest' /\ Single'
    BY <1>2, <1>8, <2>2 DEF Awaited, AtRest, Single
  <2>5. QED  BY <2>2, <2>3, <2>4
<1>12. Got'
  <2>1. SUFFICES ASSUME Home
                 PROVE  GotFlow' /\ GotPosted' /\ GotTold' /\ GotDone'
    BY <1>2 DEF Got, Home
  <2>2. GotFlow' /\ GotTold'
    BY <1>6, <1>8 DEF GotFlow, GotSoFar, GotTold
  <2>3. GotPosted'
    BY <1>2, <1>3, <2>1 DEF GotPosted
  <2>4. ASSUME NEW j \in Item, status'[j] = "Done"
        PROVE  status[j] = "Done" /\ got'[j] = got[j]
    BY <1>2, <1>3, <2>4 DEF TypeOK
  <2>5. GotDone'
    BY <1>3, <2>1, <2>4 DEF GotDone
  <2>6. QED  BY <2>2, <2>3, <2>5
<1>13. Waiters'
  <2>1. \A j \in Item : Waits(j)' => Waits(j)
    BY <1>2, <1>3 DEF Waits, TypeOK
  <2>2. QED  BY <1>2, <1>3, <1>6, <1>7, <2>1, WaitersStay DEF password, Asked
<1>14. QED
  BY <1>7, <1>9, <1>10, <1>11, <1>12, <1>13, Whole

LEMMA ExecutePullStep ==
  ASSUME IInv, NEW i \in Item, ExecutePull(i)
  PROVE  Inner'
<1> DEFINE f == [do |-> "pull", for |-> i, left |-> RemotesOf[i]]
<1>1. Top("process") /\ ReturnsTo(f) /\ RemotesOf[i] # <<>>
  BY DEF ExecutePull, Take
<1>2. /\ state' = "Running" /\ op' = "pull" /\ got' = [got EXCEPT ![i] = {}]
      /\ status' = [status EXCEPT ![i] = "Pulling"]
      /\ current' = i /\ running' = Repository(i, running)
      /\ odd \subseteq odd' /\ (Len(RemotesOf[i]) > 1 => "several" \in odd')
      /\ odd' \subseteq odd \cup {"several"}
      /\ UNCHANGED <<flow, password, pulling, posted, handlers, window>>
  BY DEF ExecutePull, Take
<1>3. /\ TypeOK /\ Stacked /\ Flowing /\ Closed /\ Alone /\ Got /\ Remembered /\ Waiters
      /\ calls # <<>> /\ Head(calls).do = "process" /\ popup = "listed"
      /\ Home => /\ running = <<>> /\ posted = <<>> /\ flow = NoFlow /\ handlers = <<>>
                 /\ RestRests /\ GotFlow /\ GotPosted /\ GotDone
  BY <1>1, AtProcess
<1>4. /\ RemotesOf[i] \in Seq(Remote) /\ f \in Frame /\ f.do = "pull" /\ f.for = i
      /\ f.left = RemotesOf[i]
  BY RemotesAssumption, NewFrames
<1> HIDE DEF f
<1>5. calls' # <<>> /\ Head(calls') = f
  BY <1>1, <1>3, <1>4, TopReplace
<1>6. Top("pull")' /\ ~Top("process")' /\ ~Top("finish")' /\ ~Top("told")' /\ ~Top("next")'
  BY <1>4, <1>5 DEF Top, Idle
<1>7. /\ Stacked' /\ (Answering' => Answering)
      /\ RestRests /\ Len(RemotesOf[i]) <= 1 => RestRests'
      /\ \A j \in Item : Enqueued(j) => Enqueued(j)'
  BY <1>1, <1>3, <1>4, Replaces
<1>8. Flowing' /\ Closed' /\ Remembered'
  BY <1>2, <1>3, ListedStays DEF password, window, Remembered, Flowing, Op, None
<1>9. ReadyGoes' /\ BusyGoes'
  BY <1>1, <1>2, <1>4, <1>5, <1>6 DEF ReadyGoes, BusyGoes, Going
<1>10. Home' => Home /\ Len(RemotesOf[i]) <= 1
  <2>1. Len(RemotesOf[i]) \in Nat
    BY <1>4
  <2>2. QED  BY <1>2, <2>1 DEF Home
<1>11. Alone'
  <2>1. SUFFICES ASSUME Home, Len(RemotesOf[i]) <= 1
                 PROVE  TopRests' /\ RestRests' /\ Awaited' /\ AtRest' /\ Single'
    BY <1>10 DEF Alone
  <2>2. running' = <<>> /\ posted' = <<>> /\ handlers' = <<>> /\ flow' = NoFlow /\ RestRests'
    BY <1>2, <1>3, <1>7, <2>1, NoneTurned
  <2>3. TopRests'
    BY <1>2, <1>4, <1>5, <1>6, <2>2 DEF TopRests, Nothing, Busy
  <2>4. Awaited' /\ AtRest' /\ Single'
    BY <1>2, <2>2 DEF Awaited, AtRest, Single
  <2>5. QED  BY <2>2, <2>3, <2>4
<1>12. Got'
  <2>1. SUFFICES ASSUME Home
                 PROVE  GotFlow' /\ GotPosted' /\ GotTold' /\ GotDone'
    BY <1>10 DEF Got
  <2>2. GotFlow' /\ GotTold'
    BY <1>2, <1>3, <1>6, <2>1 DEF GotFlow, GotSoFar, GotTold
  <2>3. GotPosted'
    BY <1>2, <1>3, <2>1 DEF GotPosted
  <2>4. ASSUME NEW j \in Item, status'[j] = "Done"
        PROVE  status[j] = "Done" /\ got'[j] = got[j]
    BY <1>2, <1>3, <2>4 DEF TypeOK
  <2>5. GotDone'
    BY <1>3, <2>1, <2>4 DEF GotDone
  <2>6. QED  BY <2>2, <2>3, <2>5
<1>13. Waiters'
  <2>1. \A j \in Item : Waits(j)' => Waits(j)
    BY <1>2, <1>3 DEF Waits, TypeOK
  <2>2. Asked' => Asked
    BY <1>2 DEF Asked
  <2>3. QED  BY <1>2, <1>3, <1>6, <1>7, <2>1, <2>2, WaitersStay DEF password
<1>14. QED
  BY <1>7, <1>8, <1>9, <1>11, <1>12, <1>13, Whole

LEMMA FetchIsDoneStep ==
  ASSUME IInv, FetchIsDone
  PROVE  Inner'
<1> DEFINE f == Finish("Done")
<1>1. Top("next") /\ ReturnsTo(f) /\ flow # NoFlow /\ flow.next > Len(RemotesOf[flow.item])
  BY DEF FetchIsDone
<1>2. UNCHANGED <<work, password, threads, window, got, odd>>
  BY DEF FetchIsDone
<1>3. UNCHANGED <<queue, state, flow, op, status, waiting, pat, asked, current, pulling,
                  running, posted, handlers, popup, got, odd>>
  BY <1>2 DEF work, password, threads, window
<1>4. /\ TypeOK /\ Stacked /\ Flowing /\ Closed /\ ReadyGoes /\ Alone /\ Got /\ Remembered
      /\ Waiters
  BY Parts
<1>5. calls # <<>> /\ Head(calls).do = "next" /\ popup = "listed"
  BY <1>1, <1>4, TopOf, Listed
<1>6. f \in Frame /\ f.do = "finish" /\ f.with = "Done"
  BY NewFrames
<1> HIDE DEF f
<1>7. calls' # <<>> /\ Head(calls') = f
  BY <1>1, <1>5, <1>4, <1>6, TopReplace
<1>8. /\ Top("finish")' /\ ~Top("process")' /\ ~Top("next")' /\ ~Top("told")' /\ ~Top("pull")'
      /\ ~Top("process")
  BY <1>1, <1>6, <1>7 DEF Top, Idle
<1>9. /\ Stacked' /\ (Answering' => Answering) /\ (RestRests => RestRests')
      /\ \A j \in Item : Enqueued(j) => Enqueued(j)'
  BY <1>1, <1>4, <1>5, <1>6, Replaces
<1>10. Flowing' /\ Closed' /\ Remembered' /\ ReadyGoes' /\ BusyGoes'
  BY <1>3, <1>4, <1>5, <1>8, FlowStays, ListedStays DEF Remembered, ReadyGoes,
     BusyGoes, Going
<1>11. Alone'
  <2>1. SUFFICES ASSUME Home
                 PROVE  TopRests' /\ RestRests' /\ Awaited' /\ AtRest' /\ Single'
    BY <1>3 DEF Alone, Home
  <2>2. TopRests /\ RestRests /\ Awaited /\ AtRest /\ Single
    BY <1>4, <2>1 DEF Alone
  <2>3. TopRests'
    BY <1>1, <1>3, <1>8, <2>2 DEF TopRests, Nothing, Going
  <2>4. Awaited' /\ AtRest' /\ Single'
    BY <1>3, <2>2, DataStays DEF AtRest, Single, Nothing
  <2>5. QED  BY <1>9, <2>2, <2>3, <2>4
<1>12. Got'
  <2>1. SUFFICES ASSUME Home
                 PROVE  GotFlow' /\ GotPosted' /\ GotTold' /\ GotDone'
    BY <1>3 DEF Got, Home
  <2>2. GotFlow /\ GotPosted /\ GotDone
    BY <1>4, <2>1 DEF Got
  <2>3. GotPosted' /\ GotDone' /\ GotTold' /\ GotSoFar'
    BY <1>3, <1>8, <2>2 DEF GotPosted, GotDone, GotTold, GotSoFar, GotFlow
  <2>4. ASSUME NEW r \in Range(RemotesOf[flow.item])
        PROVE  r \in got[flow.item]
    <3>1. /\ flow.item \in Item /\ flow.next \in Nat /\ flow.next >= 1
          /\ flow.next > 1 => /\ flow.next - 1 \in 1..Len(RemotesOf[flow.item])
                              /\ flow.current = RemotesOf[flow.item][flow.next - 1]
      BY <1>1, <1>4 DEF Flowing, TypeOK
    <3>2. RemotesOf[flow.item] \in Seq(Remote)
      BY <3>1, RemotesAssumption
    <3>3. PICK k \in 1..Len(RemotesOf[flow.item]) : r = RemotesOf[flow.item][k]
      BY <3>2 DEF Range
    <3>4. k \in 1..flow.next - 2 \/ (flow.next > 1 /\ k = flow.next - 1)
      BY <1>1, <3>1, <3>2
    <3>5. QED  BY <1>1, <2>2, <3>1, <3>3, <3>4 DEF GotFlow, GotSoFar
  <2>5. GotFlow'
    BY <1>3, <1>8, <2>3, <2>4 DEF GotFlow, Range
  <2>6. QED  BY <2>3, <2>5
<1>13. Waiters'
  <2>1. ~(Top("finish") /\ Head(calls).with = "PAT waiting")'
    BY <1>6, <1>7
  <2>2. QED  BY <1>3, <1>4, <1>9, <2>1, WaitersStay DEF Waits, Asked
<1>14. QED
  BY <1>9, <1>10, <1>11, <1>12, <1>13, Whole

LEMMA FinishFetchFlowStep ==
  ASSUME IInv, FinishFetchFlow
  PROVE  Inner'
<1> DEFINE f == Head(calls)
<1>1. Top("finish") /\ ReturnsTo(Process) /\ flow' = NoFlow
      /\ status' = [status EXCEPT ![flow.item] = f.with]
  BY DEF FinishFetchFlow
<1>2. UNCHANGED <<queue, state, op, password, threads, window, got, odd>>
  BY DEF FinishFetchFlow
<1>3. UNCHANGED <<queue, state, op, waiting, pat, asked, current, pulling,
                  running, posted, handlers, popup, got, odd>>
  BY <1>2 DEF password, threads, window
<1>4. /\ TypeOK /\ Stacked /\ Flowing /\ Closed /\ ReadyGoes /\ Alone /\ Got /\ Remembered
      /\ Waiters
  BY Parts
<1>5. calls # <<>> /\ f.do = "finish" /\ popup = "listed"
  BY <1>1, <1>4, TopOf, Listed
<1>6. Process \in Frame /\ Process.do = "process"
  BY NewFrames
<1>7. calls' # <<>> /\ Head(calls') = Process
  BY <1>1, <1>5, <1>4, <1>6, TopReplace
<1>8. Top("process")' /\ Calm' /\ Going'
  BY <1>7, ProcessRests
<1>9. /\ Stacked' /\ (Answering' => Answering) /\ (RestRests => RestRests')
      /\ \A j \in Item : Enqueued(j) => Enqueued(j)'
  BY <1>1, <1>4, <1>5, <1>6, Replaces
<1>10. Flowing' /\ Closed' /\ Remembered' /\ ReadyGoes' /\ BusyGoes'
  BY <1>1, <1>3, <1>4, <1>5, <1>8, ListedStays DEF Remembered, ReadyGoes, BusyGoes, Flowing
<1>11. Alone'
  <2>1. SUFFICES ASSUME Home
                 PROVE  TopRests' /\ RestRests' /\ Awaited' /\ AtRest' /\ Single'
    BY <1>3 DEF Alone, Home
  <2>2. TopRests /\ RestRests /\ Awaited /\ AtRest /\ Single
    BY <1>4, <2>1 DEF Alone
  <2>3. /\ running' = <<>> /\ posted' = <<>> /\ flow' = NoFlow /\ handlers' = <<>>
    BY <1>1, <1>3, <2>2 DEF TopRests, Nothing, Going
  <2>4. TopRests' /\ Awaited' /\ AtRest' /\ Single'
    BY <1>7, <2>3, ProcessRests DEF Awaited, AtRest, Single, Nothing
  <2>5. QED  BY <1>9, <2>2, <2>4
<1>12. Got'
  <2>1. SUFFICES ASSUME Home
                 PROVE  GotFlow' /\ GotPosted' /\ GotTold' /\ GotDone'
    BY <1>3 DEF Got, Home
  <2>2. GotFlow /\ GotPosted /\ GotDone
    BY <1>4, <2>1 DEF Got
  <2>3. GotPosted' /\ GotSoFar'
    BY <1>1, <1>3, <2>2 DEF GotPosted, GotSoFar
  <2>4. ASSUME NEW j \in Item, status'[j] = "Done"
        PROVE  Range(RemotesOf[j]) \subseteq got[j]
    <3>1. CASE j = flow.item
      <4>1. f.with = "Done"
        BY <1>1, <1>4, <2>4, <3>1 DEF TypeOK
      <4>2. QED  BY <1>1, <2>2, <3>1, <4>1 DEF GotFlow
    <3>2. CASE j # flow.item
      BY <1>1, <1>4, <2>2, <2>4, <3>2 DEF GotDone, TypeOK
    <3>3. QED  BY <3>1, <3>2
  <2>5. GotDone'
    BY <1>3, <2>4 DEF GotDone, Range
  <2>6. QED  BY <1>8, <2>3, <2>5, CalmKeeps
<1>13. Waiters'
  <2>1. SUFFICES ASSUME Asked
                 PROVE  /\ \A i \in Item : Waits(i)' => i \in Range(waiting')
                        /\ Answering' => /\ pat' = "given"
                                         /\ \A i \in Item : Waits(i)' => Enqueued(i)'
                        /\ ~(Top("finish") /\ Head(calls).with = "PAT waiting")'
    BY <1>3 DEF Waiters, Asked
  <2>2. ~(Top("finish") /\ Head(calls).with = "PAT waiting")'
    BY <1>8, CalmKeeps
  <2>3. ASSUME NEW j \in Item, Waits(j)'
        PROVE  Waits(j) \/ (j = flow.item /\ f.with = "PAT waiting")
    BY <1>1, <1>4, <2>3 DEF Waits, TypeOK
  <2>4. f.with = "PAT waiting" => flow.item \in Range(waiting) /\ ~Answering
    BY <1>1, <1>4, <2>1 DEF Waiters
  <2>5. (\A i \in Item : Waits(i) => i \in Range(waiting))
        /\ (Answering => pat = "given" /\ \A i \in Item : Waits(i) => Enqueued(i))
    BY <1>4, <2>1 DEF Waiters
  <2>6. \A i \in Item : Waits(i)' => i \in Range(waiting')
    BY <1>3, <2>3, <2>4, <2>5
  <2>7. Answering' => pat' = "given" /\ \A i \in Item : Waits(i)' => Enqueued(i)'
    BY <1>3, <1>9, <2>3, <2>4, <2>5
  <2>8. QED  BY <2>2, <2>6, <2>7
<1>14. QED
  BY <1>9, <1>10, <1>11, <1>12, <1>13, Whole

LEMMA PullsStartedStep ==
  ASSUME IInv, PullsStarted
  PROVE  Inner'
<1>1. Top("pull") /\ Returns /\ Head(calls).left = <<>>
  BY DEF PullsStarted
<1>2. UNCHANGED <<queue, state, flow, op, status, waiting, pat, asked, current, pulling,
                  running, posted, handlers, popup, got, odd>>
  BY DEF PullsStarted, work, password, threads, window
<1>3. /\ TypeOK /\ Stacked /\ Flowing /\ Closed /\ ReadyGoes /\ BusyGoes /\ Alone /\ Got
      /\ Remembered /\ Waiters
  BY Parts
<1>4. calls # <<>> /\ Head(calls).do = "pull" /\ popup = "listed"
  BY <1>1, <1>3, TopOf, Listed
<1>5. /\ Stacked' /\ (Answering' => Answering) /\ (RestRests => RestRests' /\ Quiet')
      /\ (\A i \in Item : Enqueued(i) => Enqueued(i)') /\ ~Top("finish")'
  BY <1>1, <1>3, <1>4, Returned
<1>6. Flowing' /\ Closed' /\ Remembered'
  BY <1>2, <1>3, <1>4, FlowStays, ListedStays DEF Remembered
<1>7. ReadyGoes' /\ BusyGoes'
  <2>1. ~Going /\ ~Top("process")
    BY <1>1, <1>4 DEF Going, Top
  <2>2. Moving => Moving'
    BY <1>2, DataStays
  <2>3. QED  BY <1>2, <1>3, <2>1, <2>2 DEF ReadyGoes, BusyGoes
<1>8. Alone'
  <2>1. SUFFICES ASSUME Home
                 PROVE  TopRests' /\ RestRests' /\ Awaited' /\ AtRest' /\ Single'
    BY <1>2 DEF Alone, Home
  <2>2. TopRests /\ RestRests /\ Awaited /\ AtRest /\ Single
    BY <1>3, <2>1 DEF Alone
  <2>3. TopRests' /\ RestRests'
    BY <1>5, <2>2, QuietRests
  <2>4. Awaited' /\ AtRest' /\ Single'
    BY <1>2, <2>2, DataStays DEF AtRest, Single, Nothing
  <2>5. QED  BY <2>3, <2>4
<1>9. Got'
  <2>1. SUFFICES ASSUME Home
                 PROVE  GotFlow' /\ GotPosted' /\ GotTold' /\ GotDone'
    BY <1>2 DEF Got, Home
  <2>2. Calm'
    BY <1>3, <1>5, <2>1 DEF Alone, Quiet
  <2>3. QED  BY <1>2, <1>3, <2>1, <2>2, GotStays DEF Got
<1>10. Waiters'
  BY <1>2, <1>3, <1>5, WaitersStay DEF Waits, Asked
<1>11. QED
  BY <1>5, <1>6, <1>7, <1>8, <1>9, <1>10, Whole

\* A thread starts where none runs.
LEMMA FirstFlight ==
  ASSUME NEW e, running = <<>>, running' = Append(running, e)
  PROVE  Len(running') = 1 /\ DOMAIN running' = {1} /\ running'[1] = e
OBVIOUS

LEMMA FetchNextStep ==
  ASSUME IInv, NEW r \in Remote, FetchNext(r)
  PROVE  Inner'
<1> DEFINE e == [op |-> "fetch", for |-> flow.item, remote |-> r, home |-> current = flow.item]
<1>1. /\ Top("next") /\ flow # NoFlow /\ flow.next <= Len(RemotesOf[flow.item])
      /\ r = RemotesOf[flow.item][flow.next]
      /\ flow' = [flow EXCEPT !.next = @ + 1, !.current = r]
      /\ UNCHANGED <<queue, state, op, status, current, pulling, posted, handlers, window, got>>
  BY DEF FetchNext
<1>2. \/ /\ \/ ReturnsTo(Finish("Canceled"))
            \/ ReturnsTo(Finish("Skipped"))
         /\ UNCHANGED <<password, running, odd>>
      \/ /\ pat = "" /\ waiting' = Append(waiting, flow.item) /\ asked' = TRUE
         /\ ReturnsTo(Finish("PAT waiting"))
         /\ UNCHANGED <<pat, running, odd>>
      \/ /\ running' = Append(running, e) /\ Returns
         /\ UNCHANGED <<password, odd>>
      \/ /\ Returns /\ odd' = odd \cup {"refused"}
         /\ UNCHANGED <<password, running>>
  BY DEF FetchNext, Flies
<1>3. /\ TypeOK /\ Stacked /\ Flowing /\ Closed /\ ReadyGoes /\ Alone /\ Got /\ Remembered
      /\ Waiters
  BY Parts
<1>4. calls # <<>> /\ Head(calls).do = "next" /\ popup = "listed" /\ ~Top("process")
  BY <1>1, <1>3, TopOf, Listed DEF Top, Idle
<1>5. /\ flow.item \in Item /\ flow.next \in Nat /\ flow.next >= 1 /\ op # None
      /\ flow.next > 1 => flow.current = RemotesOf[flow.item][flow.next - 1]
      /\ RemotesOf[flow.item] \in Seq(Remote)
  BY <1>1, <1>3, RemotesAssumption DEF Flowing, TypeOK
<1>6. /\ flow'.item = flow.item /\ flow'.next = flow.next + 1 /\ flow'.current = r
      /\ flow' # NoFlow
  <2>1. flow'.item = flow.item /\ flow'.next = flow.next + 1 /\ flow'.current = r
    BY <1>1, <1>3 DEF TypeOK
  <2>2. QED  BY <1>5, <2>1, NoneAssumption DEF NoFlow
<1>7. /\ e.op = "fetch" /\ e.for = flow.item /\ e.remote = r
      /\ current = flow.item => e.home
  OBVIOUS
<1> HIDE DEF e
<1>8. ASSUME NEW w \in {"Canceled", "Skipped", "PAT waiting"}, ReturnsTo(Finish(w))
      PROVE  /\ Stacked' /\ (Answering' => Answering) /\ (RestRests => RestRests')
             /\ (\A i \in Item : Enqueued(i) => Enqueued(i)')
             /\ ~Top("process")' /\ ~Top("next")'
             /\ Top("finish")' /\ Going' /\ ~Top("told")' /\ ~Top("pull")'
             /\ Head(calls').with = w
  <2>1. Finish(w) \in Frame /\ Finish(w).do = "finish" /\ Finish(w).with = w
    BY NewFrames
  <2>2. calls' # <<>> /\ Head(calls') = Finish(w)
    BY <1>3, <1>4, <1>8, <2>1, TopReplace
  <2>3. /\ Stacked' /\ (Answering' => Answering) /\ (RestRests => RestRests')
        /\ \A i \in Item : Enqueued(i) => Enqueued(i)'
    BY <1>3, <1>4, <1>8, <2>1, Replaces
  <2>4. QED  BY <2>1, <2>2, <2>3 DEF Top, Idle, Going
<1>9. /\ Stacked' /\ (Answering' => Answering) /\ (RestRests => RestRests')
      /\ (\A i \in Item : Enqueued(i) => Enqueued(i)')
      /\ ~Top("process")' /\ ~Top("next")'
      /\ \/ /\ RestRests => Quiet'
            /\ ~Top("finish")' /\ UNCHANGED password
         \/ /\ Top("finish")' /\ Going' /\ ~Top("told")' /\ ~Top("pull")'
            /\ Head(calls').with # "Done" /\ UNCHANGED <<running, odd>>
            /\ \/ Head(calls').with # "PAT waiting" /\ UNCHANGED password
               \/ /\ pat = "" /\ waiting' = Append(waiting, flow.item) /\ asked' = TRUE
                  /\ UNCHANGED pat
  <2>1. CASE Returns /\ UNCHANGED password
    BY <1>3, <1>4, <2>1, Returned
  <2>2. CASE /\ ReturnsTo(Finish("Canceled")) \/ ReturnsTo(Finish("Skipped"))
             /\ UNCHANGED <<password, running, odd>>
    BY <1>8, <2>2
  <2>3. CASE /\ pat = "" /\ waiting' = Append(waiting, flow.item) /\ asked' = TRUE
             /\ ReturnsTo(Finish("PAT waiting")) /\ UNCHANGED <<pat, running, odd>>
    BY <1>8, <2>3
  <2>4. QED  BY <1>2, <2>1, <2>2, <2>3
<1>10. Flowing' /\ Closed'
  BY <1>1, <1>4, <1>5, <1>6, ListedStays DEF Flowing, window
<1>11. Remembered'
  <2>1. UNCHANGED password \/ asked'
    BY <1>2
  <2>2. QED  BY <1>1, <1>3, <1>5, <2>1 DEF Remembered, password
<1>12. ReadyGoes'
  BY <1>1, <1>3, <1>4 DEF ReadyGoes
<1>13. BusyGoes'
  <2>1. CASE Going' \/ "refused" \in odd'
    BY <2>1 DEF BusyGoes
  <2>2. CASE running' = Append(running, e)
    <3>0. running \in Seq(Flight)
      BY <1>3 DEF TypeOK
    <3>1. Len(running) + 1 \in DOMAIN running' /\ running'[Len(running) + 1] = e
      BY <1>1, <2>2, <3>0, FlightsGrow
    <3>2. Moving'
      BY <1>6, <1>7, <3>1 DEF Moving, Aloft, Matches
    <3>3. QED  BY <3>2 DEF BusyGoes
  <2>3. Going' \/ "refused" \in odd' \/ running' = Append(running, e)
    <3>1. CASE Top("finish")'
      BY <3>1 DEF Going
    <3>2. CASE ~Top("finish")'
      BY <1>2, <1>8, <3>2
    <3>3. QED  BY <3>1, <3>2
  <2>4. QED  BY <2>1, <2>2, <2>3
<1>14. odd \subseteq odd' /\ odd' \subseteq odd \cup {"refused"}
  BY <1>2
<1>15. Alone'
  <2>1. SUFFICES ASSUME Home
                 PROVE  TopRests' /\ RestRests' /\ Awaited' /\ AtRest' /\ Single'
    BY <1>14 DEF Alone, Home
  <2>2. TopRests /\ RestRests /\ Awaited /\ AtRest /\ Single
    BY <1>3, <2>1 DEF Alone
  <2>3. /\ running = <<>> /\ posted = <<>> /\ handlers = <<>> /\ state \in Busy
        /\ current = flow.item
    BY <1>1, <2>2 DEF TopRests, Going, Nothing, Single
  <2>4. TopRests'
    <3>1. CASE Quiet'
      BY <3>1, QuietRests
    <3>2. CASE Top("finish")' /\ ~Top("told")' /\ ~Top("pull")' /\ UNCHANGED running
      BY <1>1, <1>6, <1>9, <2>3, <3>2 DEF TopRests, Nothing
    <3>3. QED  BY <1>9, <2>2, <3>1, <3>2
  <2>5. Awaited' /\ Single'
    <3>1. CASE UNCHANGED running
      BY <1>1, <1>6, <2>3, <3>1 DEF Awaited, Single
    <3>2. CASE running' = Append(running, e)
      <4>1. Len(running') = 1 /\ DOMAIN running' = {1} /\ running'[1] = e
        BY <2>3, <3>2, FirstFlight
      <4>2. QED  BY <1>1, <1>6, <1>7, <2>3, <4>1 DEF Awaited, Single, Expected
    <3>3. QED  BY <1>2, <3>1, <3>2
  <2>6. AtRest'
    BY <1>1, <2>3 DEF AtRest, Busy
  <2>7. QED  BY <1>9, <2>2, <2>4, <2>5, <2>6
<1>16. Got'
  <2>1. SUFFICES ASSUME Home
                 PROVE  GotFlow' /\ GotPosted' /\ GotTold' /\ GotDone'
    BY <1>14 DEF Got, Home
  <2>2. GotFlow /\ GotPosted /\ GotDone
    BY <1>3, <2>1 DEF Got
  <2>3. ASSUME NEW k \in 1..flow.next - 1
        PROVE  RemotesOf[flow.item][k] \in got[flow.item]
    <3>1. CASE k = flow.next - 1
      BY <1>1, <1>5, <2>2, <3>1 DEF GotFlow
    <3>2. CASE k # flow.next - 1
      <4>1. k \in 1..flow.next - 2
        BY <1>5, <3>2
      <4>2. QED  BY <1>1, <2>2, <4>1 DEF GotFlow, GotSoFar
    <3>3. QED  BY <3>1, <3>2
  <2>4. GotSoFar'
    <3>1. flow'.next - 2 = flow.next - 1
      BY <1>5, <1>6
    <3>2. QED  BY <1>1, <1>6, <2>3, <3>1 DEF GotSoFar
  <2>5. GotPosted' /\ GotDone'
    BY <1>1, <2>2 DEF GotPosted, GotDone
  <2>6. GotFlow' /\ GotTold'
    <3>1. CASE Quiet'
      BY <2>4, <3>1, CalmKeeps DEF Quiet
    <3>2. CASE Top("finish")' /\ ~Top("told")' /\ Head(calls').with # "Done"
      BY <1>9, <2>4, <3>2 DEF GotFlow, GotTold
    <3>3. QED  BY <1>3, <1>9, <2>1, <3>1, <3>2 DEF Alone
  <2>7. QED  BY <2>5, <2>6
<1>17. Waiters'
  <2>1. \A i \in Item : Waits(i)' => Waits(i)
    BY <1>1 DEF Waits
  <2>2. Asked' => Asked
    BY <1>14 DEF Asked
  <2>3. CASE UNCHANGED password /\ ~(Top("finish") /\ Head(calls).with = "PAT waiting")'
    BY <1>3, <1>9, <2>1, <2>2, <2>3, WaitersStay DEF password
  <2>4. CASE /\ pat = "" /\ waiting' = Append(waiting, flow.item) /\ UNCHANGED pat
    <3>1. waiting \in Seq(Item)
      BY <1>3 DEF TypeOK
    <3>2. /\ \A i : i \in Range(waiting) => i \in Range(waiting')
          /\ flow.item \in Range(waiting')
      BY <1>5, <2>4, <3>1, RangeAppend
    <3>3. Asked => ~Answering /\ ~Answering'
      BY <1>3, <1>9, <2>4 DEF Waiters
    <3>4. QED  BY <1>3, <1>6, <2>1, <2>2, <3>2, <3>3 DEF Waiters
  <2>5. QED  BY <1>9, <2>3, <2>4
<1>18. QED
  BY <1>9, <1>10, <1>11, <1>12, <1>13, <1>15, <1>16, <1>17, Whole

LEMMA NoElements ==
  ASSUME NEW S, NEW s \in Seq(S)
  PROVE  Len(s) \in Nat /\ (Len(s) = 0 <=> s = <<>>)
OBVIOUS

LEMMA OneElement ==
  ASSUME NEW S, NEW s \in Seq(S), s # <<>>, Len(s) <= 1
  PROVE  Len(s) = 1 /\ Tail(s) = <<>> /\ s = <<Head(s)>>
<1>1. Len(s) = 1
  <2>1. Len(s) \in Nat /\ (Len(s) = 0 => s = <<>>)
    BY NoElements
  <2>2. QED  BY <2>1
<1>2. Tail(s) = <<>>
  <2>1. Tail(s) \in Seq(S) /\ Len(Tail(s)) = Len(s) - 1
    OBVIOUS
  <2>2. Len(Tail(s)) = 0
    BY <1>1, <2>1
  <2>3. QED  BY <2>1, <2>2, NoElements
<1>3. s = <<Head(s)>>
  BY <1>1
<1>4. QED  BY <1>1, <1>2, <1>3

LEMMA PullNextStep ==
  ASSUME IInv, NEW i \in Item, NEW r \in Remote, PullNext(i, r)
  PROVE  Inner'
<1> DEFINE f == Head(calls)
           after == [f EXCEPT !.left = Tail(@)]
           e == [op |-> "pull", for |-> i, remote |-> r, home |-> current = i]
<1>1. /\ Top("pull") /\ f.for = i /\ f.left # <<>> /\ r = Head(f.left)
      /\ UNCHANGED <<queue, state, flow, op, password, current, posted, window, got>>
  BY DEF PullNext
<1>2. \/ /\ handlers' = Append(handlers, i) /\ running' = Append(running, e)
         /\ ReturnsTo(after)
         /\ UNCHANGED <<status, odd>>
      \/ /\ status' = [status EXCEPT ![i] = "Canceled"]
         /\ Calls(Process, after)
         /\ UNCHANGED <<handlers, running, odd>>
      \/ /\ status' = [status EXCEPT ![i] = "PAT waiting"]
         /\ odd' = odd \cup {"unasked"}
         /\ Calls(Process, after)
         /\ UNCHANGED <<handlers, running>>
  BY DEF PullNext, Flies
<1>3. /\ TypeOK /\ Stacked /\ Flowing /\ Closed /\ ReadyGoes /\ BusyGoes /\ Alone /\ Got
      /\ Remembered /\ Waiters
  BY Parts
<1>4. calls # <<>> /\ f \in Frame /\ f.do = "pull" /\ popup = "listed" /\ ~Top("process")
  BY <1>1, <1>3, TopOf, Listed DEF Top, Idle
<1>5. /\ f.left \in Seq(Remote)
      /\ after \in Frame /\ after.do = "pull" /\ after.left = Tail(f.left)
  BY <1>1, <1>4, After, FrameParts
<1>6. /\ e.op = "pull" /\ e.for = i /\ e.remote = r
      /\ current = i => e.home
  OBVIOUS
<1>7. f = Head(calls)
  OBVIOUS
<1> HIDE DEF f, after, e
<1>8. Home => /\ running = <<>> /\ posted = <<>> /\ handlers = <<>> /\ flow = NoFlow
              /\ state \in Busy /\ current = i /\ f.left = RemotesOf[i] /\ Len(f.left) = 1
              /\ Tail(f.left) = <<>> /\ RestRests
  <2>1. SUFFICES ASSUME Home
                 PROVE  /\ running = <<>> /\ posted = <<>> /\ handlers = <<>> /\ flow = NoFlow
                        /\ state \in Busy /\ current = i /\ f.left = RemotesOf[i]
                        /\ Len(f.left) = 1 /\ Tail(f.left) = <<>> /\ RestRests
    OBVIOUS
  <2>2. TopRests /\ RestRests
    BY <1>3, <2>1 DEF Alone
  <2>3. /\ running = <<>> /\ posted = <<>> /\ handlers = <<>> /\ flow = NoFlow
        /\ state \in Busy /\ current = i /\ f.left = RemotesOf[i]
    BY <1>1, <1>7, <2>2 DEF TopRests, Going, Nothing
  <2>4. Len(f.left) <= 1
    <3>1. f = calls[1] /\ 1 \in 1..Len(calls)
      BY <1>1, <1>3, <1>7, TopOf
    <3>2. QED  BY <1>4, <2>2, <3>1 DEF RestRests
  <2>5. Len(f.left) = 1 /\ Tail(f.left) = <<>>
    BY <1>1, <1>5, <2>4, OneElement
  <2>6. QED  BY <2>2, <2>3, <2>5
<1>9. /\ Stacked' /\ (Answering' => Answering)
      /\ (\A j \in Item : Enqueued(j) => Enqueued(j)')
      /\ RestRests /\ Tail(f.left) = <<>> => RestRests'
  <2>1. CASE ReturnsTo(after)
    <3>1. /\ Stacked' /\ (Answering' => Answering)
          /\ (\A j \in Item : Enqueued(j) => Enqueued(j)')
          /\ RestRests /\ Len(after.left) <= 1 => RestRests'
      BY <1>3, <1>4, <1>5, <1>7, <2>1, Replaces
    <3>2. Tail(f.left) = <<>> => Len(after.left) <= 1
      <4>1. Len(<<>>) <= 1
        OBVIOUS
      <4>2. QED  BY <1>5, <4>1
    <3>3. QED  BY <3>1, <3>2
  <2>2. CASE Calls(Process, after)
    BY <1>3, <1>4, <1>5, <1>7, <2>2, Pushes
  <2>3. QED  BY <1>2, <2>1, <2>2
<1>10. /\ ReturnsTo(after) => /\ Tail(f.left) = <<>> => Quiet'
                              /\ ~Top("finish")'
       /\ Calls(Process, after) => Head(calls') = Process /\ calls' # <<>>
  <2>1. ASSUME ReturnsTo(after)
        PROVE  (Tail(f.left) = <<>> => Quiet') /\ ~Top("finish")'
    <3>1. calls' # <<>> /\ Head(calls') = after
      BY <1>3, <1>4, <1>5, <2>1, TopReplace
    <3>2. QED  BY <1>5, <3>1 DEF Quiet, Calm, Top, Idle
  <2>2. ASSUME Calls(Process, after)
        PROVE  Head(calls') = Process /\ calls' # <<>>
    BY <1>3, <1>4, <1>5, <2>2, TopPush, NewFrames
  <2>3. QED  BY <2>1, <2>2
<1>11. Flowing' /\ Closed' /\ Remembered'
  BY <1>1, <1>3, <1>4, FlowStays, ListedStays DEF password, window, Remembered
<1>12. odd \subseteq odd' /\ odd' \subseteq odd \cup {"unasked"}
  BY <1>2
<1>13. ReadyGoes' /\ BusyGoes'
  <2>1. CASE Calls(Process, after)
    BY <1>10, <2>1, ProcessRests DEF ReadyGoes, BusyGoes
  <2>2. CASE running' = Append(running, e) /\ handlers' = Append(handlers, i)
    <3>1. running \in Seq(Flight) /\ handlers \in Seq(Item)
      BY <1>3 DEF TypeOK
    <3>2. Len(running) + 1 \in DOMAIN running' /\ running'[Len(running) + 1] = e
      BY <1>1, <2>2, <3>1, FlightsGrow
    <3>3. handlers' # <<>>
      BY <2>2, <3>1
    <3>4. Moving'
      BY <1>6, <3>2, <3>3 DEF Moving, Aloft, Matches
    <3>5. QED  BY <1>1, <1>3, <1>4, <3>4 DEF ReadyGoes, BusyGoes
  <2>3. QED  BY <1>2, <2>1, <2>2
<1>14. Alone'
  <2>1. SUFFICES ASSUME Home
                 PROVE  TopRests' /\ RestRests' /\ Awaited' /\ AtRest' /\ Single'
    BY <1>12 DEF Alone, Home
  <2>2. /\ posted' = <<>> /\ flow' = NoFlow /\ state' \in Busy /\ RestRests'
    BY <1>1, <1>8, <1>9, <2>1
  <2>3. AtRest'
    BY <2>2 DEF AtRest, Busy
  <2>4. CASE UNCHANGED <<handlers, running>> /\ Calls(Process, after)
    <3>1. running' = <<>> /\ handlers' = <<>> /\ calls' # <<>> /\ Head(calls') = Process
      BY <1>8, <1>10, <2>1, <2>4
    <3>2. TopRests' /\ Awaited' /\ Single'
      BY <2>2, <3>1, ProcessRests DEF Awaited, Single, Nothing
    <3>3. QED  BY <2>2, <2>3, <3>2
  <2>5. CASE /\ handlers' = Append(handlers, i) /\ running' = Append(running, e)
             /\ ReturnsTo(after)
    <3>1. Len(running') = 1 /\ DOMAIN running' = {1} /\ running'[1] = e
      BY <1>8, <2>1, <2>5, FirstFlight
    <3>2. handlers' = <<i>> /\ Len(handlers') = 1
      BY <1>8, <2>1, <2>5
    <3>3. RemotesOf[i] = <<r>>
      BY <1>1, <1>5, <1>8, <2>1
    <3>4. TopRests'
      BY <1>8, <1>10, <2>1, <2>5, QuietRests
    <3>5. Awaited' /\ Single'
      BY <1>6, <1>8, <2>1, <2>2, <3>1, <3>2, <3>3 DEF Awaited, Single, Expected
    <3>6. QED  BY <2>2, <2>3, <3>4, <3>5
  <2>6. QED  BY <1>2, <2>4, <2>5
<1>15. Got'
  <2>1. SUFFICES ASSUME Home
                 PROVE  GotFlow' /\ GotPosted' /\ GotTold' /\ GotDone'
    BY <1>12 DEF Got, Home
  <2>2. Calm'
    BY <1>2, <1>8, <1>10, <2>1, ProcessRests DEF Quiet
  <2>3. \A j \in Item : status'[j] = "Done" => status[j] = "Done"
    BY <1>2, <1>3 DEF TypeOK
  <2>4. QED  BY <1>1, <1>3, <2>1, <2>2, <2>3, GotStays DEF Got
<1>16. Waiters'
  <2>1. CASE "unasked" \in odd'
    BY <2>1 DEF Waiters, Asked
  <2>2. CASE \A j \in Item : Waits(j)' => Waits(j)
    <3>1. ~(Top("finish") /\ Head(calls).with = "PAT waiting")'
      BY <1>2, <1>10, ProcessRests, CalmKeeps
    <3>2. Asked' => Asked
      BY <1>12 DEF Asked
    <3>3. QED  BY <1>1, <1>3, <1>9, <2>2, <3>1, <3>2, WaitersStay DEF password
  <2>3. QED  BY <1>2, <1>3, <2>1, <2>2 DEF Waits, TypeOK
<1>17. QED
  BY <1>9, <1>11, <1>13, <1>14, <1>15, <1>16, Whole

\* Nothing moves the queue on while something is under way.
LEMMA NotGoing ==
  ASSUME ~Going'
  PROVE  /\ TopRests' /\ GotTold' /\ (GotSoFar' => GotFlow')
         /\ ~Top("finish")' /\ ~Top("process")'
BY DEF Going, TopRests, GotTold, GotFlow

LEMMA Ended ==
  ASSUME running \in Seq(Flight), posted \in Seq(Outcome),
         NEW k \in 1..Len(running), NEW ok \in BOOLEAN, End(k, ok)
  PROVE  /\ FlightsKept /\ running # <<>>
         /\ Len(running') + Len(posted') = Len(running) + Len(posted)
         /\ \A j \in DOMAIN running' : \E m \in DOMAIN running : running'[j] = running[m]
         /\ \A m \in DOMAIN posted' :
              \/ m \in DOMAIN posted /\ posted'[m] = posted[m]
              \/ posted'[m] = [flight |-> running[k], ok |-> ok]
<1> DEFINE e == [flight |-> running[k], ok |-> ok]
<1>1. posted' = Append(posted, e)
      /\ running' = [j \in 1..Len(running) - 1 |-> running[IF j < k THEN j ELSE j + 1]]
  BY DEF End
<1>2. e.flight = running[k]
  OBVIOUS
<1> HIDE DEF e
<1>3. /\ DOMAIN posted' = 1..Len(posted) + 1 /\ posted'[Len(posted) + 1] = e
      /\ \A m \in 1..Len(posted) : posted'[m] = posted[m]
      /\ DOMAIN posted = 1..Len(posted) /\ Len(posted) \in Nat /\ Len(posted') = Len(posted) + 1
  BY <1>1
<1>4. DOMAIN running = 1..Len(running) /\ Len(running) \in Nat \ {0} /\ running # <<>>
  OBVIOUS
<1>5. DOMAIN running' = 1..Len(running) - 1 /\ Len(running') = Len(running) - 1
  <2>1. running' \in Seq(Flight)
    BY <1>1, Without
  <2>2. DOMAIN running' = 1..Len(running')
    BY <2>1
  <2>3. DOMAIN running' = 1..Len(running) - 1
    BY <1>1
  <2>4. Len(running') \in Nat /\ Len(running) - 1 \in Nat
    BY <1>4, <2>1
  <2>5. QED  BY <2>2, <2>3, <2>4
<1>6. \A j \in DOMAIN running' : running'[j] = running[IF j < k THEN j ELSE j + 1]
  BY <1>1, <1>5
<1>7. \A j \in DOMAIN running' : \E m \in DOMAIN running : running'[j] = running[m]
  <2>1. TAKE j \in DOMAIN running'
  <2>2. (IF j < k THEN j ELSE j + 1) \in DOMAIN running
    BY <1>4, <1>5
  <2>3. QED  BY <1>6, <2>2
<1>8. FlightsKept
  <2>1. ASSUME NEW j \in DOMAIN running
        PROVE  \/ \E m \in DOMAIN running' : running'[m] = running[j]
               \/ \E m \in DOMAIN posted' : posted'[m].flight = running[j]
    <3>1. CASE j < k
      <4>1. j \in DOMAIN running' /\ running'[j] = running[j]
        BY <1>4, <1>5, <1>6, <3>1
      <4>2. QED  BY <4>1
    <3>2. CASE j = k
      BY <1>2, <1>3, <3>2
    <3>3. CASE j > k
      <4>1. j - 1 \in DOMAIN running' /\ ~(j - 1 < k) /\ j - 1 + 1 = j
        BY <1>4, <1>5, <3>3
      <4>2. running'[j - 1] = running[j]
        BY <1>6, <4>1
      <4>3. QED  BY <4>1, <4>2
    <3>4. QED  BY <1>4, <3>1, <3>2, <3>3
  <2>2. \A m \in DOMAIN posted : m \in DOMAIN posted' /\ posted'[m] = posted[m]
    BY <1>3
  <2>3. QED  BY <2>1, <2>2 DEF FlightsKept, Same
<1>9. \A m \in DOMAIN posted' :
        (m \in DOMAIN posted /\ posted'[m] = posted[m]) \/ posted'[m] = e
  BY <1>3
<1>10. QED  BY <1>3, <1>4, <1>5, <1>7, <1>8, <1>9 DEF e

LEMMA ElementOf ==
  ASSUME NEW S, NEW s \in Seq(S)
  PROVE  DOMAIN s = 1..Len(s) /\ \A k \in 1..Len(s) : s[k] \in S
OBVIOUS

LEMMA EndStep ==
  ASSUME IInv, NEW k \in 1..Len(running), NEW ok \in BOOLEAN, End(k, ok)
  PROVE  Inner'
<1>1. UNCHANGED <<queue, state, flow, op, status, waiting, pat, asked, current, handlers,
                  popup, calls, odd>>
  BY DEF End, work, password, window
<1>2. /\ TypeOK /\ Stacked /\ Flowing /\ Closed /\ ReadyGoes /\ BusyGoes /\ Alone /\ Got
      /\ Remembered /\ Waiters
  BY Parts
<1>3. /\ running \in Seq(Flight) /\ posted \in Seq(Outcome) /\ running[k] \in Flight
      /\ k \in DOMAIN running
  <2>1. running \in Seq(Flight) /\ posted \in Seq(Outcome)
    BY <1>2 DEF TypeOK
  <2>2. QED  BY <2>1, ElementOf
<1>4. /\ FlightsKept /\ running # <<>>
      /\ Len(running') + Len(posted') = Len(running) + Len(posted)
      /\ \A j \in DOMAIN running' : \E m \in DOMAIN running : running'[j] = running[m]
      /\ \A m \in DOMAIN posted' :
           \/ m \in DOMAIN posted /\ posted'[m] = posted[m]
           \/ posted'[m] = [flight |-> running[k], ok |-> ok]
  BY <1>3, Ended
<1>5. /\ Stacked' /\ (RestRests => RestRests') /\ (Answering' => Answering)
      /\ (\A j \in Item : Enqueued(j) => Enqueued(j)') /\ \A d : Top(d)' = Top(d)
  BY <1>1, <1>2, Keeps
<1>6. Flowing' /\ Closed' /\ Remembered' /\ ReadyGoes'
  BY <1>1, <1>2, <1>5 DEF Flowing, Closed, Remembered, ReadyGoes
<1>7. Going' => Going
  BY <1>1 DEF Going, Top, Idle
<1>8. BusyGoes'
  <2>1. Moving => Moving'
    BY <1>1, <1>4, MovingStays
  <2>2. Going => Going'
    BY <1>1 DEF Going, Top, Idle
  <2>3. QED  BY <1>1, <1>2, <2>1, <2>2 DEF BusyGoes
<1>9. Home => TopRests /\ RestRests /\ Awaited /\ AtRest /\ Single /\ ~Going
  BY <1>2, <1>4 DEF Alone, TopRests, Nothing
<1>10. Alone'
  <2>1. SUFFICES ASSUME Home
                 PROVE  TopRests' /\ RestRests' /\ Awaited' /\ AtRest' /\ Single'
    BY <1>1 DEF Alone, Home
  <2>2. TopRests'
    BY <1>7, <1>9, <2>1, NotGoing
  <2>3. Awaited'
    <3>1. ASSUME NEW j \in DOMAIN running'
          PROVE  (running[j].home /\ Expected(running[j]))'
      <4>1. PICK m \in DOMAIN running : running'[j] = running[m]
        BY <1>4
      <4>2. running[m].home /\ Expected(running[m])
        BY <1>9, <2>1 DEF Awaited
      <4>3. QED  BY <1>1, <4>1, <4>2 DEF Expected
    <3>2. ASSUME NEW m \in DOMAIN posted'
          PROVE  Expected(posted[m].flight)'
      <4>1. CASE m \in DOMAIN posted /\ posted'[m] = posted[m]
        <5>1. Expected(posted[m].flight)
          BY <1>9, <2>1, <4>1 DEF Awaited
        <5>2. QED  BY <1>1, <4>1, <5>1 DEF Expected
      <4>2. CASE posted'[m] = [flight |-> running[k], ok |-> ok]
        <5>1. posted'[m].flight = running[k]
          BY <4>2
        <5>2. Expected(running[k])
          BY <1>3, <1>9, <2>1 DEF Awaited
        <5>3. QED  BY <1>1, <5>1, <5>2 DEF Expected
      <4>3. QED  BY <1>4, <4>1, <4>2
    <3>3. QED  BY <3>1, <3>2 DEF Awaited
  <2>4. AtRest' /\ Single'
    BY <1>1, <1>4, <1>9, <2>1 DEF AtRest, Single, Nothing
  <2>5. QED  BY <1>5, <1>9, <2>1, <2>2, <2>3, <2>4
<1>11. Got'
  <2>1. SUFFICES ASSUME Home
                 PROVE  GotFlow' /\ GotPosted' /\ GotTold' /\ GotDone'
    BY <1>1 DEF Got, Home
  <2>2. GotFlow /\ GotPosted /\ GotDone
    BY <1>2, <2>1 DEF Got
  <2>3. running[k].home /\ running[k].for \in Item /\ running[k].remote \in Remote
    BY <1>3, <1>9, <2>1 DEF Awaited, Flight
  <2>4. /\ \A i \in Item : got[i] \subseteq got'[i]
        /\ ok => running[k].remote \in got'[running[k].for]
    <3>1. got \in [Item -> SUBSET Remote]
      BY <1>2 DEF TypeOK
    <3>2. CASE ok
      <4>1. got' = [got EXCEPT ![running[k].for] = @ \cup {running[k].remote}]
        BY <2>3, <3>2 DEF End
      <4>2. QED  BY <2>3, <3>1, <4>1
    <3>3. CASE ~ok
      BY <3>3 DEF End
    <3>4. QED  BY <3>2, <3>3
  <2>5. GotSoFar'
    BY <1>1, <1>2, <2>2, <2>4 DEF GotFlow, GotSoFar, Flowing
  <2>6. GotPosted'
    <3>1. ASSUME NEW m \in DOMAIN posted', posted'[m].ok
          PROVE  posted'[m].flight.remote \in got'[posted'[m].flight.for]
      <4>1. CASE m \in DOMAIN posted /\ posted'[m] = posted[m]
        <5>1. posted[m].flight.for \in Item
          <6>1. posted[m] \in Outcome
            BY <1>3, <4>1, ElementOf
          <6>2. QED  BY <6>1 DEF Outcome, Flight
        <5>2. QED  BY <2>2, <2>4, <3>1, <4>1, <5>1 DEF GotPosted
      <4>2. CASE posted'[m] = [flight |-> running[k], ok |-> ok]
        <5>1. posted'[m].flight = running[k] /\ posted'[m].ok = ok
          BY <4>2
        <5>2. QED  BY <2>4, <3>1, <5>1
      <4>3. QED  BY <1>4, <4>1, <4>2
    <3>2. QED  BY <3>1 DEF GotPosted
  <2>7. GotDone'
    BY <1>1, <2>2, <2>4 DEF GotDone
  <2>8. QED  BY <1>7, <1>9, <2>1, <2>5, <2>6, <2>7, NotGoing
<1>12. Waiters'
  BY <1>1, <1>2 DEF Waiters, Waits, Asked, Answering, Enqueued, Top, Idle
<1>13. QED
  BY <1>5, <1>6, <1>8, <1>10, <1>11, <1>12, Whole
\* Between two events.
LEMMA AtIdle ==
  ASSUME IInv, Idle
  PROVE  /\ TypeOK /\ Stacked /\ Flowing /\ Closed /\ Alone /\ Got /\ Remembered /\ Waiters
         /\ ~Going /\ ~Answering /\ (\A i : ~Enqueued(i)) /\ (\A d : ~Top(d))
         /\ state = "Ready" => queue = <<>>
         /\ state \in Busy /\ odd \cap {"left", "refused"} = {} => Moving
<1>1. /\ TypeOK /\ Stacked /\ Flowing /\ Closed /\ ReadyGoes /\ BusyGoes
      /\ Alone /\ Got /\ Remembered /\ Waiters
  BY Parts
<1>2. calls = <<>> /\ (\A d : ~Top(d)) /\ ~Going
  BY DEF Idle, Top, Going
<1>3. 1..Len(calls) = {}
  BY <1>2
<1>4. ~Answering /\ (\A i : ~Enqueued(i))
  BY <1>3 DEF Answering, Enqueued
<1>5. QED  BY <1>1, <1>2, <1>4 DEF ReadyGoes, BusyGoes

LEMMA IdleStays ==
  ASSUME calls' = <<>>
  PROVE  /\ Stacked' /\ RestRests' /\ TopRests' /\ GotTold' /\ (GotSoFar' => GotFlow')
         /\ ~Going' /\ ~Answering' /\ (\A i : ~Enqueued(i)') /\ (\A d : ~Top(d)')
<1>1. 1..Len(calls)' = {} /\ 2..Len(calls)' = {}
  OBVIOUS
<1>2. (\A d : ~Top(d)') /\ ~Going'
  BY DEF Idle, Top, Going
<1>3. Stacked' /\ RestRests' /\ ~Answering' /\ (\A i : ~Enqueued(i)')
  BY <1>1 DEF Stacked, RestRests, Answering, Enqueued
<1>4. QED  BY <1>2, <1>3, NotGoing

\* What the buttons leave alone.
LEMMA UserActed ==
  ASSUME IInv, UserActs,
         UNCHANGED <<flow, op, status, password, current, running, posted, handlers,
                     popup, got, odd>>,
         NEW f \in Frame, f.do \in {"process", "enqueue"},
         calls' = <<>> \/ calls' = <<f>>,
         Home => AtRest',
         Home /\ calls' # <<>> => Nothing /\ flow = NoFlow /\ handlers = <<>>
  PROVE  Stacked' /\ Flowing' /\ Closed' /\ Alone' /\ Got' /\ Remembered' /\ Waiters'
<1>1. Idle /\ popup = "listed"
  BY DEF UserActs
<1>2. /\ TypeOK /\ Stacked /\ Flowing /\ Closed /\ Alone /\ Got /\ Remembered /\ Waiters
      /\ ~Going /\ ~Answering /\ (\A i : ~Enqueued(i)) /\ (\A d : ~Top(d))
  BY <1>1, AtIdle
<1>3. /\ Stacked' /\ ~Answering' /\ RestRests'
  BY News
<1>4. Calm' /\ (calls' # <<>> => Head(calls') = f)
  BY DEF Calm
<1>5. Flowing' /\ Closed' /\ Remembered'
  BY <1>1, <1>2, FlowStays, ListedStays DEF Remembered, password
<1>6. Alone'
  <2>1. SUFFICES ASSUME Home
                 PROVE  TopRests' /\ RestRests' /\ Awaited' /\ AtRest' /\ Single'
    BY DEF Alone, Home
  <2>2. Awaited /\ Single
    BY <1>2, <2>1 DEF Alone
  <2>3. Awaited' /\ Single'
    BY <2>2, DataStays DEF Single
  <2>4. TopRests'
    <3>1. CASE calls' = <<>>
      BY <3>1, IdleStays
    <3>2. CASE calls' = <<f>>
      <4>1. /\ Nothing' /\ flow' = NoFlow /\ handlers' = <<>>
            /\ calls' # <<>> /\ Head(calls') = f
        BY <2>1, <3>2, DataStays
      <4>2. QED  BY <4>1 DEF TopRests, Top, Idle
    <3>3. QED  BY <3>1, <3>2
  <2>5. QED  BY <1>3, <2>1, <2>3, <2>4
<1>7. Got'
  <2>1. SUFFICES ASSUME Home
                 PROVE  GotFlow' /\ GotPosted' /\ GotTold' /\ GotDone'
    BY DEF Got, Home
  <2>2. QED  BY <1>2, <1>4, <2>1, GotStays DEF Got
<1>8. Waiters'
  <2>1. ~(Top("finish") /\ Head(calls).with = "PAT waiting")'
    BY <1>4, CalmKeeps
  <2>2. QED  BY <1>2, <1>3, <2>1, WaitersStay DEF password, Waits, Asked
<1>9. QED  BY <1>3, <1>5, <1>6, <1>7, <1>8

LEMMA AskStep ==
  ASSUME IInv, NEW o \in Op, NEW items \in Selection, Ask(o, items)
  PROVE  Inner'
<1> DEFINE f == [do |-> "enqueue", op |-> o, items |-> items]
<1>1. /\ UserActs /\ state = "Ready" /\ calls' = <<f>>
      /\ UNCHANGED <<queue, state, flow, op, status, password, current, running, posted,
                     handlers, popup, got, odd>>
  BY DEF Ask, work, threads
<1>2. f \in Frame /\ f.do = "enqueue"
  BY RemotesAssumption, NewFrames
<1> HIDE DEF f
<1>3. Alone /\ queue = <<>>
  BY <1>1, AtIdle DEF UserActs
<1>4. Home => /\ AtRest' /\ Nothing /\ flow = NoFlow /\ handlers = <<>>
  BY <1>1, <1>3 DEF Alone, AtRest, Nothing
<1>5. Stacked' /\ Flowing' /\ Closed' /\ Alone' /\ Got' /\ Remembered' /\ Waiters'
  BY <1>1, <1>2, <1>4, UserActed
<1>6. ReadyGoes' /\ BusyGoes'
  BY <1>1, <1>3 DEF ReadyGoes, BusyGoes, Busy
<1>7. QED  BY <1>5, <1>6, Whole

LEMMA PauseQueueStep ==
  ASSUME IInv, PauseQueue
  PROVE  Inner'
<1>1. /\ UserActs /\ state = "Running" /\ state' = "PauseRequested"
      /\ UNCHANGED <<queue, flow, op, status, password, current, running, posted,
                     handlers, popup, calls, got, odd>>
  BY DEF PauseQueue, threads, window
<1>2. Idle /\ calls' = <<>>
  BY <1>1 DEF UserActs, Idle
<1>3. odd \cap {"left", "refused"} = {} => Moving
  BY <1>1, <1>2, AtIdle DEF Busy
<1>4. AtRest'
  BY <1>1 DEF AtRest
<1>5. Stacked' /\ Flowing' /\ Closed' /\ Alone' /\ Got' /\ Remembered' /\ Waiters'
  BY <1>1, <1>2, <1>4, UserActed, NewFrames
<1>6. ReadyGoes' /\ BusyGoes'
  BY <1>1, <1>3, DataStays DEF ReadyGoes, BusyGoes
<1>7. QED  BY <1>5, <1>6, Whole

LEMMA ResumeQueueStep ==
  ASSUME IInv, ResumeQueue
  PROVE  Inner'
<1>1. /\ UserActs /\ state = "Pause" /\ state' = "Ready"
      /\ calls' = IF queue = <<>> THEN <<>> ELSE <<Process>>
      /\ UNCHANGED <<queue, flow, op, status, password, current, running, posted,
                     handlers, popup, got, odd>>
  BY DEF ResumeQueue, threads, window
<1>2. Alone
  BY <1>1, AtIdle DEF UserActs
<1>3. Home => /\ AtRest' /\ Nothing /\ flow = NoFlow /\ handlers = <<>>
  BY <1>1, <1>2 DEF Alone, AtRest, Nothing
<1>4. Stacked' /\ Flowing' /\ Closed' /\ Alone' /\ Got' /\ Remembered' /\ Waiters'
  BY <1>1, <1>3, UserActed, NewFrames
<1>5. queue # <<>> => Top("process")'
  <2>1. queue # <<>> => calls' # <<>> /\ Head(calls') = Process
    BY <1>1
  <2>2. QED  BY <2>1, ProcessRests
<1>6. ReadyGoes' /\ BusyGoes'
  BY <1>1, <1>5 DEF ReadyGoes, BusyGoes, Busy
<1>7. QED  BY <1>4, <1>6, Whole

LEMMA StopQueueStep ==
  ASSUME IInv, StopQueue
  PROVE  Inner'
<1>1. /\ UserActs /\ state \in {"Running", "Pause"} /\ state' = "Stop"
      /\ calls' = IF state = "Pause" THEN <<Process>> ELSE <<>>
      /\ UNCHANGED <<queue, flow, op, status, password, current, running, posted,
                     handlers, popup, got, odd>>
  BY DEF StopQueue, threads, window
<1>2. Alone /\ (state \in Busy /\ odd \cap {"left", "refused"} = {} => Moving)
  BY <1>1, AtIdle DEF UserActs
<1>3. AtRest' /\ (Home /\ state = "Pause" => Nothing /\ flow = NoFlow /\ handlers = <<>>)
  BY <1>1, <1>2 DEF Alone, AtRest, Nothing
<1>4. Stacked' /\ Flowing' /\ Closed' /\ Alone' /\ Got' /\ Remembered' /\ Waiters'
  <2>1. calls' # <<>> => state = "Pause"
    BY <1>1
  <2>2. calls' = <<>> \/ calls' = <<Process>>
    BY <1>1
  <2>3. QED  BY <1>1, <1>3, <2>1, <2>2, UserActed, NewFrames
<1>5. ReadyGoes' /\ BusyGoes'
  <2>1. CASE state = "Pause"
    <3>1. calls' # <<>> /\ Head(calls') = Process
      BY <1>1, <2>1
    <3>2. QED  BY <1>1, <3>1, ProcessRests DEF ReadyGoes, BusyGoes
  <2>2. CASE state = "Running"
    BY <1>1, <1>2, <2>2, DataStays DEF ReadyGoes, BusyGoes, Busy
  <2>3. QED  BY <1>1, <2>1, <2>2
<1>6. QED  BY <1>4, <1>5, Whole

\* Two calls are begun, one in the other.
LEMMA TopTwo ==
  ASSUME NEW f \in Frame, NEW g \in Frame, calls' = <<f>> \o <<g>>
  PROVE  /\ Len(calls') = 2 /\ calls'[1] = f /\ calls'[2] = g /\ Head(calls') = f
         /\ \A k \in 1..Len(calls') : k = 1 \/ k = 2
<1>1. calls' \in Seq(Frame) /\ Len(calls') = 2 /\ calls'[1] = f /\ calls'[2] = g
  BY Joined
<1>2. calls' # <<>> /\ Head(calls') = calls'[1]
  <2>1. calls' # <<>>
    BY <1>1, NoElements
  <2>2. QED  BY <1>1, <2>1
<1>3. \A k \in 1..2 : k = 1 \/ k = 2
  OBVIOUS
<1>4. QED  BY <1>1, <1>2, <1>3

LEMMA RangeOfEmpty == \A i : i \notin Range(<<>>)
BY DEF Range

LEMMA Blanked ==
  ASSUME NEW p \in {"", "given"}, Confirm(p)
  PROVE  p = "given" \/ "blank" \in odd'
BY DEF Confirm

LEMMA ConfirmStep ==
  ASSUME IInv, NEW p, Confirm(p), p = "given" \/ "blank" \in odd'
  PROVE  Inner'
<1> DEFINE f == [do |-> "enqueue", op |-> op, items |-> waiting]
           g == [do |-> "confirmed"]
<1>1. /\ Idle /\ asked /\ pat' = p
      /\ calls' = (IF op = None THEN <<>> ELSE <<f>>) \o <<g>>
      /\ odd \subseteq odd' /\ odd' \subseteq odd \cup {"blank"}
      /\ UNCHANGED <<queue, state, flow, op, status, waiting, asked, current, running, posted,
                     handlers, popup, got>>
  BY DEF Confirm, work, threads, window
<1>2. /\ TypeOK /\ Stacked /\ Flowing /\ Closed /\ Alone /\ Got /\ Remembered /\ Waiters
      /\ ~Going /\ (\A d : ~Top(d))
      /\ state = "Ready" => queue = <<>>
      /\ state \in Busy /\ odd \cap {"left", "refused"} = {} => Moving
  BY <1>1, AtIdle
<1>3. popup = "listed"
  BY <1>1, <1>2 DEF Closed
<1>4. /\ g.do = "confirmed" /\ g \in Frame
      /\ f.do = "enqueue" /\ f.items = waiting /\ (op # None => f \in Frame)
  <2>1. g \in Frame /\ (op # None => f \in Frame)
    BY <1>2, NewFrames DEF TypeOK
  <2>2. QED  BY <2>1
<1> HIDE DEF f, g
<1>5. \/ /\ op = None /\ Len(calls') = 1 /\ calls'[1] = g /\ Head(calls') = g
         /\ \A k \in 1..Len(calls') : k = 1
      \/ /\ op # None /\ Len(calls') = 2 /\ calls'[1] = f /\ calls'[2] = g
         /\ Head(calls') = f /\ \A k \in 1..Len(calls') : k = 1 \/ k = 2
  <2>1. CASE op = None
    <3>1. calls' = <<g>>
      BY <1>1, <1>4, <2>1, Joined
    <3>2. /\ Len(calls') = 1 /\ calls'[1] = g /\ Head(calls') = g
          /\ \A k \in 1..Len(calls') : k = 1
      BY <3>1, TopNew
    <3>3. QED  BY <2>1, <3>2
  <2>2. CASE op # None
    <3>1. calls' = <<f>> \o <<g>>
      BY <1>1, <2>2
    <3>2. QED  BY <1>4, <2>2, <3>1, TopTwo
  <2>3. QED  BY <2>1, <2>2
<1>6. calls' \in Seq(Frame) /\ Len(calls') \in Nat \ {0}
  <2>1. calls' \in Seq(Frame)
    BY <1>1, <1>4, Joined, Short
  <2>2. QED  BY <1>5, <2>1
<1>15. Stacked' /\ RestRests'
  <2>1. \A k \in 2..Len(calls') : k \in 1..Len(calls') /\ k # 1
    BY <1>6
  <2>2. /\ \A k \in 1..Len(calls') : calls'[k].do \in {"confirmed", "enqueue"}
        /\ \A k \in 1..Len(calls') : calls'[k].do = "confirmed" => k = Len(calls')
    BY <1>4, <1>5
  <2>3. Stacked'
    BY <2>1, <2>2 DEF Stacked
  <2>4. QED  BY <2>1, <2>2, <2>3 DEF RestRests
<1>7. Quiet'
  BY <1>4, <1>5 DEF Quiet, Calm, Top, Idle
<1>8. Flowing' /\ Closed' /\ Remembered'
  BY <1>1, <1>2, <1>3, FlowStays, ListedStays DEF Remembered
<1>9. ReadyGoes' /\ BusyGoes'
  BY <1>1, <1>2, DataStays DEF ReadyGoes, BusyGoes
<1>10. Home' => Home
  BY <1>1 DEF Home
<1>11. Alone'
  <2>1. SUFFICES ASSUME Home
                 PROVE  TopRests' /\ RestRests' /\ Awaited' /\ AtRest' /\ Single'
    BY <1>10 DEF Alone
  <2>2. TopRests'
    BY <1>7, QuietRests
  <2>3. Awaited' /\ AtRest' /\ Single'
    BY <1>1, <1>2, <2>1, DataStays DEF Alone, AtRest, Single, Nothing
  <2>4. QED  BY <1>15, <2>2, <2>3
<1>12. Got'
  <2>1. SUFFICES ASSUME Home
                 PROVE  GotFlow' /\ GotPosted' /\ GotTold' /\ GotDone'
    BY <1>10 DEF Got
  <2>2. QED  BY <1>1, <1>2, <1>7, <2>1, GotStays DEF Got, Quiet
<1>13. Waiters'
  <2>1. SUFFICES ASSUME Asked'
                 PROVE  /\ \A i \in Item : Waits(i)' => i \in Range(waiting')
                        /\ pat' = "given" /\ \A i \in Item : Waits(i)' => Enqueued(i)'
                        /\ ~Top("finish")'
    BY DEF Waiters
  <2>2. Asked /\ p = "given"
    BY <1>1, <2>1 DEF Asked
  <2>3. ASSUME NEW i \in Item, Waits(i)'
        PROVE  i \in Range(waiting) /\ Enqueued(i)'
    <3>1. i \in Range(waiting)
      BY <1>1, <1>2, <2>2, <2>3 DEF Waiters, Waits
    <3>2. waiting # <<>>
      BY <3>1, RangeOfEmpty
    <3>3. 1 \in 1..Len(calls') /\ calls'[1] = f
      <4>1. op # None
        BY <1>2, <3>2 DEF Remembered
      <4>2. QED  BY <1>5, <1>6, <4>1
    <3>4. calls'[1].do = "enqueue" /\ i \in Range(calls'[1].items)
      BY <1>4, <3>1, <3>3
    <3>5. QED  BY <3>1, <3>3, <3>4 DEF Enqueued
  <2>4. ~Top("finish")'
    BY <1>4, <1>5 DEF Top, Idle
  <2>5. QED  BY <1>1, <2>2, <2>3, <2>4
<1>14. QED
  BY <1>15, <1>8, <1>9, <1>11, <1>12, <1>13, Whole

LEMMA ConfirmedStep ==
  ASSUME IInv, Confirmed
  PROVE  Inner'
<1>1. /\ Top("confirmed") /\ Returns /\ waiting' = <<>> /\ asked' = FALSE
      /\ UNCHANGED <<queue, state, flow, op, status, pat, current, running, posted, handlers,
                     popup, got, odd>>
  BY DEF Confirmed, work, threads, window
<1>2. /\ TypeOK /\ Stacked /\ Flowing /\ Closed /\ ReadyGoes /\ BusyGoes /\ Alone /\ Got
      /\ Remembered /\ Waiters
  BY Parts
<1>3. /\ calls # <<>> /\ Head(calls).do = "confirmed" /\ Head(calls) = calls[1]
      /\ Len(calls) \in Nat \ {0} /\ popup = "listed"
  BY <1>1, <1>2, TopOf, Listed
<1>4. Len(calls) = 1
  <2>1. 1 \in 1..Len(calls) /\ calls[1].do = "confirmed"
    BY <1>3
  <2>2. QED  BY <1>2, <2>1 DEF Stacked
<1>5. calls' = <<>>
  <2>1. Len(calls') = Len(calls) - 1 /\ calls' \in Seq(Frame)
    BY <1>1, <1>2, <1>3, Popped DEF TypeOK
  <2>2. Len(calls') = 0
    BY <1>4, <2>1
  <2>3. QED  BY <2>1, <2>2, NoElements
<1>6. /\ Stacked' /\ RestRests' /\ TopRests' /\ GotTold' /\ (GotSoFar' => GotFlow')
      /\ ~Answering' /\ (\A d : ~Top(d)') /\ Calm'
  BY <1>5, IdleStays DEF Calm
<1>7. ~Going /\ ~Top("process")
  BY <1>3 DEF Going, Top
<1>8. Flowing' /\ Closed' /\ Remembered'
  BY <1>1, <1>2, <1>3, FlowStays, ListedStays DEF Remembered
<1>9. ReadyGoes' /\ BusyGoes'
  BY <1>1, <1>2, <1>7, DataStays DEF ReadyGoes, BusyGoes
<1>10. Alone'
  <2>1. SUFFICES ASSUME Home
                 PROVE  TopRests' /\ RestRests' /\ Awaited' /\ AtRest' /\ Single'
    BY <1>1 DEF Alone, Home
  <2>2. QED  BY <1>1, <1>2, <1>6, <2>1, DataStays DEF Alone, AtRest, Single, Nothing
<1>11. Got'
  <2>1. SUFFICES ASSUME Home
                 PROVE  GotFlow' /\ GotPosted' /\ GotTold' /\ GotDone'
    BY <1>1 DEF Got, Home
  <2>2. QED  BY <1>1, <1>2, <1>6, <2>1, GotStays DEF Got
<1>12. Waiters'
  <2>1. \A i : ~Enqueued(i)
    BY <1>3, <1>4 DEF Enqueued
  <2>2. Answering
    BY <1>3, <1>4 DEF Answering
  <2>3. Asked => \A i \in Item : ~Waits(i)
    BY <1>2, <2>1, <2>2 DEF Waiters
  <2>4. QED  BY <1>1, <1>6, <2>3 DEF Waiters, Waits, Asked
<1>13. QED
  BY <1>6, <1>8, <1>9, <1>10, <1>11, <1>12, Whole

LEMMA RejectStep ==
  ASSUME IInv, Reject
  PROVE  Inner'
<1>1. /\ Idle /\ asked /\ asked' = FALSE /\ pat' = "skip" /\ waiting' = <<>>
      /\ \A i \in Item : \/ status'[i] = "Skipped"
                         \/ i \notin Range(waiting) /\ status'[i] = status[i]
      /\ UNCHANGED <<queue, state, flow, op, current, running, posted, handlers, popup, calls,
                     got, odd>>
  BY DEF Reject, Range, threads, window
<1>2. /\ TypeOK /\ Stacked /\ Flowing /\ Closed /\ Alone /\ Got /\ Remembered /\ Waiters
      /\ ~Going /\ (\A d : ~Top(d))
      /\ state = "Ready" => queue = <<>>
      /\ state \in Busy /\ odd \cap {"left", "refused"} = {} => Moving
  BY <1>1, AtIdle
<1>3. calls' = <<>> /\ popup = "listed"
  BY <1>1, <1>2 DEF Closed, Idle
<1>4. /\ Stacked' /\ RestRests' /\ TopRests' /\ ~Answering' /\ (\A d : ~Top(d)') /\ Calm'
  BY <1>3, IdleStays DEF Calm
<1>5. Flowing' /\ Closed' /\ Remembered'
  BY <1>1, <1>2, <1>3, FlowStays, ListedStays DEF Remembered
<1>6. ReadyGoes' /\ BusyGoes'
  BY <1>1, <1>2, DataStays DEF ReadyGoes, BusyGoes
<1>7. Alone'
  <2>1. SUFFICES ASSUME Home
                 PROVE  TopRests' /\ RestRests' /\ Awaited' /\ AtRest' /\ Single'
    BY <1>1 DEF Alone, Home
  <2>2. QED  BY <1>1, <1>2, <1>4, <2>1, DataStays DEF Alone, AtRest, Single, Nothing
<1>8. Got'
  <2>1. SUFFICES ASSUME Home
                 PROVE  GotFlow' /\ GotPosted' /\ GotTold' /\ GotDone'
    BY <1>1 DEF Got, Home
  <2>2. \A i \in Item : status'[i] = "Done" => status[i] = "Done"
    BY <1>1
  <2>3. QED  BY <1>1, <1>2, <1>4, <2>1, <2>2, GotStays DEF Got
<1>9. Waiters'
  <2>1. ASSUME Asked, NEW i \in Item, Waits(i)'
        PROVE  FALSE
    BY <1>1, <1>2, <2>1 DEF Waiters, Waits
  <2>2. QED  BY <1>1, <1>4, <2>1 DEF Waiters, Asked
<1>10. QED
  BY <1>4, <1>5, <1>6, <1>7, <1>8, <1>9, Whole

LEMMA AskedElsewhereStep ==
  ASSUME IInv, NEW p \in {"skip", "given"}, AskedElsewhere(p)
  PROVE  Inner'
<1>1. /\ Idle /\ popup = "closed" /\ waiting = <<>>
      /\ odd \subseteq odd' /\ odd' \subseteq odd \cup {"elsewhere"}
      /\ UNCHANGED <<queue, state, flow, op, status, waiting, asked, current, running, posted,
                     handlers, popup, calls, got>>
  BY DEF AskedElsewhere, work, threads, window
<1>2. /\ TypeOK /\ Stacked /\ Flowing /\ Closed /\ Alone /\ Got /\ Remembered /\ Waiters
      /\ ~Going /\ (\A d : ~Top(d))
      /\ state = "Ready" => queue = <<>>
      /\ state \in Busy /\ odd \cap {"left", "refused"} = {} => Moving
  BY <1>1, AtIdle
<1>3. calls' = <<>>
  BY <1>1 DEF Idle
<1>4. /\ Stacked' /\ RestRests' /\ TopRests' /\ ~Answering' /\ (\A d : ~Top(d)') /\ Calm'
  BY <1>3, IdleStays DEF Calm
<1>5. Flowing' /\ Closed' /\ Remembered'
  BY <1>1, <1>2, <1>3, FlowStays DEF Remembered, Closed
<1>6. ReadyGoes' /\ BusyGoes'
  BY <1>1, <1>2, DataStays DEF ReadyGoes, BusyGoes
<1>7. Home' => Home
  BY <1>1 DEF Home
<1>8. Alone'
  <2>1. SUFFICES ASSUME Home
                 PROVE  TopRests' /\ RestRests' /\ Awaited' /\ AtRest' /\ Single'
    BY <1>7 DEF Alone
  <2>2. QED  BY <1>1, <1>2, <1>4, <2>1, DataStays DEF Alone, AtRest, Single, Nothing
<1>9. Got'
  <2>1. SUFFICES ASSUME Home
                 PROVE  GotFlow' /\ GotPosted' /\ GotTold' /\ GotDone'
    BY <1>7 DEF Got
  <2>2. QED  BY <1>1, <1>2, <1>4, <2>1, GotStays DEF Got
<1>10. Waiters'
  BY <1>1, <1>2, <1>4 DEF Waiters, Waits, Asked
<1>11. QED
  BY <1>4, <1>5, <1>6, <1>8, <1>9, <1>10, Whole

LEMMA OpenPopupStep ==
  ASSUME IInv, OpenPopup
  PROVE  Inner'
<1>1. /\ Idle /\ popup = "closed"
      /\ UNCHANGED <<queue, state, flow, op, status, waiting, pat, asked, current, running,
                     posted, handlers, calls, got, odd>>
  BY DEF OpenPopup, work, password, threads
<1>2. /\ TypeOK /\ Stacked /\ Flowing /\ Closed /\ Alone /\ Got /\ Remembered /\ Waiters
      /\ ~Going /\ (\A d : ~Top(d))
      /\ state = "Ready" => queue = <<>>
      /\ state \in Busy /\ odd \cap {"left", "refused"} = {} => Moving
  BY <1>1, AtIdle
<1>3. calls' = <<>>
  BY <1>1 DEF Idle
<1>4. /\ Stacked' /\ RestRests' /\ TopRests' /\ ~Answering' /\ (\A d : ~Top(d)') /\ Calm'
  BY <1>3, IdleStays DEF Calm
<1>5. Flowing' /\ Closed' /\ Remembered'
  BY <1>1, <1>2, <1>3, FlowStays DEF Remembered, Closed
<1>6. ReadyGoes' /\ BusyGoes'
  BY <1>1, <1>2, DataStays DEF ReadyGoes, BusyGoes
<1>7. Alone'
  <2>1. SUFFICES ASSUME Home
                 PROVE  TopRests' /\ RestRests' /\ Awaited' /\ AtRest' /\ Single'
    BY <1>1 DEF Alone, Home
  <2>2. QED  BY <1>1, <1>2, <1>4, <2>1, DataStays DEF Alone, AtRest, Single, Nothing
<1>8. Got'
  <2>1. SUFFICES ASSUME Home
                 PROVE  GotFlow' /\ GotPosted' /\ GotTold' /\ GotDone'
    BY <1>1 DEF Got, Home
  <2>2. QED  BY <1>1, <1>2, <1>4, <2>1, GotStays DEF Got
<1>9. Waiters'
  BY <1>1, <1>2, <1>4 DEF Waiters, Waits, Asked
<1>10. QED
  BY <1>4, <1>5, <1>6, <1>7, <1>8, <1>9, Whole

LEMMA OnScanFinishedStep ==
  ASSUME IInv, OnScanFinished
  PROVE  Inner'
<1>1. /\ Idle /\ popup = "scanning" /\ popup' = "listed"
      /\ status' = [i \in Item |-> "Pending"]
      /\ running' = Repository(None, running)
      /\ UNCHANGED <<queue, state, flow, op, waiting, pat, asked, posted, handlers, calls,
                     got, odd>>
  BY DEF OnScanFinished, password
<1>2. /\ TypeOK /\ Stacked /\ Flowing /\ Closed /\ Alone /\ Got /\ Remembered /\ Waiters
      /\ ~Going /\ (\A d : ~Top(d))
      /\ state = "Ready" => queue = <<>>
  BY <1>1, AtIdle
<1>3. calls' = <<>> /\ state = "Ready"
  BY <1>1, <1>2 DEF Idle, Closed
<1>4. /\ Stacked' /\ RestRests' /\ TopRests' /\ ~Answering' /\ (\A d : ~Top(d)') /\ Calm'
  BY <1>3, IdleStays DEF Calm
<1>5. Flowing' /\ Closed' /\ Remembered'
  BY <1>1, <1>2, <1>3, FlowStays DEF Remembered, Closed
<1>6. ReadyGoes' /\ BusyGoes'
  BY <1>1, <1>2, <1>3 DEF ReadyGoes, BusyGoes, Busy
<1>7. Alone'
  <2>1. SUFFICES ASSUME Home
                 PROVE  TopRests' /\ RestRests' /\ Awaited' /\ AtRest' /\ Single'
    BY <1>1 DEF Alone, Home
  <2>2. running = <<>> /\ posted = <<>> /\ handlers = <<>> /\ flow = NoFlow
    BY <1>2, <1>3, <2>1 DEF Alone, AtRest, Nothing
  <2>3. running' = <<>> /\ posted' = <<>> /\ handlers' = <<>> /\ flow' = NoFlow
    BY <1>1, <2>2, NoneTurned
  <2>4. QED  BY <1>4, <2>3 DEF Awaited, AtRest, Single, Nothing
<1>8. Got'
  <2>1. SUFFICES ASSUME Home
                 PROVE  GotFlow' /\ GotPosted' /\ GotTold' /\ GotDone'
    BY <1>1 DEF Got, Home
  <2>2. \A i \in Item : status'[i] = "Done" => status[i] = "Done"
    BY <1>1
  <2>3. QED  BY <1>1, <1>2, <1>4, <2>1, <2>2, GotStays DEF Got
<1>9. Waiters'
  <2>1. \A i \in Item : ~Waits(i)'
    BY <1>1 DEF Waits
  <2>2. QED  BY <1>4, <2>1 DEF Waiters
<1>10. QED
  BY <1>4, <1>5, <1>6, <1>7, <1>8, <1>9, Whole

LEMMA ClosePopupStep ==
  ASSUME IInv, ClosePopup
  PROVE  Inner'
<1>1. /\ Idle /\ ~asked /\ status' = Blank /\ queue' = <<>> /\ state' = "Ready"
      /\ \/ running = <<>> /\ posted = <<>> /\ flow = NoFlow /\ handlers = <<>>
         \/ "left" \in odd'
      /\ got' = [i \in Item |-> {}]
      /\ UNCHANGED <<flow, op, waiting, asked, running, posted, handlers, calls>>
  BY DEF ClosePopup, threads
<1>2. Flowing /\ Remembered
  BY <1>1, AtIdle
<1>3. calls' = <<>>
  BY <1>1 DEF Idle
<1>4. /\ Stacked' /\ RestRests' /\ TopRests' /\ ~Answering' /\ (\A d : ~Top(d)') /\ Calm'
  BY <1>3, IdleStays DEF Calm
<1>5. Flowing' /\ Closed' /\ Remembered' /\ ReadyGoes' /\ BusyGoes'
  BY <1>1, <1>2, <1>3, FlowStays DEF Remembered, Closed, ReadyGoes, BusyGoes, Busy
<1>6. Home' => running' = <<>> /\ posted' = <<>> /\ flow' = NoFlow /\ handlers' = <<>>
  BY <1>1 DEF Home
<1>7. Alone'
  BY <1>4, <1>6 DEF Alone, Awaited, AtRest, Single, Nothing
<1>8. \A i \in Item : status'[i] = None
  BY <1>1 DEF Blank
<1>9. Got'
  <2>1. GotDone'
    BY <1>8 DEF GotDone, None
  <2>2. Home' => GotPosted' /\ GotSoFar'
    BY <1>6 DEF GotPosted, GotSoFar
  <2>3. QED  BY <1>4, <2>1, <2>2, CalmKeeps DEF Got
<1>10. Waiters'
  BY <1>4, <1>8 DEF Waiters, Waits, None
<1>11. QED
  BY <1>4, <1>5, <1>7, <1>9, <1>10, Whole

LEMMA Stutter ==
  ASSUME IInv, UNCHANGED vars
  PROVE  Inner'
<1>1. UNCHANGED <<queue, state, flow, op, status, waiting, pat, asked, current, running,
                  posted, handlers, popup, calls, got, odd>>
  BY DEF vars, work, password, threads, window
<1>2. /\ TypeOK /\ Stacked /\ Flowing /\ Closed /\ ReadyGoes /\ BusyGoes /\ Alone /\ Got
      /\ Remembered /\ Waiters
  BY Parts
<1>3. /\ Stacked' /\ (RestRests => RestRests') /\ (\A d : Top(d)' = Top(d))
      /\ (Going' <=> Going)
  BY <1>1, <1>2, Keeps DEF Going, Top, Idle
<1>4. Flowing' /\ Closed' /\ Remembered' /\ ReadyGoes' /\ BusyGoes'
  BY <1>1, <1>2, <1>3, FlowStays, DataStays DEF Closed, Remembered, ReadyGoes, BusyGoes
<1>5. Alone'
  BY <1>1, <1>2, <1>3, DataStays
  DEF Alone, Home, TopRests, AtRest, Single, Nothing, Going, Top, Idle
<1>6. Got'
  BY <1>1, <1>2 DEF Got, Home, GotFlow, GotSoFar, GotPosted, GotTold, GotDone, Top, Idle
<1>7. Waiters'
  BY <1>1, <1>2 DEF Waiters, Waits, Asked, Answering, Enqueued, Top, Idle
<1>8. QED  BY <1>2, <1>3, <1>4, <1>5, <1>6, <1>7, Whole

\* The end of a fetch or pull is told.
LEMMA Told ==
  ASSUME posted \in Seq(Outcome), posted # <<>>, posted' = Tail(posted), UNCHANGED running
  PROVE  /\ 1 \in DOMAIN posted /\ Head(posted) = posted[1] /\ Head(posted) \in Outcome
         /\ Len(posted') = Len(posted) - 1 /\ Len(posted) \in Nat
         /\ Len(posted) <= 1 => posted' = <<>>
         /\ \A o, i, r : Aloft(o, i, r) /\ ~Matches(Head(posted).flight, o, i, r)
                           => Aloft(o, i, r)'
<1>1. /\ 1 \in DOMAIN posted /\ Head(posted) = posted[1] /\ Head(posted) \in Outcome
      /\ Len(posted') = Len(posted) - 1 /\ Len(posted) \in Nat
      /\ \A k \in DOMAIN posted :
           k = 1 \/ (k - 1 \in DOMAIN posted' /\ posted'[k - 1] = posted[k])
  OBVIOUS
<1>2. Len(posted) <= 1 => posted' = <<>>
  BY OneElement
<1>3. ASSUME NEW o, NEW i, NEW r, Aloft(o, i, r), ~Matches(Head(posted).flight, o, i, r)
      PROVE  Aloft(o, i, r)'
  <2>1. CASE \E k \in DOMAIN running : Matches(running[k], o, i, r)
    BY <2>1 DEF Aloft, Matches
  <2>2. CASE \E k \in DOMAIN posted : Matches(posted[k].flight, o, i, r)
    <3>1. PICK k \in DOMAIN posted : Matches(posted[k].flight, o, i, r)
      BY <2>2
    <3>2. k - 1 \in DOMAIN posted' /\ posted'[k - 1] = posted[k]
      BY <1>1, <1>3, <3>1
    <3>3. QED  BY <3>1, <3>2 DEF Aloft, Matches
  <2>3. QED  BY <1>3, <2>1, <2>2 DEF Aloft
<1>4. QED  BY <1>1, <1>2, <1>3

LEMMA OnFetchFinishedStep ==
  ASSUME IInv, OnFetchFinished
  PROVE  Inner'
<1> DEFINE e == Head(posted)
           f == IF e.ok THEN [do |-> "next"] ELSE Finish("Canceled")
<1>1. /\ Idle /\ posted # <<>> /\ e.flight.op = "fetch" /\ posted' = Tail(posted)
      /\ \/ calls' = <<>> /\ (popup # "listed" \/ e.flight.remote # flow.current)
         \/ calls' = <<f>> /\ popup = "listed"
      /\ UNCHANGED <<queue, state, flow, op, status, waiting, pat, asked, current, running,
                     handlers, popup, got, odd>>
  BY DEF OnFetchFinished, work, password, window
<1>2. /\ TypeOK /\ Stacked /\ Flowing /\ Closed /\ Alone /\ Got /\ Remembered /\ Waiters
      /\ ~Going /\ (\A d : ~Top(d))
      /\ state = "Ready" => queue = <<>>
      /\ state \in Busy /\ odd \cap {"left", "refused"} = {} => Moving
  BY <1>1, AtIdle
<1>3. /\ 1 \in DOMAIN posted /\ e = posted[1] /\ e \in Outcome
      /\ Len(posted') = Len(posted) - 1 /\ Len(posted) \in Nat
      /\ Len(posted) <= 1 => posted' = <<>>
      /\ \A o, i, r : Aloft(o, i, r) /\ ~Matches(e.flight, o, i, r) => Aloft(o, i, r)'
  BY <1>1, <1>2, Told DEF TypeOK
<1>4. /\ f \in Frame /\ f.do \in {"next", "finish"} /\ (f.do = "next" => e.ok)
      /\ f.do = "finish" => f.with = "Canceled"
  BY NewFrames
<1>5. e.flight.for \in Item /\ e.flight.remote \in Remote
  BY <1>3 DEF Outcome, Flight
<1> HIDE DEF e, f
<1>6. calls' = <<f>> => calls' # <<>> /\ Head(calls') = f
  BY TopNew
<1>7. Stacked' /\ RestRests' /\ ~Answering'
  BY <1>1, <1>4, News
<1>8. /\ ~Top("process")' /\ ~Top("told")' /\ ~Top("pull")'
      /\ Top("next")' => e.ok /\ calls' = <<f>>
      /\ Top("finish")' => Head(calls').with = "Canceled"
      /\ calls' = <<f>> => Going'
  BY <1>1, <1>4, <1>6 DEF Top, Idle, Going
<1>9. Flowing' /\ Remembered' /\ ReadyGoes'
  BY <1>1, <1>2, FlowStays DEF Remembered, ReadyGoes
<1>10. Closed'
  BY <1>1, <1>2 DEF Closed
<1>11. BusyGoes'
  <2>1. CASE calls' = <<f>>
    BY <1>8, <2>1 DEF BusyGoes
  <2>2. CASE popup # "listed"
    BY <1>1, <1>2, <2>2 DEF Closed, BusyGoes, Busy
  <2>3. CASE e.flight.remote # flow.current
    <3>1. SUFFICES ASSUME Moving
                   PROVE  Moving'
      BY <1>1, <1>2 DEF BusyGoes
    <3>2. CASE Aloft("fetch", flow.item, flow.current)
      <4>1. ~Matches(e.flight, "fetch", flow.item, flow.current)
        BY <2>3 DEF Matches
      <4>2. Aloft("fetch", flow.item, flow.current)'
        BY <1>1, <1>3, <3>2, <4>1 DEF Aloft
      <4>3. QED  BY <4>2 DEF Moving
    <3>3. CASE handlers # <<>> /\ \E i \in Item, r \in Remote : Aloft("pull", i, r)
      <4>1. PICK i \in Item, r \in Remote : Aloft("pull", i, r)
        BY <3>3
      <4>2. ~Matches(e.flight, "pull", i, r)
        BY <1>1 DEF Matches
      <4>3. Aloft("pull", i, r)'
        BY <1>3, <4>1, <4>2
      <4>4. QED  BY <1>1, <3>3, <4>3 DEF Moving
    <3>4. QED  BY <3>1, <3>2, <3>3 DEF Moving
  <2>4. QED  BY <1>1, <2>1, <2>2, <2>3
<1>12. Home => /\ running = <<>> /\ posted' = <<>> /\ handlers = <<>> /\ state \in Busy
               /\ flow # NoFlow /\ current = flow.item
               /\ e.flight.for = flow.item /\ e.flight.remote = flow.current
  <2>1. SUFFICES ASSUME Home
                 PROVE  /\ running = <<>> /\ posted' = <<>> /\ handlers = <<>>
                        /\ state \in Busy /\ flow # NoFlow /\ current = flow.item
                        /\ e.flight.for = flow.item /\ e.flight.remote = flow.current
    OBVIOUS
  <2>2. Awaited /\ AtRest /\ Single
    BY <1>2, <2>1 DEF Alone
  <2>3. e.flight.for = flow.item /\ e.flight.remote = flow.current
    BY <1>1, <1>3, <2>2 DEF Awaited, Expected
  <2>4. flow # NoFlow
    BY <1>5, <2>3, NoneAssumption DEF NoFlow
  <2>5. state \in Busy
    BY <1>1, <1>2, <2>2 DEF AtRest, Nothing, TypeOK
  <2>6. Len(posted) # 0 /\ Len(running) \in Nat /\ (Len(running) = 0 => running = <<>>)
    BY <1>1, <1>2, NoElements DEF TypeOK
  <2>7. running = <<>> /\ Len(posted) <= 1
    BY <1>3, <2>2, <2>6 DEF Single
  <2>8. QED  BY <1>3, <2>2, <2>3, <2>4, <2>5, <2>7 DEF Single
<1>13. Alone'
  <2>1. SUFFICES ASSUME Home
                 PROVE  TopRests' /\ RestRests' /\ Awaited' /\ AtRest' /\ Single'
    BY <1>1 DEF Alone, Home
  <2>2. /\ running' = <<>> /\ posted' = <<>> /\ handlers' = <<>> /\ state' \in Busy
        /\ flow' # NoFlow /\ current' = flow'.item
    BY <1>1, <1>12, <2>1
  <2>3. current' = flow'.item
    <3>1. UNCHANGED <<current, flow>>
      BY <1>1, <1>2, <1>12, <2>1
    <3>2. QED  BY <1>12, <2>1, <3>1
  <2>4. TopRests'
    BY <1>8, <2>2 DEF TopRests, Nothing
  <2>5. Awaited' /\ AtRest' /\ Single'
    BY <2>2, <2>3 DEF Awaited, AtRest, Single, Busy
  <2>6. QED  BY <1>7, <2>4, <2>5
<1>14. Got'
  <2>1. SUFFICES ASSUME Home
                 PROVE  GotFlow' /\ GotPosted' /\ GotTold' /\ GotDone'
    BY <1>1 DEF Got, Home
  <2>2. GotFlow /\ GotPosted /\ GotDone
    BY <1>2, <2>1 DEF Got
  <2>3. e.ok => flow.current \in got[flow.item]
    BY <1>3, <1>12, <2>1, <2>2 DEF GotPosted
  <2>4. GotFlow'
    BY <1>1, <1>8, <2>2, <2>3 DEF GotFlow, GotSoFar
  <2>5. GotPosted' /\ GotTold' /\ GotDone'
    BY <1>1, <1>8, <1>12, <2>1, <2>2 DEF GotPosted, GotTold, GotDone
  <2>6. QED  BY <2>4, <2>5
<1>15. Waiters'
  BY <1>1, <1>2, <1>7, <1>8 DEF Waiters, Waits, Asked
<1>16. QED
  BY <1>7, <1>9, <1>10, <1>11, <1>13, <1>14, <1>15, Whole

LEMMA PullFinishedStep ==
  ASSUME IInv, PullFinished
  PROVE  Inner'
<1> DEFINE e == Head(posted)
           f == [do |-> "told", left |-> handlers, ok |-> e.ok]
<1>1. /\ Idle /\ posted # <<>> /\ e.flight.op = "pull" /\ posted' = Tail(posted)
      /\ calls' = <<f>>
      /\ UNCHANGED <<queue, state, flow, op, status, waiting, pat, asked, current, running,
                     handlers, popup, got, odd>>
  BY DEF PullFinished, work, password, window
<1>2. /\ TypeOK /\ Stacked /\ Flowing /\ Closed /\ Alone /\ Got /\ Remembered /\ Waiters
      /\ ~Going /\ (\A d : ~Top(d))
      /\ state = "Ready" => queue = <<>>
      /\ state \in Busy /\ odd \cap {"left", "refused"} = {} => Moving
  BY <1>1, AtIdle
<1>3. /\ 1 \in DOMAIN posted /\ e = posted[1] /\ e \in Outcome
      /\ Len(posted') = Len(posted) - 1 /\ Len(posted) \in Nat
      /\ Len(posted) <= 1 => posted' = <<>>
      /\ \A o, i, r : Aloft(o, i, r) /\ ~Matches(e.flight, o, i, r) => Aloft(o, i, r)'
  BY <1>1, <1>2, Told DEF TypeOK
<1>4. f.do = "told" /\ f.left = handlers /\ (f.ok <=> e.ok)
  OBVIOUS
<1>5. e.flight.for \in Item /\ e.flight.remote \in Remote
  BY <1>3 DEF Outcome, Flight
<1> HIDE DEF e, f
<1>6. calls' # <<>> /\ Head(calls') = f /\ Len(calls') = 1
  BY <1>1, TopNew
<1>7. Stacked' /\ ~Answering' /\ (Len(handlers) <= 1 => RestRests')
  BY <1>1, <1>4, News
<1>8. /\ ~Top("process")' /\ ~Top("next")' /\ ~Top("finish")' /\ ~Top("pull")' /\ Top("told")'
      /\ handlers # <<>> => Going'
  BY <1>4, <1>6 DEF Top, Idle, Going
<1>9. Flowing' /\ Closed' /\ Remembered' /\ ReadyGoes'
  BY <1>1, <1>2, <1>6, <1>8, FlowStays DEF Closed, Remembered, ReadyGoes
<1>10. BusyGoes'
  <2>1. CASE handlers # <<>>
    BY <1>8, <2>1 DEF BusyGoes
  <2>2. CASE handlers = <<>>
    <3>1. Moving => Aloft("fetch", flow.item, flow.current)
      BY <2>2 DEF Moving
    <3>2. ~Matches(e.flight, "fetch", flow.item, flow.current)
      BY <1>1 DEF Matches
    <3>3. Moving => Aloft("fetch", flow.item, flow.current)'
      BY <1>1, <1>3, <3>1, <3>2 DEF Aloft
    <3>4. QED  BY <1>1, <1>2, <3>3 DEF BusyGoes, Moving
  <2>3. QED  BY <2>1, <2>2
<1>11. Home => /\ running = <<>> /\ posted' = <<>> /\ state \in Busy /\ flow = NoFlow
               /\ handlers = <<e.flight.for>> /\ RemotesOf[e.flight.for] = <<e.flight.remote>>
  <2>1. SUFFICES ASSUME Home
                 PROVE  /\ running = <<>> /\ posted' = <<>> /\ state \in Busy /\ flow = NoFlow
                        /\ handlers = <<e.flight.for>>
                        /\ RemotesOf[e.flight.for] = <<e.flight.remote>>
    OBVIOUS
  <2>2. Awaited /\ AtRest /\ Single
    BY <1>2, <2>1 DEF Alone
  <2>3. handlers = <<e.flight.for>> /\ RemotesOf[e.flight.for] = <<e.flight.remote>>
    BY <1>1, <1>3, <2>2 DEF Awaited, Expected
  <2>4. flow = NoFlow
    BY <2>2, <2>3 DEF Single
  <2>5. state \in Busy
    BY <1>1, <1>2, <2>2 DEF AtRest, Nothing, TypeOK
  <2>6. Len(posted) # 0 /\ Len(running) \in Nat /\ (Len(running) = 0 => running = <<>>)
    BY <1>1, <1>2, NoElements DEF TypeOK
  <2>7. running = <<>> /\ Len(posted) <= 1
    BY <1>3, <2>2, <2>6 DEF Single
  <2>8. QED  BY <1>3, <2>3, <2>4, <2>5, <2>7
<1>12. Alone'
  <2>1. SUFFICES ASSUME Home
                 PROVE  TopRests' /\ RestRests' /\ Awaited' /\ AtRest' /\ Single'
    BY <1>1 DEF Alone, Home
  <2>2. /\ running' = <<>> /\ posted' = <<>> /\ flow' = NoFlow /\ state' \in Busy
        /\ handlers' = handlers
    BY <1>1, <1>11, <2>1
  <2>3. Len(handlers) <= 1
    BY <1>2, <2>1 DEF Alone, Single
  <2>4. TopRests'
    BY <1>4, <1>6, <1>8, <2>2 DEF TopRests, Nothing
  <2>5. Awaited' /\ AtRest' /\ Single'
    BY <2>2, <2>3 DEF Awaited, AtRest, Single, Busy
  <2>6. QED  BY <1>7, <2>3, <2>4, <2>5
<1>13. Got'
  <2>1. SUFFICES ASSUME Home
                 PROVE  GotFlow' /\ GotPosted' /\ GotTold' /\ GotDone'
    BY <1>1 DEF Got, Home
  <2>2. GotFlow /\ GotPosted /\ GotDone
    BY <1>2, <2>1 DEF Got
  <2>3. GotFlow' /\ GotPosted' /\ GotDone'
    BY <1>1, <1>8, <1>11, <2>1, <2>2 DEF GotFlow, GotSoFar, GotPosted, GotDone
  <2>4. GotTold'
    <3>1. e.ok => e.flight.remote \in got[e.flight.for]
      BY <1>3, <2>2 DEF GotPosted
    <3>2. Head(f.left) = e.flight.for
      BY <1>4, <1>11, <2>1
    <3>3. \A r \in Range(RemotesOf[e.flight.for]) : r = e.flight.remote
      BY <1>11, <2>1 DEF Range
    <3>4. f.ok => Range(RemotesOf[Head(f.left)]) \subseteq got'[Head(f.left)]
      BY <1>1, <1>4, <3>1, <3>2, <3>3
    <3>5. QED  BY <1>6, <3>4 DEF GotTold
  <2>5. QED  BY <2>3, <2>4
<1>14. Waiters'
  BY <1>1, <1>2, <1>7, <1>8 DEF Waiters, Waits, Asked
<1>15. QED
  BY <1>7, <1>9, <1>10, <1>12, <1>13, <1>14, Whole

LEMMA NoDomain ==
  ASSUME NEW S, NEW t \in Seq(S), DOMAIN t = {}
  PROVE  t = <<>>
<1>1. DOMAIN t = 1..Len(t) /\ Len(t) \in Nat
  OBVIOUS
<1>2. Len(t) = 0
  BY <1>1
<1>3. QED  BY <1>2, NoElements

\* The only closure is taken out.
LEMMA NoneLeft ==
  ASSUME NEW S, NEW s \in Seq(S), s # <<>>, Len(s) <= 1, NEW k,
         NEW t, t = [j \in 1..Len(s) - 1 |-> s[IF j < k THEN j ELSE j + 1]]
  PROVE  t = <<>>
<1>1. Len(s) = 1
  BY OneElement
<1>2. t \in Seq(S)
  BY Without
<1>3. DOMAIN t = {}
  <2>1. DOMAIN t = 1..Len(s) - 1
    OBVIOUS
  <2>2. DOMAIN t = 1..0
    BY <1>1, <2>1
  <2>3. QED  BY <2>2
<1>4. QED  BY <1>2, <1>3, NoDomain

LEMMA OnPullFinishedStep ==
  ASSUME IInv, OnPullFinished
  PROVE  Inner'
<1> DEFINE f == Head(calls)
           after == [f EXCEPT !.left = Tail(@)]
           i == Head(f.left)
           k == CHOOSE j \in DOMAIN handlers : handlers[j] = i
<1>1. /\ Top("told")
      /\ UNCHANGED <<queue, state, flow, op, waiting, pat, asked, current, running, posted,
                     popup, got, odd>>
  BY DEF OnPullFinished, password, window
<1>2. \/ /\ f.left = <<>> /\ Returns /\ UNCHANGED <<status, handlers>>
      \/ /\ f.left # <<>> /\ popup # "listed" /\ ReturnsTo(after)
         /\ UNCHANGED <<status, handlers>>
      \/ /\ f.left # <<>> /\ popup = "listed" /\ Calls(Process, after)
         /\ status' = [status EXCEPT ![i] = IF f.ok THEN "Done" ELSE "Canceled"]
         /\ handlers' = [j \in 1..Len(handlers) - 1 |->
                           handlers[IF j < k THEN j ELSE j + 1]]
  BY DEF OnPullFinished
<1>3. /\ TypeOK /\ Stacked /\ Flowing /\ Closed /\ ReadyGoes /\ BusyGoes /\ Alone /\ Got
      /\ Remembered /\ Waiters
  BY Parts
<1>4. /\ calls # <<>> /\ f \in Frame /\ f.do = "told" /\ ~Top("process")
      /\ f = calls[1] /\ 1 \in 1..Len(calls) /\ Len(calls) \in Nat
  BY <1>1, <1>3, TopOf DEF Top, Idle
<1>5. /\ f.left \in Seq(Item) /\ f.ok \in BOOLEAN
      /\ f.left # <<>> => /\ after \in Frame /\ after.do = "told"
                          /\ after.left = Tail(f.left) /\ i \in Item
  <2>1. f.left \in Seq(Item) /\ f.ok \in BOOLEAN
    BY <1>4, FrameParts
  <2>2. f.left # <<>> => i \in Item
    BY <2>1, SeqFacts
  <2>3. f.left # <<>> => after \in Frame /\ after.do = "told" /\ after.left = Tail(f.left)
    BY <1>4, After
  <2>4. QED  BY <2>1, <2>2, <2>3
<1>6. f = Head(calls) /\ i = Head(f.left)
  OBVIOUS
<1> HIDE DEF f, after, i, k
<1>7. Home /\ f.left # <<>> =>
        /\ running = <<>> /\ posted = <<>> /\ flow = NoFlow
        /\ f.left = handlers /\ Len(f.left) <= 1 /\ Tail(f.left) = <<>>
  <2>1. SUFFICES ASSUME Home, f.left # <<>>
                 PROVE  /\ running = <<>> /\ posted = <<>> /\ flow = NoFlow
                        /\ f.left = handlers /\ Len(f.left) <= 1 /\ Tail(f.left) = <<>>
    OBVIOUS
  <2>2. TopRests /\ RestRests
    BY <1>3, <2>1 DEF Alone
  <2>3. running = <<>> /\ posted = <<>> /\ flow = NoFlow /\ f.left = handlers
    BY <1>1, <1>6, <2>1, <2>2 DEF TopRests, Going, Nothing
  <2>4. Len(f.left) <= 1
    BY <1>4, <2>2 DEF RestRests
  <2>5. Tail(f.left) = <<>>
    BY <1>5, <2>1, <2>4, OneElement
  <2>6. QED  BY <2>3, <2>4, <2>5
<1>8. Flowing' /\ Remembered'
  BY <1>1, <1>3, FlowStays DEF Remembered
<1>9. CASE f.left = <<>> /\ Returns /\ UNCHANGED <<status, handlers>>
  <2>1. ~Going
    BY <1>4, <1>6, <1>9 DEF Going, Top
  <2>2. /\ Stacked' /\ (Answering' => Answering) /\ (RestRests => RestRests' /\ Quiet')
        /\ (\A j \in Item : Enqueued(j) => Enqueued(j)') /\ ~Top("finish")'
    BY <1>3, <1>4, <1>6, <1>9, Returned
  <2>3. ReadyGoes' /\ BusyGoes'
    BY <1>1, <1>3, <1>4, <1>9, <2>1, DataStays DEF ReadyGoes, BusyGoes
  <2>4. Closed'
    <3>1. CASE popup = "listed"
      BY <1>1, <3>1, ListedStays
    <3>2. CASE popup # "listed"
      <4>1. Len(calls) = 1
        BY <1>3, <1>4, <3>2 DEF Closed
      <4>2. Len(calls') = Len(calls) - 1 /\ calls' \in Seq(Frame)
        BY <1>3, <1>4, <1>9, Popped DEF TypeOK
      <4>3. calls' = <<>>
        BY <4>1, <4>2, NoElements
      <4>4. QED  BY <1>1, <1>3, <4>3 DEF Closed
    <3>3. QED  BY <3>1, <3>2
  <2>5. Alone'
    <3>1. SUFFICES ASSUME Home
                   PROVE  TopRests' /\ RestRests' /\ Awaited' /\ AtRest' /\ Single'
      BY <1>1 DEF Alone, Home
    <3>2. RestRests' /\ TopRests'
      BY <1>3, <2>2, <3>1, QuietRests DEF Alone
    <3>3. Awaited' /\ AtRest' /\ Single'
      BY <1>1, <1>3, <1>9, <3>1, DataStays DEF Alone, AtRest, Single, Nothing
    <3>4. QED  BY <3>2, <3>3
  <2>6. Got'
    <3>1. SUFFICES ASSUME Home
                   PROVE  GotFlow' /\ GotPosted' /\ GotTold' /\ GotDone'
      BY <1>1 DEF Got, Home
    <3>2. Calm'
      BY <1>3, <2>2, <3>1 DEF Alone, Quiet
    <3>3. QED  BY <1>1, <1>3, <1>9, <3>1, <3>2, GotStays DEF Got
  <2>7. Waiters'
    BY <1>1, <1>3, <1>9, <2>2, WaitersStay DEF Waits, Asked
  <2>8. QED  BY <1>8, <2>2, <2>3, <2>4, <2>5, <2>6, <2>7, Whole
<1>10. CASE /\ f.left # <<>> /\ popup # "listed" /\ ReturnsTo(after)
            /\ UNCHANGED <<status, handlers>>
  <2>1. calls' # <<>> /\ Head(calls') = after /\ Len(calls') = Len(calls)
    BY <1>3, <1>4, <1>5, <1>10, TopReplace
  <2>2. /\ Stacked' /\ (Answering' => Answering)
        /\ (\A j \in Item : Enqueued(j) => Enqueued(j)')
        /\ RestRests /\ Len(after.left) <= 1 => RestRests'
    BY <1>3, <1>4, <1>5, <1>6, <1>10, Replaces
  <2>3. /\ Top("told")' /\ ~Top("finish")' /\ ~Top("process")'
        /\ Tail(f.left) = <<>> => Calm'
    BY <1>5, <1>10, <2>1 DEF Top, Idle, Calm
  <2>4. state = "Ready" /\ queue = <<>> /\ ~asked /\ Len(calls) = 1
    BY <1>3, <1>4, <1>10 DEF Closed
  <2>5. ReadyGoes' /\ BusyGoes' /\ Closed'
    BY <1>1, <2>1, <2>3, <2>4 DEF ReadyGoes, BusyGoes, Busy, Closed
  <2>6. Tail(f.left) = <<>> => Quiet' /\ Len(after.left) <= 1
    <3>1. Len(<<>>) <= 1
      OBVIOUS
    <3>2. QED  BY <1>5, <1>10, <2>3, <3>1 DEF Quiet
  <2>7. Alone'
    <3>1. SUFFICES ASSUME Home
                   PROVE  TopRests' /\ RestRests' /\ Awaited' /\ AtRest' /\ Single'
      BY <1>1 DEF Alone, Home
    <3>2. TopRests' /\ RestRests'
      BY <1>3, <1>7, <1>10, <2>2, <2>6, <3>1, QuietRests DEF Alone
    <3>3. Awaited' /\ AtRest' /\ Single'
      BY <1>1, <1>3, <1>10, <3>1, DataStays DEF Alone, AtRest, Single, Nothing
    <3>4. QED  BY <3>2, <3>3
  <2>8. Got'
    <3>1. SUFFICES ASSUME Home
                   PROVE  GotFlow' /\ GotPosted' /\ GotTold' /\ GotDone'
      BY <1>1 DEF Got, Home
    <3>2. Calm'
      BY <1>7, <1>10, <2>3, <3>1
    <3>3. QED  BY <1>1, <1>3, <1>10, <3>1, <3>2, GotStays DEF Got
  <2>9. Waiters'
    BY <1>1, <1>3, <1>10, <2>2, <2>3, WaitersStay DEF Waits, Asked
  <2>10. QED  BY <1>8, <2>2, <2>5, <2>7, <2>8, <2>9, Whole
<1>11. CASE /\ f.left # <<>> /\ popup = "listed" /\ Calls(Process, after)
            /\ status' = [status EXCEPT ![i] = IF f.ok THEN "Done" ELSE "Canceled"]
            /\ handlers' = [j \in 1..Len(handlers) - 1 |->
                              handlers[IF j < k THEN j ELSE j + 1]]
  <2>1. calls' # <<>> /\ Head(calls') = Process
    BY <1>3, <1>4, <1>5, <1>11, TopPush, NewFrames
  <2>2. /\ Stacked' /\ (Answering' => Answering)
        /\ (\A j \in Item : Enqueued(j) => Enqueued(j)')
        /\ RestRests /\ Tail(f.left) = <<>> => RestRests'
    BY <1>3, <1>4, <1>5, <1>6, <1>11, Pushes
  <2>3. Top("process")' /\ Going' /\ Calm'
    BY <2>1, ProcessRests
  <2>4. ReadyGoes' /\ BusyGoes' /\ Closed'
    BY <1>1, <1>11, <2>3, ListedStays DEF ReadyGoes, BusyGoes
  <2>5. Home => handlers' = <<>>
    <3>1. SUFFICES ASSUME Home
                   PROVE  handlers' = <<>>
      OBVIOUS
    <3>2. handlers \in Seq(Item) /\ handlers # <<>> /\ Len(handlers) <= 1
      BY <1>5, <1>7, <1>11, <3>1
    <3>3. QED  BY <1>11, <3>2, NoneLeft
  <2>6. Alone'
    <3>1. SUFFICES ASSUME Home
                   PROVE  TopRests' /\ RestRests' /\ Awaited' /\ AtRest' /\ Single'
      BY <1>1 DEF Alone, Home
    <3>2. running' = <<>> /\ posted' = <<>> /\ flow' = NoFlow /\ handlers' = <<>>
      BY <1>1, <1>7, <1>11, <2>5, <3>1
    <3>3. RestRests'
      BY <1>3, <1>7, <1>11, <2>2, <3>1 DEF Alone
    <3>4. TopRests' /\ Awaited' /\ AtRest' /\ Single'
      BY <2>3, <3>2, TopProcess DEF Awaited, AtRest, Single, Nothing
    <3>5. QED  BY <3>3, <3>4
  <2>7. Got'
    <3>1. SUFFICES ASSUME Home
                   PROVE  GotFlow' /\ GotPosted' /\ GotTold' /\ GotDone'
      BY <1>1 DEF Got, Home
    <3>2. GotFlow /\ GotPosted /\ GotTold /\ GotDone
      BY <1>3, <3>1 DEF Got
    <3>3. GotSoFar' /\ GotPosted'
      BY <1>1, <3>2 DEF GotFlow, GotSoFar, GotPosted
    <3>4. ASSUME NEW j \in Item, status'[j] = "Done"
          PROVE  Range(RemotesOf[j]) \subseteq got[j]
      <4>1. CASE j = i
        <5>1. f.ok
          BY <1>3, <1>11, <3>4, <4>1 DEF TypeOK
        <5>2. QED  BY <1>1, <1>6, <1>11, <3>2, <4>1, <5>1 DEF GotTold
      <4>2. CASE j # i
        <5>1. status[j] = "Done"
          BY <1>3, <1>11, <3>4, <4>2 DEF TypeOK
        <5>2. QED  BY <3>2, <5>1 DEF GotDone
      <4>3. QED  BY <4>1, <4>2
    <3>5. GotDone'
      BY <1>1, <3>4 DEF GotDone, Range
    <3>6. QED  BY <2>3, <3>3, <3>5, CalmKeeps
  <2>8. Waiters'
    <3>1. \A j \in Item : Waits(j)' => Waits(j)
      BY <1>3, <1>11 DEF Waits, TypeOK
    <3>2. QED  BY <1>1, <1>3, <2>2, <2>3, <3>1, CalmKeeps, WaitersStay DEF Asked
  <2>9. QED  BY <1>8, <2>2, <2>4, <2>6, <2>7, <2>8, Whole
<1>12. QED  BY <1>2, <1>9, <1>10, <1>11

-----------------------------------------------------------------------------
(* The invariant, and what follows from it. *)

LEMMA InitInv == Init => IInv
<1> SUFFICES ASSUME Init  PROVE IInv
  OBVIOUS
<1>1. TypeOK
  <2>1. TypedWork
    BY QueueFacts, FlowFacts DEF Init, TypedWork, Statuses, Blank
  <2>2. TypedPassword /\ TypedThreads
    <3>1. <<>> \in Flights /\ <<>> \in Outcomes
      BY SeqFacts DEF Flights, Outcomes
    <3>2. QED  BY <3>1, ItemFacts DEF Init, TypedPassword, TypedThreads
  <2>3. TypedWindow
    <3>1. 0 \in 0..MaxOpens /\ 0 \in 0..MaxAsks
      BY BoundAssumption
    <3>2. opens = 0 /\ asks = 0 /\ popup = "closed"
      BY DEF Init
    <3>3. QED  BY <3>1, <3>2 DEF TypedWindow
  <2>4. TypedRest
    BY SeqFacts DEF Init, TypedRest, Stacks, Gots
  <2>5. QED  BY <2>1, <2>2, <2>3, <2>4, Typed
<1>2. 1..Len(calls) = {} /\ 2..Len(calls) = {} /\ (\A d : ~Top(d)) /\ calls = <<>>
  <2>1. calls = <<>>
    BY DEF Init
  <2>2. 1..Len(<<>>) = {} /\ 2..Len(<<>>) = {}
    OBVIOUS
  <2>3. QED  BY <2>1, <2>2 DEF Top, Idle
<1>3. Stacked /\ RestRests /\ ~Answering /\ ~Going
  BY <1>2 DEF Stacked, RestRests, Answering, Going
<1>4. /\ queue = <<>> /\ state = "Ready" /\ flow = NoFlow /\ waiting = <<>> /\ asked = FALSE
      /\ handlers = <<>> /\ running = <<>> /\ posted = <<>> /\ popup = "closed"
      /\ \A i \in Item : status[i] = None
  BY DEF Init, Blank
<1>5. Flowing /\ Closed /\ ReadyGoes /\ BusyGoes /\ Remembered
  BY <1>2, <1>4 DEF Flowing, Closed, ReadyGoes, BusyGoes, Busy, Remembered
<1>6. Alone
  BY <1>2, <1>3, <1>4 DEF Alone, TopRests, Nothing, Awaited, AtRest, Single, Going
<1>7. Got
  BY <1>2, <1>4 DEF Got, GotFlow, GotSoFar, GotPosted, GotTold, GotDone, None
<1>8. Waiters
  BY <1>2, <1>3, <1>4 DEF Waiters, Waits, None
<1>9. QED  BY <1>1, <1>3, <1>5, <1>6, <1>7, <1>8 DEF IInv, Inner

LEMMA StepInv == IInv /\ [Next]_vars => IInv'
<1> SUFFICES ASSUME IInv, [Next]_vars  PROVE IInv'
  OBVIOUS
<1>1. TypeOK'
  BY TypeStep, Parts
<1>2. Inner'
  <2>1. CASE Enqueue
    BY <2>1, EnqueueStep
  <2>2. CASE Rest
    BY <2>2, RestStep
  <2>3. CASE Halt
    BY <2>3, HaltStep
  <2>4. ASSUME NEW o \in Op, NEW i \in Item, NothingToDo(o, i) PROVE Inner'
    BY <2>4, NothingToDoStep
  <2>5. ASSUME NEW i \in Item, ExecuteFetch(i) PROVE Inner'
    BY <2>5, ExecuteFetchStep
  <2>6. ASSUME NEW i \in Item, ExecutePull(i) PROVE Inner'
    BY <2>6, ExecutePullStep
  <2>7. CASE FetchIsDone
    BY <2>7, FetchIsDoneStep
  <2>8. ASSUME NEW r \in Remote, FetchNext(r) PROVE Inner'
    BY <2>8, FetchNextStep
  <2>9. CASE FinishFetchFlow
    BY <2>9, FinishFetchFlowStep
  <2>10. ASSUME NEW i \in Item, NEW r \in Remote, PullNext(i, r) PROVE Inner'
    BY <2>10, PullNextStep
  <2>11. CASE PullsStarted
    BY <2>11, PullsStartedStep
  <2>12. ASSUME NEW k \in 1..Len(running), NEW ok \in BOOLEAN, End(k, ok) PROVE Inner'
    BY <2>12, EndStep
  <2>13. CASE OnFetchFinished
    BY <2>13, OnFetchFinishedStep
  <2>14. CASE PullFinished
    BY <2>14, PullFinishedStep
  <2>15. CASE OnPullFinished
    BY <2>15, OnPullFinishedStep
  <2>16. ASSUME NEW o \in Op, NEW items \in Selection, Ask(o, items) PROVE Inner'
    BY <2>16, AskStep
  <2>17. CASE PauseQueue
    BY <2>17, PauseQueueStep
  <2>18. CASE ResumeQueue
    BY <2>18, ResumeQueueStep
  <2>19. CASE StopQueue
    BY <2>19, StopQueueStep
  <2>20. ASSUME NEW p \in {"", "given"}, Confirm(p) PROVE Inner'
    BY <2>20, ConfirmStep, Blanked
  <2>21. CASE Confirmed
    BY <2>21, ConfirmedStep
  <2>22. CASE Reject
    BY <2>22, RejectStep
  <2>23. ASSUME NEW p \in {"skip", "given"}, AskedElsewhere(p) PROVE Inner'
    BY <2>23, AskedElsewhereStep
  <2>24. CASE OpenPopup
    BY <2>24, OpenPopupStep
  <2>25. CASE OnScanFinished
    BY <2>25, OnScanFinishedStep
  <2>26. CASE ClosePopup
    BY <2>26, ClosePopupStep
  <2>27. CASE UNCHANGED vars
    BY <2>27, Stutter
  <2>28. QED
    BY <2>1, <2>2, <2>3, <2>4, <2>5, <2>6, <2>7, <2>8, <2>9, <2>10, <2>11, <2>12,
       <2>13, <2>14, <2>15, <2>16, <2>17, <2>18, <2>19, <2>20, <2>21, <2>22, <2>23,
       <2>24, <2>25, <2>26, <2>27
    DEF Next, Step, Tell, User, Threads
<1>3. QED  BY <1>1, <1>2 DEF IInv

\* What is left in the queue, what is under way, and how many repositories are
\* worked on: between two events the queue of RepoForest.qml never shows Ready
\* with something left in it, is busy only with a fetch or pull under way that
\* onFetchFinished or onPullFinished will recognise, and works on one
\* repository at a time, whatever the repositories, their remotes and the
\* selections are.
THEOREM QueueSound == Spec => []QueueIsSound
<1>1. IInv => QueueIsSound
  <2>1. SUFFICES ASSUME IInv
                 PROVE  QueueIsSound
    OBVIOUS
  <2>2. /\ TypeOK /\ Alone /\ ReadyGoes /\ BusyGoes
    BY <2>1, Parts
  <2>3. ReadyIsEmpty
    BY <2>2 DEF ReadyIsEmpty, ReadyGoes, Top
  <2>4. BusyIsMoved
    <3>1. SUFFICES ASSUME Idle, state \in Busy, odd \cap {"left", "refused"} = {}
                   PROVE  \/ \E f \in Range(running) \cup {o.flight : o \in Range(posted)} :
                               /\ f.op = "fetch" /\ f.for = flow.item
                               /\ f.remote = flow.current
                          \/ /\ handlers # <<>>
                             /\ \E f \in Range(running)
                                           \cup {o.flight : o \in Range(posted)} :
                                  f.op = "pull"
      BY DEF BusyIsMoved
    <3>2. Moving
      BY <2>1, <3>1, AtIdle
    <3>3. ASSUME NEW o, NEW i, NEW r, Aloft(o, i, r)
          PROVE  \E f \in Range(running) \cup {p.flight : p \in Range(posted)} :
                   Matches(f, o, i, r)
      <4>1. CASE \E k \in DOMAIN running : Matches(running[k], o, i, r)
        BY <4>1 DEF Range
      <4>2. CASE \E k \in DOMAIN posted : Matches(posted[k].flight, o, i, r)
        BY <4>2 DEF Range
      <4>3. QED  BY <3>3, <4>1, <4>2 DEF Aloft
    <3>4. CASE Aloft("fetch", flow.item, flow.current)
      BY <3>3, <3>4 DEF Matches
    <3>5. CASE handlers # <<>> /\ \E i \in Item, r \in Remote : Aloft("pull", i, r)
      BY <3>3, <3>5 DEF Matches
    <3>6. QED  BY <3>2, <3>4, <3>5 DEF Moving
  <2>5. OneAtATime
    <3>1. SUFFICES ASSUME Home
                   PROVE  /\ Len(running) + Len(posted) <= 1
                          /\ \A k \in DOMAIN running : running[k].home
                          /\ state \in {"Ready", "Pause"} => running \o posted = <<>>
      BY DEF OneAtATime, Home
    <3>2. Awaited /\ AtRest /\ Single
      BY <2>2, <3>1 DEF Alone
    <3>3. Len(running) + Len(posted) <= 1 /\ \A k \in DOMAIN running : running[k].home
      BY <3>2 DEF Awaited, Single
    <3>4. state \in {"Ready", "Pause"} => running \o posted = <<>>
      <4>1. <<>> \o <<>> = <<>>
        OBVIOUS
      <4>2. QED  BY <3>2, <4>1 DEF AtRest, Nothing
    <3>5. QED  BY <3>3, <3>4
  <2>6. QED  BY <2>2, <2>3, <2>4, <2>5 DEF QueueIsSound
<1>2. QED  BY InitInv, StepInv, <1>1, PTL DEF Spec

\* An item whose status was set to Done by fetchStartNextRemote or
\* onPullFinished did get what each of its remotes had, in its own repository
\* and since executeFetch or executePull began on it.
THEOREM DoneHolds == Spec => []DoneIsDone
<1>1. IInv => DoneIsDone
  BY Parts DEF DoneIsDone, Got, GotDone, Home
<1>2. QED  BY InitInv, StepInv, <1>1, PTL DEF Spec

\* The items that wait for a password are those in _patWaitingIndexs, and the
\* popup that asks for it stays open while there are any: onPasswordConfirm and
\* onRejected find every one of them.
THEOREM WaitersHeard == Spec => []WaitersAreAsked
<1>1. IInv => WaitersAreAsked
  <2>1. SUFFICES ASSUME IInv
                 PROVE  WaitersAreAsked
    OBVIOUS
  <2>2. Remembered /\ Waiters
    BY <2>1, Parts
  <2>3. ASSUME NEW i \in Item, Asked, Waits(i)
        PROVE  asked /\ i \in Range(waiting)
    <3>1. i \in Range(waiting)
      BY <2>2, <2>3 DEF Waiters
    <3>2. waiting # <<>>
      BY <3>1, RangeOfEmpty
    <3>3. QED  BY <2>2, <3>1, <3>2 DEF Remembered
  <2>4. QED  BY <2>2, <2>3 DEF WaitersAreAsked, Remembered, Asked, Waits
<1>2. QED  BY InitInv, StepInv, <1>1, PTL DEF Spec
===============================================================================
