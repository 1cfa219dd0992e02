----------------------------- MODULE RebaseProofs -----------------------------
(***************************************************************************)
(* The interactive rebase replays its plan in order, loses no entry, moves *)
(* no branch before its end and puts HEAD back when it is aborted, for     *)
(* every plan, repository and choice of conflicts.  The strengthening says *)
(* what a waiting session waits for, and that the reference read at the    *)
(* start still has the target it was read with.  Then the two windows: the *)
(* plan popup tells the truth of the session, and what they do keeps to    *)
(* the plan, whatever calls are left over from sessions before; the        *)
(* conflict window speaks for a waiting session as long as none is.        *)
(***************************************************************************)
EXTENDS RebaseWindows, SequenceTheorems, TLAPS

\* What the session remembers of HEAD is what HEAD was, and still true of
\* the branch.
RemembersHead ==
  inProgress => /\ headRef = origin
                /\ headRef.name \in Branch => git.refs[headRef.name] = headRef.target

\* A waiting session stands at the entry it tried to pick, and the repository
\* too knows of the pick.
WaitsAtPick ==
  pickActive => /\ inProgress
                /\ idx < Len(plan)
                /\ plan[idx + 1].action = "pick"
                /\ opHash = plan[idx + 1].hash
                /\ git.op = "cherrypick"

\* What holds of a session whatever is staged while it runs.
Core == /\ TypeOK /\ RemembersHead /\ WaitsAtPick
        /\ SessionDetached /\ Accounted /\ Replayed /\ NotStalled

IInv == Core /\ CleanBetween

-----------------------------------------------------------------------------
(* What the calls into the repository leave. *)

LEMMA WFSetHead ==
  ASSUME NEW g, WellFormed(g), NEW name \in Branch \cup {Detached}
  PROVE  WellFormed(SetHead(g, name)) /\ SetHead(g, name).refs = g.refs
         /\ SetHead(g, name).dirty = g.dirty
  BY BranchAssumption DEF SetHead, WellFormed, Repository

LEMMA WFDetach ==
  ASSUME NEW g, WellFormed(g), NEW c \in Commit
  PROVE  /\ WellFormed(Detach(g, c))
         /\ Detach(g, c).head = Detached /\ Detach(g, c).at = c
         /\ Detach(g, c).refs = g.refs /\ Detach(g, c).dirty = g.dirty
  BY BranchAssumption DEF Detach, WellFormed, Repository

LEMMA WFMoveHead ==
  ASSUME NEW g, WellFormed(g), NEW c \in Commit
  PROVE  /\ WellFormed(MoveHead(g, c))
         /\ MoveHead(g, c).head = g.head /\ MoveHead(g, c).at = c
         /\ MoveHead(g, c).dirty = g.dirty /\ MoveHead(g, c).unmerged = g.unmerged
         /\ g.head = Detached => MoveHead(g, c).refs = g.refs
  BY BranchAssumption DEF MoveHead, WellFormed, Repository

LEMMA WFSetTarget ==
  ASSUME NEW g, WellFormed(g), NEW name \in Branch \cup {Detached}, NEW old, NEW c \in Commit
  PROVE  /\ WellFormed(SetTarget(g, name, old, c))
         /\ SetTarget(g, name, old, c).refs # g.refs
              => name \in Branch /\ SetTarget(g, name, old, c).refs = [g.refs EXCEPT ![name] = c]
  BY BranchAssumption DEF SetTarget, WellFormed, Repository

LEMMA WFCleanup ==
  ASSUME NEW g, WellFormed(g)
  PROVE  /\ WellFormed(StateCleanup(g))
         /\ StateCleanup(g).head = g.head /\ StateCleanup(g).at = g.at
         /\ StateCleanup(g).refs = g.refs /\ StateCleanup(g).op = "none"
         /\ StateCleanup(g).dirty = g.dirty /\ StateCleanup(g).unmerged = g.unmerged
  BY DEF StateCleanup, WellFormed, Repository, Ops

LEMMA WFDiscard ==
  ASSUME NEW g, WellFormed(g)
  PROVE  /\ WellFormed(Discard(g))
         /\ Discard(g).head = g.head /\ Discard(g).at = g.at /\ Discard(g).refs = g.refs
         /\ Discard(g).op = g.op /\ Discard(g).dirty = FALSE /\ Discard(g).unmerged = {}
  BY DEF Discard, WellFormed, Repository

\* Dropping a pick changes the tree and the state only.
LEMMA WFAbortPick ==
  ASSUME NEW g, WellFormed(g)
  PROVE  /\ WellFormed(AbortCherryPick(g))
         /\ AbortCherryPick(g).head = g.head /\ AbortCherryPick(g).at = g.at
         /\ AbortCherryPick(g).refs = g.refs /\ AbortCherryPick(g).op = "none"
         /\ AbortCherryPick(g).dirty = FALSE /\ AbortCherryPick(g).unmerged = {}
<1> DEFINE d == Discard(g)
<1>1. /\ WellFormed(d) /\ d.head = g.head /\ d.at = g.at /\ d.refs = g.refs
      /\ d.dirty = FALSE /\ d.unmerged = {}
  BY WFDiscard
<1> HIDE DEF d
<1>2. /\ WellFormed(StateCleanup(d))
      /\ StateCleanup(d).head = g.head /\ StateCleanup(d).at = g.at
      /\ StateCleanup(d).refs = g.refs /\ StateCleanup(d).op = "none"
      /\ StateCleanup(d).dirty = FALSE /\ StateCleanup(d).unmerged = {}
  BY <1>1, WFCleanup
<1> QED BY <1>2 DEF AbortCherryPick, d

\* So does dropping it with what is left behind.
LEMMA WFDropped ==
  ASSUME NEW g, WellFormed(g), NEW d \in Dropped(g)
  PROVE  WellFormed(d) /\ d.head = g.head /\ d.at = g.at /\ d.refs = g.refs
<1> DEFINE e == [g EXCEPT !.unmerged = {}, !.missing = {}]
<1>1. WellFormed(e) /\ e.head = g.head /\ e.at = g.at /\ e.refs = g.refs
  BY DEF WellFormed, Repository
<1> HIDE DEF e
<1>2. CASE d = StateCleanup(e)
  BY <1>1, <1>2, WFCleanup
<1>3. CASE d = StateCleanup(g)
  BY <1>3, WFCleanup
<1>4. CASE d = AbortCherryPick(g)
  BY <1>4, WFAbortPick
<1> QED BY <1>2, <1>3, <1>4 DEF Dropped, LeftBehind, e

\* Files that differ from HEAD make no difference to HEAD and the branches.
LEMMA WFDirty ==
  ASSUME NEW g, WellFormed(g), NEW d \in BOOLEAN, g.unmerged = {} \/ d
  PROVE  /\ WellFormed([g EXCEPT !.dirty = d])
         /\ [g EXCEPT !.dirty = d].head = g.head /\ [g EXCEPT !.dirty = d].at = g.at
         /\ [g EXCEPT !.dirty = d].refs = g.refs /\ [g EXCEPT !.dirty = d].op = g.op
         /\ [g EXCEPT !.dirty = d].unmerged = g.unmerged
  BY DEF WellFormed, Repository

LEMMA WFBackOn ==
  ASSUME NEW g, WellFormed(g), NEW name \in Branch \cup {Detached}
  PROVE  /\ WellFormed(BackOn(g, name))
         /\ BackOn(g, name).refs = g.refs
         /\ name = Detached => BackOn(g, name).head = g.head /\ BackOn(g, name).at = g.at
         /\ name # Detached => BackOn(g, name).head = name /\ BackOn(g, name).at = g.refs[name]
         /\ BackOn(g, name).at = g.at => BackOn(g, name).dirty = g.dirty
         /\ BackOn(g, name).unmerged = g.unmerged
<1> DEFINE h == SetHead(g, name)
<1>1. /\ WellFormed(h) /\ h.refs = g.refs /\ h.dirty = g.dirty /\ h.unmerged = g.unmerged
      /\ name = Detached => h.head = g.head /\ h.at = g.at
      /\ name # Detached => h.head = name /\ h.at = g.refs[name]
  BY BranchAssumption DEF SetHead, WellFormed, Repository
<1> HIDE DEF h
<1>2. BackOn(g, name) = [h EXCEPT !.dirty = h.dirty \/ h.at # g.at]
  BY DEF BackOn, h
<1> QED BY <1>1, <1>2 DEF WellFormed, Repository

\* Committing a resolved pick on a detached HEAD adds its change to HEAD.
LEMMA WFCommitPick ==
  ASSUME NEW g, WellFormed(g), g.unmerged = {}, NEW h \in Change
  PROVE  /\ WellFormed(CommitPick(g, h))
         /\ CommitPick(g, h).head = g.head /\ CommitPick(g, h).at = Append(g.at, h)
         /\ g.head = Detached => CommitPick(g, h).refs = g.refs
         /\ CommitPick(g, h).dirty = FALSE
<1>1. Append(g.at, h) \in Commit
  BY DEF WellFormed, Repository, Commit
<1> DEFINE m == MoveHead(g, Append(g.at, h))
          s == [m EXCEPT !.dirty = FALSE]
<1>2. /\ WellFormed(m) /\ m.head = g.head /\ m.at = Append(g.at, h) /\ m.unmerged = {}
      /\ g.head = Detached => m.refs = g.refs
  BY <1>1, WFMoveHead
<1> HIDE DEF m
<1>3. /\ WellFormed(s) /\ s.head = g.head /\ s.at = Append(g.at, h)
      /\ g.head = Detached => s.refs = g.refs
      /\ s.dirty = FALSE /\ s.unmerged = {}
  BY <1>2 DEF WellFormed, Repository
<1> HIDE DEF s
<1>4. /\ WellFormed(StateCleanup(s))
      /\ StateCleanup(s).head = g.head /\ StateCleanup(s).at = Append(g.at, h)
      /\ g.head = Detached => StateCleanup(s).refs = g.refs
      /\ StateCleanup(s).dirty = FALSE
  BY <1>3, WFCleanup
<1> QED BY <1>4 DEF CommitPick, CommitStaged, s, m

\* What was dirty before may still be so.
LEMMA WFCommitLeft ==
  ASSUME NEW g, WellFormed(g), g.unmerged = {}, NEW h \in Change, NEW left \in BOOLEAN
  PROVE  /\ WellFormed([CommitPick(g, h) EXCEPT !.dirty = left])
         /\ [CommitPick(g, h) EXCEPT !.dirty = left].head = g.head
         /\ [CommitPick(g, h) EXCEPT !.dirty = left].at = Append(g.at, h)
         /\ [CommitPick(g, h) EXCEPT !.dirty = left].dirty = left
         /\ g.head = Detached => [CommitPick(g, h) EXCEPT !.dirty = left].refs = g.refs
<1> DEFINE k == CommitPick(g, h)
<1>1. /\ WellFormed(k) /\ k.head = g.head /\ k.at = Append(g.at, h)
      /\ g.head = Detached => k.refs = g.refs
  BY WFCommitPick
<1>2. k.unmerged = {}
  BY DEF CommitPick, CommitStaged, StateCleanup, MoveHead, WellFormed, Repository
<1> HIDE DEF k
<1>3. [k EXCEPT !.dirty = left].dirty = left
  BY <1>1 DEF WellFormed, Repository
<1>4. /\ WellFormed([k EXCEPT !.dirty = left])
      /\ [k EXCEPT !.dirty = left].head = k.head /\ [k EXCEPT !.dirty = left].at = k.at
      /\ [k EXCEPT !.dirty = left].refs = k.refs
  BY <1>1, <1>2, WFDirty
<1> QED BY <1>1, <1>3, <1>4 DEF k

LEMMA WFPicked ==
  ASSUME NEW g, WellFormed(g)
  PROVE  /\ WellFormed(Picked(g))
         /\ Picked(g).head = g.head /\ Picked(g).at = g.at /\ Picked(g).refs = g.refs
         /\ Picked(g).unmerged = g.unmerged
  BY DEF Picked, WellFormed, Repository, Ops

LEMMA WFConflicts ==
  ASSUME NEW g, WellFormed(g), NEW U \in SUBSET Path, NEW M \in SUBSET U
  PROVE  /\ WellFormed(PickedWithConflicts(g, U, M))
         /\ PickedWithConflicts(g, U, M).head = g.head
         /\ PickedWithConflicts(g, U, M).at = g.at
         /\ PickedWithConflicts(g, U, M).refs = g.refs
         /\ PickedWithConflicts(g, U, M).op = "cherrypick"
  BY DEF PickedWithConflicts, WellFormed, Repository, Ops

LEMMA WFStage ==
  ASSUME NEW g, WellFormed(g), NEW p, NEW still \in BOOLEAN
  PROVE  /\ WellFormed(StagePath(g, p, still))
         /\ StagePath(g, p, still).head = g.head /\ StagePath(g, p, still).at = g.at
         /\ StagePath(g, p, still).refs = g.refs /\ StagePath(g, p, still).op = g.op
  BY DEF StagePath, WellFormed, Repository

-----------------------------------------------------------------------------
(* Sequences. *)

\* The hashes of the plan's entries at the positions in s.
Hashes(s) == [i \in DOMAIN s |-> plan[s[i]].hash]

LEMMA RangeAppend ==
  ASSUME NEW s \in Seq(Nat), NEW n \in Nat
  PROVE  Range(Append(s, n)) = Range(s) \cup {n}
<1>1. DOMAIN Append(s, n) = DOMAIN s \cup {Len(s) + 1}
  OBVIOUS
<1>2. \A i \in DOMAIN s : Append(s, n)[i] = s[i]
  OBVIOUS
<1>3. Append(s, n)[Len(s) + 1] = n
  OBVIOUS
<1> QED BY <1>1, <1>2, <1>3 DEF Range

\* Committing the entry at n adds its hash to the hashes committed.
LEMMA HashesAppend ==
  ASSUME NEW s \in Seq(Nat), NEW n \in Nat, NEW c \in Commit,
         plan \in Seq(Entry), n \in DOMAIN plan, \A i \in DOMAIN s : s[i] \in DOMAIN plan
  PROVE  c \o Hashes(Append(s, n)) = Append(c \o Hashes(s), plan[n].hash)
<1>1. \A i \in DOMAIN plan : plan[i].hash \in Change
  <2>1. \A i \in DOMAIN plan : plan[i] \in Entry
    OBVIOUS
  <2> QED BY <2>1 DEF Entry
<1>2. Hashes(s) \in Seq(Change) /\ Len(Hashes(s)) = Len(s)
  BY <1>1 DEF Hashes
<1>3. Hashes(Append(s, n)) = Append(Hashes(s), plan[n].hash)
  <2>1. DOMAIN Append(s, n) = 1 .. Len(s) + 1
    OBVIOUS
  <2>2. Hashes(Append(s, n)) = [i \in 1 .. Len(s) + 1 |-> plan[Append(s, n)[i]].hash]
    BY <2>1 DEF Hashes
  <2>3. Append(Hashes(s), plan[n].hash)
          = [i \in 1 .. Len(s) + 1 |-> IF i = Len(s) + 1 THEN plan[n].hash ELSE Hashes(s)[i]]
    BY <1>2
  <2>4. \A i \in 1 .. Len(s) : Append(s, n)[i] = s[i] /\ Hashes(s)[i] = plan[s[i]].hash
    BY DEF Hashes
  <2>5. Append(s, n)[Len(s) + 1] = n
    OBVIOUS
  <2> QED BY <2>2, <2>3, <2>4, <2>5
<1>4. plan[n].hash \in Change
  BY <1>1
<1> QED BY <1>2, <1>3, <1>4 DEF Commit

-----------------------------------------------------------------------------
(* Every step preserves the core of the invariant. *)

LEMMA InitInv == Init => IInv
<1> SUFFICES ASSUME Init PROVE IInv
  OBVIOUS
<1>1. WellFormed(git)
  BY PlanAssumption DEF Init
<1>2. <<>> \in Commit /\ <<>> \in Seq(Entry) /\ <<>> \in Seq(Nat)
  BY DEF Commit
<1> QED BY <1>1, <1>2 DEF Init, IInv, Core, TypeOK, NoRef, Ref, Signal, RemembersHead,
     WaitsAtPick, SessionDetached, Accounted, Replayed, NotStalled, CleanBetween

\* A step that ends the session need only leave a repository.
LEMMA EndStep ==
  ASSUME EndSession, slipped' \in BOOLEAN, WellFormed(git)', posted' \in Nat, signal' \in Signal
  PROVE  Core'
<1>1. <<>> \in Commit /\ <<>> \in Seq(Entry) /\ <<>> \in Seq(Nat)
  BY DEF Commit
<1> QED BY <1>1 DEF EndSession, Core, TypeOK, NoRef, Ref, RemembersHead, WaitsAtPick,
     SessionDetached, Accounted, Replayed, NotStalled

\* A step without a session, or one that only stages a file.
LEMMA IdleStep ==
  ASSUME Core, UNCHANGED <<session, history>>, WellFormed(git)',
         posted' \in Nat, signal' \in Signal,
         inProgress => /\ git'.head = git.head /\ git'.at = git.at /\ git'.refs = git.refs
                       /\ git'.op = git.op /\ posted' = posted
  PROVE  Core'
<1>1. TypeOK'
  BY DEF Core, TypeOK, session, history
<1>2. (RemembersHead /\ WaitsAtPick /\ SessionDetached /\ NotStalled)'
  BY DEF Core, session, history, RemembersHead, WaitsAtPick, SessionDetached, NotStalled
<1>3. Accounted' /\ Replayed'
  BY DEF Core, session, history, Accounted, Replayed
<1> QED BY <1>1, <1>2, <1>3 DEF Core

\* What a repository is before the session detaches HEAD.
LEMMA WFOnBranch ==
  ASSUME WellFormed(git), NEW branch \in Branch \cup {None}
  PROVE  /\ WellFormed(OnBranch(branch))
         /\ OnBranch(branch).refs = git.refs /\ OnBranch(branch).dirty = git.dirty
  BY WFSetHead, PlanAssumption DEF OnBranch

LEMMA BeginStep ==
  ASSUME Core, NEW branch \in Branch \cup {None}, NEW c \in Bases, NEW p \in Plans,
         Begin(branch, c, p)
  PROVE  Core'
<1>1. c \in Commit /\ p \in Seq(Entry)
  BY PlanAssumption
<1>2. /\ WellFormed(git) /\ git.dirty \in BOOLEAN /\ ~inProgress /\ ~pickActive
      /\ opHash \in Change \cup {None}
  BY DEF Core, TypeOK, Begin, Start, CanBegin, WaitsAtPick, WellFormed, Repository
<1>3. /\ WellFormed(git') /\ git'.head = Detached /\ git'.at = c
      /\ git'.refs = git.refs
  BY <1>1, <1>2, WFOnBranch, WFDetach DEF Begin, Start
<1>4. /\ headRef' \in Ref /\ origin' = headRef'
      /\ headRef'.name \in Branch => git.refs[headRef'.name] = headRef'.target
  BY <1>2 DEF Begin, Start, Ref, WellFormed, Repository
<1>5. <<>> \in Seq(Nat) /\ Range(<<>>) = {} /\ DOMAIN <<>> = {}
  BY DEF Range
<1>6. posted' \in Nat /\ posted' > 0
  BY DEF Core, TypeOK, Begin, Start
<1>7. TypeOK'
  <2>1. signal' \in Signal /\ base' \in Commit /\ plan' \in Seq(Entry) /\ idx' \in Nat
    BY <1>1 DEF Begin, Start, Signal
  <2>2. inProgress' \in BOOLEAN /\ pickActive' \in BOOLEAN
    BY DEF Core, TypeOK, Begin, Start
  <2>3. /\ opHash' \in Change \cup {None} /\ asked' \in Branch \cup {None}
        /\ applied' \in Seq(Nat) /\ skipped' \subseteq Nat /\ slipped' \in BOOLEAN
    BY <1>2, <1>5 DEF Begin, Start
  <2> QED BY <1>3, <1>4, <1>6, <2>1, <2>2, <2>3 DEF TypeOK
<1>8. Accounted'
  <2>1. Len(p) \in Nat
    BY <1>1
  <2> QED BY <1>5, <2>1 DEF Begin, Start, Accounted
<1>9. Replayed'
  <2>1. [i \in DOMAIN <<>> |-> plan'[<<>>[i]].hash] = <<>>
    BY <1>5
  <2>2. c \o <<>> = c
    BY <1>1 DEF Commit
  <2> QED BY <1>3, <1>5, <2>1, <2>2 DEF Begin, Start, Replayed
<1>10. (RemembersHead /\ SessionDetached)'
  BY <1>3, <1>4 DEF Begin, Start, RemembersHead, SessionDetached
<1>11. pickActive' = FALSE /\ inProgress' = TRUE
  BY <1>2 DEF Begin, Start, Core, TypeOK
<1>12. WaitsAtPick'
  BY <1>11 DEF WaitsAtPick
<1>13. NotStalled'
  BY <1>6 DEF NotStalled
<1> QED BY <1>7, <1>8, <1>9, <1>10, <1>12, <1>13 DEF Core

\* An entry is skipped.
LEMMA SkippedStep ==
  ASSUME Core, inProgress, idx < Len(plan), NEW calls \in Nat, Skipped(calls),
         opHash' = opHash, slipped' \in BOOLEAN, WellFormed(git)',
         git'.head = git.head, git'.at = git.at, git'.refs = git.refs
  PROVE  Core'
<1>1. idx \in Nat /\ Len(plan) \in Nat
  BY DEF Core, TypeOK
<1>2. TypeOK'
  <2>1. idx' \in Nat /\ posted' \in Nat /\ skipped' \subseteq Nat
    BY <1>1 DEF Core, TypeOK, Skipped, Advance
  <2>2. signal' \in Signal /\ inProgress' \in BOOLEAN /\ pickActive' \in BOOLEAN
    BY DEF Core, TypeOK, Skipped, Advance, Signal
  <2>3. /\ plan' = plan /\ headRef' = headRef /\ base' = base /\ origin' = origin
        /\ asked' = asked /\ applied' = applied
    BY DEF Skipped, Advance
  <2> QED BY <2>1, <2>2, <2>3 DEF Core, TypeOK
<1>3. Accounted'
  BY <1>1 DEF Core, Accounted, Skipped, Advance
<1>4. Replayed'
  BY DEF Core, Replayed, Skipped, Advance
<1>5. (RemembersHead /\ WaitsAtPick /\ SessionDetached /\ NotStalled)'
  BY DEF Core, Skipped, Advance, RemembersHead, WaitsAtPick, SessionDetached, NotStalled
<1> QED BY <1>2, <1>3, <1>4, <1>5 DEF Core

\* An entry is committed.
LEMMA CompletedStep ==
  ASSUME Core, inProgress, idx < Len(plan), plan[idx + 1].action = "pick",
         NEW calls \in Nat, Completed(calls), opHash' \in Change \cup {None},
         slipped' = slipped, WellFormed(git)', git'.head = git.head,
         git'.at = Append(git.at, plan[idx + 1].hash), git'.refs = git.refs
  PROVE  Core'
<1>1. /\ idx \in Nat /\ Len(plan) \in Nat /\ applied \in Seq(Nat) /\ base \in Commit
      /\ plan \in Seq(Entry)
  BY DEF Core, TypeOK
<1>2. TypeOK'
  <2>1. idx' \in Nat /\ posted' \in Nat /\ applied' \in Seq(Nat)
    BY <1>1 DEF Core, TypeOK, Completed, Advance
  <2>2. signal' \in Signal /\ inProgress' \in BOOLEAN /\ pickActive' \in BOOLEAN
    BY DEF Core, TypeOK, Completed, Advance, Signal
  <2>3. /\ plan' = plan /\ headRef' = headRef /\ base' = base /\ origin' = origin
        /\ asked' = asked /\ skipped' = skipped
    BY DEF Completed, Advance
  <2> QED BY <2>1, <2>2, <2>3 DEF Core, TypeOK
<1>3. Range(applied') = Range(applied) \cup {idx + 1}
  BY <1>1, RangeAppend DEF Completed
<1>4. \A i \in DOMAIN applied : applied[i] \in 1 .. idx
  BY <1>1 DEF Core, Accounted, Range
<1>5. /\ DOMAIN applied' = 1 .. Len(applied) + 1
      /\ \A i \in DOMAIN applied : applied'[i] = applied[i]
      /\ applied'[Len(applied) + 1] = idx + 1
      /\ DOMAIN applied = 1 .. Len(applied)
  BY <1>1 DEF Completed
<1>6. Accounted'
  <2>1. \A i \in DOMAIN applied' : plan'[applied'[i]].action = "pick"
    BY <1>5 DEF Core, Accounted, Completed, Advance
  <2> QED BY <1>1, <1>3, <2>1 DEF Core, Accounted, Completed, Advance
<1>7. Replayed'
  <2>1. \A i, j \in DOMAIN applied' : i < j => applied'[i] < applied'[j]
    <3> SUFFICES ASSUME NEW i \in DOMAIN applied', NEW j \in DOMAIN applied', i < j
                 PROVE  applied'[i] < applied'[j]
      OBVIOUS
    <3>1. Len(applied) \in Nat /\ i \in 1 .. Len(applied)
      BY <1>1, <1>5
    <3>2. CASE j \in 1 .. Len(applied)
      BY <1>5, <3>1, <3>2 DEF Core, Replayed
    <3>3. CASE j = Len(applied) + 1
      <4>1. applied'[i] \in 1 .. idx
        BY <1>4, <1>5, <3>1
      <4>2. applied'[j] = idx + 1
        BY <1>5, <3>3
      <4> QED BY <1>1, <4>1, <4>2
    <3>4. j \in 1 .. Len(applied) + 1
      BY <1>5
    <3>5. j \in 1 .. Len(applied) \/ j = Len(applied) + 1
      BY <3>1, <3>4
    <3> QED BY <3>2, <3>3, <3>5
  <2>2. git'.at = base \o Hashes(Append(applied, idx + 1))
    <3>1. git.at = base \o Hashes(applied)
      BY DEF Core, Replayed, Hashes
    <3>2. \A i \in DOMAIN applied : applied[i] \in DOMAIN plan
      BY <1>1, <1>4
    <3>3. idx + 1 \in Nat /\ idx + 1 \in DOMAIN plan
      BY <1>1
    <3> QED BY <1>1, <3>1, <3>2, <3>3, HashesAppend
  <2> QED BY <2>1, <2>2 DEF Replayed, Completed, Advance, Hashes
<1>8. (RemembersHead /\ WaitsAtPick /\ SessionDetached /\ NotStalled)'
  BY DEF Core, Completed, Advance, RemembersHead, WaitsAtPick, SessionDetached, NotStalled
<1> QED BY <1>2, <1>6, <1>7, <1>8 DEF Core

\* A cherry-pick stops at conflicts.
LEMMA ConflictStep ==
  ASSUME Core, PickConflicts
  PROVE  Core'
<1>u. PICK U \in SUBSET Path : \E M \in SUBSET U : git' = PickedWithConflicts(git, U, M)
  BY DEF PickConflicts
<1>1. PICK M \in SUBSET U : git' = PickedWithConflicts(git, U, M)
  BY <1>u
<1>2. /\ WellFormed(git)' /\ git'.head = git.head /\ git'.at = git.at /\ git'.refs = git.refs
      /\ git'.op = "cherrypick"
  BY <1>1, WFConflicts DEF Core, TypeOK
<1>3. /\ inProgress /\ idx < Len(plan) /\ plan[idx + 1].action = "pick"
      /\ opHash' = plan[idx + 1].hash
  BY DEF PickConflicts, Due
<1>4. opHash' \in Change
  <2>1. idx + 1 \in DOMAIN plan
    BY <1>3 DEF Core, TypeOK
  <2>2. plan[idx + 1] \in Entry
    BY <2>1 DEF Core, TypeOK
  <2> QED BY <1>3, <2>2 DEF Entry
<1>5. TypeOK'
  <2>1. posted' \in Nat
    BY DEF Core, TypeOK, PickConflicts, Due, Deliver
  <2>2. signal' \in Signal /\ inProgress' \in BOOLEAN /\ pickActive' \in BOOLEAN
    BY DEF Core, TypeOK, PickConflicts, Signal
  <2> QED BY <1>2, <1>4, <2>1, <2>2 DEF Core, TypeOK, PickConflicts, history
<1>6. (RemembersHead /\ WaitsAtPick /\ SessionDetached /\ NotStalled)'
  BY <1>2, <1>3 DEF Core, PickConflicts, history, RemembersHead, WaitsAtPick, SessionDetached,
     NotStalled
<1>7. Accounted' /\ Replayed'
  BY <1>2 DEF Core, PickConflicts, history, Accounted, Replayed
<1> QED BY <1>5, <1>6, <1>7 DEF Core

\* Posted calls.
LEMMA ProcessStep ==
  ASSUME Core, ProcessNext
  PROVE  Core'
<1>1. WellFormed(git) /\ posted \in Nat /\ plan \in Seq(Entry) /\ idx \in Nat
  BY DEF Core, TypeOK
<1>2. CASE Late
  <2>1. posted' \in Nat /\ signal' \in Signal
    BY <1>1, <1>2 DEF Late, Deliver, Signal
  <2> QED BY <1>1, <1>2, <2>1, IdleStep DEF Late
<1>3. CASE Finish
  <2>1. git.at \in Commit /\ headRef.name \in Branch \cup {Detached}
    BY <1>1 DEF Core, TypeOK, Ref, WellFormed, Repository
  <2>p. PICK moved \in BOOLEAN, back \in BOOLEAN :
          git' = Finished(moved, back) /\ slipped' = ~(moved /\ back)
    BY <1>3 DEF Finish
  <2> DEFINE g == IF moved THEN SetTarget(git, headRef.name, headRef.target, git.at) ELSE git
  <2>g. WellFormed(g) /\ git' = IF back THEN BackOn(g, headRef.name) ELSE g
    BY <1>1, <2>1, <2>p, WFSetTarget DEF Finished
  <2> HIDE DEF g
  <2>2. WellFormed(git') /\ slipped' \in BOOLEAN
    BY <2>1, <2>p, <2>g, WFBackOn
  <2>3. posted' \in Nat /\ signal' \in Signal
    BY <1>1, <1>3 DEF Finish, Deliver, Signal
  <2> QED BY <1>3, <2>2, <2>3, EndStep DEF Finish
<1>4. CASE SkipEntry
  <2>1. posted - 1 \in Nat /\ inProgress /\ idx < Len(plan) /\ Skipped(posted - 1)
    BY <1>1, <1>4 DEF SkipEntry, Due, Deliver
  <2>2. slipped' \in BOOLEAN
    BY <1>4 DEF SkipEntry, Core, TypeOK
  <2> QED BY <1>1, <1>4, <2>1, <2>2, SkippedStep DEF SkipEntry
<1>5. CASE PickApplies
  <2>1. /\ posted - 1 \in Nat /\ inProgress /\ idx < Len(plan)
        /\ plan[idx + 1].action = "pick" /\ Completed(posted - 1) /\ slipped' = slipped
    BY <1>1, <1>5 DEF PickApplies, Due, Deliver
  <2>2. plan[idx + 1].hash \in Change
    <3>1. idx + 1 \in DOMAIN plan
      BY <1>1, <2>1
    <3>2. plan[idx + 1] \in Entry
      BY <1>1, <3>1
    <3> QED BY <3>2 DEF Entry
  <2>3. git.head = Detached /\ git.unmerged = {}
    BY <1>1, <1>5, <2>1 DEF Core, SessionDetached, WellFormed, PickApplies, Pickable
  <2>4. /\ WellFormed(git') /\ git'.head = git.head
        /\ git'.at = Append(git.at, plan[idx + 1].hash) /\ git'.refs = git.refs
    <3> DEFINE g == Picked(git)
    <3>1. /\ WellFormed(g) /\ g.head = Detached /\ g.at = git.at /\ g.refs = git.refs
          /\ g.unmerged = {}
      BY <1>1, <2>3, WFPicked
    <3> HIDE DEF g
    <3>2. PICK left \in {FALSE, git.dirty} :
            git' = [CommitPick(g, plan[idx + 1].hash) EXCEPT !.dirty = left]
      BY <1>5 DEF PickApplies, g
    <3>3. left \in BOOLEAN
      BY <1>1 DEF WellFormed, Repository
    <3> QED BY <2>2, <2>3, <3>1, <3>2, <3>3, WFCommitLeft
  <2>5. opHash' \in Change \cup {None}
    BY <1>5, <2>2 DEF PickApplies
  <2> QED BY <2>1, <2>4, <2>5, CompletedStep
<1>6. CASE PickConflicts
  BY <1>6, ConflictStep
<1>7. CASE PickFails
  <2>1. WellFormed(git') /\ signal' \in Signal /\ EndSession /\ slipped' \in BOOLEAN
    BY <1>1, <1>7, WFPicked, WFDropped DEF PickFails, FailWith, Signal
  <2>2. posted' \in Nat
    BY <1>1, <1>7 DEF PickFails, Due, Deliver
  <2> QED BY <2>1, <2>2, EndStep
<1> QED BY <1>2, <1>3, <1>4, <1>5, <1>6, <1>7 DEF ProcessNext

\* Whatever fails in it, an abort moves no branch, and leaves HEAD at one of
\* four places.
LEMMA AbortLeaves ==
  ASSUME Core, InteractiveAbort
  PROVE  /\ WellFormed(git') /\ git'.refs = git.refs /\ git'.op = "none"
         /\ slipped' \in BOOLEAN
         /\ ~slipped' => /\ git'.head = headRef.name /\ git'.at = headRef.target
                         /\ ~git'.dirty /\ git'.unmerged = {}
         /\ \/ git'.head = git.head /\ git'.at \in {git.at, headRef.target}
            \/ headRef.name # Detached /\ git'.head = headRef.name
               /\ git'.at = git.refs[headRef.name]
<1>1. /\ WellFormed(git) /\ git.head = Detached
      /\ headRef.target \in Commit /\ headRef.name \in Branch \cup {Detached}
      /\ headRef.name \in Branch => git.refs[headRef.name] = headRef.target
  BY DEF Core, TypeOK, Ref, SessionDetached, RemembersHead, InteractiveAbort
<1>d. PICK d \in IF pickActive THEN Dropped(git) ELSE {StateCleanup(git)} :
        \E reset, back \in BOOLEAN, half \in {d.dirty, TRUE} :
          /\ git' = Restored([d EXCEPT !.dirty = half], reset, back)
          /\ slipped' = ~(reset /\ back)
  BY DEF InteractiveAbort
<1>2. PICK reset \in BOOLEAN, back \in BOOLEAN, half \in {d.dirty, TRUE} :
        /\ git' = Restored([d EXCEPT !.dirty = half], reset, back)
        /\ slipped' = ~(reset /\ back)
  BY <1>d
<1>3. WellFormed(d) /\ d.head = Detached /\ d.at = git.at /\ d.refs = git.refs
  BY <1>1, <1>d, WFDropped, WFCleanup
<1>4. half \in BOOLEAN /\ (d.unmerged = {} \/ half)
  BY <1>3 DEF WellFormed, Repository
<1> DEFINE g == [d EXCEPT !.dirty = half]
           m == MoveHead(g, headRef.target)
           r == IF reset THEN Discard(m) ELSE g
           h == IF back THEN BackOn(r, headRef.name) ELSE r
<1>5. WellFormed(g) /\ g.head = Detached /\ g.at = git.at /\ g.refs = git.refs
  BY <1>3, <1>4, WFDirty
<1>g. git' = StateCleanup(h)
  BY <1>2 DEF Restored, ResetHard
<1> HIDE DEF g
<1>6. WellFormed(m) /\ m.head = Detached /\ m.at = headRef.target /\ m.refs = git.refs
  BY <1>1, <1>5, WFMoveHead
<1> HIDE DEF m
<1>7. /\ WellFormed(r) /\ r.head = Detached /\ r.refs = git.refs
      /\ r.at \in {git.at, headRef.target}
      /\ reset => r.at = headRef.target /\ ~r.dirty /\ r.unmerged = {}
  BY <1>5, <1>6, WFDiscard
<1> HIDE DEF r
<1>8. /\ WellFormed(h) /\ h.refs = git.refs
      /\ back /\ headRef.name # Detached
           => h.head = headRef.name /\ h.at = git.refs[headRef.name]
      /\ ~back \/ headRef.name = Detached => h.head = Detached /\ h.at = r.at
      /\ h.at = r.at => h.dirty = r.dirty
      /\ h.unmerged = r.unmerged
  BY <1>1, <1>7, WFBackOn
<1> HIDE DEF h
<1>9. /\ WellFormed(git') /\ git'.head = h.head /\ git'.at = h.at /\ git'.refs = h.refs
      /\ git'.op = "none" /\ git'.dirty = h.dirty /\ git'.unmerged = h.unmerged
  BY <1>8, <1>g, WFCleanup
<1>10. ASSUME reset, back
       PROVE  /\ h.head = headRef.name /\ h.at = headRef.target
              /\ ~h.dirty /\ h.unmerged = {}
  BY <1>1, <1>7, <1>8, <1>10
<1> QED BY <1>1, <1>2, <1>7, <1>8, <1>9, <1>10

\* The user's answers.
LEMMA AnswerStep ==
  ASSUME Core, InteractiveContinue \/ InteractiveSkip \/ InteractiveAbort
  PROVE  Core'
<1>1. WellFormed(git) /\ posted \in Nat
  BY DEF Core, TypeOK
<1>2. CASE ContinueApplies
  <2>1. /\ inProgress /\ idx < Len(plan) /\ plan[idx + 1].action = "pick"
        /\ opHash = plan[idx + 1].hash /\ git.unmerged = {} /\ Completed(posted)
    BY <1>2 DEF ContinueApplies, Waiting, Core, WaitsAtPick
  <2>2. opHash \in Change
    <3>1. idx + 1 \in DOMAIN plan
      BY <2>1 DEF Core, TypeOK
    <3>2. plan[idx + 1] \in Entry
      BY <3>1 DEF Core, TypeOK
    <3> QED BY <2>1, <3>2 DEF Entry
  <2>3. git.head = Detached
    BY <2>1 DEF Core, SessionDetached
  <2>4. /\ WellFormed(git') /\ git'.head = git.head
        /\ git'.at = Append(git.at, plan[idx + 1].hash) /\ git'.refs = git.refs
    BY <1>1, <1>2, <2>1, <2>2, <2>3, WFCommitPick DEF ContinueApplies
  <2>5. opHash' \in Change \cup {None} /\ slipped' = slipped
    BY <1>2, <2>2 DEF ContinueApplies
  <2> QED BY <1>1, <2>1, <2>4, <2>5, CompletedStep
<1>3. CASE ContinueFails
  BY <1>1, <1>3, EndStep DEF ContinueFails, FailWith, Signal
<1>4. CASE InteractiveSkip
  <2>1. /\ inProgress /\ idx < Len(plan) /\ Skipped(posted) /\ opHash' = opHash
        /\ git' \in Dropped(git) /\ slipped' \in BOOLEAN
    BY <1>4 DEF InteractiveSkip, Waiting, Core, WaitsAtPick, Dropped, TypeOK
  <2>2. /\ WellFormed(git') /\ git'.head = git.head
        /\ git'.at = git.at /\ git'.refs = git.refs
    BY <1>1, <2>1, WFDropped
  <2> QED BY <1>1, <2>1, <2>2, SkippedStep
<1>5. CASE InteractiveAbort
  <2>1. git.head = Detached
    BY <1>5 DEF Core, SessionDetached, InteractiveAbort
  <2>2. WellFormed(git') /\ slipped' \in BOOLEAN
    BY <1>5, <2>1, AbortLeaves
  <2> QED BY <1>1, <1>5, <2>2, EndStep DEF InteractiveAbort, Signal
<1> QED BY <1>2, <1>3, <1>4, <1>5 DEF InteractiveContinue

\* Starting, and what happens outside a session.
LEMMA OuterStep ==
  ASSUME Core,
         \/ Refuse
         \/ \E branch \in Branch \cup {None}, c \in Bases : BeginFails(branch, c)
         \/ \E p \in Path : Resolve(p)
         \/ \E b \in Branch : Checkout(b)
         \/ Restart
         \/ Tidy
  PROVE  Core'
<1>1. WellFormed(git) /\ posted \in Nat
  BY DEF Core, TypeOK
<1>2. CASE Refuse
  <2>1. signal' \in Signal /\ git' = git /\ posted' = posted
    BY <1>2 DEF Refuse, Signal
  <2>2. CASE UNCHANGED <<session, history>>
    BY <1>1, <2>1, <2>2, IdleStep
  <2>3. CASE EndSession /\ slipped' = FALSE
    BY <1>1, <2>1, <2>3, EndStep
  <2> QED BY <1>2, <2>2, <2>3 DEF Refuse
<1>3. ASSUME NEW branch \in Branch \cup {None}, NEW c \in Bases, BeginFails(branch, c)
      PROVE  Core'
  <2>1. c \in Commit
    BY PlanAssumption
  <2>w. /\ WellFormed(OnBranch(branch)) /\ WellFormed(Detach(OnBranch(branch), c))
        /\ WellFormed([git EXCEPT !.dirty = TRUE])
    BY <1>1, <2>1, WFOnBranch, WFDetach, WFDirty
  <2>d. WellFormed([OnBranch(branch) EXCEPT !.dirty = TRUE])
    BY <2>w, WFDirty
  <2>2. WellFormed(git') /\ EndSession /\ signal' \in Signal /\ posted' = posted
        /\ slipped' \in BOOLEAN
    BY <1>1, <1>3, <2>w, <2>d DEF BeginFails, FailWith, Signal
  <2> QED BY <1>1, <2>2, EndStep
<1>4. ASSUME NEW p \in Path, Resolve(p) PROVE Core'
  <2>1. PICK still \in BOOLEAN : git' = StagePath(git, p, still)
    BY <1>4 DEF Resolve
  <2>2. /\ WellFormed(git') /\ git'.head = git.head /\ git'.at = git.at
        /\ git'.refs = git.refs /\ git'.op = git.op
    BY <1>1, <2>1, WFStage
  <2>3. signal' \in Signal /\ UNCHANGED <<session, history>> /\ posted' = posted
    BY <1>4 DEF Resolve, Signal
  <2> QED BY <1>1, <2>2, <2>3, IdleStep
<1>5. ASSUME NEW b \in Branch, Checkout(b) PROVE Core'
  <2>1. WellFormed(git') /\ ~inProgress
    BY <1>1, <1>5, WFSetHead DEF Checkout
  <2>2. signal' \in Signal /\ UNCHANGED <<session, history>> /\ posted' = posted
    BY <1>5 DEF Checkout, Signal
  <2> QED BY <1>1, <2>1, <2>2, IdleStep
<1>6. CASE Restart
  BY <1>1, <1>6, EndStep DEF Restart, Signal
<1>7. CASE Tidy
  <2>1. WellFormed(git') /\ ~inProgress
    BY <1>1, <1>7, WFDiscard, WFCleanup DEF Tidy
  <2>2. signal' \in Signal /\ UNCHANGED <<session, history>> /\ posted' = posted
    BY <1>7 DEF Tidy, Signal
  <2> QED BY <1>1, <2>1, <2>2, IdleStep
<1> QED BY <1>2, <1>3, <1>4, <1>5, <1>6, <1>7

LEMMA CoreStep ==
  ASSUME Core, [Next]_vars
  PROVE  Core'
<1>1. CASE UNCHANGED vars
  <2>1. UNCHANGED <<session, history>> /\ git' = git /\ posted' = posted /\ signal' = signal
    BY <1>1 DEF vars, session, history
  <2> QED BY <2>1, IdleStep DEF Core, TypeOK
<1> QED BY <1>1, BeginStep, ProcessStep, AnswerStep, OuterStep DEF Next

\* Whoever moves to another entry, or begins, leaves a clean tree.
LEMMA CleanStep ==
  ASSUME IInv, [Next]_vars
  PROVE  CleanBetween'
<1>1. WellFormed(git) /\ WaitsAtPick /\ CleanBetween /\ plan \in Seq(Entry) /\ idx \in Nat
  BY DEF IInv, Core, TypeOK
<1>2. idx < Len(plan) => plan[idx + 1].hash \in Change
  <2> SUFFICES ASSUME idx < Len(plan) PROVE plan[idx + 1].hash \in Change
    OBVIOUS
  <2>1. plan[idx + 1] \in Entry
    BY <1>1
  <2> QED BY <2>1 DEF Entry
<1>3. CASE Finish \/ PickFails \/ ContinueFails \/ InteractiveAbort \/ Restart
             \/ \E branch \in Branch \cup {None}, c \in Bases : BeginFails(branch, c)
  BY <1>3 DEF Finish, PickFails, ContinueFails, InteractiveAbort, Restart, BeginFails, FailWith,
     EndSession, CleanBetween
<1>4. CASE Refuse \/ Late \/ UNCHANGED vars
  BY <1>1, <1>4 DEF Refuse, Late, EndSession, vars, session, history, CleanBetween
<1>5. ASSUME NEW branch \in Branch \cup {None}, NEW c \in Bases, NEW p \in Plans,
             Begin(branch, c, p)
      PROVE  CleanBetween'
  <2>1. c \in Commit
    BY PlanAssumption
  <2>2. slipped' \/ ~git'.dirty
    BY <1>1, <1>5, <2>1, WFOnBranch, WFDetach DEF Begin, Start
  <2> QED BY <2>2 DEF CleanBetween
<1>6. CASE SkipEntry
  BY <1>1, <1>6 DEF SkipEntry, Due, WaitsAtPick, CleanBetween
<1>7. CASE PickApplies
  <2>1. /\ git.unmerged = {} /\ plan[idx + 1].hash \in Change
        /\ inProgress /\ slipped' = slipped /\ git.dirty \in BOOLEAN
    BY <1>1, <1>2, <1>7 DEF PickApplies, Pickable, Due, WellFormed, Repository
  <2>2. WellFormed(Picked(git)) /\ Picked(git).unmerged = {}
    BY <1>1, <2>1, WFPicked
  <2>3. PICK left \in {FALSE, git.dirty} :
          git' = [CommitPick(Picked(git), plan[idx + 1].hash) EXCEPT !.dirty = left]
    BY <1>7 DEF PickApplies
  <2>4. git'.dirty = left
    BY <2>1, <2>2, <2>3, WFCommitLeft
  <2>5. CASE ~pickActive
    BY <1>1, <2>1, <2>4, <2>5 DEF CleanBetween
  <2>6. CASE pickActive
    \* A call left over, delivered while a pick waits that changes nothing.
    BY <1>1, <1>7, <2>1, <2>4, <2>6 DEF PickApplies, Pickable, WaitsAtPick, CleanBetween
  <2> QED BY <2>5, <2>6
<1>8. CASE PickConflicts
  BY <1>8 DEF PickConflicts, CleanBetween
<1>9. CASE ContinueApplies
  BY <1>1, <1>2, <1>9, WFCommitPick DEF ContinueApplies, Waiting, WaitsAtPick, CleanBetween
<1>10. CASE InteractiveSkip
  BY <1>1, <1>10, WFAbortPick DEF InteractiveSkip, CleanBetween
<1>11. CASE \E p \in Path : Resolve(p)
  BY <1>1, <1>11 DEF Resolve, session, history, WellFormed, CleanBetween
<1>12. CASE Tidy \/ \E b \in Branch : Checkout(b)
  BY <1>12 DEF Tidy, Checkout, session, CleanBetween
<1> QED BY <1>3, <1>4, <1>5, <1>6, <1>7, <1>8, <1>9, <1>10, <1>11, <1>12
     DEF Next, ProcessNext, InteractiveContinue

LEMMA StepInv == IInv /\ [Next]_vars => IInv'
  BY CoreStep, CleanStep DEF IInv

LEMMA Inductive == Spec => []IInv
  BY InitInv, StepInv, PTL DEF Spec

-----------------------------------------------------------------------------
(* The theorems. *)

\* The repository and the session keep their types.
THEOREM TypeCorrect == Spec => []TypeOK
  BY Inductive, PTL DEF IInv, Core

\* While a session runs HEAD is detached.
THEOREM HeadStaysDetached == Spec => []SessionDetached
  BY Inductive, PTL DEF IInv, Core

\* No entry of the plan is lost or applied twice, and none is committed that
\* the user marked to be skipped.
THEOREM NothingForgotten == Spec => []Accounted
  BY Inductive, PTL DEF IInv, Core

\* The entries committed lie on the new base in the order of the plan.
THEOREM ReplayInOrder == Spec => []Replayed
  BY Inductive, PTL DEF IInv, Core

\* A running session always has a call to come or waits for the user.
THEOREM NeverStalled == Spec => []NotStalled
  BY Inductive, PTL DEF IInv, Core

\* Skipping a conflict leaves a clean tree for the next entry.
THEOREM CleanTree == Spec => []CleanBetween
  BY Inductive, PTL DEF IInv

\* Together: a session is detached, goes on or waits, and meets a clean tree.
THEOREM SoundSessions == Spec => []SessionIsSound
  BY TypeCorrect, HeadStaysDetached, NeverStalled, CleanTree, PTL DEF SessionIsSound

\* The plan is followed: each entry once, in its order, and as the user marked it.
THEOREM PlanFollowed == Spec => []PlanIsFollowed
  BY NothingForgotten, ReplayInOrder, PTL DEF PlanIsFollowed

\* What a step of the session may do to the branches, and what its end and
\* its abort leave.
Move == git'.refs # git.refs =>
          /\ signal' = "finished"
          /\ origin.name \in Branch
          /\ git'.refs = [git.refs EXCEPT ![origin.name] = git.at]
Rebased ==
  signal' = "finished" /\ asked = origin.name /\ ~slipped' => git'.refs[asked] = git.at
Back == signal' = "aborted" /\ ~slipped' =>
          /\ git'.head = origin.name /\ git'.at = origin.target
          /\ ~git'.dirty /\ git'.unmerged = {} /\ git'.op = "none"

LEMMA MoveStep == Core /\ [Next]_vars => [Move]_vars
<1> SUFFICES ASSUME Core, [Next]_vars, git'.refs # git.refs
             PROVE  Move
  BY DEF Move
<1>0. WellFormed(git)
  BY DEF Core, TypeOK
<1>1. CASE Finish
  <2>1. /\ headRef = origin /\ headRef.name \in Branch \cup {Detached} /\ git.at \in Commit
    BY <1>0, <1>1 DEF Core, TypeOK, RemembersHead, Finish, Ref, WellFormed, Repository
  <2>2. PICK moved \in BOOLEAN, back \in BOOLEAN : git' = Finished(moved, back)
    BY <1>1 DEF Finish
  <2> DEFINE g == IF moved THEN SetTarget(git, headRef.name, headRef.target, git.at) ELSE git
  <2>3. /\ WellFormed(g)
        /\ g.refs # git.refs
             => headRef.name \in Branch /\ g.refs = [git.refs EXCEPT ![headRef.name] = git.at]
    BY <1>0, <2>1, WFSetTarget
  <2>4. git' = IF back THEN BackOn(g, headRef.name) ELSE g
    BY <2>2 DEF Finished
  <2> HIDE DEF g
  <2>5. git'.refs = g.refs
    BY <2>1, <2>3, <2>4, WFBackOn
  <2>6. signal' = "finished"
    BY <1>1 DEF Finish
  <2> QED BY <2>1, <2>3, <2>5, <2>6 DEF Move
<1>2. CASE Refuse \/ Late \/ SkipEntry \/ Restart \/ UNCHANGED vars
  BY <1>2 DEF Refuse, Late, SkipEntry, Restart, vars
<1>3. ASSUME NEW branch \in Branch \cup {None}, NEW c \in Bases,
             BeginFails(branch, c) \/ \E p \in Plans : Begin(branch, c, p)
      PROVE  Move
  <2>1. c \in Commit /\ WellFormed(OnBranch(branch)) /\ OnBranch(branch).refs = git.refs
    BY <1>0, PlanAssumption, WFOnBranch
  <2>2. Detach(OnBranch(branch), c).refs = git.refs
    BY <2>1, WFDetach
  <2>3. /\ [git EXCEPT !.dirty = TRUE].refs = git.refs
        /\ [OnBranch(branch) EXCEPT !.dirty = TRUE].refs = git.refs
    BY <1>0, <2>1, WFDirty
  <2> QED BY <1>3, <2>1, <2>2, <2>3 DEF BeginFails, FailWith, Begin, Start
<1>4. CASE PickApplies \/ ContinueApplies \/ InteractiveSkip
  <2>1. (inProgress /\ idx < Len(plan)) \/ Waiting
    BY <1>4 DEF PickApplies, Due, ContinueApplies, InteractiveSkip
  <2>2. git.head = Detached
    BY <2>1 DEF Core, SessionDetached, Waiting
  <2>3. \A g, h : g.head = Detached /\ g.refs = git.refs /\ WellFormed(g)
          => /\ CommitPick(g, h).refs = git.refs
             /\ \A d : [CommitPick(g, h) EXCEPT !.dirty = d].refs = git.refs
    BY BranchAssumption DEF CommitPick, CommitStaged, MoveHead, StateCleanup, WellFormed, Repository
  <2>4. Picked(git).head = Detached /\ Picked(git).refs = git.refs /\ WellFormed(Picked(git))
    BY <1>0, <2>2, WFPicked
  <2>5. InteractiveSkip => git' \in Dropped(git)
    BY DEF InteractiveSkip, Dropped
  <2>6. \A d \in Dropped(git) : d.refs = git.refs
    BY <1>0, WFDropped
  <2>7. CASE PickApplies
    BY <2>3, <2>4, <2>7 DEF PickApplies
  <2>8. CASE ContinueApplies
    BY <1>0, <2>2, <2>3, <2>8 DEF ContinueApplies
  <2> QED BY <1>4, <2>5, <2>6, <2>7, <2>8
<1>5. CASE PickConflicts
  <2>u. PICK U \in SUBSET Path : \E M \in SUBSET U : git' = PickedWithConflicts(git, U, M)
    BY <1>5 DEF PickConflicts
  <2> QED BY <1>0, <2>u, WFConflicts
<1>6. CASE PickFails \/ ContinueFails \/ Tidy
  <2>1. /\ \A d \in Dropped(git) \cup Dropped(Picked(git)) : d.refs = git.refs
        /\ AbortCherryPick(git).refs = git.refs
    BY <1>0, WFPicked, WFDropped, WFAbortPick
  <2> QED BY <1>6, <2>1 DEF PickFails, ContinueFails, Tidy, FailWith, AbortCherryPick
<1>7. CASE InteractiveAbort
  BY <1>7, AbortLeaves
<1>8. ASSUME NEW p \in Path, Resolve(p) PROVE Move
  BY <1>0, <1>8, WFStage DEF Resolve
<1>9. ASSUME NEW b \in Branch, Checkout(b) PROVE Move
  BY <1>0, <1>9, WFSetHead DEF Checkout
<1> QED BY <1>1, <1>2, <1>3, <1>4, <1>5, <1>6, <1>7, <1>8, <1>9
     DEF Next, ProcessNext, InteractiveContinue

\* Branches move at the end of a session that went well, and only the one
\* HEAD was on, to the commits replayed.
THEOREM OnlyFinishMovesBranches == Spec => BranchesMove
<1>1. IInv /\ [Next]_vars => [Move]_vars
  BY MoveStep DEF IInv
<1> QED BY <1>1, Inductive, PTL DEF Spec, BranchesMove, Move


LEMMA RebasedStep == Core /\ [Next]_vars => [Rebased]_vars
<1> SUFFICES ASSUME Core, Next, signal' = "finished", asked = origin.name, ~slipped'
             PROVE  git'.refs[asked] = git.at
  BY DEF vars, Rebased
<1>1. Finish
  BY DEF Next, Refuse, BeginFails, Begin, Start, FailWith, ProcessNext, Late, SkipEntry,
     PickApplies, PickConflicts, PickFails, InteractiveContinue, ContinueApplies, ContinueFails,
     Completed, Skipped, InteractiveSkip, InteractiveAbort, Resolve, Checkout, Restart, Tidy, None
<1>2. /\ WellFormed(git) /\ headRef = origin /\ git.at \in Commit
      /\ headRef.name \in Branch \cup {Detached} /\ asked \in Branch \cup {None}
      /\ headRef.name \in Branch => git.refs[headRef.name] = headRef.target
  BY <1>1 DEF Core, TypeOK, RemembersHead, Finish, Ref, WellFormed, Repository
<1>3. headRef.name \in Branch /\ asked = headRef.name
  BY <1>2 DEF None, Detached
<1> DEFINE g == SetTarget(git, headRef.name, headRef.target, git.at)
<1>4. WellFormed(g) /\ g.refs[asked] = git.at
  <2>1. g = [git EXCEPT !.refs[asked] = git.at, !.at = IF git.head = asked THEN git.at ELSE @]
    BY <1>2, <1>3 DEF SetTarget
  <2>2. git.refs \in [Branch -> Commit] /\ git \in Repository
    BY <1>2 DEF WellFormed, Repository
  <2>3. g.refs = [git.refs EXCEPT ![asked] = git.at]
    BY <2>1, <2>2 DEF Repository
  <2> QED BY <1>2, <1>3, <2>2, <2>3, WFSetTarget
<1>5. git' = BackOn(g, headRef.name)
  BY <1>1 DEF Finish, Finished
<1> HIDE DEF g
<1> QED BY <1>2, <1>4, <1>5, WFBackOn

\* The branch that was checked out and asked for is at the replayed commits
\* in the end.
THEOREM AskedBranchRebased == Spec => BranchRebased
<1>1. IInv /\ [Next]_vars => [Rebased]_vars
  BY RebasedStep DEF IInv
<1> QED BY <1>1, Inductive, PTL DEF Spec, BranchRebased, Rebased

\* Both: the end of a session moves the branch it was started on, and no step
\* moves another.
THEOREM BranchesFollowed == Spec => BranchesFollow
  BY OnlyFinishMovesBranches, AskedBranchRebased, PTL DEF BranchesFollow


LEMMA BackStep == Core /\ [Next]_vars => [Back]_vars
<1> SUFFICES ASSUME Core, Next, signal' = "aborted", ~slipped'
             PROVE  /\ git'.head = origin.name /\ git'.at = origin.target
                    /\ ~git'.dirty /\ git'.unmerged = {} /\ git'.op = "none"
  BY DEF vars, Back
<1>1. InteractiveAbort
  BY DEF Next, Refuse, BeginFails, Begin, Start, FailWith, ProcessNext, Late, Finish, SkipEntry,
     PickApplies, PickConflicts, PickFails, InteractiveContinue, ContinueApplies,
     ContinueFails, Completed, Skipped, InteractiveSkip, Resolve, Checkout, Restart, Tidy, None
<1>2. headRef = origin
  BY <1>1 DEF Core, RemembersHead, InteractiveAbort
<1> QED BY <1>1, <1>2, AbortLeaves

\* An aborted session leaves HEAD at the branch and the commit it was at, on
\* a clean tree, whatever was picked, skipped or resolved, unless the reset or
\* the way back failed, which nobody is told.
THEOREM AbortPutsBack == Spec => AbortRestores
<1>1. IInv /\ [Next]_vars => [Back]_vars
  BY BackStep DEF IInv
<1> QED BY <1>1, Inductive, PTL DEF Spec, AbortRestores, Back

-----------------------------------------------------------------------------
(* The session implements the replay it promises. *)

\* The entries left to replay.
Left(p, i) == SubSeq(p, i + 1, Len(p))

LEMMA LeftNext ==
  ASSUME NEW p \in Seq(Entry), NEW i \in Nat
  PROVE  /\ Left(p, 0) = p
         /\ i >= Len(p) => Left(p, i) = <<>>
         /\ i < Len(p) => /\ Left(p, i) # <<>>
                          /\ Head(Left(p, i)) = p[i + 1]
                          /\ Tail(Left(p, i)) = Left(p, i + 1)
<1>1. Left(p, 0) = p
  BY SubSeqFull DEF Left
<1>2. i >= Len(p) => Left(p, i) = <<>>
  BY SubSeqEmpty DEF Left
<1>3. ASSUME i < Len(p)
      PROVE  /\ Left(p, i) # <<>>
             /\ Head(Left(p, i)) = p[i + 1]
             /\ Tail(Left(p, i)) = Left(p, i + 1)
  <2>1. i + 1 \in 1 .. Len(p) /\ Len(p) \in i + 1 .. Len(p)
    BY <1>3
  <2>2. Head(Left(p, i)) = p[i + 1] /\ Tail(Left(p, i)) = Left(p, i + 1)
    BY <2>1, HeadTailOfSubSeq DEF Left
  <2>3. Len(Left(p, i)) = Len(p) - i
    BY <2>1, SubSeqProperties DEF Left
  <2> QED BY <1>3, <2>2, <2>3
<1> QED BY <1>1, <1>2, <1>3

LEMMA PromiseInit == Init => Promise!Init
  BY DEF Init, Promise!Init, None

\* An entry is done with, committed or dropped.
LEMMA PassedStep ==
  ASSUME Core, inProgress, idx < Len(plan), NEW calls, NEW s \in {"completed", "skipped"},
         signal' = s, Advance(calls), git'.head = git.head, git'.refs = git.refs
  PROVE  Promise!Passed /\ inProgress' = inProgress
<1>1. plan \in Seq(Entry) /\ idx \in Nat
  BY DEF Core, TypeOK
<1>2. inProgress' = inProgress /\ plan' = plan /\ idx' = idx + 1 /\ origin' = origin
  BY DEF Advance
<1>3. /\ Left(plan, idx) # <<>> /\ Tail(Left(plan, idx)) = Left(plan', idx')
  BY <1>1, <1>2, LeftNext
<1> QED BY <1>2, <1>3 DEF Promise!Passed, Left

LEMMA CommitStep ==
  ASSUME Core, inProgress, idx < Len(plan), plan[idx + 1].action = "pick",
         NEW calls, Completed(calls), git'.head = git.head, git'.refs = git.refs,
         git'.at = Append(git.at, plan[idx + 1].hash)
  PROVE  Promise!Commit
<1>1. Promise!Passed
  BY PassedStep DEF Completed
<1>2. plan \in Seq(Entry) /\ idx \in Nat
  BY DEF Core, TypeOK
<1>3. Head(Left(plan, idx)) = plan[idx + 1]
  BY <1>2, LeftNext
<1> QED BY <1>1, <1>3 DEF Promise!Commit, Left

LEMMA DropStep ==
  ASSUME Core, inProgress, idx < Len(plan), NEW calls, Skipped(calls),
         git'.head = git.head, git'.refs = git.refs, git'.at = git.at
  PROVE  Promise!Drop
  BY PassedStep DEF Skipped, Promise!Drop

\* The session goes, HEAD and the branches stay.
LEMMA FailStep ==
  ASSUME EndSession, signal' \notin {"finished", "aborted"},
         git'.head = git.head, git'.refs = git.refs, git'.at = git.at, inProgress \in BOOLEAN
  PROVE  Promise!Fail \/ Promise!Quiet
  BY DEF EndSession, Promise!Fail, Promise!Over, Promise!Quiet

\* Nothing is seen but, perhaps, a signal.
LEMMA QuietlyStep ==
  ASSUME UNCHANGED <<inProgress, plan, idx, origin>>, signal' \notin {"finished", "aborted"},
         git'.head = git.head, git'.refs = git.refs, git'.at = git.at
  PROVE  Promise!Quiet
  BY DEF Promise!Quiet

\* The end of a session: the branch moves and HEAD is on it, or the end slips.
LEMMA LandStep ==
  ASSUME Core, Finish
  PROVE  Promise!Land \/ Promise!Slip
<1>1. /\ WellFormed(git) /\ git.head = Detached /\ headRef = origin /\ git.at \in Commit
      /\ headRef.name \in Branch \cup {Detached}
      /\ headRef.name \in Branch => git.refs[headRef.name] = headRef.target
      /\ plan \in Seq(Entry) /\ idx \in Nat /\ Detached \notin Branch
  BY BranchAssumption DEF Core, TypeOK, RemembersHead, SessionDetached, Finish, Ref, WellFormed,
     Repository
<1>2. Left(plan, idx) = <<>>
  BY <1>1, LeftNext DEF Finish
<1>3. PICK moved \in BOOLEAN, back \in BOOLEAN :
        git' = Finished(moved, back) /\ slipped' = ~(moved /\ back)
  BY DEF Finish
<1> DEFINE b == headRef.name
           g == IF moved THEN SetTarget(git, b, headRef.target, git.at) ELSE git
<1>4. /\ WellFormed(g) /\ g.head = Detached /\ g.at = git.at
      /\ g.refs = IF moved /\ b # Detached THEN [git.refs EXCEPT ![b] = git.at] ELSE git.refs
  <2>1. CASE moved /\ b # Detached
    <3>1. git.head # b /\ b \in Branch /\ git.refs[b] = headRef.target
      BY <1>1, <2>1
    <3>2. g = [git EXCEPT !.refs[b] = git.at, !.at = git.at]
      BY <1>1, <2>1, <3>1 DEF SetTarget, WellFormed, Repository
    <3>3. g.refs = [git.refs EXCEPT ![b] = git.at] /\ g.head = git.head /\ g.at = git.at
      BY <1>1, <3>1, <3>2 DEF WellFormed, Repository
    <3> QED BY <1>1, <2>1, <3>3, WFSetTarget
  <2>2. CASE ~moved \/ b = Detached
    <3>1. g = git
      BY <1>1, <2>2 DEF SetTarget
    <3> QED BY <1>1, <2>2, <3>1
  <2> QED BY <2>1, <2>2
<1>5. git' = IF back THEN BackOn(g, b) ELSE g
  BY <1>3 DEF Finished
<1> HIDE DEF g
<1>6. /\ git'.refs = g.refs
      /\ back /\ b # Detached => git'.head = b /\ git'.at = g.refs[b]
      /\ ~back \/ b = Detached => git'.head = Detached /\ git'.at = git.at
  BY <1>1, <1>4, <1>5, WFBackOn
<1>7. b # Detached => [git.refs EXCEPT ![b] = git.at][b] = git.at
  BY <1>1 DEF WellFormed, Repository
<1>8. CASE moved /\ back
  BY <1>1, <1>2, <1>3, <1>4, <1>6, <1>7, <1>8
     DEF Finish, EndSession, Promise!Land, Promise!Over, Left
<1>9. CASE ~(moved /\ back)
  BY <1>1, <1>2, <1>3, <1>4, <1>6, <1>7, <1>9
     DEF Finish, EndSession, Promise!Slip, Promise!Over, Left
<1> QED BY <1>8, <1>9

LEMMA AbortStep ==
  ASSUME Core, InteractiveAbort
  PROVE  Promise!Abort \/ Promise!Slip
<1>1. inProgress /\ signal' = "aborted" /\ EndSession
  BY DEF InteractiveAbort
<1>2. headRef = origin
  BY <1>1 DEF Core, RemembersHead
<1>3. /\ git'.refs = git.refs /\ slipped' \in BOOLEAN
      /\ ~slipped' => git'.head = origin.name /\ git'.at = origin.target
      /\ \/ git'.head = git.head /\ git'.at \in {git.at, origin.target}
         \/ origin.name # Detached /\ git'.head = origin.name
            /\ git'.at = git.refs[origin.name]
  BY <1>2, AbortLeaves
<1>4. CASE ~slipped'
  BY <1>1, <1>3, <1>4 DEF EndSession, Promise!Abort, Promise!Over
<1>5. CASE slipped'
  BY <1>1, <1>3, <1>5 DEF EndSession, Promise!Slip, Promise!Over
<1> QED BY <1>3, <1>4, <1>5

\* HEAD is detached at the base and remembered; or the session is not begun.
LEMMA BegunStep ==
  ASSUME Core, NEW branch \in Branch \cup {None}, NEW c \in Bases
  PROVE  /\ \A p \in Plans : Begin(branch, c, p) => Promise!Begin(p, c)
         /\ BeginFails(branch, c) => Promise!Elsewhere \/ Promise!Quiet
<1>1. WellFormed(git) /\ c \in Commit /\ inProgress \in BOOLEAN
  BY PlanAssumption DEF Core, TypeOK
<1>2. WellFormed(OnBranch(branch)) /\ OnBranch(branch).refs = git.refs
  BY <1>1, WFOnBranch
<1>3. /\ Detach(OnBranch(branch), c).head = Detached /\ Detach(OnBranch(branch), c).at = c
      /\ Detach(OnBranch(branch), c).refs = git.refs
  BY <1>1, <1>2, WFDetach
<1>4. ASSUME NEW p \in Plans, Begin(branch, c, p) PROVE Promise!Begin(p, c)
  <2>1. Left(plan', idx') = p
    BY <1>4, LeftNext, PlanAssumption DEF Begin, Start
  <2>2. /\ git'.head = Detached /\ git'.at = c /\ git'.refs = git.refs /\ ~inProgress
        /\ inProgress' = TRUE /\ signal' = None
        /\ origin' = [name |-> git.head, target |-> git.at]
    BY <1>3, <1>4 DEF Begin, Start, CanBegin
  <2> QED BY <2>1, <2>2 DEF Promise!Begin, Left, None
<1>5. ASSUME BeginFails(branch, c) PROVE Promise!Elsewhere \/ Promise!Quiet
  <2>1. inProgress = FALSE /\ signal' = "failed" /\ EndSession
    BY <1>1, <1>5 DEF BeginFails, CanBegin, FailWith
  <2>0. /\ [git EXCEPT !.dirty = TRUE].head = git.head
        /\ [git EXCEPT !.dirty = TRUE].at = git.at
        /\ [git EXCEPT !.dirty = TRUE].refs = git.refs
        /\ [OnBranch(branch) EXCEPT !.dirty = TRUE].head = OnBranch(branch).head
        /\ [OnBranch(branch) EXCEPT !.dirty = TRUE].at = OnBranch(branch).at
        /\ [OnBranch(branch) EXCEPT !.dirty = TRUE].refs = OnBranch(branch).refs
    BY <1>1, <1>2, WFDirty
  <2>2. CASE git'.head = git.head /\ git'.at = git.at /\ git'.refs = git.refs
    BY <2>1, <2>2 DEF EndSession, Promise!Quiet
  <2>3. CASE /\ git'.head = OnBranch(branch).head /\ git'.at = OnBranch(branch).at
             /\ git'.refs = OnBranch(branch).refs
             /\ branch \in Branch /\ branch # git.head
    <3>1. git'.head = branch /\ git'.at = git.refs[branch] /\ branch \in DOMAIN git.refs
      BY <1>1, <2>3, PlanAssumption, BranchAssumption DEF OnBranch, SetHead, WellFormed, Repository
    <3> QED BY <1>2, <2>1, <2>3, <3>1 DEF EndSession, Promise!Elsewhere
  <2>4. CASE git' = Detach(OnBranch(branch), c)
    BY <1>3, <2>1, <2>4 DEF EndSession, Promise!Elsewhere
  <2>5. \/ git' = git \/ git' = [git EXCEPT !.dirty = TRUE]
        \/ git' = OnBranch(branch) \/ git' = [OnBranch(branch) EXCEPT !.dirty = TRUE]
        \/ git' = Detach(OnBranch(branch), c)
    BY <1>5 DEF BeginFails, FailWith
  <2>6. branch \in {None, git.head} => OnBranch(branch) = git
    BY DEF OnBranch
  <2> QED BY <2>0, <2>2, <2>3, <2>4, <2>5, <2>6
<1> QED BY <1>4, <1>5

LEMMA PromiseStep == Core /\ [Next]_vars => [Promise!Next]_(Promise!vars)
<1> SUFFICES ASSUME Core, [Next]_vars PROVE [Promise!Next]_(Promise!vars)
  OBVIOUS
<1>0. /\ WellFormed(git) /\ inProgress \in BOOLEAN /\ plan \in Seq(Entry) /\ idx \in Nat
      /\ \A i \in Nat : i < Len(plan) => plan[i + 1].hash \in Change
  <2>1. WellFormed(git) /\ inProgress \in BOOLEAN /\ plan \in Seq(Entry) /\ idx \in Nat
    BY DEF Core, TypeOK
  <2>2. ASSUME NEW i \in Nat, i < Len(plan) PROVE plan[i + 1].hash \in Change
    <3>1. plan[i + 1] \in Entry
      BY <2>1, <2>2
    <3> QED BY <3>1 DEF Entry
  <2> QED BY <2>1, <2>2
<1>1. CASE Refuse
  <2>1. git' = git /\ signal' = "failed"
    BY <1>1 DEF Refuse
  <2>2. CASE UNCHANGED <<session, history>>
    BY <2>1, <2>2, QuietlyStep DEF session, history, Promise!Next
  <2>3. CASE ~inProgress /\ EndSession
    BY <1>0, <2>1, <2>3 DEF EndSession, Promise!Quiet, Promise!Next
  <2> QED BY <1>1, <2>2, <2>3 DEF Refuse
<1>2. ASSUME NEW branch \in Branch \cup {None}, NEW c \in Bases,
             BeginFails(branch, c) \/ \E p \in Plans : Begin(branch, c, p)
      PROVE  [Promise!Next]_(Promise!vars)
  BY <1>2, BegunStep DEF Promise!Next
<1>3. CASE Finish
  BY <1>3, LandStep DEF Promise!Next
<1>4. CASE SkipEntry
  <2>1. Promise!Drop
    BY <1>4, DropStep DEF SkipEntry, Due
  <2> QED BY <2>1 DEF Promise!Next
<1>5. CASE PickApplies \/ ContinueApplies
  <2>1. /\ inProgress /\ idx < Len(plan) /\ plan[idx + 1].action = "pick"
        /\ git.head = Detached /\ plan[idx + 1].hash \in Change
    BY <1>0, <1>5 DEF Core, PickApplies, Due, ContinueApplies, Waiting, WaitsAtPick, SessionDetached
  <2>2. CASE PickApplies
    <3>1. git.unmerged = {}
      BY <1>0, <2>2 DEF PickApplies, Pickable, WellFormed
    <3>2. /\ WellFormed(Picked(git)) /\ Picked(git).head = git.head /\ Picked(git).at = git.at
          /\ Picked(git).refs = git.refs /\ Picked(git).unmerged = {}
      BY <1>0, <3>1, WFPicked
    <3> DEFINE g == Picked(git)
    <3> HIDE DEF g
    <3>4. PICK left \in {FALSE, git.dirty} :
            git' = [CommitPick(g, plan[idx + 1].hash) EXCEPT !.dirty = left]
      BY <2>2 DEF PickApplies, g
    <3>5. left \in BOOLEAN
      BY <1>0 DEF WellFormed, Repository
    <3>6. /\ git'.head = git.head /\ git'.at = Append(git.at, plan[idx + 1].hash)
          /\ git'.refs = git.refs
      BY <2>1, <3>2, <3>4, <3>5, WFCommitLeft DEF g
    <3>7. Promise!Commit
      BY <2>1, <2>2, <3>6, CommitStep DEF PickApplies
    <3> QED BY <3>7 DEF Promise!Next
  <2>3. CASE ContinueApplies
    <3>1. git.unmerged = {} /\ git' = CommitPick(git, plan[idx + 1].hash) /\ Completed(posted)
      BY <2>3 DEF ContinueApplies, Waiting, Core, WaitsAtPick
    <3>2. /\ git'.head = git.head /\ git'.at = Append(git.at, plan[idx + 1].hash)
          /\ git'.refs = git.refs
      BY <1>0, <2>1, <3>1, WFCommitPick
    <3>3. Promise!Commit
      BY <2>1, <3>1, <3>2, CommitStep
    <3> QED BY <3>3 DEF Promise!Next
  <2> QED BY <1>5, <2>2, <2>3
<1>6. CASE InteractiveSkip
  <2>1. /\ inProgress /\ idx < Len(plan) /\ Skipped(posted) /\ git' \in Dropped(git)
    BY <1>6 DEF InteractiveSkip, Waiting, Core, WaitsAtPick, Dropped
  <2>2. Promise!Drop
    BY <1>0, <2>1, WFDropped, DropStep
  <2> QED BY <2>2 DEF Promise!Next
<1>7. CASE PickFails \/ ContinueFails \/ Restart
  <2>1. EndSession /\ signal' \notin {"finished", "aborted"}
    BY <1>7 DEF PickFails, ContinueFails, Restart, FailWith, None
  <2>2. git'.head = git.head /\ git'.refs = git.refs /\ git'.at = git.at
    BY <1>0, <1>7, WFPicked, WFDropped DEF PickFails, ContinueFails, Restart, FailWith
  <2> QED BY <1>0, <2>1, <2>2, FailStep DEF Promise!Next
<1>8. CASE InteractiveAbort
  BY <1>8, AbortStep DEF Promise!Next
<1>9. CASE Late \/ PickConflicts \/ Tidy \/ \E p \in Path : Resolve(p)
  <2>1. UNCHANGED <<inProgress, plan, idx, origin>> /\ signal' \notin {"finished", "aborted"}
    BY <1>9 DEF Late, PickConflicts, Tidy, Resolve, session, history, None
  <2>2. git'.head = git.head /\ git'.refs = git.refs /\ git'.at = git.at
    <3>1. CASE Late
      BY <3>1 DEF Late
    <3>2. CASE PickConflicts
      BY <1>0, <3>2, WFConflicts DEF PickConflicts
    <3>3. CASE Tidy
      BY <1>0, <3>3, WFDiscard, WFCleanup DEF Tidy
    <3>4. CASE \E p \in Path : Resolve(p)
      BY <1>0, <3>4, WFStage DEF Resolve
    <3> QED BY <1>9, <3>1, <3>2, <3>3, <3>4
  <2> QED BY <2>1, <2>2, QuietlyStep DEF Promise!Next
<1>10. ASSUME NEW b \in Branch, Checkout(b) PROVE [Promise!Next]_(Promise!vars)
  <2>1. /\ git'.head = b /\ git'.at = git.refs[b] /\ git'.refs = git.refs
        /\ b \in DOMAIN git.refs
    BY <1>0, <1>10, BranchAssumption DEF Checkout, SetHead, WellFormed, Repository
  <2>2. Promise!Elsewhere
    BY <1>10, <2>1 DEF Checkout, session, history, None, Promise!Elsewhere
  <2> QED BY <2>2 DEF Promise!Next
<1>11. CASE UNCHANGED vars
  BY <1>11 DEF vars, session, history, Promise!vars
<1> QED BY <1>1, <1>2, <1>3, <1>4, <1>5, <1>6, <1>7, <1>8, <1>9, <1>10, <1>11
     DEF Next, ProcessNext, InteractiveContinue

\* Through every order of calls, conflicts and answers the session is a replay:
\* it commits or drops the entries in their order, moves the branch it began on
\* when none is left and no branch otherwise, and puts HEAD back on an abort.
THEOREM ReplayImplemented == Spec => ImplementsReplay
<1>1. Core /\ [Next]_vars => [Promise!Next]_(Promise!vars)
  BY PromiseStep
<1>2. IInv => Core
  BY DEF IInv
<1> QED BY <1>1, <1>2, PromiseInit, Inductive, PTL DEF Spec, Promise!Spec, ImplementsReplay

-----------------------------------------------------------------------------
(* The windows.  What the plan popup says is true whatever calls are left *)
(* over; the conflict window is answered before the next entry as long as *)
(* the calls posted are one.                                              *)

\* The walk of previewRebasePlan, kept by the plan that was started.
EachOnce == \A i, j \in DOMAIN plan : plan[i].hash = plan[j].hash => i = j

Base == Core /\ EachOnce

WIInv == Base /\ WindowsTypeOK /\ PopupFollowsSession /\ StatusTellsTruth

\* A session that waits has no call to come, and is who the conflict window
\* asks for.
OneCall == posted <= 1 /\ (pickActive => posted = 0)
Alone == OneCall /\ PromptSpeaksForSession

\* The session alone, in one of its steps.
LEMMA SessionStep ==
  ASSUME Base, [Next]_vars
  PROVE  Base'
<1>1. Core'
  BY CoreStep DEF Base
<1>2. EachOnce'
  <2>1. (plan' = plan) \/ (plan' = <<>>) \/ \E p \in Plans : plan' = p
    <3>1. CASE \E branch \in Branch \cup {None}, c \in Bases :
                 BeginFails(branch, c) \/ \E p \in Plans : Begin(branch, c, p)
      BY <3>1 DEF BeginFails, FailWith, EndSession, Begin, Start
    <3>2. CASE Refuse
      BY <3>2 DEF Refuse, session, EndSession
    <3>3. CASE ProcessNext
      BY <3>3 DEF ProcessNext, Late, Finish, SkipEntry, PickApplies, PickConflicts, PickFails,
         FailWith, EndSession, Skipped, Completed, Advance, session
    <3>4. CASE InteractiveContinue \/ InteractiveSkip \/ InteractiveAbort
      BY <3>4 DEF InteractiveContinue, ContinueApplies, ContinueFails, InteractiveSkip,
         InteractiveAbort, FailWith, EndSession, Skipped, Completed, Advance
    <3>5. CASE \/ \E p \in Path : Resolve(p)
               \/ \E b \in Branch : Checkout(b)
               \/ Restart \/ Tidy \/ vars' = vars
      BY <3>5 DEF Resolve, Checkout, Restart, Tidy, EndSession, session, vars
    <3> QED BY <3>1, <3>2, <3>3, <3>4, <3>5 DEF Next
  <2> QED BY <2>1, WalkAssumption DEF Base, EachOnce
<1> QED BY <1>1, <1>2 DEF Base

\* The commit at the current position gets the status s; no other is touched.
LEMMA MarkedStep ==
  ASSUME WIInv, inProgress, idx < Len(plan), plan' = plan,
         NEW s \in Status, Mark(plan[idx + 1].hash, s),
         \A i \in DOMAIN plan \ {idx + 1} : /\ (i \in Range(applied') <=> i \in Range(applied))
                                            /\ (i \in skipped' <=> i \in skipped),
         pickActive' => idx' = idx,
         s = IF idx + 1 \in Range(applied') THEN "rebased"
             ELSE IF idx + 1 \in skipped' THEN "skipped"
             ELSE IF pickActive' /\ idx + 1 = idx' + 1 THEN "conflict"
             ELSE "pending"
  PROVE  StatusTellsTruth' /\ status' \in [Change -> Status]
<1> DEFINE h == plan[idx + 1].hash
<1>1. /\ plan \in Seq(Entry) /\ idx \in Nat /\ status \in [Change -> Status]
      /\ idx + 1 \in DOMAIN plan
  BY DEF WIInv, Base, Core, TypeOK, WindowsTypeOK
<1>2. \A i \in DOMAIN plan : plan[i].hash \in Change
  <2>1. \A i \in DOMAIN plan : plan[i] \in Entry
    BY <1>1
  <2> QED BY <2>1 DEF Entry
<1>3. status' \in [Change -> Status] /\ status'[h] = s
  BY <1>1, <1>2 DEF Mark
<1>4. \A i \in DOMAIN plan \ {idx + 1} : status'[plan[i].hash] = status[plan[i].hash]
  BY <1>1, <1>2 DEF Mark, WIInv, Base, EachOnce
<1> HIDE DEF h
<1>5. ASSUME NEW i \in DOMAIN plan
      PROVE  status'[plan[i].hash] =
               IF i \in Range(applied') THEN "rebased"
               ELSE IF i \in skipped' THEN "skipped"
               ELSE IF pickActive' /\ i = idx' + 1 THEN "conflict"
               ELSE "pending"
  <2>1. CASE i = idx + 1
    BY <1>3, <2>1 DEF h
  <2>2. CASE i # idx + 1
    <3>1. ~(pickActive' /\ i = idx' + 1) /\ ~(pickActive /\ i = idx + 1)
      BY <2>2
    <3>2. status'[plan[i].hash] = status[plan[i].hash]
      BY <1>4, <2>2
    <3>3. status[plan[i].hash] = IF i \in Range(applied) THEN "rebased"
                                 ELSE IF i \in skipped THEN "skipped"
                                 ELSE "pending"
      BY <3>1 DEF WIInv, StatusTellsTruth
    <3>4. (i \in Range(applied') <=> i \in Range(applied)) /\ (i \in skipped' <=> i \in skipped)
      BY <2>2
    <3> QED BY <3>1, <3>2, <3>3, <3>4
  <2> QED BY <2>1, <2>2
<1> QED BY <1>3, <1>5 DEF StatusTellsTruth

\* No entry is told of before its turn.
LEMMA NotYet ==
  ASSUME WIInv, inProgress
  PROVE  idx + 1 \notin Range(applied) /\ idx + 1 \notin skipped /\ applied \in Seq(Nat) /\ idx \in Nat
  BY DEF WIInv, Base, Core, TypeOK, Accounted

LEMMA CompletedMark ==
  ASSUME WIInv, inProgress, idx < Len(plan), NEW calls, Completed(calls),
         Mark(plan[idx + 1].hash, "rebased")
  PROVE  StatusTellsTruth' /\ status' \in [Change -> Status]
<1>1. Range(applied') = Range(applied) \cup {idx + 1}
  BY NotYet, RangeAppend DEF Completed
<1>2. plan' = plan /\ skipped' = skipped /\ pickActive' = FALSE /\ "rebased" \in Status
  BY DEF Completed, Advance, Status
<1>3. idx + 1 \in Range(applied')
  BY <1>1
<1>4. \A i \in DOMAIN plan \ {idx + 1} : /\ (i \in Range(applied') <=> i \in Range(applied))
                                         /\ (i \in skipped' <=> i \in skipped)
  BY <1>1, <1>2
<1> QED BY <1>2, <1>3, <1>4, MarkedStep

LEMMA SkippedMark ==
  ASSUME WIInv, inProgress, idx < Len(plan), NEW calls, Skipped(calls),
         Mark(plan[idx + 1].hash, "skipped")
  PROVE  StatusTellsTruth' /\ status' \in [Change -> Status]
<1>1. /\ plan' = plan /\ applied' = applied /\ skipped' = skipped \cup {idx + 1}
      /\ pickActive' = FALSE /\ "skipped" \in Status
  BY DEF Skipped, Advance, Status
<1>2. idx + 1 \notin Range(applied') /\ idx + 1 \in skipped'
  BY <1>1, NotYet
<1>3. \A i \in DOMAIN plan \ {idx + 1} : /\ (i \in Range(applied') <=> i \in Range(applied))
                                         /\ (i \in skipped' <=> i \in skipped)
  BY <1>1
<1> QED BY <1>1, <1>2, <1>3, MarkedStep

LEMMA StatusKept ==
  ASSUME WIInv, UNCHANGED <<session, history, status>>
  PROVE  StatusTellsTruth'
  BY DEF WIInv, StatusTellsTruth, session, history

\* What the window lists are files.
LEMMA ListedType ==
  ASSUME NEW g, WellFormed(g)
  PROVE  Listed(g) \subseteq Path
  BY DEF Listed, WellFormed, Repository

LEMMA WindowsInitInv == WindowsInit => WIInv /\ Alone
<1> SUFFICES ASSUME WindowsInit PROVE WIInv /\ Alone
  OBVIOUS
<1>1. Core
  BY InitInv DEF IInv, WindowsInit
<1>2. OneCall /\ EachOnce
  BY DEF WindowsInit, Init, OneCall, EachOnce
<1>3. status \in [Change -> Status]
  BY DEF WindowsInit, AllPending, Status
<1> QED BY <1>1, <1>2, <1>3 DEF WindowsInit, Init, WIInv, Alone, Base, WindowsTypeOK,
     PopupFollowsSession, PromptSpeaksForSession, StatusTellsTruth, State

\* What the popup says of the session, and the types of the windows.
LEMMA Popped ==
  ASSUME WIInv
  PROVE  /\ inProgress => open /\ state = "running"
         /\ state = "running" => inProgress
         /\ pickActive => inProgress
         /\ open \in BOOLEAN /\ prompt \in BOOLEAN /\ state \in State
         /\ status \in [Change -> Status] /\ shown \subseteq Path
  BY DEF WIInv, Base, Core, WaitsAtPick, WindowsTypeOK, PopupFollowsSession

\* The session may end, when its windows follow.
LEMMA EndedStep ==
  ASSUME WIInv, Base', ~inProgress', state' \in State \ {"running"}, open' \in BOOLEAN,
         status' \in [Change -> Status], prompt' \in BOOLEAN, shown' \subseteq Path
  PROVE  WIInv'
  BY DEF WIInv, WindowsTypeOK, PopupFollowsSession, StatusTellsTruth

LEMMA PlanStep ==
  ASSUME WIInv,
         \/ ShowPlan \/ Cancel \/ ClosePlan
         \/ \E branch \in Branch \cup {None}, c \in Bases, p \in Plans : StartRebase(branch, c, p)
  PROVE  WIInv'
<1>1. Base
  BY DEF WIInv
<1>2. AllPending \in [Change -> Status] /\ "idle" \in State /\ "running" \in State
  BY DEF AllPending, Status, State
<1>3. CASE ShowPlan
  <2>1. /\ vars' = vars /\ open' = TRUE /\ state' = "idle" /\ status' = AllPending
        /\ prompt' = prompt /\ shown' = shown /\ ~open
    BY <1>3 DEF ShowPlan
  <2>2. Base'
    BY <1>1, <2>1, SessionStep
  <2>3. ~inProgress /\ inProgress' = inProgress
    BY <2>1, Popped DEF vars, session
  <2> QED BY <1>2, <2>1, <2>2, <2>3, Popped, EndedStep
<1>4. CASE Cancel
  <2>1. ~prompt /\ prompt' = prompt /\ shown' = shown /\ open' = FALSE
    BY <1>4 DEF Cancel, PlanHasFocus
  <2>2. CASE InteractiveAbort /\ Aborted
    <3>1. Base'
      BY <1>1, <2>2, SessionStep DEF Next
    <3>2. ~inProgress' /\ state' = "idle" /\ status' = AllPending
      BY <2>2 DEF InteractiveAbort, EndSession, Aborted
    <3> QED BY <1>2, <2>1, <3>1, <3>2, Popped, EndedStep
  <2>3. CASE ~inProgress /\ Ignored
    <3>1. Base'
      BY <1>1, <2>3, SessionStep DEF Ignored
    <3>2. ~inProgress' /\ state' = state /\ status' = status
      BY <2>3 DEF Ignored, vars, session
    <3> QED BY <2>1, <2>3, <3>1, <3>2, Popped, EndedStep
  <2> QED BY <1>4, <2>2, <2>3 DEF Cancel
<1>5. CASE ClosePlan
  <2>1. /\ vars' = vars /\ open' = FALSE /\ state' = state /\ status' = status
        /\ prompt' = prompt /\ shown' = shown /\ ~prompt /\ state = "completed"
    BY <1>5 DEF ClosePlan, PlanHasFocus
  <2>2. Base'
    BY <1>1, <2>1, SessionStep
  <2>3. ~inProgress /\ inProgress' = inProgress
    BY <2>1, Popped DEF vars, session
  <2> QED BY <2>1, <2>2, <2>3, Popped, EndedStep
<1>6. ASSUME NEW branch \in Branch \cup {None}, NEW c \in Bases, NEW p \in Plans,
             StartRebase(branch, c, p)
      PROVE  WIInv'
  <2>1. /\ open /\ ~prompt /\ state = "idle" /\ status' = AllPending
        /\ open' = open /\ prompt' = prompt /\ shown' = shown
    BY <1>6 DEF StartRebase, PlanHasFocus
  <2>2. ~inProgress /\ ~pickActive
    BY <2>1, Popped
  <2>3. CASE Begin(branch, c, p) /\ state' = "running"
    <3>1. Base'
      BY <1>1, <2>3, SessionStep DEF Next
    <3>2. /\ inProgress' = TRUE /\ applied' = <<>> /\ skipped' = {} /\ plan' = p
          /\ pickActive' = pickActive
      BY <2>3 DEF Begin, Start
    <3>3. p \in Seq(Entry) /\ \A i \in DOMAIN p : p[i].hash \in Change
      <4>1. p \in Seq(Entry)
        BY PlanAssumption
      <4>2. \A i \in DOMAIN p : p[i] \in Entry
        BY <4>1
      <4> QED BY <4>1, <4>2 DEF Entry
    <3>4. Range(applied') = {}
      BY <3>2 DEF Range
    <3>5. \A i \in DOMAIN p : status'[p[i].hash] = "pending"
      BY <2>1, <3>3 DEF AllPending
    <3>6. StatusTellsTruth'
      BY <2>2, <3>2, <3>4, <3>5 DEF StatusTellsTruth
    <3>7. (WindowsTypeOK /\ PopupFollowsSession)'
      BY <1>2, <2>1, <2>3, <3>2, Popped DEF WindowsTypeOK, PopupFollowsSession
    <3> QED BY <3>1, <3>6, <3>7 DEF WIInv
  <2>4. CASE (Refuse \/ BeginFails(branch, c)) /\ state' = "idle"
    <3>1. Base'
      BY <1>1, <2>4, SessionStep DEF Next
    <3>2. ~inProgress'
      BY <2>2, <2>4 DEF Refuse, BeginFails, FailWith, EndSession, session
    <3> QED BY <1>2, <2>1, <2>4, <3>1, <3>2, Popped, EndedStep
  <2> QED BY <1>6, <2>3, <2>4 DEF StartRebase, BeginRebase
<1> QED BY <1>3, <1>4, <1>5, <1>6

LEMMA DeliveredStep ==
  ASSUME WIInv, Delivered
  PROVE  WIInv'
<1>1. Base
  BY DEF WIInv
<1>2. Base'
  <2>1. ProcessNext
    BY DEF Delivered, OnFinished, OnSkipped, OnCompleted, OnConflict, OnFailed, ProcessNext
  <2> QED BY <1>1, <2>1, SessionStep DEF Next
<1>3. CASE OnFinished
  <2>1. ~inProgress'
    BY <1>3 DEF OnFinished, Finish, EndSession
  <2> QED BY <1>2, <1>3, <2>1, Popped, EndedStep DEF OnFinished, State
<1>4. CASE OnFailed
  <2>1. /\ inProgress /\ idx < Len(plan) /\ ~inProgress'
    BY <1>4 DEF OnFailed, PickFails, Due, FailWith, EndSession
  <2>2. Current \in Change
    <3>1. plan \in Seq(Entry) /\ idx \in Nat
      BY <1>1 DEF Base, Core, TypeOK
    <3>2. plan[idx + 1] \in Entry
      BY <2>1, <3>1
    <3> QED BY <3>2 DEF Entry, Current
  <2>3. status' \in [Change -> Status]
    BY <1>4, <2>2, Popped DEF OnFailed, Mark, Status
  <2> QED BY <1>2, <1>4, <2>1, <2>3, Popped, EndedStep DEF OnFailed, State
<1>5. CASE OnSkipped
  <2>1. /\ inProgress /\ idx < Len(plan) /\ Skipped(posted - 1) /\ Mark(plan[idx + 1].hash, "skipped")
        /\ open' = open /\ state' = state /\ prompt' = prompt /\ shown' = shown
    BY <1>5 DEF OnSkipped, SkipEntry, Due, Current
  <2>2. StatusTellsTruth' /\ status' \in [Change -> Status]
    BY <2>1, SkippedMark
  <2>3. inProgress' = inProgress
    BY <2>1 DEF Skipped, Advance
  <2> QED BY <1>2, <2>1, <2>2, <2>3, Popped DEF WIInv, WindowsTypeOK, PopupFollowsSession
<1>6. CASE OnCompleted
  <2>1. /\ inProgress /\ idx < Len(plan) /\ Completed(posted - 1) /\ Mark(plan[idx + 1].hash, "rebased")
        /\ open' = open /\ state' = state /\ prompt' = prompt /\ shown' = shown
    BY <1>6 DEF OnCompleted, PickApplies, Due, Current
  <2>2. StatusTellsTruth' /\ status' \in [Change -> Status]
    BY <2>1, CompletedMark
  <2>3. inProgress' = inProgress
    BY <2>1 DEF Completed, Advance
  <2> QED BY <1>2, <2>1, <2>2, <2>3, Popped DEF WIInv, WindowsTypeOK, PopupFollowsSession
<1>7. CASE OnConflict
  <2>1. /\ inProgress /\ idx < Len(plan) /\ Mark(plan[idx + 1].hash, "conflict") /\ pickActive' = TRUE
        /\ UNCHANGED <<inProgress, plan, idx, applied, skipped>>
        /\ open' = open /\ state' = state /\ prompt' = TRUE
        /\ shown' = IF prompt THEN shown ELSE Listed(git')
    BY <1>7 DEF OnConflict, PickConflicts, Due, Current, ShowConflicts, history
  <2>2. StatusTellsTruth' /\ status' \in [Change -> Status]
    BY <2>1, NotYet, MarkedStep DEF Status
  <2>3. shown' \subseteq Path
    BY <1>2, <2>1, ListedType, Popped DEF Base, Core, TypeOK
  <2>4. WindowsTypeOK'
    BY <2>1, <2>2, <2>3, Popped DEF WindowsTypeOK
  <2>5. PopupFollowsSession'
    BY <2>1, Popped DEF PopupFollowsSession
  <2> QED BY <1>2, <2>2, <2>4, <2>5 DEF WIInv
<1>8. CASE Late /\ UNCHANGED windows
  <2>1. /\ UNCHANGED <<session, history, open, state, status, prompt, shown>> /\ ~inProgress
    BY <1>8 DEF Late, windows, planWindow
  <2>2. ~inProgress'
    BY <2>1 DEF session
  <2> QED BY <1>2, <2>1, <2>2, Popped, EndedStep
<1> QED BY <1>3, <1>4, <1>5, <1>6, <1>7, <1>8 DEF Delivered

\* The session waits on, and the plan popup stays as it is.
LEMMA WaitsOnStep ==
  ASSUME WIInv, Base', UNCHANGED <<session, history, planWindow>>,
         prompt' \in BOOLEAN, shown' \subseteq Path
  PROVE  WIInv'
<1>1. UNCHANGED <<inProgress, pickActive, open, state, status>>
  BY DEF session, planWindow
<1>2. StatusTellsTruth'
  BY <1>1, StatusKept
<1>3. WindowsTypeOK'
  BY <1>1, Popped DEF WindowsTypeOK
<1>4. PopupFollowsSession'
  BY <1>1 DEF WIInv, PopupFollowsSession
<1> QED BY <1>2, <1>3, <1>4 DEF WIInv

LEMMA AnswerClickStep ==
  ASSUME WIInv, ContinueClicked \/ SkipClicked \/ AbortClicked
  PROVE  WIInv'
<1>1. Base
  BY DEF WIInv
<1>2. /\ prompt /\ prompt' = FALSE /\ open' = open /\ shown' = shown
  BY DEF ContinueClicked, SkipClicked, AbortClicked, Answer
<1>3. Waiting => inProgress /\ idx < Len(plan) /\ opHash = plan[idx + 1].hash
  BY <1>1 DEF Base, Core, WaitsAtPick, Waiting
<1>4. CASE Ignored
  <2>1. vars' = vars /\ UNCHANGED planWindow
    BY <1>2, <1>4 DEF Ignored, planWindow
  <2>2. Base'
    BY <1>1, <2>1, SessionStep
  <2>3. UNCHANGED <<session, history>>
    BY <2>1 DEF vars
  <2> QED BY <1>2, <2>1, <2>2, <2>3, Popped, WaitsOnStep
<1>5. CASE ContinueClicked
  <2>1. CASE ContinueApplies /\ Mark(opHash, "rebased") /\ UNCHANGED state
    <3>1. Base'
      BY <1>1, <2>1, SessionStep DEF Next, InteractiveContinue
    <3>2. /\ inProgress /\ idx < Len(plan)
          /\ Completed(posted) /\ Mark(plan[idx + 1].hash, "rebased")
      BY <1>3, <2>1 DEF ContinueApplies
    <3>3. StatusTellsTruth' /\ status' \in [Change -> Status]
      BY <3>2, CompletedMark
    <3>4. inProgress' = inProgress
      BY <3>2 DEF Completed, Advance
    <3> QED BY <1>2, <2>1, <3>1, <3>3, <3>4, Popped DEF WIInv, WindowsTypeOK, PopupFollowsSession
  <2>2. CASE ContinueFails /\ state' = "idle" /\ UNCHANGED status
    <3>1. Base'
      BY <1>1, <2>2, SessionStep DEF Next, InteractiveContinue
    <3>2. ~inProgress'
      BY <2>2 DEF ContinueFails, FailWith, EndSession
    <3> QED BY <1>2, <2>2, <3>1, <3>2, Popped, EndedStep DEF State
  <2> QED BY <1>4, <1>5, <2>1, <2>2 DEF ContinueClicked, Continued
<1>6. CASE SkipClicked
  <2> SUFFICES ASSUME InteractiveSkip, Mark(opHash, "skipped"), state' = state
               PROVE  WIInv'
    BY <1>4, <1>6 DEF SkipClicked
  <2>1. Base'
    BY <1>1, SessionStep DEF Next
  <2>2. /\ inProgress /\ idx < Len(plan)
        /\ Skipped(posted) /\ Mark(plan[idx + 1].hash, "skipped")
    BY <1>3 DEF InteractiveSkip
  <2>3. StatusTellsTruth' /\ status' \in [Change -> Status]
    BY <2>2, SkippedMark
  <2>4. inProgress' = inProgress
    BY <2>2 DEF Skipped, Advance
  <2> QED BY <1>2, <2>1, <2>3, <2>4, Popped DEF WIInv, WindowsTypeOK, PopupFollowsSession
<1>7. CASE AbortClicked
  <2> SUFFICES ASSUME InteractiveAbort, Aborted PROVE WIInv'
    BY <1>4, <1>7 DEF AbortClicked
  <2>1. Base'
    BY <1>1, SessionStep DEF Next
  <2>2. ~inProgress'
    BY DEF InteractiveAbort, EndSession
  <2>3. state' = "idle" /\ status' \in [Change -> Status]
    BY DEF Aborted, AllPending, Status
  <2> QED BY <1>2, <2>1, <2>2, <2>3, Popped, EndedStep DEF State
<1> QED BY <1>5, <1>6, <1>7

LEMMA StageStep ==
  ASSUME WIInv, NEW p \in Path, Stage(p)
  PROVE  WIInv'
<1>1. /\ prompt /\ signal' = None /\ shown' = Listed(git')
      /\ UNCHANGED <<session, posted, history, planWindow, prompt>>
  BY DEF Stage
<1>2. PICK still \in BOOLEAN : git' = StagePath(git, p, still)
  BY DEF Stage
<1>3. WellFormed(git) /\ posted \in Nat /\ Core
  BY DEF WIInv, Base, Core, TypeOK
<1>4. /\ WellFormed(git') /\ git'.head = git.head /\ git'.at = git.at
      /\ git'.refs = git.refs /\ git'.op = git.op
  BY <1>2, <1>3, WFStage
<1>5. Core'
  BY <1>1, <1>3, <1>4, IdleStep DEF Signal
<1>6. EachOnce'
  BY <1>1 DEF WIInv, Base, EachOnce, session
<1>7. shown' \subseteq Path
  BY <1>1, <1>4, ListedType
<1> QED BY <1>1, <1>5, <1>6, <1>7, Popped, WaitsOnStep DEF Base

LEMMA OtherStep ==
  ASSUME WIInv, AcceptBlock \/ SaveAndClose \/ Elsewhere \/ Relaunch
  PROVE  WIInv'
<1>1. Base
  BY DEF WIInv
<1>2. CASE AcceptBlock \/ SaveAndClose
  <2>1. vars' = vars /\ UNCHANGED planWindow
    BY <1>2 DEF AcceptBlock, SaveAndClose
  <2>2. Base'
    BY <1>1, <2>1, SessionStep
  <2>3. shown' \subseteq Path
    <3>1. WellFormed(git)
      BY <1>1 DEF Base, Core, TypeOK
    <3> QED BY <1>2, <3>1, ListedType, Popped DEF AcceptBlock, SaveAndClose
  <2>4. UNCHANGED <<session, history>>
    BY <2>1 DEF vars
  <2>5. prompt' \in BOOLEAN
    BY <1>2, Popped DEF AcceptBlock, SaveAndClose
  <2> QED BY <2>1, <2>2, <2>3, <2>4, <2>5, WaitsOnStep
<1>3. CASE Elsewhere
  <2>1. UNCHANGED <<session, history, planWindow, prompt, shown>>
    BY <1>3 DEF Elsewhere, windows, Resolve, Checkout, Tidy
  <2>2. Base'
    BY <1>1, <1>3, SessionStep DEF Elsewhere, Next
  <2> QED BY <2>1, <2>2, Popped, WaitsOnStep
<1>4. CASE Relaunch
  <2>1. Base'
    BY <1>1, <1>4, SessionStep DEF Relaunch, Next
  <2>2. ~inProgress'
    BY <1>4 DEF Relaunch, Restart, EndSession
  <2>3. /\ state' = "idle" /\ open' = FALSE /\ prompt' = FALSE /\ shown' = {}
        /\ status' \in [Change -> Status]
    BY <1>4 DEF Relaunch, AllPending, Status
  <2> QED BY <2>1, <2>2, <2>3, EndedStep DEF State
<1> QED BY <1>2, <1>3, <1>4

LEMMA WindowsStep == WIInv /\ [WindowsNext]_allVars => WIInv'
<1> SUFFICES ASSUME WIInv, [WindowsNext]_allVars PROVE WIInv'
  OBVIOUS
<1>1. CASE allVars' = allVars
  <2>1. vars' = vars /\ UNCHANGED <<planWindow, prompt, shown>>
    BY <1>1 DEF allVars, windows
  <2>2. Base'
    BY <2>1, SessionStep DEF WIInv
  <2>3. UNCHANGED <<session, history>>
    BY <2>1 DEF vars
  <2> QED BY <2>1, <2>2, <2>3, Popped, WaitsOnStep
<1> QED BY <1>1, PlanStep, DeliveredStep, AnswerClickStep, StageStep, OtherStep DEF WindowsNext

LEMMA OneCallStep ==
  ASSUME MaxPosted = 1, Core, OneCall, [Next]_vars
  PROVE  OneCall'
<1>0. posted \in Nat /\ (pickActive => inProgress)
  BY DEF Core, TypeOK, WaitsAtPick
<1>1. CASE Refuse \/ \E branch \in Branch \cup {None}, c \in Bases : BeginFails(branch, c)
  BY <1>1 DEF Refuse, BeginFails, FailWith, EndSession, session, OneCall
<1>2. CASE \E branch \in Branch \cup {None}, c \in Bases, p \in Plans : Begin(branch, c, p)
  BY <1>0, <1>2 DEF Begin, Start, CanBegin, OneCall
<1>3. CASE ProcessNext
  <2>1. posted = 1
    BY <1>0, <1>3 DEF ProcessNext, Late, Finish, SkipEntry, PickApplies, PickConflicts, PickFails,
       Due, Deliver, OneCall
  <2>2. ~pickActive
    BY <2>1 DEF OneCall
  <2> QED BY <1>3, <2>1, <2>2 DEF ProcessNext, Late, Finish, SkipEntry, PickApplies,
       PickConflicts, PickFails, FailWith, EndSession, Skipped, Completed, Advance, session, OneCall
<1>4. CASE InteractiveContinue \/ InteractiveSkip \/ InteractiveAbort
  BY <1>0, <1>4 DEF InteractiveContinue, ContinueApplies, ContinueFails, InteractiveSkip,
     InteractiveAbort, Waiting, FailWith, EndSession, Skipped, Completed, Advance, OneCall
<1>5. CASE \/ \E p \in Path : Resolve(p)
           \/ \E b \in Branch : Checkout(b)
           \/ Restart \/ Tidy \/ vars' = vars
  BY <1>5 DEF Resolve, Checkout, Restart, Tidy, EndSession, session, vars, OneCall
<1> QED BY <1>1, <1>2, <1>3, <1>4, <1>5 DEF Next

\* A click is the session's own step or leaves it alone, but that a file is
\* staged in a window left open.
LEMMA ClickStep ==
  ASSUME [WindowsNext]_allVars
  PROVE  [Next]_vars \/ \E p \in Path : Stage(p)
<1>1. CASE Delivered
  BY <1>1 DEF Delivered, OnFinished, OnSkipped, OnCompleted, OnConflict, OnFailed,
     ProcessNext, Next
<1>2. CASE \/ ShowPlan \/ Cancel \/ ClosePlan
           \/ \E branch \in Branch \cup {None}, c \in Bases, p \in Plans :
                StartRebase(branch, c, p)
  BY <1>2 DEF ShowPlan, Cancel, ClosePlan, StartRebase, BeginRebase, Ignored, Next
<1>3. CASE ContinueClicked \/ SkipClicked \/ AbortClicked
  BY <1>3 DEF ContinueClicked, Continued, SkipClicked, AbortClicked, Ignored,
     InteractiveContinue, Next
<1>4. CASE AcceptBlock \/ SaveAndClose
  BY <1>4 DEF AcceptBlock, SaveAndClose
<1>5. CASE Elsewhere \/ Relaunch \/ UNCHANGED allVars
  BY <1>5 DEF Elsewhere, Relaunch, allVars, Next
<1> QED BY <1>1, <1>2, <1>3, <1>4, <1>5 DEF WindowsNext

\* As long as no call is left over, a call that comes finds no window open.
LEMMA AloneStep ==
  ASSUME MaxPosted = 1, WIInv, Alone, [WindowsNext]_allVars
  PROVE  Alone'
<1>1. Core
  BY DEF WIInv, Base
<1>2. OneCall'
  <2>1. CASE [Next]_vars
    BY <1>1, <2>1, OneCallStep DEF Alone
  <2>2. CASE \E p \in Path : Stage(p)
    BY <2>2 DEF Stage, Alone, OneCall, session
  <2> QED BY <2>1, <2>2, ClickStep
<1>3. PromptSpeaksForSession'
  <2>1. CASE Delivered
    <3>1. posted > 0
      BY <2>1 DEF Delivered, OnFinished, OnSkipped, OnCompleted, OnConflict, OnFailed, Late, Finish,
         SkipEntry, PickApplies, PickConflicts, PickFails, Due, Deliver
    <3>2. ~prompt
      BY <1>1, <3>1 DEF Alone, OneCall, PromptSpeaksForSession, Waiting
    <3>3. CASE OnConflict
      BY <3>3 DEF OnConflict, PickConflicts, Due, PromptSpeaksForSession, Waiting
    <3> QED BY <2>1, <3>2, <3>3 DEF Delivered, OnFinished, OnSkipped, OnCompleted, OnFailed,
         windows, PromptSpeaksForSession
  <2>2. CASE ShowPlan
    <3>1. ~prompt
      BY <2>2, Popped DEF ShowPlan, Alone, PromptSpeaksForSession, Waiting
    <3> QED BY <2>2, <3>1 DEF ShowPlan, PromptSpeaksForSession
  <2>3. CASE \/ Cancel \/ ClosePlan
             \/ \E branch \in Branch \cup {None}, c \in Bases, p \in Plans :
                  StartRebase(branch, c, p)
    BY <2>3 DEF Cancel, ClosePlan, StartRebase, PlanHasFocus, PromptSpeaksForSession
  <2>4. CASE ContinueClicked \/ SkipClicked \/ AbortClicked \/ SaveAndClose \/ Relaunch
    BY <2>4 DEF ContinueClicked, SkipClicked, AbortClicked, Answer, SaveAndClose, Relaunch,
       PromptSpeaksForSession
  <2>5. CASE AcceptBlock \/ Elsewhere \/ UNCHANGED allVars \/ \E p \in Path : Stage(p)
    <3>1. UNCHANGED <<session, prompt>>
      BY <2>5 DEF AcceptBlock, Elsewhere, Resolve, Checkout, Tidy, Stage, allVars, vars, windows
    <3> QED BY <3>1 DEF session, Alone, PromptSpeaksForSession, Waiting
  <2> QED BY <2>1, <2>2, <2>3, <2>4, <2>5 DEF WindowsNext
<1> QED BY <1>2, <1>3 DEF Alone

LEMMA WindowsInductive == WindowsSpec => []WIInv
<1>1. WindowsInit => WIInv
  BY WindowsInitInv
<1>2. WIInv /\ [WindowsNext]_allVars => WIInv'
  BY WindowsStep
<1> QED BY <1>1, <1>2, PTL DEF WindowsSpec

\* Whatever the user clicks in CommitPlanPopup and ConflictPopup, and however
\* many calls of processNextOperation are left over from sessions before: the
\* plan popup is there and says "Rebasing..." as long as a session runs, and
\* shows what became of each commit, for every plan that names a commit once.
THEOREM PopupFollows == WindowsSpec => [](PopupFollowsSession /\ StatusTellsTruth)
<1>1. WIInv => PopupFollowsSession /\ StatusTellsTruth
  BY DEF WIInv
<1> QED BY <1>1, WindowsInductive, PTL

\* The windows keep to the plan, even where a call left over takes a session
\* on under an open conflict window, which then stages files between entries.
THEOREM WindowsKeepThePlan == WindowsSpec => []PlanIsFollowed
<1>1. WIInv => PlanIsFollowed
  BY DEF WIInv, Base, Core, PlanIsFollowed
<1> QED BY <1>1, WindowsInductive, PTL

LEMMA StagedQuietly ==
  ASSUME Core, NEW p \in Path, Stage(p)
  PROVE  git'.refs = git.refs /\ signal' = None
  BY WFStage DEF Stage, Core, TypeOK

\* Nor do the windows move a branch but at the end of a session that went
\* well, then to the commits of its plan that were committed.
THEOREM WindowsMoveOneBranch == WindowsSpec => BranchesFollow
<1>1. WIInv /\ [WindowsNext]_allVars => [Move]_vars /\ [Rebased]_vars
  <2> SUFFICES ASSUME WIInv, [WindowsNext]_allVars PROVE [Move]_vars /\ [Rebased]_vars
    OBVIOUS
  <2>1. Core
    BY DEF WIInv, Base
  <2>2. CASE [Next]_vars
    BY <2>1, <2>2, MoveStep, RebasedStep
  <2>3. ASSUME NEW p \in Path, Stage(p) PROVE [Move]_vars /\ [Rebased]_vars
    BY <2>1, <2>3, StagedQuietly DEF Move, Rebased, None
  <2> QED BY <2>2, <2>3, ClickStep
<1> QED BY <1>1, WindowsInductive, PTL DEF WindowsSpec, BranchesFollow, BranchesMove, BranchRebased,
     Move, Rebased

\* Cancelling in the plan popup and aborting in the conflict window put HEAD
\* back, on a clean tree, whatever was staged in a window left open.
THEOREM WindowsAbortPutsBack == WindowsSpec => AbortRestores
<1>1. WIInv /\ [WindowsNext]_allVars => [Back]_vars
  <2> SUFFICES ASSUME WIInv, [WindowsNext]_allVars PROVE [Back]_vars
    OBVIOUS
  <2>1. Core
    BY DEF WIInv, Base
  <2>2. CASE [Next]_vars
    BY <2>1, <2>2, BackStep
  <2>3. ASSUME NEW p \in Path, Stage(p) PROVE [Back]_vars
    BY <2>1, <2>3, StagedQuietly DEF Back, None
  <2> QED BY <2>2, <2>3, ClickStep
<1> QED BY <1>1, WindowsInductive, PTL DEF WindowsSpec, AbortRestores, Back

\* What is clicked in the two windows is a replay too, whatever calls are left
\* over from sessions before.
THEOREM WindowsReplay == WindowsSpec => ImplementsReplay
<1>1. WindowsInit => Promise!Init
  BY PromiseInit DEF WindowsInit
<1>2. WIInv /\ [WindowsNext]_allVars => [Promise!Next]_(Promise!vars)
  <2> SUFFICES ASSUME WIInv, [WindowsNext]_allVars PROVE [Promise!Next]_(Promise!vars)
    OBVIOUS
  <2>1. Core
    BY DEF WIInv, Base
  <2>2. CASE [Next]_vars
    BY <2>1, <2>2, PromiseStep
  <2>3. ASSUME NEW p \in Path, Stage(p) PROVE [Promise!Next]_(Promise!vars)
    <3>1. UNCHANGED <<inProgress, plan, idx, origin>> /\ signal' \notin {"finished", "aborted"}
      BY <2>3 DEF Stage, session, history, None
    <3>2. git'.head = git.head /\ git'.refs = git.refs /\ git'.at = git.at
      BY <2>1, <2>3, WFStage DEF Stage, Core, TypeOK
    <3> QED BY <3>1, <3>2, QuietlyStep DEF Promise!Next
  <2> QED BY <2>2, <2>3, ClickStep
<1> QED BY <1>1, <1>2, WindowsInductive, PTL DEF WindowsSpec, Promise!Spec, ImplementsReplay

\* With no call left over from a session before, the conflict window too
\* agrees: it asks only while the session waits for its answer.
THEOREM WindowsFollow == MaxPosted = 1 => (WindowsSpec => []WindowsAgree)
<1> SUFFICES ASSUME MaxPosted = 1 PROVE WindowsSpec => []WindowsAgree
  OBVIOUS
<1>1. WindowsInit => WIInv /\ Alone
  BY WindowsInitInv
<1>2. WIInv /\ Alone /\ [WindowsNext]_allVars => (WIInv /\ Alone)'
  BY WindowsStep, AloneStep
<1>3. WIInv /\ Alone => WindowsAgree
  BY DEF WIInv, Alone, WindowsAgree
<1> QED BY <1>1, <1>2, <1>3, PTL DEF WindowsSpec
=============================================================================
