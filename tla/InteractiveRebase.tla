-------------------------- MODULE InteractiveRebase --------------------------
(***************************************************************************)
(* The interactive rebase session of Src/Git/GitRebase.cpp.  The session   *)
(* lives in the controller, not in the repository: it detaches HEAD at the *)
(* new base, replays the plan one entry per posted event, stops at a       *)
(* conflict until the user continues, skips or aborts, and moves the       *)
(* branch at the end.  The methods are called from the user interface, in  *)
(* any order and also while a posted event is still to be delivered.       *)
(* Each Bug... operator is a plausible slip in the definition after it,    *)
(* kept to show that the properties can fail.                              *)
(***************************************************************************)
EXTENDS GitRepo, Integers, Functions

CONSTANTS Plans,      \* the plans handed to startInteractiveRebase
          Bases,      \* the commits a base reference resolves to
          InitRepo,   \* the repositories the application opens
          MaxPosted   \* bound: undelivered calls of processNextOperation

None == "none"

\* The plan popup offers the actions pick and skip and nothing else.
Entry == [action : {"pick", "skip"}, hash : Change]

ASSUME PlanAssumption ==
  /\ Plans \subseteq Seq(Entry)
  /\ Bases \subseteq Commit
  /\ \A g \in InitRepo : WellFormed(g)
  /\ None \notin Branch \cup Change
  /\ MaxPosted \in Nat

VARIABLES
  git,         \* the repository
  inProgress,  \* m_interactiveInProgress
  plan,        \* m_interactivePlan
  idx,         \* m_currentPlanIndex
  opHash,      \* m_currentOpHash
  pickActive,  \* m_isCherryPickActive
  headRef,     \* m_originalHeadRef: its name and the target read with it
  posted,      \* undelivered singleShot calls of processNextOperation
  signal,      \* the last of the signals the last call emitted
  base,        \* history: the commit the session started on
  applied,     \* history: positions of the plan committed, in order
  skipped,     \* history: positions of the plan skipped
  origin,      \* history: what HEAD was when the session was started
  asked,       \* history: the branch the session was started for
  slipped      \* history: a call whose result is not looked at has failed, in
               \* dropping a pick of this session or in ending the last one

session == <<inProgress, plan, idx, opHash, pickActive, headRef>>
history == <<base, applied, skipped, origin, asked, slipped>>
vars == <<git, session, posted, signal, history>>

Signal == {None, "completed", "skipped", "conflict", "finished", "failed", "aborted"}
NoRef == [name |-> Detached, target |-> <<>>]
Ref == [name : Branch \cup {Detached}, target : Commit]

TypeOK ==
  /\ WellFormed(git)
  /\ inProgress \in BOOLEAN /\ pickActive \in BOOLEAN
  /\ plan \in Seq(Entry) /\ idx \in Nat
  /\ opHash \in Change \cup {None}
  /\ headRef \in Ref /\ origin \in Ref
  /\ posted \in Nat
  /\ signal \in Signal
  /\ base \in Commit /\ applied \in Seq(Nat) /\ skipped \subseteq Nat
  /\ asked \in Branch \cup {None} /\ slipped \in BOOLEAN

Init ==
  /\ git \in InitRepo
  /\ inProgress = FALSE /\ plan = <<>> /\ idx = 0 /\ opHash = None
  /\ pickActive = FALSE /\ headRef = NoRef
  /\ posted = 0 /\ signal = None
  /\ base = <<>> /\ applied = <<>> /\ skipped = {} /\ origin = NoRef
  /\ asked = None /\ slipped = FALSE

-----------------------------------------------------------------------------
(* What the methods share. *)

\* cleanupInteractiveState: the session is forgotten, HEAD stays where it is.
EndSession ==
  /\ inProgress' = FALSE /\ plan' = <<>> /\ idx' = 0 /\ opHash' = None
  /\ pickActive' = FALSE /\ headRef' = NoRef
  /\ base' = <<>> /\ applied' = <<>> /\ skipped' = {} /\ origin' = NoRef
  /\ asked' = None

\* Nobody asks for the next call.
BugAdvance(calls) ==
  /\ idx' = idx + 1
  /\ pickActive' = FALSE
  /\ posted' = calls
  /\ UNCHANGED <<inProgress, plan, headRef, base, origin, asked>>

\* The next position, and a new call of processNextOperation.
Advance(calls) ==
  /\ idx' = idx + 1
  /\ pickActive' = FALSE
  /\ posted' = calls + 1
  /\ UNCHANGED <<inProgress, plan, headRef, base, origin, asked>>

Completed(calls) ==
  /\ signal' = "completed"
  /\ applied' = Append(applied, idx + 1)
  /\ Advance(calls)
  /\ UNCHANGED skipped

Skipped(calls) ==
  /\ signal' = "skipped"
  /\ skipped' = skipped \cup {idx + 1}
  /\ Advance(calls)
  /\ UNCHANGED applied

\* The session ends with rebaseFinished(false) and the repository is left as g.
FailWith(g) == git' = g /\ signal' = "failed" /\ EndSession /\ slipped' = FALSE

\* The files are checked out again, the conflicts stay in the index.
BugAbortCherryPick(g) == StateCleanup([g EXCEPT !.dirty = FALSE])

\* abortCherryPick: HEAD is checked out by force, the conflicts dropped.
AbortCherryPick(g) == StateCleanup(Discard(g))

\* It looks at no result: the checkout or the writing of the index can fail,
\* and what was picked is left in the files or in the index too.
LeftBehind(g) ==
  {StateCleanup([g EXCEPT !.unmerged = {}, !.missing = {}]), StateCleanup(g)}
Dropped(g) == {AbortCherryPick(g)} \cup LeftBehind(g)

\* git_repository_set_head checks nothing out: the files stay those of the
\* commit HEAD was at.
BackOn(g, name) == LET h == SetHead(g, name) IN [h EXCEPT !.dirty = @ \/ h.at # g.at]

\* Commit the pick of change h and clear the repository's state.
CommitPick(g, h) == StateCleanup(CommitStaged(g, h))

-----------------------------------------------------------------------------
(* startInteractiveRebase *)

\* A session or a rebase on disk is in progress, or the tree is not clean.
Refuse ==
  /\ \/ inProgress /\ UNCHANGED <<session, history>>
     \/ ~inProgress /\ git.op = "rebase" /\ UNCHANGED <<session, history>>
     \/ ~inProgress /\ git.op # "rebase" /\ git.dirty /\ EndSession /\ slipped' = FALSE
  /\ signal' = "failed"
  /\ UNCHANGED <<git, posted>>

\* The repository once the branch to rebase is checked out.
OnBranch(branch) == IF branch \in {None, git.head} THEN git ELSE SetHead(git, branch)

\* A tree whose status cannot be listed is taken for a clean one.
CanBegin == ~inProgress /\ git.op # "rebase"

\* The branch cannot be checked out; or the base is no commit or cannot be
\* checked out; or user.name and user.email are not set.  HEAD may stay where
\* it was over files that are checked out already.
BeginFails(branch, c) ==
  /\ CanBegin
  /\ \/ branch \notin {None, git.head} /\ FailWith(git)
     \/ branch \notin {None, git.head} /\ FailWith([git EXCEPT !.dirty = TRUE])
     \/ FailWith(OnBranch(branch))
     \/ FailWith([OnBranch(branch) EXCEPT !.dirty = TRUE])
     \/ FailWith(Detach(OnBranch(branch), c))
  /\ UNCHANGED posted

\* A session that remembers HEAD as it is in before; after is the repository
\* with HEAD at the base.
Start(branch, c, p, before, after) ==
  /\ CanBegin /\ posted < MaxPosted
  /\ git' = after
  /\ inProgress' = TRUE /\ plan' = p /\ idx' = 0
  /\ headRef' = [name |-> before.head, target |-> before.at]
  /\ posted' = posted + 1
  /\ signal' = None
  /\ base' = c /\ applied' = <<>> /\ skipped' = {}
  /\ origin' = [name |-> git.head, target |-> git.at] /\ asked' = branch
  /\ slipped' = git.dirty
  /\ UNCHANGED <<opHash, pickActive>>

\* HEAD is read only after the branch is checked out; HEAD is not detached.
BugBeginLateRead(branch, c, p) ==
  Start(branch, c, p, OnBranch(branch), Detach(OnBranch(branch), c))
BugBeginAttached(branch, c, p) ==
  Start(branch, c, p, git, MoveHead(OnBranch(branch), c))

\* HEAD is read, the branch is checked out, HEAD is detached at the base.
Begin(branch, c, p) == Start(branch, c, p, git, Detach(OnBranch(branch), c))

-----------------------------------------------------------------------------
(* processNextOperation, one delivery of a posted call. *)

Deliver == posted > 0

\* The session is gone: nothing to do.
Late ==
  /\ Deliver /\ ~inProgress
  /\ posted' = posted - 1 /\ signal' = None
  /\ UNCHANGED <<git, session, history>>

\* The reference is left where it was, though it could be moved.
BugFinished(moved, back) == IF back THEN BackOn(git, headRef.name) ELSE git

\* The plan is exhausted: HEAD's branch moves to the replayed commits, and HEAD
\* goes back to it.  The first is given up without a word when HEAD cannot be
\* read or the reference not be set; the result of the second is not tested.
Finished(moved, back) ==
  LET g == IF moved THEN SetTarget(git, headRef.name, headRef.target, git.at) ELSE git
  IN  IF back THEN BackOn(g, headRef.name) ELSE g

Finish ==
  /\ Deliver /\ inProgress /\ idx >= Len(plan)
  /\ \E moved, back \in BOOLEAN :
       git' = Finished(moved, back) /\ slipped' = ~(moved /\ back)
  /\ signal' = "finished"
  /\ EndSession
  /\ posted' = posted - 1

\* Whatever is not told apart is picked.
BugDue(action) ==
  /\ Deliver /\ inProgress /\ idx < Len(plan)
  /\ action \in {"pick", plan[idx + 1].action}

Due(action) == Deliver /\ inProgress /\ idx < Len(plan) /\ plan[idx + 1].action = action

SkipEntry ==
  /\ Due("skip")
  /\ Skipped(posted - 1)
  /\ UNCHANGED <<git, opHash, slipped>>

\* git_cherrypick refuses an index that differs from HEAD, as that of a pick
\* that waits does; what is only in the files need not be in its way.
Pickable == ~git.dirty \/ (git.op = "none" /\ git.unmerged = {})

\* The change is staged without conflict and committed.  What a tree was dirty
\* with before may stay.
PickApplies ==
  /\ Due("pick") /\ Pickable
  /\ \E left \in {FALSE, git.dirty} :
       git' = [CommitPick(Picked(git), plan[idx + 1].hash) EXCEPT !.dirty = left]
  /\ opHash' = plan[idx + 1].hash
  /\ Completed(posted - 1)
  /\ UNCHANGED slipped

\* The commit that is waiting to be continued is not remembered.
BugPickConflicts ==
  /\ Due("pick") /\ Pickable
  /\ \E U \in SUBSET Path \ {{}} : git' = PickedWithConflicts(git, U, {})
  /\ pickActive' = TRUE
  /\ signal' = "conflict"
  /\ posted' = posted - 1
  /\ UNCHANGED <<inProgress, plan, idx, opHash, headRef, history>>

\* The cherry-pick leaves conflicts: the session waits for the user.
PickConflicts ==
  /\ Due("pick") /\ Pickable
  /\ \E U \in SUBSET Path \ {{}} : \E M \in SUBSET U :
       git' = PickedWithConflicts(git, U, M)
  /\ opHash' = plan[idx + 1].hash
  /\ pickActive' = TRUE
  /\ signal' = "conflict"
  /\ posted' = posted - 1
  /\ UNCHANGED <<inProgress, plan, idx, headRef, history>>

\* No such commit; or the cherry-pick is refused (a merge commit, a tree
\* that is not clean) or cannot be committed, and is dropped.
PickFails ==
  /\ Due("pick")
  /\ FailWith(git) \/ \E g \in {git, Picked(git)} : \E d \in Dropped(g) : FailWith(d)
  /\ posted' = posted - 1

ProcessNext == Late \/ Finish \/ SkipEntry \/ PickApplies \/ PickConflicts \/ PickFails

-----------------------------------------------------------------------------
(* The user's answers to a conflict. *)

Waiting == inProgress /\ pickActive

\* interactiveContinue commits what was staged.  It fails when the commit
\* cannot be read, the index has conflicts or nothing can be written.
ContinueApplies ==
  /\ Waiting /\ git.unmerged = {}
  /\ git' = CommitPick(git, opHash)
  /\ Completed(posted)
  /\ UNCHANGED <<opHash, slipped>>

ContinueFails == Waiting /\ FailWith(git) /\ UNCHANGED posted

InteractiveContinue == ContinueApplies \/ ContinueFails

\* The conflicting changes stay in the index and the working directory.
BugInteractiveSkip ==
  /\ Waiting
  /\ git' = StateCleanup(git)
  /\ Skipped(posted)
  /\ UNCHANGED <<opHash, slipped>>

\* interactiveSkip goes on whether the pick could be dropped or not.
InteractiveSkip ==
  /\ Waiting
  /\ \/ git' = AbortCherryPick(git) /\ UNCHANGED slipped
     \/ git' \in LeftBehind(git) /\ slipped' = TRUE
  /\ Skipped(posted)
  /\ UNCHANGED opHash

\* interactiveAbort: what HEAD was is restored, on a clean tree.  Neither of
\* the two results is tested, and a reset that fails may have changed files.
Restored(g, reset, back) ==
  LET r == IF reset THEN ResetHard(g, headRef.target) ELSE g
  IN  StateCleanup(IF back THEN BackOn(r, headRef.name) ELSE r)

InteractiveAbort ==
  /\ inProgress
  /\ \E g \in IF pickActive THEN Dropped(git) ELSE {StateCleanup(git)} :
     \E reset, back \in BOOLEAN, half \in {g.dirty, TRUE} :
       /\ git' = Restored([g EXCEPT !.dirty = half], reset, back)
       /\ slipped' = ~(reset /\ back)
  /\ signal' = "aborted"
  /\ EndSession
  /\ UNCHANGED posted

\* A conflicted file is staged, in the conflict window or outside.
Resolve(p) ==
  /\ p \in git.unmerged
  /\ \E still \in BOOLEAN : git' = StagePath(git, p, still)
  /\ signal' = None
  /\ UNCHANGED <<session, posted, history>>

\* The application ends and starts again; nothing of a session is on disk.
Restart ==
  /\ EndSession /\ slipped' = FALSE
  /\ posted' = 0 /\ signal' = None
  /\ UNCHANGED git

\* Between sessions the user checks out a branch (the plan popup is modal).
Checkout(b) ==
  /\ ~inProgress /\ ~git.dirty
  /\ git' = SetHead(git, b)
  /\ signal' = None
  /\ UNCHANGED <<session, posted, history>>

\* Outside the application the user puts the tree right: git reset --hard.
Tidy ==
  /\ ~inProgress /\ git.dirty
  /\ git' = StateCleanup(Discard(git))
  /\ signal' = None
  /\ UNCHANGED <<session, posted, history>>

Next ==
  \/ Refuse
  \/ \E branch \in Branch \cup {None}, c \in Bases :
       BeginFails(branch, c) \/ \E p \in Plans : Begin(branch, c, p)
  \/ ProcessNext
  \/ InteractiveContinue \/ InteractiveSkip \/ InteractiveAbort
  \/ \E p \in Path : Resolve(p)
  \/ \E b \in Branch : Checkout(b)
  \/ Restart \/ Tidy

Spec == Init /\ [][Next]_vars

\* The event loop delivers what is posted.
FairSpec == Spec /\ WF_vars(ProcessNext)

-----------------------------------------------------------------------------
(* Properties. *)

\* While a session runs, HEAD is detached, so no commit of the replay can
\* move a branch.
SessionDetached == inProgress => git.head = Detached

\* Every position before the current one was committed or skipped, never
\* both, and no entry marked skip was committed.
Accounted ==
  inProgress =>
    /\ idx <= Len(plan)
    /\ Range(applied) \cup skipped = 1 .. idx
    /\ Range(applied) \cap skipped = {}
    /\ \A i \in DOMAIN applied : plan[applied[i]].action = "pick"

\* HEAD is the base followed by the committed entries in the plan's order.
Replayed ==
  inProgress =>
    /\ \A i, j \in DOMAIN applied : i < j => applied[i] < applied[j]
    /\ git.at = base \o [i \in DOMAIN applied |-> plan[applied[i]].hash]

\* A running session waits for the user or has a call to come.
NotStalled == inProgress => pickActive \/ posted > 0

\* Between two entries the tree is clean: a skipped conflict leaves nothing
\* behind that the next pick would run into or commit.  It may when the pick
\* could not be dropped, or the session began without seeing the status.
CleanBetween == inProgress /\ ~pickActive /\ ~slipped => ~git.dirty

\* Branches move only when a session ends well, and then only the branch
\* HEAD was on, to the commits replayed.
BranchesMove ==
  [][git'.refs # git.refs =>
       /\ signal' = "finished"
       /\ origin.name \in Branch
       /\ git'.refs = [git.refs EXCEPT ![origin.name] = git.at]]_vars

\* Aborting puts HEAD back to the branch and the commit it was at, with a
\* clean tree, whatever was picked, skipped or resolved in between.  That the
\* reset or the way back to the branch has failed is told to nobody.
AbortRestores ==
  [][signal' = "aborted" /\ ~slipped' =>
       /\ git'.head = origin.name /\ git'.at = origin.target
       /\ ~git'.dirty /\ git'.unmerged = {} /\ git'.op = "none"]_vars

\* A session ends or comes to wait for the user.
SessionProgresses == inProgress ~> ~inProgress \/ pickActive

\* What GitRebase.h says of the branch parameter, "Optional branch to
\* rebase": it is the branch that is at the replayed commits in the end, if
\* it was the one checked out.  Another branch stays where it was.  The end is
\* told as a good one, too, when the branch could not be moved: that case is
\* set apart.
BranchRebased ==
  [][signal' = "finished" /\ asked = origin.name /\ ~slipped' => git'.refs[asked] = git.at]_vars

\* A running session stands on a detached HEAD, has a call to come or waits
\* for the user, and meets each entry with a clean tree (GitRebase.cpp:853-1130).
SessionIsSound == TypeOK /\ SessionDetached /\ NotStalled /\ CleanBetween

\* What is replayed is the plan: in its order, each entry once, committed or
\* skipped and nothing else, through every conflict, answer and late call.
PlanIsFollowed == Accounted /\ Replayed

\* Branches move only at the end of a session that went well, and it is then
\* the one asked for, if it was checked out, and no other.
BranchesFollow == BranchesMove /\ BranchRebased

\* What the user sees of the session is a replay: whatever calls, conflicts
\* and answers it takes, the entries of the plan are committed or dropped in
\* their order, and branches and HEAD are where a replay leaves them, but for
\* an end whose failure goes unnoticed.
Promise == INSTANCE Replay WITH
  running <- inProgress, from <- IF inProgress THEN origin ELSE NoRef,
  todo <- IF inProgress THEN SubSeq(plan, idx + 1, Len(plan)) ELSE <<>>,
  head <- git.head, at <- git.at, refs <- git.refs,
  told <- IF signal \notin {"finished", "aborted"} THEN "nothing"
          ELSE IF slipped THEN "unnoticed" ELSE signal

ImplementsReplay == Promise!Spec
=============================================================================
