------------------------------ MODULE CherryPick ------------------------------
(***************************************************************************)
(* The cherry-pick of a sequence of commits: GitCherryPick.cpp, which      *)
(* applies them one after the other and stops at a conflict, and the       *)
(* conflict window (ConflictPopup.qml without interactiveMode) that the    *)
(* commit graph opens to continue, skip or abort.  The sequence is kept in *)
(* the controller.  processCommits is one call; its rounds are steps here, *)
(* and the application does nothing else between them.                     *)
(* Each Bug... operator is a plausible slip in the definition after it,    *)
(* kept to show that the properties can fail.                              *)
(***************************************************************************)
EXTENDS GitContents, Integers, Sequences

CONSTANTS Selections,  \* the sequences of commits the user selects
          InitRepo     \* the repositories the application opens

\* A commit holds no change of those to be picked but what its history says.
Clean(c) == c.has \cap Change \subseteq c.says

\* What is staged when a repository is opened is the user's own.
ASSUME SelectionAssumption ==
  /\ Selections \subseteq Seq(Change) \ {<<>>}
  /\ InitRepo \subseteq Repository
  /\ \A g \in InitRepo : g.staged \subseteq Local /\ \A b \in Branch : Clean(g.tips[b])

VARIABLES
  git,           \* the repository
  inProgress,    \* m_inProgress
  pending,       \* m_pendingCommits
  idx,           \* m_currentIndex
  startHead,     \* m_startHeadHash, the commit it names
  hasConflicts,  \* m_hasConflicts
  looping,       \* processCommits is running
  prompt,        \* the conflict window is open
  result,        \* status of the last result, "none" while a call runs
  picked,        \* history: positions committed
  skipped,       \* history: positions skipped
  startTips,     \* history: the branches when the sequence was started
  stuck          \* history: changes of skipped commits that a failed reset left

session == <<inProgress, pending, idx, startHead, hasConflicts>>
history == <<picked, skipped, startTips, stuck>>
vars == <<git, session, looping, prompt, result, history>>

NoCommit == [says |-> {}, has |-> {}]

TypeOK ==
  /\ git \in Repository
  /\ inProgress \in BOOLEAN /\ hasConflicts \in BOOLEAN
  /\ looping \in BOOLEAN /\ prompt \in BOOLEAN
  /\ pending \in Seq(Change)
  /\ idx \in -1 .. Len(pending)
  /\ startHead \in Commit
  /\ result \in {"none", "completed", "conflict", "failed", "refused", "aborted"}
  /\ picked \subseteq Nat /\ skipped \subseteq Nat
  /\ startTips \in [Branch -> Commit]
  /\ stuck \subseteq Change

Init ==
  /\ git \in InitRepo
  /\ inProgress = FALSE /\ pending = <<>> /\ idx = -1
  /\ startHead = NoCommit /\ hasConflicts = FALSE
  /\ looping = FALSE /\ prompt = FALSE /\ result = "none"
  /\ picked = {} /\ skipped = {} /\ startTips = git.tips /\ stuck = {}

-----------------------------------------------------------------------------
(* cherryPickCommit, cherryPickCommits. *)

Idle == ~looping /\ ~prompt

Busy == inProgress \/ git.unmerged \/ git.op # "none"

Refuse ==
  /\ Idle /\ Busy
  /\ result' = "refused"
  /\ UNCHANGED <<git, session, looping, prompt, history>>

CherryPickCommits(commits) ==
  /\ Idle /\ ~Busy
  /\ pending' = commits /\ idx' = 0 /\ inProgress' = TRUE /\ hasConflicts' = FALSE
  /\ startHead' = Tip(git)
  /\ looping' = TRUE /\ result' = "none"
  /\ picked' = {} /\ skipped' = {} /\ startTips' = git.tips
  /\ UNCHANGED <<git, prompt, stuck>>

-----------------------------------------------------------------------------
(* processCommits, a round at a time. *)

\* The position is kept.
BugClearState ==
  /\ inProgress' = FALSE /\ pending' = <<>>
  /\ startHead' = NoCommit /\ hasConflicts' = FALSE
  /\ UNCHANGED <<idx, history>>

ClearState ==
  /\ inProgress' = FALSE /\ pending' = <<>> /\ idx' = -1
  /\ startHead' = NoCommit /\ hasConflicts' = FALSE
  /\ UNCHANGED history

Round == looping /\ idx < Len(pending)

Current == pending[idx + 1]

\* The commit is made: on to the next one.
Made(g) ==
  /\ git' = g
  /\ idx' = idx + 1
  /\ picked' = picked \cup {idx + 1}
  /\ UNCHANGED <<inProgress, pending, startHead, hasConflicts, looping, prompt, result,
                 skipped, startTips, stuck>>

\* The index is written to a tree before the change is staged.
BugApplyCommit ==
  /\ Round /\ ~Refuses(git, {Current})
  /\ Made(StateCleanup(CommitIndex(git, {Current})))

\* The change is staged without conflict and committed.
ApplyCommit ==
  /\ Round /\ ~Refuses(git, {Current})
  /\ Made(StateCleanup(CommitIndex(Stage(git, {Current}, "cherrypick", FALSE), {Current})))

\* git_cherrypick returns GIT_ECONFLICT: it has staged nothing, and what the
\* index holds is committed.
ApplyRefused ==
  /\ Round /\ Refuses(git, {Current}) /\ ~git.unmerged
  /\ Made(StateCleanup(CommitIndex(git, {Current})))

\* The conflicts are left to the window, which opens or stays open: those of
\* this pick, or those a skip could not clear away, over which it is refused.
ApplyConflicts ==
  /\ Round
  /\ \/ ~Refuses(git, {Current}) /\ git' = Stage(git, {Current}, "cherrypick", TRUE)
     \/ git.unmerged /\ git' = git
  /\ hasConflicts' = TRUE
  /\ looping' = FALSE /\ prompt' = TRUE /\ result' = "conflict"
  /\ UNCHANGED <<inProgress, pending, idx, startHead, history>>

\* The sequence is not cleared after a failure.
BugApplyFails ==
  /\ Round /\ git' = git
  /\ looping' = FALSE /\ result' = "failed"
  /\ UNCHANGED <<session, prompt, history>>

\* No such commit, a merge commit, or an error of git_cherrypick; or the
\* staged change cannot be committed.  The commits made before are kept.
ApplyFails ==
  /\ Round
  /\ \/ git' = git
     \/ ~Refuses(git, {Current}) /\ git' = Stage(git, {Current}, "cherrypick", FALSE)
  /\ ClearState
  /\ looping' = FALSE /\ result' = "failed"
  /\ UNCHANGED prompt

\* All commits are done; the window closes when it made the call.
Complete ==
  /\ looping /\ idx >= Len(pending)
  /\ ClearState
  /\ looping' = FALSE /\ prompt' = FALSE /\ result' = "completed"
  /\ UNCHANGED git

ProcessCommits ==
  ApplyCommit \/ ApplyRefused \/ ApplyConflicts \/ ApplyFails \/ Complete

-----------------------------------------------------------------------------
(* The conflict window. *)

Answer == prompt /\ ~looping

\* The answer is refused and the window stays open.
AnswerFails ==
  /\ Answer
  /\ result' = "refused"
  /\ UNCHANGED <<git, session, looping, prompt, history>>

\* continueOp: the resolution is committed, HEAD checked out by force.
ContinueOp ==
  /\ Answer /\ inProgress /\ ~git.unmerged
  /\ LET g == CommitIndex(git, {Current}) IN git' = ResetHard(g, Tip(g))
  /\ picked' = picked \cup {idx + 1}
  /\ hasConflicts' = FALSE /\ idx' = idx + 1
  /\ looping' = TRUE /\ result' = "none"
  /\ UNCHANGED <<inProgress, pending, startHead, prompt, skipped, startTips, stuck>>

\* The resolution is committed, and HEAD cannot be checked out.
ContinueHalf ==
  /\ Answer /\ inProgress /\ ~git.unmerged
  /\ git' = StateCleanup(CommitIndex(git, {Current}))
  /\ picked' = picked \cup {idx + 1}
  /\ result' = "refused"
  /\ UNCHANGED <<session, looping, prompt, skipped, startTips, stuck>>

\* Skipped(g, n, left): the skipped commit is discarded as g, but for the
\* changes left, on to the n-th next.
Skipped(g, n, left) ==
  /\ Answer /\ inProgress
  /\ git' = g
  /\ skipped' = skipped \cup {idx + 1}
  /\ stuck' = stuck \cup left
  /\ hasConflicts' = FALSE /\ idx' = idx + n
  /\ looping' = TRUE /\ result' = "none"
  /\ UNCHANGED <<inProgress, pending, startHead, prompt, picked, startTips>>

\* The next commit meets what the conflict has left in the index.
BugSkipOpKeeps == Skipped(StateCleanup(Resolved(git)), 1, {})

\* The commits made before the skipped one go with it.
BugSkipOpResets == Skipped(ResetHard(git, startHead), 1, {})

\* The loop steps on, too.
BugSkipOpTwice == Skipped(ResetHard(git, Tip(git)), 2, {})

\* skipOp goes on whatever the reset returns.  One that fails leaves what is
\* staged; the conflicts are dropped then if the index can be written.
SkipOp ==
  \/ Skipped(ResetHard(git, Tip(git)), 1, {})
  \/ \E g \in {StateCleanup(Resolved(git)), StateCleanup(git)} : Skipped(g, 1, {Current})

\* HEAD stays where the sequence got to.
BugAbortOp ==
  /\ Answer /\ inProgress
  /\ git' = ResetHard(git, Tip(git))
  /\ ClearState
  /\ prompt' = FALSE /\ result' = "aborted"
  /\ UNCHANGED looping

\* abortOp: HEAD goes back to the commit it was at.
AbortOp ==
  /\ Answer /\ inProgress
  /\ git' = ResetHard(git, startHead)
  /\ ClearState
  /\ prompt' = FALSE /\ result' = "aborted"
  /\ UNCHANGED looping

\* Save, in the dialog of the close button.
SaveAndClose ==
  /\ Answer
  /\ prompt' = FALSE
  /\ UNCHANGED <<git, session, looping, result, history>>

ConflictWindow == AnswerFails \/ ContinueOp \/ ContinueHalf \/ SkipOp \/ AbortOp \/ SaveAndClose

-----------------------------------------------------------------------------
(* The rest of the application. *)

UserStep(g) == git' = g /\ UNCHANGED <<session, looping, prompt, result, history>>

Resolve == ~looping /\ git.unmerged /\ UserStep(Resolved(git))

Edit(x) == Idle /\ x \notin git.staged \cup Tip(git).has /\ UserStep(Edited(git, x))

StageEdit(x) == Idle /\ x \in git.edits /\ UserStep(EditStaged(git, x))

UserCommit == Idle /\ CanCommit(git) /\ UserStep(Committed(git))

Checkout(b) == Idle /\ CanCheckout(git, b) /\ UserStep(CheckedOut(git, b))

\* The sequence is not on disk.
Restart ==
  /\ ~looping
  /\ ClearState
  /\ prompt' = FALSE /\ result' = "none"
  /\ UNCHANGED <<git, looping>>

Next ==
  \/ Refuse \/ \E commits \in Selections : CherryPickCommits(commits)
  \/ ProcessCommits \/ ConflictWindow
  \/ Resolve \/ UserCommit \/ \E x \in Local : Edit(x) \/ StageEdit(x)
  \/ \E b \in Branch : Checkout(b)
  \/ Restart

Spec == Init /\ [][Next]_vars

-----------------------------------------------------------------------------
(* Properties. *)

\* A sequence in progress that waits stands at one of its commits, and the
\* flag that the window's colour and the status go by says why.
Positioned ==
  inProgress /\ ~looping => idx \in 0 .. Len(pending) - 1 /\ hasConflicts

\* Every commit before the current one was committed or skipped, and none
\* beyond it was touched.
Accounted ==
  inProgress =>
    /\ 1 .. idx \subseteq picked \cup skipped
    /\ picked \cup skipped \subseteq 1 .. idx + 1

\* While the call runs or the window is open, HEAD says what it said at the
\* start and what was committed of the sequence.
HistoryFollows ==
  inProgress /\ (looping \/ prompt) =>
    Tip(git).says = startHead.says \cup {pending[i] : i \in picked}

\* Nothing of a skipped, failed or resolved pick leaks into another commit: a
\* commit holds no change of the picked ones that its history does not say, nor
\* any other than one whose skipping could not clear it away.
NothingLeaks == \A b \in Branch : git.tips[b].has \cap Change \subseteq git.tips[b].says \cup stuck

\* What GitCherryPick.h says, "Apply one or more commits onto current HEAD": a
\* commit made for a picked one holds its change, as long as nothing else is
\* around, the user's own or what a skip has left.  Over that git_cherrypick may
\* refuse, and the commit is made all the same.
PicksApplied ==
  [][\A b \in Branch :
       git'.tips[b].says \ git.tips[b].says \subseteq git'.tips[b].has
         \/ (git.edits \cup git.staged) \cap Local # {} \/ stuck # {}]_vars

\* An abort puts every branch back to where it was at the start, and leaves
\* nothing of the sequence in the index or the repository's state.
AbortRestores ==
  [][result' = "aborted" /\ prompt =>
       /\ git'.tips = startTips
       /\ git'.staged = {} /\ ~git'.unmerged /\ git'.op = "none"]_vars

\* A sequence that stopped stands at one of its commits, and those before it,
\* and no later one, were committed or skipped (GitCherryPick.cpp:63-330).
SequenceIsSound == TypeOK /\ Positioned /\ Accounted

\* The history is that of the start and of the commits picked, and holds
\* nothing of a commit that was skipped or failed.
HistoryHoldsPicks == HistoryFollows /\ NothingLeaks
=============================================================================
