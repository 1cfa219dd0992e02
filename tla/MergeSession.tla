----------------------------- MODULE MergeSession -----------------------------
(***************************************************************************)
(* The merge of a branch into the current one: GitMerge.cpp, which keeps   *)
(* the two parents of a merge that stopped at a conflict until continueOp  *)
(* commits it; the popup that asks for the method, to whose signal the     *)
(* commit graph connects a handler for every merge the user asks for; and  *)
(* the conflict window (ConflictPopup.qml).                                *)
(* Each Bug... operator is a plausible slip in the definition after it,    *)
(* kept to show that the properties can fail.                              *)
(***************************************************************************)
EXTENDS GitContents, Integers, Sequences

CONSTANTS InitRepo,    \* the repositories the application opens
          MaxHandlers, \* bound: handlers connected at a time
          MaxUserEdits     \* bound: edits of the user's

\* What a branch's history says it includes is there.
Honest(c) == c.says \subseteq c.has

ASSUME MergeAssumption ==
  /\ InitRepo \subseteq Repository
  /\ \A g \in InitRepo : \A b \in Branch : Honest(g.tips[b])
  /\ MaxHandlers \in Nat \ {0} /\ MaxUserEdits \in Nat

VARIABLES
  git,         \* the repository
  inProgress,  \* m_mergeInProgress
  source,      \* m_pendingSourceHash, the commit it names
  target,      \* m_pendingTargetHash, the commit it names
  asked,       \* the branches of the handlers connected to accepted, in order
  popup,       \* the method popup is open, for the last of asked
  todo,        \* the handlers an emission of accepted still has to call
  noFF,        \* its argument
  prompt,      \* the conflict window is open
  result,      \* what the last call came to
  refused,     \* history: the stored parents are of a merge git refused
  mixed,       \* history: such parents were committed
  edited       \* the number of edits made

pending == <<inProgress, source, target, refused>>
asking == <<asked, popup, todo, noFF>>
mergeHistory == <<mixed, edited>>
mergeVars == <<git, pending, asking, prompt, result, mergeHistory>>

NoCommit == [says |-> {}, has |-> {}]

MergeTypeOK ==
  /\ git \in Repository
  /\ {inProgress, popup, noFF, prompt, refused, mixed} \subseteq BOOLEAN /\ edited \in 0 .. MaxUserEdits
  /\ {source, target} \subseteq Commit
  /\ {asked, todo} \subseteq Seq(Branch) /\ Len(asked) <= MaxHandlers
  /\ popup => asked # <<>>
  /\ result \in {"none", "merged", "conflict", "failed", "refused", "aborted"}

MergeInit ==
  /\ git \in InitRepo
  /\ inProgress = FALSE /\ source = NoCommit /\ target = NoCommit
  /\ asked = <<>> /\ popup = FALSE /\ todo = <<>> /\ noFF = FALSE
  /\ prompt = FALSE /\ result = "none"
  /\ refused = FALSE /\ mixed = FALSE /\ edited = 0

-----------------------------------------------------------------------------
(* The method popup. *)

Idle == todo = <<>> /\ ~popup /\ ~prompt

\* executeMergeBranch
OpenMethod(b) ==
  /\ Idle /\ b # git.head
  /\ Len(asked) < MaxHandlers
  /\ asked' = Append(asked, b) /\ popup' = TRUE
  /\ UNCHANGED <<git, pending, todo, noFF, prompt, result, mergeHistory>>

\* Cancel, Escape or a click outside: the handler stays connected.
CancelMethod ==
  /\ popup /\ popup' = FALSE
  /\ UNCHANGED <<git, pending, asked, todo, noFF, prompt, result, mergeHistory>>

\* The popup stays open, without a handler.
BugAcceptMethod(withoutFF) ==
  /\ popup
  /\ todo' = asked /\ asked' = <<>> /\ noFF' = withoutFF
  /\ UNCHANGED <<git, pending, popup, prompt, result, mergeHistory>>

\* The Merge button: every handler is called in the order of connection, and
\* disconnects itself.
AcceptMethod(withoutFF) ==
  /\ popup
  /\ popup' = FALSE /\ todo' = asked /\ asked' = <<>> /\ noFF' = withoutFF
  /\ UNCHANGED <<git, pending, prompt, result, mergeHistory>>

-----------------------------------------------------------------------------
(* mergeBranchIntoCurrent, and what the handler shows of it. *)

TheirTip == git.tips[Head(todo)]

\* The handler returns; it shows the conflict window if the index has
\* conflicts, whoever has left them there.
Handled(g, r) ==
  /\ todo # <<>>
  /\ git' = g /\ result' = r
  /\ prompt' = (prompt \/ g.unmerged)
  /\ todo' = Tail(todo)
  /\ UNCHANGED <<asked, popup, noFF, mergeHistory>>

ResetMergeState ==
  inProgress' = FALSE /\ source' = NoCommit /\ target' = NoCommit /\ refused' = FALSE

\* The parents of an earlier merge are kept.
BugStoreMergeMetadata(r) ==
  /\ inProgress' = TRUE
  /\ \/ inProgress /\ UNCHANGED <<source, target>>
     \/ ~inProgress /\ source' = TheirTip /\ target' = Tip(git)
  /\ refused' = r

\* storeMergeMetadata, with the flag; r says that git refused the merge.
StoreMergeMetadata(r) ==
  inProgress' = TRUE /\ source' = TheirTip /\ target' = Tip(git) /\ refused' = r

\* The branch is gone or cannot be read, or git_merge fails.
MergeFails == Handled(git, "failed") /\ UNCHANGED pending

UpToDate == Handled(git, "merged") /\ TheirTip.says \subseteq Tip(git).says /\ UNCHANGED pending

\* performFastForward: the checkout is refused over what is modified; when HEAD
\* cannot be read or the branch not be moved after it, its files and index stay.
FastForward ==
  /\ ~noFF /\ todo # <<>> /\ Tip(git).says \subseteq TheirTip.says
  /\ LET changes == TheirTip.has \ Tip(git).has
     IN  \/ Blocked(git, changes) /\ Handled(git, "failed")
         \/ /\ ~Blocked(git, changes)
            /\ \/ Handled([MoveTip(git, TheirTip) EXCEPT !.staged = @ \ changes], "merged")
               \/ Handled([git EXCEPT !.staged = @ \cup changes], "failed")
  /\ UNCHANGED pending

\* createMergeCommit of a merge of theirs into ours, on HEAD.
MergeCommit(g, ours, theirs) ==
  StateCleanup(CommitIndex(g, ours.says \cup theirs.says))

\* Two histories to merge; one that includes the other by what it says may
\* still have commits of its own.
Normal == todo # <<>> /\ TheirTip # Tip(git) /\ (noFF \/ ~(Tip(git).says \subseteq TheirTip.says))

\* git_merge stages everything, and the merge is committed; a commit that
\* fails leaves it staged.
MergeClean ==
  /\ Normal /\ ~Refuses(git, TheirTip.has)
  /\ LET g == Stage(git, TheirTip.has, "merge", FALSE)
     IN  \/ Handled(MergeCommit(g, Tip(g), TheirTip), "merged") /\ ResetMergeState
         \/ Handled(g, "failed") /\ UNCHANGED pending

MergeConflicts ==
  /\ Normal /\ ~Refuses(git, TheirTip.has)
  /\ Handled(Stage(git, TheirTip.has, "merge", TRUE), "conflict")
  /\ StoreMergeMetadata(FALSE)

\* A refused merge counts as one that staged everything.
BugMergeRefused ==
  /\ Normal /\ Refuses(git, TheirTip.has)
  /\ \/ git.unmerged /\ Handled(StateCleanup(git), "conflict") /\ StoreMergeMetadata(FALSE)
     \/ ~git.unmerged /\ Handled(MergeCommit(git, Tip(git), TheirTip), "merged") /\ ResetMergeState

\* git_merge returns GIT_ECONFLICT over what is modified or unmerged: it has
\* staged nothing and removed MERGE_HEAD, and the merge counts as started.
\* Asked for once more, the one under way is still the one that was staged.
MergeRefused ==
  /\ Normal /\ Refuses(git, TheirTip.has)
  /\ Handled(StateCleanup(git), "conflict")
  /\ LET again == inProgress /\ source = TheirTip /\ target = Tip(git)
     IN  StoreMergeMetadata(again => refused)

MergeBranchIntoCurrent ==
  MergeFails \/ UpToDate \/ FastForward \/ MergeClean \/ MergeConflicts \/ MergeRefused

-----------------------------------------------------------------------------
(* The conflict window. *)

Answer == prompt /\ todo = <<>>

\* The answer is refused and the window stays open.
AnswerFails ==
  /\ Answer
  /\ result' = "refused"
  /\ UNCHANGED <<git, pending, asking, prompt, mergeHistory>>

\* continueOp; git_commit_create wants the first parent to be HEAD.
ContinueOp ==
  /\ Answer /\ inProgress /\ ~git.unmerged /\ target = Tip(git)
  /\ git' = MergeCommit(git, target, source)
  /\ ResetMergeState
  /\ prompt' = FALSE /\ result' = "merged"
  /\ mixed' = (mixed \/ refused)
  /\ UNCHANGED <<asking, edited>>

\* abortOp
AbortOp ==
  /\ Answer /\ (inProgress \/ git.op = "merge")
  /\ git' = StateCleanup(git)
  /\ ResetMergeState
  /\ prompt' = FALSE /\ result' = "aborted"
  /\ UNCHANGED <<asking, mergeHistory>>

\* Save, in the dialog of the close button.
SaveAndClose ==
  /\ Answer
  /\ prompt' = FALSE
  /\ UNCHANGED <<git, pending, asking, result, mergeHistory>>

ConflictWindow == AnswerFails \/ ContinueOp \/ AbortOp \/ SaveAndClose

-----------------------------------------------------------------------------
(* The rest of the application. *)

UserStep(g) == git' = g /\ UNCHANGED <<pending, asking, prompt, result, mixed>>

Resolve == todo = <<>> /\ git.unmerged /\ UserStep(Resolved(git)) /\ UNCHANGED edited

Edit(x) ==
  /\ Idle /\ x \notin git.staged \cup Tip(git).has
  /\ edited < MaxUserEdits /\ edited' = edited + 1
  /\ UserStep(Edited(git, x))

StageEdit(x) ==
  Idle /\ x \in git.edits /\ UserStep(EditStaged(git, x)) /\ UNCHANGED edited

UserCommit == Idle /\ CanCommit(git) /\ UserStep(Committed(git)) /\ UNCHANGED edited

Checkout(b) ==
  Idle /\ CanCheckout(git, b) /\ UserStep(CheckedOut(git, b)) /\ UNCHANGED edited

\* The parents of a merge are not on disk, the state of the repository is.
Restart ==
  /\ todo = <<>>
  /\ ResetMergeState
  /\ asked' = <<>> /\ popup' = FALSE /\ prompt' = FALSE /\ result' = "none"
  /\ UNCHANGED <<git, todo, noFF, mergeHistory>>

MergeNext ==
  \/ \E b \in Branch : OpenMethod(b)
  \/ CancelMethod \/ \E withoutFF \in BOOLEAN : AcceptMethod(withoutFF)
  \/ MergeBranchIntoCurrent \/ ConflictWindow
  \/ Resolve \/ UserCommit \/ \E x \in Local : Edit(x) \/ StageEdit(x)
  \/ \E b \in Branch : Checkout(b)
  \/ Restart

MergeSpec == MergeInit /\ [][MergeNext]_mergeVars

-----------------------------------------------------------------------------
(* Properties. *)

\* While the conflict window is open, HEAD is the stored first parent: once
\* the files are resolved git_commit_create accepts the merge commit.
ContinueCanSucceed == Answer /\ inProgress => target = Tip(git)

\* What GitMerge.h says, "Merges the given source branch into the currently
\* checked out branch": a branch holds whatever its history says it includes,
\* and no merge commit lacks the content of a parent, until the parents of a
\* merge that git refused are committed in the place of another's.
MergeTells == mixed \/ \A b \in Branch : Honest(git.tips[b])

\* The merge that waits in the conflict window can still be finished there:
\* nothing done meanwhile makes git refuse the commit of its stored parents
\* (GitMerge.cpp:150-260).
PendingIsSound == MergeTypeOK /\ ContinueCanSucceed
=============================================================================
