---------------------------- MODULE ConflictProofs ----------------------------
(***************************************************************************)
(* Proofs about a merge that may have conflicts: its session, from the     *)
(* call of merge to the commit (MergeSession), and the window in which the *)
(* user edits the files that conflict (ConflictEditor).                    *)
(***************************************************************************)
EXTENDS MergeSession, ConflictEditor, SelectionProofs, FiniteSetTheorems, TLAPS

-----------------------------------------------------------------------------
(***************************************************************************)
(* While the conflict window is open the merge it shows can be committed,  *)
(* and no merge commit says more than it holds, for all branches, changes, *)
(* overlaps and numbers of handlers. The strengthening: as long as the     *)
(* index has conflicts or the window is open, what is stored is a merge    *)
(* into HEAD, and unless git refused that merge its content is staged.     *)
(***************************************************************************)

\* A handler runs under an open window only over the conflicts shown there,
\* and no window is open beside the popup.
OneWindow ==
  /\ prompt /\ todo # <<>> => git.unmerged
  /\ popup => todo = <<>> /\ ~prompt

\* Nothing moves HEAD away from the stored parent while there is a conflict
\* or a window about one.
Stored == inProgress /\ (prompt \/ git.unmerged) => target = Tip(git)

\* What the stored source brings is in the index, if git took it.
JoinedTips ==
  inProgress /\ (prompt \/ git.unmerged) /\ ~refused
    => source.has \subseteq Tip(git).has \cup git.staged

\* Unless content was mixed up before, the stored source holds what it says.
SourceHonest == inProgress /\ ~mixed => Honest(source)

MergeInv == MergeTypeOK /\ OneWindow /\ Stored /\ JoinedTips /\ SourceHonest /\ MergeTells

-----------------------------------------------------------------------------
(* What the calls into the repository leave. *)

LEMMA TipType ==
  ASSUME NEW g \in Repository
  PROVE  Tip(g) \in Commit /\ g.head \in Branch
  BY DEF Repository, Tip

LEMMA MoveTipType ==
  ASSUME NEW g \in Repository, NEW c \in Commit
  PROVE  /\ MoveTip(g, c) \in Repository
         /\ Tip(MoveTip(g, c)) = c
         /\ \A b \in Branch : MoveTip(g, c).tips[b] = IF b = g.head THEN c ELSE g.tips[b]
         /\ MoveTip(g, c).staged = g.staged /\ MoveTip(g, c).unmerged = g.unmerged
  BY DEF Repository, MoveTip, Tip

LEMMA CleanupType ==
  ASSUME NEW g \in Repository
  PROVE  /\ StateCleanup(g) \in Repository
         /\ StateCleanup(g).tips = g.tips /\ Tip(StateCleanup(g)) = Tip(g)
         /\ StateCleanup(g).staged = g.staged /\ StateCleanup(g).unmerged = g.unmerged
  BY DEF Repository, StateCleanup, Tip

LEMMA StageType ==
  ASSUME NEW g \in Repository, NEW changes \in SUBSET Content, NEW clashes \in BOOLEAN
  PROVE  LET s == Stage(g, changes, "merge", clashes)
         IN  /\ s \in Repository
             /\ s.tips = g.tips /\ Tip(s) = Tip(g)
             /\ s.staged = g.staged \cup (changes \ Tip(g).has)
             /\ s.unmerged = clashes
<1>1. Tip(g) \in Commit
  BY TipType
<1> QED BY <1>1 DEF Repository, Stage, Tip, Commit

LEMMA CommitIndexType ==
  ASSUME NEW g \in Repository, NEW says \in SUBSET Content
  PROVE  LET c == [says |-> Tip(g).says \cup says, has |-> Tip(g).has \cup g.staged]
             m == CommitIndex(g, says)
         IN  /\ m \in Repository
             /\ Tip(m) = c
             /\ \A b \in Branch : m.tips[b] = IF b = g.head THEN c ELSE g.tips[b]
             /\ m.staged = {} /\ m.unmerged = g.unmerged
<1> DEFINE c == [says |-> Tip(g).says \cup says, has |-> Tip(g).has \cup g.staged]
           m == MoveTip(g, c)
<1>1. c \in Commit
  BY TipType DEF Commit, Repository
<1>2. /\ m \in Repository /\ Tip(m) = c
      /\ \A b \in Branch : m.tips[b] = IF b = g.head THEN c ELSE g.tips[b]
      /\ m.unmerged = g.unmerged
  BY <1>1, MoveTipType
<1> HIDE DEF c, m
<1>3. CommitIndex(g, says) = [m EXCEPT !.staged = {}]
  BY DEF CommitIndex, c, m
<1>4. LET n == [m EXCEPT !.staged = {}]
      IN  n \in Repository /\ Tip(n) = Tip(m) /\ n.tips = m.tips /\ n.staged = {}
          /\ n.unmerged = m.unmerged
  BY <1>2 DEF Repository, Tip
<1> QED BY <1>2, <1>3, <1>4 DEF c

\* What the user does keeps the branches, but for the commit and the checkout.
LEMMA UserTypes ==
  ASSUME NEW g \in Repository, NEW x \in Local
  PROVE  /\ Edited(g, x) \in Repository /\ EditStaged(g, x) \in Repository
         /\ Resolved(g) \in Repository
         /\ \A h \in {Edited(g, x), EditStaged(g, x), Resolved(g)} :
              h.tips = g.tips /\ Tip(h) = Tip(g) /\ g.staged \subseteq h.staged
         /\ Edited(g, x).unmerged = g.unmerged /\ EditStaged(g, x).unmerged = g.unmerged
         /\ ~Resolved(g).unmerged
  BY DEF Repository, Edited, EditStaged, Resolved, Tip, Content

LEMMA ResolvedType ==
  ASSUME NEW g \in Repository
  PROVE  /\ Resolved(g) \in Repository /\ Resolved(g).tips = g.tips
         /\ Tip(Resolved(g)) = Tip(g) /\ Resolved(g).staged = g.staged
         /\ ~Resolved(g).unmerged
  BY DEF Repository, Resolved, Tip

LEMMA CheckedOutType ==
  ASSUME NEW g \in Repository, NEW b \in Branch
  PROVE  /\ CheckedOut(g, b) \in Repository /\ CheckedOut(g, b).tips = g.tips
         /\ CheckedOut(g, b).unmerged = g.unmerged
  BY DEF Repository, CheckedOut

-----------------------------------------------------------------------------
(* Every step preserves the invariant. *)

LEMMA MergeInitInv == MergeInit => MergeInv
<1> SUFFICES ASSUME MergeInit PROVE MergeInv
  OBVIOUS
<1>1. git \in Repository /\ \A b \in Branch : Honest(git.tips[b])
  BY MergeAssumption DEF MergeInit
<1>2. NoCommit \in Commit
  BY DEF NoCommit, Commit
<1>3. MergeTypeOK
  <2>1. edited \in 0 .. MaxUserEdits
    BY MergeAssumption DEF MergeInit
  <2>2. {asked, todo} \subseteq Seq(Branch) /\ Len(asked) <= MaxHandlers
    BY MergeAssumption DEF MergeInit
  <2>3. {inProgress, popup, noFF, prompt, refused, mixed} \subseteq BOOLEAN
    BY DEF MergeInit
  <2> QED BY <1>1, <1>2, <2>1, <2>2, <2>3 DEF MergeInit, MergeTypeOK
<1>4. OneWindow /\ Stored /\ JoinedTips /\ SourceHonest
  BY DEF MergeInit, OneWindow, Stored, JoinedTips, SourceHonest
<1>5. MergeTells
  BY <1>1 DEF MergeTells
<1> QED BY <1>3, <1>4, <1>5 DEF MergeInv

\* A step of the popup: the repository and the stored merge are left alone.
LEMMA PopupStep ==
  ASSUME MergeInv,
         \/ \E b \in Branch : OpenMethod(b)
         \/ CancelMethod
         \/ \E withoutFF \in BOOLEAN : AcceptMethod(withoutFF)
  PROVE  MergeInv'
<1>1. UNCHANGED <<git, pending, prompt, result, mergeHistory>>
  BY DEF OpenMethod, CancelMethod, AcceptMethod
<1>2. MergeTypeOK'
  <2>1. ASSUME NEW b \in Branch, OpenMethod(b) PROVE MergeTypeOK'
    <3>1. asked' \in Seq(Branch) /\ Len(asked') <= MaxHandlers /\ asked' # <<>>
      BY <2>1, MergeAssumption DEF OpenMethod, MergeInv, MergeTypeOK
    <3> QED BY <1>1, <2>1, <3>1 DEF OpenMethod, MergeInv, MergeTypeOK, pending, mergeHistory
  <2>2. CASE CancelMethod
    BY <1>1, <2>2 DEF CancelMethod, MergeInv, MergeTypeOK, pending, mergeHistory
  <2>3. ASSUME NEW withoutFF \in BOOLEAN, AcceptMethod(withoutFF) PROVE MergeTypeOK'
    <3>1. asked' \in Seq(Branch) /\ Len(asked') <= MaxHandlers
      BY <2>3, MergeAssumption DEF AcceptMethod, MergeInv, MergeTypeOK
    <3> QED BY <1>1, <2>3, <3>1 DEF AcceptMethod, MergeInv, MergeTypeOK, pending, mergeHistory
  <2> QED BY <2>1, <2>2, <2>3
<1>3. OneWindow'
  BY DEF OpenMethod, CancelMethod, AcceptMethod, Idle, MergeInv, OneWindow
<1> QED BY <1>1, <1>2, <1>3 DEF MergeInv, Stored, JoinedTips, SourceHonest, MergeTells, pending, mergeHistory

\* What a handler leaves besides the repository and the stored merge.
LEMMA HandledStep ==
  ASSUME MergeInv, NEW g \in Repository, git.unmerged => g.unmerged,
         NEW r \in {"merged", "failed", "conflict"}, Handled(g, r)
  PROVE  /\ git' = g
         /\ prompt' \/ git'.unmerged <=> g.unmerged
         /\ TheirTip \in Commit /\ TheirTip = git.tips[Head(todo)] /\ Head(todo) \in Branch
         /\ OneWindow'
         /\ inProgress' \in BOOLEAN /\ refused' \in BOOLEAN /\ {source', target'} \subseteq Commit
              => MergeTypeOK'
         /\ UNCHANGED mergeHistory
<1>1. Head(todo) \in Branch /\ Tail(todo) \in Seq(Branch)
  BY DEF Handled, MergeInv, MergeTypeOK
<1>2. TheirTip \in Commit
  BY <1>1 DEF TheirTip, MergeInv, MergeTypeOK, Repository
<1>3. prompt => git.unmerged
  BY DEF Handled, MergeInv, OneWindow
<1>4. ~popup
  BY DEF Handled, MergeInv, OneWindow
<1>5. prompt' \/ git'.unmerged <=> g.unmerged
  BY <1>3 DEF Handled
<1>6. OneWindow'
  BY <1>4, <1>5 DEF Handled, OneWindow
<1>7. g.unmerged \in BOOLEAN
  BY DEF Repository
<1>8. inProgress' \in BOOLEAN /\ refused' \in BOOLEAN /\ {source', target'} \subseteq Commit
        => MergeTypeOK'
  BY <1>1, <1>4, <1>7 DEF Handled, MergeInv, MergeTypeOK, mergeHistory
<1> QED BY <1>1, <1>2, <1>5, <1>6, <1>8 DEF Handled, TheirTip

\* A handler that stores nothing: the conflicts left are the earlier ones.
LEMMA HandledKeeps ==
  ASSUME MergeInv, NEW g \in Repository, NEW r \in {"merged", "failed"}, Handled(g, r),
         git.unmerged => g = git, ~git.unmerged => ~g.unmerged,
         mixed \/ \A b \in Branch : Honest(g.tips[b]),
         UNCHANGED pending \/ ResetMergeState
  PROVE  MergeInv'
<1>1. /\ git' = g /\ (prompt' \/ git'.unmerged <=> g.unmerged) /\ OneWindow'
      /\ inProgress' \in BOOLEAN /\ refused' \in BOOLEAN /\ {source', target'} \subseteq Commit
           => MergeTypeOK'
      /\ UNCHANGED mergeHistory
  BY HandledStep
<1>2. NoCommit \in Commit
  BY DEF NoCommit, Commit
<1>3. MergeTypeOK'
  BY <1>1, <1>2 DEF MergeInv, MergeTypeOK, pending, ResetMergeState
<1>4. g.unmerged => git.unmerged /\ git' = git
  BY <1>1
<1>5. Stored' /\ JoinedTips'
  <2>1. CASE UNCHANGED pending
    BY <1>1, <1>4, <2>1 DEF MergeInv, Stored, JoinedTips, pending
  <2>2. CASE ResetMergeState
    BY <2>2 DEF Stored, JoinedTips, ResetMergeState
  <2> QED BY <2>1, <2>2
<1>6. SourceHonest' /\ MergeTells'
  BY <1>1 DEF MergeInv, SourceHonest, MergeTells, pending, mergeHistory, ResetMergeState
<1> QED BY <1>1, <1>3, <1>5, <1>6 DEF MergeInv

\* A merge that is recorded: its parents are HEAD and the branch asked for.
LEMMA HandledStores ==
  ASSUME MergeInv, NEW g \in Repository, Handled(g, "conflict"), NEW r \in BOOLEAN,
         StoreMergeMetadata(r), git.unmerged => g.unmerged,
         Tip(g) = Tip(git), g.tips = git.tips,
         g.unmerged /\ ~r => TheirTip.has \subseteq Tip(g).has \cup g.staged
  PROVE  MergeInv'
<1>1. /\ git' = g /\ (prompt' \/ git'.unmerged <=> g.unmerged) /\ OneWindow'
      /\ TheirTip \in Commit /\ TheirTip = git.tips[Head(todo)] /\ Head(todo) \in Branch
      /\ inProgress' \in BOOLEAN /\ refused' \in BOOLEAN /\ {source', target'} \subseteq Commit
           => MergeTypeOK'
      /\ UNCHANGED mergeHistory
  BY HandledStep
<1>2. Tip(git) \in Commit
  BY TipType DEF MergeInv, MergeTypeOK
<1>3. MergeTypeOK'
  BY <1>1, <1>2 DEF StoreMergeMetadata
<1>4. Stored' /\ JoinedTips'
  BY <1>1 DEF StoreMergeMetadata, Stored, JoinedTips
<1>5. SourceHonest' /\ MergeTells'
  BY <1>1 DEF StoreMergeMetadata, MergeInv, SourceHonest, MergeTells, mergeHistory
<1> QED BY <1>1, <1>3, <1>4, <1>5 DEF MergeInv

\* A merge commit of HEAD and a commit whose content is in HEAD and the index.
LEMMA MergeCommitHonest ==
  ASSUME NEW g \in Repository, NEW c \in Commit,
         Honest(Tip(g)), c.says \subseteq Tip(g).has \cup g.staged,
         \A b \in Branch : Honest(g.tips[b])
  PROVE  \A b \in Branch : Honest(MergeCommit(g, Tip(g), c).tips[b])
<1> DEFINE says == Tip(g).says \cup c.says
           m == CommitIndex(g, says)
<1>1. says \subseteq Content
  BY TipType DEF Commit
<1>2. /\ m \in Repository
      /\ \A b \in Branch :
           m.tips[b] = IF b = g.head
                         THEN [says |-> Tip(g).says \cup says, has |-> Tip(g).has \cup g.staged]
                         ELSE g.tips[b]
  BY <1>1, CommitIndexType
<1> HIDE DEF m
<1>3. StateCleanup(m).tips = m.tips
  BY <1>2, CleanupType
<1>4. \A b \in Branch : Honest(m.tips[b])
  BY <1>2 DEF Honest
<1> QED BY <1>3, <1>4 DEF MergeCommit, m

LEMMA MergeCommitType ==
  ASSUME NEW g \in Repository, NEW ours \in Commit, NEW theirs \in Commit
  PROVE  /\ MergeCommit(g, ours, theirs) \in Repository
         /\ MergeCommit(g, ours, theirs).unmerged = g.unmerged
<1> DEFINE m == CommitIndex(g, ours.says \cup theirs.says)
<1>1. m \in Repository /\ m.unmerged = g.unmerged
  BY CommitIndexType DEF Commit
<1> QED BY <1>1, CleanupType DEF MergeCommit

-----------------------------------------------------------------------------
LEMMA MergeStep ==
  ASSUME MergeInv, MergeBranchIntoCurrent
  PROVE  MergeInv'
<1>0. git \in Repository /\ Tip(git) \in Commit /\ git.head \in Branch
  BY TipType DEF MergeInv, MergeTypeOK
<1>1. todo # <<>>
  BY DEF MergeBranchIntoCurrent, MergeFails, UpToDate, FastForward, MergeClean, MergeConflicts,
     MergeRefused, Handled, Normal
<1>2. TheirTip \in Commit /\ TheirTip = git.tips[Head(todo)] /\ Head(todo) \in Branch
  <2>1. Head(todo) \in Branch
    BY <1>1 DEF MergeInv, MergeTypeOK
  <2> QED BY <1>0, <2>1 DEF TheirTip, Repository
<1>3. TheirTip.has \subseteq Content /\ TheirTip.says \subseteq Content
  BY <1>2 DEF Commit
<1>4. ~mixed => (\A b \in Branch : Honest(git.tips[b])) /\ Honest(TheirTip) /\ Honest(Tip(git))
  BY <1>0, <1>2 DEF MergeInv, MergeTells, Tip
<1>5. CASE MergeFails
  BY <1>0, <1>5, HandledKeeps DEF MergeFails, MergeInv, MergeTells
<1>6. CASE UpToDate
  BY <1>0, <1>6, HandledKeeps DEF UpToDate, MergeInv, MergeTells
<1>7. CASE FastForward
  <2> DEFINE changes == TheirTip.has \ Tip(git).has
             m == MoveTip(git, TheirTip)
             g == [m EXCEPT !.staged = @ \ changes]
  <2>1. CASE Blocked(git, changes)
    BY <1>0, <1>7, <2>1, HandledKeeps DEF FastForward, MergeInv, MergeTells
  <2>2. CASE ~Blocked(git, changes)
    <3> DEFINE h == [git EXCEPT !.staged = @ \cup changes]
    <3>0. Handled(g, "merged") \/ Handled(h, "failed")
      BY <1>7, <2>2 DEF FastForward
    <3>1. UNCHANGED pending /\ ~git.unmerged
      BY <1>7, <2>2 DEF FastForward, Blocked
    <3>2. /\ m \in Repository /\ m.unmerged = git.unmerged
          /\ \A b \in Branch : m.tips[b] = IF b = git.head THEN TheirTip ELSE git.tips[b]
      BY <1>0, <1>2, MoveTipType
    <3> HIDE DEF m
    <3>3. g \in Repository /\ g.unmerged = git.unmerged /\ g.tips = m.tips
      BY <3>2 DEF Repository
    <3>4. mixed \/ \A b \in Branch : Honest(g.tips[b])
      BY <1>4, <3>2, <3>3
    <3>5. h \in Repository /\ h.unmerged = git.unmerged /\ h.tips = git.tips
      BY <1>0, <1>3 DEF Repository
    <3>6. mixed \/ \A b \in Branch : Honest(h.tips[b])
      BY <1>4, <3>5
    <3> HIDE DEF g, h
    <3> QED BY <3>0, <3>1, <3>3, <3>4, <3>5, <3>6, HandledKeeps
  <2> QED BY <2>1, <2>2
<1>8. CASE MergeClean
  <2> DEFINE g == Stage(git, TheirTip.has, "merge", FALSE)
             m == MergeCommit(g, Tip(g), TheirTip)
  <2>1. /\ g \in Repository /\ g.tips = git.tips /\ Tip(g) = Tip(git) /\ ~g.unmerged
        /\ g.staged = git.staged \cup (TheirTip.has \ Tip(git).has)
    BY <1>0, <1>3, StageType
  <2>2. ~git.unmerged
    BY <1>8 DEF MergeClean, Refuses, Blocked
  <2>3. \/ Handled(m, "merged") /\ ResetMergeState
        \/ Handled(g, "failed") /\ UNCHANGED pending
    BY <1>8 DEF MergeClean
  <2> HIDE DEF g
  <2>4. CASE Handled(g, "failed") /\ UNCHANGED pending
    <3>1. mixed \/ \A b \in Branch : Honest(g.tips[b])
      BY <1>4, <2>1
    <3> QED BY <2>1, <2>2, <2>4, <3>1, HandledKeeps
  <2>5. CASE Handled(m, "merged") /\ ResetMergeState
    <3>1. m \in Repository /\ ~m.unmerged
      BY <1>0, <1>2, <2>1, MergeCommitType
    <3>2. mixed \/ \A b \in Branch : Honest(m.tips[b])
      <4> SUFFICES ASSUME ~mixed PROVE \A b \in Branch : Honest(m.tips[b])
        OBVIOUS
      <4>1. TheirTip.says \subseteq Tip(g).has \cup g.staged
        BY <1>4, <2>1 DEF Honest
      <4> QED BY <1>2, <1>4, <2>1, <4>1, MergeCommitHonest
    <3> HIDE DEF m
    <3> QED BY <2>2, <2>5, <3>1, <3>2, HandledKeeps
  <2> QED BY <2>3, <2>4, <2>5
<1>9. CASE MergeConflicts
  <2> DEFINE g == Stage(git, TheirTip.has, "merge", TRUE)
  <2>1. /\ g \in Repository /\ g.tips = git.tips /\ Tip(g) = Tip(git) /\ g.unmerged
        /\ g.staged = git.staged \cup (TheirTip.has \ Tip(git).has)
    BY <1>0, <1>3, StageType
  <2>2. Handled(g, "conflict") /\ StoreMergeMetadata(FALSE)
    BY <1>9 DEF MergeConflicts
  <2> HIDE DEF g
  <2> QED BY <2>1, <2>2, HandledStores
<1>10. CASE MergeRefused
  <2> DEFINE g == StateCleanup(git)
             again == inProgress /\ source = TheirTip /\ target = Tip(git)
  <2>1. /\ g \in Repository /\ g.tips = git.tips /\ Tip(g) = Tip(git)
        /\ g.unmerged = git.unmerged /\ g.staged = git.staged
    BY <1>0, CleanupType
  <2>2. Handled(g, "conflict") /\ StoreMergeMetadata(again => refused)
    BY <1>10 DEF MergeRefused
  <2>3. g.unmerged /\ ~(again => refused) => TheirTip.has \subseteq Tip(g).has \cup g.staged
    BY <2>1 DEF MergeInv, JoinedTips
  <2> HIDE DEF g
  <2> QED BY <2>1, <2>2, <2>3, HandledStores
<1> QED BY <1>5, <1>6, <1>7, <1>8, <1>9, <1>10 DEF MergeBranchIntoCurrent

\* The answers of the conflict window.
LEMMA WindowStep ==
  ASSUME MergeInv, ConflictWindow
  PROVE  MergeInv'
<1>0. git \in Repository /\ Tip(git) \in Commit /\ NoCommit \in Commit
  BY TipType DEF MergeInv, MergeTypeOK, NoCommit, Commit
<1>1. CASE AnswerFails
  BY <1>1 DEF AnswerFails, MergeInv, MergeTypeOK, OneWindow, Stored, JoinedTips, SourceHonest, MergeTells,
     pending, asking, mergeHistory
<1>2. CASE SaveAndClose
  BY <1>2 DEF SaveAndClose, Answer, MergeInv, MergeTypeOK, OneWindow, Stored, JoinedTips, SourceHonest,
     MergeTells, pending, asking, mergeHistory
<1>3. CASE AbortOp
  <2>1. git' \in Repository /\ git'.tips = git.tips
    BY <1>0, <1>3, CleanupType DEF AbortOp
  <2>2. MergeTypeOK'
    BY <1>0, <1>3, <2>1 DEF AbortOp, ResetMergeState, MergeInv, MergeTypeOK, asking, mergeHistory
  <2> QED BY <1>3, <2>1, <2>2 DEF AbortOp, ResetMergeState, MergeInv, OneWindow, Stored, JoinedTips,
       SourceHonest, MergeTells, asking, mergeHistory
<1>4. CASE ContinueOp
  <2>1. source \in Commit /\ target = Tip(git) /\ git' = MergeCommit(git, Tip(git), source)
    BY <1>4 DEF ContinueOp, MergeInv, MergeTypeOK
  <2>2. git' \in Repository /\ git'.unmerged = git.unmerged
    BY <1>0, <2>1, MergeCommitType
  <2>3. MergeTypeOK'
    BY <1>0, <1>4, <2>2 DEF ContinueOp, ResetMergeState, MergeInv, MergeTypeOK, asking
  <2>4. MergeTells'
    <3> SUFFICES ASSUME ~mixed' PROVE \A b \in Branch : Honest(git'.tips[b])
      BY DEF MergeTells
    <3>1. ~mixed /\ ~refused /\ inProgress /\ prompt
      BY <1>4 DEF ContinueOp, Answer
    <3>2. source.says \subseteq Tip(git).has \cup git.staged
      BY <3>1 DEF MergeInv, JoinedTips, SourceHonest, Honest
    <3>3. (\A b \in Branch : Honest(git.tips[b])) /\ Honest(Tip(git))
      BY <1>0, <3>1, TipType DEF MergeInv, MergeTells, Tip
    <3> QED BY <1>0, <2>1, <3>2, <3>3, MergeCommitHonest
  <2> QED BY <1>4, <2>3, <2>4 DEF ContinueOp, Answer, ResetMergeState, MergeInv, OneWindow, Stored,
       JoinedTips, SourceHonest, asking
<1> QED BY <1>1, <1>2, <1>3, <1>4 DEF ConflictWindow

\* The rest of the application, and a restart.
LEMMA UserSteps ==
  ASSUME MergeInv,
         \/ Resolve \/ UserCommit \/ Restart
         \/ \E x \in Local : Edit(x) \/ StageEdit(x)
         \/ \E b \in Branch : Checkout(b)
  PROVE  MergeInv'
<1>0. git \in Repository /\ Tip(git) \in Commit /\ NoCommit \in Commit
  BY TipType DEF MergeInv, MergeTypeOK, NoCommit, Commit
<1>1. ASSUME NEW g \in Repository, UserStep(g), g.tips = git.tips, Tip(g) = Tip(git),
             git.staged \subseteq g.staged, g.unmerged => git.unmerged,
             edited' \in 0 .. MaxUserEdits, todo = <<>>
      PROVE  MergeInv'
  <2>1. MergeTypeOK'
    BY <1>1 DEF UserStep, MergeInv, MergeTypeOK, pending, asking
  <2> QED BY <1>1, <2>1 DEF UserStep, MergeInv, OneWindow, Stored, JoinedTips, SourceHonest, MergeTells,
       pending, asking
<1>2. CASE Resolve
  BY <1>0, <1>1, <1>2, ResolvedType DEF Resolve, MergeInv, MergeTypeOK
<1>3. ASSUME NEW x \in Local, Edit(x) PROVE MergeInv'
  <2>1. edited' \in 0 .. MaxUserEdits
    BY <1>3, MergeAssumption DEF Edit, MergeInv, MergeTypeOK
  <2> QED BY <1>0, <1>1, <1>3, <2>1, UserTypes DEF Edit, Idle
<1>4. ASSUME NEW x \in Local, StageEdit(x) PROVE MergeInv'
  <2>1. edited' \in 0 .. MaxUserEdits /\ todo = <<>> /\ UserStep(EditStaged(git, x))
    BY <1>4 DEF StageEdit, Idle, MergeInv, MergeTypeOK
  <2> QED BY <1>0, <1>1, <2>1, UserTypes
\* Neither is possible over conflicts, and no window is open.
<1>5. ASSUME NEW g \in Repository, UserStep(g), ~g.unmerged, Idle,
             mixed \/ \A b \in Branch : Honest(g.tips[b]), edited' = edited
      PROVE  MergeInv'
  <2>1. MergeTypeOK'
    BY <1>5 DEF UserStep, MergeInv, MergeTypeOK, pending, asking
  <2> QED BY <1>5, <2>1 DEF UserStep, MergeInv, OneWindow, Stored, JoinedTips, SourceHonest, MergeTells,
       pending, asking, Idle
<1>6. CASE UserCommit
  <2>1. git.staged \subseteq Content /\ ~git.unmerged
    BY <1>0, <1>6 DEF UserCommit, CanCommit, Repository
  <2> DEFINE g == Committed(git)
  <2>2. /\ g \in Repository /\ ~g.unmerged
        /\ \A b \in Branch :
             g.tips[b] = IF b = git.head THEN [says |-> Tip(git).says \cup git.staged,
                                               has |-> Tip(git).has \cup git.staged]
                                         ELSE git.tips[b]
    BY <1>0, <2>1, CommitIndexType DEF Committed
  <2> HIDE DEF g
  <2>3. mixed \/ \A b \in Branch : Honest(g.tips[b])
    BY <1>0, <2>2, TipType DEF MergeInv, MergeTells, Honest, Tip
  <2> QED BY <1>5, <1>6, <2>2, <2>3 DEF UserCommit, g
<1>7. ASSUME NEW b \in Branch, Checkout(b) PROVE MergeInv'
  <2>1. ~git.unmerged
    BY <1>7 DEF Checkout, CanCheckout, Blocked
  <2> DEFINE g == CheckedOut(git, b)
  <2>2. g \in Repository /\ ~g.unmerged /\ g.tips = git.tips
    BY <1>0, <2>1, CheckedOutType
  <2> HIDE DEF g
  <2> QED BY <1>5, <1>7, <2>2 DEF Checkout, g, MergeInv, MergeTells
<1>8. CASE Restart
  <2>1. <<>> \in Seq(Branch) /\ Len(<<>>) <= MaxHandlers
    BY MergeAssumption
  <2>2. MergeTypeOK'
    BY <1>0, <1>8, <2>1 DEF Restart, ResetMergeState, MergeInv, MergeTypeOK, mergeHistory
  <2> QED BY <1>8, <2>2 DEF Restart, ResetMergeState, MergeInv, OneWindow, Stored, JoinedTips,
       SourceHonest, MergeTells, mergeHistory
<1> QED BY <1>2, <1>3, <1>4, <1>6, <1>7, <1>8

LEMMA MergeStepInv == MergeInv /\ [MergeNext]_mergeVars => MergeInv'
<1> SUFFICES ASSUME MergeInv, [MergeNext]_mergeVars PROVE MergeInv'
  OBVIOUS
<1>1. CASE UNCHANGED mergeVars
  BY <1>1 DEF mergeVars, pending, asking, mergeHistory, MergeInv, MergeTypeOK, OneWindow, Stored, JoinedTips,
     SourceHonest, MergeTells
<1> QED BY <1>1, PopupStep, MergeStep, WindowStep, UserSteps DEF MergeNext

LEMMA MergeInductive == MergeSpec => []MergeInv
  BY MergeInitInv, MergeStepInv, PTL DEF MergeSpec

\* The merge that waits in the conflict window can be committed there once
\* its files are resolved: HEAD is still the stored first parent.
THEOREM PendingSound == MergeSpec => []PendingIsSound
<1>1. MergeInv => PendingIsSound
  BY DEF MergeInv, Stored, PendingIsSound, ContinueCanSucceed, Answer
<1> QED BY <1>1, MergeInductive, PTL

\* A branch holds all its history says, unless the parents of a merge that
\* git refused were committed.
THEOREM MergesTell == MergeSpec => []MergeTells
  BY MergeInductive, PTL DEF MergeInv

-----------------------------------------------------------------------------
(***************************************************************************)
(* The window of the conflicts. Its list shows all of what the merge still *)
(* has in conflict, the file it shows is the text the page edits, what is  *)
(* staged has its blocks resolved, and a save rewrites one file; for all   *)
(* files, texts and numbers of files. The strengthening parses what the    *)
(* page shows, block by block, and relates the text of the editor to the   *)
(* file it was read from.                                                  *)
(***************************************************************************)

-----------------------------------------------------------------------------
(* A text whose markers are those of blocks, one after the other. *)

Step(s, line) ==
  CASE Starts(line, Opening) -> IF s = "neutral" THEN "ours" ELSE "odd"
    [] Starts(line, Middle)  -> IF s = "ours" THEN "theirs" ELSE "odd"
    [] Starts(line, Closing) -> IF s = "theirs" THEN "neutral" ELSE "odd"
    [] OTHER -> s

Run(s, lines) ==
  LET run[i \in 0 .. Len(lines)] == IF i = 0 THEN s ELSE Step(run[i - 1], lines[i])
  IN run[Len(lines)]

Even(lines) == Run("neutral", lines) = "neutral"

Marks(lines) == Kept(lines, {line \in Range(lines) : IsMark(line)})

-----------------------------------------------------------------------------
(* The invariant. *)

RowType == {r \in [role : Role, text : Line, block : Nat] : r.block = 0 <=> r.role = "context"}

CacheType(cache) ==
  DOMAIN cache \subseteq File /\ \A p \in DOMAIN cache : cache[p] \in Seq(RowType) /\ cache[p] # <<>>

RepoTypes ==
  /\ operation \in Operations /\ at \in 0 .. Len(operation.stops)
  /\ disk \in [File -> Lines] /\ staged \in [File -> Lines] /\ head \in [File -> Lines]
  /\ unmerged \subseteq File /\ (at = 0 => unmerged = {})

WindowTypes ==
  /\ open \in BOOLEAN
  /\ conflicts \in Seq([path : File, lines : Lines])
  /\ selectedPath \in File \union {None} /\ displayModel \in Seq(RowType)
  /\ CacheType(modifiedFiles)

HistoryTypes ==
  /\ marked \subseteq File /\ behind \subseteq File
  /\ missed \subseteq File /\ overtaken \subseteq {"list", "files"}
  /\ operation.kind = "merge" => overtaken = {}
  /\ "list" \in overtaken => "files" \in overtaken
  /\ DOMAIN mine \subseteq File /\ \A p \in DOMAIN mine : mine[p] \in Lines
  /\ edits \in 0 .. MaxEdits /\ outside \in Nat

Types == RepoTypes /\ WindowTypes /\ HistoryTypes

IsHeld(p) == p = selectedPath \/ p \in DOMAIN modifiedFiles
Held(p) == IF p = selectedPath THEN displayModel ELSE modifiedFiles[p]

\* The conflicts listed are those of the index, as far as they have a file.
Current ==
  /\ \A i \in DOMAIN conflicts :
       conflicts[i].path \in unmerged /\ disk[conflicts[i].path] # <<>>
  /\ \A p \in unmerged \ Listed(conflicts) : disk[p] = <<>> \/ p \in behind

\* A list that was overtaken is of files that were written since.
Windowed ==
  /\ conflicts = <<>> => selectedPath = None /\ displayModel = <<>>
  /\ conflicts # <<>> => selectedPath \in Listed(conflicts) /\ displayModel # <<>>
  /\ \A i \in DOMAIN conflicts :
       /\ conflicts[i].lines # <<>>
       /\ \A j \in DOMAIN conflicts : conflicts[j].path = conflicts[i].path => conflicts[j] = conflicts[i]
  /\ "list" \notin overtaken => Current
  /\ "list" \in overtaken => Listed(conflicts) \subseteq behind

Made(p) == p \in DOMAIN mine /\ p \in unmerged

Mine == \A p \in DOMAIN mine :
          p \in unmerged /\ p \notin missed => IsHeld(p) /\ mine[p] = BuildFullContent(Held(p))

Agrees(p) ==
  /\ IsHeld(p) /\ ~Made(p) /\ p \notin behind /\ p \notin missed => BuildFullContent(Held(p)) = disk[p]
  /\ p \in Listed(conflicts) /\ ~IsHeld(p) /\ p \notin behind => LinesIn(conflicts, p) = disk[p]
  /\ IsHeld(p) /\ operation.kind = "merge" => disk[p] # <<>>

Agreeing == \A p \in File : Agrees(p)

Plain(p) ==
  /\ p \in DOMAIN Stop(operation, at) /\ ~Odd(Stop(operation, at)[p])
  /\ p \notin marked /\ p \notin missed

Resolves(p) ==
  /\ p \notin unmerged => \A i \in DOMAIN staged[p] : ~IsMark(staged[p][i])
  /\ p \in unmerged /\ (open \/ operation.kind = "merge") => Even(disk[p])
  /\ p \in unmerged /\ open /\ p \in Listed(conflicts) => Marks(LinesIn(conflicts, p)) = Marks(disk[p])
  /\ p \in unmerged /\ open /\ IsHeld(p) /\ disk[p] # <<>> => Marks(BuildFullContent(Held(p))) = Marks(disk[p])

Resolving == at > 0 /\ outside = 0 /\ overtaken = {} => \A p \in File : Plain(p) => Resolves(p)

IInv ==
  /\ Types
  /\ open => Windowed /\ Mine /\ Agreeing
  /\ ~open => DOMAIN mine = {}
  /\ Resolving

-----------------------------------------------------------------------------
(* Recursion over numbers, with values in V. *)

Moves(n, V) == [(1 .. n) \X V -> V]

Follows(f, n, V, b, g) ==
  f \in [0 .. n -> V] /\ f[0] = b /\ \A i \in 1 .. n : f[i] = g[<<i, f[i - 1]>>]

\* f and h agree on a number if they agree on the one before.
Stick(f, h, n) == f[0] = h[0] /\ \A i \in 1 .. n : f[i - 1] = h[i - 1] => f[i] = h[i]

LEMMA RecursionExists ==
  ASSUME NEW V, NEW n \in Nat, NEW b \in V, NEW g \in Moves(n, V)
  PROVE  \E f : Follows(f, n, V, b, g)
  <1> DEFINE Good == {m \in Nat : m <= n => \E f \in [0 .. m -> V] :
                        f[0] = b /\ \A i \in 1 .. m : f[i] = g[<<i, f[i - 1]>>]}
  <1>1. 0 \in Good
    <2> DEFINE f == [i \in 0 .. 0 |-> b]
    <2>1. f \in [0 .. 0 -> V] /\ f[0] = b OBVIOUS
    <2>2. \A i \in 1 .. 0 : FALSE OBVIOUS
    <2> HIDE DEF f
    <2> QED BY <2>1, <2>2
  <1>2. ASSUME NEW m \in Nat, m \in Good PROVE m + 1 \in Good
    <2>1. SUFFICES ASSUME m + 1 <= n
                   PROVE \E f \in [0 .. m + 1 -> V] :
                           f[0] = b /\ \A i \in 1 .. m + 1 : f[i] = g[<<i, f[i - 1]>>]
      OBVIOUS
    <2>2. PICK h \in [0 .. m -> V] : h[0] = b /\ \A i \in 1 .. m : h[i] = g[<<i, h[i - 1]>>]
      BY <1>2, <2>1
    <2> DEFINE last == g[<<m + 1, h[m]>>]
               f == [i \in 0 .. m + 1 |-> IF i = m + 1 THEN last ELSE h[i]]
    <2>3. last \in V
      <3>1. m + 1 \in 1 .. n /\ h[m] \in V BY <2>1, <2>2
      <3> QED BY <3>1 DEF Moves
    <2> HIDE DEF last
    <2>4. f \in [0 .. m + 1 -> V] BY <2>2, <2>3
    <2>5. f[m + 1] = last /\ \A i \in 0 .. m : f[i] = h[i] OBVIOUS
    <2> HIDE DEF f
    <2>6. f[0] = b BY <2>2, <2>5
    <2>7. ASSUME NEW i \in 1 .. m + 1 PROVE f[i] = g[<<i, f[i - 1]>>]
      <3>1. CASE i = m + 1
        <4>1. i - 1 = m /\ f[m] = h[m] BY <2>5, <3>1
        <4> QED BY <2>5, <3>1, <4>1 DEF last
      <3>2. CASE i # m + 1
        <4>1. i \in 1 .. m /\ i \in 0 .. m /\ i - 1 \in 0 .. m BY <3>2
        <4> QED BY <2>2, <2>5, <4>1
      <3> QED BY <3>1, <3>2
    <2> QED BY <2>4, <2>6, <2>7
  <1> HIDE DEF Good
  <1>3. n \in Good
    <2>1. Nat \subseteq Good BY <1>1, <1>2, Induction
    <2> QED BY <2>1
  <1> QED BY <1>3 DEF Good, Follows

LEMMA RecursionSame ==
  ASSUME NEW n \in Nat, NEW f, NEW h, Stick(f, h, n)
  PROVE  f[n] = h[n]
  <1> DEFINE Good == {m \in Nat : m <= n => f[m] = h[m]}
  <1>1. 0 \in Good
    BY DEF Stick
  <1>2. ASSUME NEW m \in Nat, m \in Good PROVE m + 1 \in Good
    <2>1. SUFFICES ASSUME m + 1 <= n PROVE f[m + 1] = h[m + 1]
      OBVIOUS
    <2> DEFINE k == m + 1
    <2>2. k \in 1 .. n /\ k - 1 = m /\ m <= n BY <2>1
    <2> HIDE DEF k
    <2>3. f[k] = h[k] BY <1>2, <2>2 DEF Stick
    <2> QED BY <2>3 DEF k
  <1> HIDE DEF Good
  <1>3. n \in Good
    <2>1. Nat \subseteq Good BY <1>1, <1>2, Induction
    <2> QED BY <2>1
  <1> QED BY <1>3 DEF Good

-----------------------------------------------------------------------------
(* A line is at most one of the markers. *)

LEMMA OneMarker ==
  ASSUME NEW line
  PROVE  /\ Starts(line, Opening) => ~Starts(line, Middle) /\ ~Starts(line, Closing)
         /\ Starts(line, Middle) => ~Starts(line, Opening) /\ ~Starts(line, Closing)
         /\ Starts(line, Closing) => ~Starts(line, Opening) /\ ~Starts(line, Middle)
         /\ IsMark(line) <=> Starts(line, Opening) \/ Starts(line, Middle) \/ Starts(line, Closing)
  <1>1. Opening # Middle /\ Opening # Closing /\ Middle # Closing
    BY DEF Opening, Middle, Closing
  <1> QED BY <1>1 DEF Starts, IsMark

-----------------------------------------------------------------------------
(* The run over the lines. *)

State == {"neutral", "ours", "theirs", "odd"}

LEMMA StepType == ASSUME NEW s \in State, NEW line PROVE Step(s, line) \in State
  BY DEF Step, State

Runs(s, lines) ==
  CHOOSE run : run = [i \in 0 .. Len(lines) |-> IF i = 0 THEN s ELSE Step(run[i - 1], lines[i])]

LEMMA RunsIs ==
  ASSUME NEW s \in State, NEW lines \in Lines
  PROVE  LET f == Runs(s, lines) IN
         /\ f \in [0 .. Len(lines) -> State] /\ f[0] = s
         /\ \A i \in 1 .. Len(lines) : f[i] = Step(f[i - 1], lines[i])
         /\ Run(s, lines) = f[Len(lines)]
  <1> DEFINE n == Len(lines)
             Once(f) == [i \in 0 .. n |-> IF i = 0 THEN s ELSE Step(f[i - 1], lines[i])]
             g == [p \in (1 .. n) \X State |-> Step(p[2], lines[p[1]])]
  <1>0. n \in Nat
    BY LenProperties DEF Lines
  <1>1. g \in Moves(n, State)
    BY StepType DEF Moves
  <1>2. \A i \in 1 .. n, v \in State : g[<<i, v>>] = Step(v, lines[i])
    OBVIOUS
  <1> HIDE DEF g, n
  <1>3. PICK f \in [0 .. n -> State] : f[0] = s /\ \A i \in 1 .. n : f[i] = g[<<i, f[i - 1]>>]
    <2>1. \E f : Follows(f, n, State, s, g) BY <1>0, <1>1, RecursionExists
    <2> QED BY <2>1 DEF Follows
  <1>4. \A i \in 1 .. n : f[i] = Step(f[i - 1], lines[i])
    <2> TAKE i \in 1 .. n
    <2>1. f[i - 1] \in State BY <1>0, <1>3
    <2> QED BY <1>2, <1>3, <2>1
  <1>5. \A i \in 0 .. n : i = 0 \/ i \in 1 .. n
    BY <1>0
  <1>6. f = Once(f)
    BY <1>3, <1>4, <1>5
  <1>7. Runs(s, lines) = Once(Runs(s, lines))
    BY <1>6 DEF Runs, n
  <1> DEFINE h == Runs(s, lines)
  <1> HIDE DEF h
  <1>8. h[0] = s /\ \A i \in 1 .. n : h[i] = Step(h[i - 1], lines[i])
    <2>1. h = Once(h) BY <1>7 DEF h
    <2> QED BY <1>0, <2>1
  <1>9. \A i \in 0 .. n : h[i] = f[i]
    <2> TAKE m \in 0 .. n
    <2>1. m \in Nat /\ \A i \in 1 .. m : i \in 1 .. n BY <1>0
    <2>2. Stick(h, f, m) BY <1>3, <1>4, <1>8, <2>1 DEF Stick
    <2> QED BY <2>1, <2>2, RecursionSame
  <1>10. h \in [0 .. n -> State]
    <2>1. h = Once(h) BY <1>7 DEF h
    <2> QED BY <1>3, <1>9, <2>1
  <1>11. Run(s, lines) = h[n]
    BY DEF Run, Runs, h, n
  <1> QED BY <1>8, <1>10, <1>11 DEF h, n

LEMMA RunType == ASSUME NEW s \in State, NEW lines \in Lines PROVE Run(s, lines) \in State
  <1>1. Len(lines) \in 0 .. Len(lines)
    BY LenProperties DEF Lines
  <1> QED BY <1>1, RunsIs

LEMMA RunOfNone == ASSUME NEW s \in State PROVE Run(s, <<>>) = s
  <1>1. <<>> \in Lines /\ Len(<<>>) = 0
    BY EmptySeq DEF Lines
  <1> QED BY <1>1, RunsIs

LEMMA RunOfMore ==
  ASSUME NEW s \in State, NEW lines \in Lines, NEW x \in Line
  PROVE  Run(s, Append(lines, x)) = Step(Run(s, lines), x)
  <1> DEFINE t == Append(lines, x)
             n == Len(lines)
             f == Runs(s, lines)
             h == Runs(s, t)
  <1>0. n \in Nat /\ t \in Lines /\ Len(t) = n + 1 /\ t[n + 1] = x /\ \A i \in 1 .. n : t[i] = lines[i]
    BY AppendProperties, LenProperties DEF Lines
  <1>1. f[0] = s /\ (\A i \in 1 .. n : f[i] = Step(f[i - 1], lines[i])) /\ Run(s, lines) = f[n]
    BY RunsIs
  <1>2. h[0] = s /\ (\A i \in 1 .. n + 1 : h[i] = Step(h[i - 1], t[i])) /\ Run(s, t) = h[n + 1]
    <2> HIDE DEF t
    <2> QED BY <1>0, RunsIs
  <1> HIDE DEF t, n, f, h
  <1>3. h[n] = f[n]
    <2>1. Stick(h, f, n) BY <1>0, <1>1, <1>2 DEF Stick
    <2> QED BY <1>0, <2>1, RecursionSame
  <1>4. h[n + 1] = Step(h[n], x)
    BY <1>0, <1>2
  <1> QED BY <1>1, <1>2, <1>3, <1>4 DEF t

LEMMA RunOfJoined ==
  ASSUME NEW s \in State, NEW a \in Lines, NEW b \in Lines
  PROVE  Run(s, a \o b) = Run(Run(s, a), b)
  <1> DEFINE G == {u \in Lines : Run(s, a \o u) = Run(Run(s, a), u)}
  <1>0. Run(s, a) \in State
    BY RunType
  <1>1. <<>> \in G
    BY <1>0, RunOfNone, ConcatEmptySeq, EmptySeq DEF Lines
  <1>2. ASSUME NEW u \in Lines, NEW x \in Line, u \in G PROVE Append(u, x) \in G
    <2>1. a \o Append(u, x) = Append(a \o u, x) /\ a \o u \in Lines /\ Append(u, x) \in Lines
      BY AppendIsConcat, ConcatAssociative, ConcatProperties, AppendProperties, OneIsSeq DEF Lines
    <2>2. Run(s, Append(a \o u, x)) = Step(Run(s, a \o u), x) BY <2>1, RunOfMore
    <2>3. Run(Run(s, a), Append(u, x)) = Step(Run(Run(s, a), u), x) BY <1>0, RunOfMore
    <2> QED BY <1>2, <2>1, <2>2, <2>3
  <1> HIDE DEF G
  <1>3. Lines \subseteq G
    BY <1>1, <1>2, SeqInduction DEF Lines
  <1> QED BY <1>3 DEF G

LEMMA RunOfOne == ASSUME NEW s \in State, NEW x \in Line PROVE Run(s, <<x>>) = Step(s, x)
  <1>1. <<>> \in Lines /\ Append(<<>>, x) = <<x>>
    BY EmptySeq DEF Lines
  <1> QED BY <1>1, RunOfMore, RunOfNone

-----------------------------------------------------------------------------
(* The parser. *)

Block == [index : Nat, start : Nat, middle : Nat, end : Nat]
Parser == [in : {"neutral", "ours", "theirs"}, index : Nat, start : Nat, middle : Nat, blocks : Seq(Block)]
Begun == [in |-> "neutral", index |-> 0, start |-> 0, middle |-> 0, blocks |-> <<>>]
BlockEnding(s, i) == [index |-> s.index, start |-> s.start, middle |-> s.middle, end |-> i]

LEMMA BegunType == Begun \in Parser
  <1>1. <<>> \in Seq(Block)
    BY EmptySeq
  <1> QED BY <1>1 DEF Begun, Parser

\* What a line does to the parser.
LEMMA ParseLineIs ==
  ASSUME NEW s \in Parser, NEW line, NEW i \in Nat
  PROVE  LET t == ParseLine(line, s, i) IN
         /\ t \in Parser
         /\ Starts(line, Opening) =>
              /\ t.in = "ours" /\ t.start = i /\ t.index = s.index + 1
              /\ t.middle = s.middle /\ t.blocks = s.blocks
         /\ Starts(line, Middle) =>
              /\ t.in = IF s.in = "ours" THEN "theirs" ELSE "neutral"
              /\ t.middle = (IF s.in = "ours" THEN i ELSE s.middle)
              /\ t.start = s.start /\ t.index = s.index /\ t.blocks = s.blocks
         /\ Starts(line, Closing) =>
              /\ t.in = "neutral" /\ t.start = s.start /\ t.middle = s.middle /\ t.index = s.index
              /\ t.blocks = IF s.in = "theirs" THEN Append(s.blocks, BlockEnding(s, i)) ELSE s.blocks
         /\ ~IsMark(line) => t = s
  <1> DEFINE t == ParseLine(line, s, i)
             e == BlockEnding(s, i)
  <1>1. e \in Block
    BY DEF BlockEnding, Block, Parser
  <1>2. Append(s.blocks, e) \in Seq(Block)
    BY <1>1, AppendProperties DEF Parser
  <1>3. CASE Starts(line, Opening)
    <2>1. t = [s EXCEPT !.in = "ours", !.start = i, !.index = @ + 1]
      BY <1>3, OneMarker DEF ParseLine
    <2> HIDE DEF t
    <2>2. /\ t \in Parser /\ t.in = "ours" /\ t.start = i /\ t.index = s.index + 1
          /\ t.middle = s.middle /\ t.blocks = s.blocks
      <3> DEFINE k == s.index + 1
                 u == [s EXCEPT !.in = "ours"]
                 v == [u EXCEPT !.start = i]
      <3>1. k \in Nat BY DEF Parser
      <3>2. t = [v EXCEPT !.index = k] BY <2>1
      <3> HIDE DEF k
      <3>3. u \in Parser /\ u.in = "ours" /\ u.middle = s.middle /\ u.blocks = s.blocks
        BY DEF Parser
      <3> HIDE DEF u
      <3>4. v \in Parser /\ v.in = "ours" /\ v.start = i /\ v.middle = s.middle /\ v.blocks = s.blocks
        BY <3>3 DEF Parser
      <3> HIDE DEF v
      <3>5. /\ t \in Parser /\ t.in = "ours" /\ t.start = i /\ t.index = k
            /\ t.middle = s.middle /\ t.blocks = s.blocks
        BY <3>1, <3>2, <3>4 DEF Parser
      <3> QED BY <3>5 DEF k
    <2> QED BY <1>3, <2>2, OneMarker DEF t
  <1>4. CASE Starts(line, Middle)
    <2>1. t = IF s.in = "ours" THEN [s EXCEPT !.in = "theirs", !.middle = i]
                               ELSE [s EXCEPT !.in = "neutral"]
      BY <1>4, OneMarker DEF ParseLine
    <2> QED BY <1>4, <2>1, OneMarker DEF Parser
  <1>5. CASE Starts(line, Closing)
    <2>1. t = [s EXCEPT !.in = "neutral", !.blocks = IF s.in = "theirs" THEN Append(@, e) ELSE @]
      BY <1>5, OneMarker DEF ParseLine, BlockEnding
    <2> HIDE DEF t, e
    <2>2. t = [s EXCEPT !.in = "neutral", !.blocks = IF s.in = "theirs" THEN Append(s.blocks, e) ELSE s.blocks]
      BY <2>1
    <2> DEFINE more == IF s.in = "theirs" THEN Append(s.blocks, e) ELSE s.blocks
    <2>3. more \in Seq(Block) BY <1>2 DEF Parser
    <2>4. t = [s EXCEPT !.in = "neutral", !.blocks = more] BY <2>2
    <2> HIDE DEF more
    <2>5. /\ t \in Parser /\ t.in = "neutral" /\ t.start = s.start
          /\ t.middle = s.middle /\ t.index = s.index /\ t.blocks = more
      BY <2>3, <2>4 DEF Parser
    <2> QED BY <1>5, <2>5, OneMarker DEF t, e, more
  <1>6. CASE ~IsMark(line)
    BY <1>6, OneMarker DEF ParseLine
  <1> QED BY <1>3, <1>4, <1>5, <1>6, OneMarker

Parses(lines) ==
  CHOOSE after : after = [i \in 0 .. Len(lines) |->
        IF i = 0 THEN [in |-> "neutral", index |-> 0, start |-> 0, middle |-> 0, blocks |-> <<>>]
        ELSE ParseLine(lines[i], after[i - 1], i)]

LEMMA ParsesIs ==
  ASSUME NEW lines \in Lines
  PROVE  LET f == Parses(lines) IN
         /\ f \in [0 .. Len(lines) -> Parser] /\ f[0] = Begun
         /\ \A i \in 1 .. Len(lines) : f[i] = ParseLine(lines[i], f[i - 1], i)
         /\ Parsed(lines) = f[Len(lines)]
  <1> DEFINE n == Len(lines)
             Once(f) == [i \in 0 .. n |-> IF i = 0 THEN Begun ELSE ParseLine(lines[i], f[i - 1], i)]
             g == [p \in (1 .. n) \X Parser |-> ParseLine(lines[p[1]], p[2], p[1])]
  <1>0. n \in Nat /\ Begun \in Parser
    BY LenProperties, BegunType DEF Lines
  <1>1. g \in Moves(n, Parser)
    <2>1. \A p \in (1 .. n) \X Parser : p[1] \in Nat /\ p[2] \in Parser BY <1>0
    <2>2. \A p \in (1 .. n) \X Parser : ParseLine(lines[p[1]], p[2], p[1]) \in Parser
      BY <2>1, ParseLineIs
    <2> QED BY <2>2 DEF Moves
  <1>2. \A i \in 1 .. n, v \in Parser : g[<<i, v>>] = ParseLine(lines[i], v, i)
    OBVIOUS
  <1> HIDE DEF g, n
  <1>3. PICK f \in [0 .. n -> Parser] : f[0] = Begun /\ \A i \in 1 .. n : f[i] = g[<<i, f[i - 1]>>]
    <2>1. \E f : Follows(f, n, Parser, Begun, g) BY <1>0, <1>1, RecursionExists
    <2> QED BY <2>1 DEF Follows
  <1>4. \A i \in 1 .. n : f[i] = ParseLine(lines[i], f[i - 1], i)
    <2> TAKE i \in 1 .. n
    <2>1. f[i - 1] \in Parser BY <1>0, <1>3
    <2> QED BY <1>2, <1>3, <2>1
  <1>5. \A i \in 0 .. n : i = 0 \/ i \in 1 .. n
    BY <1>0
  <1>6. f = Once(f)
    BY <1>3, <1>4, <1>5
  <1>7. Parses(lines) = Once(Parses(lines))
    BY <1>6 DEF Parses, n, Begun
  <1> DEFINE h == Parses(lines)
  <1> HIDE DEF h
  <1>8. h[0] = Begun /\ \A i \in 1 .. n : h[i] = ParseLine(lines[i], h[i - 1], i)
    <2>1. h = Once(h) BY <1>7 DEF h
    <2> QED BY <1>0, <2>1
  <1>9. \A i \in 0 .. n : h[i] = f[i]
    <2> TAKE m \in 0 .. n
    <2>1. m \in Nat /\ \A i \in 1 .. m : i \in 1 .. n BY <1>0
    <2>2. Stick(h, f, m) BY <1>3, <1>4, <1>8, <2>1 DEF Stick
    <2> QED BY <2>1, <2>2, RecursionSame
  <1>10. h \in [0 .. n -> Parser]
    <2>1. h = Once(h) BY <1>7 DEF h
    <2> QED BY <1>3, <1>9, <2>1
  <1>11. Parsed(lines) = h[n]
    BY DEF Parsed, Parses, h, n
  <1> QED BY <1>8, <1>10, <1>11 DEF h, n

LEMMA ParsedType == ASSUME NEW lines \in Lines PROVE Parsed(lines) \in Parser
  <1>1. Len(lines) \in 0 .. Len(lines)
    BY LenProperties DEF Lines
  <1> QED BY <1>1, ParsesIs

LEMMA ParsedOfNone == Parsed(<<>>) = Begun
  <1>1. <<>> \in Lines /\ Len(<<>>) = 0
    BY EmptySeq DEF Lines
  <1> QED BY <1>1, ParsesIs

LEMMA ParsedOfMore ==
  ASSUME NEW lines \in Lines, NEW x \in Line
  PROVE  Parsed(Append(lines, x)) = ParseLine(x, Parsed(lines), Len(lines) + 1)
  <1> DEFINE t == Append(lines, x)
             n == Len(lines)
             f == Parses(lines)
             h == Parses(t)
  <1>0. n \in Nat /\ t \in Lines /\ Len(t) = n + 1 /\ t[n + 1] = x /\ \A i \in 1 .. n : t[i] = lines[i]
    BY AppendProperties, LenProperties DEF Lines
  <1>1. f[0] = Begun /\ (\A i \in 1 .. n : f[i] = ParseLine(lines[i], f[i - 1], i)) /\ Parsed(lines) = f[n]
    BY ParsesIs
  <1>2. /\ h[0] = Begun /\ (\A i \in 1 .. n + 1 : h[i] = ParseLine(t[i], h[i - 1], i))
        /\ Parsed(t) = h[n + 1]
    <2> HIDE DEF t
    <2> QED BY <1>0, ParsesIs
  <1> HIDE DEF t, n, f, h
  <1>3. h[n] = f[n]
    <2>1. Stick(h, f, n) BY <1>0, <1>1, <1>2 DEF Stick
    <2> QED BY <1>0, <2>1, RecursionSame
  <1>4. h[n + 1] = ParseLine(x, h[n], n + 1)
    BY <1>0, <1>2
  <1> QED BY <1>1, <1>2, <1>3, <1>4 DEF t, n

-----------------------------------------------------------------------------
(* Where the parser is, and what it has found. *)

InOurs(l, i) ==
  i \in 1 .. Len(l) /\ Starts(l[i], Opening) /\ \A m \in i + 1 .. Len(l) : ~IsMark(l[m])

InTheirs(l, i, j) ==
  /\ i \in 1 .. Len(l) /\ Starts(l[i], Opening)
  /\ j \in i + 1 .. Len(l) /\ Starts(l[j], Middle)
  /\ \A m \in i + 1 .. Len(l) : m # j => ~IsMark(l[m])

Triple(l, i, j, k) ==
  /\ i \in 1 .. Len(l) /\ Starts(l[i], Opening)
  /\ j \in i + 1 .. Len(l) /\ Starts(l[j], Middle)
  /\ k \in j + 1 .. Len(l) /\ Starts(l[k], Closing)
  /\ \A m \in i + 1 .. k - 1 : m # j => ~IsMark(l[m])

LEMMA InOursOfMore ==
  ASSUME NEW l \in Lines, NEW x \in Line, NEW n, n = Len(l) + 1
  PROVE  \A i : InOurs(Append(l, x), i) <=> \/ i = n /\ Starts(x, Opening)
                                            \/ InOurs(l, i) /\ ~IsMark(x)
  <1> DEFINE t == Append(l, x)
  <1>1. /\ Len(l) \in Nat /\ Len(t) = n /\ n \in Nat /\ n = Len(l) + 1
        /\ t[n] = x /\ \A i \in 1 .. Len(l) : t[i] = l[i]
    BY AppendProperties, LenProperties DEF Lines
  <1> HIDE DEF t
  <1> SUFFICES ASSUME NEW i
               PROVE  InOurs(t, i) <=> \/ i = n /\ Starts(x, Opening)
                                       \/ InOurs(l, i) /\ ~IsMark(x)
    BY DEF t
  <1>2. CASE i = n
    BY <1>1, <1>2 DEF InOurs
  <1>3. CASE i \in 1 .. Len(l)
    <2>1. \A m \in i + 1 .. n : m = n \/ m \in i + 1 .. Len(l) BY <1>1
    <2>2. \A m \in i + 1 .. Len(l) : m \in i + 1 .. n /\ t[m] = l[m] BY <1>1, <1>3
    <2>3. n \in i + 1 .. n /\ t[i] = l[i] /\ i # n /\ i \in 1 .. n BY <1>1, <1>3
    <2>4. (\A m \in i + 1 .. n : ~IsMark(t[m])) <=> (\A m \in i + 1 .. Len(l) : ~IsMark(l[m])) /\ ~IsMark(x)
      BY <1>1, <2>1, <2>2, <2>3
    <2> QED BY <1>1, <1>3, <2>3, <2>4 DEF InOurs
  <1>4. CASE i \notin 1 .. n
    BY <1>1, <1>4 DEF InOurs
  <1> QED BY <1>1, <1>2, <1>3, <1>4

LEMMA InTheirsOfMore ==
  ASSUME NEW l \in Lines, NEW x \in Line, NEW n, n = Len(l) + 1
  PROVE  \A i, j : InTheirs(Append(l, x), i, j) <=> \/ j = n /\ Starts(x, Middle) /\ InOurs(l, i)
                                                    \/ InTheirs(l, i, j) /\ ~IsMark(x)
  <1> DEFINE t == Append(l, x)
  <1>1. /\ Len(l) \in Nat /\ Len(t) = n /\ n \in Nat /\ n = Len(l) + 1
        /\ t[n] = x /\ \A i \in 1 .. Len(l) : t[i] = l[i]
    BY AppendProperties, LenProperties DEF Lines
  <1> HIDE DEF t
  <1> SUFFICES ASSUME NEW i, NEW j
               PROVE  InTheirs(t, i, j) <=> \/ j = n /\ Starts(x, Middle) /\ InOurs(l, i)
                                            \/ InTheirs(l, i, j) /\ ~IsMark(x)
    BY DEF t
  <1>2. CASE i \notin 1 .. Len(l)
    <2>1. ~InTheirs(l, i, j) /\ ~InOurs(l, i) BY <1>2 DEF InTheirs, InOurs
    <2>2. ~InTheirs(t, i, j)
      <3>1. CASE i \notin 1 .. n BY <1>1, <3>1 DEF InTheirs
      <3>2. CASE i = n
        <4>1. j \notin i + 1 .. Len(t) BY <1>1, <3>2
        <4> QED BY <4>1 DEF InTheirs
      <3> QED BY <1>1, <1>2, <3>1, <3>2
    <2> QED BY <2>1, <2>2
  <1>3. CASE i \in 1 .. Len(l)
    <2>1. \A m \in i + 1 .. n : m = n \/ m \in i + 1 .. Len(l) BY <1>1
    <2>2. \A m \in i + 1 .. Len(l) : m \in i + 1 .. n /\ t[m] = l[m] /\ m # n BY <1>1, <1>3
    <2>3. n \in i + 1 .. n /\ t[i] = l[i] /\ i \in 1 .. n BY <1>1, <1>3
    <2>4. CASE j = n
      <3>1. ~InTheirs(l, i, j) BY <1>1, <2>2, <2>4 DEF InTheirs
      <3>2. (\A m \in i + 1 .. n : m # j => ~IsMark(t[m])) <=> (\A m \in i + 1 .. Len(l) : ~IsMark(l[m]))
        BY <2>1, <2>2, <2>4
      <3> QED BY <1>1, <1>3, <2>3, <2>4, <3>1, <3>2 DEF InTheirs, InOurs
    <2>5. CASE j \in i + 1 .. Len(l)
      <3>1. (\A m \in i + 1 .. n : m # j => ~IsMark(t[m]))
              <=> (\A m \in i + 1 .. Len(l) : m # j => ~IsMark(l[m])) /\ ~IsMark(x)
        BY <1>1, <2>1, <2>2, <2>3, <2>5
      <3>2. t[j] = l[j] /\ j # n /\ j \in i + 1 .. n BY <2>2, <2>5
      <3> QED BY <1>1, <1>3, <2>3, <2>5, <3>1, <3>2 DEF InTheirs
    <2>6. CASE j \notin i + 1 .. n
      <3>1. j # n /\ j \notin i + 1 .. Len(l) BY <2>2, <2>3, <2>6
      <3> QED BY <1>1, <2>6, <3>1 DEF InTheirs
    <2> QED BY <2>1, <2>4, <2>5, <2>6
  <1> QED BY <1>2, <1>3

LEMMA TripleOfMore ==
  ASSUME NEW l \in Lines, NEW x \in Line, NEW n, n = Len(l) + 1
  PROVE  \A i, j, k : Triple(Append(l, x), i, j, k) <=> \/ k = n /\ Starts(x, Closing) /\ InTheirs(l, i, j)
                                                        \/ Triple(l, i, j, k)
  <1> DEFINE t == Append(l, x)
  <1>1. /\ Len(l) \in Nat /\ Len(t) = n /\ n \in Nat /\ n = Len(l) + 1
        /\ t[n] = x /\ \A i \in 1 .. Len(l) : t[i] = l[i]
    BY AppendProperties, LenProperties DEF Lines
  <1> HIDE DEF t
  <1> SUFFICES ASSUME NEW i, NEW j, NEW k
               PROVE  Triple(t, i, j, k) <=> \/ k = n /\ Starts(x, Closing) /\ InTheirs(l, i, j)
                                             \/ Triple(l, i, j, k)
    BY DEF t
  <1>2. CASE k = n
    <2>1. ~Triple(l, i, j, k)
      <3> SUFFICES ASSUME Triple(l, i, j, k) PROVE FALSE
        OBVIOUS
      <3>1. i \in Nat /\ j \in Nat /\ k \in j + 1 .. Len(l) BY DEF Triple
      <3> QED BY <1>1, <1>2, <3>1
    <2>2. k - 1 = Len(l) BY <1>1, <1>2
    <2>3. Triple(t, i, j, k) => Starts(x, Closing) /\ InTheirs(l, i, j)
      <3> SUFFICES ASSUME Triple(t, i, j, k) PROVE Starts(x, Closing) /\ InTheirs(l, i, j)
        OBVIOUS
      <3>1. i \in Nat /\ j \in Nat /\ i < j /\ j < k /\ 1 <= i BY <1>1 DEF Triple
      <3>2. i \in 1 .. Len(l) /\ j \in i + 1 .. Len(l) BY <1>1, <1>2, <3>1
      <3>3. \A m \in i + 1 .. Len(l) : t[m] = l[m] BY <1>1, <3>1
      <3>4. t[i] = l[i] /\ t[j] = l[j] BY <1>1, <3>2, <3>3
      <3>5. \A m \in i + 1 .. Len(l) : m # j => ~IsMark(l[m]) BY <2>2, <3>3 DEF Triple
      <3> QED BY <1>1, <1>2, <3>2, <3>4, <3>5 DEF Triple, InTheirs
    <2>4. Starts(x, Closing) /\ InTheirs(l, i, j) => Triple(t, i, j, k)
      <3> SUFFICES ASSUME Starts(x, Closing), InTheirs(l, i, j) PROVE Triple(t, i, j, k)
        OBVIOUS
      <3>1. i \in 1 .. Len(l) /\ j \in i + 1 .. Len(l) BY DEF InTheirs
      <3>2. \A m \in i + 1 .. Len(l) : t[m] = l[m] BY <1>1, <3>1
      <3>3. t[i] = l[i] /\ t[j] = l[j] BY <1>1, <3>1, <3>2
      <3>4. i \in 1 .. Len(t) /\ j \in i + 1 .. Len(t) /\ k \in j + 1 .. Len(t) BY <1>1, <1>2, <3>1
      <3>5. \A m \in i + 1 .. k - 1 : m # j => ~IsMark(t[m]) BY <2>2, <3>2 DEF InTheirs
      <3> QED BY <1>1, <1>2, <3>3, <3>4, <3>5 DEF Triple, InTheirs
    <2> QED BY <1>2, <2>1, <2>3, <2>4
  <1>3. CASE k # n
    <2>1. Triple(t, i, j, k) => Triple(l, i, j, k)
      <3> SUFFICES ASSUME Triple(t, i, j, k) PROVE Triple(l, i, j, k)
        OBVIOUS
      <3>1. i \in Nat /\ j \in Nat /\ k \in Nat /\ i < j /\ j < k /\ 1 <= i /\ k <= Len(l)
        BY <1>1, <1>3 DEF Triple
      <3>2. i \in 1 .. Len(l) /\ j \in i + 1 .. Len(l) /\ k \in j + 1 .. Len(l) BY <1>1, <3>1
      <3>3. t[i] = l[i] /\ t[j] = l[j] /\ t[k] = l[k] BY <1>1, <3>1
      <3>4. \A m \in i + 1 .. k - 1 : t[m] = l[m] BY <1>1, <3>1
      <3> QED BY <3>2, <3>3, <3>4 DEF Triple
    <2>2. Triple(l, i, j, k) => Triple(t, i, j, k)
      <3> SUFFICES ASSUME Triple(l, i, j, k) PROVE Triple(t, i, j, k)
        OBVIOUS
      <3>1. i \in Nat /\ j \in Nat /\ k \in Nat /\ i < j /\ j < k /\ 1 <= i /\ k <= Len(l)
        BY <1>1 DEF Triple
      <3>2. i \in 1 .. Len(t) /\ j \in i + 1 .. Len(t) /\ k \in j + 1 .. Len(t) BY <1>1, <3>1
      <3>3. t[i] = l[i] /\ t[j] = l[j] /\ t[k] = l[k] BY <1>1, <3>1
      <3>4. \A m \in i + 1 .. k - 1 : t[m] = l[m] BY <1>1, <3>1
      <3> QED BY <3>2, <3>3, <3>4 DEF Triple
    <2> QED BY <1>3, <2>1, <2>2
  <1> QED BY <1>2, <1>3

Found(blocks, i, j, k) == \E b \in Range(blocks) : b.start = i /\ b.middle = j /\ b.end = k

IsIn(s, side, i) == s.in = side /\ s.start = i

Parses1(l, s) == \A i : IsIn(s, "ours", i) <=> InOurs(l, i)
Parses2(l, s) == \A i, j : IsIn(s, "theirs", i) /\ s.middle = j <=> InTheirs(l, i, j)
Parses3(l, s) == \A i, j, k : Found(s.blocks, i, j, k) <=> Triple(l, i, j, k)
Numbered(s) == (s.in # "neutral" => s.index >= 1) /\ \A b \in Range(s.blocks) : b.index >= 1

LEMMA RangeOfMore ==
  ASSUME NEW S, NEW s \in Seq(S), NEW x \in S
  PROVE  Range(Append(s, x)) = Range(s) \union {x}
  <1>1. <<x>> \in Seq(S) /\ Range(<<x>>) = {x}
    <2>1. <<x>> \in Seq(S) /\ Len(<<x>>) = 1 /\ <<x>>[1] = x BY OneIsSeq
    <2>2. Range(<<x>>) = {<<x>>[i] : i \in 1 .. 1} BY <2>1, RangeEquality
    <2> QED BY <2>1, <2>2
  <1> DEFINE o == <<x>>
  <1>2. Append(s, x) = s \o o
    BY AppendIsConcat
  <1> HIDE DEF o
  <1>3. o \in Seq(S) /\ Range(o) = {x}
    BY <1>1 DEF o
  <1>4. Range(s \o o) = Range(s) \union Range(o)
    BY <1>3, RangeConcatenation
  <1> QED BY <1>2, <1>3, <1>4

LEMMA RangeOfNone == Range(<<>>) = {}
  <1>1. <<>> \in Seq({}) /\ Len(<<>>) = 0
    BY EmptySeq
  <1>2. \A t \in Seq({}) : Range(t) = {t[i] : i \in 1 .. Len(t)}
    BY RangeEquality
  <1>3. 1 .. 0 = {}
    OBVIOUS
  <1>4. Range(<<>>) = {<<>>[i] : i \in {}}
    BY <1>1, <1>2, <1>3
  <1> QED BY <1>4

LEMMA FoundOfMore ==
  ASSUME NEW bs \in Seq(Block), NEW b \in Block
  PROVE  \A i, j, k : Found(Append(bs, b), i, j, k) <=>
           Found(bs, i, j, k) \/ (b.start = i /\ b.middle = j /\ b.end = k)
  BY RangeOfMore DEF Found

\* Where the parser is, and what it has found, is what there is to find.
LEMMA ParserIsRight ==
  ASSUME NEW lines \in Lines
  PROVE  LET s == Parsed(lines) IN Parses1(lines, s) /\ Parses2(lines, s) /\ Parses3(lines, s) /\ Numbered(s)
  <1> DEFINE Right(l, s) == Parses1(l, s) /\ Parses2(l, s) /\ Parses3(l, s) /\ Numbered(s)
             G == {l \in Lines : Right(l, Parsed(l))}
  <1>1. <<>> \in G
    <2>1. <<>> \in Lines /\ Len(<<>>) = 0 BY EmptySeq DEF Lines
    <2>2. Begun.in = "neutral" /\ Begun.blocks = <<>> BY DEF Begun
    <2>3. \A i, j, k : ~InOurs(<<>>, i) /\ ~InTheirs(<<>>, i, j) /\ ~Triple(<<>>, i, j, k)
      BY <2>1 DEF InOurs, InTheirs, Triple
    <2>4. \A i, j, k : ~Found(<<>>, i, j, k) BY RangeOfNone DEF Found
    <2>5. Right(<<>>, Begun)
      BY <2>2, <2>3, <2>4, RangeOfNone DEF Parses1, Parses2, Parses3, Numbered, IsIn
    <2> QED BY <2>1, <2>5, ParsedOfNone
  <1>2. ASSUME NEW l \in Lines, NEW x \in Line, l \in G PROVE Append(l, x) \in G
    <2> DEFINE t == Append(l, x)
               n == Len(l) + 1
               s == Parsed(l)
               u == Parsed(t)
    <2>1. t \in Lines /\ n \in Nat /\ s \in Parser /\ u = ParseLine(x, s, n)
      BY AppendProperties, LenProperties, ParsedType, ParsedOfMore DEF Lines
    <2>2. Parses1(l, s) /\ Parses2(l, s) /\ Parses3(l, s) /\ Numbered(s)
      BY <1>2
    <2>3. \A i : InOurs(t, i) <=> \/ i = n /\ Starts(x, Opening)
                                  \/ InOurs(l, i) /\ ~IsMark(x)
      BY InOursOfMore
    <2>4. \A i, j : InTheirs(t, i, j) <=> \/ j = n /\ Starts(x, Middle) /\ InOurs(l, i)
                                          \/ InTheirs(l, i, j) /\ ~IsMark(x)
      BY InTheirsOfMore
    <2>5. \A i, j, k : Triple(t, i, j, k) <=> \/ k = n /\ Starts(x, Closing) /\ InTheirs(l, i, j)
                                              \/ Triple(l, i, j, k)
      BY TripleOfMore
    <2> SUFFICES Right(t, u)
      BY <2>1
    <2> HIDE DEF t, n, s, u
    <2>6. CASE Starts(x, Opening)
      <3>1. /\ u.in = "ours" /\ u.start = n /\ u.index = s.index + 1 /\ u.blocks = s.blocks
        BY <2>1, <2>6, ParseLineIs
      <3>2. IsMark(x) /\ ~Starts(x, Middle) /\ ~Starts(x, Closing) BY <2>6, OneMarker
      <3>3. Parses1(t, u) BY <2>3, <2>6, <3>1, <3>2 DEF Parses1, IsIn
      <3>4. Parses2(t, u) BY <2>4, <3>1, <3>2 DEF Parses2, IsIn
      <3>5. Parses3(t, u) BY <2>2, <2>5, <3>1, <3>2 DEF Parses3
      <3>6. Numbered(u) BY <2>1, <2>2, <3>1 DEF Numbered, Parser
      <3> QED BY <3>3, <3>4, <3>5, <3>6
    <2>7. CASE Starts(x, Middle)
      <3>1. /\ u.in = IF s.in = "ours" THEN "theirs" ELSE "neutral"
            /\ u.middle = (IF s.in = "ours" THEN n ELSE s.middle)
            /\ u.start = s.start /\ u.index = s.index /\ u.blocks = s.blocks
        BY <2>1, <2>7, ParseLineIs
      <3>2. IsMark(x) /\ ~Starts(x, Opening) /\ ~Starts(x, Closing) BY <2>7, OneMarker
      <3>3. Parses1(t, u) BY <2>3, <3>1, <3>2 DEF Parses1, IsIn
      <3>4. Parses2(t, u) BY <2>2, <2>4, <2>7, <3>1, <3>2 DEF Parses1, Parses2, IsIn
      <3>5. Parses3(t, u) BY <2>2, <2>5, <3>1, <3>2 DEF Parses3
      <3>6. Numbered(u) BY <2>2, <3>1 DEF Numbered
      <3> QED BY <3>3, <3>4, <3>5, <3>6
    <2>8. CASE Starts(x, Closing)
      <3> DEFINE e == BlockEnding(s, n)
      <3>1. /\ u.in = "neutral"
            /\ u.blocks = IF s.in = "theirs" THEN Append(s.blocks, e) ELSE s.blocks
        BY <2>1, <2>8, ParseLineIs
      <3>2. IsMark(x) /\ ~Starts(x, Middle) /\ ~Starts(x, Opening) BY <2>8, OneMarker
      <3>3. /\ e \in Block /\ e.start = s.start /\ e.middle = s.middle /\ e.end = n /\ e.index = s.index
            /\ s.blocks \in Seq(Block)
        BY <2>1 DEF BlockEnding, Block, Parser
      <3> HIDE DEF e
      <3>4. Parses1(t, u) BY <2>3, <3>1, <3>2 DEF Parses1, IsIn
      <3>5. Parses2(t, u) BY <2>4, <3>1, <3>2 DEF Parses2, IsIn
      <3>6. Parses3(t, u)
        <4>1. CASE s.in = "theirs"
          <5>1. \A i, j, k : Found(u.blocks, i, j, k) <=>
                  Found(s.blocks, i, j, k) \/ (s.start = i /\ s.middle = j /\ k = n)
            BY <3>1, <3>3, <4>1, FoundOfMore
          <5>2. \A i, j : InTheirs(l, i, j) <=> s.start = i /\ s.middle = j
            BY <2>2, <4>1 DEF Parses2, IsIn
          <5>3. \A i, j, k : Found(s.blocks, i, j, k) <=> Triple(l, i, j, k) BY <2>2 DEF Parses3
          <5> QED BY <2>5, <2>8, <5>1, <5>2, <5>3 DEF Parses3
        <4>2. CASE s.in # "theirs"
          <5>1. \A i, j : ~InTheirs(l, i, j) BY <2>2, <4>2 DEF Parses2, IsIn
          <5> QED BY <2>2, <2>5, <3>1, <4>2, <5>1 DEF Parses3
        <4> QED BY <4>1, <4>2
      <3>7. Numbered(u)
        <4>1. CASE s.in = "theirs"
          <5>1. Range(u.blocks) = Range(s.blocks) \union {e} BY <3>1, <3>3, <4>1, RangeOfMore
          <5>2. e.index >= 1 BY <2>2, <3>3, <4>1 DEF Numbered
          <5> QED BY <2>2, <3>1, <5>1, <5>2 DEF Numbered
        <4>2. CASE s.in # "theirs" BY <2>2, <3>1, <4>2 DEF Numbered
        <4> QED BY <4>1, <4>2
      <3> QED BY <3>4, <3>5, <3>6, <3>7
    <2>9. CASE ~IsMark(x)
      <3>1. u = s BY <2>1, <2>9, ParseLineIs
      <3>2. ~Starts(x, Opening) /\ ~Starts(x, Middle) /\ ~Starts(x, Closing) BY <2>9, OneMarker
      <3>3. Parses1(t, u) BY <2>2, <2>3, <2>9, <3>1, <3>2 DEF Parses1
      <3>4. Parses2(t, u) BY <2>2, <2>4, <2>9, <3>1, <3>2 DEF Parses2
      <3>5. Parses3(t, u) BY <2>2, <2>5, <3>1, <3>2 DEF Parses3
      <3> QED BY <2>2, <3>1, <3>3, <3>4, <3>5
    <2> QED BY <2>6, <2>7, <2>8, <2>9, OneMarker
  <1> HIDE DEF G
  <1>3. Lines \subseteq G
    BY <1>1, <1>2, SeqInduction DEF Lines
  <1> QED BY <1>3 DEF G

\* The blocks found in a text are those that are there.
LEMMA ParserFinds ==
  ASSUME NEW lines \in Lines
  PROVE  LET bs == ParseConflictBlocks(lines) IN
         /\ bs \in Seq(Block)
         /\ \A b \in Range(bs) : b \in Block /\ b.index >= 1 /\ Triple(lines, b.start, b.middle, b.end)
         /\ \A i, j, k : Triple(lines, i, j, k) =>
              \E b \in Range(bs) : b.start = i /\ b.middle = j /\ b.end = k
  <1>1. Parsed(lines).blocks \in Seq(Block)
    BY ParsedType DEF Parser
  <1>2. \A b \in Range(Parsed(lines).blocks) : b \in Block
    BY <1>1, RangeOfSeq
  <1>3. Parses3(lines, Parsed(lines)) /\ Numbered(Parsed(lines))
    BY ParserIsRight
  <1> QED BY <1>1, <1>2, <1>3 DEF ParseConflictBlocks, Parses3, Numbered, Found

\* BlocksAreMarked, of one text.
Marked(lines) ==
  LET numbers == DOMAIN lines
      found == Range(ParseConflictBlocks(lines))
  IN  {<<b.start, b.middle, b.end>> : b \in found}
        = {t \in numbers \X numbers \X numbers :
             /\ t[1] < t[2] /\ t[2] < t[3]
             /\ Starts(lines[t[1]], Opening) /\ Starts(lines[t[2]], Middle) /\ Starts(lines[t[3]], Closing)
             /\ \A i \in t[1] + 1 .. t[3] - 1 : i # t[2] => ~IsMark(lines[i])}

LEMMA EveryTextIsMarked == ASSUME NEW lines \in Lines PROVE Marked(lines)
  <1> DEFINE n == Len(lines)
             found == Range(ParseConflictBlocks(lines))
             Is(t) == /\ t[1] < t[2] /\ t[2] < t[3]
                      /\ Starts(lines[t[1]], Opening) /\ Starts(lines[t[2]], Middle) /\ Starts(lines[t[3]], Closing)
                      /\ \A i \in t[1] + 1 .. t[3] - 1 : i # t[2] => ~IsMark(lines[i])
             N == DOMAIN lines
  <1>0. n \in Nat /\ N = 1 .. n
    BY LenProperties DEF Lines
  <1>1. ASSUME NEW i, NEW j, NEW k
        PROVE  Triple(lines, i, j, k) <=> i \in N /\ j \in N /\ k \in N /\ Is(<<i, j, k>>)
    <2>1. ASSUME Triple(lines, i, j, k) PROVE i \in N /\ j \in N /\ k \in N /\ Is(<<i, j, k>>)
      <3>1. i \in 1 .. n /\ j \in i + 1 .. n /\ k \in j + 1 .. n BY <2>1 DEF Triple
      <3>2. i \in N /\ j \in N /\ k \in N /\ i < j /\ j < k BY <1>0, <3>1
      <3> QED BY <2>1, <3>2 DEF Triple
    <2>2. ASSUME i \in N, j \in N, k \in N, Is(<<i, j, k>>) PROVE Triple(lines, i, j, k)
      <3>1. i \in 1 .. n /\ j \in i + 1 .. n /\ k \in j + 1 .. n BY <1>0, <2>2
      <3> QED BY <2>2, <3>1 DEF Triple
    <2> QED BY <2>1, <2>2
  <1>2. \A b \in found : b \in Block /\ Triple(lines, b.start, b.middle, b.end)
    BY ParserFinds
  <1>3. \A i, j, k : Triple(lines, i, j, k) => \E b \in found : b.start = i /\ b.middle = j /\ b.end = k
    BY ParserFinds
  <1> HIDE DEF found, Is, N, n
  <1>4. ASSUME NEW b \in found PROVE <<b.start, b.middle, b.end>> \in {t \in N \X N \X N : Is(t)}
    BY <1>1, <1>2
  <1>5. ASSUME NEW t \in N \X N \X N, Is(t)
        PROVE  t \in {<<b.start, b.middle, b.end>> : b \in found}
    <2>1. PICK i \in N, j \in N, k \in N : t = <<i, j, k>> OBVIOUS
    <2>2. Triple(lines, i, j, k) BY <1>1, <1>5, <2>1
    <2>3. PICK b \in found : b.start = i /\ b.middle = j /\ b.end = k BY <1>3, <2>2
    <2> QED BY <2>1, <2>3
  <1>6. {<<b.start, b.middle, b.end>> : b \in found} = {t \in N \X N \X N : Is(t)}
    BY <1>4, <1>5
  <1> QED BY <1>6 DEF Marked, found, Is, N

-----------------------------------------------------------------------------
(* The run and the parser. *)

Covered(bs, k) == \E b \in Range(bs) : b.start <= k /\ k <= b.end

Free(l, s, k) ==
  k \in 1 .. Len(l) /\ IsMark(l[k]) /\ ~Covered(s.blocks, k) /\ (s.in = "neutral" \/ k < s.start)

Link1(l, s, r) ==
  r # "odd" => /\ r = s.in
               /\ \A k \in 1 .. Len(l) :
                    IsMark(l[k]) => Covered(s.blocks, k) \/ (s.in # "neutral" /\ s.start <= k)
Link2(l, s, r) == r = "odd" => \E k : Free(l, s, k)
Link3(l, s) ==
  /\ s.in # "neutral" =>
       s.start \in 1 .. Len(l) /\ IsMark(l[s.start]) /\ \A b \in Range(s.blocks) : b.end < s.start
  /\ \A b \in Range(s.blocks) : b.end <= Len(l)

LEMMA UncoveredLater ==
  ASSUME NEW l \in Lines, NEW s \in Parser, Link3(l, s), NEW n, n = Len(l) + 1
  PROVE  ~Covered(s.blocks, n) /\ (s.in # "neutral" => ~Covered(s.blocks, s.start))
  <1>1. \A b \in Range(s.blocks) : b.end \in Nat
    <2>1. s.blocks \in Seq(Block) BY DEF Parser
    <2>2. Range(s.blocks) \in SUBSET Block BY <2>1, RangeOfSeq
    <2> QED BY <2>2 DEF Block
  <1>2. Len(l) \in Nat
    BY LenProperties DEF Lines
  <1> QED BY <1>1, <1>2 DEF Covered, Link3, Parser

LEMMA ParserFollows ==
  ASSUME NEW lines \in Lines
  PROVE  LET s == Parsed(lines)
             r == Run("neutral", lines)
         IN  Link1(lines, s, r) /\ Link2(lines, s, r) /\ Link3(lines, s)
  <1> DEFINE Linked(l, s, r) == Link1(l, s, r) /\ Link2(l, s, r) /\ Link3(l, s)
             G == {l \in Lines : Linked(l, Parsed(l), Run("neutral", l))}
  <1>1. <<>> \in G
    <2>1. <<>> \in Lines /\ Len(<<>>) = 0 BY EmptySeq DEF Lines
    <2>2. Begun.in = "neutral" /\ Begun.blocks = <<>> BY DEF Begun
    <2>3. Run("neutral", <<>>) = "neutral" BY RunOfNone DEF State
    <2>4. 1 .. 0 = {} OBVIOUS
    <2>5. Linked(<<>>, Begun, "neutral")
      BY <2>1, <2>2, <2>4, RangeOfNone DEF Link1, Link2, Link3
    <2> QED BY <2>1, <2>3, <2>5, ParsedOfNone
  <1>2. ASSUME NEW l \in Lines, NEW x \in Line, l \in G PROVE Append(l, x) \in G
    <2> DEFINE t == Append(l, x)
               n == Len(l) + 1
               s == Parsed(l)
               u == Parsed(t)
               r == Run("neutral", l)
               v == Run("neutral", t)
    <2>1. /\ t \in Lines /\ n \in Nat /\ s \in Parser /\ u \in Parser /\ u = ParseLine(x, s, n)
          /\ r \in State /\ v = Step(r, x)
      <3>1. t \in Lines BY AppendProperties DEF Lines
      <3>2. "neutral" \in State BY DEF State
      <3>3. n \in Nat BY LenProperties DEF Lines
      <3>4. s \in Parser /\ u \in Parser BY <3>1, ParsedType
      <3>5. r \in State /\ v = Step(r, x) BY <3>2, RunType, RunOfMore
      <3> QED BY <3>1, <3>3, <3>4, <3>5, ParsedOfMore
    <2>2. Link1(l, s, r) /\ Link2(l, s, r) /\ Link3(l, s)
      BY <1>2
    <2>3. /\ Len(l) \in Nat /\ Len(t) = n /\ n = Len(l) + 1 /\ t[n] = x
          /\ \A i \in 1 .. Len(l) : i \in 1 .. n /\ i < n /\ t[i] = l[i]
          /\ n \in 1 .. n /\ \A i \in 1 .. n : i = n \/ i \in 1 .. Len(l)
      BY AppendProperties, LenProperties DEF Lines
    <2>4. ~Covered(s.blocks, n) /\ (s.in # "neutral" => ~Covered(s.blocks, s.start))
      BY <2>1, <2>2, UncoveredLater
    <2>5. s.start \in Nat /\ u.start \in Nat /\ s.in \in {"neutral", "ours", "theirs"} /\ s.blocks \in Seq(Block)
      BY <2>1 DEF Parser
    <2>6. \A b \in Range(s.blocks) : b.end \in Nat
      <3>1. s.blocks \in Seq(Block) BY <2>5
      <3> HIDE DEF s
      <3>2. Range(s.blocks) \in SUBSET Block BY <3>1, RangeOfSeq
      <3> QED BY <3>2 DEF Block
    <2>7. Linked(t, u, v) => Append(l, x) \in G
      BY <2>1
    <2> HIDE DEF t, n, s, u, r, v
    <2>8. CASE Starts(x, Opening)
      <3>1. u.in = "ours" /\ u.start = n /\ u.blocks = s.blocks
        BY <2>1, <2>8, ParseLineIs
      <3>2. v = IF r = "neutral" THEN "ours" ELSE "odd"
        BY <2>1, <2>8, OneMarker DEF Step
      <3>3. IsMark(x) BY <2>8, OneMarker
      <3>4. Link1(t, u, v)
        BY <2>2, <2>3, <3>1, <3>2 DEF Link1
      <3>5. Link2(t, u, v)
        <4>1. CASE r = "neutral" BY <3>2, <4>1 DEF Link2
        <4>2. CASE r # "neutral" /\ r # "odd"
          <5>1. Free(t, u, s.start)
            BY <2>2, <2>3, <2>4, <3>1, <4>2 DEF Link1, Link3, Free
          <5> QED BY <5>1 DEF Link2
        <4>3. CASE r = "odd"
          <5>1. PICK k : Free(l, s, k) BY <2>2, <4>3 DEF Link2
          <5>2. Free(t, u, k) BY <2>3, <3>1, <5>1 DEF Free
          <5> QED BY <5>2 DEF Link2
        <4> QED BY <4>1, <4>2, <4>3
      <3>6. Link3(t, u)
        BY <2>2, <2>3, <2>6, <3>1, <3>3 DEF Link3
      <3> QED BY <2>7, <3>4, <3>5, <3>6
    <2>9. CASE Starts(x, Middle)
      <3>1. /\ u.in = IF s.in = "ours" THEN "theirs" ELSE "neutral"
            /\ u.start = s.start /\ u.blocks = s.blocks
        BY <2>1, <2>9, ParseLineIs
      <3>2. v = IF r = "ours" THEN "theirs" ELSE "odd"
        BY <2>1, <2>9, OneMarker DEF Step
      <3>3. IsMark(x) BY <2>9, OneMarker
      <3>4. Link1(t, u, v)
        <4>1. CASE r = "ours"
          <5>1. s.in = "ours" /\ u.in = "theirs" /\ s.start <= n BY <2>2, <2>3, <3>1, <4>1 DEF Link1, Link3
          <5> QED BY <2>2, <2>3, <3>1, <3>2, <4>1, <5>1 DEF Link1
        <4>2. CASE r # "ours" BY <3>2, <4>2 DEF Link1
        <4> QED BY <4>1, <4>2
      <3>5. Link2(t, u, v)
        <4>1. CASE r = "ours" BY <3>2, <4>1 DEF Link2
        <4>2. CASE r = "neutral"
          <5>1. Free(t, u, n)
            BY <2>2, <2>3, <2>4, <3>1, <3>3, <4>2 DEF Link1, Free
          <5> QED BY <5>1 DEF Link2
        <4>3. CASE r = "theirs"
          <5>1. Free(t, u, s.start)
            BY <2>2, <2>3, <2>4, <3>1, <4>3 DEF Link1, Link3, Free
          <5> QED BY <5>1 DEF Link2
        <4>4. CASE r = "odd"
          <5>1. PICK k : Free(l, s, k) BY <2>2, <4>4 DEF Link2
          <5>2. Free(t, u, k) BY <2>3, <3>1, <5>1 DEF Free
          <5> QED BY <5>2 DEF Link2
        <4> QED BY <2>1, <4>1, <4>2, <4>3, <4>4 DEF State
      <3>6. Link3(t, u)
        BY <2>2, <2>3, <2>6, <3>1 DEF Link3
      <3> QED BY <2>7, <3>4, <3>5, <3>6
    <2>10. CASE Starts(x, Closing)
      <3> DEFINE e == BlockEnding(s, n)
      <3>1. /\ u.in = "neutral" /\ u.start = s.start
            /\ u.blocks = IF s.in = "theirs" THEN Append(s.blocks, e) ELSE s.blocks
        BY <2>1, <2>10, ParseLineIs
      <3>2. v = IF r = "theirs" THEN "neutral" ELSE "odd"
        BY <2>1, <2>10, OneMarker DEF Step
      <3>3. /\ e \in Block /\ e.start = s.start /\ e.end = n
        BY <2>1 DEF BlockEnding, Block, Parser
      <3> HIDE DEF e
      <3>4. IsMark(x) BY <2>10, OneMarker
      <3>5. s.in = "theirs" => Range(u.blocks) = Range(s.blocks) \union {e}
        BY <2>5, <3>1, <3>3, RangeOfMore
      <3>6. s.in = "theirs" => \A k : Covered(u.blocks, k) <=> Covered(s.blocks, k) \/ (s.start <= k /\ k <= n)
        BY <3>3, <3>5 DEF Covered
      <3>7. Link1(t, u, v)
        <4>1. CASE r = "theirs"
          <5>1. s.in = "theirs" /\ s.start <= n BY <2>2, <2>3, <4>1 DEF Link1, Link3
          <5>2. \A k \in 1 .. n : IsMark(t[k]) => Covered(u.blocks, k)
            BY <2>2, <2>3, <3>6, <4>1, <5>1 DEF Link1
          <5> QED BY <2>3, <3>1, <3>2, <4>1, <5>2 DEF Link1
        <4>2. CASE r # "theirs" BY <3>2, <4>2 DEF Link1
        <4> QED BY <4>1, <4>2
      <3>8. Link2(t, u, v)
        <4>1. CASE r = "theirs" BY <3>2, <4>1 DEF Link2
        <4>2. CASE r \in {"neutral", "ours"}
          <5>1. u.blocks = s.blocks BY <2>2, <3>1, <4>2 DEF Link1
          <5>2. Free(t, u, n) BY <2>3, <2>4, <3>1, <3>4, <5>1 DEF Free
          <5> QED BY <5>2 DEF Link2
        <4>3. CASE r = "odd"
          <5>1. PICK k : Free(l, s, k) BY <2>2, <4>3 DEF Link2
          <5>2. Free(t, u, k)
            <6>1. k \in 1 .. n /\ IsMark(t[k]) /\ ~Covered(s.blocks, k) BY <2>3, <5>1 DEF Free
            <6>2. ~Covered(u.blocks, k)
              <7>1. CASE s.in = "theirs"
                <8>1. k < s.start /\ k \in Nat BY <5>1, <7>1 DEF Free
                <8> QED BY <2>5, <3>6, <6>1, <7>1, <8>1
              <7>2. CASE s.in # "theirs" BY <3>1, <6>1, <7>2
              <7> QED BY <7>1, <7>2
            <6> QED BY <2>3, <3>1, <6>1, <6>2 DEF Free
          <5> QED BY <5>2 DEF Link2
        <4> QED BY <2>1, <4>1, <4>2, <4>3 DEF State
      <3>9. Link3(t, u)
        <4>1. CASE s.in = "theirs" BY <2>2, <2>3, <2>6, <3>1, <3>3, <3>5, <4>1 DEF Link3
        <4>2. CASE s.in # "theirs" BY <2>2, <2>3, <2>6, <3>1, <4>2 DEF Link3
        <4> QED BY <4>1, <4>2
      <3> QED BY <2>7, <3>7, <3>8, <3>9
    <2>11. CASE ~IsMark(x)
      <3>1. u = s BY <2>1, <2>11, ParseLineIs
      <3>2. v = r BY <2>1, <2>11, OneMarker DEF Step
      <3>3. Link1(t, u, v) BY <2>2, <2>3, <2>11, <3>1, <3>2 DEF Link1
      <3>4. Link2(t, u, v)
        <4>1. CASE r = "odd"
          <5>1. PICK k : Free(l, s, k) BY <2>2, <4>1 DEF Link2
          <5>2. Free(t, u, k) BY <2>3, <3>1, <5>1 DEF Free
          <5> QED BY <5>2 DEF Link2
        <4>2. CASE r # "odd" BY <3>2, <4>2 DEF Link2
        <4> QED BY <4>1, <4>2
      <3>5. Link3(t, u) BY <2>2, <2>3, <2>6, <3>1 DEF Link3
      <3> QED BY <2>7, <3>3, <3>4, <3>5
    <2> QED BY <2>8, <2>9, <2>10, <2>11, OneMarker
  <1> HIDE DEF G
  <1>3. Lines \subseteq G
    BY <1>1, <1>2, SeqInduction DEF Lines
  <1> QED BY <1>3 DEF G

\* Text without lines that look like markers is even.
LEMMA PlainIsEven == ASSUME NEW lines \in Lines, ~Odd(lines) PROVE Even(lines)
  <1> DEFINE s == Parsed(lines)
             r == Run("neutral", lines)
  <1>1. Link1(lines, s, r) /\ Link2(lines, s, r) /\ Link3(lines, s) /\ s \in Parser
    BY ParserFollows, ParsedType
  <1>2. \A k \in 1 .. Len(lines) : IsMark(lines[k]) => Covered(s.blocks, k)
    <2>1. DOMAIN lines = 1 .. Len(lines) BY LenProperties DEF Lines
    <2> QED BY <2>1 DEF Odd, Covered, BlockOf, ParseConflictBlocks
  <1> HIDE DEF s, r
  <1>3. r # "odd"
    BY <1>1, <1>2 DEF Link2, Free
  <1>4. s.in = "neutral"
    BY <1>1, <1>2, UncoveredLater DEF Link3
  <1>5. r = "neutral"
    BY <1>1, <1>3, <1>4 DEF Link1
  <1> QED BY <1>5 DEF Even, r

\* Even text with a marker has a block.
LEMMA EvenWithoutBlocks ==
  ASSUME NEW lines \in Lines, Even(lines), ParseConflictBlocks(lines) = <<>>
  PROVE  \A k \in 1 .. Len(lines) : ~IsMark(lines[k])
  <1>1. Link1(lines, Parsed(lines), Run("neutral", lines))
    BY ParserFollows
  <1>2. Run("neutral", lines) = "neutral" /\ Parsed(lines).blocks = <<>>
    BY DEF Even, ParseConflictBlocks
  <1>3. \A k : ~Covered(<<>>, k)
    BY RangeOfNone DEF Covered
  <1> QED BY <1>1, <1>2, <1>3 DEF Link1

-----------------------------------------------------------------------------
(* The choice of a side leaves an even text even. *)

LEMMA RunOdd == ASSUME NEW lines \in Lines PROVE Run("odd", lines) = "odd"
  <1> DEFINE G == {u \in Lines : Run("odd", u) = "odd"}
  <1>0. "odd" \in State
    BY DEF State
  <1>1. <<>> \in G
    BY <1>0, RunOfNone, EmptySeq DEF Lines
  <1>2. ASSUME NEW u \in Lines, NEW x \in Line, u \in G PROVE Append(u, x) \in G
    <2>1. Run("odd", Append(u, x)) = Step(Run("odd", u), x) BY <1>0, RunOfMore
    <2>2. Step("odd", x) = "odd" BY OneMarker DEF Step
    <2>3. Append(u, x) \in Lines BY AppendProperties DEF Lines
    <2> QED BY <1>2, <2>1, <2>2, <2>3
  <1> HIDE DEF G
  <1>3. Lines \subseteq G
    BY <1>1, <1>2, SeqInduction DEF Lines
  <1> QED BY <1>3 DEF G

Unmarked(lines) == \A k \in 1 .. Len(lines) : ~IsMark(lines[k])

LEMMA RunOfPlain ==
  ASSUME NEW lines \in Lines, Unmarked(lines)
  PROVE  \A s \in State : Run(s, lines) = s
  <1> DEFINE G == {u \in Lines : Unmarked(u) => \A s \in State : Run(s, u) = s}
  <1>1. <<>> \in G
    BY RunOfNone, EmptySeq DEF Lines
  <1>2. ASSUME NEW u \in Lines, NEW x \in Line, u \in G PROVE Append(u, x) \in G
    <2> DEFINE t == Append(u, x)
    <2>1. /\ t \in Lines /\ Len(u) \in Nat /\ Len(t) = Len(u) + 1 /\ t[Len(u) + 1] = x
          /\ \A i \in 1 .. Len(u) : t[i] = u[i]
      BY AppendProperties, LenProperties DEF Lines
    <2>2. \A s \in State : Run(s, t) = Step(Run(s, u), x) BY RunOfMore
    <2> HIDE DEF t
    <2>3. ASSUME Unmarked(t) PROVE Unmarked(u) /\ ~IsMark(x)
      <3>1. Len(u) + 1 \in 1 .. Len(t) /\ \A i \in 1 .. Len(u) : i \in 1 .. Len(t) BY <2>1
      <3> QED BY <2>1, <2>3, <3>1 DEF Unmarked
    <2>4. ~IsMark(x) => \A s : Step(s, x) = s BY OneMarker DEF Step
    <2>5. Unmarked(t) => \A s \in State : Run(s, t) = s BY <1>2, <2>2, <2>3, <2>4
    <2> QED BY <2>1, <2>5 DEF t
  <1> HIDE DEF G
  <1>3. Lines \subseteq G
    BY <1>1, <1>2, SeqInduction DEF Lines
  <1> QED BY <1>3 DEF G

LEMMA PartType ==
  ASSUME NEW S, NEW s \in Seq(S), NEW m \in Int, NEW n \in Int, 1 <= m, n <= Len(s)
  PROVE  /\ SubSeq(s, m, n) \in Seq(S)
         /\ \A i \in 1 .. Len(SubSeq(s, m, n)) : m + i - 1 \in m .. n /\ SubSeq(s, m, n)[i] = s[m + i - 1]
  <1>0. Len(s) \in Nat
    BY LenProperties
  <1>1. \A i \in m .. n : s[i] \in S
    <2>1. \A i \in m .. n : i \in 1 .. Len(s) BY <1>0
    <2> QED BY <2>1, ElementOfSeq
  <1> DEFINE t == SubSeq(s, m, n)
  <1>2. /\ t \in Seq(S) /\ Len(t) = IF m <= n THEN n - m + 1 ELSE 0
    BY <1>1, SubSeqProperties
  <1>3. \A i \in 1 .. n - m + 1 : t[i] = s[m + i - 1]
    BY <1>1, SubSeqProperties
  <1> HIDE DEF t
  <1>4. \A i \in 1 .. Len(t) : i \in 1 .. n - m + 1 /\ m + i - 1 \in m .. n
    BY <1>2
  <1> QED BY <1>2, <1>3, <1>4 DEF t

\* The run over a text, piece by piece.
LEMMA RunOfParts ==
  ASSUME NEW lines \in Lines, NEW i \in 0 .. Len(lines), NEW j \in i .. Len(lines)
  PROVE  /\ SubSeq(lines, 1, i) \in Lines /\ SubSeq(lines, i + 1, j) \in Lines
         /\ Run("neutral", SubSeq(lines, 1, i)) \in State
         /\ Run("neutral", SubSeq(lines, 1, j))
              = Run(Run("neutral", SubSeq(lines, 1, i)), SubSeq(lines, i + 1, j))
  <1>0. Len(lines) \in Nat /\ "neutral" \in State
    BY LenProperties DEF Lines, State
  <1>1. SubSeq(lines, 1, i) \in Lines /\ SubSeq(lines, i + 1, j) \in Lines
    <2>1. i \in Int /\ j \in Int /\ i + 1 \in Int /\ 1 <= i + 1 /\ i <= Len(lines) /\ j <= Len(lines) BY <1>0
    <2> QED BY <2>1, PartType DEF Lines
  <1>2. SubSeq(lines, 1, i) \o SubSeq(lines, i + 1, j) = SubSeq(lines, 1, j)
    <2>1. 1 \in 1 .. Len(lines) + 1 /\ i \in 1 - 1 .. Len(lines) BY <1>0
    <2> QED BY <2>1, ConcatAdjacentSubSeq DEF Lines
  <1> DEFINE a == SubSeq(lines, 1, i)
             c == SubSeq(lines, i + 1, j)
  <1> HIDE DEF a, c
  <1>3. Run("neutral", a) \in State /\ Run("neutral", a \o c) = Run(Run("neutral", a), c)
    <2>1. a \in Lines /\ c \in Lines BY <1>1 DEF a, c
    <2> QED BY <1>0, <2>1, RunType, RunOfJoined
  <1> QED BY <1>1, <1>2, <1>3 DEF a, c

LEMMA RunOfNext ==
  ASSUME NEW lines \in Lines, NEW i \in 1 .. Len(lines)
  PROVE  Run("neutral", SubSeq(lines, 1, i)) = Step(Run("neutral", SubSeq(lines, 1, i - 1)), lines[i])
  <1>0. Len(lines) \in Nat /\ "neutral" \in State /\ lines[i] \in Line
    BY LenProperties, ElementOfSeq DEF Lines, State
  <1>1. SubSeq(lines, 1, i - 1) \in Lines
    <2>1. i - 1 \in Int /\ i - 1 <= Len(lines) BY <1>0
    <2> QED BY <2>1, PartType DEF Lines
  <1>2. SubSeq(lines, 1, i) = SubSeq(lines, 1, i - 1) \o <<lines[i]>>
    <2>1. 1 \in 1 .. Len(lines) /\ i \in 1 .. Len(lines) BY <1>0
    <2> QED BY <2>1, SubSeqRecursiveSecond DEF Lines
  <1>3. SubSeq(lines, 1, i) = Append(SubSeq(lines, 1, i - 1), lines[i])
    BY <1>0, <1>1, <1>2, AppendIsConcat DEF Lines
  <1> QED BY <1>0, <1>1, <1>3, RunOfMore

Side(s) == s \in Lines /\ Run("neutral", s) = "neutral"

LEMMA JoinedIsSide == ASSUME NEW s, Side(s) PROVE Side(Joined(s))
  <1>1. <<>> \in Lines /\ Run("neutral", <<>>) = "neutral"
    BY RunOfNone, EmptySeq DEF Lines, State
  <1> QED BY <1>1 DEF Side, Joined

LEMMA TwoSides == ASSUME NEW s, NEW t, Side(s), Side(t) PROVE Side(s \o t)
  <1>1. s \o t \in Lines
    BY ConcatProperties DEF Side, Lines
  <1>2. Run("neutral", s \o t) = Run(Run("neutral", s), t)
    BY RunOfJoined DEF Side, State
  <1> QED BY <1>1, <1>2 DEF Side

LEMMA BlankIsSide == Side(<< <<>> >>)
  <1>1. <<>> \in Line /\ << <<>> >> \in Lines
    BY EmptySeq, OneIsSeq DEF Line, Lines
  <1>2. "neutral" \in State /\ ~IsMark(<<>>)
    BY DEF State, IsMark, Starts
  <1>3. Run("neutral", << <<>> >>) = Step("neutral", <<>>)
    BY <1>1, <1>2, RunOfOne
  <1>4. Step("neutral", <<>>) = "neutral"
    BY <1>2, OneMarker DEF Step
  <1> QED BY <1>1, <1>3, <1>4 DEF Side

LEMMA TextIsSide == ASSUME NEW s, Side(s) PROVE Side(Text(s)) /\ Text(s) # <<>>
  <1>1. << <<>> >> # <<>>
    OBVIOUS
  <1> QED BY <1>1, BlankIsSide DEF Text

LEMMA TextType == ASSUME NEW s \in Lines PROVE Text(s) \in Lines /\ Text(s) # <<>>
  <1>1. << <<>> >> # <<>> /\ << <<>> >> \in Lines
    BY BlankIsSide DEF Side
  <1> QED BY <1>1 DEF Text

LEMMA BlockParts ==
  ASSUME NEW lines \in Lines, NEW b \in Range(ParseConflictBlocks(lines))
  PROVE  /\ Ours(lines, b) \in Lines /\ Unmarked(Ours(lines, b))
         /\ Theirs(lines, b) \in Lines /\ Unmarked(Theirs(lines, b))
         /\ SubSeq(lines, 1, b.start - 1) \in Lines /\ SubSeq(lines, b.end + 1, Len(lines)) \in Lines
  <1>1. b \in Block /\ Triple(lines, b.start, b.middle, b.end)
    BY ParserFinds
  <1> DEFINE i == b.start
             j == b.middle
             k == b.end
  <1> HIDE DEF i, j, k
  <1>2. Triple(lines, i, j, k) /\ Len(lines) \in Nat
    BY <1>1, LenProperties DEF i, j, k, Lines
  <1>3. /\ i \in Nat /\ j \in Nat /\ k \in Nat /\ 1 <= i /\ i < j /\ j < k /\ k <= Len(lines)
        /\ \A m \in i + 1 .. k - 1 : m # j => ~IsMark(lines[m])
    BY <1>2 DEF Triple
  <1>4. SubSeq(lines, 1, i - 1) \in Lines /\ SubSeq(lines, k + 1, Len(lines)) \in Lines
    <2>1. i - 1 \in Int /\ i - 1 <= Len(lines) /\ k + 1 \in Int /\ 1 <= k + 1 /\ Len(lines) \in Int
      BY <1>2, <1>3
    <2> QED BY <2>1, PartType DEF Lines
  <1> DEFINE x == SubSeq(lines, i + 1, j - 1)
             y == SubSeq(lines, j + 1, k - 1)
  <1>5. x \in Lines /\ Unmarked(x)
    <2>1. i + 1 \in Int /\ j - 1 \in Int /\ 1 <= i + 1 /\ j - 1 <= Len(lines) BY <1>2, <1>3
    <2>2. x \in Lines /\ \A m \in 1 .. Len(x) : i + 1 + m - 1 \in i + 1 .. j - 1 /\ x[m] = lines[i + 1 + m - 1]
      BY <2>1, PartType DEF Lines
    <2>3. \A m \in i + 1 .. j - 1 : m \in i + 1 .. k - 1 /\ m # j BY <1>3
    <2> HIDE DEF x
    <2> QED BY <1>3, <2>2, <2>3 DEF Unmarked
  <1>6. y \in Lines /\ Unmarked(y)
    <2>1. j + 1 \in Int /\ k - 1 \in Int /\ 1 <= j + 1 /\ k - 1 <= Len(lines) BY <1>2, <1>3
    <2>2. y \in Lines /\ \A m \in 1 .. Len(y) : j + 1 + m - 1 \in j + 1 .. k - 1 /\ y[m] = lines[j + 1 + m - 1]
      BY <2>1, PartType DEF Lines
    <2>3. \A m \in j + 1 .. k - 1 : m \in i + 1 .. k - 1 /\ m # j BY <1>3
    <2> HIDE DEF y
    <2> QED BY <1>3, <2>2, <2>3 DEF Unmarked
  <1> QED BY <1>4, <1>5, <1>6 DEF Ours, Theirs, x, y, i, j, k

Modes == {"ours", "theirs", "both"}

LEMMA ReplaceBlockType ==
  ASSUME NEW lines \in Lines, NEW b \in Range(ParseConflictBlocks(lines)), NEW mode \in Modes
  PROVE  ReplaceBlock(lines, b, mode) \in Lines /\ ReplaceBlock(lines, b, mode) # <<>>
  <1>1. /\ Ours(lines, b) \in Lines /\ Theirs(lines, b) \in Lines
        /\ SubSeq(lines, 1, b.start - 1) \in Lines /\ SubSeq(lines, b.end + 1, Len(lines)) \in Lines
    BY BlockParts
  <1>2. \A s \in Lines, t \in Lines : s \o t \in Lines /\ Joined(s) \in Lines
    BY ConcatProperties, EmptySeq DEF Joined, Lines
  <1>3. Replacement(lines, b, mode) \in Lines
    BY <1>1, <1>2 DEF Replacement, Modes
  <1>4. SubSeq(lines, 1, b.start - 1) \o Replacement(lines, b, mode) \o SubSeq(lines, b.end + 1, Len(lines)) \in Lines
    BY <1>1, <1>2, <1>3
  <1> QED BY <1>4, TextType DEF ReplaceBlock

LEMMA ReplaceBlockIsEven ==
  ASSUME NEW lines \in Lines, Even(lines),
         NEW b \in Range(ParseConflictBlocks(lines)), NEW mode \in Modes
  PROVE  Even(ReplaceBlock(lines, b, mode))
  <1>1. Triple(lines, b.start, b.middle, b.end)
    BY ParserFinds
  <1> DEFINE i == b.start
             j == b.middle
             k == b.end
             n == Len(lines)
             P(m) == Run("neutral", SubSeq(lines, 1, m))
             a == SubSeq(lines, 1, i - 1)
             x == Ours(lines, b)
             y == Theirs(lines, b)
             z == SubSeq(lines, k + 1, n)
  <1>2. /\ i \in Nat /\ j \in Nat /\ k \in Nat /\ n \in Nat /\ 1 <= i /\ i < j /\ j < k /\ k <= n
        /\ Starts(lines[i], Opening) /\ Starts(lines[j], Middle) /\ Starts(lines[k], Closing)
    BY <1>1, LenProperties DEF Triple, Lines
  <1>3. a \in Lines /\ x \in Lines /\ y \in Lines /\ z \in Lines /\ Unmarked(x) /\ Unmarked(y)
    BY BlockParts
  <1>4. \A s \in State : Run(s, x) = s /\ Run(s, y) = s
    BY <1>3, RunOfPlain
  <1> HIDE DEF i, j, k, n
  <1>5. P(i) = Step(P(i - 1), lines[i]) /\ P(j) = Step(P(j - 1), lines[j]) /\ P(k) = Step(P(k - 1), lines[k])
    <2>1. i \in 1 .. n /\ j \in 1 .. n /\ k \in 1 .. n BY <1>2
    <2> QED BY <2>1, RunOfNext DEF n
  <1>6. P(j - 1) = P(i)
    <2>1. i \in 0 .. n /\ j - 1 \in i .. n BY <1>2
    <2>2. P(i) \in State /\ P(j - 1) = Run(P(i), SubSeq(lines, i + 1, j - 1)) BY <2>1, RunOfParts DEF n
    <2>3. x = SubSeq(lines, i + 1, j - 1) BY DEF Ours, i, j
    <2> QED BY <1>4, <2>2, <2>3
  <1>7. P(k - 1) = P(j)
    <2>1. j \in 0 .. n /\ k - 1 \in j .. n BY <1>2
    <2>2. P(j) \in State /\ P(k - 1) = Run(P(j), SubSeq(lines, j + 1, k - 1)) BY <2>1, RunOfParts DEF n
    <2>3. y = SubSeq(lines, j + 1, k - 1) BY DEF Theirs, j, k
    <2> QED BY <1>4, <2>2, <2>3
  <1>8. P(k) \in State /\ P(i - 1) \in State /\ "neutral" = Run(P(k), z)
    <2>1. k \in 0 .. n /\ n \in k .. n /\ i - 1 \in 0 .. n /\ n \in i - 1 .. n BY <1>2
    <2>2. P(k) \in State /\ P(n) = Run(P(k), z) BY <2>1, RunOfParts DEF n
    <2>3. P(i - 1) \in State BY <2>1, RunOfParts DEF n
    <2>4. SubSeq(lines, 1, n) = lines BY SubSeqFull DEF Lines, n
    <2> QED BY <2>2, <2>3, <2>4 DEF Even
  <1> HIDE DEF P, x, y, z, a
  <1>9. P(k) # "odd"
    <2>1. Run("odd", z) = "odd" BY <1>3, RunOdd
    <2> QED BY <1>8, <2>1
  <1>10. P(k - 1) = "theirs" /\ P(k) = "neutral"
    BY <1>2, <1>5, <1>9, OneMarker DEF Step
  <1>11. P(j - 1) = "ours"
    BY <1>2, <1>5, <1>7, <1>10, OneMarker DEF Step
  <1>12. P(i - 1) = "neutral"
    BY <1>2, <1>5, <1>6, <1>11, OneMarker DEF Step
  <1>13. Side(a) /\ Side(z)
    BY <1>3, <1>8, <1>10, <1>12 DEF Side, P, a
  <1>14. Side(x) /\ Side(y)
    BY <1>3, <1>4 DEF Side, State
  <1>15. Side(Replacement(lines, b, mode))
    <2>1. Side(Joined(x)) /\ Side(Joined(y)) /\ Side(Joined(x) \o Joined(y))
      BY <1>14, JoinedIsSide, TwoSides
    <2> QED BY <2>1 DEF Replacement, Modes, x, y
  <1>16. Side(a \o Replacement(lines, b, mode) \o z)
    BY <1>13, <1>15, TwoSides
  <1>17. Side(Text(a \o Replacement(lines, b, mode) \o z))
    BY <1>16, TextIsSide
  <1>18. ReplaceBlock(lines, b, mode) = Text(a \o Replacement(lines, b, mode) \o z)
    BY DEF ReplaceBlock, a, z, i, k, n
  <1> QED BY <1>17, <1>18 DEF Even, Side

-----------------------------------------------------------------------------
(* The lines of rows, and the rows of lines. *)

Lined == {r \in RowType : r.role # "button"}

Texts(rows) == [i \in DOMAIN rows |-> rows[i].text]

LEMMA TextsIs ==
  ASSUME NEW s \in Seq(RowType)
  PROVE  Texts(s) \in Lines /\ Len(Texts(s)) = Len(s) /\ \A i \in 1 .. Len(s) : Texts(s)[i] = s[i].text
  <1>1. Len(s) \in Nat /\ DOMAIN s = 1 .. Len(s) /\ \A i \in 1 .. Len(s) : s[i] \in RowType
    BY LenProperties, ElementOfSeq
  <1>2. \A i \in 1 .. Len(s) : s[i].text \in Line
    BY <1>1 DEF RowType
  <1>3. Texts(s) = [i \in 1 .. Len(s) |-> s[i].text]
    BY <1>1 DEF Texts
  <1>4. Texts(s) \in [1 .. Len(s) -> Line]
    BY <1>2, <1>3
  <1>5. Texts(s) \in Seq(Line)
    BY <1>1, <1>4, SeqDef
  <1>6. Len(Texts(s)) = Len(s)
    <2>1. DOMAIN Texts(s) = 1 .. Len(s) BY <1>3
    <2>2. Len(Texts(s)) \in Nat /\ DOMAIN Texts(s) = 1 .. Len(Texts(s)) BY <1>5, LenProperties
    <2> QED BY <1>1, <2>1, <2>2
  <1> QED BY <1>3, <1>5, <1>6 DEF Lines

LEMMA TextsOfJoined ==
  ASSUME NEW s \in Seq(RowType), NEW t \in Seq(RowType)
  PROVE  Texts(s \o t) = Texts(s) \o Texts(t)
  <1> DEFINE u == s \o t
             a == Texts(s)
             b == Texts(t)
             c == Texts(u)
  <1>1. /\ u \in Seq(RowType) /\ Len(u) = Len(s) + Len(t) /\ Len(s) \in Nat /\ Len(t) \in Nat
        /\ \A i \in 1 .. Len(s) + Len(t) : u[i] = IF i <= Len(s) THEN s[i] ELSE t[i - Len(s)]
    BY ConcatProperties, LenProperties
  <1>2. a \in Lines /\ Len(a) = Len(s) /\ \A i \in 1 .. Len(s) : a[i] = s[i].text
    BY TextsIs
  <1>3. b \in Lines /\ Len(b) = Len(t) /\ \A i \in 1 .. Len(t) : b[i] = t[i].text
    BY TextsIs
  <1> HIDE DEF u, a, b
  <1>4. c \in Lines /\ Len(c) = Len(u) /\ \A i \in 1 .. Len(u) : c[i] = u[i].text
    BY <1>1, TextsIs
  <1> HIDE DEF c
  <1>5. /\ a \o b \in Lines /\ Len(a \o b) = Len(a) + Len(b)
        /\ \A i \in 1 .. Len(a) + Len(b) : (a \o b)[i] = IF i <= Len(a) THEN a[i] ELSE b[i - Len(a)]
    <2>1. a \in Seq(Line) /\ b \in Seq(Line) BY <1>2, <1>3 DEF Lines
    <2> QED BY <2>1, ConcatProperties DEF Lines
  <1>6. \A i \in 1 .. Len(c) : c[i] = (a \o b)[i]
    <2> TAKE i \in 1 .. Len(c)
    <2>0. i \in 1 .. Len(s) + Len(t) BY <1>1, <1>4
    <2>1. CASE i <= Len(s)
      <3>1. i \in 1 .. Len(s) BY <2>0, <2>1
      <3> QED BY <1>1, <1>2, <1>3, <1>4, <1>5, <2>0, <2>1, <3>1
    <2>2. CASE ~(i <= Len(s))
      <3> DEFINE k == i - Len(s)
      <3>1. k \in 1 .. Len(t) BY <1>1, <2>0, <2>2
      <3>2. u[i] = t[k] BY <1>1, <2>0, <2>2
      <3>3. (a \o b)[i] = b[k] BY <1>2, <1>3, <1>5, <2>0, <2>2
      <3> HIDE DEF k
      <3> QED BY <1>1, <1>3, <1>4, <2>0, <3>1, <3>2, <3>3
    <2> QED BY <2>1, <2>2
  <1>7. c = a \o b
    <2>1. Len(c) = Len(a \o b) BY <1>1, <1>2, <1>3, <1>4, <1>5
    <2>2. c \in Seq(Line) /\ a \o b \in Seq(Line) BY <1>4, <1>5 DEF Lines
    <2> QED BY <1>6, <2>1, <2>2, SeqEqual
  <1> QED BY <1>7 DEF a, b, c, u

LEMMA LinesOfIs ==
  ASSUME NEW rows \in Seq(RowType)
  PROVE  /\ LinesOf(rows) = Texts(Kept(rows, Lined)) /\ Kept(rows, Lined) \in Seq(RowType)
         /\ LinesOf(rows) \in Lines
  <1> DEFINE T == {r \in Range(rows) : r.role # "button"}
  <1>1. rows \in Seq(Range(rows)) /\ Range(rows) \in SUBSET RowType
    BY SeqOfRange, RangeOfSeq
  <1>2. \A r \in Range(rows) : r \in T <=> r \in Lined
    BY <1>1 DEF Lined
  <1> HIDE DEF T
  <1>3. Kept(rows, T) = Kept(rows, Lined)
    BY <1>1, <1>2, KeptSame
  <1>4. Kept(rows, Lined) \in Seq(RowType)
    BY KeptType
  <1>5. LinesOf(rows) = Texts(Kept(rows, Lined))
    BY <1>3 DEF LinesOf, Texts, T
  <1> QED BY <1>4, <1>5, TextsIs

LEMMA LinesOfJoined ==
  ASSUME NEW s \in Seq(RowType), NEW t \in Seq(RowType)
  PROVE  LinesOf(s \o t) = LinesOf(s) \o LinesOf(t)
  <1> DEFINE u == s \o t
  <1>1. u \in Seq(RowType)
    BY ConcatProperties
  <1>2. Kept(u, Lined) = Kept(s, Lined) \o Kept(t, Lined)
    BY KeptOfJoined
  <1> HIDE DEF u
  <1>3. LinesOf(u) = Texts(Kept(s, Lined) \o Kept(t, Lined))
    BY <1>1, <1>2, LinesOfIs
  <1>4. Kept(s, Lined) \in Seq(RowType) /\ Kept(t, Lined) \in Seq(RowType)
    BY LinesOfIs
  <1>5. LinesOf(u) = Texts(Kept(s, Lined)) \o Texts(Kept(t, Lined))
    BY <1>3, <1>4, TextsOfJoined
  <1> QED BY <1>5, LinesOfIs DEF u

LEMMA LinesOfNone == LinesOf(<<>>) = <<>>
  <1>1. <<>> \in Seq(RowType) /\ Len(<<>>) = 0
    BY EmptySeq
  <1>2. LinesOf(<<>>) = Texts(<<>>)
    BY <1>1, LinesOfIs, KeptOfNone
  <1>3. Texts(<<>>) \in Seq(Line) /\ Len(Texts(<<>>)) = 0
    BY <1>1, TextsIs DEF Lines
  <1> QED BY <1>2, <1>3, EmptySeq

LEMMA LinesOfOne ==
  ASSUME NEW r \in RowType
  PROVE  LinesOf(<<r>>) = IF r.role = "button" THEN <<>> ELSE <<r.text>>
  <1> DEFINE o == <<r>>
  <1>1. o \in Seq(RowType) /\ Len(o) = 1 /\ o[1] = r
    BY OneIsSeq
  <1>2. Kept(o, Lined) = IF r \in Lined THEN o ELSE <<>>
    BY KeptOfOne
  <1> HIDE DEF o
  <1>3. LinesOf(o) = Texts(Kept(o, Lined))
    BY <1>1, LinesOfIs
  <1>4. CASE r.role = "button"
    <2>1. Kept(o, Lined) = <<>> BY <1>2, <1>4 DEF Lined
    <2>2. LinesOf(o) = LinesOf(<<>>)
      <3>1. LinesOf(<<>>) = Texts(Kept(<<>>, Lined)) BY EmptySeq, LinesOfIs
      <3> QED BY <1>3, <2>1, <3>1, KeptOfNone
    <2> QED BY <1>4, <2>2, LinesOfNone DEF o
  <1>5. CASE r.role # "button"
    <2>1. Kept(o, Lined) = o BY <1>2, <1>5 DEF Lined
    <2>2. Texts(o) \in Seq(Line) /\ Len(Texts(o)) = 1 /\ Texts(o)[1] = r.text
      <3>1. 1 \in 1 .. Len(o) BY <1>1
      <3> QED BY <1>1, <3>1, TextsIs DEF Lines
    <2>3. r.text \in Line BY DEF RowType
    <2>4. <<r.text>> \in Seq(Line) /\ Len(<<r.text>>) = 1 /\ <<r.text>>[1] = r.text BY <2>3, OneIsSeq
    <2>5. Texts(o) = <<r.text>>
      <3>1. \A i \in 1 .. Len(Texts(o)) : i = 1 BY <2>2
      <3> QED BY <2>2, <2>4, <3>1, SeqEqual
    <2> QED BY <1>3, <1>5, <2>1, <2>5 DEF o
  <1> QED BY <1>4, <1>5

LEMMA RoleInIs ==
  ASSUME NEW b \in Block, b.start < b.middle, b.middle < b.end, NEW i \in b.start .. b.end
  PROVE  RoleIn(b, i) = IF i = b.start THEN "marker-start"
                        ELSE IF i < b.middle THEN "ours"
                        ELSE IF i = b.middle THEN "separator"
                        ELSE IF i < b.end THEN "theirs" ELSE "marker-end"
  <1>0. b.start \in Nat /\ b.middle \in Nat /\ b.end \in Nat
    BY DEF Block
  <1>1. CASE i = b.start
    <2>1. ~(b.start < i) /\ i # b.middle /\ ~(b.middle < i) /\ i # b.end BY <1>0, <1>1
    <2> QED BY <1>1, <2>1 DEF RoleIn
  <1>2. CASE b.start < i /\ i < b.middle
    <2>1. i # b.start /\ i # b.middle /\ ~(b.middle < i) /\ i # b.end BY <1>0, <1>2
    <2> QED BY <1>2, <2>1 DEF RoleIn
  <1>3. CASE i = b.middle
    <2>1. i # b.start /\ ~(i < b.middle) /\ ~(b.middle < i) /\ i # b.end BY <1>0, <1>3
    <2> QED BY <1>3, <2>1 DEF RoleIn
  <1>4. CASE b.middle < i /\ i < b.end
    <2>1. i # b.start /\ ~(i < b.middle) /\ i # b.middle /\ i # b.end BY <1>0, <1>4
    <2> QED BY <1>4, <2>1 DEF RoleIn
  <1>5. CASE i = b.end
    <2>1. i # b.start /\ ~(i < b.middle) /\ i # b.middle /\ ~(i < b.end) BY <1>0, <1>5
    <2> QED BY <1>5, <2>1 DEF RoleIn
  <1> QED BY <1>0, <1>1, <1>2, <1>3, <1>4, <1>5

LEMMA RowsAtIs ==
  ASSUME NEW lines \in Lines, NEW i \in 1 .. Len(lines)
  PROVE  LET t == RowsAt(lines, ParseConflictBlocks(lines), i) IN
         t \in Seq(RowType) /\ LinesOf(t) = << lines[i] >>
  <1> DEFINE bs == ParseConflictBlocks(lines)
             t == RowsAt(lines, bs, i)
  <1>0. lines[i] \in Line /\ <<>> \in Line
    BY ElementOfSeq, EmptySeq DEF Lines, Line
  <1>1. \A b \in Range(bs) : b.index \in Nat /\ b.index # 0
    <2>1. \A b \in Range(bs) : b \in Block /\ b.index >= 1 BY ParserFinds
    <2> QED BY <2>1 DEF Block
  <1>4. \A b \in Range(bs) : b \in Block /\ b.start < b.middle /\ b.middle < b.end
    <2>1. \A b \in Range(bs) : b \in Block /\ Triple(lines, b.start, b.middle, b.end) BY ParserFinds
    <2>2. Len(lines) \in Nat BY LenProperties DEF Lines
    <2> HIDE DEF bs
    <2> QED BY <2>1, <2>2 DEF Block, Triple
  <1> HIDE DEF bs
  <1>2. CASE BlockOf(bs, i) = {}
    <2> DEFINE r == Row("context", lines[i], 0)
    <2>1. t = <<r>> BY <1>2 DEF RowsAt
    <2>2. r \in RowType /\ r.role # "button" /\ r.text = lines[i] BY <1>0 DEF Row, RowType, Role
    <2> HIDE DEF r
    <2>3. <<r>> \in Seq(RowType) BY <2>2, OneIsSeq
    <2>4. LinesOf(<<r>>) = <<lines[i]>> BY <2>2, LinesOfOne
    <2> QED BY <2>1, <2>3, <2>4 DEF bs
  <1>3. CASE BlockOf(bs, i) # {}
    <2> DEFINE b == CHOOSE b \in BlockOf(bs, i) : TRUE
               q == Row("button", <<>>, b.index)
               r == Row(RoleIn(b, i), lines[i], b.index)
               h == IF i = b.start THEN <<q>> ELSE <<>>
    <2>1. b.index \in Nat /\ b.index # 0 BY <1>1, <1>3 DEF BlockOf
    <2>7. b \in Block /\ b.start < b.middle /\ b.middle < b.end /\ i \in b.start .. b.end
      <3>1. b \in Range(bs) /\ b.start <= i /\ i <= b.end BY <1>3 DEF BlockOf
      <3> QED BY <1>4, <3>1 DEF Block
    <2>2. t = h \o <<r>> BY <1>3 DEF RowsAt
    <2> HIDE DEF b
    <2>3. q \in RowType /\ q.role = "button" BY <1>0, <2>1 DEF Row, RowType, Role
    <2>4. r \in RowType /\ r.role # "button" /\ r.text = lines[i]
      <3>1. RoleIn(b, i) \in Role \ {"button", "context"} BY <2>7, RoleInIs DEF Role
      <3> QED BY <1>0, <2>1, <3>1 DEF Row, RowType
    <2> HIDE DEF q, r
    <2>5. <<r>> \in Seq(RowType) /\ LinesOf(<<r>>) = <<lines[i]>> BY <2>4, OneIsSeq, LinesOfOne
    <2>6. h \in Seq(RowType) /\ LinesOf(h) = <<>>
      <3>1. <<q>> \in Seq(RowType) /\ LinesOf(<<q>>) = <<>> BY <2>3, OneIsSeq, LinesOfOne
      <3> QED BY <3>1, LinesOfNone, EmptySeq
    <2> HIDE DEF h
    <2>9. h \o <<r>> \in Seq(RowType) /\ LinesOf(h \o <<r>>) = <<>> \o <<lines[i]>>
      <3> DEFINE o == <<r>>
      <3>1. o \in Seq(RowType) /\ LinesOf(o) = <<lines[i]>> BY <2>5
      <3> HIDE DEF o
      <3>2. h \o o \in Seq(RowType) /\ LinesOf(h \o o) = LinesOf(h) \o LinesOf(o)
        BY <2>6, <3>1, ConcatProperties, LinesOfJoined
      <3> QED BY <2>6, <3>1, <3>2 DEF o
    <2>8. <<>> \o <<lines[i]>> = <<lines[i]>> BY <1>0, OneIsSeq, ConcatEmptySeq
    <2> QED BY <2>2, <2>8, <2>9 DEF bs
  <1> QED BY <1>2, <1>3

Builds(lines) ==
  CHOOSE rows : rows = [i \in 0 .. Len(lines) |->
    IF i = 0 THEN <<>> ELSE rows[i - 1] \o RowsAt(lines, ParseConflictBlocks(lines), i)]

LEMMA BuildsIs ==
  ASSUME NEW lines \in Lines
  PROVE  LET f == Builds(lines) IN
         /\ f \in [0 .. Len(lines) -> Seq(RowType)] /\ f[0] = <<>>
         /\ \A i \in 1 .. Len(lines) : f[i] = f[i - 1] \o RowsAt(lines, ParseConflictBlocks(lines), i)
         /\ Rows(lines) = f[Len(lines)]
  <1> DEFINE n == Len(lines)
             V == Seq(RowType)
             At(i) == RowsAt(lines, ParseConflictBlocks(lines), i)
             Once(f) == [i \in 0 .. n |-> IF i = 0 THEN <<>> ELSE f[i - 1] \o At(i)]
             g == [p \in (1 .. n) \X V |-> p[2] \o At(p[1])]
  <1>0. n \in Nat /\ <<>> \in V
    BY LenProperties, EmptySeq DEF Lines
  <1>1. g \in Moves(n, V)
    <2>1. \A i \in 1 .. n : At(i) \in V BY RowsAtIs
    <2> HIDE DEF At
    <2>2. \A p \in (1 .. n) \X V : p[1] \in 1 .. n /\ p[2] \in V OBVIOUS
    <2>3. \A p \in (1 .. n) \X V : p[2] \o At(p[1]) \in V BY <2>1, <2>2, ConcatProperties
    <2> QED BY <2>3 DEF Moves
  <1>2. \A i \in 1 .. n, v \in V : g[<<i, v>>] = v \o At(i)
    OBVIOUS
  <1> HIDE DEF g, n, V, At
  <1>3. PICK f \in [0 .. n -> V] : f[0] = <<>> /\ \A i \in 1 .. n : f[i] = g[<<i, f[i - 1]>>]
    <2>1. \E f : Follows(f, n, V, <<>>, g) BY <1>0, <1>1, RecursionExists
    <2> QED BY <2>1 DEF Follows
  <1>4. \A i \in 1 .. n : f[i] = f[i - 1] \o At(i)
    <2> TAKE i \in 1 .. n
    <2>1. f[i - 1] \in V BY <1>0, <1>3
    <2> QED BY <1>2, <1>3, <2>1
  <1>5. \A i \in 0 .. n : i = 0 \/ i \in 1 .. n
    BY <1>0
  <1>6. f = Once(f)
    BY <1>3, <1>4, <1>5
  <1>7. Builds(lines) = Once(Builds(lines))
    BY <1>6 DEF Builds, n, At
  <1> DEFINE h == Builds(lines)
  <1> HIDE DEF h
  <1>8. h[0] = <<>> /\ \A i \in 1 .. n : h[i] = h[i - 1] \o At(i)
    <2>1. h = Once(h) BY <1>7 DEF h
    <2>2. 0 \in 0 .. n /\ \A i \in 1 .. n : i \in 0 .. n /\ i # 0 BY <1>0
    <2>3. \A i \in 0 .. n : h[i] = IF i = 0 THEN <<>> ELSE h[i - 1] \o At(i) BY <2>1, Zenon
    <2> QED BY <2>2, <2>3
  <1>9. \A i \in 0 .. n : h[i] = f[i]
    <2> TAKE m \in 0 .. n
    <2>1. m \in Nat /\ \A i \in 1 .. m : i \in 1 .. n BY <1>0
    <2>2. Stick(h, f, m) BY <1>3, <1>4, <1>8, <2>1 DEF Stick
    <2> QED BY <2>1, <2>2, RecursionSame
  <1>10. h \in [0 .. n -> V]
    <2>1. h = Once(h) BY <1>7 DEF h
    <2> QED BY <1>3, <1>9, <2>1
  <1>11. Rows(lines) = h[n]
    BY DEF Rows, Builds, h, n
  <1> QED BY <1>8, <1>10, <1>11 DEF h, n, V, At

\* The rows of a text are written as that text.
LEMMA RowsAreLines ==
  ASSUME NEW lines \in Lines
  PROVE  Rows(lines) \in Seq(RowType) /\ LinesOf(Rows(lines)) = lines
  <1> DEFINE n == Len(lines)
             f == Builds(lines)
             Good == {m \in Nat : m <= n => LinesOf(f[m]) = SubSeq(lines, 1, m)}
  <1>0. n \in Nat
    BY LenProperties DEF Lines
  <1>1. /\ f \in [0 .. n -> Seq(RowType)] /\ f[0] = <<>>
        /\ \A i \in 1 .. n : f[i] = f[i - 1] \o RowsAt(lines, ParseConflictBlocks(lines), i)
        /\ Rows(lines) = f[n]
    BY BuildsIs
  <1> HIDE DEF f, n
  <1>2. 0 \in Good
    <2>1. SubSeq(lines, 1, 0) = <<>> BY SubSeqEmpty
    <2> QED BY <1>1, <2>1, LinesOfNone
  <1>3. ASSUME NEW m \in Nat, m \in Good PROVE m + 1 \in Good
    <2> SUFFICES ASSUME m + 1 <= n PROVE LinesOf(f[m + 1]) = SubSeq(lines, 1, m + 1)
      OBVIOUS
    <2> DEFINE k == m + 1
               t == RowsAt(lines, ParseConflictBlocks(lines), k)
    <2>1. k \in 1 .. n /\ k - 1 = m /\ m \in 0 .. n BY <1>0
    <2>2. t \in Seq(RowType) /\ LinesOf(t) = <<lines[k]>> BY <2>1, RowsAtIs DEF n
    <2> HIDE DEF k, t
    <2>3. f[k] = f[m] \o t /\ f[m] \in Seq(RowType) BY <1>1, <2>1 DEF t
    <2>4. LinesOf(f[k]) = LinesOf(f[m]) \o <<lines[k]>> BY <2>2, <2>3, LinesOfJoined
    <2>5. LinesOf(f[m]) = SubSeq(lines, 1, m) BY <1>3, <1>0, <2>1
    <2>6. SubSeq(lines, 1, k) = SubSeq(lines, 1, k - 1) \o <<lines[k]>>
      <3>1. 1 \in 1 .. n /\ k \in 1 .. n BY <1>0, <2>1
      <3> QED BY <3>1, SubSeqRecursiveSecond DEF Lines, n
    <2>7. LinesOf(f[k]) = SubSeq(lines, 1, k) BY <2>1, <2>4, <2>5, <2>6
    <2> QED BY <2>7 DEF k
  <1> HIDE DEF Good
  <1>4. n \in Good
    <2>1. Nat \subseteq Good BY <1>2, <1>3, Induction
    <2> QED BY <1>0, <2>1
  <1>5. LinesOf(f[n]) = SubSeq(lines, 1, n)
    BY <1>0, <1>4 DEF Good
  <1>6. SubSeq(lines, 1, n) = lines
    BY SubSeqFull DEF Lines, n
  <1>7. f[n] \in Seq(RowType)
    BY <1>0, <1>1
  <1> QED BY <1>1, <1>5, <1>6, <1>7

LEMMA RowsAreText ==
  ASSUME NEW lines \in Lines, lines # <<>>
  PROVE  Rows(lines) \in Seq(RowType) /\ Rows(lines) # <<>> /\ BuildFullContent(Rows(lines)) = lines
  BY RowsAreLines, LinesOfNone DEF BuildFullContent, Text

LEMMA ContentType ==
  ASSUME NEW rows \in Seq(RowType)
  PROVE  BuildFullContent(rows) \in Lines /\ BuildFullContent(rows) # <<>>
  BY LinesOfIs, TextType DEF BuildFullContent

-----------------------------------------------------------------------------
(* The markers of a text. *)

MarkLine == {line \in Line : IsMark(line)}

LEMMA MarksIs ==
  ASSUME NEW lines \in Lines
  PROVE  Marks(lines) = Kept(lines, MarkLine) /\ Marks(lines) \in Lines
  <1> DEFINE T == {line \in Range(lines) : IsMark(line)}
  <1>1. lines \in Seq(Range(lines)) /\ Range(lines) \in SUBSET Line
    BY SeqOfRange, RangeOfSeq DEF Lines
  <1>2. \A line \in Range(lines) : line \in T <=> line \in MarkLine
    BY <1>1 DEF MarkLine
  <1> HIDE DEF T
  <1>3. Kept(lines, T) = Kept(lines, MarkLine)
    BY <1>1, <1>2, KeptSame
  <1>4. Kept(lines, MarkLine) \in Lines
    BY KeptType DEF Lines
  <1> QED BY <1>3, <1>4 DEF Marks, T

LEMMA MarksOfJoined ==
  ASSUME NEW s \in Lines, NEW t \in Lines
  PROVE  Marks(s \o t) = Marks(s) \o Marks(t)
  <1> DEFINE u == s \o t
  <1>1. u \in Lines /\ Kept(u, MarkLine) = Kept(s, MarkLine) \o Kept(t, MarkLine)
    BY ConcatProperties, KeptOfJoined DEF Lines
  <1> HIDE DEF u
  <1>2. Marks(u) = Marks(s) \o Marks(t)
    BY <1>1, MarksIs
  <1> QED BY <1>2 DEF u

LEMMA MarksOfNone == Marks(<<>>) = <<>>
  <1>1. <<>> \in Lines
    BY EmptySeq DEF Lines
  <1> QED BY <1>1, MarksIs, KeptOfNone

LEMMA MarksOfOne ==
  ASSUME NEW x \in Line
  PROVE  <<x>> \in Lines /\ Marks(<<x>>) = IF IsMark(x) THEN <<x>> ELSE <<>>
  <1> DEFINE o == <<x>>
  <1>1. o \in Lines
    BY OneIsSeq DEF Lines
  <1>2. Kept(o, MarkLine) = IF x \in MarkLine THEN o ELSE <<>>
    BY KeptOfOne
  <1>3. x \in MarkLine <=> IsMark(x)
    BY DEF MarkLine
  <1> HIDE DEF o
  <1>4. Marks(o) = IF IsMark(x) THEN o ELSE <<>>
    BY <1>1, <1>2, <1>3, MarksIs
  <1> QED BY <1>1, <1>4 DEF o

LEMMA MarksOfText == ASSUME NEW s \in Lines PROVE Marks(Text(s)) = Marks(s)
  <1>1. <<>> \in Line /\ ~IsMark(<<>>)
    BY EmptySeq DEF Line, IsMark, Starts
  <1>2. Marks(<< <<>> >>) = <<>>
    BY <1>1, MarksOfOne
  <1> QED BY <1>2, MarksOfNone DEF Text

\* The run goes by the markers.
LEMMA RunOfMarks ==
  ASSUME NEW s \in State, NEW lines \in Lines
  PROVE  Run(s, lines) = Run(s, Marks(lines))
  <1> DEFINE G == {u \in Lines : Run(s, u) = Run(s, Kept(u, MarkLine))}
  <1>1. <<>> \in G
    BY KeptOfNone, EmptySeq DEF Lines
  <1>2. ASSUME NEW u \in Lines, NEW x \in Line, u \in G PROVE Append(u, x) \in G
    <2>1. Append(u, x) \in Lines /\ Kept(u, MarkLine) \in Lines BY AppendProperties, KeptType DEF Lines
    <2>2. Run(s, Append(u, x)) = Step(Run(s, u), x) BY RunOfMore
    <2>3. Kept(Append(u, x), MarkLine) = IF x \in MarkLine THEN Append(Kept(u, MarkLine), x) ELSE Kept(u, MarkLine)
      BY KeptOfMore DEF Lines
    <2>4. Run(s, Append(Kept(u, MarkLine), x)) = Step(Run(s, Kept(u, MarkLine)), x) BY <2>1, RunOfMore
    <2>5. x \notin MarkLine => \A r : Step(r, x) = r BY OneMarker DEF Step, MarkLine
    <2> QED BY <1>2, <2>1, <2>2, <2>3, <2>4, <2>5
  <1> HIDE DEF G
  <1>3. Lines \subseteq G
    BY <1>1, <1>2, SeqInduction DEF Lines
  <1> QED BY <1>3, MarksIs DEF G

LEMMA EvenByMarks ==
  ASSUME NEW s \in Lines, NEW t \in Lines, Marks(s) = Marks(t), Even(s)
  PROVE  Even(t)
  <1>1. "neutral" \in State
    BY DEF State
  <1>2. Run("neutral", s) = Run("neutral", Marks(s)) /\ Run("neutral", t) = Run("neutral", Marks(t))
    BY <1>1, RunOfMarks
  <1> QED BY <1>2 DEF Even

LEMMA UnmarkedIs ==
  ASSUME NEW lines \in Lines
  PROVE  Unmarked(lines) <=> Marks(lines) = <<>>
  <1> DEFINE K == Kept(lines, MarkLine)
  <1>1. \A x : x \in Range(K) <=> x \in MarkLine /\ \E i \in 1 .. Len(lines) : lines[i] = x
    BY KeptRange DEF Lines
  <1>2. \A i \in 1 .. Len(lines) : lines[i] \in Line
    BY ElementOfSeq DEF Lines
  <1>3. K \in Seq(Line)
    BY KeptType DEF Lines
  <1> HIDE DEF K
  <1>4. Unmarked(lines) <=> Range(K) = {}
    BY <1>1, <1>2 DEF Unmarked, MarkLine
  <1>5. Range(K) = {} <=> K = <<>>
    <2>1. K = <<>> => Range(K) = {} BY RangeOfNone
    <2>2. K # <<>> => Range(K) # {}
      <3>1. SUFFICES ASSUME K # <<>> PROVE Range(K) # {}
        OBVIOUS
      <3>2. Len(K) \in Nat \ {0} BY <1>3, <3>1, EmptySeq
      <3>3. Range(K) = {K[i] : i \in 1 .. Len(K)} BY <1>3, RangeEquality
      <3>4. 1 \in 1 .. Len(K) BY <3>2
      <3> QED BY <3>3, <3>4
    <2> QED BY <2>1, <2>2
  <1> QED BY <1>4, <1>5, MarksIs DEF K

-----------------------------------------------------------------------------
(* What an edit leaves of the markers. *)

EditRow == {r \in RowType : r.role \in Editable}
MarkRow == {r \in EditRow : IsMark(r.text)}

LEMMA MarksAsTextIs ==
  ASSUME NEW rows \in Seq(RowType)
  PROVE  MarksAsText(rows) = Kept(rows, MarkRow)
  <1> DEFINE T == {r \in Range(rows) : r.role \in Editable /\ IsMark(r.text)}
  <1>1. rows \in Seq(Range(rows)) /\ Range(rows) \in SUBSET RowType
    BY SeqOfRange, RangeOfSeq
  <1>2. \A r \in Range(rows) : r \in T <=> r \in MarkRow
    BY <1>1 DEF MarkRow, EditRow
  <1> HIDE DEF T
  <1>3. Kept(rows, T) = Kept(rows, MarkRow)
    BY <1>1, <1>2, KeptSame
  <1> QED BY <1>3 DEF MarksAsText, T

LEMMA MarksOfEdited ==
  ASSUME NEW rows \in Seq(EditRow)
  PROVE  Marks(LinesOf(rows)) = Texts(Kept(rows, MarkRow))
  <1> DEFINE G == {u \in Seq(EditRow) : Marks(LinesOf(u)) = Texts(Kept(u, MarkRow))}
  <1>0. \A u \in Seq(EditRow) : u \in Seq(RowType)
    <2>1. EditRow \subseteq RowType BY DEF EditRow
    <2> QED BY <2>1, SeqMonotonic
  <1>1. <<>> \in G
    <2>1. <<>> \in Seq(RowType) /\ <<>> \in Seq(EditRow) BY EmptySeq
    <2>2. LinesOf(<<>>) = Texts(Kept(<<>>, Lined)) BY <2>1, LinesOfIs
    <2>3. Texts(<<>>) = <<>> BY <2>2, LinesOfNone, KeptOfNone
    <2> QED BY <2>1, <2>3, LinesOfNone, MarksOfNone, KeptOfNone
  <1>2. ASSUME NEW u \in Seq(EditRow), NEW r \in EditRow, u \in G PROVE Append(u, r) \in G
    <2> DEFINE o == <<r>>
               x == r.text
               K == Kept(u, MarkRow)
    <2>1. r \in RowType /\ x \in Line /\ r.role # "button" BY DEF EditRow, RowType, Editable
    <2>2. u \in Seq(RowType) /\ Append(u, r) \in Seq(EditRow) BY <1>0, AppendProperties
    <2>3. o \in Seq(RowType) /\ Append(u, r) = u \o o /\ Append(K, r) = K \o o /\ K \in Seq(RowType)
      <3>1. K \in Seq(RowType) BY <2>2, KeptType
      <3> HIDE DEF K
      <3> QED BY <2>1, <2>2, <3>1, OneIsSeq, AppendIsConcat
    <2>4. LinesOf(o) = <<x>> BY <2>1, LinesOfOne
    <2>5. <<x>> \in Lines /\ Marks(<<x>>) = IF IsMark(x) THEN <<x>> ELSE <<>> BY <2>1, MarksOfOne
    <2>6. LinesOf(u) \in Lines BY <2>2, LinesOfIs
    <2>7. Marks(LinesOf(u \o o)) = Marks(LinesOf(u)) \o Marks(<<x>>)
      <3>1. LinesOf(u \o o) = LinesOf(u) \o LinesOf(o)
        <4> HIDE DEF o
        <4> QED BY <2>2, <2>3, LinesOfJoined
      <3> DEFINE l == LinesOf(u)
                 m == <<x>>
      <3>2. l \in Lines /\ m \in Lines BY <2>5, <2>6
      <3> HIDE DEF l, m
      <3>3. Marks(l \o m) = Marks(l) \o Marks(m) BY <3>2, MarksOfJoined
      <3> QED BY <2>4, <3>1, <3>3 DEF l, m
    <2>8. Texts(o) = <<x>>
      <3>1. Kept(o, Lined) = o
        <4>1. r \in Lined BY <2>1 DEF Lined
        <4> QED BY <4>1, KeptOfOne
      <3>2. LinesOf(o) = Texts(Kept(o, Lined))
        <4> HIDE DEF o
        <4> QED BY <2>3, LinesOfIs
      <3> QED BY <2>4, <3>1, <3>2
    <2>9. Texts(K \o o) = Texts(K) \o <<x>>
      <3>1. Texts(K \o o) = Texts(K) \o Texts(o)
        <4> HIDE DEF K, o
        <4> QED BY <2>3, TextsOfJoined
      <3> QED BY <2>8, <3>1
    <2>10. Kept(Append(u, r), MarkRow) = IF r \in MarkRow THEN Append(K, r) ELSE K
      BY KeptOfMore
    <2>11. r \in MarkRow <=> IsMark(x) BY DEF MarkRow
    <2>12. Marks(LinesOf(u)) = Texts(K) BY <1>2
    <2>13. Texts(K) \in Seq(Line) BY <2>3, TextsIs DEF Lines
    <2> HIDE DEF o, x, K
    <2>14. Marks(LinesOf(Append(u, r))) = Texts(Kept(Append(u, r), MarkRow))
      <3>1. CASE IsMark(x) BY <2>3, <2>5, <2>7, <2>9, <2>10, <2>11, <2>12, <3>1
      <3>2. CASE ~IsMark(x)
        <4>1. Texts(K) \o <<>> = Texts(K) BY <2>13, ConcatEmptySeq
        <4> QED BY <2>3, <2>5, <2>7, <2>10, <2>11, <2>12, <3>2, <4>1
      <3> QED BY <3>1, <3>2
    <2> QED BY <2>2, <2>14
  <1> HIDE DEF G
  <1>3. Seq(EditRow) \subseteq G
    BY <1>1, <1>2, SeqInduction
  <1> QED BY <1>3 DEF G

LEMMA MarkRowsOfJoined ==
  ASSUME NEW s \in Seq(RowType), NEW t \in Seq(RowType)
  PROVE  Kept(s \o t, MarkRow) = Kept(s, MarkRow) \o Kept(t, MarkRow)
  BY KeptOfJoined

LEMMA Cancel ==
  ASSUME NEW S, NEW s \in Seq(S), NEW t \in Seq(S), NEW v \in Seq(S)
  PROVE  (s \o v = t \o v => s = t) /\ (v \o s = v \o t => s = t)
  <1>1. /\ \A T : \A x, y, z \in Seq(T) : x \o y = x \o z => y = z
        /\ \A T : \A x, y, z \in Seq(T) : x \o z = y \o z => x = y
    BY ConcatSimplifications
  <1>2. /\ \A x, y, z \in Seq(S) : x \o y = x \o z => y = z
        /\ \A x, y, z \in Seq(S) : x \o z = y \o z => x = y
    BY <1>1
  <1> QED BY <1>2

LEMMA MarksBetween ==
  ASSUME NEW a \in Seq(RowType), NEW b \in Seq(RowType), NEW m \in Seq(RowType), NEW w \in Seq(RowType),
         MarksAsText((a \o m) \o b) = MarksAsText((a \o w) \o b)
  PROVE  Kept(m, MarkRow) = Kept(w, MarkRow)
  <1>1. ASSUME NEW x \in Seq(RowType)
        PROVE  MarksAsText((a \o x) \o b) = (Kept(a, MarkRow) \o Kept(x, MarkRow)) \o Kept(b, MarkRow)
    <2> DEFINE u == a \o x
    <2>1. u \in Seq(RowType) BY ConcatProperties
    <2>2. Kept(u, MarkRow) = Kept(a, MarkRow) \o Kept(x, MarkRow) BY MarkRowsOfJoined
    <2> HIDE DEF u
    <2> DEFINE v == u \o b
    <2>3. v \in Seq(RowType) BY <2>1, ConcatProperties
    <2>4. Kept(v, MarkRow) = Kept(u, MarkRow) \o Kept(b, MarkRow) BY <2>1, MarkRowsOfJoined
    <2> HIDE DEF v
    <2>5. MarksAsText(v) = Kept(v, MarkRow) BY <2>3, MarksAsTextIs
    <2> QED BY <2>2, <2>4, <2>5 DEF u, v
  <1> DEFINE A == Kept(a, MarkRow)
             B == Kept(b, MarkRow)
             M == Kept(m, MarkRow)
             W == Kept(w, MarkRow)
             x == A \o M
             y == A \o W
  <1>2. A \in Seq(RowType) /\ B \in Seq(RowType) /\ M \in Seq(RowType) /\ W \in Seq(RowType)
    BY KeptType
  <1>3. x \o B = y \o B
    BY <1>1
  <1> HIDE DEF A, B, M, W
  <1>4. x \in Seq(RowType) /\ y \in Seq(RowType)
    BY <1>2, ConcatProperties
  <1> HIDE DEF x, y
  <1>5. x = y
    BY <1>2, <1>3, <1>4, Cancel
  <1>6. M = W
    BY <1>2, <1>5, Cancel DEF x, y
  <1> QED BY <1>6 DEF M, W

\* An edit of editable rows that touches no line like a marker.
LEMMA EditKeepsMarks ==
  ASSUME NEW a \in Seq(RowType), NEW b \in Seq(RowType), NEW m \in Seq(EditRow), NEW w \in Seq(EditRow),
         MarksAsText((a \o m) \o b) = MarksAsText((a \o w) \o b)
  PROVE  Marks(BuildFullContent((a \o m) \o b)) = Marks(BuildFullContent((a \o w) \o b))
  <1>1. m \in Seq(RowType) /\ w \in Seq(RowType)
    <2>1. EditRow \subseteq RowType BY DEF EditRow
    <2> QED BY <2>1, SeqMonotonic
  <1>2. Kept(m, MarkRow) = Kept(w, MarkRow)
    BY <1>1, MarksBetween
  <1>3. Marks(LinesOf(m)) = Marks(LinesOf(w))
    BY <1>2, MarksOfEdited
  <1>4. ASSUME NEW x \in Seq(RowType)
        PROVE  Marks(BuildFullContent((a \o x) \o b)) = (Marks(LinesOf(a)) \o Marks(LinesOf(x))) \o Marks(LinesOf(b))
    <2> DEFINE la == LinesOf(a)
               lx == LinesOf(x)
               lb == LinesOf(b)
               u == a \o x
               v == u \o b
    <2>1. la \in Lines /\ lx \in Lines /\ lb \in Lines BY LinesOfIs
    <2>2. u \in Seq(RowType) /\ LinesOf(u) = la \o lx BY ConcatProperties, LinesOfJoined
    <2> HIDE DEF u
    <2>3. v \in Seq(RowType) /\ LinesOf(v) = (la \o lx) \o lb BY <2>2, ConcatProperties, LinesOfJoined
    <2> HIDE DEF la, lx, lb, v
    <2>4. la \o lx \in Lines /\ Marks(la \o lx) = Marks(la) \o Marks(lx)
      BY <2>1, ConcatProperties, MarksOfJoined DEF Lines
    <2>5. Marks((la \o lx) \o lb) = Marks(la \o lx) \o Marks(lb) BY <2>1, <2>4, MarksOfJoined
    <2>6. Marks(BuildFullContent(v)) = Marks(LinesOf(v))
      <3>1. LinesOf(v) \in Lines BY <2>3, LinesOfIs
      <3> QED BY <3>1, MarksOfText DEF BuildFullContent
    <2> QED BY <2>3, <2>4, <2>5, <2>6 DEF la, lx, lb, u, v
  <1> QED BY <1>1, <1>3, <1>4

-----------------------------------------------------------------------------
(* The edits of the window. *)

\* An edit keeps the types of the rows, and the markers, unless it is seen to
\* touch one.
Careful(rows, new) ==
  /\ new \in Seq(RowType) /\ new # <<>>
  /\ MarksAsText(new) = MarksAsText(rows) => Marks(BuildFullContent(new)) = Marks(BuildFullContent(rows))

LEMMA PutIsInner ==
  ASSUME NEW a \in Seq(RowType), NEW b \in Seq(RowType), NEW x \in RowType, NEW y \in RowType
  PROVE  /\ Put(a, x, b) = (a \o <<x>>) \o b
         /\ Put2(a, x, y, b) = (a \o (<<x>> \o <<y>>)) \o b
         /\ Put(a, x, b) \in Seq(RowType) /\ Put(a, x, b) # <<>>
         /\ Put2(a, x, y, b) \in Seq(RowType) /\ Put2(a, x, y, b) # <<>>
  <1> DEFINE o == <<x>>
             p == <<y>>
  <1>1. o \in Seq(RowType) /\ p \in Seq(RowType) /\ o # <<>> /\ p # <<>>
    BY OneIsSeq
  <1> HIDE DEF o, p
  <1>2. a \o o \in Seq(RowType) /\ a \o o # <<>>
    BY <1>1, ConcatProperties, ConcatEqualIffEmpty
  <1>3. (a \o o) \o b \in Seq(RowType) /\ (a \o o) \o b # <<>>
    BY <1>1, <1>2, ConcatProperties, ConcatEqualIffEmpty
  <1>4. (a \o o) \o p = a \o (o \o p) /\ (a \o o) \o p \in Seq(RowType) /\ (a \o o) \o p # <<>>
    BY <1>1, <1>2, ConcatProperties, ConcatAssociative, ConcatEqualIffEmpty
  <1>5. ((a \o o) \o p) \o b \in Seq(RowType) /\ ((a \o o) \o p) \o b # <<>>
    BY <1>4, ConcatProperties, ConcatEqualIffEmpty
  <1> QED BY <1>3, <1>4, <1>5 DEF Put, Put2, o, p

LEMMA EditRowsType ==
  ASSUME NEW x \in EditRow, NEW y \in EditRow
  PROVE  <<x>> \in Seq(EditRow) /\ <<x>> \o <<y>> \in Seq(EditRow)
  <1>1. <<x>> \in Seq(EditRow) /\ <<y>> \in Seq(EditRow)
    BY OneIsSeq
  <1> QED BY <1>1, ConcatProperties

LEMMA PutIsCareful ==
  ASSUME NEW a \in Seq(RowType), NEW b \in Seq(RowType), NEW x \in EditRow, NEW y \in EditRow
  PROVE  Careful(Put(a, x, b), Put(a, y, b))
  <1>1. /\ Put(a, x, b) = (a \o <<x>>) \o b /\ Put(a, y, b) = (a \o <<y>>) \o b
        /\ Put(a, y, b) \in Seq(RowType) /\ Put(a, y, b) # <<>>
    BY PutIsInner DEF EditRow
  <1> DEFINE m == <<x>>
             w == <<y>>
  <1>2. m \in Seq(EditRow) /\ w \in Seq(EditRow)
    BY EditRowsType
  <1> HIDE DEF m, w
  <1>3. MarksAsText((a \o m) \o b) = MarksAsText((a \o w) \o b)
          => Marks(BuildFullContent((a \o m) \o b)) = Marks(BuildFullContent((a \o w) \o b))
    BY <1>2, EditKeepsMarks
  <1> QED BY <1>1, <1>3 DEF Careful, m, w

LEMMA Put2IsCareful ==
  ASSUME NEW a \in Seq(RowType), NEW b \in Seq(RowType),
         NEW x \in EditRow, NEW y \in EditRow, NEW z \in EditRow
  PROVE  Careful(Put(a, x, b), Put2(a, y, z, b)) /\ Careful(Put2(a, y, z, b), Put(a, x, b))
  <1>1. /\ Put(a, x, b) = (a \o <<x>>) \o b /\ Put2(a, y, z, b) = (a \o (<<y>> \o <<z>>)) \o b
        /\ Put(a, x, b) \in Seq(RowType) /\ Put(a, x, b) # <<>>
        /\ Put2(a, y, z, b) \in Seq(RowType) /\ Put2(a, y, z, b) # <<>>
    BY PutIsInner DEF EditRow
  <1> DEFINE m == <<x>>
             w == <<y>> \o <<z>>
  <1>2. m \in Seq(EditRow) /\ w \in Seq(EditRow)
    BY EditRowsType
  <1> HIDE DEF m, w
  <1>3. MarksAsText((a \o m) \o b) = MarksAsText((a \o w) \o b)
          => Marks(BuildFullContent((a \o m) \o b)) = Marks(BuildFullContent((a \o w) \o b))
    BY <1>2, EditKeepsMarks
  <1> QED BY <1>1, <1>3 DEF Careful, m, w

LEMMA Retyped ==
  ASSUME NEW r \in EditRow, NEW line \in Line
  PROVE  [r EXCEPT !.text = line] \in EditRow
  BY DEF EditRow, RowType

LEMMA EditRowIs ==
  ASSUME NEW r \in EditRow
  PROVE  /\ r \in RowType /\ r \in Lined /\ r.text \in Line /\ r = Row(r.role, r.text, r.block)
         /\ \A z : [r EXCEPT !.text = z] = Row(r.role, z, r.block)
         /\ \A z \in Line : [r EXCEPT !.text = z] \in EditRow /\ [r EXCEPT !.text = z].text = z
  <1>1. r \in RowType /\ r.role \in Editable /\ r.role # "button"
    BY DEF EditRow, Editable
  <1>2. r = [role |-> r.role, text |-> r.text, block |-> r.block] /\ r.text \in Line
    BY <1>1 DEF RowType
  <1>3. \A z : [r EXCEPT !.text = z] = Row(r.role, z, r.block)
    BY <1>2 DEF Row
  <1>4. \A z \in Line : [r EXCEPT !.text = z].text = z
    BY <1>2
  <1>5. r = Row(r.role, r.text, r.block)
    BY <1>2 DEF Row
  <1> QED BY <1>1, <1>2, <1>3, <1>4, <1>5, Retyped DEF Lined

\* s is the row r with the line z.
Says(r, z, s) == s = Row(r.role, z, r.block)

LEMMA SaidIs ==
  ASSUME NEW r \in EditRow, NEW z \in Line, NEW s, Says(r, z, s)
  PROVE  s \in EditRow /\ s \in Lined /\ s \in RowType /\ s.text = z
  BY EditRowIs DEF Says, Row, EditRow, RowType, Lined, Editable

LEMMA HalvesType ==
  ASSUME NEW line \in Line, NEW cursor \in 0 .. Len(line)
  PROVE  SubSeq(line, 1, cursor) \in Line /\ SubSeq(line, cursor + 1, Len(line)) \in Line
  <1>1. Len(line) \in Nat
    BY LenProperties DEF Line
  <1>2. cursor \in Int /\ cursor <= Len(line) /\ cursor + 1 \in Int /\ 1 <= cursor + 1 /\ Len(line) \in Int
    BY <1>1
  <1> QED BY <1>2, PartType DEF Line

\* The two rows before and at i, and the others.
LEMMA Pieces4 ==
  ASSUME NEW S, NEW s \in Seq(S), NEW i \in 1 .. Len(s), i > 1
  PROVE  LET a == SubSeq(s, 1, i - 2)
             b == SubSeq(s, i + 1, Len(s))
         IN  a \in Seq(S) /\ b \in Seq(S) /\ Len(a) = i - 2 /\ s = Put2(a, s[i - 1], s[i], b)
  <1> DEFINE a == SubSeq(s, 1, i - 2)
             b == SubSeq(s, i + 1, Len(s))
             c == SubSeq(s, 1, i - 1)
  <1>0. Len(s) \in Nat /\ i \in Nat /\ \A k \in 1 .. Len(s) : s[k] \in S
    BY LenProperties, ElementOfSeq
  <1>1. b \in Seq(S) /\ s = (c \o <<s[i]>>) \o b
    BY Pieces3
  <1>2. a \in Seq(S) /\ Len(a) = i - 2
    <2>1. i - 2 \in Int /\ \A k \in 1 .. i - 2 : s[k] \in S BY <1>0
    <2>2. a \in Seq(S) /\ Len(a) = IF 1 <= i - 2 THEN i - 2 - 1 + 1 ELSE 0 BY <2>1, SubSeqProperties
    <2> QED BY <1>0, <2>2
  <1>3. c = a \o <<s[i - 1]>>
    <2>1. 1 \in 1 .. Len(s) /\ i - 1 \in 1 .. Len(s) /\ (i - 1) - 1 = i - 2 BY <1>0
    <2>2. c = SubSeq(s, 1, (i - 1) - 1) \o <<s[i - 1]>> BY <2>1, SubSeqRecursiveSecond
    <2> QED BY <2>1, <2>2
  <1> QED BY <1>1, <1>2, <1>3 DEF Put2

\* What typing, splitting and joining make of the rows.
LEMMA TypeIsPut ==
  ASSUME NEW rows \in Seq(RowType), NEW i \in 1 .. Len(rows), rows[i].role \in Editable, NEW line \in Line
  PROVE  /\ rows[i] \in EditRow
         /\ \E a, b \in Seq(RowType), s \in RowType :
              /\ rows = Put(a, rows[i], b) /\ Says(rows[i], line, s)
              /\ [rows EXCEPT ![i].text = line] = Put(a, s, b)
  <1> DEFINE a == SubSeq(rows, 1, i - 1)
             b == SubSeq(rows, i + 1, Len(rows))
             r == rows[i]
             s == [r EXCEPT !.text = line]
  <1>1. a \in Seq(RowType) /\ b \in Seq(RowType) /\ Len(a) = i - 1 /\ rows = Put(a, r, b)
    BY Pieces3 DEF Put
  <1>2. r \in EditRow /\ r \in RowType
    BY ElementOfSeq DEF EditRow
  <1>3. s \in RowType /\ Says(r, line, s)
    <2> HIDE DEF r
    <2> QED BY <1>2, EditRowIs, Retyped DEF Says, EditRow
  <1>4. [rows EXCEPT ![i].text = line] = With(rows, i, s)
    BY DEF With
  <1>5. i = Len(a) + 1
    BY <1>1
  <1> HIDE DEF a, b, r, s
  <1>6. With(rows, i, s) = Put(a, s, b)
    BY <1>1, <1>2, <1>3, <1>5, PutWith
  <1>7. \E x, y \in Seq(RowType), t \in RowType :
          rows = Put(x, r, y) /\ Says(r, line, t) /\ [rows EXCEPT ![i].text = line] = Put(x, t, y)
    BY <1>1, <1>3, <1>4, <1>6
  <1> QED BY <1>2, <1>7 DEF r

LEMMA SplitIsPut ==
  ASSUME NEW rows \in Seq(RowType), NEW i \in 1 .. Len(rows), rows[i].role \in Editable,
         NEW l \in Line, NEW m \in Line
  PROVE  /\ rows[i] \in EditRow
         /\ \E a, b \in Seq(RowType), s, t \in RowType :
              /\ rows = Put(a, rows[i], b) /\ Says(rows[i], l, s) /\ Says(rows[i], m, t)
              /\ InsertAt([rows EXCEPT ![i].text = l], i + 1, [rows[i] EXCEPT !.text = m]) = Put2(a, s, t, b)
  <1> DEFINE a == SubSeq(rows, 1, i - 1)
             b == SubSeq(rows, i + 1, Len(rows))
             r == rows[i]
             s == [r EXCEPT !.text = l]
             t == [r EXCEPT !.text = m]
             n == i + 1
  <1>1. a \in Seq(RowType) /\ b \in Seq(RowType) /\ Len(a) = i - 1 /\ rows = Put(a, r, b)
    BY Pieces3 DEF Put
  <1>2. r \in EditRow /\ r \in RowType
    BY ElementOfSeq DEF EditRow
  <1>3. s \in RowType /\ Says(r, l, s) /\ t \in RowType /\ Says(r, m, t)
    <2> HIDE DEF r
    <2> QED BY <1>2, EditRowIs, Retyped DEF Says, EditRow
  <1>4. [rows EXCEPT ![i].text = l] = With(rows, i, s)
    BY DEF With
  <1>5. i = Len(a) + 1 /\ n = Len(a) + 2
    BY <1>1
  <1> HIDE DEF a, b, r, s, t
  <1>6. With(rows, i, s) = Put(a, s, b)
    BY <1>1, <1>2, <1>3, <1>5, PutWith
  <1>7. InsertAt(Put(a, s, b), n, t) = Put2(a, s, t, b)
    <2> HIDE DEF n
    <2> QED BY <1>1, <1>3, <1>5, PutInsert
  <1>8. \E x, y \in Seq(RowType), v, w \in RowType :
          /\ rows = Put(x, r, y) /\ Says(r, l, v) /\ Says(r, m, w)
          /\ InsertAt([rows EXCEPT ![i].text = l], n, t) = Put2(x, v, w, y)
    <2> HIDE DEF n
    <2> QED BY <1>1, <1>3, <1>4, <1>6, <1>7
  <1> QED BY <1>2, <1>8 DEF r, t

LEMMA MergeIsPut ==
  ASSUME NEW rows \in Seq(RowType), NEW i \in 1 .. Len(rows), i > 1,
         rows[i].role \in Editable, rows[i - 1].role = rows[i].role, NEW l \in Line
  PROVE  /\ rows[i - 1] \in EditRow /\ rows[i] \in EditRow
         /\ \E a, b \in Seq(RowType), s \in RowType :
              /\ rows = Put2(a, rows[i - 1], rows[i], b) /\ Says(rows[i - 1], l, s)
              /\ RemoveAt([rows EXCEPT ![i - 1].text = l], i) = Put(a, s, b)
  <1> DEFINE k == i - 1
             a == SubSeq(rows, 1, i - 2)
             b == SubSeq(rows, i + 1, Len(rows))
             q == rows[k]
             r == rows[i]
             s == [q EXCEPT !.text = l]
  <1>1. a \in Seq(RowType) /\ b \in Seq(RowType) /\ Len(a) = i - 2 /\ rows = Put2(a, q, r, b)
    BY Pieces4
  <1>2. q \in EditRow /\ r \in EditRow /\ q \in RowType /\ r \in RowType
    <2>1. k \in 1 .. Len(rows) BY LenProperties
    <2> QED BY <2>1, ElementOfSeq DEF EditRow
  <1>3. s \in RowType /\ Says(q, l, s)
    <2> HIDE DEF q
    <2> QED BY <1>2, EditRowIs, Retyped DEF Says, EditRow
  <1>4. [rows EXCEPT ![k].text = l] = With(rows, k, s)
    BY DEF With
  <1>5. k = Len(a) + 1 /\ i = Len(a) + 2
    BY <1>1
  <1> HIDE DEF a, b, k, q, r, s
  <1>6. With(rows, k, s) = Put2(a, s, r, b)
    BY <1>1, <1>2, <1>3, <1>5, Put2First
  <1>7. RemoveAt(Put2(a, s, r, b), i) = Put(a, s, b)
    BY <1>1, <1>2, <1>3, <1>5, Put2Remove
  <1>8. \E x, y \in Seq(RowType), t \in RowType :
          /\ rows = Put2(x, q, r, y) /\ Says(q, l, t)
          /\ RemoveAt([rows EXCEPT ![k].text = l], i) = Put(x, t, y)
    BY <1>1, <1>3, <1>4, <1>6, <1>7
  <1> QED BY <1>2, <1>8 DEF q, r, k

\* So they keep the markers, unless they are seen to touch one.
LEMMA TypeIsCareful ==
  ASSUME NEW rows \in Seq(RowType), NEW i \in 1 .. Len(rows), rows[i].role \in Editable, NEW line \in Line
  PROVE  Careful(rows, [rows EXCEPT ![i].text = line])
  <1> DEFINE r == rows[i]
             new == [rows EXCEPT ![i].text = line]
  <1>1. r \in EditRow /\ \E a, b \in Seq(RowType), s \in RowType : rows = Put(a, r, b) /\ Says(r, line, s) /\ new = Put(a, s, b)
    BY TypeIsPut
  <1> HIDE DEF r, new
  <1>2. PICK a \in Seq(RowType), b \in Seq(RowType), s \in RowType : rows = Put(a, r, b) /\ Says(r, line, s) /\ new = Put(a, s, b)
    BY <1>1
  <1>3. s \in EditRow
    BY <1>1, <1>2, SaidIs
  <1>4. Careful(rows, new)
    BY <1>1, <1>2, <1>3, PutIsCareful
  <1> QED BY <1>4 DEF new

LEMMA SplitIsCareful ==
  ASSUME NEW rows \in Seq(RowType), NEW i \in 1 .. Len(rows), rows[i].role \in Editable,
         NEW l \in Line, NEW m \in Line
  PROVE  Careful(rows, InsertAt([rows EXCEPT ![i].text = l], i + 1, [rows[i] EXCEPT !.text = m]))
  <1> DEFINE r == rows[i]
             new == InsertAt([rows EXCEPT ![i].text = l], i + 1, [rows[i] EXCEPT !.text = m])
  <1>1. /\ r \in EditRow
        /\ \E a, b \in Seq(RowType), s, t \in RowType :
             rows = Put(a, r, b) /\ Says(r, l, s) /\ Says(r, m, t) /\ new = Put2(a, s, t, b)
    BY SplitIsPut
  <1> HIDE DEF r, new
  <1>2. PICK a \in Seq(RowType), b \in Seq(RowType), s, t \in RowType :
          rows = Put(a, r, b) /\ Says(r, l, s) /\ Says(r, m, t) /\ new = Put2(a, s, t, b)
    BY <1>1
  <1>3. s \in EditRow /\ t \in EditRow
    BY <1>1, <1>2, SaidIs
  <1>4. Careful(rows, new)
    BY <1>1, <1>2, <1>3, Put2IsCareful
  <1> QED BY <1>4 DEF new

LEMMA MergeIsCareful ==
  ASSUME NEW rows \in Seq(RowType), NEW i \in 1 .. Len(rows), i > 1,
         rows[i].role \in Editable, rows[i - 1].role = rows[i].role, NEW l \in Line
  PROVE  Careful(rows, RemoveAt([rows EXCEPT ![i - 1].text = l], i))
  <1> DEFINE q == rows[i - 1]
             r == rows[i]
             new == RemoveAt([rows EXCEPT ![i - 1].text = l], i)
  <1>1. /\ q \in EditRow /\ r \in EditRow
        /\ \E a, b \in Seq(RowType), s \in RowType : rows = Put2(a, q, r, b) /\ Says(q, l, s) /\ new = Put(a, s, b)
    BY MergeIsPut
  <1> HIDE DEF q, r, new
  <1>2. PICK a \in Seq(RowType), b \in Seq(RowType), s \in RowType : rows = Put2(a, q, r, b) /\ Says(q, l, s) /\ new = Put(a, s, b)
    BY <1>1
  <1>3. s \in EditRow
    BY <1>1, <1>2, SaidIs
  <1>4. Careful(rows, new)
    BY <1>1, <1>2, <1>3, Put2IsCareful
  <1> QED BY <1>4 DEF new

-----------------------------------------------------------------------------
(* The window after it has loaded the conflicts. *)

Conflict == [path : File, lines : Lines]

\* What is loaded is the files in conflict, as they are.
LEMMA GetConflictsIs ==
  ASSUME NEW d \in [File -> Lines], NEW u \in SUBSET File
  PROVE  /\ GetConflicts(d, u) \in Seq(Conflict)
         /\ \A i \in DOMAIN GetConflicts(d, u) :
              /\ GetConflicts(d, u)[i].path \in u
              /\ GetConflicts(d, u)[i].lines = d[GetConflicts(d, u)[i].path]
              /\ GetConflicts(d, u)[i].lines # <<>>
         /\ \A p \in u : d[p] # <<>> => p \in Listed(GetConflicts(d, u))
  <1> DEFINE T == {p \in u : d[p] # <<>>}
             l == Kept(Paths, T)
             cs == GetConflicts(d, u)
  <1>1. Paths \in Seq(STRING)
    BY PathsAssumption
  <1>2. l \in Seq(STRING)
    BY <1>1, KeptType
  <1>3. \A x : x \in Range(l) <=> x \in T /\ \E i \in 1 .. Len(Paths) : Paths[i] = x
    BY <1>1, KeptRange
  <1>4. \A i \in DOMAIN l : l[i] \in T
    BY <1>3 DEF Range
  <1>5. cs = [i \in DOMAIN l |-> [path |-> l[i], lines |-> d[l[i]]]]
    BY DEF GetConflicts
  <1>6. \A x : x \in T => \E i \in DOMAIN l : l[i] = x
    <2> SUFFICES ASSUME NEW x \in T PROVE \E i \in DOMAIN l : l[i] = x
      OBVIOUS
    <2>1. x \in File
      OBVIOUS
    <2>2. \E i \in DOMAIN Paths : Paths[i] = x
      BY <2>1 DEF File, Range
    <2>3. \E i \in 1 .. Len(Paths) : Paths[i] = x
      BY <2>2, <1>1, LenProperties
    <2>4. x \in Range(l)
      BY <2>3, <1>3
    <2> QED BY <2>4 DEF Range
  <1>7. DOMAIN l = 1 .. Len(l) /\ Len(l) \in Nat
    BY <1>2, LenProperties
  <1>8. T \subseteq u /\ T \subseteq File /\ \A p \in T : d[p] \in Lines /\ d[p] # <<>>
    OBVIOUS
  <1>9. \A p \in u : d[p] # <<>> => p \in T
    OBVIOUS
  <1> HIDE DEF T, l, cs
  <1>a. \A i \in 1 .. Len(l) : [path |-> l[i], lines |-> d[l[i]]] \in Conflict
    BY <1>4, <1>7, <1>8 DEF Conflict
  <1>b. cs \in Seq(Conflict)
    BY <1>5, <1>7, <1>a, IsASeq
  <1>c. \A i \in DOMAIN cs : cs[i].path \in u /\ cs[i].lines = d[cs[i].path] /\ cs[i].lines # <<>>
    BY <1>5, <1>4, <1>8
  <1>d. \A p \in u : d[p] # <<>> => p \in Listed(cs)
    BY <1>5, <1>6, <1>9 DEF Listed
  <1> QED BY <1>b, <1>c, <1>d DEF cs

LEMMA LinesInIs ==
  ASSUME NEW cs, NEW i \in DOMAIN cs,
         \A j \in DOMAIN cs : cs[j].path = cs[i].path => cs[j] = cs[i]
  PROVE  LinesIn(cs, cs[i].path) = cs[i].lines
  <1> DEFINE c == CHOOSE c \in Range(cs) : c.path = cs[i].path
  <1>1. cs[i] \in Range(cs)
    BY DEF Range
  <1>2. c \in Range(cs) /\ c.path = cs[i].path
    BY <1>1
  <1>3. c = cs[i]
    BY <1>2 DEF Range
  <1> QED BY <1>3 DEF LinesIn

Loaded(d, u, cache, from, rows, cs, sel, dm, mf) ==
  /\ cs = GetConflicts(d, u)
  /\ cs = <<>> => sel = None /\ dm = <<>> /\ mf = cache
  /\ cs # <<>> => /\ sel = IF from \in Listed(cs) THEN from ELSE cs[1].path
                  /\ mf = Cached(cache, from, sel, rows)
                  /\ dm = RowsOf(cs, mf, sel)

\* The window shows the conflicts cs of the index u and the files d.
Shown(d, u, cs, sel, dm, mf) ==
  /\ cs \in Seq(Conflict) /\ sel \in File \union {None} /\ dm \in Seq(RowType) /\ CacheType(mf)
  /\ cs = <<>> => sel = None /\ dm = <<>>
  /\ cs # <<>> => sel \in Listed(cs) /\ dm # <<>>
  /\ \A p : p \in Listed(cs) <=> p \in u /\ d[p] # <<>>
  /\ \A i \in DOMAIN cs :
       /\ cs[i].lines = d[cs[i].path] /\ cs[i].lines # <<>>
       /\ \A j \in DOMAIN cs : cs[j].path = cs[i].path => cs[j] = cs[i]
  /\ \A p \in Listed(cs) : LinesIn(cs, p) = d[p]

HeldIn(sel, dm, mf, p) == IF p = sel THEN dm ELSE mf[p]

\* Where the rows that a window holds come from.
HeldFrom(d, u, cache, from, rows, sel, dm, mf, p) ==
  \/ p \in DOMAIN cache /\ HeldIn(sel, dm, mf, p) = cache[p]
  \/ /\ p = from /\ from \in File /\ HeldIn(sel, dm, mf, p) = rows /\ rows # <<>> /\ p \in DOMAIN mf
     /\ (p \notin u \/ d[p] = <<>>)
  \/ /\ p = sel /\ p \in u /\ d[p] # <<>> /\ HeldIn(sel, dm, mf, p) = Rows(d[p])
     /\ BuildFullContent(HeldIn(sel, dm, mf, p)) = d[p]

Holds(d, u, cache, from, rows, cs, sel, dm, mf) ==
  /\ \A p \in File : p = sel \/ p \in DOMAIN mf => HeldFrom(d, u, cache, from, rows, sel, dm, mf, p)
  /\ \A p \in DOMAIN cache : p \in DOMAIN mf /\ (p # from \/ p \in Listed(cs) => HeldIn(sel, dm, mf, p) = cache[p])
  /\ DOMAIN mf \subseteq DOMAIN cache \union {from}
  /\ from \in Listed(cs) => sel = from /\ mf = cache

LEMMA KeepDomain == \A cache, p, rows : DOMAIN Keep(cache, p, rows) = DOMAIN cache \cup {p}
  BY DEF Keep

LEMMA KeepAt == \A cache, p, rows : Keep(cache, p, rows)[p] = rows
  <1> SUFFICES ASSUME NEW cache, NEW p, NEW rows PROVE Keep(cache, p, rows)[p] = rows
    OBVIOUS
  <1> DEFINE D == DOMAIN cache \cup {p}
             k == [q \in D |-> IF q = p THEN rows ELSE cache[q]]
  <1>1. Keep(cache, p, rows) = k
    BY DEF Keep
  <1>2. k[p] = rows
    OBVIOUS
  <1> QED BY <1>1, <1>2

LEMMA KeepRest ==
  \A cache, p, rows : \A q \in DOMAIN cache : q # p => Keep(cache, p, rows)[q] = cache[q]
  BY DEF Keep

IsKeep(k, cache, p, rows) ==
  /\ DOMAIN k = DOMAIN cache \cup {p} /\ k[p] = rows
  /\ \A q \in DOMAIN cache : q # p => k[q] = cache[q]

LEMMA KeepIs == \A cache, p, rows : IsKeep(Keep(cache, p, rows), cache, p, rows)
  <1> SUFFICES ASSUME NEW cache, NEW p, NEW rows PROVE IsKeep(Keep(cache, p, rows), cache, p, rows)
    OBVIOUS
  <1> DEFINE k == Keep(cache, p, rows)
  <1>1. DOMAIN k = DOMAIN cache \cup {p}
    BY KeepDomain
  <1>2. k[p] = rows
    BY KeepAt
  <1>3. \A q \in DOMAIN cache : q # p => k[q] = cache[q]
    BY KeepRest
  <1> HIDE DEF k
  <1>4. IsKeep(k, cache, p, rows)
    BY <1>1, <1>2, <1>3 DEF IsKeep
  <1> QED BY <1>4 DEF k

LEMMA ForgetIs ==
  ASSUME NEW cache, NEW p
  PROVE  /\ DOMAIN Forget(cache, p) = DOMAIN cache \ {p}
         /\ \A q \in DOMAIN cache \ {p} : Forget(cache, p)[q] = cache[q]
  BY DEF Forget

LEMMA ForgetType ==
  ASSUME NEW cache, NEW p, CacheType(cache)
  PROVE  CacheType(Forget(cache, p))
  <1> DEFINE k == Forget(cache, p)
  <1>1. DOMAIN k = DOMAIN cache \ {p} /\ \A q \in DOMAIN cache \ {p} : k[q] = cache[q]
    BY ForgetIs
  <1> HIDE DEF k
  <1>2. CacheType(k)
    BY <1>1 DEF CacheType, IsKeep
  <1> QED BY <1>2 DEF k

LEMMA KeepType ==
  ASSUME NEW cache, NEW p \in File, NEW rows \in Seq(RowType), CacheType(cache), rows # <<>>
  PROVE  CacheType(Keep(cache, p, rows))
  <1> DEFINE k == Keep(cache, p, rows)
  <1>1. IsKeep(k, cache, p, rows)
    BY KeepIs
  <1> HIDE DEF k
  <1>2. CacheType(k)
    BY <1>1 DEF CacheType, IsKeep
  <1> QED BY <1>2 DEF k

LEMMA NothingKept == CacheType(<<>>) /\ DOMAIN <<>> = {}
  <1>1. DOMAIN <<>> = 1 .. 0
    BY EmptySeq, LenProperties
  <1>2. 1 .. 0 = {}
    OBVIOUS
  <1> QED BY <1>1, <1>2 DEF CacheType

LEMMA NoneIsNoFile == None \notin File
  BY PathsAssumption

LEMMA ListedFile ==
  ASSUME NEW cs \in Seq(Conflict)
  PROVE  /\ Listed(cs) \subseteq File
         /\ cs # <<>> => 1 \in DOMAIN cs /\ cs[1].path \in Listed(cs)
         /\ cs = <<>> => Listed(cs) = {}
  <1>1. DOMAIN cs = 1 .. Len(cs) /\ Len(cs) \in Nat
    BY LenProperties
  <1>2. \A i \in DOMAIN cs : cs[i] \in Conflict
    BY <1>1, ElementOfSeq
  <1>3. Listed(cs) \subseteq File
    BY <1>2 DEF Listed, Conflict
  <1>4. cs # <<>> => Len(cs) # 0
    BY EmptySeq, LenProperties
  <1>5. cs # <<>> => 1 \in DOMAIN cs
    BY <1>1, <1>4
  <1>6. cs = <<>> => DOMAIN cs = {}
    BY NothingKept
  <1> QED BY <1>3, <1>5, <1>6 DEF Listed

LEMMA LoadedIs ==
  ASSUME NEW d \in [File -> Lines], NEW u \in SUBSET File, NEW cache, CacheType(cache),
         NEW from \in File \union {None}, NEW rows \in Seq(RowType),
         NEW cs, NEW sel, NEW dm, NEW mf, Loaded(d, u, cache, from, rows, cs, sel, dm, mf)
  PROVE  Shown(d, u, cs, sel, dm, mf) /\ Holds(d, u, cache, from, rows, cs, sel, dm, mf)
  <1>1. /\ cs \in Seq(Conflict)
        /\ \A i \in DOMAIN cs : cs[i].path \in u /\ cs[i].lines = d[cs[i].path] /\ cs[i].lines # <<>>
        /\ \A p \in u : d[p] # <<>> => p \in Listed(cs)
    BY GetConflictsIs DEF Loaded
  <1>2. \A i \in DOMAIN cs : cs[i] \in Conflict
    BY <1>1, ElementOfSeq, LenProperties
  <1>3. \A i, j \in DOMAIN cs : cs[j].path = cs[i].path => cs[j] = cs[i]
    BY <1>1, <1>2 DEF Conflict
  <1>4. \A p : p \in Listed(cs) <=> p \in u /\ d[p] # <<>>
    BY <1>1 DEF Listed
  <1>5. \A p \in Listed(cs) : LinesIn(cs, p) = d[p]
    BY <1>1, <1>3, LinesInIs DEF Listed
  <1>6. Listed(cs) \subseteq File /\ (cs # <<>> => cs[1].path \in Listed(cs)) /\ (cs = <<>> => Listed(cs) = {})
    BY <1>1, ListedFile
  <1>7. cs # <<>> => sel \in Listed(cs)
    BY <1>6 DEF Loaded
  <1>8. None \notin Listed(cs)
    BY <1>6, NoneIsNoFile
  <1>9. \/ mf = cache
        \/ cs # <<>> /\ mf = Keep(cache, from, rows) /\ from \in File /\ rows # <<>> /\ from \notin Listed(cs) /\ from # sel
    BY <1>6, <1>8 DEF Loaded, Cached
  <1>a. CacheType(mf)
    BY <1>9, KeepType
  <1>b. sel \in File \union {None}
    BY <1>6, <1>7 DEF Loaded
  <1>c. cs # <<>> => d[sel] \in Lines /\ d[sel] # <<>> /\ LinesIn(cs, sel) = d[sel]
    BY <1>4, <1>5, <1>7
  <1>d. cs # <<>> => Rows(d[sel]) \in Seq(RowType) /\ Rows(d[sel]) # <<>> /\ BuildFullContent(Rows(d[sel])) = d[sel]
    BY <1>c, RowsAreText
  <1>e. cs # <<>> => IF sel \in DOMAIN mf THEN dm = mf[sel] ELSE dm = Rows(d[sel])
    BY <1>c DEF Loaded, RowsOf
  <1>f. cs = <<>> => dm \in Seq(RowType)
    BY EmptySeq DEF Loaded
  <1>g. cs # <<>> => dm \in Seq(RowType) /\ dm # <<>>
    BY <1>d, <1>e, <1>a DEF CacheType
  <1>h. Shown(d, u, cs, sel, dm, mf)
    BY <1>1, <1>3, <1>4, <1>5, <1>7, <1>a, <1>b, <1>f, <1>g DEF Shown, Loaded
  <1>i. from \in Listed(cs) => sel = from /\ mf = cache
    BY <1>6, <1>9 DEF Loaded
  <1>x. \/ mf = cache
        \/ from \in File /\ from \notin Listed(cs) /\ IsKeep(mf, cache, from, rows)
    <2>1. CASE mf = cache
      BY <2>1
    <2>2. CASE mf = Keep(cache, from, rows) /\ from \in File /\ from \notin Listed(cs)
      <3>1. IsKeep(mf, cache, from, rows)
        BY <2>2, KeepIs
      <3> QED BY <2>2, <3>1
    <2> QED BY <2>1, <2>2, <1>9
  <1>j. DOMAIN mf \subseteq DOMAIN cache \union {from}
    BY <1>x DEF IsKeep
  <1>k. ASSUME NEW p \in File, p = sel \/ p \in DOMAIN mf
        PROVE  HeldFrom(d, u, cache, from, rows, sel, dm, mf, p)
    <2>1. CASE p \in DOMAIN mf
      <3>1. HeldIn(sel, dm, mf, p) = mf[p]
        <4>1. p = sel => cs # <<>>
          BY NoneIsNoFile DEF Loaded
        <4> QED BY <2>1, <4>1, <1>e DEF HeldIn
      <3>2. CASE p \in DOMAIN cache /\ mf[p] = cache[p]
        BY <3>1, <3>2 DEF HeldFrom
      <3>3. CASE ~(p \in DOMAIN cache /\ mf[p] = cache[p])
        <4>1. mf = Keep(cache, from, rows) /\ from \in File /\ rows # <<>> /\ from \notin Listed(cs)
          BY <3>3, <2>1, <1>9
        <4>2. IsKeep(mf, cache, from, rows)
          BY <4>1, KeepIs
        <4>3. p = from /\ mf[p] = rows
          BY <4>2, <3>3, <2>1 DEF IsKeep
        <4> QED BY <4>1, <4>3, <3>1, <2>1, <1>4 DEF HeldFrom
      <3> QED BY <3>2, <3>3
    <2>2. CASE p \notin DOMAIN mf
      <3>1. p = sel
        BY <2>2, <1>k
      <3>2. cs # <<>>
        BY <3>1, NoneIsNoFile DEF Loaded
      <3>3. dm = Rows(d[p])
        BY <3>1, <3>2, <1>e, <2>2
      <3>4. BuildFullContent(dm) = d[p]
        BY <3>1, <3>2, <3>3, <1>d
      <3> QED BY <3>1, <3>2, <3>3, <3>4, <1>7, <1>4 DEF HeldFrom, HeldIn
    <2> QED BY <2>1, <2>2
  <1>l. ASSUME NEW p \in DOMAIN cache
        PROVE  p \in DOMAIN mf /\ (p # from \/ p \in Listed(cs) => HeldIn(sel, dm, mf, p) = cache[p])
    <2>1. p \in DOMAIN mf
      BY <1>x DEF IsKeep
    <2>2. p # from \/ p \in Listed(cs) => mf[p] = cache[p]
      BY <1>x DEF IsKeep
    <2>3. p = sel => dm = mf[p]
      <3>1. p \in File
        BY DEF CacheType
      <3> QED BY <3>1, <1>e, <2>1, NoneIsNoFile DEF Loaded
    <2> QED BY <2>1, <2>2, <2>3 DEF HeldIn
  <1> QED BY <1>h, <1>i, <1>j, <1>k, <1>l DEF Holds

LEMMA LoadsIs ==
  ASSUME disk' \in [File -> Lines], unmerged' \in SUBSET File, NEW cache, CacheType(cache),
         NEW from \in File \union {None}, NEW rows \in Seq(RowType),
         LoadConflicts(disk', unmerged', cache, from, rows)
  PROVE  /\ Shown(disk', unmerged', conflicts', selectedPath', displayModel', modifiedFiles')
         /\ Holds(disk', unmerged', cache, from, rows,
                  conflicts', selectedPath', displayModel', modifiedFiles')
  <1>1. Loaded(disk', unmerged', cache, from, rows, conflicts', selectedPath', displayModel', modifiedFiles')
    BY DEF LoadConflicts, Show, Loaded
  <1> QED BY <1>1, LoadedIs

LEMMA ShownIsWindowed ==
  ASSUME "list" \notin overtaken,
         Shown(disk, unmerged, conflicts, selectedPath, displayModel, modifiedFiles)
  PROVE  Windowed
  <1>1. \A i \in DOMAIN conflicts : conflicts[i].path \in unmerged /\ disk[conflicts[i].path] # <<>>
    BY DEF Shown, Listed
  <1>2. \A p \in unmerged \ Listed(conflicts) : disk[p] = <<>>
    BY DEF Shown
  <1>3. Current
    BY <1>1, <1>2 DEF Current
  <1> QED BY <1>3 DEF Shown, Windowed

LEMMA ShownIsWindowedNext ==
  ASSUME "list" \notin overtaken',
         Shown(disk', unmerged', conflicts', selectedPath', displayModel', modifiedFiles')
  PROVE  Windowed'
  <1>1. \A i \in DOMAIN conflicts' : conflicts'[i].path \in unmerged' /\ disk'[conflicts'[i].path] # <<>>
    BY DEF Shown, Listed
  <1>2. \A p \in unmerged' \ Listed(conflicts') : disk'[p] = <<>>
    BY DEF Shown
  <1>3. Current'
    BY <1>1, <1>2 DEF Current
  <1> QED BY <1>3 DEF Shown, Windowed

LEMMA ShownIsTyped ==
  ASSUME open' \in BOOLEAN, Shown(disk', unmerged', conflicts', selectedPath', displayModel', modifiedFiles')
  PROVE  WindowTypes'
  BY DEF Shown, WindowTypes, Conflict

LEMMA OperationIs ==
  ASSUME NEW op \in Operations
  PROVE  /\ op.kind \in {"merge", "cherrypick"} /\ op.head \in [File -> Lines]
         /\ Len(op.stops) \in Nat /\ Len(op.stops) >= 1 /\ (op.kind = "merge" => Len(op.stops) = 1)
         /\ \A n \in 1 .. Len(op.stops) :
              DOMAIN Stop(op, n) \subseteq File /\ \A p \in DOMAIN Stop(op, n) : Stop(op, n)[p] \in Lines
  BY OperationsAssumption DEF Stop

LEMMA KindIs == \A op \in Operations : op.kind \in {"merge", "cherrypick"}
  BY OperationsAssumption

LEMMA StopType ==
  ASSUME NEW op \in Operations, NEW n \in 1 .. Len(op.stops)
  PROVE  DOMAIN Stop(op, n) \subseteq File /\ \A p \in DOMAIN Stop(op, n) : Stop(op, n)[p] \in Lines
  BY OperationsAssumption DEF Stop

LEMMA ConflictedIs ==
  ASSUME NEW op \in Operations, NEW n \in 1 .. Len(op.stops), NEW h \in [File -> Lines]
  PROVE  /\ Conflicted(op, n, h) \in [File -> Lines]
         /\ \A p \in DOMAIN Stop(op, n) : Conflicted(op, n, h)[p] = Stop(op, n)[p]
  BY OperationIs DEF Conflicted

LEMMA InitInv == Init => IInv
  <1> SUFFICES ASSUME Init PROVE IInv
    OBVIOUS
  <1>1. operation \in Operations /\ at = 1 /\ 1 \in 1 .. Len(operation.stops)
    BY OperationIs DEF Init
  <1>2. head \in [File -> Lines] /\ staged \in [File -> Lines] /\ disk \in [File -> Lines]
    BY <1>1, OperationIs, ConflictedIs DEF Init
  <1>3. unmerged \in SUBSET File
    BY <1>1, OperationIs DEF Init
  <1>4. <<>> \in Seq(RowType)
    BY EmptySeq
  <1>5. Loaded(disk, unmerged, <<>>, None, <<>>, conflicts, selectedPath, displayModel, modifiedFiles)
    <2>1. /\ conflicts \in Seq(Conflict)
          /\ \A i \in DOMAIN conflicts : conflicts[i].lines = disk[conflicts[i].path]
      BY <1>2, <1>3, GetConflictsIs DEF Init
    <2>2. \A i \in DOMAIN conflicts : conflicts[i] \in Conflict
      BY <2>1, ElementOfSeq, LenProperties
    <2>3. conflicts # <<>> => 1 \in DOMAIN conflicts
      BY <2>1, ListedFile
    <2>4. conflicts # <<>> => LinesIn(conflicts, conflicts[1].path) = conflicts[1].lines
      <3>1. \A i, j \in DOMAIN conflicts : conflicts[j].path = conflicts[i].path => conflicts[j] = conflicts[i]
        BY <2>1, <2>2 DEF Conflict
      <3> QED BY <3>1, <2>3, LinesInIs
    <2>5. None \notin Listed(conflicts)
      BY <2>1, ListedFile, NoneIsNoFile
    <2>6. \A to : Cached(<<>>, None, to, <<>>) = <<>>
      BY DEF Cached
    <2>7. \A p : RowsOf(conflicts, <<>>, p) = Rows(LinesIn(conflicts, p))
      BY NothingKept DEF RowsOf
    <2>8. conflicts # <<>> => selectedPath = conflicts[1].path /\ displayModel = Rows(conflicts[1].lines)
      BY DEF Init
    <2>9. conflicts = <<>> => selectedPath = None /\ displayModel = <<>>
      BY DEF Init
    <2>a. conflicts = GetConflicts(disk, unmerged) /\ modifiedFiles = <<>>
      BY DEF Init
    <2> QED BY <2>4, <2>5, <2>6, <2>7, <2>8, <2>9, <2>a DEF Loaded
  <1>6. /\ Shown(disk, unmerged, conflicts, selectedPath, displayModel, modifiedFiles)
        /\ Holds(disk, unmerged, <<>>, None, <<>>, conflicts, selectedPath, displayModel, modifiedFiles)
    BY <1>2, <1>3, <1>4, <1>5, LoadedIs, NothingKept
  <1>7. Types
    <2>1. RepoTypes
      BY <1>1, <1>2, <1>3 DEF RepoTypes
    <2>2. WindowTypes
      BY <1>6 DEF Init, WindowTypes, Shown, Conflict
    <2>3. HistoryTypes
      BY NothingKept, BoundsAssumption DEF Init, HistoryTypes
    <2> QED BY <2>1, <2>2, <2>3 DEF Types
  <1>8. Windowed
    BY <1>6, ShownIsWindowed DEF Init
  <1>9. Mine
    BY NothingKept DEF Init, Mine
  <1>a. ASSUME NEW p \in File, IsHeld(p)
        PROVE  BuildFullContent(Held(p)) = disk[p] /\ disk[p] # <<>>
    BY <1>a, <1>6, NothingKept, NoneIsNoFile DEF Holds, HeldFrom, HeldIn, Held, IsHeld
  <1>b. ASSUME NEW p \in Listed(conflicts)
        PROVE  LinesIn(conflicts, p) = disk[p]
    BY <1>6 DEF Shown
  <1>c. Agreeing
    BY <1>a, <1>b DEF Agreeing, Agrees
  <1>d. ASSUME NEW p \in File, Plain(p)
        PROVE  Resolves(p)
    <2>1. p \in unmerged /\ Stop(operation, 1)[p] \in Lines /\ ~Odd(Stop(operation, 1)[p])
      BY <1>1, <1>d, OperationIs DEF Init, Plain
    <2>2. disk[p] = Stop(operation, 1)[p]
      BY <2>1, <1>1, <1>2, ConflictedIs DEF Init
    <2>3. Even(disk[p])
      BY <2>1, <2>2, PlainIsEven
    <2> QED BY <1>a, <1>b, <2>1, <2>3 DEF Resolves
  <1>e. Resolving
    BY <1>d DEF Resolving, Init
  <1> QED BY <1>7, <1>8, <1>9, <1>c, <1>e DEF IInv, Init

-----------------------------------------------------------------------------
(* Every action keeps the invariant: the edits of the rows. *)

LEMMA SelectedIs ==
  ASSUME IInv, open, displayModel # <<>>
  PROVE  /\ selectedPath \in File /\ selectedPath \in Listed(conflicts) /\ conflicts # <<>>
         /\ "list" \notin overtaken => selectedPath \in unmerged /\ disk[selectedPath] # <<>>
         /\ selectedPath \in unmerged \/ selectedPath \in behind
  <1>1. Windowed /\ conflicts \in Seq(Conflict)
    BY DEF IInv, Types, WindowTypes, Conflict
  <1>2. conflicts # <<>> /\ selectedPath \in Listed(conflicts)
    BY <1>1 DEF Windowed
  <1>3. "list" \notin overtaken => selectedPath \in unmerged /\ disk[selectedPath] # <<>>
    BY <1>1, <1>2 DEF Windowed, Current, Listed
  <1>4. "list" \in overtaken => selectedPath \in behind
    BY <1>1, <1>2 DEF Windowed
  <1>5. selectedPath \in File
    BY <1>1, <1>2, ListedFile
  <1> QED BY <1>2, <1>3, <1>4, <1>5

LEMMA ShowEditedInv ==
  ASSUME IInv, open, displayModel # <<>>, NEW rows, Careful(displayModel, rows), ShowEdited(rows)
  PROVE  IInv'
  <1> DEFINE text == BuildFullContent(rows)
  <1>1. rows \in Seq(RowType) /\ rows # <<>>
    BY DEF Careful
  <1>2. text \in Lines
    BY <1>1, ContentType
  <1>3. /\ selectedPath \in File /\ selectedPath \in Listed(conflicts) /\ conflicts # <<>>
        /\ selectedPath \in unmerged \/ selectedPath \in behind
    BY SelectedIs
  <1>4. /\ DOMAIN mine' = DOMAIN mine \cup {selectedPath} /\ mine'[selectedPath] = text
        /\ \A q \in DOMAIN mine \ {selectedPath} : mine'[q] = mine[q]
    <2>1. mine' = Keep(mine, selectedPath, text)
      BY DEF ShowEdited
    <2> HIDE DEF text
    <2>2. IsKeep(mine', mine, selectedPath, text)
      BY <2>1, KeepIs
    <2> QED BY <2>2 DEF IsKeep
  <1> HIDE DEF text
  <1>5. /\ displayModel' = rows /\ edits < MaxEdits /\ edits' = edits + 1
        /\ UNCHANGED <<operation, at, disk, staged, unmerged, head>>
        /\ UNCHANGED <<open, conflicts, selectedPath, modifiedFiles>>
        /\ UNCHANGED <<outside, behind, missed, overtaken>>
    BY DEF ShowEdited, repo
  <1>6. /\ marked \subseteq marked' /\ marked' \subseteq marked \cup {selectedPath}
        /\ selectedPath \notin marked' => MarksAsText(rows) = MarksAsText(displayModel)
    BY DEF ShowEdited
  <1>7. \A p : (IsHeld(p)' <=> IsHeld(p)) /\ (p # selectedPath => Held(p)' = Held(p))
    BY <1>5 DEF IsHeld, Held
  <1>8. Held(selectedPath) = displayModel /\ IsHeld(selectedPath)
    BY DEF Held, IsHeld
  <1>9. \A p : p = selectedPath => Held(p)' = rows
    BY <1>5 DEF Held
  <1>a. Types'
    <2>1. RepoTypes' /\ WindowTypes'
      BY <1>1, <1>5 DEF IInv, Types, RepoTypes, WindowTypes
    <2>2. edits' \in 0 .. MaxEdits
      BY <1>5, BoundsAssumption DEF IInv, Types, HistoryTypes
    <2>3. \A p \in DOMAIN mine' : mine'[p] \in Lines
      BY <1>2, <1>4 DEF IInv, Types, HistoryTypes
    <2> QED BY <1>3, <1>4, <1>5, <1>6, <2>1, <2>2, <2>3 DEF IInv, Types, HistoryTypes
  <1>b. Windowed'
    BY <1>1, <1>3, <1>5 DEF IInv, Windowed, Current
  <1>c. Mine'
    BY <1>3, <1>4, <1>5, <1>7, <1>8, <1>9 DEF IInv, Mine, text
  <1>d. ASSUME NEW p \in File
        PROVE  Agrees(p)'
    <2>1. Agrees(p)
      BY DEF IInv, Agreeing
    <2>2. CASE p = selectedPath
      <3>1. Made(p)' \/ p \in behind'
        BY <2>2, <1>3, <1>4, <1>5 DEF Made
      <3> QED BY <2>1, <2>2, <3>1, <1>5, <1>7, <1>8 DEF Agrees
    <2>3. CASE p # selectedPath
      <3>1. Made(p)' <=> Made(p)
        BY <2>3, <1>4, <1>5 DEF Made
      <3> QED BY <2>1, <2>3, <3>1, <1>5, <1>7 DEF Agrees
    <2> QED BY <2>2, <2>3
  <1>e. ASSUME at > 0, outside = 0, overtaken = {}, NEW p \in File, Plain(p)'
        PROVE  Resolves(p)'
    <2>1. Plain(p) /\ p \notin marked'
      BY <1>5, <1>6, <1>e DEF Plain
    <2>2. Resolves(p)
      BY <2>1, <1>e DEF IInv, Resolving
    <2>3. Marks(BuildFullContent(Held(p)'))= Marks(BuildFullContent(Held(p)))
      <3>1. CASE p = selectedPath
        BY <3>1, <2>1, <1>6, <1>8, <1>9 DEF Careful
      <3>2. CASE p # selectedPath
        BY <3>2, <1>7
      <3> QED BY <3>1, <3>2
    <2> QED BY <2>2, <2>3, <1>5, <1>7 DEF Resolves
  <1>f. Resolving'
    BY <1>5, <1>e DEF IInv, Resolving
  <1> QED BY <1>5, <1>a, <1>b, <1>c, <1>d, <1>f DEF IInv, Agreeing

LEMMA ShownRows ==
  ASSUME IInv, NEW i, EditableRow(i)
  PROVE  /\ open /\ displayModel \in Seq(RowType) /\ i \in 1 .. Len(displayModel) /\ i \in DOMAIN displayModel
         /\ Len(displayModel) \in Nat
         /\ displayModel # <<>> /\ displayModel[i] \in EditRow /\ displayModel[i].text \in Line
  <1>1. displayModel \in Seq(RowType)
    BY DEF IInv, Types, WindowTypes
  <1>2. i \in 1 .. Len(displayModel)
    BY <1>1, LenProperties DEF EditableRow
  <1>3. displayModel # <<>>
    BY NothingKept DEF EditableRow
  <1>4. displayModel[i] \in RowType
    BY <1>1, <1>2, ElementOfSeq
  <1>5. displayModel[i] \in EditRow /\ displayModel[i].text \in Line
    BY <1>4 DEF EditRow, RowType, EditableRow
  <1> QED BY <1>1, <1>2, <1>3, <1>5, LenProperties DEF EditableRow

LEMMA TypeInv ==
  ASSUME IInv, NEW i, NEW line \in Typed, Type(i, line)
  PROVE  IInv'
  <1>1. /\ EditableRow(i) /\ displayModel[i].role \in Editable /\ ShowEdited([displayModel EXCEPT ![i].text = line])
    BY DEF Type, EditableRow
  <1>2. line \in Line
    BY TextsAssumption
  <1>3. /\ open /\ displayModel \in Seq(RowType) /\ i \in 1 .. Len(displayModel) /\ displayModel # <<>>
    BY <1>1, ShownRows
  <1>4. Careful(displayModel, [displayModel EXCEPT ![i].text = line])
    BY <1>1, <1>2, <1>3, TypeIsCareful
  <1> QED BY <1>1, <1>3, <1>4, ShowEditedInv

LEMMA SplitLineInv ==
  ASSUME IInv, NEW i, NEW cursor \in 0 .. Len(displayModel[i].text), SplitLine(i, cursor)
  PROVE  IInv'
  <1> DEFINE row == displayModel[i]
             l == SubSeq(row.text, 1, cursor)
             m == SubSeq(row.text, cursor + 1, Len(row.text))
             rows == InsertAt([displayModel EXCEPT ![i].text = l], i + 1, [displayModel[i] EXCEPT !.text = m])
  <1>1. EditableRow(i) /\ displayModel[i].role \in Editable /\ ShowEdited(rows)
    BY DEF SplitLine, EditableRow
  <1>2. /\ open /\ displayModel \in Seq(RowType) /\ i \in 1 .. Len(displayModel) /\ displayModel # <<>>
        /\ row.text \in Line
    BY <1>1, ShownRows
  <1>3. l \in Line /\ m \in Line
    BY <1>2, HalvesType
  <1> HIDE DEF l, m
  <1>4. Careful(displayModel, rows)
    BY <1>1, <1>2, <1>3, SplitIsCareful
  <1> HIDE DEF rows
  <1> QED BY <1>1, <1>2, <1>4, ShowEditedInv

LEMMA MergeLineUpInv ==
  ASSUME IInv, NEW i \in DOMAIN displayModel, MergeLineUp(i)
  PROVE  IInv'
  <1> DEFINE l == displayModel[i - 1].text \o displayModel[i].text
             rows == RemoveAt([displayModel EXCEPT ![i - 1].text = l], i)
  <1>1. /\ EditableRow(i) /\ displayModel[i].role \in Editable /\ ShowEdited(rows) /\ i > 1
        /\ displayModel[i - 1].role = displayModel[i].role
    BY DEF MergeLineUp, EditableRow
  <1>2. /\ open /\ displayModel \in Seq(RowType) /\ i \in 1 .. Len(displayModel) /\ displayModel # <<>>
        /\ displayModel[i].text \in Line /\ Len(displayModel) \in Nat
    BY <1>1, ShownRows
  <1>3. displayModel[i - 1].text \in Line
    <2>1. i - 1 \in 1 .. Len(displayModel)
      BY <1>1, <1>2
    <2>2. displayModel[i - 1] \in RowType
      BY <1>2, <2>1, ElementOfSeq
    <2> QED BY <2>2 DEF RowType
  <1>4. l \in Line
    BY <1>2, <1>3, ConcatProperties DEF Line
  <1> HIDE DEF l
  <1>5. Careful(displayModel, rows)
    BY <1>1, <1>2, <1>4, MergeIsCareful
  <1> HIDE DEF rows
  <1> QED BY <1>1, <1>2, <1>5, ShowEditedInv

-----------------------------------------------------------------------------
(* Every action keeps the invariant: the others of the window that leave the *)
(* list of conflicts as it is, and the writes of other programs.             *)

LEMMA StopIs ==
  ASSUME RepoTypes, at > 0
  PROVE  /\ at \in 1 .. Len(operation.stops) /\ Len(operation.stops) \in Nat
         /\ DOMAIN Stop(operation, at) \subseteq File
         /\ \A p \in DOMAIN Stop(operation, at) : Stop(operation, at)[p] \in Lines
         /\ operation.kind \in {"merge", "cherrypick"}
         /\ operation.kind = "merge" => at = 1
  <1>1. operation \in Operations /\ at \in 0 .. Len(operation.stops)
    BY DEF RepoTypes
  <1>2. Len(operation.stops) \in Nat /\ (operation.kind = "merge" => Len(operation.stops) = 1)
    BY <1>1, OperationIs
  <1>3. at \in 1 .. Len(operation.stops)
    BY <1>1, <1>2
  <1>4. DOMAIN Stop(operation, at) \subseteq File
          /\ \A p \in DOMAIN Stop(operation, at) : Stop(operation, at)[p] \in Lines
    BY <1>1, <1>3, StopType
  <1>5. operation.kind \in {"merge", "cherrypick"}
    BY <1>1, KindIs
  <1>6. ASSUME operation.kind = "merge"
        PROVE  at = 1
    <2> DEFINE n == Len(operation.stops)
    <2>1. n = 1 /\ at \in 1 .. n
      BY <1>2, <1>3, <1>6
    <2> HIDE DEF n
    <2> QED BY <2>1
  <1> QED BY <1>2, <1>3, <1>4, <1>5, <1>6

LEMMA WriteOutsideInv ==
  ASSUME IInv, NEW p \in File, NEW lines \in Outside, WriteOutside(p, lines)
  PROVE  IInv'
  <1>1. lines \in Lines /\ lines # <<>>
    BY TextsAssumption
  <1>2. /\ UNCHANGED <<operation, at, staged, unmerged, head>> /\ UNCHANGED <<mine, marked, edits, missed, overtaken>>
        /\ UNCHANGED <<open, conflicts, selectedPath, displayModel, modifiedFiles>>
        /\ disk' = [disk EXCEPT ![p] = lines] /\ behind' = behind \cup {p}
        /\ outside' = outside + 1
    BY DEF WriteOutside, window
  <1>3. disk \in [File -> Lines]
    BY DEF IInv, Types, RepoTypes
  <1>4. disk' \in [File -> Lines] /\ disk'[p] = lines /\ \A q \in File : q # p => disk'[q] = disk[q]
    BY <1>1, <1>2, <1>3
  <1>5. outside' \in Nat /\ outside' # 0
    BY <1>2 DEF IInv, Types, HistoryTypes
  <1>6. Types'
    BY <1>2, <1>4, <1>5 DEF IInv, Types, RepoTypes, WindowTypes, HistoryTypes
  <1>7. \A q : (IsHeld(q)' <=> IsHeld(q)) /\ Held(q)' = Held(q)
    BY <1>2 DEF IsHeld, Held
  <1>8. open => Windowed'
    <2> SUFFICES ASSUME open PROVE Windowed'
      OBVIOUS
    <2>1. Windowed
      BY DEF IInv
    <2>2. \A q \in File : disk[q] # <<>> => disk'[q] # <<>>
      BY <1>1, <1>4
    <2>3. unmerged \subseteq File
      BY DEF IInv, Types, RepoTypes
    <2>4. ASSUME "list" \notin overtaken
          PROVE  Current'
      <3>1. Current
        BY <2>1, <2>4 DEF Windowed
      <3>2. \A i \in DOMAIN conflicts : disk'[conflicts[i].path] # <<>>
        BY <2>2, <2>3, <3>1 DEF Current
      <3>3. \A q \in unmerged \ Listed(conflicts) : disk'[q] = <<>> \/ q \in behind'
        BY <2>3, <3>1, <1>2, <1>4 DEF Current
      <3> QED BY <3>1, <3>2, <3>3, <1>2 DEF Current
    <2> QED BY <2>1, <2>4, <1>2 DEF Windowed
  <1>9. open => Mine'
    BY <1>2, <1>7 DEF IInv, Mine
  <1>a. ASSUME open, NEW q \in File
        PROVE  Agrees(q)'
    <2>1. Agrees(q)
      BY <1>a DEF IInv, Agreeing
    <2>2. CASE q = p
      BY <2>2, <1>1, <1>2, <1>4 DEF Agrees
    <2>3. CASE q # p
      <3>1. (Made(q)' <=> Made(q)) /\ disk'[q] = disk[q] /\ (q \in behind' <=> q \in behind)
        BY <2>3, <1>2, <1>4 DEF Made
      <3> QED BY <2>1, <3>1, <1>2, <1>7 DEF Agrees
    <2> QED BY <2>2, <2>3
  <1> QED BY <1>2, <1>5, <1>6, <1>8, <1>9, <1>a DEF IInv, Agreeing, Resolving

LEMMA AbortInv ==
  ASSUME IInv, Abort
  PROVE  IInv'
  <1>1. /\ open' = FALSE /\ selectedPath' = None /\ displayModel' = <<>> /\ modifiedFiles' = <<>>
        /\ mine' = <<>> /\ behind' = {} /\ UNCHANGED <<conflicts, marked, edits, outside, missed, overtaken>>
    BY DEF Abort
  <1>2. WindowTypes'
    BY <1>1, NothingKept, EmptySeq DEF IInv, Types, WindowTypes
  <1>2a. operation' = operation
    BY DEF Abort, repo
  <1>3. HistoryTypes'
    BY <1>1, <1>2a, NothingKept DEF IInv, Types, HistoryTypes
  <1>4. ~open' /\ DOMAIN mine' = {}
    BY <1>1, NothingKept
  <1>5. RepoTypes' /\ Resolving'
    <2>1. CASE operation.kind = "merge"
      <3>1. UNCHANGED <<operation, at, disk, staged, unmerged, head>>
        BY <2>1 DEF Abort, repo
      <3>2. ASSUME at > 0, outside = 0, overtaken = {}, NEW p \in File, Plain(p)'
            PROVE  Resolves(p)'
        <4>1. Plain(p)
          BY <3>1, <3>2, <1>1 DEF Plain
        <4>2. Resolves(p)
          BY <4>1, <3>2 DEF IInv, Resolving
        <4> QED BY <4>2, <3>1, <1>1, <2>1 DEF Resolves
      <3> QED BY <3>1, <3>2, <1>1 DEF IInv, Types, RepoTypes, Resolving
    <2>2. CASE operation.kind # "merge"
      <3>1. /\ at' = 0 /\ unmerged' = {} /\ head' = operation.head /\ disk' = head' /\ staged' = head'
            /\ operation' = operation
        BY <2>2 DEF Abort
      <3>2. operation \in Operations /\ operation.head \in [File -> Lines] /\ Len(operation.stops) \in Nat
        BY OperationIs DEF IInv, Types, RepoTypes
      <3> QED BY <3>1, <3>2 DEF RepoTypes, Resolving
    <2> QED BY <2>1, <2>2
  <1> QED BY <1>2, <1>3, <1>4, <1>5 DEF IInv, Types

\* What a write leaves.
LEMMA BlankIs == Text(<<>>) \in Lines /\ Text(<<>>) # <<>> /\ Even(Text(<<>>))
  <1>1. Text(<<>>) = << <<>> >>
    BY DEF Text
  <1>2. <<>> \in Lines
    BY EmptySeq DEF Lines
  <1> QED BY <1>1, <1>2, TextType, BlankIsSide DEF Side, Even

LEMMA WrittenIs ==
  ASSUME NEW d \in [File -> Lines], NEW p \in File, NEW lines \in Lines, NEW outcome \in Outcome
  PROVE  /\ Written(d, p, lines, outcome) \in [File -> Lines]
         /\ \A q \in File : q # p => Written(d, p, lines, outcome)[q] = d[q]
         /\ outcome = "written" => Written(d, p, lines, outcome)[p] = lines
         /\ outcome = "unopened" => Written(d, p, lines, outcome) = d
         /\ outcome = "cut" => Written(d, p, lines, outcome)[p] = Text(<<>>)
         /\ Written(d, p, lines, outcome)[p] \in {lines, d[p], Text(<<>>)}
  <1>1. CASE outcome = "written"
    <2>1. Written(d, p, lines, outcome) = [d EXCEPT ![p] = lines]
      BY <1>1 DEF Written
    <2> QED BY <1>1, <2>1
  <1>2. CASE outcome = "unopened"
    <2>1. Written(d, p, lines, outcome) = d
      BY <1>2 DEF Written
    <2> QED BY <1>2, <2>1
  <1>3. CASE outcome = "cut"
    <2> DEFINE blank == Text(<<>>)
    <2>1. Written(d, p, lines, outcome) = [d EXCEPT ![p] = blank]
      BY <1>3 DEF Written
    <2>2. blank \in Lines
      BY BlankIs
    <2> HIDE DEF blank
    <2>3. /\ Written(d, p, lines, outcome) \in [File -> Lines] /\ Written(d, p, lines, outcome)[p] = blank
          /\ \A q \in File : q # p => Written(d, p, lines, outcome)[q] = d[q]
      BY <2>1, <2>2
    <2> QED BY <1>3, <2>3 DEF blank
  <1> QED BY <1>1, <1>2, <1>3 DEF Outcome

\* A write that is done, or is not, leaves no marker where there was none.
LEMMA WrittenNotNone ==
  ASSUME NEW d \in [File -> Lines], NEW p \in File, NEW lines \in Lines, NEW outcome \in Outcome,
         lines # <<>>
  PROVE  \A q \in File : (d[q] # <<>> => Written(d, p, lines, outcome)[q] # <<>>)
  <1> DEFINE w == Written(d, p, lines, outcome)
             blank == Text(<<>>)
  <1>1. blank # <<>>
    BY BlankIs
  <1>2. w[p] \in {lines, d[p], blank} /\ \A q \in File : q # p => w[q] = d[q]
    BY WrittenIs
  <1> HIDE DEF w, blank
  <1>3. \A q \in File : d[q] # <<>> => w[q] # <<>>
    <2> TAKE q \in File
    <2>1. CASE q = p BY <1>1, <1>2, <2>1
    <2>2. CASE q # p BY <1>2, <2>2
    <2> QED BY <2>1, <2>2
  <1> QED BY <1>3 DEF w

LEMMA SavedIs ==
  ASSUME IInv, NEW outcome \in [DOMAIN Visited -> Outcome], SaveAllModifications(outcome)
  PROVE  /\ disk' \in [File -> Lines]
         /\ \A p \in File :
              disk'[p] = IF IsHeld(p) THEN Written(disk, p, BuildFullContent(Held(p)), outcome[p])[p] ELSE disk[p]
         /\ \A p \in File : IsHeld(p) => Held(p) \in Seq(RowType)
         /\ \A p \in File : IsHeld(p) => p \in DOMAIN outcome /\ outcome[p] \in Outcome
  <1> DEFINE NowIn(p) == IF p \notin DOMAIN Visited THEN disk[p]
                         ELSE Written(disk, p, BuildFullContent(Visited[p]), outcome[p])[p]
  <1>1. disk' = [p \in File |-> NowIn(p)]
    BY DEF SaveAllModifications
  <1>2. disk \in [File -> Lines] /\ CacheType(modifiedFiles) /\ displayModel \in Seq(RowType)
    BY DEF IInv, Types, RepoTypes, WindowTypes
  <1>3. ASSUME NEW p \in File
        PROVE  (p \in DOMAIN Visited <=> IsHeld(p)) /\ (IsHeld(p) => Visited[p] = Held(p))
    <2>1. CASE selectedPath = None
      BY <2>1, NoneIsNoFile DEF IsHeld, Held, Visited
    <2>2. CASE selectedPath # None
      <3>1. Visited = Keep(modifiedFiles, selectedPath, displayModel)
        BY <2>2 DEF Visited
      <3>2. IsKeep(Visited, modifiedFiles, selectedPath, displayModel)
        BY <3>1, KeepIs
      <3> QED BY <3>2 DEF IsKeep, IsHeld, Held
    <2> QED BY <2>1, <2>2
  <1>4. \A p \in File : IsHeld(p) => Held(p) \in Seq(RowType)
    BY <1>2 DEF IsHeld, Held, CacheType
  <1>5. \A p \in File : IsHeld(p) => p \in DOMAIN outcome /\ outcome[p] \in Outcome
    BY <1>3
  <1>6. \A p \in File :
          NowIn(p) = IF IsHeld(p) THEN Written(disk, p, BuildFullContent(Held(p)), outcome[p])[p] ELSE disk[p]
    BY <1>3
  <1> HIDE DEF NowIn
  <1>7. ASSUME NEW p \in File
        PROVE  NowIn(p) \in Lines
    <2>1. CASE IsHeld(p)
      <3> DEFINE text == BuildFullContent(Held(p))
                 o == outcome[p]
      <3>1. text \in Lines /\ o \in Outcome
        BY <2>1, <1>4, <1>5, ContentType
      <3>2. NowIn(p) = Written(disk, p, text, o)[p]
        BY <2>1, <1>6
      <3> HIDE DEF text, o
      <3>3. Written(disk, p, text, o) \in [File -> Lines]
        BY <3>1, <1>2, WrittenIs
      <3> QED BY <3>2, <3>3
    <2>2. CASE ~IsHeld(p)
      BY <2>2, <1>2, <1>6
    <2> QED BY <2>1, <2>2
  <1> QED BY <1>1, <1>4, <1>5, <1>6, <1>7

LEMMA SaveAllInv ==
  ASSUME IInv, NEW outcome \in [DOMAIN Visited -> Outcome], SaveAllModifications(outcome)
  PROVE  IInv'
  <1>1. /\ open /\ ~open' /\ open' = FALSE /\ mine' = <<>>
        /\ UNCHANGED <<conflicts, selectedPath, displayModel, modifiedFiles>>
        /\ UNCHANGED <<operation, at, staged, unmerged, head>>
        /\ UNCHANGED <<marked, edits, outside, behind, missed, overtaken>>
    BY DEF SaveAllModifications, Close
  <1>2. /\ disk' \in [File -> Lines]
        /\ \A p \in File :
             disk'[p] = IF IsHeld(p) THEN Written(disk, p, BuildFullContent(Held(p)), outcome[p])[p] ELSE disk[p]
        /\ \A p \in File : IsHeld(p) => Held(p) \in Seq(RowType)
        /\ \A p \in File : IsHeld(p) => outcome[p] \in Outcome
    BY SavedIs
  <1>3. Types'
    BY <1>1, <1>2, NothingKept DEF IInv, Types, RepoTypes, WindowTypes, HistoryTypes
  <1>4. ASSUME at > 0, outside = 0, overtaken = {}, NEW p \in File, Plain(p)'
        PROVE  Resolves(p)'
    <2>1. Plain(p)
      BY <1>1, <1>4 DEF Plain
    <2>2. Resolves(p)
      BY <2>1, <1>4 DEF IInv, Resolving
    <2>3. ASSUME p \in unmerged, operation.kind = "merge"
          PROVE  Even(disk'[p])
      <3>1. Even(disk[p]) /\ disk \in [File -> Lines] /\ disk[p] \in Lines
        BY <1>1, <1>4, <2>2, <2>3 DEF IInv, Types, RepoTypes, Resolves
      <3>2. CASE IsHeld(p)
        <4> DEFINE text == BuildFullContent(Held(p))
                   o == outcome[p]
        <4>1. disk[p] # <<>>
          BY <2>3, <3>2, <1>1 DEF IInv, Agreeing, Agrees
        <4>2. Marks(text) = Marks(disk[p])
          BY <4>1, <3>2, <2>2, <2>3, <1>1 DEF Resolves
        <4>3. text \in Lines /\ o \in Outcome
          BY <3>2, <1>2, ContentType
        <4>4. Even(text)
          BY <3>1, <4>2, <4>3, EvenByMarks
        <4>5. disk'[p] = Written(disk, p, text, o)[p]
          BY <3>2, <1>2
        <4> HIDE DEF text, o
        <4>6. disk'[p] \in {text, disk[p], Text(<<>>)}
          BY <3>1, <4>3, <4>5, WrittenIs
        <4> QED BY <3>1, <4>4, <4>6, BlankIs
      <3>3. CASE ~IsHeld(p)
        BY <3>1, <3>3, <1>2
      <3> QED BY <3>2, <3>3
    <2> QED BY <2>2, <2>3, <1>1 DEF Resolves
  <1>5. Resolving'
    BY <1>1, <1>4 DEF IInv, Resolving
  <1> QED BY <1>1, <1>3, <1>5, NothingKept DEF IInv

-----------------------------------------------------------------------------
(* Every action keeps the invariant: showing another file. *)

\* The cache when the file shown is left, and the rows of the file p then shown.
LEMMA LeftIs ==
  ASSUME IInv, open, NEW p \in Listed(conflicts), NEW cache, NEW rows,
         cache = Cached(modifiedFiles, selectedPath, p, displayModel),
         rows = IF p = selectedPath THEN displayModel ELSE RowsOf(conflicts, cache, p)
  PROVE  /\ p \in File /\ conflicts # <<>>
         /\ "list" \notin overtaken => p \in unmerged /\ disk[p] # <<>>
         /\ p \in unmerged \/ p \in behind
         /\ CacheType(cache) /\ rows \in Seq(RowType) /\ rows # <<>>
         /\ \A q \in File : q # p => (q \in DOMAIN cache <=> IsHeld(q)) /\ (IsHeld(q) => cache[q] = Held(q))
         /\ IsHeld(p) => rows = Held(p)
         /\ ~IsHeld(p) => rows = Rows(LinesIn(conflicts, p)) /\ BuildFullContent(rows) = LinesIn(conflicts, p)
         /\ LinesIn(conflicts, p) \in Lines /\ LinesIn(conflicts, p) # <<>>
  <1>1. Windowed /\ conflicts \in Seq(Conflict) /\ CacheType(modifiedFiles) /\ displayModel \in Seq(RowType)
    BY DEF IInv, Types, WindowTypes, Conflict
  <1>2. Listed(conflicts) \subseteq File /\ (conflicts = <<>> => Listed(conflicts) = {})
    BY <1>1, ListedFile
  <1>3. displayModel # <<>> /\ selectedPath \in Listed(conflicts)
    BY <1>1, <1>2 DEF Windowed
  <1>4. selectedPath \in File /\ p \in File /\ selectedPath # None
    BY <1>2, <1>3, NoneIsNoFile
  <1>5. PICK i \in DOMAIN conflicts : conflicts[i].path = p
    BY DEF Listed
  <1>6. /\ conflicts # <<>> /\ conflicts[i].lines # <<>>
        /\ "list" \notin overtaken => p \in unmerged /\ disk[p] # <<>>
        /\ p \in unmerged \/ p \in behind
    BY <1>1, <1>2, <1>5 DEF Windowed, Current
  <1>7. LinesIn(conflicts, p) = conflicts[i].lines
    <2>1. \A j \in DOMAIN conflicts : conflicts[j].path = conflicts[i].path => conflicts[j] = conflicts[i]
      BY <1>1 DEF Windowed
    <2> QED BY <2>1, <1>5, LinesInIs
  <1>8. conflicts[i].lines \in Lines
    <2>1. conflicts[i] \in Conflict
      BY <1>1, <1>5, ElementOfSeq, LenProperties
    <2> QED BY <2>1 DEF Conflict
  <1>9. LinesIn(conflicts, p) \in Lines /\ LinesIn(conflicts, p) # <<>>
    BY <1>6, <1>7, <1>8
  <1>a. \/ p = selectedPath /\ cache = modifiedFiles
        \/ p # selectedPath /\ IsKeep(cache, modifiedFiles, selectedPath, displayModel) /\ CacheType(cache)
    <2>1. CASE p = selectedPath
      BY <2>1 DEF Cached
    <2>2. CASE p # selectedPath
      <3>1. cache = Keep(modifiedFiles, selectedPath, displayModel)
        BY <2>2, <1>3, <1>4 DEF Cached
      <3> QED BY <2>2, <3>1, <1>1, <1>3, <1>4, KeepIs, KeepType
    <2> QED BY <2>1, <2>2
  <1>b. CacheType(cache)
    BY <1>a, <1>1
  <1>c. ASSUME NEW q \in File, q # p
        PROVE  (q \in DOMAIN cache <=> IsHeld(q)) /\ (IsHeld(q) => cache[q] = Held(q))
    BY <1>a, <1>c DEF IsKeep, IsHeld, Held
  <1>d. p # selectedPath => (p \in DOMAIN cache <=> IsHeld(p)) /\ (IsHeld(p) => cache[p] = Held(p))
    BY <1>a DEF IsKeep, IsHeld, Held
  <1>e. /\ rows \in Seq(RowType) /\ rows # <<>> /\ (IsHeld(p) => rows = Held(p))
        /\ ~IsHeld(p) => rows = Rows(LinesIn(conflicts, p)) /\ BuildFullContent(rows) = LinesIn(conflicts, p)
    <2>1. CASE p = selectedPath
      BY <2>1, <1>1, <1>3 DEF IsHeld, Held
    <2>2. CASE p # selectedPath /\ p \in DOMAIN cache
      <3>1. rows = cache[p]
        BY <2>2 DEF RowsOf
      <3> QED BY <3>1, <2>2, <1>b, <1>d DEF CacheType
    <2>3. CASE p # selectedPath /\ p \notin DOMAIN cache
      <3>1. rows = Rows(LinesIn(conflicts, p))
        BY <2>3 DEF RowsOf
      <3>2. Rows(LinesIn(conflicts, p)) \in Seq(RowType) /\ Rows(LinesIn(conflicts, p)) # <<>>
              /\ BuildFullContent(Rows(LinesIn(conflicts, p))) = LinesIn(conflicts, p)
        BY <1>9, RowsAreText
      <3> QED BY <3>1, <3>2, <2>3, <1>d
    <2> QED BY <2>1, <2>2, <2>3
  <1> QED BY <1>4, <1>6, <1>9, <1>b, <1>c, <1>e

\* No marker of a text that is plain is lost or gained in the window.
LEMMA MarksOfShown ==
  ASSUME IInv, open, at > 0, outside = 0, overtaken = {}, NEW p \in Listed(conflicts), p \in unmerged, p \in File,
         disk[p] # <<>>, Plain(p), NEW rows,
         IsHeld(p) => rows = Held(p), ~IsHeld(p) => BuildFullContent(rows) = LinesIn(conflicts, p)
  PROVE  /\ Resolves(p) /\ Even(disk[p]) /\ Marks(LinesIn(conflicts, p)) = Marks(disk[p])
         /\ Marks(BuildFullContent(rows)) = Marks(disk[p])
  <1>1. Resolves(p)
    BY DEF IInv, Resolving
  <1>2. Even(disk[p]) /\ Marks(LinesIn(conflicts, p)) = Marks(disk[p])
    BY <1>1 DEF Resolves
  <1>3. IsHeld(p) => Marks(BuildFullContent(Held(p))) = Marks(disk[p])
    BY <1>1 DEF Resolves
  <1> QED BY <1>1, <1>2, <1>3

LEMMA SelectFileInv ==
  ASSUME IInv, NEW p \in File, SelectFile(p)
  PROVE  IInv'
  <1> DEFINE cache == Cached(modifiedFiles, selectedPath, p, displayModel)
             rows == RowsOf(conflicts, cache, p)
  <1>1. /\ open /\ p \in Listed(conflicts) /\ p # selectedPath
        /\ modifiedFiles' = cache /\ selectedPath' = p /\ displayModel' = rows
        /\ UNCHANGED <<operation, at, disk, staged, unmerged, head>> /\ UNCHANGED <<open, conflicts>>
        /\ UNCHANGED <<mine, marked, edits, outside, behind, missed, overtaken>>
    BY DEF SelectFile, Show, repo, history
  <1>2. rows = IF p = selectedPath THEN displayModel ELSE RowsOf(conflicts, cache, p)
    BY <1>1
  <1> HIDE DEF rows
  <1>3. /\ "list" \notin overtaken => p \in unmerged /\ disk[p] # <<>>
        /\ p \in unmerged \/ p \in behind
        /\ conflicts # <<>> /\ CacheType(cache) /\ rows \in Seq(RowType) /\ rows # <<>>
        /\ \A q \in File : q # p => (q \in DOMAIN cache <=> IsHeld(q)) /\ (IsHeld(q) => cache[q] = Held(q))
        /\ IsHeld(p) => rows = Held(p)
        /\ ~IsHeld(p) => BuildFullContent(rows) = LinesIn(conflicts, p)
    BY <1>1, <1>2, LeftIs
  <1> HIDE DEF cache
  <1>4. \A q \in File : q # p => (IsHeld(q)' <=> IsHeld(q)) /\ (IsHeld(q) => Held(q)' = Held(q))
    BY <1>1, <1>3 DEF IsHeld, Held
  <1>5. IsHeld(p)' /\ Held(p)' = rows
    BY <1>1 DEF IsHeld, Held
  <1>6. Types'
    BY <1>1, <1>3 DEF IInv, Types, RepoTypes, WindowTypes, HistoryTypes
  <1>7. Windowed'
    BY <1>1, <1>3 DEF IInv, Windowed, Current
  <1>8. Mine'
    <2> SUFFICES ASSUME NEW q \in DOMAIN mine, q \in unmerged, q \notin missed
                 PROVE  IsHeld(q)' /\ mine[q] = BuildFullContent(Held(q)')
      BY <1>1 DEF Mine
    <2>1. q \in File /\ IsHeld(q) /\ mine[q] = BuildFullContent(Held(q))
      BY <1>1 DEF IInv, Types, HistoryTypes, Mine
    <2>2. CASE q = p
      BY <2>1, <2>2, <1>3, <1>5
    <2>3. CASE q # p
      BY <2>1, <2>3, <1>4
    <2> QED BY <2>2, <2>3
  <1>9. ASSUME NEW q \in File
        PROVE  Agrees(q)'
    <2>1. Agrees(q) /\ (Made(q)' <=> Made(q))
      BY <1>1 DEF IInv, Agreeing, Made
    <2>2. CASE q = p
      <3>1. IsHeld(p) => BuildFullContent(rows) = BuildFullContent(Held(p))
        BY <1>3
      <3>2. operation.kind = "merge" => disk[p] # <<>>
        BY <1>1, <1>3 DEF IInv, Types, HistoryTypes
      <3> QED BY <2>1, <2>2, <3>1, <3>2, <1>1, <1>3, <1>5 DEF Agrees
    <2>3. CASE q # p
      BY <2>1, <2>3, <1>1, <1>4 DEF Agrees
    <2> QED BY <2>2, <2>3
  <1>a. ASSUME at > 0, outside = 0, overtaken = {}, NEW q \in File, Plain(q)'
        PROVE  Resolves(q)'
    <2>1. Plain(q)
      BY <1>1, <1>a DEF Plain
    <2>2. Resolves(q)
      BY <2>1, <1>a DEF IInv, Resolving
    <2>3. CASE q = p
      <3>1. Marks(BuildFullContent(rows)) = Marks(disk[p])
        BY <2>1, <2>3, <1>1, <1>3, <1>a, MarksOfShown
      <3> QED BY <2>2, <2>3, <3>1, <1>1, <1>5 DEF Resolves
    <2>4. CASE q # p
      BY <2>2, <2>4, <1>1, <1>4 DEF Resolves
    <2> QED BY <2>3, <2>4
  <1>b. Resolving'
    BY <1>1, <1>a DEF IInv, Resolving
  <1> QED BY <1>1, <1>6, <1>7, <1>8, <1>9, <1>b DEF IInv, Agreeing

-----------------------------------------------------------------------------
(* Every action keeps the invariant: staging a file. *)

LEMMA StageFailsInv ==
  ASSUME IInv, open, NEW p \in Listed(conflicts), NEW cache, NEW rows, NEW outcome \in Outcome,
         cache = Cached(modifiedFiles, selectedPath, p, displayModel),
         rows = IF p = selectedPath THEN displayModel ELSE RowsOf(conflicts, cache, p),
         StageFails(p, cache, rows, outcome)
  PROVE  IInv'
  <1> DEFINE text == BuildFullContent(rows)
  <1>1. /\ p \in File /\ CacheType(cache) /\ conflicts # <<>>
        /\ "list" \notin overtaken => p \in unmerged /\ disk[p] # <<>>
        /\ p \in unmerged \/ p \in behind
        /\ rows \in Seq(RowType) /\ rows # <<>>
        /\ \A q \in File : q # p => (q \in DOMAIN cache <=> IsHeld(q)) /\ (IsHeld(q) => cache[q] = Held(q))
        /\ IsHeld(p) => rows = Held(p)
        /\ ~IsHeld(p) => text = LinesIn(conflicts, p)
    BY LeftIs
  <1>2. text \in Lines /\ text # <<>>
    BY <1>1, ContentType
  <1>3. /\ modifiedFiles' = cache /\ selectedPath' = p /\ displayModel' = rows
        /\ UNCHANGED <<operation, at, staged, unmerged, head>> /\ UNCHANGED <<open, conflicts>>
        /\ UNCHANGED <<marked, edits, outside, behind, overtaken>>
        /\ disk' = Written(disk, p, text, outcome) /\ mine' = Keep(mine, p, text)
        /\ missed' = IF outcome = "cut" THEN missed \cup {p} ELSE missed
    BY DEF StageFails, Misses
  <1>4. disk \in [File -> Lines] /\ unmerged \subseteq File
    BY DEF IInv, Types, RepoTypes
  <1> HIDE DEF text
  <1>5. /\ disk' \in [File -> Lines] /\ \A q \in File : q # p => disk'[q] = disk[q]
        /\ outcome = "written" => disk'[p] = text
        /\ outcome = "unopened" => disk'[p] = disk[p]
        /\ \A q \in File : disk[q] # <<>> => disk'[q] # <<>>
    BY <1>1, <1>2, <1>3, <1>4, WrittenIs, WrittenNotNone
  <1>6. \A q \in File : q # p => (IsHeld(q)' <=> IsHeld(q)) /\ (IsHeld(q) => Held(q)' = Held(q))
    BY <1>1, <1>3 DEF IsHeld, Held
  <1>7. IsHeld(p)' /\ Held(p)' = rows
    BY <1>3 DEF IsHeld, Held
  <1>e. /\ DOMAIN mine' = DOMAIN mine \cup {p} /\ mine'[p] = text
        /\ \A q \in DOMAIN mine \ {p} : mine'[q] = mine[q]
    <2>1. IsKeep(mine', mine, p, text)
      BY <1>3, KeepIs
    <2> QED BY <2>1 DEF IsKeep
  <1>f. /\ missed \subseteq missed' /\ missed' \subseteq missed \cup {p}
        /\ p \notin missed' => outcome \in {"written", "unopened"}
    BY <1>3 DEF Outcome
  <1>8. Types'
    <2>1. RepoTypes'
      BY <1>3, <1>5 DEF IInv, Types, RepoTypes
    <2>2. WindowTypes'
      BY <1>1, <1>3 DEF IInv, Types, WindowTypes
    <2>3. HistoryTypes'
      BY <1>1, <1>2, <1>3, <1>e, <1>f DEF IInv, Types, HistoryTypes
    <2> QED BY <2>1, <2>2, <2>3 DEF Types
  <1>9. Windowed'
    <2>1. Windowed
      BY DEF IInv
    <2>2. ASSUME "list" \notin overtaken
          PROVE  Current'
      <3>1. Current
        BY <2>1, <2>2 DEF Windowed
      <3>2. \A i \in DOMAIN conflicts : disk'[conflicts[i].path] # <<>>
        BY <3>1, <1>4, <1>5 DEF Current
      <3>3. \A q \in unmerged \ Listed(conflicts) : disk'[q] = <<>> \/ q \in behind
        BY <3>1, <1>4, <1>5 DEF Current
      <3> QED BY <3>1, <3>2, <3>3, <1>3 DEF Current
    <2> QED BY <2>1, <2>2, <1>1, <1>3 DEF Windowed
  <1>a. Mine'
    <2> SUFFICES ASSUME NEW q \in DOMAIN mine', q \in unmerged, q \notin missed'
                 PROVE  IsHeld(q)' /\ mine'[q] = BuildFullContent(Held(q)')
      BY <1>3 DEF Mine
    <2>1. CASE q = p
      BY <2>1, <1>7, <1>e DEF text
    <2>2. CASE q # p
      <3>1. q \in DOMAIN mine /\ q \in File /\ mine'[q] = mine[q] /\ q \notin missed
        BY <2>2, <1>4, <1>e, <1>f
      <3>2. IsHeld(q) /\ mine[q] = BuildFullContent(Held(q))
        BY <3>1 DEF IInv, Mine
      <3> QED BY <2>2, <3>1, <3>2, <1>6
    <2> QED BY <2>1, <2>2
  <1>b. ASSUME NEW q \in File
        PROVE  Agrees(q)'
    <2>1. CASE q = p
      <3>1. Made(p)' \/ p \in behind'
        BY <1>1, <1>3, <1>e DEF Made
      <3>2. operation.kind = "merge" => disk'[p] # <<>>
        BY <1>1, <1>5 DEF IInv, Types, HistoryTypes
      <3> QED BY <2>1, <3>1, <3>2, <1>3, <1>7 DEF Agrees
    <2>2. CASE q # p
      <3>1. Agrees(q) /\ (Made(q)' <=> Made(q)) /\ disk'[q] = disk[q] /\ (q \in missed' <=> q \in missed)
        BY <2>2, <1>3, <1>5, <1>e, <1>f DEF IInv, Agreeing, Made
      <3> QED BY <2>2, <3>1, <1>3, <1>6 DEF Agrees
    <2> QED BY <2>1, <2>2
  <1>c. ASSUME at > 0, outside = 0, overtaken = {}, NEW q \in File, Plain(q)'
        PROVE  Resolves(q)'
    <2>1. Plain(q) /\ q \notin missed'
      BY <1>3, <1>c, <1>f DEF Plain
    <2>2. Resolves(q)
      BY <2>1, <1>c DEF IInv, Resolving
    <2>3. CASE q = p
      <3>1. p \in unmerged /\ disk[p] # <<>>
        BY <1>1, <1>c
      <3>2. /\ Even(disk[p]) /\ Marks(LinesIn(conflicts, p)) = Marks(disk[p]) /\ Marks(text) = Marks(disk[p])
        BY <2>1, <2>3, <3>1, <1>1, <1>c, MarksOfShown DEF text
      <3>3. Even(text)
        BY <3>2, <1>1, <1>2, <1>4, EvenByMarks
      <3>4. BuildFullContent(Held(p)') = text
        BY <1>7 DEF text
      <3>5. disk'[p] = text \/ disk'[p] = disk[p]
        BY <2>1, <2>3, <1>5, <1>f
      <3> QED BY <2>2, <2>3, <3>1, <3>2, <3>3, <3>4, <3>5, <1>3 DEF Resolves
    <2>4. CASE q # p
      BY <2>2, <2>4, <1>3, <1>5, <1>6 DEF Resolves
    <2> QED BY <2>3, <2>4
  <1>d. Resolving'
    BY <1>3, <1>c DEF IInv, Resolving
  <1> QED BY <1>3, <1>8, <1>9, <1>a, <1>b, <1>d DEF IInv, Agreeing

\* A text without blocks, whose markers would be those of blocks, has none.
LEMMA NoneIsStaged ==
  ASSUME NEW lines \in Lines, NEW seen \in Lines, NEW text \in Lines,
         Even(lines), Marks(seen) = Marks(lines), Marks(text) = Marks(lines),
         ParseConflictBlocks(seen) = <<>>
  PROVE  \A i \in DOMAIN text : ~IsMark(text[i])
  <1>1. Even(seen)
    BY EvenByMarks
  <1>2. \A k \in 1 .. Len(seen) : ~IsMark(seen[k])
    BY <1>1, EvenWithoutBlocks
  <1>3. Marks(seen) = <<>>
    BY <1>2, UnmarkedIs DEF Unmarked
  <1>4. Unmarked(text)
    BY <1>3, UnmarkedIs
  <1> QED BY <1>4, LenProperties DEF Unmarked

\* What is held after the conflicts have been loaded again, in the state after.
LEMMA HeldNext ==
  ASSUME NEW cache, NEW from, NEW rows,
         Holds(disk', unmerged', cache, from, rows, conflicts', selectedPath', displayModel', modifiedFiles')
  PROVE  /\ \A q \in File : IsHeld(q)' =>
              \/ q \in DOMAIN cache /\ Held(q)' = cache[q]
              \/ /\ q = from /\ Held(q)' = rows /\ q \in DOMAIN modifiedFiles'
                 /\ (q \notin unmerged' \/ disk'[q] = <<>>)
              \/ /\ q = selectedPath' /\ q \in unmerged' /\ disk'[q] # <<>> /\ Held(q)' = Rows(disk'[q])
                 /\ BuildFullContent(Held(q)') = disk'[q]
         /\ \A q \in DOMAIN cache : IsHeld(q)' /\ (q # from => Held(q)' = cache[q])
         /\ \A q \in DOMAIN modifiedFiles' : q \in DOMAIN cache \/ q = from
         /\ \A q \in DOMAIN cache : q \in DOMAIN modifiedFiles'
         /\ from \in Listed(conflicts') => selectedPath' = from /\ modifiedFiles' = cache
  BY DEF Holds, HeldFrom, HeldIn, IsHeld, Held

LEMMA PerformStageInv ==
  ASSUME IInv, open, NEW p, CanSave(p), NEW cache, NEW rows, NEW outcome \in Outcome,
         cache = Cached(modifiedFiles, selectedPath, p, displayModel),
         rows = IF p = selectedPath THEN displayModel ELSE RowsOf(conflicts, cache, p),
         PerformStage(p, cache, rows, outcome)
  PROVE  IInv'
  <1> DEFINE text == BuildFullContent(rows)
             left == Forget(cache, p)
  <1>1. p \in Listed(conflicts) /\ ParseConflictBlocks(LinesIn(conflicts, p)) = <<>>
    BY DEF CanSave
  <1>2. /\ p \in File /\ CacheType(cache)
        /\ "list" \notin overtaken => p \in unmerged /\ disk[p] # <<>>
        /\ rows \in Seq(RowType) /\ rows # <<>>
        /\ \A q \in File : q # p => (q \in DOMAIN cache <=> IsHeld(q)) /\ (IsHeld(q) => cache[q] = Held(q))
        /\ IsHeld(p) => rows = Held(p)
        /\ ~IsHeld(p) => text = LinesIn(conflicts, p)
        /\ LinesIn(conflicts, p) \in Lines
    BY <1>1, LeftIs
  <1>3. text \in Lines /\ text # <<>>
    BY <1>2, ContentType
  <1>4. CacheType(left) /\ DOMAIN left = DOMAIN cache \ {p} /\ \A q \in DOMAIN cache \ {p} : left[q] = cache[q]
    BY <1>2, ForgetIs, ForgetType
  <1>5. DOMAIN mine' = DOMAIN mine \ {p} /\ \A q \in DOMAIN mine \ {p} : mine'[q] = mine[q]
    BY ForgetIs DEF PerformStage
  <1>6. /\ disk' = Written(disk, p, text, outcome) /\ staged' = [staged EXCEPT ![p] = disk'[p]]
        /\ outcome # "unopened" /\ missed' = IF outcome = "cut" THEN missed \cup {p} ELSE missed
        /\ unmerged' = unmerged \ {p} /\ behind' = behind \cap DOMAIN modifiedFiles'
        /\ overtaken' = overtaken \ {"list"}
        /\ LoadConflicts(disk', unmerged', left, p, rows)
        /\ UNCHANGED <<operation, at, head, open, marked, edits, outside>>
    BY DEF PerformStage, Reread, Misses
  <1>7. disk \in [File -> Lines] /\ staged \in [File -> Lines] /\ unmerged \subseteq File
    BY DEF IInv, Types, RepoTypes
  <1> HIDE DEF text, left
  <1>8. /\ disk' \in [File -> Lines] /\ \A q \in File : q # p => disk'[q] = disk[q]
        /\ disk'[p] # <<>> /\ (p \notin missed' => disk'[p] = text)
        /\ missed \subseteq missed' /\ missed' \subseteq missed \cup {p}
    BY <1>2, <1>3, <1>6, <1>7, WrittenIs, BlankIs DEF Outcome
  <1>k. /\ staged' \in [File -> Lines] /\ staged'[p] = disk'[p]
        /\ \A q \in File : q # p => staged'[q] = staged[q]
    BY <1>2, <1>6, <1>7, <1>8
  <1>9. unmerged' \in SUBSET File
    BY <1>6, <1>7
  <1>a. /\ Shown(disk', unmerged', conflicts', selectedPath', displayModel', modifiedFiles')
        /\ Holds(disk', unmerged', left, p, rows, conflicts', selectedPath', displayModel', modifiedFiles')
    BY <1>2, <1>4, <1>6, <1>8, <1>9, LoadsIs
  <1>b. /\ \A q \in File : IsHeld(q)' =>
              \/ q \in DOMAIN left /\ Held(q)' = left[q]
              \/ q = p /\ Held(q)' = rows /\ (q \notin unmerged' \/ disk'[q] = <<>>)
              \/ q = selectedPath' /\ q \in unmerged' /\ disk'[q] # <<>> /\ BuildFullContent(Held(q)') = disk'[q]
        /\ \A q \in DOMAIN left : IsHeld(q)' /\ (q # p => Held(q)' = left[q])
        /\ \A q \in DOMAIN left : q \in DOMAIN modifiedFiles'
    BY <1>a, HeldNext
  <1>c. \A q \in File : IsHeld(q)' =>
              \/ q # p /\ IsHeld(q) /\ Held(q)' = Held(q) /\ q \in DOMAIN modifiedFiles'
              \/ q = p /\ Held(q)' = rows
              \/ q # p /\ disk'[q] # <<>> /\ BuildFullContent(Held(q)') = disk'[q]
    BY <1>2, <1>4, <1>6, <1>b
  <1>d. \A q \in File : q # p /\ IsHeld(q) => IsHeld(q)' /\ Held(q)' = Held(q)
    BY <1>2, <1>4, <1>b
  <1>e. Types'
    <2>1. RepoTypes'
      BY <1>6, <1>8, <1>9, <1>k DEF IInv, Types, RepoTypes
    <2>2. WindowTypes'
      BY <1>a, <1>6, ShownIsTyped DEF IInv, Types, WindowTypes
    <2>3. HistoryTypes'
      BY <1>2, <1>5, <1>6, <1>8 DEF IInv, Types, HistoryTypes
    <2> QED BY <2>1, <2>2, <2>3 DEF Types
  <1>f. Windowed'
    <2>1. "list" \notin overtaken'
      BY <1>6
    <2> QED BY <2>1, <1>a, ShownIsWindowedNext
  <1>g. Mine'
    <2> SUFFICES ASSUME NEW q \in DOMAIN mine', q \in unmerged', q \notin missed'
                 PROVE  IsHeld(q)' /\ mine'[q] = BuildFullContent(Held(q)')
      BY DEF Mine
    <2>1. q \in DOMAIN mine /\ q # p /\ mine'[q] = mine[q] /\ q \in unmerged /\ q \notin missed
      BY <1>5, <1>6, <1>8
    <2>2. q \in File /\ IsHeld(q) /\ mine[q] = BuildFullContent(Held(q))
      BY <2>1 DEF IInv, Types, HistoryTypes, Mine
    <2> QED BY <2>1, <2>2, <1>d
  <1>h. ASSUME NEW q \in File
        PROVE  Agrees(q)'
    <2>1. q \in Listed(conflicts') => LinesIn(conflicts', q) = disk'[q]
      BY <1>a DEF Shown
    <2>2. CASE q # p /\ IsHeld(q) /\ Held(q)' = Held(q) /\ q \in DOMAIN modifiedFiles'
      <3>1. Agrees(q) /\ disk'[q] = disk[q] /\ (q \in missed' <=> q \in missed)
        BY <2>2, <1>8 DEF IInv, Agreeing
      <3>2. (Made(q)' <=> Made(q)) /\ (q \in behind' <=> q \in behind)
        BY <2>2, <1>5, <1>6 DEF Made
      <3> QED BY <2>1, <2>2, <3>1, <3>2, <1>6, <1>d DEF Agrees
    <2>3. CASE q = p /\ (IsHeld(q)' => Held(q)' = rows)
      BY <2>1, <2>3, <1>3, <1>8 DEF Agrees, text
    <2>4. CASE IsHeld(q)' => disk'[q] # <<>> /\ BuildFullContent(Held(q)') = disk'[q]
      BY <2>1, <2>4 DEF Agrees
    <2> QED BY <2>2, <2>3, <2>4, <1>c
  <1>i. ASSUME at > 0, outside = 0, overtaken = {}, NEW q \in File, Plain(q)'
        PROVE  Resolves(q)'
    <2>1. Plain(q) /\ q \notin missed'
      BY <1>6, <1>8, <1>i DEF Plain
    <2>2. Resolves(q)
      BY <2>1, <1>i DEF IInv, Resolving
    <2>3. q \in Listed(conflicts') => LinesIn(conflicts', q) = disk'[q]
      BY <1>a DEF Shown
    <2>4. CASE q = p
      <3>1. /\ Even(disk[p]) /\ Marks(LinesIn(conflicts, p)) = Marks(disk[p]) /\ Marks(text) = Marks(disk[p])
        <4>1. p \in unmerged /\ disk[p] # <<>>
          BY <1>2, <1>i
        <4> QED BY <2>1, <2>4, <4>1, <1>1, <1>2, <1>i, MarksOfShown DEF text
      <3>2. disk[p] \in Lines
        BY <1>2, <1>7
      <3>3. \A i \in DOMAIN text : ~IsMark(text[i])
        BY <3>1, <3>2, <1>1, <1>2, <1>3, NoneIsStaged
      <3>4. p \notin unmerged'
        BY <1>6
      <3>5. staged'[p] = text
        BY <2>1, <2>4, <1>8, <1>k
      <3> QED BY <2>4, <3>3, <3>4, <3>5 DEF Resolves
    <2>5. CASE q # p
      <3>1. disk'[q] = disk[q] /\ staged'[q] = staged[q] /\ (q \in unmerged' <=> q \in unmerged)
        BY <2>5, <1>6, <1>8, <1>k
      <3>2. \/ IsHeld(q)' => IsHeld(q) /\ Held(q)' = Held(q)
            \/ IsHeld(q)' => BuildFullContent(Held(q)') = disk'[q]
        BY <2>5, <1>c
      <3> QED BY <2>2, <2>3, <3>1, <3>2, <1>6 DEF Resolves
    <2> QED BY <2>4, <2>5
  <1>j. Resolving'
    <2>1. overtaken' = {} => overtaken = {}
      BY <1>6 DEF IInv, Types, HistoryTypes
    <2> QED BY <2>1, <1>6, <1>i DEF IInv, Resolving
  <1> QED BY <1>6, <1>e, <1>f, <1>g, <1>h, <1>j DEF IInv, Agreeing

LEMMA SaveAndStageInv ==
  ASSUME IInv, NEW p, NEW outcome \in Outcome, SaveAndStage(p, outcome)
  PROVE  IInv'
  <1> DEFINE cache == Cached(modifiedFiles, selectedPath, p, displayModel)
             rows == IF p = selectedPath THEN displayModel ELSE RowsOf(conflicts, cache, p)
  <1>1. /\ open /\ CanSave(p) /\ p \in Listed(conflicts)
        /\ PerformStage(p, cache, rows, outcome) \/ StageFails(p, cache, rows, outcome)
    BY DEF SaveAndStage, CanSave
  <1>2. CASE PerformStage(p, cache, rows, outcome)
    BY <1>1, <1>2, PerformStageInv
  <1>3. CASE StageFails(p, cache, rows, outcome)
    BY <1>1, <1>3, StageFailsInv
  <1> QED BY <1>1, <1>2, <1>3

-----------------------------------------------------------------------------
(* Every action keeps the invariant: accepting a side of a block. *)

LEMMA AcceptedIs ==
  ASSUME IInv, open, displayModel # <<>>, NEW lines \in Lines, mine' = Keep(mine, selectedPath, lines)
  PROVE  /\ DOMAIN mine' = DOMAIN mine \cup {selectedPath} /\ mine'[selectedPath] = lines
         /\ \A q \in DOMAIN mine \ {selectedPath} : mine'[q] = mine[q]
         /\ DOMAIN mine' \subseteq File /\ \A q \in DOMAIN mine' : mine'[q] \in Lines
  <1>1. selectedPath \in File
    BY SelectedIs
  <1>2. IsKeep(mine', mine, selectedPath, lines)
    BY KeepIs
  <1>3. DOMAIN mine \subseteq File /\ \A q \in DOMAIN mine : mine[q] \in Lines
    BY DEF IInv, Types, HistoryTypes
  <1>4. /\ DOMAIN mine' = DOMAIN mine \cup {selectedPath} /\ mine'[selectedPath] = lines
        /\ \A q \in DOMAIN mine \ {selectedPath} : mine'[q] = mine[q]
    BY <1>2 DEF IsKeep
  <1> QED BY <1>1, <1>3, <1>4

\* No block has the number, or the file cannot be written: what is shown is
\* what the first write left.
LEMMA AcceptNoneInv ==
  ASSUME IInv, open, displayModel # <<>>, NEW first \in Outcome,
         disk' = Written(disk, selectedPath, BuildFullContent(displayModel), first),
         mine' = Keep(mine, selectedPath, BuildFullContent(displayModel)),
         missed' = IF first # "written" THEN missed \cup {selectedPath} ELSE missed,
         UNCHANGED <<operation, at, staged, unmerged, head, marked, edits, outside>>,
         UNCHANGED <<open, conflicts, selectedPath, displayModel, modifiedFiles, behind, overtaken>>
  PROVE  IInv'
  <1> DEFINE lines == BuildFullContent(displayModel)
  <1>1. displayModel \in Seq(RowType) /\ disk \in [File -> Lines] /\ unmerged \subseteq File
    BY DEF IInv, Types, WindowTypes, RepoTypes
  <1>2. lines \in Lines /\ lines # <<>>
    BY <1>1, ContentType
  <1>3. /\ selectedPath \in File /\ selectedPath \in Listed(conflicts) /\ conflicts # <<>>
        /\ "list" \notin overtaken => selectedPath \in unmerged /\ disk[selectedPath] # <<>>
        /\ selectedPath \in unmerged \/ selectedPath \in behind
    BY SelectedIs
  <1>4. /\ DOMAIN mine' = DOMAIN mine \cup {selectedPath} /\ mine'[selectedPath] = lines
        /\ \A q \in DOMAIN mine \ {selectedPath} : mine'[q] = mine[q]
        /\ DOMAIN mine' \subseteq File /\ \A q \in DOMAIN mine' : mine'[q] \in Lines
    BY <1>2, AcceptedIs
  <1>5. \A q : (IsHeld(q)' <=> IsHeld(q)) /\ Held(q)' = Held(q)
    BY DEF IsHeld, Held
  <1>6. IsHeld(selectedPath) /\ Held(selectedPath) = displayModel
    BY DEF IsHeld, Held
  <1>7. BuildFullContent(Held(selectedPath)) = lines /\ disk' = Written(disk, selectedPath, lines, first)
    BY <1>6
  <1> HIDE DEF lines
  <1>e. /\ disk' \in [File -> Lines] /\ \A q \in File : q # selectedPath => disk'[q] = disk[q]
        /\ \A q \in File : disk[q] # <<>> => disk'[q] # <<>>
        /\ missed \subseteq missed' /\ missed' \subseteq missed \cup {selectedPath}
        /\ selectedPath \notin missed' => disk'[selectedPath] = lines
    BY <1>1, <1>2, <1>3, <1>7, WrittenIs, WrittenNotNone
  <1>8. Types'
    BY <1>3, <1>4, <1>e DEF IInv, Types, RepoTypes, WindowTypes, HistoryTypes
  <1>9. Windowed'
    <2>1. Windowed
      BY DEF IInv
    <2>2. ASSUME "list" \notin overtaken
          PROVE  Current'
      <3>1. Current
        BY <2>1, <2>2 DEF Windowed
      <3>2. \A i \in DOMAIN conflicts : disk'[conflicts[i].path] # <<>>
        BY <3>1, <1>1, <1>e DEF Current
      <3>3. \A q \in unmerged \ Listed(conflicts) : disk'[q] = <<>> \/ q \in behind
        BY <3>1, <1>1, <1>3, <1>e DEF Current
      <3> QED BY <3>1, <3>2, <3>3 DEF Current
    <2> QED BY <2>1, <2>2 DEF Windowed
  <1>a. Mine'
    <2> SUFFICES ASSUME NEW q \in DOMAIN mine', q \in unmerged, q \notin missed'
                 PROVE  IsHeld(q) /\ mine'[q] = BuildFullContent(Held(q))
      BY <1>5 DEF Mine
    <2>1. CASE q = selectedPath
      BY <2>1, <1>4, <1>6, <1>7
    <2>2. CASE q # selectedPath
      BY <2>2, <1>4, <1>e DEF IInv, Mine
    <2> QED BY <2>1, <2>2
  <1>b. ASSUME NEW q \in File
        PROVE  Agrees(q)'
    <2>1. CASE q = selectedPath
      <3>1. Made(q)' \/ q \in behind'
        BY <2>1, <1>3, <1>4 DEF Made
      <3>2. operation.kind = "merge" => disk'[q] # <<>>
        BY <2>1, <1>3, <1>e DEF IInv, Types, HistoryTypes
      <3> QED BY <2>1, <3>1, <3>2, <1>5, <1>6 DEF Agrees
    <2>2. CASE q # selectedPath
      <3>1. Agrees(q) /\ disk'[q] = disk[q] /\ (Made(q)' <=> Made(q)) /\ (q \in missed' <=> q \in missed)
        BY <2>2, <1>4, <1>e DEF IInv, Agreeing, Made
      <3> QED BY <3>1, <1>5 DEF Agrees
    <2> QED BY <2>1, <2>2
  <1>c. ASSUME at > 0, outside = 0, overtaken = {}, NEW q \in File, Plain(q)'
        PROVE  Resolves(q)'
    <2>1. Plain(q) /\ q \notin missed'
      BY <1>c, <1>e DEF Plain
    <2>2. Resolves(q)
      BY <2>1, <1>c DEF IInv, Resolving
    <2>3. CASE q = selectedPath
      <3>0. q \in unmerged /\ disk[q] # <<>> /\ disk'[q] = lines
        BY <2>1, <2>3, <1>3, <1>c, <1>e
      <3>1. Even(disk[q]) /\ Marks(lines) = Marks(disk[q]) /\ Marks(LinesIn(conflicts, q)) = Marks(disk[q])
        BY <2>2, <2>3, <3>0, <1>3, <1>6, <1>7 DEF Resolves
      <3>2. Even(lines)
        BY <3>1, <1>1, <1>2, EvenByMarks
      <3> QED BY <2>2, <2>3, <3>0, <3>1, <3>2, <1>3, <1>5, <1>7 DEF Resolves
    <2>4. CASE q # selectedPath
      BY <2>2, <2>4, <1>5, <1>e DEF Resolves
    <2> QED BY <2>3, <2>4
  <1>d. Resolving'
    BY <1>c DEF IInv, Resolving
  <1> QED BY <1>8, <1>9, <1>a, <1>b, <1>d DEF IInv, Agreeing

LEMMA LoadsOf ==
  ASSUME NEW d \in [File -> Lines], NEW u \in SUBSET File, NEW cache, CacheType(cache),
         NEW from \in File \union {None}, NEW rows \in Seq(RowType),
         LoadConflicts(d, u, cache, from, rows)
  PROVE  /\ Shown(d, u, conflicts', selectedPath', displayModel', modifiedFiles')
         /\ Holds(d, u, cache, from, rows, conflicts', selectedPath', displayModel', modifiedFiles')
  <1>1. Loaded(d, u, cache, from, rows, conflicts', selectedPath', displayModel', modifiedFiles')
    BY DEF LoadConflicts, Show, Loaded
  <1> QED BY <1>1, LoadedIs

\* A block is replaced, and the file is read again.
LEMMA AcceptSideInv ==
  ASSUME IInv, open, displayModel # <<>>,
         NEW first \in Outcome, NEW second \in Outcome, second # "unopened", NEW before,
         before = Written(disk, selectedPath, BuildFullContent(displayModel), first),
         NEW b \in Range(ParseConflictBlocks(before[selectedPath])), NEW mode \in Modes, NEW lines,
         lines = ReplaceBlock(before[selectedPath], b, mode),
         disk' = Written(before, selectedPath, lines, second), mine' = Keep(mine, selectedPath, lines),
         missed' = IF first # "written" \/ second = "cut" THEN missed \cup {selectedPath} ELSE missed,
         LoadConflicts(disk', unmerged, Forget(modifiedFiles, selectedPath), selectedPath, displayModel),
         Reread, UNCHANGED open,
         UNCHANGED <<operation, at, staged, unmerged, head, marked, edits, outside>>
  PROVE  IInv'
  <1> DEFINE text == BuildFullContent(displayModel)
             left == Forget(modifiedFiles, selectedPath)
  <1>1. /\ displayModel \in Seq(RowType) /\ disk \in [File -> Lines] /\ CacheType(modifiedFiles)
        /\ unmerged \in SUBSET File
    BY DEF IInv, Types, WindowTypes, RepoTypes
  <1>2. text \in Lines /\ text # <<>>
    BY <1>1, ContentType
  <1>4. /\ selectedPath \in File /\ selectedPath \in Listed(conflicts)
        /\ "list" \notin overtaken => selectedPath \in unmerged /\ disk[selectedPath] # <<>>
        /\ selectedPath \in unmerged \/ selectedPath \in behind
    BY SelectedIs
  <1>n. /\ before \in [File -> Lines] /\ \A q \in File : q # selectedPath => before[q] = disk[q]
        /\ first = "written" => before[selectedPath] = text
    <2>1. before = Written(disk, selectedPath, text, first)
      OBVIOUS
    <2> HIDE DEF text
    <2> QED BY <2>1, <1>1, <1>2, <1>4, WrittenIs
  <1>3. lines \in Lines /\ lines # <<>>
    <2>1. before[selectedPath] \in Lines
      BY <1>4, <1>n
    <2> QED BY <2>1, ReplaceBlockType
  <1>5. /\ disk' \in [File -> Lines] /\ disk'[selectedPath] # <<>>
        /\ \A q \in File : q # selectedPath => disk'[q] = disk[q]
        /\ missed \subseteq missed' /\ missed' \subseteq missed \cup {selectedPath}
        /\ selectedPath \notin missed' => disk'[selectedPath] = lines /\ before[selectedPath] = text
    <2>1. /\ disk' \in [File -> Lines] /\ \A q \in File : q # selectedPath => disk'[q] = before[q]
          /\ second = "written" => disk'[selectedPath] = lines
          /\ second = "cut" => disk'[selectedPath] = Text(<<>>)
      BY <1>3, <1>4, <1>n, WrittenIs
    <2> HIDE DEF text
    <2> QED BY <2>1, <1>3, <1>n, BlankIs DEF Outcome
  <1>o. /\ DOMAIN mine' = DOMAIN mine \cup {selectedPath} /\ mine'[selectedPath] = lines
        /\ \A q \in DOMAIN mine \ {selectedPath} : mine'[q] = mine[q]
        /\ DOMAIN mine' \subseteq File /\ \A q \in DOMAIN mine' : mine'[q] \in Lines
    BY <1>3, AcceptedIs
  <1>6. CacheType(left) /\ DOMAIN left = DOMAIN modifiedFiles \ {selectedPath}
          /\ \A q \in DOMAIN modifiedFiles \ {selectedPath} : left[q] = modifiedFiles[q]
    BY <1>1, ForgetIs, ForgetType
  <1>7. IsHeld(selectedPath) /\ BuildFullContent(Held(selectedPath)) = text
    BY DEF IsHeld, Held
  <1>8. behind' = behind \cap DOMAIN modifiedFiles' /\ overtaken' = overtaken \ {"list"}
    BY DEF Reread
  <1> HIDE DEF text, left
  <1>9. LoadConflicts(disk', unmerged, left, selectedPath, displayModel)
    BY DEF left
  <1>a. /\ Shown(disk', unmerged, conflicts', selectedPath', displayModel', modifiedFiles')
        /\ Holds(disk', unmerged, left, selectedPath, displayModel,
                 conflicts', selectedPath', displayModel', modifiedFiles')
    BY <1>1, <1>4, <1>5, <1>6, <1>9, LoadsOf
  <1>b. /\ Shown(disk', unmerged', conflicts', selectedPath', displayModel', modifiedFiles')
        /\ Holds(disk', unmerged', left, selectedPath, displayModel,
                 conflicts', selectedPath', displayModel', modifiedFiles')
    BY <1>a
  <1>c. /\ \A q \in File : IsHeld(q)' =>
              \/ q \in DOMAIN left /\ Held(q)' = left[q]
              \/ /\ q = selectedPath /\ Held(q)' = displayModel /\ q \in DOMAIN modifiedFiles'
                 /\ (q \notin unmerged' \/ disk'[q] = <<>>)
              \/ /\ q = selectedPath' /\ q \in unmerged' /\ disk'[q] # <<>> /\ Held(q)' = Rows(disk'[q])
                 /\ BuildFullContent(Held(q)') = disk'[q]
        /\ \A q \in DOMAIN left : IsHeld(q)' /\ (q # selectedPath => Held(q)' = left[q])
        /\ \A q \in DOMAIN left : q \in DOMAIN modifiedFiles'
        /\ selectedPath \in Listed(conflicts') => selectedPath' = selectedPath /\ modifiedFiles' = left
    BY <1>b, HeldNext
  <1>d. selectedPath \in unmerged => selectedPath \in Listed(conflicts')
    BY <1>a, <1>4, <1>5 DEF Shown
  <1>m. PICK p : p = selectedPath
    OBVIOUS
  <1>e. /\ p \in unmerged => IsHeld(p)' /\ BuildFullContent(Held(p)') = disk'[p]
        /\ IsHeld(p)' => p \in unmerged \/ p \in behind'
    <2>1. p \in unmerged => IsHeld(p)'
      BY <1>c, <1>d, <1>m DEF IsHeld
    <2>2. p \notin DOMAIN left /\ disk'[p] # <<>> /\ p \in File
      BY <1>4, <1>5, <1>6, <1>m
    <2>3. IsHeld(p)' =>
            \/ p \in DOMAIN modifiedFiles' /\ p \notin unmerged
            \/ p \in unmerged /\ BuildFullContent(Held(p)') = disk'[p]
      BY <2>2, <1>c, <1>m
    <2> QED BY <2>1, <2>3, <1>4, <1>8, <1>m
  <1>f. \A q \in File : q # selectedPath =>
          /\ IsHeld(q) => IsHeld(q)' /\ Held(q)' = Held(q) /\ (q \in behind' <=> q \in behind)
          /\ IsHeld(q)' => IsHeld(q) \/ (disk'[q] # <<>> /\ BuildFullContent(Held(q)') = disk'[q])
    <2> SUFFICES ASSUME NEW q \in File, q # selectedPath
                 PROVE  /\ IsHeld(q) => IsHeld(q)' /\ Held(q)' = Held(q) /\ (q \in behind' <=> q \in behind)
                        /\ IsHeld(q)' => IsHeld(q) \/ (disk'[q] # <<>> /\ BuildFullContent(Held(q)') = disk'[q])
      OBVIOUS
    <2>1. IsHeld(q) => q \in DOMAIN left /\ left[q] = Held(q)
      BY <1>6 DEF IsHeld, Held
    <2>2. q \in DOMAIN left => IsHeld(q)
      BY <1>6 DEF IsHeld
    <2>3. q \in DOMAIN left => IsHeld(q)' /\ Held(q)' = left[q] /\ q \in DOMAIN modifiedFiles'
      BY <1>c
    <2>4. IsHeld(q)' => q \in DOMAIN left \/ (disk'[q] # <<>> /\ BuildFullContent(Held(q)') = disk'[q])
      BY <1>c
    <2> QED BY <2>1, <2>2, <2>3, <2>4, <1>8
  <1>g. Types'
    <2>1. RepoTypes'
      BY <1>5 DEF IInv, Types, RepoTypes
    <2>2. WindowTypes'
      BY <1>b, ShownIsTyped DEF IInv, Types, WindowTypes
    <2>3. HistoryTypes'
      BY <1>4, <1>5, <1>8, <1>o DEF IInv, Types, HistoryTypes
    <2> QED BY <2>1, <2>2, <2>3 DEF Types
  <1>h. Windowed'
    <2>1. "list" \notin overtaken'
      BY <1>8
    <2> QED BY <2>1, <1>b, ShownIsWindowedNext
  <1>i. Mine'
    <2> SUFFICES ASSUME NEW q \in DOMAIN mine', q \in unmerged, q \notin missed'
                 PROVE  IsHeld(q)' /\ mine'[q] = BuildFullContent(Held(q)')
      BY DEF Mine
    <2>1. CASE q = selectedPath
      BY <2>1, <1>5, <1>e, <1>m, <1>o
    <2>2. CASE q # selectedPath
      <3>1. q \in DOMAIN mine /\ q \in File /\ mine'[q] = mine[q] /\ q \notin missed
        BY <2>2, <1>5, <1>o
      <3>2. IsHeld(q) /\ mine[q] = BuildFullContent(Held(q))
        BY <3>1 DEF IInv, Mine
      <3> QED BY <2>2, <3>1, <3>2, <1>f
    <2> QED BY <2>1, <2>2
  <1>j. ASSUME NEW q \in File
        PROVE  Agrees(q)'
    <2>1. q \in Listed(conflicts') => LinesIn(conflicts', q) = disk'[q]
      BY <1>b DEF Shown
    <2>2. CASE q = selectedPath
      <3>1. IsHeld(q)' => Made(q)' \/ q \in behind'
        BY <2>2, <1>e, <1>m, <1>o DEF Made
      <3> QED BY <2>1, <2>2, <3>1, <1>5 DEF Agrees
    <2>3. CASE q # selectedPath
      <3>1. Agrees(q) /\ disk'[q] = disk[q] /\ (Made(q)' <=> Made(q)) /\ (q \in missed' <=> q \in missed)
        BY <2>3, <1>5, <1>o DEF IInv, Agreeing, Made
      <3> QED BY <2>1, <2>3, <3>1, <1>f DEF Agrees
    <2> QED BY <2>2, <2>3
  <1>k. ASSUME at > 0, outside = 0, overtaken = {}, NEW q \in File, Plain(q)'
        PROVE  Resolves(q)'
    <2>1. Plain(q) /\ q \notin missed'
      BY <1>5, <1>k DEF Plain
    <2>2. Resolves(q)
      BY <2>1, <1>k DEF IInv, Resolving
    <2>3. q \in Listed(conflicts') => LinesIn(conflicts', q) = disk'[q]
      BY <1>b DEF Shown
    <2>4. CASE q = selectedPath
      <3>0. q \in unmerged /\ disk[q] # <<>> /\ disk'[q] = lines /\ before[q] = text
        BY <2>1, <2>4, <1>4, <1>5, <1>k
      <3>1. Even(disk[q]) /\ Marks(text) = Marks(disk[q])
        BY <2>2, <2>4, <3>0, <1>7 DEF Resolves
      <3>2. Even(text)
        BY <3>1, <1>1, <1>2, EvenByMarks
      <3>3. Even(lines)
        BY <2>4, <3>0, <3>2, <1>2, ReplaceBlockIsEven
      <3> QED BY <2>2, <2>3, <2>4, <3>0, <3>3, <1>e, <1>m DEF Resolves
    <2>5. CASE q # selectedPath
      BY <2>2, <2>3, <2>5, <1>5, <1>f DEF Resolves
    <2> QED BY <2>4, <2>5
  <1>l. Resolving'
    <2>1. overtaken' = {} => overtaken = {}
      BY <1>8 DEF IInv, Types, HistoryTypes
    <2> QED BY <2>1, <1>k DEF IInv, Resolving
  <1> QED BY <1>g, <1>h, <1>i, <1>j, <1>l DEF IInv, Agreeing

LEMMA AcceptBlockInv ==
  ASSUME IInv, NEW index \in Buttons, NEW mode \in Modes, NEW first \in Outcome, NEW second \in Outcome,
         AcceptBlock(index, mode, first, second)
  PROVE  IInv'
  <1> DEFINE shown  == BuildFullContent(displayModel)
             before == Written(disk, selectedPath, shown, first)
             blocks == {b \in Range(ParseConflictBlocks(before[selectedPath])) : b.index = index}
             b == CHOOSE b \in blocks : TRUE
             lines == ReplaceBlock(before[selectedPath], b, mode)
  <1>1. /\ open /\ UNCHANGED <<operation, at, staged, unmerged, head, marked, edits, outside>>
        /\ IF blocks = {} \/ second = "unopened"
             THEN /\ disk' = before /\ mine' = Keep(mine, selectedPath, shown)
                  /\ missed' = IF first # "written" THEN missed \cup {selectedPath} ELSE missed
                  /\ UNCHANGED <<window, behind, overtaken>>
             ELSE /\ disk' = Written(before, selectedPath, lines, second)
                  /\ mine' = Keep(mine, selectedPath, lines)
                  /\ missed' = IF first # "written" \/ second = "cut"
                                 THEN missed \cup {selectedPath} ELSE missed
                  /\ LoadConflicts(disk', unmerged, Forget(modifiedFiles, selectedPath),
                                   selectedPath, displayModel)
                  /\ Reread /\ UNCHANGED open
    BY DEF AcceptBlock, Misses
  <1>2. displayModel # <<>>
    <2>1. Range(displayModel) # {}
      BY DEF Buttons
    <2> QED BY <2>1, NothingKept DEF Range
  <1>3. CASE blocks = {} \/ second = "unopened"
    <2>1. UNCHANGED <<open, conflicts, selectedPath, displayModel, modifiedFiles, behind, overtaken>>
      BY <1>1, <1>3 DEF window
    <2> QED BY <2>1, <1>1, <1>2, <1>3, AcceptNoneInv
  <1>4. CASE blocks # {} /\ second # "unopened"
    <2>1. b \in Range(ParseConflictBlocks(before[selectedPath]))
      BY <1>4
    <2> HIDE DEF b
    <2> QED BY <2>1, <1>1, <1>2, <1>4, AcceptSideInv
  <1> QED BY <1>3, <1>4

-----------------------------------------------------------------------------
(* Every action keeps the invariant: the window opens again, and the          *)
(* operation goes on.                                                         *)

LEMMA ReopenInv ==
  ASSUME IInv, Reopen
  PROVE  IInv'
  <1>1. /\ ~open /\ operation.kind = "merge" /\ unmerged # {} /\ open' = TRUE
        /\ LoadConflicts(disk, unmerged, <<>>, None, <<>>)
        /\ mine' = <<>> /\ behind' = {} /\ UNCHANGED <<operation, at, disk, staged, unmerged, head>>
        /\ UNCHANGED <<marked, edits, outside, missed, overtaken>>
    BY DEF Reopen, repo
  <1>2. disk \in [File -> Lines] /\ unmerged \in SUBSET File
    BY DEF IInv, Types, RepoTypes
  <1>3. at \in Nat /\ at > 0
    <2>1. at # 0 /\ at \in 0 .. Len(operation.stops) /\ operation \in Operations
      BY <1>1 DEF IInv, Types, RepoTypes
    <2>2. Len(operation.stops) \in Nat
      BY <2>1, OperationIs
    <2> QED BY <2>1, <2>2
  <1>4. /\ Shown(disk, unmerged, conflicts', selectedPath', displayModel', modifiedFiles')
        /\ Holds(disk, unmerged, <<>>, None, <<>>, conflicts', selectedPath', displayModel', modifiedFiles')
    BY <1>1, <1>2, NothingKept, EmptySeq, LoadsOf
  <1>5. /\ Shown(disk', unmerged', conflicts', selectedPath', displayModel', modifiedFiles')
        /\ Holds(disk', unmerged', <<>>, None, <<>>, conflicts', selectedPath', displayModel', modifiedFiles')
    BY <1>1, <1>4
  <1>6. \A q \in File : IsHeld(q)' => disk'[q] # <<>> /\ BuildFullContent(Held(q)') = disk'[q]
    BY <1>5, HeldNext, NothingKept, NoneIsNoFile
  <1>7. Types'
    <2>1. RepoTypes'
      BY <1>1 DEF IInv, Types, RepoTypes
    <2>2. WindowTypes'
      BY <1>1, <1>5, ShownIsTyped
    <2>3. HistoryTypes'
      BY <1>1, NothingKept DEF IInv, Types, HistoryTypes
    <2> QED BY <2>1, <2>2, <2>3 DEF Types
  <1>8. Windowed'
    <2>1. "list" \notin overtaken'
      BY <1>1 DEF IInv, Types, HistoryTypes
    <2> QED BY <2>1, <1>5, ShownIsWindowedNext
  <1>9. Mine'
    BY <1>1, NothingKept DEF Mine
  <1>a. \A q \in Listed(conflicts') : LinesIn(conflicts', q) = disk'[q]
    BY <1>5 DEF Shown
  <1>b. Agreeing'
    BY <1>6, <1>a DEF Agreeing, Agrees
  <1>c. ASSUME at > 0, outside = 0, overtaken = {}, NEW q \in File, Plain(q)'
        PROVE  Resolves(q)'
    <2>1. Plain(q)
      BY <1>1, <1>c DEF Plain
    <2>2. Resolves(q)
      BY <2>1, <1>c DEF IInv, Resolving
    <2> QED BY <2>2, <1>1, <1>6, <1>a DEF Resolves
  <1>d. Resolving'
    BY <1>1, <1>c DEF IInv, Resolving
  <1> QED BY <1>1, <1>7, <1>8, <1>9, <1>b, <1>d DEF IInv

\* What is reset beneath the window is behind in all that the window has.
LEMMA OvertakenInv ==
  ASSUME IInv, open, Overtaken, operation' = operation, operation.kind = "cherrypick", RepoTypes'
  PROVE  IInv'
  <1>1. /\ mine' = <<>> /\ overtaken' = {"list", "files"}
        /\ behind' = behind \cup Listed(conflicts) \cup DOMAIN modifiedFiles
        /\ UNCHANGED <<open, conflicts, selectedPath, displayModel, modifiedFiles>>
        /\ UNCHANGED <<marked, edits, outside, missed>>
    BY DEF Overtaken, window
  <1>2. Listed(conflicts) \subseteq File /\ DOMAIN modifiedFiles \subseteq File
    BY ListedFile DEF IInv, Types, WindowTypes, CacheType, Conflict
  <1>3. Types'
    <2>1. WindowTypes'
      BY <1>1 DEF IInv, Types, WindowTypes
    <2>2. HistoryTypes'
      BY <1>1, <1>2, NothingKept DEF IInv, Types, HistoryTypes
    <2> QED BY <2>1, <2>2 DEF Types
  <1>4. Windowed'
    BY <1>1 DEF IInv, Windowed
  <1>5. Mine'
    BY <1>1, NothingKept DEF Mine
  <1>6. ASSUME NEW p \in File
        PROVE  Agrees(p)'
    <2>1. IsHeld(p)' => p \in behind'
      <3>1. p = selectedPath => p \in Listed(conflicts)
        BY NoneIsNoFile DEF IInv, Windowed
      <3> QED BY <3>1, <1>1 DEF IsHeld
    <2> QED BY <2>1, <1>1 DEF Agrees
  <1>7. Resolving'
    BY <1>1 DEF Resolving
  <1> QED BY <1>1, <1>3, <1>4, <1>5, <1>6, <1>7 DEF IInv, Agreeing

LEMMA StopsShortInv ==
  ASSUME IInv, open, NEW h \in [File -> Lines], NEW index \in [File -> Lines],
         NEW d \in [File -> Lines], StopsShort(h, index, d)
  PROVE  IInv'
  <1>1. /\ operation' = operation /\ operation.kind = "cherrypick" /\ Overtaken
        /\ at' = 0 /\ head' = h /\ staged' = index /\ disk' = d /\ unmerged' = {}
    BY DEF StopsShort
  <1>2. operation \in Operations /\ 0 \in 0 .. Len(operation.stops)
    BY OperationIs DEF IInv, Types, RepoTypes
  <1>3. RepoTypes'
    BY <1>1, <1>2 DEF RepoTypes
  <1> QED BY <1>1, <1>3, OvertakenInv

LEMMA GoOnInv ==
  ASSUME IInv, open, at > 0, NEW h \in [File -> Lines], NEW index \in [File -> Lines],
         NEW d \in [File -> Lines], GoOn(h, index, d)
  PROVE  IInv'
  <1>1. /\ operation \in Operations /\ at \in Nat /\ at \in 1 .. Len(operation.stops)
        /\ Len(operation.stops) \in Nat /\ (operation.kind = "merge" => Len(operation.stops) = 1)
    <2>1. operation \in Operations
      BY DEF IInv, Types, RepoTypes
    <2>2. at \in 1 .. Len(operation.stops) /\ Len(operation.stops) \in Nat
      BY StopIs DEF IInv, Types
    <2> QED BY <2>1, <2>2, OperationIs
  <1>2. selectedPath \in File \union {None} /\ displayModel \in Seq(RowType) /\ CacheType(modifiedFiles)
    BY DEF IInv, Types, WindowTypes
  <1>3. /\ operation' = operation /\ head' = h /\ staged' = index /\ mine' = <<>>
        /\ missed' = {} /\ overtaken' = {} /\ behind' = DOMAIN modifiedFiles' /\ marked' \subseteq marked
        /\ UNCHANGED <<edits, outside>>
    BY DEF GoOn, NewStop
  <1>4. WindowTypes' => HistoryTypes'
    BY <1>3, NothingKept DEF IInv, Types, HistoryTypes, WindowTypes, CacheType
  <1>5. CASE at < Len(operation.stops)
    <2>1. /\ at' = at + 1 /\ disk' = Conflicted(operation, at', d) /\ unmerged' = DOMAIN Stop(operation, at')
          /\ LoadConflicts(disk', unmerged', <<>>, selectedPath, displayModel) /\ open' = open
      BY <1>5 DEF GoOn
    <2>2. at' \in Nat /\ at' \in 1 .. Len(operation.stops)
      BY <2>1, <1>1, <1>5
    <2>e. operation.kind # "merge"
      <3> DEFINE n == Len(operation.stops)
      <3>1. n # 1
        <4>1. at \in Nat /\ at >= 1 /\ at < n /\ n \in Nat
          BY <1>1, <1>5
        <4> HIDE DEF n
        <4> QED BY <4>1
      <3> QED BY <3>1, <1>1
    <2>3. disk' \in [File -> Lines] /\ \A p \in DOMAIN Stop(operation, at') : disk'[p] = Stop(operation, at')[p]
      BY <2>1, <2>2, <1>1, ConflictedIs
    <2>4. unmerged' \in SUBSET File /\ \A p \in unmerged' : Stop(operation, at')[p] \in Lines
      BY <2>1, <2>2, <1>1, StopType
    <2>5. /\ Shown(disk', unmerged', conflicts', selectedPath', displayModel', modifiedFiles')
          /\ Holds(disk', unmerged', <<>>, selectedPath, displayModel,
                   conflicts', selectedPath', displayModel', modifiedFiles')
      BY <2>1, <2>3, <2>4, <1>2, NothingKept, LoadsIs
    <2>6. \A q \in File : IsHeld(q)' =>
            \/ q \in behind' /\ (q \notin unmerged' \/ disk'[q] = <<>>)
            \/ disk'[q] # <<>> /\ BuildFullContent(Held(q)') = disk'[q]
      BY <2>5, <1>3, HeldNext, NothingKept
    <2>7. Types'
      <3>1. RepoTypes'
        <4>1. at' # 0
          BY <2>2
        <4> QED BY <2>2, <2>3, <2>4, <4>1, <1>1, <1>3 DEF RepoTypes
      <3>2. WindowTypes'
        BY <2>1, <2>5, ShownIsTyped
      <3> QED BY <3>1, <3>2, <1>4 DEF Types
    <2>8. Windowed'
      <3>1. "list" \notin overtaken'
        BY <1>3
      <3> QED BY <3>1, <2>5, ShownIsWindowedNext
    <2>9. Mine'
      BY <1>3, NothingKept DEF Mine
    <2>a. \A q \in Listed(conflicts') : LinesIn(conflicts', q) = disk'[q]
      BY <2>5 DEF Shown
    <2>b. ASSUME NEW q \in File
          PROVE  Agrees(q)'
      BY <2>6, <2>a, <2>e, <1>3 DEF Agrees
    <2>c. ASSUME NEW q \in File, Plain(q)'
          PROVE  Resolves(q)'
      <3>1. q \in unmerged' /\ ~Odd(Stop(operation, at')[q])
        BY <2>1, <2>c, <1>3 DEF Plain
      <3>2. Stop(operation, at')[q] \in Lines /\ disk'[q] = Stop(operation, at')[q]
        BY <2>1, <2>3, <2>4, <3>1
      <3>3. Even(disk'[q])
        BY <3>1, <3>2, PlainIsEven
      <3>4. IsHeld(q)' /\ disk'[q] # <<>> => BuildFullContent(Held(q)') = disk'[q]
        BY <2>6, <3>1
      <3> QED BY <3>1, <3>3, <3>4, <2>a DEF Resolves
    <2>d. Resolving'
      BY <1>3, <2>c DEF Resolving
    <2> QED BY <2>1, <2>7, <2>8, <2>9, <2>b, <2>d DEF IInv, Agreeing
  <1>6. CASE ~(at < Len(operation.stops))
    <2>1. /\ at' = 0 /\ disk' = d /\ unmerged' = {} /\ open' = FALSE
          /\ UNCHANGED <<conflicts, selectedPath, displayModel, modifiedFiles>>
      BY <1>6 DEF GoOn, Close
    <2>2. RepoTypes'
      BY <2>1, <1>1, <1>3 DEF RepoTypes
    <2>3. WindowTypes'
      BY <2>1 DEF IInv, Types, WindowTypes
    <2>4. Resolving'
      BY <2>1 DEF Resolving
    <2> QED BY <2>1, <2>2, <2>3, <2>4, <1>3, <1>4, NothingKept DEF IInv, Types
  <1> QED BY <1>5, <1>6

LEMMA ContinueInv ==
  ASSUME IInv, Continue
  PROVE  IInv'
  <1> DEFINE d == IF operation.kind = "merge" THEN disk ELSE staged
  <1>1. disk \in [File -> Lines] /\ staged \in [File -> Lines] /\ d \in [File -> Lines]
    BY DEF IInv, Types, RepoTypes
  <1>2. open /\ at > 0 /\ (GoOn(staged, staged, d) \/ StopsShort(staged, staged, staged))
    BY DEF Continue
  <1> HIDE DEF d
  <1> QED BY <1>1, <1>2, GoOnInv, StopsShortInv

LEMMA ContinueHalfInv ==
  ASSUME IInv, ContinueHalf
  PROVE  IInv'
  <1>1. /\ open /\ operation' = operation /\ operation.kind = "cherrypick" /\ Overtaken
        /\ head' = staged /\ disk' \in {disk, staged} /\ UNCHANGED <<at, staged, unmerged>>
    BY DEF ContinueHalf
  <1>2. RepoTypes'
    BY <1>1 DEF IInv, Types, RepoTypes
  <1> QED BY <1>1, <1>2, OvertakenInv

LEMMA AbortHalfInv ==
  ASSUME IInv, AbortHalf
  PROVE  IInv'
  <1>1. /\ open /\ operation' = operation /\ operation.kind = "cherrypick" /\ Overtaken /\ at > 0
        /\ disk' = operation.head /\ UNCHANGED <<at, head>>
        /\ \/ UNCHANGED <<staged, unmerged>>
           \/ staged' = operation.head /\ unmerged' = {}
    BY DEF AbortHalf
  <1>2. operation.head \in [File -> Lines]
    BY OperationIs DEF IInv, Types, RepoTypes
  <1>3. RepoTypes'
    BY <1>1, <1>2 DEF IInv, Types, RepoTypes
  <1> QED BY <1>1, <1>3, OvertakenInv

LEMMA SkipInv ==
  ASSUME IInv, Skip
  PROVE  IInv'
  <1>1. /\ head \in [File -> Lines] /\ disk \in [File -> Lines] /\ staged \in [File -> Lines]
        /\ [p \in File |-> IF p \in unmerged THEN <<>> ELSE staged[p]] \in [File -> Lines]
    <2>1. <<>> \in Lines
      BY EmptySeq DEF Lines
    <2> QED BY <2>1 DEF IInv, Types, RepoTypes
  <1>2. /\ open /\ at > 0
        /\ \E index \in [File -> Lines], d \in [File -> Lines] :
             GoOn(head, index, d) \/ StopsShort(head, index, d)
    BY <1>1 DEF Skip
  <1> QED BY <1>1, <1>2, GoOnInv, StopsShortInv

LEMMA StutterInv ==
  ASSUME IInv, UNCHANGED vars
  PROVE  IInv'
  <1>1. /\ UNCHANGED <<operation, at, disk, staged, unmerged, head>>
        /\ UNCHANGED <<open, conflicts, selectedPath, displayModel, modifiedFiles>>
        /\ UNCHANGED <<mine, marked, edits, outside, behind, missed, overtaken>>
    BY DEF vars, repo, window, history
  <1>2. \A q : (IsHeld(q)' <=> IsHeld(q)) /\ Held(q)' = Held(q) /\ (Made(q)' <=> Made(q)) /\ (Plain(q)' <=> Plain(q))
    BY <1>1 DEF IsHeld, Held, Made, Plain
  <1>3. Types'
    BY <1>1 DEF IInv, Types, RepoTypes, WindowTypes, HistoryTypes
  <1>4. open => Windowed' /\ Mine'
    BY <1>1, <1>2 DEF IInv, Windowed, Current, Mine
  <1>5. ASSUME open, NEW q \in File PROVE Agrees(q)'
    BY <1>1, <1>2, <1>5 DEF IInv, Agreeing, Agrees
  <1>6. ASSUME at > 0, outside = 0, overtaken = {}, NEW q \in File, Plain(q) PROVE Resolves(q)'
    BY <1>1, <1>2, <1>6 DEF IInv, Resolving, Resolves
  <1> QED BY <1>1, <1>2, <1>3, <1>4, <1>5, <1>6 DEF IInv, Agreeing, Resolving

\* Whatever the window and the other programs do keeps the invariant.
LEMMA NextInv ==
  ASSUME IInv, [Next]_vars
  PROVE  IInv'
  <1>1. CASE Reopen BY <1>1, ReopenInv
  <1>2. CASE Continue BY <1>2, ContinueInv
  <1>3. CASE Skip BY <1>3, SkipInv
  <1>4. CASE Abort BY <1>4, AbortInv
  <1>5. CASE \E outcome \in [DOMAIN Visited -> Outcome] : SaveAllModifications(outcome)
    BY <1>5, SaveAllInv
  <1>e. CASE ContinueHalf BY <1>e, ContinueHalfInv
  <1>f. CASE AbortHalf BY <1>f, AbortHalfInv
  <1>6. CASE \E i \in DOMAIN displayModel : \E line \in Typed : Type(i, line)
    BY <1>6, TypeInv
  <1>7. CASE \E i \in DOMAIN displayModel : \E cursor \in 0 .. Len(displayModel[i].text) : SplitLine(i, cursor)
    BY <1>7, SplitLineInv
  <1>8. CASE \E i \in DOMAIN displayModel : MergeLineUp(i)
    BY <1>8, MergeLineUpInv
  <1>9. CASE \E p \in File : SelectFile(p)
    BY <1>9, SelectFileInv
  <1>a. CASE \E p \in File : \E outcome \in Outcome : SaveAndStage(p, outcome)
    BY <1>a, SaveAndStageInv
  <1>b. CASE \E index \in Buttons, mode \in {"ours", "theirs", "both"}, first, second \in Outcome :
               AcceptBlock(index, mode, first, second)
    BY <1>b, AcceptBlockInv DEF Modes
  <1>c. CASE \E p \in File, lines \in Outside : WriteOutside(p, lines)
    BY <1>c, WriteOutsideInv
  <1>d. CASE UNCHANGED vars
    BY <1>d, StutterInv
  <1> QED BY <1>1, <1>2, <1>3, <1>4, <1>5, <1>6, <1>7, <1>8, <1>9, <1>a, <1>b, <1>c, <1>d, <1>e, <1>f DEF Next

-----------------------------------------------------------------------------
(* The properties. *)

\* Between the window, the files and the index hold what the invariant says,
\* through every edit, save, answer, stop and write from outside.
THEOREM Invariant == Spec => []IInv
  <1>1. Init => IInv
    BY InitInv
  <1>2. IInv /\ [Next]_vars => IInv'
    BY NextInv
  <1> QED BY <1>1, <1>2, PTL DEF Spec

LEMMA InvIsTyped == IInv => TypeOK
  <1> SUFFICES ASSUME IInv PROVE TypeOK
    OBVIOUS
  <1>1. RepoTypes /\ WindowTypes /\ HistoryTypes
    BY DEF IInv, Types
  <1>2. open => IF conflicts = <<>> THEN selectedPath = None ELSE selectedPath \in Listed(conflicts)
    BY DEF IInv, Windowed
  <1>3. ASSUME NEW row \in Range(displayModel)
        PROVE  row.role \in Role /\ (row.block = 0 <=> row.role = "context")
    <2>1. Range(displayModel) \in SUBSET RowType
      BY <1>1, RangeOfSeq DEF WindowTypes
    <2>2. row \in RowType
      BY <2>1
    <2> QED BY <2>2 DEF RowType
  <1>4. DOMAIN disk = File /\ DOMAIN staged = File /\ DOMAIN head = File
    BY <1>1 DEF RepoTypes
  <1>5. DOMAIN modifiedFiles \subseteq File
    BY <1>1 DEF WindowTypes, CacheType
  <1> QED BY <1>1, <1>2, <1>3, <1>4, <1>5 DEF TypeOK, RepoTypes, WindowTypes, HistoryTypes

LEMMA InvIsMarked == IInv => BlocksAreMarked
  <1> SUFFICES ASSUME IInv, NEW p \in File PROVE Marked(disk[p])
    BY DEF BlocksAreMarked, Marked
  <1>1. disk[p] \in Lines
    BY DEF IInv, Types, RepoTypes
  <1> QED BY <1>1, EveryTextIsMarked

LEMMA InvTellsIndex == IInv => ListTellsIndex
  <1> SUFFICES ASSUME IInv, open, "list" \notin overtaken
               PROVE  /\ Listed(conflicts) \subseteq unmerged
                      /\ \A p \in unmerged \ Listed(conflicts) : disk[p] = <<>> \/ p \in behind
    BY DEF ListTellsIndex
  <1> QED BY DEF IInv, Windowed, Current, Listed

\* The parser finds in every file exactly the blocks that are there, for every
\* text the user and the other programs may write; the window lists the
\* conflicts of the index, until an answer that fails resets them beneath it, and
\* shows a file of its list.
THEOREM EditorStaysSound == Spec => []EditorIsSound
  <1>1. IInv => EditorIsSound
    BY InvIsTyped, InvIsMarked, InvTellsIndex DEF EditorIsSound
  <1> QED BY <1>1, Invariant, PTL

\* What the user made of a file in conflict is never lost from the window before
\* the file is staged, in whatever order files are shown, accepted, staged and read
\* again, unless a write of it failed unnoticed.
THEOREM EditsStay == Spec => []EditsKept
  <1>1. IInv => EditsKept
    <2> SUFFICES ASSUME IInv, NEW p \in DOMAIN mine, p \in unmerged, p \notin missed
                 PROVE  mine[p] = BuildFullContent(IF p = selectedPath THEN displayModel
                                                   ELSE IF p \in DOMAIN modifiedFiles THEN modifiedFiles[p]
                                                   ELSE <<>>)
      BY DEF EditsKept
    <2>1. IsHeld(p) /\ mine[p] = BuildFullContent(Held(p))
      BY DEF IInv, Mine
    <2> QED BY <2>1 DEF IsHeld, Held
  <1> QED BY <1>1, Invariant, PTL

\* No marker of a conflict reaches the index, if git left them in blocks, the
\* user edited none, no other program wrote, no answer failed, and no write of the
\* file did unnoticed.
THEOREM StagedStaysResolved == Spec => []StagedIsResolved
  <1>1. IInv => StagedIsResolved
    <2> SUFFICES ASSUME IInv, at > 0, outside = 0, overtaken = {},
                        NEW p \in DOMAIN Stop(operation, at) \ (unmerged \cup marked \cup missed),
                        ~Odd(Stop(operation, at)[p])
                 PROVE  \A i \in DOMAIN staged[p] : ~IsMark(staged[p][i])
      BY DEF StagedIsResolved
    <2>1. p \in File
      BY StopIs DEF IInv, Types
    <2>2. Resolves(p)
      BY <2>1 DEF IInv, Resolving, Plain
    <2> QED BY <2>2 DEF Resolves
  <1> QED BY <1>1, Invariant, PTL

\* Saving on the way out writes what the user made of each file in conflict and
\* leaves the others, but for files that others have written, or that a write
\* missed, before; a write that fails now costs its own file only, which stays or
\* is cut short.
THEOREM SavesKeepOthers == Spec => SaveKeepsOthers
  <1> DEFINE Right(outcome) ==
               \A p \in File \ (behind \cup missed) :
                 \/ disk'[p] = IF p \in DOMAIN mine \cap unmerged THEN mine[p] ELSE disk[p]
                 \/ /\ p \in DOMAIN outcome /\ outcome[p] # "written"
                    /\ disk'[p] \in {disk[p], Text(<<>>)}
  <1>1. ASSUME IInv, NEW outcome \in [DOMAIN Visited -> Outcome], SaveAllModifications(outcome)
        PROVE  Right(outcome)
    <2> SUFFICES ASSUME NEW p \in File, p \notin behind, p \notin missed
                 PROVE  \/ disk'[p] = IF p \in DOMAIN mine \cap unmerged THEN mine[p] ELSE disk[p]
                        \/ /\ p \in DOMAIN outcome /\ outcome[p] # "written"
                           /\ disk'[p] \in {disk[p], Text(<<>>)}
      OBVIOUS
    <2>1. /\ open
          /\ disk'[p] = IF IsHeld(p) THEN Written(disk, p, BuildFullContent(Held(p)), outcome[p])[p] ELSE disk[p]
          /\ IsHeld(p) => Held(p) \in Seq(RowType) /\ p \in DOMAIN outcome /\ outcome[p] \in Outcome
      BY <1>1, SavedIs DEF SaveAllModifications
    <2>2. Mine /\ Agrees(p) /\ disk \in [File -> Lines]
      BY <1>1, <2>1 DEF IInv, Agreeing, Types, RepoTypes
    <2>3. CASE ~IsHeld(p)
      <3>1. p \notin DOMAIN mine \cap unmerged
        BY <2>2, <2>3 DEF Mine
      <3> QED BY <2>1, <2>3, <3>1
    <2>4. CASE IsHeld(p)
      <3> DEFINE text == BuildFullContent(Held(p))
                 o == outcome[p]
      <3>1. text \in Lines /\ o \in Outcome /\ p \in DOMAIN outcome
        BY <2>1, <2>4, ContentType
      <3>2. text = IF p \in DOMAIN mine \cap unmerged THEN mine[p] ELSE disk[p]
        BY <2>2, <2>4 DEF Mine, Agrees, Made
      <3>3. disk'[p] = Written(disk, p, text, o)[p]
        BY <2>1, <2>4
      <3> HIDE DEF text
      <3>4. CASE o = "written"
        <4>1. disk'[p] = text
          BY <2>2, <3>1, <3>3, <3>4, WrittenIs
        <4> QED BY <3>2, <4>1
      <3>5. CASE o # "written"
        <4>1. disk'[p] \in {disk[p], Text(<<>>)}
          <5> HIDE DEF o
          <5> QED BY <2>2, <3>1, <3>3, <3>5, WrittenIs DEF Outcome
        <4> QED BY <3>1, <3>5, <4>1
      <3> QED BY <3>4, <3>5
    <2> QED BY <2>3, <2>4
  <1>2. IInv /\ [Next]_vars =>
          [\A outcome \in [DOMAIN Visited -> Outcome] : SaveAllModifications(outcome) => Right(outcome)]_vars
    BY <1>1
  <1> QED BY <1>2, Invariant, PTL DEF SaveKeepsOthers, Spec

-----------------------------------------------------------------------------
(***************************************************************************)
(* The rows shown are those of the file they would be written as, and      *)
(* accepting a side takes a block out and keeps the rest. The rows of a    *)
(* text are cut at a line: a line put in, taken out or typed that is no    *)
(* marker moves the blocks after it and adds, removes or changes one row.  *)
(* So an edit the page lets happen leaves rows the reader would make       *)
(* again, in the file shown and in every file kept. Without the rows of a  *)
(* block, the rows of such a text are the lines the writer leaves there.   *)
(***************************************************************************)

-----------------------------------------------------------------------------
(* The blocks found stand apart, and so do their numbers. *)

Before(b, c) == b.end < c.start /\ b.index < c.index

Ordered1(l, s) == \A b \in Range(s.blocks) : b.end <= Len(l) /\ b.index <= s.index
Ordered2(l, s) ==
  s.in # "neutral" => s.start <= Len(l) /\ \A b \in Range(s.blocks) : b.end < s.start /\ b.index < s.index
Ordered3(s) == \A b, c \in Range(s.blocks) : b = c \/ Before(b, c) \/ Before(c, b)

LEMMA ParserIsOrdered ==
  ASSUME NEW lines \in Lines
  PROVE  LET s == Parsed(lines) IN Ordered1(lines, s) /\ Ordered2(lines, s) /\ Ordered3(s)
  <1> DEFINE Right(l, s) == Ordered1(l, s) /\ Ordered2(l, s) /\ Ordered3(s)
             G == {l \in Lines : Right(l, Parsed(l))}
  <1>1. <<>> \in G
    <2>1. <<>> \in Lines BY EmptySeq DEF Lines
    <2>2. Begun.in = "neutral" /\ Begun.blocks = <<>> BY DEF Begun
    <2>3. Right(<<>>, Begun)
      BY <2>2, RangeOfNone DEF Ordered1, Ordered2, Ordered3
    <2> QED BY <2>1, <2>3, ParsedOfNone
  <1>2. ASSUME NEW l \in Lines, NEW x \in Line, l \in G PROVE Append(l, x) \in G
    <2> DEFINE t == Append(l, x)
               n == Len(l) + 1
               s == Parsed(l)
               u == Parsed(t)
    <2>1. /\ t \in Lines /\ n \in Nat /\ Len(t) = n /\ Len(l) = n - 1
          /\ s \in Parser /\ u = ParseLine(x, s, n)
      BY AppendProperties, LenProperties, ParsedType, ParsedOfMore DEF Lines
    <2>2. Ordered1(l, s) /\ Ordered2(l, s) /\ Ordered3(s)
      BY <1>2
    <2> SUFFICES Right(t, u)
      BY <2>1
    <2> HIDE DEF t, n, s, u
    <2>3. /\ s.index \in Nat /\ s.start \in Nat /\ s.middle \in Nat /\ s.blocks \in Seq(Block)
          /\ \A b \in Range(s.blocks) : b \in Block
      BY <2>1, RangeOfSeq DEF Parser
    <2>4. \A b \in Range(s.blocks) : b.end \in Nat /\ b.start \in Nat /\ b.index \in Nat
      BY <2>3 DEF Block
    <2>6. CASE Starts(x, Opening)
      <3>1. /\ u.in = "ours" /\ u.start = n /\ u.index = s.index + 1 /\ u.blocks = s.blocks
        BY <2>1, <2>6, ParseLineIs
      <3> QED BY <2>1, <2>2, <2>3, <2>4, <3>1 DEF Ordered1, Ordered2, Ordered3
    <2>7. CASE Starts(x, Middle)
      <3>1. /\ u.in = IF s.in = "ours" THEN "theirs" ELSE "neutral"
            /\ u.start = s.start /\ u.index = s.index /\ u.blocks = s.blocks
        BY <2>1, <2>7, ParseLineIs
      <3> QED BY <2>1, <2>2, <2>3, <2>4, <3>1 DEF Ordered1, Ordered2, Ordered3
    <2>8. CASE Starts(x, Closing)
      <3> DEFINE e == BlockEnding(s, n)
      <3>1. /\ u.in = "neutral" /\ u.index = s.index
            /\ u.blocks = IF s.in = "theirs" THEN Append(s.blocks, e) ELSE s.blocks
        BY <2>1, <2>8, ParseLineIs
      <3>2. /\ e \in Block /\ e.start = s.start /\ e.end = n /\ e.index = s.index
        BY <2>1 DEF BlockEnding, Block, Parser
      <3> HIDE DEF e
      <3>3. CASE s.in = "theirs"
        <4>1. Range(u.blocks) = Range(s.blocks) \union {e} BY <2>3, <3>1, <3>2, <3>3, RangeOfMore
        <4>2. \A b \in Range(s.blocks) : Before(b, e) BY <2>2, <3>2, <3>3 DEF Ordered2, Before
        <4>3. Ordered3(u)
          BY <2>2, <4>1, <4>2 DEF Ordered3
        <4>4. Ordered1(t, u)
          BY <2>1, <2>2, <2>3, <2>4, <3>1, <3>2, <4>1 DEF Ordered1
        <4> QED BY <3>1, <4>3, <4>4 DEF Ordered2
      <3>4. CASE s.in # "theirs"
        BY <2>1, <2>2, <2>3, <2>4, <3>1, <3>4 DEF Ordered1, Ordered2, Ordered3
      <3> QED BY <3>3, <3>4
    <2>9. CASE ~IsMark(x)
      <3>1. u = s BY <2>1, <2>9, ParseLineIs
      <3> QED BY <2>1, <2>2, <2>3, <2>4, <3>1 DEF Ordered1, Ordered2
    <2> QED BY <2>6, <2>7, <2>8, <2>9, OneMarker
  <1> HIDE DEF G
  <1>3. Lines \subseteq G
    BY <1>1, <1>2, SeqInduction DEF Lines
  <1> QED BY <1>3 DEF G

\* What every block found is: markers in order, in the text; a line is in one
\* block at most, and a number belongs to one.
LEMMA BlocksApart ==
  ASSUME NEW lines \in Lines
  PROVE  LET bs == ParseConflictBlocks(lines) IN
         /\ \A b \in Range(bs) :
              /\ b \in Block /\ b.index >= 1 /\ 1 <= b.start /\ b.start < b.middle /\ b.middle < b.end
              /\ b.end <= Len(lines) /\ Triple(lines, b.start, b.middle, b.end)
         /\ \A b, c \in Range(bs) : b = c \/ Before(b, c) \/ Before(c, b)
  <1>1. \A b \in Range(ParseConflictBlocks(lines)) : b \in Block /\ b.index >= 1 /\ Triple(lines, b.start, b.middle, b.end)
    BY ParserFinds
  <1>2. Ordered3(Parsed(lines))
    BY ParserIsOrdered
  <1>3. Len(lines) \in Nat BY LenProperties DEF Lines
  <1>4. ASSUME NEW b \in Range(ParseConflictBlocks(lines))
        PROVE  /\ 1 <= b.start /\ b.start < b.middle /\ b.middle < b.end /\ b.end <= Len(lines)
    BY <1>1, <1>3 DEF Triple, Block
  <1> QED BY <1>1, <1>2, <1>4 DEF Ordered3, ParseConflictBlocks

LEMMA OneBlock ==
  ASSUME NEW lines \in Lines, NEW i \in Int, NEW b \in BlockOf(ParseConflictBlocks(lines), i)
  PROVE  BlockOf(ParseConflictBlocks(lines), i) = {b}
  <1> DEFINE bs == ParseConflictBlocks(lines)
  <1>1. /\ \A c \in Range(bs) : c.start \in Nat /\ c.end \in Nat
        /\ \A c, d \in Range(bs) : c = d \/ c.end < d.start \/ d.end < c.start
    BY BlocksApart DEF Block, Before
  <1> QED BY <1>1 DEF BlockOf

-----------------------------------------------------------------------------
(* A line put into a text that is no marker moves the blocks after it.      *)

\* t is l with another line, no marker, after its line a.
Inserted(l, t, a) ==
  /\ l \in Lines /\ t \in Lines /\ a \in 0 .. Len(l) /\ Len(t) = Len(l) + 1
  /\ \A i \in 1 .. a : t[i] = l[i]
  /\ \A i \in a + 1 .. Len(l) : t[i + 1] = l[i]
  /\ ~IsMark(t[a + 1])

\* Where line k of the text is then.
Past(a, k) == IF k <= a THEN k ELSE k + 1

PastBlock(a, b) ==
  [index |-> b.index, start |-> Past(a, b.start), middle |-> Past(a, b.middle), end |-> Past(a, b.end)]

\* The parser u stands after the line put in as s does without it.
Moved(a, s, u) ==
  /\ u.in = s.in /\ u.index = s.index /\ u.start = Past(a, s.start) /\ u.middle = Past(a, s.middle)
  /\ Range(u.blocks) = {PastBlock(a, b) : b \in Range(s.blocks)}

LEMMA ParseLineMoved ==
  ASSUME NEW a \in Nat, NEW s \in Parser, NEW u \in Parser, Moved(a, s, u), NEW x, NEW i \in Nat
  PROVE  Moved(a, ParseLine(x, s, i), ParseLine(x, u, Past(a, i)))
  <1> DEFINE k == Past(a, i)
             v == ParseLine(x, s, i)
             w == ParseLine(x, u, k)
  <1>1. k \in Nat BY DEF Past
  <1> HIDE DEF k, v, w
  <1>2. CASE Starts(x, Opening)
    <2>1. /\ v.in = "ours" /\ v.start = i /\ v.index = s.index + 1 /\ v.middle = s.middle /\ v.blocks = s.blocks
          /\ w.in = "ours" /\ w.start = k /\ w.index = u.index + 1 /\ w.middle = u.middle /\ w.blocks = u.blocks
      BY <1>1, <1>2, ParseLineIs DEF v, w
    <2> QED BY <2>1 DEF Moved, k, v, w
  <1>3. CASE Starts(x, Middle)
    <2>1. /\ v.in = IF s.in = "ours" THEN "theirs" ELSE "neutral"
          /\ v.middle = (IF s.in = "ours" THEN i ELSE s.middle)
          /\ v.start = s.start /\ v.index = s.index /\ v.blocks = s.blocks
          /\ w.in = IF u.in = "ours" THEN "theirs" ELSE "neutral"
          /\ w.middle = (IF u.in = "ours" THEN k ELSE u.middle)
          /\ w.start = u.start /\ w.index = u.index /\ w.blocks = u.blocks
      BY <1>1, <1>3, ParseLineIs DEF v, w
    <2> QED BY <2>1 DEF Moved, k, v, w
  <1>4. CASE Starts(x, Closing)
    <2> DEFINE e == BlockEnding(s, i)
               f == BlockEnding(u, k)
    <2>1. /\ v.in = "neutral" /\ v.start = s.start /\ v.middle = s.middle /\ v.index = s.index
          /\ v.blocks = IF s.in = "theirs" THEN Append(s.blocks, e) ELSE s.blocks
          /\ w.in = "neutral" /\ w.start = u.start /\ w.middle = u.middle /\ w.index = u.index
          /\ w.blocks = IF u.in = "theirs" THEN Append(u.blocks, f) ELSE u.blocks
      BY <1>1, <1>4, ParseLineIs DEF v, w
    <2>2. e \in Block /\ f \in Block /\ s.blocks \in Seq(Block) /\ u.blocks \in Seq(Block)
      BY <1>1 DEF BlockEnding, Block, Parser
    <2>3. f = PastBlock(a, e)
      BY DEF Moved, BlockEnding, PastBlock, k
    <2> HIDE DEF e, f
    <2>4. Range(Append(s.blocks, e)) = Range(s.blocks) \union {e}
          /\ Range(Append(u.blocks, f)) = Range(u.blocks) \union {f}
      BY <2>2, RangeOfMore
    <2>5. Range(w.blocks) = {PastBlock(a, b) : b \in Range(v.blocks)}
      <3>1. CASE s.in = "theirs"
        <4>1. Range(v.blocks) = Range(s.blocks) \union {e} /\ Range(w.blocks) = Range(u.blocks) \union {f}
          BY <2>1, <2>4, <3>1 DEF Moved
        <4> QED BY <4>1, <2>3 DEF Moved
      <3>2. CASE s.in # "theirs"
        BY <2>1, <3>2 DEF Moved
      <3> QED BY <3>1, <3>2
    <2> QED BY <2>1, <2>5 DEF Moved, v, w, k
  <1>5. CASE ~IsMark(x)
    BY <1>1, <1>5, ParseLineIs DEF v, w, k
  <1> QED BY <1>2, <1>3, <1>4, <1>5, OneMarker DEF v, w, k

LEMMA BlocksMoved ==
  ASSUME NEW l, NEW t, NEW a, Inserted(l, t, a)
  PROVE  Range(ParseConflictBlocks(t)) = {PastBlock(a, b) : b \in Range(ParseConflictBlocks(l))}
  <1> DEFINE n == Len(l)
             f == Parses(l)
             h == Parses(t)
             Good == {m \in Nat : m <= n => (m <= a => Moved(a, f[m], h[m])) /\ (m >= a => Moved(a, f[m], h[m + 1]))}
  <1>1. /\ n \in Nat /\ a \in Nat /\ a <= n /\ Len(t) = n + 1 /\ l \in Lines /\ t \in Lines
        /\ (\A i \in 1 .. a : t[i] = l[i]) /\ (\A i \in a + 1 .. n : t[i + 1] = l[i]) /\ ~IsMark(t[a + 1])
    BY LenProperties DEF Inserted, Lines
  <1>2. /\ f \in [0 .. n -> Parser] /\ f[0] = Begun
        /\ \A i \in 1 .. n : f[i] = ParseLine(l[i], f[i - 1], i)
        /\ Parsed(l) = f[n]
    BY <1>1, ParsesIs
  <1>3. /\ h \in [0 .. n + 1 -> Parser] /\ h[0] = Begun
        /\ \A i \in 1 .. n + 1 : h[i] = ParseLine(t[i], h[i - 1], i)
        /\ Parsed(t) = h[n + 1]
    BY <1>1, ParsesIs
  <1> HIDE DEF n, f, h
  <1>4. h[a + 1] = h[a]
    <2> DEFINE k == a + 1
    <2>1. k \in 1 .. n + 1 /\ k - 1 = a /\ k \in Nat /\ h[a] \in Parser BY <1>1, <1>3
    <2> HIDE DEF k
    <2>2. h[k] = ParseLine(t[k], h[a], k) BY <1>3, <2>1
    <2>3. ~IsMark(t[k]) BY <1>1 DEF k
    <2> QED BY <2>1, <2>2, <2>3, ParseLineIs DEF k
  <1>5. 0 \in Good
    <2>1. Moved(a, Begun, Begun)
      <3>1. Begun.start = 0 /\ Begun.middle = 0 /\ Begun.blocks = <<>> BY DEF Begun
      <3> QED BY <1>1, <3>1, RangeOfNone DEF Moved, Past
    <2>2. a <= 0 => h[0 + 1] = h[0] BY <1>1, <1>4
    <2> QED BY <1>2, <1>3, <2>1, <2>2
  <1>6. ASSUME NEW m \in Nat, m \in Good PROVE m + 1 \in Good
    <2> DEFINE k == m + 1
    <2> SUFFICES ASSUME k <= n PROVE (k <= a => Moved(a, f[k], h[k])) /\ (k >= a => Moved(a, f[k], h[k + 1]))
      BY DEF k
    <2>1. /\ k \in 1 .. n /\ k \in 1 .. n + 1 /\ k + 1 \in 1 .. n + 1 /\ k - 1 = m /\ k + 1 - 1 = k /\ m \in 0 .. n
          /\ m \in 0 .. n + 1 /\ k \in 0 .. n + 1 /\ m <= n /\ k \in Nat /\ m + 1 = k
      BY <1>1
    <2> HIDE DEF k
    <2>2. f[k] = ParseLine(l[k], f[m], k) /\ f[m] \in Parser BY <1>2, <2>1
    <2>3. h[k] = ParseLine(t[k], h[m], k) /\ h[k + 1] = ParseLine(t[k + 1], h[k], k + 1)
          /\ h[m] \in Parser /\ h[k] \in Parser
      BY <1>3, <2>1
    <2>4. CASE k <= a
      <3>1. m <= a /\ t[k] = l[k] /\ Past(a, k) = k BY <1>1, <2>1, <2>4 DEF Past
      <3>2. Moved(a, f[m], h[m]) BY <1>6, <2>1, <3>1
      <3>3. Moved(a, f[k], h[k])
        BY <1>1, <2>1, <2>2, <2>3, <3>1, <3>2, ParseLineMoved
      <3>4. k >= a => h[k + 1] = h[k] BY <1>1, <1>4, <2>1, <2>4
      <3> QED BY <3>3, <3>4
    <2>5. CASE ~(k <= a)
      <3>1. m >= a /\ t[k + 1] = l[k] /\ Past(a, k) = k + 1 BY <1>1, <2>1, <2>5 DEF Past
      <3>2. Moved(a, f[m], h[k]) BY <1>6, <2>1, <3>1
      <3>3. Moved(a, f[k], h[k + 1])
        BY <1>1, <2>1, <2>2, <2>3, <3>1, <3>2, ParseLineMoved
      <3> QED BY <2>5, <3>3
    <2> QED BY <2>4, <2>5
  <1> HIDE DEF Good
  <1>7. n \in Good
    <2>1. Nat \subseteq Good BY <1>5, <1>6, Induction
    <2> QED BY <1>1, <2>1
  <1>8. Moved(a, f[n], h[n + 1])
    BY <1>1, <1>7 DEF Good
  <1> QED BY <1>2, <1>3, <1>8 DEF Moved, ParseConflictBlocks

-----------------------------------------------------------------------------
(* The rows of a line. *)

Place(lines, i) == RowsAt(lines, ParseConflictBlocks(lines), i)

RoleAt(b, i) ==
  IF i = b.start THEN "marker-start"
  ELSE IF i < b.middle THEN "ours"
  ELSE IF i = b.middle THEN "separator"
  ELSE IF i < b.end THEN "theirs" ELSE "marker-end"

LEMMA RoleInPlace ==
  ASSUME NEW lines \in Lines, NEW i \in Int, NEW b \in BlockOf(ParseConflictBlocks(lines), i)
  PROVE  RoleIn(b, i) = RoleAt(b, i) /\ b \in Block /\ i \in b.start .. b.end
  <1>1. b \in Block /\ b.start < b.middle /\ b.middle < b.end
    BY BlocksApart DEF BlockOf
  <1>2. i \in b.start .. b.end
    BY <1>1 DEF BlockOf, Block
  <1> QED BY <1>1, <1>2, RoleInIs DEF RoleAt

LEMMA PlaceIs ==
  ASSUME NEW lines \in Lines, NEW i \in Int
  PROVE  /\ BlockOf(ParseConflictBlocks(lines), i) = {} => Place(lines, i) = << Row("context", lines[i], 0) >>
         /\ \A b \in BlockOf(ParseConflictBlocks(lines), i) :
              Place(lines, i) = (IF i = b.start THEN << Row("button", <<>>, b.index) >> ELSE <<>>)
                                  \o << Row(RoleIn(b, i), lines[i], b.index) >>
  <1> DEFINE B == BlockOf(ParseConflictBlocks(lines), i)
             At(b) == (IF i = b.start THEN << Row("button", <<>>, b.index) >> ELSE <<>>)
                         \o << Row(RoleIn(b, i), lines[i], b.index) >>
  <1>1. Place(lines, i) = IF B = {} THEN << Row("context", lines[i], 0) >> ELSE At(CHOOSE b \in B : TRUE)
    BY DEF Place, RowsAt
  <1>2. ASSUME NEW b \in B PROVE B = {b}
    BY OneBlock
  <1> HIDE DEF B, At
  <1>3. ASSUME NEW b \in B PROVE Place(lines, i) = At(b)
    <2>1. (CHOOSE c \in B : TRUE) = b /\ B # {} BY <1>2
    <2> QED BY <1>1, <2>1
  <1>4. B = {} => Place(lines, i) = << Row("context", lines[i], 0) >>
    BY <1>1
  <1> QED BY <1>3, <1>4 DEF At, B

\* The blocks that a line put after line a comes to be in.
Around(lines, a) == {b \in Range(ParseConflictBlocks(lines)) : b.start <= a /\ a < b.end}

RoleAfter(lines, a) ==
  IF Around(lines, a) = {} THEN "context"
  ELSE IF \E b \in Around(lines, a) : a < b.middle THEN "ours" ELSE "theirs"

NumberAfter(lines, a) ==
  IF Around(lines, a) = {} THEN 0 ELSE (CHOOSE b \in Around(lines, a) : TRUE).index

LEMMA OneAround ==
  ASSUME NEW lines \in Lines, NEW a \in Int, NEW b \in Around(lines, a)
  PROVE  Around(lines, a) = {b} /\ NumberAfter(lines, a) = b.index
         /\ RoleAfter(lines, a) = IF a < b.middle THEN "ours" ELSE "theirs"
  <1> DEFINE bs == ParseConflictBlocks(lines)
  <1>1. /\ \A c \in Range(bs) : c.start \in Nat /\ c.end \in Nat
        /\ \A c, d \in Range(bs) : c = d \/ c.end < d.start \/ d.end < c.start
    BY BlocksApart DEF Block, Before
  <1>2. Around(lines, a) = {b}
    BY <1>1 DEF Around
  <1>3. (CHOOSE c \in {b} : TRUE) = b OBVIOUS
  <1> QED BY <1>2, <1>3 DEF NumberAfter, RoleAfter

LEMMA PlaceMoved ==
  ASSUME NEW l, NEW t, NEW a, Inserted(l, t, a), NEW i \in 1 .. Len(l)
  PROVE  Place(t, Past(a, i)) = Place(l, i)
  <1> DEFINE k == Past(a, i)
             bs == ParseConflictBlocks(l)
             ts == ParseConflictBlocks(t)
  <1>1. /\ l \in Lines /\ t \in Lines /\ a \in Nat /\ Len(l) \in Nat /\ i \in Nat /\ k \in Int /\ t[k] = l[i]
    BY LenProperties DEF Inserted, Lines, Past
  <1>2. Range(ts) = {PastBlock(a, b) : b \in Range(bs)}
    BY BlocksMoved
  <1>3. \A b \in Range(bs) : b.start \in Nat /\ b.middle \in Nat /\ b.end \in Nat
    BY <1>1, BlocksApart DEF Block
  <1>4. BlockOf(ts, k) = {PastBlock(a, b) : b \in BlockOf(bs, i)}
    <2>1. \A b \in Range(bs) : /\ PastBlock(a, b).start <= k <=> b.start <= i
                               /\ k <= PastBlock(a, b).end <=> i <= b.end
      BY <1>1, <1>3 DEF PastBlock, Past
    <2> HIDE DEF k, bs, ts
    <2> QED BY <1>2, <2>1 DEF BlockOf
  <1>5. CASE BlockOf(bs, i) = {}
    <2>1. BlockOf(ts, k) = {} BY <1>4, <1>5
    <2> QED BY <1>1, <1>5, <2>1, PlaceIs
  <1>6. CASE BlockOf(bs, i) # {}
    <2> PICK b \in BlockOf(bs, i) : TRUE BY <1>6
    <2> DEFINE c == PastBlock(a, b)
    <2>1. c \in BlockOf(ts, k) BY <1>4
    <2>2. b.start \in Nat /\ b.middle \in Nat /\ b.end \in Nat BY <1>3 DEF BlockOf
    <2>7. RoleIn(c, k) = RoleAt(c, k) /\ RoleIn(b, i) = RoleAt(b, i)
      BY <1>1, <2>1, RoleInPlace
    <2>3. c.index = b.index /\ (k = c.start <=> i = b.start) /\ (k < c.middle <=> i < b.middle)
          /\ (k = c.middle <=> i = b.middle) /\ (k < c.end <=> i < b.end)
      BY <1>1, <2>2 DEF PastBlock, Past
    <2> HIDE DEF c, k, bs, ts
    <2>4. RoleIn(c, k) = RoleIn(b, i) BY <2>3, <2>7 DEF RoleAt
    <2>5. Place(l, i) = (IF i = b.start THEN << Row("button", <<>>, b.index) >> ELSE <<>>)
                          \o << Row(RoleIn(b, i), l[i], b.index) >>
      BY <1>1, PlaceIs DEF bs
    <2>6. Place(t, k) = (IF k = c.start THEN << Row("button", <<>>, c.index) >> ELSE <<>>)
                          \o << Row(RoleIn(c, k), t[k], c.index) >>
      BY <1>1, <2>1, PlaceIs DEF ts
    <2> QED BY <1>1, <2>3, <2>4, <2>5, <2>6 DEF k
  <1> QED BY <1>5, <1>6

LEMMA PlacePut ==
  ASSUME NEW l, NEW t, NEW a, Inserted(l, t, a)
  PROVE  Place(t, a + 1) = << Row(RoleAfter(l, a), t[a + 1], NumberAfter(l, a)) >>
  <1> DEFINE k == a + 1
             bs == ParseConflictBlocks(l)
             ts == ParseConflictBlocks(t)
  <1>1. /\ l \in Lines /\ t \in Lines /\ a \in Nat /\ Len(l) \in Nat /\ k \in Int /\ k \in 1 .. Len(t)
    BY LenProperties DEF Inserted, Lines
  <1>2. Range(ts) = {PastBlock(a, b) : b \in Range(bs)}
    BY BlocksMoved
  <1>3. \A b \in Range(bs) : b.start \in Nat /\ b.middle \in Nat /\ b.end \in Nat
    BY <1>1, BlocksApart DEF Block
  <1>4. BlockOf(ts, k) = {PastBlock(a, b) : b \in Around(l, a)}
    <2>1. \A b \in Range(bs) : /\ PastBlock(a, b).start <= k <=> b.start <= a
                               /\ k <= PastBlock(a, b).end <=> a < b.end
      BY <1>1, <1>3 DEF PastBlock, Past
    <2> HIDE DEF k
    <2> QED BY <1>2, <2>1 DEF BlockOf, Around
  <1>5. CASE Around(l, a) = {}
    <2>1. BlockOf(ts, k) = {} BY <1>4, <1>5
    <2>2. RoleAfter(l, a) = "context" /\ NumberAfter(l, a) = 0 BY <1>5 DEF RoleAfter, NumberAfter
    <2> QED BY <1>1, <2>1, <2>2, PlaceIs
  <1>6. CASE Around(l, a) # {}
    <2> PICK b \in Around(l, a) : TRUE BY <1>6
    <2> DEFINE c == PastBlock(a, b)
    <2>1. c \in BlockOf(ts, k) BY <1>4
    <2>2. b.start \in Nat /\ b.middle \in Nat /\ b.end \in Nat /\ b.start <= a /\ a < b.end
      BY <1>3 DEF Around
    <2>3. c.index = b.index /\ k # c.start /\ (k < c.middle <=> a < b.middle)
          /\ k # c.middle /\ k < c.end
      BY <1>1, <2>2 DEF PastBlock, Past
    <2>4. RoleAfter(l, a) = (IF a < b.middle THEN "ours" ELSE "theirs") /\ NumberAfter(l, a) = b.index
      BY <1>1, OneAround
    <2> HIDE DEF c, k, bs, ts
    <2>9. RoleIn(c, k) = RoleAt(c, k)
      BY <1>1, <2>1, RoleInPlace DEF ts
    <2>5. RoleIn(c, k) = RoleAfter(l, a) BY <2>3, <2>4, <2>9 DEF RoleAt
    <2>6. Place(t, k) = (IF k = c.start THEN << Row("button", <<>>, c.index) >> ELSE <<>>)
                          \o << Row(RoleIn(c, k), t[k], c.index) >>
      BY <1>1, <2>1, PlaceIs DEF ts
    <2> DEFINE r == Row(RoleIn(c, k), t[k], c.index)
    <2>7. <<>> \o <<r>> = <<r>>
      <3>1. <<r>> \in Seq({r}) BY OneIsSeq
      <3> QED BY <3>1, ConcatEmptySeq
    <2>8. Place(t, k) = <<r>> BY <2>3, <2>6, <2>7
    <2> QED BY <2>3, <2>4, <2>5, <2>8 DEF k
  <1> QED BY <1>5, <1>6

LEMMA PlaceType ==
  ASSUME NEW lines \in Lines, NEW i \in 1 .. Len(lines)
  PROVE  Place(lines, i) \in Seq(RowType) /\ LinesOf(Place(lines, i)) = << lines[i] >>
  BY RowsAtIs DEF Place

\* The last of the rows of a line has its text; a context row is the only one.
LastRow(lines, i, h, g) ==
  /\ h \in Seq(RowType) /\ LinesOf(h) = <<>> /\ g \in Lined /\ g.text = lines[i]
  /\ Place(lines, i) = h \o <<g>>
  /\ g.role = "context" => h = <<>>
  /\ g.role \in Editable => g.role = RoleAfter(lines, i) /\ g.block = NumberAfter(lines, i)
  /\ g.role \in Editable /\ IsMark(g.text) => g.role = "context"
  /\ g.role = "context" => g.block = 0 /\ RoleAfter(lines, i - 1) = "context" /\ NumberAfter(lines, i - 1) = 0

LEMMA LastRowIs ==
  ASSUME NEW lines \in Lines, NEW i \in 1 .. Len(lines)
  PROVE  \E h, g : LastRow(lines, i, h, g)
  <1> DEFINE B == BlockOf(ParseConflictBlocks(lines), i)
  <1>0. lines[i] \in Line /\ <<>> \in Line /\ i \in Int /\ i - 1 \in Int
    BY ElementOfSeq, EmptySeq, LenProperties DEF Lines, Line
  <1>a. \A b \in Range(ParseConflictBlocks(lines)) : b.start \in Nat /\ b.middle \in Nat /\ b.end \in Nat
    BY BlocksApart DEF Block
  <1>1. CASE B = {}
    <2> DEFINE g == Row("context", lines[i], 0)
    <2>1. g \in Lined /\ g.text = lines[i] /\ g.role = "context" /\ g.block = 0
      BY <1>0 DEF Row, RowType, Role, Lined
    <2>2. Place(lines, i) = <<g>> BY <1>0, <1>1, PlaceIs
    <2> HIDE DEF g
    <2>3. <<>> \o <<g>> = <<g>> BY <2>1, OneIsSeq, ConcatEmptySeq
    <2>4. Around(lines, i) = {} /\ Around(lines, i - 1) = {}
      <3>1. \A b \in Around(lines, i) \union Around(lines, i - 1) : b \in B
        BY <1>0, <1>a DEF Around, BlockOf
      <3> QED BY <1>1, <3>1
    <2>5. /\ RoleAfter(lines, i) = "context" /\ NumberAfter(lines, i) = 0
          /\ RoleAfter(lines, i - 1) = "context" /\ NumberAfter(lines, i - 1) = 0
      BY <2>4 DEF RoleAfter, NumberAfter
    <2>6. <<>> \in Seq(RowType) BY EmptySeq
    <2> QED BY <2>1, <2>2, <2>3, <2>5, <2>6, LinesOfNone DEF LastRow
  <1>2. CASE B # {}
    <2> PICK b \in B : TRUE BY <1>2
    <2> DEFINE g == Row(RoleIn(b, i), lines[i], b.index)
               q == Row("button", <<>>, b.index)
               h == IF i = b.start THEN <<q>> ELSE <<>>
    <2>1. Place(lines, i) = h \o <<g>> BY <1>0, PlaceIs
    <2>2. /\ b \in Range(ParseConflictBlocks(lines)) /\ b \in Block /\ b.index \in Nat /\ b.index >= 1
          /\ b.start < b.middle /\ b.middle < b.end /\ Triple(lines, b.start, b.middle, b.end)
          /\ b.start \in Nat /\ b.middle \in Nat /\ b.end \in Nat
      BY BlocksApart DEF BlockOf, Block
    <2>3. RoleIn(b, i) = RoleAt(b, i) /\ i \in b.start .. b.end BY <1>0, RoleInPlace
    <2>4. RoleAt(b, i) \in Role \ {"button", "context"} BY DEF RoleAt, Role
    <2>5. g \in Lined /\ g.text = lines[i] /\ g.role = RoleAt(b, i) /\ g.block = b.index /\ g.role # "context"
      BY <1>0, <2>2, <2>3, <2>4 DEF Row, RowType, Lined
    <2>6. q \in RowType /\ q.role = "button" BY <1>0, <2>2 DEF Row, RowType, Role
    <2> HIDE DEF g, q
    <2>7. h \in Seq(RowType) /\ LinesOf(h) = <<>>
      <3>1. <<q>> \in Seq(RowType) /\ LinesOf(<<q>>) = <<>> BY <2>6, OneIsSeq, LinesOfOne
      <3> QED BY <3>1, LinesOfNone, EmptySeq
    <2> HIDE DEF h
    <2>8. ASSUME g.role \in Editable
          PROVE  g.role = RoleAfter(lines, i) /\ g.block = NumberAfter(lines, i) /\ ~IsMark(g.text)
      <3>1. /\ b.start < i /\ i < b.end /\ i # b.middle
            /\ g.role = IF i < b.middle THEN "ours" ELSE "theirs"
        BY <2>2, <2>3, <2>5, <2>8 DEF RoleAt, Editable
      <3>2. b \in Around(lines, i) BY <2>2, <3>1 DEF Around
      <3>3. NumberAfter(lines, i) = b.index /\ RoleAfter(lines, i) = IF i < b.middle THEN "ours" ELSE "theirs"
        BY <1>0, <3>2, OneAround
      <3>4. ~IsMark(lines[i])
        <4>1. i \in b.start + 1 .. b.end - 1 BY <1>0, <2>2, <3>1
        <4> QED BY <2>2, <3>1, <4>1 DEF Triple
      <3> QED BY <2>5, <3>1, <3>3, <3>4
    <2> QED BY <2>1, <2>5, <2>7, <2>8 DEF LastRow
  <1> QED BY <1>1, <1>2

-----------------------------------------------------------------------------
(* The rows of a text up to a line, and from it. *)

\* The rows p of the first i lines, and the rows q of the others.
Halves(lines, i, p, q) ==
  p \in Seq(RowType) /\ q \in Seq(RowType) /\ Rows(lines) = p \o q /\ LinesOf(p) = SubSeq(lines, 1, i)

LEMMA BuiltIs ==
  ASSUME NEW lines \in Lines, NEW i \in 0 .. Len(lines)
  PROVE  \E q : Halves(lines, i, Builds(lines)[i], q)
  <1> DEFINE n == Len(lines)
             f == Builds(lines)
             Good == {m \in Nat : m <= n => LinesOf(f[m]) = SubSeq(lines, 1, m)}
             Fine == {m \in Nat : i + m <= n => \E q \in Seq(RowType) : f[i + m] = f[i] \o q}
  <1>0. n \in Nat
    BY LenProperties DEF Lines
  <1>1. /\ f \in [0 .. n -> Seq(RowType)] /\ f[0] = <<>>
        /\ \A k \in 1 .. n : f[k] = f[k - 1] \o Place(lines, k)
        /\ Rows(lines) = f[n]
    BY BuildsIs DEF Place
  <1> HIDE DEF f, n
  <1>2. 0 \in Good
    <2>1. SubSeq(lines, 1, 0) = <<>> BY SubSeqEmpty
    <2> QED BY <1>1, <2>1, LinesOfNone
  <1>3. ASSUME NEW m \in Nat, m \in Good PROVE m + 1 \in Good
    <2> SUFFICES ASSUME m + 1 <= n PROVE LinesOf(f[m + 1]) = SubSeq(lines, 1, m + 1)
      OBVIOUS
    <2> DEFINE k == m + 1
               t == Place(lines, k)
    <2>1. k \in 1 .. n /\ k - 1 = m /\ m \in 0 .. n BY <1>0
    <2>2. t \in Seq(RowType) /\ LinesOf(t) = <<lines[k]>> BY <2>1, PlaceType DEF n
    <2> HIDE DEF k, t
    <2>3. f[k] = f[m] \o t /\ f[m] \in Seq(RowType) BY <1>1, <2>1 DEF t
    <2>4. LinesOf(f[k]) = LinesOf(f[m]) \o <<lines[k]>> BY <2>2, <2>3, LinesOfJoined
    <2>5. LinesOf(f[m]) = SubSeq(lines, 1, m) BY <1>3, <1>0, <2>1
    <2>6. SubSeq(lines, 1, k) = SubSeq(lines, 1, k - 1) \o <<lines[k]>>
      <3>1. 1 \in 1 .. n /\ k \in 1 .. n BY <1>0, <2>1
      <3> QED BY <3>1, SubSeqRecursiveSecond DEF Lines, n
    <2>7. LinesOf(f[k]) = SubSeq(lines, 1, k) BY <2>1, <2>4, <2>5, <2>6
    <2> QED BY <2>7 DEF k
  <1>4. 0 \in Fine
    <2>1. f[i] \in Seq(RowType) /\ i + 0 = i BY <1>1 DEF n
    <2>2. f[i] = f[i] \o <<>> /\ <<>> \in Seq(RowType) BY <2>1, ConcatEmptySeq, EmptySeq
    <2> QED BY <2>1, <2>2
  <1>5. ASSUME NEW m \in Nat, m \in Fine PROVE m + 1 \in Fine
    <2> SUFFICES ASSUME i + (m + 1) <= n PROVE \E q \in Seq(RowType) : f[i + (m + 1)] = f[i] \o q
      OBVIOUS
    <2> DEFINE k == i + (m + 1)
               t == Place(lines, k)
    <2>0. i \in 0 .. n BY DEF n
    <2>1. k \in 1 .. n /\ k - 1 = i + m /\ i + m <= n BY <1>0, <2>0
    <2>2. t \in Seq(RowType) BY <2>1, PlaceType DEF n
    <2> HIDE DEF k, t
    <2>3. PICK q \in Seq(RowType) : f[i + m] = f[i] \o q BY <1>5, <2>1
    <2>4. f[k] = (f[i] \o q) \o t BY <1>1, <2>1, <2>3 DEF t
    <2>5. (f[i] \o q) \o t = f[i] \o (q \o t) /\ q \o t \in Seq(RowType)
      <3> DEFINE u == f[i]
      <3>1. u \in Seq(RowType) BY <1>1, <2>0
      <3> HIDE DEF u
      <3>2. (u \o q) \o t = u \o (q \o t) BY <2>2, <3>1, ConcatAssociative
      <3>3. q \o t \in Seq(RowType) BY <2>2, ConcatProperties
      <3> QED BY <3>2, <3>3 DEF u
    <2> QED BY <2>4, <2>5 DEF k
  <1> HIDE DEF Good, Fine
  <1>6. Nat \subseteq Good /\ Nat \subseteq Fine
    BY <1>2, <1>3, <1>4, <1>5, Induction
  <1>7. i \in Nat /\ i <= n /\ n - i \in Nat /\ i + (n - i) = n
    BY <1>0 DEF n
  <1>8. LinesOf(f[i]) = SubSeq(lines, 1, i)
    BY <1>6, <1>7 DEF Good
  <1>9. \E q \in Seq(RowType) : f[i + (n - i)] = f[i] \o q
    <2> DEFINE m == n - i
    <2>1. m \in Fine /\ i + m <= n BY <1>0, <1>6, <1>7
    <2> HIDE DEF m
    <2>2. \E q \in Seq(RowType) : f[i + m] = f[i] \o q BY <2>1 DEF Fine
    <2> QED BY <2>2 DEF m
  <1>10. f[i] \in Seq(RowType)
    BY <1>1 DEF n
  <1> QED BY <1>1, <1>7, <1>8, <1>9, <1>10 DEF Halves, f

\* With one line more, no marker, there is one row more.
LEMMA RowsInserted ==
  ASSUME NEW l, NEW t, NEW a, Inserted(l, t, a)
  PROVE  \E q : /\ Halves(l, a, Builds(l)[a], q)
                /\ Rows(t) = Put(Builds(l)[a], Row(RoleAfter(l, a), t[a + 1], NumberAfter(l, a)), q)
  <1> DEFINE n == Len(l)
             f == Builds(l)
             h == Builds(t)
             g == Row(RoleAfter(l, a), t[a + 1], NumberAfter(l, a))
             Good == {m \in Nat : m <= a => h[m] = f[m]}
             Fine == {m \in Nat : a + m <= n =>
                        \E q \in Seq(RowType) : f[a + m] = f[a] \o q /\ h[a + m + 1] = Put(f[a], g, q)}
  <1>1. n \in Nat /\ a \in Nat /\ a <= n /\ Len(t) = n + 1 /\ l \in Lines /\ t \in Lines
    BY LenProperties DEF Inserted, Lines
  <1>2. /\ f \in [0 .. n -> Seq(RowType)] /\ f[0] = <<>>
        /\ \A k \in 1 .. n : f[k] = f[k - 1] \o Place(l, k)
        /\ Rows(l) = f[n]
    BY <1>1, BuildsIs DEF Place
  <1>3. /\ h \in [0 .. n + 1 -> Seq(RowType)] /\ h[0] = <<>>
        /\ \A k \in 1 .. n + 1 : h[k] = h[k - 1] \o Place(t, k)
        /\ Rows(t) = h[n + 1]
    BY <1>1, BuildsIs DEF Place
  <1>4. /\ \A k \in 1 .. n : Place(t, Past(a, k)) = Place(l, k)
        /\ Place(t, a + 1) = <<g>>
    BY PlaceMoved, PlacePut
  <1>5. Place(t, a + 1) \in Seq(RowType)
    <2>1. a + 1 \in 1 .. Len(t) BY <1>1
    <2> QED BY <1>1, <2>1, PlaceType
  <1> HIDE DEF n, f, h, g
  <1>6. 0 \in Good
    BY <1>2, <1>3
  <1>7. ASSUME NEW m \in Nat, m \in Good PROVE m + 1 \in Good
    <2> SUFFICES ASSUME m + 1 <= a PROVE h[m + 1] = f[m + 1]
      OBVIOUS
    <2> DEFINE k == m + 1
    <2>1. k \in 1 .. n /\ k \in 1 .. n + 1 /\ k - 1 = m /\ m <= a /\ Past(a, k) = k BY <1>1 DEF Past
    <2> HIDE DEF k
    <2>2. f[k] = f[m] \o Place(l, k) BY <1>2, <2>1
    <2>3. h[k] = h[m] \o Place(t, k) BY <1>3, <2>1
    <2>4. Place(t, k) = Place(l, k) BY <1>4, <2>1
    <2>5. h[m] = f[m] BY <1>7, <2>1
    <2> QED BY <2>2, <2>3, <2>4, <2>5 DEF k
  <1>8. h[a] = f[a]
    <2>1. a \in Good
      <3>1. Nat \subseteq Good
        <4> HIDE DEF Good
        <4> QED BY <1>6, <1>7, Induction
      <3> QED BY <1>1, <3>1
    <2> QED BY <1>1, <2>1
  <1>9. f[a] \in Seq(RowType) /\ <<g>> \in Seq(RowType) /\ f[a] \o <<g>> \in Seq(RowType)
    <2>1. a \in 0 .. n BY <1>1
    <2>2. f[a] \in Seq(RowType) BY <1>2, <2>1
    <2>3. <<g>> \in Seq(RowType) BY <1>4, <1>5
    <2> DEFINE u == f[a]
               o == <<g>>
    <2>4. u \in Seq(RowType) /\ o \in Seq(RowType) BY <2>2, <2>3
    <2> HIDE DEF u, o
    <2>5. u \o o \in Seq(RowType) BY <2>4, ConcatProperties
    <2> QED BY <2>2, <2>3, <2>5 DEF u, o
  <1>10. 0 \in Fine
    <2>1. a + 1 \in 1 .. n + 1 /\ (a + 1) - 1 = a /\ a + 0 = a /\ a + 0 + 1 = a + 1 BY <1>1
    <2>2. h[a + 1] = f[a] \o <<g>> BY <1>3, <1>4, <1>8, <2>1
    <2>3. f[a] = f[a] \o <<>> /\ f[a] \o <<g>> = (f[a] \o <<g>>) \o <<>> /\ <<>> \in Seq(RowType)
      BY <1>9, ConcatEmptySeq, EmptySeq
    <2> QED BY <2>1, <2>2, <2>3 DEF Put
  <1>11. ASSUME NEW m \in Nat, m \in Fine PROVE m + 1 \in Fine
    <2> DEFINE k == a + (m + 1)
               w == Place(l, k)
    <2> SUFFICES ASSUME k <= n
                 PROVE  \E q \in Seq(RowType) : f[k] = f[a] \o q /\ h[k + 1] = Put(f[a], g, q)
      OBVIOUS
    <2>1. /\ k \in 1 .. n /\ k + 1 \in 1 .. n + 1 /\ k - 1 = a + m /\ k + 1 - 1 = a + m + 1 /\ a + m <= n
          /\ Past(a, k) = k + 1
      BY <1>1 DEF Past
    <2>2. w \in Seq(RowType) BY <1>1, <2>1, PlaceType DEF n
    <2> HIDE DEF k, w
    <2>3. PICK q \in Seq(RowType) : f[a + m] = f[a] \o q /\ h[a + m + 1] = Put(f[a], g, q)
      BY <1>11, <2>1
    <2>4. f[k] = (f[a] \o q) \o w BY <1>2, <2>1, <2>3 DEF w
    <2>5. h[k + 1] = Put(f[a], g, q) \o w
      <3>1. h[k + 1] = h[a + m + 1] \o Place(t, k + 1)
        <4> DEFINE j == k + 1
        <4>1. j \in 1 .. n + 1 /\ j - 1 = a + m + 1 BY <2>1
        <4> HIDE DEF j
        <4>2. h[j] = h[j - 1] \o Place(t, j) BY <1>3, <4>1
        <4> QED BY <4>1, <4>2 DEF j
      <3>2. Place(t, k + 1) = w BY <1>4, <2>1 DEF w
      <3> QED BY <2>3, <3>1, <3>2
    <2>6. (f[a] \o q) \o w = f[a] \o (q \o w) /\ q \o w \in Seq(RowType)
      <3> DEFINE u == f[a]
      <3>1. u \in Seq(RowType) BY <1>9
      <3> HIDE DEF u
      <3>2. (u \o q) \o w = u \o (q \o w) BY <2>2, <3>1, ConcatAssociative
      <3>3. q \o w \in Seq(RowType) BY <2>2, ConcatProperties
      <3> QED BY <3>2, <3>3 DEF u
    <2>7. Put(f[a], g, q) \o w = Put(f[a], g, q \o w)
      <3> DEFINE u == f[a] \o <<g>>
      <3>1. u \in Seq(RowType) BY <1>9
      <3> HIDE DEF u
      <3>2. (u \o q) \o w = u \o (q \o w) BY <2>2, <3>1, ConcatAssociative
      <3> QED BY <3>2 DEF Put, u
    <2> QED BY <2>4, <2>5, <2>6, <2>7
  <1>12. n - a \in Nat /\ a + (n - a) = n
    BY <1>1
  <1>13. n - a \in Fine
    <2> HIDE DEF Fine
    <2>1. Nat \subseteq Fine BY <1>10, <1>11, Induction
    <2> QED BY <1>12, <2>1
  <1>14. PICK q \in Seq(RowType) : f[n] = f[a] \o q /\ h[n + 1] = Put(f[a], g, q)
    BY <1>1, <1>12, <1>13
  <1>15. LinesOf(f[a]) = SubSeq(l, 1, a)
    <2>1. a \in 0 .. Len(l) BY <1>1 DEF n
    <2>2. \E r : Halves(l, a, f[a], r) BY <1>1, <2>1, BuiltIs DEF f
    <2> QED BY <2>2 DEF Halves
  <1>16. Halves(l, a, f[a], q)
    BY <1>2, <1>9, <1>14, <1>15 DEF Halves
  <1> QED BY <1>3, <1>14, <1>16 DEF f, g

-----------------------------------------------------------------------------
(* Where a row is among the rows of a text. *)

LEMMA LinesOfPut ==
  ASSUME NEW u \in Seq(RowType), NEW v \in Seq(RowType), NEW r \in Lined
  PROVE  /\ Put(u, r, v) \in Seq(RowType)
         /\ LinesOf(u) \in Lines /\ LinesOf(v) \in Lines /\ r.text \in Line
         /\ LinesOf(Put(u, r, v)) = Put(LinesOf(u), r.text, LinesOf(v))
  <1> DEFINE o == <<r>>
             w == u \o o
  <1>1. r \in RowType /\ r.text \in Line
    BY DEF Lined, RowType
  <1>2. o \in Seq(RowType) /\ LinesOf(o) = <<r.text>>
    BY <1>1, OneIsSeq, LinesOfOne DEF Lined
  <1> HIDE DEF o
  <1>3. w \in Seq(RowType) /\ LinesOf(w) = LinesOf(u) \o <<r.text>>
    BY <1>2, ConcatProperties, LinesOfJoined
  <1> HIDE DEF w
  <1>4. w \o v \in Seq(RowType) /\ LinesOf(w \o v) = LinesOf(w) \o LinesOf(v)
    BY <1>3, ConcatProperties, LinesOfJoined
  <1> QED BY <1>1, <1>3, <1>4, LinesOfIs DEF Put, w, o

LEMMA CutNotShort ==
  ASSUME NEW u \in Seq(RowType), NEW v \in Seq(RowType), NEW w \in Seq(RowType), NEW q \in Seq(RowType),
         NEW r \in Lined, NEW g \in Lined, Put(u, r, v) = Put(w, g, q), LinesOf(u) = LinesOf(w)
  PROVE  ~(Len(u) < Len(w))
  <1> SUFFICES ASSUME Len(u) < Len(w) PROVE FALSE
    OBVIOUS
  <1> DEFINE s == Put(u, r, v)
             i == Len(u) + 1
             c == SubSeq(w, 1, i - 1)
             d == SubSeq(w, i + 1, Len(w))
             x == w[i]
  <1>1. r \in RowType /\ g \in RowType
    BY DEF Lined
  <1>2. /\ Len(u) \in Nat /\ Len(w) \in Nat /\ i \in 1 .. Len(w) /\ i - 1 = Len(u)
    BY LenProperties
  <1>3. (\A k \in 1 .. Len(u) : s[k] = u[k]) /\ s[i] = r
    BY <1>1, Joined3 DEF Put
  <1>x. s = Put(w, g, q)
    OBVIOUS
  <1> HIDE DEF s
  <1>4. \A k \in 1 .. Len(w) : s[k] = w[k]
    BY <1>1, <1>x, Joined3 DEF Put
  <1>5. c \in Seq(RowType) /\ d \in Seq(RowType) /\ Len(c) = i - 1 /\ w = Put(c, x, d)
    BY <1>2, Pieces3 DEF Put
  <1>6. x = r
    BY <1>2, <1>3, <1>4
  <1>7. \A k \in 1 .. Len(c) : w[k] = c[k]
    <2> HIDE DEF c, d, x
    <2>1. x \in RowType BY <1>1, <1>6
    <2> QED BY <1>5, <2>1, Joined3 DEF Put
  <1> HIDE DEF c, d, x, i
  <1>8. c = u
    <2>1. \A k \in 1 .. Len(c) : c[k] = u[k]
      <3> TAKE k \in 1 .. Len(c)
      <3>1. k \in 1 .. Len(u) /\ k \in 1 .. Len(w) BY <1>2, <1>5
      <3> QED BY <1>3, <1>4, <1>7, <3>1
    <2> QED BY <1>2, <1>5, <2>1, SeqEqual
  <1>9. LinesOf(w) = Put(LinesOf(u), r.text, LinesOf(d)) /\ LinesOf(u) \in Lines /\ LinesOf(d) \in Lines /\ r.text \in Line
    <2> HIDE DEF c, d, x, i
    <2>1. w = Put(u, r, d) BY <1>5, <1>6, <1>8
    <2> QED BY <1>5, <2>1, LinesOfPut
  <1> DEFINE lu == LinesOf(u)
             ld == LinesOf(d)
             tx == r.text
  <1>10. lu \in Seq(Line) /\ ld \in Seq(Line) /\ tx \in Line
    BY <1>9 DEF Lines
  <1>11. lu = Put(lu, tx, ld)
    BY <1>9
  <1> HIDE DEF lu, ld, tx
  <1>12. Len(Put(lu, tx, ld)) = Len(lu) + 1 + Len(ld) /\ Len(lu) \in Nat /\ Len(ld) \in Nat
    BY <1>10, Joined3 DEF Put
  <1> QED BY <1>11, <1>12

\* The row of a line is where the lines before it are.
LEMMA Cut ==
  ASSUME NEW u \in Seq(RowType), NEW v \in Seq(RowType), NEW w \in Seq(RowType), NEW q \in Seq(RowType),
         NEW r \in Lined, NEW g \in Lined, Put(u, r, v) = Put(w, g, q), LinesOf(u) = LinesOf(w)
  PROVE  u = w /\ r = g /\ v = q
  <1> DEFINE s == Put(u, r, v)
  <1>1. ~(Len(u) < Len(w))
    BY CutNotShort
  <1>2. ~(Len(w) < Len(u))
    <2>1. Put(w, g, q) = Put(u, r, v) /\ LinesOf(w) = LinesOf(u) OBVIOUS
    <2> QED BY <2>1, CutNotShort
  <1>3. Len(u) = Len(w) /\ Len(u) \in Nat
    BY <1>1, <1>2, LenProperties
  <1>4. r \in RowType /\ g \in RowType
    BY DEF Lined
  <1>5. /\ s \in Seq(RowType) /\ Len(s) = Len(u) + 1 + Len(v) /\ Len(v) \in Nat
        /\ (\A k \in 1 .. Len(u) : s[k] = u[k]) /\ s[Len(u) + 1] = r
        /\ \A k \in 1 .. Len(v) : s[Len(u) + 1 + k] = v[k]
    BY <1>4, Joined3 DEF Put
  <1>x. s = Put(w, g, q)
    OBVIOUS
  <1> HIDE DEF s
  <1>6. /\ Len(s) = Len(w) + 1 + Len(q) /\ Len(q) \in Nat
        /\ (\A k \in 1 .. Len(w) : s[k] = w[k]) /\ s[Len(w) + 1] = g
        /\ \A k \in 1 .. Len(q) : s[Len(w) + 1 + k] = q[k]
    BY <1>4, <1>x, Joined3 DEF Put
  <1>7. u = w
    BY <1>3, <1>5, <1>6, SeqEqual
  <1>8. r = g
    BY <1>3, <1>5, <1>6
  <1>9. v = q
    <2>1. Len(v) = Len(q) BY <1>3, <1>5, <1>6
    <2>2. \A k \in 1 .. Len(v) : v[k] = q[k] BY <1>3, <1>5, <1>6, <2>1
    <2> QED BY <2>1, <2>2, SeqEqual
  <1> QED BY <1>7, <1>8, <1>9

LEMMA InsertedIs ==
  ASSUME NEW A \in Lines, NEW B \in Lines, NEW z \in Line, ~IsMark(z)
  PROVE  Inserted(A \o B, Put(A, z, B), Len(A)) /\ Put(A, z, B)[Len(A) + 1] = z
  <1> DEFINE l == A \o B
             t == Put(A, z, B)
             a == Len(A)
  <1>1. A \in Seq(Line) /\ B \in Seq(Line)
    BY DEF Lines
  <1>2. /\ l \in Seq(Line) /\ Len(l) = a + Len(B) /\ a \in Nat /\ Len(B) \in Nat
        /\ \A i \in 1 .. a + Len(B) : l[i] = IF i <= a THEN A[i] ELSE B[i - a]
    BY <1>1, ConcatProperties, LenProperties
  <1>3. /\ t \in Seq(Line) /\ Len(t) = a + 1 + Len(B)
        /\ (\A k \in 1 .. a : t[k] = A[k]) /\ t[a + 1] = z
        /\ \A k \in 1 .. Len(B) : t[a + 1 + k] = B[k]
    BY <1>1, Joined3 DEF Put
  <1> HIDE DEF l, t, a
  <1>4. \A i \in 1 .. a : t[i] = l[i]
    BY <1>2, <1>3
  <1>5. ASSUME NEW i \in a + 1 .. Len(l) PROVE t[i + 1] = l[i]
    <2> DEFINE k == i - a
    <2>1. k \in 1 .. Len(B) /\ a + 1 + k = i + 1 /\ i \in 1 .. a + Len(B) /\ ~(i <= a) BY <1>2
    <2>2. l[i] = B[k] BY <1>2, <2>1
    <2> HIDE DEF k
    <2>3. t[a + 1 + k] = B[k] BY <1>3, <2>1
    <2> QED BY <2>1, <2>2, <2>3
  <1>6. Inserted(l, t, a)
    BY <1>2, <1>3, <1>4, <1>5 DEF Inserted, Lines
  <1> QED BY <1>3, <1>6 DEF l, t, a

LEMMA RowAfterType ==
  ASSUME NEW lines \in Lines, NEW a \in Int, NEW z \in Line
  PROVE  LET g == Row(RoleAfter(lines, a), z, NumberAfter(lines, a)) IN
         g \in EditRow /\ g \in Lined /\ g.text = z
         /\ g.role = RoleAfter(lines, a) /\ g.block = NumberAfter(lines, a)
  <1>1. CASE Around(lines, a) = {}
    <2>1. RoleAfter(lines, a) = "context" /\ NumberAfter(lines, a) = 0 BY <1>1 DEF RoleAfter, NumberAfter
    <2> QED BY <2>1 DEF Row, RowType, Role, EditRow, Lined, Editable
  <1>2. CASE Around(lines, a) # {}
    <2> PICK b \in Around(lines, a) : TRUE BY <1>2
    <2>1. b.index \in Nat /\ b.index # 0
      <3>1. b \in Block /\ b.index >= 1 BY BlocksApart DEF Around
      <3> QED BY <3>1 DEF Block
    <2>2. NumberAfter(lines, a) = b.index /\ RoleAfter(lines, a) \in {"ours", "theirs"} BY OneAround
    <2> QED BY <2>1, <2>2 DEF Row, RowType, Role, EditRow, Lined, Editable
  <1> QED BY <1>1, <1>2

\* The rows of A and B together, and what a line between them adds.
Between(A, B, p, q) ==
  /\ p \in Seq(RowType) /\ q \in Seq(RowType) /\ LinesOf(p) = A /\ Rows(A \o B) = p \o q
  /\ \A z \in Line : ~IsMark(z) =>
       Rows(Put(A, z, B)) = Put(p, Row(RoleAfter(A \o B, Len(A)), z, NumberAfter(A \o B, Len(A))), q)

LEMMA BetweenIs ==
  ASSUME NEW A \in Lines, NEW B \in Lines
  PROVE  \E q : Between(A, B, Builds(A \o B)[Len(A)], q)
  <1> DEFINE l == A \o B
             a == Len(A)
             p == Builds(l)[a]
             G(z) == Row(RoleAfter(l, a), z, NumberAfter(l, a))
  <1>1. l \in Lines /\ a \in 0 .. Len(l) /\ SubSeq(l, 1, a) = A
    <2>1. A \in Seq(Line) /\ B \in Seq(Line) BY DEF Lines
    <2>2. l \in Seq(Line) /\ Len(l) = a + Len(B) /\ a \in Nat /\ Len(B) \in Nat
      BY <2>1, ConcatProperties, LenProperties
    <2> QED BY <2>1, <2>2, SubSeqsOfJoined DEF Lines
  <1>2. \A z \in Line : ~IsMark(z) => Inserted(l, Put(A, z, B), a) /\ Put(A, z, B)[a + 1] = z
    BY InsertedIs
  <1> HIDE DEF l, a
  <1>3. PICK q : Halves(l, a, p, q)
    BY <1>1, BuiltIs
  <1>4. ASSUME NEW z \in Line, ~IsMark(z) PROVE Rows(Put(A, z, B)) = Put(p, G(z), q)
    <2>1. Inserted(l, Put(A, z, B), a) /\ Put(A, z, B)[a + 1] = z BY <1>2, <1>4
    <2>2. PICK r : Halves(l, a, p, r) /\ Rows(Put(A, z, B)) = Put(p, G(z), r)
      BY <2>1, RowsInserted
    <2> HIDE DEF p
    <2>3. r = q
      <3>1. p \o r = p \o q /\ r \in Seq(RowType) /\ q \in Seq(RowType) /\ p \in Seq(RowType)
        BY <1>3, <2>2 DEF Halves
      <3> QED BY <3>1, Cancel
    <2> QED BY <2>2, <2>3
  <1>5. Between(A, B, p, q)
    BY <1>1, <1>3, <1>4 DEF Between, Halves, l, a
  <1> QED BY <1>5 DEF p, l, a

-----------------------------------------------------------------------------
(* The edits of rows that tell their text. *)

Tells(rows) == rows \in Seq(RowType) /\ LinesOf(rows) # <<>> /\ rows = Rows(LinesOf(rows))

LEMMA TellsIs ==
  ASSUME NEW rows \in Seq(RowType)
  PROVE  rows = Rows(BuildFullContent(rows)) <=> Tells(rows)
  <1>1. ASSUME rows = Rows(BuildFullContent(rows)) PROVE Tells(rows)
    <2> DEFINE l == BuildFullContent(rows)
    <2>1. l \in Lines /\ l # <<>> /\ rows = Rows(l) BY <1>1, ContentType
    <2> HIDE DEF l
    <2>2. LinesOf(rows) = l BY <2>1, RowsAreLines
    <2> QED BY <2>1, <2>2 DEF Tells
  <1>2. ASSUME Tells(rows) PROVE rows = Rows(BuildFullContent(rows))
    <2>1. BuildFullContent(rows) = LinesOf(rows) BY <1>2 DEF Tells, BuildFullContent, Text
    <2> QED BY <1>2, <2>1 DEF Tells
  <1> QED BY <1>1, <1>2

LEMMA RowsTell == ASSUME NEW lines \in Lines, lines # <<>> PROVE Tells(Rows(lines))
  BY RowsAreLines DEF Tells

LEMMA LinesNotNone ==
  ASSUME NEW A \in Lines, NEW B \in Lines, NEW z \in Line
  PROVE  Put(A, z, B) \in Lines /\ Put(A, z, B) # <<>>
  <1>1. Put(A, z, B) \in Seq(Line) /\ Len(Put(A, z, B)) = Len(A) + 1 + Len(B) /\ Len(A) \in Nat /\ Len(B) \in Nat
    BY Joined3 DEF Put, Lines
  <1>2. Len(<<>>) = 0
    BY EmptySeq
  <1> QED BY <1>1, <1>2 DEF Lines

\* Where a row of the text is among those of the lines.
LEMMA RowIn ==
  ASSUME NEW u \in Seq(RowType), NEW v \in Seq(RowType), NEW r \in Lined, Tells(Put(u, r, v))
  PROVE  LET l == Put(LinesOf(u), r.text, LinesOf(v))
             a == Len(LinesOf(u))
         IN  \E h : /\ LastRow(l, a + 1, h, r) /\ u = Builds(l)[a] \o h
                    /\ Builds(l)[a + 1] = u \o <<r>> /\ Rows(l) = Put(u, r, v)
  <1> DEFINE A == LinesOf(u)
             B == LinesOf(v)
             x == r.text
             l == Put(A, x, B)
             a == Len(A)
             i == a + 1
             f == Builds(l)
  <1>1. /\ A \in Seq(Line) /\ B \in Seq(Line) /\ x \in Line /\ LinesOf(Put(u, r, v)) = l
    BY LinesOfPut DEF Lines
  <1>2. Rows(l) = Put(u, r, v)
    BY <1>1 DEF Tells
  <1> HIDE DEF A, B, x
  <1>3. /\ l \in Lines /\ Len(l) = a + 1 + Len(B) /\ a \in Nat /\ Len(B) \in Nat
        /\ \A k \in 1 .. a : l[k] = A[k]
    BY <1>1, Joined3 DEF Put, Lines
  <1> HIDE DEF l, a
  <1>4. i \in 1 .. Len(l) /\ i \in 0 .. Len(l) /\ a \in 0 .. Len(l) /\ i - 1 = a
    BY <1>3
  <1> HIDE DEF i
  <1>5. PICK h, g : LastRow(l, i, h, g)
    BY <1>3, <1>4, LastRowIs
  <1>6. PICK q : Halves(l, i, f[i], q)
    BY <1>3, <1>4, BuiltIs
  <1>7. PICK t : Halves(l, a, f[a], t)
    BY <1>3, <1>4, BuiltIs
  <1>8. f[i] = f[a] \o Place(l, i)
    <2>1. \A k \in 1 .. Len(l) : f[k] = f[k - 1] \o Place(l, k) BY <1>3, BuildsIs DEF Place
    <2> QED BY <1>4, <2>1
  <1> DEFINE p == f[a]
             w == p \o h
  <1>9. p \in Seq(RowType) /\ LinesOf(p) = A
    <2>1. LinesOf(p) = SubSeq(l, 1, a) BY <1>7 DEF Halves
    <2>2. SubSeq(l, 1, a) = A
      <3> DEFINE o == <<x>>
      <3>1. o \in Seq(Line) /\ A \o o \in Seq(Line) /\ o \o B \in Seq(Line) BY <1>1, OneIsSeq, ConcatProperties
      <3> HIDE DEF o
      <3>2. (A \o o) \o B = A \o (o \o B) BY <1>1, <3>1, ConcatAssociative
      <3>3. l = A \o (o \o B) BY <3>2 DEF l, Put, o
      <3> QED BY <1>1, <3>1, <3>3, SubSeqsOfJoined DEF a
    <2> QED BY <1>7, <2>1, <2>2 DEF Halves
  <1> HIDE DEF p
  <1>10. /\ h \in Seq(RowType) /\ LinesOf(h) = <<>> /\ g \in Lined /\ g \in RowType
         /\ Place(l, i) = h \o <<g>>
    BY <1>5 DEF LastRow, Lined
  <1>11. w \in Seq(RowType) /\ LinesOf(w) = A
    <2>1. LinesOf(w) = A \o <<>> BY <1>9, <1>10, LinesOfJoined
    <2> QED BY <1>1, <1>9, <1>10, <2>1, ConcatProperties, ConcatEmptySeq
  <1>12. f[i] = w \o <<g>>
    <2> DEFINE o == <<g>>
    <2>1. o \in Seq(RowType) BY <1>10, OneIsSeq
    <2>2. f[i] = p \o (h \o o) BY <1>8, <1>10 DEF p
    <2> HIDE DEF o
    <2>3. (p \o h) \o o = p \o (h \o o) BY <1>9, <1>10, <2>1, ConcatAssociative
    <2> QED BY <2>2, <2>3 DEF o
  <1> HIDE DEF w
  <1>13. Rows(l) = Put(w, g, q) /\ q \in Seq(RowType)
    BY <1>6, <1>12 DEF Halves, Put
  <1>14. u = w /\ r = g /\ v = q
    <2>1. Put(u, r, v) = Put(w, g, q) /\ LinesOf(u) = LinesOf(w) BY <1>2, <1>11, <1>13 DEF A
    <2> QED BY <1>10, <1>11, <1>13, <2>1, Cut
  <1>15. LastRow(l, i, h, r) /\ u = f[a] \o h /\ f[i] = u \o <<r>>
    BY <1>5, <1>12, <1>14 DEF w, p
  <1> QED BY <1>2, <1>15 DEF l, a, i, f, A, B, x

LEMMA TellsBetween ==
  ASSUME NEW u \in Seq(RowType), NEW v \in Seq(RowType), NEW r \in EditRow, Tells(Put(u, r, v)),
         ~IsMark(r.text)
  PROVE  LET A == LinesOf(u)
             B == LinesOf(v)
         IN  /\ A \in Lines /\ B \in Lines /\ Between(A, B, u, v)
             /\ r.role = RoleAfter(A \o B, Len(A)) /\ r.block = NumberAfter(A \o B, Len(A))
  <1> DEFINE A == LinesOf(u)
             B == LinesOf(v)
             role == RoleAfter(A \o B, Len(A))
             num == NumberAfter(A \o B, Len(A))
             g == Row(role, r.text, num)
             p == Builds(A \o B)[Len(A)]
  <1>1. r \in Lined /\ r.text \in Line
    BY EditRowIs
  <1>2. A \in Lines /\ B \in Lines /\ LinesOf(Put(u, r, v)) = Put(A, r.text, B)
    BY <1>1, LinesOfPut
  <1>3. PICK q : Between(A, B, p, q)
    BY <1>2, BetweenIs
  <1>4. Rows(Put(A, r.text, B)) = Put(p, g, q)
    BY <1>1, <1>3 DEF Between
  <1>5. g \in Lined /\ g.role = role /\ g.block = num
    <2>1. A \o B \in Lines /\ Len(A) \in Int BY <1>2, ConcatProperties, LenProperties DEF Lines
    <2> QED BY <1>1, <2>1, RowAfterType
  <1>6. p \in Seq(RowType) /\ q \in Seq(RowType) /\ LinesOf(p) = A
    BY <1>3 DEF Between
  <1>7. Put(u, r, v) = Put(p, g, q)
    BY <1>2, <1>4 DEF Tells
  <1> HIDE DEF g, p
  <1>8. u = p /\ r = g /\ v = q
    <2>1. LinesOf(u) = LinesOf(p) BY <1>6
    <2> QED BY <1>1, <1>5, <1>6, <1>7, <2>1, Cut
  <1> QED BY <1>2, <1>3, <1>5, <1>8

\* A line that is no marker may become another.
LEMMA RetypeTells ==
  ASSUME NEW u \in Seq(RowType), NEW v \in Seq(RowType), NEW r \in EditRow, Tells(Put(u, r, v)),
         ~IsMark(r.text), NEW z \in Line, ~IsMark(z), NEW s, Says(r, z, s)
  PROVE  Tells(Put(u, s, v))
  <1> DEFINE A == LinesOf(u)
             B == LinesOf(v)
  <1>1. s \in Lined /\ s.text = z
    BY SaidIs
  <1>2. /\ A \in Lines /\ B \in Lines /\ Between(A, B, u, v)
        /\ r.role = RoleAfter(A \o B, Len(A)) /\ r.block = NumberAfter(A \o B, Len(A))
    BY TellsBetween
  <1>3. Put(u, s, v) \in Seq(RowType) /\ LinesOf(Put(u, s, v)) = Put(A, z, B)
    BY <1>1, LinesOfPut
  <1>4. Rows(Put(A, z, B)) = Put(u, s, v)
    BY <1>2 DEF Between, Says
  <1>5. Put(A, z, B) # <<>>
    BY <1>2, LinesNotNone
  <1> QED BY <1>3, <1>4, <1>5 DEF Tells

\* It may be taken out, if another line is left.
LEMMA DropTells ==
  ASSUME NEW u \in Seq(RowType), NEW v \in Seq(RowType), NEW r \in EditRow, Tells(Put(u, r, v)),
         ~IsMark(r.text), LinesOf(u \o v) # <<>>
  PROVE  Tells(u \o v)
  <1> DEFINE A == LinesOf(u)
             B == LinesOf(v)
  <1>1. Between(A, B, u, v)
    BY TellsBetween
  <1>2. u \o v \in Seq(RowType) /\ LinesOf(u \o v) = A \o B
    BY ConcatProperties, LinesOfJoined
  <1>3. Rows(A \o B) = u \o v
    BY <1>1 DEF Between
  <1> QED BY <1>2, <1>3 DEF Tells

\* A line that is no marker may be put after an editable one, of its side.
LEMMA DoubleTells ==
  ASSUME NEW u \in Seq(RowType), NEW v \in Seq(RowType), NEW r \in EditRow, Tells(Put(u, r, v)),
         NEW z \in Line, ~IsMark(z), NEW s, Says(r, z, s)
  PROVE  Tells(Put2(u, r, s, v))
  <1> DEFINE A == LinesOf(u)
             B == LinesOf(v)
             x == r.text
             C == A \o <<x>>
             l == Put(A, x, B)
             w == u \o <<r>>
  <1>1. s \in Lined /\ s.text = z /\ r \in Lined /\ r \in RowType /\ x \in Line
    BY SaidIs, EditRowIs
  <1>2. A \in Lines /\ B \in Lines
    BY <1>1, LinesOfPut
  <1>3. w \in Seq(RowType) /\ LinesOf(w) = C
    <2> DEFINE o == <<r>>
    <2>1. o \in Seq(RowType) /\ LinesOf(o) = <<x>> BY <1>1, OneIsSeq, LinesOfOne DEF Lined
    <2> HIDE DEF o
    <2>2. u \o o \in Seq(RowType) /\ LinesOf(u \o o) = A \o LinesOf(o) BY <2>1, ConcatProperties, LinesOfJoined
    <2> QED BY <2>1, <2>2 DEF o
  <1>4. C \in Lines /\ Len(C) = Len(A) + 1 /\ l = C \o B
    BY <1>1, <1>2, OneMore DEF Lines, Put
  <1>5. PICK h : LastRow(l, Len(A) + 1, h, r) /\ Builds(l)[Len(A) + 1] = w /\ Rows(l) = Put(u, r, v)
    BY <1>1, RowIn
  <1>6. r.role = RoleAfter(l, Len(A) + 1) /\ r.block = NumberAfter(l, Len(A) + 1)
    BY <1>5 DEF LastRow, EditRow
  <1> HIDE DEF A, B, x, C, l, w
  <1>7. PICK q : Between(C, B, Builds(C \o B)[Len(C)], q)
    BY <1>2, <1>4, BetweenIs
  <1>8. Between(C, B, w, q)
    BY <1>4, <1>5, <1>7
  <1>9. q = v
    <2>1. w \o q = w \o v /\ q \in Seq(RowType) BY <1>4, <1>5, <1>8 DEF Between, Put, w
    <2> QED BY <1>3, <2>1, Cancel
  <1>10. Rows(Put(C, z, B)) = Put(w, s, v)
    BY <1>4, <1>6, <1>8, <1>9 DEF Between, Says
  <1>11. Put(w, s, v) \in Seq(RowType) /\ LinesOf(Put(w, s, v)) = Put(C, z, B)
    BY <1>1, <1>3, LinesOfPut DEF B
  <1>12. Put(C, z, B) # <<>>
    BY <1>2, <1>4, LinesNotNone
  <1>13. Tells(Put(w, s, v))
    BY <1>10, <1>11, <1>12 DEF Tells
  <1> QED BY <1>13 DEF w, Put, Put2

\* It may be put before a line that looks like a marker.
LEMMA AheadTells ==
  ASSUME NEW u \in Seq(RowType), NEW v \in Seq(RowType), NEW r \in EditRow, Tells(Put(u, r, v)),
         IsMark(r.text), NEW z \in Line, ~IsMark(z), NEW s, Says(r, z, s)
  PROVE  Tells(Put2(u, s, r, v))
  <1> DEFINE A == LinesOf(u)
             B == LinesOf(v)
             x == r.text
             D == <<x>> \o B
             l == Put(A, x, B)
             w == <<r>> \o v
  <1>1. s \in RowType /\ s \in Lined /\ s.text = z /\ r \in Lined /\ r \in RowType /\ x \in Line
    BY SaidIs, EditRowIs DEF Lined
  <1>2. A \in Lines /\ B \in Lines
    BY <1>1, LinesOfPut
  <1>3. w \in Seq(RowType) /\ LinesOf(w) = D
    <2> DEFINE o == <<r>>
    <2>1. o \in Seq(RowType) /\ LinesOf(o) = <<x>> BY <1>1, OneIsSeq, LinesOfOne DEF Lined
    <2> HIDE DEF o
    <2>2. o \o v \in Seq(RowType) /\ LinesOf(o \o v) = LinesOf(o) \o B BY <2>1, ConcatProperties, LinesOfJoined
    <2> QED BY <2>1, <2>2 DEF o
  <1>4. D \in Lines /\ l = A \o D
    <2> DEFINE o == <<x>>
    <2>1. o \in Seq(Line) /\ A \in Seq(Line) /\ B \in Seq(Line) BY <1>1, <1>2, OneIsSeq DEF Lines
    <2> HIDE DEF o, A, B
    <2>2. o \o B \in Seq(Line) /\ (A \o o) \o B = A \o (o \o B) BY <2>1, ConcatProperties, ConcatAssociative
    <2> QED BY <2>2 DEF o, Lines, Put
  <1>5. PICK h : /\ LastRow(l, Len(A) + 1, h, r) /\ u = Builds(l)[Len(A)] \o h
                 /\ Builds(l)[Len(A) + 1] = u \o <<r>> /\ Rows(l) = Put(u, r, v)
    <2> HIDE DEF w, D
    <2> QED BY <1>1, RowIn
  <1>6. h = <<>> /\ r.role = RoleAfter(l, Len(A)) /\ r.block = NumberAfter(l, Len(A))
    <2>1. Len(A) + 1 - 1 = Len(A) BY <1>2, LenProperties DEF Lines
    <2>2. r.role = "context" BY <1>5 DEF LastRow, EditRow
    <2> QED BY <1>5, <2>1, <2>2 DEF LastRow
  <1> HIDE DEF A, B, x, D, l, w
  <1>7. PICK q : Between(A, D, Builds(A \o D)[Len(A)], q)
    BY <1>2, <1>4, BetweenIs
  <1>8. Builds(l)[Len(A)] = u
    <2> DEFINE p == Builds(l)[Len(A)]
    <2>1. p \in Seq(RowType) BY <1>4, <1>7 DEF Between
    <2>2. u = p \o <<>> BY <1>5, <1>6
    <2> HIDE DEF p
    <2>3. u = p BY <2>1, <2>2, ConcatEmptySeq
    <2> QED BY <2>3 DEF p
  <1>9. Between(A, D, u, q)
    BY <1>4, <1>7, <1>8
  <1>10. Put(u, r, v) = u \o w /\ Put2(u, s, r, v) = Put(u, s, w)
    <2> DEFINE o == <<r>>
               n == u \o <<s>>
    <2>1. o \in Seq(RowType) /\ n \in Seq(RowType)
      <3> DEFINE m == <<s>>
      <3>1. m \in Seq(RowType) BY <1>1, OneIsSeq
      <3> HIDE DEF m
      <3>2. u \o m \in Seq(RowType) BY <3>1, ConcatProperties
      <3> QED BY <1>1, <3>2, OneIsSeq DEF m
    <2> HIDE DEF o, n
    <2>2. (u \o o) \o v = u \o (o \o v) BY <2>1, ConcatAssociative
    <2>3. (n \o o) \o v = n \o (o \o v) BY <2>1, ConcatAssociative
    <2> QED BY <2>2, <2>3 DEF w, Put, Put2, o, n
  <1>11. q = w
    <2>1. u \o q = u \o w /\ q \in Seq(RowType) BY <1>4, <1>5, <1>9, <1>10 DEF Between
    <2> QED BY <1>3, <2>1, Cancel
  <1>12. Rows(Put(A, z, D)) = Put(u, s, w)
    BY <1>4, <1>6, <1>9, <1>11 DEF Between, Says
  <1>13. Put(u, s, w) \in Seq(RowType) /\ LinesOf(Put(u, s, w)) = Put(A, z, D)
    BY <1>1, <1>3, LinesOfPut DEF A
  <1>14. Put(A, z, D) # <<>>
    BY <1>2, <1>4, LinesNotNone
  <1> QED BY <1>10, <1>12, <1>13, <1>14 DEF Tells

LEMMA MarkOfRow ==
  ASSUME NEW x \in EditRow
  PROVE  Kept(<<x>>, MarkRow) = IF IsMark(x.text) THEN <<x>> ELSE <<>>
  <1>1. x \in MarkRow <=> IsMark(x.text)
    BY DEF MarkRow
  <1> QED BY <1>1, KeptOfOne

LEMMA TwoAreNotOne ==
  ASSUME NEW x \in EditRow, NEW y \in EditRow, NEW z \in EditRow
  PROVE  <<x>> \o <<y>> # <<>> /\ <<x>> \o <<y>> # <<z>>
  <1> DEFINE o == <<x>>
             p == <<y>>
             q == <<z>>
  <1>1. o \in Seq(EditRow) /\ p \in Seq(EditRow) /\ q \in Seq(EditRow) /\ Len(o) = 1 /\ Len(p) = 1 /\ Len(q) = 1
    BY OneIsSeq
  <1> HIDE DEF o, p, q
  <1>2. Len(o \o p) = 2
    <2>1. Len(o \o p) = Len(o) + Len(p) BY <1>1, ConcatProperties
    <2> QED BY <1>1, <2>1
  <1>3. o \o p # <<>> /\ o \o p # q
    BY <1>1, <1>2, EmptySeq
  <1> QED BY <1>3 DEF o, p, q

LEMMA MarksOfRows ==
  ASSUME NEW x \in EditRow, NEW y \in EditRow
  PROVE  Kept(<<x>> \o <<y>>, MarkRow) =
           IF IsMark(x.text) THEN IF IsMark(y.text) THEN <<x>> \o <<y>> ELSE <<x>>
                             ELSE IF IsMark(y.text) THEN <<y>> ELSE <<>>
  <1> DEFINE o == <<x>>
             p == <<y>>
  <1>1. o \in Seq(RowType) /\ p \in Seq(RowType)
    BY OneIsSeq DEF EditRow
  <1>2. o \o <<>> = o /\ <<>> \o p = p /\ <<>> \o <<>> = <<>>
    <2> HIDE DEF o, p
    <2>1. <<>> \in Seq(RowType) BY EmptySeq
    <2> QED BY <1>1, <2>1, ConcatEmptySeq
  <1>3. Kept(o, MarkRow) = (IF IsMark(x.text) THEN <<x>> ELSE <<>>)
        /\ Kept(p, MarkRow) = (IF IsMark(y.text) THEN <<y>> ELSE <<>>)
    BY MarkOfRow
  <1>4. Kept(o \o p, MarkRow) = Kept(o, MarkRow) \o Kept(p, MarkRow)
    <2> HIDE DEF o, p
    <2> QED BY <1>1, MarkRowsOfJoined
  <1> QED BY <1>2, <1>3, <1>4

\* Two rows, seen from the one and from the other.
LEMMA PutOfTwo ==
  ASSUME NEW a \in Seq(RowType), NEW b \in Seq(RowType), NEW x \in RowType, NEW y \in RowType
  PROVE  /\ a \o <<x>> \in Seq(RowType) /\ <<y>> \o b \in Seq(RowType)
         /\ Put2(a, x, y, b) = Put(a \o <<x>>, y, b)
         /\ Put2(a, x, y, b) = Put(a, x, <<y>> \o b)
         /\ (a \o <<x>>) \o b = Put(a, x, b) /\ a \o (<<y>> \o b) = Put(a, y, b)
  <1> DEFINE o == <<x>>
             p == <<y>>
             n == a \o o
  <1>1. o \in Seq(RowType) /\ p \in Seq(RowType)
    BY OneIsSeq
  <1> HIDE DEF o, p
  <1>2. n \in Seq(RowType) /\ p \o b \in Seq(RowType)
    BY <1>1, ConcatProperties
  <1>3. a \o (p \o b) = (a \o p) \o b
    BY <1>1, ConcatAssociative
  <1> HIDE DEF n
  <1>4. (n \o p) \o b = n \o (p \o b)
    BY <1>1, <1>2, ConcatAssociative
  <1> QED BY <1>2, <1>3, <1>4 DEF Put, Put2, o, p, n

\* The edit keeps the rows those of their text, unless it touches a line like a marker.
Telling(rows, new) == Tells(rows) /\ MarksAsText(new) = MarksAsText(rows) => Tells(new)

LEMMA PutIsTelling ==
  ASSUME NEW a \in Seq(RowType), NEW b \in Seq(RowType), NEW r \in EditRow, NEW z \in Line, z # r.text,
         NEW s, Says(r, z, s)
  PROVE  Telling(Put(a, r, b), Put(a, s, b))
  <1> SUFFICES ASSUME Tells(Put(a, r, b)), MarksAsText(Put(a, s, b)) = MarksAsText(Put(a, r, b))
               PROVE  Tells(Put(a, s, b))
    BY DEF Telling
  <1>1. s \in EditRow /\ s \in RowType /\ r \in RowType /\ s.text = z
    BY SaidIs, EditRowIs
  <1>2. Kept(<<s>>, MarkRow) = Kept(<<r>>, MarkRow)
    <2> DEFINE m == <<s>>
               w == <<r>>
    <2>1. m \in Seq(RowType) /\ w \in Seq(RowType) BY <1>1, OneIsSeq
    <2>2. MarksAsText((a \o m) \o b) = MarksAsText((a \o w) \o b) BY DEF Put
    <2> HIDE DEF m, w
    <2>3. Kept(m, MarkRow) = Kept(w, MarkRow) BY <2>1, <2>2, MarksBetween
    <2> QED BY <2>3 DEF m, w
  <1>3. Kept(<<s>>, MarkRow) = (IF IsMark(z) THEN <<s>> ELSE <<>>)
        /\ Kept(<<r>>, MarkRow) = (IF IsMark(r.text) THEN <<r>> ELSE <<>>)
    BY <1>1, MarkOfRow
  <1>4. s # r /\ <<s>> # <<r>> /\ <<s>> # <<>> /\ <<r>> # <<>>
    BY <1>1
  <1>5. ~IsMark(r.text) /\ ~IsMark(z)
    BY <1>2, <1>3, <1>4
  <1> QED BY <1>5, RetypeTells

LEMMA SplitIsTelling ==
  ASSUME NEW a \in Seq(RowType), NEW b \in Seq(RowType), NEW r \in EditRow, NEW l \in Line, NEW m \in Line,
         NEW s, Says(r, l, s), NEW t, Says(r, m, t)
  PROVE  Telling(Put(a, r, b), Put2(a, s, t, b))
  <1> SUFFICES ASSUME Tells(Put(a, r, b)), MarksAsText(Put2(a, s, t, b)) = MarksAsText(Put(a, r, b))
               PROVE  Tells(Put2(a, s, t, b))
    BY DEF Telling
  <1>1. /\ s \in EditRow /\ s \in RowType /\ s.text = l
        /\ t \in EditRow /\ t \in RowType /\ t.text = m /\ r \in RowType
    BY SaidIs, EditRowIs
  <1>2. Kept(<<s>> \o <<t>>, MarkRow) = Kept(<<r>>, MarkRow)
    <2> DEFINE n == <<s>> \o <<t>>
               w == <<r>>
    <2>1. n \in Seq(RowType) /\ w \in Seq(RowType)
      <3> DEFINE o == <<s>>
                 p == <<t>>
      <3>1. o \in Seq(RowType) /\ p \in Seq(RowType) BY <1>1, OneIsSeq
      <3> HIDE DEF o, p
      <3>2. o \o p \in Seq(RowType) BY <3>1, ConcatProperties
      <3> QED BY <1>1, <3>2, OneIsSeq DEF o, p
    <2>2. Put2(a, s, t, b) = (a \o n) \o b /\ Put(a, r, b) = (a \o w) \o b BY <1>1, PutIsInner
    <2> HIDE DEF n, w
    <2>3. Kept(n, MarkRow) = Kept(w, MarkRow) BY <2>1, <2>2, MarksBetween
    <2> QED BY <2>3 DEF n, w
  <1>3. /\ Kept(<<r>>, MarkRow) = (IF IsMark(r.text) THEN <<r>> ELSE <<>>)
        /\ Kept(<<s>> \o <<t>>, MarkRow) =
             IF IsMark(l) THEN IF IsMark(m) THEN <<s>> \o <<t>> ELSE <<s>>
                          ELSE IF IsMark(m) THEN <<t>> ELSE <<>>
    BY <1>1, MarkOfRow, MarksOfRows
  <1>4. CASE ~IsMark(r.text)
    <2>1. <<s>> \o <<t>> # <<>> /\ <<s>> # <<>> /\ <<t>> # <<>> BY <1>1, TwoAreNotOne
    <2>2. ~IsMark(l) /\ ~IsMark(m) BY <1>2, <1>3, <1>4, <2>1
    <2>3. Tells(Put2(a, r, t, b)) BY <2>2, DoubleTells
    <2> DEFINE v == <<t>> \o b
    <2>4. v \in Seq(RowType) /\ Put2(a, r, t, b) = Put(a, r, v) /\ Put2(a, s, t, b) = Put(a, s, v)
      BY <1>1, PutOfTwo
    <2> HIDE DEF v
    <2>5. Tells(Put(a, r, v)) BY <2>3, <2>4
    <2>6. Tells(Put(a, s, v)) BY <1>4, <2>2, <2>4, <2>5, RetypeTells
    <2> QED BY <2>4, <2>6
  <1>5. CASE IsMark(r.text)
    <2>0. <<s>> \o <<t>> # <<r>> BY <1>1, TwoAreNotOne
    <2>1. <<>> # <<r>> /\ (<<s>> = <<r>> => s = r) /\ (<<t>> = <<r>> => t = r) OBVIOUS
    <2>2. \/ IsMark(l) /\ ~IsMark(m) /\ s = r
          \/ ~IsMark(l) /\ IsMark(m) /\ t = r
      BY <1>2, <1>3, <1>5, <2>0, <2>1
    <2>3. CASE ~IsMark(m) /\ s = r
      <3>1. Tells(Put2(a, r, t, b)) BY <2>3, DoubleTells
      <3> QED BY <2>3, <3>1
    <2>4. CASE ~IsMark(l) /\ t = r
      <3>1. Tells(Put2(a, s, r, b)) BY <1>5, <2>4, AheadTells
      <3> QED BY <2>4, <3>1
    <2> QED BY <2>2, <2>3, <2>4
  <1> QED BY <1>4, <1>5

LEMMA MergeIsTelling ==
  ASSUME NEW a \in Seq(RowType), NEW b \in Seq(RowType), NEW q \in EditRow, NEW z \in Line,
         NEW r, NEW y \in Line, Says(q, y, r), NEW s, Says(q, z, s)
  PROVE  Telling(Put2(a, q, r, b), Put(a, s, b))
  <1> SUFFICES ASSUME Tells(Put2(a, q, r, b)), MarksAsText(Put(a, s, b)) = MarksAsText(Put2(a, q, r, b))
               PROVE  Tells(Put(a, s, b))
    BY DEF Telling
  <1>1. /\ r \in EditRow /\ r \in RowType /\ r.text = y /\ r \in Lined
        /\ s \in EditRow /\ s \in RowType /\ s.text = z /\ q \in RowType /\ q \in Lined
    BY SaidIs, EditRowIs
  <1>2. Kept(<<q>> \o <<r>>, MarkRow) = Kept(<<s>>, MarkRow)
    <2> DEFINE n == <<q>> \o <<r>>
               w == <<s>>
    <2>1. n \in Seq(RowType) /\ w \in Seq(RowType)
      <3> DEFINE o == <<q>>
                 p == <<r>>
      <3>1. o \in Seq(RowType) /\ p \in Seq(RowType) BY <1>1, OneIsSeq
      <3> HIDE DEF o, p
      <3>2. o \o p \in Seq(RowType) BY <3>1, ConcatProperties
      <3> QED BY <1>1, <3>2, OneIsSeq DEF o, p
    <2>2. Put2(a, q, r, b) = (a \o n) \o b /\ Put(a, s, b) = (a \o w) \o b BY <1>1, PutIsInner
    <2> HIDE DEF n, w
    <2>3. Kept(n, MarkRow) = Kept(w, MarkRow) BY <2>1, <2>2, MarksBetween
    <2> QED BY <2>3 DEF n, w
  <1>3. /\ Kept(<<s>>, MarkRow) = (IF IsMark(z) THEN <<s>> ELSE <<>>)
        /\ Kept(<<q>> \o <<r>>, MarkRow) =
             IF IsMark(q.text) THEN IF IsMark(y) THEN <<q>> \o <<r>> ELSE <<q>>
                               ELSE IF IsMark(y) THEN <<r>> ELSE <<>>
    BY <1>1, MarkOfRow, MarksOfRows
  <1> DEFINE u == a \o <<q>>
             v == <<r>> \o b
  <1>4. /\ u \in Seq(RowType) /\ v \in Seq(RowType)
        /\ Put2(a, q, r, b) = Put(u, r, b)
        /\ Put2(a, q, r, b) = Put(a, q, v)
        /\ u \o b = Put(a, q, b) /\ a \o v = Put(a, r, b)
    BY <1>1, PutOfTwo, Zenon
  <1>5. LinesOf(Put(a, q, b)) # <<>> /\ LinesOf(Put(a, r, b)) # <<>>
    <2>1. LinesOf(Put(a, q, b)) = Put(LinesOf(a), q.text, LinesOf(b)) /\ LinesOf(a) \in Lines /\ LinesOf(b) \in Lines
          /\ q.text \in Line
      BY <1>1, LinesOfPut
    <2>2. LinesOf(Put(a, r, b)) = Put(LinesOf(a), r.text, LinesOf(b)) /\ r.text \in Line
      BY <1>1, LinesOfPut
    <2> QED BY <2>1, <2>2, LinesNotNone
  <1> HIDE DEF u, v
  <1>6. ASSUME ~IsMark(y) PROVE Tells(Put(a, q, b))
    <2>1. Tells(Put(u, r, b)) /\ LinesOf(u \o b) # <<>> /\ ~IsMark(r.text) BY <1>1, <1>4, <1>5, <1>6
    <2>2. Tells(u \o b) BY <1>1, <1>4, <2>1, DropTells
    <2> QED BY <1>4, <2>2
  <1>7. ASSUME ~IsMark(q.text) PROVE Tells(Put(a, r, b))
    <2>1. Tells(Put(a, q, v)) /\ LinesOf(a \o v) # <<>> BY <1>4, <1>5
    <2>2. Tells(a \o v) BY <1>4, <1>7, <2>1, DropTells
    <2> QED BY <1>4, <2>2
  <1>8. CASE ~IsMark(q.text) /\ ~IsMark(y)
    <2>1. ~IsMark(z)
      <3>1. <<s>> # <<>> OBVIOUS
      <3> QED BY <1>2, <1>3, <1>8, <3>1
    <2> QED BY <1>6, <1>8, <2>1, RetypeTells
  <1>9. CASE IsMark(q.text) /\ ~IsMark(y)
    <2>1. <<q>> # <<>> /\ (<<q>> = <<s>> => q = s) OBVIOUS
    <2>2. q = s BY <1>2, <1>3, <1>9, <2>1
    <2> QED BY <1>6, <1>9, <2>2
  <1>10. CASE ~IsMark(q.text) /\ IsMark(y)
    <2>1. <<r>> # <<>> /\ (<<r>> = <<s>> => r = s) OBVIOUS
    <2>2. r = s BY <1>2, <1>3, <1>10, <2>1
    <2> QED BY <1>7, <1>10, <2>2
  <1>11. CASE IsMark(q.text) /\ IsMark(y)
    <2>1. <<q>> \o <<r>> # <<>> /\ <<q>> \o <<r>> # <<s>> BY <1>1, TwoAreNotOne
    <2> QED BY <1>2, <1>3, <1>11, <2>1
  <1> QED BY <1>8, <1>9, <1>10, <1>11

LEMMA TypeLineIsTelling ==
  ASSUME NEW rows \in Seq(RowType), NEW i \in 1 .. Len(rows), rows[i].role \in Editable, NEW line \in Line,
         line # rows[i].text
  PROVE  Telling(rows, [rows EXCEPT ![i].text = line])
  <1> DEFINE r == rows[i]
             new == [rows EXCEPT ![i].text = line]
  <1>1. r \in EditRow /\ \E a, b \in Seq(RowType), s \in RowType : rows = Put(a, r, b) /\ Says(r, line, s) /\ new = Put(a, s, b)
    BY TypeIsPut
  <1>2. line # r.text
    OBVIOUS
  <1> HIDE DEF r, new
  <1>3. PICK a \in Seq(RowType), b \in Seq(RowType), s \in RowType : rows = Put(a, r, b) /\ Says(r, line, s) /\ new = Put(a, s, b)
    BY <1>1
  <1>4. Telling(rows, new)
    BY <1>1, <1>2, <1>3, PutIsTelling
  <1> QED BY <1>4 DEF new

LEMMA SplitLineIsTelling ==
  ASSUME NEW rows \in Seq(RowType), NEW i \in 1 .. Len(rows), rows[i].role \in Editable,
         NEW l \in Line, NEW m \in Line
  PROVE  Telling(rows, InsertAt([rows EXCEPT ![i].text = l], i + 1, [rows[i] EXCEPT !.text = m]))
  <1> DEFINE r == rows[i]
             new == InsertAt([rows EXCEPT ![i].text = l], i + 1, [rows[i] EXCEPT !.text = m])
  <1>1. /\ r \in EditRow
        /\ \E a, b \in Seq(RowType), s, t \in RowType :
             rows = Put(a, r, b) /\ Says(r, l, s) /\ Says(r, m, t) /\ new = Put2(a, s, t, b)
    BY SplitIsPut
  <1> HIDE DEF r, new
  <1>2. PICK a \in Seq(RowType), b \in Seq(RowType), s, t \in RowType :
          rows = Put(a, r, b) /\ Says(r, l, s) /\ Says(r, m, t) /\ new = Put2(a, s, t, b)
    BY <1>1
  <1>3. Telling(rows, new)
    BY <1>1, <1>2, SplitIsTelling
  <1> QED BY <1>3 DEF new

LEMMA MergeLineIsTelling ==
  ASSUME NEW rows \in Seq(RowType), NEW i \in 1 .. Len(rows), i > 1, rows[i].role \in Editable,
         rows[i - 1].role = rows[i].role, rows[i - 1].block = rows[i].block, NEW l \in Line
  PROVE  Telling(rows, RemoveAt([rows EXCEPT ![i - 1].text = l], i))
  <1> DEFINE k == i - 1
             q == rows[k]
             r == rows[i]
             new == RemoveAt([rows EXCEPT ![k].text = l], i)
  <1>1. /\ q \in EditRow /\ r \in EditRow
        /\ \E a, b \in Seq(RowType), s \in RowType : rows = Put2(a, q, r, b) /\ Says(q, l, s) /\ new = Put(a, s, b)
    BY MergeIsPut
  <1>2. q.role = r.role /\ q.block = r.block
    OBVIOUS
  <1> HIDE DEF q, r, new, k
  <1>3. PICK a \in Seq(RowType), b \in Seq(RowType), s \in RowType : rows = Put2(a, q, r, b) /\ Says(q, l, s) /\ new = Put(a, s, b)
    BY <1>1
  <1>4. r.text \in Line /\ Says(q, r.text, r)
    BY <1>1, <1>2, EditRowIs DEF Says
  <1>5. Telling(rows, new)
    BY <1>1, <1>3, <1>4, MergeIsTelling
  <1> QED BY <1>5 DEF new, k

-----------------------------------------------------------------------------
(* The rows held tell their text, whatever the window does. *)

Faithful == open => \A p \in File \ marked : IsHeld(p) => Tells(Held(p))

LEMMA InitFaithful == Init => Faithful
  <1> SUFFICES ASSUME Init, NEW p \in File, IsHeld(p) PROVE Tells(Held(p))
    BY DEF Faithful
  <1>1. IInv
    BY InitInv
  <1>2. p = selectedPath /\ conflicts # <<>> /\ Held(p) = Rows(conflicts[1].lines)
    BY NothingKept, NoneIsNoFile DEF Init, IsHeld, Held
  <1>3. conflicts \in Seq(Conflict)
    BY <1>1 DEF IInv, Types, WindowTypes, Conflict
  <1>4. 1 \in DOMAIN conflicts
    BY <1>2, <1>3, ListedFile
  <1>5. conflicts[1] \in Conflict
    BY <1>3, <1>4, ElementOfSeq, LenProperties
  <1>6. conflicts[1].lines # <<>>
    BY <1>1, <1>4 DEF IInv, Windowed, Init
  <1> QED BY <1>2, <1>5, <1>6, RowsTell DEF Conflict

LEMMA EditFaithful ==
  ASSUME IInv, Faithful, open, displayModel # <<>>, NEW rows, Telling(displayModel, rows), ShowEdited(rows)
  PROVE  Faithful'
  <1> SUFFICES ASSUME NEW p \in File, p \notin marked', IsHeld(p)' PROVE Tells(Held(p)')
    BY DEF Faithful, Tells
  <1>1. /\ displayModel' = rows /\ open' = open /\ selectedPath' = selectedPath /\ modifiedFiles' = modifiedFiles
        /\ marked \subseteq marked'
        /\ selectedPath \notin marked' => MarksAsText(rows) = MarksAsText(displayModel)
    BY DEF ShowEdited
  <1>2. IsHeld(p) /\ p \notin marked
    BY <1>1 DEF IsHeld
  <1>3. Tells(Held(p))
    BY <1>2 DEF Faithful
  <1>4. CASE p = selectedPath
    <2>1. Held(p) = displayModel /\ Held(p)' = rows BY <1>1, <1>4 DEF Held
    <2> QED BY <1>1, <1>3, <1>4, <2>1 DEF Telling
  <1>5. CASE p # selectedPath
    <2>1. Held(p)' = Held(p) BY <1>1, <1>5 DEF Held
    <2> QED BY <1>3, <2>1
  <1> QED BY <1>4, <1>5

LEMMA TypeFaithful ==
  ASSUME IInv, Faithful, NEW i, NEW line \in Typed, Type(i, line)
  PROVE  Faithful'
  <1>1. /\ EditableRow(i) /\ displayModel[i].role \in Editable /\ ShowEdited([displayModel EXCEPT ![i].text = line])
        /\ line # displayModel[i].text
    BY DEF Type, EditableRow
  <1>2. line \in Line
    BY TextsAssumption
  <1>3. open /\ displayModel \in Seq(RowType) /\ i \in 1 .. Len(displayModel) /\ displayModel # <<>>
    BY <1>1, ShownRows
  <1>4. Telling(displayModel, [displayModel EXCEPT ![i].text = line])
    BY <1>1, <1>2, <1>3, TypeLineIsTelling
  <1> QED BY <1>1, <1>3, <1>4, EditFaithful

LEMMA SplitFaithful ==
  ASSUME IInv, Faithful, NEW i, NEW cursor \in 0 .. Len(displayModel[i].text), SplitLine(i, cursor)
  PROVE  Faithful'
  <1> DEFINE row == displayModel[i]
             l == SubSeq(row.text, 1, cursor)
             m == SubSeq(row.text, cursor + 1, Len(row.text))
             rows == InsertAt([displayModel EXCEPT ![i].text = l], i + 1, [displayModel[i] EXCEPT !.text = m])
  <1>1. EditableRow(i) /\ displayModel[i].role \in Editable /\ ShowEdited(rows)
    BY DEF SplitLine, EditableRow
  <1>2. /\ open /\ displayModel \in Seq(RowType) /\ i \in 1 .. Len(displayModel) /\ displayModel # <<>>
        /\ row.text \in Line
    BY <1>1, ShownRows
  <1>3. l \in Line /\ m \in Line
    BY <1>2, HalvesType
  <1> HIDE DEF l, m
  <1>4. Telling(displayModel, rows)
    BY <1>1, <1>2, <1>3, SplitLineIsTelling
  <1> HIDE DEF rows
  <1> QED BY <1>1, <1>2, <1>4, EditFaithful

LEMMA MergeFaithful ==
  ASSUME IInv, Faithful, NEW i \in DOMAIN displayModel, MergeLineUp(i)
  PROVE  Faithful'
  <1> DEFINE l == displayModel[i - 1].text \o displayModel[i].text
             rows == RemoveAt([displayModel EXCEPT ![i - 1].text = l], i)
  <1>1. /\ EditableRow(i) /\ displayModel[i].role \in Editable /\ ShowEdited(rows) /\ i > 1
        /\ displayModel[i - 1].role = displayModel[i].role /\ displayModel[i - 1].block = displayModel[i].block
    BY DEF MergeLineUp, EditableRow
  <1>2. /\ open /\ displayModel \in Seq(RowType) /\ i \in 1 .. Len(displayModel) /\ displayModel # <<>>
        /\ displayModel[i].text \in Line /\ Len(displayModel) \in Nat
    BY <1>1, ShownRows
  <1>3. displayModel[i - 1].text \in Line
    <2>1. i - 1 \in 1 .. Len(displayModel)
      BY <1>1, <1>2
    <2>2. displayModel[i - 1] \in RowType
      BY <1>2, <2>1, ElementOfSeq
    <2> QED BY <2>2 DEF RowType
  <1>4. l \in Line
    BY <1>2, <1>3, ConcatProperties DEF Line
  <1> HIDE DEF l
  <1>5. Telling(displayModel, rows)
    BY <1>1, <1>2, <1>4, MergeLineIsTelling
  <1> HIDE DEF rows
  <1> QED BY <1>1, <1>2, <1>5, EditFaithful

\* Another file, shown or staged.
LEMMA LeftTells ==
  ASSUME IInv, Faithful, open, NEW p \in Listed(conflicts), NEW cache, NEW rows,
         cache = Cached(modifiedFiles, selectedPath, p, displayModel),
         rows = IF p = selectedPath THEN displayModel ELSE RowsOf(conflicts, cache, p)
  PROVE  /\ p \in File /\ CacheType(cache) /\ rows \in Seq(RowType)
         /\ p \notin marked => Tells(rows)
         /\ \A q \in File : q # p => (q \in DOMAIN cache <=> IsHeld(q)) /\ (IsHeld(q) => cache[q] = Held(q))
  <1>1. /\ p \in File /\ CacheType(cache) /\ rows \in Seq(RowType)
        /\ \A q \in File : q # p => (q \in DOMAIN cache <=> IsHeld(q)) /\ (IsHeld(q) => cache[q] = Held(q))
        /\ IsHeld(p) => rows = Held(p)
        /\ ~IsHeld(p) => rows = Rows(LinesIn(conflicts, p))
        /\ LinesIn(conflicts, p) \in Lines /\ LinesIn(conflicts, p) # <<>>
    BY LeftIs
  <1>2. p \notin marked /\ IsHeld(p) => Tells(Held(p))
    BY <1>1 DEF Faithful
  <1>3. Tells(Rows(LinesIn(conflicts, p)))
    BY <1>1, RowsTell
  <1> QED BY <1>1, <1>2, <1>3

LEMMA ShownFaithful ==
  ASSUME IInv, Faithful, open, NEW p \in Listed(conflicts), NEW cache, NEW rows,
         cache = Cached(modifiedFiles, selectedPath, p, displayModel),
         rows = IF p = selectedPath THEN displayModel ELSE RowsOf(conflicts, cache, p),
         modifiedFiles' = cache, selectedPath' = p, displayModel' = rows, marked' = marked
  PROVE  Faithful'
  <1> SUFFICES ASSUME NEW q \in File, q \notin marked, IsHeld(q)' PROVE Tells(Held(q)')
    BY DEF Faithful, Tells
  <1>1. /\ p \notin marked => Tells(rows)
        /\ \A z \in File : z # p => (z \in DOMAIN cache <=> IsHeld(z)) /\ (IsHeld(z) => cache[z] = Held(z))
    BY LeftTells
  <1>2. CASE q = p
    <2>1. Held(q)' = rows BY <1>2 DEF Held
    <2> QED BY <1>1, <1>2, <2>1
  <1>3. CASE q # p
    <2>1. q \in DOMAIN cache /\ Held(q)' = cache[q] BY <1>3 DEF IsHeld, Held
    <2>2. IsHeld(q) /\ Held(q)' = Held(q) BY <1>1, <1>3, <2>1
    <2> QED BY <2>2 DEF Faithful
  <1> QED BY <1>2, <1>3

\* The conflicts are loaded again.
LEMMA LoadsFaithful ==
  ASSUME NEW cache, NEW from, NEW rows, disk' \in [File -> Lines],
         Holds(disk', unmerged', cache, from, rows, conflicts', selectedPath', displayModel', modifiedFiles'),
         \A q \in File \ marked' : q \in DOMAIN cache => Tells(cache[q]),
         from \in DOMAIN modifiedFiles' /\ from \notin marked' => Tells(rows)
  PROVE  Faithful'
  <1> SUFFICES ASSUME NEW q \in File, q \notin marked', IsHeld(q)' PROVE Tells(Held(q)')
    BY DEF Faithful, Tells
  <1>1. \/ q \in DOMAIN cache /\ Held(q)' = cache[q]
        \/ q = from /\ Held(q)' = rows /\ q \in DOMAIN modifiedFiles'
        \/ disk'[q] # <<>> /\ Held(q)' = Rows(disk'[q])
    BY HeldNext
  <1>2. disk'[q] \in Lines
    OBVIOUS
  <1>3. disk'[q] # <<>> => Tells(Rows(disk'[q]))
    BY <1>2, RowsTell
  <1> QED BY <1>1, <1>3

LEMMA StageFaithful ==
  ASSUME IInv, Faithful, NEW p, NEW outcome \in Outcome, SaveAndStage(p, outcome)
  PROVE  Faithful'
  <1> DEFINE cache == Cached(modifiedFiles, selectedPath, p, displayModel)
             rows == IF p = selectedPath THEN displayModel ELSE RowsOf(conflicts, cache, p)
             left == Forget(cache, p)
             text == BuildFullContent(rows)
  <1>1. /\ open /\ p \in Listed(conflicts)
        /\ PerformStage(p, cache, rows, outcome) \/ StageFails(p, cache, rows, outcome)
    BY DEF SaveAndStage, CanSave
  <1>2. /\ p \in File /\ CacheType(cache) /\ rows \in Seq(RowType) /\ (p \notin marked => Tells(rows))
        /\ \A q \in File : q # p => (q \in DOMAIN cache <=> IsHeld(q)) /\ (IsHeld(q) => cache[q] = Held(q))
    BY <1>1, LeftTells
  <1>3. CASE StageFails(p, cache, rows, outcome)
    <2>1. modifiedFiles' = cache /\ selectedPath' = p /\ displayModel' = rows /\ marked' = marked
      BY <1>3 DEF StageFails, history
    <2> QED BY <1>1, <2>1, ShownFaithful
  <1>4. CASE PerformStage(p, cache, rows, outcome)
    <2>1. /\ disk' = Written(disk, p, text, outcome) /\ unmerged' = unmerged \ {p} /\ marked' = marked
          /\ LoadConflicts(disk', unmerged', left, p, rows)
      BY <1>4 DEF PerformStage
    <2> HIDE DEF cache, rows
    <2>2. text \in Lines BY <1>2, ContentType
    <2>3. disk' \in [File -> Lines] /\ unmerged' \in SUBSET File
      <3>1. disk \in [File -> Lines] /\ unmerged \subseteq File BY DEF IInv, Types, RepoTypes
      <3> QED BY <1>2, <2>1, <2>2, <3>1, WrittenIs
    <2>4. CacheType(left) /\ DOMAIN left = DOMAIN cache \ {p} /\ \A q \in DOMAIN cache \ {p} : left[q] = cache[q]
      BY <1>2, ForgetIs, ForgetType
    <2> HIDE DEF left, text
    <2>5. Holds(disk', unmerged', left, p, rows, conflicts', selectedPath', displayModel', modifiedFiles')
      BY <1>2, <2>1, <2>3, <2>4, LoadsIs
    <2>6. ASSUME NEW q \in File \ marked', q \in DOMAIN left PROVE Tells(left[q])
      <3>1. IsHeld(q) /\ left[q] = Held(q) /\ q \notin marked BY <1>2, <2>1, <2>4, <2>6
      <3> QED BY <1>1, <3>1 DEF Faithful
    <2> QED BY <1>2, <2>1, <2>3, <2>5, <2>6, LoadsFaithful
  <1> QED BY <1>1, <1>3, <1>4

LEMMA SelectFaithful ==
  ASSUME IInv, Faithful, NEW p \in File, SelectFile(p)
  PROVE  Faithful'
  <1> DEFINE cache == Cached(modifiedFiles, selectedPath, p, displayModel)
             rows == RowsOf(conflicts, cache, p)
  <1>1. /\ open /\ p \in Listed(conflicts) /\ p # selectedPath
        /\ modifiedFiles' = cache /\ selectedPath' = p /\ displayModel' = rows /\ marked' = marked
    BY DEF SelectFile, Show, history
  <1>2. rows = IF p = selectedPath THEN displayModel ELSE RowsOf(conflicts, cache, p)
    BY <1>1
  <1> HIDE DEF rows, cache
  <1> QED BY <1>1, <1>2, ShownFaithful DEF cache

LEMMA AcceptFaithful ==
  ASSUME IInv, Faithful, NEW index \in Buttons, NEW mode \in Modes, NEW first \in Outcome,
         NEW second \in Outcome, AcceptBlock(index, mode, first, second)
  PROVE  Faithful'
  <1> DEFINE shown  == BuildFullContent(displayModel)
             before == Written(disk, selectedPath, shown, first)
             blocks == {b \in Range(ParseConflictBlocks(before[selectedPath])) : b.index = index}
             b == CHOOSE b \in blocks : TRUE
             z == ReplaceBlock(before[selectedPath], b, mode)
             left == Forget(modifiedFiles, selectedPath)
  <1>1. /\ open /\ marked' = marked /\ unmerged' = unmerged
        /\ IF blocks = {} \/ second = "unopened" THEN UNCHANGED window
             ELSE /\ disk' = Written(before, selectedPath, z, second)
                  /\ LoadConflicts(disk', unmerged, left, selectedPath, displayModel)
    BY DEF AcceptBlock
  <1>2. displayModel # <<>>
    <2>1. Range(displayModel) # {} BY DEF Buttons
    <2> QED BY <2>1, NothingKept DEF Range
  <1>3. CASE blocks = {} \/ second = "unopened"
    <2>1. UNCHANGED <<open, conflicts, selectedPath, displayModel, modifiedFiles>> BY <1>1, <1>3 DEF window
    <2>2. \A q : (IsHeld(q)' <=> IsHeld(q)) /\ Held(q)' = Held(q) BY <2>1 DEF IsHeld, Held
    <2> QED BY <1>1, <2>1, <2>2 DEF Faithful, Tells
  <1>4. CASE ~(blocks = {} \/ second = "unopened")
    <2>1. b \in Range(ParseConflictBlocks(before[selectedPath])) BY <1>4
    <2>2. /\ displayModel \in Seq(RowType) /\ disk \in [File -> Lines] /\ CacheType(modifiedFiles)
          /\ unmerged \in SUBSET File
      BY DEF IInv, Types, WindowTypes, RepoTypes
    <2>3. shown \in Lines /\ shown # <<>> BY <2>2, ContentType
    <2>4. /\ disk' = Written(before, selectedPath, z, second)
          /\ LoadConflicts(disk', unmerged, left, selectedPath, displayModel)
      BY <1>1, <1>4
    <2> HIDE DEF shown, b, blocks
    <2>5. selectedPath \in File BY <1>1, <1>2, SelectedIs
    <2>6. before \in [File -> Lines] BY <2>2, <2>3, <2>5, WrittenIs
    <2> HIDE DEF before
    <2>7. z \in Lines BY <2>1, <2>5, <2>6, ReplaceBlockType
    <2> HIDE DEF z
    <2>8. disk' \in [File -> Lines] BY <2>4, <2>5, <2>6, <2>7, WrittenIs
    <2>9. CacheType(left) /\ DOMAIN left = DOMAIN modifiedFiles \ {selectedPath}
            /\ \A q \in DOMAIN modifiedFiles \ {selectedPath} : left[q] = modifiedFiles[q]
      BY <2>2, ForgetIs, ForgetType
    <2> HIDE DEF left
    <2>10. Holds(disk', unmerged, left, selectedPath, displayModel, conflicts', selectedPath', displayModel', modifiedFiles')
      BY <2>2, <2>4, <2>5, <2>8, <2>9, LoadsOf
    <2>11. Holds(disk', unmerged', left, selectedPath, displayModel, conflicts', selectedPath', displayModel', modifiedFiles')
      BY <1>1, <2>10
    <2>12. selectedPath \notin marked' => Tells(displayModel)
      <3>1. IsHeld(selectedPath) /\ Held(selectedPath) = displayModel BY DEF IsHeld, Held
      <3> QED BY <1>1, <2>5, <3>1 DEF Faithful
    <2>13. ASSUME NEW q \in File \ marked', q \in DOMAIN left PROVE Tells(left[q])
      <3>1. IsHeld(q) /\ left[q] = Held(q) /\ q \notin marked BY <1>1, <2>9, <2>13 DEF IsHeld, Held
      <3> QED BY <1>1, <3>1 DEF Faithful
    <2> QED BY <2>8, <2>11, <2>12, <2>13, LoadsFaithful
  <1> QED BY <1>3, <1>4

LEMMA ReopenFaithful ==
  ASSUME IInv, Faithful, Reopen
  PROVE  Faithful'
  <1>1. /\ LoadConflicts(disk, unmerged, <<>>, None, <<>>) /\ disk' = disk /\ unmerged' = unmerged
        /\ open' = TRUE /\ operation' = operation /\ at' = at /\ unmerged # {}
    BY DEF Reopen, repo
  <1>2. disk \in [File -> Lines] /\ unmerged \in SUBSET File
    BY DEF IInv, Types, RepoTypes
  <1>3. Holds(disk, unmerged, <<>>, None, <<>>, conflicts', selectedPath', displayModel', modifiedFiles')
    BY <1>1, <1>2, NothingKept, EmptySeq, LoadsOf
  <1>4. Holds(disk', unmerged', <<>>, None, <<>>, conflicts', selectedPath', displayModel', modifiedFiles')
    BY <1>1, <1>3
  <1>5. None \notin DOMAIN modifiedFiles'
    <2>1. IInv' BY ReopenInv
    <2>2. CacheType(modifiedFiles)' BY <2>1 DEF IInv, Types, WindowTypes
    <2> QED BY <2>2, NoneIsNoFile DEF CacheType
  <1> QED BY <1>1, <1>2, <1>4, <1>5, NothingKept, LoadsFaithful

LEMMA GoOnFaithful ==
  ASSUME IInv, Faithful, open, at > 0, NEW h, NEW index, NEW d \in [File -> Lines], GoOn(h, index, d)
  PROVE  Faithful'
  <1>1. CASE ~(at < Len(operation.stops))
    <2>1. open' = FALSE BY <1>1 DEF GoOn, Close
    <2> QED BY <2>1 DEF Faithful
  <1>2. CASE at < Len(operation.stops)
    <2>1. /\ at' = at + 1 /\ disk' = Conflicted(operation, at', d) /\ unmerged' = DOMAIN Stop(operation, at')
          /\ LoadConflicts(disk', unmerged', <<>>, selectedPath, displayModel)
          /\ marked' = marked \cap DOMAIN modifiedFiles'
      BY <1>2 DEF GoOn, NewStop
    <2>2. operation \in Operations /\ at' \in 1 .. Len(operation.stops)
      <3>1. operation \in Operations BY DEF IInv, Types, RepoTypes
      <3>2. at \in 1 .. Len(operation.stops) /\ Len(operation.stops) \in Nat BY <3>1, StopIs DEF IInv, Types
      <3> QED BY <1>2, <2>1, <3>1, <3>2
    <2>3. disk' \in [File -> Lines] /\ unmerged' \in SUBSET File
      BY <2>1, <2>2, ConflictedIs, StopType
    <2>4. selectedPath \in File \union {None} /\ displayModel \in Seq(RowType)
      BY DEF IInv, Types, WindowTypes
    <2>5. /\ Shown(disk', unmerged', conflicts', selectedPath', displayModel', modifiedFiles')
          /\ Holds(disk', unmerged', <<>>, selectedPath, displayModel,
                   conflicts', selectedPath', displayModel', modifiedFiles')
      BY <2>1, <2>3, <2>4, NothingKept, LoadsIs
    <2>6. ASSUME selectedPath \in DOMAIN modifiedFiles', selectedPath \notin marked' PROVE Tells(displayModel)
      <3>1. selectedPath \notin marked BY <2>1, <2>6
      <3>2. selectedPath \in File BY <2>5, <2>6 DEF Shown, CacheType
      <3>3. IsHeld(selectedPath) /\ Held(selectedPath) = displayModel BY DEF IsHeld, Held
      <3> QED BY <3>1, <3>2, <3>3 DEF Faithful
    <2> QED BY <2>3, <2>5, <2>6, NothingKept, LoadsFaithful
  <1> QED BY <1>1, <1>2

\* The window is as it was, or closed.
LEMMA KeptFaithful ==
  ASSUME Faithful, UNCHANGED <<open, selectedPath, displayModel, modifiedFiles, marked>> \/ ~open'
  PROVE  Faithful'
  <1>1. CASE ~open'
    BY <1>1 DEF Faithful
  <1>2. CASE UNCHANGED <<open, selectedPath, displayModel, modifiedFiles, marked>>
    <2>1. \A q : (IsHeld(q)' <=> IsHeld(q)) /\ Held(q)' = Held(q) BY <1>2 DEF IsHeld, Held
    <2> QED BY <1>2, <2>1 DEF Faithful, Tells
  <1> QED BY <1>1, <1>2

LEMMA NextFaithful ==
  ASSUME IInv, Faithful, [Next]_vars
  PROVE  Faithful'
  <1>1. CASE Reopen BY <1>1, ReopenFaithful
  <1>d. \A h, index, d : StopsShort(h, index, d) \/ ContinueHalf \/ AbortHalf => Faithful'
    <2> SUFFICES ASSUME Overtaken PROVE Faithful'
      BY DEF StopsShort, ContinueHalf, AbortHalf
    <2> QED BY KeptFaithful DEF Overtaken, window
  <1>2. CASE Continue
    <2>1. /\ open /\ at > 0
          /\ (\E h, index : \E d \in [File -> Lines] : GoOn(h, index, d)) \/ StopsShort(staged, staged, staged)
      BY <1>2 DEF Continue, IInv, Types, RepoTypes
    <2> QED BY <2>1, <1>d, GoOnFaithful
  <1>3. CASE Skip
    <2>1. /\ open /\ at > 0
          /\ \E h, index : \E d \in [File -> Lines] : GoOn(h, index, d) \/ StopsShort(h, index, d)
      BY <1>3 DEF Skip, IInv, Types, RepoTypes
    <2> QED BY <2>1, <1>d, GoOnFaithful
  <1>e. CASE ContinueHalf \/ AbortHalf BY <1>e, <1>d
  <1>4. CASE Abort BY <1>4, KeptFaithful DEF Abort
  <1>5. CASE \E outcome \in [DOMAIN Visited -> Outcome] : SaveAllModifications(outcome)
    BY <1>5, KeptFaithful DEF SaveAllModifications, Close
  <1>6. CASE \E i \in DOMAIN displayModel : \E line \in Typed : Type(i, line)
    BY <1>6, TypeFaithful
  <1>7. CASE \E i \in DOMAIN displayModel : \E cursor \in 0 .. Len(displayModel[i].text) : SplitLine(i, cursor)
    BY <1>7, SplitFaithful
  <1>8. CASE \E i \in DOMAIN displayModel : MergeLineUp(i)
    BY <1>8, MergeFaithful
  <1>9. CASE \E p \in File : SelectFile(p)
    BY <1>9, SelectFaithful
  <1>a. CASE \E p \in File : \E outcome \in Outcome : SaveAndStage(p, outcome)
    BY <1>a, StageFaithful
  <1>b. CASE \E index \in Buttons, mode \in {"ours", "theirs", "both"}, first, second \in Outcome :
               AcceptBlock(index, mode, first, second)
    BY <1>b, AcceptFaithful DEF Modes
  <1>c. CASE (\E p \in File, lines \in Outside : WriteOutside(p, lines)) \/ UNCHANGED vars
    BY <1>c, KeptFaithful DEF WriteOutside, vars, window, history
  <1> QED BY <1>1, <1>2, <1>3, <1>4, <1>5, <1>6, <1>7, <1>8, <1>9, <1>a, <1>b, <1>c, <1>e DEF Next

\* The rows of every file held are those of the text they stand for, as long as
\* its markers are not edited as text.
THEOREM RowsStayFaithful == Spec => [](IInv /\ Faithful)
  <1>1. Init => IInv /\ Faithful
    BY InitInv, InitFaithful
  <1>2. (IInv /\ Faithful) /\ [Next]_vars => (IInv /\ Faithful)'
    BY NextInv, NextFaithful
  <1> QED BY <1>1, <1>2, PTL DEF Spec

\* DisplayIsFile: whatever is typed, split and joined, the rows shown are those
\* of the text they would be written as.
LEMMA FaithfulIsShown == IInv /\ Faithful => DisplayIsFile
  <1> SUFFICES ASSUME IInv, Faithful, open, selectedPath \notin marked, selectedPath # None
               PROVE  displayModel = Rows(BuildFullContent(displayModel))
    BY DEF DisplayIsFile
  <1>1. selectedPath \in File /\ displayModel \in Seq(RowType)
    BY DEF IInv, Types, WindowTypes
  <1>2. Tells(displayModel)
    BY <1>1 DEF Faithful, IsHeld, Held
  <1> QED BY <1>1, <1>2, TellsIs

-----------------------------------------------------------------------------
(* What is left of the rows of a text when the rows outside a set go. *)

\* The row with the text of a line.
LineRow(lines, i) ==
  IF BlockOf(ParseConflictBlocks(lines), i) = {} THEN Row("context", lines[i], 0)
  ELSE LET b == CHOOSE b \in BlockOf(ParseConflictBlocks(lines), i) : TRUE
       IN  Row(RoleAt(b, i), lines[i], b.index)

LEMMA LineRowIs ==
  ASSUME NEW lines \in Lines, NEW i \in 1 .. Len(lines)
  PROVE  /\ LineRow(lines, i) \in Lined
         /\ \A b \in Range(ParseConflictBlocks(lines)) :
              /\ i \notin b.start .. b.end => LineRow(lines, i).block # b.index
              /\ i \in b.start .. b.end =>
                   LineRow(lines, i).block = b.index /\ LineRow(lines, i).role = RoleAt(b, i)
  <1> DEFINE bs == ParseConflictBlocks(lines)
             r == LineRow(lines, i)
  <1>1. lines[i] \in Line /\ i \in Nat
    BY ElementOfSeq DEF Lines
  <1>2. /\ \A b \in Range(bs) : b \in Block /\ b.index >= 1
        /\ \A b, c \in Range(bs) : b = c \/ Before(b, c) \/ Before(c, b)
    BY BlocksApart
  <1> HIDE DEF bs
  <1>3. CASE BlockOf(bs, i) = {}
    <2>1. r = Row("context", lines[i], 0) BY <1>3 DEF LineRow, bs
    <2>2. r \in Lined /\ r.block = 0 BY <1>1, <2>1 DEF Row, Lined, RowType, Role
    <2>3. \A b \in Range(bs) : b.index # 0 /\ i \notin b.start .. b.end
      BY <1>1, <1>2, <1>3 DEF BlockOf, Block
    <2> QED BY <2>2, <2>3 DEF bs
  <1>4. CASE BlockOf(bs, i) # {}
    <2> PICK c \in BlockOf(bs, i) : TRUE BY <1>4
    <2>1. BlockOf(bs, i) = {c} BY <1>1, OneBlock DEF bs
    <2>2. r = Row(RoleAt(c, i), lines[i], c.index)
      <3>1. (CHOOSE b \in {c} : TRUE) = c OBVIOUS
      <3> QED BY <1>4, <2>1, <3>1 DEF LineRow, bs
    <2>3. c \in Range(bs) /\ c \in Block /\ c.index >= 1 /\ i \in c.start .. c.end
      BY <1>1, <1>2 DEF BlockOf, Block
    <2>4. r \in Lined
      <3>1. RoleAt(c, i) \in Role \ {"button", "context"} BY DEF RoleAt, Role
      <3>2. c.index \in Nat /\ c.index # 0 BY <2>3 DEF Block
      <3> QED BY <1>1, <2>2, <3>1, <3>2 DEF Row, Lined, RowType
    <2>5. r.block = c.index /\ r.role = RoleAt(c, i) BY <2>2 DEF Row
    <2>6. ASSUME NEW b \in Range(bs), i \in b.start .. b.end PROVE b = c
      <3>1. b \in BlockOf(bs, i) BY <1>1, <1>2, <2>6 DEF BlockOf, Block
      <3> QED BY <2>1, <3>1
    <2>7. ASSUME NEW b \in Range(bs), b # c PROVE b.index # c.index
      BY <1>2, <2>3, <2>7 DEF Before, Block
    <2> HIDE DEF r
    <2> QED BY <2>3, <2>4, <2>5, <2>6, <2>7 DEF bs, r
  <1> QED BY <1>3, <1>4

\* The rows of a line are its buttons and that row.
LEMMA PlaceHasRow ==
  ASSUME NEW lines \in Lines, NEW i \in 1 .. Len(lines)
  PROVE  \E h \in Seq(RowType \ Lined) : Place(lines, i) = h \o << LineRow(lines, i) >>
  <1> DEFINE bs == ParseConflictBlocks(lines)
             r == LineRow(lines, i)
             o == <<r>>
  <1>0. i \in Int /\ r \in Lined
    BY LineRowIs
  <1>1. o \in Seq(Lined) /\ <<>> \o o = o
    BY <1>0, OneIsSeq, ConcatEmptySeq
  <1> HIDE DEF o
  <1>2. CASE BlockOf(bs, i) = {}
    <2>1. Place(lines, i) = o BY <1>0, <1>2, PlaceIs DEF LineRow, o
    <2> QED BY <1>1, <2>1, EmptySeq DEF o
  <1>3. CASE BlockOf(bs, i) # {}
    <2> PICK b \in BlockOf(bs, i) : TRUE BY <1>3
    <2> DEFINE q == Row("button", <<>>, b.index)
               h == IF i = b.start THEN <<q>> ELSE <<>>
    <2>1. RoleIn(b, i) = RoleAt(b, i) BY <1>0, RoleInPlace
    <2>2. BlockOf(bs, i) = {b} BY <1>0, OneBlock
    <2>3. r = Row(RoleAt(b, i), lines[i], b.index)
      <3>1. (CHOOSE c \in {b} : TRUE) = b OBVIOUS
      <3> HIDE DEF bs
      <3> QED BY <1>3, <2>2, <3>1 DEF LineRow, bs
    <2>4. Place(lines, i) = h \o o BY <1>0, <2>1, <2>3, PlaceIs DEF o
    <2>5. q \in RowType \ Lined
      <3>1. b \in Block /\ b.index >= 1 BY BlocksApart DEF BlockOf
      <3> QED BY <3>1, EmptySeq DEF Row, RowType, Lined, Role, Block, Line
    <2> HIDE DEF q
    <2>6. h \in Seq(RowType \ Lined) BY <2>5, OneIsSeq, EmptySeq
    <2> QED BY <2>4, <2>6 DEF o
  <1> QED BY <1>2, <1>3

\* The lines left of the first m.
LinesLeft(lines, T, m) == LinesOf(Kept(Builds(lines)[m], T))

LEMMA KeptButtons ==
  ASSUME NEW h \in Seq(RowType \ Lined), NEW T
  PROVE  LinesOf(Kept(h, T)) = <<>>
  <1> DEFINE G == {u \in Seq(RowType \ Lined) : LinesOf(u) = <<>>}
  <1>1. <<>> \in G
    BY EmptySeq, LinesOfNone
  <1>2. ASSUME NEW u \in Seq(RowType \ Lined), NEW x \in RowType \ Lined, u \in G PROVE Append(u, x) \in G
    <2> DEFINE o == <<x>>
    <2>1. x.role = "button" BY DEF Lined
    <2>2. o \in Seq(RowType) /\ LinesOf(o) = <<>> BY <2>1, OneIsSeq, LinesOfOne
    <2>3. Append(u, x) = u \o o /\ Append(u, x) \in Seq(RowType \ Lined) BY AppendIsConcat, AppendProperties
    <2> HIDE DEF o
    <2>4. u \in Seq(RowType)
      <3>1. Len(u) \in Nat /\ u \in [1 .. Len(u) -> RowType] BY SeqDef, LenProperties, ElementOfSeq
      <3> QED BY <3>1, SeqDef
    <2>5. LinesOf(u \o o) = <<>> \o <<>> BY <1>2, <2>2, <2>4, LinesOfJoined
    <2>6. <<>> \o <<>> = <<>>
      <3>1. <<>> \in Seq(RowType) BY EmptySeq
      <3> QED BY <3>1, ConcatEmptySeq
    <2> QED BY <2>3, <2>5, <2>6
  <1> HIDE DEF G
  <1>3. Kept(h, T) \in G
    BY <1>1, <1>2, SeqInduction, KeptType
  <1> QED BY <1>3 DEF G

LEMMA LinesLeftNext ==
  ASSUME NEW lines \in Lines, NEW T, NEW i \in 1 .. Len(lines)
  PROVE  /\ LinesLeft(lines, T, i - 1) \in Lines
         /\ LinesLeft(lines, T, i) = IF LineRow(lines, i) \in T THEN LinesLeft(lines, T, i - 1) \o << lines[i] >>
                                     ELSE LinesLeft(lines, T, i - 1)
  <1> DEFINE f == Builds(lines)
             u == f[i - 1]
             r == LineRow(lines, i)
             o == <<r>>
             x == << lines[i] >>
  <1>1. Len(lines) \in Nat /\ i - 1 \in 0 .. Len(lines)
    BY LenProperties DEF Lines
  <1>2. f[i] = u \o Place(lines, i) /\ u \in Seq(RowType)
    BY <1>1, BuildsIs DEF Place
  <1>3. PICK h \in Seq(RowType \ Lined) : Place(lines, i) = h \o o
    BY PlaceHasRow
  <1>4. r \in Lined /\ r.text = lines[i]
    <2>1. r.text = lines[i] BY DEF LineRow, Row
    <2> QED BY <2>1, LineRowIs
  <1>5. r \in RowType /\ r.role # "button"
    BY <1>4 DEF Lined
  <1>6. o \in Seq(RowType) /\ LinesOf(o) = x /\ Kept(o, T) = IF r \in T THEN o ELSE <<>>
    <2> HIDE DEF r
    <2> QED BY <1>4, <1>5, OneIsSeq, LinesOfOne, KeptOfOne
  <1> HIDE DEF f, u, o, x
  <1>7. h \in Seq(RowType)
    <2>1. Len(h) \in Nat /\ h \in [1 .. Len(h) -> RowType] BY SeqDef, LenProperties, ElementOfSeq
    <2> QED BY <2>1, SeqDef
  <1>8. h \o o \in Seq(RowType) /\ Kept(h \o o, T) = Kept(h, T) \o Kept(o, T)
    BY <1>6, <1>7, ConcatProperties, KeptOfJoined
  <1>9. Kept(u, T) \in Seq(RowType) /\ Kept(h, T) \in Seq(RowType) /\ Kept(o, T) \in Seq(RowType)
    BY <1>2, <1>6, <1>7, KeptType
  <1>a. Kept(u \o (h \o o), T) = Kept(u, T) \o (Kept(h, T) \o Kept(o, T))
    <2> DEFINE w == h \o o
    <2>1. w \in Seq(RowType) BY <1>8
    <2> HIDE DEF w
    <2>2. Kept(u \o w, T) = Kept(u, T) \o Kept(w, T) BY <1>2, <2>1, KeptOfJoined
    <2> QED BY <1>8, <2>2 DEF w
  <1>b. LinesOf(Kept(f[i], T)) = LinesOf(Kept(u, T)) \o (LinesOf(Kept(h, T)) \o LinesOf(Kept(o, T)))
    <2> DEFINE A == Kept(u, T)
               B == Kept(h, T)
               C == Kept(o, T)
    <2> HIDE DEF A, B, C
    <2>1. A \in Seq(RowType) /\ B \in Seq(RowType) /\ C \in Seq(RowType) BY <1>9 DEF A, B, C
    <2>2. LinesOf(B \o C) = LinesOf(B) \o LinesOf(C) /\ B \o C \in Seq(RowType)
      BY <2>1, LinesOfJoined, ConcatProperties
    <2>3. LinesOf(A \o (B \o C)) = LinesOf(A) \o LinesOf(B \o C) BY <2>1, <2>2, LinesOfJoined
    <2>4. Kept(f[i], T) = A \o (B \o C) BY <1>2, <1>3, <1>a DEF A, B, C
    <2> QED BY <2>2, <2>3, <2>4 DEF A, B, C
  <1>c. LinesOf(Kept(h, T)) = <<>>
    BY KeptButtons
  <1> DEFINE K == LinesOf(Kept(u, T))
  <1>d. K \in Lines
    BY <1>9, LinesOfIs
  <1>e. K = LinesLeft(lines, T, i - 1) /\ LinesOf(Kept(f[i], T)) = LinesLeft(lines, T, i)
    BY DEF LinesLeft, u, f
  <1> HIDE DEF K
  <1>f. CASE r \in T
    <2>1. LinesOf(Kept(o, T)) = x BY <1>6, <1>f
    <2>2. <<>> \o x = x
      <3>1. x \in Lines BY <1>6, LinesOfIs
      <3> QED BY <3>1, ConcatEmptySeq DEF Lines
    <2> QED BY <1>b, <1>c, <1>d, <1>e, <1>f, <2>1, <2>2 DEF x, K
  <1>g. CASE r \notin T
    <2>1. LinesOf(Kept(o, T)) = <<>> BY <1>6, <1>g, LinesOfNone
    <2>2. K \o (<<>> \o <<>>) = K
      <3>1. <<>> \o <<>> = <<>> /\ K \o <<>> = K
        <4>1. <<>> \in Seq(Line) BY EmptySeq
        <4> QED BY <1>d, <4>1, ConcatEmptySeq DEF Lines
      <3> QED BY <3>1
    <2> QED BY <1>b, <1>c, <1>d, <1>e, <1>g, <2>1, <2>2 DEF K
  <1> QED BY <1>f, <1>g

\* A stretch of the text whose rows are all in the set, or all outside.
LEMMA Span ==
  ASSUME NEW lines \in Lines, NEW T, NEW all \in BOOLEAN,
         NEW p \in 0 .. Len(lines), NEW q \in p .. Len(lines),
         \A i \in p + 1 .. q : LineRow(lines, i) \in T <=> all
  PROVE  /\ LinesLeft(lines, T, p) \in Lines
         /\ LinesLeft(lines, T, q)
              = LinesLeft(lines, T, p) \o (IF all THEN SubSeq(lines, p + 1, q) ELSE <<>>)
  <1> DEFINE n == Len(lines)
             K(m) == LinesLeft(lines, T, m)
             Part(m) == IF all THEN SubSeq(lines, p + 1, m) ELSE <<>>
             Good == {m \in Nat : p + m <= q => K(p + m) = K(p) \o Part(p + m)}
  <1>0. n \in Nat /\ p \in Nat /\ q \in Nat /\ p <= q /\ q <= n
    BY LenProperties DEF Lines
  <1>1. \A m \in 0 .. n : K(m) \in Lines
    <2> TAKE m \in 0 .. n
    <2>1. Builds(lines)[m] \in Seq(RowType) BY BuildsIs
    <2>2. Kept(Builds(lines)[m], T) \in Seq(RowType) BY <2>1, KeptType
    <2> QED BY <2>2, LinesOfIs DEF LinesLeft
  <1>2. \A m \in 1 .. n : K(m) = IF LineRow(lines, m) \in T THEN K(m - 1) \o << lines[m] >> ELSE K(m - 1)
    BY LinesLeftNext
  <1>3. \A m \in 0 .. n : K(m) \o <<>> = K(m)
    <2> HIDE DEF K
    <2> QED BY <1>1, ConcatEmptySeq DEF Lines
  <1> HIDE DEF K, n, Part
  <1>4. 0 \in Good
    <2>1. SubSeq(lines, p + 1, p) = <<>> BY <1>0, SubSeqEmpty
    <2>2. Part(p) = <<>> BY <2>1 DEF Part
    <2>3. p + 0 = p /\ K(p) \o <<>> = K(p) BY <1>0, <1>3
    <2> QED BY <2>2, <2>3
  <1>5. ASSUME NEW m \in Nat, m \in Good PROVE m + 1 \in Good
    <2> DEFINE k == p + (m + 1)
    <2> SUFFICES ASSUME k <= q PROVE K(k) = K(p) \o Part(k)
      OBVIOUS
    <2>1. k \in 1 .. n /\ k - 1 = p + m /\ k \in p + 1 .. q /\ p + m <= q /\ p + 1 \in 1 .. n BY <1>0
    <2> HIDE DEF k
    <2>2. K(k - 1) = K(p) \o Part(k - 1) BY <1>5, <2>1
    <2>3. LineRow(lines, k) \in T <=> all BY <2>1
    <2>4. CASE all
      <3>1. K(k) = K(k - 1) \o << lines[k] >> BY <1>2, <2>1, <2>3, <2>4
      <3>2. SubSeq(lines, p + 1, k) = SubSeq(lines, p + 1, k - 1) \o << lines[k] >>
        <4>1. p + 1 \in 1 .. Len(lines) /\ k \in p + 1 .. Len(lines) BY <1>0, <2>1 DEF n
        <4> QED BY <4>1, SubSeqRecursiveSecond DEF Lines
      <3> DEFINE A == K(p)
                 B == SubSeq(lines, p + 1, k - 1)
                 C == << lines[k] >>
      <3>3. A \in Seq(Line) /\ B \in Seq(Line) /\ C \in Seq(Line)
        <4>1. A \in Seq(Line) BY <1>0, <1>1 DEF Lines
        <4>2. p + 1 \in Int /\ k - 1 \in Int /\ 1 <= p + 1 /\ k - 1 <= Len(lines) BY <1>0, <2>1 DEF n
        <4>3. B \in Seq(Line) BY <4>2, PartType DEF Lines
        <4>4. lines[k] \in Line BY <2>1, ElementOfSeq DEF Lines, n
        <4> QED BY <4>1, <4>3, <4>4, OneIsSeq
      <3>4. K(k) = (A \o B) \o C BY <2>2, <2>4, <3>1 DEF Part
      <3> HIDE DEF A, B, C
      <3>5. (A \o B) \o C = A \o (B \o C) BY <3>3, ConcatAssociative
      <3> QED BY <2>4, <3>2, <3>4, <3>5 DEF A, B, C, Part
    <2>5. CASE ~all
      BY <1>2, <2>1, <2>2, <2>3, <2>5 DEF Part
    <2> QED BY <2>4, <2>5
  <1>6. q - p \in Good
    <2> HIDE DEF Good
    <2>1. Nat \subseteq Good BY <1>4, <1>5, Induction
    <2>2. q - p \in Nat BY <1>0
    <2> QED BY <2>1, <2>2
  <1>7. p + (q - p) = q
    BY <1>0
  <1>8. K(q) = K(p) \o Part(q)
    <2> DEFINE m == q - p
    <2>1. m \in Good /\ p + m = q BY <1>6, <1>7
    <2> HIDE DEF m
    <2> QED BY <1>0, <2>1
  <1>9. K(p) \in Lines
    BY <1>0, <1>1
  <1> QED BY <1>8, <1>9 DEF K, Part

Chosen(c, lines) == IF c THEN lines ELSE <<>>

\* The text without the markers of the block b, with its sides in S, and the
\* rest of it or not.
Remains(lines, b, S, out) ==
  ((Chosen(out, SubSeq(lines, 1, b.start - 1))
      \o Chosen("ours" \in S, Ours(lines, b)))
      \o Chosen("theirs" \in S, Theirs(lines, b)))
      \o Chosen(out, SubSeq(lines, b.end + 1, Len(lines)))

\* The lines left of a text when, outside the block b, all rows or none are in
\* the set, and in it, the sides in S are.
LEMMA RemainsOfText ==
  ASSUME NEW lines \in Lines, NEW b \in Range(ParseConflictBlocks(lines)), NEW T,
         NEW S \in SUBSET {"ours", "theirs"}, NEW out \in BOOLEAN,
         \A r \in Lined : r \in T <=> IF r.block = b.index THEN r.role \in S ELSE out
  PROVE  LinesLeft(lines, T, Len(lines)) = Remains(lines, b, S, out)
  <1> DEFINE n == Len(lines)
             i == b.start
             j == b.middle
             k == b.end
             K(m) == LinesLeft(lines, T, m)
  <1>1. /\ n \in Nat /\ i \in Nat /\ j \in Nat /\ k \in Nat /\ 1 <= i /\ i < j /\ j < k /\ k <= n
    <2>1. b \in Block /\ 1 <= b.start /\ b.start < b.middle /\ b.middle < b.end /\ b.end <= Len(lines)
      BY BlocksApart
    <2> QED BY <2>1, LenProperties DEF Block, Lines
  <1>2. ASSUME NEW m \in 1 .. n
        PROVE  LineRow(lines, m) \in T <=>
                 IF m \in i .. k THEN RoleAt(b, m) \in S ELSE out
    <2>1. LineRow(lines, m) \in Lined
          /\ (m \notin i .. k => LineRow(lines, m).block # b.index)
          /\ (m \in i .. k => LineRow(lines, m).block = b.index /\ LineRow(lines, m).role = RoleAt(b, m))
      BY LineRowIs
    <2> QED BY <2>1
  <1>3. /\ \A m \in i .. i : RoleAt(b, m) \notin S
        /\ \A m \in i + 1 .. j - 1 : RoleAt(b, m) = "ours"
        /\ \A m \in j .. j : RoleAt(b, m) \notin S
        /\ \A m \in j + 1 .. k - 1 : RoleAt(b, m) = "theirs"
        /\ \A m \in k .. k : RoleAt(b, m) \notin S
    <2>1. /\ RoleAt(b, i) = "marker-start" /\ RoleAt(b, j) = "separator" /\ RoleAt(b, k) = "marker-end"
      BY <1>1 DEF RoleAt
    <2>2. /\ \A m \in i .. i : m = i
          /\ \A m \in j .. j : m = j
          /\ \A m \in k .. k : m = k
      BY <1>1
    <2>3. \A m \in i + 1 .. j - 1 : RoleAt(b, m) = "ours"
      BY <1>1 DEF RoleAt
    <2>4. \A m \in j + 1 .. k - 1 : RoleAt(b, m) = "theirs"
      BY <1>1 DEF RoleAt
    <2>5. {"marker-start", "separator", "marker-end"} \cap S = {}
      OBVIOUS
    <2> HIDE DEF i, j, k
    <2> QED BY <2>1, <2>2, <2>3, <2>4, <2>5
  <1> DEFINE o == "ours" \in S
             t == "theirs" \in S
  <1>4. /\ \A m \in 0 + 1 .. i - 1 : LineRow(lines, m) \in T <=> out
        /\ \A m \in (i - 1) + 1 .. i : LineRow(lines, m) \in T <=> FALSE
        /\ \A m \in i + 1 .. j - 1 : LineRow(lines, m) \in T <=> o
        /\ \A m \in (j - 1) + 1 .. j : LineRow(lines, m) \in T <=> FALSE
        /\ \A m \in j + 1 .. k - 1 : LineRow(lines, m) \in T <=> t
        /\ \A m \in (k - 1) + 1 .. k : LineRow(lines, m) \in T <=> FALSE
        /\ \A m \in k + 1 .. n : LineRow(lines, m) \in T <=> out
    <2>1. /\ \A m \in 0 + 1 .. i - 1 : m \in 1 .. n /\ m \notin i .. k
          /\ \A m \in (i - 1) + 1 .. i : m \in 1 .. n /\ m \in i .. k /\ m \in i .. i
          /\ \A m \in i + 1 .. j - 1 : m \in 1 .. n /\ m \in i .. k
          /\ \A m \in (j - 1) + 1 .. j : m \in 1 .. n /\ m \in i .. k /\ m \in j .. j
          /\ \A m \in j + 1 .. k - 1 : m \in 1 .. n /\ m \in i .. k
          /\ \A m \in (k - 1) + 1 .. k : m \in 1 .. n /\ m \in i .. k /\ m \in k .. k
          /\ \A m \in k + 1 .. n : m \in 1 .. n /\ m \notin i .. k
      BY <1>1
    <2> HIDE DEF i, j, k, n
    <2> QED BY <1>2, <1>3, <2>1
  <1>5. /\ 0 \in 0 .. n /\ i - 1 \in 0 .. n /\ i \in i - 1 .. n
        /\ i \in 0 .. n /\ j - 1 \in i .. n
        /\ j - 1 \in 0 .. n /\ j \in j - 1 .. n
        /\ j \in 0 .. n /\ k - 1 \in j .. n
        /\ k - 1 \in 0 .. n /\ k \in k - 1 .. n
        /\ k \in 0 .. n /\ n \in k .. n
    BY <1>1
  <1> DEFINE Flat(p, q, c) == \A m \in p + 1 .. q : LineRow(lines, m) \in T <=> c
  <1>S. ASSUME NEW p \in 0 .. n, NEW q \in p .. n, NEW c \in BOOLEAN, Flat(p, q, c)
        PROVE  K(p) \in Lines /\ K(q) = K(p) \o Chosen(c, SubSeq(lines, p + 1, q))
    BY <1>S, Span DEF Chosen
  <1>F. /\ Flat(0, i - 1, out) /\ Flat(i - 1, i, FALSE) /\ Flat(i, j - 1, o) /\ Flat(j - 1, j, FALSE)
        /\ Flat(j, k - 1, t) /\ Flat(k - 1, k, FALSE) /\ Flat(k, n, out)
    BY <1>4
  <1>6. K(0) = <<>>
    BY BuildsIs, KeptOfNone, LinesOfNone DEF LinesLeft
  <1>D. ASSUME NEW p \in 0 .. n, NEW q \in p .. n, Flat(p, q, FALSE) PROVE K(q) = K(p)
    <2> DEFINE c == FALSE
    <2>1. c \in BOOLEAN /\ Flat(p, q, c) /\ \A L : Chosen(c, L) = <<>> BY <1>D DEF Chosen
    <2> HIDE DEF c, Flat, K, n, Chosen
    <2>2. K(p) \in Lines /\ K(q) = K(p) \o Chosen(c, SubSeq(lines, p + 1, q)) BY <1>S, <2>1
    <2>3. K(p) \o <<>> = K(p) BY <2>2, ConcatEmptySeq DEF Lines
    <2> QED BY <2>1, <2>2, <2>3
  <1> DEFINE A == SubSeq(lines, 1, i - 1)
             X == SubSeq(lines, i + 1, j - 1)
             Y == SubSeq(lines, j + 1, k - 1)
             Z == SubSeq(lines, k + 1, n)
  <1>8. A \in Lines /\ Chosen(out, A) \in Lines /\ <<>> \o Chosen(out, A) = Chosen(out, A)
    <2>1. A \in Lines BY BlockParts
    <2> HIDE DEF A
    <2>2. Chosen(out, A) \in Lines BY <2>1, EmptySeq DEF Chosen, Lines
    <2> QED BY <2>1, <2>2, ConcatEmptySeq DEF Lines
  <1>B. o \in BOOLEAN /\ t \in BOOLEAN
    OBVIOUS
  <1> HIDE DEF i, j, k, n, K, o, t, Flat, Chosen
  <1>9. K(i - 1) = Chosen(out, A)
    <2>1. 0 + 1 = 1 OBVIOUS
    <2>2. K(i - 1) = K(0) \o Chosen(out, SubSeq(lines, 0 + 1, i - 1))
      BY <1>5, <1>B, <1>F, <1>S
    <2> QED BY <1>6, <1>8, <2>1, <2>2 DEF A
  <1>10. K(i) = K(i - 1)
    BY <1>5, <1>F, <1>D
  <1>11. K(j - 1) = K(i) \o Chosen(o, X)
    BY <1>5, <1>B, <1>F, <1>S DEF X
  <1>12. K(j) = K(j - 1)
    BY <1>5, <1>F, <1>D
  <1>13. K(k - 1) = K(j) \o Chosen(t, Y)
    BY <1>5, <1>B, <1>F, <1>S DEF Y
  <1>14. K(k) = K(k - 1)
    BY <1>5, <1>F, <1>D
  <1>15. K(n) = K(k) \o Chosen(out, Z)
    BY <1>5, <1>B, <1>F, <1>S DEF Z
  <1>16. Ours(lines, b) = X /\ Theirs(lines, b) = Y
    BY DEF Ours, Theirs, X, Y, i, j, k
  <1> HIDE DEF A, X, Y, Z
  <1>17. K(n) = ((Chosen(out, A) \o Chosen(o, X)) \o Chosen(t, Y)) \o Chosen(out, Z)
    BY <1>9, <1>10, <1>11, <1>12, <1>13, <1>14, <1>15
  <1>18. K(n) = LinesLeft(lines, T, Len(lines)) /\ A = SubSeq(lines, 1, b.start - 1)
         /\ Z = SubSeq(lines, b.end + 1, Len(lines)) /\ o = ("ours" \in S) /\ t = ("theirs" \in S)
    BY DEF K, n, A, Z, i, k, o, t
  <1> HIDE DEF Chosen
  <1>19. Remains(lines, b, S, out) = ((Chosen(out, A) \o Chosen(o, X)) \o Chosen(t, Y)) \o Chosen(out, Z)
    BY <1>16, <1>18 DEF Remains
  <1> QED BY <1>17, <1>18, <1>19

-----------------------------------------------------------------------------
(* The choice of a side. *)

LEMMA RowsLeft ==
  ASSUME NEW lines \in Lines, NEW T, NEW U, \A r \in Range(Rows(lines)) : r \in T <=> r \in U
  PROVE  /\ Rows(lines) \in Seq(RowType) /\ Kept(Rows(lines), T) \in Seq(RowType)
         /\ LinesOf(Kept(Rows(lines), T)) = LinesLeft(lines, U, Len(lines))
  <1> DEFINE R == Rows(lines)
  <1>1. R \in Seq(RowType)
    BY RowsAreLines
  <1>2. R = Builds(lines)[Len(lines)]
    BY BuildsIs
  <1> HIDE DEF R
  <1>3. R \in Seq(Range(R))
    BY <1>1, SeqOfRange
  <1>4. Kept(R, T) = Kept(R, U)
    BY <1>3, KeptSame DEF R
  <1>5. Kept(R, T) \in Seq(RowType)
    BY <1>1, KeptType
  <1>6. LinesLeft(lines, U, Len(lines)) = LinesOf(Kept(R, U))
    BY <1>2 DEF LinesLeft
  <1> QED BY <1>1, <1>4, <1>5, <1>6 DEF R

Sides == {"ours", "theirs"}

SideOf(lines, b, role) == IF role = "ours" THEN Ours(lines, b) ELSE Theirs(lines, b)

OfSide(rows, role, number) == {r \in Range(rows) : r.role = role /\ r.block = number}

\* The rows of a side of a block are its lines.
LEMMA SideOfRows ==
  ASSUME NEW lines \in Lines, NEW b \in Range(ParseConflictBlocks(lines)), NEW role \in Sides
  PROVE  LET K == Kept(Rows(lines), OfSide(Rows(lines), role, b.index)) IN
         K \in Seq(RowType) /\ Texts(K) = SideOf(lines, b, role)
  <1> DEFINE R == Rows(lines)
             U == OfSide(R, role, b.index)
             T == {r \in RowType : r.role = role /\ r.block = b.index}
             K == Kept(R, U)
             S == {role}
             X == Ours(lines, b)
             Y == Theirs(lines, b)
             A == SubSeq(lines, 1, b.start - 1)
             Z == SubSeq(lines, b.end + 1, Len(lines))
  <1>1. R \in Seq(RowType) /\ \A r \in Range(R) : r \in RowType
    <2>1. R \in Seq(RowType) BY RowsAreLines
    <2> HIDE DEF R
    <2> QED BY <2>1, RangeOfSeq
  <1>2. \A r \in Range(R) : r \in U <=> r \in T
    BY <1>1 DEF OfSide
  <1> HIDE DEF U, T
  <1>3. K \in Seq(RowType) /\ LinesOf(K) = LinesLeft(lines, T, Len(lines))
    BY <1>2, RowsLeft
  <1>4. \A r \in Lined : r \in T <=> IF r.block = b.index THEN r.role \in S ELSE FALSE
    BY DEF T, Lined
  <1>5. LinesLeft(lines, T, Len(lines)) = Remains(lines, b, S, FALSE)
    <2> DEFINE out == FALSE
    <2>1. out \in BOOLEAN /\ S \in SUBSET {"ours", "theirs"} BY DEF Sides
    <2>2. \A r \in Lined : r \in T <=> IF r.block = b.index THEN r.role \in S ELSE out BY <1>4
    <2> HIDE DEF out, S
    <2>3. LinesLeft(lines, T, Len(lines)) = Remains(lines, b, S, out) BY <2>1, <2>2, RemainsOfText
    <2> QED BY <2>3 DEF out
  <1>6. X \in Lines /\ Y \in Lines /\ <<>> \in Lines
    BY BlockParts, EmptySeq DEF Lines
  <1>7. Remains(lines, b, S, FALSE) = SideOf(lines, b, role)
    <2>1. Remains(lines, b, S, FALSE)
            = ((<<>> \o Chosen("ours" \in S, X)) \o Chosen("theirs" \in S, Y)) \o <<>>
      BY DEF Remains, Chosen
    <2>2. \A L \in Lines : <<>> \o L = L /\ L \o <<>> = L BY ConcatEmptySeq DEF Lines
    <2>3. CASE role = "ours"
      <3>1. Chosen("ours" \in S, X) = X /\ Chosen("theirs" \in S, Y) = <<>> /\ SideOf(lines, b, role) = X
        BY <2>3 DEF Chosen, SideOf
      <3> HIDE DEF X, Y, S
      <3> QED BY <1>6, <2>1, <2>2, <3>1
    <2>4. CASE role = "theirs"
      <3>1. Chosen("ours" \in S, X) = <<>> /\ Chosen("theirs" \in S, Y) = Y /\ SideOf(lines, b, role) = Y
        BY <2>4 DEF Chosen, SideOf
      <3> HIDE DEF X, Y, S
      <3>2. <<>> \o <<>> = <<>> BY <1>6, <2>2
      <3> QED BY <1>6, <2>1, <2>2, <3>1, <3>2
    <2> QED BY <2>3, <2>4 DEF Sides
  <1>8. LinesOf(K) = Texts(K)
    <2>1. \A x : x \in Range(K) => x \in U BY <1>1, KeptRange
    <2>2. \A x \in Range(K) : x \in Lined
      <3>1. \A x \in U : x \in Range(R) /\ x.role = role BY DEF U, OfSide
      <3> HIDE DEF K, R
      <3> QED BY <1>1, <2>1, <3>1 DEF Lined, Sides
    <2> HIDE DEF K
    <2>3. K \in Seq(Range(K)) /\ Range(K) \subseteq Lined BY <1>3, <2>2, SeqOfRange
    <2>4. Kept(K, Lined) = K BY <2>3, KeptAll
    <2> QED BY <1>3, <2>4, LinesOfIs
  <1> QED BY <1>3, <1>5, <1>7, <1>8 DEF U

LEMMA LoneBlankIs ==
  ASSUME NEW lines \in Lines, displayModel = Rows(lines), NEW b \in Range(ParseConflictBlocks(lines)),
         NEW r \in Range(displayModel), r.block = b.index, r.role \in Sides
  PROVE  LoneBlank(r) <=> SideOf(lines, b, r.role) = << <<>> >>
  <1> DEFINE U == OfSide(displayModel, r.role, b.index)
             K == Kept(displayModel, U)
             s == SideOf(lines, b, r.role)
  <1>1. K \in Seq(RowType) /\ Texts(K) = s
    BY SideOfRows
  <1>2. LoneBlank(r) <=> r.text = <<>> /\ K = <<r>>
    BY DEF LoneBlank, OfSide
  <1>3. displayModel \in Seq(RowType)
    BY RowsAreLines
  <1>4. r \in U /\ r \in RowType
    BY <1>3, RangeOfSeq DEF OfSide
  <1>5. r \in Range(K)
    <2>1. \E i \in 1 .. Len(displayModel) : displayModel[i] = r
      BY <1>3, RangeEquality
    <2> HIDE DEF U
    <2> QED BY <1>3, <1>4, <2>1, KeptRange
  <1> HIDE DEF K, s
  <1>6. s \in Lines /\ Len(s) = Len(K) /\ \A i \in 1 .. Len(K) : s[i] = K[i].text
    BY <1>1, TextsIs
  <1> DEFINE o == <<r>>
             z == << <<>> >>
  <1>7. /\ o \in Seq(RowType) /\ Len(o) = 1 /\ o[1] = r
        /\ z \in Seq(Line) /\ Len(z) = 1 /\ z[1] = <<>>
    <2>1. <<>> \in Line BY EmptySeq DEF Line
    <2> QED BY <1>4, <2>1, OneIsSeq
  <1> HIDE DEF o, z
  <1>8. ASSUME r.text = <<>>, K = o PROVE s = z
    <2>1. Len(s) = 1 /\ \A i \in 1 .. Len(s) : i = 1 /\ s[i] = z[i]
      <3>1. Len(K) = 1 /\ K[1] = r BY <1>7, <1>8
      <3>2. 1 \in 1 .. Len(K) BY <3>1
      <3>3. s[1] = K[1].text /\ Len(s) = 1 BY <1>6, <3>1, <3>2
      <3> QED BY <1>7, <1>8, <3>1, <3>3
    <2> QED BY <1>6, <1>7, <2>1, SeqEqual DEF Lines
  <1>9. ASSUME s = z PROVE r.text = <<>> /\ K = o
    <2>1. Len(K) = 1 /\ K[1].text = <<>>
      <3>1. Len(K) = 1 BY <1>6, <1>7, <1>9
      <3> QED BY <1>6, <1>7, <1>9, <3>1
    <2>2. K[1] = r
      <3>1. \E i \in 1 .. Len(K) : K[i] = r BY <1>1, <1>5, RangeEquality
      <3> QED BY <2>1, <3>1
    <2>3. Len(K) = Len(o) /\ \A i \in 1 .. Len(K) : K[i] = o[i]
      BY <1>7, <2>1, <2>2
    <2>4. K = o BY <1>1, <1>7, <2>3, SeqEqual
    <2> QED BY <2>1, <2>2, <2>4
  <1> QED BY <1>2, <1>8, <1>9 DEF o, z, s

LEMMA AcceptedSides ==
  ASSUME NEW lines \in Lines, displayModel = Rows(lines), NEW b \in Range(ParseConflictBlocks(lines)),
         NEW mode \in Modes
  PROVE  Accepted(b.index, mode) = ReplaceBlock(lines, b, mode)
  <1> DEFINE sides == IF mode = "both" THEN {"ours", "theirs"} ELSE {mode}
             S == {role \in sides : SideOf(lines, b, role) # << <<>> >>}
             T == {r \in Range(displayModel) : r.block = b.index => r.role \in sides /\ ~LoneBlank(r)}
             U == {r \in RowType : r.block = b.index => r.role \in S}
             X == Ours(lines, b)
             Y == Theirs(lines, b)
             A == SubSeq(lines, 1, b.start - 1)
             Z == SubSeq(lines, b.end + 1, Len(lines))
             x == Chosen("ours" \in S, X)
             y == Chosen("theirs" \in S, Y)
  <1>1. sides \in SUBSET Sides /\ S \in SUBSET {"ours", "theirs"}
    BY DEF Modes, Sides
  <1>2. displayModel \in Seq(RowType) /\ \A r \in Range(displayModel) : r \in RowType
    <2>1. displayModel \in Seq(RowType) BY RowsAreLines
    <2> QED BY <2>1, RangeOfSeq
  <1>3. \A r \in Range(displayModel) : r \in T <=> r \in U
    <2> TAKE r \in Range(displayModel)
    <2>1. r.block = b.index /\ r.role \in Sides => (LoneBlank(r) <=> SideOf(lines, b, r.role) = << <<>> >>)
      BY LoneBlankIs
    <2>2. r \in T <=> (r.block = b.index => r.role \in sides /\ ~LoneBlank(r)) OBVIOUS
    <2>3. r \in U <=> (r.block = b.index => r.role \in sides /\ SideOf(lines, b, r.role) # << <<>> >>)
      BY <1>2
    <2> HIDE DEF sides, T, U
    <2> QED BY <1>1, <2>1, <2>2, <2>3
  <1>4. Accepted(b.index, mode) = Text(LinesOf(Kept(displayModel, T)))
    BY DEF Accepted, BuildFullContent
  <1> HIDE DEF T
  <1>5. LinesOf(Kept(displayModel, T)) = LinesLeft(lines, U, Len(lines))
    <2> HIDE DEF U
    <2> QED BY <1>3, RowsLeft
  <1>6. LinesLeft(lines, U, Len(lines)) = Remains(lines, b, S, TRUE)
    <2> DEFINE out == TRUE
    <2>1. out \in BOOLEAN OBVIOUS
    <2>2. \A r \in Lined : r \in U <=> IF r.block = b.index THEN r.role \in S ELSE out BY DEF Lined
    <2> HIDE DEF out, S, U
    <2>3. LinesLeft(lines, U, Len(lines)) = Remains(lines, b, S, out) BY <1>1, <2>1, <2>2, RemainsOfText
    <2> QED BY <2>3 DEF out
  <1>7. Remains(lines, b, S, TRUE) = ((A \o x) \o y) \o Z
    BY DEF Remains, Chosen
  <1>8. /\ x = (IF "ours" \in sides THEN Joined(X) ELSE <<>>)
        /\ y = (IF "theirs" \in sides THEN Joined(Y) ELSE <<>>)
    <2>1. SideOf(lines, b, "ours") = X /\ SideOf(lines, b, "theirs") = Y BY DEF SideOf
    <2>2. ("ours" \in S <=> "ours" \in sides /\ X # << <<>> >>)
          /\ ("theirs" \in S <=> "theirs" \in sides /\ Y # << <<>> >>)
      BY <2>1
    <2> HIDE DEF S, sides, X, Y
    <2> QED BY <2>2 DEF Chosen, Joined
  <1>9. x \in Lines /\ y \in Lines /\ A \in Lines
    <2>1. X \in Lines /\ Y \in Lines /\ A \in Lines /\ <<>> \in Lines BY BlockParts, EmptySeq DEF Lines
    <2> HIDE DEF X, Y, A, S
    <2> QED BY <2>1 DEF Chosen
  <1>10. Replacement(lines, b, mode) = x \o y
    <2>1. \A L \in Lines : <<>> \o L = L /\ L \o <<>> = L BY ConcatEmptySeq DEF Lines
    <2>2. CASE mode = "ours"
      <3>1. x = Joined(X) /\ y = <<>> BY <1>8, <2>2
      <3>2. Replacement(lines, b, mode) = Joined(X) BY <2>2 DEF Replacement
      <3> HIDE DEF x, y, X, Y
      <3> QED BY <1>9, <2>1, <3>1, <3>2
    <2>3. CASE mode = "theirs"
      <3>1. x = <<>> /\ y = Joined(Y) BY <1>8, <2>3
      <3>2. Replacement(lines, b, mode) = Joined(Y) BY <2>3 DEF Replacement
      <3> HIDE DEF x, y, X, Y
      <3> QED BY <1>9, <2>1, <3>1, <3>2
    <2>4. CASE mode = "both"
      <3>1. x = Joined(X) /\ y = Joined(Y) BY <1>8, <2>4
      <3>2. Replacement(lines, b, mode) = Joined(X) \o Joined(Y) BY <2>4 DEF Replacement
      <3> HIDE DEF x, y, X, Y
      <3> QED BY <3>1, <3>2
    <2> QED BY <2>2, <2>3, <2>4 DEF Modes
  <1> HIDE DEF x, y
  <1>11. (A \o x) \o y = A \o (x \o y)
    <2> HIDE DEF A
    <2> QED BY <1>9, ConcatAssociative DEF Lines
  <1>12. ReplaceBlock(lines, b, mode) = Text((A \o (x \o y)) \o Z)
    BY <1>10 DEF ReplaceBlock
  <1> HIDE DEF A, Z, S, U
  <1> QED BY <1>4, <1>5, <1>6, <1>7, <1>11, <1>12

\* No row of a text has the number of a block that is not there.
LEMMA NumbersAreBlocks ==
  ASSUME NEW lines \in Lines, NEW index \in Nat \ {0},
         \A b \in Range(ParseConflictBlocks(lines)) : b.index # index
  PROVE  \A i \in 1 .. Len(lines) : LineRow(lines, i).block # index
  <1> DEFINE bs == ParseConflictBlocks(lines)
  <1> TAKE i \in 1 .. Len(lines)
  <1> DEFINE B == BlockOf(bs, i)
             b == CHOOSE c \in B : TRUE
  <1>1. CASE B = {}
    BY <1>1 DEF LineRow, Row
  <1>2. CASE B # {}
    <2>1. b \in Range(bs) BY <1>2 DEF BlockOf
    <2>2. LineRow(lines, i).block = b.index BY <1>2 DEF LineRow, Row
    <2> QED BY <2>1, <2>2
  <1> QED BY <1>1, <1>2

LEMMA AcceptedNothing ==
  ASSUME NEW lines \in Lines, lines # <<>>, displayModel = Rows(lines),
         NEW index \in Nat \ {0}, NEW mode \in Modes,
         \A b \in Range(ParseConflictBlocks(lines)) : b.index # index
  PROVE  Accepted(index, mode) = lines
  <1> DEFINE sides == IF mode = "both" THEN {"ours", "theirs"} ELSE {mode}
             T == {r \in Range(displayModel) : r.block = index => r.role \in sides /\ ~LoneBlank(r)}
             U == {r \in RowType : r.block # index} \cup (T \cap RowType)
             n == Len(lines)
             all == TRUE
  <1>1. displayModel \in Seq(RowType) /\ \A r \in Range(displayModel) : r \in RowType
    <2>1. displayModel \in Seq(RowType) BY RowsAreLines
    <2> QED BY <2>1, RangeOfSeq
  <1>2. \A r \in Range(displayModel) : r \in T <=> r \in U
    BY <1>1
  <1>3. Accepted(index, mode) = Text(LinesOf(Kept(displayModel, T)))
    BY DEF Accepted, BuildFullContent
  <1>4. \A i \in 1 .. n : LineRow(lines, i) \in U
    <2> TAKE i \in 1 .. n
    <2>1. LineRow(lines, i) \in RowType BY LineRowIs DEF Lined
    <2>2. LineRow(lines, i).block # index BY NumbersAreBlocks
    <2> QED BY <2>1, <2>2
  <1> HIDE DEF T
  <1>5. LinesOf(Kept(displayModel, T)) = LinesLeft(lines, U, n)
    <2> HIDE DEF U
    <2> QED BY <1>2, RowsLeft
  <1> HIDE DEF U
  <1>6. LinesLeft(lines, U, n) = LinesLeft(lines, U, 0) \o SubSeq(lines, 0 + 1, n)
    <2>1. n \in Nat /\ 0 \in 0 .. n /\ n \in 0 .. n /\ all \in BOOLEAN BY LenProperties DEF Lines
    <2>2. \A i \in 0 + 1 .. n : LineRow(lines, i) \in U <=> all BY <1>4
    <2>3. (IF all THEN SubSeq(lines, 0 + 1, n) ELSE <<>>) = SubSeq(lines, 0 + 1, n) OBVIOUS
    <2> HIDE DEF all
    <2>4. LinesLeft(lines, U, n)
            = LinesLeft(lines, U, 0) \o (IF all THEN SubSeq(lines, 0 + 1, n) ELSE <<>>)
      BY <2>1, <2>2, Span
    <2> QED BY <2>3, <2>4
  <1>7. LinesLeft(lines, U, 0) = <<>>
    BY BuildsIs, KeptOfNone, LinesOfNone DEF LinesLeft
  <1>8. SubSeq(lines, 1, n) = lines /\ <<>> \o lines = lines
    BY SubSeqFull, ConcatEmptySeq DEF Lines
  <1>9. LinesLeft(lines, U, n) = lines
    <2>1. 0 + 1 = 1 OBVIOUS
    <2> HIDE DEF n
    <2> QED BY <1>6, <1>7, <1>8, <2>1
  <1> QED BY <1>3, <1>5, <1>9 DEF Text

\* Accepting a side writes the rows shown without the others of the block.
LEMMA AcceptIsAccepted ==
  ASSUME IInv, Faithful, NEW index \in Buttons, NEW mode \in Modes, AcceptBlock(index, mode, "written", "written"),
         selectedPath \notin marked
  PROVE  disk'[selectedPath] = Accepted(index, mode)
  <1> DEFINE lines  == BuildFullContent(displayModel)
             blocks == {b \in Range(ParseConflictBlocks(lines)) : b.index = index}
             b == CHOOSE b \in blocks : TRUE
  <1>1. open
    BY DEF AcceptBlock
  <1>2. displayModel # <<>>
    <2>1. Range(displayModel) # {} BY DEF Buttons
    <2> QED BY <2>1, NothingKept DEF Range
  <1>3. /\ selectedPath \in File /\ displayModel \in Seq(RowType)
        /\ disk \in [File -> Lines]
    BY <1>1, <1>2, SelectedIs DEF IInv, Types, WindowTypes, RepoTypes
  <1>4. displayModel = Rows(lines)
    <2>1. Tells(displayModel) BY <1>1, <1>3 DEF Faithful, IsHeld, Held
    <2> QED BY <1>3, <2>1, TellsIs
  <1>5. lines \in Lines /\ lines # <<>>
    BY <1>3, ContentType
  <1>9. IF blocks = {} THEN disk' = [disk EXCEPT ![selectedPath] = lines]
        ELSE disk' = [[disk EXCEPT ![selectedPath] = lines] EXCEPT ![selectedPath] = ReplaceBlock(lines, b, mode)]
    <2>1. Written(disk, selectedPath, lines, "written") = [disk EXCEPT ![selectedPath] = lines]
      BY DEF Written
    <2>2. Written(disk, selectedPath, lines, "written")[selectedPath] = lines
      BY <1>3, <2>1
    <2>3. \A d, x : Written(d, selectedPath, x, "written") = [d EXCEPT ![selectedPath] = x]
      BY DEF Written
    <2> DEFINE before == Written(disk, selectedPath, lines, "written")
               now    == before[selectedPath]
               found  == {c \in Range(ParseConflictBlocks(now)) : c.index = index}
    <2>4. IF found = {} THEN disk' = before
          ELSE disk' = Written(before, selectedPath, ReplaceBlock(now, CHOOSE c \in found : TRUE, mode), "written")
      BY DEF AcceptBlock
    <2>5. now = lines
      BY <2>2
    <2>6. before = [disk EXCEPT ![selectedPath] = lines]
      BY <2>1
    <2> DEFINE AfterBlock(c) == Written(before, selectedPath, ReplaceBlock(now, c, mode), "written")
    <2> HIDE DEF lines, before, now
    <2>7. found = blocks
      BY <2>5
    <2>8. IF blocks = {} THEN disk' = before ELSE disk' = AfterBlock(b)
      BY <2>4, <2>7
    <2>9. AfterBlock(b) = [before EXCEPT ![selectedPath] = ReplaceBlock(lines, b, mode)]
      <3> HIDE DEF b
      <3>1. AfterBlock(b) = [before EXCEPT ![selectedPath] = ReplaceBlock(now, b, mode)]
        BY <2>3
      <3> QED BY <3>1, <2>5
    <2> HIDE DEF AfterBlock, b, blocks
    <2> QED BY <2>6, <2>8, <2>9
  <1>6. index \in Nat \ {0}
    <2>1. PICK r \in Range(displayModel) : r.role = "button" /\ r.block = index BY DEF Buttons
    <2>2. r \in RowType BY <1>3, RangeOfSeq
    <2> QED BY <2>1, <2>2 DEF RowType
  <1> HIDE DEF lines
  <1>7. CASE blocks = {}
    <2>1. Accepted(index, mode) = lines BY <1>4, <1>5, <1>6, <1>7, AcceptedNothing
    <2> QED BY <1>3, <1>7, <1>9, <2>1
  <1>8. CASE blocks # {}
    <2>1. b \in Range(ParseConflictBlocks(lines)) /\ b.index = index BY <1>8
    <2> HIDE DEF b
    <2>2. Accepted(b.index, mode) = ReplaceBlock(lines, b, mode) BY <1>4, <1>5, <2>1, AcceptedSides
    <2> QED BY <1>3, <1>8, <1>9, <2>1, <2>2
  <1> QED BY <1>7, <1>8

\* RowsTellTheFile: the rows shown are those of the text they would be written
\* as, so that a button means to the parser the block that the user sees, and
\* the choice of a side leaves everything else (ConflictPopup.qml:457-493).
THEOREM RowsAlwaysTell == Spec => RowsTellTheFile
  <1>1. IInv /\ Faithful => DisplayIsFile
    BY FaithfulIsShown
  <1>2. (IInv /\ Faithful) /\ [Next]_vars =>
          [\A index \in Buttons, mode \in {"ours", "theirs", "both"} :
             AcceptBlock(index, mode, "written", "written") =>
               selectedPath \in marked \/ disk'[selectedPath] = Accepted(index, mode)]_vars
    BY AcceptIsAccepted DEF Modes
  <1> QED BY <1>1, <1>2, RowsStayFaithful, PTL DEF RowsTellTheFile, AcceptKeepsRest, Spec

===============================================================================
