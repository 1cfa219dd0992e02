--------------------------- MODULE CherryPickProofs ---------------------------
(***************************************************************************)
(* A sequence of picks stands where its commits say it stands, nothing of  *)
(* a commit that was not picked gets into the history, and an abort puts   *)
(* every branch back, for all branches, changes, overlaps and selections.  *)
(* The strengthening says what the index may hold of the sequence: nothing *)
(* when a round starts, and at a conflict the current commit alone, besides *)
(* the skipped commits that a failed reset has left there.                 *)
(***************************************************************************)
EXTENDS CherryPick, TLAPS

\* A commit holds of the picked ones what it says, or what could not be cleared.
Holds(c) == c.has \cap Change \subseteq c.says \cup stuck

\* A round starts in a sequence, with an index that has nothing of a commit but
\* what a failed reset has left.
Ready ==
  looping => /\ inProgress /\ idx \in 0 .. Len(pending)
             /\ git.staged \cap Change \subseteq stuck /\ (stuck = {} => ~git.unmerged)
             /\ result = "none"

\* What is staged of a commit has the state of the repository beside it.
Marked == git.staged \cap Change \subseteq stuck \/ git.op # "none"

\* At a conflict the current commit is staged or made, and no other is staged.
Staged ==
  inProgress /\ ~looping /\ prompt =>
    /\ stuck = {} => Current \in Tip(git).has \cup git.staged
    /\ git.staged \cap Change \subseteq {Current} \cup stuck

\* A sequence under way has moved the branch it started on, and no other.
OneBranch ==
  /\ \A b \in Branch : Holds(startTips[b])
  /\ inProgress /\ (looping \/ prompt) =>
       /\ startHead = startTips[git.head]
       /\ \A b \in Branch \ {git.head} : git.tips[b] = startTips[b]

\* The window that was aborted is closed.
Closed == prompt => result # "aborted"

IInv == /\ TypeOK /\ Positioned /\ Accounted /\ HistoryFollows /\ NothingLeaks
        /\ Ready /\ Marked /\ Staged /\ OneBranch /\ Closed

-----------------------------------------------------------------------------
(* What the calls into the repository leave. *)

LEMMA TipType ==
  ASSUME NEW g \in Repository
  PROVE  Tip(g) \in Commit /\ Tip(g) = g.tips[g.head] /\ g.head \in Branch
  BY DEF Repository, Tip

LEMMA MoveTipType ==
  ASSUME NEW g \in Repository, NEW c \in Commit
  PROVE  LET m == MoveTip(g, c)
         IN  /\ m \in Repository /\ m.head = g.head /\ Tip(m) = c
             /\ \A b \in Branch : m.tips[b] = IF b = g.head THEN c ELSE g.tips[b]
             /\ m.staged = g.staged /\ m.unmerged = g.unmerged /\ m.op = g.op
  BY DEF Repository, MoveTip, Tip

LEMMA CleanupType ==
  ASSUME NEW g \in Repository
  PROVE  LET s == StateCleanup(g)
         IN  /\ s \in Repository /\ s.head = g.head /\ s.tips = g.tips /\ Tip(s) = Tip(g)
             /\ s.staged = g.staged /\ s.unmerged = g.unmerged /\ s.op = "none"
  BY DEF Repository, StateCleanup, Tip

LEMMA StageType ==
  ASSUME NEW g \in Repository, NEW changes \in SUBSET Content, NEW conflicts \in BOOLEAN
  PROVE  LET s == Stage(g, changes, "cherrypick", conflicts)
         IN  /\ s \in Repository /\ s.head = g.head /\ s.tips = g.tips /\ Tip(s) = Tip(g)
             /\ s.staged = g.staged \cup (changes \ Tip(g).has)
             /\ s.unmerged = conflicts /\ s.op = "cherrypick"
  BY TipType DEF Repository, Stage, Tip, Commit

\* HEAD's branch moves to a commit that says more and holds the index.
LEMMA CommitIndexType ==
  ASSUME NEW g \in Repository, NEW says \in SUBSET Content
  PROVE  LET c == [says |-> Tip(g).says \cup says, has |-> Tip(g).has \cup g.staged]
             m == CommitIndex(g, says)
         IN  /\ m \in Repository /\ m.head = g.head /\ Tip(m) = c
             /\ \A b \in Branch : m.tips[b] = IF b = g.head THEN c ELSE g.tips[b]
             /\ m.staged = {} /\ m.unmerged = g.unmerged /\ m.op = g.op
<1> DEFINE c == [says |-> Tip(g).says \cup says, has |-> Tip(g).has \cup g.staged]
           m == MoveTip(g, c)
           n == [m EXCEPT !.staged = {}]
<1>1. c \in Commit
  BY TipType DEF Commit, Repository
<1>2. /\ m \in Repository /\ m.head = g.head /\ Tip(m) = c
      /\ \A b \in Branch : m.tips[b] = IF b = g.head THEN c ELSE g.tips[b]
      /\ m.unmerged = g.unmerged /\ m.op = g.op
  BY <1>1, MoveTipType
<1> HIDE DEF c, m
<1>3. CommitIndex(g, says) = n
  BY DEF CommitIndex, c, m
<1>4. /\ n \in Repository /\ n.head = m.head /\ Tip(n) = Tip(m) /\ n.tips = m.tips
      /\ n.staged = {} /\ n.unmerged = m.unmerged /\ n.op = m.op
  BY <1>2 DEF Repository, Tip
<1> QED BY <1>2, <1>3, <1>4 DEF c

LEMMA ResetHardType ==
  ASSUME NEW g \in Repository, NEW c \in Commit
  PROVE  LET r == ResetHard(g, c)
         IN  /\ r \in Repository /\ r.head = g.head /\ Tip(r) = c
             /\ \A b \in Branch : r.tips[b] = IF b = g.head THEN c ELSE g.tips[b]
             /\ r.staged = {} /\ ~r.unmerged /\ r.op = "none"
<1> DEFINE m == MoveTip(g, c)
<1>1. /\ m \in Repository /\ m.head = g.head /\ Tip(m) = c
      /\ \A b \in Branch : m.tips[b] = IF b = g.head THEN c ELSE g.tips[b]
  BY MoveTipType
<1> HIDE DEF m
<1>2. ResetHard(g, c)
        = [m EXCEPT !.staged = {}, !.edits = {}, !.unmerged = FALSE, !.op = "none"]
  BY DEF ResetHard, m
<1> QED BY <1>1, <1>2 DEF Repository, Tip

\* What the user does besides committing keeps every branch.
LEMMA UserTypes ==
  ASSUME NEW g \in Repository, NEW x \in Local
  PROVE  \A h \in {Edited(g, x), EditStaged(g, x)} :
           /\ h \in Repository /\ h.tips = g.tips /\ h.head = g.head /\ Tip(h) = Tip(g)
           /\ h.op = g.op /\ h.unmerged = g.unmerged
           /\ h.staged \cap Change = g.staged \cap Change
<1> DEFINE Left(h) ==
      /\ h \in Repository /\ h.tips = g.tips /\ h.head = g.head /\ Tip(h) = Tip(g)
      /\ h.op = g.op /\ h.unmerged = g.unmerged
      /\ h.staged \cap Change = g.staged \cap Change
<1>1. x \in Content /\ x \notin Change
  BY ContentsAssumption DEF Content
<1>2. Left(Edited(g, x))
  BY DEF Repository, Edited, Tip
<1>3. Left(EditStaged(g, x))
  <2>1. EditStaged(g, x) \in Repository /\ EditStaged(g, x).staged = g.staged \cup {x}
    BY <1>1 DEF Repository, EditStaged
  <2>2. (g.staged \cup {x}) \cap Change = g.staged \cap Change
    BY <1>1
  <2> QED BY <2>1, <2>2 DEF Repository, EditStaged, Tip
<1> QED BY <1>2, <1>3

LEMMA ResolvedType ==
  ASSUME NEW g \in Repository
  PROVE  LET h == Resolved(g)
         IN  /\ h \in Repository /\ h.tips = g.tips /\ h.head = g.head /\ Tip(h) = Tip(g)
             /\ h.op = g.op /\ h.staged = g.staged /\ ~h.unmerged
  BY DEF Repository, Resolved, Tip

LEMMA CheckedOutType ==
  ASSUME NEW g \in Repository, NEW b \in Branch
  PROVE  LET h == CheckedOut(g, b)
         IN  /\ h \in Repository /\ h.tips = g.tips /\ h.op = g.op
             /\ h.unmerged = g.unmerged /\ h.staged \subseteq g.staged
  BY DEF Repository, CheckedOut

-----------------------------------------------------------------------------
(* Every step preserves the invariant. *)

LEMMA InitInv == Init => IInv
<1> SUFFICES ASSUME Init PROVE IInv
  OBVIOUS
<1>1. /\ git \in Repository /\ git.staged \subseteq Local
      /\ \A b \in Branch : Holds(git.tips[b])
  BY SelectionAssumption DEF Init, Clean, Holds
<1>2. NoCommit \in Commit /\ <<>> \in Seq(Change) /\ Len(<<>>) = 0 /\ git.tips \in [Branch -> Commit]
  BY <1>1 DEF NoCommit, Commit, Repository
<1>3. TypeOK
  <2>1. idx \in -1 .. Len(pending) /\ pending \in Seq(Change)
    BY <1>2 DEF Init
  <2> QED BY <1>1, <1>2, <2>1 DEF Init, TypeOK
<1>4. Marked
  BY <1>1, ContentsAssumption DEF Marked, Init
<1>5. NothingLeaks /\ OneBranch
  BY <1>1 DEF Init, NothingLeaks, OneBranch, Holds
<1>6. Positioned /\ Accounted /\ HistoryFollows /\ Ready /\ Staged /\ Closed
  BY DEF Init, Positioned, Accounted, HistoryFollows, Ready, Staged, Closed
<1> QED BY <1>3, <1>4, <1>5, <1>6 DEF IInv

\* A step that ends the sequence need only leave a repository without a leak.
LEMMA EndStep ==
  ASSUME IInv, ClearState, git' \in Repository, Marked', NothingLeaks',
         looping' = FALSE, prompt' \in BOOLEAN,
         result' \in {"completed", "failed", "aborted", "none"},
         prompt' => result' # "aborted"
  PROVE  IInv'
<1>1. NoCommit \in Commit /\ <<>> \in Seq(Change) /\ Len(<<>>) = 0
  BY DEF NoCommit, Commit
<1>2. TypeOK'
  <2>1. (idx \in -1 .. Len(pending) /\ pending \in Seq(Change))'
    BY <1>1 DEF ClearState
  <2>2. inProgress' \in BOOLEAN /\ hasConflicts' \in BOOLEAN /\ startHead' \in Commit
    BY <1>1 DEF ClearState
  <2> QED BY <2>1, <2>2 DEF IInv, TypeOK, ClearState, history
<1>3. OneBranch'
  BY DEF ClearState, history, IInv, OneBranch, Holds
<1>4. (Positioned /\ Accounted /\ HistoryFollows /\ Ready /\ Staged /\ Closed)'
  BY DEF ClearState, Positioned, Accounted, HistoryFollows, Ready, Staged, Closed
<1> QED BY <1>2, <1>3, <1>4 DEF IInv

\* A step that leaves the sequence alone.
LEMMA QuietStep ==
  ASSUME IInv, UNCHANGED <<session, history>>, looping = FALSE, looping' = FALSE,
         git' \in Repository, Marked', NothingLeaks', prompt' \in BOOLEAN,
         result' \in {result, "refused"}, prompt' => prompt,
         prompt' => /\ git'.tips = git.tips /\ git'.head = git.head /\ Tip(git') = Tip(git)
                    /\ git'.staged = git.staged
  PROVE  IInv'
<1>1. TypeOK'
  BY DEF IInv, TypeOK, session, history
<1>2. Positioned' /\ Accounted' /\ Ready' /\ Closed'
  BY DEF IInv, session, history, Positioned, Accounted, Ready, Closed
<1>3. HistoryFollows' /\ OneBranch'
  BY DEF IInv, session, history, HistoryFollows, OneBranch, Holds
<1>4. Staged'
  BY DEF IInv, session, history, Staged, Current
<1> QED BY <1>1, <1>2, <1>3, <1>4 DEF IInv

LEMMA BeginStep ==
  ASSUME IInv, NEW commits \in Selections, CherryPickCommits(commits)
  PROVE  IInv'
<1>1. commits \in Seq(Change) /\ Len(commits) \in Nat \ {0}
  BY SelectionAssumption
<1>2. git \in Repository /\ Tip(git) \in Commit /\ Tip(git) = git.tips[git.head]
      /\ git.tips \in [Branch -> Commit] /\ prompt = FALSE
  BY TipType DEF IInv, TypeOK, Repository, CherryPickCommits, Idle
<1>3. ~git.unmerged /\ git.op = "none" /\ git' = git /\ git.staged \cap Change \subseteq stuck
      /\ stuck' = stuck /\ stuck \subseteq Change
  BY DEF CherryPickCommits, Busy, IInv, Marked, TypeOK
<1>4. TypeOK'
  <2>1. idx' \in -1 .. Len(pending') /\ pending' \in Seq(Change)
    BY <1>1 DEF CherryPickCommits
  <2>2. /\ inProgress' \in BOOLEAN /\ hasConflicts' \in BOOLEAN /\ looping' \in BOOLEAN
        /\ prompt' \in BOOLEAN /\ result' = "none"
    BY <1>2 DEF CherryPickCommits
  <2>3. startHead' \in Commit /\ picked' \subseteq Nat /\ skipped' \subseteq Nat
        /\ startTips' \in [Branch -> Commit] /\ git' \in Repository
    BY <1>2 DEF CherryPickCommits
  <2> QED BY <1>3, <2>1, <2>2, <2>3 DEF TypeOK
<1>5. Accounted'
  <2>1. 1 .. 0 = {}
    OBVIOUS
  <2> QED BY <2>1 DEF CherryPickCommits, Accounted
<1>6. HistoryFollows'
  <2>1. {commits[i] : i \in {}} = {}
    OBVIOUS
  <2> QED BY <1>3, <2>1 DEF CherryPickCommits, HistoryFollows
<1>7. Ready' /\ Positioned'
  BY <1>1, <1>3 DEF CherryPickCommits, Ready, Positioned
<1>8. OneBranch' /\ NothingLeaks' /\ Marked'
  BY <1>2, <1>3 DEF CherryPickCommits, IInv, OneBranch, NothingLeaks, Marked, Holds
<1>9. Staged' /\ Closed'
  BY <1>2 DEF CherryPickCommits, Staged, Closed
<1> QED BY <1>4, <1>5, <1>6, <1>7, <1>8, <1>9 DEF IInv

\* The current commit is one of the selected.
LEMMA CurrentType ==
  ASSUME TypeOK, idx \in 0 .. Len(pending) - 1
  PROVE  Current \in Change /\ Current \in Content /\ {Current} \subseteq Content
         /\ idx \in Nat /\ Len(pending) \in Nat
  BY DEF TypeOK, Current, Content

\* The current commit is in HEAD: the history follows.
LEMMA PickFollows ==
  ASSUME HistoryFollows, inProgress, looping \/ prompt,
         UNCHANGED <<pending, startHead>>, picked' = picked \cup {idx + 1},
         Tip(git').says = Tip(git).says \cup {Current}
  PROVE  HistoryFollows'
<1>1. Tip(git).says = startHead.says \cup {pending[i] : i \in picked}
  BY DEF HistoryFollows
<1>2. {pending[i] : i \in picked \cup {idx + 1}}
        = {pending[i] : i \in picked} \cup {pending[idx + 1]}
  OBVIOUS
<1> QED BY <1>1, <1>2 DEF HistoryFollows, Current

\* The sequence goes on to the next commit, the current one picked or skipped.
LEMMA GoOn ==
  ASSUME IInv, inProgress, looping \/ prompt, idx \in 0 .. Len(pending) - 1,
         idx' = idx + 1, looping' = TRUE, result' = "none", hasConflicts' \in BOOLEAN,
         UNCHANGED <<inProgress, pending, startHead, prompt, startTips>>,
         picked' \cup skipped' = picked \cup skipped \cup {idx + 1},
         git' \in Repository, git'.head = git.head,
         \A b \in Branch \ {git.head} : git'.tips[b] = git.tips[b],
         stuck \subseteq stuck', stuck' \subseteq Change,
         git'.staged \cap Change \subseteq stuck', stuck' = {} => ~git'.unmerged,
         HistoryFollows', NothingLeaks'
  PROVE  IInv'
<1>1. TypeOK /\ idx \in Nat /\ Len(pending) \in Nat /\ idx < Len(pending)
  BY DEF IInv, TypeOK
<1>2. TypeOK'
  <2>1. idx' \in -1 .. Len(pending') /\ idx + 1 \in Nat
    BY <1>1
  <2>2. picked' \subseteq Nat /\ skipped' \subseteq Nat
    BY <1>1, <2>1 DEF TypeOK
  <2> QED BY <1>1, <2>1, <2>2 DEF TypeOK
<1>3. Accounted'
  BY <1>1 DEF IInv, Accounted
<1>4. Ready' /\ Positioned'
  BY <1>1 DEF Ready, Positioned
<1>5. OneBranch'
  BY <1>1 DEF IInv, OneBranch, Holds
<1>6. Marked' /\ Staged' /\ Closed'
  BY <1>1 DEF Marked, Staged, Closed
<1> QED BY <1>2, <1>3, <1>4, <1>5, <1>6 DEF IInv

LEMMA MadeStep ==
  ASSUME IInv, Round, Made(git'), git' \in Repository, git'.head = git.head,
         \A b \in Branch \ {git.head} : git'.tips[b] = git.tips[b],
         Tip(git').says = Tip(git).says \cup {Current}, NothingLeaks',
         git'.staged = {}, ~git'.unmerged
  PROVE  IInv'
<1>1. /\ inProgress /\ looping /\ looping = TRUE /\ result = "none"
      /\ hasConflicts \in BOOLEAN /\ idx \in 0 .. Len(pending) - 1
  BY DEF IInv, Ready, Round, TypeOK
<1>2. HistoryFollows'
  BY <1>1, PickFollows DEF IInv, Made
<1>3. picked' \cup skipped' = picked \cup skipped \cup {idx + 1}
  BY DEF Made
<1>4. /\ idx' = idx + 1 /\ looping' = TRUE /\ result' = "none" /\ hasConflicts' \in BOOLEAN
      /\ UNCHANGED <<inProgress, pending, startHead, prompt, startTips>>
      /\ stuck' = stuck /\ stuck \subseteq Change
  BY <1>1 DEF Made, IInv, TypeOK
<1> QED BY <1>1, <1>2, <1>3, <1>4, GoOn

\* A commit of the index, of which only the current pick may be staged.
LEMMA PickCommitted ==
  ASSUME IInv, NEW g \in Repository, g.head = git.head, g.tips = git.tips,
         NEW c \in Change, g.staged \cap Change \subseteq {c} \cup stuck
  PROVE  LET m == CommitIndex(g, {c})
         IN  /\ m \in Repository /\ m.head = git.head
             /\ \A b \in Branch \ {git.head} : m.tips[b] = git.tips[b]
             /\ Tip(m).says = Tip(git).says \cup {c} /\ Tip(m).has = Tip(git).has \cup g.staged
             /\ Tip(m) = m.tips[git.head]
             /\ \A b \in Branch : Holds(m.tips[b])
             /\ m.staged = {} /\ m.unmerged = g.unmerged /\ m.op = g.op
<1>0. Tip(g) = Tip(git) /\ Tip(git) = git.tips[git.head] /\ git.head \in Branch
  BY TipType DEF Tip, IInv, TypeOK
<1> DEFINE t == [says |-> Tip(g).says \cup {c}, has |-> Tip(g).has \cup g.staged]
           m == CommitIndex(g, {c})
<1>1. /\ m \in Repository /\ m.head = g.head /\ Tip(m) = t
      /\ \A b \in Branch : m.tips[b] = IF b = g.head THEN t ELSE g.tips[b]
      /\ m.staged = {} /\ m.unmerged = g.unmerged /\ m.op = g.op
  BY CommitIndexType DEF Content
<1> HIDE DEF m
<1>2. Holds(t)
  BY <1>0 DEF IInv, NothingLeaks, Holds
<1>3. \A b \in Branch : Holds(m.tips[b])
  BY <1>1, <1>2 DEF IInv, NothingLeaks, Holds
<1>4. t.says = Tip(git).says \cup {c} /\ t.has = Tip(git).has \cup g.staged
  BY <1>0
<1> HIDE DEF t
<1>5. /\ m \in Repository /\ m.head = git.head
      /\ \A b \in Branch \ {git.head} : m.tips[b] = git.tips[b]
      /\ Tip(m).says = Tip(git).says \cup {c} /\ Tip(m).has = Tip(git).has \cup g.staged
      /\ Tip(m) = m.tips[git.head]
      /\ m.staged = {} /\ m.unmerged = g.unmerged /\ m.op = g.op
  BY <1>0, <1>1, <1>4
<1> QED BY <1>3, <1>5 DEF m

\* The loop stops at conflicts.
LEMMA ConflictStep ==
  ASSUME IInv, Round, git' \in Repository, git'.head = git.head, git'.tips = git.tips,
         stuck = {} => Current \in Tip(git).has \cup git'.staged,
         git'.staged \cap Change \subseteq {Current} \cup stuck, Marked',
         hasConflicts' = TRUE, looping' = FALSE, prompt' = TRUE, result' = "conflict",
         UNCHANGED <<inProgress, pending, idx, startHead, history>>
  PROVE  IInv'
<1>1. /\ looping /\ inProgress /\ TypeOK /\ idx \in 0 .. Len(pending) - 1
      /\ Tip(git') = Tip(git)
  BY DEF IInv, TypeOK, Ready, Round, Tip
<1>2. TypeOK'
  BY <1>1 DEF TypeOK, history
<1>3. Positioned' /\ Accounted' /\ Ready' /\ Closed'
  BY <1>1 DEF IInv, Positioned, Accounted, Ready, Closed, history
<1>4. HistoryFollows' /\ OneBranch' /\ NothingLeaks'
  BY <1>1 DEF IInv, HistoryFollows, OneBranch, NothingLeaks, Holds, history
<1>5. Current' = Current /\ stuck' = stuck
  BY DEF Current, history
<1>6. Staged'
  BY <1>1, <1>5 DEF Staged
<1> QED BY <1>2, <1>3, <1>4, <1>6 DEF IInv

LEMMA ProcessStep ==
  ASSUME IInv, ProcessCommits
  PROVE  IInv'
<1>0. git \in Repository /\ Tip(git) \in Commit /\ looping /\ inProgress /\ TypeOK
      /\ git.staged \cap Change \subseteq stuck /\ (stuck = {} => ~git.unmerged)
  BY TipType DEF IInv, TypeOK, Ready, ProcessCommits, ApplyCommit, ApplyRefused, ApplyConflicts,
     ApplyFails, Complete, Round
<1>1. ASSUME Round
      PROVE  idx \in 0 .. Len(pending) - 1 /\ Current \in Change /\ {Current} \subseteq Content
             /\ idx \in Nat /\ Len(pending) \in Nat
  <2>1. idx \in 0 .. Len(pending) - 1
    BY <1>0, <1>1 DEF IInv, Ready, Round, TypeOK
  <2> QED BY <1>0, <2>1, CurrentType
<1> DEFINE s == Stage(git, {Current}, "cherrypick", FALSE)
<1>2. ASSUME Round
      PROVE  /\ s \in Repository /\ s.head = git.head /\ s.tips = git.tips /\ Tip(s) = Tip(git)
             /\ s.staged \cap Change \subseteq {Current} \cup stuck /\ ~s.unmerged /\ s.op = "cherrypick"
  <2>1. /\ s \in Repository /\ s.head = git.head /\ s.tips = git.tips /\ Tip(s) = Tip(git)
        /\ s.staged = git.staged \cup ({Current} \ Tip(git).has)
        /\ s.unmerged = FALSE /\ s.op = "cherrypick"
    BY <1>0, <1>1, <1>2, StageType
  <2> QED BY <1>0, <2>1
<1> HIDE DEF s
<1>3. CASE ApplyCommit
  <2> DEFINE m == CommitIndex(s, {Current})
  <2>1. Round /\ Made(StateCleanup(m))
    BY <1>3 DEF ApplyCommit, s
  <2>2. /\ m \in Repository /\ m.head = git.head
        /\ \A b \in Branch \ {git.head} : m.tips[b] = git.tips[b]
        /\ Tip(m).says = Tip(git).says \cup {Current}
        /\ \A b \in Branch : Holds(m.tips[b])
        /\ m.staged = {} /\ ~m.unmerged
    BY <1>1, <1>2, <2>1, PickCommitted
  <2> HIDE DEF m
  <2>3. git' = StateCleanup(m)
    BY <2>1 DEF Made
  <2>4. /\ git' \in Repository /\ git'.head = git.head
        /\ \A b \in Branch \ {git.head} : git'.tips[b] = git.tips[b]
        /\ Tip(git').says = Tip(git).says \cup {Current}
        /\ NothingLeaks' /\ git'.staged = {} /\ ~git'.unmerged
    BY <2>1, <2>2, <2>3, CleanupType DEF NothingLeaks, Holds, Made
  <2>5. Made(git')
    BY <2>1, <2>3
  <2> QED BY <2>1, <2>4, <2>5, MadeStep
<1>4. CASE ApplyRefused
  <2> DEFINE m == CommitIndex(git, {Current})
  <2>1. Round /\ Made(StateCleanup(m)) /\ ~git.unmerged
    BY <1>4 DEF ApplyRefused
  <2>2. /\ m \in Repository /\ m.head = git.head
        /\ \A b \in Branch \ {git.head} : m.tips[b] = git.tips[b]
        /\ Tip(m).says = Tip(git).says \cup {Current}
        /\ \A b \in Branch : Holds(m.tips[b])
        /\ m.staged = {} /\ ~m.unmerged
    BY <1>0, <1>1, <2>1, PickCommitted
  <2> HIDE DEF m
  <2>3. git' = StateCleanup(m)
    BY <2>1 DEF Made
  <2>4. /\ git' \in Repository /\ git'.head = git.head
        /\ \A b \in Branch \ {git.head} : git'.tips[b] = git.tips[b]
        /\ Tip(git').says = Tip(git).says \cup {Current}
        /\ NothingLeaks' /\ git'.staged = {} /\ ~git'.unmerged
    BY <2>1, <2>2, <2>3, CleanupType DEF NothingLeaks, Holds, Made
  <2>5. Made(git')
    BY <2>1, <2>3
  <2> QED BY <2>1, <2>4, <2>5, MadeStep
<1>5. CASE ApplyConflicts
  <2>1. /\ Round
        /\ \/ git' = Stage(git, {Current}, "cherrypick", TRUE)
           \/ git.unmerged /\ git' = git
    BY <1>5 DEF ApplyConflicts
  <2>1a. /\ hasConflicts' = TRUE /\ looping' = FALSE /\ prompt' = TRUE /\ result' = "conflict"
        /\ UNCHANGED <<inProgress, pending, idx, startHead, history>>
    BY <1>5 DEF ApplyConflicts
  <2>2. CASE git' = Stage(git, {Current}, "cherrypick", TRUE)
    <3>1. /\ git' \in Repository /\ git'.head = git.head /\ git'.tips = git.tips
          /\ Tip(git') = Tip(git) /\ git'.op = "cherrypick"
          /\ git'.staged = git.staged \cup ({Current} \ Tip(git).has)
      BY <1>0, <1>1, <2>1, <2>2, StageType
    <3>2. Marked' /\ Current \in Tip(git).has \cup git'.staged
      BY <3>1 DEF Marked
    <3>3. git'.staged \cap Change \subseteq {Current} \cup stuck
      BY <1>0, <3>1
    <3> QED BY <2>1, <2>1a, <3>1, <3>2, <3>3, ConflictStep
  <2>3. CASE git.unmerged /\ git' = git
    <3>1. Marked' /\ stuck # {} /\ git'.staged \cap Change \subseteq {Current} \cup stuck
      BY <1>0, <2>1a, <2>3 DEF Marked, history
    <3> QED BY <1>0, <2>1, <2>1a, <2>3, <3>1, ConflictStep
  <2> QED BY <2>1, <2>2, <2>3
<1>6. CASE ApplyFails
  <2>1. Round /\ git' \in {git, s} /\ ClearState
    BY <1>6 DEF ApplyFails, s
  <2>2. git' \in Repository /\ Marked' /\ NothingLeaks'
    BY <1>0, <1>2, <2>1 DEF IInv, Marked, NothingLeaks, ClearState, history
  <2>3. looping' = FALSE /\ prompt' \in BOOLEAN /\ result' = "failed"
    BY <1>0, <1>6 DEF ApplyFails, TypeOK
  <2> QED BY <2>1, <2>2, <2>3, EndStep
<1>7. CASE Complete
  <2>1. git' \in Repository /\ Marked' /\ NothingLeaks'
    BY <1>0, <1>7 DEF Complete, IInv, Marked, NothingLeaks, ClearState, history
  <2> QED BY <1>7, <2>1, EndStep DEF Complete
<1> QED BY <1>3, <1>4, <1>5, <1>6, <1>7 DEF ProcessCommits

\* A pick cannot begin while another is in progress.
LEMMA RefuseStep ==
  ASSUME IInv, Refuse
  PROVE  IInv'
<1>1. git' \in Repository /\ Marked' /\ NothingLeaks' /\ prompt' \in BOOLEAN
  BY DEF IInv, TypeOK, Refuse, Marked, NothingLeaks, history
<1>2. looping = FALSE /\ looping' = FALSE /\ UNCHANGED <<session, history>>
  BY DEF IInv, TypeOK, Refuse, Idle
<1> QED BY <1>1, <1>2, QuietStep DEF Refuse, Idle

LEMMA WindowStep ==
  ASSUME IInv, ConflictWindow
  PROVE  IInv'
<1>0. /\ git \in Repository /\ Tip(git) \in Commit /\ TypeOK /\ prompt /\ looping = FALSE
      /\ Tip(git) = git.tips[git.head] /\ git.head \in Branch
  BY TipType DEF IInv, TypeOK, ConflictWindow, AnswerFails, ContinueOp, ContinueHalf, SkipOp,
     Skipped, AbortOp, SaveAndClose, Answer
<1>1. CASE AnswerFails
  <2>1. git' \in Repository /\ Marked' /\ NothingLeaks' /\ prompt' \in BOOLEAN
    BY <1>1, <1>0 DEF IInv, TypeOK, AnswerFails, Marked, NothingLeaks, history
  <2> QED BY <1>0, <1>1, <2>1, QuietStep DEF AnswerFails
<1>2. CASE SaveAndClose
  <2>1. git' \in Repository /\ Marked' /\ NothingLeaks' /\ prompt' \in BOOLEAN
    BY <1>2, <1>0 DEF IInv, SaveAndClose, Marked, NothingLeaks, history
  <2> QED BY <1>0, <1>2, <2>1, QuietStep DEF SaveAndClose
<1> SUFFICES ASSUME inProgress, ContinueOp \/ ContinueHalf \/ SkipOp \/ AbortOp
             PROVE  IInv'
  BY <1>1, <1>2 DEF ConflictWindow, ContinueOp, ContinueHalf, SkipOp, Skipped, AbortOp
<1>3. idx \in 0 .. Len(pending) - 1 /\ Current \in Change
  BY <1>0, CurrentType DEF IInv, Positioned
<1>4. /\ stuck = {} => Current \in Tip(git).has \cup git.staged
      /\ git.staged \cap Change \subseteq {Current} \cup stuck /\ stuck \subseteq Change
  BY <1>0 DEF IInv, Staged, TypeOK
<1> DEFINE m == CommitIndex(git, {Current})
<1>5. /\ m \in Repository /\ m.head = git.head
      /\ \A b \in Branch \ {git.head} : m.tips[b] = git.tips[b]
      /\ Tip(m).says = Tip(git).says \cup {Current} /\ Tip(m).has = Tip(git).has \cup git.staged
      /\ Tip(m) = m.tips[git.head] /\ Tip(m) \in Commit
      /\ \A b \in Branch : Holds(m.tips[b])
      /\ m.staged = {} /\ m.unmerged = git.unmerged
  BY <1>0, <1>3, <1>4, PickCommitted, TipType
<1> HIDE DEF m
<1>6. CASE ContinueOp
  <2>1. git' = ResetHard(m, Tip(m))
    BY <1>6 DEF ContinueOp, m
  <2>2. /\ git' \in Repository /\ git'.head = git.head /\ Tip(git') = Tip(m)
        /\ \A b \in Branch : git'.tips[b] = m.tips[b]
        /\ git'.staged = {} /\ ~git'.unmerged
    BY <1>5, <2>1, ResetHardType
  <2>3. HistoryFollows'
    BY <1>0, <1>5, <1>6, <2>2, PickFollows DEF IInv, ContinueOp
  <2>4. NothingLeaks'
    BY <1>5, <1>6, <2>2 DEF NothingLeaks, Holds, ContinueOp
  <2>5. picked' \cup skipped' = picked \cup skipped \cup {idx + 1}
    BY <1>6 DEF ContinueOp
  <2>6. /\ idx' = idx + 1 /\ looping' = TRUE /\ result' = "none" /\ hasConflicts' \in BOOLEAN
        /\ UNCHANGED <<inProgress, pending, startHead, prompt, startTips>>
        /\ stuck' = stuck
    BY <1>6 DEF ContinueOp
  <2> QED BY <1>0, <1>3, <1>4, <1>5, <2>2, <2>3, <2>4, <2>5, <2>6, GoOn
<1>7. CASE ContinueHalf
  <2>1. git' = StateCleanup(m) /\ picked' = picked \cup {idx + 1}
    BY <1>7 DEF ContinueHalf, m
  <2>2. /\ git' \in Repository /\ git'.head = git.head /\ git'.tips = m.tips
        /\ Tip(git') = Tip(m) /\ git'.staged = {}
    BY <1>5, <2>1, CleanupType
  <2>3. /\ UNCHANGED <<session, looping, prompt, skipped, startTips, stuck>> /\ result' = "refused"
        /\ UNCHANGED <<inProgress, pending, idx, startHead, hasConflicts>>
    BY <1>7 DEF ContinueHalf, session
  <2>4. HistoryFollows'
    BY <1>0, <1>5, <2>1, <2>2, <2>3, PickFollows DEF IInv
  <2>5. TypeOK'
    <3>1. idx + 1 \in Nat
      BY <1>3
    <3>2. idx' \in -1 .. Len(pending') /\ picked' \subseteq Nat
      BY <1>0, <2>1, <2>3, <3>1 DEF TypeOK
    <3> QED BY <1>0, <2>2, <2>3, <3>2 DEF TypeOK
  <2>6. Accounted'
    BY <1>0, <1>3, <2>1, <2>3 DEF IInv, Accounted
  <2>7. Positioned' /\ Ready' /\ Closed' /\ Marked'
    BY <1>0, <2>2, <2>3 DEF IInv, Positioned, Ready, Closed, Marked
  <2>8. OneBranch' /\ NothingLeaks'
    BY <1>0, <1>5, <2>2, <2>3 DEF IInv, OneBranch, NothingLeaks, Holds
  <2>9. Staged'
    BY <1>4, <1>5, <2>2, <2>3 DEF Staged, Current
  <2> QED BY <2>4, <2>5, <2>6, <2>7, <2>8, <2>9 DEF IInv
<1>8. CASE SkipOp
  <2>1. \/ git' = ResetHard(git, Tip(git)) /\ stuck' = stuck
        \/ /\ git' \in {StateCleanup(Resolved(git)), StateCleanup(git)}
           /\ stuck' = stuck \cup {Current}
    BY <1>8 DEF SkipOp, Skipped
  <2>2. /\ git' \in Repository /\ git'.head = git.head /\ Tip(git') = Tip(git)
        /\ \A b \in Branch : git'.tips[b] = git.tips[b]
        /\ git'.staged \cap Change \subseteq stuck' /\ (stuck' = {} => ~git'.unmerged)
        /\ stuck \subseteq stuck' /\ stuck' \subseteq Change
    <3>1. CASE git' = ResetHard(git, Tip(git)) /\ stuck' = stuck
      BY <1>0, <1>4, <3>1, ResetHardType
    <3>2. ASSUME NEW h \in {git, Resolved(git)}, git' = StateCleanup(h), stuck' = stuck \cup {Current}
          PROVE  /\ git' \in Repository /\ git'.head = git.head /\ Tip(git') = Tip(git)
                 /\ \A b \in Branch : git'.tips[b] = git.tips[b]
                 /\ git'.staged \cap Change \subseteq stuck' /\ (stuck' = {} => ~git'.unmerged)
                 /\ stuck \subseteq stuck' /\ stuck' \subseteq Change
      <4>1. h \in Repository /\ h.head = git.head /\ h.tips = git.tips /\ h.staged = git.staged
            /\ Tip(h) = Tip(git)
        BY <1>0, ResolvedType
      <4> QED BY <1>3, <1>4, <3>2, <4>1, CleanupType
    <3> QED BY <2>1, <3>1, <3>2
  <2>3. /\ idx' = idx + 1 /\ looping' = TRUE /\ result' = "none" /\ hasConflicts' \in BOOLEAN
        /\ UNCHANGED <<inProgress, pending, startHead, prompt, picked, startTips>>
        /\ skipped' = skipped \cup {idx + 1}
    BY <1>8 DEF SkipOp, Skipped
  <2>4. HistoryFollows'
    BY <1>0, <2>2, <2>3 DEF IInv, HistoryFollows
  <2>5. NothingLeaks'
    BY <2>2 DEF IInv, NothingLeaks
  <2>6. picked' \cup skipped' = picked \cup skipped \cup {idx + 1}
    BY <2>3
  <2> QED BY <1>0, <1>3, <2>2, <2>3, <2>4, <2>5, <2>6, GoOn
<1>9. CASE AbortOp
  <2>1. git' = ResetHard(git, startHead) /\ startHead \in Commit
    BY <1>0, <1>9 DEF AbortOp, TypeOK
  <2>2. /\ git' \in Repository /\ git'.staged = {}
        /\ \A b \in Branch : git'.tips[b] = IF b = git.head THEN startHead ELSE git.tips[b]
    BY <1>0, <2>1, ResetHardType
  <2>3. Holds(startHead) /\ stuck' = stuck
    BY <1>0, <1>9 DEF IInv, OneBranch, AbortOp, ClearState, history
  <2>4. NothingLeaks' /\ Marked'
    BY <2>2, <2>3 DEF IInv, NothingLeaks, Marked, Holds
  <2>5. looping' = FALSE /\ prompt' = FALSE /\ result' = "aborted" /\ ClearState
    BY <1>0, <1>9 DEF AbortOp
  <2> QED BY <2>2, <2>4, <2>5, EndStep
<1> QED BY <1>6, <1>7, <1>8, <1>9

\* What the user does on the other pages, and a restart.
LEMMA UserSteps ==
  ASSUME IInv,
         \/ Resolve \/ UserCommit \/ Restart
         \/ \E x \in Local : Edit(x) \/ StageEdit(x)
         \/ \E b \in Branch : Checkout(b)
  PROVE  IInv'
<1>0. /\ git \in Repository /\ Tip(git) \in Commit /\ TypeOK /\ Marked /\ NothingLeaks
      /\ git.staged \subseteq Content
      /\ Tip(git) = git.tips[git.head] /\ git.head \in Branch /\ looping = FALSE
  BY TipType DEF IInv, TypeOK, Repository, Resolve, UserCommit, Restart, Edit, StageEdit,
     Checkout, Idle
<1>1. CASE Restart
  <2>1. git' \in Repository /\ Marked' /\ NothingLeaks'
    BY <1>0, <1>1 DEF Restart, Marked, NothingLeaks, ClearState, history
  <2> QED BY <1>0, <1>1, <2>1, EndStep DEF Restart
<1>2. ASSUME NEW g \in Repository, UserStep(g), Marked', NothingLeaks',
             prompt => /\ g.tips = git.tips /\ g.head = git.head /\ Tip(g) = Tip(git)
                       /\ g.staged = git.staged
      PROVE  IInv'
  BY <1>0, <1>2, QuietStep DEF UserStep, TypeOK
<1>3. CASE Resolve
  <2>1. git' = Resolved(git) /\ stuck' = stuck
    BY <1>3 DEF Resolve, UserStep, history
  <2>2. Marked' /\ NothingLeaks'
    BY <1>0, <2>1, ResolvedType DEF Marked, NothingLeaks
  <2> QED BY <1>0, <1>2, <1>3, <2>2, ResolvedType DEF Resolve
<1>4. CASE UserCommit
  <2> DEFINE m == Committed(git)
  <2>1. git' = m /\ UserStep(m) /\ ~prompt /\ stuck' = stuck
    BY <1>4 DEF UserCommit, UserStep, Idle, history
  <2>2. /\ m \in Repository /\ m.staged = {}
        /\ \A b \in Branch :
             m.tips[b] = IF b = git.head
                           THEN [says |-> Tip(git).says \cup git.staged,
                                 has |-> Tip(git).has \cup git.staged]
                           ELSE git.tips[b]
    BY <1>0, CommitIndexType DEF Committed
  <2> HIDE DEF m
  <2>3. Marked' /\ NothingLeaks'
    BY <1>0, <2>1, <2>2 DEF Marked, NothingLeaks
  <2> QED BY <1>2, <2>1, <2>2, <2>3
<1>5. ASSUME NEW x \in Local, Edit(x) \/ StageEdit(x)
      PROVE  IInv'
  <2>1. PICK g \in {Edited(git, x), EditStaged(git, x)} : UserStep(g) /\ ~prompt
    BY <1>5 DEF Edit, StageEdit, Idle
  <2>2. /\ g \in Repository /\ g.tips = git.tips /\ g.op = git.op
        /\ g.staged \cap Change = git.staged \cap Change /\ git' = g /\ stuck' = stuck
    <3>1. \A h \in {Edited(git, x), EditStaged(git, x)} :
            /\ h \in Repository /\ h.tips = git.tips /\ h.op = git.op
            /\ h.staged \cap Change = git.staged \cap Change
      <4> DEFINE Left(h) ==
            /\ h \in Repository /\ h.tips = git.tips /\ h.head = git.head /\ Tip(h) = Tip(git)
            /\ h.op = git.op /\ h.unmerged = git.unmerged
            /\ h.staged \cap Change = git.staged \cap Change
      <4>1. \A h \in {Edited(git, x), EditStaged(git, x)} : Left(h)
        BY <1>0, UserTypes, Zenon
      <4> QED BY <4>1
    <3>2. git' = g /\ stuck' = stuck
      BY <2>1 DEF UserStep, history
    <3> QED BY <2>1, <3>1, <3>2
  <2>3. Marked' /\ NothingLeaks'
    BY <1>0, <2>2 DEF Marked, NothingLeaks
  <2> QED BY <1>2, <2>1, <2>2, <2>3
<1>6. ASSUME NEW b \in Branch, Checkout(b)
      PROVE  IInv'
  <2>1. UserStep(CheckedOut(git, b)) /\ ~prompt
    BY <1>6 DEF Checkout, Idle
  <2>2. CheckedOut(git, b) \in Repository /\ Marked' /\ NothingLeaks'
    BY <1>0, <2>1, CheckedOutType DEF UserStep, Marked, NothingLeaks, history
  <2> QED BY <1>2, <2>1, <2>2
<1> QED BY <1>1, <1>3, <1>4, <1>5, <1>6

LEMMA StepInv == IInv /\ [Next]_vars => IInv'
<1> SUFFICES ASSUME IInv, [Next]_vars PROVE IInv'
  OBVIOUS
<1>1. CASE UNCHANGED vars
  BY <1>1 DEF vars, session, history, IInv, TypeOK, Positioned, Accounted, HistoryFollows,
     NothingLeaks, Ready, Marked, Staged, OneBranch, Holds, Closed, Current
<1>2. CASE Next
  BY <1>2, RefuseStep, BeginStep, ProcessStep, WindowStep, UserSteps DEF Next
<1> QED BY <1>1, <1>2

LEMMA Inductive == Spec => []IInv
  BY InitInv, StepInv, PTL DEF Spec

-----------------------------------------------------------------------------
(* The properties of the runs. *)

\* A sequence that stopped stands at one of its commits, and those before it,
\* and no later one, were committed or skipped (GitCherryPick.cpp:63-330).
THEOREM SequenceSound == Spec => []SequenceIsSound
<1>1. IInv => SequenceIsSound
  BY DEF IInv, SequenceIsSound
<1> QED BY <1>1, Inductive, PTL

\* The history of HEAD is that of the start and of the picked commits, and no
\* branch holds a change its history does not say, but for the commits whose skip
\* could not clear them away (GitCherryPick.cpp:63-330).
THEOREM HistoryPicked == Spec => []HistoryHoldsPicks
<1>1. IInv => HistoryHoldsPicks
  BY DEF IInv, HistoryHoldsPicks
<1> QED BY <1>1, Inductive, PTL

\* An abort puts every branch back where the sequence began, with nothing of
\* it in the index or the state (GitCherryPick.cpp:282-330).
THEOREM AbortPutsBack == Spec => AbortRestores
<1> DEFINE Restored ==
      /\ git'.tips = startTips
      /\ git'.staged = {} /\ ~git'.unmerged /\ git'.op = "none"
<1>1. ASSUME IInv, [Next]_vars, result' = "aborted", prompt
      PROVE  AbortOp
  <2>1. result # "aborted"
    BY <1>1 DEF IInv, Closed
  <2>2. Next
    BY <1>1, <2>1 DEF vars
  <2> QED BY <1>1, <2>1, <2>2 DEF Next, Refuse, CherryPickCommits, ProcessCommits, ApplyCommit,
        ApplyRefused, ApplyConflicts, ApplyFails, Complete, Made, ConflictWindow, AnswerFails,
        ContinueOp, ContinueHalf, SkipOp, Skipped, SaveAndClose, Resolve, UserCommit, Edit,
        StageEdit, Checkout, UserStep, Restart
<1>2. ASSUME IInv, AbortOp
      PROVE  Restored
  <2>1. /\ git \in Repository /\ startHead \in Commit /\ startTips \in [Branch -> Commit]
        /\ git' = ResetHard(git, startHead)
    BY <1>2 DEF IInv, TypeOK, AbortOp
  <2>2. /\ startHead = startTips[git.head]
        /\ \A b \in Branch \ {git.head} : git.tips[b] = startTips[b]
    BY <1>2 DEF IInv, OneBranch, AbortOp, Answer
  <2>3. /\ git' \in Repository
        /\ \A b \in Branch : git'.tips[b] = IF b = git.head THEN startHead ELSE git.tips[b]
        /\ git'.staged = {} /\ ~git'.unmerged /\ git'.op = "none"
    BY <2>1, ResetHardType
  <2>4. git'.tips \in [Branch -> Commit] /\ \A b \in Branch : git'.tips[b] = startTips[b]
    BY <2>2, <2>3 DEF Repository
  <2> QED BY <2>1, <2>3, <2>4
<1>3. IInv /\ [Next]_vars => [result' = "aborted" /\ prompt => Restored]_vars
  BY <1>1, <1>2
<1> QED BY <1>3, Inductive, PTL DEF Spec, AbortRestores

-----------------------------------------------------------------------------
(* A commit made for a picked one holds its change. *)

\* The branches say nothing new, or what they say new they hold.
Told == \A b \in Branch : git'.tips[b].says \ git.tips[b].says \subseteq git'.tips[b].has

\* A commit of the index says nothing the index or the tree does not have.
LEMMA CommitTells ==
  ASSUME NEW g \in Repository, g.tips = git.tips, g.head = git.head,
         NEW says \in SUBSET Content, says \subseteq Tip(g).has \cup g.staged,
         \A b \in Branch : git'.tips[b] = CommitIndex(g, says).tips[b]
  PROVE  Told
<1>1. \A b \in Branch :
        git'.tips[b] = IF b = g.head
                         THEN [says |-> Tip(g).says \cup says, has |-> Tip(g).has \cup g.staged]
                         ELSE g.tips[b]
  BY CommitIndexType
<1>2. Tip(g) = git.tips[git.head]
  BY DEF Tip
<1> QED BY <1>1, <1>2 DEF Told

\* What GitCherryPick.h:17 says, "Apply one or more commits onto current HEAD":
\* a commit made for a picked one holds its change, unless the user has changes
\* of his own around or a skip has left some.
THEOREM PicksHold == Spec => PicksApplied
<1> DEFINE Alone == (git.edits \cup git.staged) \cap Local = {} /\ stuck = {}
<1>1. ASSUME IInv, Next, Alone
      PROVE  Told
  <2>0. /\ git \in Repository /\ git.edits \subseteq Local /\ git.staged \subseteq Content
        /\ Tip(git) = git.tips[git.head] /\ Tip(git) \in Commit /\ git.head \in Branch /\ TypeOK
    BY <1>1, TipType DEF IInv, TypeOK, Repository
  <2>1. CASE git'.tips = git.tips
    BY <2>1 DEF Told
  <2>2. ASSUME Round
        PROVE  /\ Current \in Change /\ {Current} \subseteq Content
               /\ ~git.unmerged /\ git.staged = {} /\ git.edits = {}
    <3>1. idx \in 0 .. Len(pending) - 1 /\ ~git.unmerged /\ git.staged \cap Change = {}
      BY <1>1, <2>2 DEF IInv, Ready, Round, TypeOK
    <3>2. git.staged = {} /\ git.edits = {}
      BY <1>1, <2>0, <3>1 DEF Content
    <3> QED BY <2>0, <3>1, <3>2, CurrentType
  <2>3. CASE ApplyCommit
    <3> DEFINE s == Stage(git, {Current}, "cherrypick", FALSE)
               m == CommitIndex(s, {Current})
    <3>1. /\ s \in Repository /\ s.head = git.head /\ s.tips = git.tips /\ Tip(s) = Tip(git)
          /\ s.staged = git.staged \cup ({Current} \ Tip(git).has)
      BY <2>0, <2>2, <2>3, StageType DEF ApplyCommit
    <3>2. git' = StateCleanup(m) /\ {Current} \subseteq Content
      BY <2>2, <2>3 DEF ApplyCommit, Made
    <3> HIDE DEF s
    <3>3. m \in Repository
      BY <3>1, <3>2, CommitIndexType
    <3>4. git'.tips = m.tips
      BY <3>2, <3>3, CleanupType
    <3> QED BY <3>1, <3>2, <3>4, CommitTells
  <2>4. CASE ApplyRefused
    <3>1. ~Refuses(git, {Current})
      BY <2>2, <2>4 DEF ApplyRefused, Refuses, Blocked
    <3> QED BY <2>4, <3>1 DEF ApplyRefused
  <2>5. CASE ContinueOp \/ ContinueHalf
    <3> DEFINE m == CommitIndex(git, {Current})
    <3>1. idx \in 0 .. Len(pending) - 1 /\ Current \in Tip(git).has \cup git.staged
      BY <1>1, <2>5 DEF IInv, Positioned, Staged, ContinueOp, ContinueHalf, Answer
    <3>2. {Current} \subseteq Content
      BY <2>0, <3>1, CurrentType
    <3>3. m \in Repository
      BY <2>0, <3>2, CommitIndexType
    <3>4. git' = ResetHard(m, Tip(m)) \/ git' = StateCleanup(m)
      BY <2>5 DEF ContinueOp, ContinueHalf
    <3> HIDE DEF m
    <3>5. Tip(m) \in Commit /\ Tip(m) = m.tips[m.head]
      BY <3>3, TipType
    <3>6. \A b \in Branch : git'.tips[b] = m.tips[b]
      BY <3>3, <3>4, <3>5, ResetHardType, CleanupType
    <3> QED BY <2>0, <3>1, <3>2, <3>6, CommitTells DEF m
  <2>6. CASE SkipOp
    <3>1. git' \in {ResetHard(git, Tip(git)), StateCleanup(Resolved(git)), StateCleanup(git)}
      BY <2>6 DEF SkipOp, Skipped
    <3>2. Resolved(git) \in Repository /\ Resolved(git).tips = git.tips
      BY <2>0, ResolvedType
    <3> QED BY <2>0, <3>1, <3>2, ResetHardType, CleanupType DEF Told
  <2>7. CASE AbortOp
    <3>1. git' = ResetHard(git, startHead) /\ startHead \in Commit
      BY <2>0, <2>7 DEF AbortOp, TypeOK
    <3>2. startHead.says \subseteq Tip(git).says
      BY <1>1, <2>7 DEF IInv, HistoryFollows, AbortOp, Answer
    <3> QED BY <2>0, <3>1, <3>2, ResetHardType DEF Told
  <2>8. CASE UserCommit
    <3>1. git' = CommitIndex(git, git.staged)
      BY <2>8 DEF UserCommit, UserStep, Committed
    <3> QED BY <2>0, <3>1, CommitTells
  <2>9. ASSUME ApplyFails, ~(git' = git)
        PROVE  git'.tips = git.tips
    <3>1. Round /\ git' = Stage(git, {Current}, "cherrypick", FALSE)
      BY <2>9 DEF ApplyFails
    <3> QED BY <2>0, <2>2, <3>1, StageType
  <2>10. ASSUME ApplyConflicts
         PROVE  git'.tips = git.tips
    <3>1. Round /\ (git' = Stage(git, {Current}, "cherrypick", TRUE) \/ git' = git)
      BY <2>10 DEF ApplyConflicts
    <3>2. CASE git' = Stage(git, {Current}, "cherrypick", TRUE)
      BY <2>0, <2>2, <3>1, <3>2, StageType
    <3> QED BY <3>1, <3>2
  <2>11. ASSUME NEW x \in Local, Edit(x) \/ StageEdit(x)
         PROVE  git'.tips = git.tips
    BY <2>0, <2>11, UserTypes DEF Edit, StageEdit, UserStep
  <2>12. ASSUME NEW b \in Branch, Checkout(b)
         PROVE  git'.tips = git.tips
    BY <2>0, <2>12, CheckedOutType DEF Checkout, UserStep
  <2>13. ASSUME Resolve
         PROVE  git'.tips = git.tips
    BY <2>0, <2>13, ResolvedType DEF Resolve, UserStep
  <2>14. ASSUME Refuse \/ (\E c \in Selections : CherryPickCommits(c)) \/ Complete
                 \/ AnswerFails \/ SaveAndClose \/ Restart
         PROVE  git' = git
    BY <2>14 DEF Refuse, CherryPickCommits, Complete, AnswerFails, SaveAndClose, Restart
  <2>15. CASE ProcessCommits
    BY <2>1, <2>3, <2>4, <2>9, <2>10, <2>14, <2>15 DEF ProcessCommits
  <2>16. CASE ConflictWindow
    BY <2>1, <2>5, <2>6, <2>7, <2>14, <2>16 DEF ConflictWindow
  <2> QED BY <1>1, <2>1, <2>8, <2>11, <2>12, <2>13, <2>14, <2>15, <2>16 DEF Next
<1>2. IInv /\ [Next]_vars =>
        [\A b \in Branch :
           git'.tips[b].says \ git.tips[b].says \subseteq git'.tips[b].has
             \/ (git.edits \cup git.staged) \cap Local # {} \/ stuck # {}]_vars
  BY <1>1 DEF Told
<1> QED BY <1>2, Inductive, PTL DEF Spec, PicksApplied
=============================================================================
