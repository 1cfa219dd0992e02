----------------------------- MODULE GitContents -----------------------------
(***************************************************************************)
(* A repository seen by what it contains, as the controllers of Src/Git    *)
(* use it through libgit2.  A commit has a history, the set of changes its *)
(* messages and parents say it includes, and a tree, the set of changes    *)
(* its files really hold; the two may come apart.  The user's own changes  *)
(* in the working directory are changes like the others.  An operator      *)
(* takes a repository and returns the one the call leaves.                 *)
(***************************************************************************)
EXTENDS FiniteSets

CONSTANTS Branch,    \* names of the local branches
          Change,    \* what the commits of the repository change
          Local,     \* what the user changes in the working directory
          Overlaps   \* Overlaps[x]: the changes in the same places as x

Content == Change \cup Local

ASSUME ContentsAssumption ==
  /\ Change \cap Local = {}
  /\ Overlaps \in [Content -> SUBSET Change]

Commit == [says : SUBSET Content, has : SUBSET Content]

\* staged is what the index holds beyond HEAD, edits what the files hold
\* beyond the index, unmerged that the index has conflicts; op is
\* git_repository_state.
Repository ==
  [head : Branch, tips : [Branch -> Commit], staged : SUBSET Content,
   edits : SUBSET Local, unmerged : BOOLEAN, op : {"none", "cherrypick", "merge"}]

Tip(g) == g.tips[g.head]

MoveTip(g, c) == [g EXCEPT !.tips[g.head] = c]

StateCleanup(g) == [g EXCEPT !.op = "none"]

\* A checkout of changes in the safe mode overwrites nothing: it is refused
\* with GIT_ECONFLICT while the index has conflicts, or where files differ
\* from HEAD and from what is checked out.
Blocked(g, changes) ==
  g.unmerged \/ \E x \in g.edits \cup (g.staged \ changes) : Overlaps[x] \cap changes # {}

\* git_cherrypick and git_merge refuse moreover when anything is staged that
\* is not part of what they bring.
Refuses(g, changes) == Blocked(g, changes \ Tip(g).has) \/ ~(g.staged \subseteq changes)

\* git_cherrypick and git_merge: the changes are staged, some in conflict.
Stage(g, changes, op, conflicts) ==
  [g EXCEPT !.staged = @ \cup (changes \ Tip(g).has), !.unmerged = conflicts, !.op = op]

\* git_commit_create on HEAD of the index, with a history that says more.
CommitIndex(g, says) ==
  [MoveTip(g, [says |-> Tip(g).says \cup says, has |-> Tip(g).has \cup g.staged])
     EXCEPT !.staged = {}]

\* git_reset(GIT_RESET_HARD)
ResetHard(g, c) ==
  [MoveTip(g, c) EXCEPT !.staged = {}, !.edits = {}, !.unmerged = FALSE, !.op = "none"]

-----------------------------------------------------------------------------
(* What the user does on the other pages of the application. *)

\* A file is edited, and staged.
Edited(g, x) == [g EXCEPT !.edits = @ \cup {x}]
EditStaged(g, x) == [g EXCEPT !.edits = @ \ {x}, !.staged = @ \cup {x}]

\* The files in conflict are settled and staged.
Resolved(g) == [g EXCEPT !.unmerged = FALSE]

\* GitCommit::commit: what is staged, under a message of the user's.  It does
\* not touch the repository's state.
CanCommit(g) == ~g.unmerged /\ g.staged # {}
Committed(g) == CommitIndex(g, g.staged)

\* GitBranch::checkoutBranch: a checkout in the safe mode of what the branches
\* differ in; what is modified is kept.
CanCheckout(g, b) ==
  ~Blocked(g, (Tip(g).has \ g.tips[b].has) \cup (g.tips[b].has \ Tip(g).has))
CheckedOut(g, b) == [g EXCEPT !.head = b, !.staged = @ \ g.tips[b].has]
=============================================================================
