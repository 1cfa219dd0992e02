------------------------------- MODULE GitRepo -------------------------------
(***************************************************************************)
(* The repository behind m_currentRepo->repo, as the controllers of Src/Git *)
(* use it through libgit2.  A commit is the sequence of the changes that   *)
(* lead to it, so committing on top of another commit is Append.  An       *)
(* operator takes a repository and returns the one the call leaves.        *)
(***************************************************************************)
EXTENDS Sequences

CONSTANTS Branch,   \* names of the local branches
          Change,   \* identities of commits: each stands for what it changes
          Path      \* paths of the files that can be in conflict

\* The name of the HEAD reference itself, which is what git_repository_head
\* returns when HEAD is detached.
Detached == "HEAD"

ASSUME BranchAssumption == Detached \notin Branch

Commit == Seq(Change)

Ops == {"none", "cherrypick", "merge", "rebase"}

\* at is the commit HEAD resolves to; unmerged are the conflicted entries of
\* the index, missing those of them without a file in the working directory;
\* dirty says that git status would list something.
Repository ==
  [head : Branch \cup {Detached}, at : Commit, refs : [Branch -> Commit],
   op : Ops, unmerged : SUBSET Path, missing : SUBSET Path, dirty : BOOLEAN]

\* HEAD on a branch resolves to the branch; a conflicted entry shows in the
\* status, and only such an entry can lack its file.
WellFormed(g) ==
  /\ g \in Repository
  /\ g.head \in Branch => g.at = g.refs[g.head]
  /\ g.unmerged # {} => g.dirty
  /\ g.missing \subseteq g.unmerged

\* git_repository_set_head; the name HEAD leaves a detached HEAD alone.
SetHead(g, name) ==
  IF name = Detached THEN g ELSE [g EXCEPT !.head = name, !.at = g.refs[name]]

\* git_repository_set_head_detached, after a checkout of c.
Detach(g, c) == [g EXCEPT !.head = Detached, !.at = c]

\* The reference HEAD points to, or a detached HEAD, moves to c.
MoveHead(g, c) ==
  [g EXCEPT !.at = c,
            !.refs = [b \in Branch |-> IF b = g.head THEN c ELSE g.refs[b]]]

\* git_reference_set_target on a reference read earlier: nothing moves when
\* it no longer has the target it was read with, and the HEAD reference was
\* read before HEAD was detached elsewhere.
SetTarget(g, name, old, c) ==
  IF name \in Branch /\ g.refs[name] = old
    THEN [g EXCEPT !.refs[name] = c, !.at = IF g.head = name THEN c ELSE @]
    ELSE g

\* A forced checkout of HEAD with the conflicts of the index dropped.
Discard(g) == [g EXCEPT !.unmerged = {}, !.missing = {}, !.dirty = FALSE]

\* git_repository_state_cleanup
StateCleanup(g) == [g EXCEPT !.op = "none"]

\* git_reset(GIT_RESET_HARD)
ResetHard(g, c) == Discard(MoveHead(g, c))

\* git_commit_create on HEAD of what is staged.
CommitStaged(g, change) ==
  [MoveHead(g, Append(g.at, change)) EXCEPT !.dirty = FALSE]

\* git_cherrypick that stages a change cleanly, or with conflicts in U, the
\* files of M being absent.
Picked(g) == [g EXCEPT !.op = "cherrypick", !.dirty = TRUE]
PickedWithConflicts(g, U, M) ==
  [g EXCEPT !.op = "cherrypick", !.dirty = TRUE, !.unmerged = U, !.missing = M]

\* git_index_add_bypath: the entry is staged and its conflict is gone.  When
\* none is left the index may equal HEAD, if still is FALSE.
StagePath(g, p, still) ==
  [g EXCEPT !.unmerged = @ \ {p}, !.missing = @ \ {p},
            !.dirty = g.unmerged \ {p} # {} \/ still]
=============================================================================
