------------------------------- MODULE Replay -------------------------------
(***************************************************************************)
(* What an interactive rebase promises: HEAD is detached at the base, the  *)
(* entries of the plan are replayed on it in their order, each committed   *)
(* or dropped; when none is left, and only then, HEAD's branch is moved to *)
(* the result and checked out again. An abort puts HEAD back, and nothing  *)
(* else moves a branch. What is done at the end can fail unnoticed. Calls, *)
(* conflicts and answers are those of InteractiveRebase, which implements  *)
(* this.                                                                   *)
(***************************************************************************)
EXTENDS Sequences

CONSTANTS Plans, Bases,
          Detached,   \* the name of a HEAD that is on no branch
          NoRef,      \* no place is remembered
          InitRepo    \* where HEAD and the branches are at first

VARIABLES
  running,
  todo,    \* the entries of the plan left to replay
  from,    \* what HEAD was when the replay began: its name and its commit
  head,    \* the branch that is checked out
  at,      \* the commit HEAD is at
  refs,    \* the commit of each branch
  told     \* how the last replay ended, when that was just told

vars == <<running, todo, from, head, at, refs, told>>

Init ==
  /\ \E g \in InitRepo : head = g.head /\ at = g.at /\ refs = g.refs
  /\ running = FALSE /\ todo = <<>> /\ from = NoRef /\ told = "nothing"

Begin(p, c) ==
  /\ ~running /\ running' = TRUE
  /\ todo' = p /\ from' = [name |-> head, target |-> at]
  /\ head' = Detached /\ at' = c
  /\ told' = "nothing" /\ UNCHANGED refs

\* The next entry is done with.
Passed ==
  /\ running /\ todo # <<>> /\ todo' = Tail(todo)
  /\ told' = "nothing" /\ UNCHANGED <<running, from, head, refs>>

Commit == Passed /\ Head(todo).action = "pick" /\ at' = Append(at, Head(todo).hash)

Drop == Passed /\ UNCHANGED at

Over == running /\ running' = FALSE /\ todo' = <<>> /\ from' = NoRef

Land ==
  /\ todo = <<>> /\ Over /\ told' = "finished"
  /\ head' = from.name /\ UNCHANGED at
  /\ refs' = IF from.name = Detached THEN refs ELSE [refs EXCEPT ![from.name] = at]

Abort ==
  /\ Over /\ told' = "aborted"
  /\ head' = from.name /\ at' = from.target /\ UNCHANGED refs

\* The end of a replay fails, and nobody sees: HEAD stays detached, or is back
\* on its branch, which did not move if the replay was not through.
Slip ==
  /\ Over /\ told' = "unnoticed"
  /\ \/ UNCHANGED refs
     \/ /\ todo = <<>> /\ from.name # Detached
        /\ refs' = [refs EXCEPT ![from.name] = at]
  /\ \/ head' = head /\ at' \in {at, from.target}
     \/ /\ from.name # Detached
        /\ head' = from.name /\ at' = refs'[from.name]

\* HEAD stays detached where it is.
Fail == Over /\ told' = "nothing" /\ UNCHANGED <<head, at, refs>>

\* A branch is checked out, or a replay that cannot begin leaves HEAD at its
\* base.
Elsewhere ==
  /\ ~running /\ told' = "nothing" /\ UNCHANGED <<running, todo, from, refs>>
  /\ \/ head' \in DOMAIN refs /\ at' = refs[head']
     \/ head' = Detached /\ at' \in Bases

Quiet == told' = "nothing" /\ UNCHANGED <<running, todo, from, head, at, refs>>

Next ==
  \/ \E p \in Plans, c \in Bases : Begin(p, c)
  \/ Commit \/ Drop \/ Land \/ Abort \/ Slip \/ Fail \/ Elsewhere \/ Quiet

Spec == Init /\ [][Next]_vars
=============================================================================
