------------------------------ MODULE GitRemote ------------------------------
(***************************************************************************)
(* The fetches, pulls and pushes of Src/Git/GitRemote.cpp.  Each runs on a *)
(* thread of the pool while the user goes on committing and checking out   *)
(* on the user-interface thread; its end is delivered there later, as a    *)
(* posted event.  A pull is a fetch, an analysis of HEAD and a             *)
(* fast-forward, and every one of its steps looks at the repository anew.  *)
(* A task's step is one call into the repository or to the remote.         *)
(* Each Bug... operator is a plausible slip in the definition after it,    *)
(* kept to show that the properties can fail.                              *)
(***************************************************************************)
CONSTANTS Branch,  \* names of the branches, here and at the remote
          Mine,    \* bound: the commits the user makes
          Theirs,  \* bound: the commits others push to the remote
          Task     \* bound: operations that run at a time

Change == Mine \cup Theirs

ASSUME RemoteAssumption == Mine \cap Theirs = {}

None == "none"
ASSUME BranchAssumption == None \notin Branch

\* A commit is the set of the changes in its history.
Commit == SUBSET Change
Tips == [Branch -> Commit]

VARIABLES
  head,            \* the branch checked out
  tips,            \* the local branches
  tracking,        \* refs/remotes/origin/<branch>
  server,          \* the branches of the remote
  made,            \* the commits made so far, here and by others
  pullInProgress,  \* m_pullInProgress
  pushInProgress,  \* m_pushInProgress
  task             \* the tasks and their local variables

repository == <<head, tips, tracking>>
flags == <<pullInProgress, pushInProgress>>
vars == <<repository, server, made, flags, task>>

PC == {"idle", "head", "fetch", "update", "lookup", "analyse", "move", "setHead",
       "reset", "push", "record", "done"}

\* branch is targetBranch or the branch to push, seen what the remote said
\* its branches are, old the target localRef was read with, new remoteHead or
\* the commit pushed.  Of the history, onto is HEAD's branch at the analysis;
\* crossed says that meanwhile a branch was checked out, or another operation
\* recorded less of the remote than was known; and late that between the move
\* and the reset a commit was made on the branch or another checked out.
TaskState ==
  [kind : {None, "fetch", "pull", "push"}, pc : PC, branch : Branch \cup {None},
   force : BOOLEAN, seen : Tips, old : Commit, new : Commit, ok : BOOLEAN,
   onto : Branch \cup {None}, crossed : BOOLEAN, late : BOOLEAN]

NoTask ==
  [kind |-> None, pc |-> "idle", branch |-> None, force |-> FALSE,
   seen |-> [b \in Branch |-> {}], old |-> {}, new |-> {}, ok |-> FALSE,
   onto |-> None, crossed |-> FALSE, late |-> FALSE]

TypeOK ==
  /\ head \in Branch
  /\ {tips, tracking, server} \subseteq Tips
  /\ made \subseteq Change
  /\ {pullInProgress, pushInProgress} \subseteq BOOLEAN
  /\ task \in [Task -> TaskState]

\* The remote was cloned.
Init ==
  /\ head \in Branch
  /\ tips = [b \in Branch |-> {}] /\ tracking = tips /\ server = tips
  /\ made = {}
  /\ pullInProgress = FALSE /\ pushInProgress = FALSE
  /\ task = [t \in Task |-> NoTask]

Pulls(u) == task[u].kind = "pull" /\ task[u].pc # "done"

-----------------------------------------------------------------------------
(* The calls of the user interface. *)

Becomes(t, state) == task' = [task EXCEPT ![t] = state]

Started(t, state) ==
  /\ task[t] = NoTask /\ Becomes(t, state)
  /\ UNCHANGED <<repository, server, made>>

\* fetch, fetchWithToken: as many at a time as are asked for.
StartFetch(t) ==
  /\ Started(t, [NoTask EXCEPT !.kind = "fetch", !.pc = "fetch"])
  /\ UNCHANGED flags

\* The flag is raised and not looked at.
BugStartPull(t, b) ==
  /\ Started(t, [NoTask EXCEPT !.kind = "pull", !.pc = "head", !.branch = b])
  /\ pullInProgress' = TRUE
  /\ UNCHANGED pushInProgress

\* pull, of the branch checked out or of none in particular.
StartPull(t, b) ==
  /\ ~pullInProgress /\ b \in {head, None}
  /\ Started(t, [NoTask EXCEPT !.kind = "pull", !.pc = "head", !.branch = b])
  /\ pullInProgress' = TRUE
  /\ UNCHANGED pushInProgress

\* push, of the branch checked out.
StartPush(t, forced) ==
  /\ ~pushInProgress
  /\ Started(t, [NoTask EXCEPT !.kind = "push", !.pc = "push", !.branch = head, !.force = forced])
  /\ pushInProgress' = TRUE
  /\ UNCHANGED pullInProgress

\* The flag is cleared for an operation that succeeded.
BugDeliver(t) ==
  /\ task[t].pc = "done"
  /\ Becomes(t, NoTask)
  /\ pullInProgress' = (pullInProgress /\ ~(task[t].kind = "pull" /\ task[t].ok))
  /\ pushInProgress' = (pushInProgress /\ ~(task[t].kind = "push" /\ task[t].ok))
  /\ UNCHANGED <<repository, server, made>>

\* The slots of QFutureWatcher::finished.
Deliver(t) ==
  /\ task[t].pc = "done"
  /\ Becomes(t, NoTask)
  /\ pullInProgress' = (pullInProgress /\ task[t].kind # "pull")
  /\ pushInProgress' = (pushInProgress /\ task[t].kind # "push")
  /\ UNCHANGED <<repository, server, made>>

\* GitCommit::commit
UserCommit ==
  /\ \E c \in Mine \ made :
       tips' = [tips EXCEPT ![head] = @ \cup {c}] /\ made' = made \cup {c}
  /\ task' = [u \in Task |->
                [task[u] EXCEPT !.late = @ \/ (task[u].pc \in {"setHead", "reset"} /\ task[u].branch = head)]]
  /\ UNCHANGED <<head, tracking, server, flags>>

\* GitBranch::checkoutBranch
Checkout(b) ==
  /\ b # head /\ head' = b
  /\ task' = [u \in Task |-> [task[u] EXCEPT !.crossed = @ \/ Pulls(u),
                                            !.late = @ \/ task[u].pc = "reset"]]
  /\ UNCHANGED <<tips, tracking, server, made, flags>>

\* Somebody else pushes to the remote.
OthersPush(b) ==
  /\ \E c \in Theirs \ made :
       server' = [server EXCEPT ![b] = @ \cup {c}] /\ made' = made \cup {c}
  /\ UNCHANGED <<repository, flags, task>>

-----------------------------------------------------------------------------
(* The threads. *)

At(t, pc) == task[t].pc = pc
Goes(t, pc) == Becomes(t, [task[t] EXCEPT !.pc = pc])
Ended(t, success) == [NoTask EXCEPT !.kind = task[t].kind, !.pc = "done", !.ok = success]
Ends(t, success) == Becomes(t, Ended(t, success))
Aside == UNCHANGED <<server, made, flags>>

\* A call fails, at the remote or in the repository.
Fails(t) ==
  /\ task[t].pc \notin {"idle", "done"}
  /\ Ends(t, FALSE)
  /\ UNCHANGED repository /\ Aside

\* pullInternal, before it fetches: no branch but the one checked out can be
\* pulled.
ReadHead(t) ==
  /\ At(t, "head")
  /\ IF task[t].branch \in {head, None}
       THEN Becomes(t, [task[t] EXCEPT !.branch = head, !.pc = "fetch"])
       ELSE Ends(t, FALSE)
  /\ UNCHANGED repository /\ Aside

\* fetchInternal: the remote tells what it has,
Fetch(t) ==
  /\ At(t, "fetch")
  /\ Becomes(t, [task[t] EXCEPT !.seen = server, !.pc = "update"])
  /\ UNCHANGED repository /\ Aside

\* Records(t, told, state): what the remote has been told or told itself is
\* recorded.
Records(t, told, state) ==
  /\ tracking' = told
  /\ LET lost == \E b \in Branch : ~(tracking[b] \subseteq told[b])
     IN  task' = [u \in Task |-> IF u = t THEN state
                                ELSE [task[u] EXCEPT !.crossed = @ \/ (lost /\ Pulls(u))]]
  /\ UNCHANGED <<head, tips>> /\ Aside

\* and what it told is recorded.
Update(t) ==
  /\ At(t, "update")
  /\ Records(t, task[t].seen, IF task[t].kind = "pull" THEN [task[t] EXCEPT !.pc = "lookup"]
                                                      ELSE Ended(t, TRUE))

\* localRef, remoteRef and remoteHead
Lookup(t) ==
  /\ At(t, "lookup")
  /\ Becomes(t, [task[t] EXCEPT !.old = tips[task[t].branch],
                                !.new = tracking[task[t].branch], !.pc = "analyse"])
  /\ UNCHANGED repository /\ Aside

UpToDate(t) == task[t].new \subseteq tips[head]
CanFastForward(t) == tips[head] \subseteq task[t].new

\* Histories that have parted count as up to date.
BugAnalyse(t) ==
  /\ At(t, "analyse")
  /\ IF CanFastForward(t) /\ ~UpToDate(t)
       THEN Becomes(t, [task[t] EXCEPT !.onto = head, !.pc = "move"])
       ELSE Ends(t, TRUE)
  /\ UNCHANGED repository /\ Aside

\* git_merge_analysis, of HEAD as it is now.
Analyse(t) ==
  /\ At(t, "analyse")
  /\ IF CanFastForward(t) /\ ~UpToDate(t)
       THEN Becomes(t, [task[t] EXCEPT !.onto = head, !.pc = "move"])
       ELSE Ends(t, UpToDate(t))
  /\ UNCHANGED repository /\ Aside

\* The branch is created anew, by force.
BugMove(t) ==
  /\ At(t, "move")
  /\ tips' = [tips EXCEPT ![task[t].branch] = task[t].new]
  /\ Goes(t, "setHead")
  /\ UNCHANGED <<head, tracking>> /\ Aside

\* git_reference_set_target: nothing moves if the branch moved meanwhile.
Move(t) ==
  /\ At(t, "move")
  /\ IF tips[task[t].branch] = task[t].old
       THEN tips' = [tips EXCEPT ![task[t].branch] = task[t].new] /\ Goes(t, "setHead")
       ELSE Ends(t, FALSE) /\ UNCHANGED tips
  /\ UNCHANGED <<head, tracking>> /\ Aside

\* HEAD is set to the commit in place of the branch.
BugSetHead(t) ==
  /\ At(t, "setHead")
  /\ head' = None
  /\ Goes(t, "reset")
  /\ UNCHANGED <<tips, tracking>> /\ Aside

\* git_repository_set_head
SetHead(t) ==
  /\ At(t, "setHead")
  /\ head' = task[t].branch
  /\ Goes(t, "reset")
  /\ UNCHANGED <<tips, tracking>> /\ Aside

\* git_reset(GIT_RESET_HARD) of whatever HEAD is now.
Reset(t) ==
  /\ At(t, "reset")
  /\ tips' = [tips EXCEPT ![head] = task[t].new]
  /\ Ends(t, TRUE)
  /\ UNCHANGED <<head, tracking>> /\ Aside

\* pushInternal, in git_remote_push: the branch as it is now goes to the remote,
\* which refuses to lose commits unless forced,
Push(t) ==
  /\ At(t, "push")
  /\ LET b == task[t].branch
     IN  IF task[t].force \/ server[b] \subseteq tips[b]
           THEN /\ server' = [server EXCEPT ![b] = tips[b]]
                /\ Becomes(t, [task[t] EXCEPT !.new = tips[b], !.pc = "record"])
           ELSE Ends(t, FALSE) /\ UNCHANGED server
  /\ UNCHANGED <<repository, made, flags>>

\* and once it has answered, the tracking branch follows.
Record(t) ==
  /\ At(t, "record")
  /\ Records(t, [tracking EXCEPT ![task[t].branch] = task[t].new], Ended(t, TRUE))

Pull(t) ==
  ReadHead(t) \/ Lookup(t) \/ Analyse(t) \/ Move(t) \/ SetHead(t) \/ Reset(t)

Run(t) ==
  Fails(t) \/ Fetch(t) \/ Update(t) \/ Pull(t) \/ Push(t) \/ Record(t)

Next ==
  \/ \E t \in Task :
       \/ StartFetch(t)
       \/ \E b \in Branch \cup {None} : StartPull(t, b)
       \/ \E forced \in BOOLEAN : StartPush(t, forced)
       \/ Deliver(t) \/ Run(t)
  \/ UserCommit
  \/ \E b \in Branch : Checkout(b) \/ OthersPush(b)

Spec == Init /\ [][Next]_vars

\* Threads run, calls to the remote return, and the event loop delivers.
FairSpec == Spec /\ \A t \in Task : WF_vars(Run(t)) /\ WF_vars(Deliver(t))

-----------------------------------------------------------------------------
(* Properties. *)

Running(kind) == {t \in Task : task[t].kind = kind}

\* One pull and one push run at a time, and each flag is up exactly while its
\* operation runs or its end is to be delivered.
FlagsTellTruth ==
  /\ pullInProgress <=> Running("pull") # {}
  /\ pushInProgress <=> Running("push") # {}
  /\ \A t, u \in Task : task[t].kind = task[u].kind /\ task[t].kind \in {"pull", "push"} => t = u

\* Whatever is committed, fetched and pushed meanwhile, no branch loses a commit
\* to the move of a pull or to the hard reset after it, if HEAD was on the branch
\* pulled when it was analysed, and nothing was committed there or checked out
\* between the two.
MovesForward ==
  [][\A t \in Task :
       /\ task[t].pc \in {"move", "setHead", "reset"}
       /\ task[t].onto = task[t].branch /\ ~task[t].late
       => \A b \in Branch : tips[b] \subseteq tips'[b]]_vars

\* A pull that says it succeeded leaves its branch with everything the remote
\* said it had, unless meanwhile a branch was checked out, or a fetch or a push
\* that the remote answered earlier recorded less.
PullBringsAll ==
  [][\A t \in Task :
       LET b == task[t].branch
       IN  /\ task[t].kind = "pull" /\ ~task[t].crossed
           /\ task[t].pc # "done" /\ task'[t].pc = "done" /\ task'[t].ok
           => task[t].seen[b] \subseteq tips'[b]]_vars

\* Every pull ends, and the flag is cleared for the next.
PullEnds == pullInProgress ~> ~pullInProgress

\* What GitRemote.h says of pull, "If a fast-forward is possible, it updates
\* the current branch. [...] Non-fast-forward pulls are rejected": no branch
\* loses a commit to a pull.
PullFastForwards ==
  [][(\E t \in Task : Move(t) \/ Reset(t)) => \A b \in Branch : tips[b] \subseteq tips'[b]]_vars

\* However threads end and are delivered, the flags that refuse a second pull
\* or push tell of the one that runs (GitRemote.cpp:560-860).
TasksAreSound == TypeOK /\ FlagsTellTruth
=============================================================================
