----------------------------- MODULE GitScanner -----------------------------
(***************************************************************************)
(* The repository scanner (Src/Utilities/GitScanner).  scan() starts one   *)
(* task on the global thread pool; that task, the coordinator, starts      *)
(* idealThreadCount() workers that share a queue of directories and a list *)
(* of the repositories found, both under one mutex, and waits for them.    *)
(* A worker leaves as soon as it finds the queue empty, although another   *)
(* worker may be about to enqueue the sub-directories it is listing.  The  *)
(* end of the coordinator's future is delivered to the user-interface      *)
(* thread later, as a posted event, and scan() or stop() may be called in  *)
(* between.  The order of the queue is abstracted: it is a set, and any    *)
(* member may be taken.  Each Bug... operator is a plausible slip in the   *)
(* action that follows it, kept to show that the properties can fail.      *)
(***************************************************************************)
EXTENDS Integers, FiniteSets

CONSTANTS Dir,          \* directory paths
          Root,         \* the path handed to scan()
          Children,     \* Children[d]: the directories dir.entryInfoList lists
          RepoDir,      \* the directories that hold a ".git"
          Worker,       \* the worker tasks, 1 .. idealThreadCount()
          PoolThreads,  \* threads of the global pool
          MaxScans      \* bound: scans started in a behaviour

ASSUME DirAssumption ==
  /\ Root \in Dir
  /\ RepoDir \subseteq Dir
  /\ Children \in [Dir -> SUBSET Dir]
  /\ \A d \in Dir : Root \notin Children[d]         \* a path has one parent
  /\ \A d, e \in Dir : Children[d] \cap Children[e] # {} => d = e

ASSUME PoolAssumption ==
  /\ Worker \subseteq Nat
  /\ IsFiniteSet(Worker) /\ Worker # {}
  /\ PoolThreads \in Nat \ {0}
  /\ MaxScans \in Nat

VARIABLES
  running,   \* m_watcher.isRunning(): the coordinator has not returned
  callout,   \* the watcher's finished() event is posted and not delivered
  stop,      \* m_stopRequested
  busy,      \* m_busy
  queue,     \* the shared queue
  repos,     \* the shared list of repositories, the future's result
  pc,        \* pc[w]: where worker w is
  cur,       \* cur[w]: dirPath of worker w
  kids,      \* kids[w]: the listed sub-directories w has not enqueued yet
  visited,   \* history: the directories visited by the current scan
  outcome,   \* the last signal of the finished handler
  reported,  \* the list that scanFinished carried
  scans      \* number of scans started, bounded by MaxScans

scanVars == <<running, callout, stop, busy, queue, repos, pc, cur, kids,
          visited, outcome, reported, scans>>

shared == <<queue, repos>>
watcher == <<running, callout, busy, outcome, reported, scans>>

ScanPC == {"none", "queued", "loop", "take", "visit", "push", "done"}

ScanTypeOK ==
  /\ running \in BOOLEAN /\ callout \in BOOLEAN
  /\ stop \in BOOLEAN /\ busy \in BOOLEAN
  /\ queue \subseteq Dir /\ repos \subseteq Dir /\ visited \subseteq Dir
  /\ pc \in [Worker -> ScanPC]
  /\ cur \in [Worker -> Dir]
  /\ kids \in [Worker -> SUBSET Dir]
  /\ outcome \in {"none", "finished", "stopped"}
  /\ reported \subseteq Dir
  /\ scans \in Nat

ScanInit ==
  /\ running = FALSE /\ callout = FALSE /\ stop = FALSE /\ busy = FALSE
  /\ queue = {} /\ repos = {} /\ visited = {}
  /\ pc = [w \in Worker |-> "none"]
  /\ cur = [w \in Worker |-> Root]
  /\ kids = [w \in Worker |-> {}]
  /\ outcome = "none" /\ reported = {} /\ scans = 0

-----------------------------------------------------------------------------
(* The user-interface thread. *)

\* scan(): refused while the future runs.  A finished() event still posted
\* for the previous future is discarded by setFuture.
Scan ==
  /\ ~running
  /\ scans < MaxScans
  /\ scans' = scans + 1
  /\ stop' = FALSE /\ busy' = TRUE /\ running' = TRUE /\ callout' = FALSE
  /\ queue' = {Root} /\ repos' = {} /\ visited' = {}
  /\ pc' = [w \in Worker |-> "queued"]
  /\ kids' = [w \in Worker |-> {}]
  /\ UNCHANGED <<cur, outcome, reported>>

\* stop(): ignored when no future runs.
Stop ==
  /\ running
  /\ stop' = TRUE
  /\ UNCHANGED <<shared, watcher, pc, cur, kids, visited>>

\* The slot leaves before clearing the flag when the scan was stopped.
BugOnFinished ==
  /\ callout
  /\ callout' = FALSE
  /\ IF stop THEN outcome' = "stopped" /\ UNCHANGED <<busy, reported>>
             ELSE outcome' = "finished" /\ reported' = repos /\ busy' = FALSE
  /\ UNCHANGED <<running, stop, shared, pc, cur, kids, visited, scans>>

\* The slot of QFutureWatcher::finished.
OnFinished ==
  /\ callout
  /\ callout' = FALSE
  /\ busy' = FALSE
  /\ IF stop THEN outcome' = "stopped" /\ UNCHANGED reported
             ELSE outcome' = "finished" /\ reported' = repos
  /\ UNCHANGED <<running, stop, shared, pc, cur, kids, visited, scans>>

-----------------------------------------------------------------------------
(* The coordinator and the pool. *)

Active == {w \in Worker : pc[w] \in {"loop", "take", "visit", "push"}}

\* A pool thread is free for w (the coordinator holds one), or the
\* coordinator waits for w and runs it on its own thread.
CanStart(w) ==
  \/ Cardinality(Active) < PoolThreads - 1
  \/ \A v \in Worker : v < w => pc[v] = "done"

Start(w) ==
  /\ pc[w] = "queued" /\ CanStart(w)
  /\ pc' = [pc EXCEPT ![w] = "loop"]
  /\ UNCHANGED <<stop, shared, watcher, cur, kids, visited>>

AllDone == \A w \in Worker : pc[w] = "done"

\* Only the first worker is waited for.
BugReturn ==
  /\ running /\ \E w \in Worker : pc[w] = "done"
  /\ running' = FALSE /\ callout' = TRUE
  /\ UNCHANGED <<stop, busy, shared, pc, cur, kids, visited, outcome, reported, scans>>

\* Every waitForFinished() has returned: the future finishes with repos.
Return ==
  /\ running /\ AllDone
  /\ running' = FALSE /\ callout' = TRUE
  /\ UNCHANGED <<stop, busy, shared, pc, cur, kids, visited, outcome, reported, scans>>

-----------------------------------------------------------------------------
(* A worker. *)

\* while (!m_stopRequested)
Check(w) ==
  /\ pc[w] = "loop"
  /\ pc' = [pc EXCEPT ![w] = IF stop THEN "done" ELSE "take"]
  /\ UNCHANGED <<stop, shared, watcher, cur, kids, visited>>

\* The head is read and not removed.
BugTakeOrLeave(w) ==
  /\ pc[w] = "take"
  /\ pc' = [pc EXCEPT ![w] = IF queue = {} THEN "done" ELSE "visit"]
  /\ cur' = [cur EXCEPT ![w] = IF queue = {} THEN @ ELSE CHOOSE d \in queue : TRUE]
  /\ UNCHANGED <<stop, shared, watcher, kids, visited>>

\* The queue is not looked at before dequeue(), which returns no path, 0.
BugTakeAlways(w) ==
  /\ pc[w] = "take"
  /\ pc' = [pc EXCEPT ![w] = "visit"]
  /\ \E d \in IF queue = {} THEN {0} ELSE queue :
       queue' = queue \ {d} /\ cur' = [cur EXCEPT ![w] = d]
  /\ UNCHANGED <<stop, repos, watcher, kids, visited>>

\* Under the mutex: leave on an empty queue, else take a directory.
TakeOrLeave(w) ==
  /\ pc[w] = "take"
  /\ \/ /\ queue = {}
        /\ pc' = [pc EXCEPT ![w] = "done"]
        /\ UNCHANGED <<queue, cur>>
     \/ \E d \in queue :
          /\ queue' = queue \ {d}
          /\ cur' = [cur EXCEPT ![w] = d]
          /\ pc' = [pc EXCEPT ![w] = "visit"]
  /\ UNCHANGED <<stop, repos, watcher, kids, visited>>

\* A repository is not descended into.
BugVisit(w) ==
  /\ pc[w] = "visit"
  /\ repos' = repos \cup ({cur[w]} \cap RepoDir)
  /\ kids' = [kids EXCEPT ![w] = IF cur[w] \in RepoDir THEN {} ELSE Children[cur[w]]]
  /\ visited' = visited \cup {cur[w]}
  /\ pc' = [pc EXCEPT ![w] = "push"]
  /\ UNCHANGED <<stop, queue, watcher, cur>>

\* Record a repository (under the mutex), then list the sub-directories.
Visit(w) ==
  /\ pc[w] = "visit"
  /\ repos' = repos \cup ({cur[w]} \cap RepoDir)
  /\ kids' = [kids EXCEPT ![w] = Children[cur[w]]]
  /\ visited' = visited \cup {cur[w]}
  /\ pc' = [pc EXCEPT ![w] = "push"]
  /\ UNCHANGED <<stop, queue, watcher, cur>>

\* Enqueue one sub-directory under the mutex, or go round the loop.
PushChildren(w) ==
  /\ pc[w] = "push"
  /\ \/ /\ kids[w] = {}
        /\ pc' = [pc EXCEPT ![w] = "loop"]
        /\ UNCHANGED <<queue, kids>>
     \/ \E d \in kids[w] :
          /\ queue' = queue \cup {d}
          /\ kids' = [kids EXCEPT ![w] = @ \ {d}]
          /\ UNCHANGED pc
  /\ UNCHANGED <<stop, repos, watcher, cur, visited>>

Work(w) == Check(w) \/ TakeOrLeave(w) \/ Visit(w) \/ PushChildren(w)

ScanNext ==
  \/ Scan \/ Stop \/ OnFinished \/ Return
  \/ \E w \in Worker : Start(w) \/ Work(w)

ScanSpec == ScanInit /\ [][ScanNext]_scanVars

\* Threads run and the event loop delivers posted events; nobody has to
\* call scan() or stop().
Fairness ==
  /\ WF_scanVars(OnFinished) /\ WF_scanVars(Return)
  /\ \A w \in Worker : WF_scanVars(Start(w)) /\ WF_scanVars(Work(w))

FairScanSpec == ScanSpec /\ Fairness

-----------------------------------------------------------------------------
(* Properties. *)

Closed(S) == \A d \in S : Children[d] \subseteq S

\* The directories at or below Root.
Reach == {d \in Dir : \A S \in SUBSET Dir : (Root \in S /\ Closed(S)) => d \in S}

\* The list scanFinished carries is exactly the repositories below the root:
\* a worker that left on a momentarily empty queue loses none of them.
ReportComplete == outcome = "finished" => reported = Reach \cap RepoDir

\* The busy flag that the page binds to is up exactly while a scan runs or
\* its end is still to be delivered, also when scan() is called in between.
BusyTracksScan == busy <=> running \/ callout

\* A directory taken off the queue was not visited before in the same scan,
\* so the result lists no repository twice.
NoRevisit == [][\A w \in Worker : pc[w] = "take" /\ pc'[w] = "visit"
                                    => cur'[w] \notin visited]_scanVars

\* The pool never runs two scans' workers at once: when a future has
\* finished none of its tasks is left to touch the queue of a dead frame.
NoStraggler == ~running => Active = {}

\* What the page sees of the scanner is a search: every scan that was not
\* stopped has found all there is when it ends, in whatever order the workers
\* met the repositories, and tells so once.
Search == INSTANCE RepoSearch WITH
  Repo <- Reach \cap RepoDir, MaxSearches <- MaxScans,
  searching <- running, ended <- callout, found <- repos, searches <- scans

ImplementsSearch == Search!Spec

\* Each scan ends, with threads of the pool to spare or not, and its end reaches the page.
ScanEnds == running ~> ~running
BusyClears == busy ~> ~busy

\* A report of a scan that was not stopped is complete, the busy flag of the
\* page follows the scan and its undelivered end, and no worker outlives its
\* scan to touch the queue of the next (GitScanner.cpp:33-145).
ScanIsSound == ScanTypeOK /\ ReportComplete /\ BusyTracksScan /\ NoStraggler

\* A scan always settles: its threads end, though the coordinator holds one
\* of the pool's, and the page's busy flag falls.
ScanSettles == ScanEnds /\ BusyClears
=============================================================================
