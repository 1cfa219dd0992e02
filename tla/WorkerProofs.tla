----------------------------- MODULE WorkerProofs -----------------------------
(***************************************************************************)
(* Proofs about the work that is done beside the event loop: the workers   *)
(* of a scan (GitScanner) and the tasks of the remote operations           *)
(* (GitRemote).                                                            *)
(***************************************************************************)
EXTENDS GitScanner, GitRemote, TLAPS

-----------------------------------------------------------------------------
(***************************************************************************)
(* A scan that ends without being stopped reports exactly the repositories *)
(* below its root, for every directory tree, number of workers and size of *)
(* the pool. The strengthening: a directory of the tree is visited or in   *)
(* flight, where in flight means queued, taken by a worker, or listed and  *)
(* not enqueued yet; and while a directory is queued and no stop was       *)
(* requested, some worker has not left.                                    *)
(***************************************************************************)

InFlight == {d \in Dir : \/ d \in queue
                         \/ \E w \in Worker : pc[w] = "visit" /\ cur[w] = d
                         \/ \E w \in Worker : d \in kids[w]}

\* Only a worker that is enqueuing holds listed sub-directories.
KidsInv == \A w \in Worker : pc[w] # "push" => kids[w] = {}

\* The root and the children of what was visited are never lost.
Covered == /\ running \/ callout => Root \in visited \cup InFlight
           /\ \A d \in visited : Children[d] \subseteq visited \cup InFlight

Within == visited \cup InFlight \subseteq Reach

Recorded == repos = visited \cap RepoDir

\* Somebody is left to take what is queued.
Attended == (running \/ callout) /\ ~stop /\ queue # {}
              => \E w \in Worker : pc[w] # "done"

ScanEnded == /\ ~running => \A w \in Worker : pc[w] \in {"none", "done"}
             /\ callout => ~running /\ AllDone

ScanInv == /\ ScanTypeOK /\ KidsInv /\ Covered /\ Within /\ Recorded /\ Attended
           /\ ScanEnded /\ BusyTracksScan /\ ReportComplete

-----------------------------------------------------------------------------
\* Every variable keeps its type.
THEOREM ScanTypeCorrect == ScanSpec => []ScanTypeOK
<1>0. Root \in Dir /\ Children \in [Dir -> SUBSET Dir]
  BY DirAssumption
<1>1. ASSUME ScanInit PROVE ScanTypeOK
  <2>1. pc \in [Worker -> ScanPC] /\ cur \in [Worker -> Dir] /\ kids \in [Worker -> SUBSET Dir]
    BY <1>0, <1>1 DEF ScanInit, ScanPC
  <2> QED BY <1>1, <2>1 DEF ScanInit, ScanTypeOK
<1>2. ScanTypeOK /\ [ScanNext]_scanVars => ScanTypeOK'
  <2> SUFFICES ASSUME ScanTypeOK, [ScanNext]_scanVars PROVE ScanTypeOK'
    OBVIOUS
  <2>1. CASE Scan
    <3>1. pc' \in [Worker -> ScanPC] /\ kids' \in [Worker -> SUBSET Dir]
      BY <2>1 DEF Scan, ScanPC
    <3>2. scans' \in Nat
      BY <2>1 DEF Scan, ScanTypeOK
    <3> QED BY <1>0, <2>1, <3>1, <3>2 DEF ScanTypeOK, Scan
  <2>2. CASE Stop
    BY <2>2 DEF ScanTypeOK, Stop, shared, watcher
  <2>3. CASE OnFinished
    BY <2>3 DEF ScanTypeOK, OnFinished, shared
  <2>4. CASE Return
    BY <2>4 DEF ScanTypeOK, Return, shared
  <2>5. ASSUME NEW w \in Worker, Start(w) PROVE ScanTypeOK'
    BY <2>5 DEF ScanTypeOK, Start, shared, watcher, ScanPC
  <2>6. ASSUME NEW w \in Worker, Check(w) PROVE ScanTypeOK'
    BY <2>6 DEF ScanTypeOK, Check, shared, watcher, ScanPC
  <2>7. ASSUME NEW w \in Worker, TakeOrLeave(w) PROVE ScanTypeOK'
    BY <2>7 DEF ScanTypeOK, TakeOrLeave, watcher, ScanPC
  <2>8. ASSUME NEW w \in Worker, Visit(w) PROVE ScanTypeOK'
    BY <1>0, <2>8 DEF ScanTypeOK, Visit, watcher, ScanPC
  <2>9. ASSUME NEW w \in Worker, PushChildren(w) PROVE ScanTypeOK'
    BY <2>9 DEF ScanTypeOK, PushChildren, watcher, ScanPC
  <2>10. CASE UNCHANGED scanVars
    BY <2>10 DEF ScanTypeOK, scanVars
  <2> QED
    BY <2>1, <2>2, <2>3, <2>4, <2>5, <2>6, <2>7, <2>8, <2>9, <2>10 DEF ScanNext, Work
<1> QED BY <1>1, <1>2, PTL DEF ScanSpec

-----------------------------------------------------------------------------
\* The directories below the root contain it and the children of each.
LEMMA ReachClosed == Root \in Reach /\ Closed(Reach)
  BY DirAssumption DEF Reach, Closed

\* They are inside every set of directories that does.
LEMMA ReachLeast ==
  ASSUME NEW S \in SUBSET Dir, Root \in S, Closed(S)
  PROVE  Reach \subseteq S
  BY DEF Reach

\* The tree does not change.
LEMMA ReachStays == Reach' = Reach
  BY DEF Reach, Closed

\* Nothing in flight and nobody left: what was visited is what there is.
LEMMA Exhausted ==
  ASSUME ScanInv, running \/ callout, AllDone, ~stop
  PROVE  repos = Reach \cap RepoDir
<1>1. InFlight = {}
  BY DEF ScanInv, Attended, ScanEnded, AllDone, KidsInv, InFlight
<1>2. Root \in visited /\ Closed(visited)
  BY <1>1 DEF ScanInv, Covered, Closed
<1>3. visited = Reach
  BY <1>1, <1>2, ReachLeast DEF ScanInv, ScanTypeOK, Within
<1> QED BY <1>3 DEF ScanInv, Recorded

-----------------------------------------------------------------------------
LEMMA ScanInitInv == ScanInit => ScanInv
<1> SUFFICES ASSUME ScanInit PROVE ScanInv
  OBVIOUS
<1>1. ScanTypeOK
  BY DirAssumption, PoolAssumption DEF ScanInit, ScanTypeOK, ScanPC
<1>2. InFlight = {}
  BY DEF ScanInit, InFlight
<1> QED BY <1>1, <1>2 DEF ScanInit, ScanInv, KidsInv, Covered, Within, Recorded, Attended,
     ScanEnded, BusyTracksScan, ReportComplete, AllDone

\* The user-interface thread and the coordinator.
LEMMA OuterStep ==
  ASSUME ScanInv, Scan \/ Stop \/ OnFinished \/ Return, ScanTypeOK'
  PROVE  ScanInv'
<1>1. CASE Scan
  <2>1. InFlight' = {Root}
    BY <1>1, DirAssumption DEF Scan, InFlight
  <2> QED BY <1>1, <2>1, ReachClosed, PoolAssumption, ReachStays DEF ScanInv, ScanTypeOK, Scan, KidsInv, Covered, Within,
       Recorded, Attended, ScanEnded, AllDone, BusyTracksScan, ReportComplete
<1>2. CASE Stop
  <2>1. InFlight' = InFlight
    BY <1>2 DEF Stop, InFlight, shared
  <2> QED BY <1>2, <2>1, ReachStays DEF ScanInv, Stop, shared, watcher, KidsInv, Covered, Within,
       Recorded, Attended, ScanEnded, AllDone, BusyTracksScan, ReportComplete
<1>3. CASE OnFinished
  <2>1. InFlight' = InFlight
    BY <1>3 DEF OnFinished, InFlight, shared
  <2>2. ReportComplete'
    BY <1>3, Exhausted, ReachStays DEF ScanInv, ScanEnded, OnFinished, ReportComplete
  <2> QED BY <1>3, <2>1, <2>2, ReachStays DEF ScanInv, OnFinished, shared, KidsInv, Covered, Within,
       Recorded, Attended, ScanEnded, AllDone, BusyTracksScan
<1>4. CASE Return
  <2>1. InFlight' = InFlight
    BY <1>4 DEF Return, InFlight, shared
  <2> QED BY <1>4, <2>1, ReachStays DEF ScanInv, Return, shared, KidsInv, Covered, Within,
       Recorded, Attended, ScanEnded, AllDone, BusyTracksScan, ReportComplete
<1> QED BY <1>1, <1>2, <1>3, <1>4

\* Starting a worker, and its look at the stop flag, move no directory.
LEMMA QuietStep ==
  ASSUME ScanInv, ScanTypeOK', NEW w \in Worker, Start(w) \/ Check(w)
  PROVE  ScanInv'
<1>1. InFlight' = InFlight
  BY DEF ScanInv, ScanTypeOK, Start, Check, InFlight, shared
<1>2. KidsInv' /\ ScanEnded' /\ Attended'
  BY DEF ScanInv, ScanTypeOK, Start, Check, KidsInv, ScanEnded, Attended, AllDone, shared, watcher
<1> QED BY <1>1, <1>2, ReachStays DEF ScanInv, Start, Check, shared, watcher, Covered, Within,
     Recorded, BusyTracksScan, ReportComplete

\* A directory moves from the queue to the worker that took it.
LEMMA TakeStep ==
  ASSUME ScanInv, ScanTypeOK', NEW w \in Worker, TakeOrLeave(w)
  PROVE  ScanInv'
<1>1. InFlight' = InFlight
  BY DEF ScanInv, ScanTypeOK, TakeOrLeave, InFlight
<1>2. KidsInv' /\ ScanEnded' /\ Attended'
  BY DEF ScanInv, ScanTypeOK, TakeOrLeave, KidsInv, ScanEnded, Attended, AllDone, watcher
<1> QED BY <1>1, <1>2, ReachStays DEF ScanInv, TakeOrLeave, watcher, Covered, Within,
     Recorded, BusyTracksScan, ReportComplete

\* A visited directory leaves its children in flight.
LEMMA VisitStep ==
  ASSUME ScanInv, ScanTypeOK', NEW w \in Worker, Visit(w)
  PROVE  ScanInv'
<1>1. cur[w] \in InFlight /\ cur[w] \in Dir
  BY DEF ScanInv, ScanTypeOK, Visit, InFlight
<1>2. Children[cur[w]] \subseteq InFlight'
  BY <1>1, DirAssumption DEF ScanInv, ScanTypeOK, Visit, InFlight
<1>3. InFlight \ {cur[w]} \subseteq InFlight'
  BY DEF ScanInv, ScanTypeOK, Visit, InFlight, KidsInv
<1>4. InFlight' \subseteq InFlight \cup Children[cur[w]]
  BY DEF ScanInv, ScanTypeOK, Visit, InFlight, KidsInv
<1>5. Covered'
  BY <1>2, <1>3 DEF ScanInv, Visit, Covered, watcher
<1>6. Within'
  BY <1>1, <1>4, ReachClosed, ReachStays DEF ScanInv, Visit, Within, Closed
<1>7. KidsInv' /\ ScanEnded' /\ Attended'
  BY DEF ScanInv, ScanTypeOK, Visit, KidsInv, ScanEnded, Attended, AllDone, watcher
<1> QED BY <1>5, <1>6, <1>7 DEF ScanInv, ScanTypeOK, Visit, Recorded, BusyTracksScan, ReportComplete,
     Reach, Closed, watcher

\* A listed directory moves to the queue.
LEMMA PushChildrenStep ==
  ASSUME ScanInv, ScanTypeOK', NEW w \in Worker, PushChildren(w)
  PROVE  ScanInv'
<1>1. InFlight' = InFlight
  BY DEF ScanInv, ScanTypeOK, PushChildren, InFlight, KidsInv
<1>2. KidsInv' /\ ScanEnded' /\ Attended'
  BY DEF ScanInv, ScanTypeOK, PushChildren, KidsInv, ScanEnded, Attended, AllDone, watcher
<1> QED BY <1>1, <1>2, ReachStays DEF ScanInv, PushChildren, watcher, Covered, Within,
     Recorded, BusyTracksScan, ReportComplete

LEMMA ScanStepInv == ScanInv /\ ScanTypeOK' /\ [ScanNext]_scanVars => ScanInv'
<1> SUFFICES ASSUME ScanInv, ScanTypeOK', [ScanNext]_scanVars PROVE ScanInv'
  OBVIOUS
<1>1. CASE UNCHANGED scanVars
  BY <1>1, ReachStays DEF scanVars, ScanInv, ScanTypeOK, KidsInv, Covered, Within, Recorded, Attended, ScanEnded,
     AllDone, BusyTracksScan, ReportComplete, InFlight
<1> QED BY <1>1, OuterStep, QuietStep, TakeStep, VisitStep, PushChildrenStep DEF ScanNext, Work

LEMMA ScanInductive == ScanSpec => []ScanInv
  BY ScanInitInv, ScanStepInv, ScanTypeCorrect, PTL DEF ScanSpec

\* A scan that is not stopped reports every repository below its root.
THEOREM ReportCompleteness == ScanSpec => []ReportComplete
  BY ScanInductive, PTL DEF ScanInv

\* The busy flag follows the scan and its undelivered end.
THEOREM BusyFlag == ScanSpec => []BusyTracksScan
  BY ScanInductive, PTL DEF ScanInv

\* A finished future leaves no worker behind.
THEOREM NoWorkerLeft == ScanSpec => []NoStraggler
<1>1. ScanInv => NoStraggler
  BY DEF ScanInv, ScanEnded, NoStraggler, Active
<1> QED BY <1>1, ScanInductive, PTL

\* Together: a scan ends with all there is, tells so, and leaves nothing behind.
THEOREM SoundScans == ScanSpec => []ScanIsSound
  BY ScanTypeCorrect, ReportCompleteness, BusyFlag, NoWorkerLeft, PTL DEF ScanIsSound

-----------------------------------------------------------------------------
(* The scanner implements the search its page sees. *)

LEMMA SearchInit == ScanInit => Search!Init
  BY DEF ScanInit, Search!Init

\* A visit finds a repository, or shows nothing outside.
LEMMA VisitFinds ==
  ASSUME ScanInv, NEW w \in Worker, Visit(w)
  PROVE  [Search!Next]_Search!vars
<1>1. running
  BY DEF ScanInv, ScanEnded, Visit
<1>2. cur[w] \in Reach
  BY DEF ScanInv, ScanTypeOK, Visit, Within, InFlight
<1>3. CASE cur[w] \in RepoDir \ repos
  <2>1. Search!Find(cur[w])
    BY <1>1, <1>3 DEF Visit, watcher, Search!Find
  <2> QED BY <1>2, <1>3, <2>1 DEF Search!Next
<1>4. CASE cur[w] \notin RepoDir \ repos
  BY <1>4 DEF Visit, watcher, Search!vars
<1> QED BY <1>3, <1>4

LEMMA SearchStep == ScanInv /\ [ScanNext]_scanVars => [Search!Next]_Search!vars
<1> SUFFICES ASSUME ScanInv, [ScanNext]_scanVars PROVE [Search!Next]_Search!vars
  OBVIOUS
<1>1. CASE Scan
  BY <1>1 DEF Scan, Search!Begin, Search!Next
<1>2. CASE Stop
  BY <1>2 DEF Stop, shared, watcher, Search!Stop, Search!Next
<1>3. CASE OnFinished
  BY <1>3 DEF OnFinished, shared, Search!Deliver, Search!Next
<1>4. CASE Return
  BY <1>4, Exhausted DEF Return, shared, Search!End, Search!Next
<1>5. ASSUME NEW w \in Worker, Start(w) \/ Check(w) \/ TakeOrLeave(w) \/ PushChildren(w)
      PROVE  UNCHANGED Search!vars
  BY <1>5 DEF Start, Check, TakeOrLeave, PushChildren, shared, watcher, Search!vars
<1>6. CASE UNCHANGED scanVars
  BY <1>6 DEF scanVars, Search!vars
<1> QED BY <1>1, <1>2, <1>3, <1>4, <1>5, <1>6, VisitFinds DEF ScanNext, Work

\* Every behaviour of the scanner is one of the search: it never ends short
\* of a repository unless stopped, and delivers what it found.
THEOREM Implements == ScanSpec => ImplementsSearch
  BY SearchInit, SearchStep, ScanInductive, PTL DEF ScanSpec, Search!Spec, ImplementsSearch

-----------------------------------------------------------------------------
(* No directory is met twice. *)

\* A directory that was met is the root or a child of one that was visited.
Parented ==
  /\ \A d \in queue \cup visited : d = Root \/ \E e \in visited : d \in Children[e]
  /\ \A w \in Worker : pc[w] = "visit" => cur[w] = Root \/ \E e \in visited : cur[w] \in Children[e]
  /\ \A w \in Worker : \A d \in kids[w] : \E e \in visited : d \in Children[e]

\* It is in one place: the queue, the hands of one worker, or visited.
InOnePlace ==
  /\ queue \cap visited = {}
  /\ \A w \in Worker : kids[w] \cap (queue \cup visited) = {}
  /\ \A w \in Worker : pc[w] = "visit" => cur[w] \notin queue \cup visited
  /\ \A v, w \in Worker : pc[w] = "visit" => cur[w] \notin kids[v]
  /\ \A v, w \in Worker : v # w /\ pc[v] = "visit" /\ pc[w] = "visit" => cur[v] # cur[w]
  /\ \A v, w \in Worker : v # w => kids[v] \cap kids[w] = {}

OnceInv == ScanTypeOK /\ Parented /\ InOnePlace

LEMMA OnceTaken ==
  ASSUME OnceInv, ScanTypeOK', NEW w \in Worker, TakeOrLeave(w)
  PROVE  OnceInv'
<1>1. CASE queue = {} /\ pc' = [pc EXCEPT ![w] = "done"] /\ UNCHANGED <<queue, cur>>
  BY <1>1 DEF OnceInv, ScanTypeOK, TakeOrLeave, Parented, InOnePlace
<1>2. ASSUME NEW d \in queue, queue' = queue \ {d}, cur' = [cur EXCEPT ![w] = d],
             pc' = [pc EXCEPT ![w] = "visit"]
      PROVE  OnceInv'
  <2>1. kids' = kids /\ visited' = visited /\ pc'[w] = "visit" /\ cur'[w] = d
        /\ \A v \in Worker : v # w => pc'[v] = pc[v] /\ cur'[v] = cur[v]
    BY <1>2 DEF OnceInv, ScanTypeOK, TakeOrLeave
  <2>2. Parented'
    BY <1>2, <2>1 DEF OnceInv, Parented
  <2>3. InOnePlace'
    BY <1>2, <2>1 DEF OnceInv, InOnePlace
  <2> QED BY <2>2, <2>3 DEF OnceInv
<1> QED BY <1>1, <1>2 DEF TakeOrLeave

\* The children of a directory that was not visited have not been met: a path
\* has one parent.
LEMMA OnceVisited ==
  ASSUME OnceInv, ScanTypeOK', NEW w \in Worker, Visit(w)
  PROVE  OnceInv'
<1>1. cur[w] \in Dir /\ pc[w] = "visit" /\ kids \in [Worker -> SUBSET Dir] /\ visited \subseteq Dir /\ queue \subseteq Dir
  BY DEF OnceInv, ScanTypeOK, Visit
<1>2. /\ kids'[w] = Children[cur[w]] /\ visited' = visited \cup {cur[w]} /\ pc'[w] = "push"
      /\ queue' = queue /\ cur' = cur
      /\ \A v \in Worker : v # w => pc'[v] = pc[v] /\ kids'[v] = kids[v]
  BY <1>1 DEF OnceInv, ScanTypeOK, Visit
<1>3. cur[w] \notin queue \cup visited
  BY <1>1 DEF OnceInv, InOnePlace
<1>4. ASSUME NEW c \in Children[cur[w]]
      PROVE  /\ c # Root /\ c \in Dir /\ ~\E e \in visited : c \in Children[e]
  <2>1. c # Root /\ c \in Dir
    BY <1>1, <1>4, DirAssumption
  <2>2. ASSUME NEW e \in visited, c \in Children[e] PROVE FALSE
    <3>1. e = cur[w]
      BY <1>1, <1>4, <2>2, DirAssumption
    <3> QED BY <1>3, <3>1
  <2> QED BY <2>1, <2>2
<1>5. /\ Children[cur[w]] \cap (queue \cup visited) = {}
      /\ \A v \in Worker : kids[v] \cap Children[cur[w]] = {}
      /\ \A v \in Worker : pc[v] = "visit" => cur[v] \notin Children[cur[w]]
  BY <1>4 DEF OnceInv, Parented
<1>6. Parented'
  BY <1>1, <1>2 DEF OnceInv, Parented
<1>7. InOnePlace'
  <2>1. /\ queue \cap visited' = {}
        /\ \A v \in Worker : kids'[v] \cap (queue \cup visited') = {}
    BY <1>1, <1>2, <1>3, <1>5 DEF OnceInv, InOnePlace
  <2>2. /\ \A v \in Worker : pc'[v] = "visit" => cur[v] \notin queue \cup visited'
        /\ \A v, u \in Worker : pc'[u] = "visit" => cur[u] \notin kids'[v]
        /\ \A v, u \in Worker : v # u /\ pc'[v] = "visit" /\ pc'[u] = "visit" => cur[v] # cur[u]
    BY <1>1, <1>2, <1>3, <1>5 DEF OnceInv, InOnePlace
  <2>3. \A v, u \in Worker : v # u => kids'[v] \cap kids'[u] = {}
    BY <1>1, <1>2, <1>5 DEF OnceInv, InOnePlace
  <2> QED BY <1>2, <2>1, <2>2, <2>3 DEF InOnePlace
<1> QED BY <1>6, <1>7 DEF OnceInv

LEMMA OncePushed ==
  ASSUME OnceInv, ScanTypeOK', NEW w \in Worker, PushChildren(w)
  PROVE  OnceInv'
<1>1. CASE kids[w] = {} /\ pc' = [pc EXCEPT ![w] = "loop"] /\ UNCHANGED <<queue, kids>>
  BY <1>1 DEF OnceInv, ScanTypeOK, PushChildren, Parented, InOnePlace
<1>2. ASSUME NEW d \in kids[w], queue' = queue \cup {d}, kids' = [kids EXCEPT ![w] = @ \ {d}],
             UNCHANGED pc
      PROVE  OnceInv'
  <2>1. /\ kids'[w] = kids[w] \ {d} /\ visited' = visited /\ pc' = pc /\ cur' = cur
        /\ \A v \in Worker : v # w => kids'[v] = kids[v]
    BY <1>2 DEF OnceInv, ScanTypeOK, PushChildren
  <2>2. Parented'
    BY <1>2, <2>1 DEF OnceInv, Parented
  <2>3. InOnePlace'
    BY <1>2, <2>1 DEF OnceInv, InOnePlace
  <2> QED BY <2>2, <2>3 DEF OnceInv
<1> QED BY <1>1, <1>2 DEF PushChildren

LEMMA OnceStep == OnceInv /\ ScanTypeOK' /\ [ScanNext]_scanVars => OnceInv'
<1> SUFFICES ASSUME OnceInv, ScanTypeOK', [ScanNext]_scanVars PROVE OnceInv'
  OBVIOUS
<1>1. CASE Scan
  BY <1>1 DEF OnceInv, Scan, Parented, InOnePlace
<1>2. ASSUME UNCHANGED <<queue, visited, pc, cur, kids>> PROVE OnceInv'
  BY <1>2 DEF OnceInv, Parented, InOnePlace
<1>3. CASE Stop \/ OnFinished \/ Return \/ UNCHANGED scanVars
  BY <1>2, <1>3 DEF Stop, OnFinished, Return, shared, watcher, scanVars
<1>4. ASSUME NEW w \in Worker, Start(w) \/ Check(w) PROVE OnceInv'
  <2>1. /\ UNCHANGED <<queue, visited, cur, kids>>
        /\ \A v \in Worker : pc'[v] = "visit" => pc[v] = "visit"
    BY <1>4 DEF OnceInv, ScanTypeOK, Start, Check, shared
  <2> QED BY <2>1 DEF OnceInv, Parented, InOnePlace
<1> QED BY <1>1, <1>3, <1>4, OnceTaken, OnceVisited, OncePushed DEF ScanNext, Work

\* A directory that a worker takes was not visited before in the same scan, so
\* no repository is listed twice.
THEOREM NeverRevisits == ScanSpec => NoRevisit
<1> DEFINE A == \A w \in Worker : pc[w] = "take" /\ pc'[w] = "visit" => cur'[w] \notin visited
<1>1. ScanInit => OnceInv
  <2> SUFFICES ASSUME ScanInit PROVE OnceInv
    OBVIOUS
  <2>1. ScanTypeOK
    BY DirAssumption, PoolAssumption DEF ScanInit, ScanTypeOK, ScanPC
  <2> QED BY <2>1 DEF ScanInit, OnceInv, Parented, InOnePlace
<1>2. ASSUME OnceInv, ScanNext, NEW w \in Worker, pc[w] = "take", pc'[w] = "visit"
      PROVE  cur'[w] \notin visited
  <2>1. TakeOrLeave(w)
    <3>1. ASSUME NEW v \in Worker, v # w, Start(v) \/ Work(v) PROVE FALSE
      BY <1>2, <3>1 DEF OnceInv, ScanTypeOK, Start, Work, Check, TakeOrLeave, Visit, PushChildren
    <3>2. ~Start(w) /\ ~Check(w) /\ ~Visit(w) /\ ~PushChildren(w)
      BY <1>2 DEF Start, Check, Visit, PushChildren
    <3>3. ~Scan /\ ~Stop /\ ~OnFinished /\ ~Return
      BY <1>2 DEF Scan, Stop, OnFinished, Return
    <3> QED BY <1>2, <3>1, <3>2, <3>3 DEF ScanNext, Work
  <2>2. PICK d \in queue : cur' = [cur EXCEPT ![w] = d]
    BY <1>2, <2>1 DEF OnceInv, ScanTypeOK, TakeOrLeave
  <2> QED BY <1>2, <2>2 DEF OnceInv, ScanTypeOK, InOnePlace
<1>3. OnceInv /\ [ScanNext]_scanVars => [A]_scanVars
  BY <1>2
<1>4. ScanSpec => [][A]_scanVars
  BY <1>1, <1>3, OnceStep, ScanTypeCorrect, PTL DEF ScanSpec
<1> QED BY <1>4 DEF NoRevisit

-----------------------------------------------------------------------------
(***************************************************************************)
(* The guard flags of the remote operations tell the truth, a pull that    *)
(* was analysed on its own branch takes no commit from any, and a pull     *)
(* that nothing crossed brings all the remote had; for any branches,       *)
(* commits and number of threads. The strengthening follows the values a   *)
(* pull has read: what it saw is still recorded, what it looked up is      *)
(* still part of the branch, and what it moved the branch to is still      *)
(* there when it resets.                                                   *)
(***************************************************************************)

PullOnly == {"head", "lookup", "analyse", "move", "setHead", "reset"}
Fetching == {"fetch", "update"}

\* Where a task is tells what it is.
KindAtPC(t) ==
  /\ task[t].pc \in PullOnly => task[t].kind = "pull"
  /\ task[t].pc \in {"push", "record"} => task[t].kind = "push"
  /\ task[t].pc \in Fetching => task[t].kind \in {"fetch", "pull"}
  /\ task[t].pc = "idle" => task[t].kind = None
  /\ task[t].kind = None => task[t] = NoTask

\* A pull past its first step has a branch, and a push always.
HasBranch(t) ==
  /\ task[t].pc \in (PullOnly \ {"head"}) \cup {"push", "record"} => task[t].branch \in Branch
  /\ task[t].kind = "pull" /\ task[t].pc \in Fetching => task[t].branch \in Branch

\* The branch a pull looked up still has what was looked up, and is to be
\* moved forward if it was analysed.
LookedUp(t) ==
  /\ task[t].pc = "analyse" => task[t].old \subseteq tips[task[t].branch]
  /\ task[t].pc = "move" /\ task[t].onto = task[t].branch => task[t].old \subseteq task[t].new

\* Between the move and the reset the branch is where it was moved to, and HEAD
\* on it, unless a commit or a checkout came too late.
Moved(t) ==
  task[t].kind = "pull" /\ ~task[t].late =>
    /\ task[t].pc \in {"setHead", "reset"} => tips[task[t].branch] = task[t].new
    /\ task[t].pc = "reset" => head = task[t].branch

\* A pull that nothing crossed is on its branch; what the remote told it is
\* recorded, and looked up.
Seen == {"update", "lookup", "analyse", "move", "setHead", "reset"}

Uncrossed(t) ==
  task[t].kind = "pull" /\ ~task[t].crossed =>
    /\ task[t].pc \in Seen \cup {"fetch"} => head = task[t].branch
    /\ task[t].pc = "lookup" => \A b \in Branch : task[t].seen[b] \subseteq tracking[b]
    /\ task[t].pc \in {"analyse", "move", "setHead", "reset"}
         => task[t].seen[task[t].branch] \subseteq task[t].new

TaskOK(t) == KindAtPC(t) /\ HasBranch(t) /\ LookedUp(t) /\ Moved(t) /\ Uncrossed(t)

IInv == /\ TypeOK /\ FlagsTellTruth
        /\ \A t \in Task : TaskOK(t)

-----------------------------------------------------------------------------
(* Types. *)

LEMMA NoTaskType == NoTask \in TaskState
  BY DEF NoTask, TaskState, PC, Tips, Commit

LEMMA Becoming ==
  ASSUME TypeOK, NEW t \in Task, NEW r \in TaskState, Becomes(t, r)
  PROVE  /\ task' \in [Task -> TaskState]
         /\ task'[t] = r
         /\ \A u \in Task \ {t} : task'[u] = task[u]
  BY DEF Becomes, TypeOK

LEMMA EndedType ==
  ASSUME TypeOK, NEW t \in Task, NEW s \in BOOLEAN
  PROVE  /\ Ended(t, s) \in TaskState
         /\ Ended(t, s).kind = task[t].kind /\ Ended(t, s).pc = "done"
         /\ Ended(t, s).ok = s
  BY NoTaskType DEF Ended, TypeOK, TaskState, PC, NoTask

\* What each step makes of its task.
LEMMA StepTypes ==
  ASSUME TypeOK, NEW t \in Task
  PROVE  /\ task[t].branch \in {head, None}
              => [task[t] EXCEPT !.branch = head, !.pc = "fetch"] \in TaskState
         /\ [task[t] EXCEPT !.seen = server, !.pc = "update"] \in TaskState
         /\ task[t].branch \in Branch
              => [task[t] EXCEPT !.old = tips[task[t].branch],
                                 !.new = tracking[task[t].branch], !.pc = "analyse"] \in TaskState
         /\ [task[t] EXCEPT !.onto = head, !.pc = "move"] \in TaskState
         /\ \A c \in PC : [task[t] EXCEPT !.pc = c] \in TaskState
<1>1. task[t] \in TaskState
  BY DEF TypeOK
<1>2. head \in Branch /\ server \in Tips /\ \A b \in Branch : tips[b] \in Commit /\ tracking[b] \in Commit
  BY DEF TypeOK, Tips
<1>3. {"fetch", "update", "analyse", "move"} \subseteq PC
  BY DEF PC
<1>4. [task[t] EXCEPT !.branch = head, !.pc = "fetch"] \in TaskState
  BY <1>1, <1>2, <1>3 DEF TaskState
<1>5. [task[t] EXCEPT !.seen = server, !.pc = "update"] \in TaskState
  BY <1>1, <1>2, <1>3 DEF TaskState
<1>6. ASSUME task[t].branch \in Branch
      PROVE  [task[t] EXCEPT !.old = tips[task[t].branch],
                             !.new = tracking[task[t].branch], !.pc = "analyse"] \in TaskState
  BY <1>1, <1>2, <1>3, <1>6 DEF TaskState
<1>7. [task[t] EXCEPT !.onto = head, !.pc = "move"] \in TaskState
  BY <1>1, <1>2, <1>3 DEF TaskState
<1>8. \A c \in PC : [task[t] EXCEPT !.pc = c] \in TaskState
  BY <1>1 DEF TaskState
<1> QED BY <1>4, <1>5, <1>6, <1>7, <1>8

-----------------------------------------------------------------------------
(* The tasks a step does not advance. *)

\* A task that goes on as it was, but for what its history says of the others.
Kept(u) ==
  /\ task'[u].kind = task[u].kind /\ task'[u].pc = task[u].pc
  /\ task'[u].branch = task[u].branch /\ task'[u].seen = task[u].seen
  /\ task'[u].old = task[u].old /\ task'[u].new = task[u].new /\ task'[u].onto = task[u].onto
  /\ task[u].crossed => task'[u].crossed
  /\ task[u].late => task'[u].late
  /\ task[u].kind = None => task'[u] = task[u]

LEMMA KeptWhenMarked ==
  ASSUME TypeOK, NEW u \in Task, KindAtPC(u), NEW c \in BOOLEAN, NEW l \in BOOLEAN,
         c \/ l => task[u].pc # "idle",
         task'[u] = [task[u] EXCEPT !.crossed = @ \/ c, !.late = @ \/ l]
  PROVE  Kept(u) /\ task'[u] \in TaskState
         /\ task'[u].crossed = (task[u].crossed \/ c) /\ task'[u].late = (task[u].late \/ l)
<1>1. task[u] \in TaskState
  BY DEF TypeOK
<1>2. ASSUME task[u].kind = None PROVE task'[u] = task[u]
  <2>1. task[u] = NoTask /\ NoTask.pc = "idle" /\ NoTask.crossed = FALSE /\ NoTask.late = FALSE
    BY <1>2 DEF KindAtPC, NoTask
  <2>2. c = FALSE /\ l = FALSE
    BY <2>1
  <2>3. task'[u] = [NoTask EXCEPT !.crossed = FALSE, !.late = FALSE]
    BY <2>1, <2>2
  <2>4. [NoTask EXCEPT !.crossed = FALSE, !.late = FALSE] = NoTask
    <3>1. ASSUME NEW n \in TaskState, n.crossed = FALSE, n.late = FALSE
          PROVE  [n EXCEPT !.crossed = FALSE, !.late = FALSE] = n
      <4>1. [n EXCEPT !.crossed = FALSE] = n
        BY <3>1 DEF TaskState
      <4>2. [n EXCEPT !.late = FALSE] = n
        BY <3>1 DEF TaskState
      <4>3. [n EXCEPT !.crossed = FALSE, !.late = FALSE] = [[n EXCEPT !.crossed = FALSE] EXCEPT !.late = FALSE]
        BY DEF TaskState
      <4> QED BY <4>1, <4>2, <4>3
    <3> QED BY <2>1, <3>1, NoTaskType
  <2> QED BY <2>1, <2>3, <2>4
<1> HIDE DEF KindAtPC
<1>3. /\ task'[u] \in TaskState
      /\ task'[u].kind = task[u].kind /\ task'[u].pc = task[u].pc
      /\ task'[u].branch = task[u].branch /\ task'[u].seen = task[u].seen
      /\ task'[u].old = task[u].old /\ task'[u].new = task[u].new /\ task'[u].onto = task[u].onto
      /\ task'[u].crossed = (task[u].crossed \/ c) /\ task'[u].late = (task[u].late \/ l)
  BY <1>1 DEF TaskState
<1> QED BY <1>2, <1>3 DEF Kept

LEMMA KeptWhenSame ==
  ASSUME NEW u \in Task, task'[u] = task[u]
  PROVE  Kept(u)
  BY DEF Kept

\* It stays right when its branch only grows and, if its history says nothing
\* else, what it goes by is left alone.
LEMMA Untouched ==
  ASSUME TypeOK, NEW u \in Task, TaskOK(u), Kept(u),
         task[u].kind = "pull" => \A b \in Branch : tips[b] \subseteq tips'[b],
         task[u].kind = "pull" /\ ~task'[u].crossed =>
           /\ head' = head
           /\ task[u].pc = "lookup" => \A b \in Branch : task[u].seen[b] \subseteq tracking'[b],
         task[u].kind = "pull" /\ ~task'[u].late =>
           /\ task[u].pc \in {"setHead", "reset"} => tips'[task[u].branch] = tips[task[u].branch]
           /\ task[u].pc = "reset" => head' = head
  PROVE  TaskOK(u)'
<1>1. KindAtPC(u)' /\ HasBranch(u)'
  BY DEF TaskOK, KindAtPC, HasBranch, Kept, NoTask
<1>2. LookedUp(u)'
  BY DEF TaskOK, KindAtPC, HasBranch, LookedUp, PullOnly, Kept
<1>3. Uncrossed(u)'
  BY DEF TaskOK, Uncrossed, Seen, Kept
<1>4. Moved(u)'
  BY DEF TaskOK, Moved, Kept
<1> QED BY <1>1, <1>2, <1>3, <1>4 DEF TaskOK

\* A task the step does not know of, in a repository that stays.
LEMMA Bystander ==
  ASSUME TypeOK, NEW u \in Task, TaskOK(u), task'[u] = task[u], UNCHANGED repository
  PROVE  TaskOK(u)'
<1>1. Kept(u) /\ head' = head /\ tips' = tips /\ tracking' = tracking
  BY KeptWhenSame DEF repository
<1>2. task[u].kind = "pull" /\ ~task[u].crossed /\ task[u].pc = "lookup"
        => \A b \in Branch : task[u].seen[b] \subseteq tracking[b]
  BY DEF TaskOK, Uncrossed
<1> QED BY <1>1, <1>2, Untouched

\* The flags follow when the kinds of the tasks stay.
LEMMA FlagsKept ==
  ASSUME FlagsTellTruth, UNCHANGED flags, \A u \in Task : task'[u].kind = task[u].kind
  PROVE  FlagsTellTruth'
  BY DEF FlagsTellTruth, Running, flags

\* A task that starts raises its flag.
LEMMA FlagsRaised ==
  ASSUME FlagsTellTruth, NEW t \in Task, task[t].kind = None,
         \A u \in Task \ {t} : task'[u] = task[u],
         \/ task'[t].kind = "fetch" /\ UNCHANGED flags
         \/ task'[t].kind = "pull" /\ ~pullInProgress /\ pullInProgress' /\ UNCHANGED pushInProgress
         \/ task'[t].kind = "push" /\ ~pushInProgress /\ pushInProgress' /\ UNCHANGED pullInProgress
  PROVE  FlagsTellTruth'
<1>1. /\ pullInProgress <=> \E u \in Task : task[u].kind = "pull"
      /\ pushInProgress <=> \E u \in Task : task[u].kind = "push"
      /\ \A u, v \in Task : task[u].kind = task[v].kind /\ task[u].kind \in {"pull", "push"} => u = v
  BY DEF FlagsTellTruth, Running
<1>2. task[t].kind # "pull" /\ task[t].kind # "push"
  BY DEF None
<1>3. /\ pullInProgress' <=> \E u \in Task : task'[u].kind = "pull"
      /\ pushInProgress' <=> \E u \in Task : task'[u].kind = "push"
  BY <1>1, <1>2 DEF flags
<1>4. ASSUME NEW u \in Task, NEW v \in Task,
             task'[u].kind = task'[v].kind, task'[u].kind \in {"pull", "push"}
      PROVE  u = v
  BY <1>1, <1>2, <1>4 DEF flags
<1> QED BY <1>3, <1>4 DEF FlagsTellTruth, Running

-----------------------------------------------------------------------------
(* One step. *)

LEMMA InitInv == Init => IInv
<1> SUFFICES ASSUME Init PROVE IInv
  OBVIOUS
<1>1. \A t \in Task : task[t] = NoTask
  BY DEF Init
<1>2. TypeOK
  BY NoTaskType DEF Init, TypeOK, Tips, Commit
<1>3. NoTask.kind = None /\ NoTask.pc = "idle"
  BY DEF NoTask
<1>4. FlagsTellTruth
  BY <1>1, <1>3 DEF Init, FlagsTellTruth, Running, None
<1>5. \A t \in Task : TaskOK(t)
  BY <1>1, <1>3 DEF TaskOK, KindAtPC, HasBranch, LookedUp, Moved, Uncrossed, PullOnly, Fetching, Seen, None
<1> QED BY <1>2, <1>4, <1>5 DEF IInv

\* A step that only advances its own task.
LEMMA OwnStep ==
  ASSUME IInv, NEW t \in Task, NEW r \in TaskState, Becomes(t, r),
         UNCHANGED <<repository, server, made>>, flags' \in BOOLEAN \X BOOLEAN,
         FlagsTellTruth', TaskOK(t)'
  PROVE  IInv'
<1>1. task' \in [Task -> TaskState] /\ \A u \in Task \ {t} : task'[u] = task[u]
  BY Becoming DEF IInv
<1>2. TypeOK'
  BY <1>1 DEF IInv, TypeOK, repository, flags
<1>3. ASSUME NEW u \in Task \ {t} PROVE TaskOK(u)'
  <2>1. TypeOK /\ TaskOK(u) /\ task'[u] = task[u] /\ u \in Task
    BY <1>1 DEF IInv
  <2> QED BY <2>1, Bystander
<1> QED BY <1>2, <1>3 DEF IInv

LEMMA StartStep ==
  ASSUME IInv, NEW t \in Task,
         \/ StartFetch(t)
         \/ \E b \in Branch \cup {None} : StartPull(t, b)
         \/ \E forced \in BOOLEAN : StartPush(t, forced)
         \/ Deliver(t)
  PROVE  IInv'
<1>0. TypeOK /\ FlagsTellTruth /\ NoTask.kind = None /\ NoTask.pc = "idle"
  BY DEF IInv, NoTask
<1>1. CASE StartFetch(t)
  <2> DEFINE r == [NoTask EXCEPT !.kind = "fetch", !.pc = "fetch"]
  <2>1. r \in TaskState /\ r.kind = "fetch" /\ r.pc = "fetch"
    BY NoTaskType DEF TaskState, PC
  <2>2. Becomes(t, r) /\ task[t] = NoTask
    BY <1>1 DEF StartFetch, Started
  <2>3. task'[t] = r /\ \A u \in Task \ {t} : task'[u] = task[u]
    BY <1>0, <2>1, <2>2, Becoming
  <2>4. FlagsTellTruth'
    BY <1>0, <1>1, <2>1, <2>2, <2>3, FlagsRaised DEF StartFetch
  <2>5. TaskOK(t)'
    BY <2>1, <2>3 DEF TaskOK, KindAtPC, HasBranch, LookedUp, Moved, Uncrossed, PullOnly, Fetching, Seen, None
  <2> QED BY <1>0, <1>1, <2>1, <2>2, <2>4, <2>5, OwnStep DEF StartFetch, Started, TypeOK, flags
<1>2. CASE \E b \in Branch \cup {None} : StartPull(t, b)
  <2> PICK b \in Branch \cup {None} : StartPull(t, b)
    BY <1>2
  <2> DEFINE r == [NoTask EXCEPT !.kind = "pull", !.pc = "head", !.branch = b]
  <2>1. r \in TaskState /\ r.kind = "pull" /\ r.pc = "head"
    BY NoTaskType DEF TaskState, PC
  <2>2. Becomes(t, r) /\ task[t] = NoTask /\ ~pullInProgress /\ pullInProgress'
    BY DEF StartPull, Started
  <2>3. task'[t] = r /\ \A u \in Task \ {t} : task'[u] = task[u]
    BY <1>0, <2>1, <2>2, Becoming
  <2>4. FlagsTellTruth'
    BY <1>0, <2>1, <2>2, <2>3, FlagsRaised DEF StartPull
  <2>5. TaskOK(t)'
    BY <2>1, <2>3 DEF TaskOK, KindAtPC, HasBranch, LookedUp, Moved, Uncrossed, PullOnly, Fetching, Seen, None
  <2> QED BY <1>0, <2>1, <2>2, <2>4, <2>5, OwnStep DEF StartPull, Started, TypeOK, flags
<1>3. CASE \E forced \in BOOLEAN : StartPush(t, forced)
  <2> PICK forced \in BOOLEAN : StartPush(t, forced)
    BY <1>3
  <2> DEFINE r == [NoTask EXCEPT !.kind = "push", !.pc = "push", !.branch = head, !.force = forced]
  <2>0. head \in Branch
    BY <1>0 DEF TypeOK
  <2>1. r \in TaskState /\ r.kind = "push" /\ r.pc = "push" /\ r.branch = head
    BY <2>0, NoTaskType DEF TaskState, PC
  <2>2. Becomes(t, r) /\ task[t] = NoTask /\ ~pushInProgress /\ pushInProgress'
    BY DEF StartPush, Started
  <2>3. task'[t] = r /\ \A u \in Task \ {t} : task'[u] = task[u]
    BY <1>0, <2>1, <2>2, Becoming
  <2>4. FlagsTellTruth'
    BY <1>0, <2>1, <2>2, <2>3, FlagsRaised DEF StartPush
  <2>5. TaskOK(t)'
    BY <2>0, <2>1, <2>3 DEF TaskOK, KindAtPC, HasBranch, LookedUp, Moved, Uncrossed, PullOnly, Fetching, Seen, None
  <2> QED BY <1>0, <2>1, <2>2, <2>4, <2>5, OwnStep DEF StartPush, Started, TypeOK, flags
<1>4. CASE Deliver(t)
  <2>1. Becomes(t, NoTask)
    BY <1>4 DEF Deliver
  <2>2. task'[t] = NoTask /\ \A u \in Task \ {t} : task'[u] = task[u]
    BY <1>0, <2>1, NoTaskType, Becoming
  <2>3. FlagsTellTruth'
    BY <1>0, <1>4, <2>2 DEF FlagsTellTruth, Running, Deliver, None
  <2>4. TaskOK(t)'
    BY <1>0, <2>2 DEF TaskOK, KindAtPC, HasBranch, LookedUp, Moved, Uncrossed, PullOnly, Fetching, Seen, None
  <2> QED BY <1>0, <1>4, <2>1, <2>3, <2>4, NoTaskType, OwnStep DEF Deliver, TypeOK, flags
<1> QED BY <1>1, <1>2, <1>3, <1>4

-----------------------------------------------------------------------------
(* The steps of the threads. *)

\* A step that only advances its own task, which stays what it is.
LEMMA Advance ==
  ASSUME IInv, NEW t \in Task, NEW r \in TaskState, Becomes(t, r), r.kind = task[t].kind,
         UNCHANGED <<repository, server, made, flags>>, TaskOK(t)'
  PROVE  IInv'
<1>1. task'[t] = r /\ \A u \in Task \ {t} : task'[u] = task[u]
  BY Becoming DEF IInv
<1>2. \A u \in Task : task'[u].kind = task[u].kind
  BY <1>1
<1>3. FlagsTellTruth'
  BY <1>2, FlagsKept DEF IInv
<1>4. flags' \in BOOLEAN \X BOOLEAN
  BY DEF IInv, TypeOK, flags
<1> QED BY <1>3, <1>4, OwnStep

LEMMA EndedOK ==
  ASSUME IInv, NEW t \in Task, NEW s \in BOOLEAN, task'[t] = Ended(t, s), task[t].pc # "idle"
  PROVE  TaskOK(t)'
<1>1. task[t].kind # None
  BY DEF IInv, TaskOK, KindAtPC, NoTask
<1>2. task'[t].kind = task[t].kind /\ task'[t].pc = "done"
  BY EndedType DEF IInv
<1> QED BY <1>1, <1>2 DEF TaskOK, KindAtPC, HasBranch, LookedUp, Moved, Uncrossed, PullOnly, Fetching, Seen

LEMMA EndStep ==
  ASSUME IInv, NEW t \in Task, NEW s \in BOOLEAN, Ends(t, s), task[t].pc # "idle",
         UNCHANGED <<repository, server, made, flags>>
  PROVE  IInv'
<1>1. Ended(t, s) \in TaskState /\ Ended(t, s).kind = task[t].kind
  BY EndedType DEF IInv
<1>2. Becomes(t, Ended(t, s))
  BY DEF Ends
<1>3. task'[t] = Ended(t, s)
  BY <1>1, <1>2, Becoming DEF IInv
<1> QED BY <1>1, <1>2, <1>3, EndedOK, Advance

\* A step of the pull may change the repository: there is no other pull.
LEMMA PullStep ==
  ASSUME IInv, NEW t \in Task, task[t].kind = "pull",
         NEW r \in TaskState, r.kind = "pull", Becomes(t, r),
         head' \in Branch, tips' \in Tips, tracking' \in Tips, Aside, TaskOK(t)'
  PROVE  IInv'
<1>1. task' \in [Task -> TaskState] /\ task'[t] = r /\ \A u \in Task \ {t} : task'[u] = task[u]
  BY Becoming DEF IInv
<1>2. TypeOK'
  BY <1>1 DEF IInv, TypeOK, Aside, flags
<1>3. \A u \in Task : task'[u].kind = task[u].kind
  BY <1>1
<1>4. FlagsTellTruth'
  BY <1>3, FlagsKept DEF IInv, Aside
<1>5. ASSUME NEW u \in Task \ {t} PROVE TaskOK(u)'
  <2>1. task[u].kind # "pull"
    BY DEF IInv, FlagsTellTruth
  <2>2. Kept(u)
    BY <1>1, KeptWhenSame
  <2> QED BY <2>1, <2>2, Untouched DEF IInv
<1> QED BY <1>2, <1>4, <1>5 DEF IInv

\* What the remote was told or told is recorded: a pull whose tracking branches
\* lose something by it is crossed.
LEMMA RecordsStep ==
  ASSUME IInv, NEW t \in Task, NEW told \in Tips, NEW r \in TaskState, r.kind = task[t].kind,
         Records(t, told, r), TaskOK(t)'
  PROVE  IInv'
<1> DEFINE lost == \E b \in Branch : ~(tracking[b] \subseteq told[b])
<1>1. /\ TypeOK /\ tracking' = told /\ head' = head /\ tips' = tips
      /\ UNCHANGED <<server, made, flags>> /\ lost \in BOOLEAN
      /\ task' = [u \in Task |-> IF u = t THEN r
                      ELSE [task[u] EXCEPT !.crossed = @ \/ (lost /\ Pulls(u))]]
  BY DEF IInv, Records, Aside
<1>2. ASSUME NEW u \in Task \ {t}
      PROVE  Kept(u) /\ task'[u] \in TaskState /\ (~task'[u].crossed => ~(lost /\ Pulls(u)))
             /\ task'[u].late = task[u].late
  <2>0. task[u] \in TaskState /\ KindAtPC(u) /\ Pulls(u) \in BOOLEAN
        /\ (Pulls(u) => task[u].pc # "idle")
    BY <1>1 DEF IInv, TypeOK, TaskOK, KindAtPC, Pulls, None
  <2> DEFINE c == lost /\ Pulls(u)
  <2>1. task'[u] = [task[u] EXCEPT !.crossed = @ \/ c, !.late = @ \/ FALSE]
    BY <1>1, <2>0 DEF TaskState
  <2>2. c \in BOOLEAN /\ (c => task[u].pc # "idle")
    BY <1>1, <2>0
  <2>3. Kept(u) /\ task'[u] \in TaskState /\ task'[u].crossed = (task[u].crossed \/ c)
        /\ task'[u].late = (task[u].late \/ FALSE)
    <3> HIDE DEF c
    <3> QED BY <1>1, <2>0, <2>1, <2>2, KeptWhenMarked
  <2> HIDE DEF lost
  <2> QED BY <2>0, <2>3 DEF TaskState
<1>3. task'[t] = r /\ task' \in [Task -> TaskState]
  BY <1>1, <1>2
<1>4. TypeOK'
  BY <1>1, <1>3 DEF TypeOK, flags
<1>5. \A u \in Task : task'[u].kind = task[u].kind
  BY <1>2, <1>3 DEF Kept
<1>6. FlagsTellTruth'
  BY <1>1, <1>5, FlagsKept DEF IInv
<1>7. ASSUME NEW u \in Task \ {t} PROVE TaskOK(u)'
  <2>1. TaskOK(u) /\ (task[u].pc = "lookup" /\ task[u].kind = "pull" => Pulls(u))
    BY DEF IInv, Pulls
  <2>2. ASSUME task[u].kind = "pull", ~task'[u].crossed, task[u].pc = "lookup"
        PROVE  \A b \in Branch : task[u].seen[b] \subseteq tracking'[b]
    <3>1. ~lost /\ ~task[u].crossed
      BY <1>2, <2>1, <2>2 DEF Kept
    <3>2. \A b \in Branch : task[u].seen[b] \subseteq tracking[b]
      BY <2>1, <2>2, <3>1 DEF TaskOK, Uncrossed
    <3> QED BY <1>1, <3>1, <3>2
  <2> QED BY <1>1, <1>2, <2>1, <2>2, Untouched
<1> QED BY <1>4, <1>6, <1>7 DEF IInv

LEMMA CommitStep ==
  ASSUME IInv, UserCommit PROVE IInv'
<1>0. TypeOK /\ task \in [Task -> TaskState] /\ head \in Branch
  BY DEF IInv, TypeOK
<1>1. PICK c \in Mine \ made : tips' = [tips EXCEPT ![head] = @ \cup {c}] /\ made' = made \cup {c}
  BY DEF UserCommit
<1> DEFINE after(u) == task[u].pc \in {"setHead", "reset"} /\ task[u].branch = head
<1>2. ASSUME NEW u \in Task
      PROVE  Kept(u) /\ task'[u] \in TaskState /\ (~task'[u].late => ~after(u))
  <2>1. task[u] \in TaskState /\ KindAtPC(u) /\ after(u) \in BOOLEAN
        /\ (after(u) => task[u].pc # "idle")
    BY <1>0 DEF IInv, TaskOK
  <2>2. task'[u] = [task[u] EXCEPT !.crossed = @ \/ FALSE, !.late = @ \/ after(u)]
    BY <1>0, <2>1 DEF UserCommit, TaskState
  <2> HIDE DEF after
  <2> QED BY <1>0, <2>1, <2>2, KeptWhenMarked
<1>3. TypeOK'
  <2>1. task' \in [Task -> TaskState]
    BY <1>2 DEF UserCommit
  <2> QED BY <1>1, <2>1 DEF UserCommit, IInv, TypeOK, Tips, Commit, Change, flags
<1>4. /\ \A b \in Branch : tips[b] \subseteq tips'[b]
      /\ \A b \in Branch \ {head} : tips'[b] = tips[b]
  BY <1>1 DEF IInv, TypeOK, Tips
<1>5. ASSUME NEW u \in Task PROVE TaskOK(u)'
  <2>1. TaskOK(u)
    BY DEF IInv
  <2>2. task[u].kind = "pull" /\ ~task[u].crossed /\ task[u].pc = "lookup"
          => \A b \in Branch : task[u].seen[b] \subseteq tracking[b]
    BY <2>1 DEF TaskOK, Uncrossed
  <2>3. ~task'[u].crossed => ~task[u].crossed
    BY <1>2 DEF Kept
  <2>4. ~task'[u].late /\ task[u].pc \in {"setHead", "reset"}
          => tips'[task[u].branch] = tips[task[u].branch]
    <3>1. task[u].pc \in {"setHead", "reset"} => task[u].branch \in Branch
      BY <2>1 DEF TaskOK, HasBranch, PullOnly
    <3> QED BY <1>2, <1>4, <3>1
  <2>5. head' = head /\ tracking' = tracking
    BY DEF UserCommit
  <2> QED BY <1>0, <1>2, <1>4, <2>1, <2>2, <2>3, <2>4, <2>5, Untouched
<1>6. FlagsTellTruth'
  BY <1>2, FlagsKept DEF UserCommit, IInv, Kept
<1> QED BY <1>3, <1>5, <1>6 DEF IInv

LEMMA OthersPushStep ==
  ASSUME IInv, NEW b \in Branch, OthersPush(b) PROVE IInv'
<1>1. PICK c \in Theirs \ made :
        server' = [server EXCEPT ![b] = @ \cup {c}] /\ made' = made \cup {c}
  BY DEF OthersPush
<1>2. TypeOK'
  BY <1>1 DEF OthersPush, IInv, TypeOK, Tips, Commit, Change, flags, repository
<1>4. ASSUME NEW t \in Task PROVE TaskOK(t)'
  <2>1. task'[t] = task[t] /\ UNCHANGED repository /\ TypeOK /\ TaskOK(t)
    BY DEF OthersPush, IInv
  <2> QED BY <2>1, Bystander
<1>5. FlagsTellTruth'
  BY FlagsKept DEF OthersPush, IInv
<1> QED BY <1>2, <1>4, <1>5 DEF IInv

LEMMA CheckoutStep ==
  ASSUME IInv, NEW b \in Branch, Checkout(b) PROVE IInv'
<1>1. TypeOK /\ UNCHANGED <<tips, tracking, server, made, flags>> /\ head' \in Branch
  BY DEF Checkout, IInv
<1> DEFINE resets(u) == task[u].pc = "reset"
<1>2. ASSUME NEW u \in Task
      PROVE  Kept(u) /\ task'[u] \in TaskState /\ (~task'[u].crossed => ~Pulls(u))
             /\ (~task'[u].late => task[u].pc # "reset")
  <2>1. task[u] \in TaskState /\ KindAtPC(u) /\ Pulls(u) \in BOOLEAN /\ resets(u) \in BOOLEAN
        /\ (Pulls(u) \/ resets(u) => task[u].pc # "idle")
    BY <1>1 DEF IInv, TypeOK, TaskOK, KindAtPC, Pulls, None, NoTask
  <2>2. task'[u] = [task[u] EXCEPT !.crossed = @ \/ Pulls(u), !.late = @ \/ resets(u)]
    BY DEF Checkout
  <2>3. Kept(u) /\ task'[u] \in TaskState /\ task'[u].crossed = (task[u].crossed \/ Pulls(u))
        /\ task'[u].late = (task[u].late \/ resets(u))
    <3> HIDE DEF resets
    <3> QED BY <1>1, <2>1, <2>2, KeptWhenMarked
  <2> QED BY <2>3
<1>3. TypeOK'
  <2>1. task' \in [Task -> TaskState]
    BY <1>2 DEF Checkout
  <2> QED BY <1>1, <2>1 DEF TypeOK, flags
<1>4. ASSUME NEW u \in Task PROVE TaskOK(u)'
  <2>1. TaskOK(u) /\ (task[u].kind = "pull" /\ task[u].pc # "done" => Pulls(u))
    BY DEF IInv, Pulls
  <2>2. CASE task[u].pc = "done"
    <3>1. task'[u].pc = "done" /\ task'[u].kind = task[u].kind /\ task[u].kind # None
      BY <1>2, <2>1, <2>2 DEF TaskOK, KindAtPC, Kept, NoTask
    <3> QED BY <3>1 DEF TaskOK, KindAtPC, HasBranch, LookedUp, Moved, Uncrossed, PullOnly, Fetching, Seen
  <2>3. CASE task[u].pc # "done"
    <3>1. task[u].kind = "pull" => task'[u].crossed
      BY <1>2, <2>1, <2>3
    <3> QED BY <1>1, <1>2, <2>1, <3>1, Untouched
  <2> QED BY <2>2, <2>3
<1>5. FlagsTellTruth'
  BY <1>1, <1>2, FlagsKept DEF IInv, Kept
<1> QED BY <1>3, <1>4, <1>5 DEF IInv

LEMMA FailsStep ==
  ASSUME IInv, NEW t \in Task, Fails(t) PROVE IInv'
  BY EndStep DEF Fails, Aside

LEMMA ReadHeadStep ==
  ASSUME IInv, NEW t \in Task, ReadHead(t) PROVE IInv'
<1>1. CASE task[t].branch \in {head, None}
  <2> DEFINE r == [task[t] EXCEPT !.branch = head, !.pc = "fetch"]
  <2>0. TypeOK /\ task[t] \in TaskState /\ head \in Branch
    BY DEF IInv, TypeOK
  <2>1. r \in TaskState
    BY <1>1, <2>0, StepTypes
  <2>2. r.kind = task[t].kind /\ r.pc = "fetch" /\ r.branch = head
    BY <2>0 DEF TaskState
  <2>3. Becomes(t, r) /\ UNCHANGED <<repository, server, made, flags>>
    BY <1>1 DEF ReadHead, Aside
  <2>4. task'[t] = r
    BY <2>0, <2>1, <2>3, Becoming
  <2>5. task[t].kind = "pull"
    BY DEF ReadHead, At, IInv, TaskOK, KindAtPC, PullOnly
  <2>6. TaskOK(t)'
    BY <2>0, <2>2, <2>3, <2>4, <2>5
       DEF TaskOK, KindAtPC, HasBranch, LookedUp, Moved, Uncrossed, PullOnly, Fetching, Seen, None, repository
  <2> QED BY <2>1, <2>2, <2>3, <2>6, Advance
<1>2. CASE task[t].branch \notin {head, None}
  <2> QED BY <1>2, EndStep DEF ReadHead, At, Aside
<1> QED BY <1>1, <1>2

LEMMA FetchStep ==
  ASSUME IInv, NEW t \in Task, Fetch(t) PROVE IInv'
<1> DEFINE r == [task[t] EXCEPT !.seen = server, !.pc = "update"]
<1>0. TypeOK /\ task[t] \in TaskState /\ server \in Tips
  BY DEF IInv, TypeOK
<1>1. r \in TaskState
  BY <1>0, StepTypes
<1>2. /\ r.kind = task[t].kind /\ r.pc = "update" /\ r.branch = task[t].branch
      /\ r.seen = server /\ r.crossed = task[t].crossed
  BY <1>0 DEF TaskState
<1>3. Becomes(t, r) /\ UNCHANGED <<repository, server, made, flags>> /\ task[t].pc = "fetch"
  BY DEF Fetch, Aside, At
<1>4. task'[t] = r
  BY <1>0, <1>1, <1>3, Becoming
<1>5. KindAtPC(t)' /\ HasBranch(t)' /\ LookedUp(t)' /\ Moved(t)'
  BY <1>2, <1>3, <1>4
     DEF IInv, TaskOK, KindAtPC, HasBranch, LookedUp, Moved, PullOnly, Fetching, None
<1>6. Uncrossed(t)'
  BY <1>2, <1>3, <1>4 DEF IInv, TaskOK, Uncrossed, Seen, repository
<1> QED BY <1>1, <1>2, <1>3, <1>5, <1>6, Advance DEF TaskOK

LEMMA LookupStep ==
  ASSUME IInv, NEW t \in Task, Lookup(t) PROVE IInv'
<1> DEFINE r == [task[t] EXCEPT !.old = tips[task[t].branch],
                                !.new = tracking[task[t].branch], !.pc = "analyse"]
<1>0. TypeOK /\ task[t] \in TaskState /\ task[t].branch \in Branch /\ task[t].kind = "pull"
  BY DEF IInv, TypeOK, TaskOK, HasBranch, KindAtPC, PullOnly, Lookup, At
<1>1. r \in TaskState
  BY <1>0, StepTypes
<1>2. /\ r.kind = task[t].kind /\ r.pc = "analyse" /\ r.branch = task[t].branch
      /\ r.seen = task[t].seen /\ r.crossed = task[t].crossed
      /\ r.old = tips[task[t].branch] /\ r.new = tracking[task[t].branch]
  BY <1>0 DEF TaskState
<1>3. Becomes(t, r) /\ UNCHANGED <<repository, server, made, flags>> /\ task[t].pc = "lookup"
  BY DEF Lookup, Aside, At
<1>4. task'[t] = r
  BY <1>0, <1>1, <1>3, Becoming
<1>5. KindAtPC(t)' /\ HasBranch(t)' /\ LookedUp(t)' /\ Moved(t)'
  BY <1>0, <1>2, <1>3, <1>4
     DEF KindAtPC, HasBranch, LookedUp, Moved, PullOnly, Fetching, None, repository
<1>6. Uncrossed(t)'
  BY <1>0, <1>2, <1>3, <1>4 DEF IInv, TaskOK, Uncrossed, Seen, repository
<1> QED BY <1>1, <1>2, <1>3, <1>5, <1>6, Advance DEF TaskOK

LEMMA UpdateStep ==
  ASSUME IInv, NEW t \in Task, Update(t) PROVE IInv'
<1>0. /\ TypeOK /\ task[t] \in TaskState /\ task[t].seen \in Tips /\ task[t].pc = "update"
      /\ task[t].kind \in {"fetch", "pull"}
  BY DEF IInv, TypeOK, TaskState, TaskOK, KindAtPC, Fetching, Update, At
<1> DEFINE r == IF task[t].kind = "pull" THEN [task[t] EXCEPT !.pc = "lookup"] ELSE Ended(t, TRUE)
<1>1. Records(t, task[t].seen, r)
  BY DEF Update
<1>2. r \in TaskState /\ r.kind = task[t].kind
  <2>1. CASE task[t].kind = "pull"
    <3>1. [task[t] EXCEPT !.pc = "lookup"] \in TaskState
      BY <1>0, StepTypes DEF PC
    <3>2. [task[t] EXCEPT !.pc = "lookup"].kind = task[t].kind
      BY <1>0 DEF TaskState
    <3> QED BY <2>1, <3>1, <3>2
  <2>2. CASE task[t].kind # "pull"
    BY <1>0, <2>2, EndedType
  <2> QED BY <2>1, <2>2
<1>3. task'[t] = r /\ tracking' = task[t].seen /\ head' = head
  BY <1>1 DEF Records
<1>4. CASE task[t].kind = "pull"
  <2>1. /\ r.pc = "lookup" /\ r.branch = task[t].branch
        /\ r.seen = task[t].seen /\ r.crossed = task[t].crossed
    BY <1>0, <1>4 DEF TaskState
  <2> HIDE DEF r
  <2>2. KindAtPC(t)' /\ HasBranch(t)' /\ LookedUp(t)' /\ Moved(t)'
    BY <1>0, <1>2, <1>3, <1>4, <2>1
       DEF IInv, TaskOK, KindAtPC, HasBranch, LookedUp, Moved, PullOnly, Fetching, None
  <2>3. Uncrossed(t)'
    BY <1>0, <1>2, <1>3, <1>4, <2>1 DEF IInv, TaskOK, Uncrossed, Seen
  <2> QED BY <1>0, <1>1, <1>2, <2>2, <2>3, RecordsStep DEF TaskOK
<1>5. CASE task[t].kind = "fetch"
  <2>1. task'[t] = Ended(t, TRUE)
    BY <1>3, <1>5
  <2>2. TaskOK(t)'
    BY <1>0, <2>1, EndedOK
  <2> HIDE DEF r
  <2> QED BY <1>0, <1>1, <1>2, <2>2, RecordsStep
<1> QED BY <1>0, <1>4, <1>5

LEMMA AnalyseStep ==
  ASSUME IInv, NEW t \in Task, Analyse(t) PROVE IInv'
<1>0. /\ TypeOK /\ task[t] \in TaskState /\ task[t].pc = "analyse" /\ task[t].kind = "pull"
      /\ UNCHANGED <<repository, server, made, flags>>
  BY DEF IInv, TypeOK, TaskOK, KindAtPC, PullOnly, Analyse, At, Aside
<1>1. CASE CanFastForward(t) /\ ~UpToDate(t)
  <2> DEFINE r == [task[t] EXCEPT !.onto = head, !.pc = "move"]
  <2>1. r \in TaskState
    BY <1>0, StepTypes
  <2>2. /\ r.kind = task[t].kind /\ r.pc = "move" /\ r.branch = task[t].branch
        /\ r.seen = task[t].seen /\ r.crossed = task[t].crossed
        /\ r.old = task[t].old /\ r.new = task[t].new /\ r.onto = head
    BY <1>0 DEF TaskState
  <2>3. Becomes(t, r)
    BY <1>1 DEF Analyse
  <2>4. task'[t] = r
    BY <1>0, <2>1, <2>3, Becoming
  <2>5. KindAtPC(t)' /\ HasBranch(t)'
    BY <1>0, <2>2, <2>4 DEF IInv, TaskOK, KindAtPC, HasBranch, PullOnly, Fetching, None
  <2>6. LookedUp(t)' /\ Moved(t)'
    BY <1>0, <1>1, <2>2, <2>4 DEF IInv, TaskOK, LookedUp, Moved, CanFastForward
  <2>7. Uncrossed(t)'
    BY <1>0, <2>2, <2>4 DEF IInv, TaskOK, Uncrossed, Seen, repository
  <2> QED BY <1>0, <2>1, <2>2, <2>3, <2>5, <2>6, <2>7, Advance DEF TaskOK
<1>2. CASE ~(CanFastForward(t) /\ ~UpToDate(t))
  <2>1. Ends(t, UpToDate(t)) /\ UpToDate(t) \in BOOLEAN
    BY <1>2 DEF Analyse, UpToDate
  <2> QED BY <1>0, <2>1, EndStep
<1> QED BY <1>1, <1>2

LEMMA MoveStep ==
  ASSUME IInv, NEW t \in Task, Move(t) PROVE IInv'
<1>0. /\ TypeOK /\ task[t] \in TaskState /\ task[t].pc = "move" /\ task[t].kind = "pull"
      /\ task[t].branch \in Branch /\ task[t].new \in Commit
      /\ head' = head /\ tracking' = tracking /\ Aside /\ head \in Branch /\ tracking \in Tips
  BY DEF IInv, TypeOK, TaskState, TaskOK, HasBranch, KindAtPC, PullOnly, Move, At
<1>1. CASE tips[task[t].branch] = task[t].old
  <2> DEFINE r == [task[t] EXCEPT !.pc = "setHead"]
  <2>1. r \in TaskState
    BY <1>0, StepTypes DEF PC
  <2>2. /\ r.kind = task[t].kind /\ r.pc = "setHead" /\ r.branch = task[t].branch
        /\ r.seen = task[t].seen /\ r.crossed = task[t].crossed /\ r.new = task[t].new
    BY <1>0 DEF TaskState
  <2>3. Becomes(t, r) /\ tips' = [tips EXCEPT ![task[t].branch] = task[t].new]
    BY <1>1 DEF Move, Goes
  <2>4. task'[t] = r
    BY <1>0, <2>1, <2>3, Becoming
  <2>5. tips' \in Tips
    BY <1>0, <2>3 DEF TypeOK, Tips
  <2>6. KindAtPC(t)' /\ HasBranch(t)' /\ LookedUp(t)' /\ Moved(t)'
    BY <1>0, <2>2, <2>3, <2>4
       DEF TypeOK, Tips, KindAtPC, HasBranch, LookedUp, Moved, PullOnly, Fetching, None
  <2>7. Uncrossed(t)'
    BY <1>0, <2>2, <2>4 DEF IInv, TaskOK, Uncrossed, Seen, Aside
  <2> QED BY <1>0, <2>1, <2>2, <2>3, <2>5, <2>6, <2>7, PullStep DEF TaskOK
<1>2. CASE tips[task[t].branch] # task[t].old
  <2>1. Ends(t, FALSE) /\ UNCHANGED tips
    BY <1>2 DEF Move
  <2> QED BY <1>0, <2>1, EndStep DEF Aside, repository
<1> QED BY <1>1, <1>2

LEMMA SetHeadStep ==
  ASSUME IInv, NEW t \in Task, SetHead(t) PROVE IInv'
<1> DEFINE r == [task[t] EXCEPT !.pc = "reset"]
<1>0. /\ TypeOK /\ task[t] \in TaskState /\ task[t].pc = "setHead" /\ task[t].kind = "pull"
      /\ task[t].branch \in Branch /\ head' = task[t].branch
      /\ tracking' = tracking /\ tips' = tips /\ Aside /\ tips \in Tips /\ tracking \in Tips
  BY DEF IInv, TypeOK, TaskOK, HasBranch, KindAtPC, PullOnly, SetHead, At
<1>1. r \in TaskState
  BY <1>0, StepTypes DEF PC
<1>2. /\ r.kind = task[t].kind /\ r.pc = "reset" /\ r.branch = task[t].branch /\ r.late = task[t].late
      /\ r.seen = task[t].seen /\ r.crossed = task[t].crossed /\ r.new = task[t].new
  BY <1>0 DEF TaskState
<1>3. Becomes(t, r)
  BY DEF SetHead, Goes
<1>4. task'[t] = r
  BY <1>0, <1>1, <1>3, Becoming
<1>5. KindAtPC(t)' /\ HasBranch(t)' /\ LookedUp(t)' /\ Moved(t)'
  BY <1>0, <1>2, <1>4
     DEF IInv, TaskOK, KindAtPC, HasBranch, LookedUp, Moved, PullOnly, Fetching, None
<1>6. Uncrossed(t)'
  BY <1>0, <1>2, <1>4 DEF IInv, TaskOK, Uncrossed, Seen, Aside
<1> QED BY <1>0, <1>1, <1>2, <1>3, <1>5, <1>6, PullStep DEF TaskOK

LEMMA ResetStep ==
  ASSUME IInv, NEW t \in Task, Reset(t) PROVE IInv'
<1>0. /\ TypeOK /\ task[t].pc = "reset" /\ task[t].kind = "pull" /\ task[t].new \in Commit
      /\ tips' = [tips EXCEPT ![head] = task[t].new] /\ Becomes(t, Ended(t, TRUE))
      /\ head' = head /\ tracking' = tracking /\ Aside /\ head \in Branch /\ tracking \in Tips
  BY DEF IInv, TypeOK, TaskState, TaskOK, KindAtPC, PullOnly, Reset, At, Ends
<1>1. tips' \in Tips
  BY <1>0 DEF TypeOK, Tips
<1>2. Ended(t, TRUE) \in TaskState /\ Ended(t, TRUE).kind = "pull"
  BY <1>0, EndedType
<1>3. task'[t] = Ended(t, TRUE)
  BY <1>0, <1>2, Becoming
<1>4. TaskOK(t)'
  BY <1>0, <1>3, EndedOK
<1> QED BY <1>0, <1>1, <1>2, <1>4, PullStep

LEMMA PushStep ==
  ASSUME IInv, NEW t \in Task, Push(t) PROVE IInv'
<1> DEFINE b == task[t].branch
           r == [task[t] EXCEPT !.new = tips[b], !.pc = "record"]
<1>0. /\ TypeOK /\ task[t] \in TaskState /\ task[t].pc = "push" /\ task[t].kind = "push"
      /\ b \in Branch /\ UNCHANGED <<repository, made, flags>>
      /\ tips \in Tips /\ server \in Tips
  BY DEF IInv, TypeOK, TaskOK, HasBranch, KindAtPC, Push, At
<1>1. CASE task[t].force \/ server[b] \subseteq tips[b]
  <2>1. server' = [server EXCEPT ![b] = tips[b]] /\ Becomes(t, r)
    BY <1>1 DEF Push
  <2>2. server' \in Tips /\ tips[b] \in Commit
    BY <1>0, <2>1 DEF Tips
  <2>3. r \in TaskState /\ r.kind = "push" /\ r.pc = "record" /\ r.branch = b
    BY <1>0, <2>2 DEF TaskState, PC
  <2> HIDE DEF r
  <2>4. task' \in [Task -> TaskState] /\ task'[t] = r /\ \A u \in Task \ {t} : task'[u] = task[u]
    BY <1>0, <2>1, <2>3, Becoming
  <2>5. TypeOK'
    BY <1>0, <2>2, <2>4 DEF TypeOK, flags, repository
  <2>6. FlagsTellTruth'
    BY <1>0, <2>3, <2>4, FlagsKept DEF IInv
  <2>7. TaskOK(t)'
    BY <1>0, <2>3, <2>4
       DEF TaskOK, KindAtPC, HasBranch, LookedUp, Moved, Uncrossed, PullOnly, Fetching, Seen, None
  <2>8. ASSUME NEW u \in Task \ {t} PROVE TaskOK(u)'
    BY <1>0, <2>4, Bystander DEF IInv
  <2> QED BY <2>5, <2>6, <2>7, <2>8 DEF IInv
<1>2. CASE ~(task[t].force \/ server[b] \subseteq tips[b])
  <2>1. Ends(t, FALSE) /\ UNCHANGED server
    BY <1>2 DEF Push
  <2> QED BY <1>0, <2>1, EndStep
<1> QED BY <1>1, <1>2

LEMMA RecordStep ==
  ASSUME IInv, NEW t \in Task, Record(t) PROVE IInv'
<1> DEFINE told == [tracking EXCEPT ![task[t].branch] = task[t].new]
<1>0. /\ TypeOK /\ task[t] \in TaskState /\ task[t].pc = "record" /\ task[t].branch \in Branch
      /\ task[t].new \in Commit /\ tracking \in Tips
  BY DEF IInv, TypeOK, TaskState, TaskOK, HasBranch, Record, At
<1>1. Records(t, told, Ended(t, TRUE)) /\ told \in Tips
  BY <1>0 DEF Record, Tips
<1> HIDE DEF told
<1>2. Ended(t, TRUE) \in TaskState /\ Ended(t, TRUE).kind = task[t].kind
  BY <1>0, EndedType
<1>3. task'[t] = Ended(t, TRUE)
  BY <1>1 DEF Records
<1>4. TaskOK(t)'
  BY <1>0, <1>3, EndedOK
<1> QED BY <1>1, <1>2, <1>4, RecordsStep

-----------------------------------------------------------------------------
(* The invariant. *)

LEMMA RunStep ==
  ASSUME IInv, NEW t \in Task, Run(t) PROVE IInv'
<1>1. CASE Fails(t)     BY <1>1, FailsStep
<1>2. CASE Fetch(t)     BY <1>2, FetchStep
<1>3. CASE Update(t)    BY <1>3, UpdateStep
<1>4. CASE ReadHead(t)  BY <1>4, ReadHeadStep
<1>5. CASE Lookup(t)    BY <1>5, LookupStep
<1>6. CASE Analyse(t)   BY <1>6, AnalyseStep
<1>7. CASE Move(t)      BY <1>7, MoveStep
<1>8. CASE SetHead(t)   BY <1>8, SetHeadStep
<1>9. CASE Reset(t)     BY <1>9, ResetStep
<1>10. CASE Push(t)     BY <1>10, PushStep
<1>11. CASE Record(t)   BY <1>11, RecordStep
<1> QED BY <1>1, <1>2, <1>3, <1>4, <1>5, <1>6, <1>7, <1>8, <1>9, <1>10, <1>11 DEF Run, Pull

LEMMA StepInv == IInv /\ [Next]_vars => IInv'
<1> SUFFICES ASSUME IInv, [Next]_vars PROVE IInv'
  OBVIOUS
<1>1. CASE UNCHANGED vars
  <2>1. UNCHANGED <<head, tips, tracking, server, made, pullInProgress, pushInProgress, task>>
    BY <1>1 DEF vars, repository, flags
  <2>2. TypeOK' /\ FlagsTellTruth'
    BY <2>1 DEF IInv, TypeOK, FlagsTellTruth, Running
  <2>3. ASSUME NEW t \in Task PROVE TaskOK(t)'
    <3>1. TaskOK(t)
      BY DEF IInv
    <3> QED BY <2>1, <3>1 DEF TaskOK, KindAtPC, HasBranch, LookedUp, Moved, Uncrossed, Seen
  <2> QED BY <2>2, <2>3 DEF IInv
<1>2. CASE \E t \in Task : \/ StartFetch(t)
                           \/ \E b \in Branch \cup {None} : StartPull(t, b)
                           \/ \E forced \in BOOLEAN : StartPush(t, forced)
                           \/ Deliver(t)
  BY <1>2, StartStep
<1>3. CASE \E t \in Task : Run(t)
  BY <1>3, RunStep
<1>4. CASE UserCommit
  BY <1>4, CommitStep
<1>5. CASE \E b \in Branch : Checkout(b) \/ OthersPush(b)
  BY <1>5, CheckoutStep, OthersPushStep
<1> QED BY <1>1, <1>2, <1>3, <1>4, <1>5 DEF Next

THEOREM Inductive == Spec => []IInv
  BY InitInv, StepInv, PTL DEF Spec

\* What the flags and the tasks hold is of its type, however many threads run.
THEOREM TypeCorrect == Spec => []TypeOK
<1>1. IInv => TypeOK
  BY DEF IInv
<1> QED BY <1>1, Inductive, PTL

\* One pull and one push at a time: m_pullInProgress and m_pushInProgress are
\* up exactly from the call to the delivery of its end.
THEOREM FlagsTrue == Spec => []FlagsTellTruth
<1>1. IInv => FlagsTellTruth
  BY DEF IInv
<1> QED BY <1>1, Inductive, PTL

\* Both: however threads end and are delivered, no second pull or push starts.
THEOREM SoundTasks == Spec => []TasksAreSound
  BY TypeCorrect, FlagsTrue, PTL DEF TasksAreSound

-----------------------------------------------------------------------------
(* What a step may do to a branch. *)

\* Only a pull's Move and Reset take a branch anywhere but forward.
LEMMA OnlyForward ==
  ASSUME TypeOK, Next, \A t \in Task : ~Move(t) /\ ~Reset(t)
  PROVE  \A b \in Branch : tips[b] \subseteq tips'[b]
<1>1. CASE UserCommit
  BY <1>1 DEF UserCommit, TypeOK, Tips
<1>2. CASE ~UserCommit
  <2>1. CASE \E b \in Branch : Checkout(b) \/ OthersPush(b)
    BY <2>1 DEF Checkout, OthersPush, repository
  <2>2. ASSUME NEW t \in Task,
               \/ StartFetch(t)
               \/ \E b \in Branch \cup {None} : StartPull(t, b)
               \/ \E forced \in BOOLEAN : StartPush(t, forced)
               \/ Deliver(t)
        PROVE  UNCHANGED tips
    BY <2>2 DEF StartFetch, StartPull, StartPush, Deliver, Started, repository
  <2>3. ASSUME NEW t \in Task, Run(t) PROVE UNCHANGED tips
    BY <2>3 DEF Run, Pull, Fails, Fetch, Update, ReadHead, Lookup, Analyse, SetHead, Push, Record,
       Records, repository
  <2> QED BY <1>2, <2>1, <2>2, <2>3 DEF Next
<1> QED BY <1>1, <1>2

LEMMA ForwardStep ==
  ASSUME IInv, [Next]_vars, NEW t \in Task, task[t].pc \in {"move", "setHead", "reset"},
         task[t].onto = task[t].branch, ~task[t].late
  PROVE  \A b \in Branch : tips[b] \subseteq tips'[b]
<1>1. /\ task[t].kind = "pull" /\ task[t].branch \in Branch
      /\ task[t].pc = "move" => task[t].old \subseteq task[t].new
      /\ task[t].pc = "reset" => tips[task[t].branch] = task[t].new /\ head = task[t].branch
  BY DEF IInv, TaskOK, KindAtPC, HasBranch, LookedUp, Moved, PullOnly
<1>2. CASE UNCHANGED vars
  BY <1>2 DEF vars, repository
<1>3. CASE Next /\ \E u \in Task : Move(u) \/ Reset(u)
  <2>1. PICK u \in Task : Move(u) \/ Reset(u)
    BY <1>3
  <2>2. task[u].kind = "pull"
    BY <2>1 DEF Move, Reset, At, IInv, TaskOK, KindAtPC, PullOnly
  <2>3. u = t
    BY <1>1, <2>2 DEF IInv, FlagsTellTruth
  <2>4. CASE Move(t)
    BY <1>1, <2>4 DEF Move, At, IInv, TypeOK, Tips
  <2>5. CASE Reset(t)
    BY <1>1, <2>5 DEF Reset, At, IInv, TypeOK, Tips
  <2> QED BY <2>1, <2>3, <2>4, <2>5
<1>4. CASE Next /\ \A u \in Task : ~Move(u) /\ ~Reset(u)
  BY <1>4, OnlyForward DEF IInv
<1> QED BY <1>2, <1>3, <1>4

\* git_reference_set_target checks the value read before the analysis, so that
\* no branch loses a commit made meanwhile; nor does any to the hard reset that
\* follows (GitRemote.cpp:930), if none is made and nothing checked out between.
THEOREM ForwardOnly == Spec => MovesForward
<1>1. IInv /\ [Next]_vars
        => [\A t \in Task :
              /\ task[t].pc \in {"move", "setHead", "reset"}
              /\ task[t].onto = task[t].branch /\ ~task[t].late
              => \A b \in Branch : tips[b] \subseteq tips'[b]]_vars
  BY ForwardStep
<1> QED BY <1>1, Inductive, PTL DEF Spec, MovesForward

-----------------------------------------------------------------------------
(* How a pull ends. *)

\* A step of another task leaves this one where it is.
LEMMA Elsewhere ==
  ASSUME IInv, NEW t \in Task, NEW u \in Task \ {t},
         \/ StartFetch(u)
         \/ \E b \in Branch \cup {None} : StartPull(u, b)
         \/ \E forced \in BOOLEAN : StartPush(u, forced)
         \/ Deliver(u) \/ Run(u)
  PROVE  task'[t].pc = task[t].pc
<1>0. task \in [Task -> TaskState]
  BY DEF IInv, TypeOK
<1>1. ASSUME NEW r, Becomes(u, r) PROVE task'[t].pc = task[t].pc
  BY <1>0, <1>1 DEF Becomes
<1>2. ASSUME NEW told, NEW r, Records(u, told, r) PROVE task'[t].pc = task[t].pc
  <2>1. task[t] \in TaskState
    BY <1>0
  <2> QED BY <1>2, <2>1 DEF Records, TaskState
<1>3. CASE Update(u)
  BY <1>2, <1>3 DEF Update
<1>4. CASE Push(u) \/ Record(u)
  BY <1>1, <1>2, <1>4 DEF Push, Record, Ends
<1>5. CASE StartFetch(u) \/ (\E b \in Branch \cup {None} : StartPull(u, b))
             \/ (\E forced \in BOOLEAN : StartPush(u, forced)) \/ Deliver(u)
  BY <1>1, <1>5 DEF StartFetch, StartPull, StartPush, Deliver, Started
<1>6. CASE Fails(u) \/ Fetch(u) \/ Pull(u)
  BY <1>1, <1>6 DEF Fails, Fetch, Pull, ReadHead, Lookup, Analyse, Move, SetHead, Reset, Ends, Goes
<1> QED BY <1>3, <1>4, <1>5, <1>6 DEF Run

\* A pull ends well by the analysis or by the reset.
LEMMA EndsWell ==
  ASSUME IInv, Next, NEW t \in Task, task[t].kind = "pull",
         task[t].pc # "done", task'[t].pc = "done", task'[t].ok
  PROVE  (Analyse(t) /\ UpToDate(t) /\ UNCHANGED tips) \/ Reset(t)
<1>0. task \in [Task -> TaskState] /\ TypeOK
  BY DEF IInv, TypeOK
<1>1. ~UserCommit /\ ~(\E b \in Branch : OthersPush(b))
  <2>1. ASSUME UserCommit PROVE FALSE
    <3>1. task[t] \in TaskState
      BY <1>0
    <3> QED BY <2>1, <3>1 DEF UserCommit, TaskState
  <2> QED BY <2>1 DEF OthersPush
<1>2. ~(\E b \in Branch : Checkout(b))
  <2>1. task[t] \in TaskState
    BY <1>0
  <2>2. ASSUME NEW b \in Branch, Checkout(b) PROVE FALSE
    <3>1. task'[t] = [task[t] EXCEPT !.crossed = @ \/ Pulls(t), !.late = @ \/ task[t].pc = "reset"]
      BY <2>2 DEF Checkout
    <3> QED BY <2>1, <3>1 DEF TaskState
  <2> QED BY <2>2
<1>3. PICK u \in Task : \/ StartFetch(u)
                        \/ \E b \in Branch \cup {None} : StartPull(u, b)
                        \/ \E forced \in BOOLEAN : StartPush(u, forced)
                        \/ Deliver(u) \/ Run(u)
  BY <1>1, <1>2 DEF Next
<1>4. u = t
  BY <1>3, Elsewhere
<1>5. task[t] # NoTask
  BY DEF NoTask, None
<1>6. Run(t)
  BY <1>3, <1>4, <1>5 DEF StartFetch, StartPull, StartPush, Started, Deliver
<1>7. ASSUME NEW c \in PC \ {"done"}, Goes(t, c) PROVE FALSE
  BY <1>0, <1>7 DEF Goes, Becomes, TaskState
<1>8. ASSUME NEW r, Becomes(t, r) PROVE task'[t] = r
  BY <1>0, <1>8 DEF Becomes
<1>9. ~Fails(t)
  <2>1. ~Ended(t, FALSE).ok
    BY <1>0, EndedType
  <2> QED BY <1>8, <2>1 DEF Fails, Ends
<1>10. ~Push(t) /\ ~Record(t) /\ ~Move(t) /\ ~SetHead(t) /\ ~Update(t)
  <2>1. ~Ended(t, FALSE).ok
    BY <1>0, EndedType
  <2>2. ~Ends(t, FALSE)
    BY <1>8, <2>1 DEF Ends
  <2>3. ~Update(t)
    <3>1. task[t] \in TaskState
      BY <1>0
    <3>2. Update(t) => task'[t] = [task[t] EXCEPT !.pc = "lookup"]
      BY DEF Update, Records
    <3> QED BY <3>1, <3>2 DEF TaskState
  <2> QED BY <1>7, <2>2, <2>3 DEF Move, SetHead, PC, Push, Record, At, IInv, TaskOK, KindAtPC
<1>11. ~Fetch(t) /\ ~Lookup(t)
  <2>1. task[t] \in TaskState
    BY <1>0
  <2>2. [task[t] EXCEPT !.seen = server, !.pc = "update"].pc = "update"
    BY <2>1 DEF TaskState
  <2>3. [task[t] EXCEPT !.old = tips[task[t].branch],
                        !.new = tracking[task[t].branch], !.pc = "analyse"].pc = "analyse"
    BY <2>1 DEF TaskState
  <2> QED BY <1>8, <2>2, <2>3 DEF Fetch, Lookup
<1>12. ~ReadHead(t)
  <2>1. task[t] \in TaskState /\ ~Ended(t, FALSE).ok
    BY <1>0, EndedType
  <2>2. [task[t] EXCEPT !.branch = head, !.pc = "fetch"].pc = "fetch"
    BY <2>1 DEF TaskState
  <2> QED BY <1>8, <2>1, <2>2 DEF ReadHead, Ends
<1>13. ASSUME Analyse(t) PROVE UpToDate(t) /\ UNCHANGED tips
  <2>1. task[t] \in TaskState
    BY <1>0
  <2>2. [task[t] EXCEPT !.onto = head, !.pc = "move"].pc = "move"
    BY <2>1 DEF TaskState
  <2>3. Ends(t, UpToDate(t))
    BY <1>8, <1>13, <2>2 DEF Analyse
  <2>4. UpToDate(t) \in BOOLEAN
    BY DEF UpToDate
  <2>5. Ended(t, UpToDate(t)).ok = UpToDate(t)
    BY <1>0, <2>4, EndedType
  <2>6. task'[t] = Ended(t, UpToDate(t))
    BY <1>8, <2>3 DEF Ends
  <2> QED BY <1>13, <2>5, <2>6 DEF Analyse, repository
<1> QED BY <1>6, <1>9, <1>10, <1>11, <1>12, <1>13 DEF Run, Pull

LEMMA BringsStep ==
  ASSUME IInv, [Next]_vars, NEW t \in Task, task[t].kind = "pull", ~task[t].crossed,
         task[t].pc # "done", task'[t].pc = "done", task'[t].ok
  PROVE  task[t].seen[task[t].branch] \subseteq tips'[task[t].branch]
<1>1. Next
  BY DEF vars
<1>2. CASE Analyse(t) /\ UpToDate(t) /\ UNCHANGED tips
  BY <1>2 DEF Analyse, At, UpToDate, IInv, TaskOK, Uncrossed, Seen
<1>3. CASE Reset(t)
  <2>1. /\ head = task[t].branch /\ head \in Branch
        /\ task[t].seen[task[t].branch] \subseteq task[t].new
    BY <1>3 DEF Reset, At, IInv, TypeOK, TaskOK, Uncrossed, Seen
  <2> QED BY <1>3, <2>1 DEF Reset, IInv, TypeOK, Tips
<1> QED BY <1>1, <1>2, <1>3, EndsWell

\* Whatever is committed here and pushed by others while a pull fetches,
\* analyses and moves its branch, its success is no empty word.
THEOREM BringsAll == Spec => PullBringsAll
<1>1. IInv /\ [Next]_vars
        => [\A t \in Task :
              LET b == task[t].branch
              IN  /\ task[t].kind = "pull" /\ ~task[t].crossed
                  /\ task[t].pc # "done" /\ task'[t].pc = "done" /\ task'[t].ok
                  => task[t].seen[b] \subseteq tips'[b]]_vars
  BY BringsStep
<1> QED BY <1>1, Inductive, PTL DEF Spec, PullBringsAll
===============================================================================
