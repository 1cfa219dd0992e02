# GitEase in TLA+

GitEase is a Git client. C++ controllers (`src/Src/Git`) call libgit2, utilities
(`src/Src/Utilities`) do what is not Git, and a QML interface (`src/Qml`) calls
the controllers, listens to their signals and keeps state of its own. This
directory holds TLA+ models of the parts where order, failure and concurrency
decide whether the user's work survives, the TLC runs that check them, and proofs
of their main properties for every instance.

Contents: [parts](#the-parts-of-the-system) ·
[modules](#modules-and-how-they-correspond-to-the-code) ·
[runs](#what-the-runs-check) · [fairness](#fairness) ·
[refinement](#an-abstract-specification-and-its-implementation) ·
[proofs](#what-is-proved) ·
[disagreements found](#where-the-code-and-what-is-said-of-it-part) ·
[left out](#what-is-not-modelled) · [plan](#plan)

## The parts of the system

One user-interface thread runs the QML, the slots and the posted events. Four
places leave it: the repository scanner (pool threads), `GitRemote` (one pool
thread per fetch, pull or push), the clone of `GitRepository`, and the asynchronous
mode of `FileIO`, which no QML asks for. Everything else is synchronous, but not
atomic: a session of several user steps (rebase, cherry-pick, merge, a page with
unsaved edits, a queue of fetches) keeps its state in a controller or a page while
the user is free to call anything else in between, and signals and
`QTimer::singleShot(0)` calls arrive later than they were sent.

| Part | State it keeps | Operations | Talks to | Hard behaviour | Correct when |
|---|---|---|---|---|---|
| **Repository scanner** `GitScanner.cpp` | watcher, stop and busy flags; queue, list and mutex in the coordinator's frame | `scan`, `stop`, finished slot, coordinator, workers | pages, through `busy` and `scanFinished` | workers leave on a momentarily empty queue; the coordinator waits on a thread of the pool its workers need; `scan` while the end of the last is undelivered | a finished scan lists exactly the repositories below the root, once each; busy tracks the scan; it ends on any pool |
| **Interactive rebase** `GitRebase.cpp` 849-1326 | plan, position, conflict flag, the HEAD it started from: all in memory | `startInteractiveRebase`, `processNextOperation` (posted), `interactiveContinue`/`Skip`/`Abort` | the windows by signals, the repository | a chain of posted calls, answers in any order, failures half way, restarts, checkouts in between | the plan is replayed in order, only the end moves a branch, abort restores |
| **Plan popup, conflict window** `CommitPlanPopup.qml`, `ConflictPopup.qml` | which is open, status per commit, the files shown | start, cancel, resolve, continue, skip, abort, save | rebase, cherry-pick, merge | they mirror a session by its signals | windows and session agree |
| **Conflict reader and writer** `GitConflict.cpp`, and the conflict window's editor | rows shown, rows kept of files visited before, the list of conflicts | `getConflicts`, `parseConflictBlocks`, `replaceBlock`; accept, type, split, join, select, stage, save, continue, skip | the index and the files of the repository | rows cached while files and index change; text that looks like a marker; blank sides | the block accepted is the block shown; no edit is lost or lands elsewhere; no marker is staged |
| **Cherry-pick** `GitCherryPick.cpp` | commits, position, flags, original HEAD: in memory | `cherryPickCommits`, `continueOp`, `skipOp`, `abortOp` | conflict window, graph dock | a loop that a conflict stops inside; half-done continue; local edits | no pick leaks into another commit; abort restores |
| **Merge** `GitMerge.cpp` | target commit, source branch, in-progress flag: in memory | `mergeBranchIntoCurrent`, `continueOp`, `abortOp` | method popup and its handlers, conflict window | metadata of one merge with the index of another | a merge commit holds its parents' content |
| **Remote operations** `GitRemote.cpp` | push and pull flags | fetch, pull, push on threads; remotes, URLs | the remote, pages, dialogs | a pull reads HEAD before and after the network; the user commits and checks out meanwhile | no commit is lost; a pull that succeeds brought all; flags fall |
| **Repository handles** `GitRepository.cpp`, `RepositoryController.qml`, `UiSession.qml` | the handle every controller is given, the models, the selection, the recent ones | open, open detached, select, close, clone, late deletion | every controller, by `currentRepo`; the threads of `GitRemote` | a clone that ends late selects its repository under a running operation; a handle is freed later than it is replaced | the controllers hold the one open handle, of the repository shown |
| **Status and staging** `GitStatus.cpp`, `GitStash.cpp`, `CommittingPage.qml`, `DiffView.qml` | the index and files; the page's rows, selection and flag of unsaved edits | stage, unstage, discard files; stage, revert, stash a chunk; type, split, join; save; the questions | repository, page, lists | a chunk told by one range of numbers; a buffer written long after it was read | staging a chunk stages that chunk; a save writes what is seen, where it is seen |
| **Notifications** `NotificationController.qml`, `FileIO.cpp` | notes, unread count, windows, queue, settings; one file per repository | show, close, read, clear, select a repository, settings, shutdown | every controller; files written in place | counts kept beside lists, files cut off by a crash, a queue served by the closing of windows | no repository gets or loses another's notes; every queued note is shown |
| **Repository forest** `RepoForest.qml` | queue, its state, status per repository, a password awaited | fetch and pull over many repositories, pause, resume, stop | a `GitRemote` and handle of its own, a dialog shared with other pages | a queue that moves only when an end is told; closures left connected; items that wait beside the queue | a busy queue goes on; what shows as done was done |
| **Commit, amend, revert** `GitCommit.cpp` | none | `commit`, amend, revert | commit page | a commit during a merge or a pick | history says what is in it |
| **Branches** `GitBranch.cpp` | none | create, rename, delete, checkout | docks | a checkout under a session or a pull | - |
| **libgit2's own rebase** `GitRebase.cpp` 1-750 | `.git/rebase-merge` | `start`, `continueOp`, `skipOp`, `abortOp` | no window calls `start` | - | - |
| **Tags, stash, bundles, configuration** | none | one libgit2 call each | docks | - | - |
| **Plugins** | loaded plugins, their order | load, enable, shut down | the application | order of unloading | - |
| **Commit graph** `GraphLayout.js` | lanes | layout, filter | dock | lanes reused too early | no two lines cross in one cell |
| Keys, authentication, profiles, settings, docks, styles | lists for display | - | - | - | - |

`PROJECT.json` lists the same parts with their state of modelling, and under
`hazards` the places, line by line, where this code is hard to test.

## Modules and how they correspond to the code

| Module | Models | Notes |
|---|---|---|
| `RepoSearch` | what the page sees of the scanner | abstract: a search finds repositories, may be stopped, and tells its end once |
| `Replay` | what the user sees of an interactive rebase | abstract: the entries left, HEAD and the branches; no calls, conflicts or answers; an end may fail unnoticed (`Slip`) |
| `GitScanner` | `GitScanner.cpp` | one process per worker; the queue's mutex makes each critical section one step; `Start` takes a pool thread |
| `GitRepo` | libgit2 as the rebase uses it (external) | HEAD, branches, conflicts, missing files; a commit is the sequence of changes that led to it |
| `InteractiveRebase` | the session of `GitRebase.cpp`; extends `GitRepo` | one action per method and outcome; a `singleShot` call is a counter `posted` that `ProcessNext` takes |
| `RebaseWindows` | plan popup and conflict window over `InteractiveRebase` | each session action is conjoined with the handler of the signal it emits; user clicks are actions |
| `ConflictEditor` | `GitConflict.cpp` and what `ConflictPopup.qml` does to files | a file is a sequence of lines, a line is a sequence of pieces, of which a marker is one; a marker line begins with one of three; the operation that stops at conflicts is a constant; writes, continues, skips and aborts may fail half-way |
| `GitContents` | libgit2 as merge and pick use it (external) | a commit is what its history **says** and what its files **have**: the two coming apart is the failure looked for |
| `CherryPick` | `GitCherryPick.cpp`, its conflict window | `ProcessCommits` runs one round at a time, because a conflict stops inside the loop |
| `MergeSession` | `GitMerge.cpp`, `MergeMethodPopup.qml`, the handlers `CommitGraphDock.qml` connects | handlers left by cancelled popups are part of the state |
| `GitRemote` | fetch, pull and push of `GitRemote.cpp` | a task per thread with its local variables; one call of the thread per step, of which a fetch and a push record what they were told in a second one (`Update`, `Record`); the user and others act in between |
| `RepoHandles` | `GitRepository.cpp`, `RepositoryController.qml`, `UiSession.qml` | handles are numbers, never reused; `doomed` are the ones `deleteLater` was called for; a task takes the handle anew at each `Call`; the lists hold a path once (`Once`), so closing drops it by its place (`Dropped`); opening is two calls, the second of which may fail (`MustOpen`) |
| `LineStaging` | chunks and files of `GitStatus.cpp` and `GitStash.cpp`, `CommittingPage.qml` with its lists, `DiffView.qml`, `SideBySideDiff.qml` | the diff is computed from the two texts; each handler asks its question first, with the answer as a parameter, and goes on whether its calls and writes succeed or not; the rows may be of a diff whose groups the indent heuristic has moved (`Slid`) |
| `Notifications` | `NotificationController.qml` with the synchronous `FileIO.cpp` | a file is the set of lists it may hold: empty when it was cut off; its key is the name of the folder (`NameOf`), which repositories may share; how a read or write ends is a parameter (`Outcome`) |
| `Selections` | the loops that append what passes a test to a list | `Kept` is `SelectSeq` with a set in the place of the test, so that lemmas about it need no operator as a parameter |
| `RepoForest` | `RepoForest.qml`, its popup and the shared dialog | the functions call each other: a call that has begun is a frame of the stack `calls`; ends not told yet are a sequence `posted`; the closures a pull connects are `handlers` |
| `WorkerProofs` | - | theorems about `GitScanner` and `GitRemote` |
| `RebaseProofs` | - | theorems about `InteractiveRebase` and `RebaseWindows` |
| `ConflictProofs` | - | theorems about `MergeSession` and `ConflictEditor` |
| `RepositoryProofs` | - | theorems about `RepoHandles` and `RepoForest` |
| `CherryPickProofs`, `NotificationsProofs`, `LineStagingProofs` | - | theorems about the modules they are named after |
| `SelectionProofs` | - | lemmas about sequences and about induction, for `ConflictProofs` and `LineStagingProofs` |
| `MC_*`, `MCRebaseValues` | - | instances for TLC |

Variables carry the member's name where there is one (`idx` is
`m_currentPlanIndex`, `target` is the stored first parent, and so on; the comments
of each module say which). Where two models are extended by one module of proofs, the
general names of one carry its own (`ScanInit`, `MergeNext`, `HandlesSpec`, ...).
History variables (`applied`, `startTips`, `crossed`,
`slipped`, `mine`, `exposed`, `odd`, ...) are marked and no guard reads them, but for bounds.
Every `Bug...` operator is a plausible slip in the definition that follows it; the
mutants of `PROJECT.json` put it in that definition's place and the property named
there must then fail. A property that is a conjunction has a mutant for each part.

What is abstracted everywhere: wording, logging, hashes and file text. A change is
a name; a conflict happens or does not by choice, so every combination of
conflicting and clean commits is tried. A call into libgit2 may fail wherever the
code tests its result, and where it does not, and a property depends on it, the call
can fail unnoticed too; the properties then name what such a failure sets apart. Not
given a failure: clearing the repository's state (`git_repository_state_cleanup`), and
the second look at an index that was just read, which libgit2 keeps. A file whose
write is cut short is an empty one: both files and notes are opened with truncation,
and what is half there is of no more use. Where lines matter (`ConflictEditor`,
`LineStaging`) a text is a short sequence of lines and the functions on it are
translated in full: the parser, `replaceBlock`, the split and the join of rows, the walk
over the patch.

In `GitRemote` a commit is the set of the changes in its history, so "is a
descendant of" is "includes". `Analyse` looks at HEAD as it is then and not at the
branch chosen before the fetch, `Move` fails when the reference no longer has the
value that was read (`git_reference_set_target` checks it), and `Reset` moves
whatever branch HEAD is on. What the remote told is recorded in a step of its own, for
a push as for a fetch, so either may record less than another has meanwhile
(`Records`). These lines of the code decide every property of the module.

## What the runs check

Twelve runs; a passing run explores its instance exhaustively. A run's properties
are the ones named here; a name followed by its parts is their conjunction, and the
type invariant is a part of the first.

| Run | Distinct states | Question | Properties |
|---|---|---|---|
| `scanner` | 214,437 | two scans by three workers on a pool of three threads, one of which the coordinator holds; stop and restart at any moment | `ScanIsSound` (`ReportComplete`, `BusyTracksScan`, `NoStraggler`), `NoRevisit`, `ImplementsSearch`, `ScanSettles` (`ScanEnds`, `BusyClears`) |
| `rebase` | 772,904 | the session under every order of calls, late deliveries, conflicts, restarts, failures and failures nobody notices | `SessionIsSound` (`SessionDetached`, `NotStalled`, `CleanBetween`), `PlanIsFollowed` (`Accounted`, `Replayed`), `ImplementsReplay`, `AbortRestores`, `SessionProgresses` |
| `windows` | 685,318 | popups, statuses and session through every order of clicks and signals | `WindowsAgree` (`PopupFollowsSession`, `PromptSpeaksForSession`, `StatusTellsTruth`) |
| `cherry_pick` | 5,595,188 | sequences over staged and unstaged edits of the user, with refusals, failures, and skips whose reset fails | `SequenceIsSound` (`Positioned`, `Accounted`), `HistoryHoldsPicks` (`HistoryFollows`, `NothingLeaks`), `AbortRestores`, `PicksApplied` |
| `merge` | 7,575,140 | three branches merged into each other over local edits, cancelled popups, aborts, commits in between | `PendingIsSound` (`ContinueCanSucceed`), `MergeTells` |
| `remote` | 1,261,600 | two tasks of any kind with commits, checkouts, foreign pushes and failures | `TasksAreSound` (`FlagsTellTruth`), `MovesForward`, `PullBringsAll`, `PullEnds` |
| `pull_elsewhere` | violated | see [below](#where-the-code-and-what-is-said-of-it-part) | `PullFastForwards` |
| `handles` | 538,422 | three paths opened, selected, closed and cloned while a task runs, old handles are freed late and an opening fails half-way | `HandlesAreSound` (`OneOpenHandle`, `ShownIsHeld`, `RecentFirst`), `TasksStayHome` |
| `notifications` | 551,537 | notes of three repositories, two of one name, and of the application, with unreadable files, writes cut short, crashes and restarts | `NotesAreSound` (`NeverOverCounts`, `QueueHasTurn`), `NotesKept` (`NotesStayHome`, `CrashCostsOnlySelected`), `OnlyReadWindowsDrift`, `QueuedShown` |
| `forest` | 852,255 | fetches and pulls of several repositories paused, resumed, stopped, waiting for a password, cut off by closing the popup | `QueueIsSound` (`ReadyIsEmpty`, `BusyIsMoved`, `OneAtATime`), `DoneIsDone`, `WaitersAreAsked`, `QueueRests` |
| `conflict` | 384,637 | the files of a merge and of a cherry-pick, their blocks accepted, lines typed, split and joined, files visited, staged and saved in any order, with one write by another program or one failing write, continue, skip or abort | `EditorIsSound` (`BlocksAreMarked`, `ListTellsIndex`), `EditsKept`, `StagedIsResolved`, `RowsTellTheFile` (`DisplayIsFile`, `AcceptKeepsRest`), `SaveKeepsOthers` |
| `staging` | 129,188 | chunks staged, reverted and stashed, files staged, unstaged and discarded, rows edited and saved, the questions answered either way, with one failing call or write, or one write by another program | `PageIsSound` (`RightIsMeant`), `FlagTellsTruth`, `ChunkTaken` (`StagesChunk`, `RevertsChunk`), `StashLosesNothing`, `SavesAreMeant` (`SaveWritesMeant`, `SavesGoHome`) |

**Bounds.**

* Scanner: the tree has a branching sub-tree, a repository nested in another and a
  repository outside the root; with three workers one can be listing while a second
  leaves on the empty queue and a third waits for the thread the coordinator holds.
  `MaxScans = 2` covers a scan started while the end of the last is undelivered.
* Rebase: every plan of at most two entries over two commits, two paths, three
  repositories (on a branch, detached, already in a rebase). Two entries tell
  "first", "next" and "last" apart. `MaxPosted = 2` lets a call left over from an
  aborted session meet the call of the next one.
* Windows: `MaxPosted = 1`, that is, no call is left over from an aborted session
  when another starts. With two, `PromptSpeaksForSession` fails: the stale call tears
  down a session that waits at a conflict, or takes it on, and its window stays open.
  That window can then stage a file between two entries, so that `CleanBetween` fails
  too. It takes an abort and a new start before a zero timer fires, which a user cannot
  do by hand; so it is a bound of this run, and a hazard rather than a finding. The
  rest of what the windows and the session promise is proved with no bound on the
  calls left over (see *What is proved*).
* Cherry-pick: sequences of one and of two commits, one in the place of a local edit;
  the repository is opened clean or in a merge.
* Merge: three branches that went apart, or one ahead of another, with an edit that
  overlaps one side (`MaxUserEdits = 1`); `MaxHandlers = 2` popups whose handlers are still
  connected, so that one emission runs two merges. Three branches are what it takes to
  store the parents of one merge over the index of another.
* Remote: two branches, two tasks, one commit of the user's, one of others'. One
  commit on each side is enough for the histories to part; two tasks are enough for
  each pair of a pull with a fetch, a push, or a refused second pull, also one that
  records late.
* Handles: three paths, one of them not there before it is cloned; `MaxRecent = 2`,
  so the list of recent ones is cut; `MaxHandles = 5`, so a handle is replaced,
  freed and its repository opened again within one task.
* Notifications: three repositories, two of them of one name, two notes, one or two
  windows, so a note is queued behind one window or shown beside it, and the limit is
  changed in between. `MaxFaults = 1` bounds the names at risk and not how often: the
  file of that name may fail to open, be cut short and be left by a crash any number of
  times, the later ones falling on what the first left. Two names were tried as well
  (1,359,297 states, no error).
* Forest: three repositories, one with a second remote, which is the one over HTTPS;
  the user selects two of them at a time; the popup is opened twice (`MaxOpens`) and
  operations asked for twice (`MaxAsks`), so that the late end of one meets the next.
* Conflict window: three files; two merges and a cherry-pick that stops twice; a file
  with two adjacent blocks and a blank side, one with one block, one whose text has a
  line that looks like a marker, and one that is missing; at the second stop of the
  cherry-pick a file that was shown at the first is gone. One edit of the user's
  (`MaxEdits`), and one write by another program or failing call (`MaxTroubles`),
  between any number of acceptances, selections, stages and saves. A skip whose reset
  fails is not counted.
* Staging: two files and five starting repositories, in one of which the rows are of
  another diff than the patch; two operations on chunks or files (`MaxActs`), one edit
  (`MaxEdits`), and one failing call or write, or write by another program
  (`MaxTroubles`). Two operations in a row meet numbers that the first has shifted, or
  what its failure left.

Deadlock is checked in all runs but four: `scanner`, `conflict` and `staging` stop
when their bounds are used up, and in `forest` the popup may be closed for good. In
the others the user can always do something: restart, check out, start again.

**What is set apart.** Some properties name cases they do not speak of, because the
code is known to go wrong there and the rest is what the run is to show; each case is
told [below](#where-the-code-and-what-is-said-of-it-part). `reopened`, `borrowed` and
`strayed` in `RepoHandles`; the set `odd` in `RepoForest`; `marked`, `behind`, `missed`
and `overtaken` in `ConflictEditor`; `Apart`, `OwnPatch`, `Tells` and a step that adds to
`faults` in `LineStaging`; `crossed` and `late` in `GitRemote`; `mixed` in
`MergeSession`; local edits in `PicksApplied`, and in `CherryPick` the changes that are
`stuck`; `slipped` in `InteractiveRebase`; the names `exposed` in `Notifications`. A
case is a condition on what happened, as narrow as the run allows, not a bound. Where a
failure costs something, the property says how much: a rebase that slips leaves what
`Slip` allows, a note is lost only under the name at risk, a save that fails leaves its
own file as it was or empty, a skip leaks its own changes only.

## Fairness

* Scanner (`FairScanSpec`): weak fairness of each worker's step, of the coordinator's
  return and of the delivery of `finished`. Threads are scheduled and the event loop
  runs; nobody has to call `scan` or `stop`.
* Rebase: weak fairness of `ProcessNext`, a zero timer. None for the user: a session
  may wait at a conflict for ever, and `SessionProgresses` says so.
* Remote: weak fairness of each running task and of each delivery. That a call to the
  remote returns is an assumption about the transport (its timeouts are libgit2's);
  failing is one of the ways to return, so nothing is assumed about success.
* Notifications: weak fairness of the closing of a window, which has a timer.
* Forest: weak fairness of the steps the handlers take and the signals they wait for,
  and of the threads, as for the remote. None for the user: a paused queue stays
  paused, and a password may never be given.
* Conflict window and staging: none is needed, as nothing but the user acts.

## Two abstract specifications and their implementations

`RepoSearch` says what the page may expect of the scanner, in four actions and
without threads or queue: a search begins, finds repositories of the set there is to
find, ends unasked only when all were found or when it was told to stop, and tells
its end once. `GitScanner` implements it under the mapping at the end of that module
(what is found is `repos`, what there is to find is `Reach \cap RepoDir`). TLC checks
`ImplementsSearch` on the instance of `scanner`, and `Implements` in
`WorkerProofs` proves it for every tree, pool and number of workers.

`Replay` says what an interactive rebase promises: it begins with HEAD detached at the
base and remembers what HEAD was; the entries of the plan are taken in order, each
committed on HEAD or dropped; when none is left, and only then, the branch HEAD was on
is moved to the result and checked out; an abort puts HEAD back; a failure, or the
program ending, leaves it detached. An end that fails and is not noticed leaves the
branch where it was, or HEAD detached, or both, and no other branch touched (`Slip`);
before the last entry it moves nothing. There are no calls to come, no conflicts and no
answers in it. `InteractiveRebase` implements it under the mapping at its end: the
entries left are the plan behind the current index, what HEAD was is `origin`, and
`told` is the signal that ended the last session, or "unnoticed" when one of the calls
at the end failed (`slipped`). A conflict, a resolved file and a call
that comes late change nothing but `told`; a continue is a `Commit`, a skip, in the plan or by the
user, a `Drop`. That the code reads HEAD before it checks the branch out, and moves what
it read many clicks later, is where an implementation could fail. TLC checks
`ImplementsReplay` on the instance of `rebase`. `RebaseProofs` proves it for every plan
and repository (`ReplayImplemented`), and of what the two windows do with any number of
calls left over (`WindowsReplay`).

## What is proved

Each theorem below holds for every value of the constants under the named assumptions
of its module: any tree and pool, any plans, any branches, changes and overlaps, any
number of threads, repositories, notes and remotes. The assumptions say what kind of
value a constant is (`DirAssumption`, `PoolAssumption`; `PlanAssumption`,
`WalkAssumption`; `RemoteAssumption`, `BranchAssumption`; `MergeAssumption`;
`SelectionAssumption`, `ContentsAssumption`; `PathAssumption`, `HandlesBoundAssumption`,
`NoPathAssumption`; `NameAssumption`, `LimitAssumption`, `FaultsAssumption`, `NoteAssumption`,
`RepoAssumption`, `ConfigAssumption`; `RemotesAssumption`, `BoundAssumption`,
`NoneAssumption`; `PathsAssumption`, `OperationsAssumption`, `TextsAssumption`,
`BoundsAssumption`), and TLC evaluates them in every run. For the two editors it is
any number of files, any lines, any text a file may have, any text typed, and bounds
of any size on what the user and other programs do.

* **`WorkerProofs`**, the scanner: `SoundScans`, from `ScanTypeCorrect`, `ReportCompleteness`,
  `BusyFlag` and `NoWorkerLeft`, the refinement `Implements`, and `NeverRevisits`. `ReportComplete` is
  not inductive: it speaks only of the end. The strengthening (`Covered`) says that
  the root and each child of a visited directory is visited or *in flight*, in the
  queue or in a worker's hands. So a worker may leave on an empty queue: what is
  missing from the queue is in the hands of a worker that is still there, and the
  coordinator waits for it. When nobody is left nothing is in flight, and the visited
  set is closed, hence all of `Reach`. The same fact makes the end of a scan a step
  that the abstract search allows. That no directory is visited twice needs an
  invariant of its own: what was met is in one place (`InOnePlace`), and is the root or
  a child of a visited directory (`Parented`), so the children of one that is visited
  now cannot have been met.
* **`RebaseProofs`**: `SoundSessions`, `PlanFollowed` and
  `BranchesFollowed`, from `TypeCorrect`, `HeadStaysDetached`, `NothingForgotten`,
  `ReplayInOrder`, `NeverStalled`, `CleanTree`, `OnlyFinishMovesBranches` and
  `AskedBranchRebased`; `AbortPutsBack`; and the refinement `ReplayImplemented`. The
  invariant joins the safety
  properties with `RemembersHead` (the saved HEAD is the one at the start, and its
  branch is still there) and `WaitsAtPick` (a session at a conflict is at a pick of
  its plan). All but the clean tree is an invariant of its own (`Core`), which staging a
  file never disturbs. The theorems on branches and on the abort are action properties:
  they follow from `Core`, one step at a time (`MoveStep`, `RebasedStep`, `BackStep`).
  So does the refinement (`PromiseStep`): it needs `RemembersHead` where a session ends
  and `WaitsAtPick` where a continue commits the entry that is next. No run checks
  `BranchesFollow` by itself: the replay says when a branch moves, and the theorem adds
  that the branch asked for is the one that moves if it was checked out and the two
  calls of the end did not fail. `slipped` is in the hypothesis of that part, of the
  clean tree and of the abort, and of nothing else.
  The others are about the two windows, whatever is clicked. For any number of calls
  left over from sessions before: the plan popup follows the session and tells what
  became of each commit (`PopupFollows`), and the windows keep to the plan, move no
  branch but at its end and put HEAD back on an abort (`WindowsKeepThePlan`,
  `WindowsMoveOneBranch`, `WindowsAbortPutsBack`, `WindowsReplay`), as every click is a step of the
  session, leaves it alone or stages a file (`ClickStep`). The strengthening is `Core`
  and that the plan names a commit once (`EachOnce`, from `WalkAssumption`), so that a
  status belongs to one entry. `WindowsFollow` adds that an open conflict window speaks
  for a waiting session. It has the hypothesis `MaxPosted = 1` of the run, which here
  says that no call of an aborted session is left over: without it that part is false
  (see *Windows* under the bounds). It needs that a session that waits has no call to
  come (`OneCall`).
* **`WorkerProofs`**, the remote operations: `SoundTasks`, from `TypeCorrect` and `FlagsTrue`;
  `ForwardOnly`, `BringsAll`. A pull reads values and uses them several calls later,
  so the invariant says of every task what it still may count on (`LookedUp`,
  `Uncrossed`): what the remote told is still on the remote, recorded, then part of
  what was looked up; what was looked up of the branch is still part of it, and, once
  analysed on that branch, of what it is moved to. `FlagsTellTruth` is needed for it:
  a second pull would undo all of this, and the flag is what keeps it away. A
  checkout, or a fetch or push that records less than is known, breaks the chain, which
  is where the history variable `crossed` comes from; the run `pull_elsewhere` shows
  that the exception is no formality. `ForwardOnly` covers the hard reset too: unless
  it is `late`, the branch is where it was moved to and HEAD on it (`Moved`), so the
  reset takes nothing.
* **`ConflictProofs`**, the merge: `PendingSound`, `MergesTell`. The window can commit its
  merge because what is stored is a merge into HEAD (`Stored`): nothing that moves HEAD
  runs while it is open or the index has conflicts (`OneWindow`). What that merge
  brings is in the index unless git refused it (`JoinedTips`), so the commit holds what it
  says; `refused` followed by a continue is the one way out, and it sets `mixed`.
* **`CherryPickProofs`**: `SequenceSound`, `HistoryPicked`, and the action properties
  `AbortPutsBack`, `PicksHold`. The invariant follows the content of a commit from the
  index into the history: nothing of a commit is staged when a round of
  `processCommits` starts (`Ready`), only the current one at a conflict (`Staged`), and
  whatever is staged has the repository's state beside it, by which the next start is
  refused (`Marked`); what a skip could not clear away is in `stuck`, and goes into a
  commit only over that. Only the branch HEAD is on has moved since the start
  (`OneBranch`), so that one reset takes everything back.
* **`RepositoryProofs`**, the handles: `HandlesSound`, `TasksHome`. `Linked` holds always: whatever
  anything points at was opened, and no model holds a handle that was freed. `Sole`,
  `Fit`, `Shown` and `AtHome` hold until a repository is opened again over its own handle
  (`reopened`): one handle is open, each model's handle opened that model's repository,
  the controllers hold the one of the repository shown, unless an opening failed
  half-way (`strayed`), and a task whose repository is still shown goes on in the
  controllers' handle. Between
  the start of the program and its first repository the one handle has opened nothing
  and nobody was told of it (`Untold`).
* **`NotificationsProofs`**: `NotesSound`, `NotesStay`, `OnlyReadDrift`. The controller
  writes whole files from memory, so the invariant says where a note is: that of the
  name selected in memory, any other in the file of its own repository's name (`Home`,
  `Filed`, `Safe`), unless a crash, a failed read or a write that failed or was cut
  short had that name at risk. It is by the name, and not the repository, that the
  program tells notes apart; `NameAssumption` says only that every repository has one.
  The object that reads keeps no content of another file than it is set to (`Emptied`).
  A queued note waits once and behind a window (`Turn`).
* **`RepositoryProofs`**, the forest: `QueueSound`, `DoneHolds`, `WaitersHeard`. The properties
  speak of the moments between two events; in the middle of a handler the functions of
  `RepoForest.qml` call each other, sometimes from inside a loop, and the properties do
  not hold. The invariant therefore says of each frame of the stack what it owes: a
  call of `processNextOperation`, of `fetchStartNextRemote` or `finishFetchFlow`, a
  loop with a remote or a closure left, still moves the queue on (`Going`), and while
  one does nothing is under way (`TopRests`); the frames that wait below are at their
  last element (`RestRests`). When the stack is empty a busy queue has a flight whose
  end is recognised (`BusyGoes`, `Awaited`). What was got is followed from the thread
  to the end that is told and to the status (`Got`); an item that waits for the
  password is in the list, and once it was answered for, in a call that puts it back
  into the queue (`Waiters`).

* **`ConflictProofs`**, the conflict window: `EditorStaysSound`, `EditsStay`,
  `StagedStaysResolved`, `RowsAlwaysTell`, and the action property `SavesKeepOthers`. That the parser
  finds exactly the blocks that are there (`BlocksAreMarked`) is a fact about every
  text: an induction over the lines says where the state the parser is in comes from,
  the last marker before and what stands between. The rest is an invariant in three
  parts. `Windowed`: the list is of files in conflict that are there, once each, and
  one of them is shown. `Mine` and `Agrees`: a file is *held* while it is shown or its
  rows are kept; what the user edited is held, and a held file that was not edited, nor
  written by another program, has the text of its rows. So a reload may drop the rows
  of the file accepted or staged, and of no other. `Resolves` is what staging relies
  on: as long as no marker is edited as text, the markers of the rows, of the lines
  loaded and of the file are the same (`Marks`), and they are those of blocks one after
  the other (`Even`). Accepting a side takes one block out of an even text, and an even
  text in which no block is found has no marker. `BlocksAreMarked` is not enough here:
  a text may have markers and no block, which is what `Odd` is about.
  `SaveKeepsOthers` speaks of the first stop, or of files in conflict that are there:
  after a skip rows of the stop before are kept, and saved.
  `RowsAlwaysTell` then shows `RowsTellTheFile`. Its invariant `Faithful` is about every
  file held and not only the one shown, since rows kept come back: unless one of its
  markers was edited as text, the rows are those the text they stand for would be read
  as. The page edits rows, the reader numbers blocks, so the proof is about two texts
  that differ in one line. Blocks found stand apart and are numbered in their order; a
  line that is no marker, put in anywhere, moves the blocks after it and gives none
  another number, so the reader makes the same rows and one more. Typing is taking such
  a line out and putting one in, splitting puts one more in, joining takes one out. For
  the buttons, the rows are cut at the first and the last line of the block: the rows
  before and after stay line by line, and of the block the rows of the sides chosen are
  left; the side that is one blank line goes in both (`LoneBlank`, `Joined`).
* **`LineStagingProofs`**: `PageStaysSound`, `FlagStaysTrue`, and the action properties
  `SavesAreAsMeant`, from `SavesStayMeant` and `SavesStayHome`, `ChunksAreTaken`, from
  `StagingMovesTheChunk` and `RevertingMovesTheChunk`, and `StashKeepsTheChunk`. The invariant (`View`)
  relates the rows, the two buffers, the flag and the history variable `meant`, which
  follows the edits on a text of its own: the right-hand side of the rows is `meant`;
  the buffer is the rows wherever an editor may have told of them; and a flag that is
  down means that nothing differs. It does not hold in the middle of a handler: between
  the question about unsaved changes and the page that is shown next only `Sound`
  holds, and `Home` says that no file but the one shown was written. Types need the
  diff: that git's script, and the rows made of it, are rows at all is an induction
  over the two texts (`Cell`).
  The invariant is only a matter of types for the chunks; what they need is about the
  diff. The number of an entry counts the lines of its side before it, so the walk
  copies the lines it means to (`ScriptTells`). The script is a shortest one that takes
  deletions first, so a step along either text changes what is left to edit by one at
  most (`CostsClose`) and no deletion comes right after an addition (`NoDelNext`). That
  is why the numbers of a chunk select its own entries and no others (`EntryTaken`): a
  deletion, and an addition paired with one, goes by the old side, where the chunk is
  told apart; an addition alone follows a deletion of its chunk, or its chunk begins
  with additions, has nothing else, and is numbered on the new side from first to last
  (`AddedFirst`, `AddedLast`). Rows and entries are both taken in order, and two
  sequences in order with the same elements are the same (`RisingSame`), so the walk
  leaves the line of one row after the other (`WalkIsMixed`).

The proofs are laid out alike: types, lemmas about the calls, one lemma per action,
the step, the theorems. TLC checked each `IInv` (`ScanInv`, `MergeInv`, `HandlesInv`), and `Faithful`, as an
invariant of the passing run before it was proved.

**Induction over data.** The induction theorems of the library have an operator as a
parameter, which the provers cannot instantiate. `SelectionProofs` does without: `<`
is well-founded on the naturals, a *set* of naturals that is not empty has a least
element (`Least`), so a set that has 0 and with each number the next has them all
(`Induction`), and likewise a set of sequences that has the empty one and with each
the longer ones (`SeqInduction`). Recursive functions are shown to exist and to follow
their equations in the same way. The parser, the rows, the diff and the walks over
them are written as recursive functions for this.

**Model-checked only.**

* The liveness properties (`ScanSettles`, `SessionProgresses`, `PullEnds`,
  `QueuedShown`, `QueueRests`), as fairness and `ENABLED` are out of this prover's
  reach.

## Where the code and what is said of it part

**A pull can drop commits** (`pull_elsewhere`, `GitRemote.cpp:836`). `GitRemote.h`
says that non-fast-forward pulls are rejected. With another branch checked out during
the fetch the analysis is about that branch, and the pulled one, which has commits of
its own, is moved back to the remote's. A commit made between the move and the hard
reset is lost too, and so is one of the branch checked out in between: `MovesForward`
sets that apart as `late`.

The following were met while modelling and have no run of their own; the properties
above set them apart by name.

*Sessions*

* A rebase started for a branch that is not checked out moves the one that was
  (`GitRebase.cpp:891`): HEAD is saved before the branch is checked out, and the end
  moves what was saved. `BranchRebased` speaks of the branch checked out only.
* The end of an interactive rebase tests neither its move of the branch nor the
  checkout of it (`GitRebase.cpp:1000-1008`). If the first fails, HEAD goes back to a
  branch that did not move and the replayed commits are on none; success is reported
  all the same. An abort (1155-1158) and the dropping of a pick that is skipped
  (1268-1293) test nothing either: `slipped`.
* A skip in a cherry-pick ignores the result of its reset (`GitCherryPick.cpp:445`), so
  what was skipped may be in the next commit. `stuck` names the changes it can be.
* A pick that libgit2 refuses is committed without its content
  (`GitCherryPick.cpp:214`): `GIT_ECONFLICT` is taken for success. `PicksApplied`
  excludes local edits, over which this happens.
* A merge commit can lack the content of a parent (`GitMerge.cpp:160`): two handlers
  left by cancelled popups run in one emission of the next; the first merge stops at
  conflicts, the second is refused because of them, but its parents are stored;
  continue commits the content of the first under the name of the second. `mixed`
  marks the commits this happened to, and `MergeTells` speaks of the states before.
* A fast-forward whose last call fails leaves the target's files and index over a
  branch that did not move (`GitMerge.cpp:115-125`).
* Aborting a merge leaves its conflicts and files (`GitMerge.cpp:438`), so that later
  merges, picks and checkouts are refused.
* Save in the conflict window closes it and tells no session; a cherry-pick or a
  merge is then answered by no window. In the rebase, the plan popup's Cancel is left.
* The hard resets at the end of a continue, a skip, an abort and a pull also throw
  away edits of files the operation never touched.
* A cherry-pick's `continueOp` commits before it resets; if the reset fails, the next
  click commits the same message again on an empty change.
* A fetch or a push that crosses a pull can put an older answer into the tracking
  branches, the push because it records what it did only after the remote has answered;
  the pull then says it is up to date. `CommittingPage.qml` reports "Pulled successfully"
  when the pull has only started.

*The conflict window*

* `getConflicts` leaves out a conflict whose file is not in the working directory
  (`GitConflict.cpp:42`); Continue is enabled while it remains, and fails.
* A line of the text like the middle marker hides the block it is in
  (`GitConflict.cpp:126`): the file counts as resolved, and Save and Stage stage the
  markers. With a `diff3` conflict style the base's lines become part of ours.
* The button goes by the file as it was read again, and stages the rows kept
  (`ConflictPopup.qml:505`, `:539`). The warning that asks before staging markers
  (513-533) cannot be reached.
* Rows of the files visited are kept after Skip, and Save writes every one of them
  (`ConflictPopup.qml:610`, `:671`), also over files that have no conflict any more
  or were changed elsewhere.
* Only Stage tests its write (`ConflictPopup.qml:541`, unlike 462, 667 and 684), and
  `writeFile` itself only looks whether the file opens (`GitConflict.cpp:250`). Save
  closes the window with success whatever became of the files, and Stage may add one
  that was cut short.
* A continue, a skip or an abort of a cherry-pick that fails after its reset leaves the
  window open with the conflicts it had (`ConflictPopup.qml:587`, `:613-615`), which are
  no longer in the index. `overtaken` sets this apart until they are loaded again.
* A side that is one blank line is dropped (`GitConflict.cpp:229`).

*Handles*

* Opening the repository that is open already hands its old handle, whose deletion is
  scheduled, back to every controller (`RepositoryController.qml:181`,
  `GitRepository.cpp:89`). Cloning from the Welcome page does it always.
* `init` is always refused: a handle exists before it is called.
* "add to end (newest last)" (`RepositoryController.qml:230`) is done by `unshift`,
  and the list is cut at the end the newest may be at: over its length it refuses new
  ones.
* A repository that is listed without a handle is opened twice; if the second call fails
  (`RepositoryController.qml:183-190`) the controllers hold its handle while another
  repository, or none, is shown.
* Handles of `openDetached` are never closed.

*Notifications*

* The unread count drifts when a window closes whose note was read already
  (`NotificationController.qml:344`). A cleared list is not written, so it is back
  after the repository is selected again. With real-time notes switched off, queued
  ones still pop up.
* The list and its file go by the name of the folder (`UiSession.qml:48`), so two
  repositories of one name share them, and each shows the other's notes.
* Files are opened with truncation and written in place, and no write is tested
  (`FileIO.cpp:131-148`): one that fails leaves an empty file, which is read back when
  the repository is selected again.

*Repository forest*

* The result of starting a fetch is ignored (`RepoForest.qml:327`): if it is refused,
  the queue stays busy for good.
* A pull of a repository with several remotes starts them all; the second is refused,
  which goes on to the next item and turns the controller under the running pull
  (`:416`). Pulls over HTTPS wait for a password nobody asks for. A blank password
  and Stop forget the items that wait.
* The popup closed with an operation under way: its late end is taken for another
  item's (`:486`). The password dialog is shared, and an answer given on another page
  sets the forest's.
* The forest reads `error` of a result whose key is `errorMessage`.

*Staging and the page of changes*

* A chunk's range mixes the numbers of the old and the new side
  (`SideBySideDiff.qml:371`, `GitStatus.cpp:1078`, `:1095`), so after lines were added
  or removed above it, others are staged with it. `GitStatus.h:142-144` promises the
  lines selected. A chunk that starts with a deletion walks the patch of the first
  changed file, whichever is shown (`GitStatus.cpp:962`).
* Ctrl+S and Save in the dialog write blank lines for rows shown as deleted, the
  staged version over the file when that is what is shown, and empty an untracked
  file (`CommittingPage.qml:620`). After edits were abandoned at the view's toggle
  Ctrl+S still writes them; the toggle's own Save signal is connected to nothing
  (`DiffView.qml:386`). A row joined with the one above keeps its text as deleted, so
  that saving doubles it.
* A save that fails does not stop what follows it (`CommittingPage.qml:625-629`,
  856-865): the page is read again, or the next file shown, and the edits are gone. A
  write that fails after the file was opened is reported as a success
  (`GitStatus.cpp:646-651`).
* After a chunk was stashed nobody looks at the revert (`StashController.qml:21`), and
  that does not look at its write (`GitStatus.cpp:1336-1340`), which may leave the file
  empty: the other lines of the file are then lost.
* The rows are of a diff with the indent heuristic (`GitStatus.cpp:280`), the patches
  walked are without (957, 1258), so that a group may be shown a line or more below where
  the walk finds it, and the numbers of its rows then take a part of it only. `Fresh`
  leaves such rows out.
* Edits are dropped without a question at a stash of lines, a discard of all and the
  refresh after a commit.
* When a file is unstaged that HEAD does not have, and the question that follows is
  cancelled, the page goes on showing chunks of a file that is no longer git's; their
  Stage button then does nothing (`GitStatus.cpp:926`). `Fresh` leaves this out.
* `stageFile` and `stageAll` cannot stage a removed file, yet `stageAll` reports
  success. `revertAll` removes untracked files although `GitStatus.h:187-188` says it
  does not. `saveFile` appends a newline. A change of the final newline cannot be
  staged by chunks, and deleting every line is refused. The message after unstaging
  all tests the wrong list (`ChangesFileLists.qml:80`).

## What is not modelled

* libgit2 is external: its headers are in the repository (`src/Ext`) and its sources
  are not. `GitRepo`, `GitContents`, the tracking references of `GitRemote` and the
  index of `LineStaging` say what the code relies on. Commits are taken to be atomic,
  and the object database to be safe to use from two threads. The vendored headers of
  libgit2, OpenSSL, libssh2 and zlib, most of the lines under `src/`, declare what
  others implement: they hold no behaviour of this program to model.
* Rebase: edits by other programs to files outside a conflict (the start is refused
  on a dirty tree); libgit2's own rebase, which no window starts; `previewRebasePlan`,
  which only reads.
* Conflict window: carriage returns and pasted text of several lines, and the
  rewriting of line endings.
* Remote: the working tree a pull resets, a detached HEAD (a pull refuses it at
  once), the list of remotes, authentication. That a task continues in another
  repository is in `RepoHandles`, which knows of the task's calls only where they go.
* Staging: the second question of opening a file in an editor, `stashFile` and
  stash-all, unstaging without HEAD, diffs between commits, file modes, renames, and
  the lines the chunk view hides.
* Commit: amend and revert, one call each on the tip. Branches: creation, renaming
  and deletion, and tags, bundles and configuration: a libgit2 call each, no state
  between calls.
* `FileIO`: its asynchronous mode, whose threads share members without a lock; no QML
  switches it on.
* Notifications: positions and animations of the windows.
* Plugins: loading foreign libraries, whose behaviour is their own.
* The commit graph's lanes and filters: pure functions computed for display.
* Keys and credentials, profiles, settings and styles: input, output, presentation.

## Plan

The modules and theorems planned are written: every safety invariant, action property
and refinement the passing runs check is stated by a theorem, for the windows under the
hypothesis above. What is left is outside the prover's reach: the liveness properties,
which rest on fairness and `ENABLED` and which TLC checks on the instances of the runs.
