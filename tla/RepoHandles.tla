----------------------------- MODULE RepoHandles -----------------------------
(***************************************************************************)
(* The handles of open repositories.  GitRepository.cpp opens them, and    *)
(* disposes of the last one with deleteLater, which the event loop carries *)
(* out; RepositoryController.qml keeps one in the model of every           *)
(* repository of the list; UiSession.qml hands the current one to thirteen *)
(* controllers, which keep a plain pointer.  A property of QML that holds  *)
(* an object becomes null when the object is destroyed; a plain pointer    *)
(* does not.  Clones and remote operations run on threads meanwhile, and a *)
(* remote operation reads the pointer again for each of its calls.         *)
(* A program that used a freed handle is only followed to its restart.     *)
(* init, which refuses while there is a current handle, and close and      *)
(* closeRepository, which nothing calls, are left out.                     *)
(* Each Bug... operator is a plausible slip in the definition after it,    *)
(* kept to show that the properties can fail.                              *)
(***************************************************************************)
EXTENDS Naturals, Sequences

CONSTANTS Path,         \* paths of repositories
          Existing,     \* those on disk at first; the others may be cloned
          Task,         \* bound: remote operations that run at a time
          MaxRecent,    \* maxRecentLength
          MaxHandles    \* bound: handles opened between two restarts

ASSUME PathAssumption == Existing \subseteq Path
ASSUME HandlesBoundAssumption == MaxRecent \in Nat \ {0} /\ MaxHandles \in Nat \ {0}

NoPath == "none"
ASSUME NoPathAssumption == NoPath \notin Path

Null == 0              \* the null pointer
Handle == 1..MaxHandles

VARIABLES
  session,   \* what the handlers of the user-interface thread work on:
             \*   opened    the path each handle opened, None for the first
             \*   doomed    the handles given to deleteLater
             \*   current   m_currentRepo of the repository controller
             \*   held      m_currentRepo of the other controllers
             \*   repos     appModel.repositories
             \*   handleOf  the cppObjectPtr of their models
             \*   selected  appModel.currentRepository
  freed,     \* the handles destroyed
  recents,   \* recentRepositories
  clone,     \* clone[p]: the thread that clones p, and its posted end
  exist,     \* the repositories on disk
  task,      \* task[t]: the repository it was asked for, and the handle its
             \* call is using
  reopened,  \* history: a listed repository with a handle was opened again
  borrowed,  \* history: models that got the handle of another repository
  strayed,   \* history: the handle held is of a repository not shown after all
  moved      \* history: tasks during which the selection or handle changed, or
             \* that were started astray

history == <<reopened, borrowed, strayed, moved>>
handlesVars == <<session, freed, recents, clone, exist, task, history>>

\* GitRepository starts with a handle that opened nothing.
FirstSession ==
  [opened |-> <<NoPath>>, doomed |-> {}, current |-> 1, held |-> Null,
   repos |-> <<>>, handleOf |-> [p \in Path |-> Null], selected |-> NoPath]

NoTask == [for |-> NoPath, using |-> Null]

ListedPaths(s) == {s.repos[i] : i \in DOMAIN s.repos}

\* A list has every repository once.
Once(list) == \A i, j \in DOMAIN list : list[i] = list[j] => i = j

Session ==
  [opened : Seq(Path \cup {NoPath}), doomed : SUBSET Handle, current : Handle,
   held : Handle \cup {Null}, repos : Seq(Path), handleOf : [Path -> Handle \cup {Null}],
   selected : Path \cup {NoPath}]

HandlesTypeOK ==
  /\ session \in Session
  /\ Len(session.opened) <= MaxHandles
  /\ session.doomed \subseteq DOMAIN session.opened /\ freed \subseteq DOMAIN session.opened
  /\ {session.current, session.held} \subseteq DOMAIN session.opened \cup {Null}
  /\ Once(session.repos)
  /\ recents \in Seq(Path) /\ Len(recents) <= MaxRecent /\ Once(recents)
  /\ clone \in [Path -> {"no", "running", "cloned", "failed"}]
  /\ exist \subseteq Path
  /\ task \in [Task -> [for : Path \cup {NoPath}, using : Handle \cup {Null}]]
  /\ {reopened, strayed} \subseteq BOOLEAN /\ borrowed \subseteq Path /\ moved \subseteq Task

HandlesInit ==
  /\ session = FirstSession
  /\ freed = {} /\ recents = <<>>
  /\ clone = [p \in Path |-> "no"] /\ exist = Existing
  /\ task = [t \in Task |-> NoTask]
  /\ reopened = FALSE /\ borrowed = {} /\ strayed = FALSE /\ moved = {}

-----------------------------------------------------------------------------
(* What the functions of the two controllers make of a session. *)

\* The list without p, which is in it at most once.
Dropped(list, p) ==
  LET At(k) == list[k] = p
      at == CHOOSE k \in DOMAIN list : At(k)
  IN IF \E k \in DOMAIN list : At(k)
       THEN [j \in 1..Len(list) - 1 |-> list[IF j < at THEN j ELSE j + 1]]
       ELSE list

\* The handle replaced is kept.
BugOpened(s, p) ==
  LET h == Len(s.opened) + 1
  IN [s EXCEPT !.opened = Append(@, p), !.current = h, !.held = h]

\* The controllers are not told.
BugUntold(s, p) ==
  [s EXCEPT !.opened = Append(@, p), !.current = Len(s.opened) + 1,
            !.doomed = @ \cup {s.current}]

\* GitRepository::open, once openDetached got a handle: the change of
\* currentRepo reaches every controller, and then the old one is disposed of.
Opened(s, p) ==
  LET h == Len(s.opened) + 1
  IN [s EXCEPT !.opened = Append(@, p), !.current = h, !.held = h,
               !.doomed = @ \cup {s.current}]

\* setCurrentRepo, which tells nobody when nothing changes.
WithCurrent(s, h) ==
  [s EXCEPT !.current = h, !.held = IF h = s.current THEN @ ELSE h]

\* selectRepository, of a listed one that can be opened.
Selected(s, p) ==
  IF s.handleOf[p] # Null
    THEN [WithCurrent(s, s.handleOf[p]) EXCEPT !.selected = p]
    ELSE [Opened(s, p) EXCEPT !.selected = p, !.handleOf[p] = Len(s.opened) + 1]

\* createRepositoryComponent: a new model gets the current handle.
Created(s, p) ==
  IF p \in ListedPaths(s) THEN Selected(s, p)
  ELSE Selected([s EXCEPT !.repos = Append(@, p), !.handleOf[p] = s.current], p)

\* The new one is added where the comment says.
BugRecents(p) ==
  LET all == Append(Dropped(recents, p), p)
  IN IF Len(all) > MaxRecent THEN SubSeq(all, Len(all) - MaxRecent + 1, Len(all)) ELSE all

\* The list is never cut.
BugUncut(p) == <<p>> \o Dropped(recents, p)

\* updateRecentRepositories: the one selected moves to the front, and the
\* list is then cut at the front.
Recents(p) ==
  LET others == Dropped(recents, p)
      all == <<p>> \o others
  IN IF Len(all) > MaxRecent THEN SubSeq(all, Len(all) - MaxRecent + 1, Len(all)) ELSE all

\* The handler leaves the session s, with p selected unless it is NoPath.
Becomes(s, p) ==
  /\ Len(s.opened) <= MaxHandles
  /\ session' = s
  /\ recents' = IF p = NoPath THEN recents ELSE Recents(p)
  /\ strayed' = (p = NoPath /\ (strayed \/ s.held # session.held))
  /\ moved' = moved \cup (IF s.selected = session.selected /\ s.held = session.held THEN {}
                          ELSE {t \in Task : task[t] # NoTask})

\* The event loop turns to the user when the posted events are dealt with,
\* the deletions among them.
Again(p) == p \in ListedPaths(session) /\ session.handleOf[p] # Null
Sound == session.current \notin freed
UserMayAct == Sound /\ session.doomed = {}

-----------------------------------------------------------------------------
(* The user. *)

\* selectRepository would open it, and that may fail.
MustOpen(p) == p \in ListedPaths(session) /\ session.handleOf[p] = Null

\* openRepository, from the list of recent ones, a folder or the command
\* line; a clone under way may have made enough of a repository.  A model
\* without a handle opens the repository once more: when that fails, the one
\* just opened is current and the selection left as it was.
OpenRepository(p) ==
  /\ UserMayAct /\ p \in exist \cup {q \in Path : clone[q] = "running"}
  /\ \/ Becomes(Created(Opened(session, p), p), p)
     \/ MustOpen(p) /\ Becomes(Opened(session, p), NoPath)
  /\ reopened' = (reopened \/ Again(p))
  /\ borrowed' = IF p \in ListedPaths(session) THEN borrowed ELSE borrowed \ {p}
  /\ UNCHANGED <<freed, clone, exist, task>>

\* A click in the list.
SelectRepository(p) ==
  /\ UserMayAct /\ p \in ListedPaths(session)
  /\ Becomes(Selected(session, p), p)
  /\ UNCHANGED <<freed, clone, exist, task, reopened, borrowed>>

\* What is left of the session without the model of p.
WithoutRepo(s, p) ==
  [s EXCEPT !.repos = Dropped(@, p), !.handleOf[p] = Null]

\* closeRepo: the first of those left is selected, if it can be opened; with
\* none left the function throws there.
CloseRepo(p) ==
  LET left == WithoutRepo(session, p)
  IN /\ UserMayAct /\ p \in ListedPaths(session)
     /\ \/ /\ left.repos # <<>> => left.handleOf[Head(left.repos)] = Null
           /\ Becomes(left, NoPath)
        \/ left.repos # <<>> /\ Becomes(Selected(left, Head(left.repos)), Head(left.repos))
     /\ UNCHANGED <<freed, clone, exist, task, reopened, borrowed>>

\* cloneRepository: refused for a path being cloned or a directory there.
CloneRepository(p) ==
  /\ UserMayAct /\ p \notin exist /\ clone[p] = "no"
  /\ clone' = [clone EXCEPT ![p] = "running"]
  /\ UNCHANGED <<session, freed, recents, exist, task, history>>

-----------------------------------------------------------------------------
(* The threads and the event loop. *)

CloneEnds(p) ==
  /\ clone[p] = "running"
  /\ \/ clone' = [clone EXCEPT ![p] = "cloned"] /\ exist' = exist \cup {p}
     \/ clone' = [clone EXCEPT ![p] = "failed"] /\ UNCHANGED exist
  /\ UNCHANGED <<session, freed, recents, task, history>>

\* onCloneFinished of the controller, and of the welcome page, which is
\* there before the first repository and opens it as well, if it can.
OnCloneFinished(p) ==
  /\ Sound /\ clone[p] \in {"cloned", "failed"}
  /\ clone' = [clone EXCEPT ![p] = "no"]
  /\ \/ /\ clone[p] = "failed" \/ MustOpen(p)
        /\ UNCHANGED <<session, recents, history>>
     \/ /\ clone[p] = "cloned"
        /\ Becomes(Created(session, p), p)
        /\ borrowed' = IF p \in ListedPaths(session) THEN borrowed ELSE borrowed \cup {p}
        /\ reopened' = (reopened \/ Again(p))
     \/ /\ clone[p] = "cloned" /\ session.selected = NoPath
        /\ Becomes(Created(Opened(Created(session, p), p), p), p)
        /\ borrowed' = borrowed \cup {p}
        /\ reopened' = TRUE
  /\ UNCHANGED <<freed, exist, task>>

\* The deferred deletion: git_repository_free, and null in every model.
Destroy(h) ==
  /\ h \in session.doomed
  /\ session' = [session EXCEPT !.doomed = @ \ {h},
                   !.handleOf = [p \in Path |-> IF @[p] = h THEN Null ELSE @[p]]]
  /\ freed' = freed \cup {h}
  /\ borrowed' = {p \in borrowed : session.handleOf[p] # h}
  /\ UNCHANGED <<recents, clone, exist, task, reopened, strayed, moved>>

\* A fetch, pull or push of the repository shown; with no handle, or one
\* that opened nothing, it answers that no repository is available.
StartTask(t) ==
  /\ UserMayAct /\ task[t] = NoTask
  /\ session.held # Null /\ session.opened[session.held] # NoPath
  /\ session.selected # NoPath
  /\ task' = [task EXCEPT ![t] = [for |-> session.selected, using |-> Null]]
  /\ moved' = IF strayed THEN moved \cup {t} ELSE moved \ {t}
  /\ UNCHANGED <<session, freed, recents, clone, exist, reopened, borrowed, strayed>>

\* The repository is the one that was there at the start of the task.
BugCall(t) ==
  /\ task[t] # NoTask /\ task[t].using = Null
  /\ \E h \in DOMAIN session.opened : task' = [task EXCEPT ![t].using = h]
  /\ UNCHANGED <<session, freed, recents, clone, exist, history>>

\* One call of the thread into libgit2 begins, on m_currentRepo->repo.
Call(t) ==
  /\ task[t] # NoTask /\ task[t].using = Null
  /\ task' = [task EXCEPT ![t].using = session.held]
  /\ UNCHANGED <<session, freed, recents, clone, exist, history>>

\* It returns; another follows, or that was the last.
Return(t) ==
  /\ task[t] # NoTask /\ task[t].using # Null
  /\ \/ task' = [task EXCEPT ![t].using = Null]
     \/ task' = [task EXCEPT ![t] = NoTask]
  /\ UNCHANGED <<session, freed, recents, clone, exist, history>>

\* The program ends or dies, and starts with the recent ones it saved.
Restart ==
  /\ session' = FirstSession /\ freed' = {}
  /\ clone' = [p \in Path |-> "no"]
  /\ task' = [t \in Task |-> NoTask]
  /\ reopened' = FALSE /\ borrowed' = {} /\ strayed' = FALSE /\ moved' = {}
  /\ UNCHANGED <<recents, exist>>

HandlesNext ==
  \/ \E p \in Path : \/ OpenRepository(p) \/ SelectRepository(p) \/ CloseRepo(p)
                     \/ CloneRepository(p) \/ CloneEnds(p) \/ OnCloneFinished(p)
  \/ \E h \in Handle : Destroy(h)
  \/ \E t \in Task : StartTask(t) \/ Call(t) \/ Return(t)
  \/ Restart

HandlesSpec == HandlesInit /\ [][HandlesNext]_handlesVars

-----------------------------------------------------------------------------
(* Properties. *)

Alive == DOMAIN session.opened \ (session.doomed \cup freed)

\* However repositories are opened, selected, closed and cloned, at most one
\* is open at a time and all the controllers point at it: none of them is
\* left with a disposed handle, and none is forgotten unclosed.  The
\* exception is the opening of a repository that is open: the model hands
\* back the handle that was just replaced.
OneOpenHandle ==
  ~reopened => /\ Alive = {session.current}
               /\ session.held \in {Null, session.current}

\* What the controllers work on is the repository that is shown, except for
\* the model a clone made, which took the handle of another one, and after an
\* opening that selected nothing because the second of its two calls failed.
ShownIsHeld ==
  session.selected # NoPath /\ ~reopened /\ ~strayed /\ session.selected \notin borrowed
    => session.held # Null /\ session.opened[session.held] = session.selected

\* While the selection stays as it was when a task was started, each of its
\* calls finds an undisposed handle of the repository it was asked for.
TasksStayHome ==
  \A t \in Task : task[t].using # Null /\ t \notin moved /\ ~reopened /\ task[t].for \notin borrowed
    => /\ task[t].using \in Alive
       /\ session.opened[task[t].using] = task[t].for

\* The repository shown heads the list of recent ones, whatever was opened
\* and closed before, up to the length where the list starts to refuse it.
RecentFirst ==
  session.selected # NoPath =>
    \/ recents # <<>> /\ Head(recents) = session.selected
    \/ Len(recents) = MaxRecent /\ \A i \in DOMAIN recents : recents[i] # session.selected

\* One repository is open, the controllers work on the one that is shown, and
\* it heads the recent ones, however it was opened, cloned or selected and
\* whenever disposed handles are freed.
HandlesAreSound == HandlesTypeOK /\ OneOpenHandle /\ ShownIsHeld /\ RecentFirst
=============================================================================
