------------------------------ MODULE RepoForest ------------------------------
(***************************************************************************)
(* The queue of RepoForest.qml, which fetches or pulls many repositories   *)
(* one after the other on one RemoteController.  Its functions call each   *)
(* other: a call that has begun is a frame of the stack calls, and the     *)
(* event loop has its turn when the stack is empty.  Fetches and pulls run *)
(* on threads; their ends are posted to the event loop and told to         *)
(* onFetchFinished, which goes by the name of the remote, or to all the    *)
(* closures that wait for a pull.  A touch of the list of repositories     *)
(* after it was emptied is an exception, and ends the call.                *)
(* The finding of repositories is GitScanner's; progress and the log are   *)
(* left out.                                                               *)
(* Each Bug... operator is a plausible slip in the definition after it,    *)
(* kept to show that the properties can fail.                              *)
(***************************************************************************)
EXTENDS Naturals, Sequences, FiniteSets, Functions

CONSTANTS Item,        \* the repositories that the scan finds
          Remote,      \* names of remotes
          RemotesOf,   \* RemotesOf[i]: the remotes of the repository i
          Https,       \* pairs of a repository and a remote that is not SSH
          Selection,   \* bound: the selections the user makes
          MaxOpens,    \* bound: openings of the popup
          MaxAsks      \* bound: how often the user asks for fetches or pulls

ASSUME RemotesAssumption ==
  /\ RemotesOf \in [Item -> Seq(Remote)] /\ Https \subseteq Item \X Remote
  /\ Selection \subseteq Seq(Item)
ASSUME BoundAssumption == MaxOpens \in Nat /\ MaxAsks \in Nat

None == "none"
ASSUME NoneAssumption == None \notin Item \cup Remote

VARIABLES
  queue,     \* operationQueue
  state,     \* queueState
  flow,      \* fetchFlow...: the item, the index of the next remote, the current one
  op,        \* _currentOperation
  waiting,   \* _patWaitingIndexs
  pat,       \* "" for none, "skip", or one the user gave
  asked,     \* _showUserAuthenticationPopup: the password is asked for
  handlers,  \* the items whose closures are connected to pullFinished
  status,    \* the status of each item
  popup,     \* "closed"; "scanning", with no list; or "listed"
  opens,     \* how often it was opened
  current,   \* the repository of scanRemoteController
  pulling,   \* its m_pullInProgress
  running,   \* the fetches and pulls on threads
  posted,    \* those that ended and are not told yet
  asks,      \* how often the user asked for fetches or pulls
  calls,     \* the calls that have begun, the innermost first
  got,       \* history: the remotes each item got since its operation began
  odd        \* history: what happened of the cases set apart below

work == <<queue, state, flow, op, status>>
password == <<waiting, pat, asked>>
threads == <<current, pulling, running, posted, handlers>>
window == <<popup, opens, asks>>
vars == <<work, password, threads, window, calls, got, odd>>

Op == {"fetch", "pull"}
NoFlow == [item |-> None, next |-> 1, current |-> None]
Busy == {"Running", "PauseRequested", "Stop"}
Status == {"Pending", "Fetching", "Pulling", "Done", "Canceled", "PAT waiting",
           "Skipped", "Stoped"}

\* What the properties set apart:
\*   several    a repository with several remotes was pulled
\*   left       the popup was closed with an operation under way
\*   refused    a fetch did not start, and nobody looked
\*   blank      an empty password was confirmed
\*   forgotten  the queue was stopped as an item came to wait for the password
\*   unasked    a pull waits for a password nobody asks for
\*   elsewhere  another page asked for a password
Odd == {"several", "left", "refused", "blank", "forgotten", "unasked", "elsewhere"}

\* A fetch or pull on its thread.  It is at home while all its calls went to
\* the repository it is for.
Flight == [op : Op, for : Item, remote : Remote, home : BOOLEAN]
Outcome == [flight : Flight, ok : BOOLEAN]

Frame == [do : {"process", "next", "confirmed"}]
         \cup [do : {"finish"}, with : Status]
         \cup [do : {"enqueue"}, op : Op, items : Seq(Item)]
         \cup [do : {"pull"}, for : Item, left : Seq(Remote)]
         \cup [do : {"told"}, left : Seq(Item), ok : BOOLEAN]

TypeOK ==
  /\ queue \in Seq([op : Op, item : Item])
  /\ state \in Busy \cup {"Ready", "Pause"}
  /\ flow \in [item : Item \cup {None}, next : Nat, current : Remote \cup {None}]
  /\ op \in Op \cup {None} /\ waiting \in Seq(Item)
  /\ pat \in {"", "skip", "given"} /\ asked \in BOOLEAN
  /\ handlers \in Seq(Item)
  /\ status \in [Item -> Status \cup {None}]
  /\ popup \in {"closed", "scanning", "listed"} /\ opens \in 0..MaxOpens /\ asks \in 0..MaxAsks
  /\ current \in Item \cup {None} /\ pulling \in BOOLEAN
  /\ running \in Seq(Flight) /\ posted \in Seq(Outcome)
  /\ calls \in Seq(Frame)
  /\ got \in [Item -> SUBSET Remote] /\ odd \subseteq Odd

Blank == [i \in Item |-> None]

Init ==
  /\ queue = <<>> /\ state = "Ready" /\ flow = NoFlow /\ op = None
  /\ waiting = <<>> /\ pat = "" /\ asked = FALSE
  /\ handlers = <<>> /\ status = Blank
  /\ popup = "closed" /\ opens = 0 /\ asks = 0
  /\ current = None /\ pulling = FALSE /\ running = <<>> /\ posted = <<>>
  /\ calls = <<>> /\ got = [i \in Item |-> {}] /\ odd = {}

Process == [do |-> "process"]
Finish(s) == [do |-> "finish", with |-> s]
Idle == calls = <<>>
Top(f) == ~Idle /\ Head(calls).do = f
Returns == calls' = Tail(calls)
ReturnsTo(f) == calls' = <<f>> \o Tail(calls)   \* a call in the tail position
Calls(f, after) == calls' = <<f, after>> \o Tail(calls)

\* The controller is given the repository i; a thread that runs goes on in it.
Repository(i, flights) ==
  [k \in DOMAIN flights |-> [flights[k] EXCEPT !.home = @ /\ flights[k].for = i]]

-----------------------------------------------------------------------------
(* The functions. *)

\* enqueueOperation, for each of the items.
Enqueue ==
  /\ Top("enqueue")
  /\ LET f == Head(calls) IN
     IF f.items = <<>> THEN Returns /\ UNCHANGED work
     ELSE LET i == Head(f.items)
              after == [f EXCEPT !.items = Tail(@)]
          IN /\ queue' = Append(queue, [op |-> f.op, item |-> i])
             /\ status' = [status EXCEPT ![i] = "Pending"]
             /\ IF state = "Ready" THEN Calls(Process, after) ELSE ReturnsTo(after)
             /\ UNCHANGED <<state, flow, op>>
  /\ UNCHANGED <<password, threads, window, got, odd>>

\* processNextOperation, when it starts nothing.
Rest ==
  /\ Top("process") /\ (queue = <<>> \/ state \in {"PauseRequested", "Pause"})
  /\ state' = IF queue = <<>> THEN "Ready" ELSE "Pause"
  /\ Returns
  /\ UNCHANGED <<queue, flow, op, status, password, threads, window, got, odd>>

Halt ==
  /\ Top("process") /\ queue # <<>> /\ state = "Stop"
  /\ queue' = <<>> /\ state' = "Ready"
  /\ status' = [i \in Item |-> IF \E k \in DOMAIN queue : queue[k].item = i
                               THEN "Stoped" ELSE status[i]]
  /\ flow' = NoFlow /\ op' = None /\ waiting' = <<>>
  /\ odd' = odd \cup (IF waiting = <<>> THEN {} ELSE {"forgotten"})
  /\ Returns
  /\ UNCHANGED <<pat, asked, threads, window, got>>

\* The one at the head of the queue is started.
Take(o, i) ==
  /\ Top("process") /\ state \in {"Ready", "Running"}
  /\ queue # <<>> /\ Head(queue) = [op |-> o, item |-> i]
  /\ queue' = Tail(queue) /\ state' = "Running" /\ op' = o
  /\ got' = [got EXCEPT ![i] = {}]

\* The status has the word of the log.
BugNothingToDo(o, i) ==
  /\ Take(o, i)
  /\ status' = [status EXCEPT ![i] = "Failed"]
  /\ UNCHANGED <<flow, password, threads, window, calls, odd>>

\* executeFetch and executePull end at once when the repository or its
\* remotes cannot be had, or there is none, and go on to the next item.
NothingToDo(o, i) ==
  /\ Take(o, i)
  /\ \/ /\ status' = [status EXCEPT ![i] = "Canceled"]
        /\ \/ UNCHANGED <<current, running>>
           \/ current' = i /\ running' = Repository(i, running)
     \/ /\ RemotesOf[i] = <<>> /\ status' = [status EXCEPT ![i] = "Done"]
        /\ current' = i /\ running' = Repository(i, running)
  /\ UNCHANGED <<flow, password, pulling, posted, handlers, window, calls, odd>>

ExecuteFetch(i) ==
  /\ Take("fetch", i) /\ RemotesOf[i] # <<>>
  /\ status' = [status EXCEPT ![i] = "Fetching"]
  /\ current' = i /\ running' = Repository(i, running)
  /\ flow' = [NoFlow EXCEPT !.item = i]
  /\ ReturnsTo([do |-> "next"])
  /\ UNCHANGED <<password, pulling, posted, handlers, window, odd>>

ExecutePull(i) ==
  /\ Take("pull", i) /\ RemotesOf[i] # <<>>
  /\ status' = [status EXCEPT ![i] = "Pulling"]
  /\ current' = i /\ running' = Repository(i, running)
  /\ ReturnsTo([do |-> "pull", for |-> i, left |-> RemotesOf[i]])
  /\ odd' = odd \cup (IF Len(RemotesOf[i]) > 1 THEN {"several"} ELSE {})
  /\ UNCHANGED <<flow, password, pulling, posted, handlers, window>>

Flies(o, i, r) ==
  running' = Append(running, [op |-> o, for |-> i, remote |-> r, home |-> current = i])

\* fetchStartNextRemote, when no remote is left.
FetchIsDone ==
  /\ Top("next") /\ flow # NoFlow /\ flow.next > Len(RemotesOf[flow.item])
  /\ ReturnsTo(Finish("Done"))
  /\ UNCHANGED <<work, password, threads, window, got, odd>>

\* The next one is fetched, given up, or waits for the password.
FetchNext(r) ==
  /\ Top("next") /\ flow # NoFlow /\ flow.next <= Len(RemotesOf[flow.item])
  /\ r = RemotesOf[flow.item][flow.next]
  /\ flow' = [flow EXCEPT !.next = @ + 1, !.current = r]
  /\ LET https == <<current, r>> \in Https IN
     \/ /\ ReturnsTo(Finish("Canceled"))
        /\ UNCHANGED <<password, running, odd>>
     \/ /\ https /\ pat = ""
        /\ waiting' = Append(waiting, flow.item) /\ asked' = TRUE
        /\ ReturnsTo(Finish("PAT waiting"))
        /\ UNCHANGED <<pat, running, odd>>
     \/ /\ https /\ pat = "skip"
        /\ ReturnsTo(Finish("Skipped"))
        /\ UNCHANGED <<password, running, odd>>
     \/ /\ https => pat = "given"
        /\ Flies("fetch", flow.item, r) /\ Returns
        /\ UNCHANGED <<password, odd>>
     \/ /\ ~https /\ Returns     \* no agent for SSH; the result is not read
        /\ odd' = odd \cup {"refused"}
        /\ UNCHANGED <<password, running>>
  /\ UNCHANGED <<queue, state, op, status, current, pulling, posted, handlers, window, got>>

\* The next item is not started.
BugFinishFetchFlow ==
  /\ Top("finish")
  /\ flow' = NoFlow
  /\ status' = [status EXCEPT ![flow.item] = Head(calls).with]
  /\ Returns
  /\ UNCHANGED <<queue, state, op, password, threads, window, got, odd>>

\* finishFetchFlow.
FinishFetchFlow ==
  /\ Top("finish")
  /\ flow' = NoFlow
  /\ status' = [status EXCEPT ![flow.item] = Head(calls).with]
  /\ ReturnsTo(Process)
  /\ UNCHANGED <<queue, state, op, password, threads, window, got, odd>>

\* The loop of executePull over the remotes; processNextOperation is called
\* in the middle of it when a pull does not start.  No password is ever
\* passed: the argument is empty, or some text that is none.
PullNext(i, r) ==
  /\ Top("pull") /\ Head(calls).for = i /\ Head(calls).left # <<>>
  /\ r = Head(Head(calls).left)
  /\ LET after == [Head(calls) EXCEPT !.left = Tail(@)] IN
     \/ /\ pulling' = TRUE /\ ~pulling
        /\ handlers' = Append(handlers, i)
        /\ Flies("pull", i, r)
        /\ ReturnsTo(after)
        /\ UNCHANGED <<status, odd>>
     \/ /\ status' = [status EXCEPT ![i] = "Canceled"]
        /\ Calls(Process, after)
        /\ UNCHANGED <<pulling, handlers, running, odd>>
     \/ /\ <<current, r>> \in Https
        /\ status' = [status EXCEPT ![i] = "PAT waiting"]
        /\ odd' = odd \cup {"unasked"}
        /\ Calls(Process, after)
        /\ UNCHANGED <<pulling, handlers, running>>
  /\ UNCHANGED <<queue, state, flow, op, password, current, posted, window, got>>

PullsStarted ==
  /\ Top("pull") /\ Head(calls).left = <<>> /\ Returns
  /\ UNCHANGED <<work, password, threads, window, got, odd>>

-----------------------------------------------------------------------------
(* The threads and the event loop. *)

\* A thread ends; what it fetched went to the repository it was for, if no
\* other was given to the controller.
End(k, ok) ==
  /\ k \in DOMAIN running
  /\ running' = [j \in 1..Len(running) - 1 |-> running[IF j < k THEN j ELSE j + 1]]
  /\ posted' = Append(posted, [flight |-> running[k], ok |-> ok])
  /\ got' = IF ok /\ running[k].home
            THEN [got EXCEPT ![running[k].for] = @ \cup {running[k].remote}] ELSE got
  /\ UNCHANGED <<work, password, current, pulling, handlers, window, calls, odd>>

\* The name of the remote is not looked at.
BugOnFetchFinished ==
  /\ Idle /\ posted # <<>> /\ Head(posted).flight.op = "fetch"
  /\ posted' = Tail(posted)
  /\ calls' = IF flow = NoFlow THEN <<>> ELSE <<Finish("Done")>>
  /\ UNCHANGED <<work, password, current, pulling, running, handlers, window, got, odd>>

\* onFetchFinished.
OnFetchFinished ==
  /\ Idle /\ posted # <<>> /\ Head(posted).flight.op = "fetch"
  /\ posted' = Tail(posted)
  /\ calls' = IF popup # "listed" \/ Head(posted).flight.remote # flow.current THEN <<>>
              ELSE IF Head(posted).ok THEN <<[do |-> "next"]>> ELSE <<Finish("Canceled")>>
  /\ UNCHANGED <<work, password, current, pulling, running, handlers, window, got, odd>>

\* The end of a pull, emitted to the closures connected by then.
PullFinished ==
  /\ Idle /\ posted # <<>> /\ Head(posted).flight.op = "pull"
  /\ posted' = Tail(posted) /\ pulling' = FALSE
  /\ calls' = <<[do |-> "told", left |-> handlers, ok |-> Head(posted).ok]>>
  /\ UNCHANGED <<work, password, current, running, handlers, window, got, odd>>

\* The closure is not disconnected.
BugOnPullFinished ==
  /\ Top("told")
  /\ LET f == Head(calls) IN
     IF f.left = <<>> THEN Returns /\ UNCHANGED status
     ELSE /\ status' = [status EXCEPT ![Head(f.left)] = IF f.ok THEN "Done" ELSE "Canceled"]
          /\ Calls(Process, [f EXCEPT !.left = Tail(@)])
  /\ UNCHANGED <<queue, state, flow, op, password, threads, window, got, odd>>

\* onPullFinished, of one closure after the other.
OnPullFinished ==
  /\ Top("told")
  /\ LET f == Head(calls)
         after == [f EXCEPT !.left = Tail(@)]
         i == Head(f.left)
         k == CHOOSE j \in DOMAIN handlers : handlers[j] = i
     IN IF f.left = <<>> THEN Returns /\ UNCHANGED <<status, handlers>>
        ELSE IF popup # "listed" THEN ReturnsTo(after) /\ UNCHANGED <<status, handlers>>
        ELSE /\ status' = [status EXCEPT ![i] = IF f.ok THEN "Done" ELSE "Canceled"]
             /\ handlers' = [j \in 1..Len(handlers) - 1 |-> handlers[IF j < k THEN j ELSE j + 1]]
             /\ Calls(Process, after)
  /\ UNCHANGED <<queue, state, flow, op, password, current, pulling, running, posted,
                 window, got, odd>>

-----------------------------------------------------------------------------
(* The user.  The question for the password is modal. *)

UserActs == Idle /\ popup = "listed" /\ ~asked

\* The buttons are enabled in the state Ready.
Ask(o, items) ==
  /\ UserActs /\ state = "Ready" /\ asks < MaxAsks /\ asks' = asks + 1
  /\ calls' = <<[do |-> "enqueue", op |-> o, items |-> items]>>
  /\ UNCHANGED <<work, password, threads, popup, opens, got, odd>>

PauseQueue ==
  /\ UserActs /\ state = "Running" /\ state' = "PauseRequested"
  /\ UNCHANGED <<queue, flow, op, status, password, threads, window, calls, got, odd>>

\* The queue is not looked at.
BugResumeQueue ==
  /\ UserActs /\ state = "Pause" /\ state' = "Ready"
  /\ UNCHANGED <<queue, flow, op, status, password, threads, window, calls, got, odd>>

ResumeQueue ==
  /\ UserActs /\ state = "Pause" /\ state' = "Ready"
  /\ calls' = IF queue = <<>> THEN <<>> ELSE <<Process>>
  /\ UNCHANGED <<queue, flow, op, status, password, threads, window, got, odd>>

\* The stop button.
StopQueue ==
  /\ UserActs /\ state \in {"Running", "Pause"} /\ state' = "Stop"
  /\ calls' = IF state = "Pause" THEN <<Process>> ELSE <<>>
  /\ UNCHANGED <<queue, flow, op, status, password, threads, window, got, odd>>

\* onPasswordConfirm puts those that wait back into the queue, and empties
\* the list of them when that is done.
Confirm(p) ==
  /\ Idle /\ asked /\ pat' = p
  /\ calls' = (IF op = None THEN <<>> ELSE <<[do |-> "enqueue", op |-> op, items |-> waiting]>>)
              \o <<[do |-> "confirmed"]>>
  /\ odd' = odd \cup (IF p = "" THEN {"blank"} ELSE {})
  /\ UNCHANGED <<work, waiting, asked, threads, window, got>>

\* The list is emptied, and the question closes.
Confirmed ==
  /\ Top("confirmed")
  /\ waiting' = <<>> /\ asked' = FALSE
  /\ Returns
  /\ UNCHANGED <<work, pat, threads, window, got, odd>>

\* The list of those that wait is emptied only.
BugReject ==
  /\ Idle /\ asked /\ asked' = FALSE /\ pat' = "skip" /\ waiting' = <<>>
  /\ UNCHANGED <<work, threads, window, calls, got, odd>>

\* onRejected.
Reject ==
  /\ Idle /\ asked /\ asked' = FALSE /\ pat' = "skip" /\ waiting' = <<>>
  /\ status' = [i \in Item |-> IF \E k \in DOMAIN waiting : waiting[k] = i
                               THEN "Skipped" ELSE status[i]]
  /\ UNCHANGED <<queue, state, flow, op, threads, window, calls, got, odd>>

\* The question is the same object for every page, and the forest listens.
AskedElsewhere(p) ==
  /\ Idle /\ popup = "closed" /\ waiting = <<>> /\ pat' = p
  /\ odd' = odd \cup {"elsewhere"}
  /\ UNCHANGED <<work, waiting, asked, threads, window, calls, got>>

OpenPopup ==
  /\ Idle /\ popup = "closed" /\ opens < MaxOpens
  /\ popup' = "scanning" /\ opens' = opens + 1
  /\ UNCHANGED <<work, password, threads, asks, calls, got, odd>>

\* onScanFinished; the controller is left without a repository.
OnScanFinished ==
  /\ Idle /\ popup = "scanning" /\ popup' = "listed"
  /\ status' = [i \in Item |-> "Pending"]
  /\ current' = None /\ running' = Repository(None, running)
  /\ UNCHANGED <<queue, state, flow, op, password, pulling, posted, handlers, opens,
                 asks, calls, got, odd>>

\* resetRepoForest: the fetch under way and the closures are left.
ClosePopup ==
  /\ Idle /\ popup # "closed" /\ ~asked
  /\ popup' = "closed" /\ status' = Blank
  /\ pat' = "" /\ queue' = <<>> /\ state' = "Ready"
  /\ odd' = odd \cup (IF running = <<>> /\ posted = <<>> /\ flow = NoFlow /\ handlers = <<>>
                      THEN {} ELSE {"left"})
  /\ got' = [i \in Item |-> {}]
  /\ UNCHANGED <<flow, op, waiting, asked, threads, opens, asks, calls>>

Step ==
  \/ Enqueue \/ Rest \/ Halt \/ FetchIsDone \/ FinishFetchFlow \/ PullsStarted
  \/ OnPullFinished \/ Confirmed
  \/ \E i \in Item : \/ \E o \in Op : NothingToDo(o, i)
                     \/ ExecuteFetch(i) \/ ExecutePull(i)
  \/ \E r \in Remote : FetchNext(r) \/ \E i \in Item : PullNext(i, r)

Tell == OnFetchFinished \/ PullFinished

User ==
  \/ \E o \in Op, items \in Selection : Ask(o, items)
  \/ PauseQueue \/ ResumeQueue \/ StopQueue
  \/ \E p \in {"", "given"} : Confirm(p)
  \/ Reject \/ OpenPopup \/ OnScanFinished \/ ClosePopup
  \/ \E p \in {"skip", "given"} : AskedElsewhere(p)

Threads == \E k \in 1..Len(running), ok \in BOOLEAN : End(k, ok)

Next == Step \/ Tell \/ User \/ Threads

\* The event loop goes on, and each fetch or pull ends.
Spec == Init /\ [][Next]_vars /\ WF_vars(Step \/ Tell) /\ WF_vars(Threads)

-----------------------------------------------------------------------------
(* Properties. *)

\* Between two events nothing is left in a queue that is Ready, whose
\* buttons are the only way to go on: paused, resumed, stopped, or refilled
\* after a password was given, each path that ends in Ready empties it.
ReadyIsEmpty == Idle /\ state = "Ready" => queue = <<>>

\* A queue that shows as busy has a fetch or a pull under way whose end will
\* be recognised, so that it goes on: none of the early ends of a fetch or
\* pull forgets to call the next one.
BusyIsMoved ==
  Idle /\ state \in Busy /\ odd \cap {"left", "refused"} = {} =>
    LET flights == Range(running) \cup {o.flight : o \in Range(posted)} IN
    \/ \E f \in flights : f.op = "fetch" /\ f.for = flow.item /\ f.remote = flow.current
    \/ handlers # <<>> /\ \E f \in flights : f.op = "pull"

\* The repositories are worked on one at a time, the controller they share
\* is not turned to another under the thread, and Ready means that none is
\* worked on.
OneAtATime ==
  odd \cap {"several", "left"} = {} =>
    /\ Len(running) + Len(posted) <= 1
    /\ \A k \in DOMAIN running : running[k].home
    /\ Idle /\ state \in {"Ready", "Pause"} => running \o posted = <<>>

\* An item that shows as done got what each of its remotes had, in this
\* operation and in its own repository.
DoneIsDone ==
  odd \cap {"several", "left"} = {} =>
    \A i \in Item : status[i] = "Done" => Range(RemotesOf[i]) \subseteq got[i]

\* An item that waits for the password is remembered, and the user is being
\* asked; it is skipped, or fetched, by the answer.
WaitersAreAsked ==
  /\ Idle /\ waiting # <<>> => asked
  /\ Idle /\ odd \cap {"blank", "forgotten", "unasked"} = {} =>
       \A i \in Item : status[i] = "PAT waiting" => asked /\ i \in Range(waiting)

\* A busy queue comes to rest, by itself: done, paused or stopped.
QueueRests ==
  state \in Busy ~> (state \notin Busy \/ odd \cap {"left", "refused"} # {})

\* A queue at rest is empty or paused, a busy one has an operation under way
\* that will move it on, and only one repository is worked on at a time.
QueueIsSound == TypeOK /\ ReadyIsEmpty /\ BusyIsMoved /\ OneAtATime
=============================================================================
