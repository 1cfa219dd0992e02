---------------------------- MODULE RebaseWindows ----------------------------
(***************************************************************************)
(* The two windows that drive the interactive rebase: the modal plan popup *)
(* (CommitPlanPopup.qml), which starts and aborts the session and shows    *)
(* its signals, and the application-modal conflict window                  *)
(* (ConflictPopup.qml in interactiveMode), which answers a conflict.  A    *)
(* signal is handled inside the call that emits it, so a step here is the  *)
(* session's step with what the windows make of its signals.               *)
(***************************************************************************)
EXTENDS InteractiveRebase

\* previewRebasePlan walks over each commit once.
ASSUME WalkAssumption ==
  \A p \in Plans : \A i, j \in DOMAIN p : p[i].hash = p[j].hash => i = j

VARIABLES
  open,    \* the plan popup is visible
  state,   \* currentRebaseState; idle and failed are one text, "Start Rebase"
  status,  \* commitModel: the status of each commit
  prompt,  \* the conflict window is visible
  shown    \* its conflicts: the files it lists

planWindow == <<open, state, status>>
windows == <<planWindow, prompt, shown>>
allVars == <<vars, windows>>

State == {"idle", "running", "completed"}
Status == {"pending", "inProgress", "rebased", "skipped", "conflict"}

WindowsTypeOK ==
  /\ open \in BOOLEAN /\ prompt \in BOOLEAN
  /\ state \in State
  /\ status \in [Change -> Status]
  /\ shown \subseteq Path

AllPending == [h \in Change |-> "pending"]

WindowsInit ==
  /\ Init
  /\ open = FALSE /\ state = "idle" /\ status = AllPending
  /\ prompt = FALSE /\ shown = {}

-----------------------------------------------------------------------------
(* The slots. *)

Mark(h, s) == status' = [status EXCEPT ![h] = s]

\* onRebaseAborted
Aborted == state' = "idle" /\ status' = AllPending

\* getConflicts leaves out the files it cannot read.
Listed(g) == g.unmerged \ g.missing

\* show(): the list is loaded when the window becomes visible.
ShowConflicts(g) ==
  /\ prompt' = TRUE
  /\ shown' = IF prompt THEN shown ELSE Listed(g)

\* A call that finds no session does nothing.
Ignored == UNCHANGED <<vars, state, status>>

-----------------------------------------------------------------------------
(* The plan popup; nothing below the conflict window can be clicked. *)

PlanHasFocus == open /\ ~prompt

\* showPlan
ShowPlan ==
  /\ ~open
  /\ open' = TRUE /\ state' = "idle" /\ status' = AllPending
  /\ UNCHANGED <<vars, prompt, shown>>

\* beginRebase, with onRebaseFinished(false) if it fails.
BeginRebase(branch, c, p) ==
  \/ Begin(branch, c, p) /\ state' = "running"
  \/ (Refuse \/ BeginFails(branch, c)) /\ state' = "idle"

\* The statuses of the attempt before are kept.
BugStartRebase(branch, c, p) ==
  /\ PlanHasFocus /\ state = "idle"
  /\ BeginRebase(branch, c, p)
  /\ UNCHANGED <<open, status, prompt, shown>>

\* The Start button.  The user has edited the actions and the order of the
\* plan before.
StartRebase(branch, c, p) ==
  /\ PlanHasFocus /\ state = "idle"
  /\ BeginRebase(branch, c, p)
  /\ status' = AllPending
  /\ UNCHANGED <<open, prompt, shown>>

\* The popup closes and leaves the session running.
BugCancel ==
  /\ PlanHasFocus /\ state # "completed"
  /\ open' = FALSE
  /\ UNCHANGED <<vars, state, status, prompt, shown>>

\* The Cancel button: interactiveAbort, then close.
Cancel ==
  /\ PlanHasFocus /\ state # "completed"
  /\ \/ InteractiveAbort /\ Aborted
     \/ ~inProgress /\ Ignored
  /\ open' = FALSE
  /\ UNCHANGED <<prompt, shown>>

ClosePlan ==
  /\ PlanHasFocus /\ state = "completed"
  /\ open' = FALSE
  /\ UNCHANGED <<vars, state, status, prompt, shown>>

-----------------------------------------------------------------------------
(* What the windows make of processNextOperation. *)

Current == plan[idx + 1].hash

OnFinished == Finish /\ state' = "completed" /\ UNCHANGED <<status, open, prompt, shown>>

OnSkipped ==
  SkipEntry /\ Mark(Current, "skipped") /\ UNCHANGED <<open, state, prompt, shown>>

OnCompleted ==
  PickApplies /\ Mark(Current, "rebased") /\ UNCHANGED <<open, state, prompt, shown>>

OnConflict ==
  /\ PickConflicts
  /\ Mark(Current, "conflict")
  /\ ShowConflicts(git')
  /\ UNCHANGED <<open, state>>

\* A text of its own for failed, which the Start button does not know.
BugOnFailed ==
  PickFails /\ Mark(Current, "inProgress") /\ state' = "failed" /\ UNCHANGED <<open, prompt, shown>>

\* rebaseOperationStarted, then rebaseFinished(false)
OnFailed ==
  PickFails /\ Mark(Current, "inProgress") /\ state' = "idle" /\ UNCHANGED <<open, prompt, shown>>

Delivered ==
  OnFinished \/ OnSkipped \/ OnCompleted \/ OnConflict \/ OnFailed
    \/ (Late /\ UNCHANGED windows)

-----------------------------------------------------------------------------
(* The conflict window. *)

\* The window stays open after the answer.
BugAnswer == prompt /\ UNCHANGED <<open, shown, prompt>>

\* The window closes after the call it makes, which does nothing when there
\* is no session for it.
Answer == prompt /\ prompt' = FALSE /\ UNCHANGED <<open, shown>>

Continued ==
  \/ ContinueApplies /\ Mark(opHash, "rebased") /\ UNCHANGED state
  \/ ContinueFails /\ state' = "idle" /\ UNCHANGED status
  \/ ~Waiting /\ Ignored

\* canContinue: no file is listed any more.
ContinueClicked == shown = {} /\ Answer /\ Continued

SkipClicked ==
  /\ Answer
  /\ \/ InteractiveSkip /\ Mark(opHash, "skipped") /\ UNCHANGED state
     \/ ~Waiting /\ Ignored

\* Also from the dialog of the close button.
AbortClicked ==
  /\ Answer
  /\ \/ InteractiveAbort /\ Aborted
     \/ ~inProgress /\ Ignored

\* performStage: the file is written and staged, the list is loaded again.
Stage(p) ==
  /\ prompt /\ p \in shown
  /\ \E still \in BOOLEAN : git' = StagePath(git, p, still)
  /\ signal' = None
  /\ shown' = Listed(git')
  /\ UNCHANGED <<session, posted, history, planWindow, prompt>>

\* acceptBlock: a block of a file is settled, the list is loaded again.
AcceptBlock ==
  /\ prompt /\ shown # {}
  /\ shown' = Listed(git)
  /\ UNCHANGED <<vars, planWindow, prompt>>

\* saveAllModifications, from the dialog of the close button: the files are
\* written and the window closes.
SaveAndClose ==
  /\ prompt /\ prompt' = FALSE
  /\ UNCHANGED <<vars, planWindow, shown>>

-----------------------------------------------------------------------------
\* Behind the modal popup nothing of the application can be reached; other
\* programs can stage a file or put the tree right.
Elsewhere ==
  /\ \/ \E p \in Path : Resolve(p)
     \/ ~open /\ \E b \in Branch : Checkout(b)
     \/ Tidy
  /\ UNCHANGED windows

Relaunch ==
  /\ Restart
  /\ open' = FALSE /\ state' = "idle" /\ status' = AllPending
  /\ prompt' = FALSE /\ shown' = {}

WindowsNext ==
  \/ ShowPlan \/ Cancel \/ ClosePlan
  \/ \E branch \in Branch \cup {None}, c \in Bases, p \in Plans : StartRebase(branch, c, p)
  \/ Delivered
  \/ ContinueClicked \/ SkipClicked \/ AbortClicked \/ AcceptBlock \/ SaveAndClose
  \/ \E p \in Path : Stage(p)
  \/ Elsewhere \/ Relaunch

WindowsSpec == WindowsInit /\ [][WindowsNext]_allVars

-----------------------------------------------------------------------------
(* Properties. *)

\* The plan popup says "Rebasing..." as long as a session is running and no
\* longer, and no session runs behind a closed popup.
PopupFollowsSession == (inProgress <=> state = "running") /\ (inProgress => open)

\* An open conflict window speaks for a session that waits: its answer is
\* never swallowed by a session that is gone.  It is so as long as no call is
\* left over from an aborted session, MaxPosted = 1.
PromptSpeaksForSession == prompt => Waiting

\* The status of every entry tells what the session did with it.
StatusTellsTruth ==
  inProgress => \A i \in DOMAIN plan :
    status[plan[i].hash] =
      IF i \in Range(applied) THEN "rebased"
      ELSE IF i \in skipped THEN "skipped"
      ELSE IF pickActive /\ i = idx + 1 THEN "conflict"
      ELSE "pending"

\* The two windows agree with the session through every order of clicks,
\* signals and calls to come: the plan popup follows it and shows what became
\* of each commit, and the conflict window asks only while it waits.
WindowsAgree == WindowsTypeOK /\ PopupFollowsSession /\ PromptSpeaksForSession /\ StatusTellsTruth
=============================================================================
