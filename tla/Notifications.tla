---------------------------- MODULE Notifications ----------------------------
(***************************************************************************)
(* The notification centre (Qml/Core/Controllers/NotificationController)   *)
(* and the file it keeps per repository name, written and read through the *)
(* one FileIO object that it shares with the configuration of the program. *)
(* A note is shown in a floating window, or queued when the screen is      *)
(* full; the history of the repository selected is in memory, those of the *)
(* others are in their files.  Everything runs on the user-interface       *)
(* thread: a handler is one action.  The application may be closed, or     *)
(* killed in the middle of a write, which QFile does in place; a write can *)
(* also fail while the program goes on, which nothing tests.  The text     *)
(* of a note is left out, and so is the layout of the windows.             *)
(* Each Bug... operator is a plausible slip in the definition after it,    *)
(* kept to show that the properties can fail.                              *)
(***************************************************************************)
EXTENDS Naturals, Sequences, FiniteSets

CONSTANTS Repo,     \* the repositories that may be open
          Name,     \* the last components of their paths
          NameOf,   \* the name of each: two repositories may have the same
          Note,     \* bound: the notes shown in a behaviour
          Limit,    \* the values the settings offer for maxVisibleNotifications
          Default,  \* the one of a new installation
          MaxFaults \* bound: files that a crash or a failing open puts at risk

ASSUME LimitAssumption == Limit \subseteq Nat \ {0} /\ Default \in Limit
ASSUME FaultsAssumption == MaxFaults \in Nat
ASSUME NoteAssumption == IsFiniteSet(Note)

None == "none"  \* no repository selected: the empty key
ASSUME RepoAssumption == None \notin Repo /\ None \notin Name
ASSUME NameAssumption == NameOf \in [Repo -> Name]

\* The keys of the files, and that of the repository that is selected or not.
Key == Name \cup {None}
KeyOf(r) == IF r = None THEN None ELSE NameOf[r]
Config == "GitEase.json"
ASSUME ConfigAssumption == Config \notin Key

\* What is in memory or in a file of one repository.
Centre == [history : SUBSET Note, read : SUBSET Note, unread : Nat]
NoNotes == [history |-> {}, read |-> {}, unread |-> 0]
Settings == [limit : Limit, realtime : BOOLEAN]

\* How a write ends: the file is there, it could not be opened and stays as it
\* was, or it was emptied by the open and not written to its end.
Outcome == {"written", "unopened", "cut"}

VARIABLES
  selected,   \* the repository selected
  key,        \* currentRepositoryKey, always equal to previousRepositoryKey here
  centre,     \* notificationHistory, which of it is read, unreadCount
  windows,    \* activeNotifications
  queued,     \* queuedNotifications
  settings,   \* maxVisibleNotifications, displayRealtimeNotifications
  repoOf,     \* repoOf[n]: the repository selected when the note was shown
  disk,       \* the notification files that exist; a file is the set of what
              \* parses out of it, {} when it was cut short
  io,         \* the FileIO object; the content of the configuration, which is
              \* the settings, is left out
  cleared,    \* history: the notes that the user cleared
  exposed     \* history: keys at risk, after a crash, a file that did not open or
              \* one that was cut short

memory == <<centre, windows, queued>>
files == <<disk, io>>
place == <<selected, key>>
vars == <<place, memory, settings, repoOf, files, cleared, exposed>>

TypeOK ==
  /\ selected \in Repo \cup {None} /\ key = KeyOf(selected)
  /\ centre \in Centre /\ centre.read \subseteq centre.history
  /\ windows \subseteq Note /\ queued \in Seq(Note)
  /\ settings \in Settings
  /\ \E shown \in SUBSET Note : repoOf \in [shown -> Repo \cup {None}]
  /\ DOMAIN disk \subseteq Key
  /\ \A k \in DOMAIN disk : \A c \in disk[k] : c \in Centre
  /\ io.name \in Key \cup {Config, "unset"}
  /\ cleared \subseteq Note /\ exposed \subseteq Key

FirstSettings == [limit |-> Default, realtime |-> TRUE]

Init ==
  /\ selected = None /\ key = None /\ centre = NoNotes /\ windows = {} /\ queued = <<>>
  /\ settings = FirstSettings
  /\ repoOf = [n \in {} |-> None]
  /\ disk = [k \in {} |-> {}]
  /\ io = [name |-> "unset", content |-> {}]
  /\ cleared = {} /\ exposed = {}

-----------------------------------------------------------------------------
(* FileIO.cpp: the content is what parses out of the text. *)

\* The content is kept although the name changes.
BugSetFileName(f, name) == [f EXCEPT !.name = name]

\* setFileName: a new name empties the content.
SetFileName(f, name) == IF f.name = name THEN f ELSE [name |-> name, content |-> {}]

\* read(): a file that cannot be opened leaves the content as it is.
Read(f, d, opened) == IF opened THEN [f EXCEPT !.content = d[f.name]] ELSE f

\* write(), after the content was set: the open for writing empties the file.
Write(d, name, content, outcome) ==
  IF outcome = "unopened" THEN d
  ELSE [k \in DOMAIN d \cup {name} |->
          IF k # name THEN d[k] ELSE IF outcome = "written" THEN content ELSE {}]

-----------------------------------------------------------------------------
(* showNotification *)

Fresh == Note \ DOMAIN repoOf

\* The identifier of the next note, which no note had before.
New == CHOOSE n \in Fresh : TRUE

\* A note that gets no window is not counted.
BugCounted(c, n) ==
  [c EXCEPT !.history = @ \cup {n},
            !.unread = IF Cardinality(windows) < settings.limit THEN @ + 1 ELSE @]

Counted(c, n) == [c EXCEPT !.history = @ \cup {n}, !.unread = @ + 1]

Placed(n, s) ==
  IF ~s.realtime THEN UNCHANGED <<windows, queued>>
  ELSE IF Cardinality(windows) >= s.limit
         THEN queued' = Append(queued, n) /\ UNCHANGED windows
         ELSE windows' = windows \cup {n} /\ UNCHANGED queued

\* A note is shown while the repository r is selected.
Shows(c, r, s) ==
  /\ Fresh # {}
  /\ centre' = Counted(c, New)
  /\ Placed(New, s)
  /\ repoOf' = [n \in DOMAIN repoOf \cup {New} |-> IF n = New THEN r ELSE repoOf[n]]

\* Any part of the program reports something.
Show ==
  /\ Shows(centre, selected, settings)
  /\ UNCHANGED <<place, settings, files, cleared, exposed>>

-----------------------------------------------------------------------------
(* A window closes: its timer fires or its button is clicked. *)

BugClosedIn(c, n) ==
  IF n \notin c.history THEN c
  ELSE [c EXCEPT !.read = @ \cup {n}, !.unread = @ - 1]

\* The loop of onNotificationClosed: the note is marked as read and counted
\* down, read before or not.
ClosedIn(c, n) ==
  IF n \notin c.history THEN c
  ELSE [c EXCEPT !.read = @ \cup {n}, !.unread = IF @ > 0 THEN @ - 1 ELSE 0]

Exposes(keys) ==
  /\ exposed' = exposed \cup keys
  /\ Cardinality(exposed') <= MaxFaults

\* saveNotifications, of what the centre will be.
Saves(c, outcome) ==
  /\ disk' = Write(disk, key, {c}, outcome)
  /\ io' = [SetFileName(io, key) EXCEPT !.content = {c}]
  /\ Exposes(IF outcome = "written" THEN {} ELSE {key})

\* The place is taken only when the screen was not full.
BugShowNextQueued(rest) ==
  IF queued = <<>> \/ Cardinality(windows) >= settings.limit
    THEN windows' = rest /\ UNCHANGED queued
    ELSE windows' = rest \cup {Head(queued)} /\ queued' = Tail(queued)

\* The note is shown and stays in the queue.
BugShowWithoutShift(rest) ==
  IF queued = <<>> \/ Cardinality(rest) >= settings.limit
    THEN windows' = rest /\ UNCHANGED queued
    ELSE windows' = rest \cup {Head(queued)} /\ UNCHANGED queued

\* showNextQueued, rest being the windows that are left.
ShowNextQueued(rest) ==
  IF queued = <<>> \/ Cardinality(rest) >= settings.limit
    THEN windows' = rest /\ UNCHANGED queued
    ELSE windows' = rest \cup {Head(queued)} /\ queued' = Tail(queued)

OnNotificationClosed(n, outcome) ==
  /\ n \in windows
  /\ centre' = ClosedIn(centre, n)
  /\ IF n \in centre.history THEN Saves(ClosedIn(centre, n), outcome)
                             ELSE UNCHANGED <<disk, io, exposed>>
  /\ ShowNextQueued(windows \ {n})
  /\ UNCHANGED <<place, settings, repoOf, cleared>>

\* After all the windows were closed, one after the other.
AllClosedIn(c) ==
  LET closing == windows \cap c.history
      n == Cardinality(closing)
  IN [c EXCEPT !.read = @ \cup closing, !.unread = IF @ > n THEN @ - n ELSE 0]

\* The button of the header.  The list is saved with every window that closes;
\* outcome is how the last of these writes ends.
ClearAllNotifications(outcome) ==
  /\ Cardinality(windows) + Len(queued) > 1
  /\ windows' = {} /\ queued' = <<>>
  /\ centre' = AllClosedIn(centre)
  /\ IF windows \cap centre.history # {} THEN Saves(centre', outcome)
                                         ELSE UNCHANGED <<disk, io, exposed>>
  /\ UNCHANGED <<place, settings, repoOf, cleared>>

-----------------------------------------------------------------------------
(* The popup. *)

\* It is opened, or its button is clicked.
MarkAllAsRead ==
  /\ centre' = [centre EXCEPT !.read = centre.history, !.unread = 0]
  /\ UNCHANGED <<place, windows, queued, settings, repoOf, files, cleared, exposed>>

\* The count is left.
BugClearHistory ==
  /\ centre' = [NoNotes EXCEPT !.unread = centre.unread]
  /\ cleared' = cleared \cup centre.history
  /\ UNCHANGED <<place, windows, queued, settings, repoOf, files, exposed>>

ClearHistory ==
  /\ centre' = NoNotes
  /\ cleared' = cleared \cup centre.history
  /\ UNCHANGED <<place, windows, queued, settings, repoOf, files, exposed>>

-----------------------------------------------------------------------------
(* A repository is selected: RepositoryController.selectRepository sends   *)
(* repositorySelected, whose handler makes the name of the repository the  *)
(* key, saves the configuration and reports success when several           *)
(* repositories are open.                                                  *)

\* What loadNotifications makes of a file: what does not parse leaves the
\* list that was just emptied.
Parsed(content) == IF content = {} THEN NoNotes ELSE CHOOSE c \in content : TRUE

\* onCurrentRepositoryKeyChanged: the files after the history was saved
\* under previousRepositoryKey, unless it is empty.
Saved(outcome) ==
  IF centre.history = {} THEN disk ELSE Write(disk, key, {centre}, outcome)

SavedIO ==
  IF centre.history = {} THEN io
  ELSE [SetFileName(io, key) EXCEPT !.content = {centre}]

Loaded(k, saved, readable) ==
  IF k \in DOMAIN saved
    THEN Parsed(Read(SetFileName(SavedIO, k), saved, readable).content)
    ELSE NoNotes

\* The keys whose file was not written, or not read, while the key became k.
Missed(k, saved, outcome, readable) ==
  (IF outcome = "written" \/ centre.history = {} THEN {} ELSE {key})
    \cup (IF readable \/ k \notin DOMAIN saved THEN {} ELSE {k})

\* What selectRepository reports, the list being c by then: nothing of the first
\* repository that is opened.
Reports(c, r) ==
  \/ centre' = c /\ UNCHANGED <<windows, queued, repoOf>>
  \/ Shows(c, r, settings)

\* onCurrentRepositoryKeyChanged does not run for a repository whose name is
\* that of the one selected: the list in memory goes on as its own.
SelectRepository(r, outcome, readable) ==
  LET k == NameOf[r]
  IN /\ selected' = r /\ key' = k
     /\ io' = [name |-> Config, content |-> {}]
     /\ \/ /\ k = key
           /\ Reports(centre, r)
           /\ UNCHANGED <<disk, exposed>>
        \/ /\ k # key
           /\ disk' = Saved(outcome)
           /\ Exposes(Missed(k, disk', outcome, readable))
           /\ Reports(Loaded(k, disk', readable), r)
     /\ UNCHANGED <<settings, cleared>>

\* SettingsPopup.apply
Apply(s) ==
  /\ settings' = s
  /\ io' = [name |-> Config, content |-> {}]
  /\ Shows(centre, selected, s)
  /\ UNCHANGED <<place, disk, cleared, exposed>>

-----------------------------------------------------------------------------
(* The end of the program, and its next start. *)

\* The load of Component.onCompleted, on the files given, and AppModel.load,
\* which opened the configuration before or after it.
Restarted(d) ==
  /\ selected' = None /\ key' = None
  /\ centre' = IF None \in DOMAIN d THEN Parsed(d[None]) ELSE NoNotes
  /\ windows' = {} /\ queued' = <<>>
  /\ disk' = d
  /\ io' \in [name : {Config} \cup ({None} \cap DOMAIN d), content : {{}}]
  /\ UNCHANGED <<repoOf, cleared>>

\* The history was saved when each window closed, and that is all.
BugShutdown(outcome) ==
  Restarted(disk) /\ UNCHANGED <<settings, exposed>>

\* onClosing of Main.qml: shutdown() saves the history, and again with each
\* window that it closes.
Shutdown(outcome) ==
  /\ Restarted(Write(disk, key, {AllClosedIn(centre)}, outcome))
  /\ Exposes(IF outcome = "written" THEN {} ELSE {key})
  /\ UNCHANGED settings

\* What a process killed inside a handler leaves of the notifications: the
\* file of the repository selected as it was, cut short, or written.
Leftovers == {Write(disk, key, {centre}, outcome) : outcome \in Outcome}

\* A configuration cut short does not parse, and the defaults stay.
Crash ==
  /\ \E d \in Leftovers : Restarted(d)
  /\ settings' \in {settings, FirstSettings}
  /\ Exposes({key})

Next ==
  \/ Show \/ MarkAllAsRead \/ ClearHistory \/ Crash
  \/ \E n \in Note, outcome \in Outcome : OnNotificationClosed(n, outcome)
  \/ \E outcome \in Outcome : ClearAllNotifications(outcome) \/ Shutdown(outcome)
  \/ \E r \in Repo, outcome \in Outcome, readable \in BOOLEAN :
       SelectRepository(r, outcome, readable)
  \/ \E s \in Settings : Apply(s)

\* The timer of a window fires: no caller asks for a window that stays.
Closing == \E n \in Note, outcome \in Outcome : OnNotificationClosed(n, outcome)

Spec == Init /\ [][Next]_vars
FairSpec == Spec /\ WF_vars(Closing)

-----------------------------------------------------------------------------
(* Properties. *)

Unread(c) == Cardinality(c.history \ c.read)

\* The lists in memory and in the files.
Lists == {centre} \cup UNION {disk[k] : k \in DOMAIN disk}

\* The badge never announces more notes than there are unread, in memory and
\* in every file, whatever was closed, marked, cleared, saved and loaded.
NeverOverCounts == \A c \in Lists : c.unread <= Unread(c)

InStep == \A c \in Lists : c.unread = Unread(c)

\* A count gets out of step with its list only when a window closes whose
\* note had been read already: every other handler keeps them together.
OnlyReadWindowsDrift ==
  [][InStep => InStep' \/ (windows \ windows') \cap centre.read # {}]_vars

\* The list of a name, in memory and in its file, is of the repositories of
\* that name: a file that cannot be read leaves no trace of the one read before
\* it.  A note is told of another repository than its own only when the two have
\* the same name, and with it the same key, list and file.
NotesStayHome ==
  /\ \A n \in centre.history : KeyOf(repoOf[n]) = key
  /\ \A k \in DOMAIN disk : \A c \in disk[k] : \A n \in c.history : KeyOf(repoOf[n]) = k

\* No note is lost that the user did not clear, over any number of switches
\* and restarts: a crash, a file that does not open, or one that is emptied and
\* not written costs at most the notes of the name that was selected then.
CrashCostsOnlySelected ==
  \A n \in DOMAIN repoOf \ cleared :
    KeyOf(repoOf[n]) \notin exposed =>
      \/ n \in centre.history
      \/ \E k \in DOMAIN disk : \E c \in disk[k] : n \in c.history

\* A queued note waits behind a window: the closing of one is what brings it
\* to the screen, so with no window left it would wait for ever.
QueueHasTurn == queued # <<>> => windows # {}

\* Every queued note gets its window, or is dropped by the user or the end
\* of the program, as windows close in any order and settings change.
QueuedShown ==
  \A n \in Note : (\E i \in DOMAIN queued : queued[i] = n)
                    ~> ~(\E i \in DOMAIN queued : queued[i] = n)

\* The badge announces no note that is not unread, and a note queued behind
\* the windows has one to wait for.
NotesAreSound == TypeOK /\ NeverOverCounts /\ QueueHasTurn

\* Each name keeps the notes of its repositories: they are not told of another
\* name, and are not lost, over switches, restarts, crashes, files that do not
\* open and writes that fail half-way.
NotesKept == NotesStayHome /\ CrashCostsOnlySelected
=============================================================================
