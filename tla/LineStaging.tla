---------------------------- MODULE LineStaging ----------------------------
(***************************************************************************)
(* The page of uncommitted changes: GitStatus.cpp, which stages, reverts   *)
(* and saves, and CommittingPage.qml with its lists and DiffView.qml,      *)
(* which show one file as rows of a diff, let the user edit the right-hand *)
(* side and offer a chunk of changed rows to be staged, reverted or        *)
(* stashed by its line numbers.  Every handler runs to its end on the      *)
(* user-interface thread, the answer to its question about unsaved changes *)
(* included; other programs write the files in between.  A line is a       *)
(* sequence of pieces.  A text is the lines between its newlines, so one   *)
(* that ends in a newline has a blank line last.  The diff is git's, a     *)
(* shortest script, of which the rows may show another than is walked;     *)
(* line endings, renames and file modes are left out.  A call may fail,    *)
(* and a write may leave a file empty without the program noticing.  Each  *)
(* Bug... operator is a plausible slip in the definition after it, kept to *)
(* show that the properties can fail.                                      *)
(***************************************************************************)
EXTENDS Integers, Sequences, FiniteSets, SequencesExt, Selections

CONSTANTS
  Paths,       \* the files, in the order of the index
  Start,       \* the repositories to start with: [head, index, work, slides]
  Typed,       \* lines the user may type
  Outside,     \* texts other programs may give a file
  MaxActs,     \* bounds what the user does to the repository
  MaxEdits,    \* bounds the user's edits
  MaxTroubles  \* bounds the writes of other programs and what fails

File == Range(Paths)

Blank  == <<>>     \* a line
Absent == <<>>     \* for the text of a file that is not there
None   == ""       \* no file selected

Line == Seq(STRING)
Text == Seq(Line)

ASSUME PathsAssumption == Paths \in Seq(STRING) /\ None \notin File
ASSUME TextsAssumption ==
  /\ Start \subseteq [head : [File -> Text], index : [File -> Text], work : [File -> Text], slides : BOOLEAN]
  /\ Typed \subseteq Line /\ Outside \subseteq Text
ASSUME BoundsAssumption == MaxActs \in Nat /\ MaxEdits \in Nat /\ MaxTroubles \in Nat

VARIABLES
  app,      \* what the handlers work on:
            \*   head, index, work   the text of each file
            \*   stash     what the last step put on the stash, Absent for nothing
            \*   path, staged        the file shown, and whether as staged
            \*   chunk     chunkMode: only the chunks are shown, not editable
            \*   diff, rows          diffData, and the rows as edited
            \*   original, buffer    originalFileBuffer, editedFileBuffer
            \*   touched, edited     fileIsEdited, currentFileEdited
            \*   meant     history: what the edits make of the right-hand side
            \*   faults    history: how many calls and writes have failed
            \*   slides    whether GIT_DIFF_INDENT_HEURISTIC moves a group
  acts, edits, outside

vars == <<app, acts, edits, outside>>

-----------------------------------------------------------------------------
(* The diff, and the rows that GitStatus::getDiff makes of it. *)

\* The lines as git has them: the last may lack its newline.
GitLines(t) ==
  IF t = Absent THEN <<>>
  ELSE [i \in 1 .. (IF Last(t) = Blank THEN Len(t) - 1 ELSE Len(t)) |-> <<t[i], i < Len(t)>>]

\* A shortest script from old to new; of neighbours, deletions come first.
ScriptOf(old, new) ==
  LET \* What both end in is kept.
      Ends(n) == n <= Len(old) /\ n <= Len(new)
                 /\ \A k \in 0 .. n - 1 : old[Len(old) - k] = new[Len(new) - k]
      end == CHOOSE n \in 0 .. Len(old) : Ends(n) /\ ~Ends(n + 1)
      Keep(i, j) == [op |-> "context", text |-> old[i][1], old |-> i, new |-> j]
      Del(i) == [op |-> "del", text |-> old[i][1], old |-> i, new |-> -1]
      Add(j) == [op |-> "add", text |-> new[j][1], old |-> -1, new |-> j]
      Edits(s) == Cardinality({k \in DOMAIN s : s[k].op # "context"})
      rest[at \in (1 .. Len(old) + 1) \X (1 .. Len(new) + 1)] ==
        LET i == at[1]
            j == at[2]
            d == <<Del(i)>> \o rest[<<i + 1, j>>]
            a == <<Add(j)>> \o rest[<<i, j + 1>>]
        IN  IF i > Len(old) - end THEN [k \in 1 .. Len(new) - end + 1 - j |-> Add(j + k - 1)]
            ELSE IF j > Len(new) - end THEN [k \in 1 .. Len(old) - end + 1 - i |-> Del(i + k - 1)]
            ELSE IF old[i] = new[j] THEN <<Keep(i, j)>> \o rest[<<i + 1, j + 1>>]
            ELSE IF Edits(d) <= Edits(a) THEN d ELSE a
  IN rest[<<1, 1>>] \o [k \in 1 .. end |-> Keep(Len(old) - end + k, Len(new) - end + k)]

Script(from, to) == ScriptOf(GitLines(from), GitLines(to))

\* A group of additions starts a line later, where the heuristic, which the
\* patches that are walked go without, prefers that.
Slid(s) ==
  LET Slides(i, j) == /\ i < j /\ s[j].op = "context" /\ s[j].text = s[i].text
                      /\ \A k \in i .. j - 1 : s[k].op = "add"
                      /\ i > 1 => s[i - 1].op = "context"
      groups == {g \in (DOMAIN s) \X (DOMAIN s) : Slides(g[1], g[2])}
      g == CHOOSE g \in groups : TRUE
  IN IF groups = {} THEN s
     ELSE [s EXCEPT ![g[1]].op = "context", ![g[1]].old = s[g[2]].old, ![g[2]].op = "add", ![g[2]].old = -1]

\* A deletion is paired with an addition that follows it.
RowsOf(s) ==
  LET Paired(i) == s[i].op = "add" /\ i > 1 /\ s[i - 1].op = "del"
      Row(i) ==
        IF i < Len(s) /\ Paired(i + 1)
          THEN [type |-> "modified", left |-> s[i].text, right |-> s[i + 1].text,
                old |-> s[i].old, new |-> s[i + 1].new]
        ELSE [type |-> CASE s[i].op = "del" -> "deleted" [] s[i].op = "add" -> "added"
                         [] OTHER -> "context",
              left |-> IF s[i].op = "add" THEN Blank ELSE s[i].text,
              right |-> IF s[i].op = "del" THEN Blank ELSE s[i].text,
              old |-> s[i].old, new |-> s[i].new]
      starts == Places(s, {i \in DOMAIN s : ~Paired(i)})
  IN [k \in DOMAIN starts |-> Row(starts[k])]

Rows(from, to) == RowsOf(Script(from, to))

Rights(rows) == [i \in DOMAIN rows |-> rows[i].right]

\* The right-hand side as it is seen: a deleted row shows none.
RightSide(rows) == Rights(Kept(rows, {r \in Range(rows) : r.type # "deleted"}))

\* updateRowState
WithState(row) == [row EXCEPT !.type = IF row.left = row.right THEN "context" ELSE "modified"]

-----------------------------------------------------------------------------
(* What the functions of the page make of app. *)

\* In the full view the editors of the rows tell their first text as a
\* change, and so the state of the rows and of the page is set anew.
Tells(rows) == \E i \in DOMAIN rows : rows[i].right # Blank

\* The page goes on holding that there are changes.
BugSettled(s, rows) ==
  [s EXCEPT !.rows = rows, !.touched = FALSE, !.meant = RightSide(rows)]

\* onDiffDataChanged, onChunkDataChanged and onChunkModeChanged.
Settled(s, rows) ==
  LET all == [i \in DOMAIN rows |->
                IF rows[i].type = "modified" THEN WithState(rows[i]) ELSE rows[i]]
  IN [s EXCEPT !.rows = IF s.chunk THEN rows ELSE all,
               !.buffer = IF ~s.chunk /\ Tells(rows) THEN Rights(rows) ELSE @,
               !.edited = @ /\ (s.chunk \/ ~Tells(rows)),
               !.touched = FALSE, !.meant = RightSide(rows)]

\* updateDiff; in the view of the working directory a file must be git's.
Displayed(s, rows) ==
  Settled([s EXCEPT !.diff = rows, !.original = Rights(rows), !.buffer = Rights(rows)], rows)

Shown(s, path, staged) ==
  Displayed([s EXCEPT !.path = path, !.staged = staged],
            IF path = None \/ (~staged /\ s.index[path] = Absent) THEN <<>>
            ELSE LET script == Script((IF staged THEN s.head ELSE s.index)[path],
                                      (IF staged THEN s.index ELSE s.work)[path])
                 IN RowsOf(IF s.slides THEN Slid(script) ELSE script))

\* A file is opened for writing, which empties it, and written; whether it was
\* written is not tested.
Outcome == {"written", "unopened", "cut"}

Written(s, p, text, outcome) ==
  CASE outcome = "written"  -> [s EXCEPT !.work[p] = text]
    [] outcome = "unopened" -> [s EXCEPT !.faults = @ + 1]
    [] outcome = "cut"      -> [s EXCEPT !.work[p] = <<Blank>>, !.faults = @ + 1]

\* The file is written as it was read.
BugSaved(s, outcome) ==
  IF s.path = None THEN s
  ELSE [Written(s, s.path, Append(s.original, Blank), outcome) EXCEPT !.edited = @ /\ outcome = "unopened"]

\* saveFile writes a newline after every row.  When it fails the page still
\* holds that there are changes, and its callers go on all the same.
Saved(s, outcome) ==
  IF s.path = None THEN s
  ELSE [Written(s, s.path, Append(s.buffer, Blank), outcome) EXCEPT !.edited = @ /\ outcome = "unopened"]

\* To save is answered, with what comes of it, or to abort or to cancel; one
\* is enough where nothing is asked.
Answers == IF app.edited THEN Outcome \union {"abort", "cancel"} ELSE {"abort"}

\* showSaveDialog, unless the user cancels.
Asked(s, answer) == IF s.edited /\ answer \in Outcome THEN Saved(s, answer) ELSE s
Goes(s, answer) == s.edited => answer # "cancel"

\* The other file is selected before the question is answered.
BugSelected(s, path, staged, answer) ==
  IF path # s.path /\ ~Goes(s, answer) THEN s
  ELSE Shown(IF path = s.path THEN s ELSE Asked([s EXCEPT !.path = path], answer), path, staged)

\* fileSelected: the question is about leaving the file.
Selected(s, path, staged, answer) ==
  IF path # s.path /\ ~Goes(s, answer) THEN s
  ELSE Shown(IF path = s.path THEN s ELSE Asked(s, answer), path, staged)

IsUnstaged(s, p) == s.index[p] # s.work[p]
IsStaged(s, p)   == s.head[p] # s.index[p]

\* updateStatus of the lists selects the first file there is, of either list.
Updated(s, answer) ==
  LET unstaged == Kept(Paths, {p \in File : IsUnstaged(s, p)})
      staged   == Kept(Paths, {p \in File : IsStaged(s, p)})
  IN Selected(s, Head(unstaged \o staged \o <<None>>), unstaged = <<>> /\ staged # <<>>, answer)

Init ==
  /\ \E r \in Start :
       app = Updated([head |-> r.head, index |-> r.index, work |-> r.work, stash |-> Absent,
                      path |-> None, staged |-> FALSE, chunk |-> TRUE, diff |-> <<>>,
                      rows |-> <<>>, original |-> <<>>, buffer |-> <<>>, touched |-> FALSE,
                      edited |-> FALSE, meant |-> <<>>, faults |-> 0, slides |-> r.slides], "abort")
  /\ acts = 0 /\ edits = 0 /\ outside = 0

\* The user looks at something else, or does something.
Bears(s) == s.faults + outside <= MaxTroubles
Looks(s) == app' = [s EXCEPT !.stash = Absent] /\ Bears(s) /\ UNCHANGED <<acts, edits, outside>>
Does(s)  == /\ acts < MaxActs /\ acts' = acts + 1
            /\ app' = s /\ Bears(s) /\ UNCHANGED <<edits, outside>>
Becomes(s) == Does([s EXCEPT !.stash = Absent])

\* Files for which a call fails.
Failing(s, files) == IF files = {} THEN s ELSE [s EXCEPT !.faults = @ + 1]

\* A call that makes t of s, or fails and leaves s; the page is refreshed.
Calls(s, t, then) == Becomes(Updated(t, then)) \/ Becomes(Updated(Failing(s, File), then))

-----------------------------------------------------------------------------
(* Chunks: getRange, and the functions that take its lines from a patch. *)

\* The rows with buttons: the first of a chunk, of a file that is not staged.
Buttons(s) ==
  IF s.staged THEN {}
  ELSE {i \in DOMAIN s.rows :
          s.rows[i].type # "context" /\ (i > 1 => s.rows[i - 1].type = "context")}

ChunkOf(rows, i) ==
  {j \in i .. Len(rows) : \A k \in i .. j : rows[k].type # "context"}

\* The numbers are of either side, and are compared with both.
GetRange(rows, i) ==
  LET last == rows[i + Cardinality(ChunkOf(rows, i)) - 1]
      first == rows[i]
  IN [start |-> IF first.type # "added" /\ first.old > 0 THEN first.old ELSE first.new,
      end   |-> IF last.old > last.new THEN last.old ELSE last.new,
      type  |-> first.type]

\* An addition is not taken with the deletion it follows.
BugTaken(script, range) ==
  {i \in DOMAIN script :
     \/ script[i].op = "del" /\ script[i].old \in range.start .. range.end
     \/ script[i].op = "add" /\ script[i].new \in range.start .. range.end}

\* The lines selected: an addition is also taken when the last line before
\* the additions is a deletion that was taken.
Taken(script, range) ==
  LET Deleted(i) == script[i].op = "del" /\ script[i].old \in range.start .. range.end
      Follows(i) == \E j \in 1 .. i - 1 :
                      Deleted(j) /\ \A k \in j + 1 .. i : script[k].op = "add"
  IN {i \in DOMAIN script :
        \/ Deleted(i)
        \/ script[i].op = "add" /\ (script[i].new \in range.start .. range.end \/ Follows(i))}

\* The walk over a patch: the edits in done are made on the lines base, which
\* are the lines the patch is about unless it is of another file.
Walked(base, script, done) ==
  LET At(i) == Cardinality({k \in 1 .. i : script[k].op # "add"})
      Copies(i) == At(i) <= Len(base) /\ (script[i].op = "context" \/ (script[i].op = "del" /\ i \notin done))
      Adds(i) == script[i].op = "add" /\ i \in done
      kept == Places(script, {i \in DOMAIN script : Copies(i) \/ Adds(i)})
  IN [k \in DOMAIN kept |-> IF Adds(kept[k]) THEN script[kept[k]].text ELSE base[At(kept[k])]]
       \o SubSeq(base, At(Len(script)) + 1, Len(base))

Tracked(s, p) == s.index[p] # Absent

\* buildSelectedLinesContent: for deletions the patch is the first of them all.
PatchOf(s, p, range) ==
  IF range.type # "deleted" THEN p
  ELSE LET changed == Kept(Paths, {q \in File : Tracked(s, q) /\ IsUnstaged(s, q)})
       IN IF changed = <<>> THEN p ELSE changed[1]

Built(s, p, range) ==
  LET q == PatchOf(s, p, range)
      script == Script(s.index[q], s.work[q])
  IN IF ~Tracked(s, p) \/ ~IsUnstaged(s, q) THEN Absent
     ELSE Walked(s.index[p], script, Taken(script, range))

\* The text of no line, or of one blank line, is empty, and is an error.
IsEmpty(text) == text \in {<<>>, <<Blank>>}

\* A file without lines is there, and empty.
AsFile(lines) == IF lines = <<>> THEN <<Blank>> ELSE lines

\* What was selected is kept.
BugReverted(s, p, range, outcome) ==
  LET script == Script(s.index[p], s.work[p])
  IN Written(s, p, AsFile(Walked(s.index[p], script, Taken(script, range))), outcome)

\* revertSelectedLines: the edits not selected are made on the staged text.
Reverted(s, p, range, outcome) ==
  LET script == Script(s.index[p], s.work[p])
      edited == {i \in DOMAIN script : script[i].op # "context"}
  IN IF ~Tracked(s, p) \/ ~IsUnstaged(s, p) THEN s
     ELSE Written(s, p, AsFile(Walked(s.index[p], script, edited \ Taken(script, range))), outcome)

-----------------------------------------------------------------------------
(* The buttons of a chunk.  The range is taken before the question is asked. *)

StageLines(i, answer, then) ==
  LET s == Asked(app, answer)
      text == Built(s, app.path, GetRange(app.rows, i))
  IN /\ i \in Buttons(app) /\ Goes(app, answer)
     /\ Calls(s, IF IsEmpty(text) THEN s ELSE [s EXCEPT !.index[app.path] = text], then)

RevertLines(i, answer, then) ==
  /\ i \in Buttons(app) /\ Goes(app, answer)
  /\ \E outcome \in Outcome :
       Becomes(Updated(Reverted(Asked(app, answer), app.path, GetRange(app.rows, i), outcome), then))

\* The lines are taken from the file whether they were stashed or not.
BugStashLines(i, then) ==
  LET range == GetRange(app.rows, i)
      text == Built(app, app.path, range)
  IN /\ i \in Buttons(app) /\ ~IsEmpty(text)
     /\ \E outcome \in Outcome, stashed \in BOOLEAN :
          LET t == Updated(Reverted(app, app.path, range, outcome), then)
          IN Does([Failing(t, IF stashed THEN {} ELSE File) EXCEPT !.stash = IF stashed THEN text ELSE Absent])

\* stashLines does not ask; without content it ends in an exception.  The lines
\* are taken from the file once they are stashed, and nobody looks how that went.
StashLines(i, then) ==
  LET range == GetRange(app.rows, i)
      text == Built(app, app.path, range)
  IN /\ i \in Buttons(app) /\ ~IsEmpty(text)
     /\ \/ Becomes(Updated(Failing(app, File), then))
        \/ \E outcome \in Outcome :
             Does([Updated(Reverted(app, app.path, range, outcome), then) EXCEPT !.stash = text])

-----------------------------------------------------------------------------
(* The buttons of the lists, the commit, and Ctrl+S. *)

SelectFile(p, staged, answer) ==
  /\ IF staged THEN IsStaged(app, p) ELSE IsUnstaged(app, p)
  /\ p # app.path => Goes(app, answer)
  /\ Looks(Selected(app, p, staged, answer))

\* stageFile: a file that was removed cannot be added.
Staged(s, p) == IF s.work[p] = Absent THEN s ELSE [s EXCEPT !.index[p] = s.work[p]]

StageFile(p, answer, then) ==
  /\ IsUnstaged(app, p) /\ Goes(app, answer)
  /\ LET s == Asked(app, answer)
     IN Calls(s, Staged(s, p), then)

StageAll(answer, then) ==
  /\ \E p \in File : IsUnstaged(app, p)
  /\ Goes(app, answer)
  /\ LET s == Asked(app, answer)
     IN \E failed \in SUBSET File :
          Becomes(Updated(Failing([s EXCEPT !.index = [p \in File |->
                            IF p \in failed THEN s.index[p] ELSE Staged(s, p).index[p]]], failed), then))

UnstageFile(p, answer, then) ==
  /\ IsStaged(app, p) /\ Goes(app, answer)
  /\ LET s == Asked(app, answer)
     IN Calls(s, [s EXCEPT !.index[p] = s.head[p]], then)

UnstageAll(answer, then) ==
  /\ \E p \in File : IsStaged(app, p)
  /\ Goes(app, answer)
  /\ LET s == Asked(app, answer)
     IN \E failed \in SUBSET File :
          Becomes(Updated(Failing([s EXCEPT !.index = [p \in File |->
                            IF p \in failed THEN s.index[p] ELSE s.head[p]]], failed), then))

\* revertFile; the user is asked about another file only.
DiscardFile(p, answer, then) ==
  /\ IsUnstaged(app, p) /\ (p # app.path => Goes(app, answer))
  /\ LET s == IF p = app.path THEN [app EXCEPT !.edited = FALSE] ELSE Asked(app, answer)
     IN Calls(s, [s EXCEPT !.work[p] = s.index[p]], then)

\* revertAll takes every file from HEAD and leaves the index, and nobody asks;
\* it may fail after some of the files.
DiscardAll(then) ==
  /\ \E p \in File : IsUnstaged(app, p)
  /\ \E failed \in SUBSET File :
       Becomes(Updated(Failing([app EXCEPT !.work = [p \in File |->
                         IF p \in failed THEN app.work[p] ELSE app.head[p]]], failed), then))

Commit(then) ==
  /\ \E p \in File : IsStaged(app, p)
  /\ Calls(app, [app EXCEPT !.head = app.index], then)

CtrlS(outcome, then) == app.path # None /\ Becomes(Updated(Saved(app, outcome), then))

\* The check box of the view: Save is a signal that nobody receives.
ToggleChunk(answer) ==
  /\ app.touched => answer # "cancel"
  /\ Looks(Settled([app EXCEPT !.chunk = ~@], app.diff))

-----------------------------------------------------------------------------
(* The editor, which the full view of a file that is not staged has. *)

BugEditable(i) == ~app.staged /\ i \in DOMAIN app.rows /\ app.rows[i].type # "deleted"
Editable(i) ==
  ~app.chunk /\ ~app.staged /\ i \in DOMAIN app.rows /\ app.rows[i].type # "deleted"

\* The place of row i on the right-hand side.
Seen(i) == Len(RightSide(SubSeq(app.rows, 1, i)))

\* isFileEdited
Edited(rows, meant) ==
  /\ edits < MaxEdits /\ edits' = edits + 1
  /\ app' = [app EXCEPT !.rows = rows, !.buffer = Rights(rows), !.meant = meant,
                        !.touched = Rights(rows) # app.original,
                        !.edited = Rights(rows) # app.original, !.stash = Absent]
  /\ UNCHANGED <<acts, outside>>

Restated(row) == IF row.type = "added" THEN row ELSE WithState(row)

Type(i, line) ==
  /\ Editable(i) /\ line # app.rows[i].right
  /\ Edited([app.rows EXCEPT ![i] = Restated([@ EXCEPT !.right = line])],
            [app.meant EXCEPT ![Seen(i)] = line])

\* The lines from row i on move by n.
Renumbered(rows, i, n) ==
  [j \in DOMAIN rows |-> IF j < i \/ rows[j].new = -1 THEN rows[j] ELSE [rows[j] EXCEPT !.new = @ + n]]

\* The half after the cursor overwrites the next row.
BugSplitLine(i, cursor) ==
  LET before == SubSeq(app.rows[i].right, 1, cursor)
      after  == SubSeq(app.rows[i].right, cursor + 1, Len(app.rows[i].right))
      cut    == [app.rows EXCEPT ![i] = Restated([@ EXCEPT !.right = before])]
  IN /\ Editable(i) /\ i < Len(app.rows)
     /\ Edited([cut EXCEPT ![i + 1] = WithState([@ EXCEPT !.right = after])],
               InsertAt([app.meant EXCEPT ![Seen(i)] = before], Seen(i) + 1, after))

\* splitLine: a deleted row that follows takes the half after the cursor.
SplitLine(i, cursor) ==
  LET before == SubSeq(app.rows[i].right, 1, cursor)
      after  == SubSeq(app.rows[i].right, cursor + 1, Len(app.rows[i].right))
      cut    == [app.rows EXCEPT ![i] = Restated([@ EXCEPT !.right = before])]
      next   == [type |-> "added", left |-> Blank, right |-> after,
                 old |-> -1, new |-> app.rows[i].new + 1]
      reuses == i < Len(app.rows) /\ app.rows[i + 1].type = "deleted"
  IN /\ Editable(i)
     /\ Edited(Renumbered(IF reuses THEN [cut EXCEPT ![i + 1] = WithState([@ EXCEPT !.right = after])]
                          ELSE InsertAt(cut, i + 1, next), i + 2, 1),
               InsertAt([app.meant EXCEPT ![Seen(i)] = before], Seen(i) + 1, after))

\* mergeLineUp: the row of a line that was there stays, as a deleted one, and
\* keeps its text.
MergeLineUp(i) ==
  LET joined == app.rows[i - 1].right \o app.rows[i].right
      up     == [app.rows EXCEPT ![i - 1].right = joined]
  IN /\ i > 1 /\ Editable(i) /\ app.rows[i - 1].type # "deleted"
     /\ Edited(IF app.rows[i].type = "added" THEN Renumbered(RemoveAt(up, i), i, -1)
               ELSE Renumbered([up EXCEPT ![i].type = "deleted", ![i - 1] = WithState(@)], i + 1, -1),
               RemoveAt([app.meant EXCEPT ![Seen(i) - 1] = joined], Seen(i)))

\* Another program writes a file.
WriteOutside(p, text) ==
  /\ text # app.work[p]
  /\ app.faults + outside < MaxTroubles /\ outside' = outside + 1
  /\ app' = [app EXCEPT !.work[p] = text, !.stash = Absent]
  /\ UNCHANGED <<acts, edits>>

User ==
  \/ \E then \in Answers :
       \/ Commit(then) \/ DiscardAll(then)
       \/ \E outcome \in Outcome : CtrlS(outcome, then)
       \/ \E i \in DOMAIN app.rows : StashLines(i, then)
       \/ \E answer \in Answers :
            \/ StageAll(answer, then) \/ UnstageAll(answer, then)
            \/ \E i \in DOMAIN app.rows : StageLines(i, answer, then) \/ RevertLines(i, answer, then)
            \/ \E p \in File : \/ StageFile(p, answer, then) \/ UnstageFile(p, answer, then)
                               \/ DiscardFile(p, answer, then)
  \/ \E answer \in Answers : \/ ToggleChunk(answer)
                             \/ \E p \in File, staged \in BOOLEAN : SelectFile(p, staged, answer)

Editor ==
  \E i \in DOMAIN app.rows :
    \/ \E line \in Typed : Type(i, line)
    \/ \E cursor \in 0 .. Len(app.rows[i].right) : SplitLine(i, cursor)
    \/ MergeLineUp(i)

Next == User \/ Editor \/ \E p \in File, text \in Outside : WriteOutside(p, text)

Spec == Init /\ [][Next]_vars

-----------------------------------------------------------------------------
(* Properties. *)

\* The chunk view always shows the diff itself: what is typed in the full view
\* never reaches it, and it has no editors (DiffView.qml:109-137).
TypeOK ==
  /\ app.head \in [File -> Text] /\ app.index \in [File -> Text] /\ app.work \in [File -> Text]
  /\ app.stash \in Text /\ app.meant \in Text
  /\ app.path \in File \union {None}
  /\ app.path = None => app.diff = <<>> /\ ~app.staged
  /\ Len(app.original) = Len(app.diff) /\ (~app.chunk /\ Tells(app.rows) => Len(app.buffer) = Len(app.rows))
  /\ (app.chunk \/ app.staged) => Rights(app.rows) = Rights(app.diff)
  /\ acts \in 0 .. MaxActs /\ edits \in 0 .. MaxEdits /\ outside \in Nat /\ app.faults \in Nat
  /\ app.faults + outside <= MaxTroubles

\* Whatever was split, merged and typed, the right-hand side shows the lines
\* that the edits made: no line goes missing with a row that is reused and
\* none appears twice (splitLine and mergeLineUp, DiffView.qml:531-624).
RightIsMeant == RightSide(app.rows) = app.meant

\* In the full view, of a file with some text, the page holds that there are
\* unsaved changes exactly when the rows differ from the file that was read,
\* so that the question is asked when it matters and only then
\* (CommittingPage.qml:587-589 and 832-855).
FlagTellsTruth ==
  ~app.chunk /\ Tells(app.rows) => (app.edited <=> Rights(app.rows) # app.original)

\* A text without the blank lines at its end: a final newline is kept, lost or
\* joined by another as the staged text has one.
Body(t) == SubSeq(t, 1, Cardinality({i \in DOMAIN t : \E k \in i .. Len(t) : t[k] # Blank}))

\* The lines of a text in which only the rows in new show their right-hand side.
Mixed(rows, new) ==
  LET kept == Places(rows, {j \in DOMAIN rows :
                              rows[j].type # (IF j \in new THEN "deleted" ELSE "added")})
  IN [k \in DOMAIN kept |-> IF kept[k] \in new THEN rows[kept[k]].right ELSE rows[kept[k]].left]

\* The view is of the files as they are, with nothing typed: nothing is asked.
\* After a question that was cancelled it may be of a file no longer git's, and
\* the heuristic may have moved a group of its lines.
Fresh ==
  /\ ~app.edited /\ Tracked(app, app.path)
  /\ app.rows = Rows(app.index[app.path], app.work[app.path])

\* The numbers of getRange tell the chunk at row i from the others: on the old
\* side they hold its lines only and all of them, on the new side no other
\* chunk's.  They are of one side and compared with both, so this may fail.
Apart(i) ==
  LET range == GetRange(app.rows, i)
      numbers == range.start .. range.end
      chunk == ChunkOf(app.rows, i)
  IN \A j \in DOMAIN app.rows :
       LET row == app.rows[j] IN
       /\ row.type \in {"deleted", "modified"} => (row.old \in numbers <=> j \in chunk)
       /\ row.type \in {"added", "modified"} /\ j \notin chunk => row.new \notin numbers

\* The patch that is walked is the one of the file shown.
OwnPatch(i) == PatchOf(app, app.path, GetRange(app.rows, i)) = app.path

\* Staging a chunk of a file puts its new lines in the index and leaves every
\* other line, file and the working directory alone, if the numbers tell the
\* chunk apart, the patch is of the file, a line is left and no call fails
\* (GitStatus.h:142-144, GitStatus.cpp:926-1110).
StagesChunk ==
  [][\A i \in Buttons(app) :
       LET expected == Mixed(app.rows, ChunkOf(app.rows, i)) IN
       /\ Fresh /\ Apart(i) /\ OwnPatch(i) /\ ~IsEmpty(expected)
       /\ StageLines(i, "abort", "abort") /\ app'.faults = app.faults
       => /\ Body(app'.index[app.path]) = Body(expected)
          /\ app'.index = [app.index EXCEPT ![app.path] = app'.index[app.path]]
          /\ app'.work = app.work]_vars

\* Reverting a chunk takes its lines of the index back into the file and leaves
\* every other line and file and the index alone, if the numbers tell the
\* chunk apart and the write is done (revertSelectedLines, GitStatus.cpp:1238-1344).
RevertsChunk ==
  [][\A i \in Buttons(app) :
       /\ Fresh /\ Apart(i)
       /\ RevertLines(i, "abort", "abort") /\ app'.faults = app.faults
       => /\ Body(app'.work[app.path]) = Body(Mixed(app.rows, DOMAIN app.rows \ ChunkOf(app.rows, i)))
          /\ app'.work = [app.work EXCEPT ![app.path] = app'.work[app.path]]
          /\ app'.index = app.index]_vars

\* No line is taken from the file that is not in the stash: a stash that fails
\* leaves the file, one that is done holds the new lines of the chunk, and then
\* the file holds the others, or what it did when it could not be opened, under
\* the conditions of staging.  Only the write nobody looks at, after the file was
\* opened, leaves less: an empty file (StashController.qml:11-24,
\* GitStash.cpp:294-369, GitStatus.cpp:1332-1341).
StashLosesNothing ==
  [][\A i \in Buttons(app) :
       LET chunk == ChunkOf(app.rows, i)
           stashed == Body(app'.stash) = Body(Mixed(app.rows, chunk))
           left == app'.work[app.path]
       IN
       /\ Fresh /\ Apart(i) /\ OwnPatch(i)
       /\ StashLines(i, "abort")
       => /\ app'.work = [app.work EXCEPT ![app.path] = left] /\ app'.index = app.index
          /\ app'.stash # Absent => stashed
          /\ left # app.work[app.path] =>
               /\ stashed
               /\ \/ Body(left) = Body(Mixed(app.rows, DOMAIN app.rows \ chunk))
                  \/ left = <<Blank>> /\ app'.faults > app.faults]_vars

\* Ctrl+S writes the right-hand side as the user sees it, to the file shown and
\* to no other, if it shows a file of git's, not its staged version, no deleted
\* rows, and has not left unsaved edits behind at a change of the view.  A save
\* that fails leaves the file as it was, or empty if it had been opened, and no
\* other file changed (CommittingPage.qml:615-631, GitStatus.cpp:626-652).
SaveWritesMeant ==
  [][\A outcome \in Outcome :
     (/\ ~app.staged /\ (app.chunk \/ ~Tells(app.rows) => ~app.edited) /\ app.path # None /\ Tracked(app, app.path)
      /\ \A j \in DOMAIN app.rows : app.rows[j].type # "deleted"
      /\ CtrlS(outcome, "abort"))
     => app'.work = IF outcome = "unopened" THEN app.work
                    ELSE [app.work EXCEPT ![app.path] =
                            IF outcome = "written" THEN Append(app.meant, Blank) ELSE <<Blank>>]]_vars

\* The rows of one file are never saved as another, whichever question they are
\* saved at and whichever save fails before it: only a discard, or another
\* program, changes a file that is not shown (showSaveDialog runs before
\* selectedFilePath changes, CommittingPage.qml:519-536).
SavesGoHome ==
  [][\A p \in File :
       p # app.path /\ app'.work[p] # app.work[p]
       => \/ app'.work[p] \in Outside
          \/ app'.work[p] \in {app.index[p], app.head[p]}]_vars

\* The rows of the page hold the text the user means the file to have, in
\* either view, however lines were split, joined and typed
\* (DiffView.qml:480-620).
PageIsSound == TypeOK /\ RightIsMeant

\* Staging a chunk or reverting it moves the lines of that chunk between the
\* file and the index and leaves the others.
ChunkTaken == StagesChunk /\ RevertsChunk

\* What a save writes is what the user sees, to the file shown and no other,
\* and a save that fails writes nothing else.
SavesAreMeant == SaveWritesMeant /\ SavesGoHome
=============================================================================
