---------------------------- MODULE ConflictEditor ----------------------------
(***************************************************************************)
(* The conflict window at work on the files: GitConflict.cpp, which reads, *)
(* parses and rewrites them, and ConflictPopup.qml with its script, which  *)
(* shows one file as rows, keeps the rows of the others in a cache, and    *)
(* writes and stages them.  The operation is a merge, which stops once, or *)
(* a cherry-pick, which stops at commit after commit.  Every handler runs  *)
(* to its end on the user-interface thread; other programs write the files *)
(* in between.  What the files and the index are asked for may fail, and   *)
(* not every failure is noticed; the index is open since the window was    *)
(* shown, and getConflicts finds it.  A line is a sequence of pieces, and  *)
(* a conflict marker is one piece.  Each Bug... operator is a plausible    *)
(* slip in the definition after it, kept to show that the properties can   *)
(* fail.                                                                   *)
(***************************************************************************)
EXTENDS Integers, Sequences, FiniteSets, SequencesExt, Selections

CONSTANTS
  Paths,       \* the files, in the order of the index
  Operations,  \* what may stop at conflicts: [kind, stops, head]; a stop gives
               \* each file in conflict the lines git leaves, <<>> for no file
  Typed,       \* lines the user may type
  Outside,     \* contents other programs may give a file
  MaxEdits,    \* bounds the user's edits
  MaxTroubles  \* bounds the writes of other programs and the calls that fail

File == Range(Paths)

Line == Seq(STRING)
Lines == Seq(Line)
None == ""         \* no file selected

ASSUME PathsAssumption == Paths \in Seq(STRING) /\ None \notin File
\* A merge stops once.
ASSUME OperationsAssumption ==
  \A op \in Operations :
    /\ op.kind \in {"merge", "cherrypick"} /\ op.head \in [File -> Lines]
    /\ Len(op.stops) \in Nat \ {0} /\ (op.kind = "merge" => Len(op.stops) = 1)
    /\ \A n \in 1 .. Len(op.stops) :
         DOMAIN op.stops[n] \subseteq File /\ \A p \in DOMAIN op.stops[n] : op.stops[n][p] \in Lines
ASSUME TextsAssumption == Typed \subseteq Line /\ Outside \subseteq Lines \ {<<>>}
ASSUME BoundsAssumption == MaxEdits \in Nat /\ MaxTroubles \in Nat

Opening == "<<<"   \* the seven signs that git begins a marker with
Middle  == "==="
Closing == ">>>"

Starts(line, mark) == line # <<>> /\ Head(line) = mark
IsMark(line) == \E m \in {Opening, Middle, Closing} : Starts(line, m)

VARIABLES
  operation, at,     \* the operation, and the stop it is at, 0 when it is over
  disk,              \* the lines of each file, <<>> if there is none
  staged, unmerged,  \* the index: contents, and files with conflict entries
  head,              \* the contents of HEAD
  open,              \* the window is visible
  conflicts,         \* the conflicts loaded: paths and lines
  selectedPath,      \* None for none
  displayModel,      \* the rows shown
  modifiedFiles,     \* the rows kept for the files visited before
  mine,              \* history: what the user made of the files at this stop
  marked,            \* history: files whose markers the user has edited as text
  edits, outside,    \* history: the edits, and the writes of other programs
  behind,            \* history: files that others, or git, wrote since the window
                     \* has what it shows or keeps of them
  missed,            \* history: files a write of which failed, and nobody noticed
  overtaken          \* history: what a continue, skip or abort that failed has
                     \* reset beneath the window: the list of conflicts, until it
                     \* is loaded again, and the files of this stop

repo == <<operation, at, disk, staged, unmerged, head>>
window == <<open, conflicts, selectedPath, displayModel, modifiedFiles>>
history == <<mine, marked, edits, outside, behind, missed, overtaken>>
vars == <<repo, window, history>>

Role == {"button", "context", "marker-start", "ours", "separator", "theirs", "marker-end"}
Editable == {"context", "ours", "theirs"}

\* How a write ends: writeFile reports a file that cannot be opened, and no
\* other failure, which leaves the file cut short by the open.
Outcome == {"written", "unopened", "cut"}

-----------------------------------------------------------------------------
(* parseConflictBlocks: a block is known by its number and the lines of its *)
(* three markers.  A marker out of place ends the block it is in.           *)

\* A separator out of place is passed over.
BugParseLine(line, s, i) ==
  CASE Starts(line, Opening) -> [s EXCEPT !.in = "ours", !.start = i, !.index = @ + 1]
    [] Starts(line, Middle)  ->
         IF s.in = "ours" THEN [s EXCEPT !.in = "theirs", !.middle = i] ELSE s
    [] Starts(line, Closing) ->
         [s EXCEPT !.in = "neutral", !.blocks =
            IF s.in = "theirs"
              THEN Append(@, [index |-> s.index, start |-> s.start, middle |-> s.middle, end |-> i])
              ELSE @]
    [] OTHER -> s

ParseLine(line, s, i) ==
  CASE Starts(line, Opening) -> [s EXCEPT !.in = "ours", !.start = i, !.index = @ + 1]
    [] Starts(line, Middle)  ->
         IF s.in = "ours" THEN [s EXCEPT !.in = "theirs", !.middle = i]
                          ELSE [s EXCEPT !.in = "neutral"]
    [] Starts(line, Closing) ->
         [s EXCEPT !.in = "neutral", !.blocks =
            IF s.in = "theirs"
              THEN Append(@, [index |-> s.index, start |-> s.start, middle |-> s.middle, end |-> i])
              ELSE @]
    [] OTHER -> s

\* The parser after the last line.
Parsed(lines) ==
  LET after[i \in 0 .. Len(lines)] ==
        IF i = 0 THEN [in |-> "neutral", index |-> 0, start |-> 0, middle |-> 0, blocks |-> <<>>]
        ELSE ParseLine(lines[i], after[i - 1], i)
  IN after[Len(lines)]

ParseConflictBlocks(lines) == Parsed(lines).blocks

Ours(lines, b) == SubSeq(lines, b.start + 1, b.middle - 1)
Theirs(lines, b) == SubSeq(lines, b.middle + 1, b.end - 1)

\* A side is joined to one text, split again if the text is not empty.
Joined(side) == IF side = << <<>> >> THEN <<>> ELSE side

\* The incoming side comes first.
BugReplacement(lines, b, mode) ==
  CASE mode = "ours"   -> Joined(Ours(lines, b))
    [] mode = "theirs" -> Joined(Theirs(lines, b))
    [] mode = "both"   -> Joined(Theirs(lines, b)) \o Joined(Ours(lines, b))

Replacement(lines, b, mode) ==
  CASE mode = "ours"   -> Joined(Ours(lines, b))
    [] mode = "theirs" -> Joined(Theirs(lines, b))
    [] mode = "both"   -> Joined(Ours(lines, b)) \o Joined(Theirs(lines, b))

\* join("\n") of no line at all is the empty text, which is one empty line.
Text(lines) == IF lines = <<>> THEN << <<>> >> ELSE lines

ReplaceBlock(lines, b, mode) ==
  Text(SubSeq(lines, 1, b.start - 1) \o Replacement(lines, b, mode)
         \o SubSeq(lines, b.end + 1, Len(lines)))

-----------------------------------------------------------------------------
(* ConflictPopupUtils.js *)

Row(role, text, block) == [role |-> role, text |-> text, block |-> block]

\* The block that line i is in, if any.
BlockOf(blocks, i) == {b \in Range(blocks) : b.start <= i /\ i <= b.end}

RoleIn(b, i) ==
  CASE i = b.start                  -> "marker-start"
    [] b.start < i /\ i < b.middle  -> "ours"
    [] i = b.middle                 -> "separator"
    [] b.middle < i /\ i < b.end    -> "theirs"
    [] i = b.end                    -> "marker-end"

RowsAt(lines, blocks, i) ==
  IF BlockOf(blocks, i) = {} THEN << Row("context", lines[i], 0) >>
  ELSE LET b == CHOOSE b \in BlockOf(blocks, i) : TRUE IN
       (IF i = b.start THEN << Row("button", <<>>, b.index) >> ELSE <<>>)
         \o << Row(RoleIn(b, i), lines[i], b.index) >>

\* buildDisplayModel, for lines read from the file: a row for each line, and
\* one with the buttons before each block.
Rows(lines) ==
  LET blocks == ParseConflictBlocks(lines)
      rows[i \in 0 .. Len(lines)] == IF i = 0 THEN <<>> ELSE rows[i - 1] \o RowsAt(lines, blocks, i)
  IN rows[Len(lines)]

LinesOf(rows) ==
  LET kept == Kept(rows, {r \in Range(rows) : r.role # "button"})
  IN  [i \in DOMAIN kept |-> kept[i].text]

BuildFullContent(rows) == Text(LinesOf(rows))

-----------------------------------------------------------------------------
(* ConflictPopup.qml: loading and selecting. *)

GetConflicts(d, u) ==
  LET listed == Kept(Paths, {p \in u : d[p] # <<>>})
  IN  [i \in DOMAIN listed |-> [path |-> listed[i], lines |-> d[listed[i]]]]

Listed(cs) == {cs[i].path : i \in DOMAIN cs}

LinesIn(cs, p) == (CHOOSE c \in Range(cs) : c.path = p).lines

Forget(cache, p) == [q \in DOMAIN cache \ {p} |-> cache[q]]

Keep(cache, p, rows) == [q \in DOMAIN cache \cup {p} |-> IF q = p THEN rows ELSE cache[q]]

\* The rows of the file that is left are not kept.
BugCached(cache, from, to, rows) == cache

\* selectFile, 1: the rows of the file that is left.
Cached(cache, from, to, rows) ==
  IF from \notin {None, to} /\ rows # <<>> THEN Keep(cache, from, rows) ELSE cache

\* buildDisplayModel: the rows kept, or those of the lines loaded.
RowsOf(cs, cache, p) == IF p \in DOMAIN cache THEN cache[p] ELSE Rows(LinesIn(cs, p))

\* selectFile, 2: shows p, of the conflicts cs, coming from `from'.
Show(cs, cache, from, p, rows) ==
  /\ modifiedFiles' = Cached(cache, from, p, rows)
  /\ selectedPath' = p
  /\ displayModel' = RowsOf(cs, modifiedFiles', p)

\* With no conflict left the file stays selected.
BugLoadConflicts(d, u, cache, from, rows) ==
  /\ conflicts' = GetConflicts(d, u)
  /\ IF conflicts' = <<>>
       THEN selectedPath' = from /\ displayModel' = rows /\ modifiedFiles' = cache
       ELSE Show(conflicts', cache, from,
                 IF from \in Listed(conflicts') THEN from ELSE conflicts'[1].path, rows)

\* loadConflicts, of the index u and the files d: the selected file if it is
\* still there, the first otherwise.
LoadConflicts(d, u, cache, from, rows) ==
  /\ conflicts' = GetConflicts(d, u)
  /\ IF conflicts' = <<>>
       THEN selectedPath' = None /\ displayModel' = <<>> /\ modifiedFiles' = cache
       ELSE Show(conflicts', cache, from,
                 IF from \in Listed(conflicts') THEN from ELSE conflicts'[1].path, rows)

\* What the window knows of other writes: it holds on to what it keeps.
Reread == behind' = behind \cap DOMAIN modifiedFiles' /\ overtaken' = overtaken \ {"list"}

\* writeFile: what is cut short is cut to the empty text.
Written(d, p, lines, outcome) ==
  CASE outcome = "written"  -> [d EXCEPT ![p] = lines]
    [] outcome = "unopened" -> d
    [] outcome = "cut"      -> [d EXCEPT ![p] = Text(<<>>)]

\* There may be n more troubles.
Bears(n) ==
  n > 0 => outside + Cardinality(missed) + Cardinality(overtaken) + n <= MaxTroubles

\* Nobody has noticed that a write of p failed.
Misses(p, failed) ==
  /\ missed' = IF failed THEN missed \cup {p} ELSE missed
  /\ Bears(IF failed THEN 1 ELSE 0)

-----------------------------------------------------------------------------
(* The operation stops at conflicts, or ends. *)

Stop(op, n) == op.stops[n]

\* The files of h with the lines of the stop n.
Conflicted(op, n, h) ==
  [p \in File |-> IF p \in DOMAIN Stop(op, n) THEN Stop(op, n)[p] ELSE h[p]]

\* The rows of the file that was shown may be kept: they are of the stop before.
NewStop ==
  /\ mine' = <<>> /\ missed' = {} /\ overtaken' = {}
  /\ behind' = DOMAIN modifiedFiles' /\ marked' = marked \cap DOMAIN modifiedFiles'
  /\ UNCHANGED <<edits, outside>>

\* Git has reset the files, and the window goes on with what it had loaded.
Overtaken ==
  /\ Bears(1) /\ mine' = <<>> /\ overtaken' = {"list", "files"}
  /\ behind' = behind \cup Listed(conflicts) \cup DOMAIN modifiedFiles
  /\ UNCHANGED <<window, marked, edits, outside, missed>>

\* The window has been shown: onVisibleChanged, and its loadConflicts.
Init ==
  /\ operation \in Operations /\ at = 1
  /\ head = operation.head /\ staged = head
  /\ disk = Conflicted(operation, 1, head)
  /\ unmerged = DOMAIN Stop(operation, 1)
  /\ open = TRUE /\ modifiedFiles = <<>>
  /\ conflicts = GetConflicts(disk, unmerged)
  /\ selectedPath = IF conflicts = <<>> THEN None ELSE conflicts[1].path
  /\ displayModel = IF conflicts = <<>> THEN <<>> ELSE Rows(conflicts[1].lines)
  /\ mine = <<>> /\ marked = {} /\ edits = 0 /\ outside = 0 /\ behind = {}
  /\ missed = {} /\ overtaken = {}

\* A merge tried again over the conflicts of one that was saved or aborted
\* shows the window again.
Reopen ==
  /\ ~open /\ operation.kind = "merge" /\ unmerged # {}
  /\ open' = TRUE
  /\ LoadConflicts(disk, unmerged, <<>>, None, <<>>)
  /\ mine' = <<>> /\ behind' = {}
  /\ UNCHANGED <<repo, marked, edits, outside, missed, overtaken>>

Close == open' = FALSE /\ UNCHANGED <<conflicts, selectedPath, displayModel, modifiedFiles>>

\* HEAD, the index and the files after the operation went on, and the window:
\* "new conflicts found", or closed.
GoOn(h, index, d) ==
  /\ head' = h /\ staged' = index
  /\ IF at < Len(operation.stops)
       THEN /\ at' = at + 1
            /\ disk' = Conflicted(operation, at + 1, d)
            /\ unmerged' = DOMAIN Stop(operation, at + 1)
            /\ LoadConflicts(disk', unmerged', <<>>, selectedPath, displayModel)
            /\ UNCHANGED open
       ELSE at' = 0 /\ disk' = d /\ unmerged' = {} /\ Close
  /\ NewStop
  /\ UNCHANGED operation

\* A commit after this stop cannot be picked: GitCherryPick has forgotten the
\* operation, and the window, which only reports, stays open.
StopsShort(h, index, d) ==
  /\ operation.kind = "cherrypick"
  /\ at' = 0 /\ head' = h /\ staged' = index /\ disk' = d /\ unmerged' = {}
  /\ Overtaken
  /\ UNCHANGED operation

CanContinue == conflicts = <<>>

\* continueOperation.  With conflicts left in the index it only reports.  The
\* cherry-pick resets the files to its commit, the merge leaves them.
Continue ==
  /\ open /\ CanContinue /\ at > 0 /\ unmerged = {}
  /\ \/ GoOn(staged, staged, IF operation.kind = "merge" THEN disk ELSE staged)
     \/ StopsShort(staged, staged, staged)

\* The commit is made, but the reset to it fails, with the files done or not.
ContinueHalf ==
  /\ open /\ CanContinue /\ at > 0 /\ unmerged = {} /\ operation.kind = "cherrypick"
  /\ head' = staged /\ disk' \in {disk, staged}
  /\ Overtaken
  /\ UNCHANGED <<operation, at, staged, unmerged>>

\* The window goes on showing the conflicts of the commit skipped.
BugSkip ==
  /\ open /\ operation.kind = "cherrypick"
  /\ at > 0 /\ at < Len(operation.stops) /\ at' = at + 1
  /\ staged' = head /\ disk' = Conflicted(operation, at + 1, head)
  /\ unmerged' = DOMAIN Stop(operation, at + 1)
  /\ UNCHANGED <<operation, head, window>>
  /\ NewStop

\* skipOperation; a merge has no such button.  Nothing tests the reset: when it
\* fails, the files stay, and the index loses only its conflicts.
Skip ==
  /\ open /\ at > 0 /\ operation.kind = "cherrypick"
  /\ \E reset \in BOOLEAN :
       LET index == IF reset THEN head
                    ELSE [p \in File |-> IF p \in unmerged THEN <<>> ELSE staged[p]]
           files == IF reset THEN head ELSE disk
       IN  GoOn(head, index, files) \/ StopsShort(head, index, files)

\* abortOperation: the cherry-pick goes back to where it began, the merge
\* leaves the index and the files.
Abort ==
  /\ open /\ open' = FALSE
  /\ selectedPath' = None /\ displayModel' = <<>> /\ modifiedFiles' = <<>>
  /\ IF operation.kind = "merge" THEN UNCHANGED repo
       ELSE /\ at > 0 /\ at' = 0 /\ unmerged' = {}
            /\ head' = operation.head /\ disk' = head' /\ staged' = head'
            /\ UNCHANGED operation
  /\ mine' = <<>> /\ behind' = {}
  /\ UNCHANGED <<conflicts, marked, edits, outside, missed, overtaken>>

\* The reset fails after the files, or after the index too: the window stays.
AbortHalf ==
  /\ open /\ at > 0 /\ operation.kind = "cherrypick"
  /\ disk' = operation.head
  /\ \/ UNCHANGED <<staged, unmerged>>
     \/ staged' = operation.head /\ unmerged' = {}
  /\ Overtaken
  /\ UNCHANGED <<operation, at, head>>

-----------------------------------------------------------------------------
(* Editing the rows. *)

MarksAsText(rows) == Kept(rows, {r \in Range(rows) : r.role \in Editable /\ IsMark(r.text)})

ShowEdited(rows) ==
  /\ displayModel' = rows
  /\ mine' = Keep(mine, selectedPath, BuildFullContent(rows))
  /\ marked' = marked \cup
       (IF MarksAsText(rows) = MarksAsText(displayModel) THEN {} ELSE {selectedPath})
  /\ edits < MaxEdits /\ edits' = edits + 1
  /\ UNCHANGED <<repo, open, conflicts, selectedPath, modifiedFiles, outside, behind, missed, overtaken>>

EditableRow(i) == open /\ i \in DOMAIN displayModel /\ displayModel[i].role \in Editable

\* onTextChanged
Type(i, line) ==
  /\ EditableRow(i) /\ line # displayModel[i].text
  /\ ShowEdited([displayModel EXCEPT ![i].text = line])

\* The half after the cursor is a line of no block.
BugSplitLine(i, cursor) ==
  LET row == displayModel[i] IN
  /\ EditableRow(i)
  /\ ShowEdited(InsertAt([displayModel EXCEPT ![i].text = SubSeq(row.text, 1, cursor)], i + 1,
                     Row("context", SubSeq(row.text, cursor + 1, Len(row.text)), 0)))

\* splitLine: both halves stay in the block and on the side of the line.
SplitLine(i, cursor) ==
  LET row == displayModel[i] IN
  /\ EditableRow(i)
  /\ ShowEdited(InsertAt([displayModel EXCEPT ![i].text = SubSeq(row.text, 1, cursor)], i + 1,
                     [row EXCEPT !.text = SubSeq(row.text, cursor + 1, Len(row.text))]))

\* mergeLineUp: only within a side of a block, or outside of blocks.
MergeLineUp(i) ==
  /\ i > 1 /\ EditableRow(i)
  /\ displayModel[i - 1].role = displayModel[i].role
  /\ displayModel[i - 1].block = displayModel[i].block
  /\ ShowEdited(RemoveAt([displayModel EXCEPT ![i - 1].text = @ \o displayModel[i].text], i))

-----------------------------------------------------------------------------
(* The buttons and the list. *)

SelectFile(p) ==
  /\ open /\ p \in Listed(conflicts) /\ p # selectedPath
  /\ Show(conflicts, modifiedFiles, selectedPath, p, displayModel)
  /\ UNCHANGED <<repo, open, conflicts, history>>

\* The numbers on the buttons.
Buttons == {r.block : r \in {row \in Range(displayModel) : row.role = "button"}}

\* acceptBlock writes what is shown, and replaceBlock reads the file again and
\* writes it; nothing tests the first write, nor whether a file is whole.
AcceptBlock(index, mode, first, second) ==
  LET shown  == BuildFullContent(displayModel)
      before == Written(disk, selectedPath, shown, first)
      lines  == before[selectedPath]
      blocks == {b \in Range(ParseConflictBlocks(lines)) : b.index = index}
      Leaves(ls) == mine' = Keep(mine, selectedPath, ls)
  IN  /\ open
      /\ UNCHANGED <<operation, at, staged, unmerged, head, marked, edits, outside>>
      /\ IF blocks = {} \/ second = "unopened"
           THEN /\ disk' = before /\ Leaves(shown) /\ Misses(selectedPath, first # "written")
                /\ UNCHANGED <<window, behind, overtaken>>
           ELSE LET replaced == ReplaceBlock(lines, CHOOSE b \in blocks : TRUE, mode)
                IN /\ disk' = Written(before, selectedPath, replaced, second)
                   /\ Leaves(replaced)
                   /\ Misses(selectedPath, first # "written" \/ second = "cut")
                   /\ LoadConflicts(disk', unmerged, Forget(modifiedFiles, selectedPath),
                                    selectedPath, displayModel)
                   /\ Reread /\ UNCHANGED open

\* Nobody asks whether blocks are left.
BugCanSave(p) == p \in Listed(conflicts)

\* The button of a file is enabled when no block was found in it.
CanSave(p) == p \in Listed(conflicts) /\ ParseConflictBlocks(LinesIn(conflicts, p)) = <<>>

\* performStage writes what is shown and adds the file to the index; a file
\* that is cut short is added so.
PerformStage(p, cache, rows, outcome) ==
  /\ outcome # "unopened"
  /\ disk' = Written(disk, p, BuildFullContent(rows), outcome)
  /\ staged' = [staged EXCEPT ![p] = disk'[p]]
  /\ unmerged' = unmerged \ {p}
  /\ mine' = Forget(mine, p)
  /\ Misses(p, outcome = "cut")
  /\ LoadConflicts(disk', unmerged', Forget(cache, p), p, rows)
  /\ Reread
  /\ UNCHANGED <<operation, at, head, open, marked, edits, outside>>

\* The file could not be opened, or the index not be written.
StageFails(p, cache, rows, outcome) ==
  /\ disk' = Written(disk, p, BuildFullContent(rows), outcome)
  /\ mine' = Keep(mine, p, BuildFullContent(rows)) /\ Misses(p, outcome = "cut")
  /\ selectedPath' = p /\ modifiedFiles' = cache /\ displayModel' = rows
  /\ UNCHANGED <<operation, at, staged, unmerged, head, open, conflicts>>
  /\ UNCHANGED <<marked, edits, outside, behind, overtaken>>

\* The button selects the file, and saveAndStage stages it.
SaveAndStage(p, outcome) ==
  LET cache == Cached(modifiedFiles, selectedPath, p, displayModel)
      rows  == IF p = selectedPath THEN displayModel ELSE RowsOf(conflicts, cache, p)
  IN  /\ open /\ CanSave(p)
      /\ PerformStage(p, cache, rows, outcome) \/ StageFails(p, cache, rows, outcome)

\* The rows of the files that the window has visited.
Visited ==
  IF selectedPath = None THEN modifiedFiles ELSE Keep(modifiedFiles, selectedPath, displayModel)

\* Only the file shown is written.
BugSaveAllModifications(outcome) ==
  /\ open /\ Close
  /\ disk' = IF selectedPath = None THEN disk
             ELSE Written(disk, selectedPath, BuildFullContent(displayModel), outcome[selectedPath])
  /\ mine' = <<>>
  /\ UNCHANGED <<operation, at, staged, unmerged, head>>
  /\ UNCHANGED <<marked, edits, outside, behind, missed, overtaken>>

\* saveAllModifications, of the dialog that asks before the window is closed: no
\* write is tested, and the window closes however they end.
SaveAllModifications(outcome) ==
  /\ open /\ Close
  /\ Bears(Cardinality({p \in DOMAIN outcome : outcome[p] # "written"}))
  /\ disk' = [p \in File |->
                IF p \notin DOMAIN Visited THEN disk[p]
                ELSE Written(disk, p, BuildFullContent(Visited[p]), outcome[p])[p]]
  /\ mine' = <<>>
  /\ UNCHANGED <<operation, at, staged, unmerged, head>>
  /\ UNCHANGED <<marked, edits, outside, behind, missed, overtaken>>

\* Another program writes a file the operation has stopped over.
WriteOutside(p, lines) ==
  /\ at > 0 /\ p \in DOMAIN Stop(operation, at) /\ lines # disk[p]
  /\ Bears(1) /\ outside' = outside + 1
  /\ disk' = [disk EXCEPT ![p] = lines]
  /\ behind' = behind \cup {p}
  /\ UNCHANGED <<operation, at, staged, unmerged, head, window>>
  /\ UNCHANGED <<mine, marked, edits, missed, overtaken>>

Next ==
  \/ Reopen \/ Continue \/ ContinueHalf \/ Skip \/ Abort \/ AbortHalf
  \/ \E outcome \in [DOMAIN Visited -> Outcome] : SaveAllModifications(outcome)
  \/ \E i \in DOMAIN displayModel :
       \/ \E line \in Typed : Type(i, line)
       \/ \E cursor \in 0 .. Len(displayModel[i].text) : SplitLine(i, cursor)
       \/ MergeLineUp(i)
  \/ \E p \in File : SelectFile(p) \/ \E outcome \in Outcome : SaveAndStage(p, outcome)
  \/ \E index \in Buttons, mode \in {"ours", "theirs", "both"}, first, second \in Outcome :
       AcceptBlock(index, mode, first, second)
  \/ \E p \in File, lines \in Outside : WriteOutside(p, lines)

Spec == Init /\ [][Next]_vars

-----------------------------------------------------------------------------
(* Properties. *)

\* TypeOK: the rows cached and shown are of the conflicts of the repository:
\* every row of a block has its number, and no file is shown that is not
\* listed.
TypeOK ==
  /\ operation \in Operations /\ at \in 0 .. Len(operation.stops)
  /\ DOMAIN disk = File /\ DOMAIN staged = File /\ DOMAIN head = File
  /\ unmerged \subseteq File /\ marked \subseteq File
  /\ behind \subseteq File /\ missed \subseteq File
  /\ open \in BOOLEAN /\ overtaken \subseteq {"list", "files"}
  /\ open => (IF conflicts = <<>> THEN selectedPath = None ELSE selectedPath \in Listed(conflicts))
  /\ \A row \in Range(displayModel) : row.role \in Role /\ (row.block = 0 <=> row.role = "context")
  /\ DOMAIN modifiedFiles \subseteq File /\ DOMAIN mine \subseteq File
  /\ edits \in 0 .. MaxEdits /\ outside \in Nat

\* BlocksAreMarked: the parser finds, in any file the window or another
\* program writes, exactly the blocks that are there: an opening, a middle and
\* a closing marker with no marker between them (GitConflict.cpp:90-165).
BlocksAreMarked ==
  \A p \in File :
    LET lines == disk[p]
        numbers == DOMAIN lines
        found == Range(ParseConflictBlocks(lines))
    IN  {<<b.start, b.middle, b.end>> : b \in found}
          = {t \in numbers \X numbers \X numbers :
               /\ t[1] < t[2] /\ t[2] < t[3]
               /\ Starts(lines[t[1]], Opening) /\ Starts(lines[t[2]], Middle) /\ Starts(lines[t[3]], Closing)
               /\ \A i \in t[1] + 1 .. t[3] - 1 : i # t[2] => ~IsMark(lines[i])}

\* DisplayIsFile: whatever the user types, splits and joins, the rows shown
\* are the rows of the file they would be written to: the numbers on the
\* buttons mean to replaceBlock what they mean to the user.  Only markers
\* edited as text come between (ConflictPopupUtils.js:162-224).
DisplayIsFile ==
  open /\ selectedPath \notin marked \cup {None} => displayModel = Rows(BuildFullContent(displayModel))

\* EditsKept: what the user made of a file in conflict is in the window until
\* the file is staged, whatever other files were shown, accepted and staged in
\* between, but for a block accepted while the file could not be written
\* (ConflictPopup.qml:417-493).
EditsKept ==
  \A p \in (DOMAIN mine \cap unmerged) \ missed :
    mine[p] = BuildFullContent(IF p = selectedPath THEN displayModel
                               ELSE IF p \in DOMAIN modifiedFiles THEN modifiedFiles[p]
                               ELSE <<>>)

\* Odd: the text in conflict has lines that look like markers.
Odd(lines) ==
  \E i \in DOMAIN lines :
    IsMark(lines[i]) /\ BlockOf(ParseConflictBlocks(lines), i) = {}

\* StagedIsResolved: no conflict marker is staged, unless the text itself had
\* lines like markers, the user made some, or the file was written by another
\* program, by an abort that failed, or cut short: the button goes by the file as
\* it was read last, and stages the rows kept (ConflictFileList.qml:80-93).
StagedIsResolved ==
  at > 0 /\ outside = 0 /\ overtaken = {} =>
    \A p \in DOMAIN Stop(operation, at) \ (unmerged \cup marked \cup missed) :
      Odd(Stop(operation, at)[p]) \/ \A i \in DOMAIN staged[p] : ~IsMark(staged[p][i])

\* ListTellsIndex: the window lists conflicts the index has, and leaves out
\* only those without a file, or whose file has come since it looked
\* (GitConflict.cpp:23-56, ConflictPopup.qml:42-44).  It does not after a
\* continue, a skip or an abort that failed, until it loads them again: those
\* branches report the error and leave the list (ConflictPopup.qml:587, 613-615).
ListTellsIndex ==
  open /\ "list" \notin overtaken =>
    /\ Listed(conflicts) \subseteq unmerged
    /\ \A p \in unmerged \ Listed(conflicts) : disk[p] = <<>> \/ p \in behind

\* AcceptKeepsRest: accepting a side of a block leaves every other row as it
\* is shown, and of the block the rows of that side in their order, when both
\* writes are done; a side that is one blank line is lost
\* (GitConflict.cpp:182-240).
LoneBlank(row) ==
  /\ row.text = <<>>
  /\ Kept(displayModel, {r \in Range(displayModel) : r.role = row.role /\ r.block = row.block}) = <<row>>

Accepted(index, mode) ==
  LET sides == IF mode = "both" THEN {"ours", "theirs"} ELSE {mode} IN
  BuildFullContent(Kept(displayModel,
    {r \in Range(displayModel) : r.block = index => r.role \in sides /\ ~LoneBlank(r)}))

AcceptKeepsRest ==
  [][\A index \in Buttons, mode \in {"ours", "theirs", "both"} :
       AcceptBlock(index, mode, "written", "written") =>
         selectedPath \in marked \/ disk'[selectedPath] = Accepted(index, mode)]_vars

\* SaveKeepsOthers: Save makes every file that is in conflict what the user made
\* of it, and leaves every other one as it is; a write that fails costs its own
\* file only, which is as it was or cut short.  A file may be given older rows
\* that another program, or a skip, continue or abort, wrote since, and one
\* whose write failed unnoticed before (ConflictPopup.qml:662-691).
SaveKeepsOthers ==
  [][\A outcome \in [DOMAIN Visited -> Outcome] : SaveAllModifications(outcome) =>
       \A p \in File \ (behind \cup missed) :
         \/ disk'[p] = IF p \in DOMAIN mine \cap unmerged THEN mine[p] ELSE disk[p]
         \/ /\ p \in DOMAIN outcome /\ outcome[p] # "written"
            /\ disk'[p] \in {disk[p], Text(<<>>)}]_vars

\* RowsTellTheFile: the rows shown are those of the file they would be written
\* to, so that a button means to the parser the block that the user sees, and
\* the choice of a side leaves everything else (ConflictPopup.qml:457-493).
RowsTellTheFile == []DisplayIsFile /\ AcceptKeepsRest

\* EditorIsSound: the parser finds the blocks that are there, and the list of
\* conflicts is that of the index, through every edit, save and answer, until an
\* answer that fails has reset the files beneath it.
EditorIsSound == TypeOK /\ BlocksAreMarked /\ ListTellsIndex
==============================================================================
