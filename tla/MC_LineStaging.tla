--------------------------- MODULE MC_LineStaging ---------------------------
\* Two files of at most three lines, in five repositories.
EXTENDS LineStaging

L(piece) == <<piece>>
MCPaths == <<"a", "b">>

Old == <<L("x"), L("y"), L("z"), Blank>>
New == <<L("y"), L("w"), Blank>>
One == <<L("x"), Blank>>

MCStart ==
  {\* Two chunks in one file, numbered apart, and a line on top of another file.
   [head |-> [a |-> Old, b |-> One], index |-> [a |-> Old, b |-> One],
    work |-> [a |-> New, b |-> <<L("n"), L("x")>>], slides |-> FALSE],
   \* A staged change under another, and a file that is not git's.
   [head |-> [a |-> One, b |-> Absent], index |-> [a |-> <<L("y")>>, b |-> Absent],
    work |-> [a |-> <<L("y"), L("w"), Blank>>, b |-> <<L("n"), Blank>>], slides |-> FALSE],
   \* A file that is gone, and one with fewer lines than before.
   [head |-> [a |-> One, b |-> Old], index |-> [a |-> One, b |-> Old],
    work |-> [a |-> Absent, b |-> <<L("x"), L("w"), Blank>>], slides |-> FALSE],
   \* An empty file that was just added and has text since, below another.
   [head |-> [a |-> One, b |-> Absent], index |-> [a |-> One, b |-> <<Blank>>],
    work |-> [a |-> <<L("y"), Blank>>, b |-> <<L("n"), Blank>>], slides |-> FALSE],
   \* A line that was added above or below its like.
   [head |-> [a |-> One, b |-> One], index |-> [a |-> One, b |-> One],
    work |-> [a |-> <<L("x"), L("x"), Blank>>, b |-> One], slides |-> TRUE]}
MCTyped == {L("t")}
MCOutside == {<<L("o"), Blank>>}
=============================================================================
