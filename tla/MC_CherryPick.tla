---------------------------- MODULE MC_CherryPick ----------------------------
\* Two branches, commits to pick, one file of the user's own at the
\* place of the first commit.
EXTENDS CherryPick

MCBranch == {"main", "topic"}
MCChange == {"a", "b", "c"}
MCLocal == {"e"}
MCOverlaps == [x \in MCChange \cup {"e"} |-> IF x = "e" THEN {"a"} ELSE {}]

MCSelections == {<<"a">>, <<"b", "a">>}

MCInitRepo ==
  {[head |-> "main",
    tips |-> [b \in MCBranch |-> IF b = "main" THEN NoCommit ELSE [says |-> {"c"}, has |-> {"c"}]],
    staged |-> {}, edits |-> {}, unmerged |-> FALSE, op |-> op] : op \in {"none", "merge"}}
=============================================================================
