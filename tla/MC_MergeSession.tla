--------------------------- MODULE MC_MergeSession ---------------------------
\* main and topic have a commit each on top of a common one, and fix has both;
\* the user edits a file that topic changes.
EXTENDS MergeSession

MCBranch == {"main", "topic", "fix"}
MCChange == {"m", "t"}
MCLocal == {"e"}
MCOverlaps == [x \in MCChange \cup MCLocal |-> IF x \in MCLocal THEN {"t"} ELSE {}]

At(changes) == [says |-> changes, has |-> changes]

MCInitRepo ==
  {[head |-> "main",
    tips |-> [b \in MCBranch |-> At(CASE b = "main" -> {"m"} [] b = "topic" -> {"t"}
                                      [] b = "fix" -> {"m", "t"})],
    staged |-> {}, edits |-> {}, unmerged |-> FALSE, op |-> "none"]}
=============================================================================
