---------------------------- MODULE MCRebaseValues ----------------------------
\* The instance the rebase is checked on.
\* Two branches with a commit each, two commits to replay, two files that can
\* be in conflict; a plan of one entry, and every plan of two.  Nothing tells
\* the two commits apart, so they come in one order.
MCBranch == {"main", "topic"}
MCPath == {"f1", "f2"}
MCChange == {"m", "t", "u", "a", "b"}
MCBases == {<<"u">>}

Pair(h, k) == {<<[action |-> x, hash |-> h], [action |-> y, hash |-> k]>> :
                 x, y \in {"pick", "skip"}}
MCPlans == {<<[action |-> "pick", hash |-> "a"]>>} \cup Pair("a", "b")

Opened(head, op) ==
  LET refs == [b \in MCBranch |-> IF b = "main" THEN <<"m">> ELSE <<"t">>]
  IN  [head |-> head, at |-> IF head = "main" THEN <<"m">> ELSE <<"t">>, refs |-> refs,
       op |-> op, unmerged |-> {}, missing |-> {}, dirty |-> FALSE]
MCInitRepo == {Opened("main", "none"), Opened("HEAD", "none"), Opened("main", "rebase")}
=============================================================================
