-------------------------- MODULE MC_ConflictEditor --------------------------
\* Three files; two merges, one over a missing file and a marker-like line, and
\* a cherry-pick that stops twice, the second time over a missing file too.
EXTENDS ConflictEditor

L(piece) == <<piece>>
MCPaths == <<"a", "b", "c">>

\* Two blocks, one with a blank side.
Two == <<L("x"), L(Opening), L("o"), L(Middle), <<>>, L(Closing),
         L(Opening), L(Middle), L("t"), L(Closing)>>
\* One side is empty.
One == <<L(Opening), L("p"), L(Middle), L(Closing)>>
\* One side has a line like a separator.
Like == <<L(Opening), L("p"), L(Middle), L("q"), L(Middle), L(Closing)>>

MCHead == [p \in {"a", "b", "c"} |-> <<L("h")>>]
MCOperations ==
  {[kind |-> "merge", head |-> MCHead, stops |-> <<[a |-> Two, b |-> <<L("q")>>]>>],
   [kind |-> "merge", head |-> MCHead, stops |-> <<[a |-> Like, c |-> <<>>]>>],
   [kind |-> "cherrypick", head |-> MCHead, stops |-> <<[a |-> One, b |-> <<L("q")>>], [a |-> <<>>, b |-> One]>>]}
MCTyped == {L("z"), L(Opening)}
MCOutside == {<<L("w")>>}
==============================================================================
