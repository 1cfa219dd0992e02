------------------------- MODULE MC_InteractiveRebase -------------------------
EXTENDS InteractiveRebase, MCRebaseValues
=============================================================================
