--------------------------- MODULE MC_RebaseWindows ---------------------------
EXTENDS RebaseWindows, MCRebaseValues
=============================================================================
