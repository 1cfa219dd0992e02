--------------------------- MODULE MC_RepoHandles ---------------------------
\* Two repositories on disk and one to clone; the list of recent ones is
\* full with two.
EXTENDS RepoHandles

MCPath == {"app", "lib", "new"}
MCExisting == {"app", "lib"}
MCTask == {"pull"}
=============================================================================
