----------------------------- MODULE MC_GitRemote -----------------------------
\* Two branches, two operations at a time, a commit of the user's and one of
\* others'.
EXTENDS GitRemote

MCBranch == {"main", "topic"}
MCMine == {1}
MCTheirs == {3}
MCTask == {1, 2}
=============================================================================
