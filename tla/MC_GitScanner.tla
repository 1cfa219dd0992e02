---------------------------- MODULE MC_GitScanner ----------------------------
\* A root with a branching sub-tree and a repository nested in another; 5 is
\* a repository outside the root.
EXTENDS GitScanner

MCDir == 1..5
MCRoot == 1
MCChildren == [d \in MCDir |-> CASE d = 1 -> {2, 3}
                                 [] d = 2 -> {4}
                                 [] OTHER -> {}]
MCRepoDir == {2, 4, 5}
MCWorker == 1..3
=============================================================================
