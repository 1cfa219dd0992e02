----------------------------- MODULE RepoSearch -----------------------------
(***************************************************************************)
(* What the scanner promises to the page that uses it: one search at a     *)
(* time, which finds repositories in any order; unless it was asked to     *)
(* stop it has found all of them when it ends, and the end is then         *)
(* delivered, with the repositories or as a stop.  Workers, queue and pool *)
(* are those of GitScanner, which implements this.                         *)
(***************************************************************************)
EXTENDS Naturals

CONSTANTS Repo,         \* the repositories below the root
          MaxSearches   \* bound: searches started in a behaviour

VARIABLES searching, ended, stop, found, outcome, reported, searches

vars == <<searching, ended, stop, found, outcome, reported, searches>>

Init ==
  /\ searching = FALSE /\ ended = FALSE /\ stop = FALSE /\ found = {}
  /\ outcome = "none" /\ reported = {} /\ searches = 0

\* The end of an earlier search that was not delivered yet never will be.
Begin ==
  /\ ~searching /\ searches < MaxSearches
  /\ searching' = TRUE /\ ended' = FALSE /\ stop' = FALSE /\ found' = {}
  /\ searches' = searches + 1
  /\ UNCHANGED <<outcome, reported>>

Stop ==
  /\ searching /\ stop' = TRUE
  /\ UNCHANGED <<searching, ended, found, outcome, reported, searches>>

Find(r) ==
  /\ searching /\ r \notin found
  /\ found' = found \cup {r}
  /\ UNCHANGED <<searching, ended, stop, outcome, reported, searches>>

End ==
  /\ searching /\ (stop \/ found = Repo)
  /\ searching' = FALSE /\ ended' = TRUE
  /\ UNCHANGED <<stop, found, outcome, reported, searches>>

\* stop is as it was asked for, also when it was too late to matter.
Deliver ==
  /\ ended /\ ended' = FALSE
  /\ IF stop THEN outcome' = "stopped" /\ UNCHANGED reported
             ELSE outcome' = "finished" /\ reported' = found
  /\ UNCHANGED <<searching, stop, found, searches>>

Next == Begin \/ Stop \/ End \/ Deliver \/ \E r \in Repo : Find(r)

Spec == Init /\ [][Next]_vars
=============================================================================
