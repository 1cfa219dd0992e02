-------------------------- MODULE MC_Notifications --------------------------
\* Three repositories, two of them of one name, and two notes, of which one can
\* wait for the other's place.
EXTENDS Notifications

MCRepo == {"work/app", "old/app", "lib"}
MCName == {"app", "lib"}
MCNameOf == [r \in MCRepo |-> IF r = "lib" THEN "lib" ELSE "app"]
MCNote == 1..2
MCLimit == {1, 2}
MCDefault == 1
=============================================================================
