------------------------- MODULE NotificationsProofs -------------------------
(***************************************************************************)
(* The badge announces no note that is not unread, the notes of every name *)
(* of a repository stay its own and are not lost, and the count leaves the *)
(* list only when a window closes that was read, for all repositories,     *)
(* names, notes, limits and faults.  The strengthening tells where a note  *)
(* is: that of the name selected in memory, any other in its file.         *)
(***************************************************************************)
EXTENDS Notifications, SequenceTheorems, FiniteSetTheorems, TLAPS

\* The list c is one of the name k, where r tells whose the notes are.
Home(c, k, r) ==
  /\ c \in Centre /\ c.read \subseteq c.history /\ c.history \subseteq DOMAIN r
  /\ \A n \in c.history : KeyOf(r[n]) = k
  /\ c.unread <= Unread(c)

\* Every file that parses holds one list, of its own name.
Filed(d, r) ==
  \A k \in DOMAIN d : /\ \A c \in d[k] : Home(c, k, r)
                      /\ \A c, e \in d[k] : c = e

\* A note that is not lost is in memory when the name of its repository is
\* selected, and otherwise in the file of that name.
Safe(c, k, d, r, lost, risk) ==
  \A n \in DOMAIN r \ lost :
    KeyOf(r[n]) \notin risk =>
      IF KeyOf(r[n]) = k
        THEN n \in c.history
        ELSE KeyOf(r[n]) \in DOMAIN d /\ \E e \in d[KeyOf(r[n])] : n \in e.history

\* A queued note waits once, has no window and is behind one.
Turn(w, q, r) ==
  /\ w \subseteq DOMAIN r /\ q \in Seq(Note) /\ (q # <<>> => w # {})
  /\ \A i \in DOMAIN q : q[i] \in DOMAIN r \ w
  /\ \A i, j \in DOMAIN q : q[i] = q[j] => i = j

\* The content in the object is of the file of the repository selected.
Emptied ==
  /\ io \in [name : Key \cup {Config, "unset"}, content : SUBSET Centre]
  /\ io.name # key => io.content = {}

Kinds ==
  /\ selected \in Repo \cup {None} /\ key = KeyOf(selected) /\ settings \in Settings
  /\ DOMAIN repoOf \subseteq Note /\ repoOf \in [DOMAIN repoOf -> Repo \cup {None}]
  /\ DOMAIN disk \subseteq Key /\ cleared \subseteq Note /\ exposed \subseteq Key

IInv ==
  /\ Kinds /\ Emptied
  /\ Home(centre, key, repoOf) /\ Filed(disk, repoOf)
  /\ Safe(centre, key, disk, repoOf, cleared, exposed)
  /\ Turn(windows, queued, repoOf)

-----------------------------------------------------------------------------
(* The counts. *)

LEMMA Finite ==
  ASSUME NEW S \in SUBSET Note
  PROVE  IsFiniteSet(S) /\ Cardinality(S) \in Nat
  BY NoteAssumption, FS_Subset, FS_CardinalityType

LEMMA KeyType ==
  ASSUME NEW r \in Repo \cup {None}
  PROVE  KeyOf(r) \in Key /\ (r \in Repo => KeyOf(r) = NameOf[r] /\ r # None)
  BY RepoAssumption, NameAssumption DEF KeyOf, Key

LEMMA KeyKind == Kinds => key \in Key
  BY KeyType DEF Kinds

LEMMA NoNotesHome ==
  ASSUME NEW k, NEW r
  PROVE  Home(NoNotes, k, r) /\ NoNotes.unread = Unread(NoNotes) /\ NoNotes.history = {}
<1>1. /\ NoNotes \in Centre /\ NoNotes.history = {} /\ NoNotes.read = {} /\ NoNotes.unread = 0
  BY DEF NoNotes, Centre
<1>2. Cardinality({}) = 0 /\ {} \ {} = {}
  BY FS_EmptySet
<1>3. Unread(NoNotes) = 0
  BY <1>1, <1>2 DEF Unread
<1> QED BY <1>1, <1>3 DEF Home

LEMMA Fields ==
  ASSUME NEW c \in Centre
  PROVE  c.history \in SUBSET Note /\ c.read \in SUBSET Note /\ c.unread \in Nat
  BY DEF Centre

LEMMA Changed ==
  ASSUME NEW c \in Centre, NEW h \in SUBSET Note, NEW r \in SUBSET Note, NEW u \in Nat
  PROVE  /\ [c EXCEPT !.history = h, !.unread = u] \in Centre
         /\ [c EXCEPT !.history = h, !.unread = u] = [history |-> h, read |-> c.read, unread |-> u]
         /\ [c EXCEPT !.read = r, !.unread = u] \in Centre
         /\ [c EXCEPT !.read = r, !.unread = u] = [history |-> c.history, read |-> r, unread |-> u]
<1>1. \A d, e \in Centre :
        d.history = e.history /\ d.read = e.read /\ d.unread = e.unread => d = e
  BY DEF Centre
<1> DEFINE one == [c EXCEPT !.history = h, !.unread = u]
           two == [c EXCEPT !.read = r, !.unread = u]
<1>2. one \in Centre /\ two \in Centre
  BY DEF Centre
<1>3. one.history = h /\ one.read = c.read /\ one.unread = u
  BY DEF Centre
<1>4. two.history = c.history /\ two.read = r /\ two.unread = u
  BY DEF Centre
<1>5. /\ [history |-> h, read |-> c.read, unread |-> u] \in Centre
      /\ [history |-> c.history, read |-> r, unread |-> u] \in Centre
  BY Fields DEF Centre
<1> HIDE DEF one, two
<1>6. one = [history |-> h, read |-> c.read, unread |-> u]
  BY <1>1, <1>2, <1>3, <1>5
<1>7. two = [history |-> c.history, read |-> r, unread |-> u]
  BY <1>1, <1>2, <1>4, <1>5
<1> QED BY <1>2, <1>6, <1>7 DEF one, two

\* A note that is shown is one more unread.
LEMMA CountedType ==
  ASSUME NEW c \in Centre, c.read \subseteq c.history, NEW n \in Note, n \notin c.history
  PROVE  LET d == Counted(c, n)
         IN  /\ d \in Centre /\ d.history = c.history \cup {n} /\ d.read \subseteq d.history
             /\ c.unread <= Unread(c) => d.unread <= Unread(d)
             /\ c.unread = Unread(c) => d.unread = Unread(d)
<1> DEFINE d == [c EXCEPT !.history = @ \cup {n}, !.unread = @ + 1]
<1>1. /\ d \in Centre /\ d.history = c.history \cup {n} /\ d.read = c.read
      /\ d.unread = c.unread + 1 /\ c.unread \in Nat /\ c.history \in SUBSET Note
  <2>1. c.unread \in Nat /\ c.history \in SUBSET Note
    BY Fields
  <2>2. c.unread + 1 \in Nat /\ c.history \cup {n} \in SUBSET Note
    BY <2>1
  <2>3. d \in Centre /\ d = [history |-> c.history \cup {n}, read |-> c.read, unread |-> c.unread + 1]
    BY <2>2, Changed
  <2> HIDE DEF d
  <2> QED BY <2>1, <2>3
<1>2. d.history \ d.read = (c.history \ c.read) \cup {n} /\ n \notin c.history \ c.read
  BY <1>1
<1>3. IsFiniteSet(c.history \ c.read) /\ Cardinality(c.history \ c.read) \in Nat
  BY <1>1, Finite
<1> HIDE DEF d
<1>4. Unread(d) = Unread(c) + 1 /\ Unread(c) \in Nat
  BY <1>2, <1>3, FS_AddElement DEF Unread
<1>5. Counted(c, n) = d
  BY DEF Counted, d
<1>6. (c.unread <= Unread(c) => d.unread <= Unread(d)) /\ (c.unread = Unread(c) => d.unread = Unread(d))
  BY <1>1, <1>4
<1> QED BY <1>1, <1>5, <1>6

\* A note whose window closes is read; the count follows when it was not.
LEMMA ClosedType ==
  ASSUME NEW c \in Centre, c.read \subseteq c.history, NEW n
  PROVE  LET d == ClosedIn(c, n)
         IN  /\ d \in Centre /\ d.history = c.history /\ d.read \subseteq d.history
             /\ c.unread <= Unread(c) => d.unread <= Unread(d)
             /\ c.unread = Unread(c) /\ n \notin c.read => d.unread = Unread(d)
<1>1. CASE n \notin c.history
  BY <1>1 DEF ClosedIn
<1>2. CASE n \in c.history
  <2> DEFINE d == [c EXCEPT !.read = @ \cup {n}, !.unread = IF @ > 0 THEN @ - 1 ELSE 0]
  <2>1. /\ d \in Centre /\ d.history = c.history /\ d.read = c.read \cup {n}
        /\ d.unread = (IF c.unread > 0 THEN c.unread - 1 ELSE 0)
        /\ c.unread \in Nat /\ c.history \in SUBSET Note
    <3> DEFINE u == IF c.unread > 0 THEN c.unread - 1 ELSE 0
    <3>1. c.unread \in Nat /\ c.history \in SUBSET Note /\ c.read \in SUBSET Note
      BY Fields
    <3>2. u \in Nat /\ c.read \cup {n} \in SUBSET Note
      BY <1>2, <3>1
    <3>3. d \in Centre /\ d = [history |-> c.history, read |-> c.read \cup {n}, unread |-> u]
      BY <3>2, Changed
    <3> HIDE DEF d
    <3> QED BY <3>1, <3>3
  <2>2. d.history \ d.read = (c.history \ c.read) \ {n}
    BY <2>1
  <2>3. IsFiniteSet(c.history \ c.read) /\ Cardinality(c.history \ c.read) \in Nat
    BY <2>1, Finite
  <2>4. ClosedIn(c, n) = d
    BY <1>2 DEF ClosedIn
  <2> HIDE DEF d
  <2>5. Unread(d) = (IF n \in c.read THEN Unread(c) ELSE Unread(c) - 1) /\ Unread(c) \in Nat
        /\ (n \notin c.read => Unread(c) > 0)
    <3>1. n \in c.history \ c.read <=> n \notin c.read
      BY <1>2
    <3>2. Cardinality((c.history \ c.read) \ {n})
            = IF n \in c.history \ c.read THEN Cardinality(c.history \ c.read) - 1
                                          ELSE Cardinality(c.history \ c.read)
      BY <2>3, FS_RemoveElement
    <3>3. n \in c.history \ c.read => Cardinality(c.history \ c.read) > 0
      BY <2>3, FS_EmptySet
    <3> QED BY <2>2, <2>3, <3>1, <3>2, <3>3 DEF Unread
  <2>6. /\ c.unread <= Unread(c) => d.unread <= Unread(d)
        /\ c.unread = Unread(c) /\ n \notin c.read => d.unread = Unread(d)
    BY <2>1, <2>5
  <2>7. d.read \subseteq d.history
    BY <1>2, <2>1
  <2> QED BY <2>1, <2>4, <2>6, <2>7
<1> QED BY <1>1, <1>2

LEMMA AllClosedType ==
  ASSUME NEW c \in Centre, c.read \subseteq c.history
  PROVE  LET d == AllClosedIn(c)
         IN  /\ d \in Centre /\ d.history = c.history /\ d.read \subseteq d.history
             /\ c.unread <= Unread(c) => d.unread <= Unread(d)
             /\ c.unread = Unread(c) /\ windows \cap c.read = {} => d.unread = Unread(d)
<1> DEFINE closing == windows \cap c.history
           n == Cardinality(closing)
           d == [c EXCEPT !.read = @ \cup closing, !.unread = IF @ > n THEN @ - n ELSE 0]
<1>1. /\ c.unread \in Nat /\ c.history \in SUBSET Note /\ closing \in SUBSET Note /\ n \in Nat
      /\ c.history \ c.read \in SUBSET Note
  <2>1. c.unread \in Nat /\ c.history \in SUBSET Note
    BY DEF Centre
  <2> QED BY <2>1, Finite
<1> DEFINE old == c.history \ c.read
           new == old \ closing
<1>2. /\ IsFiniteSet(old) /\ Cardinality(old) \in Nat /\ IsFiniteSet(new) /\ Cardinality(new) \in Nat
      /\ IsFiniteSet(closing)
  BY <1>1, Finite
<1>3. /\ Cardinality(old) <= Cardinality(new) + n
      /\ closing \cap c.read = {} => Cardinality(old) = Cardinality(new) + n
  <2>1. Cardinality(new \cup closing) = Cardinality(new) + n - Cardinality(new \cap closing)
    BY <1>2, FS_Union
  <2>2. new \cap closing = {} /\ Cardinality({}) = 0
    BY FS_EmptySet
  <2>3. IsFiniteSet(new \cup closing) /\ old \subseteq new \cup closing
    BY <1>2, FS_Union
  <2>4. Cardinality(old) <= Cardinality(new \cup closing)
    BY <2>3, FS_Subset
  <2>5. closing \cap c.read = {} => old = new \cup closing
    OBVIOUS
  <2>6. Cardinality(new \cap closing) = 0
    BY <2>2
  <2> HIDE DEF n, old, new, closing
  <2>7. Cardinality(new \cup closing) = Cardinality(new) + n
    <3>1. \A x, y, z, t \in Nat : x = y + z - t /\ t = 0 => x = y + z
      OBVIOUS
    <3>2. Cardinality(new \cup closing) \in Nat /\ Cardinality(new) \in Nat /\ n \in Nat
          /\ Cardinality(new \cap closing) \in Nat
      BY <1>1, <1>2, <2>3, <2>6, FS_CardinalityType
    <3> QED BY <2>1, <2>6, <3>1, <3>2
  <2>8. Cardinality(old) <= Cardinality(new) + n
    BY <2>4, <2>7
  <2>9. closing \cap c.read = {} => Cardinality(old) = Cardinality(new) + n
    BY <2>5, <2>7
  <2> QED BY <2>8, <2>9
<1>4. /\ d.history = c.history /\ d.read = c.read \cup closing
      /\ d.unread = IF c.unread > n THEN c.unread - n ELSE 0
  <2> DEFINE u == IF c.unread > n THEN c.unread - n ELSE 0
  <2> HIDE DEF n
  <2>1. u \in Nat
    BY <1>1
  <2>2. c.read \cup closing \in SUBSET Note
    BY <1>1, Fields
  <2>3. d = [history |-> c.history, read |-> c.read \cup closing, unread |-> u]
    <3> HIDE DEF u, closing
    <3>1. [c EXCEPT !.read = c.read \cup closing, !.unread = u]
            = [history |-> c.history, read |-> c.read \cup closing, unread |-> u]
      BY <2>1, <2>2, Changed
    <3> QED BY <3>1 DEF u
  <2> HIDE DEF d
  <2> QED BY <2>3
<1>5. d \in Centre /\ d.read \subseteq d.history
  <2> HIDE DEF n
  <2>1. (IF c.unread > n THEN c.unread - n ELSE 0) \in Nat
    BY <1>1
  <2>2. c.read \cup closing \in SUBSET Note
    BY <1>1, Fields
  <2>3. d \in Centre
    BY <2>1, <2>2, Changed
  <2>4. c.read \cup closing \subseteq c.history
    OBVIOUS
  <2> QED BY <1>4, <2>3, <2>4
<1>6. d.history \ d.read = new
  BY <1>4
<1>7. AllClosedIn(c) = d
  BY DEF AllClosedIn
<1> HIDE DEF d, n, old, new
<1>8. Unread(d) = Cardinality(new) /\ Unread(c) = Cardinality(old)
  BY <1>6 DEF Unread, old
<1>9. /\ c.unread <= Unread(c) => d.unread <= Unread(d)
      /\ c.unread = Unread(c) /\ windows \cap c.read = {} => d.unread = Unread(d)
  BY <1>1, <1>2, <1>3, <1>4, <1>8
<1> QED BY <1>4, <1>5, <1>7, <1>9

-----------------------------------------------------------------------------
(* The lists of a repository. *)

LEMMA Typed == IInv => TypeOK
<1> SUFFICES ASSUME IInv PROVE TypeOK
  OBVIOUS
<1>1. centre \in Centre /\ centre.read \subseteq centre.history
  BY DEF IInv, Home
<1>2. windows \subseteq Note /\ queued \in Seq(Note)
  BY DEF IInv, Turn, Kinds
<1>3. \A k \in DOMAIN disk : \A c \in disk[k] : c \in Centre
  BY DEF IInv, Filed, Home
<1>4. \E shown \in SUBSET Note : repoOf \in [shown -> Repo \cup {None}]
  BY DEF IInv, Kinds
<1>5. io.name \in Key \cup {Config, "unset"}
  BY DEF IInv, Emptied
<1> QED BY <1>1, <1>2, <1>3, <1>4, <1>5 DEF IInv, Kinds, TypeOK

\* Whose a note is does not change.
LEMMA HomeKept ==
  ASSUME NEW c, NEW k, NEW r, NEW s, DOMAIN r \subseteq DOMAIN s,
         \A n \in DOMAIN r : s[n] = r[n], Home(c, k, r)
  PROVE  Home(c, k, s)
  BY DEF Home

LEMMA FiledKept ==
  ASSUME NEW d, NEW r, NEW s, DOMAIN r \subseteq DOMAIN s,
         \A n \in DOMAIN r : s[n] = r[n], Filed(d, r)
  PROVE  Filed(d, s)
  BY HomeKept DEF Filed

LEMMA WriteFiled ==
  ASSUME NEW d, NEW r, NEW k, NEW content, NEW outcome \in Outcome, Filed(d, r),
         \A c \in content : Home(c, k, r), \A c, e \in content : c = e
  PROVE  LET w == Write(d, k, content, outcome)
         IN  /\ Filed(w, r) /\ DOMAIN w \subseteq DOMAIN d \cup {k}
             /\ \A j \in DOMAIN d \ {k} : j \in DOMAIN w /\ w[j] = d[j]
             /\ outcome = "written" => k \in DOMAIN w /\ w[k] = content
<1>1. CASE outcome # "unopened"
  <2> DEFINE here == IF outcome = "written" THEN content ELSE {}
             w == [j \in DOMAIN d \cup {k} |-> IF j # k THEN d[j] ELSE here]
  <2>1. Write(d, k, content, outcome) = w
    BY <1>1 DEF Write
  <2>2. DOMAIN w = DOMAIN d \cup {k} /\ w[k] = here /\ \A j \in DOMAIN d \ {k} : w[j] = d[j]
    OBVIOUS
  <2>3. here \in {content, {}} /\ (outcome = "written" => here = content)
    OBVIOUS
  <2> HIDE DEF w, here
  <2>4. Filed(w, r)
    BY <2>2, <2>3 DEF Filed
  <2> QED BY <2>1, <2>2, <2>3, <2>4
<1>2. CASE outcome = "unopened"
  BY <1>2 DEF Write
<1> QED BY <1>1, <1>2

\* What is loaded is the list of the file, or empty.
LEMMA ParsedHome ==
  ASSUME NEW content, NEW k, NEW r, \A c \in content : Home(c, k, r)
  PROVE  /\ Home(Parsed(content), k, r)
         /\ Parsed(content) \in content \/ (content = {} /\ Parsed(content) = NoNotes)
<1>1. CASE content = {}
  BY <1>1, NoNotesHome DEF Parsed
<1>2. CASE content # {}
  <2>1. Parsed(content) \in content
    BY <1>2 DEF Parsed
  <2> QED BY <2>1
<1> QED BY <1>1, <1>2

-----------------------------------------------------------------------------
(* Windows and the queue. *)

\* Every limit leaves a window on a full screen.
LEMMA FullScreen ==
  ASSUME NEW s \in Settings, NEW w, Cardinality(w) >= s.limit
  PROVE  w # {}
<1>1. s.limit \in Limit
  BY DEF Settings
<1>2. s.limit \in Nat /\ s.limit # 0
  BY <1>1, LimitAssumption
<1>3. ~(0 >= s.limit)
  BY <1>2
<1>4. Cardinality({}) = 0
  BY FS_EmptySet
<1> QED BY <1>3, <1>4

LEMMA ShowsStep ==
  ASSUME Kinds, Turn(windows, queued, repoOf),
         NEW c, NEW rep \in Repo \cup {None}, NEW s \in Settings,
         Home(c, KeyOf(rep), repoOf), Shows(c, rep, s)
  PROVE  /\ Home(centre', KeyOf(rep), repoOf') /\ Turn(windows', queued', repoOf')
         /\ c.unread = Unread(c) => centre'.unread = Unread(centre')
         /\ DOMAIN repoOf' \subseteq Note /\ repoOf' \in [DOMAIN repoOf' -> Repo \cup {None}]
         /\ DOMAIN repoOf \subseteq DOMAIN repoOf'
         /\ \A n \in DOMAIN repoOf : repoOf'[n] = repoOf[n]
         /\ \A n \in DOMAIN repoOf' \ DOMAIN repoOf : repoOf'[n] = rep /\ n \in centre'.history
         /\ c.history \subseteq centre'.history
<1>1. New \in Note \ DOMAIN repoOf
  BY DEF Shows, New, Fresh
<1> DEFINE n == New
<1>2. /\ DOMAIN repoOf' = DOMAIN repoOf \cup {n} /\ repoOf'[n] = rep
      /\ \A m \in DOMAIN repoOf : repoOf'[m] = repoOf[m]
  BY <1>1 DEF Shows
<1>3. repoOf' \in [DOMAIN repoOf' -> Repo \cup {None}] /\ DOMAIN repoOf' \subseteq Note
  BY <1>1, <1>2 DEF Shows, Kinds
<1>4. centre' = Counted(c, n) /\ Placed(n, s)
  BY DEF Shows
<1> HIDE DEF n
<1>5. c \in Centre /\ c.read \subseteq c.history /\ n \notin c.history /\ n \in Note
  BY <1>1 DEF Home, n
<1>6. /\ centre' \in Centre /\ centre'.history = c.history \cup {n}
      /\ centre'.read \subseteq centre'.history
      /\ c.unread <= Unread(c) => centre'.unread <= Unread(centre')
      /\ c.unread = Unread(c) => centre'.unread = Unread(centre')
  BY <1>4, <1>5, CountedType
<1>7. Home(centre', KeyOf(rep), repoOf')
  BY <1>2, <1>6 DEF Home
<1>8. Turn(windows', queued', repoOf')
  <2>1. CASE ~s.realtime
    BY <1>2, <1>4, <2>1 DEF Placed, Turn
  <2>2. CASE s.realtime /\ Cardinality(windows) >= s.limit
    <3>1. queued' = Append(queued, n) /\ windows' = windows
      BY <1>4, <2>2 DEF Placed
    <3>2. windows # {}
      BY <2>2, FullScreen
    <3>3. /\ queued' \in Seq(Note) /\ DOMAIN queued = 1..Len(queued) /\ Len(queued) \in Nat
          /\ DOMAIN queued' = 1..(Len(queued) + 1)
      BY <1>5, <3>1 DEF Turn
    <3>4. queued'[Len(queued) + 1] = n /\ \A i \in DOMAIN queued : queued'[i] = queued[i]
      BY <3>1, <3>3 DEF Turn
    <3>5. \A i \in DOMAIN queued' : i \in DOMAIN queued \/ i = Len(queued) + 1
      BY <3>3
    <3>6. \A i \in DOMAIN queued : queued[i] \in DOMAIN repoOf \ windows /\ queued[i] # n
      BY <1>1 DEF Turn, n
    <3>7. n \notin windows
      BY <1>1 DEF Turn, n
    <3>8. \A i \in DOMAIN queued' : queued'[i] \in DOMAIN repoOf' \ windows'
      BY <1>2, <3>1, <3>4, <3>5, <3>6, <3>7
    <3>9. \A i, j \in DOMAIN queued' : queued'[i] = queued'[j] => i = j
      BY <3>4, <3>5, <3>6 DEF Turn
    <3> QED BY <1>2, <3>1, <3>2, <3>3, <3>8, <3>9 DEF Turn
  <2>3. CASE s.realtime /\ ~(Cardinality(windows) >= s.limit)
    <3>1. windows' = windows \cup {n} /\ queued' = queued
      BY <1>4, <2>3 DEF Placed
    <3>2. \A i \in DOMAIN queued : queued[i] # n
      BY <1>1 DEF Turn, n
    <3> QED BY <1>2, <3>1, <3>2 DEF Turn
  <2> QED BY <2>1, <2>2, <2>3
<1> QED BY <1>2, <1>3, <1>6, <1>7, <1>8

LEMMA QueuedStep ==
  ASSUME Turn(windows, queued, repoOf), settings \in Settings,
         NEW n \in windows, ShowNextQueued(windows \ {n})
  PROVE  Turn(windows', queued', repoOf) /\ n \notin windows'
<1> DEFINE rest == windows \ {n}
<1>1. CASE queued = <<>>
  <2>1. windows' = rest /\ queued' = queued
    BY <1>1 DEF ShowNextQueued
  <2> QED BY <1>1, <2>1 DEF Turn
<1>2. CASE queued # <<>> /\ Cardinality(rest) >= settings.limit
  <2>1. windows' = rest /\ queued' = queued
    BY <1>2 DEF ShowNextQueued
  <2>2. rest # {}
    BY <1>2, FullScreen
  <2> QED BY <2>1, <2>2 DEF Turn
<1>3. CASE queued # <<>> /\ ~(Cardinality(rest) >= settings.limit)
  <2> DEFINE h == Head(queued)
  <2>1. windows' = rest \cup {h} /\ queued' = Tail(queued)
    BY <1>3 DEF ShowNextQueued
  <2>2. queued \in Seq(Note)
    BY DEF Turn
  <2>3. /\ h = queued[1] /\ 1 \in DOMAIN queued /\ DOMAIN queued = 1..Len(queued)
        /\ Len(queued) \in Nat /\ queued' \in Seq(Note)
        /\ DOMAIN queued' = 1..(Len(queued) - 1)
    BY <1>3, <2>1, <2>2, HeadTailProperties
  <2>4. \A i \in DOMAIN queued' : i + 1 \in DOMAIN queued /\ queued'[i] = queued[i + 1] /\ i + 1 # 1
    BY <1>3, <2>1, <2>2, <2>3, HeadTailProperties
  <2> HIDE DEF h
  <2>5. h \in DOMAIN repoOf \ windows
    BY <2>3 DEF Turn
  <2>6. \A i \in DOMAIN queued' : queued'[i] \in DOMAIN repoOf \ windows /\ queued'[i] # h
    BY <2>3, <2>4 DEF Turn
  <2>7. \A i, j \in DOMAIN queued' : queued'[i] = queued'[j] => i = j
    <3> TAKE i, j \in DOMAIN queued'
    <3>1. queued'[i] = queued'[j] => i + 1 = j + 1
      BY <2>4 DEF Turn
    <3>2. i \in Int /\ j \in Int
      BY <2>3
    <3> QED BY <3>1, <3>2
  <2>8. windows' \subseteq DOMAIN repoOf /\ windows' # {} /\ n \notin windows'
    BY <2>1, <2>5 DEF Turn
  <2>9. \A i \in DOMAIN queued' : queued'[i] \in DOMAIN repoOf \ windows'
    BY <2>1, <2>6
  <2> QED BY <2>3, <2>7, <2>8, <2>9 DEF Turn
<1> QED BY <1>1, <1>2, <1>3

-----------------------------------------------------------------------------
(* The steps. *)

Drift == (windows \ windows') \cap centre.read # {}

\* The lists in the files after a write are the one written and the others.
LEMMA InStepWritten ==
  ASSUME InStep, NEW content, NEW outcome \in Outcome,
         \A c \in content : c.unread = Unread(c),
         NEW k, NEW j \in DOMAIN Write(disk, k, content, outcome),
         NEW c \in Write(disk, k, content, outcome)[j]
  PROVE  c.unread = Unread(c)
<1>1. CASE outcome # "unopened"
  <2>1. DOMAIN Write(disk, k, content, outcome) = DOMAIN disk \cup {k}
    BY <1>1 DEF Write
  <2>2. \/ j = k /\ c \in content
        \/ j \in DOMAIN disk /\ c \in disk[j]
    BY <1>1, <2>1 DEF Write
  <2> QED BY <2>2 DEF InStep, Lists
<1>2. CASE outcome = "unopened"
  BY <1>2 DEF Write, InStep, Lists
<1> QED BY <1>1, <1>2

LEMMA InitInv == Init => IInv
<1> SUFFICES ASSUME Init PROVE IInv
  OBVIOUS
<1>1. Kinds
  BY LimitAssumption DEF Init, Kinds, KeyOf, Settings, FirstSettings
<1>2. Emptied
  BY DEF Init, Emptied
<1>3. Home(centre, key, repoOf)
  BY NoNotesHome DEF Init
<1>4. Filed(disk, repoOf) /\ Safe(centre, key, disk, repoOf, cleared, exposed)
  BY DEF Init, Filed, Safe
<1>5. Turn(windows, queued, repoOf)
  BY DEF Init, Turn
<1> QED BY <1>1, <1>2, <1>3, <1>4, <1>5 DEF IInv

\* A note is shown while the files and the repository selected stay.
LEMMA ShownStep ==
  ASSUME IInv, NEW s \in Settings, Shows(centre, selected, s),
         selected' = selected, key' = key, settings' \in Settings, disk' = disk, Emptied',
         cleared' = cleared, exposed' = exposed
  PROVE  IInv' /\ (InStep => InStep')
<1>1. /\ Home(centre', key, repoOf') /\ Turn(windows', queued', repoOf')
      /\ centre.unread = Unread(centre) => centre'.unread = Unread(centre')
      /\ DOMAIN repoOf' \subseteq Note /\ repoOf' \in [DOMAIN repoOf' -> Repo \cup {None}]
      /\ DOMAIN repoOf \subseteq DOMAIN repoOf'
      /\ \A n \in DOMAIN repoOf : repoOf'[n] = repoOf[n]
      /\ \A n \in DOMAIN repoOf' \ DOMAIN repoOf : KeyOf(repoOf'[n]) = key /\ n \in centre'.history
      /\ centre.history \subseteq centre'.history
  BY ShowsStep DEF IInv, Kinds
<1>2. Kinds'
  BY <1>1 DEF IInv, Kinds
<1>3. Filed(disk, repoOf')
  BY <1>1, FiledKept DEF IInv
<1>4. Safe(centre', key, disk, repoOf', cleared, exposed)
  BY <1>1 DEF IInv, Safe
<1>5. IInv'
  BY <1>1, <1>2, <1>3, <1>4 DEF IInv
<1>6. InStep => InStep'
  BY <1>1 DEF InStep, Lists
<1> QED BY <1>5, <1>6

LEMMA ShowStep == IInv /\ Show => IInv' /\ (InStep => InStep')
<1> SUFFICES ASSUME IInv, Show PROVE IInv' /\ (InStep => InStep')
  OBVIOUS
<1>1. Emptied'
  BY DEF Show, place, files, IInv, Emptied
<1>2. /\ settings \in Settings /\ Shows(centre, selected, settings) /\ selected' = selected /\ key' = key /\ settings' = settings
      /\ disk' = disk /\ cleared' = cleared /\ exposed' = exposed
  BY DEF Show, place, files, IInv, Kinds
<1> QED BY <1>1, <1>2, ShownStep

LEMMA ApplyStep ==
  ASSUME IInv, NEW s \in Settings, Apply(s)
  PROVE  IInv' /\ (InStep => InStep')
<1>1. Emptied'
  <2>1. io' = [name |-> Config, content |-> {}]
    BY DEF Apply
  <2> QED BY <2>1 DEF Emptied
<1>2. /\ Shows(centre, selected, s) /\ selected' = selected /\ key' = key /\ settings' = s
      /\ disk' = disk /\ cleared' = cleared /\ exposed' = exposed
  BY DEF Apply, place
<1> QED BY <1>1, <1>2, ShownStep

\* The list in memory changes, and is saved or not; no note leaves it.
LEMMA SavedStep ==
  ASSUME IInv, NEW c, NEW outcome \in Outcome, centre' = c,
         Home(c, key, repoOf), c.history = centre.history,
         Saves(c, outcome) \/ UNCHANGED <<disk, io, exposed>>,
         Turn(windows', queued', repoOf),
         UNCHANGED <<selected, key, settings, repoOf, cleared>>
  PROVE  /\ IInv'
         /\ InStep /\ c.unread = Unread(c) => InStep'
<1>1. CASE Saves(c, outcome)
  <2>1. /\ disk' = Write(disk, key, {c}, outcome) /\ io' = [SetFileName(io, key) EXCEPT !.content = {c}]
        /\ exposed' = exposed \cup (IF outcome = "written" THEN {} ELSE {key})
    BY <1>1 DEF Saves, Exposes
  <2>2. /\ Filed(disk', repoOf) /\ DOMAIN disk' \subseteq DOMAIN disk \cup {key}
        /\ \A j \in DOMAIN disk \ {key} : j \in DOMAIN disk' /\ disk'[j] = disk[j]
    BY <2>1, WriteFiled DEF IInv
  <2>3. Kinds'
    BY <2>1, <2>2, KeyKind DEF IInv, Kinds
  <2>4. Emptied'
    <3>1. SetFileName(io, key).name = key /\ SetFileName(io, key) \in [name : Key \cup {Config, "unset"}, content : SUBSET Centre]
      BY KeyKind DEF SetFileName, IInv, Emptied, Kinds
    <3>2. io'.name = key /\ io' \in [name : Key \cup {Config, "unset"}, content : SUBSET Centre]
      BY <2>1, <3>1 DEF Home
    <3> QED BY <3>2 DEF Emptied
  <2>5. Safe(c, key, disk', repoOf, cleared, exposed')
    BY <2>1, <2>2 DEF IInv, Safe
  <2>6. IInv'
    BY <2>2, <2>3, <2>4, <2>5 DEF IInv
  <2>7. InStep /\ c.unread = Unread(c) => InStep'
    <3> SUFFICES ASSUME InStep, c.unread = Unread(c) PROVE InStep'
      OBVIOUS
    <3>1. \A j \in DOMAIN disk' : \A e \in disk'[j] : e.unread = Unread(e)
      BY <2>1, InStepWritten
    <3> QED BY <3>1 DEF InStep, Lists
  <2> QED BY <2>6, <2>7
<1>2. CASE UNCHANGED <<disk, io, exposed>>
  <2>1. Kinds' /\ Emptied'
    BY <1>2 DEF IInv, Kinds, Emptied
  <2>2. Safe(c, key, disk, repoOf, cleared, exposed)
    BY DEF IInv, Safe
  <2>3. IInv'
    BY <1>2, <2>1, <2>2 DEF IInv
  <2>4. InStep /\ c.unread = Unread(c) => InStep'
    BY <1>2 DEF InStep, Lists
  <2> QED BY <2>3, <2>4
<1> QED BY <1>1, <1>2

LEMMA ClosedStep ==
  ASSUME IInv, NEW n \in Note, NEW outcome \in Outcome, OnNotificationClosed(n, outcome)
  PROVE  IInv' /\ (InStep => InStep' \/ Drift)
<1> DEFINE c == ClosedIn(centre, n)
<1>1. /\ n \in windows /\ centre' = c /\ ShowNextQueued(windows \ {n})
      /\ UNCHANGED <<selected, key, settings, repoOf, cleared>>
      /\ Saves(c, outcome) \/ UNCHANGED <<disk, io, exposed>>
  BY DEF OnNotificationClosed, place
<1>2. centre \in Centre /\ centre.read \subseteq centre.history
  BY DEF IInv, Home
<1>3. /\ c \in Centre /\ c.history = centre.history /\ c.read \subseteq c.history
      /\ centre.unread <= Unread(centre) => c.unread <= Unread(c)
      /\ centre.unread = Unread(centre) /\ n \notin centre.read => c.unread = Unread(c)
  BY <1>2, ClosedType
<1> HIDE DEF c
<1>4. Home(c, key, repoOf)
  BY <1>3 DEF IInv, Home
<1>5. Turn(windows', queued', repoOf) /\ n \notin windows'
  BY <1>1, QueuedStep DEF IInv, Kinds
<1>6. IInv' /\ (InStep /\ c.unread = Unread(c) => InStep')
  BY <1>1, <1>3, <1>4, <1>5, SavedStep
<1>7. InStep /\ n \notin centre.read => InStep'
  BY <1>3, <1>6 DEF InStep, Lists
<1>8. n \in centre.read => Drift
  BY <1>1, <1>5 DEF Drift
<1> QED BY <1>6, <1>7, <1>8

LEMMA ClearAllStep ==
  ASSUME IInv, NEW outcome \in Outcome, ClearAllNotifications(outcome)
  PROVE  IInv' /\ (InStep => InStep' \/ Drift)
<1> DEFINE c == AllClosedIn(centre)
<1>1. /\ centre' = c /\ windows' = {} /\ queued' = <<>>
      /\ UNCHANGED <<selected, key, settings, repoOf, cleared>>
      /\ Saves(c, outcome) \/ UNCHANGED <<disk, io, exposed>>
  BY DEF ClearAllNotifications, place
<1>2. centre \in Centre /\ centre.read \subseteq centre.history
  BY DEF IInv, Home
<1>3. /\ c \in Centre /\ c.history = centre.history /\ c.read \subseteq c.history
      /\ centre.unread <= Unread(centre) => c.unread <= Unread(c)
      /\ centre.unread = Unread(centre) /\ windows \cap centre.read = {} => c.unread = Unread(c)
  BY <1>2, AllClosedType
<1> HIDE DEF c
<1>4. Home(c, key, repoOf)
  BY <1>3 DEF IInv, Home
<1>5. Turn(windows', queued', repoOf)
  BY <1>1 DEF Turn
<1>6. IInv' /\ (InStep /\ c.unread = Unread(c) => InStep')
  BY <1>1, <1>3, <1>4, <1>5, SavedStep
<1>7. InStep /\ windows \cap centre.read = {} => InStep'
  BY <1>3, <1>6 DEF InStep, Lists
<1>8. windows \cap centre.read # {} => Drift
  BY <1>1 DEF Drift
<1> QED BY <1>6, <1>7, <1>8

LEMMA MarkStep == IInv /\ MarkAllAsRead => IInv' /\ (InStep => InStep')
<1> SUFFICES ASSUME IInv, MarkAllAsRead PROVE IInv' /\ (InStep => InStep')
  OBVIOUS
<1> DEFINE c == [centre EXCEPT !.read = centre.history, !.unread = 0]
<1>1. centre \in Centre /\ centre.history \in SUBSET Note
  BY Fields DEF IInv, Home
<1>2. c \in Centre /\ c = [history |-> centre.history, read |-> centre.history, unread |-> 0]
  BY <1>1, Changed
<1>3. centre' = c /\ UNCHANGED <<selected, key, windows, queued, settings, repoOf, disk, io, cleared, exposed>>
  BY DEF MarkAllAsRead, place, files
<1> HIDE DEF c
<1>4. c.history = centre.history /\ c.read = centre.history /\ c.unread = 0 /\ Unread(c) = 0
  <2>1. c.history \ c.read = {} /\ Cardinality({}) = 0
    BY <1>2, FS_EmptySet
  <2> QED BY <1>2, <2>1 DEF Unread
<1>5. Home(c, key, repoOf)
  BY <1>2, <1>4 DEF IInv, Home
<1>6. Turn(windows', queued', repoOf)
  BY <1>3 DEF IInv
<1>7. "written" \in Outcome
  BY DEF Outcome
<1> QED BY <1>3, <1>4, <1>5, <1>6, <1>7, SavedStep

LEMMA ClearStep == IInv /\ ClearHistory => IInv' /\ (InStep => InStep')
<1> SUFFICES ASSUME IInv, ClearHistory PROVE IInv' /\ (InStep => InStep')
  OBVIOUS
<1>1. /\ centre' = NoNotes /\ cleared' = cleared \cup centre.history
      /\ UNCHANGED <<selected, key, windows, queued, settings, repoOf, disk, io, exposed>>
  BY DEF ClearHistory, place, files
<1>2. Home(NoNotes, key, repoOf) /\ NoNotes.unread = Unread(NoNotes)
  BY NoNotesHome
<1>3. centre.history \subseteq Note
  BY DEF IInv, Home, Kinds
<1>4. Kinds' /\ Emptied'
  BY <1>1, <1>3 DEF IInv, Kinds, Emptied
<1>5. Safe(NoNotes, key, disk, repoOf, cleared', exposed)
  BY <1>1 DEF IInv, Safe
<1>6. IInv'
  BY <1>1, <1>2, <1>4, <1>5 DEF IInv
<1>7. InStep => InStep'
  BY <1>1, <1>2 DEF InStep, Lists
<1> QED BY <1>6, <1>7

\* selectRepository reports: the list c is that of the repository by then, the
\* files d and the keys at risk are what they will be.
LEMMA ReportsStep ==
  ASSUME IInv, NEW rep \in Repo, NEW c, NEW d, NEW risk, Reports(c, rep),
         Home(c, KeyOf(rep), repoOf), Filed(d, repoOf), DOMAIN d \subseteq Key,
         Safe(c, KeyOf(rep), d, repoOf, cleared, risk), risk \subseteq Key,
         InStep => /\ c.unread = Unread(c)
                   /\ \A j \in DOMAIN d : \A e \in d[j] : e.unread = Unread(e),
         selected' = rep, key' = KeyOf(rep), disk' = d, exposed' = risk,
         io' = [name |-> Config, content |-> {}],
         UNCHANGED <<settings, cleared>>
  PROVE  IInv' /\ (InStep => InStep')
<1>1. Kinds /\ Turn(windows, queued, repoOf) /\ settings \in Settings
  BY DEF IInv, Kinds
<1>2. Emptied'
  BY DEF Emptied
<1>3. KeyOf(rep) \in Key /\ rep \in Repo \cup {None}
  BY KeyType
<1>4. CASE centre' = c /\ UNCHANGED <<windows, queued, repoOf>>
  <2>1. Kinds'
    BY <1>1, <1>3, <1>4 DEF Kinds
  <2>2. IInv'
    BY <1>1, <1>2, <1>4, <2>1 DEF IInv
  <2>3. InStep => InStep'
    BY <1>4 DEF InStep, Lists
  <2> QED BY <2>2, <2>3
<1>5. CASE Shows(c, rep, settings)
  <2>1. /\ Home(centre', KeyOf(rep), repoOf') /\ Turn(windows', queued', repoOf')
        /\ c.unread = Unread(c) => centre'.unread = Unread(centre')
        /\ DOMAIN repoOf' \subseteq Note /\ repoOf' \in [DOMAIN repoOf' -> Repo \cup {None}]
        /\ DOMAIN repoOf \subseteq DOMAIN repoOf'
        /\ \A n \in DOMAIN repoOf : repoOf'[n] = repoOf[n]
        /\ \A n \in DOMAIN repoOf' \ DOMAIN repoOf : repoOf'[n] = rep /\ n \in centre'.history
        /\ c.history \subseteq centre'.history
    BY <1>1, <1>3, <1>5, ShowsStep
  <2>2. Kinds'
    BY <1>1, <1>3, <2>1 DEF Kinds
  <2>3. Filed(d, repoOf')
    BY <2>1, FiledKept
  <2>4. Safe(centre', KeyOf(rep), d, repoOf', cleared, risk)
    BY <2>1 DEF Safe
  <2>5. IInv'
    BY <1>2, <2>1, <2>2, <2>3, <2>4 DEF IInv
  <2>6. InStep => InStep'
    BY <2>1 DEF InStep, Lists
  <2> QED BY <2>5, <2>6
<1> QED BY <1>4, <1>5 DEF Reports

\* The list is saved under the key that was, and that of k is read.
LEMMA ChangedKeyStep ==
  ASSUME IInv, NEW k \in Key, k # key, NEW outcome \in Outcome, NEW readable \in BOOLEAN
  PROVE  LET saved == Saved(outcome)
             loaded == Loaded(k, saved, readable)
             risk == exposed \cup Missed(k, saved, outcome, readable)
         IN  /\ Home(loaded, k, repoOf) /\ Filed(saved, repoOf) /\ DOMAIN saved \subseteq Key
             /\ Safe(loaded, k, saved, repoOf, cleared, risk) /\ risk \subseteq Key
             /\ InStep => /\ loaded.unread = Unread(loaded)
                          /\ \A j \in DOMAIN saved : \A e \in saved[j] : e.unread = Unread(e)
<1> DEFINE saved == Saved(outcome)
           there == Read(SetFileName(SavedIO, k), saved, readable).content
           loaded == IF k \in DOMAIN saved THEN Parsed(there) ELSE NoNotes
           risk == exposed \cup ((IF outcome = "written" \/ centre.history = {} THEN {} ELSE {key})
                                  \cup (IF readable \/ k \notin DOMAIN saved THEN {} ELSE {k}))
<1>1. /\ Loaded(k, Saved(outcome), readable) = loaded
      /\ exposed \cup Missed(k, Saved(outcome), outcome, readable) = risk
  BY DEF Loaded, Missed
<1>2. /\ Filed(saved, repoOf) /\ DOMAIN saved \subseteq DOMAIN disk \cup {key}
      /\ \A j \in DOMAIN disk \ {key} : j \in DOMAIN saved /\ saved[j] = disk[j]
      /\ outcome = "written" /\ centre.history # {} => key \in DOMAIN saved /\ saved[key] = {centre}
  <2>1. Filed(disk, repoOf) /\ \A c \in {centre} : Home(c, key, repoOf)
    BY DEF IInv
  <2>2. CASE centre.history = {}
    BY <2>1, <2>2 DEF Saved
  <2>3. CASE centre.history # {}
    <3>1. saved = Write(disk, key, {centre}, outcome)
      BY <2>3 DEF Saved
    <3>2. \A c, e \in {centre} : c = e
      OBVIOUS
    <3> HIDE DEF saved
    <3> QED BY <2>1, <3>1, <3>2, WriteFiled
  <2> QED BY <2>2, <2>3
<1>3. k \in DOMAIN saved => there \in {saved[k], {}} /\ (readable => there = saved[k])
  <2>1. SetFileName(SavedIO, k) = [name |-> k, content |-> {}]
    <3>1. CASE centre.history = {}
      <4>1. SavedIO = io
        BY <3>1 DEF SavedIO
      <4>2. io.name = k => io = [name |-> k, content |-> {}]
        BY <1>1 DEF IInv, Emptied
      <4> QED BY <4>1, <4>2 DEF SetFileName
    <3>2. CASE centre.history # {}
      <4>1. SetFileName(io, key) \in [name : Key \cup {Config, "unset"}, content : SUBSET Centre]
            /\ SetFileName(io, key).name = key
        BY KeyKind DEF SetFileName, IInv, Emptied, Kinds
      <4>2. SavedIO.name = key
        BY <3>2, <4>1 DEF SavedIO
      <4> QED BY <1>1, <4>2 DEF SetFileName
    <3> QED BY <3>1, <3>2
  <2> HIDE DEF saved
  <2>2. Read([name |-> k, content |-> {}], saved, readable).content = IF readable THEN saved[k] ELSE {}
    BY DEF Read
  <2> QED BY <2>1, <2>2
<1> HIDE DEF saved, there
<1>4. \A c \in there : k \in DOMAIN saved => Home(c, k, repoOf)
  BY <1>2, <1>3 DEF Filed
<1>5. Home(loaded, k, repoOf)
  <2>1. CASE k \in DOMAIN saved
    BY <1>4, <2>1, ParsedHome
  <2>2. CASE k \notin DOMAIN saved
    BY <2>2, NoNotesHome
  <2> QED BY <2>1, <2>2
<1>6. k \in DOMAIN saved /\ readable => \A e \in saved[k] : loaded = e
  <2> SUFFICES ASSUME k \in DOMAIN saved, readable, NEW e \in saved[k] PROVE loaded = e
    OBVIOUS
  <2>1. there = saved[k] /\ loaded = Parsed(there)
    BY <1>3
  <2>2. Parsed(there) \in there
    BY <2>1 DEF Parsed
  <2> QED BY <1>2, <2>1, <2>2 DEF Filed
<1>7. k \in DOMAIN saved => loaded \in saved[k] \/ loaded = NoNotes
  BY <1>3, <1>4, ParsedHome
<1> HIDE DEF loaded
<1>8. Safe(loaded, k, saved, repoOf, cleared, risk)
  <2> SUFFICES ASSUME NEW n \in DOMAIN repoOf \ cleared,
                      NEW home, home = KeyOf(repoOf[n]), home \notin risk
               PROVE  IF home = k THEN n \in loaded.history
                      ELSE home \in DOMAIN saved /\ \E e \in saved[home] : n \in e.history
    BY DEF Safe
  <2>1. /\ home \notin exposed
        /\ IF home = key THEN n \in centre.history
           ELSE home \in DOMAIN disk /\ \E e \in disk[home] : n \in e.history
    BY DEF IInv, Safe
  <2>2. CASE home = key
    <3>1. n \in centre.history
      BY <2>1, <2>2
    <3>2. outcome = "written"
      BY <2>2, <3>1
    <3>3. key \in DOMAIN saved /\ saved[key] = {centre}
      BY <1>2, <3>1, <3>2
    <3> QED BY <2>2, <3>1, <3>3
  <2>3. CASE home # key
    <3>1. home \in DOMAIN saved /\ \E e \in saved[home] : n \in e.history
      BY <1>2, <2>1, <2>3
    <3>2. home = k => n \in loaded.history
      BY <1>6, <3>1
    <3> QED BY <3>1, <3>2
  <2> QED BY <2>2, <2>3
<1>9. InStep => /\ loaded.unread = Unread(loaded)
                 /\ \A j \in DOMAIN saved : \A c \in saved[j] : c.unread = Unread(c)
  <2> SUFFICES ASSUME InStep
               PROVE  /\ loaded.unread = Unread(loaded)
                      /\ \A j \in DOMAIN saved : \A c \in saved[j] : c.unread = Unread(c)
    OBVIOUS
  <2>1. \A j \in DOMAIN saved : \A c \in saved[j] : c.unread = Unread(c)
    <3>1. \A c \in {centre} : c.unread = Unread(c)
      BY DEF InStep, Lists
    <3>2. saved = disk \/ saved = Write(disk, key, {centre}, outcome)
      BY DEF saved, Saved
    <3>3. CASE saved = disk
      BY <3>3 DEF InStep, Lists
    <3>4. CASE saved = Write(disk, key, {centre}, outcome)
      BY <3>1, <3>4, InStepWritten
    <3> QED BY <3>2, <3>3, <3>4
  <2>2. k \notin DOMAIN saved => loaded = NoNotes
    BY DEF loaded
  <2>3. loaded.unread = Unread(loaded)
    BY <1>7, <2>1, <2>2, NoNotesHome
  <2> QED BY <2>1, <2>3
<1>10. risk \subseteq Key /\ DOMAIN saved \subseteq Key
  BY <1>2, KeyKind DEF IInv, Kinds
<1> QED BY <1>1, <1>2, <1>5, <1>8, <1>9, <1>10 DEF saved

LEMMA SelectStep ==
  ASSUME IInv, NEW rep \in Repo, NEW outcome \in Outcome, NEW readable \in BOOLEAN,
         SelectRepository(rep, outcome, readable)
  PROVE  IInv' /\ (InStep => InStep')
<1> DEFINE k == NameOf[rep]
<1>1. /\ selected' = rep /\ key' = k /\ io' = [name |-> Config, content |-> {}]
      /\ UNCHANGED <<settings, cleared>>
  BY DEF SelectRepository
<1>2. KeyOf(rep) = k /\ k \in Key
  BY KeyType
<1>3. CASE k = key /\ Reports(centre, rep) /\ UNCHANGED <<disk, exposed>>
  <2>1. /\ Home(centre, KeyOf(rep), repoOf) /\ Filed(disk, repoOf) /\ DOMAIN disk \subseteq Key
        /\ Safe(centre, KeyOf(rep), disk, repoOf, cleared, exposed) /\ exposed \subseteq Key
    BY <1>2, <1>3 DEF IInv, Kinds
  <2>2. InStep => /\ centre.unread = Unread(centre)
                  /\ \A j \in DOMAIN disk : \A e \in disk[j] : e.unread = Unread(e)
    BY DEF InStep, Lists
  <2> HIDE DEF k
  <2> QED BY <1>1, <1>2, <1>3, <2>1, <2>2, ReportsStep
<1>4. CASE /\ k # key
           /\ disk' = Saved(outcome)
           /\ Exposes(Missed(k, disk', outcome, readable))
           /\ Reports(Loaded(k, disk', readable), rep)
  <2> DEFINE saved == Saved(outcome)
             loaded == Loaded(k, saved, readable)
             risk == exposed \cup Missed(k, saved, outcome, readable)
  <2>1. /\ Home(loaded, k, repoOf) /\ Filed(saved, repoOf) /\ DOMAIN saved \subseteq Key
        /\ Safe(loaded, k, saved, repoOf, cleared, risk) /\ risk \subseteq Key
        /\ InStep => /\ loaded.unread = Unread(loaded)
                     /\ \A j \in DOMAIN saved : \A e \in saved[j] : e.unread = Unread(e)
    BY <1>2, <1>4, ChangedKeyStep
  <2>2. disk' = saved /\ exposed' = risk /\ Reports(loaded, rep)
    BY <1>4 DEF Exposes
  <2> HIDE DEF k, saved, loaded, risk
  <2> QED BY <1>1, <1>2, <2>1, <2>2, ReportsStep
<1> QED BY <1>3, <1>4 DEF SelectRepository

\* The next start finds every note that the files hold.
LEMMA RestartedStep ==
  ASSUME IInv, NEW d, Restarted(d), Filed(d, repoOf), DOMAIN d \subseteq Key,
         \A j \in DOMAIN disk \ {key} : j \in DOMAIN d /\ d[j] = disk[j],
         exposed \subseteq exposed', exposed' \subseteq Key,
         key \notin exposed' =>
           key \in DOMAIN d /\ \E e \in d[key] : centre.history \subseteq e.history,
         settings' \in Settings
  PROVE  /\ IInv'
         /\ (\A j \in DOMAIN d : \A c \in d[j] : c.unread = Unread(c)) => InStep'
<1> DEFINE loaded == IF None \in DOMAIN d THEN Parsed(d[None]) ELSE NoNotes
<1>1. /\ selected' = None /\ key' = None /\ centre' = loaded /\ windows' = {} /\ queued' = <<>> /\ disk' = d
      /\ io' \in [name : {Config} \cup ({None} \cap DOMAIN d), content : {{}}]
      /\ UNCHANGED <<repoOf, cleared>>
  BY DEF Restarted
<1>2. Home(loaded, None, repoOf) /\ (loaded = NoNotes \/ (None \in DOMAIN d /\ loaded \in d[None]))
  <2>1. CASE None \in DOMAIN d
    BY <2>1, ParsedHome DEF Filed
  <2>2. CASE None \notin DOMAIN d
    BY <2>2, NoNotesHome
  <2> QED BY <2>1, <2>2
<1>3. None \in DOMAIN d => \A e \in d[None] : loaded = e
  <2> SUFFICES ASSUME None \in DOMAIN d, NEW e \in d[None] PROVE loaded = e
    OBVIOUS
  <2>1. loaded \in d[None]
    BY DEF Parsed
  <2> QED BY <2>1 DEF Filed
<1> HIDE DEF loaded
<1>4. Kinds'
  BY <1>1 DEF IInv, Kinds, KeyOf
<1>5. Emptied'
  BY <1>1 DEF Emptied, Key
<1>6. Safe(loaded, None, d, repoOf, cleared, exposed')
  <2> SUFFICES ASSUME NEW n \in DOMAIN repoOf \ cleared,
                      NEW home, home = KeyOf(repoOf[n]), home \notin exposed'
               PROVE  IF home = None THEN n \in loaded.history
                      ELSE home \in DOMAIN d /\ \E e \in d[home] : n \in e.history
    BY DEF Safe
  <2>1. home \notin exposed
    OBVIOUS
  <2>2. home \in DOMAIN d /\ \E e \in d[home] : n \in e.history
    BY <2>1 DEF IInv, Safe
  <2> QED BY <1>3, <2>2
<1>7. Turn({}, <<>>, repoOf)
  BY DEF Turn
<1>8. IInv'
  BY <1>1, <1>2, <1>4, <1>5, <1>6, <1>7 DEF IInv
<1>9. (\A j \in DOMAIN d : \A c \in d[j] : c.unread = Unread(c)) => InStep'
  BY <1>1, <1>2, NoNotesHome DEF InStep, Lists
<1> QED BY <1>8, <1>9

LEMMA ShutdownStep ==
  ASSUME IInv, NEW outcome \in Outcome, Shutdown(outcome)
  PROVE  IInv' /\ (InStep => InStep' \/ Drift)
<1> DEFINE c == AllClosedIn(centre)
           d == Write(disk, key, {c}, outcome)
<1>1. /\ Restarted(d) /\ settings' = settings
      /\ exposed' = exposed \cup (IF outcome = "written" THEN {} ELSE {key})
  BY DEF Shutdown, Exposes
<1>2. centre \in Centre /\ centre.read \subseteq centre.history
  BY DEF IInv, Home
<1>3. /\ c \in Centre /\ c.history = centre.history /\ c.read \subseteq c.history
      /\ centre.unread <= Unread(centre) => c.unread <= Unread(c)
      /\ centre.unread = Unread(centre) /\ windows \cap centre.read = {} => c.unread = Unread(c)
  BY <1>2, AllClosedType
<1> HIDE DEF c
<1>4. Home(c, key, repoOf)
  BY <1>3 DEF IInv, Home
<1>5. /\ Filed(d, repoOf) /\ DOMAIN d \subseteq DOMAIN disk \cup {key}
      /\ \A j \in DOMAIN disk \ {key} : j \in DOMAIN d /\ d[j] = disk[j]
      /\ outcome = "written" => key \in DOMAIN d /\ d[key] = {c}
  <2>1. Filed(disk, repoOf) /\ \A e \in {c} : Home(e, key, repoOf)
    BY <1>4 DEF IInv
  <2>2. \A e, f \in {c} : e = f
    OBVIOUS
  <2>3. d = Write(disk, key, {c}, outcome)
    OBVIOUS
  <2> HIDE DEF d
  <2> QED BY <2>1, <2>2, <2>3, WriteFiled
<1>6. InStep /\ c.unread = Unread(c) => \A j \in DOMAIN d : \A e \in d[j] : e.unread = Unread(e)
  BY InStepWritten
<1> HIDE DEF d
<1>7. /\ DOMAIN d \subseteq Key /\ exposed \subseteq exposed' /\ exposed' \subseteq Key /\ settings' \in Settings
      /\ key \notin exposed' =>
           key \in DOMAIN d /\ \E e \in d[key] : centre.history \subseteq e.history
  BY <1>1, <1>3, <1>5, KeyKind DEF IInv, Kinds
<1>8. /\ IInv'
      /\ (\A j \in DOMAIN d : \A e \in d[j] : e.unread = Unread(e)) => InStep'
  BY <1>1, <1>5, <1>7, RestartedStep
<1>9. windows \cap centre.read # {} => Drift
  BY <1>1 DEF Restarted, Drift
<1>10. InStep /\ windows \cap centre.read = {} => InStep'
  BY <1>3, <1>6, <1>8 DEF InStep, Lists
<1> QED BY <1>8, <1>9, <1>10

LEMMA CrashStep == IInv /\ Crash => IInv' /\ (InStep => InStep')
<1> SUFFICES ASSUME IInv, Crash PROVE IInv' /\ (InStep => InStep')
  OBVIOUS
<1>1. PICK d \in Leftovers : Restarted(d)
  BY DEF Crash
<1>2. settings' \in {settings, FirstSettings} /\ exposed' = exposed \cup {key}
  BY DEF Crash, Exposes
<1>3. FirstSettings \in Settings
  BY LimitAssumption DEF FirstSettings, Settings
<1>4. PICK outcome \in Outcome : d = Write(disk, key, {centre}, outcome)
  BY <1>1 DEF Leftovers
<1>5. /\ Filed(d, repoOf) /\ DOMAIN d \subseteq DOMAIN disk \cup {key}
      /\ \A j \in DOMAIN disk \ {key} : j \in DOMAIN d /\ d[j] = disk[j]
      /\ InStep => \A j \in DOMAIN d : \A e \in d[j] : e.unread = Unread(e)
  <2>1. /\ Filed(disk, repoOf) /\ \A e \in {centre} : Home(e, key, repoOf)
        /\ \A e, f \in {centre} : e = f
    BY DEF IInv
  <2>2. InStep => \A e \in {centre} : e.unread = Unread(e)
    BY DEF InStep, Lists
  <2>3. InStep => \A j \in DOMAIN d : \A e \in d[j] : e.unread = Unread(e)
    BY <1>4, <2>2, InStepWritten
  <2> DEFINE content == {centre}
  <2>4. /\ \A e \in content : Home(e, key, repoOf)
        /\ \A e, f \in content : e = f
        /\ d = Write(disk, key, content, outcome)
    BY <1>4, <2>1
  <2> HIDE DEF content
  <2>5. /\ Filed(d, repoOf) /\ DOMAIN d \subseteq DOMAIN disk \cup {key}
        /\ \A j \in DOMAIN disk \ {key} : j \in DOMAIN d /\ d[j] = disk[j]
    BY <2>1, <2>4, WriteFiled
  <2> QED BY <2>3, <2>5
<1>6. /\ DOMAIN d \subseteq Key /\ exposed' \subseteq Key /\ settings' \in Settings /\ key \in exposed'
  BY <1>2, <1>3, <1>5, KeyKind DEF IInv, Kinds
<1> QED BY <1>1, <1>2, <1>5, <1>6, RestartedStep

LEMMA StepInv == IInv /\ [Next]_vars => IInv' /\ (InStep => InStep' \/ Drift \/ vars' = vars)
<1> SUFFICES ASSUME IInv, [Next]_vars
             PROVE  IInv' /\ (InStep => InStep' \/ Drift \/ vars' = vars)
  OBVIOUS
<1>1. CASE Show
  BY <1>1, ShowStep
<1>2. CASE MarkAllAsRead
  BY <1>2, MarkStep
<1>3. CASE ClearHistory
  BY <1>3, ClearStep
<1>4. CASE Crash
  BY <1>4, CrashStep
<1>5. CASE \E n \in Note, outcome \in Outcome : OnNotificationClosed(n, outcome)
  BY <1>5, ClosedStep
<1>6. CASE \E outcome \in Outcome : ClearAllNotifications(outcome) \/ Shutdown(outcome)
  BY <1>6, ClearAllStep, ShutdownStep
<1>7. CASE \E r \in Repo, outcome \in Outcome, readable \in BOOLEAN :
             SelectRepository(r, outcome, readable)
  BY <1>7, SelectStep
<1>8. CASE \E s \in Settings : Apply(s)
  BY <1>8, ApplyStep
<1>9. CASE vars' = vars
  <2>1. UNCHANGED <<selected, key, centre, windows, queued, settings, repoOf, disk, io, cleared, exposed>>
    BY <1>9 DEF vars, place, memory, files
  <2>2. Kinds' /\ Emptied'
    BY <2>1 DEF IInv, Kinds, Emptied
  <2>3. IInv'
    BY <2>1, <2>2 DEF IInv
  <2> QED BY <1>9, <2>3
<1> QED BY <1>1, <1>2, <1>3, <1>4, <1>5, <1>6, <1>7, <1>8, <1>9 DEF Next

LEMMA Inductive == Spec => []IInv
<1>1. IInv /\ [Next]_vars => IInv'
  BY StepInv
<1> QED BY InitInv, <1>1, PTL DEF Spec

-----------------------------------------------------------------------------
(* The theorems. *)

\* In every repository, whatever the notes, the limits of the settings and the
\* faults, the badge announces no more notes than are unread, in memory and in
\* every file, and a note that showNextQueued has yet to show has a window
\* before it whose closing shows it.
THEOREM NotesSound == Spec => []NotesAreSound
<1>1. IInv => NotesAreSound
  <2> SUFFICES ASSUME IInv PROVE NotesAreSound
    OBVIOUS
  <2>1. NeverOverCounts
    BY DEF IInv, Filed, Home, NeverOverCounts, Lists
  <2>2. QueueHasTurn
    BY DEF IInv, Turn, QueueHasTurn
  <2> QED BY <2>1, <2>2, Typed DEF NotesAreSound
<1> QED BY <1>1, Inductive, PTL

\* selectRepository, the restarts and the crashes lead no note into the list of
\* another name than that of its repository, and lose none that was not cleared,
\* but those of the name that was selected when the program was killed, a file
\* did not open or FileIO::write emptied it and failed.
THEOREM NotesStay == Spec => []NotesKept
<1>1. IInv => NotesKept
  <2> SUFFICES ASSUME IInv PROVE NotesKept
    OBVIOUS
  <2>1. NotesStayHome
    BY DEF IInv, Filed, Home, NotesStayHome
  <2>2. CrashCostsOnlySelected
    <3> SUFFICES ASSUME NEW n \in DOMAIN repoOf \ cleared, KeyOf(repoOf[n]) \notin exposed
                 PROVE  \/ n \in centre.history
                        \/ \E k \in DOMAIN disk : \E c \in disk[k] : n \in c.history
      BY DEF CrashCostsOnlySelected
    <3>1. LET home == KeyOf(repoOf[n])
          IN  IF home = key THEN n \in centre.history
              ELSE home \in DOMAIN disk /\ \E e \in disk[home] : n \in e.history
      BY DEF IInv, Safe
    <3> QED BY <3>1
  <2> QED BY <2>1, <2>2 DEF NotesKept
<1> QED BY <1>1, Inductive, PTL

\* Of all the handlers, only the closing of a window whose note had been marked
\* as read makes the count of onNotificationClosed leave the list.
THEOREM OnlyReadDrift == Spec => OnlyReadWindowsDrift
<1>1. IInv /\ [Next]_vars
        => [InStep => InStep' \/ (windows \ windows') \cap centre.read # {}]_vars
  BY StepInv DEF Drift
<1> QED BY <1>1, Inductive, PTL DEF Spec, OnlyReadWindowsDrift
=============================================================================
