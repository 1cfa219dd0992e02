-------------------------- MODULE LineStagingProofs --------------------------
(***************************************************************************)
(* Proofs about the page of uncommitted changes.  The types of the diff    *)
(* come first, then what an edit of the rows does to the right-hand side,  *)
(* then the functions of the page, then the actions.  The second half is   *)
(* about chunks: what a shortest script tells of its two texts, which      *)
(* entries make a row, which of them the numbers of a chunk select, and    *)
(* that a walk over the script makes the lines of the rows of them.        *)
(***************************************************************************)
EXTENDS LineStaging, SelectionProofs, FiniteSetTheorems

GitLine == Line \X BOOLEAN
Entry == [op : {"context", "del", "add"}, text : Line, old : Int, new : Int]
RowType == {"context", "deleted", "added", "modified"}
Row == [type : RowType, left : Line, right : Line, old : Int, new : Int]

-----------------------------------------------------------------------------
(* The script of a diff. *)

LEMMA BlankType == Blank \in Line /\ Absent \in Text
  BY EmptySeq DEF Blank, Absent, Line, Text

LEMMA GitLinesType == ASSUME NEW t \in Text PROVE GitLines(t) \in Seq(GitLine)
  <1>1. CASE t = Absent
    BY <1>1, EmptySeq DEF GitLines
  <1>2. CASE t # Absent
    <2>1. Len(t) \in Nat \ {0} /\ \A i \in 1 .. Len(t) : t[i] \in Line
      BY <1>2, EmptySeq, ElementOfSeq DEF Text, Absent
    <2> DEFINE n == IF Last(t) = Blank THEN Len(t) - 1 ELSE Len(t)
    <2>2. n \in Nat /\ n <= Len(t) BY <2>1
    <2> HIDE DEF n
    <2>3. ASSUME NEW i \in 1 .. n PROVE <<t[i], i < Len(t)>> \in GitLine
      <3>1. t[i] \in Line BY <2>1, <2>2
      <3>2. (i < Len(t)) \in BOOLEAN OBVIOUS
      <3> QED BY <3>1, <3>2 DEF GitLine
    <2>4. [i \in 1 .. n |-> <<t[i], i < Len(t)>>] \in Seq(GitLine) BY <2>2, <2>3, SeqDef
    <2> QED BY <1>2, <2>4 DEF GitLines, n
  <1> QED BY <1>1, <1>2

\* The parts of ScriptOf under names of their own.
Ends(old, new, n) == n <= Len(old) /\ n <= Len(new)
                     /\ \A k \in 0 .. n - 1 : old[Len(old) - k] = new[Len(new) - k]
EndOf(old, new) == CHOOSE n \in 0 .. Len(old) : Ends(old, new, n) /\ ~Ends(old, new, n + 1)
KeepOf(old, i, j) == [op |-> "context", text |-> old[i][1], old |-> i, new |-> j]
DelOf(old, i) == [op |-> "del", text |-> old[i][1], old |-> i, new |-> -1]
AddOf(new, j) == [op |-> "add", text |-> new[j][1], old |-> -1, new |-> j]
EditsOf(s) == Cardinality({k \in DOMAIN s : s[k].op # "context"})
Grid(old, new) == (1 .. Len(old) + 1) \X (1 .. Len(new) + 1)
Cell(old, new, end, f, at) ==
  LET i == at[1]
      j == at[2]
      d == <<DelOf(old, i)>> \o f[<<i + 1, j>>]
      a == <<AddOf(new, j)>> \o f[<<i, j + 1>>]
  IN  IF i > Len(old) - end THEN [k \in 1 .. Len(new) - end + 1 - j |-> AddOf(new, j + k - 1)]
      ELSE IF j > Len(new) - end THEN [k \in 1 .. Len(old) - end + 1 - i |-> DelOf(old, i + k - 1)]
      ELSE IF old[i] = new[j] THEN <<KeepOf(old, i, j)>> \o f[<<i + 1, j + 1>>]
      ELSE IF EditsOf(d) <= EditsOf(a) THEN d ELSE a
RestOf(old, new, end) == CHOOSE f : f = [at \in Grid(old, new) |-> Cell(old, new, end, f, at)]

LEMMA ScriptIs ==
  ASSUME NEW old, NEW new
  PROVE  ScriptOf(old, new) =
           RestOf(old, new, EndOf(old, new))[<<1, 1>>]
             \o [k \in 1 .. EndOf(old, new) |->
                   KeepOf(old, Len(old) - EndOf(old, new) + k, Len(new) - EndOf(old, new) + k)]
  BY DEF ScriptOf, RestOf, EndOf, Ends, KeepOf, DelOf, AddOf, EditsOf, Grid, Cell

LEMMA EndType ==
  ASSUME NEW old \in Seq(GitLine), NEW new \in Seq(GitLine)
  PROVE  /\ EndOf(old, new) \in 0 .. Len(old) /\ EndOf(old, new) <= Len(new)
  <1> DEFINE T == {n \in Nat : Ends(old, new, n)}
  <1>0. Len(old) \in Nat /\ Len(new) \in Nat
    BY LenProperties
  <1>1. \E n \in Nat : n \in T /\ n + 1 \notin T
    <2>1. SUFFICES ASSUME \A n \in Nat : n \in T => n + 1 \in T PROVE FALSE
      OBVIOUS
    <2>2. 0 \in T BY <1>0 DEF Ends
    <2> HIDE DEF T
    <2>3. Nat \subseteq T BY <2>1, <2>2, Induction
    <2>4. Len(old) + 1 \in T BY <1>0, <2>3
    <2> QED BY <1>0, <2>4 DEF T, Ends
  <1>2. PICK n \in Nat : Ends(old, new, n) /\ ~Ends(old, new, n + 1)
    BY <1>1
  <1>3. n \in 0 .. Len(old)
    BY <1>0, <1>2 DEF Ends
  <1>4. EndOf(old, new) \in 0 .. Len(old) /\ Ends(old, new, EndOf(old, new))
    BY <1>2, <1>3 DEF EndOf
  <1> QED BY <1>4 DEF Ends

LEMMA EntryTypes ==
  ASSUME NEW old \in Seq(GitLine), NEW new \in Seq(GitLine)
  PROVE  /\ \A i \in 1 .. Len(old), j \in Int : KeepOf(old, i, j) \in Entry
         /\ \A i \in 1 .. Len(old) : DelOf(old, i) \in Entry
         /\ \A j \in 1 .. Len(new) : AddOf(new, j) \in Entry
  <1>1. \A s \in Seq(GitLine) : \A i \in 1 .. Len(s) : s[i][1] \in Line
    <2> TAKE s \in Seq(GitLine)
    <2> TAKE i \in 1 .. Len(s)
    <2>1. s[i] \in GitLine BY ElementOfSeq
    <2> QED BY <2>1 DEF GitLine
  <1>2. Len(old) \in Nat /\ Len(new) \in Nat
    BY LenProperties
  <1> QED BY <1>1, <1>2 DEF KeepOf, DelOf, AddOf, Entry

\* A cell of the table depends on those after it only, and is a script if
\* they are.
Agree(old, new, f, g, i, j) ==
  i <= Len(old) /\ j <= Len(new) =>
    /\ f[<<i + 1, j>>] = g[<<i + 1, j>>]
    /\ f[<<i, j + 1>>] = g[<<i, j + 1>>]
    /\ f[<<i + 1, j + 1>>] = g[<<i + 1, j + 1>>]

LEMMA CellSame ==
  ASSUME NEW old \in Seq(GitLine), NEW new \in Seq(GitLine),
         NEW end \in 0 .. Len(old), end <= Len(new), NEW f, NEW g,
         NEW i \in 1 .. Len(old) + 1, NEW j \in 1 .. Len(new) + 1, Agree(old, new, f, g, i, j)
  PROVE  Cell(old, new, end, f, <<i, j>>) = Cell(old, new, end, g, <<i, j>>)
  <1>0. Len(old) \in Nat /\ Len(new) \in Nat
    BY LenProperties
  <1>1. CASE i > Len(old) - end
    BY <1>1 DEF Cell
  <1>2. CASE i <= Len(old) - end /\ j > Len(new) - end
    BY <1>0, <1>2 DEF Cell
  <1>3. CASE i <= Len(old) - end /\ j <= Len(new) - end
    <2>1. i <= Len(old) /\ j <= Len(new) BY <1>0, <1>3
    <2> QED BY <1>0, <1>3, <2>1 DEF Cell, Agree
  <1> QED BY <1>0, <1>1, <1>2, <1>3

LEMMA CellType ==
  ASSUME NEW old \in Seq(GitLine), NEW new \in Seq(GitLine),
         NEW end \in 0 .. Len(old), end <= Len(new), NEW f,
         NEW i \in 1 .. Len(old) + 1, NEW j \in 1 .. Len(new) + 1,
         i <= Len(old) /\ j <= Len(new) =>
           /\ f[<<i + 1, j>>] \in Seq(Entry)
           /\ f[<<i, j + 1>>] \in Seq(Entry)
           /\ f[<<i + 1, j + 1>>] \in Seq(Entry)
  PROVE  Cell(old, new, end, f, <<i, j>>) \in Seq(Entry)
  <1>0. Len(old) \in Nat /\ Len(new) \in Nat
    BY LenProperties
  <1>1. CASE i > Len(old) - end
    <2> DEFINE n == IF Len(new) - end + 1 - j > 0 THEN Len(new) - end + 1 - j ELSE 0
    <2>1. n \in Nat /\ 1 .. Len(new) - end + 1 - j = 1 .. n BY <1>0
    <2>2. \A k \in 1 .. n : j + k - 1 \in 1 .. Len(new) BY <1>0
    <2> HIDE DEF n
    <2>3. \A k \in 1 .. n : AddOf(new, j + k - 1) \in Entry BY <2>2, EntryTypes
    <2>4. [k \in 1 .. n |-> AddOf(new, j + k - 1)] \in Seq(Entry) BY <2>1, <2>3, SeqDef
    <2> QED BY <1>1, <2>1, <2>4 DEF Cell
  <1>2. CASE i <= Len(old) - end /\ j > Len(new) - end
    <2> DEFINE n == Len(old) - end + 1 - i
    <2>1. n \in Nat BY <1>0, <1>2
    <2>2. \A k \in 1 .. n : i + k - 1 \in 1 .. Len(old) BY <1>0
    <2> HIDE DEF n
    <2>3. \A k \in 1 .. n : DelOf(old, i + k - 1) \in Entry BY <2>2, EntryTypes
    <2>4. [k \in 1 .. n |-> DelOf(old, i + k - 1)] \in Seq(Entry) BY <2>1, <2>3, SeqDef
    <2> QED BY <1>0, <1>2, <2>1, <2>4 DEF Cell, n
  <1>3. CASE i <= Len(old) - end /\ j <= Len(new) - end
    <2>1. i \in 1 .. Len(old) /\ j \in 1 .. Len(new) BY <1>0, <1>3
    <2>2. KeepOf(old, i, j) \in Entry /\ DelOf(old, i) \in Entry /\ AddOf(new, j) \in Entry
      BY <2>1, EntryTypes
    <2>3. /\ <<KeepOf(old, i, j)>> \o f[<<i + 1, j + 1>>] \in Seq(Entry)
          /\ <<DelOf(old, i)>> \o f[<<i + 1, j>>] \in Seq(Entry)
          /\ <<AddOf(new, j)>> \o f[<<i, j + 1>>] \in Seq(Entry)
      <3>1. \A e \in Entry, s \in Seq(Entry) : <<e>> \o s \in Seq(Entry)
        BY ConcatProperties
      <3> QED BY <2>1, <2>2, <3>1
    <2> QED BY <1>0, <1>3, <2>3 DEF Cell
  <1> QED BY <1>0, <1>1, <1>2, <1>3

\* The cells at most n away from the last corner.
Near(old, new, n, at) == (Len(old) + 1 - at[1]) + (Len(new) + 1 - at[2]) <= n

LEMMA NearGrows ==
  ASSUME NEW old \in Seq(GitLine), NEW new \in Seq(GitLine), NEW n \in Nat,
         NEW i \in 1 .. Len(old) + 1, NEW j \in 1 .. Len(new) + 1,
         Near(old, new, n + 1, <<i, j>>), i <= Len(old), j <= Len(new)
  PROVE  \A at \in {<<i + 1, j>>, <<i, j + 1>>, <<i + 1, j + 1>>} :
           at \in Grid(old, new) /\ Near(old, new, n, at)
  <1>0. Len(old) \in Nat /\ Len(new) \in Nat
    BY LenProperties
  <1> QED BY <1>0 DEF Near, Grid

LEMMA NearAll ==
  ASSUME NEW old \in Seq(GitLine), NEW new \in Seq(GitLine)
  PROVE  /\ Len(old) + Len(new) \in Nat
         /\ \A at \in Grid(old, new) : Near(old, new, Len(old) + Len(new), at)
  <1>0. Len(old) \in Nat /\ Len(new) \in Nat
    BY LenProperties
  <1> QED BY <1>0 DEF Near, Grid

LEMMA NearNone ==
  ASSUME NEW old \in Seq(GitLine), NEW new \in Seq(GitLine),
         NEW i \in 1 .. Len(old) + 1, NEW j \in 1 .. Len(new) + 1, Near(old, new, 0, <<i, j>>)
  PROVE  ~(i <= Len(old) /\ j <= Len(new))
  <1>0. Len(old) \in Nat /\ Len(new) \in Nat
    BY LenProperties
  <1> QED BY <1>0 DEF Near

LEMMA GridPair ==
  ASSUME NEW old, NEW new, NEW at \in Grid(old, new)
  PROVE  \E i \in 1 .. Len(old) + 1, j \in 1 .. Len(new) + 1 : at = <<i, j>>
  BY DEF Grid

LEMMA RestIs ==
  ASSUME NEW old \in Seq(GitLine), NEW new \in Seq(GitLine),
         NEW end \in 0 .. Len(old), end <= Len(new)
  PROVE  \A at \in Grid(old, new) :
           RestOf(old, new, end)[at] = Cell(old, new, end, RestOf(old, new, end), at)
  <1> DEFINE Once(f) == [at \in Grid(old, new) |-> Cell(old, new, end, f, at)]
             Fits(f, n) == \A at \in Grid(old, new) : Near(old, new, n, at) => f[at] = Once(f)[at]
             Good == {n \in Nat : \E f : Fits(f, n)}
  <1>1. 0 \in Good
    <2> DEFINE f == Once(<<>>)
    <2>1. ASSUME NEW at \in Grid(old, new), Near(old, new, 0, at) PROVE f[at] = Once(f)[at]
      <3>1. PICK i \in 1 .. Len(old) + 1, j \in 1 .. Len(new) + 1 : at = <<i, j>>
        BY GridPair
      <3>2. ~(i <= Len(old) /\ j <= Len(new)) BY <2>1, <3>1, NearNone
      <3> HIDE DEF f
      <3>a. Agree(old, new, <<>>, f, i, j)
        BY <3>2 DEF Agree
      <3>3. Cell(old, new, end, <<>>, <<i, j>>) = Cell(old, new, end, f, <<i, j>>)
        BY <3>a, CellSame
      <3> QED BY <3>1, <3>3 DEF f
    <2>2. Fits(f, 0) BY <2>1
    <2> HIDE DEF Fits
    <2> QED BY <2>2
  <1>2. ASSUME NEW n \in Nat, n \in Good PROVE n + 1 \in Good
    <2>1. PICK f : Fits(f, n)
      BY <1>2
    <2> DEFINE g == Once(f)
    <2>2. ASSUME NEW at \in Grid(old, new), Near(old, new, n + 1, at) PROVE g[at] = Once(g)[at]
      <3>1. PICK i \in 1 .. Len(old) + 1, j \in 1 .. Len(new) + 1 : at = <<i, j>>
        BY GridPair
      <3>2. ASSUME i <= Len(old), j <= Len(new), NEW b \in {<<i + 1, j>>, <<i, j + 1>>, <<i + 1, j + 1>>}
            PROVE  f[b] = g[b]
        <4>1. b \in Grid(old, new) /\ Near(old, new, n, b)
          BY <2>2, <3>1, <3>2, NearGrows
        <4> QED BY <2>1, <4>1
      <3> HIDE DEF g
      <3>a. Agree(old, new, f, g, i, j)
        BY <3>2 DEF Agree
      <3>3. Cell(old, new, end, f, <<i, j>>) = Cell(old, new, end, g, <<i, j>>)
        BY <3>a, CellSame
      <3> QED BY <3>1, <3>3 DEF g
    <2>3. Fits(g, n + 1) BY <2>2
    <2> HIDE DEF Fits, g
    <2> QED BY <2>3
  <1> HIDE DEF Good
  <1>3. Nat \subseteq Good
    BY <1>1, <1>2, Induction
  <1>4. PICK f : Fits(f, Len(old) + Len(new))
    BY <1>3, NearAll DEF Good
  <1> DEFINE g == Once(f)
  <1>5. ASSUME NEW at \in Grid(old, new) PROVE g[at] = Once(g)[at]
    <2>1. PICK i \in 1 .. Len(old) + 1, j \in 1 .. Len(new) + 1 : at = <<i, j>>
      BY GridPair
    <2>2. \A b \in Grid(old, new) : f[b] = g[b] BY <1>4, NearAll
    <2>3. i <= Len(old) /\ j <= Len(new) =>
            \A b \in {<<i + 1, j>>, <<i, j + 1>>, <<i + 1, j + 1>>} : b \in Grid(old, new)
      BY LenProperties DEF Grid
    <2> HIDE DEF g
    <2>a. Agree(old, new, f, g, i, j)
      BY <2>2, <2>3 DEF Agree
    <2>4. Cell(old, new, end, f, <<i, j>>) = Cell(old, new, end, g, <<i, j>>)
      BY <2>a, CellSame
    <2> QED BY <2>1, <2>4 DEF g
  <1>6. \E h : h = Once(h)
    BY <1>5
  <1>7. RestOf(old, new, end) = Once(RestOf(old, new, end))
    BY <1>6 DEF RestOf
  <1> DEFINE r == RestOf(old, new, end)
  <1> HIDE DEF r
  <1>8. r = Once(r)
    BY <1>7 DEF r
  <1>9. \A at \in Grid(old, new) : r[at] = Cell(old, new, end, r, at)
    BY <1>8
  <1> QED BY <1>9 DEF r

LEMMA RestType ==
  ASSUME NEW old \in Seq(GitLine), NEW new \in Seq(GitLine),
         NEW end \in 0 .. Len(old), end <= Len(new)
  PROVE  \A at \in Grid(old, new) : RestOf(old, new, end)[at] \in Seq(Entry)
  <1> DEFINE r == RestOf(old, new, end)
             Good == {n \in Nat : \A at \in Grid(old, new) : Near(old, new, n, at) => r[at] \in Seq(Entry)}
  <1>0. \A at \in Grid(old, new) : r[at] = Cell(old, new, end, r, at)
    BY RestIs
  <1> HIDE DEF r
  <1>1. 0 \in Good
    <2>1. ASSUME NEW at \in Grid(old, new), Near(old, new, 0, at) PROVE r[at] \in Seq(Entry)
      <3>1. PICK i \in 1 .. Len(old) + 1, j \in 1 .. Len(new) + 1 : at = <<i, j>>
        BY GridPair
      <3>2. ~(i <= Len(old) /\ j <= Len(new)) BY <2>1, <3>1, NearNone
      <3>3. Cell(old, new, end, r, <<i, j>>) \in Seq(Entry) BY <3>2, CellType
      <3> QED BY <1>0, <3>1, <3>3
    <2> QED BY <2>1
  <1>2. ASSUME NEW n \in Nat, n \in Good PROVE n + 1 \in Good
    <2>1. ASSUME NEW at \in Grid(old, new), Near(old, new, n + 1, at) PROVE r[at] \in Seq(Entry)
      <3>1. PICK i \in 1 .. Len(old) + 1, j \in 1 .. Len(new) + 1 : at = <<i, j>>
        BY GridPair
      <3>2. ASSUME i <= Len(old), j <= Len(new), NEW b \in {<<i + 1, j>>, <<i, j + 1>>, <<i + 1, j + 1>>}
            PROVE  r[b] \in Seq(Entry)
        <4>1. b \in Grid(old, new) /\ Near(old, new, n, b)
          BY <2>1, <3>1, <3>2, NearGrows
        <4> QED BY <1>2, <4>1
      <3>3. Cell(old, new, end, r, <<i, j>>) \in Seq(Entry) BY <3>2, CellType
      <3> QED BY <1>0, <3>1, <3>3
    <2> QED BY <2>1
  <1> HIDE DEF Good
  <1>3. Nat \subseteq Good
    BY <1>1, <1>2, Induction
  <1> QED BY <1>3, NearAll DEF Good, r

LEMMA ScriptOfType ==
  ASSUME NEW old \in Seq(GitLine), NEW new \in Seq(GitLine)
  PROVE  ScriptOf(old, new) \in Seq(Entry)
  <1> DEFINE end == EndOf(old, new)
             tail == [k \in 1 .. end |-> KeepOf(old, Len(old) - end + k, Len(new) - end + k)]
  <1>0. Len(old) \in Nat /\ Len(new) \in Nat
    BY LenProperties
  <1>1. end \in 0 .. Len(old) /\ end <= Len(new)
    BY EndType
  <1>2. <<1, 1>> \in Grid(old, new)
    BY <1>0 DEF Grid
  <1> HIDE DEF end
  <1>3. RestOf(old, new, end)[<<1, 1>>] \in Seq(Entry)
    BY <1>1, <1>2, RestType
  <1>4. tail \in Seq(Entry)
    <2>1. \A k \in 1 .. end : Len(old) - end + k \in 1 .. Len(old) /\ Len(new) - end + k \in Int
      BY <1>0, <1>1
    <2>2. \A k \in 1 .. end : KeepOf(old, Len(old) - end + k, Len(new) - end + k) \in Entry
      BY <2>1, EntryTypes
    <2> QED BY <1>0, <1>1, <2>2, SeqDef
  <1>5. ScriptOf(old, new) = RestOf(old, new, end)[<<1, 1>>] \o tail
    BY ScriptIs DEF end
  <1> HIDE DEF tail
  <1> QED BY <1>3, <1>4, <1>5, ConcatProperties

LEMMA ScriptType == \A from, to \in Text : Script(from, to) \in Seq(Entry)
  BY GitLinesType, ScriptOfType DEF Script


-----------------------------------------------------------------------------
(* The rows of a script, and the texts made from them. *)

LEMMA PlacesType ==
  ASSUME NEW S, NEW s \in Seq(S), NEW T
  PROVE  /\ Places(s, T) \in Seq(1 .. Len(s))
         /\ \A k \in 1 .. Len(Places(s, T)) : Places(s, T)[k] \in T
  <1> DEFINE all == [i \in 1 .. Len(s) |-> i]
  <1>1. all \in Seq(1 .. Len(s))
    <2>1. Len(s) \in Nat BY LenProperties
    <2> QED BY <2>1, SeqDef
  <1> HIDE DEF all
  <1>2. Kept(all, T) \in Seq(1 .. Len(s))
    BY <1>1, KeptType
  <1>3. ASSUME NEW k \in 1 .. Len(Kept(all, T)) PROVE Kept(all, T)[k] \in T
    <2>1. Kept(all, T)[k] \in Range(Kept(all, T))
      BY <1>2, RangeEquality
    <2> QED BY <1>1, <2>1, KeptRange
  <1> QED BY <1>2, <1>3 DEF Places, all

\* The parts of RowsOf.
PairedAt(s, i) == s[i].op = "add" /\ i > 1 /\ s[i - 1].op = "del"
RowAt(s, i) ==
  IF i < Len(s) /\ PairedAt(s, i + 1)
    THEN [type |-> "modified", left |-> s[i].text, right |-> s[i + 1].text,
          old |-> s[i].old, new |-> s[i + 1].new]
  ELSE [type |-> CASE s[i].op = "del" -> "deleted" [] s[i].op = "add" -> "added"
                   [] OTHER -> "context",
        left |-> IF s[i].op = "add" THEN Blank ELSE s[i].text,
        right |-> IF s[i].op = "del" THEN Blank ELSE s[i].text,
        old |-> s[i].old, new |-> s[i].new]
StartsOf(s) == Places(s, {i \in DOMAIN s : ~PairedAt(s, i)})

LEMMA RowsOfIs == \A s : RowsOf(s) = [k \in DOMAIN StartsOf(s) |-> RowAt(s, StartsOf(s)[k])]
  BY DEF RowsOf, PairedAt, RowAt, StartsOf

LEMMA RowAtType == ASSUME NEW s \in Seq(Entry), NEW i \in 1 .. Len(s) PROVE RowAt(s, i) \in Row
  <1>0. Len(s) \in Nat /\ \A k \in 1 .. Len(s) : s[k] \in Entry
    BY LenProperties, ElementOfSeq
  <1>1. CASE i < Len(s) /\ PairedAt(s, i + 1)
    <2>1. s[i] \in Entry /\ s[i + 1] \in Entry BY <1>0, <1>1
    <2>2. s[i].text \in Line /\ s[i + 1].text \in Line /\ s[i].old \in Int /\ s[i + 1].new \in Int
      BY <2>1 DEF Entry
    <2> QED BY <1>1, <2>2 DEF RowAt, Row, RowType
  <1>2. CASE ~(i < Len(s) /\ PairedAt(s, i + 1))
    <2>1. s[i] \in Entry BY <1>0
    <2>2. s[i].text \in Line /\ s[i].old \in Int /\ s[i].new \in Int /\ Blank \in Line
      BY <2>1, BlankType DEF Entry
    <2>3. (CASE s[i].op = "del" -> "deleted" [] s[i].op = "add" -> "added"
             [] OTHER -> "context") \in RowType
      BY DEF RowType
    <2> QED BY <1>2, <2>2, <2>3 DEF RowAt, Row
  <1> QED BY <1>1, <1>2

LEMMA RowsOfType == ASSUME NEW s \in Seq(Entry) PROVE RowsOf(s) \in Seq(Row)
  <1> DEFINE starts == StartsOf(s)
  <1>1. starts \in Seq(1 .. Len(s))
    BY PlacesType DEF StartsOf
  <1> HIDE DEF starts
  <1>2. Len(starts) \in Nat /\ DOMAIN starts = 1 .. Len(starts)
    BY <1>1, LenProperties
  <1>3. \A k \in 1 .. Len(starts) : RowAt(s, starts[k]) \in Row
    BY <1>1, ElementOfSeq, RowAtType
  <1>4. [k \in DOMAIN starts |-> RowAt(s, starts[k])] \in Seq(Row)
    BY <1>2, <1>3, SeqDef
  <1> QED BY <1>4, RowsOfIs DEF starts

LEMMA RowsType == \A from, to \in Text : Rows(from, to) \in Seq(Row)
  BY ScriptType, RowsOfType DEF Rows

LEMMA RightsType ==
  ASSUME NEW rows \in Seq(Row)
  PROVE  /\ Rights(rows) \in Text
         /\ Len(Rights(rows)) = Len(rows)
         /\ \A i \in 1 .. Len(rows) : Rights(rows)[i] = rows[i].right
  <1>1. Len(rows) \in Nat /\ DOMAIN rows = 1 .. Len(rows)
    BY LenProperties
  <1>2. \A i \in 1 .. Len(rows) : rows[i].right \in Line
    <2> TAKE i \in 1 .. Len(rows)
    <2>1. rows[i] \in Row BY ElementOfSeq
    <2> QED BY <2>1 DEF Row
  <1>3. Rights(rows) = [i \in 1 .. Len(rows) |-> rows[i].right]
    BY <1>1 DEF Rights
  <1>4. Rights(rows) \in [1 .. Len(rows) -> Line]
    BY <1>2, <1>3
  <1>5. Rights(rows) \in Seq(Line)
    BY <1>1, <1>4, SeqDef
  <1>6. Len(Rights(rows)) = Len(rows)
    BY <1>1, <1>4, <1>5, LenProperties
  <1>7. \A i \in 1 .. Len(rows) : Rights(rows)[i] = rows[i].right
    BY <1>3
  <1> QED BY <1>5, <1>6, <1>7 DEF Text

LEMMA RightSideType == ASSUME NEW rows \in Seq(Row) PROVE RightSide(rows) \in Text
  BY KeptType, RightsType DEF RightSide

\* The lines before the n-th of a script that are of its old side.
AtOf(script, i) == Cardinality({k \in 1 .. i : script[k].op # "add"})

LEMMA AtType ==
  ASSUME NEW script, NEW i \in Nat
  PROVE  /\ AtOf(script, i) \in Nat
         /\ i > 0 /\ script[i].op # "add" => AtOf(script, i) > 0
  <1> DEFINE S == {k \in 1 .. i : script[k].op # "add"}
  <1>1. IsFiniteSet(S)
    <2>1. S \in SUBSET (1 .. i) OBVIOUS
    <2>2. IsFiniteSet(1 .. i) BY FS_Interval
    <2> HIDE DEF S
    <2> QED BY <2>1, <2>2, FS_Subset
  <1>2. i > 0 /\ script[i].op # "add" => S # {}
    OBVIOUS
  <1> HIDE DEF S
  <1>3. Cardinality(S) \in Nat /\ (Cardinality(S) = 0 <=> S = {})
    BY <1>1, FS_CardinalityType, FS_EmptySet
  <1>4. AtOf(script, i) = Cardinality(S)
    BY DEF AtOf, S
  <1> QED BY <1>2, <1>3, <1>4

CopiesOf(base, script, done, i) ==
  AtOf(script, i) <= Len(base) /\ (script[i].op = "context" \/ (script[i].op = "del" /\ i \notin done))
AddsOf(script, done, i) == script[i].op = "add" /\ i \in done
StaysOf(base, script, done) ==
  Places(script, {i \in DOMAIN script : CopiesOf(base, script, done, i) \/ AddsOf(script, done, i)})

LEMMA WalkedIs ==
  \A base, script, done :
    Walked(base, script, done) =
      [k \in DOMAIN StaysOf(base, script, done) |->
         IF AddsOf(script, done, StaysOf(base, script, done)[k])
           THEN script[StaysOf(base, script, done)[k]].text
           ELSE base[AtOf(script, StaysOf(base, script, done)[k])]]
        \o SubSeq(base, AtOf(script, Len(script)) + 1, Len(base))
  BY DEF Walked, StaysOf, AddsOf, CopiesOf, AtOf

LEMMA WalkedType ==
  ASSUME NEW base \in Text, NEW script \in Seq(Entry), NEW done
  PROVE  Walked(base, script, done) \in Text
  <1> DEFINE stays == StaysOf(base, script, done)
             body == [k \in DOMAIN stays |-> IF AddsOf(script, done, stays[k]) THEN script[stays[k]].text
                                             ELSE base[AtOf(script, stays[k])]]
             tail == SubSeq(base, AtOf(script, Len(script)) + 1, Len(base))
  <1>0. /\ Len(script) \in Nat /\ DOMAIN script = 1 .. Len(script)
        /\ Len(base) \in Nat /\ \A i \in 1 .. Len(base) : base[i] \in Line
    BY LenProperties, ElementOfSeq DEF Text
  <1>1. /\ stays \in Seq(1 .. Len(script))
        /\ \A k \in 1 .. Len(stays) :
             CopiesOf(base, script, done, stays[k]) \/ AddsOf(script, done, stays[k])
    BY PlacesType DEF StaysOf
  <1> HIDE DEF stays
  <1>2. Len(stays) \in Nat /\ DOMAIN stays = 1 .. Len(stays)
    BY <1>1, LenProperties
  <1>3. ASSUME NEW k \in 1 .. Len(stays)
        PROVE  (IF AddsOf(script, done, stays[k]) THEN script[stays[k]].text
                ELSE base[AtOf(script, stays[k])]) \in Line
    <2> DEFINE i == stays[k]
    <2>1. i \in 1 .. Len(script) BY <1>1, ElementOfSeq
    <2> HIDE DEF i
    <2>2. CASE AddsOf(script, done, i)
      <3>1. script[i] \in Entry BY <2>1, ElementOfSeq
      <3> QED BY <2>2, <3>1 DEF Entry, i
    <2>3. CASE ~AddsOf(script, done, i)
      <3>1. CopiesOf(base, script, done, i) BY <1>1, <2>3 DEF i
      <3>2. AtOf(script, i) \in Nat /\ AtOf(script, i) > 0 /\ AtOf(script, i) <= Len(base)
        BY <1>0, <2>1, <3>1, AtType DEF CopiesOf
      <3> QED BY <1>0, <2>3, <3>2 DEF i
    <2> QED BY <2>2, <2>3
  <1>4. body \in Text
    BY <1>2, <1>3, SeqDef DEF Text
  <1>5. tail \in Text
    <2>1. AtOf(script, Len(script)) \in Nat BY <1>0, AtType
    <2>2. \A i \in AtOf(script, Len(script)) + 1 .. Len(base) : base[i] \in Line BY <1>0, <2>1
    <2> QED BY <1>0, <2>1, <2>2, SubSeqProperties DEF Text
  <1>6. Walked(base, script, done) = body \o tail
    BY WalkedIs DEF stays
  <1> HIDE DEF body, tail
  <1> QED BY <1>4, <1>5, <1>6, ConcatProperties DEF Text


-----------------------------------------------------------------------------
(* The right-hand side of rows that are joined. *)

Visible == {r \in Row : r.type # "deleted"}

\* What a row adds to the right-hand side.
Shows(r) == IF r.type # "deleted" THEN <<r.right>> ELSE <<>>

LEMMA RightSideIs == ASSUME NEW s \in Seq(Row) PROVE RightSide(s) = Rights(Kept(s, Visible))
  <1>1. s \in Seq(Range(s)) /\ Range(s) \subseteq Row
    BY SeqOfRange, RangeOfSeq
  <1> DEFINE T == {r \in Range(s) : r.type # "deleted"}
  <1>2. \A x \in Range(s) : x \in T <=> x \in Visible
    BY <1>1 DEF Visible
  <1> HIDE DEF T
  <1>3. Kept(s, T) = Kept(s, Visible)
    BY <1>1, <1>2, KeptSame
  <1> QED BY <1>3 DEF RightSide, T

LEMMA RightsOfJoined ==
  ASSUME NEW s \in Seq(Row), NEW t \in Seq(Row)
  PROVE  Rights(s \o t) = Rights(s) \o Rights(t)
  <1> DEFINE st == s \o t
             rs == Rights(s)
             rt == Rights(t)
             rst == Rights(st)
  <1>1. /\ st \in Seq(Row) /\ Len(st) = Len(s) + Len(t) /\ Len(s) \in Nat /\ Len(t) \in Nat
        /\ \A i \in 1 .. Len(s) + Len(t) : st[i] = IF i <= Len(s) THEN s[i] ELSE t[i - Len(s)]
    BY ConcatProperties, LenProperties
  <1> HIDE DEF st
  <1>2. /\ rs \in Text /\ Len(rs) = Len(s) /\ \A i \in 1 .. Len(s) : rs[i] = s[i].right
        /\ rt \in Text /\ Len(rt) = Len(t) /\ \A i \in 1 .. Len(t) : rt[i] = t[i].right
        /\ rst \in Text /\ Len(rst) = Len(st) /\ \A i \in 1 .. Len(st) : rst[i] = st[i].right
    BY <1>1, RightsType
  <1> HIDE DEF rs, rt, rst
  <1>3. /\ rs \o rt \in Text /\ Len(rs \o rt) = Len(s) + Len(t)
        /\ \A i \in 1 .. Len(s) + Len(t) : (rs \o rt)[i] = IF i <= Len(s) THEN rs[i] ELSE rt[i - Len(s)]
    <2>1. rs \in Seq(Line) /\ rt \in Seq(Line) BY <1>2 DEF Text
    <2>2. /\ rs \o rt \in Seq(Line) /\ Len(rs \o rt) = Len(rs) + Len(rt)
          /\ \A i \in 1 .. Len(rs) + Len(rt) :
               (rs \o rt)[i] = IF i <= Len(rs) THEN rs[i] ELSE rt[i - Len(rs)]
      BY <2>1, ConcatProperties
    <2>3. Len(rs) = Len(s) /\ Len(rt) = Len(t) BY <1>2
    <2> QED BY <2>2, <2>3 DEF Text
  <1>4. \A i \in 1 .. Len(s) + Len(t) : rst[i] = (rs \o rt)[i]
    <2> TAKE i \in 1 .. Len(s) + Len(t)
    <2>1. CASE i <= Len(s)
      <3>1. i \in 1 .. Len(s) /\ i \in 1 .. Len(st) BY <1>1, <2>1
      <3> QED BY <1>1, <1>2, <1>3, <2>1, <3>1
    <2>2. CASE ~(i <= Len(s))
      <3>1. i - Len(s) \in 1 .. Len(t) /\ i \in 1 .. Len(st) BY <1>1, <2>2
      <3> QED BY <1>1, <1>2, <1>3, <2>2, <3>1
    <2> QED BY <2>1, <2>2
  <1>5. rst = rs \o rt
    BY <1>1, <1>2, <1>3, <1>4, SeqEqual DEF Text
  <1> QED BY <1>5 DEF rs, rt, rst, st

LEMMA RightSideOfJoined ==
  ASSUME NEW s \in Seq(Row), NEW t \in Seq(Row)
  PROVE  RightSide(s \o t) = RightSide(s) \o RightSide(t)
  <1>1. s \o t \in Seq(Row)
    BY ConcatProperties
  <1>2. Kept(s \o t, Visible) = Kept(s, Visible) \o Kept(t, Visible)
    BY KeptOfJoined
  <1>3. Kept(s, Visible) \in Seq(Row) /\ Kept(t, Visible) \in Seq(Row)
    BY KeptType
  <1>4. Rights(Kept(s, Visible) \o Kept(t, Visible)) = Rights(Kept(s, Visible)) \o Rights(Kept(t, Visible))
    BY <1>3, RightsOfJoined
  <1> QED BY <1>1, <1>2, <1>4, RightSideIs

LEMMA RowIsSeq == ASSUME NEW r \in Row PROVE <<r>> \in Seq(Row)
  <1>1. <<>> \in Seq(Row) /\ Append(<<>>, r) = <<r>>
    BY EmptySeq
  <1> QED BY <1>1, AppendProperties

LEMMA RightSideOfOne == ASSUME NEW r \in Row PROVE RightSide(<<r>>) = Shows(r)
  <1>1. Kept(<<r>>, Visible) = IF r \in Visible THEN <<r>> ELSE <<>>
    BY KeptOfOne
  <1>2. Rights(<<>>) = <<>>
    BY DEF Rights
  <1>3. Rights(<<r>>) = <<r.right>>
    BY DEF Rights
  <1>4. r \in Visible <=> r.type # "deleted"
    BY DEF Visible
  <1>5. RightSide(<<r>>) = Rights(Kept(<<r>>, Visible))
    BY RowIsSeq, RightSideIs
  <1> QED BY <1>1, <1>2, <1>3, <1>4, <1>5 DEF Shows

LEMMA RightSideOfNone == RightSide(<<>>) = <<>> /\ Rights(<<>>) = <<>>
  <1>1. <<>> \in Seq(Row)
    BY EmptySeq
  <1>2. Rights(<<>>) = <<>>
    BY DEF Rights
  <1> QED BY <1>1, <1>2, RightSideIs, KeptOfNone

LEMMA ShowsType == ASSUME NEW r \in Row PROVE Shows(r) \in Text
  <1>1. r.right \in Line
    BY DEF Row
  <1>2. <<r.right>> \in Text
    BY <1>1 DEF Text
  <1> QED BY <1>2, BlankType DEF Shows, Absent

LEMMA RightSideOfThree ==
  ASSUME NEW a \in Seq(Row), NEW r \in Row, NEW b \in Seq(Row)
  PROVE  RightSide((a \o <<r>>) \o b) = (RightSide(a) \o Shows(r)) \o RightSide(b)
  <1>1. <<r>> \in Seq(Row) /\ RightSide(<<r>>) = Shows(r)
    BY RowIsSeq, RightSideOfOne
  <1>2. a \o <<r>> \in Seq(Row) /\ RightSide(a \o <<r>>) = RightSide(a) \o RightSide(<<r>>)
    BY <1>1, ConcatProperties, RightSideOfJoined
  <1> QED BY <1>1, <1>2, RightSideOfJoined

LEMMA RightSideOfFour ==
  ASSUME NEW a \in Seq(Row), NEW r \in Row, NEW q \in Row, NEW b \in Seq(Row)
  PROVE  RightSide(((a \o <<r>>) \o <<q>>) \o b)
           = ((RightSide(a) \o Shows(r)) \o Shows(q)) \o RightSide(b)
  <1>1. <<r>> \in Seq(Row)
    BY RowIsSeq
  <1>2. a \o <<r>> \in Seq(Row) /\ RightSide(a \o <<r>>) = RightSide(a) \o Shows(r)
    BY <1>1, ConcatProperties, RightSideOfJoined, RightSideOfOne
  <1> QED BY <1>2, RightSideOfThree

\* Rows with the same texts, of which the same are deleted.
Alike(s, t) ==
  /\ Len(s) = Len(t)
  /\ \A i \in 1 .. Len(s) : s[i].right = t[i].right /\ (s[i].type = "deleted" <=> t[i].type = "deleted")

LEMMA RightSideSame ==
  ASSUME NEW s \in Seq(Row), NEW t \in Seq(Row), Alike(s, t)
  PROVE  RightSide(s) = RightSide(t) /\ Rights(s) = Rights(t)
  <1> DEFINE G == {u \in Seq(Row) : \A v \in Seq(Row) : Alike(u, v) => RightSide(u) = RightSide(v)}
  <1>1. <<>> \in G
    <2>1. <<>> \in Seq(Row) /\ \A v \in Seq(Row) : Len(v) = Len(<<>>) => v = <<>>
      BY EmptySeq
    <2> QED BY <2>1 DEF Alike
  <1>2. ASSUME NEW u \in Seq(Row), NEW x \in Row, u \in G PROVE Append(u, x) \in G
    <2>1. ASSUME NEW v \in Seq(Row), Alike(Append(u, x), v) PROVE RightSide(Append(u, x)) = RightSide(v)
      <3>0. /\ Append(u, x) \in Seq(Row) /\ Len(Append(u, x)) = Len(u) + 1 /\ Len(u) \in Nat
            /\ Append(u, x)[Len(u) + 1] = x /\ \A i \in 1 .. Len(u) : Append(u, x)[i] = u[i]
        BY AppendProperties, LenProperties
      <3>a. /\ Len(v) = Len(Append(u, x))
            /\ \A i \in 1 .. Len(Append(u, x)) :
                 /\ Append(u, x)[i].right = v[i].right
                 /\ Append(u, x)[i].type = "deleted" <=> v[i].type = "deleted"
        BY <2>1 DEF Alike
      <3>1. v # <<>>
        <4>1. Len(v) # 0 BY <3>0, <3>a
        <4> QED BY <4>1, EmptySeq
      <3>2. PICK w \in Seq(Row), y \in Row : v = Append(w, y)
        BY <3>1, SequenceEmptyOrAppend
      <3>3. /\ Len(v) = Len(w) + 1 /\ Len(w) \in Nat
            /\ v[Len(w) + 1] = y /\ \A i \in 1 .. Len(w) : v[i] = w[i]
        BY <3>2, AppendProperties, LenProperties
      <3>4. Len(w) = Len(u) BY <3>0, <3>3, <3>a
      <3>5. Alike(u, w)
        <4>1. \A i \in 1 .. Len(u) : i \in 1 .. Len(Append(u, x)) BY <3>0
        <4> QED BY <3>a, <3>0, <3>3, <3>4, <4>1 DEF Alike
      <3>6. x.right = y.right /\ (x.type = "deleted" <=> y.type = "deleted")
        <4>1. Len(u) + 1 \in 1 .. Len(Append(u, x)) BY <3>0
        <4> QED BY <3>a, <3>0, <3>3, <3>4, <4>1
      <3>7. Shows(x) = Shows(y) BY <3>6 DEF Shows
      <3>8. RightSide(u) = RightSide(w) BY <1>2, <3>5
      <3>9. ASSUME NEW r \in Seq(Row), NEW z \in Row
            PROVE  RightSide(Append(r, z)) = RightSide(r) \o Shows(z)
        <4>1. Append(r, z) = r \o <<z>> /\ <<z>> \in Seq(Row) BY AppendIsConcat
        <4> QED BY <4>1, RightSideOfJoined, RightSideOfOne
      <3>10. RightSide(Append(u, x)) = RightSide(u) \o Shows(x) BY <3>9
      <3>11. RightSide(v) = RightSide(w) \o Shows(y) BY <3>2, <3>9
      <3> QED BY <3>7, <3>8, <3>10, <3>11
    <2>2. Append(u, x) \in Seq(Row) BY AppendProperties
    <2> QED BY <2>1, <2>2
  <1> HIDE DEF G
  <1>3. Seq(Row) \subseteq G
    BY <1>1, <1>2, SeqInduction
  <1>4. RightSide(s) = RightSide(t)
    BY <1>3 DEF G
  <1>5. Rights(s) = Rights(t)
    <2>1. /\ Rights(s) \in Seq(Line) /\ Len(Rights(s)) = Len(s) /\ \A i \in 1 .. Len(s) : Rights(s)[i] = s[i].right
          /\ Rights(t) \in Seq(Line) /\ Len(Rights(t)) = Len(t) /\ \A i \in 1 .. Len(t) : Rights(t)[i] = t[i].right
      BY RightsType DEF Text
    <2> QED BY <2>1, SeqEqual DEF Alike
  <1> QED BY <1>4, <1>5

\* Without a deleted row, every row is seen.
LEMMA NothingDeleted ==
  ASSUME NEW s \in Seq(Row), \A i \in DOMAIN s : s[i].type # "deleted"
  PROVE  RightSide(s) = Rights(s)
  <1>1. s \in Seq(Range(s)) /\ Range(s) = {s[i] : i \in 1 .. Len(s)} /\ DOMAIN s = 1 .. Len(s)
    BY SeqOfRange, RangeEquality, LenProperties
  <1>2. Range(s) \subseteq {r \in Range(s) : r.type # "deleted"}
    BY <1>1
  <1>3. Kept(s, {r \in Range(s) : r.type # "deleted"}) = s
    BY <1>1, <1>2, KeptAll
  <1> QED BY <1>3 DEF RightSide

-----------------------------------------------------------------------------
(* The invariant.  View holds between the handlers; inside one, after a    *)
(* save, the page holds for a while that nothing was typed.                *)

AppState ==
  [head : [File -> Text], index : [File -> Text], work : [File -> Text], stash : Text,
   path : File \union {None}, staged : BOOLEAN, chunk : BOOLEAN, diff : Seq(Row), rows : Seq(Row),
   original : Text, buffer : Text, touched : BOOLEAN, edited : BOOLEAN, meant : Text,
   faults : Nat, slides : BOOLEAN]

View(s) ==
  /\ s.path = None => s.diff = <<>> /\ s.rows = <<>> /\ ~s.staged
  /\ s.original = Rights(s.diff)
  /\ s.chunk \/ s.staged => Rights(s.rows) = Rights(s.diff)
  /\ RightSide(s.rows) = s.meant
  /\ ~s.chunk /\ Tells(s.rows) =>
       s.buffer = Rights(s.rows) /\ (s.edited => Rights(s.rows) # s.original)
  /\ ~s.edited => s.buffer = Rights(s.rows) /\ Rights(s.rows) = s.original

Counts ==
  /\ acts \in 0 .. MaxActs /\ edits \in 0 .. MaxEdits /\ outside \in Nat
  /\ app.faults + outside <= MaxTroubles

IInv == app \in AppState /\ View(app) /\ Counts


-----------------------------------------------------------------------------
(* The functions of the page. *)

AllOf(rows) ==
  [i \in DOMAIN rows |-> IF rows[i].type = "modified" THEN WithState(rows[i]) ELSE rows[i]]

LEMMA WithStateType ==
  ASSUME NEW r \in Row
  PROVE  WithState(r) \in Row /\ WithState(r).right = r.right /\ WithState(r).type # "deleted"
  BY DEF WithState, Row, RowType

LEMMA AllAlike == ASSUME NEW rows \in Seq(Row) PROVE AllOf(rows) \in Seq(Row) /\ Alike(AllOf(rows), rows)
  <1>1. Len(rows) \in Nat /\ DOMAIN rows = 1 .. Len(rows) /\ \A i \in 1 .. Len(rows) : rows[i] \in Row
    BY LenProperties, ElementOfSeq
  <1> DEFINE One(r) == IF r.type = "modified" THEN WithState(r) ELSE r
  <1>2. ASSUME NEW r \in Row
        PROVE  One(r) \in Row /\ One(r).right = r.right /\ (One(r).type = "deleted" <=> r.type = "deleted")
    BY WithStateType
  <1>3. AllOf(rows) = [i \in 1 .. Len(rows) |-> One(rows[i])]
    BY <1>1 DEF AllOf
  <1> HIDE DEF One
  <1>4. AllOf(rows) \in [1 .. Len(rows) -> Row]
    BY <1>1, <1>2, <1>3
  <1>5. AllOf(rows) \in Seq(Row)
    BY <1>1, <1>4, SeqDef
  <1>6. Len(AllOf(rows)) = Len(rows)
    BY <1>1, <1>4, <1>5, LenProperties
  <1>7. \A i \in 1 .. Len(rows) : AllOf(rows)[i] = One(rows[i])
    BY <1>3
  <1> QED BY <1>1, <1>2, <1>5, <1>6, <1>7 DEF Alike

LEMMA TellsSame ==
  ASSUME NEW s \in Seq(Row), NEW t \in Seq(Row), Rights(s) = Rights(t)
  PROVE  Tells(s) <=> Tells(t)
  <1> DEFINE Says(x) == \E i \in 1 .. Len(x) : x[i] # Blank
  <1>1. ASSUME NEW r \in Seq(Row) PROVE Tells(r) <=> Says(Rights(r))
    <2>1. Len(Rights(r)) = Len(r) /\ \A i \in 1 .. Len(r) : Rights(r)[i] = r[i].right
      BY RightsType
    <2>2. DOMAIN r = 1 .. Len(r) BY LenProperties
    <2> QED BY <2>1, <2>2 DEF Tells
  <1> HIDE DEF Says
  <1> QED BY <1>1

\* The same page, whatever the files are.
SamePage(s, t) ==
  /\ t.path = s.path /\ t.staged = s.staged /\ t.chunk = s.chunk /\ t.diff = s.diff /\ t.rows = s.rows
  /\ t.original = s.original /\ t.buffer = s.buffer /\ t.edited = s.edited /\ t.meant = s.meant

SameFiles(s, t) == t.head = s.head /\ t.index = s.index /\ t.work = s.work /\ t.faults = s.faults

\* A group of additions that is moved leaves a script.
LEMMA SlidType == ASSUME NEW s \in Seq(Entry) PROVE Slid(s) \in Seq(Entry)
  <1> DEFINE Slides(i, j) == /\ i < j /\ s[j].op = "context" /\ s[j].text = s[i].text
                             /\ \A k \in i .. j - 1 : s[k].op = "add"
                             /\ i > 1 => s[i - 1].op = "context"
             groups == {g \in (DOMAIN s) \X (DOMAIN s) : Slides(g[1], g[2])}
             g == CHOOSE g \in groups : TRUE
             n == Len(s)
  <1>1. n \in Nat /\ DOMAIN s = 1 .. n /\ \A i \in 1 .. n : s[i] \in Entry
    BY LenProperties, ElementOfSeq
  <1>2. Slid(s) = IF groups = {} THEN s
          ELSE [s EXCEPT ![g[1]].op = "context", ![g[1]].old = s[g[2]].old, ![g[2]].op = "add", ![g[2]].old = -1]
    BY DEF Slid
  <1>3. CASE groups = {}
    BY <1>2, <1>3
  <1>4. CASE groups # {}
    <2>1. g \in groups
      BY <1>4
    <2>a. \A e \in (1 .. n) \X (1 .. n) : e[1] \in 1 .. n /\ e[2] \in 1 .. n
      OBVIOUS
    <2>b. groups \subseteq (1 .. n) \X (1 .. n)
      BY <1>1
    <2> HIDE DEF groups, g, n
    <2>2. g[1] \in 1 .. n /\ g[2] \in 1 .. n
      BY <2>1, <2>a, <2>b
    <2> DEFINE x == g[1]
               y == g[2]
    <2>3. x \in 1 .. n /\ y \in 1 .. n
      BY <2>2
    <2>4. Slid(s) = [s EXCEPT ![x].op = "context", ![x].old = s[y].old, ![y].op = "add", ![y].old = -1]
      BY <1>2, <1>4 DEF groups, g
    <2> HIDE DEF x, y
    <2> DEFINE a == [s EXCEPT ![x].op = "context"]
               b == [a EXCEPT ![x].old = s[y].old]
               c == [b EXCEPT ![y].op = "add"]
               d == [c EXCEPT ![y].old = -1]
    <2>5. Slid(s) = d
      BY <2>4
    <2>6. s \in [1 .. n -> Entry]
      BY <1>1, LenProperties DEF n
    <2>7. a \in [1 .. n -> Entry]
      BY <2>3, <2>6 DEF Entry
    <2>8. s[y].old \in Int
      BY <1>1, <2>3 DEF Entry
    <2> HIDE DEF a
    <2>9. b \in [1 .. n -> Entry]
      BY <2>3, <2>7, <2>8 DEF Entry
    <2> HIDE DEF b
    <2>10. c \in [1 .. n -> Entry]
      BY <2>3, <2>9 DEF Entry
    <2> HIDE DEF c
    <2>11. d \in [1 .. n -> Entry]
      <3> DEFINE none == -1
      <3>1. none \in Int OBVIOUS
      <3>2. d = [c EXCEPT ![y].old = none] OBVIOUS
      <3> HIDE DEF none, d
      <3> QED BY <2>3, <2>10, <3>1, <3>2 DEF Entry
    <2> HIDE DEF d
    <2>12. n \in Nat BY <1>1
    <2> QED BY <2>5, <2>11, <2>12, SeqDef
  <1> QED BY <1>3, <1>4

LEMMA SettledIs ==
  ASSUME NEW s \in AppState, NEW rows \in Seq(Row)
  PROVE  LET t == Settled(s, rows) IN
         /\ t \in AppState /\ SameFiles(s, t)
         /\ t.path = s.path /\ t.staged = s.staged /\ t.chunk = s.chunk /\ t.diff = s.diff
         /\ t.original = s.original /\ t.meant = RightSide(rows)
         /\ t.rows = IF s.chunk THEN rows ELSE AllOf(rows)
         /\ t.buffer = IF ~s.chunk /\ Tells(rows) THEN Rights(rows) ELSE s.buffer
         /\ t.edited = (s.edited /\ (s.chunk \/ ~Tells(rows)))
  <1>1. RightSide(rows) \in Text /\ Rights(rows) \in Text /\ AllOf(rows) \in Seq(Row)
    BY RightSideType, RightsType, AllAlike
  <1> DEFINE rows2 == IF s.chunk THEN rows ELSE AllOf(rows)
             buffer2 == IF ~s.chunk /\ Tells(rows) THEN Rights(rows) ELSE s.buffer
             edited2 == s.edited /\ (s.chunk \/ ~Tells(rows))
  <1>2. rows2 \in Seq(Row) /\ buffer2 \in Text /\ edited2 \in BOOLEAN
    BY <1>1 DEF AppState
  <1>3. Settled(s, rows) =
          [s EXCEPT !.rows = rows2, !.buffer = buffer2, !.edited = edited2,
                    !.touched = FALSE, !.meant = RightSide(rows)]
    BY DEF Settled, AllOf, AppState
  <1> HIDE DEF rows2, buffer2, edited2
  <1>4. LET t == Settled(s, rows) IN
        /\ t \in AppState /\ SameFiles(s, t)
        /\ t.path = s.path /\ t.staged = s.staged /\ t.chunk = s.chunk /\ t.diff = s.diff
        /\ t.original = s.original /\ t.meant = RightSide(rows)
        /\ t.rows = rows2 /\ t.buffer = buffer2 /\ t.edited = edited2
    BY <1>1, <1>2, <1>3 DEF AppState, SameFiles
  <1> QED BY <1>4 DEF rows2, buffer2, edited2

LEMMA SettledView ==
  ASSUME NEW s \in AppState, NEW rows \in Seq(Row), s.diff = rows,
         s.path = None => rows = <<>> /\ ~s.staged,
         s.original = Rights(rows), ~s.edited => s.buffer = Rights(rows)
  PROVE  View(Settled(s, rows))
  <1> DEFINE t == Settled(s, rows)
  <1>1. /\ t.path = s.path /\ t.staged = s.staged /\ t.chunk = s.chunk /\ t.diff = s.diff
        /\ t.original = s.original /\ t.meant = RightSide(rows)
        /\ t.rows = IF s.chunk THEN rows ELSE AllOf(rows)
        /\ t.buffer = IF ~s.chunk /\ Tells(rows) THEN Rights(rows) ELSE s.buffer
        /\ t.edited = (s.edited /\ (s.chunk \/ ~Tells(rows)))
    BY SettledIs
  <1> HIDE DEF t
  <1>2. /\ AllOf(rows) \in Seq(Row) /\ Rights(AllOf(rows)) = Rights(rows)
        /\ RightSide(AllOf(rows)) = RightSide(rows)
    BY AllAlike, RightSideSame
  <1>3. /\ Rights(t.rows) = Rights(rows) /\ RightSide(t.rows) = RightSide(rows)
        /\ Tells(t.rows) <=> Tells(rows)
    BY <1>1, <1>2, TellsSame
  <1>4. rows = <<>> => AllOf(rows) = <<>>
    BY DEF AllOf
  <1>5. t.path = None => t.diff = <<>> /\ t.rows = <<>> /\ ~t.staged
    BY <1>1, <1>4
  <1>6. ~t.chunk /\ Tells(t.rows) => t.buffer = Rights(t.rows) /\ ~t.edited
    BY <1>1, <1>3
  <1>7. ~t.edited => t.buffer = Rights(t.rows) /\ Rights(t.rows) = t.original
    BY <1>1, <1>3
  <1>8. View(t)
    BY <1>1, <1>3, <1>5, <1>6, <1>7 DEF View
  <1> QED BY <1>8 DEF t

LEMMA DisplayedView ==
  ASSUME NEW s \in AppState, NEW rows \in Seq(Row), s.path = None => rows = <<>> /\ ~s.staged
  PROVE  LET t == Displayed(s, rows) IN
         t \in AppState /\ View(t) /\ SameFiles(s, t) /\ t.path = s.path
  <1> DEFINE u == [s EXCEPT !.diff = rows, !.original = Rights(rows), !.buffer = Rights(rows)]
  <1>1. Rights(rows) \in Text
    BY RightsType
  <1>2. /\ u \in AppState /\ SameFiles(s, u) /\ u.path = s.path /\ u.staged = s.staged
        /\ u.diff = rows /\ u.original = Rights(rows) /\ u.buffer = Rights(rows)
    BY <1>1 DEF AppState, SameFiles
  <1> HIDE DEF u
  <1>3. View(Settled(u, rows))
    BY <1>2, SettledView
  <1>4. Settled(u, rows) \in AppState /\ SameFiles(u, Settled(u, rows)) /\ Settled(u, rows).path = u.path
    BY <1>2, SettledIs
  <1>5. Displayed(s, rows) = Settled(u, rows)
    BY DEF Displayed, u
  <1> QED BY <1>2, <1>3, <1>4, <1>5 DEF SameFiles

LEMMA ShownView ==
  ASSUME NEW s \in AppState, NEW path \in File \union {None}, NEW staged \in BOOLEAN,
         path = None => ~staged
  PROVE  LET t == Shown(s, path, staged) IN
         t \in AppState /\ View(t) /\ SameFiles(s, t) /\ t.path = path
  <1> DEFINE u == [s EXCEPT !.path = path, !.staged = staged]
             script == Script((IF staged THEN s.head ELSE s.index)[path],
                              (IF staged THEN s.index ELSE s.work)[path])
             rows == IF path = None \/ (~staged /\ s.index[path] = Absent) THEN <<>>
                     ELSE RowsOf(IF s.slides THEN Slid(script) ELSE script)
  <1>1. u \in AppState /\ SameFiles(s, u) /\ u.path = path /\ u.staged = staged
    BY DEF AppState, SameFiles
  <1>2. rows \in Seq(Row) /\ (path = None => rows = <<>>)
    <2>1. CASE path = None \/ (~staged /\ s.index[path] = Absent)
      BY <2>1, EmptySeq
    <2>2. CASE ~(path = None \/ (~staged /\ s.index[path] = Absent))
      <3>1. s.head \in [File -> Text] /\ s.index \in [File -> Text] /\ s.work \in [File -> Text]
        BY DEF AppState
      <3>2. path \in File BY <2>2
      <3>3. /\ (IF staged THEN s.head ELSE s.index)[path] \in Text
            /\ (IF staged THEN s.index ELSE s.work)[path] \in Text
        BY <3>1, <3>2
      <3>4. script \in Seq(Entry)
        BY <3>3, ScriptType
      <3> HIDE DEF script
      <3>5. (IF s.slides THEN Slid(script) ELSE script) \in Seq(Entry)
        BY <3>4, SlidType
      <3> QED BY <2>2, <3>5, RowsOfType
    <2> QED BY <2>1, <2>2
  <1>3. Shown(s, path, staged) = Displayed(u, rows)
    BY DEF Shown
  <1> HIDE DEF u, rows
  <1> QED BY <1>1, <1>2, <1>3, DisplayedView DEF SameFiles

\* Between a save and the refresh after it the page may hold that nothing was
\* typed when something was.
Sound(s) == s \in AppState /\ (View(s) \/ ~s.edited)

\* The files but the one shown are as they were.
Keeps1(s, t) ==
  /\ t.head = s.head /\ t.index = s.index
  /\ \A p \in File : p # s.path => t.work[p] = s.work[p]

LEMMA SameView ==
  ASSUME NEW s \in AppState, NEW t \in AppState, SamePage(s, t)
  PROVE  (View(s) => View(t)) /\ (Sound(s) => Sound(t))
  BY DEF SamePage, View, Sound

LEMMA WrittenIs ==
  ASSUME NEW s \in AppState, NEW p \in File, NEW text \in Text, NEW outcome \in Outcome
  PROVE  LET t == Written(s, p, text, outcome) IN
         /\ t \in AppState /\ SamePage(s, t) /\ t.head = s.head /\ t.index = s.index
         /\ \A q \in File : q # p => t.work[q] = s.work[q]
         /\ outcome = "written" => t.work = [s.work EXCEPT ![p] = text] /\ t.faults = s.faults
         /\ outcome = "unopened" => t.work = s.work /\ t.faults = s.faults + 1
         /\ outcome = "cut" => t.work = [s.work EXCEPT ![p] = <<Blank>>] /\ t.faults = s.faults + 1
  <1> DEFINE empty == <<Blank>>
  <1>1. s.work \in [File -> Text] /\ empty \in Text
    <2>1. empty \in Text BY BlankType, OneIsSeq DEF Text
    <2> QED BY <2>1 DEF AppState
  <1> HIDE DEF empty
  <1> DEFINE done == [s.work EXCEPT ![p] = text]
             cut  == [s.work EXCEPT ![p] = empty]
  <1>2. /\ done \in [File -> Text] /\ cut \in [File -> Text]
        /\ \A q \in File : q # p => done[q] = s.work[q] /\ cut[q] = s.work[q]
    BY <1>1
  <1>3. CASE outcome = "written"
    <2>1. Written(s, p, text, outcome) = [s EXCEPT !.work = done]
      BY <1>3 DEF Written, AppState
    <2> HIDE DEF done
    <2>2. LET t == [s EXCEPT !.work = done] IN
          /\ t \in AppState /\ SamePage(s, t) /\ t.head = s.head /\ t.index = s.index /\ t.work = done
          /\ t.faults = s.faults
      BY <1>2 DEF AppState, SamePage
    <2> QED BY <1>2, <1>3, <2>1, <2>2 DEF done
  <1>4. CASE outcome = "unopened"
    <2>1. Written(s, p, text, outcome) = [s EXCEPT !.faults = s.faults + 1]
      BY <1>4 DEF Written, AppState
    <2>2. LET t == [s EXCEPT !.faults = s.faults + 1] IN
          /\ t \in AppState /\ SamePage(s, t) /\ t.head = s.head /\ t.index = s.index /\ t.work = s.work
          /\ t.faults = s.faults + 1
      BY DEF AppState, SamePage
    <2> QED BY <1>4, <2>1, <2>2
  <1>5. CASE outcome = "cut"
    <2>1. Written(s, p, text, outcome) = [s EXCEPT !.work = cut, !.faults = s.faults + 1]
      BY <1>5 DEF Written, AppState, empty
    <2> HIDE DEF cut, done
    <2> DEFINE v == [s EXCEPT !.work = cut]
               w == [v EXCEPT !.faults = s.faults + 1]
    <2>2. /\ v \in AppState /\ SamePage(s, v) /\ v.head = s.head /\ v.index = s.index /\ v.work = cut
          /\ v.faults = s.faults
      BY <1>2 DEF AppState, SamePage
    <2>3. [s EXCEPT !.work = cut, !.faults = s.faults + 1] = w
      OBVIOUS
    <2> HIDE DEF v
    <2>4. s.faults + 1 \in Nat
      BY DEF AppState
    <2>5. /\ w \in AppState /\ SamePage(v, w) /\ w.head = v.head /\ w.index = v.index /\ w.work = cut
          /\ w.faults = s.faults + 1
      BY <2>2, <2>4 DEF AppState, SamePage
    <2> HIDE DEF w
    <2>6. SamePage(s, w)
      BY <2>2, <2>5 DEF SamePage
    <2>7. Written(s, p, text, outcome) = w
      BY <2>1, <2>3
    <2> QED BY <1>2, <1>5, <2>2, <2>5, <2>6, <2>7 DEF cut, empty
  <1> QED BY <1>3, <1>4, <1>5 DEF Outcome

LEMMA WrittenKeeps ==
  ASSUME NEW s \in AppState, NEW p \in File, NEW text \in Text, NEW outcome \in Outcome
  PROVE  LET t == Written(s, p, text, outcome) IN
         /\ t \in AppState /\ SamePage(s, t) /\ t.head = s.head /\ t.index = s.index
         /\ \A q \in File : q # p => t.work[q] = s.work[q]
  <1> DEFINE t == Written(s, p, text, outcome)
  <1>1. /\ t \in AppState /\ SamePage(s, t) /\ t.head = s.head /\ t.index = s.index
        /\ \A q \in File : q # p => t.work[q] = s.work[q]
        /\ outcome = "written" => t.work = [s.work EXCEPT ![p] = text] /\ t.faults = s.faults
        /\ outcome = "unopened" => t.work = s.work /\ t.faults = s.faults + 1
        /\ outcome = "cut" => t.work = [s.work EXCEPT ![p] = <<Blank>>] /\ t.faults = s.faults + 1
    BY WrittenIs
  <1> HIDE DEF t
  <1>2. /\ t \in AppState /\ SamePage(s, t) /\ t.head = s.head /\ t.index = s.index
        /\ \A q \in File : q # p => t.work[q] = s.work[q]
    BY <1>1
  <1> QED BY <1>2 DEF t

LEMMA SavedIs ==
  ASSUME NEW s \in AppState, NEW outcome \in Outcome
  PROVE  LET t == Saved(s, outcome) IN
         /\ t \in AppState /\ t.path = s.path /\ Keeps1(s, t) /\ (Sound(s) => Sound(t))
         /\ s.path # None =>
              /\ outcome # "unopened" => ~t.edited
              /\ t.work = IF outcome = "unopened" THEN s.work
                          ELSE [s.work EXCEPT ![s.path] =
                                  IF outcome = "written" THEN Append(s.buffer, Blank) ELSE <<Blank>>]
  <1>1. CASE s.path = None
    <2>1. Saved(s, outcome) = s BY <1>1 DEF Saved
    <2> QED BY <1>1, <2>1 DEF Keeps1
  <1>2. CASE s.path # None
    <2> DEFINE text == Append(s.buffer, Blank)
               w == Written(s, s.path, text, outcome)
               t == [w EXCEPT !.edited = @ /\ outcome = "unopened"]
    <2>1. text \in Text
      <3>1. s.buffer \in Seq(Line) BY DEF AppState, Text
      <3> QED BY <3>1, BlankType, AppendProperties DEF Text
    <2>2. s.path \in File BY <1>2 DEF AppState
    <2> HIDE DEF text
    <2>3. /\ w \in AppState /\ SamePage(s, w) /\ w.head = s.head /\ w.index = s.index
          /\ \A q \in File : q # s.path => w.work[q] = s.work[q]
          /\ outcome = "written" => w.work = [s.work EXCEPT ![s.path] = text]
          /\ outcome = "unopened" => w.work = s.work
          /\ outcome = "cut" => w.work = [s.work EXCEPT ![s.path] = <<Blank>>]
      BY <2>1, <2>2, WrittenIs
    <2>4. Saved(s, outcome) = t
      BY <1>2 DEF Saved, text
    <2> HIDE DEF w
    <2>5. /\ t \in AppState /\ t.head = w.head /\ t.index = w.index /\ t.work = w.work
          /\ t.path = w.path /\ (t.edited <=> w.edited /\ outcome = "unopened")
          /\ outcome = "unopened" => SamePage(w, t)
      BY <2>3 DEF AppState, SamePage
    <2> HIDE DEF t
    <2>6. Sound(s) => Sound(t)
      <3>1. outcome = "unopened" => SamePage(s, t)
        BY <2>3, <2>5 DEF SamePage
      <3>2. outcome # "unopened" => ~t.edited
        BY <2>5
      <3> QED BY <2>5, <3>1, <3>2, SameView DEF Sound
    <2>7. t.path = s.path
      BY <2>3, <2>5 DEF SamePage
    <2>8. t.work = IF outcome = "unopened" THEN s.work
                   ELSE [s.work EXCEPT ![s.path] = IF outcome = "written" THEN text ELSE <<Blank>>]
      BY <2>3, <2>5 DEF Outcome
    <2> QED BY <1>2, <2>3, <2>4, <2>5, <2>6, <2>7, <2>8 DEF Keeps1, text
  <1> QED BY <1>1, <1>2

LEMMA AskedSound ==
  ASSUME NEW s, Sound(s), NEW answer
  PROVE  LET t == Asked(s, answer) IN Sound(t) /\ t.path = s.path /\ Keeps1(s, t)
  <1>0. s \in AppState
    BY DEF Sound
  <1>1. CASE s.edited /\ answer \in Outcome
    <2>1. Asked(s, answer) = Saved(s, answer) BY <1>1 DEF Asked
    <2> DEFINE t == Saved(s, answer)
    <2>2. t.path = s.path /\ Keeps1(s, t) /\ (Sound(s) => Sound(t))
      BY <1>0, <1>1, SavedIs
    <2> HIDE DEF t
    <2>3. Asked(s, answer) = t
      BY <2>1 DEF t
    <2> QED BY <2>2, <2>3
  <1>2. CASE ~(s.edited /\ answer \in Outcome)
    <2>1. Asked(s, answer) = s BY <1>2 DEF Asked
    <2> QED BY <2>1 DEF Keeps1
  <1> QED BY <1>1, <1>2

LEMMA SelectedSound ==
  ASSUME NEW s, Sound(s), NEW path \in File \union {None}, NEW staged \in BOOLEAN,
         path = None => ~staged, NEW answer
  PROVE  LET t == Selected(s, path, staged, answer) IN
         /\ t \in AppState /\ View(t) /\ Keeps1(s, t)
         /\ ~s.edited \/ answer \notin Outcome => t.work = s.work /\ t.faults = s.faults
  <1>0. s \in AppState
    BY DEF Sound
  <1>1. CASE path # s.path /\ ~Goes(s, answer)
    <2>1. Selected(s, path, staged, answer) = s BY <1>1 DEF Selected
    <2>2. View(s) BY <1>1 DEF Goes, Sound
    <2> QED BY <1>0, <2>1, <2>2 DEF Keeps1
  <1>2. CASE ~(path # s.path /\ ~Goes(s, answer))
    <2> DEFINE u == IF path = s.path THEN s ELSE Asked(s, answer)
    <2>1. u \in AppState /\ Keeps1(s, u)
      <3>1. Sound(Asked(s, answer)) /\ Keeps1(s, Asked(s, answer)) BY AskedSound
      <3> QED BY <1>0, <3>1 DEF Sound, Keeps1
    <2>2. ~s.edited \/ answer \notin Outcome => u = s BY DEF Asked
    <2>3. Selected(s, path, staged, answer) = Shown(u, path, staged) BY <1>2 DEF Selected
    <2> HIDE DEF u
    <2>4. LET t == Shown(u, path, staged) IN t \in AppState /\ View(t) /\ SameFiles(u, t)
      BY <2>1, ShownView
    <2> QED BY <2>1, <2>2, <2>3, <2>4 DEF Keeps1, SameFiles
  <1> QED BY <1>1, <1>2


LEMMA ListHead ==
  ASSUME NEW F, NEW N, NEW u \in Seq(F), NEW v \in Seq(F)
  PROVE  LET h == Head(u \o v \o <<N>>) IN
         IF u = <<>> /\ v = <<>> THEN h = N ELSE h \in F
  <1> DEFINE uv == u \o v
             S == F \union {N}
  <1>1. u \in Seq(S) /\ v \in Seq(S) /\ <<N>> \in Seq(S) /\ Len(<<N>>) = 1 /\ <<N>>[1] = N
    <2>1. F \subseteq S /\ N \in S OBVIOUS
    <2> HIDE DEF S
    <2> QED BY <2>1, SeqMonotonic, OneIsSeq
  <1>2. uv \in Seq(F) /\ uv \in Seq(S) /\ (uv = <<>> <=> u = <<>> /\ v = <<>>)
    <2>1. uv \in Seq(F) /\ (uv = <<>> <=> u = <<>> /\ v = <<>>) BY ConcatProperties, ConcatEqualIffEmpty
    <2> HIDE DEF S, uv
    <2>2. F \subseteq S BY DEF S
    <2> QED BY <2>1, <2>2, SeqMonotonic
  <1> HIDE DEF uv, S
  <1> DEFINE l == uv \o <<N>>
  <1>3. /\ l \in Seq(S) /\ Len(l) = Len(uv) + 1 /\ Len(uv) \in Nat
        /\ \A i \in 1 .. Len(uv) + 1 : l[i] = IF i <= Len(uv) THEN uv[i] ELSE <<N>>[i - Len(uv)]
    BY <1>1, <1>2, ConcatProperties, LenProperties
  <1>4. Head(l) = l[1]
    <2>1. Head(<<N>>) = N OBVIOUS
    <2> HIDE DEF l
    <2> QED BY <1>3 
  <1>5. CASE uv = <<>>
    <2>1. Len(uv) = 0 BY <1>2, <1>5, EmptySeq
    <2>2. l[1] = N BY <1>1, <1>3, <2>1
    <2> QED BY <1>2, <1>4, <1>5, <2>2 DEF uv
  <1>6. CASE uv # <<>>
    <2>1. Len(uv) \in Nat \ {0} BY <1>2, <1>6, EmptySeq
    <2>2. uv[1] \in F BY <1>2, <2>1, ElementOfSeq
    <2>3. l[1] = uv[1] BY <1>3, <2>1
    <2> QED BY <1>2, <1>4, <1>6, <2>2, <2>3 DEF uv
  <1> QED BY <1>5, <1>6

LEMMA UpdatedSound ==
  ASSUME NEW s, Sound(s), NEW answer
  PROVE  LET t == Updated(s, answer) IN
         /\ t \in AppState /\ View(t) /\ Keeps1(s, t)
         /\ ~s.edited \/ answer \notin Outcome => t.work = s.work /\ t.faults = s.faults
  <1> DEFINE unstaged == Kept(Paths, {p \in File : IsUnstaged(s, p)})
             staged   == Kept(Paths, {p \in File : IsStaged(s, p)})
             first    == Head(unstaged \o staged \o <<None>>)
             which    == unstaged = <<>> /\ staged # <<>>
  <1>1. Paths \in Seq(File)
    BY PathsAssumption, SeqOfRange DEF File
  <1>2. unstaged \in Seq(File) /\ staged \in Seq(File)
    BY <1>1, KeptType
  <1>3. Updated(s, answer) = Selected(s, first, which, answer)
    BY DEF Updated
  <1> HIDE DEF unstaged, staged
  <1>4. IF unstaged = <<>> /\ staged = <<>> THEN first = None ELSE first \in File
    BY <1>2, ListHead
  <1> HIDE DEF first
  <1>5. first \in File \union {None} /\ which \in BOOLEAN /\ (first = None => ~which)
    BY <1>4, PathsAssumption
  <1> HIDE DEF which
  <1> QED BY <1>3, <1>5, SelectedSound

\* A refresh whose question is answered so writes no file.
LEMMA AbortedKeeps ==
  ASSUME NEW s, Sound(s)
  PROVE  LET t == Updated(s, "abort") IN t \in AppState /\ t.work = s.work
  <1>1. "abort" \notin Outcome
    BY DEF Outcome
  <1> QED BY <1>1, UpdatedSound

LEMMA FilesType ==
  ASSUME NEW s \in AppState
  PROVE  /\ s.head \in [File -> Text] /\ s.index \in [File -> Text] /\ s.work \in [File -> Text]
         /\ \A p \in File : Script(s.index[p], s.work[p]) \in Seq(Entry)
  <1>1. s.head \in [File -> Text] /\ s.index \in [File -> Text] /\ s.work \in [File -> Text]
    BY DEF AppState
  <1>2. \A p \in File : s.index[p] \in Text /\ s.work[p] \in Text
    BY <1>1
  <1> QED BY <1>1, <1>2, ScriptType

LEMMA BuiltType ==
  ASSUME NEW s \in AppState, NEW p \in File, NEW range
  PROVE  Built(s, p, range) \in Text
  <1> DEFINE q == PatchOf(s, p, range)
             script == Script(s.index[q], s.work[q])
  <1>1. q \in File
    <2> DEFINE changed == Kept(Paths, {r \in File : Tracked(s, r) /\ IsUnstaged(s, r)})
    <2>1. Paths \in Seq(File) BY PathsAssumption, SeqOfRange DEF File
    <2>2. changed \in Seq(File) BY <2>1, KeptType
    <2>3. q = IF range.type # "deleted" THEN p ELSE IF changed = <<>> THEN p ELSE changed[1]
      BY DEF PatchOf
    <2> HIDE DEF changed, q
    <2>4. changed # <<>> => changed[1] \in File
      <3>1. changed # <<>> => Len(changed) \in Nat \ {0} BY <2>2, EmptySeq
      <3> QED BY <2>2, <3>1, ElementOfSeq
    <2> QED BY <2>3, <2>4
  <1>2. script \in Seq(Entry) /\ s.index[p] \in Text
    BY <1>1, FilesType
  <1>3. Walked(s.index[p], script, Taken(script, range)) \in Text
    <2> HIDE DEF script
    <2> QED BY <1>2, WalkedType
  <1>4. Built(s, p, range) = IF ~Tracked(s, p) \/ ~IsUnstaged(s, q) THEN Absent
                             ELSE Walked(s.index[p], script, Taken(script, range))
    BY DEF Built
  <1> HIDE DEF q, script
  <1> QED BY <1>3, <1>4, BlankType

\* A change of the files.
WithFiles(s, head, index, work) == [s EXCEPT !.head = head, !.index = index, !.work = work]

LEMMA ChangedSound ==
  ASSUME NEW s, Sound(s), NEW head \in [File -> Text], NEW index \in [File -> Text], NEW work \in [File -> Text]
  PROVE  LET t == WithFiles(s, head, index, work) IN
         Sound(t) /\ SamePage(s, t) /\ t.head = head /\ t.index = index /\ t.work = work
  <1> DEFINE t == WithFiles(s, head, index, work)
  <1>1. s \in AppState
    BY DEF Sound
  <1>2. t \in AppState /\ SamePage(s, t) /\ t.head = head /\ t.index = index /\ t.work = work
    BY <1>1 DEF AppState, SamePage, WithFiles
  <1> HIDE DEF t
  <1>3. Sound(t)
    BY <1>1, <1>2, SameView
  <1> QED BY <1>2, <1>3 DEF t

\* A failure is no part of the page.
LEMMA FailingSound ==
  ASSUME NEW s, Sound(s), NEW files
  PROVE  LET t == Failing(s, files) IN
         /\ Sound(t) /\ t.path = s.path /\ t.head = s.head /\ t.index = s.index /\ t.work = s.work
         /\ t.edited = s.edited
         /\ files # {} => t.faults = s.faults + 1
  <1>1. s \in AppState
    BY DEF Sound
  <1>2. CASE files = {}
    <2>1. Failing(s, files) = s BY <1>2 DEF Failing
    <2> QED BY <1>2, <2>1
  <1>3. CASE files # {}
    <2>1. Failing(s, files) = [s EXCEPT !.faults = s.faults + 1]
      BY <1>1, <1>3 DEF Failing, AppState
    <2> DEFINE t == [s EXCEPT !.faults = s.faults + 1]
    <2>2. /\ t \in AppState /\ SamePage(s, t) /\ t.head = s.head /\ t.index = s.index /\ t.work = s.work
          /\ t.faults = s.faults + 1
      BY <1>1 DEF AppState, SamePage
    <2> HIDE DEF t
    <2>3. Sound(t)
      BY <1>1, <2>2, SameView
    <2> QED BY <2>1, <2>2, <2>3 DEF t, SamePage
  <1> QED BY <1>2, <1>3

LEMMA RevertedSound ==
  ASSUME NEW s, Sound(s), NEW p \in File, p = s.path, NEW range, NEW outcome \in Outcome
  PROVE  LET t == Reverted(s, p, range, outcome) IN Sound(t) /\ t.path = s.path /\ Keeps1(s, t)
  <1> DEFINE script == Script(s.index[p], s.work[p])
             kept == {i \in DOMAIN script : script[i].op # "context"} \ Taken(script, range)
             text == AsFile(Walked(s.index[p], script, kept))
             t == Written(s, p, text, outcome)
  <1>0. s \in AppState
    BY DEF Sound
  <1>1. script \in Seq(Entry) /\ s.index[p] \in Text
    BY <1>0, FilesType
  <1>2. Walked(s.index[p], script, kept) \in Text
    <2> HIDE DEF script, kept
    <2> QED BY <1>1, WalkedType
  <1>3. Reverted(s, p, range, outcome) = IF ~Tracked(s, p) \/ ~IsUnstaged(s, p) THEN s ELSE t
    BY DEF Reverted
  <1>4. text \in Text
    <2>1. <<Blank>> \in Text BY BlankType, OneIsSeq DEF Text
    <2> HIDE DEF script, kept
    <2> QED BY <1>2, <2>1 DEF AsFile
  <1> HIDE DEF text
  <1>5. /\ t \in AppState /\ SamePage(s, t) /\ t.head = s.head /\ t.index = s.index
        /\ \A q \in File : q # p => t.work[q] = s.work[q]
    <2> HIDE DEF script, kept
    <2> QED BY <1>0, <1>4, WrittenKeeps
  <1> HIDE DEF t
  <1>6. Sound(t) /\ t.path = s.path /\ Keeps1(s, t)
    BY <1>0, <1>5, SameView DEF SamePage, Keeps1
  <1>7. Reverted(s, p, range, outcome) \in {s, t}
    BY <1>3
  <1> QED BY <1>6, <1>7 DEF Keeps1


-----------------------------------------------------------------------------
(* The edits: the rows after one show the lines that the edit is meant to  *)
(* make.                                                                   *)

LEMMA RestatedType ==
  ASSUME NEW r \in Row, r.type # "deleted", NEW line \in Line
  PROVE  LET e == Restated([r EXCEPT !.right = line]) IN
         e \in Row /\ e.right = line /\ e.type # "deleted" /\ Shows(e) = <<line>>
  <1> DEFINE q == [r EXCEPT !.right = line]
  <1>1. q \in Row /\ q.right = line
    BY DEF Row
  <1> HIDE DEF q
  <1>2. Restated(q) \in Row /\ Restated(q).right = line /\ Restated(q).type # "deleted"
    BY <1>1, WithStateType DEF Restated
  <1> QED BY <1>2 DEF q, Shows

\* Renumbering the lines changes none.
LEMMA RenumberedAlike ==
  ASSUME NEW rows \in Seq(Row), NEW i \in Int, NEW n \in Int
  PROVE  LET t == Renumbered(rows, i, n) IN
         t \in Seq(Row) /\ RightSide(t) = RightSide(rows)
  <1>1. Len(rows) \in Nat /\ DOMAIN rows = 1 .. Len(rows) /\ \A j \in 1 .. Len(rows) : rows[j] \in Row
    BY LenProperties, ElementOfSeq
  <1> DEFINE One(j) == IF j < i \/ rows[j].new = -1 THEN rows[j] ELSE [rows[j] EXCEPT !.new = @ + n]
             t == Renumbered(rows, i, n)
  <1>2. ASSUME NEW j \in 1 .. Len(rows)
        PROVE  One(j) \in Row /\ One(j).right = rows[j].right /\ One(j).type = rows[j].type
    <2>1. rows[j] \in Row BY <1>1
    <2>2. rows[j].new \in Int BY <2>1 DEF Row
    <2>3. rows[j].new + n \in Int BY <2>2
    <2> QED BY <2>1, <2>3 DEF Row
  <1>3. t = [j \in 1 .. Len(rows) |-> One(j)]
    BY <1>1 DEF Renumbered
  <1> HIDE DEF One, t
  <1>4. t \in [1 .. Len(rows) -> Row]
    BY <1>2, <1>3
  <1>5. t \in Seq(Row)
    BY <1>1, <1>4, SeqDef
  <1>6. Len(t) = Len(rows)
    BY <1>1, <1>4, <1>5, LenProperties
  <1>7. \A j \in 1 .. Len(rows) : t[j] = One(j)
    BY <1>3
  <1>8. Alike(t, rows)
    BY <1>2, <1>6, <1>7 DEF Alike
  <1>9. RightSide(t) = RightSide(rows)
    BY <1>5, <1>8, RightSideSame
  <1> QED BY <1>5, <1>9 DEF t

\* The rows up to one that is seen.
LEMMA SeenIs ==
  ASSUME NEW a \in Seq(Row), NEW r \in Row, r.type # "deleted"
  PROVE  /\ RightSide(a \o <<r>>) = RightSide(a) \o <<r.right>>
         /\ Len(RightSide(a \o <<r>>)) = Len(RightSide(a)) + 1
         /\ RightSide(a) \in Seq(Line) /\ Len(RightSide(a)) \in Nat /\ r.right \in Line
         /\ a \o <<r>> \in Seq(Row)
  <1>1. r.right \in Line
    BY DEF Row
  <1>2. RightSide(a) \in Seq(Line)
    BY RightSideType DEF Text
  <1>3. RightSide(a \o <<r>>) = RightSide(a) \o <<r.right>> /\ a \o <<r>> \in Seq(Row)
    BY RowIsSeq, RightSideOfJoined, RightSideOfOne, ConcatProperties DEF Shows
  <1>4. Len(RightSide(a) \o <<r.right>>) = Len(RightSide(a)) + 1 /\ Len(RightSide(a)) \in Nat
    BY <1>1, <1>2, OneIsSeq, ConcatProperties, LenProperties
  <1> QED BY <1>1, <1>2, <1>3, <1>4

LEMMA RowPut2 ==
  ASSUME NEW a \in Seq(Row), NEW x \in Row, NEW y \in Row, NEW b \in Seq(Row)
  PROVE  Put2(a, x, y, b)[Len(a) + 1] = x
  BY Put2First

LEMMA PutShows ==
  ASSUME NEW a \in Seq(Row), NEW r \in Row, NEW b \in Seq(Row), r.type # "deleted"
  PROVE  /\ Put(a, r, b) \in Seq(Row)
         /\ RightSide(Put(a, r, b)) = Put(RightSide(a), r.right, RightSide(b))
  <1>1. (a \o <<r>>) \o b \in Seq(Row)
    BY Joined3
  <1>2. RightSide((a \o <<r>>) \o b) = (RightSide(a) \o Shows(r)) \o RightSide(b)
    BY RightSideOfThree
  <1>3. Shows(r) = <<r.right>>
    BY DEF Shows
  <1> QED BY <1>1, <1>2, <1>3 DEF Put

LEMMA Put2Shows ==
  ASSUME NEW a \in Seq(Row), NEW r \in Row, NEW q \in Row, NEW b \in Seq(Row), r.type # "deleted"
  PROVE  /\ Put2(a, r, q, b) \in Seq(Row)
         /\ RightSide(Put2(a, r, q, b)) =
              IF q.type = "deleted" THEN Put(RightSide(a), r.right, RightSide(b))
              ELSE Put2(RightSide(a), r.right, q.right, RightSide(b))
  <1>1. a \o <<r>> \in Seq(Row)
    BY RowIsSeq, ConcatProperties
  <1>2. ((a \o <<r>>) \o <<q>>) \o b \in Seq(Row)
    BY <1>1, Joined3
  <1>3. RightSide(((a \o <<r>>) \o <<q>>) \o b)
          = ((RightSide(a) \o <<r.right>>) \o Shows(q)) \o RightSide(b)
    <2>1. Shows(r) = <<r.right>> BY DEF Shows
    <2>2. RightSide(((a \o <<r>>) \o <<q>>) \o b)
            = ((RightSide(a) \o Shows(r)) \o Shows(q)) \o RightSide(b)
      BY RightSideOfFour
    <2> QED BY <2>1, <2>2
  <1>4. CASE q.type = "deleted"
    <2>1. RightSide(a) \o <<r.right>> \in Seq(Line)
      <3>1. r.right \in Line BY DEF Row
      <3>2. RightSide(a) \in Seq(Line) BY RightSideType DEF Text
      <3> QED BY <3>1, <3>2, OneMore
    <2>2. Shows(q) = <<>> BY <1>4 DEF Shows
    <2>3. (RightSide(a) \o <<r.right>>) \o <<>> = RightSide(a) \o <<r.right>> BY <2>1, ConcatEmptySeq
    <2> QED BY <1>2, <1>3, <1>4, <2>2, <2>3 DEF Put, Put2
  <1>5. CASE q.type # "deleted"
    <2>1. Shows(q) = <<q.right>> BY <1>5 DEF Shows
    <2> QED BY <1>2, <1>3, <1>5, <2>1 DEF Put2
  <1> QED BY <1>4, <1>5

\* The rows cut at one of them.
Before(rows, i) == SubSeq(rows, 1, i - 1)
After(rows, i) == SubSeq(rows, i + 1, Len(rows))
SeenAt(rows, i) == Len(RightSide(SubSeq(rows, 1, i)))

LEMMA CutAt ==
  ASSUME NEW rows \in Seq(Row), NEW i \in 1 .. Len(rows)
  PROVE  /\ Before(rows, i) \in Seq(Row) /\ After(rows, i) \in Seq(Row) /\ rows[i] \in Row
         /\ i = Len(Before(rows, i)) + 1
         /\ rows = Put(Before(rows, i), rows[i], After(rows, i))
         /\ SubSeq(rows, 1, i) = Before(rows, i) \o <<rows[i]>>
         /\ RightSide(Before(rows, i)) \in Seq(Line) /\ RightSide(After(rows, i)) \in Seq(Line)
         /\ rows[i].right \in Line
  <1>1. i \in Nat /\ rows[i] \in Row
    BY ElementOfSeq, LenProperties
  <1>2. /\ Before(rows, i) \in Seq(Row) /\ After(rows, i) \in Seq(Row) /\ Len(Before(rows, i)) = i - 1
        /\ rows = Put(Before(rows, i), rows[i], After(rows, i))
    BY Pieces3 DEF Before, After, Put
  <1>3. SubSeq(rows, 1, i) = Before(rows, i) \o <<rows[i]>>
    BY LenProperties, SubSeqRecursiveSecond DEF Before
  <1>4. RightSide(Before(rows, i)) \in Seq(Line) /\ RightSide(After(rows, i)) \in Seq(Line)
    BY <1>2, RightSideType DEF Text
  <1>5. rows[i].right \in Line
    BY <1>1 DEF Row
  <1>6. i = Len(Before(rows, i)) + 1
    BY <1>1, <1>2
  <1> QED BY <1>1, <1>2, <1>3, <1>4, <1>5, <1>6

LEMMA SeenAtIs ==
  ASSUME NEW rows \in Seq(Row), NEW i \in 1 .. Len(rows), rows[i].type # "deleted"
  PROVE  SeenAt(rows, i) = Len(RightSide(Before(rows, i))) + 1
  <1>1. /\ Before(rows, i) \in Seq(Row) /\ rows[i] \in Row
        /\ SubSeq(rows, 1, i) = Before(rows, i) \o <<rows[i]>>
    BY CutAt
  <1>2. Len(RightSide(Before(rows, i) \o <<rows[i]>>)) = Len(RightSide(Before(rows, i))) + 1
    BY <1>1, SeenIs
  <1> QED BY <1>1, <1>2 DEF SeenAt

LEMMA CutAt2 ==
  ASSUME NEW rows \in Seq(Row), NEW i \in 1 .. Len(rows), i < Len(rows)
  PROVE  /\ After(rows, i + 1) \in Seq(Row) /\ rows[i + 1] \in Row
         /\ rows = Put2(Before(rows, i), rows[i], rows[i + 1], After(rows, i + 1))
         /\ RightSide(After(rows, i + 1)) \in Seq(Line) /\ rows[i + 1].right \in Line
  <1>1. Len(rows) \in Nat /\ i + 1 \in 1 .. Len(rows) /\ (i + 1) - 1 = i
    BY LenProperties
  <1>2. /\ After(rows, i + 1) \in Seq(Row) /\ rows[i + 1] \in Row /\ rows[i + 1].right \in Line
        /\ rows = Put(SubSeq(rows, 1, i), rows[i + 1], After(rows, i + 1))
        /\ RightSide(After(rows, i + 1)) \in Seq(Line)
    BY <1>1, CutAt DEF Before
  <1>3. SubSeq(rows, 1, i) = Before(rows, i) \o <<rows[i]>>
    BY CutAt
  <1> QED BY <1>2, <1>3 DEF Put, Put2


\* A line typed in a row.
LEMMA TypeShows ==
  ASSUME NEW rows \in Seq(Row), NEW i \in 1 .. Len(rows), rows[i].type # "deleted", NEW line \in Line
  PROVE  LET t == With(rows, i, Restated([rows[i] EXCEPT !.right = line])) IN
         /\ t \in Seq(Row) /\ RightSide(t) = With(RightSide(rows), SeenAt(rows, i), line)
         /\ Len(t) = Len(rows)
  <1> DEFINE a == Before(rows, i)
             b == After(rows, i)
             r == rows[i]
             e == Restated([r EXCEPT !.right = line])
             n == SeenAt(rows, i)
  <1>1. /\ a \in Seq(Row) /\ b \in Seq(Row) /\ r \in Row /\ i = Len(a) + 1
        /\ rows = Put(a, r, b) /\ r.right \in Line
        /\ RightSide(a) \in Seq(Line) /\ RightSide(b) \in Seq(Line)
    BY CutAt
  <1>2. n = Len(RightSide(a)) + 1
    BY SeenAtIs
  <1>3. e \in Row /\ e.right = line /\ e.type # "deleted"
    BY <1>1, RestatedType
  <1>4. Len(With(rows, i, e)) = Len(rows)
    BY <1>3, ExceptSeq DEF With
  <1>5. r.type # "deleted"
    OBVIOUS
  <1> HIDE DEF a, b, r, e, n
  <1>6. With(rows, i, e) = Put(a, e, b)
    BY <1>1, <1>3, PutWith
  <1>7. Put(a, e, b) \in Seq(Row) /\ RightSide(Put(a, e, b)) = Put(RightSide(a), line, RightSide(b))
    BY <1>1, <1>3, PutShows
  <1>8. RightSide(rows) = Put(RightSide(a), r.right, RightSide(b))
    BY <1>1, <1>5, PutShows
  <1>9. With(RightSide(rows), n, line) = Put(RightSide(a), line, RightSide(b))
    BY <1>1, <1>2, <1>8, PutWith
  <1> QED BY <1>4, <1>6, <1>7, <1>9 DEF e, r, n

\* What the texts become when a line is split: x is the line before.
LEMMA LinesSplit ==
  ASSUME NEW a \in Seq(Line), NEW x \in Line, NEW b \in Seq(Line), NEW before \in Line, NEW after \in Line,
         NEW n, n = Len(a) + 1
  PROVE  InsertAt(With(Put(a, x, b), n, before), n + 1, after) = Put2(a, before, after, b)
  <1>1. With(Put(a, x, b), n, before) = Put(a, before, b)
    BY PutWith
  <1>2. n + 1 = Len(a) + 2
    BY LenProperties
  <1> QED BY <1>1, <1>2, PutInsert

\* The half after the cursor is put in the deleted row that follows, or in a
\* row of its own.
LEMMA SplitShows ==
  ASSUME NEW rows \in Seq(Row), NEW i \in 1 .. Len(rows), rows[i].type # "deleted",
         NEW before \in Line, NEW after \in Line
  PROVE  LET cut == With(rows, i, Restated([rows[i] EXCEPT !.right = before]))
             next == [type |-> "added", left |-> Blank, right |-> after,
                      old |-> -1, new |-> rows[i].new + 1]
             t == IF i < Len(rows) /\ rows[i + 1].type = "deleted"
                    THEN With(cut, i + 1, WithState([cut[i + 1] EXCEPT !.right = after]))
                    ELSE InsertAt(cut, i + 1, next)
         IN /\ t \in Seq(Row)
            /\ RightSide(t) = InsertAt(With(RightSide(rows), SeenAt(rows, i), before),
                                       SeenAt(rows, i) + 1, after)
  <1> DEFINE a == Before(rows, i)
             b == After(rows, i)
             r == rows[i]
             e == Restated([r EXCEPT !.right = before])
             cut == With(rows, i, e)
             next == [type |-> "added", left |-> Blank, right |-> after, old |-> -1, new |-> r.new + 1]
             t == IF i < Len(rows) /\ rows[i + 1].type = "deleted"
                    THEN With(cut, i + 1, WithState([cut[i + 1] EXCEPT !.right = after]))
                    ELSE InsertAt(cut, i + 1, next)
             n == SeenAt(rows, i)
             meant == InsertAt(With(RightSide(rows), n, before), n + 1, after)
  <1>1. /\ a \in Seq(Row) /\ b \in Seq(Row) /\ r \in Row /\ i = Len(a) + 1
        /\ rows = Put(a, r, b) /\ r.right \in Line
        /\ RightSide(a) \in Seq(Line) /\ RightSide(b) \in Seq(Line)
    BY CutAt
  <1>2. n = Len(RightSide(a)) + 1
    BY SeenAtIs
  <1>3. e \in Row /\ e.right = before /\ e.type # "deleted"
    BY <1>1, RestatedType
  <1>4. r.type # "deleted" /\ i + 1 = Len(a) + 2
    BY <1>1, LenProperties
  <1>5. CASE i < Len(rows) /\ rows[i + 1].type = "deleted"
    <2> DEFINE c == After(rows, i + 1)
               q == rows[i + 1]
               f == WithState([q EXCEPT !.right = after])
    <2>1. /\ c \in Seq(Row) /\ q \in Row /\ rows = Put2(a, r, q, c) /\ RightSide(c) \in Seq(Line)
      BY <1>5, CutAt2
    <2>2. f \in Row /\ f.right = after /\ f.type # "deleted"
      <3>1. [q EXCEPT !.right = after] \in Row /\ [q EXCEPT !.right = after].right = after
        BY <2>1 DEF Row
      <3> QED BY <3>1, WithStateType
    <2>3. q.type = "deleted" BY <1>5
    <2>4. t = With(cut, i + 1, WithState([cut[i + 1] EXCEPT !.right = after]))
      <3> HIDE DEF cut
      <3> QED BY <1>5
    <2> HIDE DEF a, b, r, e, next, n, c, q
    <2>5. cut = Put2(a, e, q, c) BY <1>1, <1>3, <2>1, Put2First
    <2> HIDE DEF cut
    <2>6. cut[i + 1] = q
      <3>1. Put2(a, e, q, c)[i + 1] = q
        BY ONLY <1>1, <1>3, <1>4, <2>1, Put2Second
      <3> QED BY <2>5, <3>1
    <2>7. t = With(cut, i + 1, f) BY <2>4, <2>6
    <2> HIDE DEF f, t
    <2>8. t = Put2(a, e, f, c) BY <1>1, <1>3, <1>4, <2>1, <2>2, <2>5, <2>7, Put2Second
    <2>9. t \in Seq(Row) /\ RightSide(t) = Put2(RightSide(a), before, after, RightSide(c))
      BY <1>1, <1>3, <2>1, <2>2, <2>8, Put2Shows
    <2>10. RightSide(rows) = Put(RightSide(a), r.right, RightSide(c))
      BY <1>1, <1>4, <2>1, <2>3, Put2Shows
    <2>11. meant = Put2(RightSide(a), before, after, RightSide(c))
      BY <1>1, <1>2, <2>1, <2>10, LinesSplit
    <2> QED BY <2>9, <2>11 DEF n, t, cut, next, e, r
  <1>6. CASE ~(i < Len(rows) /\ rows[i + 1].type = "deleted")
    <2>1. next \in Row /\ next.right = after /\ next.type # "deleted"
      <3>1. r.new \in Int BY <1>1 DEF Row
      <3>2. r.new + 1 \in Int /\ Blank \in Line BY <3>1, BlankType
      <3> QED BY <3>2 DEF Row, RowType
    <2>2. t = InsertAt(cut, i + 1, next)
      <3> HIDE DEF cut, next
      <3> QED BY <1>6
    <2> HIDE DEF a, b, r, e, next, n, t
    <2>3. cut = Put(a, e, b) BY <1>1, <1>3, PutWith
    <2> HIDE DEF cut
    <2>4. t = Put2(a, e, next, b) BY <1>1, <1>3, <1>4, <2>1, <2>2, <2>3, PutInsert
    <2>5. t \in Seq(Row) /\ RightSide(t) = Put2(RightSide(a), before, after, RightSide(b))
      BY <1>1, <1>3, <2>1, <2>4, Put2Shows
    <2>6. RightSide(rows) = Put(RightSide(a), r.right, RightSide(b))
      BY <1>1, <1>4, PutShows
    <2>7. meant = Put2(RightSide(a), before, after, RightSide(b))
      BY <1>1, <1>2, <2>6, LinesSplit
    <2> QED BY <2>5, <2>7 DEF n, t, cut, next, e, r
  <1> QED BY <1>5, <1>6

\* The row of a line that is joined to the one above goes, or stays as deleted.
LEMMA MergeShows ==
  ASSUME NEW rows \in Seq(Row), NEW i \in 1 .. Len(rows), rows[i].type # "deleted",
         i > 1, rows[i - 1].type # "deleted", NEW joined \in Line
  PROVE  LET up == With(rows, i - 1, [rows[i - 1] EXCEPT !.right = joined])
             gone == With(up, i, [up[i] EXCEPT !.type = "deleted"])
             t == IF rows[i].type = "added" THEN RemoveAt(up, i)
                  ELSE With(gone, i - 1, WithState(gone[i - 1]))
         IN /\ t \in Seq(Row)
            /\ RightSide(t) = RemoveAt(With(RightSide(rows), SeenAt(rows, i) - 1, joined), SeenAt(rows, i))
  <1> DEFINE h == i - 1
             a == Before(rows, h)
             c == After(rows, h + 1)
             p == rows[h]
             r == rows[i]
             p2 == [p EXCEPT !.right = joined]
             r2 == [r EXCEPT !.type = "deleted"]
             up == With(rows, h, p2)
             gone == With(up, i, [up[i] EXCEPT !.type = "deleted"])
             t == IF r.type = "added" THEN RemoveAt(up, i) ELSE With(gone, h, WithState(gone[h]))
             n == SeenAt(rows, i)
             meant == RemoveAt(With(RightSide(rows), n - 1, joined), n)
             ra == RightSide(a)
             rc == RightSide(c)
  <1>0. h \in 1 .. Len(rows) /\ h < Len(rows) /\ h + 1 = i /\ i \in Int
    BY LenProperties
  <1>1. /\ a \in Seq(Row) /\ p \in Row /\ h = Len(a) + 1 /\ ra \in Seq(Line) /\ p.right \in Line
        /\ SubSeq(rows, 1, h) = a \o <<p>>
    <2> HIDE DEF h
    <2> QED BY <1>0, CutAt
  <1>2. /\ c \in Seq(Row) /\ r \in Row /\ rows = Put2(a, p, r, c) /\ rc \in Seq(Line) /\ r.right \in Line
    <2> HIDE DEF h
    <2> QED BY <1>0, CutAt2
  <1>3. p.type # "deleted" /\ r.type # "deleted"
    OBVIOUS
  <1>4. p2 \in Row /\ p2.right = joined /\ p2.type # "deleted"
    <2> HIDE DEF p
    <2> QED BY <1>1, <1>3 DEF Row
  <1>5. r2 \in Row /\ r2.type = "deleted"
    <2> HIDE DEF r
    <2> QED BY <1>2 DEF Row, RowType
  <1>6. WithState(p2) \in Row /\ WithState(p2).right = joined /\ WithState(p2).type # "deleted"
    <2> HIDE DEF p2
    <2> QED BY <1>4, WithStateType
  <1>7. n = Len(ra) + 2
    <2>1. Before(rows, i) = a \o <<p>> BY <1>1 DEF Before
    <2>2. n = Len(RightSide(Before(rows, i))) + 1 BY SeenAtIs
    <2>3. Len(RightSide(a \o <<p>>)) = Len(ra) + 1 /\ Len(ra) \in Nat
      <3> HIDE DEF a, p
      <3> QED BY <1>1, <1>3, SeenIs
    <2> HIDE DEF n, ra
    <2> QED BY <2>1, <2>2, <2>3
  <1>8. i = Len(a) + 2 /\ n - 1 = Len(ra) + 1
    <2>1. Len(a) \in Nat /\ Len(ra) \in Nat BY <1>1, LenProperties
    <2> HIDE DEF a, ra, n
    <2> QED BY <1>0, <1>1, <1>7, <2>1
  <1> HIDE DEF a, c, p, r, p2, r2, n, ra, rc
  <1>9. RightSide(rows) = Put2(ra, p.right, r.right, rc)
    BY <1>1, <1>2, <1>3, Put2Shows DEF ra, rc
  <1>10. meant = Put(ra, joined, rc)
    <2>1. With(RightSide(rows), n - 1, joined) = Put2(ra, joined, r.right, rc)
      <3> DEFINE m == n - 1
      <3>1. m = Len(ra) + 1 BY <1>8
      <3> HIDE DEF m
      <3>2. With(RightSide(rows), m, joined) = Put2(ra, joined, r.right, rc)
        BY <1>1, <1>2, <1>9, <3>1, Put2First
      <3> QED BY <3>2 DEF m
    <2> QED BY <1>1, <1>2, <1>7, <2>1, Put2Remove
  <1> HIDE DEF h
  <1>11. up = Put2(a, p2, r, c)
    BY <1>1, <1>2, <1>4, Put2First
  <1> HIDE DEF up
  <1> HIDE DEF meant
  <1>12. ASSUME r.type = "added" PROVE t \in Seq(Row) /\ RightSide(t) = meant
    <2>1. t = RemoveAt(up, i)
      <3> HIDE DEF gone
      <3> QED BY <1>12
    <2> HIDE DEF t
    <2>2. t = Put(a, p2, c) BY <1>1, <1>2, <1>4, <1>8, <1>11, <2>1, Put2Remove
    <2>3. t \in Seq(Row) /\ RightSide(t) = Put(ra, joined, rc)
      BY <1>1, <1>2, <1>4, <2>2, PutShows DEF ra, rc
    <2> QED BY <1>10, <2>3
  <1>13. ASSUME r.type # "added" PROVE t \in Seq(Row) /\ RightSide(t) = meant
    <2>1. t = With(gone, h, WithState(gone[h]))
      <3> HIDE DEF gone
      <3> QED BY <1>13
    <2>2. up[i] = r BY <1>1, <1>2, <1>4, <1>8, <1>11, Put2Second
    <2>3. gone = With(up, i, r2) BY <2>2 DEF r2
    <2> HIDE DEF gone, t
    <2>4. gone = Put2(a, p2, r2, c) BY <1>1, <1>2, <1>4, <1>5, <1>8, <1>11, <2>3, Put2Second
    <2>5. gone[h] = p2
      <3>1. Put2(a, p2, r2, c)[Len(a) + 1] = p2
        <4>1. a \in Seq(Row) /\ p2 \in Row /\ r2 \in Row /\ c \in Seq(Row) BY <1>1, <1>2, <1>4, <1>5
        <4> QED BY <4>1, RowPut2
      <3> QED BY <1>1, <2>4, <3>1
    <2>6. t = Put2(a, WithState(p2), r2, c) BY <1>1, <1>2, <1>4, <1>5, <1>6, <2>1, <2>4, <2>5, Put2First
    <2>7. t \in Seq(Row) /\ RightSide(t) = Put(ra, joined, rc)
      BY <1>1, <1>2, <1>5, <1>6, <2>6, Put2Shows DEF ra, rc
    <2> QED BY <1>10, <2>7
  <1>14. t \in Seq(Row) /\ RightSide(t) = meant
    BY <1>12, <1>13
  <1> QED BY <1>14 DEF t, n, h, up, gone, p2, p, r, meant


-----------------------------------------------------------------------------
(* The actions. *)

\* The files that are not shown hold what they held, or a text of theirs that
\* git has, or one that another program wrote.
Home(s) ==
  \A p \in File : p # app.path => s.work[p] \in {app.work[p], app.index[p], app.head[p]} \union Outside

LEMMA FileSound ==
  ASSUME NEW s, Sound(s), NEW texts \in [File -> Text]
  PROVE  /\ LET t == [s EXCEPT !.head = texts] IN Sound(t) /\ t.path = s.path /\ t.work = s.work
         /\ LET t == [s EXCEPT !.index = texts] IN Sound(t) /\ t.path = s.path /\ t.work = s.work
         /\ LET t == [s EXCEPT !.work = texts] IN Sound(t) /\ t.path = s.path /\ t.work = texts
  <1>0. s \in AppState
    BY DEF Sound
  <1>1. s.head \in [File -> Text] /\ s.index \in [File -> Text] /\ s.work \in [File -> Text]
    BY <1>0, FilesType
  <1>2. \A h, i, w \in [File -> Text] :
          LET t == WithFiles(s, h, i, w) IN Sound(t) /\ t.path = s.path /\ t.work = w
    BY ChangedSound DEF SamePage
  <1>3. /\ [s EXCEPT !.head = texts] = WithFiles(s, texts, s.index, s.work)
        /\ [s EXCEPT !.index = texts] = WithFiles(s, s.head, texts, s.work)
        /\ [s EXCEPT !.work = texts] = WithFiles(s, s.head, s.index, texts)
    BY <1>0 DEF AppState, WithFiles
  <1> QED BY <1>1, <1>2, <1>3

LEMMA AskedHome ==
  ASSUME IInv, NEW answer
  PROVE  LET s == Asked(app, answer) IN
         /\ Sound(s) /\ s \in AppState /\ s.path = app.path /\ Home(s)
         /\ s.head = app.head /\ s.index = app.index
  <1>1. Sound(app)
    BY DEF IInv, Sound
  <1>2. LET s == Asked(app, answer) IN Sound(s) /\ s.path = app.path /\ Keeps1(app, s)
    BY <1>1, AskedSound
  <1> QED BY <1>2 DEF Sound, Keeps1, Home

\* The stash is no part of the page.
LEMMA StashedView ==
  ASSUME NEW t \in AppState, View(t), NEW text \in Text
  PROVE  LET u == [t EXCEPT !.stash = text] IN
         u \in AppState /\ View(u) /\ u.work = t.work /\ u.faults = t.faults
  <1> DEFINE u == [t EXCEPT !.stash = text]
  <1>1. u \in AppState /\ SamePage(t, u) /\ u.work = t.work /\ u.faults = t.faults
    BY DEF AppState, SamePage
  <1> HIDE DEF u
  <1>2. View(u)
    BY <1>1, SameView
  <1> QED BY <1>1, <1>2 DEF u

LEMMA DoesKeeps ==
  ASSUME IInv, NEW t \in AppState, View(t), Home(t), NEW text \in Text, Does([t EXCEPT !.stash = text])
  PROVE  IInv' /\ Home(app')
  <1>1. /\ app' = [t EXCEPT !.stash = text] /\ acts < MaxActs /\ acts' = acts + 1 /\ UNCHANGED <<edits, outside>>
        /\ Bears([t EXCEPT !.stash = text])
    BY DEF Does
  <1>2. app' \in AppState /\ View(app') /\ app'.work = t.work
    BY <1>1, StashedView
  <1>3. Counts'
    BY <1>1, BoundsAssumption DEF IInv, Counts, Bears
  <1>4. Home(app')
    BY <1>2 DEF Home
  <1>5. View(app)'
    BY <1>2 DEF View
  <1> QED BY <1>2, <1>3, <1>4, <1>5 DEF IInv

LEMMA LooksKeeps ==
  ASSUME IInv, NEW t \in AppState, View(t), Home(t), Looks(t)
  PROVE  IInv' /\ Home(app')
  <1>1. app' = [t EXCEPT !.stash = Absent] /\ UNCHANGED <<acts, edits, outside>> /\ Bears(t)
    BY DEF Looks
  <1>2. app' \in AppState /\ View(app') /\ app'.work = t.work /\ app'.faults = t.faults
    BY <1>1, StashedView, BlankType
  <1>3. Counts'
    BY <1>1, <1>2 DEF IInv, Counts, Bears
  <1>4. Home(app')
    BY <1>2 DEF Home
  <1>5. View(app)'
    BY <1>2 DEF View
  <1> QED BY <1>2, <1>3, <1>4, <1>5 DEF IInv

\* Whatever was done to the files, the refresh after it shows one of them.
LEMMA BecomesKeeps ==
  ASSUME IInv, NEW s, Sound(s), s.path = app.path, Home(s), NEW answer, Becomes(Updated(s, answer))
  PROVE  IInv' /\ Home(app')
  <1> DEFINE t == Updated(s, answer)
  <1>1. t \in AppState /\ View(t) /\ Keeps1(s, t)
    BY UpdatedSound
  <1> HIDE DEF t
  <1>2. Home(t)
    BY <1>1 DEF Keeps1, Home
  <1>3. Does([t EXCEPT !.stash = Absent])
    BY DEF Becomes, t
  <1> QED BY <1>1, <1>2, <1>3, BlankType, DoesKeeps

\* So it is when the call failed.
LEMMA CallsKeeps ==
  ASSUME IInv, NEW s, Sound(s), s.path = app.path, Home(s), NEW t, Sound(t), t.path = app.path, Home(t),
         NEW then, Calls(s, t, then)
  PROVE  IInv' /\ Home(app')
  <1> DEFINE u == Failing(s, File)
  <1>1. Sound(u) /\ u.path = app.path /\ u.work = s.work
    BY FailingSound
  <1>2. Becomes(Updated(t, then)) \/ Becomes(Updated(u, then))
    BY DEF Calls
  <1> HIDE DEF u
  <1>3. Home(u)
    BY <1>1 DEF Home
  <1> QED BY <1>1, <1>2, <1>3, BecomesKeeps

LEMMA AFileIsShown == ASSUME IInv, NEW i \in DOMAIN app.rows PROVE app.path \in File /\ i \in 1 .. Len(app.rows)
  <1>1. app \in AppState /\ View(app)
    BY DEF IInv
  <1>2. app.rows \in Seq(Row) /\ app.path \in File \union {None}
    BY <1>1 DEF AppState
  <1>3. DOMAIN app.rows = 1 .. Len(app.rows)
    BY <1>2, LenProperties
  <1>4. app.rows # <<>>
    <2>1. Len(<<>>) = 0 BY EmptySeq
    <2> QED BY <1>3, <2>1
  <1>5. app.path # None
    BY <1>1, <1>4 DEF View
  <1> QED BY <1>2, <1>3, <1>5

LEMMA StageLinesKeeps ==
  ASSUME IInv, NEW i \in DOMAIN app.rows, NEW answer, NEW then, StageLines(i, answer, then)
  PROVE  IInv' /\ Home(app')
  <1> DEFINE s == Asked(app, answer)
             text == Built(s, app.path, GetRange(app.rows, i))
             index == [s.index EXCEPT ![app.path] = text]
             u == IF IsEmpty(text) THEN s ELSE [s EXCEPT !.index[app.path] = text]
  <1>1. Sound(s) /\ s \in AppState /\ s.path = app.path /\ Home(s)
    BY AskedHome
  <1>2. app.path \in File
    BY AFileIsShown
  <1>3. Calls(s, u, then)
    BY DEF StageLines
  <1>4. text \in Text
    <2> HIDE DEF s
    <2> QED BY <1>1, <1>2, BuiltType
  <1>5. u = IF IsEmpty(text) THEN s ELSE [s EXCEPT !.index = index]
    <2> HIDE DEF s, text
    <2> QED BY <1>1 DEF AppState
  <1> HIDE DEF s, text, u
  <1>6. index \in [File -> Text]
    BY <1>1, <1>4, FilesType
  <1> HIDE DEF index
  <1>7. LET t == [s EXCEPT !.index = index] IN Sound(t) /\ t.path = s.path /\ t.work = s.work
    BY <1>1, <1>6, FileSound
  <1>8. Sound(u) /\ u.path = app.path /\ Home(u)
    BY <1>1, <1>5, <1>7 DEF Home
  <1> QED BY <1>1, <1>3, <1>8, CallsKeeps

LEMMA RevertLinesKeeps ==
  ASSUME IInv, NEW i \in DOMAIN app.rows, NEW answer, NEW then, RevertLines(i, answer, then)
  PROVE  IInv' /\ Home(app')
  <1> DEFINE s == Asked(app, answer)
  <1>1. Sound(s) /\ s \in AppState /\ s.path = app.path /\ Home(s)
    BY AskedHome
  <1>2. app.path \in File
    BY AFileIsShown
  <1>0. PICK outcome \in Outcome : Becomes(Updated(Reverted(s, app.path, GetRange(app.rows, i), outcome), then))
    BY DEF RevertLines
  <1> DEFINE u == Reverted(s, app.path, GetRange(app.rows, i), outcome)
  <1>3. Becomes(Updated(u, then))
    BY <1>0
  <1> HIDE DEF s
  <1>4. Sound(u) /\ u.path = s.path /\ Keeps1(s, u)
    BY <1>1, <1>2, RevertedSound
  <1> HIDE DEF u
  <1>5. Home(u)
    BY <1>1, <1>4 DEF Home, Keeps1
  <1> QED BY <1>1, <1>3, <1>4, <1>5, BecomesKeeps

LEMMA StashLinesKeeps ==
  ASSUME IInv, NEW i \in DOMAIN app.rows, NEW then, StashLines(i, then)
  PROVE  IInv' /\ Home(app')
  <1> DEFINE range == GetRange(app.rows, i)
             text == Built(app, app.path, range)
             u(outcome) == Reverted(app, app.path, range, outcome)
  <1>1. Sound(app) /\ app \in AppState /\ Home(app)
    BY DEF IInv, Sound, Home
  <1>2. app.path \in File
    BY AFileIsShown
  <1>3. \/ Becomes(Updated(Failing(app, File), then))
        \/ \E outcome \in Outcome : Does([Updated(u(outcome), then) EXCEPT !.stash = text])
    BY DEF StashLines
  <1> HIDE DEF range
  <1>4. text \in Text
    BY <1>1, <1>2, BuiltType
  <1> HIDE DEF text
  <1>5. CASE Becomes(Updated(Failing(app, File), then))
    <2>1. Calls(app, app, then)
      BY <1>5 DEF Calls
    <2> QED BY <1>1, <2>1, CallsKeeps
  <1>6. ASSUME NEW outcome \in Outcome, Does([Updated(u(outcome), then) EXCEPT !.stash = text])
        PROVE  IInv' /\ Home(app')
    <2> DEFINE v == u(outcome)
               t == Updated(v, then)
    <2>1. Sound(v) /\ v.path = app.path /\ Keeps1(app, v)
      BY <1>1, <1>2, RevertedSound
    <2>2. Does([t EXCEPT !.stash = text])
      BY <1>6
    <2> HIDE DEF v, u
    <2>3. t \in AppState /\ View(t) /\ Keeps1(v, t)
      BY <2>1, UpdatedSound
    <2> HIDE DEF t
    <2>4. Home(t)
      BY <2>1, <2>3 DEF Home, Keeps1
    <2> QED BY <1>4, <2>2, <2>3, <2>4, DoesKeeps
  <1> QED BY <1>3, <1>5, <1>6

\* A change of the files before the refresh, of what a question has left.
LEMMA ChangeKeeps ==
  ASSUME IInv, NEW s, Sound(s), s.path = app.path, Home(s), NEW texts \in [File -> Text], NEW answer
  PROVE  /\ Calls(s, [s EXCEPT !.head = texts], answer) => IInv' /\ Home(app')
         /\ Calls(s, [s EXCEPT !.index = texts], answer) => IInv' /\ Home(app')
         /\ \A failed : Becomes(Updated(Failing([s EXCEPT !.index = texts], failed), answer)) => IInv' /\ Home(app')
  <1>1. LET t == [s EXCEPT !.head = texts] IN Sound(t) /\ t.path = s.path /\ t.work = s.work
    BY FileSound
  <1>2. LET t == [s EXCEPT !.index = texts] IN Sound(t) /\ t.path = s.path /\ t.work = s.work
    BY FileSound
  <1>3. \A t : Sound(t) /\ t.path = s.path /\ t.work = s.work /\ Calls(s, t, answer) => IInv' /\ Home(app')
    <2> TAKE t
    <2> HAVE Sound(t) /\ t.path = s.path /\ t.work = s.work /\ Calls(s, t, answer)
    <2>1. Home(t) BY DEF Home
    <2> QED BY <2>1, CallsKeeps
  <1>4. \A t, failed : Sound(t) /\ t.path = s.path /\ t.work = s.work /\ Becomes(Updated(Failing(t, failed), answer))
                     => IInv' /\ Home(app')
    <2> TAKE t, failed
    <2> HAVE Sound(t) /\ t.path = s.path /\ t.work = s.work /\ Becomes(Updated(Failing(t, failed), answer))
    <2> DEFINE u == Failing(t, failed)
    <2>1. Sound(u) /\ u.path = app.path /\ u.work = s.work
      BY FailingSound
    <2>2. Becomes(Updated(u, answer))
      OBVIOUS
    <2> HIDE DEF u
    <2>3. Home(u) BY <2>1 DEF Home
    <2> QED BY <2>1, <2>2, <2>3, BecomesKeeps
  <1> QED BY <1>1, <1>2, <1>3, <1>4

LEMMA StagedIs ==
  ASSUME NEW s \in AppState, NEW p \in File
  PROVE  /\ Staged(s, p).index \in [File -> Text]
         /\ Staged(s, p) = [s EXCEPT !.index = Staged(s, p).index]
  <1>1. s.index \in [File -> Text] /\ s.work \in [File -> Text]
    BY FilesType
  <1>2. CASE s.work[p] = Absent
    <2>1. Staged(s, p) = s BY <1>2 DEF Staged
    <2> QED BY <1>1, <2>1 DEF AppState
  <1>3. CASE s.work[p] # Absent
    <2> DEFINE index == [s.index EXCEPT ![p] = s.work[p]]
    <2>1. index \in [File -> Text] BY <1>1
    <2>2. Staged(s, p) = [s EXCEPT !.index = index] BY <1>3 DEF Staged, AppState
    <2> HIDE DEF index
    <2> QED BY <2>1, <2>2 DEF AppState
  <1> QED BY <1>2, <1>3

LEMMA StageFileKeeps ==
  ASSUME IInv, NEW p \in File, NEW answer, NEW then, StageFile(p, answer, then)
  PROVE  IInv' /\ Home(app')
  <1> DEFINE s == Asked(app, answer)
             index == Staged(s, p).index
  <1>1. Sound(s) /\ s \in AppState /\ s.path = app.path /\ Home(s)
    BY AskedHome
  <1>2. Calls(s, Staged(s, p), then)
    BY DEF StageFile
  <1> HIDE DEF s
  <1>3. index \in [File -> Text] /\ Staged(s, p) = [s EXCEPT !.index = index]
    BY <1>1, StagedIs
  <1> HIDE DEF index
  <1>4. Calls(s, [s EXCEPT !.index = index], then)
    BY <1>2, <1>3
  <1> QED BY <1>1, <1>3, <1>4, ChangeKeeps

LEMMA StageAllKeeps ==
  ASSUME IInv, NEW answer, NEW then, StageAll(answer, then)
  PROVE  IInv' /\ Home(app')
  <1> DEFINE s == Asked(app, answer)
             Index(failed) == [p \in File |-> IF p \in failed THEN s.index[p] ELSE Staged(s, p).index[p]]
  <1>1. Sound(s) /\ s \in AppState /\ s.path = app.path /\ Home(s)
    BY AskedHome
  <1>0. PICK failed \in SUBSET File : Becomes(Updated(Failing([s EXCEPT !.index = Index(failed)], failed), then))
    BY DEF StageAll
  <1> DEFINE index == Index(failed)
  <1>2. Becomes(Updated(Failing([s EXCEPT !.index = index], failed), then))
    BY <1>0
  <1> HIDE DEF s
  <1>3. s.index \in [File -> Text] /\ \A p \in File : Staged(s, p).index \in [File -> Text]
    BY <1>1, StagedIs, FilesType
  <1>4. index \in [File -> Text]
    BY <1>3
  <1> HIDE DEF index
  <1> QED BY <1>1, <1>2, <1>4, ChangeKeeps

LEMMA UnstageFileKeeps ==
  ASSUME IInv, NEW p \in File, NEW answer, NEW then, UnstageFile(p, answer, then)
  PROVE  IInv' /\ Home(app')
  <1> DEFINE s == Asked(app, answer)
             index == [s.index EXCEPT ![p] = s.head[p]]
  <1>1. Sound(s) /\ s \in AppState /\ s.path = app.path /\ Home(s)
    BY AskedHome
  <1>2. Calls(s, [s EXCEPT !.index[p] = s.head[p]], then)
    BY DEF UnstageFile
  <1> HIDE DEF s
  <1>3. [s EXCEPT !.index[p] = s.head[p]] = [s EXCEPT !.index = index]
    BY <1>1 DEF AppState
  <1>4. index \in [File -> Text]
    BY <1>1, FilesType
  <1> HIDE DEF index
  <1> QED BY <1>1, <1>2, <1>3, <1>4, ChangeKeeps

LEMMA UnstageAllKeeps ==
  ASSUME IInv, NEW answer, NEW then, UnstageAll(answer, then)
  PROVE  IInv' /\ Home(app')
  <1> DEFINE s == Asked(app, answer)
  <1>1. Sound(s) /\ s \in AppState /\ s.path = app.path /\ Home(s)
    BY AskedHome
  <1> DEFINE Index(failed) == [p \in File |-> IF p \in failed THEN s.index[p] ELSE s.head[p]]
  <1>0. PICK failed \in SUBSET File : Becomes(Updated(Failing([s EXCEPT !.index = Index(failed)], failed), then))
    BY DEF UnstageAll
  <1> DEFINE index == Index(failed)
  <1>2. Becomes(Updated(Failing([s EXCEPT !.index = index], failed), then))
    BY <1>0
  <1> HIDE DEF s
  <1>3. index \in [File -> Text]
    BY <1>1, FilesType
  <1> HIDE DEF index
  <1> QED BY <1>1, <1>2, <1>3, ChangeKeeps

LEMMA CommitKeeps ==
  ASSUME IInv, NEW then, Commit(then)
  PROVE  IInv' /\ Home(app')
  <1>1. Sound(app) /\ app \in AppState /\ Home(app)
    BY DEF IInv, Sound, Home
  <1>2. Calls(app, [app EXCEPT !.head = app.index], then)
    BY DEF Commit
  <1>3. app.index \in [File -> Text]
    BY <1>1, FilesType
  <1> QED BY <1>1, <1>2, <1>3, ChangeKeeps

LEMMA DiscardAllKeeps ==
  ASSUME IInv, NEW then, DiscardAll(then)
  PROVE  IInv' /\ Home(app')
  <1> DEFINE Work(failed) == [p \in File |-> IF p \in failed THEN app.work[p] ELSE app.head[p]]
  <1>1. Sound(app) /\ app \in AppState
    BY DEF IInv, Sound
  <1>2. PICK failed \in SUBSET File : Becomes(Updated(Failing([app EXCEPT !.work = Work(failed)], failed), then))
    BY DEF DiscardAll
  <1> DEFINE work == Work(failed)
             t == [app EXCEPT !.work = work]
             u == Failing(t, failed)
  <1>3. Becomes(Updated(u, then))
    BY <1>2
  <1>4. work \in [File -> Text] /\ \A p \in File : work[p] \in {app.work[p], app.head[p]}
    BY <1>1, FilesType
  <1> HIDE DEF work
  <1>5. Sound(t) /\ t.path = app.path /\ t.work = work
    BY <1>1, <1>4, FileSound
  <1> HIDE DEF t
  <1>6. Sound(u) /\ u.path = app.path /\ u.work = work
    BY <1>5, FailingSound
  <1> HIDE DEF u
  <1>7. Home(u)
    BY <1>4, <1>6 DEF Home
  <1> QED BY <1>3, <1>6, <1>7, BecomesKeeps

\* The text of the file shown goes back without what was typed.
LEMMA DiscardFileKeeps ==
  ASSUME IInv, NEW p \in File, NEW answer, NEW then, DiscardFile(p, answer, then)
  PROVE  IInv' /\ Home(app')
  <1> DEFINE s == IF p = app.path THEN [app EXCEPT !.edited = FALSE] ELSE Asked(app, answer)
             work == [s.work EXCEPT ![p] = s.index[p]]
             t == [s EXCEPT !.work = work]
  <1>1. Sound(s) /\ s \in AppState /\ s.path = app.path /\ Home(s) /\ s.index = app.index
    <2>1. CASE p = app.path
      <3>1. app \in AppState BY DEF IInv
      <3>2. LET u == [app EXCEPT !.edited = FALSE] IN
            u \in AppState /\ ~u.edited /\ u.path = app.path /\ u.work = app.work /\ u.index = app.index
        BY <3>1 DEF AppState
      <3> QED BY <2>1, <3>2 DEF Sound, Home
    <2>2. CASE p # app.path
      BY <2>2, AskedHome
    <2> QED BY <2>1, <2>2
  <1>2. Calls(s, [s EXCEPT !.work[p] = s.index[p]], then)
    BY DEF DiscardFile
  <1> HIDE DEF s
  <1>3. s.index \in [File -> Text] /\ s.work \in [File -> Text]
    BY <1>1, FilesType
  <1>4. [s EXCEPT !.work[p] = s.index[p]] = t
    BY <1>1 DEF AppState
  <1>5. /\ work \in [File -> Text]
        /\ \A q \in File : work[q] = IF q = p THEN app.index[p] ELSE s.work[q]
    BY <1>1, <1>3
  <1> HIDE DEF work
  <1>6. Sound(t) /\ t.path = s.path /\ t.work = work
    BY <1>1, <1>5, FileSound
  <1> HIDE DEF t
  <1>7. Home(t)
    BY <1>1, <1>5, <1>6 DEF Home
  <1> QED BY <1>1, <1>2, <1>4, <1>6, <1>7, CallsKeeps

LEMMA CtrlSKeeps ==
  ASSUME IInv, NEW outcome \in Outcome, NEW then, CtrlS(outcome, then)
  PROVE  IInv' /\ Home(app')
  <1> DEFINE s == Saved(app, outcome)
  <1>1. app \in AppState /\ app.path # None /\ Becomes(Updated(s, then))
    BY DEF IInv, CtrlS
  <1>2. s \in AppState /\ s.path = app.path /\ Keeps1(app, s) /\ Sound(s)
    BY <1>1, SavedIs DEF IInv, Sound
  <1> HIDE DEF s
  <1>3. Home(s)
    BY <1>2 DEF Keeps1, Home
  <1> QED BY <1>1, <1>2, <1>3, BecomesKeeps

LEMMA SelectFileKeeps ==
  ASSUME IInv, NEW p \in File, NEW staged \in BOOLEAN, NEW answer, SelectFile(p, staged, answer)
  PROVE  IInv' /\ Home(app')
  <1> DEFINE t == Selected(app, p, staged, answer)
  <1>1. Sound(app) /\ p # None /\ Looks(t)
    BY PathsAssumption DEF IInv, Sound, SelectFile
  <1>2. t \in AppState /\ View(t) /\ Keeps1(app, t)
    BY <1>1, SelectedSound
  <1> HIDE DEF t
  <1>3. Home(t)
    BY <1>2 DEF Keeps1, Home
  <1> QED BY <1>1, <1>2, <1>3, LooksKeeps

\* The view that was left comes back as it was read.
LEMMA ToggleChunkKeeps ==
  ASSUME IInv, NEW answer, ToggleChunk(answer)
  PROVE  IInv' /\ Home(app')
  <1> DEFINE s == [app EXCEPT !.chunk = ~@]
             t == Settled(s, app.diff)
  <1>1. app \in AppState /\ View(app) /\ Looks(t)
    BY DEF IInv, ToggleChunk
  <1>2. app.diff \in Seq(Row)
    BY <1>1 DEF AppState
  <1>3. /\ s \in AppState /\ s.diff = app.diff /\ s.path = app.path /\ s.staged = app.staged
        /\ s.original = app.original /\ s.edited = app.edited /\ s.buffer = app.buffer /\ s.work = app.work
    BY <1>1 DEF AppState
  <1> HIDE DEF s
  <1>4. View(t)
    <2>1. /\ s.path = None => app.diff = <<>> /\ ~s.staged
          /\ s.original = Rights(app.diff)
          /\ ~s.edited => s.buffer = Rights(app.diff)
      BY <1>1, <1>3 DEF View
    <2> QED BY <1>2, <1>3, <2>1, SettledView
  <1>5. t \in AppState /\ SameFiles(s, t)
    BY <1>2, <1>3, SettledIs
  <1> HIDE DEF t
  <1>6. Home(t)
    BY <1>3, <1>5 DEF SameFiles, Home
  <1> QED BY <1>1, <1>4, <1>5, <1>6, LooksKeeps

\* An edit is made in the full view of a file that is not staged, and shows
\* what it is meant to.
LEMMA EditedKeeps ==
  ASSUME IInv, ~app.chunk, ~app.staged, app.path # None,
         NEW rows \in Seq(Row), NEW meant, RightSide(rows) = meant, Edited(rows, meant)
  PROVE  IInv' /\ Home(app')
  <1> DEFINE buffer == Rights(rows)
             changed == Rights(rows) # app.original
  <1>1. app \in AppState /\ View(app)
    BY DEF IInv
  <1>2. buffer \in Text /\ meant \in Text /\ changed \in BOOLEAN /\ Absent \in Text
    BY RightsType, RightSideType, BlankType
  <1>3. /\ edits < MaxEdits /\ edits' = edits + 1 /\ UNCHANGED <<acts, outside>>
        /\ app' = [app EXCEPT !.rows = rows, !.buffer = buffer, !.meant = meant, !.touched = changed,
                              !.edited = changed, !.stash = Absent]
    BY DEF Edited
  <1> HIDE DEF buffer, changed
  <1>4. /\ app' \in AppState /\ app'.work = app.work
        /\ app'.path = app.path /\ app'.staged = app.staged /\ app'.chunk = app.chunk /\ app'.diff = app.diff
        /\ app'.original = app.original /\ app'.rows = rows /\ app'.buffer = buffer
        /\ app'.edited = changed /\ app'.meant = meant /\ app'.faults = app.faults
    BY <1>1, <1>2, <1>3 DEF AppState
  <1>5. View(app')
    BY <1>1, <1>4 DEF View, buffer, changed
  <1>6. View(app)'
    BY <1>5 DEF View
  <1>7. Counts'
    BY <1>3, <1>4, BoundsAssumption DEF IInv, Counts
  <1>8. Home(app')
    BY <1>4 DEF Home
  <1> QED BY <1>4, <1>6, <1>7, <1>8 DEF IInv

LEMMA EditableIs ==
  ASSUME IInv, NEW i, Editable(i)
  PROVE  /\ ~app.chunk /\ ~app.staged /\ app.path # None /\ app.rows \in Seq(Row) /\ i \in 1 .. Len(app.rows)
         /\ app.rows[i].type # "deleted" /\ RightSide(app.rows) = app.meant /\ Seen(i) = SeenAt(app.rows, i)
  <1>1. /\ i \in DOMAIN app.rows /\ ~app.chunk /\ ~app.staged /\ app.rows[i].type # "deleted"
    BY DEF Editable
  <1>2. app.path # None /\ i \in 1 .. Len(app.rows)
    BY <1>1, AFileIsShown, PathsAssumption
  <1> QED BY <1>1, <1>2 DEF IInv, AppState, View, Seen, SeenAt

LEMMA TypeKeeps ==
  ASSUME IInv, NEW i \in DOMAIN app.rows, NEW line \in Typed, Type(i, line)
  PROVE  IInv' /\ Home(app')
  <1> DEFINE rows == With(app.rows, i, Restated([app.rows[i] EXCEPT !.right = line]))
             meant == With(app.meant, Seen(i), line)
  <1>1. Editable(i) /\ Edited(rows, meant)
    BY DEF Type, With
  <1>2. line \in Line
    BY TextsAssumption
  <1>3. rows \in Seq(Row) /\ RightSide(rows) = meant
    BY <1>1, <1>2, EditableIs, TypeShows
  <1> HIDE DEF rows, meant
  <1> QED BY <1>1, <1>3, EditableIs, EditedKeeps

LEMMA SplitLineKeeps ==
  ASSUME IInv, NEW i \in DOMAIN app.rows, NEW cursor \in 0 .. Len(app.rows[i].right), SplitLine(i, cursor)
  PROVE  IInv' /\ Home(app')
  <1> DEFINE before == SubSeq(app.rows[i].right, 1, cursor)
             after == SubSeq(app.rows[i].right, cursor + 1, Len(app.rows[i].right))
             cut == With(app.rows, i, Restated([app.rows[i] EXCEPT !.right = before]))
             next == [type |-> "added", left |-> Blank, right |-> after,
                      old |-> -1, new |-> app.rows[i].new + 1]
             t == IF i < Len(app.rows) /\ app.rows[i + 1].type = "deleted"
                    THEN With(cut, i + 1, WithState([cut[i + 1] EXCEPT !.right = after]))
                    ELSE InsertAt(cut, i + 1, next)
             meant == InsertAt(With(app.meant, Seen(i), before), Seen(i) + 1, after)
             rows == Renumbered(t, i + 2, 1)
  <1>1. Editable(i) /\ Edited(rows, meant)
    BY DEF SplitLine, With
  <1>2. /\ ~app.chunk /\ ~app.staged /\ app.path # None /\ app.rows \in Seq(Row) /\ i \in 1 .. Len(app.rows)
        /\ app.rows[i].type # "deleted" /\ RightSide(app.rows) = app.meant /\ Seen(i) = SeenAt(app.rows, i)
    BY <1>1, EditableIs
  <1>3. before \in Line /\ after \in Line
    <2>1. app.rows[i].right \in Line BY <1>2, CutAt
    <2> DEFINE line == app.rows[i].right
    <2>2. line \in Seq(STRING) /\ Len(line) \in Nat BY <2>1, LenProperties DEF Line
    <2> HIDE DEF line
    <2>3. cursor \in 0 .. Len(line) BY DEF line
    <2>4. SubSeq(line, 1, cursor) \in Seq(STRING) /\ SubSeq(line, cursor + 1, Len(line)) \in Seq(STRING)
      BY <2>2, <2>3, SubSeqProperties
    <2> QED BY <2>4 DEF line, Line
  <1> HIDE DEF before, after
  <1>4. t \in Seq(Row) /\ RightSide(t) = meant
    <2> DEFINE r == app.rows
    <2>1. t \in Seq(Row) /\ RightSide(t) = InsertAt(With(RightSide(r), SeenAt(r, i), before), SeenAt(r, i) + 1, after)
      <3>1. r \in Seq(Row) /\ i \in 1 .. Len(r) /\ r[i].type # "deleted" BY <1>2
      <3> QED BY ONLY <3>1, <1>3, SplitShows
    <2> HIDE DEF t
    <2> QED BY <1>2, <2>1
  <1> HIDE DEF t, meant
  <1>5. rows \in Seq(Row) /\ RightSide(rows) = meant
    <2>1. i + 2 \in Int /\ 1 \in Int BY <1>2
    <2> QED BY <1>4, <2>1, RenumberedAlike
  <1> HIDE DEF rows
  <1> QED BY <1>1, <1>2, <1>5, EditedKeeps

LEMMA MergeLineUpKeeps ==
  ASSUME IInv, NEW i \in DOMAIN app.rows, MergeLineUp(i)
  PROVE  IInv' /\ Home(app')
  <1> DEFINE joined == app.rows[i - 1].right \o app.rows[i].right
             up == With(app.rows, i - 1, [app.rows[i - 1] EXCEPT !.right = joined])
             gone == With(up, i, [up[i] EXCEPT !.type = "deleted"])
             added == app.rows[i].type = "added"
             t == IF added THEN RemoveAt(up, i) ELSE With(gone, i - 1, WithState(gone[i - 1]))
             meant == RemoveAt(With(app.meant, Seen(i) - 1, joined), Seen(i))
             rows == IF added THEN Renumbered(t, i, -1) ELSE Renumbered(t, i + 1, -1)
  <1>1. Editable(i) /\ Edited(rows, meant) /\ i > 1 /\ app.rows[i - 1].type # "deleted"
    BY DEF MergeLineUp, With
  <1>2. /\ ~app.chunk /\ ~app.staged /\ app.path # None /\ app.rows \in Seq(Row) /\ i \in 1 .. Len(app.rows)
        /\ app.rows[i].type # "deleted" /\ RightSide(app.rows) = app.meant /\ Seen(i) = SeenAt(app.rows, i)
    BY <1>1, EditableIs
  <1>3. joined \in Line
    <2>1. i - 1 \in 1 .. Len(app.rows) BY <1>1, <1>2, LenProperties
    <2>2. app.rows[i - 1].right \in Line /\ app.rows[i].right \in Line BY <1>2, <2>1, CutAt
    <2> QED BY <2>2, ConcatProperties DEF Line
  <1> HIDE DEF joined
  <1>4. t \in Seq(Row) /\ RightSide(t) = meant
    BY <1>1, <1>2, <1>3, MergeShows
  <1> HIDE DEF t, meant
  <1>5. rows \in Seq(Row) /\ RightSide(rows) = meant
    <2>1. i \in Int /\ i + 1 \in Int /\ -1 \in Int BY <1>2
    <2> QED BY <1>4, <2>1, RenumberedAlike
  <1> HIDE DEF rows
  <1> QED BY <1>1, <1>2, <1>5, EditedKeeps

LEMMA WriteOutsideKeeps ==
  ASSUME IInv, NEW p \in File, NEW text \in Outside, WriteOutside(p, text)
  PROVE  IInv' /\ Home(app')
  <1> DEFINE work == [app.work EXCEPT ![p] = text]
             s == [app EXCEPT !.work = work]
  <1>1. app \in AppState /\ Sound(app) /\ View(app) /\ text \in Text
    BY TextsAssumption DEF IInv, Sound
  <1>2. app' = [app EXCEPT !.work = work, !.stash = Absent]
    BY <1>1 DEF WriteOutside, AppState
  <1>3. app.faults + outside < MaxTroubles /\ outside' = outside + 1 /\ UNCHANGED <<acts, edits>>
    BY DEF WriteOutside
  <1>4. work \in [File -> Text] /\ \A q \in File : work[q] = IF q = p THEN text ELSE app.work[q]
    BY <1>1, FilesType
  <1> HIDE DEF work
  <1>5. app' \in AppState /\ SamePage(app, app') /\ app'.work = work /\ app'.faults = app.faults
    BY <1>1, <1>2, <1>4, BlankType DEF AppState, SamePage
  <1>6. View(app')
    BY <1>1, <1>5, SameView
  <1>7. View(app)'
    BY <1>6 DEF View
  <1>8. Counts'
    <2>1. app.faults \in Nat /\ MaxTroubles \in Nat BY <1>1, BoundsAssumption DEF AppState
    <2> QED BY <1>3, <1>5, <2>1 DEF IInv, Counts
  <1>9. Home(app')
    BY <1>4, <1>5 DEF Home
  <1> QED BY <1>5, <1>7, <1>8, <1>9 DEF IInv

-----------------------------------------------------------------------------
(* The theorems. *)

LEMMA InitIInv == Init => IInv
  <1> SUFFICES ASSUME Init PROVE IInv
    OBVIOUS
  <1> DEFINE S(r) == [head |-> r.head, index |-> r.index, work |-> r.work, stash |-> Absent,
                      path |-> None, staged |-> FALSE, chunk |-> TRUE, diff |-> <<>>,
                      rows |-> <<>>, original |-> <<>>, buffer |-> <<>>, touched |-> FALSE,
                      edited |-> FALSE, meant |-> <<>>, faults |-> 0, slides |-> r.slides]
  <1>1. PICK r \in Start : app = Updated(S(r), "abort")
    BY DEF Init
  <1>2. r.head \in [File -> Text] /\ r.index \in [File -> Text] /\ r.work \in [File -> Text] /\ r.slides \in BOOLEAN
    BY TextsAssumption
  <1>3. <<>> \in Text /\ Absent \in Text /\ <<>> \in Seq(Row)
    BY EmptySeq, BlankType DEF Absent
  <1>4. S(r) \in AppState /\ ~S(r).edited /\ S(r).faults = 0
    BY <1>2, <1>3 DEF AppState
  <1> HIDE DEF S
  <1>5. app \in AppState /\ View(app) /\ app.faults = 0
    BY <1>1, <1>4, UpdatedSound DEF Sound
  <1>6. Counts
    BY <1>5, BoundsAssumption DEF Init, Counts
  <1> QED BY <1>5, <1>6 DEF IInv

\* Every step keeps the page and the files together.
LEMMA NextKeeps == IInv /\ [Next]_vars => IInv' /\ (UNCHANGED vars \/ Home(app'))
  <1> SUFFICES ASSUME IInv, [Next]_vars PROVE IInv' /\ (UNCHANGED vars \/ Home(app'))
    OBVIOUS
  <1>1. ASSUME User PROVE IInv' /\ Home(app')
    <2>0. ASSUME NEW then \in Answers, NEW outcome \in Outcome, CtrlS(outcome, then)
          PROVE  IInv' /\ Home(app')
      BY <2>0, CtrlSKeeps
    <2>1. ASSUME NEW then \in Answers, Commit(then) \/ DiscardAll(then)
          PROVE  IInv' /\ Home(app')
      BY <2>1, CommitKeeps, DiscardAllKeeps
    <2>2. ASSUME NEW then \in Answers, NEW i \in DOMAIN app.rows, StashLines(i, then)
          PROVE  IInv' /\ Home(app')
      BY <2>2, StashLinesKeeps
    <2>3. ASSUME NEW then \in Answers, NEW answer \in Answers, StageAll(answer, then) \/ UnstageAll(answer, then)
          PROVE  IInv' /\ Home(app')
      BY <2>3, StageAllKeeps, UnstageAllKeeps
    <2>4. ASSUME NEW then \in Answers, NEW answer \in Answers, NEW i \in DOMAIN app.rows,
                 StageLines(i, answer, then) \/ RevertLines(i, answer, then)
          PROVE  IInv' /\ Home(app')
      BY <2>4, StageLinesKeeps, RevertLinesKeeps
    <2>5. ASSUME NEW then \in Answers, NEW answer \in Answers, NEW p \in File,
                 \/ StageFile(p, answer, then) \/ UnstageFile(p, answer, then) \/ DiscardFile(p, answer, then)
          PROVE  IInv' /\ Home(app')
      BY <2>5, StageFileKeeps, UnstageFileKeeps, DiscardFileKeeps
    <2>6. ASSUME NEW answer \in Answers, ToggleChunk(answer)
          PROVE  IInv' /\ Home(app')
      BY <2>6, ToggleChunkKeeps
    <2>7. ASSUME NEW answer \in Answers, NEW p \in File, NEW staged \in BOOLEAN, SelectFile(p, staged, answer)
          PROVE  IInv' /\ Home(app')
      BY <2>7, SelectFileKeeps
    <2> QED BY <1>1, <2>0, <2>1, <2>2, <2>3, <2>4, <2>5, <2>6, <2>7 DEF User
  <1>2. ASSUME Editor PROVE IInv' /\ Home(app')
    <2>1. ASSUME NEW i \in DOMAIN app.rows, NEW line \in Typed, Type(i, line)
          PROVE  IInv' /\ Home(app')
      BY <2>1, TypeKeeps
    <2>2. ASSUME NEW i \in DOMAIN app.rows, NEW cursor \in 0 .. Len(app.rows[i].right), SplitLine(i, cursor)
          PROVE  IInv' /\ Home(app')
      BY <2>2, SplitLineKeeps
    <2>3. ASSUME NEW i \in DOMAIN app.rows, MergeLineUp(i)
          PROVE  IInv' /\ Home(app')
      BY <2>3, MergeLineUpKeeps
    <2> QED BY <1>2, <2>1, <2>2, <2>3 DEF Editor
  <1>3. ASSUME NEW p \in File, NEW text \in Outside, WriteOutside(p, text) PROVE IInv' /\ Home(app')
    BY <1>3, WriteOutsideKeeps
  <1>4. ASSUME UNCHANGED vars PROVE IInv'
    BY <1>4 DEF vars, IInv, View, Counts
  <1> QED BY <1>1, <1>2, <1>3, <1>4 DEF Next

\* The inductive invariant: between the handlers the page, its buffers and its
\* flag fit each other.
THEOREM Invariant == Spec => []IInv
  <1>1. IInv /\ [Next]_vars => IInv'
    BY NextKeeps
  <1> QED BY InitIInv, <1>1, PTL DEF Spec

\* The rows hold the text that the edits make, whatever was split, joined and
\* typed, staged, reverted and read again.
THEOREM PageStaysSound == Spec => []PageIsSound
  <1>1. IInv => PageIsSound
    <2> SUFFICES ASSUME IInv PROVE PageIsSound
      OBVIOUS
    <2>1. app \in AppState /\ View(app) /\ Counts
      BY DEF IInv
    <2>2. app.diff \in Seq(Row) /\ app.rows \in Seq(Row)
      BY <2>1 DEF AppState
    <2>3. Len(Rights(app.diff)) = Len(app.diff) /\ Len(Rights(app.rows)) = Len(app.rows)
      BY <2>2, RightsType
    <2>4. RightIsMeant
      BY <2>1 DEF View, RightIsMeant
    <2>5. TypeOK
      <3>1. /\ app.head \in [File -> Text] /\ app.index \in [File -> Text] /\ app.work \in [File -> Text]
            /\ app.stash \in Text /\ app.meant \in Text /\ app.path \in File \union {None}
        BY <2>1 DEF AppState
      <3>2. /\ app.path = None => app.diff = <<>> /\ ~app.staged
            /\ Len(app.original) = Len(app.diff)
            /\ ~app.chunk /\ Tells(app.rows) => Len(app.buffer) = Len(app.rows)
            /\ (app.chunk \/ app.staged) => Rights(app.rows) = Rights(app.diff)
        BY <2>1, <2>3 DEF View
      <3>3. /\ acts \in 0 .. MaxActs /\ edits \in 0 .. MaxEdits /\ outside \in Nat
            /\ app.faults \in Nat /\ app.faults + outside <= MaxTroubles
        BY <2>1 DEF Counts, AppState
      <3> QED BY <3>1, <3>2, <3>3 DEF TypeOK
    <2> QED BY <2>4, <2>5 DEF PageIsSound
  <1> QED BY Invariant, <1>1, PTL

\* In the full view the page holds that there are unsaved changes exactly when
\* the rows differ from what was read.
THEOREM FlagStaysTrue == Spec => []FlagTellsTruth
  <1>1. IInv => FlagTellsTruth
    BY DEF IInv, View, FlagTellsTruth
  <1> QED BY Invariant, <1>1, PTL

\* Only a discard, or another program, changes a file that is not shown.
THEOREM SavesStayHome == Spec => SavesGoHome
  <1> DEFINE A == \A p \in File :
                    p # app.path /\ app'.work[p] # app.work[p]
                    => \/ app'.work[p] \in Outside
                       \/ app'.work[p] \in {app.index[p], app.head[p]}
  <1>1. IInv /\ [Next]_vars => [A]_vars
    <2> SUFFICES ASSUME IInv, [Next]_vars PROVE [A]_vars
      OBVIOUS
    <2>1. ASSUME Home(app') PROVE A
      BY <2>1 DEF Home
    <2> HIDE DEF A
    <2> QED BY <2>1, NextKeeps
  <1> HIDE DEF A
  <1>2. Spec => [][A]_vars
    BY Invariant, <1>1, PTL DEF Spec
  <1> QED BY <1>2 DEF A, SavesGoHome

\* Ctrl+S writes the right-hand side as the edits made it, to the file shown; a
\* save that fails leaves that file as it was, or empty.
THEOREM SavesStayMeant == Spec => SaveWritesMeant
  <1> DEFINE Saving(outcome) ==
               /\ ~app.staged /\ (app.chunk \/ ~Tells(app.rows) => ~app.edited) /\ app.path # None /\ Tracked(app, app.path)
               /\ \A j \in DOMAIN app.rows : app.rows[j].type # "deleted"
               /\ CtrlS(outcome, "abort")
             A == \A outcome \in Outcome :
                    Saving(outcome)
                    => app'.work = IF outcome = "unopened" THEN app.work
                                   ELSE [app.work EXCEPT ![app.path] =
                                           IF outcome = "written" THEN Append(app.meant, Blank) ELSE <<Blank>>]
  <1>1. IInv => A
    <2> SUFFICES ASSUME IInv, NEW outcome \in Outcome, Saving(outcome)
                 PROVE  app'.work = IF outcome = "unopened" THEN app.work
                                    ELSE [app.work EXCEPT ![app.path] =
                                            IF outcome = "written" THEN Append(app.meant, Blank) ELSE <<Blank>>]
      OBVIOUS
    <2> HIDE DEF A
    <2> DEFINE s == Saved(app, outcome)
               t == Updated(s, "abort")
    <2>1. app \in AppState /\ View(app) /\ Becomes(t)
      BY DEF IInv, CtrlS
    <2>2. app.rows \in Seq(Row)
      BY <2>1 DEF AppState
    <2>3. app.buffer = Rights(app.rows) /\ RightSide(app.rows) = app.meant
      BY <2>1 DEF View
    <2>4. app.buffer = app.meant
      BY <2>2, <2>3, NothingDeleted
    <2>5. /\ Sound(s)
          /\ s.work = IF outcome = "unopened" THEN app.work
                      ELSE [app.work EXCEPT ![app.path] =
                              IF outcome = "written" THEN Append(app.meant, Blank) ELSE <<Blank>>]
      BY <2>1, <2>4, SavedIs DEF Sound
    <2> HIDE DEF s
    <2>6. t \in AppState /\ t.work = s.work
      BY <2>5, AbortedKeeps
    <2> HIDE DEF t
    <2>7. app' = [t EXCEPT !.stash = Absent]
      BY <2>1 DEF Becomes, Does
    <2> QED BY <2>5, <2>6, <2>7 DEF AppState
  <1> HIDE DEF A
  <1>2. Spec => [][A]_vars
    BY Invariant, <1>1, PTL DEF Spec
  <1> QED BY <1>2 DEF A, SaveWritesMeant

\* What a save writes is what the user sees, to the file shown and no other.
THEOREM SavesAreAsMeant == Spec => SavesAreMeant
  BY SavesStayHome, SavesStayMeant DEF SavesAreMeant

-----------------------------------------------------------------------------
(* Entries of a script, counted up to a place. *)

\* The entries up to place i that are no o: the lines of one side, if o is
\* what only the other side has.
Count(s, i, o) == Cardinality({k \in 1 .. i : s[k].op # o})

LEMMA CountNext ==
  ASSUME NEW s, NEW o
  PROVE  /\ Count(s, 0, o) = 0
         /\ \A i \in Nat : /\ Count(s, i, o) \in Nat
                           /\ Count(s, i + 1, o) = Count(s, i, o) + (IF s[i + 1].op # o THEN 1 ELSE 0)
  <1> DEFINE T(i) == {k \in 1 .. i : s[k].op # o}
  <1>1. Cardinality(T(0)) = 0
    <2>1. T(0) = {} OBVIOUS
    <2> QED BY <2>1, FS_EmptySet
  <1>2. ASSUME NEW i \in Nat
        PROVE  Cardinality(T(i)) \in Nat /\ Cardinality(T(i + 1)) = Cardinality(T(i)) + (IF s[i + 1].op # o THEN 1 ELSE 0)
    <2> DEFINE S == T(i)
    <2>1. S \in SUBSET (1 .. i) /\ IsFiniteSet(1 .. i) BY FS_Interval
    <2>2. T(i + 1) = IF s[i + 1].op # o THEN S \union {i + 1} ELSE S OBVIOUS
    <2>3. i + 1 \notin S OBVIOUS
    <2> HIDE DEF T, S
    <2>4. IsFiniteSet(S) BY <2>1, FS_Subset
    <2>5. Cardinality(S) \in Nat /\ Cardinality(S \union {i + 1}) = Cardinality(S) + 1
      BY <2>3, <2>4, FS_CardinalityType, FS_AddElement
    <2> QED BY <2>2, <2>5 DEF S
  <1> QED BY <1>1, <1>2 DEF Count

LEMMA CountIs ==
  /\ \A s, i : AtOf(s, i) = Count(s, i, "add")
  /\ \A s \in Seq(Entry) : EditsOf(s) = Count(s, Len(s), "context")
  <1>1. \A s \in Seq(Entry) : DOMAIN s = 1 .. Len(s)
    BY LenProperties
  <1> QED BY <1>1 DEF AtOf, EditsOf, Count

LEMMA CountJoined ==
  ASSUME NEW a \in Seq(Entry), NEW b \in Seq(Entry), NEW o
  PROVE  /\ \A k \in 0 .. Len(a) : Count(a \o b, k, o) = Count(a, k, o)
         /\ \A k \in 0 .. Len(b) : Count(a \o b, Len(a) + k, o) = Count(a, Len(a), o) + Count(b, k, o)
  <1> DEFINE s == a \o b
  <1>a. Len(a) \in Nat /\ Len(b) \in Nat
    BY LenProperties
  <1>0. /\ Len(a) \in Nat /\ Len(b) \in Nat
        /\ \A k \in 1 .. Len(a) + Len(b) : s[k] = IF k <= Len(a) THEN a[k] ELSE b[k - Len(a)]
    BY ConcatProperties, LenProperties
  <1> HIDE DEF s
  <1>1. ASSUME NEW k \in 0 .. Len(a) PROVE Count(s, k, o) = Count(a, k, o)
    <2>1. \A x \in 1 .. k : s[x] = a[x] BY <1>0
    <2>2. {x \in 1 .. k : s[x].op # o} = {x \in 1 .. k : a[x].op # o} BY <2>1
    <2> QED BY <2>2 DEF Count
  <1> DEFINE G == {k \in Nat : k <= Len(b) => Count(s, Len(a) + k, o) = Count(a, Len(a), o) + Count(b, k, o)}
  <1>2. 0 \in G
    <2>1. Count(s, Len(a), o) = Count(a, Len(a), o) BY <1>0, <1>1
    <2>2. Count(b, 0, o) = 0 /\ Count(a, Len(a), o) \in Nat BY <1>0, CountNext
    <2> QED BY <1>0, <2>1, <2>2
  <1>3. ASSUME NEW k \in Nat, k \in G PROVE k + 1 \in G
    <2> SUFFICES ASSUME k + 1 <= Len(b)
                 PROVE  Count(s, Len(a) + (k + 1), o) = Count(a, Len(a), o) + Count(b, k + 1, o)
      OBVIOUS
    <2>1. Len(a) + k \in Nat /\ Len(a) + (k + 1) = (Len(a) + k) + 1 BY <1>a
    <2>2. s[(Len(a) + k) + 1] = b[k + 1]
      <3>1. (Len(a) + k) + 1 \in 1 .. Len(a) + Len(b) /\ ~((Len(a) + k) + 1 <= Len(a)) /\ (Len(a) + k) + 1 - Len(a) = k + 1
        BY <1>0
      <3> QED BY <1>0, <3>1
    <2>3. Count(s, (Len(a) + k) + 1, o) = Count(s, Len(a) + k, o) + (IF s[(Len(a) + k) + 1].op # o THEN 1 ELSE 0)
      BY <2>1, CountNext
    <2>4. Count(b, k + 1, o) = Count(b, k, o) + (IF b[k + 1].op # o THEN 1 ELSE 0)
      BY CountNext
    <2>5. Count(s, Len(a) + k, o) = Count(a, Len(a), o) + Count(b, k, o) BY <1>0, <1>3
    <2>6. Count(a, Len(a), o) \in Nat /\ Count(b, k, o) \in Nat BY <1>0, CountNext
    <2> QED BY <2>1, <2>2, <2>3, <2>4, <2>5, <2>6
  <1> HIDE DEF G
  <1>4. Nat \subseteq G
    BY <1>2, <1>3, Induction
  <1>5. \A k \in 0 .. Len(b) : Count(s, Len(a) + k, o) = Count(a, Len(a), o) + Count(b, k, o)
    BY <1>0, <1>4 DEF G
  <1> QED BY <1>1, <1>5 DEF s


LEMMA CountGrows ==
  ASSUME NEW s, NEW o, NEW i \in Nat, NEW k \in Nat, i <= k
  PROVE  /\ Count(s, i, o) \in Nat /\ Count(s, k, o) \in Nat /\ Count(s, i, o) <= Count(s, k, o)
         /\ Count(s, i, o) <= i
         /\ i > 0 /\ s[i].op # o => Count(s, i, o) > 0
  <1> DEFINE T(n) == {x \in 1 .. n : s[x].op # o}
  <1>1. T(i) \in SUBSET T(k) /\ T(k) \in SUBSET (1 .. k) /\ T(i) \in SUBSET (1 .. i)
    OBVIOUS
  <1>2. i > 0 /\ s[i].op # o => T(i) # {}
    OBVIOUS
  <1>3. IsFiniteSet(1 .. k) /\ IsFiniteSet(1 .. i) /\ Cardinality(1 .. i) = i
    BY FS_Interval
  <1> HIDE DEF T
  <1>4. IsFiniteSet(T(k)) /\ IsFiniteSet(T(i)) /\ Cardinality(T(i)) <= i
    BY <1>1, <1>3, FS_Subset
  <1>5. Cardinality(T(i)) <= Cardinality(T(k)) /\ Cardinality(T(i)) \in Nat /\ Cardinality(T(k)) \in Nat
    BY <1>1, <1>4, FS_Subset, FS_CardinalityType
  <1>6. T(i) # {} => Cardinality(T(i)) # 0
    BY <1>4, FS_EmptySet
  <1>7. Count(s, i, o) = Cardinality(T(i)) /\ Count(s, k, o) = Cardinality(T(k))
    BY DEF Count, T
  <1> QED BY <1>2, <1>4, <1>5, <1>6, <1>7

LEMMA CountAlike ==
  ASSUME NEW s, NEW o, NEW k \in Nat
  PROVE  /\ (\A x \in 1 .. k : s[x].op = o) => Count(s, k, o) = 0
         /\ (\A x \in 1 .. k : s[x].op # o) => Count(s, k, o) = k
  <1>1. CASE \A x \in 1 .. k : s[x].op = o
    <2>1. {x \in 1 .. k : s[x].op # o} = {} BY <1>1
    <2>2. Count(s, k, o) = 0 BY <2>1, FS_EmptySet DEF Count
    <2>3. (\A x \in 1 .. k : s[x].op # o) => k = 0 BY <1>1
    <2> QED BY <2>2, <2>3
  <1>2. CASE \A x \in 1 .. k : s[x].op # o
    <2>1. {x \in 1 .. k : s[x].op # o} = 1 .. k BY <1>2
    <2>2. Cardinality(1 .. k) = k BY FS_Interval
    <2>3. Count(s, k, o) = k BY <2>1, <2>2 DEF Count
    <2>4. (\A x \in 1 .. k : s[x].op = o) => k = 0 BY <1>2
    <2> QED BY <2>3, <2>4
  <1> QED BY <1>1, <1>2

LEMMA CountFirst ==
  ASSUME NEW e \in Entry, NEW s \in Seq(Entry)
  PROVE  /\ <<e>> \o s \in Seq(Entry) /\ Len(<<e>> \o s) = Len(s) + 1
         /\ (<<e>> \o s)[1] = e /\ \A k \in 1 .. Len(s) : (<<e>> \o s)[k + 1] = s[k]
         /\ \A o : \A k \in 0 .. Len(s) :
              Count(<<e>> \o s, k + 1, o) = (IF e.op # o THEN 1 ELSE 0) + Count(s, k, o)
  <1>1. <<e>> \in Seq(Entry) /\ Len(<<e>>) = 1 /\ <<e>>[1] = e
    BY OneIsSeq
  <1>2. /\ <<e>> \o s \in Seq(Entry) /\ Len(<<e>> \o s) = Len(s) + 1
        /\ (<<e>> \o s)[1] = e /\ \A k \in 1 .. Len(s) : (<<e>> \o s)[k + 1] = s[k]
    <2> DEFINE a == <<e>>
    <2> HIDE DEF a
    <2>1. a \in Seq(Entry) /\ Len(a) = 1 /\ a[1] = e BY <1>1 DEF a
    <2>2. /\ a \o s \in Seq(Entry) /\ Len(a \o s) = Len(a) + Len(s) /\ Len(s) \in Nat
          /\ \A k \in 1 .. Len(a) + Len(s) : (a \o s)[k] = IF k <= Len(a) THEN a[k] ELSE s[k - Len(a)]
      BY <2>1, ConcatProperties, LenProperties
    <2>3. ASSUME NEW k \in 1 .. Len(s) PROVE (a \o s)[k + 1] = s[k]
      <3>1. k + 1 \in 1 .. Len(a) + Len(s) /\ ~(k + 1 <= Len(a)) /\ (k + 1) - Len(a) = k BY <2>1, <2>2
      <3> QED BY <2>2, <3>1
    <2> QED BY <2>1, <2>2, <2>3 DEF a
  <1>3. ASSUME NEW o, NEW k \in 0 .. Len(s)
        PROVE  Count(<<e>> \o s, k + 1, o) = (IF e.op # o THEN 1 ELSE 0) + Count(s, k, o)
    <2>1. Count(<<e>>, 1, o) = IF e.op # o THEN 1 ELSE 0
      <3>1. Count(<<e>>, 0 + 1, o) = Count(<<e>>, 0, o) + (IF <<e>>[0 + 1].op # o THEN 1 ELSE 0)
        BY CountNext
      <3>2. Count(<<e>>, 0, o) = 0 BY CountNext
      <3> QED BY <1>1, <3>1, <3>2
    <2>2. Count(<<e>> \o s, Len(<<e>>) + k, o) = Count(<<e>>, Len(<<e>>), o) + Count(s, k, o)
      BY <1>1, CountJoined
    <2>3. Len(<<e>>) + k = k + 1 /\ Len(<<e>>) = 1 BY <1>1
    <2> QED BY <2>1, <2>2, <2>3
  <1> QED BY <1>2, <1>3

-----------------------------------------------------------------------------
(* How many edits there are from a cell of the table on. *)

\* The runs of additions and deletions at the edges of the table.
Over(n) == IF n > 0 THEN n ELSE 0
AddsFrom(new, j, n) == [k \in 1 .. n |-> AddOf(new, j + k - 1)]
DelsFrom(old, i, n) == [k \in 1 .. n |-> DelOf(old, i + k - 1)]

LEMMA RunTypes ==
  ASSUME NEW old \in Seq(GitLine), NEW new \in Seq(GitLine), NEW n \in Nat
  PROVE  /\ \A j \in 1 .. Len(new) + 1 : j + n <= Len(new) + 1 =>
              /\ AddsFrom(new, j, n) \in Seq(Entry) /\ Len(AddsFrom(new, j, n)) = n
              /\ \A k \in 1 .. n : AddsFrom(new, j, n)[k] = AddOf(new, j + k - 1)
         /\ \A i \in 1 .. Len(old) + 1 : i + n <= Len(old) + 1 =>
              /\ DelsFrom(old, i, n) \in Seq(Entry) /\ Len(DelsFrom(old, i, n)) = n
              /\ \A k \in 1 .. n : DelsFrom(old, i, n)[k] = DelOf(old, i + k - 1)
  <1>0. Len(old) \in Nat /\ Len(new) \in Nat
    BY LenProperties
  <1>1. ASSUME NEW j \in 1 .. Len(new) + 1, j + n <= Len(new) + 1
        PROVE  /\ AddsFrom(new, j, n) \in Seq(Entry) /\ Len(AddsFrom(new, j, n)) = n
               /\ \A k \in 1 .. n : AddsFrom(new, j, n)[k] = AddOf(new, j + k - 1)
    <2>1. \A k \in 1 .. n : j + k - 1 \in 1 .. Len(new) BY <1>0, <1>1
    <2>2. \A k \in 1 .. n : AddOf(new, j + k - 1) \in Entry BY <2>1, EntryTypes
    <2>3. AddsFrom(new, j, n) \in [1 .. n -> Entry] BY <2>2 DEF AddsFrom
    <2>4. AddsFrom(new, j, n) \in Seq(Entry) BY <2>3, SeqDef
    <2>5. Len(AddsFrom(new, j, n)) = n BY <2>3, <2>4, LenProperties
    <2> QED BY <2>4, <2>5 DEF AddsFrom
  <1>2. ASSUME NEW i \in 1 .. Len(old) + 1, i + n <= Len(old) + 1
        PROVE  /\ DelsFrom(old, i, n) \in Seq(Entry) /\ Len(DelsFrom(old, i, n)) = n
               /\ \A k \in 1 .. n : DelsFrom(old, i, n)[k] = DelOf(old, i + k - 1)
    <2>1. \A k \in 1 .. n : i + k - 1 \in 1 .. Len(old) BY <1>0, <1>2
    <2>2. \A k \in 1 .. n : DelOf(old, i + k - 1) \in Entry BY <2>1, EntryTypes
    <2>3. DelsFrom(old, i, n) \in [1 .. n -> Entry] BY <2>2 DEF DelsFrom
    <2>4. DelsFrom(old, i, n) \in Seq(Entry) BY <2>3, SeqDef
    <2>5. Len(DelsFrom(old, i, n)) = n BY <2>3, <2>4, LenProperties
    <2> QED BY <2>4, <2>5 DEF DelsFrom
  <1> QED BY <1>1, <1>2

\* The cases of a cell.
LEMMA CellAdds ==
  ASSUME NEW old \in Seq(GitLine), NEW new \in Seq(GitLine),
         NEW end \in 0 .. Len(old), end <= Len(new), NEW f,
         NEW i \in 1 .. Len(old) + 1, NEW j \in 1 .. Len(new) + 1, i > Len(old) - end
  PROVE  Cell(old, new, end, f, <<i, j>>) = AddsFrom(new, j, Over(Len(new) - end + 1 - j))
  <1> DEFINE n == Len(new) - end + 1 - j
  <1>0. Len(old) \in Nat /\ Len(new) \in Nat
    BY LenProperties
  <1>1. 1 .. n = 1 .. Over(n)
    BY <1>0 DEF Over
  <1>2. Cell(old, new, end, f, <<i, j>>) = [k \in 1 .. n |-> AddOf(new, j + k - 1)]
    BY DEF Cell
  <1> HIDE DEF n
  <1>3. Cell(old, new, end, f, <<i, j>>) = AddsFrom(new, j, Over(n))
    BY <1>1, <1>2 DEF AddsFrom
  <1> QED BY <1>3 DEF n

LEMMA CellDels ==
  ASSUME NEW old \in Seq(GitLine), NEW new \in Seq(GitLine),
         NEW end \in 0 .. Len(old), end <= Len(new), NEW f,
         NEW i \in 1 .. Len(old) + 1, NEW j \in 1 .. Len(new) + 1, i <= Len(old) - end, j > Len(new) - end
  PROVE  Cell(old, new, end, f, <<i, j>>) = DelsFrom(old, i, Len(old) - end + 1 - i)
  <1>1. ~(i > Len(old) - end)
    BY LenProperties
  <1> QED BY <1>1 DEF Cell, DelsFrom

LEMMA CellKeeps ==
  ASSUME NEW old \in Seq(GitLine), NEW new \in Seq(GitLine),
         NEW end \in 0 .. Len(old), end <= Len(new), NEW f,
         NEW i \in 1 .. Len(old) + 1, NEW j \in 1 .. Len(new) + 1, i <= Len(old) - end,
         j <= Len(new) - end, old[i] = new[j]
  PROVE  Cell(old, new, end, f, <<i, j>>) = <<KeepOf(old, i, j)>> \o f[<<i + 1, j + 1>>]
  <1>1. ~(i > Len(old) - end) /\ ~(j > Len(new) - end)
    BY LenProperties
  <1> QED BY <1>1 DEF Cell

\* The shorter of two scripts, the one with the deletion if they are alike.
Cheaper(d, a) == IF EditsOf(d) <= EditsOf(a) THEN d ELSE a

LEMMA CellEdits ==
  ASSUME NEW old \in Seq(GitLine), NEW new \in Seq(GitLine),
         NEW end \in 0 .. Len(old), end <= Len(new), NEW f,
         NEW i \in 1 .. Len(old) + 1, NEW j \in 1 .. Len(new) + 1, i <= Len(old) - end,
         j <= Len(new) - end, old[i] # new[j]
  PROVE  Cell(old, new, end, f, <<i, j>>) =
           Cheaper(<<DelOf(old, i)>> \o f[<<i + 1, j>>], <<AddOf(new, j)>> \o f[<<i, j + 1>>])
  <1>1. ~(i > Len(old) - end) /\ ~(j > Len(new) - end)
    BY LenProperties
  <1> QED BY <1>1 DEF Cell, Cheaper

LEMMA EditsOfFirst ==
  ASSUME NEW s \in Seq(Entry)
  PROVE  /\ EditsOf(s) \in Nat
         /\ \A e \in Entry : EditsOf(<<e>> \o s) = (IF e.op # "context" THEN 1 ELSE 0) + EditsOf(s)
  <1>0. Len(s) \in Nat
    BY LenProperties
  <1>1. EditsOf(s) \in Nat
    <2>1. Count(s, Len(s), "context") \in Nat BY <1>0, CountNext
    <2> QED BY <2>1, CountIs
  <1>2. ASSUME NEW e \in Entry
        PROVE  EditsOf(<<e>> \o s) = (IF e.op # "context" THEN 1 ELSE 0) + EditsOf(s)
    <2>1. /\ <<e>> \o s \in Seq(Entry) /\ Len(<<e>> \o s) = Len(s) + 1
          /\ Count(<<e>> \o s, Len(s) + 1, "context")
               = (IF e.op # "context" THEN 1 ELSE 0) + Count(s, Len(s), "context")
      BY <1>0, CountFirst
    <2> QED BY <2>1, CountIs
  <1> QED BY <1>1, <1>2

LEMMA EditsOfRuns ==
  ASSUME NEW old \in Seq(GitLine), NEW new \in Seq(GitLine), NEW n \in Nat
  PROVE  /\ \A j \in 1 .. Len(new) + 1 : j + n <= Len(new) + 1 => EditsOf(AddsFrom(new, j, n)) = n
         /\ \A i \in 1 .. Len(old) + 1 : i + n <= Len(old) + 1 => EditsOf(DelsFrom(old, i, n)) = n
  <1>1. ASSUME NEW j \in 1 .. Len(new) + 1, j + n <= Len(new) + 1 PROVE EditsOf(AddsFrom(new, j, n)) = n
    <2> DEFINE s == AddsFrom(new, j, n)
    <2>1. s \in Seq(Entry) /\ Len(s) = n /\ \A k \in 1 .. n : s[k] = AddOf(new, j + k - 1)
      BY <1>1, RunTypes
    <2> HIDE DEF s
    <2>2. \A k \in 1 .. n : s[k].op # "context" BY <2>1 DEF AddOf
    <2>3. Count(s, n, "context") = n BY <2>2, CountAlike
    <2> QED BY <2>1, <2>3, CountIs DEF s
  <1>2. ASSUME NEW i \in 1 .. Len(old) + 1, i + n <= Len(old) + 1 PROVE EditsOf(DelsFrom(old, i, n)) = n
    <2> DEFINE s == DelsFrom(old, i, n)
    <2>1. s \in Seq(Entry) /\ Len(s) = n /\ \A k \in 1 .. n : s[k] = DelOf(old, i + k - 1)
      BY <1>2, RunTypes
    <2> HIDE DEF s
    <2>2. \A k \in 1 .. n : s[k].op # "context" BY <2>1 DEF DelOf
    <2>3. Count(s, n, "context") = n BY <2>2, CountAlike
    <2> QED BY <2>1, <2>3, CountIs DEF s
  <1> QED BY <1>1, <1>2

\* The script from a cell on, and its edits.
ScriptAt(old, new, end, i, j) == RestOf(old, new, end)[<<i, j>>]
Cost(old, new, end, i, j) == EditsOf(ScriptAt(old, new, end, i, j))

LEMMA ScriptAtIs ==
  ASSUME NEW old \in Seq(GitLine), NEW new \in Seq(GitLine),
         NEW end \in 0 .. Len(old), end <= Len(new),
         NEW i \in 1 .. Len(old) + 1, NEW j \in 1 .. Len(new) + 1
  PROVE  /\ ScriptAt(old, new, end, i, j) \in Seq(Entry)
         /\ Cost(old, new, end, i, j) \in Nat
         /\ ScriptAt(old, new, end, i, j) = Cell(old, new, end, RestOf(old, new, end), <<i, j>>)
  <1>1. <<i, j>> \in Grid(old, new)
    BY DEF Grid
  <1>2. ScriptAt(old, new, end, i, j) \in Seq(Entry)
    BY <1>1, RestType DEF ScriptAt
  <1>3. ScriptAt(old, new, end, i, j) = Cell(old, new, end, RestOf(old, new, end), <<i, j>>)
    BY <1>1, RestIs DEF ScriptAt
  <1> QED BY <1>2, <1>3, EditsOfFirst DEF Cost

LEMMA AtAdds ==
  ASSUME NEW old \in Seq(GitLine), NEW new \in Seq(GitLine),
         NEW end \in 0 .. Len(old), end <= Len(new),
         NEW i \in 1 .. Len(old) + 1, NEW j \in 1 .. Len(new) + 1, i > Len(old) - end
  PROVE  /\ Over(Len(new) - end + 1 - j) \in Nat /\ j + Over(Len(new) - end + 1 - j) <= Len(new) + 1
         /\ ScriptAt(old, new, end, i, j) = AddsFrom(new, j, Over(Len(new) - end + 1 - j))
         /\ Cost(old, new, end, i, j) = Over(Len(new) - end + 1 - j)
  <1> DEFINE n == Over(Len(new) - end + 1 - j)
  <1>1. n \in Nat /\ j + n <= Len(new) + 1
    BY LenProperties DEF Over
  <1>2. ScriptAt(old, new, end, i, j) = AddsFrom(new, j, n)
    <2>1. ScriptAt(old, new, end, i, j) = Cell(old, new, end, RestOf(old, new, end), <<i, j>>)
      BY ScriptAtIs
    <2>2. Cell(old, new, end, RestOf(old, new, end), <<i, j>>) = AddsFrom(new, j, n)
      BY CellAdds
    <2> QED BY <2>1, <2>2
  <1> HIDE DEF n
  <1>3. Cost(old, new, end, i, j) = n
    BY <1>1, <1>2, EditsOfRuns DEF Cost
  <1> QED BY <1>1, <1>2, <1>3 DEF n

LEMMA AtDels ==
  ASSUME NEW old \in Seq(GitLine), NEW new \in Seq(GitLine),
         NEW end \in 0 .. Len(old), end <= Len(new),
         NEW i \in 1 .. Len(old) + 1, NEW j \in 1 .. Len(new) + 1, i <= Len(old) - end, j > Len(new) - end
  PROVE  /\ Len(old) - end + 1 - i \in Nat
         /\ ScriptAt(old, new, end, i, j) = DelsFrom(old, i, Len(old) - end + 1 - i)
         /\ Cost(old, new, end, i, j) = Len(old) - end + 1 - i
  <1> DEFINE n == Len(old) - end + 1 - i
  <1>1. n \in Nat /\ i + n <= Len(old) + 1
    BY LenProperties
  <1>2. ScriptAt(old, new, end, i, j) = DelsFrom(old, i, n)
    <2>1. ScriptAt(old, new, end, i, j) = Cell(old, new, end, RestOf(old, new, end), <<i, j>>)
      BY ScriptAtIs
    <2>2. Cell(old, new, end, RestOf(old, new, end), <<i, j>>) = DelsFrom(old, i, n)
      BY CellDels
    <2> QED BY <2>1, <2>2
  <1> HIDE DEF n
  <1>3. Cost(old, new, end, i, j) = n
    BY <1>1, <1>2, EditsOfRuns DEF Cost
  <1> QED BY <1>1, <1>2, <1>3 DEF n

\* The cells after one that is not at an edge.
LEMMA AtInner ==
  ASSUME NEW old \in Seq(GitLine), NEW new \in Seq(GitLine),
         NEW end \in 0 .. Len(old), end <= Len(new),
         NEW i \in 1 .. Len(old) + 1, NEW j \in 1 .. Len(new) + 1, i <= Len(old) - end, j <= Len(new) - end
  PROVE  /\ i + 1 \in 1 .. Len(old) + 1 /\ j + 1 \in 1 .. Len(new) + 1 /\ i \in 1 .. Len(old) /\ j \in 1 .. Len(new)
         /\ ScriptAt(old, new, end, i + 1, j + 1) \in Seq(Entry)
         /\ ScriptAt(old, new, end, i + 1, j) \in Seq(Entry) /\ ScriptAt(old, new, end, i, j + 1) \in Seq(Entry)
         /\ Cost(old, new, end, i + 1, j + 1) \in Nat
         /\ Cost(old, new, end, i + 1, j) \in Nat /\ Cost(old, new, end, i, j + 1) \in Nat
         /\ KeepOf(old, i, j) \in Entry /\ DelOf(old, i) \in Entry /\ AddOf(new, j) \in Entry
         /\ EditsOf(<<KeepOf(old, i, j)>> \o ScriptAt(old, new, end, i + 1, j + 1)) = Cost(old, new, end, i + 1, j + 1)
         /\ EditsOf(<<DelOf(old, i)>> \o ScriptAt(old, new, end, i + 1, j)) = 1 + Cost(old, new, end, i + 1, j)
         /\ EditsOf(<<AddOf(new, j)>> \o ScriptAt(old, new, end, i, j + 1)) = 1 + Cost(old, new, end, i, j + 1)
  <1>1. i \in 1 .. Len(old) /\ j \in 1 .. Len(new) /\ i + 1 \in 1 .. Len(old) + 1 /\ j + 1 \in 1 .. Len(new) + 1
    BY LenProperties
  <1>2. /\ ScriptAt(old, new, end, i + 1, j + 1) \in Seq(Entry)
        /\ ScriptAt(old, new, end, i + 1, j) \in Seq(Entry) /\ ScriptAt(old, new, end, i, j + 1) \in Seq(Entry)
        /\ Cost(old, new, end, i + 1, j + 1) \in Nat
        /\ Cost(old, new, end, i + 1, j) \in Nat /\ Cost(old, new, end, i, j + 1) \in Nat
    BY <1>1, ScriptAtIs
  <1>3. KeepOf(old, i, j) \in Entry /\ DelOf(old, i) \in Entry /\ AddOf(new, j) \in Entry
    BY <1>1, EntryTypes
  <1>4. KeepOf(old, i, j).op = "context" /\ DelOf(old, i).op # "context" /\ AddOf(new, j).op # "context"
    BY DEF KeepOf, DelOf, AddOf
  <1>5. EditsOf(<<KeepOf(old, i, j)>> \o ScriptAt(old, new, end, i + 1, j + 1)) = Cost(old, new, end, i + 1, j + 1)
    BY <1>2, <1>3, <1>4, EditsOfFirst DEF Cost
  <1>6. EditsOf(<<DelOf(old, i)>> \o ScriptAt(old, new, end, i + 1, j)) = 1 + Cost(old, new, end, i + 1, j)
    BY <1>2, <1>3, <1>4, EditsOfFirst DEF Cost
  <1>7. EditsOf(<<AddOf(new, j)>> \o ScriptAt(old, new, end, i, j + 1)) = 1 + Cost(old, new, end, i, j + 1)
    BY <1>2, <1>3, <1>4, EditsOfFirst DEF Cost
  <1> QED BY <1>1, <1>2, <1>3, <1>5, <1>6, <1>7

LEMMA AtKeeps ==
  ASSUME NEW old \in Seq(GitLine), NEW new \in Seq(GitLine),
         NEW end \in 0 .. Len(old), end <= Len(new),
         NEW i \in 1 .. Len(old) + 1, NEW j \in 1 .. Len(new) + 1,
         i <= Len(old) - end, j <= Len(new) - end, old[i] = new[j]
  PROVE  /\ ScriptAt(old, new, end, i, j) = <<KeepOf(old, i, j)>> \o ScriptAt(old, new, end, i + 1, j + 1)
         /\ Cost(old, new, end, i, j) = Cost(old, new, end, i + 1, j + 1)
  <1>1. ScriptAt(old, new, end, i, j) = <<KeepOf(old, i, j)>> \o RestOf(old, new, end)[<<i + 1, j + 1>>]
    <2>1. ScriptAt(old, new, end, i, j) = Cell(old, new, end, RestOf(old, new, end), <<i, j>>)
      BY ScriptAtIs
    <2>2. Cell(old, new, end, RestOf(old, new, end), <<i, j>>) = <<KeepOf(old, i, j)>> \o RestOf(old, new, end)[<<i + 1, j + 1>>]
      BY CellKeeps
    <2> QED BY <2>1, <2>2
  <1>2. ScriptAt(old, new, end, i, j) = <<KeepOf(old, i, j)>> \o ScriptAt(old, new, end, i + 1, j + 1)
    BY <1>1 DEF ScriptAt
  <1>3. Cost(old, new, end, i, j) = EditsOf(<<KeepOf(old, i, j)>> \o ScriptAt(old, new, end, i + 1, j + 1))
    BY <1>2 DEF Cost
  <1> QED BY <1>2, <1>3, AtInner

\* Of two edits the one that leaves fewer is made.
LEMMA AtEdits ==
  ASSUME NEW old \in Seq(GitLine), NEW new \in Seq(GitLine),
         NEW end \in 0 .. Len(old), end <= Len(new),
         NEW i \in 1 .. Len(old) + 1, NEW j \in 1 .. Len(new) + 1,
         i <= Len(old) - end, j <= Len(new) - end, old[i] # new[j]
  PROVE  \/ /\ Cost(old, new, end, i + 1, j) <= Cost(old, new, end, i, j + 1)
            /\ ScriptAt(old, new, end, i, j) = <<DelOf(old, i)>> \o ScriptAt(old, new, end, i + 1, j)
            /\ Cost(old, new, end, i, j) = 1 + Cost(old, new, end, i + 1, j)
         \/ /\ Cost(old, new, end, i + 1, j) > Cost(old, new, end, i, j + 1)
            /\ ScriptAt(old, new, end, i, j) = <<AddOf(new, j)>> \o ScriptAt(old, new, end, i, j + 1)
            /\ Cost(old, new, end, i, j) = 1 + Cost(old, new, end, i, j + 1)
  <1> DEFINE s == ScriptAt(old, new, end, i, j)
             d == <<DelOf(old, i)>> \o ScriptAt(old, new, end, i + 1, j)
             a == <<AddOf(new, j)>> \o ScriptAt(old, new, end, i, j + 1)
             D == Cost(old, new, end, i + 1, j)
             A == Cost(old, new, end, i, j + 1)
  <1>1. s = Cheaper(<<DelOf(old, i)>> \o RestOf(old, new, end)[<<i + 1, j>>],
                    <<AddOf(new, j)>> \o RestOf(old, new, end)[<<i, j + 1>>])
    <2>1. s = Cell(old, new, end, RestOf(old, new, end), <<i, j>>)
      BY ScriptAtIs
    <2>2. Cell(old, new, end, RestOf(old, new, end), <<i, j>>) =
            Cheaper(<<DelOf(old, i)>> \o RestOf(old, new, end)[<<i + 1, j>>],
                    <<AddOf(new, j)>> \o RestOf(old, new, end)[<<i, j + 1>>])
      BY CellEdits
    <2> QED BY <2>1, <2>2
  <1>2. s = IF EditsOf(d) <= EditsOf(a) THEN d ELSE a
    BY <1>1 DEF ScriptAt, Cheaper
  <1>3. EditsOf(d) = 1 + D /\ EditsOf(a) = 1 + A /\ D \in Nat /\ A \in Nat
    BY AtInner
  <1>4. Cost(old, new, end, i, j) = EditsOf(s)
    BY DEF Cost
  <1> HIDE DEF s, d, a, D, A
  <1>5. CASE D <= A
    <2>1. s = d BY <1>2, <1>3, <1>5
    <2> QED BY <1>3, <1>4, <1>5, <2>1 DEF s, d, D, A
  <1>6. CASE D > A
    <2>1. s = a BY <1>2, <1>3, <1>6
    <2> QED BY <1>3, <1>4, <1>6, <2>1 DEF s, a, D, A
  <1> QED BY <1>3, <1>5, <1>6

\* A step along either side changes the edits that are left by one at most.
Close(old, new, end, i, j) ==
  /\ j <= Len(new) => Cost(old, new, end, i, j) <= Cost(old, new, end, i, j + 1) + 1
  /\ i <= Len(old) => Cost(old, new, end, i + 1, j) <= Cost(old, new, end, i, j) + 1

LEMMA CloseStep ==
  ASSUME NEW old \in Seq(GitLine), NEW new \in Seq(GitLine),
         NEW end \in 0 .. Len(old), end <= Len(new),
         NEW i \in 1 .. Len(old) + 1, NEW j \in 1 .. Len(new) + 1,
         i <= Len(old) - end /\ j <= Len(new) - end =>
           Close(old, new, end, i + 1, j) /\ Close(old, new, end, i, j + 1)
  PROVE  Close(old, new, end, i, j)
  <1>0. Len(old) \in Nat /\ Len(new) \in Nat
    BY LenProperties
  <1>1. CASE i > Len(old) - end
    <2>1. Cost(old, new, end, i, j) = Over(Len(new) - end + 1 - j)
      BY <1>1, AtAdds
    <2>2. ASSUME j <= Len(new) PROVE Cost(old, new, end, i, j + 1) = Over(Len(new) - end + 1 - (j + 1))
      <3>1. j + 1 \in 1 .. Len(new) + 1 BY <1>0, <2>2
      <3> QED BY <1>1, <3>1, AtAdds
    <2>3. ASSUME i <= Len(old) PROVE Cost(old, new, end, i + 1, j) = Over(Len(new) - end + 1 - j)
      <3>1. i + 1 \in 1 .. Len(old) + 1 /\ i + 1 > Len(old) - end BY <1>0, <1>1, <2>3
      <3> QED BY <3>1, AtAdds
    <2> QED BY <1>0, <2>1, <2>2, <2>3 DEF Close, Over
  <1>2. CASE i <= Len(old) - end /\ j > Len(new) - end
    <2>1. Cost(old, new, end, i, j) = Len(old) - end + 1 - i
      BY <1>2, AtDels
    <2>2. ASSUME j <= Len(new) PROVE Cost(old, new, end, i, j + 1) = Len(old) - end + 1 - i
      <3>1. j + 1 \in 1 .. Len(new) + 1 /\ j + 1 > Len(new) - end BY <1>0, <1>2, <2>2
      <3> QED BY <1>2, <3>1, AtDels
    <2>3. Cost(old, new, end, i + 1, j) <= Len(old) - end + 1 - i
      <3>0. i + 1 \in 1 .. Len(old) + 1 BY <1>0, <1>2
      <3>1. CASE i + 1 <= Len(old) - end
        <4>1. Cost(old, new, end, i + 1, j) = Len(old) - end + 1 - (i + 1) BY <1>2, <3>0, <3>1, AtDels
        <4> QED BY <1>0, <4>1
      <3>2. CASE i + 1 > Len(old) - end
        <4>1. Cost(old, new, end, i + 1, j) = Over(Len(new) - end + 1 - j) BY <3>0, <3>2, AtAdds
        <4> QED BY <1>0, <1>2, <4>1 DEF Over
      <3> QED BY <1>0, <3>1, <3>2
    <2>4. Len(old) - end + 1 - i \in Nat /\ Cost(old, new, end, i + 1, j) \in Nat
      <3>1. i + 1 \in 1 .. Len(old) + 1 /\ Len(old) - end + 1 - i \in Nat BY <1>0, <1>2
      <3> QED BY <3>1, ScriptAtIs
    <2> QED BY <2>1, <2>2, <2>3, <2>4 DEF Close
  <1>3. CASE i <= Len(old) - end /\ j <= Len(new) - end
    <2> DEFINE C == Cost(old, new, end, i, j)
               R == Cost(old, new, end, i + 1, j)
               D == Cost(old, new, end, i, j + 1)
               X == Cost(old, new, end, i + 1, j + 1)
    <2>1. C \in Nat /\ R \in Nat /\ D \in Nat /\ X \in Nat
      BY <1>3, AtInner, ScriptAtIs
    <2>2. R <= X + 1 /\ X <= D + 1
      <3>1. j <= Len(new) /\ i <= Len(old) BY <1>0, <1>3
      <3> QED BY <1>3, <3>1 DEF Close
    <2>3. old[i] = new[j] => C = X
      BY <1>3, AtKeeps
    <2>4. old[i] # new[j] => (R <= D /\ C = 1 + R) \/ (R > D /\ C = 1 + D)
      BY <1>3, AtEdits
    <2> HIDE DEF C, R, D, X
    <2>5. C <= D + 1 /\ R <= C + 1
      BY <2>1, <2>2, <2>3, <2>4
    <2> QED BY <2>5 DEF Close, C, R, D, X
  <1> QED BY <1>0, <1>1, <1>2, <1>3

LEMMA CostsClose ==
  ASSUME NEW old \in Seq(GitLine), NEW new \in Seq(GitLine),
         NEW end \in 0 .. Len(old), end <= Len(new)
  PROVE  \A i \in 1 .. Len(old) + 1, j \in 1 .. Len(new) + 1 : Close(old, new, end, i, j)
  <1> DEFINE Good == {n \in Nat : \A i \in 1 .. Len(old) + 1, j \in 1 .. Len(new) + 1 :
                                    Near(old, new, n, <<i, j>>) => Close(old, new, end, i, j)}
  <1>0. Len(old) \in Nat /\ Len(new) \in Nat
    BY LenProperties
  <1>1. 0 \in Good
    <2>1. ASSUME NEW i \in 1 .. Len(old) + 1, NEW j \in 1 .. Len(new) + 1, Near(old, new, 0, <<i, j>>)
          PROVE  Close(old, new, end, i, j)
      <3>1. ~(i <= Len(old) /\ j <= Len(new)) BY <2>1, NearNone
      <3>2. ~(i <= Len(old) - end /\ j <= Len(new) - end) BY <1>0, <3>1
      <3> QED BY <3>2, CloseStep
    <2> QED BY <2>1
  <1>2. ASSUME NEW n \in Nat, n \in Good PROVE n + 1 \in Good
    <2>1. ASSUME NEW i \in 1 .. Len(old) + 1, NEW j \in 1 .. Len(new) + 1, Near(old, new, n + 1, <<i, j>>)
          PROVE  Close(old, new, end, i, j)
      <3>1. ASSUME i <= Len(old) - end, j <= Len(new) - end
            PROVE  Close(old, new, end, i + 1, j) /\ Close(old, new, end, i, j + 1)
        <4>1. i <= Len(old) /\ j <= Len(new) /\ i + 1 \in 1 .. Len(old) + 1 /\ j + 1 \in 1 .. Len(new) + 1
          BY <1>0, <3>1
        <4>2. Near(old, new, n, <<i + 1, j>>) /\ Near(old, new, n, <<i, j + 1>>)
          BY <2>1, <4>1, NearGrows
        <4> QED BY <1>2, <4>1, <4>2
      <3> QED BY <3>1, CloseStep
    <2> QED BY <2>1
  <1> HIDE DEF Good
  <1>3. Nat \subseteq Good
    BY <1>1, <1>2, Induction
  <1>4. Len(old) + Len(new) \in Good
    BY <1>0, <1>3
  <1>5. ASSUME NEW i \in 1 .. Len(old) + 1, NEW j \in 1 .. Len(new) + 1
        PROVE  Near(old, new, Len(old) + Len(new), <<i, j>>)
    BY <1>0 DEF Near
  <1> QED BY <1>4, <1>5 DEF Good

-----------------------------------------------------------------------------
(* What the entries of a script tell: the numbers count the lines of their *)
(* side, and no deletion comes right after an addition.                    *)

\* The entry at place k of a script from cell <<i, j>> on is numbered by the
\* lines of its side, and no deletion comes next to an addition before it.
EntryTold(old, i, j, s, k) ==
  /\ s[k].op # "add" => /\ s[k].old = i - 1 + Count(s, k, "add")
                        /\ s[k].old \in 1 .. Len(old) /\ s[k].text = old[s[k].old][1]
  /\ s[k].op # "del" => s[k].new = j - 1 + Count(s, k, "del")
  /\ s[k].op = "add" => s[k].old = -1
  /\ s[k].op = "del" => s[k].new = -1
  /\ k < Len(s) /\ s[k].op = "add" => s[k + 1].op # "del"

\* So is every entry, and the script is of all lines but the last that stay.
Told(old, new, end, i, j, s) ==
  /\ s \in Seq(Entry)
  /\ \A k \in 1 .. Len(s) : EntryTold(old, i, j, s, k)
  /\ Count(s, Len(s), "add") = Len(old) - end + 1 - i
  /\ Count(s, Len(s), "del") = Len(new) - end + 1 - j

LEMMA ToldFirst ==
  ASSUME NEW old \in Seq(GitLine), NEW new \in Seq(GitLine), NEW end \in Nat,
         NEW i \in Nat, NEW j \in Nat, NEW x \in {i, i + 1}, NEW y \in {j, j + 1}, NEW e \in Entry, NEW s,
         Told(old, new, end, x, y, s),
         e.op = "add" <=> x = i, e.op = "del" <=> y = j,
         e.op # "add" => e.old = i /\ i \in 1 .. Len(old) /\ e.text = old[i][1],
         e.op # "del" => e.new = j,
         e.op = "add" => e.old = -1 /\ (Len(s) > 0 => s[1].op # "del"),
         e.op = "del" => e.new = -1
  PROVE  Told(old, new, end, i, j, <<e>> \o s)
  <1> DEFINE t == <<e>> \o s
             a == x - i
             d == y - j
  <1>a. /\ a \in {0, 1} /\ d \in {0, 1} /\ x = i + a /\ y = j + d
        /\ (e.op = "add" <=> a = 0) /\ (e.op = "del" <=> d = 0)
    OBVIOUS
  <1> HIDE DEF a, d
  <1>0. s \in Seq(Entry) /\ Len(s) \in Nat /\ Len(old) \in Nat /\ Len(new) \in Nat
    BY LenProperties DEF Told
  <1>1. t \in Seq(Entry) /\ Len(t) = Len(s) + 1 /\ t[1] = e /\ \A k \in 1 .. Len(s) : t[k + 1] = s[k]
    BY <1>0, CountFirst
  <1>b. ASSUME NEW k \in 0 .. Len(s)
        PROVE  /\ Count(s, k, "add") \in Nat /\ Count(s, k, "del") \in Nat
               /\ Count(t, k + 1, "add") = a + Count(s, k, "add") /\ Count(t, k + 1, "del") = d + Count(s, k, "del")
    <2>1. k \in Nat BY <1>0
    <2>2. Count(s, k, "add") \in Nat /\ Count(s, k, "del") \in Nat BY <2>1, CountNext
    <2>3. Count(t, k + 1, "add") = (IF e.op # "add" THEN 1 ELSE 0) + Count(s, k, "add") BY <1>0, CountFirst
    <2>4. Count(t, k + 1, "del") = (IF e.op # "del" THEN 1 ELSE 0) + Count(s, k, "del") BY <1>0, CountFirst
    <2>5. (IF e.op # "add" THEN 1 ELSE 0) = a /\ (IF e.op # "del" THEN 1 ELSE 0) = d BY <1>a
    <2> QED BY <1>a, <2>2, <2>3, <2>4, <2>5
  <1> HIDE DEF t
  <1>2. EntryTold(old, i, j, t, 1)
    <2>1. Count(t, 0 + 1, "add") = a /\ Count(t, 0 + 1, "del") = d
      <3>1. 0 \in 0 .. Len(s) /\ Count(s, 0, "add") = 0 /\ Count(s, 0, "del") = 0 BY <1>0, CountNext
      <3>2. /\ Count(t, 0 + 1, "add") = a + Count(s, 0, "add") /\ Count(t, 0 + 1, "del") = d + Count(s, 0, "del")
        BY <1>b, <3>1
      <3> QED BY <1>a, <3>1, <3>2
    <2>2. Count(t, 1, "add") = a /\ Count(t, 1, "del") = d BY <2>1
    <2>3. 1 < Len(t) => t[1 + 1] = s[1] /\ Len(s) > 0
      BY <1>0, <1>1
    <2>4. e.op # "add" => i - 1 + a = i BY <1>a
    <2>5. e.op # "del" => j - 1 + d = j BY <1>a
    <2> QED BY <1>1, <2>2, <2>3, <2>4, <2>5 DEF EntryTold
  <1>3. ASSUME NEW k \in 1 .. Len(s) PROVE EntryTold(old, i, j, t, k + 1)
    <2>1. EntryTold(old, i + a, j + d, s, k) BY <1>a DEF Told
    <2>2. t[k + 1] = s[k] /\ (k + 1 < Len(t) => k < Len(s) /\ t[(k + 1) + 1] = s[k + 1])
      <3>1. k + 1 < Len(t) => k < Len(s) /\ k + 1 \in 1 .. Len(s) BY <1>0, <1>1
      <3> QED BY <1>1, <3>1
    <2>3. /\ Count(s, k, "add") \in Nat /\ Count(s, k, "del") \in Nat
          /\ Count(t, k + 1, "add") = a + Count(s, k, "add") /\ Count(t, k + 1, "del") = d + Count(s, k, "del")
      BY <1>0, <1>b
    <2>4. /\ (i + a) - 1 + Count(s, k, "add") = i - 1 + Count(t, k + 1, "add")
          /\ (j + d) - 1 + Count(s, k, "del") = j - 1 + Count(t, k + 1, "del")
      BY <1>a, <2>3
    <2> QED BY <2>1, <2>2, <2>4 DEF EntryTold
  <1>4. \A k \in 1 .. Len(t) : EntryTold(old, i, j, t, k)
    <2> TAKE k \in 1 .. Len(t)
    <2>1. CASE k = 1 BY <1>2, <2>1
    <2>2. CASE k # 1
      <3>1. k - 1 \in 1 .. Len(s) /\ (k - 1) + 1 = k BY <1>0, <1>1, <2>2
      <3>2. EntryTold(old, i, j, t, (k - 1) + 1) BY <3>1, <1>3
      <3> QED BY <3>1, <3>2
    <2> QED BY <2>1, <2>2
  <1>5. Count(t, Len(t), "add") = Len(old) - end + 1 - i /\ Count(t, Len(t), "del") = Len(new) - end + 1 - j
    <2>1. /\ Count(t, Len(s) + 1, "add") = a + Count(s, Len(s), "add")
          /\ Count(t, Len(s) + 1, "del") = d + Count(s, Len(s), "del")
      BY <1>0, <1>b
    <2>2. Count(s, Len(s), "add") = Len(old) - end + 1 - (i + a) /\ Count(s, Len(s), "del") = Len(new) - end + 1 - (j + d)
      BY <1>a DEF Told
    <2> QED BY <1>0, <1>1, <1>a, <2>1, <2>2
  <1> QED BY <1>1, <1>4, <1>5 DEF Told, t

LEMMA ToldAdds ==
  ASSUME NEW old \in Seq(GitLine), NEW new \in Seq(GitLine),
         NEW end \in 0 .. Len(old), end <= Len(new), NEW j \in 1 .. Len(new) - end + 1
  PROVE  Told(old, new, end, Len(old) - end + 1, j, AddsFrom(new, j, Len(new) - end + 1 - j))
  <1> DEFINE n == Len(new) - end + 1 - j
             s == AddsFrom(new, j, n)
  <1>0. /\ Len(old) \in Nat /\ Len(new) \in Nat /\ n \in Nat /\ j + n <= Len(new) + 1
        /\ j \in 1 .. Len(new) + 1
    BY LenProperties
  <1> HIDE DEF n
  <1>1. s \in Seq(Entry) /\ Len(s) = n /\ \A k \in 1 .. n : s[k] = AddOf(new, j + k - 1)
    BY <1>0, RunTypes
  <1> HIDE DEF s
  <1>2. \A k \in 1 .. n : /\ s[k].op = "add" /\ s[k].op # "del"
                          /\ s[k].old = -1 /\ s[k].new = j + k - 1
    BY <1>1 DEF AddOf
  <1>3. ASSUME NEW k \in 0 .. n PROVE Count(s, k, "add") = 0 /\ Count(s, k, "del") = k
    <2>1. k \in Nat /\ \A m \in 1 .. k : m \in 1 .. n BY <1>0
    <2>2. (\A m \in 1 .. k : s[m].op = "add") /\ (\A m \in 1 .. k : s[m].op # "del") BY <1>2, <2>1
    <2> QED BY <2>1, <2>2, CountAlike
  <1>4. ASSUME NEW k \in 1 .. n PROVE EntryTold(old, Len(old) - end + 1, j, s, k)
    <2>1. Count(s, k, "del") = k BY <1>0, <1>3
    <2>2. k < Len(s) => s[k + 1].op # "del" BY <1>0, <1>1, <1>2
    <2> QED BY <1>0, <1>2, <2>1, <2>2 DEF EntryTold
  <1>5. Count(s, n, "add") = 0 /\ Count(s, n, "del") = n
    BY <1>0, <1>3
  <1> QED BY <1>0, <1>1, <1>4, <1>5 DEF Told, s, n

LEMMA ToldDels ==
  ASSUME NEW old \in Seq(GitLine), NEW new \in Seq(GitLine),
         NEW end \in 0 .. Len(old), end <= Len(new), NEW i \in 1 .. Len(old) - end + 1
  PROVE  Told(old, new, end, i, Len(new) - end + 1, DelsFrom(old, i, Len(old) - end + 1 - i))
  <1> DEFINE n == Len(old) - end + 1 - i
             s == DelsFrom(old, i, n)
  <1>0. /\ Len(old) \in Nat /\ Len(new) \in Nat /\ n \in Nat /\ i + n <= Len(old) + 1
        /\ i \in 1 .. Len(old) + 1
    BY LenProperties
  <1> HIDE DEF n
  <1>1. s \in Seq(Entry) /\ Len(s) = n /\ \A k \in 1 .. n : s[k] = DelOf(old, i + k - 1)
    BY <1>0, RunTypes
  <1> HIDE DEF s
  <1>2. \A k \in 1 .. n : /\ s[k].op = "del" /\ s[k].op # "add"
                          /\ s[k].new = -1 /\ s[k].old = i + k - 1 /\ s[k].text = old[i + k - 1][1]
    BY <1>1 DEF DelOf
  <1>3. ASSUME NEW k \in 0 .. n PROVE Count(s, k, "del") = 0 /\ Count(s, k, "add") = k
    <2>1. k \in Nat /\ \A m \in 1 .. k : m \in 1 .. n BY <1>0
    <2>2. (\A m \in 1 .. k : s[m].op = "del") /\ (\A m \in 1 .. k : s[m].op # "add") BY <1>2, <2>1
    <2> QED BY <2>1, <2>2, CountAlike
  <1>4. ASSUME NEW k \in 1 .. n PROVE EntryTold(old, i, Len(new) - end + 1, s, k)
    <2>1. Count(s, k, "add") = k BY <1>0, <1>3
    <2>2. i + k - 1 \in 1 .. Len(old) /\ i + k - 1 = i - 1 + k BY <1>0
    <2> QED BY <1>0, <1>2, <2>1, <2>2 DEF EntryTold
  <1>5. Count(s, n, "del") = 0 /\ Count(s, n, "add") = n
    BY <1>0, <1>3
  <1> QED BY <1>0, <1>1, <1>4, <1>5 DEF Told, s, n

\* Where an addition is cheaper, the step after it is not a deletion.
LEMMA NoDelNext ==
  ASSUME NEW old \in Seq(GitLine), NEW new \in Seq(GitLine),
         NEW end \in 0 .. Len(old), end <= Len(new),
         NEW i \in 1 .. Len(old) + 1, NEW j \in 1 .. Len(new) + 1,
         i <= Len(old) - end, j <= Len(new) - end,
         Cost(old, new, end, i + 1, j) > Cost(old, new, end, i, j + 1)
  PROVE  Len(ScriptAt(old, new, end, i, j + 1)) > 0 => ScriptAt(old, new, end, i, j + 1)[1].op # "del"
  <1>0. /\ Len(old) \in Nat /\ Len(new) \in Nat /\ i + 1 \in 1 .. Len(old) + 1 /\ j + 1 \in 1 .. Len(new) + 1
        /\ j <= Len(new) /\ i \in Nat /\ j \in Nat
    BY LenProperties
  <1> DEFINE R == Cost(old, new, end, i + 1, j)
             D == Cost(old, new, end, i, j + 1)
             X == Cost(old, new, end, i + 1, j + 1)
             s == ScriptAt(old, new, end, i, j + 1)
  <1>1. R \in Nat /\ D \in Nat /\ X \in Nat
    BY <1>0, ScriptAtIs
  <1>2. R <= X + 1
    BY <1>0, CostsClose DEF Close
  <1>3. D < X + 1
    BY <1>1, <1>2
  <1>4. j + 1 <= Len(new) - end
    <2> SUFFICES ASSUME j + 1 > Len(new) - end PROVE FALSE
      BY <1>0
    <2>1. D = Len(old) - end + 1 - i BY <1>0, AtDels
    <2>2. X = Len(old) - end - i
      <3>1. CASE i + 1 <= Len(old) - end
        <4>1. X = Len(old) - end + 1 - (i + 1) BY <1>0, <3>1, AtDels
        <4> QED BY <1>0, <4>1
      <3>2. CASE i + 1 > Len(old) - end
        <4>1. X = Over(Len(new) - end + 1 - (j + 1)) BY <1>0, <3>2, AtAdds
        <4> QED BY <1>0, <3>2, <4>1 DEF Over
      <3> QED BY <1>0, <3>1, <3>2
    <2> HIDE DEF D, X
    <2> QED BY <1>0, <1>3, <2>1, <2>2
  <1>5. CASE old[i] = new[j + 1]
    <2>1. s = <<KeepOf(old, i, j + 1)>> \o ScriptAt(old, new, end, i + 1, (j + 1) + 1)
      BY <1>0, <1>4, <1>5, AtKeeps
    <2>2. KeepOf(old, i, j + 1) \in Entry /\ ScriptAt(old, new, end, i + 1, (j + 1) + 1) \in Seq(Entry)
      BY <1>0, <1>4, AtInner
    <2>3. s[1] = KeepOf(old, i, j + 1) BY <2>1, <2>2, CountFirst
    <2> QED BY <2>3 DEF KeepOf
  <1>6. CASE old[i] # new[j + 1]
    <2>1. /\ s = <<AddOf(new, j + 1)>> \o ScriptAt(old, new, end, i, (j + 1) + 1)
      <3>1. \/ D = 1 + X
            \/ s = <<AddOf(new, j + 1)>> \o ScriptAt(old, new, end, i, (j + 1) + 1)
        BY <1>0, <1>4, <1>6, AtEdits
      <3> HIDE DEF D, X, s
      <3> QED BY <1>1, <1>3, <3>1
    <2>2. AddOf(new, j + 1) \in Entry /\ ScriptAt(old, new, end, i, (j + 1) + 1) \in Seq(Entry)
      BY <1>0, <1>4, AtInner
    <2>3. s[1] = AddOf(new, j + 1) BY <2>1, <2>2, CountFirst
    <2> QED BY <2>3 DEF AddOf
  <1> QED BY <1>5, <1>6

LEMMA ToldStep ==
  ASSUME NEW old \in Seq(GitLine), NEW new \in Seq(GitLine),
         NEW end \in 0 .. Len(old), end <= Len(new),
         NEW i \in 1 .. Len(old) - end + 1, NEW j \in 1 .. Len(new) - end + 1,
         i <= Len(old) - end /\ j <= Len(new) - end =>
           \A x \in {i, i + 1}, y \in {j, j + 1} :
             x # i \/ y # j => Told(old, new, end, x, y, ScriptAt(old, new, end, x, y))
  PROVE  Told(old, new, end, i, j, ScriptAt(old, new, end, i, j))
  <1>0. /\ Len(old) \in Nat /\ Len(new) \in Nat /\ i \in 1 .. Len(old) + 1 /\ j \in 1 .. Len(new) + 1
        /\ i \in Nat /\ j \in Nat /\ end \in Nat
    BY LenProperties
  <1>1. CASE i > Len(old) - end
    <2>1. i = Len(old) - end + 1 /\ Over(Len(new) - end + 1 - j) = Len(new) - end + 1 - j
      BY <1>0, <1>1 DEF Over
    <2>2. ScriptAt(old, new, end, i, j) = AddsFrom(new, j, Over(Len(new) - end + 1 - j))
      BY <1>0, <1>1, AtAdds
    <2> QED BY <2>1, <2>2, ToldAdds
  <1>2. CASE i <= Len(old) - end /\ j > Len(new) - end
    <2>1. j = Len(new) - end + 1
      BY <1>0, <1>2
    <2>2. ScriptAt(old, new, end, i, j) = DelsFrom(old, i, Len(old) - end + 1 - i)
      BY <1>0, <1>2, AtDels
    <2> QED BY <2>1, <2>2, ToldDels
  <1>3. CASE i <= Len(old) - end /\ j <= Len(new) - end
    <2>0. i \in 1 .. Len(old) /\ KeepOf(old, i, j) \in Entry /\ DelOf(old, i) \in Entry /\ AddOf(new, j) \in Entry
      BY <1>0, <1>3, AtInner
    <2>1. /\ Told(old, new, end, i + 1, j + 1, ScriptAt(old, new, end, i + 1, j + 1))
          /\ Told(old, new, end, i + 1, j, ScriptAt(old, new, end, i + 1, j))
          /\ Told(old, new, end, i, j + 1, ScriptAt(old, new, end, i, j + 1))
      BY <1>0, <1>3
    <2>2. CASE old[i] = new[j]
      <3>1. ScriptAt(old, new, end, i, j) = <<KeepOf(old, i, j)>> \o ScriptAt(old, new, end, i + 1, j + 1)
        BY <1>0, <1>3, <2>2, AtKeeps
      <3> DEFINE e == KeepOf(old, i, j)
      <3>2. e.op = "context" /\ e.old = i /\ e.new = j /\ e.text = old[i][1] BY DEF KeepOf
      <3>3. e \in Entry BY <2>0
      <3> HIDE DEF e
      <3>a. /\ i + 1 \in {i, i + 1} /\ j + 1 \in {j, j + 1} /\ (e.op = "add" <=> i + 1 = i) /\ (e.op = "del" <=> j + 1 = j)
            /\ (e.op # "add" => e.old = i /\ i \in 1 .. Len(old) /\ e.text = old[i][1])
            /\ (e.op # "del" => e.new = j) /\ (e.op = "del" => e.new = -1)
            /\ (e.op = "add" => e.old = -1 /\ (Len(ScriptAt(old, new, end, i + 1, j + 1)) > 0 => ScriptAt(old, new, end, i + 1, j + 1)[1].op # "del"))
        BY <1>0, <2>0, <3>2
      <3>4. Told(old, new, end, i, j, <<e>> \o ScriptAt(old, new, end, i + 1, j + 1))
        BY <1>0, <2>1, <3>3, <3>a, ToldFirst
      <3> QED BY <3>1, <3>4 DEF e
    <2>3. CASE old[i] # new[j]
      <3>1. \/ /\ ScriptAt(old, new, end, i, j) = <<DelOf(old, i)>> \o ScriptAt(old, new, end, i + 1, j)
            \/ /\ Cost(old, new, end, i + 1, j) > Cost(old, new, end, i, j + 1)
               /\ ScriptAt(old, new, end, i, j) = <<AddOf(new, j)>> \o ScriptAt(old, new, end, i, j + 1)
        BY <1>0, <1>3, <2>3, AtEdits
      <3>2. CASE ScriptAt(old, new, end, i, j) = <<DelOf(old, i)>> \o ScriptAt(old, new, end, i + 1, j)
        <4> DEFINE e == DelOf(old, i)
        <4>2. e.op = "del" /\ e.old = i /\ e.new = -1 /\ e.text = old[i][1] BY DEF DelOf
        <4>3. e \in Entry BY <2>0
        <4> HIDE DEF e
        <4>5. Told(old, new, end, i + 1, j, ScriptAt(old, new, end, i + 1, j))
          BY <1>0, <2>1
        <4>a. /\ i + 1 \in {i, i + 1} /\ j \in {j, j + 1} /\ (e.op = "add" <=> i + 1 = i) /\ (e.op = "del" <=> j = j)
              /\ (e.op # "add" => e.old = i /\ i \in 1 .. Len(old) /\ e.text = old[i][1])
              /\ (e.op # "del" => e.new = j) /\ (e.op = "del" => e.new = -1)
              /\ (e.op = "add" => e.old = -1 /\ (Len(ScriptAt(old, new, end, i + 1, j)) > 0 => ScriptAt(old, new, end, i + 1, j)[1].op # "del"))
          BY <1>0, <2>0, <4>2
        <4>4. Told(old, new, end, i, j, <<e>> \o ScriptAt(old, new, end, i + 1, j))
          BY <1>0, <2>1, <4>3, <4>a, ToldFirst
        <4> QED BY <3>2, <4>4 DEF e
      <3>3. CASE /\ Cost(old, new, end, i + 1, j) > Cost(old, new, end, i, j + 1)
                 /\ ScriptAt(old, new, end, i, j) = <<AddOf(new, j)>> \o ScriptAt(old, new, end, i, j + 1)
        <4> DEFINE e == AddOf(new, j)
        <4>2. e.op = "add" /\ e.new = j /\ e.old = -1 BY DEF AddOf
        <4>3. e \in Entry BY <2>0
        <4>6. Len(ScriptAt(old, new, end, i, j + 1)) > 0 => ScriptAt(old, new, end, i, j + 1)[1].op # "del"
          BY <1>0, <1>3, <3>3, NoDelNext
        <4> HIDE DEF e
        <4>5. Told(old, new, end, i, j + 1, ScriptAt(old, new, end, i, j + 1))
          BY <1>0, <2>1
        <4>a. /\ i \in {i, i + 1} /\ j + 1 \in {j, j + 1} /\ (e.op = "add" <=> i = i) /\ (e.op = "del" <=> j + 1 = j)
              /\ (e.op # "add" => e.old = i /\ i \in 1 .. Len(old) /\ e.text = old[i][1])
              /\ (e.op # "del" => e.new = j) /\ (e.op = "del" => e.new = -1)
              /\ (e.op = "add" => e.old = -1 /\ (Len(ScriptAt(old, new, end, i, j + 1)) > 0 => ScriptAt(old, new, end, i, j + 1)[1].op # "del"))
          BY <1>0, <2>0, <4>2, <4>6
        <4>4. Told(old, new, end, i, j, <<e>> \o ScriptAt(old, new, end, i, j + 1))
          BY <1>0, <2>1, <4>3, <4>a, ToldFirst
        <4> QED BY <3>3, <4>4 DEF e
      <3> QED BY <3>1, <3>2, <3>3
    <2> QED BY <2>2, <2>3
  <1> QED BY <1>0, <1>1, <1>2, <1>3

LEMMA ToldAll ==
  ASSUME NEW old \in Seq(GitLine), NEW new \in Seq(GitLine),
         NEW end \in 0 .. Len(old), end <= Len(new)
  PROVE  Told(old, new, end, 1, 1, ScriptAt(old, new, end, 1, 1))
  <1> DEFINE Good == {n \in Nat : \A i \in 1 .. Len(old) - end + 1, j \in 1 .. Len(new) - end + 1 :
                        Near(old, new, n, <<i, j>>) => Told(old, new, end, i, j, ScriptAt(old, new, end, i, j))}
  <1>0. /\ Len(old) \in Nat /\ Len(new) \in Nat
        /\ \A i \in 1 .. Len(old) - end + 1 : i \in 1 .. Len(old) + 1
        /\ \A j \in 1 .. Len(new) - end + 1 : j \in 1 .. Len(new) + 1
    BY LenProperties
  <1>1. 0 \in Good
    <2>1. ASSUME NEW i \in 1 .. Len(old) - end + 1, NEW j \in 1 .. Len(new) - end + 1, Near(old, new, 0, <<i, j>>)
          PROVE  Told(old, new, end, i, j, ScriptAt(old, new, end, i, j))
      <3>1. ~(i <= Len(old) /\ j <= Len(new)) BY <1>0, <2>1, NearNone
      <3>2. ~(i <= Len(old) - end /\ j <= Len(new) - end) BY <1>0, <3>1
      <3> QED BY <3>2, ToldStep
    <2> QED BY <2>1
  <1>2. ASSUME NEW n \in Nat, n \in Good PROVE n + 1 \in Good
    <2>1. ASSUME NEW i \in 1 .. Len(old) - end + 1, NEW j \in 1 .. Len(new) - end + 1, Near(old, new, n + 1, <<i, j>>)
          PROVE  Told(old, new, end, i, j, ScriptAt(old, new, end, i, j))
      <3>1. ASSUME i <= Len(old) - end, j <= Len(new) - end, NEW x \in {i, i + 1}, NEW y \in {j, j + 1}, x # i \/ y # j
            PROVE  Told(old, new, end, x, y, ScriptAt(old, new, end, x, y))
        <4>1. i <= Len(old) /\ j <= Len(new) /\ i \in 1 .. Len(old) + 1 /\ j \in 1 .. Len(new) + 1
          BY <1>0, <3>1
        <4>2. <<x, y>> \in {<<i + 1, j>>, <<i, j + 1>>, <<i + 1, j + 1>>}
          BY <3>1
        <4>3. Near(old, new, n, <<x, y>>)
          BY <2>1, <4>1, <4>2, NearGrows
        <4>4. x \in 1 .. Len(old) - end + 1 /\ y \in 1 .. Len(new) - end + 1
          BY <1>0, <3>1
        <4> QED BY <1>2, <4>3, <4>4
      <3> QED BY <3>1, ToldStep
    <2> QED BY <2>1
  <1> HIDE DEF Good
  <1>3. Nat \subseteq Good
    BY <1>1, <1>2, Induction
  <1>4. Len(old) + Len(new) \in Good
    BY <1>0, <1>3
  <1>5. Near(old, new, Len(old) + Len(new), <<1, 1>>)
    BY <1>0 DEF Near
  <1>6. 1 \in 1 .. Len(old) - end + 1 /\ 1 \in 1 .. Len(new) - end + 1
    BY <1>0
  <1> QED BY <1>4, <1>5, <1>6 DEF Good

LEMMA ToldScript ==
  ASSUME NEW old \in Seq(GitLine), NEW new \in Seq(GitLine)
  PROVE  Told(old, new, 0, 1, 1, ScriptOf(old, new))
  <1> DEFINE end == EndOf(old, new)
             r == ScriptAt(old, new, end, 1, 1)
             tail == [k \in 1 .. end |-> KeepOf(old, Len(old) - end + k, Len(new) - end + k)]
             t == r \o tail
  <1>0. Len(old) \in Nat /\ Len(new) \in Nat /\ end \in 0 .. Len(old) /\ end <= Len(new) /\ end \in Nat
    BY LenProperties, EndType
  <1>1. ScriptOf(old, new) = t
    BY ScriptIs DEF ScriptAt
  <1> HIDE DEF end
  <1>2. Told(old, new, end, 1, 1, r)
    BY <1>0, ToldAll
  <1> HIDE DEF r
  <1>3. /\ tail \in Seq(Entry) /\ Len(tail) = end
        /\ \A k \in 1 .. end : /\ tail[k].op = "context" /\ tail[k].old = Len(old) - end + k
                               /\ tail[k].new = Len(new) - end + k
                               /\ tail[k].text = old[Len(old) - end + k][1]
    <2>1. \A k \in 1 .. end : Len(old) - end + k \in 1 .. Len(old) /\ Len(new) - end + k \in Int BY <1>0
    <2>2. \A k \in 1 .. end : KeepOf(old, Len(old) - end + k, Len(new) - end + k) \in Entry BY <2>1, EntryTypes
    <2>3. tail \in [1 .. end -> Entry] BY <2>2
    <2>4. tail \in Seq(Entry) BY <1>0, <2>3, SeqDef
    <2>5. Len(tail) = end BY <1>0, <2>3, <2>4, LenProperties
    <2>6. \A k \in 1 .. end : tail[k] = KeepOf(old, Len(old) - end + k, Len(new) - end + k) OBVIOUS
    <2> HIDE DEF tail
    <2> QED BY <2>4, <2>5, <2>6 DEF KeepOf
  <1> HIDE DEF tail
  <1>4. /\ r \in Seq(Entry) /\ Len(r) \in Nat /\ t \in Seq(Entry) /\ Len(t) = Len(r) + end
        /\ \A k \in 1 .. Len(r) : t[k] = r[k]
        /\ \A k \in 1 .. end : t[Len(r) + k] = tail[k]
    <2>1. r \in Seq(Entry) BY <1>2 DEF Told
    <2>2. /\ t \in Seq(Entry) /\ Len(t) = Len(r) + Len(tail) /\ Len(r) \in Nat
          /\ \A k \in 1 .. Len(r) + Len(tail) : t[k] = IF k <= Len(r) THEN r[k] ELSE tail[k - Len(r)]
      BY <1>3, <2>1, ConcatProperties, LenProperties
    <2> HIDE DEF t
    <2>3. ASSUME NEW k \in 1 .. end PROVE t[Len(r) + k] = tail[k]
      <3>1. Len(r) + k \in 1 .. Len(r) + Len(tail) /\ ~(Len(r) + k <= Len(r)) /\ (Len(r) + k) - Len(r) = k
        BY <1>0, <1>3, <2>2
      <3> QED BY <2>2, <3>1
    <2>4. \A k \in 1 .. Len(r) : k \in 1 .. Len(r) + Len(tail) /\ k <= Len(r) BY <1>0, <1>3, <2>2
    <2> QED BY <1>3, <2>1, <2>2, <2>3, <2>4
  <1>5. \A o : /\ \A k \in 0 .. Len(r) : Count(t, k, o) = Count(r, k, o)
               /\ \A k \in 0 .. end : Count(t, Len(r) + k, o) = Count(r, Len(r), o) + Count(tail, k, o)
    <2> TAKE o
    <2>1. /\ \A k \in 0 .. Len(r) : Count(r \o tail, k, o) = Count(r, k, o)
          /\ \A k \in 0 .. Len(tail) : Count(r \o tail, Len(r) + k, o) = Count(r, Len(r), o) + Count(tail, k, o)
      BY <1>3, <1>4, CountJoined
    <2> QED BY <1>3, <2>1
  <1>6. ASSUME NEW k \in 0 .. end PROVE Count(tail, k, "add") = k /\ Count(tail, k, "del") = k
    <2>1. k \in Nat /\ \A m \in 1 .. k : m \in 1 .. end BY <1>0
    <2>2. (\A m \in 1 .. k : tail[m].op # "add") /\ (\A m \in 1 .. k : tail[m].op # "del") BY <1>3, <2>1
    <2> QED BY <2>1, <2>2, CountAlike
  <1>7. Count(r, Len(r), "add") = Len(old) - end /\ Count(r, Len(r), "del") = Len(new) - end
    <2>1. Count(r, Len(r), "add") = Len(old) - end + 1 - 1 /\ Count(r, Len(r), "del") = Len(new) - end + 1 - 1
      BY <1>2 DEF Told
    <2> QED BY <1>0, <2>1
  <1>8. ASSUME NEW k \in 1 .. end
        PROVE  Count(t, Len(r) + k, "add") = Len(old) - end + k /\ Count(t, Len(r) + k, "del") = Len(new) - end + k
    <2>1. k \in 0 .. end BY <1>0
    <2> QED BY <2>1, <1>5, <1>6, <1>7
  <1> HIDE DEF t
  <1>9. ASSUME NEW k \in 1 .. Len(t) PROVE EntryTold(old, 1, 1, t, k)
    <2>1. CASE k <= Len(r)
      <3>1. k \in 1 .. Len(r) /\ k \in 0 .. Len(r) BY <1>0, <1>4, <2>1
      <3>2. EntryTold(old, 1, 1, r, k) BY <1>2, <3>1 DEF Told
      <3>3. t[k] = r[k] /\ Count(t, k, "add") = Count(r, k, "add") /\ Count(t, k, "del") = Count(r, k, "del")
        BY <1>4, <1>5, <3>1
      <3>4. k < Len(t) /\ t[k].op = "add" => t[k + 1].op # "del"
        <4>1. CASE k < Len(r)
          <5>1. t[k + 1] = r[k + 1] BY <1>4, <3>1, <4>1
          <5> QED BY <3>2, <3>3, <4>1, <5>1 DEF EntryTold
        <4>2. CASE k = Len(r) /\ k < Len(t)
          <5>1. 1 \in 1 .. end BY <1>0, <1>4, <4>2
          <5>2. t[Len(r) + 1].op = "context" BY <1>3, <1>4, <5>1
          <5> QED BY <4>2, <5>2
        <4> QED BY <1>4, <2>1, <3>1, <4>1, <4>2
      <3> QED BY <3>2, <3>3, <3>4 DEF EntryTold
    <2>2. CASE k > Len(r)
      <3> DEFINE m == k - Len(r)
      <3>1. m \in 1 .. end /\ Len(r) + m = k BY <1>0, <1>4, <2>2
      <3> HIDE DEF m
      <3>2. t[k] = tail[m] BY <1>4, <3>1
      <3>3. /\ t[k].op = "context" /\ t[k].old = Len(old) - end + m /\ t[k].new = Len(new) - end + m
            /\ t[k].text = old[Len(old) - end + m][1]
        BY <1>3, <3>1, <3>2
      <3>4. Count(t, k, "add") = Len(old) - end + m /\ Count(t, k, "del") = Len(new) - end + m
        BY <1>8, <3>1
      <3>5. Len(old) - end + m \in 1 .. Len(old) BY <1>0, <3>1
      <3>6. Len(new) - end + m \in Int BY <1>0, <3>1
      <3> QED BY <3>3, <3>4, <3>5, <3>6 DEF EntryTold
    <2> QED BY <1>4, <2>1, <2>2
  <1>10. Count(t, Len(t), "add") = Len(old) /\ Count(t, Len(t), "del") = Len(new)
    <2>1. end \in 0 .. end /\ Len(t) = Len(r) + end BY <1>0, <1>4
    <2> QED BY <1>0, <2>1, <1>5, <1>6, <1>7
  <1> QED BY <1>0, <1>1, <1>4, <1>9, <1>10 DEF Told

LEMMA GitLinesIs ==
  ASSUME NEW t \in Text
  PROVE  /\ Len(GitLines(t)) \in 0 .. Len(t)
         /\ \A i \in 1 .. Len(GitLines(t)) : GitLines(t)[i][1] = t[i]
         /\ SubSeq(t, Len(GitLines(t)) + 1, Len(t)) \in {<<>>, <<Blank>>}
  <1>0. Len(t) \in Nat /\ t \in Seq(Line)
    BY LenProperties DEF Text
  <1>1. CASE t = Absent
    <2>1. GitLines(t) = <<>> /\ Len(GitLines(t)) = 0 /\ Len(t) = 0 BY <1>1, EmptySeq DEF GitLines, Absent
    <2>2. SubSeq(t, 1, 0) = <<>> BY <1>0, SubSeqEmpty
    <2> QED BY <2>1, <2>2
  <1>2. CASE t # Absent
    <2>1. Len(t) \in Nat \ {0} /\ Last(t) = t[Len(t)] BY <1>0, <1>2, EmptySeq DEF Absent, Last
    <2> DEFINE n == IF Last(t) = Blank THEN Len(t) - 1 ELSE Len(t)
               g == [i \in 1 .. n |-> <<t[i], i < Len(t)>>]
    <2>2. n \in Nat /\ n <= Len(t) BY <2>1
    <2>3. GitLines(t) = g BY <1>2 DEF GitLines
    <2> HIDE DEF n
    <2>4. Len(g) = n
      <3>1. g \in Seq(GitLine) /\ DOMAIN g = 1 .. n BY <2>3, GitLinesType
      <3> QED BY <2>2, <3>1, LenProperties
    <2>5. \A i \in 1 .. n : g[i][1] = t[i] OBVIOUS
    <2>6. SubSeq(t, n + 1, Len(t)) \in {<<>>, <<Blank>>}
      <3>1. CASE Last(t) = Blank
        <4>1. n + 1 = Len(t) BY <2>1, <3>1 DEF n
        <4>2. SubSeq(t, Len(t), Len(t)) = <<t[Len(t)]>>
          <5>1. Len(t) \in 1 .. Len(t) /\ Len(t) \in Len(t) .. Len(t) BY <2>1
          <5>2. SubSeq(t, Len(t), Len(t)) = <<t[Len(t)]>> \o SubSeq(t, Len(t) + 1, Len(t))
            BY <1>0, <5>1, SubSeqRecursiveFirst
          <5>3. SubSeq(t, Len(t) + 1, Len(t)) = <<>> BY <1>0, SubSeqEmpty
          <5>4. <<t[Len(t)]>> \in Seq(Line) BY <1>0, <5>1, ElementOfSeq, OneIsSeq
          <5> QED BY <5>2, <5>3, <5>4, ConcatEmptySeq
        <4> QED BY <2>1, <3>1, <4>1, <4>2
      <3>2. CASE Last(t) # Blank
        <4>1. n = Len(t) BY <3>2 DEF n
        <4>2. SubSeq(t, Len(t) + 1, Len(t)) = <<>> BY <1>0, SubSeqEmpty
        <4> QED BY <4>1, <4>2
      <3> QED BY <3>1, <3>2
    <2> HIDE DEF g
    <2> QED BY <2>2, <2>3, <2>4, <2>5, <2>6
  <1> QED BY <1>1, <1>2

\* What the script of two texts tells of the first.
ScriptOn(from, s) ==
  /\ s \in Seq(Entry)
  /\ \A k \in 1 .. Len(s) :
       /\ s[k].op \in {"context", "del", "add"}
       /\ s[k].op # "add" => /\ s[k].old = AtOf(s, k) /\ AtOf(s, k) \in 1 .. Len(from)
                             /\ s[k].text = from[AtOf(s, k)]
       /\ s[k].op # "del" => s[k].new = Count(s, k, "del")
       /\ s[k].op = "add" => s[k].old = -1
       /\ s[k].op = "del" => s[k].new = -1
       /\ k < Len(s) /\ s[k].op = "add" => s[k + 1].op # "del"
  /\ AtOf(s, Len(s)) = Len(GitLines(from))

LEMMA ScriptTells == \A from, to \in Text : ScriptOn(from, Script(from, to))
  <1> SUFFICES ASSUME NEW from \in Text, NEW to \in Text PROVE ScriptOn(from, Script(from, to))
    OBVIOUS
  <1> DEFINE old == GitLines(from)
             new == GitLines(to)
             s == Script(from, to)
  <1>1. old \in Seq(GitLine) /\ new \in Seq(GitLine) /\ Len(old) \in Nat /\ Len(from) \in Nat
    BY GitLinesType, LenProperties DEF Text
  <1>2. Len(old) \in 0 .. Len(from) /\ \A i \in 1 .. Len(old) : old[i][1] = from[i]
    BY GitLinesIs
  <1>3. s = ScriptOf(old, new)
    BY DEF Script
  <1> HIDE DEF old, new, s
  <1>4. Told(old, new, 0, 1, 1, s)
    BY <1>1, <1>3, ToldScript
  <1>5. s \in Seq(Entry) /\ Len(s) \in Nat
    BY <1>4, LenProperties DEF Told
  <1>6. \A k : AtOf(s, k) = Count(s, k, "add")
    BY CountIs
  <1>7. ASSUME NEW k \in 1 .. Len(s)
        PROVE  /\ s[k].op \in {"context", "del", "add"}
               /\ s[k].op # "add" => /\ s[k].old = AtOf(s, k) /\ AtOf(s, k) \in 1 .. Len(from)
                                     /\ s[k].text = from[AtOf(s, k)]
               /\ s[k].op # "del" => s[k].new = Count(s, k, "del")
               /\ s[k].op = "add" => s[k].old = -1
               /\ s[k].op = "del" => s[k].new = -1
               /\ k < Len(s) /\ s[k].op = "add" => s[k + 1].op # "del"
    <2>1. EntryTold(old, 1, 1, s, k) BY <1>4 DEF Told
    <2>2. s[k].op \in {"context", "del", "add"}
      <3>1. s[k] \in Entry BY <1>5, ElementOfSeq
      <3> QED BY <3>1 DEF Entry
    <2>3. k \in Nat BY <1>5
    <2>4. Count(s, k, "add") \in Nat /\ Count(s, k, "del") \in Nat BY <2>3, CountNext
    <2>5. 1 - 1 + Count(s, k, "add") = Count(s, k, "add") /\ 1 - 1 + Count(s, k, "del") = Count(s, k, "del")
      BY <2>4
    <2>6. s[k].op # "add" =>
            /\ s[k].old = Count(s, k, "add") /\ Count(s, k, "add") \in 1 .. Len(old)
            /\ s[k].text = old[Count(s, k, "add")][1]
      BY <2>1, <2>5 DEF EntryTold
    <2>7. \A c \in 1 .. Len(old) : c \in 1 .. Len(from) BY <1>1, <1>2
    <2>8. s[k].op # "add" =>
            /\ s[k].old = AtOf(s, k) /\ AtOf(s, k) \in 1 .. Len(from) /\ s[k].text = from[AtOf(s, k)]
      BY <1>2, <1>6, <2>6, <2>7
    <2> QED BY <2>1, <2>2, <2>5, <2>8 DEF EntryTold
  <1>8. AtOf(s, Len(s)) = Len(old)
    <2>1. Count(s, Len(s), "add") = Len(old) - 0 + 1 - 1 BY <1>4 DEF Told
    <2> QED BY <1>1, <1>6, <2>1
  <1> QED BY <1>5, <1>7, <1>8 DEF ScriptOn, s, old

-----------------------------------------------------------------------------
(* Places are in order, and a sequence in order is told by what is in it. *)

\* In order.
Rising(s) == \A i, j \in 1 .. Len(s) : i < j => s[i] < s[j]

LEMMA KeptRises == \A s \in Seq(Nat) : \A T : Rising(s) => Rising(Kept(s, T))
  <1> SUFFICES ASSUME NEW T PROVE \A s \in Seq(Nat) : Rising(s) => Rising(Kept(s, T))
    OBVIOUS
  <1> DEFINE G == {s \in Seq(Nat) : Rising(s) => Rising(Kept(s, T))}
  <1>1. <<>> \in G
    <2>1. <<>> \in Seq(Nat) /\ Len(<<>>) = 0 BY EmptySeq
    <2> QED BY <2>1, KeptOfNone DEF Rising
  <1>2. ASSUME NEW t \in Seq(Nat), NEW x \in Nat, t \in G PROVE Append(t, x) \in G
    <2> DEFINE u == Append(t, x)
               K == Kept(t, T)
    <2>1. /\ u \in Seq(Nat) /\ Len(u) = Len(t) + 1 /\ Len(t) \in Nat
          /\ u[Len(t) + 1] = x /\ \A i \in 1 .. Len(t) : u[i] = t[i]
      BY AppendProperties, LenProperties
    <2>2. Kept(u, T) = IF x \in T THEN Append(K, x) ELSE K
      BY KeptOfMore
    <2>3. K \in Seq(Nat) /\ Len(K) \in Nat
      BY KeptType, LenProperties
    <2>4. \A k \in 1 .. Len(K) : \E i \in 1 .. Len(t) : t[i] = K[k]
      <3> TAKE k \in 1 .. Len(K)
      <3>1. K[k] \in Range(K) BY <2>3, RangeEquality
      <3> QED BY <3>1, KeptRange
    <2> SUFFICES ASSUME Rising(u) PROVE Rising(Kept(u, T))
      BY <2>1
    <2> HIDE DEF u, K
    <2>5. Rising(t) /\ \A i \in 1 .. Len(t) : t[i] < x
      <3>1. ASSUME NEW i \in 1 .. Len(t) PROVE t[i] < x
        <4>1. i \in 1 .. Len(u) /\ Len(t) + 1 \in 1 .. Len(u) /\ i < Len(t) + 1 BY <2>1
        <4>2. u[i] < u[Len(t) + 1] BY <4>1 DEF Rising
        <4> QED BY <2>1, <4>2
      <3>2. ASSUME NEW i \in 1 .. Len(t), NEW j \in 1 .. Len(t), i < j PROVE t[i] < t[j]
        <4>1. i \in 1 .. Len(u) /\ j \in 1 .. Len(u) BY <2>1
        <4>2. u[i] < u[j] BY <3>2, <4>1 DEF Rising
        <4> QED BY <2>1, <4>2
      <3> QED BY <3>1, <3>2 DEF Rising
    <2>6. Rising(K)
      BY <1>2, <2>5 DEF K
    <2>7. CASE x \in T
      <3>1. /\ Len(Append(K, x)) = Len(K) + 1 /\ Append(K, x)[Len(K) + 1] = x
            /\ \A i \in 1 .. Len(K) : Append(K, x)[i] = K[i]
        BY <2>3, AppendProperties
      <3>2. \A k \in 1 .. Len(K) : K[k] < x BY <2>4, <2>5
      <3> DEFINE v == Append(K, x)
      <3> HIDE DEF v
      <3>3. ASSUME NEW i \in 1 .. Len(v), NEW j \in 1 .. Len(v), i < j PROVE v[i] < v[j]
        <4>1. i \in 1 .. Len(K) /\ v[i] = K[i] BY <2>3, <3>1, <3>3 DEF v
        <4>2. CASE j \in 1 .. Len(K) BY <2>6, <3>1, <3>3, <4>1, <4>2 DEF v, Rising
        <4>3. CASE j = Len(K) + 1 BY <3>1, <3>2, <4>1, <4>3 DEF v
        <4> QED BY <2>3, <3>1, <4>2, <4>3 DEF v
      <3>4. Kept(u, T) = v BY <2>2, <2>7 DEF v
      <3> QED BY <3>3, <3>4 DEF Rising
    <2>8. CASE x \notin T
      BY <2>2, <2>6, <2>8
    <2> QED BY <2>7, <2>8
  <1> HIDE DEF G
  <1>3. Seq(Nat) \subseteq G
    BY <1>1, <1>2, SeqInduction
  <1> QED BY <1>3 DEF G

LEMMA PlacesRise ==
  ASSUME NEW S, NEW s \in Seq(S), NEW T
  PROVE  /\ Places(s, T) \in Seq(1 .. Len(s)) /\ Rising(Places(s, T))
         /\ \A x : x \in Range(Places(s, T)) <=> x \in T /\ x \in 1 .. Len(s)
  <1> DEFINE all == [i \in 1 .. Len(s) |-> i]
  <1>0. Len(s) \in Nat
    BY LenProperties
  <1>1. all \in Seq(Nat) /\ all \in Seq(1 .. Len(s)) /\ Len(all) = Len(s)
    <2>1. all \in [1 .. Len(s) -> Nat] /\ all \in [1 .. Len(s) -> 1 .. Len(s)] OBVIOUS
    <2>2. all \in Seq(Nat) /\ all \in Seq(1 .. Len(s)) BY <1>0, <2>1, SeqDef
    <2>3. DOMAIN all = 1 .. Len(s) OBVIOUS
    <2> HIDE DEF all
    <2> QED BY <1>0, <2>2, <2>3, LenProperties
  <1>2. \A i \in 1 .. Len(s) : all[i] = i
    OBVIOUS
  <1> HIDE DEF all
  <1>3. Rising(all)
    BY <1>1, <1>2 DEF Rising
  <1>4. Rising(Kept(all, T)) /\ Kept(all, T) \in Seq(1 .. Len(s))
    BY <1>1, <1>3, KeptRises, KeptType
  <1>5. \A x : x \in Range(Kept(all, T)) <=> x \in T /\ \E i \in 1 .. Len(all) : all[i] = x
    BY <1>1, KeptRange
  <1> QED BY <1>1, <1>2, <1>4, <1>5 DEF Places, all

\* What is in Q is in P.
Covers(P, Q) == \A j \in 1 .. Len(Q) : \E i \in 1 .. Len(P) : P[i] = Q[j]

LEMMA RisingSame ==
  ASSUME NEW P \in Seq(Nat), NEW Q \in Seq(Nat), Rising(P), Rising(Q), Covers(P, Q), Covers(Q, P)
  PROVE  Len(P) <= Len(Q) /\ \A i \in 1 .. Len(P) : P[i] = Q[i]
  <1> DEFINE G == {n \in Nat : n <= Len(P) => n <= Len(Q) /\ \A i \in 1 .. n : P[i] = Q[i]}
  <1>0. /\ Len(P) \in Nat /\ Len(Q) \in Nat
        /\ (\A i \in 1 .. Len(P) : P[i] \in Nat) /\ (\A i \in 1 .. Len(Q) : Q[i] \in Nat)
    BY LenProperties, ElementOfSeq
  <1>1. 0 \in G
    BY <1>0
  <1>2. ASSUME NEW n \in Nat, n \in G PROVE n + 1 \in G
    <2> SUFFICES ASSUME n + 1 <= Len(P)
                 PROVE  n + 1 <= Len(Q) /\ \A i \in 1 .. n + 1 : P[i] = Q[i]
      OBVIOUS
    <2>1. n <= Len(Q) /\ \A i \in 1 .. n : P[i] = Q[i]
      BY <1>0, <1>2
    <2>a. Len(P) \in Nat /\ Len(Q) \in Nat /\ n + 1 \in 1 .. Len(P) /\ n < n + 1
      BY <1>0
    <2>2. \A i \in 1 .. n : i \in 1 .. Len(P) /\ i \in 1 .. Len(Q) /\ i < n + 1
      BY <2>1, <2>a
    <2> HIDE DEF G
    <2>b. P[n + 1] \in Nat
      BY <1>0, <2>a
    <2>3. PICK m \in 1 .. Len(Q) : Q[m] = P[n + 1]
      BY <2>a DEF Covers
    <2>4. m > n
      <3> SUFFICES ASSUME m \in 1 .. n PROVE FALSE
        BY <2>a
      <3>1. P[m] = P[n + 1] /\ m < n + 1 /\ m \in 1 .. Len(P) BY <2>1, <2>2, <2>3
      <3>2. P[m] < P[n + 1] BY <2>a, <3>1 DEF Rising
      <3> QED BY <2>b, <3>1, <3>2
    <2>5. n + 1 \in 1 .. Len(Q)
      BY <2>a, <2>4
    <2>c. Q[n + 1] \in Nat
      BY <1>0, <2>5
    <2>6. PICK l \in 1 .. Len(P) : P[l] = Q[n + 1]
      BY <2>5 DEF Covers
    <2>7. l > n
      <3> SUFFICES ASSUME l \in 1 .. n PROVE FALSE
        BY <2>a
      <3>1. Q[l] = Q[n + 1] /\ l < n + 1 /\ l \in 1 .. Len(Q) BY <2>1, <2>2, <2>6
      <3>2. Q[l] < Q[n + 1] BY <2>5, <3>1 DEF Rising
      <3> QED BY <2>c, <3>1, <3>2
    <2>8. Q[n + 1] <= P[n + 1]
      <3>1. CASE m = n + 1 BY <2>b, <2>3, <3>1
      <3>2. CASE n + 1 < m
        <4>1. Q[n + 1] < Q[m] BY <2>5, <3>2 DEF Rising
        <4> QED BY <2>b, <2>c, <2>3, <4>1
      <3> QED BY <2>a, <2>4, <3>1, <3>2
    <2>9. P[n + 1] <= Q[n + 1]
      <3>1. CASE l = n + 1 BY <2>c, <2>6, <3>1
      <3>2. CASE n + 1 < l
        <4>1. P[n + 1] < P[l] BY <2>a, <3>2 DEF Rising
        <4> QED BY <2>b, <2>c, <2>6, <4>1
      <3> QED BY <2>a, <2>7, <3>1, <3>2
    <2>10. P[n + 1] = Q[n + 1]
      BY <2>b, <2>c, <2>8, <2>9
    <2>11. \A i \in 1 .. n + 1 : i \in 1 .. n \/ i = n + 1
      BY <2>a
    <2> QED BY <2>a, <2>1, <2>5, <2>10, <2>11
  <1> HIDE DEF G
  <1>3. Nat \subseteq G
    BY <1>1, <1>2, Induction
  <1> QED BY <1>0, <1>3 DEF G

-----------------------------------------------------------------------------
(* Which row an entry of the script is in. *)

\* Entry x is in row j: it begins it, or is the addition paired with that one.
OfRow(s, x, j) == x = StartsOf(s)[j] \/ (x = StartsOf(s)[j] + 1 /\ PairedAt(s, x))

LEMMA StartsAre ==
  ASSUME NEW s \in Seq(Entry)
  PROVE  /\ StartsOf(s) \in Seq(1 .. Len(s)) /\ Len(StartsOf(s)) \in Nat
         /\ \A j \in 1 .. Len(StartsOf(s)) : StartsOf(s)[j] \in 1 .. Len(s) /\ ~PairedAt(s, StartsOf(s)[j])
         /\ \A x \in 1 .. Len(s) : ~PairedAt(s, x) => \E j \in 1 .. Len(StartsOf(s)) : StartsOf(s)[j] = x
         /\ Rising(StartsOf(s))
         /\ \A j, k \in 1 .. Len(StartsOf(s)) : StartsOf(s)[j] < StartsOf(s)[k] => j < k
  <1> DEFINE T == {i \in DOMAIN s : ~PairedAt(s, i)}
             P == StartsOf(s)
  <1>0. Len(s) \in Nat /\ DOMAIN s = 1 .. Len(s)
    BY LenProperties
  <1>1. P \in Seq(1 .. Len(s)) /\ Rising(P) /\ \A x : x \in Range(P) <=> x \in T /\ x \in 1 .. Len(s)
    BY PlacesRise DEF StartsOf
  <1> HIDE DEF P
  <1>2. /\ Len(P) \in Nat /\ Range(P) = {P[j] : j \in 1 .. Len(P)}
        /\ \A j \in 1 .. Len(P) : P[j] \in 1 .. Len(s)
    BY <1>1, LenProperties, RangeEquality, ElementOfSeq
  <1>3. \A j \in 1 .. Len(P) : ~PairedAt(s, P[j])
    BY <1>1, <1>2
  <1>4. \A x \in 1 .. Len(s) : ~PairedAt(s, x) => \E j \in 1 .. Len(P) : P[j] = x
    BY <1>0, <1>1, <1>2
  <1>5. ASSUME NEW j \in 1 .. Len(P), NEW k \in 1 .. Len(P), P[j] < P[k] PROVE j < k
    <2> SUFFICES ASSUME k < j \/ k = j PROVE FALSE
      BY <1>2
    <2>1. P[j] \in Int /\ P[k] \in Int BY <1>2
    <2>2. CASE k < j
      <3>1. P[k] < P[j] BY <1>1, <2>2 DEF Rising
      <3> QED BY <1>5, <2>1, <3>1
    <2> QED BY <1>5, <2>1, <2>2
  <1> QED BY <1>1, <1>2, <1>3, <1>4, <1>5 DEF P

LEMMA RowOfEntry ==
  ASSUME NEW s \in Seq(Entry), NEW x \in 1 .. Len(s)
  PROVE  \E j \in 1 .. Len(StartsOf(s)) : OfRow(s, x, j)
  <1>0. Len(s) \in Nat
    BY LenProperties
  <1>1. CASE ~PairedAt(s, x)
    BY <1>1, StartsAre DEF OfRow
  <1>2. CASE PairedAt(s, x)
    <2>1. x - 1 \in 1 .. Len(s) /\ ~PairedAt(s, x - 1)
      BY <1>0, <1>2 DEF PairedAt
    <2>2. PICK j \in 1 .. Len(StartsOf(s)) : StartsOf(s)[j] = x - 1
      BY <2>1, StartsAre
    <2>3. x = StartsOf(s)[j] + 1
      BY <1>0, <2>2
    <2> QED BY <1>2, <2>3 DEF OfRow
  <1> QED BY <1>1, <1>2

\* What a row tells of the entry it starts with.
RowTold(s, row, a) ==
  /\ row.type \in RowType
  /\ row.type = "context" <=> s[a].op = "context"
  /\ row.type = "added" <=> s[a].op = "add"
  /\ row.type = "modified" <=> a < Len(s) /\ PairedAt(s, a + 1)
  /\ row.old = s[a].old
  /\ row.type # "modified" => row.new = s[a].new
  /\ row.type # "added" => row.left = s[a].text
  /\ row.type \in {"added", "context"} => row.right = s[a].text
  /\ row.type = "modified" => row.new = s[a + 1].new /\ row.right = s[a + 1].text

LEMMA RowTells ==
  ASSUME NEW s \in Seq(Entry)
  PROVE  /\ RowsOf(s) \in Seq(Row) /\ Len(RowsOf(s)) = Len(StartsOf(s))
         /\ \A j \in 1 .. Len(RowsOf(s)) : RowTold(s, RowsOf(s)[j], StartsOf(s)[j])
  <1> DEFINE P == StartsOf(s)
  <1>0. Len(s) \in Nat /\ \A k \in 1 .. Len(s) : s[k].op \in {"context", "del", "add"}
    <2>1. \A k \in 1 .. Len(s) : s[k] \in Entry BY ElementOfSeq
    <2> QED BY <2>1, LenProperties DEF Entry
  <1>1. /\ P \in Seq(1 .. Len(s)) /\ Len(P) \in Nat /\ DOMAIN P = 1 .. Len(P)
        /\ \A j \in 1 .. Len(P) : P[j] \in 1 .. Len(s)
    BY StartsAre, LenProperties
  <1>2. RowsOf(s) = [k \in 1 .. Len(P) |-> RowAt(s, P[k])]
    BY <1>1, RowsOfIs
  <1> HIDE DEF P
  <1>3. Len(RowsOf(s)) = Len(P)
    <2>1. RowsOf(s) \in Seq(Row) /\ DOMAIN RowsOf(s) = 1 .. Len(P) BY <1>2, RowsOfType
    <2> QED BY <1>1, <2>1, LenProperties
  <1>4. ASSUME NEW a \in 1 .. Len(s) PROVE RowTold(s, RowAt(s, a), a)
    <2>1. a \in Nat /\ a + 1 > 1 /\ (a + 1) - 1 = a BY <1>0
    <2>2. PairedAt(s, a + 1) <=> s[a + 1].op = "add" /\ s[a].op = "del"
      BY <2>1 DEF PairedAt
    <2>3. s[a].op \in {"context", "del", "add"} BY <1>0
    <2>4. CASE a < Len(s) /\ PairedAt(s, a + 1)
      <3>1. RowAt(s, a) = [type |-> "modified", left |-> s[a].text, right |-> s[a + 1].text,
                           old |-> s[a].old, new |-> s[a + 1].new]
        BY <2>4 DEF RowAt
      <3> DEFINE row == RowAt(s, a)
      <3>2. /\ row.type = "modified" /\ row.left = s[a].text /\ row.right = s[a + 1].text
            /\ row.old = s[a].old /\ row.new = s[a + 1].new
        BY <3>1
      <3> HIDE DEF row
      <3>3. s[a].op = "del" BY <2>2, <2>4
      <3>4. RowTold(s, row, a)
        BY <2>4, <3>2, <3>3 DEF RowTold, RowType
      <3> QED BY <3>4 DEF row
    <2>5. CASE ~(a < Len(s) /\ PairedAt(s, a + 1))
      <3> DEFINE row == RowAt(s, a)
      <3>1. row = [type |-> CASE s[a].op = "del" -> "deleted" [] s[a].op = "add" -> "added"
                              [] OTHER -> "context",
                   left |-> IF s[a].op = "add" THEN Blank ELSE s[a].text,
                   right |-> IF s[a].op = "del" THEN Blank ELSE s[a].text,
                   old |-> s[a].old, new |-> s[a].new]
        BY <2>5 DEF RowAt
      <3>2. /\ row.old = s[a].old /\ row.new = s[a].new
            /\ row.left = IF s[a].op = "add" THEN Blank ELSE s[a].text
            /\ row.right = IF s[a].op = "del" THEN Blank ELSE s[a].text
        BY <3>1
      <3>3. row.type = CASE s[a].op = "del" -> "deleted" [] s[a].op = "add" -> "added"
                         [] OTHER -> "context"
        BY <3>1
      <3>4. /\ s[a].op = "del" => row.type = "deleted"
            /\ s[a].op = "add" => row.type = "added"
            /\ s[a].op = "context" => row.type = "context"
        BY <3>3
      <3> HIDE DEF row
      <3>5. RowTold(s, row, a)
        BY <2>3, <2>5, <3>2, <3>4 DEF RowTold, RowType
      <3> QED BY <3>5 DEF row
    <2> QED BY <2>4, <2>5
  <1>5. \A j \in 1 .. Len(P) : RowsOf(s)[j] = RowAt(s, P[j])
    BY <1>2
  <1>6. \A j \in 1 .. Len(P) : RowTold(s, RowsOf(s)[j], P[j])
    BY <1>1, <1>4, <1>5
  <1> QED BY <1>3, <1>6, RowsOfType DEF P

-----------------------------------------------------------------------------
(* A chunk is an interval of rows, and the numbers of its ends tell it.    *)

\* The rows from i to j are of one chunk.
Changed(rows, i, j) == \A k \in i .. j : rows[k].type # "context"

LEMMA ChunkIs ==
  ASSUME NEW rows \in Seq(Row), NEW i \in 1 .. Len(rows), rows[i].type # "context"
  PROVE  /\ \A j \in 1 .. Len(rows) : j \in ChunkOf(rows, i) <=> i <= j /\ Changed(rows, i, j)
         /\ \E l \in i .. Len(rows) : /\ ChunkOf(rows, i) = i .. l
                                      /\ i + Cardinality(ChunkOf(rows, i)) - 1 = l
  <1>0. Len(rows) \in Nat /\ i \in Nat
    BY LenProperties
  <1>1. \A j \in 1 .. Len(rows) : j \in ChunkOf(rows, i) <=> i <= j /\ Changed(rows, i, j)
    BY <1>0 DEF ChunkOf, Changed
  <1> DEFINE G == {n \in Nat : i + n <= Len(rows) /\ Changed(rows, i, i + n)}
  <1>2. 0 \in G
    BY <1>0 DEF Changed
  <1>3. PICK n \in Nat : n \in G /\ n + 1 \notin G
    <2> SUFFICES ASSUME \A n \in Nat : n \in G => n + 1 \in G PROVE FALSE
      OBVIOUS
    <2> HIDE DEF G
    <2>1. Nat \subseteq G BY <1>2, Induction
    <2>2. Len(rows) + 1 \in G BY <1>0, <2>1
    <2> QED BY <1>0, <2>2 DEF G
  <1> DEFINE l == i + n
  <1>4. l \in i .. Len(rows) /\ Changed(rows, i, l)
    BY <1>0, <1>3
  <1>5. l < Len(rows) => rows[l + 1].type = "context"
    <2> SUFFICES ASSUME l < Len(rows), rows[l + 1].type # "context" PROVE FALSE
      OBVIOUS
    <2>1. i + (n + 1) = l + 1 /\ l + 1 <= Len(rows) /\ n + 1 \in Nat BY <1>0
    <2>2. Changed(rows, i, l + 1)
      <3>1. \A k \in i .. l + 1 : k \in i .. l \/ k = l + 1 BY <1>0
      <3> QED BY <1>4, <3>1 DEF Changed
    <2> QED BY <1>3, <2>1, <2>2
  <1> HIDE DEF l, G
  <1>6. l \in Nat /\ l <= Len(rows) /\ i <= l
    BY <1>0, <1>4
  <1>7. ChunkOf(rows, i) = i .. l
    <2>1. ASSUME NEW j \in i .. l PROVE j \in ChunkOf(rows, i)
      <3>1. j \in i .. Len(rows) /\ \A k \in i .. j : k \in i .. l BY <1>0, <1>6
      <3> QED BY <1>4, <3>1 DEF ChunkOf, Changed
    <2>2. ASSUME NEW j \in ChunkOf(rows, i) PROVE j \in i .. l
      <3>1. j \in i .. Len(rows) /\ \A k \in i .. j : rows[k].type # "context" BY DEF ChunkOf
      <3> SUFFICES ASSUME j > l PROVE FALSE
        BY <1>0, <1>6, <3>1
      <3>2. l + 1 \in i .. j /\ l < Len(rows) BY <1>0, <1>6, <3>1
      <3> QED BY <1>5, <3>1, <3>2
    <2> QED BY <2>1, <2>2
  <1>8. i + Cardinality(i .. l) - 1 = l
    <2>1. Cardinality(i .. l) = l - i + 1 BY <1>0, <1>6, FS_Interval
    <2> QED BY <1>0, <1>6, <2>1
  <1> QED BY <1>1, <1>4, <1>7, <1>8

\* The numbers that getRange gives the chunk.
NumbersOf(rows, i) == GetRange(rows, i).start .. GetRange(rows, i).end

\* Apart, of any rows.
ApartIn(rows, i) ==
  \A j \in 1 .. Len(rows) :
    /\ rows[j].type \in {"deleted", "modified"} => (rows[j].old \in NumbersOf(rows, i) <=> j \in ChunkOf(rows, i))
    /\ rows[j].type \in {"added", "modified"} /\ j \notin ChunkOf(rows, i) => rows[j].new \notin NumbersOf(rows, i)

\* The cases of Taken.
Deleted(s, N, x) == s[x].op = "del" /\ s[x].old \in N
Follows(s, N, x) == \E y \in 1 .. x - 1 : Deleted(s, N, y) /\ \A k \in y + 1 .. x : s[k].op = "add"

LEMMA TakenIs ==
  ASSUME NEW s \in Seq(Entry), NEW rows, NEW i, NEW x \in 1 .. Len(s)
  PROVE  LET N == NumbersOf(rows, i) IN
         x \in Taken(s, GetRange(rows, i)) <=>
           Deleted(s, N, x) \/ (s[x].op = "add" /\ (s[x].new \in N \/ Follows(s, N, x)))
  <1>1. DOMAIN s = 1 .. Len(s)
    BY LenProperties
  <1> QED BY <1>1 DEF Taken, NumbersOf, Deleted, Follows

\* A chunk of the rows of a script, told apart.
ToldApart(from, s, rows, i) ==
  /\ ScriptOn(from, s) /\ rows = RowsOf(s) /\ i \in 1 .. Len(rows)
  /\ rows[i].type # "context" /\ ApartIn(rows, i)

LEMMA ApartIs ==
  ASSUME NEW from, NEW s, NEW rows, NEW i, ToldApart(from, s, rows, i)
  PROVE  /\ s \in Seq(Entry) /\ Len(s) \in Nat
         /\ rows \in Seq(Row) /\ Len(rows) = Len(StartsOf(s)) /\ Len(rows) \in Nat
         /\ \A j \in 1 .. Len(rows) : RowTold(s, rows[j], StartsOf(s)[j])
         /\ \A x \in 1 .. Len(s) : s[x].op \in {"context", "del", "add"}
  BY RowTells, LenProperties DEF ToldApart, ScriptOn

LEMMA DelTaken ==
  ASSUME NEW from, NEW s, NEW rows, NEW i, ToldApart(from, s, rows, i),
         NEW j \in 1 .. Len(rows), s[StartsOf(s)[j]].op = "del"
  PROVE  Deleted(s, NumbersOf(rows, i), StartsOf(s)[j]) <=> j \in ChunkOf(rows, i)
  <1> DEFINE a == StartsOf(s)[j]
             row == rows[j]
  <1>1. RowTold(s, row, a)
    BY ApartIs
  <1>2. ApartIn(rows, i)
    BY DEF ToldApart
  <1> HIDE DEF a
  <1>3. s[a].op = "del"
    BY DEF a
  <1>4. row.type \in {"deleted", "modified"} /\ row.old = s[a].old
    BY <1>1, <1>3 DEF RowTold, RowType
  <1>5. s[a].old \in NumbersOf(rows, i) <=> j \in ChunkOf(rows, i)
    BY <1>2, <1>4 DEF ApartIn
  <1> QED BY <1>3, <1>5 DEF Deleted, a

\* Rows whose entries are between two others of the script are between theirs.
LEMMA BetweenStarts ==
  ASSUME NEW s \in Seq(Entry), NEW y, NEW x, NEW j \in 1 .. Len(StartsOf(s)), NEW k \in 1 .. Len(StartsOf(s)),
         y = StartsOf(s)[j], x \in 1 .. Len(s), OfRow(s, x, k), y < x
  PROVE  /\ j <= k
         /\ \A m \in j + 1 .. k : m \in 1 .. Len(StartsOf(s)) /\ StartsOf(s)[m] \in y + 1 .. x
  <1> DEFINE P == StartsOf(s)
  <1>0. /\ Len(P) \in Nat /\ Rising(P) /\ (\A m \in 1 .. Len(P) : P[m] \in 1 .. Len(s)) /\ Len(s) \in Nat
        /\ \A m, n \in 1 .. Len(P) : P[m] < P[n] => m < n
    BY StartsAre, LenProperties
  <1>1. P[k] <= x /\ x <= P[k] + 1
    <2>1. P[k] \in Int BY <1>0
    <2> QED BY <2>1 DEF OfRow
  <1> HIDE DEF P
  <1>2. y = P[j] /\ y \in Int /\ x \in Int /\ P[k] \in Int
    BY <1>0 DEF P
  <1>3. j <= k
    <2>1. CASE P[j] < P[k] BY <1>0, <2>1 DEF P
    <2>2. CASE P[j] = P[k]
      <3> SUFFICES ASSUME k < j PROVE FALSE BY <1>0 DEF P
      <3>1. P[k] < P[j] BY <1>0 DEF Rising, P
      <3> QED BY <1>2, <2>2, <3>1
    <2>3. ~(P[j] > P[k]) BY <1>1, <1>2
    <2> QED BY <1>2, <2>1, <2>2, <2>3
  <1>4. ASSUME NEW m \in j + 1 .. k PROVE m \in 1 .. Len(P) /\ P[m] \in y + 1 .. x
    <2>1. m \in 1 .. Len(P) /\ j < m /\ (m < k \/ m = k) BY <1>0 DEF P
    <2>2. P[j] < P[m] /\ P[m] \in Int
      <3>1. j \in 1 .. Len(P) BY DEF P
      <3> QED BY <1>0, <2>1, <3>1 DEF Rising
    <2>3. P[m] <= P[k]
      <3>1. CASE m = k BY <1>2, <3>1
      <3>2. CASE m < k
        <4>1. k \in 1 .. Len(P) BY DEF P
        <4>2. P[m] < P[k] BY <1>0, <2>1, <3>2, <4>1 DEF Rising
        <4> QED BY <1>2, <2>2, <4>2
      <3> QED BY <2>1, <3>1, <3>2
    <2> QED BY <1>1, <1>2, <2>1, <2>2, <2>3
  <1> QED BY <1>3, <1>4 DEF P

\* An addition that follows a deletion taken is in the chunk.
LEMMA FollowsIn ==
  ASSUME NEW from, NEW s, NEW rows, NEW i, ToldApart(from, s, rows, i),
         NEW x \in 1 .. Len(s), NEW j \in 1 .. Len(rows), OfRow(s, x, j),
         Follows(s, NumbersOf(rows, i), x)
  PROVE  j \in ChunkOf(rows, i)
  <1> DEFINE P == StartsOf(s)
             N == NumbersOf(rows, i)
  <1>0. /\ s \in Seq(Entry) /\ Len(s) \in Nat /\ rows \in Seq(Row) /\ Len(rows) \in Nat /\ Len(rows) = Len(P)
        /\ \A m \in 1 .. Len(rows) : RowTold(s, rows[m], P[m])
        /\ i \in 1 .. Len(rows) /\ rows[i].type # "context"
    BY ApartIs DEF ToldApart
  <1>1. PICK y \in 1 .. x - 1 : Deleted(s, N, y) /\ \A k \in y + 1 .. x : s[k].op = "add"
    BY DEF Follows
  <1>2. y \in 1 .. Len(s) /\ y < x /\ s[y].op = "del" /\ ~PairedAt(s, y)
    BY <1>0, <1>1 DEF Deleted, PairedAt
  <1>3. PICK k \in 1 .. Len(rows) : P[k] = y
    BY <1>0, <1>2, StartsAre
  <1>4. k \in ChunkOf(rows, i)
    BY <1>1, <1>2, <1>3, DelTaken
  <1>5. k <= j /\ \A m \in k + 1 .. j : m \in 1 .. Len(rows) /\ P[m] \in y + 1 .. x
    BY <1>0, <1>2, <1>3, BetweenStarts
  <1> HIDE DEF P, N
  <1>6. \A m \in k + 1 .. j : rows[m].type # "context"
    <2> TAKE m \in k + 1 .. j
    <2>1. s[P[m]].op = "add" /\ RowTold(s, rows[m], P[m]) BY <1>0, <1>1, <1>5
    <2> QED BY <2>1 DEF RowTold
  <1>7. i <= k /\ Changed(rows, i, k)
    BY <1>0, <1>4, ChunkIs
  <1>8. i <= j /\ Changed(rows, i, j)
    <2>1. \A m \in i .. j : m \in i .. k \/ m \in k + 1 .. j BY <1>0
    <2> QED BY <1>0, <1>5, <1>6, <1>7, <2>1 DEF Changed
  <1> QED BY <1>0, <1>8, ChunkIs

\* The number of an addition outside the chunk is not one of its own.
LEMMA AddOut ==
  ASSUME NEW from, NEW s, NEW rows, NEW i, ToldApart(from, s, rows, i),
         NEW x \in 1 .. Len(s), NEW j \in 1 .. Len(rows), OfRow(s, x, j),
         s[x].op = "add", j \notin ChunkOf(rows, i)
  PROVE  s[x].new \notin NumbersOf(rows, i)
  <1> DEFINE a == StartsOf(s)[j]
             row == rows[j]
  <1>1. RowTold(s, row, a) /\ ApartIn(rows, i) /\ Len(s) \in Nat
    BY ApartIs DEF ToldApart
  <1>a. a \in 1 .. Len(s)
    BY ApartIs, StartsAre
  <1>2. x = a \/ (x = a + 1 /\ PairedAt(s, x))
    BY DEF OfRow
  <1> HIDE DEF a
  <1>3. row.type \in {"added", "modified"} /\ row.new = s[x].new
    <2>1. CASE x = a BY <1>1, <2>1 DEF RowTold
    <2>2. CASE x = a + 1 /\ PairedAt(s, x)
      <3>1. a < Len(s) BY <1>1, <1>a, <2>2
      <3> QED BY <1>1, <2>2, <3>1 DEF RowTold
    <2> QED BY <1>2, <2>1, <2>2
  <1>4. row.new \notin NumbersOf(rows, i)
    BY <1>1, <1>3 DEF ApartIn
  <1> QED BY <1>3, <1>4

\* An addition paired with a deletion of the chunk follows it.
LEMMA PairedIn ==
  ASSUME NEW from, NEW s, NEW rows, NEW i, ToldApart(from, s, rows, i),
         NEW x \in 1 .. Len(s), NEW j \in 1 .. Len(rows),
         x = StartsOf(s)[j] + 1, PairedAt(s, x), j \in ChunkOf(rows, i)
  PROVE  Follows(s, NumbersOf(rows, i), x)
  <1> DEFINE a == StartsOf(s)[j]
  <1>1. a \in 1 .. Len(s) /\ Len(s) \in Nat
    BY ApartIs, StartsAre
  <1>2. a = x - 1 /\ s[a].op = "del" /\ s[x].op = "add"
    BY <1>1 DEF PairedAt
  <1>3. Deleted(s, NumbersOf(rows, i), a)
    BY <1>2, DelTaken
  <1> HIDE DEF a
  <1>4. a \in 1 .. x - 1 /\ \A k \in a + 1 .. x : k = x
    BY <1>1, <1>2
  <1> QED BY <1>2, <1>3, <1>4 DEF Follows

\* Between a row and the next added ones there are additions only.
LEMMA StretchAdds ==
  ASSUME NEW from, NEW s, NEW rows, NEW i, ToldApart(from, s, rows, i),
         NEW k \in 1 .. Len(rows), NEW j \in 1 .. Len(rows),
         \A m \in k + 1 .. j : rows[m].type = "added",
         NEW z \in StartsOf(s)[k] + 1 .. StartsOf(s)[j]
  PROVE  s[z].op = "add"
  <1> DEFINE P == StartsOf(s)
  <1>0. /\ s \in Seq(Entry) /\ Len(s) \in Nat /\ Len(rows) \in Nat /\ Len(rows) = Len(P)
        /\ \A m \in 1 .. Len(rows) : RowTold(s, rows[m], P[m])
    BY ApartIs
  <1>1. /\ Rising(P) /\ (\A m \in 1 .. Len(P) : P[m] \in 1 .. Len(s))
        /\ \A m, n \in 1 .. Len(P) : P[m] < P[n] => m < n
    BY <1>0, StartsAre
  <1>2. P[k] \in 1 .. Len(s) /\ P[j] \in 1 .. Len(s)
    BY <1>0, <1>1
  <1>3. z \in 1 .. Len(s)
    BY <1>0, <1>2
  <1>4. CASE PairedAt(s, z)
    BY <1>4 DEF PairedAt
  <1>5. CASE ~PairedAt(s, z)
    <2>1. PICK m \in 1 .. Len(P) : P[m] = z
      BY <1>0, <1>3, <1>5, StartsAre
    <2> HIDE DEF P
    <2>2. P[k] < P[m] /\ P[m] <= P[j]
      BY <1>2, <1>3, <2>1 DEF P
    <2>3. k < m
      BY <1>0, <1>1, <2>2
    <2>4. m <= j
      <3> SUFFICES ASSUME j < m PROVE FALSE BY <1>0
      <3>1. P[j] < P[m] BY <1>0, <1>1 DEF Rising
      <3> QED BY <1>2, <1>3, <2>1, <2>2, <3>1
    <2>5. rows[m].type = "added" /\ RowTold(s, rows[m], P[m])
      BY <1>0, <2>3, <2>4
    <2> QED BY <2>1, <2>5 DEF RowTold
  <1> QED BY <1>4, <1>5

\* Additions that no deletion of the chunk precedes are the first rows of it.
LEMMA AddedFirst ==
  ASSUME NEW from, NEW s, NEW rows, NEW i, ToldApart(from, s, rows, i),
         NEW j \in 1 .. Len(rows), j \in ChunkOf(rows, i), rows[j].type = "added",
         ~Follows(s, NumbersOf(rows, i), StartsOf(s)[j])
  PROVE  \A m \in i .. j : rows[m].type = "added"
  <1> DEFINE P == StartsOf(s)
             N == NumbersOf(rows, i)
             x == P[j]
  <1>0. /\ s \in Seq(Entry) /\ Len(s) \in Nat /\ rows \in Seq(Row) /\ Len(rows) \in Nat /\ Len(rows) = Len(P)
        /\ \A m \in 1 .. Len(rows) : RowTold(s, rows[m], P[m])
        /\ i \in 1 .. Len(rows) /\ rows[i].type # "context"
        /\ \A y \in 1 .. Len(s) : s[y].op \in {"context", "del", "add"}
    BY ApartIs DEF ToldApart
  <1>1. i <= j /\ Changed(rows, i, j)
    BY <1>0, ChunkIs
  <1>2. Rising(P) /\ \A m \in 1 .. Len(P) : P[m] \in 1 .. Len(s)
    BY <1>0, StartsAre
  <1> DEFINE G == {n \in Nat : \A m \in j - n .. j : m >= i => rows[m].type = "added"}
  <1>3. 0 \in G
    BY <1>0
  <1>4. ASSUME NEW n \in Nat, n \in G PROVE n + 1 \in G
    <2> DEFINE k == j - (n + 1)
    <2>1. \A m \in k + 1 .. j : m >= i => rows[m].type = "added"
      BY <1>4
    <2>2. k \in Int /\ k < j
      BY <1>0
    <2> HIDE DEF k, G
    <2>3. ASSUME k >= i PROVE rows[k].type = "added"
      <3> SUFFICES ASSUME rows[k].type # "added" PROVE FALSE
        OBVIOUS
      <3>1. k \in 1 .. Len(rows) /\ k \in i .. j /\ k \in 1 .. Len(P) /\ j \in 1 .. Len(P)
        BY <1>0, <1>1, <2>2, <2>3
      <3>2. rows[k].type # "context" BY <1>1, <3>1 DEF Changed
      <3>3. k \in ChunkOf(rows, i)
        <4>1. \A m \in i .. k : m \in i .. j BY <2>2, <3>1, <1>0
        <4>2. i <= k /\ Changed(rows, i, k) BY <1>1, <2>3, <4>1 DEF Changed
        <4> QED BY <1>0, <3>1, <4>2, ChunkIs
      <3>4. RowTold(s, rows[k], P[k]) /\ P[k] \in 1 .. Len(s) /\ P[j] \in 1 .. Len(s)
        BY <1>0, <1>2, <3>1
      <3>a. P[k] < P[j]
        BY <1>2, <2>2, <3>1 DEF Rising
      <3>5. s[P[k]].op = "del" BY <1>0, <3>2, <3>4 DEF RowTold
      <3>6. Deleted(s, N, P[k]) BY <3>1, <3>3, <3>5, DelTaken
      <3>b. \A m \in k + 1 .. j : rows[m].type = "added" BY <1>0, <2>1, <2>2, <2>3
      <3>7. \A z \in P[k] + 1 .. P[j] : s[z].op = "add"
        BY <3>1, <3>b, StretchAdds
      <3>8. P[k] \in 1 .. P[j] - 1 BY <3>4, <3>a
      <3>9. Follows(s, N, P[j]) BY <3>6, <3>7, <3>8 DEF Follows
      <3> QED BY <3>9
    <2>4. \A m \in k .. j : m = k \/ m \in k + 1 .. j
      BY <2>2
    <2> QED BY <2>1, <2>3, <2>4 DEF G, k
  <1> HIDE DEF G
  <1>5. Nat \subseteq G
    BY <1>3, <1>4, Induction
  <1>6. j - i \in G
    BY <1>0, <1>1, <1>5
  <1> QED BY <1>0, <1>6 DEF G

\* No deletion comes after the first additions of a chunk.
LEMMA AddedLast ==
  ASSUME NEW from, NEW s, NEW rows, NEW i, ToldApart(from, s, rows, i),
         NEW j \in 1 .. Len(rows), rows[j].type = "added",
         NEW l \in 1 .. Len(rows), j <= l, Changed(rows, j, l)
  PROVE  rows[l].type = "added"
  <1> DEFINE P == StartsOf(s)
  <1>0. /\ s \in Seq(Entry) /\ Len(s) \in Nat /\ Len(rows) \in Nat /\ Len(rows) = Len(P)
        /\ \A m \in 1 .. Len(rows) : RowTold(s, rows[m], P[m])
        /\ \A y \in 1 .. Len(s) : s[y].op \in {"context", "del", "add"}
        /\ \A y \in 1 .. Len(s) : y < Len(s) /\ s[y].op = "add" => s[y + 1].op # "del"
    BY ApartIs DEF ToldApart, ScriptOn
  <1>1. /\ Rising(P) /\ (\A m \in 1 .. Len(P) : P[m] \in 1 .. Len(s))
        /\ \A m, n \in 1 .. Len(P) : P[m] < P[n] => m < n
    BY <1>0, StartsAre
  <1> DEFINE G == {n \in Nat : j + n <= l => rows[j + n].type = "added"}
  <1>2. 0 \in G
    BY <1>0
  <1>3. ASSUME NEW n \in Nat, n \in G PROVE n + 1 \in G
    <2> DEFINE k == j + n
               y == P[k + 1] - 1
    <2> SUFFICES ASSUME k + 1 <= l PROVE rows[k + 1].type = "added"
      BY <1>0
    <2>1. k \in 1 .. Len(P) /\ k + 1 \in 1 .. Len(P) /\ k + 1 \in j .. l /\ k < k + 1 /\ rows[k].type = "added"
      BY <1>0, <1>3
    <2> HIDE DEF k, G
    <2>2. P[k] \in 1 .. Len(s) /\ P[k + 1] \in 1 .. Len(s) /\ P[k] < P[k + 1]
      BY <1>1, <2>1 DEF Rising
    <2>a. y \in 1 .. Len(s) /\ y < Len(s) /\ y + 1 = P[k + 1] /\ P[k] <= y /\ y < P[k + 1]
      BY <1>0, <2>2
    <2> HIDE DEF y
    <2>3. s[y].op = "add"
      <3>1. CASE PairedAt(s, y) BY <3>1 DEF PairedAt
      <3>2. CASE ~PairedAt(s, y)
        <4>1. PICK m \in 1 .. Len(P) : P[m] = y
          BY <1>0, <2>a, <3>2, StartsAre
        <4>2. m < k + 1 BY <1>1, <2>1, <2>a, <4>1
        <4>3. ~(m < k)
          <5> SUFFICES ASSUME m < k PROVE FALSE OBVIOUS
          <5>1. P[m] < P[k] BY <1>1, <2>1 DEF Rising
          <5> QED BY <2>2, <2>a, <4>1, <5>1
        <4>4. m = k BY <1>0, <2>1, <4>2, <4>3
        <4>5. RowTold(s, rows[k], y) BY <1>0, <2>1, <4>1, <4>4
        <4> QED BY <2>1, <4>5 DEF RowTold
      <3> QED BY <3>1, <3>2
    <2>4. s[P[k + 1]].op # "del"
      BY <1>0, <2>3, <2>a
    <2>5. RowTold(s, rows[k + 1], P[k + 1]) /\ rows[k + 1].type # "context"
      BY <1>0, <2>1 DEF Changed
    <2>6. s[P[k + 1]].op = "add"
      BY <1>0, <2>2, <2>4, <2>5 DEF RowTold
    <2> QED BY <2>5, <2>6 DEF RowTold
  <1> HIDE DEF G
  <1>4. Nat \subseteq G
    BY <1>2, <1>3, Induction
  <1>5. l - j \in G
    BY <1>0, <1>4
  <1> QED BY <1>0, <1>5 DEF G

\* The numbers of a chunk that begins with additions hold those of them all.
LEMMA AddedIn ==
  ASSUME NEW from, NEW s, NEW rows, NEW i, ToldApart(from, s, rows, i),
         NEW j \in 1 .. Len(rows), j \in ChunkOf(rows, i), rows[j].type = "added",
         ~Follows(s, NumbersOf(rows, i), StartsOf(s)[j])
  PROVE  s[StartsOf(s)[j]].new \in NumbersOf(rows, i)
  <1> DEFINE P == StartsOf(s)
             x == P[j]
             C(k) == Count(s, k, "del")
  <1>0. /\ s \in Seq(Entry) /\ Len(s) \in Nat /\ rows \in Seq(Row) /\ Len(rows) \in Nat /\ Len(rows) = Len(P)
        /\ \A m \in 1 .. Len(rows) : RowTold(s, rows[m], P[m])
        /\ i \in 1 .. Len(rows) /\ rows[i].type # "context"
        /\ \A y \in 1 .. Len(s) : s[y].op = "add" => s[y].new = Count(s, y, "del") /\ s[y].old = -1
    BY ApartIs DEF ToldApart, ScriptOn
  <1>1. Rising(P) /\ \A m \in 1 .. Len(P) : P[m] \in 1 .. Len(s)
    BY <1>0, StartsAre
  <1>2. PICK l \in i .. Len(rows) : ChunkOf(rows, i) = i .. l /\ i + Cardinality(ChunkOf(rows, i)) - 1 = l
    BY <1>0, ChunkIs
  <1>3. i <= j /\ j <= l /\ l \in 1 .. Len(rows)
    BY <1>0, <1>2
  <1>4. Changed(rows, j, l)
    <2>1. l \in ChunkOf(rows, i) BY <1>0, <1>2, <1>3
    <2>2. Changed(rows, i, l) BY <1>0, <1>3, <2>1, ChunkIs
    <2>3. \A m \in j .. l : m \in i .. l BY <1>0, <1>3
    <2> QED BY <2>2, <2>3 DEF Changed
  <1>5. rows[l].type = "added"
    BY <1>3, <1>4, AddedLast
  <1>6. \A m \in i .. j : rows[m].type = "added"
    BY AddedFirst
  <1>7. rows[i].type = "added"
    BY <1>0, <1>3, <1>6
  <1> HIDE DEF P, x, C
  <1>8. ASSUME NEW m \in 1 .. Len(rows), rows[m].type = "added"
        PROVE  /\ P[m] \in 1 .. Len(s) /\ C(P[m]) \in Nat /\ s[P[m]].new = C(P[m])
               /\ rows[m].new = C(P[m]) /\ rows[m].old = -1
    <2>1. P[m] \in 1 .. Len(s) /\ RowTold(s, rows[m], P[m]) BY <1>0, <1>1
    <2>2. s[P[m]].op = "add" /\ rows[m].new = s[P[m]].new /\ rows[m].old = s[P[m]].old
      BY <1>8, <2>1 DEF RowTold
    <2>3. s[P[m]].new = C(P[m]) /\ s[P[m]].old = -1 BY <1>0, <2>1, <2>2 DEF C
    <2>4. P[m] \in Nat BY <2>1
    <2>5. C(P[m]) \in Nat BY <2>4, CountNext DEF C
    <2> QED BY <2>1, <2>2, <2>3, <2>5
  <1>9. ASSUME NEW m \in 1 .. Len(rows), NEW n \in 1 .. Len(rows), m <= n PROVE C(P[m]) <= C(P[n])
    <2>1. P[m] \in Nat /\ P[n] \in Nat BY <1>0, <1>1
    <2>2. P[m] <= P[n]
      <3>1. CASE m = n BY <2>1, <3>1
      <3>2. CASE m < n
        <4>1. P[m] < P[n] BY <1>0, <1>1, <3>2 DEF Rising
        <4> QED BY <2>1, <4>1
      <3> QED BY <1>0, <1>9, <3>1, <3>2
    <2> QED BY <2>1, <2>2, CountGrows DEF C
  <1>10. GetRange(rows, i).start = C(P[i]) /\ GetRange(rows, i).end = C(P[l])
    <2>1. GetRange(rows, i).start = rows[i].new BY <1>7 DEF GetRange
    <2>2. GetRange(rows, i).end = IF rows[l].old > rows[l].new THEN rows[l].old ELSE rows[l].new
      BY <1>2 DEF GetRange
    <2>3. rows[l].old = -1 /\ rows[l].new = C(P[l]) /\ C(P[l]) \in Nat BY <1>3, <1>5, <1>8
    <2>4. rows[i].new = C(P[i]) BY <1>0, <1>7, <1>8
    <2>5. ~(rows[l].old > rows[l].new) BY <2>3
    <2> QED BY <2>1, <2>2, <2>3, <2>4, <2>5
  <1>11. C(P[i]) <= C(P[j]) /\ C(P[j]) <= C(P[l]) /\ C(P[i]) \in Nat /\ C(P[j]) \in Nat /\ C(P[l]) \in Nat
    BY <1>0, <1>3, <1>5, <1>7, <1>8, <1>9
  <1>12. C(P[j]) \in NumbersOf(rows, i)
    BY <1>10, <1>11 DEF NumbersOf
  <1> QED BY <1>8, <1>12 DEF P

\* The lines selected are those of the chunk.
LEMMA EntryTaken ==
  ASSUME NEW from, NEW s, NEW rows, NEW i, ToldApart(from, s, rows, i),
         NEW x \in 1 .. Len(s), NEW j \in 1 .. Len(rows), OfRow(s, x, j), s[x].op # "context"
  PROVE  x \in Taken(s, GetRange(rows, i)) <=> j \in ChunkOf(rows, i)
  <1> DEFINE N == NumbersOf(rows, i)
             a == StartsOf(s)[j]
  <1>1. s \in Seq(Entry) /\ s[x].op \in {"context", "del", "add"} /\ RowTold(s, rows[j], a)
    BY ApartIs
  <1>2. x \in Taken(s, GetRange(rows, i)) <=>
          Deleted(s, N, x) \/ (s[x].op = "add" /\ (s[x].new \in N \/ Follows(s, N, x)))
    BY <1>1, TakenIs
  <1>3. CASE s[x].op = "del"
    <2>1. x = a BY <1>3 DEF OfRow, PairedAt
    <2>2. Deleted(s, N, x) <=> j \in ChunkOf(rows, i) BY <1>3, <2>1, DelTaken
    <2> QED BY <1>2, <1>3, <2>2
  <1>4. CASE s[x].op = "add"
    <2>1. x \in Taken(s, GetRange(rows, i)) <=> s[x].new \in N \/ Follows(s, N, x)
      BY <1>2, <1>4 DEF Deleted
    <2>2. Follows(s, N, x) => j \in ChunkOf(rows, i)
      BY FollowsIn
    <2>3. j \notin ChunkOf(rows, i) => s[x].new \notin N
      BY <1>4, AddOut
    <2>4. ASSUME j \in ChunkOf(rows, i) PROVE s[x].new \in N \/ Follows(s, N, x)
      <3>1. CASE x = a + 1 /\ PairedAt(s, x)
        BY <2>4, <3>1, PairedIn
      <3>2. CASE x = a
        <4>1. rows[j].type = "added" BY <1>1, <1>4, <3>2 DEF RowTold
        <4>2. ~Follows(s, N, a) => s[a].new \in N BY <2>4, <4>1, AddedIn
        <4> QED BY <3>2, <4>2
      <3> QED BY <3>1, <3>2 DEF OfRow
    <2> QED BY <2>1, <2>2, <2>3, <2>4
  <1> QED BY <1>1, <1>3, <1>4

-----------------------------------------------------------------------------
(* The walk over a script copies the lines of the rows.                    *)

\* The edits in done are those of the rows in N.
DoneOf(s, done, N) ==
  \A x \in 1 .. Len(s), j \in 1 .. Len(RowsOf(s)) :
    OfRow(s, x, j) /\ s[x].op # "context" => (x \in done <=> j \in N)

\* A row has a line on the side asked for.
ShowsRow(row, isNew) == row.type # (IF isNew THEN "deleted" ELSE "added")

\* The entry whose line a row shows.
EntryOf(s, N, j) ==
  IF RowsOf(s)[j].type = "modified" /\ j \in N THEN StartsOf(s)[j] + 1 ELSE StartsOf(s)[j]

\* The walk leaves a line at entry x.
StaysAt(s, done, x) == \/ s[x].op = "context"
                       \/ s[x].op = "del" /\ x \notin done
                       \/ s[x].op = "add" /\ x \in done

LEMMA RowsPlaced ==
  ASSUME NEW s \in Seq(Entry), NEW j \in 1 .. Len(RowsOf(s))
  PROVE  /\ StartsOf(s)[j] \in 1 .. Len(s) /\ ~PairedAt(s, StartsOf(s)[j])
         /\ RowTold(s, RowsOf(s)[j], StartsOf(s)[j])
         /\ RowsOf(s)[j].type \in RowType
         /\ RowsOf(s)[j].type = "modified" =>
              /\ StartsOf(s)[j] + 1 \in 1 .. Len(s) /\ PairedAt(s, StartsOf(s)[j] + 1)
              /\ s[StartsOf(s)[j]].op = "del" /\ s[StartsOf(s)[j] + 1].op = "add"
  <1> DEFINE a == StartsOf(s)[j]
             row == RowsOf(s)[j]
  <1>1. a \in 1 .. Len(s) /\ ~PairedAt(s, a) /\ RowTold(s, row, a) /\ Len(s) \in Nat
    BY RowTells, StartsAre, LenProperties
  <1> HIDE DEF a, row
  <1>2. ASSUME row.type = "modified"
        PROVE  a + 1 \in 1 .. Len(s) /\ PairedAt(s, a + 1) /\ s[a].op = "del" /\ s[a + 1].op = "add"
    <2>1. a < Len(s) /\ PairedAt(s, a + 1) BY <1>1, <1>2 DEF RowTold
    <2>2. (a + 1) - 1 = a BY <1>1
    <2> QED BY <1>1, <2>1, <2>2 DEF PairedAt
  <1>3. row.type \in RowType BY <1>1 DEF RowTold
  <1> QED BY <1>1, <1>2, <1>3 DEF a, row

LEMMA EntriesRise ==
  ASSUME NEW s \in Seq(Entry), NEW N,
         NEW j \in 1 .. Len(RowsOf(s)), NEW k \in 1 .. Len(RowsOf(s)), j < k
  PROVE  EntryOf(s, N, j) < EntryOf(s, N, k)
  <1> DEFINE a == StartsOf(s)[j]
             b == StartsOf(s)[k]
  <1>1. /\ a \in 1 .. Len(s) /\ b \in 1 .. Len(s) /\ ~PairedAt(s, b)
        /\ RowsOf(s)[j].type = "modified" => PairedAt(s, a + 1)
    BY RowsPlaced
  <1>2. a < b
    <2>1. Len(RowsOf(s)) = Len(StartsOf(s)) BY RowTells
    <2> QED BY <2>1, StartsAre DEF Rising
  <1> HIDE DEF a, b
  <1>3. RowsOf(s)[j].type = "modified" => a + 1 # b
    BY <1>1
  <1> QED BY <1>1, <1>2, <1>3 DEF EntryOf, a, b

LEMMA EntryStays ==
  ASSUME NEW s \in Seq(Entry), NEW N, NEW done, DoneOf(s, done, N),
         NEW j \in 1 .. Len(RowsOf(s)), ShowsRow(RowsOf(s)[j], j \in N)
  PROVE  LET x == EntryOf(s, N, j) IN
         /\ x \in 1 .. Len(s) /\ OfRow(s, x, j) /\ StaysAt(s, done, x)
         /\ s[x].text = IF j \in N THEN RowsOf(s)[j].right ELSE RowsOf(s)[j].left
  <1> DEFINE a == StartsOf(s)[j]
             row == RowsOf(s)[j]
             x == EntryOf(s, N, j)
  <1>1. /\ a \in 1 .. Len(s) /\ RowTold(s, row, a) /\ row.type \in RowType
        /\ row.type = "modified" => /\ a + 1 \in 1 .. Len(s) /\ PairedAt(s, a + 1)
                                    /\ s[a].op = "del" /\ s[a + 1].op = "add"
    BY RowsPlaced
  <1>2. s[a].op \in {"context", "del", "add"}
    <2>1. s[a] \in Entry BY <1>1, ElementOfSeq
    <2> QED BY <2>1 DEF Entry
  <1>3. x = IF row.type = "modified" /\ j \in N THEN a + 1 ELSE a
    BY DEF EntryOf
  <1>4. x \in 1 .. Len(s) /\ OfRow(s, x, j)
    BY <1>1, <1>3 DEF OfRow
  <1>5. s[x].op # "context" => (x \in done <=> j \in N)
    BY <1>4 DEF DoneOf
  <1>6. row.type # (IF j \in N THEN "deleted" ELSE "added")
    BY DEF ShowsRow
  <1> HIDE DEF a, row, x
  <1>7. CASE row.type = "modified" /\ j \in N
    <2>1. s[x].op = "add" /\ s[x].text = row.right BY <1>1, <1>3, <1>7 DEF RowTold
    <2> QED BY <1>4, <1>5, <1>7, <2>1 DEF StaysAt, x, row
  <1>8. CASE row.type = "modified" /\ j \notin N
    <2>1. s[x].op = "del" /\ s[x].text = row.left BY <1>1, <1>3, <1>8 DEF RowTold
    <2> QED BY <1>4, <1>5, <1>8, <2>1 DEF StaysAt, x, row
  <1>9. CASE row.type = "context"
    <2>1. s[x].op = "context" /\ s[x].text = row.left /\ s[x].text = row.right
      BY <1>1, <1>3, <1>9 DEF RowTold
    <2> QED BY <1>4, <2>1 DEF StaysAt, x, row
  <1>10. CASE row.type = "deleted"
    <2>1. j \notin N BY <1>6, <1>10
    <2>2. s[x].op = "del" /\ s[x].text = row.left BY <1>1, <1>2, <1>3, <1>10 DEF RowTold
    <2> QED BY <1>4, <1>5, <2>1, <2>2 DEF StaysAt, x, row
  <1>11. CASE row.type = "added"
    <2>1. j \in N BY <1>6, <1>11
    <2>2. s[x].op = "add" /\ s[x].text = row.right BY <1>1, <1>3, <1>11 DEF RowTold
    <2> QED BY <1>4, <1>5, <2>1, <2>2 DEF StaysAt, x, row
  <1> QED BY <1>1, <1>7, <1>8, <1>9, <1>10, <1>11 DEF RowType

LEMMA StayShown ==
  ASSUME NEW s \in Seq(Entry), NEW N, NEW done, DoneOf(s, done, N),
         NEW x \in 1 .. Len(s), StaysAt(s, done, x)
  PROVE  \E j \in 1 .. Len(RowsOf(s)) : ShowsRow(RowsOf(s)[j], j \in N) /\ EntryOf(s, N, j) = x
  <1>1. PICK j \in 1 .. Len(StartsOf(s)) : OfRow(s, x, j)
    BY RowOfEntry
  <1>2. Len(RowsOf(s)) = Len(StartsOf(s))
    BY RowTells
  <1>3. j \in 1 .. Len(RowsOf(s))
    BY <1>2
  <1> DEFINE a == StartsOf(s)[j]
             row == RowsOf(s)[j]
  <1>4. a \in 1 .. Len(s) /\ ~PairedAt(s, a) /\ RowTold(s, row, a) /\ row.type \in RowType /\ Len(s) \in Nat
    BY <1>3, RowsPlaced, LenProperties
  <1>5. s[x].op # "context" => (x \in done <=> j \in N)
    BY <1>1, <1>3 DEF DoneOf
  <1>6. x = a \/ (x = a + 1 /\ PairedAt(s, x))
    BY <1>1 DEF OfRow
  <1>7. EntryOf(s, N, j) = IF row.type = "modified" /\ j \in N THEN a + 1 ELSE a
    BY DEF EntryOf
  <1> HIDE DEF a, row
  <1>8. CASE s[x].op = "add"
    <2>1. j \in N BY <1>5, <1>8 DEF StaysAt
    <2>2. CASE x = a
      <3>1. row.type = "added" BY <1>4, <1>8, <2>2 DEF RowTold
      <3> QED BY <1>3, <1>7, <2>1, <2>2, <3>1 DEF ShowsRow, row
    <2>3. CASE x = a + 1 /\ PairedAt(s, x)
      <3>1. a < Len(s) BY <1>4, <2>3
      <3>2. row.type = "modified" BY <1>4, <2>3, <3>1 DEF RowTold
      <3> QED BY <1>3, <1>7, <2>1, <2>3, <3>2 DEF ShowsRow, row
    <2> QED BY <1>6, <2>2, <2>3
  <1>9. CASE s[x].op = "del"
    <2>1. x = a BY <1>6, <1>9 DEF PairedAt
    <2>2. j \notin N BY <1>5, <1>9 DEF StaysAt
    <2>3. row.type # "added" BY <1>4, <1>9, <2>1 DEF RowTold
    <2> QED BY <1>3, <1>7, <2>1, <2>2, <2>3 DEF ShowsRow, row
  <1>10. CASE s[x].op = "context"
    <2>1. x = a BY <1>6, <1>10 DEF PairedAt
    <2>2. row.type = "context" BY <1>4, <1>10, <2>1 DEF RowTold
    <2> QED BY <1>3, <1>7, <2>1, <2>2 DEF ShowsRow, row
  <1> QED BY <1>8, <1>9, <1>10 DEF StaysAt

\* The entries that a walk stays at.
LEMMA StaysAre ==
  ASSUME NEW from \in Text, NEW s, ScriptOn(from, s), NEW done
  PROVE  /\ StaysOf(from, s, done) \in Seq(1 .. Len(s)) /\ Rising(StaysOf(from, s, done))
         /\ \A x : x \in Range(StaysOf(from, s, done)) <=> x \in 1 .. Len(s) /\ StaysAt(s, done, x)
  <1> DEFINE T == {i \in DOMAIN s : CopiesOf(from, s, done, i) \/ AddsOf(s, done, i)}
  <1>1. s \in Seq(Entry) /\ DOMAIN s = 1 .. Len(s) /\ Len(from) \in Nat
    BY LenProperties DEF ScriptOn, Text
  <1>2. ASSUME NEW x \in 1 .. Len(s) PROVE x \in T <=> StaysAt(s, done, x)
    <2>1. s[x].op # "add" => AtOf(s, x) \in 1 .. Len(from) BY DEF ScriptOn
    <2>2. s[x].op # "add" => AtOf(s, x) <= Len(from) BY <1>1, <2>1
    <2> QED BY <1>1, <2>2 DEF CopiesOf, AddsOf, StaysAt
  <1>3. /\ Places(s, T) \in Seq(1 .. Len(s)) /\ Rising(Places(s, T))
        /\ \A x : x \in Range(Places(s, T)) <=> x \in T /\ x \in 1 .. Len(s)
    BY <1>1, PlacesRise
  <1> QED BY <1>2, <1>3 DEF StaysOf

\* The rows that a mixed text shows.
ShownOf(rows, N) ==
  Places(rows, {j \in DOMAIN rows : rows[j].type # (IF j \in N THEN "deleted" ELSE "added")})

LEMMA ShownAre ==
  ASSUME NEW rows \in Seq(Row), NEW N
  PROVE  /\ ShownOf(rows, N) \in Seq(1 .. Len(rows)) /\ Rising(ShownOf(rows, N))
         /\ \A j : j \in Range(ShownOf(rows, N)) <=> j \in 1 .. Len(rows) /\ ShowsRow(rows[j], j \in N)
         /\ Mixed(rows, N) = [k \in DOMAIN ShownOf(rows, N) |->
                                IF ShownOf(rows, N)[k] \in N THEN rows[ShownOf(rows, N)[k]].right
                                ELSE rows[ShownOf(rows, N)[k]].left]
  <1> DEFINE T == {j \in DOMAIN rows : rows[j].type # (IF j \in N THEN "deleted" ELSE "added")}
  <1>1. DOMAIN rows = 1 .. Len(rows)
    BY LenProperties
  <1>2. \A j \in 1 .. Len(rows) : j \in T <=> ShowsRow(rows[j], j \in N)
    BY <1>1 DEF ShowsRow
  <1>3. /\ Places(rows, T) \in Seq(1 .. Len(rows)) /\ Rising(Places(rows, T))
        /\ \A x : x \in Range(Places(rows, T)) <=> x \in T /\ x \in 1 .. Len(rows)
    BY PlacesRise
  <1>4. ShownOf(rows, N) = Places(rows, T)
    BY DEF ShownOf
  <1>5. Mixed(rows, N) = [k \in DOMAIN ShownOf(rows, N) |->
                                IF ShownOf(rows, N)[k] \in N THEN rows[ShownOf(rows, N)[k]].right
                                ELSE rows[ShownOf(rows, N)[k]].left]
    BY DEF Mixed, ShownOf
  <1> QED BY <1>2, <1>3, <1>4, <1>5

\* They are one another's.
LEMMA StaysAreShown ==
  ASSUME NEW from \in Text, NEW s, ScriptOn(from, s), NEW done, NEW N, DoneOf(s, done, N)
  PROVE  LET P == StaysOf(from, s, done)
             Q == ShownOf(RowsOf(s), N)
         IN Len(P) = Len(Q) /\ \A k \in 1 .. Len(Q) : P[k] = EntryOf(s, N, Q[k])
  <1> DEFINE P == StaysOf(from, s, done)
             rows == RowsOf(s)
             Q == ShownOf(rows, N)
             H == [k \in 1 .. Len(Q) |-> EntryOf(s, N, Q[k])]
  <1>1. s \in Seq(Entry) /\ rows \in Seq(Row) /\ Len(rows) \in Nat /\ Len(s) \in Nat
    BY RowTells, LenProperties DEF ScriptOn
  <1>2. /\ P \in Seq(1 .. Len(s)) /\ Rising(P)
        /\ \A x : x \in Range(P) <=> x \in 1 .. Len(s) /\ StaysAt(s, done, x)
    BY StaysAre
  <1>3. /\ Q \in Seq(1 .. Len(rows)) /\ Rising(Q)
        /\ \A j : j \in Range(Q) <=> j \in 1 .. Len(rows) /\ ShowsRow(rows[j], j \in N)
    BY <1>1, ShownAre
  <1> HIDE DEF P, Q, rows
  <1>4. /\ Len(P) \in Nat /\ Range(P) = {P[k] : k \in 1 .. Len(P)} /\ \A k \in 1 .. Len(P) : P[k] \in 1 .. Len(s)
        /\ Len(Q) \in Nat /\ Range(Q) = {Q[k] : k \in 1 .. Len(Q)} /\ \A k \in 1 .. Len(Q) : Q[k] \in 1 .. Len(rows)
    BY <1>2, <1>3, LenProperties, RangeEquality, ElementOfSeq
  <1>5. \A k \in 1 .. Len(Q) : ShowsRow(rows[Q[k]], Q[k] \in N)
    BY <1>3, <1>4
  <1>6. \A k \in 1 .. Len(Q) : EntryOf(s, N, Q[k]) \in 1 .. Len(s) /\ StaysAt(s, done, EntryOf(s, N, Q[k]))
    BY <1>1, <1>4, <1>5, EntryStays DEF rows
  <1>7. H \in Seq(Nat) /\ Len(H) = Len(Q)
    <2>1. \A k \in 1 .. Len(Q) : EntryOf(s, N, Q[k]) \in Nat BY <1>6
    <2>2. H \in Seq(Nat) /\ DOMAIN H = 1 .. Len(Q) BY <1>4, <2>1, SeqDef
    <2> HIDE DEF H
    <2> QED BY <1>4, <2>2, LenProperties
  <1>8. \A k \in 1 .. Len(Q) : H[k] = EntryOf(s, N, Q[k])
    OBVIOUS
  <1> HIDE DEF H
  <1>9. Rising(H)
    <2>1. ASSUME NEW j \in 1 .. Len(H), NEW k \in 1 .. Len(H), j < k PROVE H[j] < H[k]
      <3>1. j \in 1 .. Len(Q) /\ k \in 1 .. Len(Q) BY <1>7
      <3>2. Q[j] < Q[k] BY <1>3, <2>1, <3>1 DEF Rising
      <3>3. EntryOf(s, N, Q[j]) < EntryOf(s, N, Q[k]) BY <1>1, <1>4, <3>1, <3>2, EntriesRise DEF rows
      <3> QED BY <1>8, <3>1, <3>3
    <2> QED BY <2>1 DEF Rising
  <1>10. Covers(P, H)
    <2>1. ASSUME NEW k \in 1 .. Len(H) PROVE \E m \in 1 .. Len(P) : P[m] = H[k]
      <3>1. H[k] \in Range(P) BY <1>2, <1>6, <1>7, <1>8
      <3> QED BY <1>4, <3>1
    <2> QED BY <2>1 DEF Covers
  <1>11. Covers(H, P)
    <2>1. ASSUME NEW k \in 1 .. Len(P) PROVE \E m \in 1 .. Len(H) : H[m] = P[k]
      <3>1. P[k] \in Range(P) BY <1>4
      <3>2. P[k] \in 1 .. Len(s) /\ StaysAt(s, done, P[k]) BY <1>2, <3>1
      <3>3. PICK j \in 1 .. Len(rows) : ShowsRow(rows[j], j \in N) /\ EntryOf(s, N, j) = P[k]
        BY <1>1, <3>2, StayShown DEF rows
      <3>4. j \in Range(Q) BY <1>3, <3>3
      <3>5. PICK m \in 1 .. Len(Q) : Q[m] = j BY <1>4, <3>4
      <3> QED BY <1>7, <1>8, <3>3, <3>5
    <2> QED BY <2>1 DEF Covers
  <1>12. P \in Seq(Nat)
    <2>1. \A k \in 1 .. Len(P) : P[k] \in Nat BY <1>4
    <2>2. P = [k \in 1 .. Len(P) |-> P[k]] BY <1>2, LenProperties
    <2> QED BY <1>4, <2>1, <2>2, SeqDef
  <1>13. Len(P) <= Len(H) /\ \A k \in 1 .. Len(P) : P[k] = H[k]
    BY <1>2, <1>7, <1>9, <1>10, <1>11, <1>12, RisingSame
  <1>14. Len(H) <= Len(P)
    BY <1>2, <1>7, <1>9, <1>10, <1>11, <1>12, RisingSame
  <1>15. Len(P) = Len(Q)
    BY <1>4, <1>7, <1>13, <1>14
  <1> QED BY <1>8, <1>13, <1>15 DEF P, Q, rows

\* The walk of a script on the text it is of.
LEMMA WalkIsMixed ==
  ASSUME NEW from \in Text, NEW s, ScriptOn(from, s), NEW done, NEW N, DoneOf(s, done, N)
  PROVE  /\ Mixed(RowsOf(s), N) \in Text
         /\ \E tail \in {<<>>, <<Blank>>} : Walked(from, s, done) = Mixed(RowsOf(s), N) \o tail
  <1> DEFINE P == StaysOf(from, s, done)
             rows == RowsOf(s)
             Q == ShownOf(rows, N)
             tail == SubSeq(from, AtOf(s, Len(s)) + 1, Len(from))
             body == [k \in DOMAIN P |-> IF AddsOf(s, done, P[k]) THEN s[P[k]].text ELSE from[AtOf(s, P[k])]]
  <1>1. s \in Seq(Entry) /\ rows \in Seq(Row) /\ Len(rows) \in Nat
    BY RowTells, LenProperties DEF ScriptOn
  <1>2. Walked(from, s, done) = body \o tail
    BY WalkedIs
  <1>3. tail \in {<<>>, <<Blank>>}
    <2>1. AtOf(s, Len(s)) = Len(GitLines(from)) BY DEF ScriptOn
    <2> QED BY <2>1, GitLinesIs
  <1>4. Mixed(rows, N) = [k \in DOMAIN Q |-> IF Q[k] \in N THEN rows[Q[k]].right ELSE rows[Q[k]].left]
    BY <1>1, ShownAre
  <1>5. Len(P) = Len(Q) /\ \A k \in 1 .. Len(Q) : P[k] = EntryOf(s, N, Q[k])
    BY StaysAreShown
  <1>6. P \in Seq(1 .. Len(s))
    BY StaysAre
  <1>7. Q \in Seq(1 .. Len(rows)) /\ \A j : j \in Range(Q) => ShowsRow(rows[j], j \in N)
    BY <1>1, ShownAre
  <1> HIDE DEF P, Q, tail
  <1>8. /\ Len(Q) \in Nat /\ DOMAIN Q = 1 .. Len(Q) /\ DOMAIN P = 1 .. Len(P)
        /\ \A k \in 1 .. Len(Q) : Q[k] \in 1 .. Len(rows) /\ Q[k] \in Range(Q)
    BY <1>6, <1>7, LenProperties, ElementOfSeq, RangeEquality
  <1>9. ASSUME NEW k \in 1 .. Len(Q)
        PROVE  /\ (IF AddsOf(s, done, P[k]) THEN s[P[k]].text ELSE from[AtOf(s, P[k])])
                    = IF Q[k] \in N THEN rows[Q[k]].right ELSE rows[Q[k]].left
               /\ (IF Q[k] \in N THEN rows[Q[k]].right ELSE rows[Q[k]].left) \in Line
    <2> DEFINE x == P[k]
    <2>1. x = EntryOf(s, N, Q[k]) /\ Q[k] \in 1 .. Len(rows) /\ ShowsRow(rows[Q[k]], Q[k] \in N)
      BY <1>5, <1>7, <1>8
    <2>2. /\ x \in 1 .. Len(s) /\ StaysAt(s, done, x)
          /\ s[x].text = IF Q[k] \in N THEN rows[Q[k]].right ELSE rows[Q[k]].left
      BY <1>1, <2>1, EntryStays
    <2> HIDE DEF x
    <2>3. s[x].op # "add" => s[x].text = from[AtOf(s, x)]
      BY <2>2 DEF ScriptOn
    <2>4. (IF AddsOf(s, done, x) THEN s[x].text ELSE from[AtOf(s, x)]) = s[x].text
      BY <2>2, <2>3 DEF StaysAt, AddsOf
    <2>5. s[x].text \in Line
      <3>1. s[x] \in Entry BY <1>1, <2>2, ElementOfSeq
      <3> QED BY <3>1 DEF Entry
    <2> QED BY <2>2, <2>4, <2>5 DEF x
  <1>10. body = Mixed(rows, N)
    BY <1>4, <1>5, <1>8, <1>9
  <1>11. Mixed(rows, N) \in Text
    BY <1>4, <1>8, <1>9, SeqDef DEF Text
  <1> QED BY <1>2, <1>3, <1>10, <1>11

-----------------------------------------------------------------------------
(* The blank lines at the end of a text make no difference.                *)

\* The places of a text up to its last line that is not blank.
Solid(t) == {i \in DOMAIN t : \E k \in i .. Len(t) : t[k] # Blank}

LEMMA BodyOfMore ==
  ASSUME NEW t \in Text, NEW tail \in {<<>>, <<Blank>>}
  PROVE  Body(t \o tail) = Body(t) /\ t \o tail \in Text
  <1>1. CASE tail = <<>>
    <2>1. t \o <<>> = t BY ConcatEmptySeq DEF Text
    <2> QED BY <1>1, <2>1
  <1>2. CASE tail = <<Blank>>
    <2> DEFINE u == t \o <<Blank>>
    <2>1. t \in Seq(Line) /\ <<Blank>> \in Seq(Line) /\ Len(<<Blank>>) = 1 /\ <<Blank>>[1] = Blank
      BY BlankType, OneIsSeq DEF Text
    <2>2. /\ u \in Seq(Line) /\ Len(t) \in Nat /\ Len(u) = Len(t) + 1 /\ u[Len(t) + 1] = Blank
          /\ \A k \in 1 .. Len(t) : u[k] = t[k]
      BY <2>1, ConcatProperties, LenProperties
    <2> HIDE DEF u
    <2>3. DOMAIN u = 1 .. Len(t) + 1 /\ DOMAIN t = 1 .. Len(t)
      BY <2>1, <2>2, LenProperties
    <2>4. Solid(u) = Solid(t)
      <3>1. ASSUME NEW n \in Solid(u) PROVE n \in Solid(t)
        <4>1. n \in 1 .. Len(t) + 1 BY <2>3 DEF Solid
        <4>2. PICK k \in n .. Len(u) : u[k] # Blank BY DEF Solid
        <4>3. k \in n .. Len(t) /\ k \in 1 .. Len(t) /\ n \in 1 .. Len(t) BY <2>2, <4>1, <4>2
        <4>4. t[k] # Blank BY <2>2, <4>2, <4>3
        <4> QED BY <2>3, <4>3, <4>4 DEF Solid
      <3>2. ASSUME NEW n \in Solid(t) PROVE n \in Solid(u)
        <4>1. n \in 1 .. Len(t) BY <2>3 DEF Solid
        <4>2. PICK k \in n .. Len(t) : t[k] # Blank BY DEF Solid
        <4>3. k \in n .. Len(u) /\ k \in 1 .. Len(t) /\ n \in 1 .. Len(t) + 1 BY <2>2, <4>1
        <4>4. u[k] # Blank BY <2>2, <4>2, <4>3
        <4> QED BY <2>3, <4>3, <4>4 DEF Solid
      <3> QED BY <3>1, <3>2
    <2> DEFINE c == Cardinality(Solid(t))
    <2>5. c \in 0 .. Len(t)
      <3>1. Solid(t) \in SUBSET (1 .. Len(t)) BY <2>3 DEF Solid
      <3>a. Len(t) \in Nat BY <2>2
      <3>b. \A n \in Nat : IsFiniteSet(1 .. n) /\ Cardinality(1 .. n) = n BY FS_Interval
      <3>2. IsFiniteSet(1 .. Len(t)) /\ Cardinality(1 .. Len(t)) = Len(t) BY <3>a, <3>b
      <3>3. IsFiniteSet(Solid(t)) /\ Cardinality(Solid(t)) <= Len(t) BY <3>1, <3>2, FS_Subset
      <3>4. Cardinality(Solid(t)) \in Nat BY <3>3, FS_CardinalityType
      <3> QED BY <2>2, <3>3, <3>4
    <2> HIDE DEF c
    <2>6. SubSeq(u, 1, c) = SubSeq(t, 1, c)
      <3>1. \A k \in 1 .. c : k \in 1 .. Len(t) BY <2>2, <2>5
      <3>a. /\ c \in Int /\ 1 \in Int /\ (IF 1 <= c THEN c - 1 + 1 ELSE 0) = c /\ c - 1 + 1 = c
            /\ \A k \in 1 .. c : 1 + k - 1 = k
        BY <2>2, <2>5
      <3>2. \A k \in 1 .. c : u[k] = t[k] BY <2>2, <3>1
      <3>3. \A k \in 1 .. c : u[k] \in Line /\ t[k] \in Line BY <2>1, <2>2, <3>1, <3>2, ElementOfSeq
      <3>4. /\ SubSeq(u, 1, c) \in Seq(Line) /\ Len(SubSeq(u, 1, c)) = c
            /\ \A k \in 1 .. c : SubSeq(u, 1, c)[k] = u[k]
        BY <2>5, <3>a, <3>3, SubSeqProperties
      <3>5. /\ SubSeq(t, 1, c) \in Seq(Line) /\ Len(SubSeq(t, 1, c)) = c
            /\ \A k \in 1 .. c : SubSeq(t, 1, c)[k] = t[k]
        BY <2>5, <3>a, <3>3, SubSeqProperties
      <3> QED BY <3>2, <3>4, <3>5, SeqEqual
    <2>7. Body(u) = SubSeq(u, 1, Cardinality(Solid(u))) /\ Body(t) = SubSeq(t, 1, Cardinality(Solid(t)))
      BY DEF Body, Solid
    <2> QED BY <1>2, <2>2, <2>4, <2>6, <2>7 DEF u, c, Text
  <1> QED BY <1>1, <1>2

LEMMA BodyOfFile ==
  ASSUME NEW t \in Text
  PROVE  Body(AsFile(t)) = Body(t)
  <1>1. CASE t = <<>>
    <2>1. AsFile(t) = <<Blank>> BY <1>1 DEF AsFile
    <2>2. t \o <<Blank>> = <<Blank>>
      <3>1. <<Blank>> \in Seq(Line) BY BlankType, OneIsSeq
      <3> QED BY <1>1, <3>1, ConcatEmptySeq
    <2> QED BY <2>1, <2>2, BodyOfMore
  <1>2. CASE t # <<>>
    BY <1>2 DEF AsFile
  <1> QED BY <1>1, <1>2

\* A text with a line is not empty with one more.
LEMMA NotEmptyWithMore ==
  ASSUME NEW t \in Text, ~IsEmpty(t), NEW tail \in {<<>>, <<Blank>>}
  PROVE  ~IsEmpty(t \o tail)
  <1>1. CASE tail = <<>>
    <2>1. t \o <<>> = t BY ConcatEmptySeq DEF Text
    <2> QED BY <1>1, <2>1
  <1>2. CASE tail = <<Blank>>
    <2>1. t \in Seq(Line) /\ <<Blank>> \in Seq(Line) /\ Len(<<Blank>>) = 1
      BY BlankType, OneIsSeq DEF Text
    <2>2. Len(t \o <<Blank>>) = Len(t) + 1 /\ Len(t) \in Nat
      BY <2>1, ConcatProperties, LenProperties
    <2>3. t # <<>> /\ Len(t) # 0
      BY <2>1, EmptySeq DEF IsEmpty
    <2>4. Len(t \o <<Blank>>) # 0 /\ Len(t \o <<Blank>>) # 1
      BY <2>2, <2>3
    <2> QED BY <1>2, <2>1, <2>4, EmptySeq DEF IsEmpty
  <1> QED BY <1>1, <1>2

-----------------------------------------------------------------------------
(* The buttons of a chunk. *)

\* The script of a text and itself has no edits.
LEMMA SameScript ==
  ASSUME NEW l \in Seq(GitLine)
  PROVE  \A k \in 1 .. Len(ScriptOf(l, l)) : ScriptOf(l, l)[k].op = "context"
  <1> DEFINE end == EndOf(l, l)
             tail == [k \in 1 .. end |-> KeepOf(l, Len(l) - end + k, Len(l) - end + k)]
             r == ScriptAt(l, l, end, 1, 1)
  <1>0. Len(l) \in Nat
    BY LenProperties
  <1>1. end = Len(l)
    <2>1. \A n \in 0 .. Len(l) : Ends(l, l, n) BY DEF Ends
    <2>2. ~Ends(l, l, Len(l) + 1) BY <1>0 DEF Ends
    <2>3. Len(l) \in 0 .. Len(l) BY <1>0
    <2>4. end \in 0 .. Len(l) /\ ~Ends(l, l, end + 1) BY <2>1, <2>2, <2>3 DEF EndOf
    <2>5. end < Len(l) => end + 1 \in 0 .. Len(l) BY <1>0, <2>4
    <2>6. ~(end < Len(l)) BY <2>1, <2>4, <2>5
    <2> QED BY <1>0, <2>4, <2>6
  <1>2. ScriptOf(l, l) = r \o tail
    BY ScriptIs DEF ScriptAt
  <1> HIDE DEF end
  <1>3. end \in 0 .. Len(l) /\ end <= Len(l) /\ 1 \in 1 .. Len(l) + 1 /\ 1 > Len(l) - end /\ Over(Len(l) - end + 1 - 1) = 0
    BY <1>0, <1>1 DEF Over
  <1>4. r = AddsFrom(l, 1, 0)
    BY <1>3, AtAdds
  <1>5. r \in Seq(Entry) /\ Len(r) = 0
    BY <1>0, <1>3, <1>4, RunTypes
  <1>6. r = <<>>
    <2> HIDE DEF r
    <2> QED BY <1>5, EmptySeq
  <1>7. tail \in Seq(Entry) /\ \A k \in 1 .. Len(tail) : tail[k].op = "context"
    <2>1. \A k \in 1 .. end : Len(l) - end + k \in 1 .. Len(l) /\ Len(l) - end + k \in Int BY <1>0, <1>3
    <2>2. \A k \in 1 .. end : KeepOf(l, Len(l) - end + k, Len(l) - end + k) \in Entry BY <2>1, EntryTypes
    <2>3. tail \in [1 .. end -> Entry] BY <2>2
    <2>a. end \in Nat BY <1>0, <1>1
    <2>4. tail \in Seq(Entry) BY <2>a, <2>3, SeqDef
    <2>5. DOMAIN tail = 1 .. end /\ \A k \in 1 .. end : tail[k].op = "context" BY DEF KeepOf
    <2> HIDE DEF tail
    <2>6. Len(tail) = end BY <2>a, <2>4, <2>5, LenProperties
    <2> QED BY <2>4, <2>5, <2>6
  <1> HIDE DEF r, tail
  <1>8. ScriptOf(l, l) = tail
    BY <1>2, <1>6, <1>7, ConcatEmptySeq
  <1> QED BY <1>7, <1>8

LEMMA SameRows ==
  ASSUME NEW t \in Text, NEW i \in 1 .. Len(Rows(t, t))
  PROVE  Rows(t, t)[i].type = "context"
  <1> DEFINE s == Script(t, t)
  <1>1. s \in Seq(Entry) /\ \A k \in 1 .. Len(s) : s[k].op = "context"
    BY ScriptType, GitLinesType, SameScript DEF Script
  <1>2. Rows(t, t) = RowsOf(s)
    BY DEF Rows
  <1> HIDE DEF s
  <1>3. StartsOf(s)[i] \in 1 .. Len(s) /\ RowTold(s, RowsOf(s)[i], StartsOf(s)[i])
    BY <1>1, <1>2, RowsPlaced
  <1> QED BY <1>1, <1>2, <1>3 DEF RowTold

\* The text of the index and the script to the file, and the edits that the
\* chunk at row i takes of it and those that it leaves.
Base == app.index[app.path]
Diff == Script(app.index[app.path], app.work[app.path])
Picked(i) == Taken(Diff, GetRange(app.rows, i))
Unpicked(i) == {x \in DOMAIN Diff : Diff[x].op # "context"} \ Picked(i)

LEMMA ChunkTold ==
  ASSUME IInv, NEW i \in Buttons(app), Fresh, Apart(i)
  PROVE  /\ app.path \in File /\ Base \in Text /\ ScriptOn(Base, Diff) /\ app.rows = RowsOf(Diff)
         /\ Tracked(app, app.path) /\ IsUnstaged(app, app.path)
         /\ DoneOf(Diff, Picked(i), ChunkOf(app.rows, i))
         /\ DoneOf(Diff, Unpicked(i), DOMAIN app.rows \ ChunkOf(app.rows, i))
  <1>0. app \in AppState /\ i \in DOMAIN app.rows /\ app.rows[i].type # "context"
    BY DEF IInv, Buttons
  <1>1. app.path \in File /\ i \in 1 .. Len(app.rows)
    BY <1>0, AFileIsShown
  <1>2. Base \in Text /\ app.work[app.path] \in Text
    <2>1. app.index \in [File -> Text] /\ app.work \in [File -> Text] BY <1>0, FilesType
    <2> QED BY <1>1, <2>1 DEF Base
  <1>3. ScriptOn(Base, Diff)
    BY <1>2, ScriptTells DEF Base, Diff
  <1>4. app.rows = RowsOf(Diff)
    BY DEF Fresh, Rows, Diff
  <1>5. Tracked(app, app.path)
    BY DEF Fresh
  <1>6. IsUnstaged(app, app.path)
    <2> SUFFICES ASSUME app.index[app.path] = app.work[app.path] PROVE FALSE
      BY DEF IsUnstaged
    <2>1. app.rows = Rows(Base, Base) BY DEF Fresh, Base
    <2> QED BY <1>0, <1>1, <1>2, <2>1, SameRows
  <1>7. ApartIn(app.rows, i)
    <2>1. DOMAIN app.rows = 1 .. Len(app.rows)
      <3>1. app.rows \in Seq(Row) BY <1>0 DEF AppState
      <3> QED BY <3>1, LenProperties
    <2> QED BY <2>1 DEF Apart, ApartIn, NumbersOf
  <1>8. ToldApart(Base, Diff, app.rows, i)
    BY <1>0, <1>1, <1>3, <1>4, <1>7 DEF ToldApart
  <1>9. \A x \in 1 .. Len(Diff), j \in 1 .. Len(app.rows) :
          OfRow(Diff, x, j) /\ Diff[x].op # "context" => (x \in Picked(i) <=> j \in ChunkOf(app.rows, i))
    BY <1>8, EntryTaken DEF Picked
  <1>10. DoneOf(Diff, Picked(i), ChunkOf(app.rows, i))
    BY <1>4, <1>9 DEF DoneOf
  <1>11. DoneOf(Diff, Unpicked(i), DOMAIN app.rows \ ChunkOf(app.rows, i))
    <2>1. DOMAIN Diff = 1 .. Len(Diff) /\ DOMAIN app.rows = 1 .. Len(app.rows)
      <3>1. Diff \in Seq(Entry) BY <1>3 DEF ScriptOn
      <3>2. app.rows \in Seq(Row) BY <1>0 DEF AppState
      <3> QED BY <3>1, <3>2, LenProperties
    <2> QED BY <1>4, <1>9, <2>1 DEF DoneOf, Unpicked
  <1> QED BY <1>1, <1>2, <1>3, <1>4, <1>5, <1>6, <1>10, <1>11

\* The texts that staging, stashing and reverting make of the file.
LEMMA ChunkTexts ==
  ASSUME IInv, NEW i \in Buttons(app), Fresh, Apart(i)
  PROVE  /\ Mixed(app.rows, ChunkOf(app.rows, i)) \in Text
         /\ \E tail \in {<<>>, <<Blank>>} :
              Walked(Base, Diff, Picked(i)) = Mixed(app.rows, ChunkOf(app.rows, i)) \o tail
         /\ AsFile(Walked(Base, Diff, Unpicked(i))) \in Text
         /\ Body(AsFile(Walked(Base, Diff, Unpicked(i)))) =
              Body(Mixed(app.rows, DOMAIN app.rows \ ChunkOf(app.rows, i)))
  <1> DEFINE N == ChunkOf(app.rows, i)
             M == DOMAIN app.rows \ ChunkOf(app.rows, i)
             w == Walked(Base, Diff, Unpicked(i))
  <1>1. /\ Base \in Text /\ ScriptOn(Base, Diff) /\ app.rows = RowsOf(Diff)
        /\ DoneOf(Diff, Picked(i), N) /\ DoneOf(Diff, Unpicked(i), M)
    BY ChunkTold
  <1> HIDE DEF N, M
  <1>2. /\ Mixed(app.rows, N) \in Text
        /\ \E tail \in {<<>>, <<Blank>>} : Walked(Base, Diff, Picked(i)) = Mixed(app.rows, N) \o tail
    BY <1>1, WalkIsMixed
  <1>3. /\ Mixed(app.rows, M) \in Text
        /\ \E tail \in {<<>>, <<Blank>>} : w = Mixed(app.rows, M) \o tail
    BY <1>1, WalkIsMixed
  <1> HIDE DEF w
  <1>4. w \in Text /\ Body(w) = Body(Mixed(app.rows, M))
    <2>1. PICK tail \in {<<>>, <<Blank>>} : w = Mixed(app.rows, M) \o tail BY <1>3
    <2> QED BY <1>3, <2>1, BodyOfMore
  <1>5. AsFile(w) \in Text /\ Body(AsFile(w)) = Body(w)
    <2>1. <<Blank>> \in Text BY BlankType, OneIsSeq DEF Text
    <2> QED BY <1>4, <2>1, BodyOfFile DEF AsFile
  <1> QED BY <1>2, <1>4, <1>5 DEF N, M, w

\* What is built for the file shown, of its own patch.
LEMMA BuiltIs ==
  ASSUME IInv, NEW i \in Buttons(app), Fresh, Apart(i), OwnPatch(i)
  PROVE  Built(app, app.path, GetRange(app.rows, i)) = Walked(Base, Diff, Picked(i))
  <1>1. Tracked(app, app.path) /\ IsUnstaged(app, app.path)
    BY ChunkTold
  <1>2. PatchOf(app, app.path, GetRange(app.rows, i)) = app.path
    BY DEF OwnPatch
  <1> QED BY <1>1, <1>2 DEF Built, Base, Diff, Picked

LEMMA RevertedIs ==
  ASSUME IInv, NEW i \in Buttons(app), Fresh, Apart(i), NEW outcome \in Outcome
  PROVE  LET t == Reverted(app, app.path, GetRange(app.rows, i), outcome) IN
         /\ t \in AppState /\ ~t.edited /\ t.index = app.index /\ t.head = app.head
         /\ \A q \in File : q # app.path => t.work[q] = app.work[q]
         /\ outcome = "written" =>
              /\ t.work = [app.work EXCEPT ![app.path] = AsFile(Walked(Base, Diff, Unpicked(i)))]
              /\ t.faults = app.faults
         /\ outcome = "unopened" => t.work = app.work /\ t.faults = app.faults + 1
         /\ outcome = "cut" =>
              t.work = [app.work EXCEPT ![app.path] = <<Blank>>] /\ t.faults = app.faults + 1
  <1> DEFINE text == AsFile(Walked(Base, Diff, Unpicked(i)))
             w == Written(app, app.path, text, outcome)
  <1>1. app.path \in File /\ Tracked(app, app.path) /\ IsUnstaged(app, app.path)
    BY ChunkTold
  <1>2. text \in Text
    BY ChunkTexts
  <1>3. app \in AppState /\ ~app.edited
    BY DEF IInv, Fresh
  <1>4. Reverted(app, app.path, GetRange(app.rows, i), outcome) = w
    BY <1>1 DEF Reverted, Base, Diff, Unpicked, Picked
  <1> HIDE DEF text
  <1>5. /\ w \in AppState /\ SamePage(app, w) /\ w.head = app.head /\ w.index = app.index
        /\ \A q \in File : q # app.path => w.work[q] = app.work[q]
        /\ outcome = "written" => w.work = [app.work EXCEPT ![app.path] = text] /\ w.faults = app.faults
        /\ outcome = "unopened" => w.work = app.work /\ w.faults = app.faults + 1
        /\ outcome = "cut" => w.work = [app.work EXCEPT ![app.path] = <<Blank>>] /\ w.faults = app.faults + 1
    BY <1>1, <1>2, <1>3, WrittenIs
  <1> HIDE DEF w
  <1>6. ~w.edited
    BY <1>3, <1>5 DEF SamePage
  <1> QED BY <1>4, <1>5, <1>6 DEF text

\* The refresh writes no file when nothing is asked.
LEMMA RefreshKeeps ==
  ASSUME NEW s \in AppState, ~s.edited
  PROVE  LET t == Updated(s, "abort") IN
         /\ t \in AppState /\ t.head = s.head /\ t.index = s.index /\ t.work = s.work
         /\ t.faults = s.faults
  BY UpdatedSound DEF Sound, Keeps1

LEMMA BecomesFiles ==
  ASSUME NEW s \in AppState, ~s.edited, Becomes(Updated(s, "abort"))
  PROVE  app'.index = s.index /\ app'.work = s.work /\ app'.faults = s.faults /\ app'.stash = Absent
  <1> DEFINE t == Updated(s, "abort")
  <1>1. t \in AppState /\ t.index = s.index /\ t.work = s.work /\ t.faults = s.faults
    BY RefreshKeeps
  <1>2. app' = [t EXCEPT !.stash = Absent]
    BY DEF Becomes, Does
  <1> HIDE DEF t
  <1> QED BY <1>1, <1>2 DEF AppState

\* A call that fails leaves the files, and is counted.
LEMMA FailedFiles ==
  ASSUME IInv, ~app.edited, app.path \in File, Becomes(Updated(Failing(app, File), "abort"))
  PROVE  /\ app'.index = app.index /\ app'.work = app.work /\ app'.stash = Absent
         /\ app'.faults = app.faults + 1 /\ app'.faults # app.faults
  <1> DEFINE u == Failing(app, File)
  <1>1. app \in AppState /\ Sound(app) /\ File # {}
    BY DEF IInv, Sound
  <1>2. Sound(u) /\ u.index = app.index /\ u.work = app.work /\ u.edited = app.edited /\ u.faults = app.faults + 1
    BY <1>1, FailingSound
  <1> HIDE DEF u
  <1>3. u \in AppState /\ ~u.edited
    BY <1>2 DEF Sound
  <1>4. Becomes(Updated(u, "abort"))
    BY DEF u
  <1>5. app'.index = u.index /\ app'.work = u.work /\ app'.faults = u.faults /\ app'.stash = Absent
    BY <1>3, <1>4, BecomesFiles
  <1>6. app.faults \in Nat
    BY <1>1 DEF AppState
  <1> QED BY <1>2, <1>5, <1>6

LEMMA StageMoves ==
  ASSUME IInv, NEW i \in Buttons(app), Fresh, Apart(i), OwnPatch(i),
         ~IsEmpty(Mixed(app.rows, ChunkOf(app.rows, i))), StageLines(i, "abort", "abort"),
         app'.faults = app.faults
  PROVE  /\ Body(app'.index[app.path]) = Body(Mixed(app.rows, ChunkOf(app.rows, i)))
         /\ app'.index = [app.index EXCEPT ![app.path] = app'.index[app.path]]
         /\ app'.work = app.work
  <1> DEFINE text == Built(app, app.path, GetRange(app.rows, i))
             expected == Mixed(app.rows, ChunkOf(app.rows, i))
             index == [app.index EXCEPT ![app.path] = text]
             u == [app EXCEPT !.index = index]
             v == IF IsEmpty(text) THEN app ELSE [app EXCEPT !.index[app.path] = text]
  <1>1. app \in AppState /\ ~app.edited /\ app.path \in File
    BY ChunkTold DEF IInv, Fresh
  <1>2. expected \in Text /\ \E tail \in {<<>>, <<Blank>>} : text = expected \o tail
    BY BuiltIs, ChunkTexts
  <1>3. Asked(app, "abort") = app
    BY <1>1 DEF Asked
  <1>4. Calls(app, v, "abort")
    BY <1>3 DEF StageLines
  <1>5. Becomes(Updated(v, "abort"))
    <2> HIDE DEF v
    <2>1. Becomes(Updated(v, "abort")) \/ Becomes(Updated(Failing(app, File), "abort"))
      BY <1>4 DEF Calls
    <2> QED BY <1>1, <2>1, FailedFiles
  <1>6. [app EXCEPT !.index[app.path] = text] = u
    BY <1>1 DEF AppState
  <1> HIDE DEF text, expected
  <1>7. text \in Text /\ Body(text) = Body(expected) /\ ~IsEmpty(text)
    <2>1. PICK tail \in {<<>>, <<Blank>>} : text = expected \o tail BY <1>2
    <2>2. ~IsEmpty(expected) BY DEF expected
    <2> QED BY <1>2, <2>1, <2>2, BodyOfMore, NotEmptyWithMore
  <1>8. index \in [File -> Text] /\ index[app.path] = text /\ index = [app.index EXCEPT ![app.path] = index[app.path]]
    BY <1>1, <1>7, FilesType
  <1>9. Becomes(Updated(u, "abort"))
    BY <1>5, <1>6, <1>7
  <1> HIDE DEF index
  <1>10. u \in AppState /\ ~u.edited /\ u.index = index /\ u.work = app.work
    BY <1>1, <1>8 DEF AppState
  <1> HIDE DEF u
  <1>11. app'.index = index /\ app'.work = app.work
    BY <1>9, <1>10, BecomesFiles
  <1> QED BY <1>7, <1>8, <1>11 DEF expected

LEMMA RevertMoves ==
  ASSUME IInv, NEW i \in Buttons(app), Fresh, Apart(i), RevertLines(i, "abort", "abort"),
         app'.faults = app.faults
  PROVE  /\ Body(app'.work[app.path]) = Body(Mixed(app.rows, DOMAIN app.rows \ ChunkOf(app.rows, i)))
         /\ app'.work = [app.work EXCEPT ![app.path] = app'.work[app.path]]
         /\ app'.index = app.index
  <1> DEFINE u(outcome) == Reverted(app, app.path, GetRange(app.rows, i), outcome)
             text == AsFile(Walked(Base, Diff, Unpicked(i)))
  <1>1. app \in AppState /\ ~app.edited /\ app.path \in File /\ app.faults \in Nat
    BY ChunkTold DEF IInv, Fresh, AppState
  <1>2. Asked(app, "abort") = app
    BY <1>1 DEF Asked
  <1>3. PICK outcome \in Outcome : Becomes(Updated(u(outcome), "abort"))
    BY <1>2 DEF RevertLines
  <1>4. /\ u(outcome) \in AppState /\ ~u(outcome).edited /\ u(outcome).index = app.index
        /\ outcome = "written" => u(outcome).work = [app.work EXCEPT ![app.path] = text]
        /\ outcome # "written" => u(outcome).faults = app.faults + 1
    BY RevertedIs DEF Outcome
  <1>5. Body(text) = Body(Mixed(app.rows, DOMAIN app.rows \ ChunkOf(app.rows, i))) /\ text \in Text
    BY ChunkTexts
  <1> HIDE DEF u, text
  <1>6. app'.index = app.index /\ app'.work = u(outcome).work /\ app'.faults = u(outcome).faults
    BY <1>3, <1>4, BecomesFiles
  <1>7. app'.work = [app.work EXCEPT ![app.path] = text]
    BY <1>1, <1>4, <1>6
  <1>8. app'.work[app.path] = text
    BY <1>1, <1>7, FilesType
  <1> QED BY <1>5, <1>6, <1>7, <1>8

LEMMA StashMoves ==
  ASSUME IInv, NEW i \in Buttons(app), Fresh, Apart(i), OwnPatch(i), StashLines(i, "abort")
  PROVE  LET chunk == ChunkOf(app.rows, i)
             stashed == Body(app'.stash) = Body(Mixed(app.rows, chunk))
             left == app'.work[app.path]
         IN
         /\ app'.work = [app.work EXCEPT ![app.path] = left] /\ app'.index = app.index
         /\ app'.stash # Absent => stashed
         /\ left # app.work[app.path] =>
              /\ stashed
              /\ \/ Body(left) = Body(Mixed(app.rows, DOMAIN app.rows \ chunk))
                 \/ left = <<Blank>> /\ app'.faults > app.faults
  <1> DEFINE u(outcome) == Reverted(app, app.path, GetRange(app.rows, i), outcome)
             t(outcome) == Updated(u(outcome), "abort")
             text == AsFile(Walked(Base, Diff, Unpicked(i)))
             expected == Mixed(app.rows, ChunkOf(app.rows, i))
             stash == Built(app, app.path, GetRange(app.rows, i))
             rest == Mixed(app.rows, DOMAIN app.rows \ ChunkOf(app.rows, i))
             empty == <<Blank>>
  <1>1. app \in AppState /\ ~app.edited /\ app.path \in File /\ app.faults \in Nat /\ app.work \in [File -> Text]
    BY ChunkTold DEF IInv, Fresh, AppState
  <1>2. \/ Becomes(Updated(Failing(app, File), "abort"))
        \/ \E outcome \in Outcome : app' = [t(outcome) EXCEPT !.stash = stash]
    BY DEF StashLines, Does
  <1>3. \A outcome \in Outcome :
          /\ u(outcome) \in AppState /\ ~u(outcome).edited /\ u(outcome).index = app.index
          /\ outcome = "written" => u(outcome).work = [app.work EXCEPT ![app.path] = text]
          /\ outcome = "unopened" => u(outcome).work = app.work
          /\ outcome = "cut" => /\ u(outcome).work = [app.work EXCEPT ![app.path] = empty]
                                /\ u(outcome).faults = app.faults + 1
    BY RevertedIs
  <1>4. Body(text) = Body(rest)
    BY ChunkTexts
  <1>5. expected \in Text /\ \E tail \in {<<>>, <<Blank>>} : stash = expected \o tail
    BY BuiltIs, ChunkTexts
  <1> HIDE DEF u, text, expected, stash, rest, empty
  <1>6. Body(stash) = Body(expected)
    BY <1>5, BodyOfMore
  <1>7. \A outcome \in Outcome :
          /\ t(outcome) \in AppState /\ t(outcome).work = u(outcome).work
          /\ t(outcome).index = u(outcome).index /\ t(outcome).faults = u(outcome).faults
    BY <1>3, RefreshKeeps
  <1> HIDE DEF t
  <1> DEFINE NoLineLost ==
         LET left == app'.work[app.path] IN
         /\ app'.work = [app.work EXCEPT ![app.path] = left] /\ app'.index = app.index
         /\ app'.stash # Absent => Body(app'.stash) = Body(expected)
         /\ left # app.work[app.path] =>
              /\ Body(app'.stash) = Body(expected)
              /\ Body(left) = Body(rest) \/ (left = empty /\ app'.faults > app.faults)
  <1>8. ASSUME Becomes(Updated(Failing(app, File), "abort")) PROVE NoLineLost
    <2>1. app'.index = app.index /\ app'.work = app.work /\ app'.stash = Absent
      BY <1>1, <1>8, FailedFiles
    <2>2. app'.work = [app.work EXCEPT ![app.path] = app'.work[app.path]]
      BY <1>1, <2>1
    <2> QED BY <2>1, <2>2
  <1>9. ASSUME NEW outcome \in Outcome, app' = [t(outcome) EXCEPT !.stash = stash] PROVE NoLineLost
    <2>1. /\ app'.stash = stash /\ app'.work = u(outcome).work /\ app'.index = app.index
          /\ app'.faults = u(outcome).faults
      BY <1>3, <1>7, <1>9 DEF AppState
    <2>2. CASE outcome = "written"
      <3>1. app'.work = [app.work EXCEPT ![app.path] = text] BY <1>3, <2>1, <2>2
      <3>2. app'.work[app.path] = text BY <1>1, <3>1
      <3> QED BY <1>4, <1>6, <2>1, <3>1, <3>2
    <2>3. CASE outcome = "unopened"
      <3>1. app'.work = app.work BY <1>3, <2>1, <2>3
      <3>2. app'.work = [app.work EXCEPT ![app.path] = app'.work[app.path]] BY <1>1, <3>1
      <3> QED BY <1>6, <2>1, <3>1, <3>2
    <2>4. CASE outcome = "cut"
      <3>1. app'.work = [app.work EXCEPT ![app.path] = empty] /\ app'.faults = app.faults + 1
        BY <1>3, <2>1, <2>4
      <3>2. app'.work[app.path] = empty /\ app'.faults > app.faults BY <1>1, <3>1
      <3> QED BY <1>6, <2>1, <3>1, <3>2
    <2> QED BY <2>2, <2>3, <2>4 DEF Outcome
  <1>10. NoLineLost
    BY <1>2, <1>8, <1>9
  <1> QED BY <1>10 DEF expected, rest, empty

-----------------------------------------------------------------------------

\* Staging a chunk whose numbers tell it apart puts its new lines in the index
\* and leaves every other line and file and the working directory as they are
\* (stageSelectedLines, GitStatus.cpp:926-1110).
THEOREM StagingMovesTheChunk == Spec => StagesChunk
  <1> DEFINE A == \A i \in Buttons(app) :
                    LET expected == Mixed(app.rows, ChunkOf(app.rows, i)) IN
                    /\ Fresh /\ Apart(i) /\ OwnPatch(i) /\ ~IsEmpty(expected)
                    /\ StageLines(i, "abort", "abort") /\ app'.faults = app.faults
                    => /\ Body(app'.index[app.path]) = Body(expected)
                       /\ app'.index = [app.index EXCEPT ![app.path] = app'.index[app.path]]
                       /\ app'.work = app.work
  <1>1. IInv => A
    BY StageMoves
  <1> HIDE DEF A
  <1>2. Spec => [][A]_vars
    BY Invariant, <1>1, PTL DEF Spec
  <1> QED BY <1>2 DEF A, StagesChunk

\* Reverting a chunk whose numbers tell it apart takes its lines of the index
\* back into the file, and leaves every other line and file and the index as
\* they are (revertSelectedLines, GitStatus.cpp:1238-1344).
THEOREM RevertingMovesTheChunk == Spec => RevertsChunk
  <1> DEFINE A == \A i \in Buttons(app) :
                    /\ Fresh /\ Apart(i)
                    /\ RevertLines(i, "abort", "abort") /\ app'.faults = app.faults
                    => /\ Body(app'.work[app.path]) = Body(Mixed(app.rows, DOMAIN app.rows \ ChunkOf(app.rows, i)))
                       /\ app'.work = [app.work EXCEPT ![app.path] = app'.work[app.path]]
                       /\ app'.index = app.index
  <1>1. IInv => A
    BY RevertMoves
  <1> HIDE DEF A
  <1>2. Spec => [][A]_vars
    BY Invariant, <1>1, PTL DEF Spec
  <1> QED BY <1>2 DEF A, RevertsChunk

\* A chunk that is staged or reverted moves between the file and the index, and
\* no other line does (GitStatus.cpp:926-1344).
THEOREM ChunksAreTaken == Spec => ChunkTaken
  BY StagingMovesTheChunk, RevertingMovesTheChunk DEF ChunkTaken

\* What stashing a chunk takes from the file is in the stash, whichever of the
\* two calls fails; only a revert whose write fails once the file is open
\* leaves less than the other lines, an empty file (StashController.qml:11-24,
\* GitStash.cpp:294-369, GitStatus.cpp:1332-1341).
THEOREM StashKeepsTheChunk == Spec => StashLosesNothing
  <1> DEFINE A == \A i \in Buttons(app) :
                    LET chunk == ChunkOf(app.rows, i)
                        stashed == Body(app'.stash) = Body(Mixed(app.rows, chunk))
                        left == app'.work[app.path]
                    IN
                    /\ Fresh /\ Apart(i) /\ OwnPatch(i)
                    /\ StashLines(i, "abort")
                    => /\ app'.work = [app.work EXCEPT ![app.path] = left] /\ app'.index = app.index
                       /\ app'.stash # Absent => stashed
                       /\ left # app.work[app.path] =>
                            /\ stashed
                            /\ \/ Body(left) = Body(Mixed(app.rows, DOMAIN app.rows \ chunk))
                               \/ left = <<Blank>> /\ app'.faults > app.faults
  <1>1. IInv => A
    BY StashMoves
  <1> HIDE DEF A
  <1>2. Spec => [][A]_vars
    BY Invariant, <1>1, PTL DEF Spec
  <1> QED BY <1>2 DEF A, StashLosesNothing
=============================================================================
