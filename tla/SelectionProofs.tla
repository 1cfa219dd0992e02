--------------------------- MODULE SelectionProofs ---------------------------
(***************************************************************************)
(* Lemmas about Kept, for every sequence.  The provers cannot instantiate  *)
(* an induction theorem, whose parameter is an operator; an induction over *)
(* a set of numbers or of sequences asks for no such parameter, and        *)
(* follows from the well-foundedness of < on the naturals.                 *)
(***************************************************************************)
EXTENDS Selections, SequencesExt, SequenceTheorems, WellFoundedInduction, TLAPS

Below == {p \in Nat \X Nat : p[1] < p[2]}

LEMMA BelowIsWellFounded == IsWellFoundedOn(Below, Nat)
  <1>1. OpToRel(<, Nat) = Below
    BY DEF OpToRel, Below
  <1> QED BY <1>1, NatLessThanWellFounded

\* A set of naturals that is not empty has a least element.
LEMMA Least == \A T \in SUBSET Nat : T # {} => \E m \in T : \A k \in T : m <= k
  <1> SUFFICES ASSUME NEW T \in SUBSET Nat, T # {}
               PROVE  \E m \in T : \A k \in T : m <= k
    OBVIOUS
  <1>1. PICK x \in T : \A y \in T : <<y, x>> \notin Below
    BY BelowIsWellFounded, WFMin
  <1>2. ASSUME NEW y \in T PROVE x <= y
    <2>1. <<y, x>> \notin Below BY <1>1
    <2>2. x \in Nat /\ y \in Nat OBVIOUS
    <2> QED BY <2>1, <2>2 DEF Below
  <1> QED BY <1>2

\* Induction over the naturals.
LEMMA Induction ==
  ASSUME NEW T, 0 \in T, \A n \in Nat : n \in T => n + 1 \in T
  PROVE  Nat \subseteq T
  <1> SUFFICES ASSUME Nat \ T # {} PROVE FALSE
    OBVIOUS
  <1>1. PICK m \in Nat \ T : \A k \in Nat \ T : m <= k
    BY Least
  <1>2. m # 0 /\ m - 1 \in Nat
    OBVIOUS
  <1>3. m - 1 \in T
    BY <1>1, <1>2
  <1> QED BY <1>2, <1>3

\* Induction over sequences.
LEMMA SeqInduction ==
  ASSUME NEW S, NEW T, <<>> \in T,
         \A s \in Seq(S), x \in S : s \in T => Append(s, x) \in T
  PROVE  Seq(S) \subseteq T
  <1> DEFINE G == {n \in Nat : \A s \in Seq(S) : Len(s) = n => s \in T}
  <1>1. 0 \in G
    BY EmptySeq
  <1>2. ASSUME NEW n \in Nat, n \in G PROVE n + 1 \in G
    <2>1. ASSUME NEW s \in Seq(S), Len(s) = n + 1 PROVE s \in T
      <3>1. s # <<>> BY <2>1, EmptySeq
      <3>2. PICK r \in Seq(S), x \in S : s = Append(r, x)
        BY <3>1, SequenceEmptyOrAppend
      <3>3. Len(r) = n BY <2>1, <3>2, AppendProperties
      <3> QED BY <1>2, <3>2, <3>3
    <2> QED BY <2>1
  <1> HIDE DEF G
  <1>3. Nat \subseteq G BY <1>1, <1>2, Induction
  <1> QED BY <1>3, LenProperties DEF G

-----------------------------------------------------------------------------
(* The recursion of Kept. *)

Keeps(s, T) ==
  CHOOSE f : f = [i \in 0 .. Len(s) |->
    IF i = 0 THEN <<>> ELSE IF s[i] \in T THEN Append(f[i - 1], s[i]) ELSE f[i - 1]]

LEMMA KeepsIs ==
  ASSUME NEW S, NEW s \in Seq(S), NEW T
  PROVE  Keeps(s, T) = [i \in 0 .. Len(s) |->
           IF i = 0 THEN <<>>
           ELSE IF s[i] \in T THEN Append(Keeps(s, T)[i - 1], s[i]) ELSE Keeps(s, T)[i - 1]]
  <1> DEFINE Once(f) == [i \in 0 .. Len(s) |->
               IF i = 0 THEN <<>> ELSE IF s[i] \in T THEN Append(f[i - 1], s[i]) ELSE f[i - 1]]
             Good == {n \in Nat : \E f : \A i \in 0 .. Len(s) : i <= n => f[i] = Once(f)[i]}
  <1>0. Len(s) \in Nat
    OBVIOUS
  <1>1. 0 \in Good
    <2>1. \A i \in 0 .. Len(s) : i <= 0 => i = 0 BY <1>0
    <2>2. Once(<<>>)[0] = <<>> /\ Once(Once(<<>>))[0] = <<>> BY <1>0
    <2> QED BY <2>1, <2>2
  <1>2. ASSUME NEW n \in Nat, n \in Good PROVE n + 1 \in Good
    <2>1. PICK f : \A i \in 0 .. Len(s) : i <= n => f[i] = Once(f)[i]
      BY <1>2
    <2> DEFINE g == Once(f)
    <2>2. ASSUME NEW i \in 0 .. Len(s), i <= n + 1 PROVE g[i] = Once(g)[i]
      <3>1. CASE i = 0 BY <3>1, <1>0
      <3>2. CASE i # 0
        <4>1. i - 1 \in 0 .. Len(s) /\ i - 1 <= n BY <3>2, <2>2, <1>0
        <4>2. g[i - 1] = f[i - 1] BY <4>1, <2>1
        <4> QED BY <3>2, <4>2, <1>0
      <3> QED BY <3>1, <3>2
    <2> HIDE DEF g
    <2> QED BY <2>2
  <1>3. Len(s) \in Good
    BY <1>0, <1>1, <1>2, Induction
  <1>4. PICK f : \A i \in 0 .. Len(s) : i <= Len(s) => f[i] = Once(f)[i]
    BY <1>3
  <1>5. ASSUME NEW i \in 0 .. Len(s) PROVE Once(f)[i] = Once(Once(f))[i]
    <2>1. CASE i = 0 BY <2>1, <1>0
    <2>2. CASE i # 0
      <3>1. i - 1 \in 0 .. Len(s) BY <2>2, <1>0
      <3>2. Once(f)[i - 1] = f[i - 1] BY <3>1, <1>4, <1>0
      <3> QED BY <2>2, <3>2, <1>0
    <2> QED BY <2>1, <2>2
  <1>6. \E g : g = Once(g)
    BY <1>5
  <1> QED BY <1>6 DEF Keeps

LEMMA KeepsAt ==
  ASSUME NEW S, NEW s \in Seq(S), NEW T
  PROVE  /\ Keeps(s, T)[0] = <<>>
         /\ \A n \in Nat : n < Len(s) =>
              Keeps(s, T)[n + 1] = IF s[n + 1] \in T THEN Append(Keeps(s, T)[n], s[n + 1])
                                                     ELSE Keeps(s, T)[n]
  <1> DEFINE f == Keeps(s, T)
  <1>0. Len(s) \in Nat
    OBVIOUS
  <1>1. f = [i \in 0 .. Len(s) |->
           IF i = 0 THEN <<>> ELSE IF s[i] \in T THEN Append(f[i - 1], s[i]) ELSE f[i - 1]]
    BY KeepsIs
  <1> HIDE DEF f
  <1>2. f[0] = <<>>
    BY <1>0, <1>1
  <1>3. ASSUME NEW n \in Nat, n < Len(s)
        PROVE  f[n + 1] = IF s[n + 1] \in T THEN Append(f[n], s[n + 1]) ELSE f[n]
    <2>1. n + 1 \in 0 .. Len(s) /\ n + 1 # 0 /\ (n + 1) - 1 = n BY <1>0, <1>3
    <2> DEFINE m == n + 1
    <2>2. f[m] = IF m = 0 THEN <<>> ELSE IF s[m] \in T THEN Append(f[m - 1], s[m]) ELSE f[m - 1]
      <3> HIDE DEF m
      <3> QED BY <1>1, <2>1 DEF m
    <2> QED BY <2>1, <2>2
  <1> QED BY <1>2, <1>3 DEF f

LEMMA KeptIsLast == \A s, T : Kept(s, T) = Keeps(s, T)[Len(s)]
  BY DEF Kept, Keeps

LEMMA KeptOfNone == \A T : Kept(<<>>, T) = <<>>
  <1> TAKE T
  <1>1. <<>> \in Seq({}) /\ Len(<<>>) = 0
    BY EmptySeq
  <1>2. Keeps(<<>>, T)[0] = <<>>
    BY <1>1, KeepsAt
  <1> QED BY <1>1, <1>2, KeptIsLast

LEMMA KeptOfMore ==
  ASSUME NEW S, NEW s \in Seq(S), NEW x \in S, NEW T
  PROVE  Kept(Append(s, x), T) = IF x \in T THEN Append(Kept(s, T), x) ELSE Kept(s, T)
  <1> DEFINE t == Append(s, x)
             f == Keeps(s, T)
             g == Keeps(t, T)
             Good == {n \in Nat : n <= Len(s) => g[n] = f[n]}
  <1>0. /\ Len(s) \in Nat /\ t \in Seq(S) /\ Len(t) = Len(s) + 1
        /\ t[Len(s) + 1] = x /\ \A i \in 1 .. Len(s) : t[i] = s[i]
    BY AppendProperties, LenProperties
  <1>1. /\ f[0] = <<>>
        /\ \A n \in Nat : n < Len(s) => f[n + 1] = IF s[n + 1] \in T THEN Append(f[n], s[n + 1]) ELSE f[n]
    BY KeepsAt
  <1>2. /\ g[0] = <<>>
        /\ \A n \in Nat : n < Len(t) => g[n + 1] = IF t[n + 1] \in T THEN Append(g[n], t[n + 1]) ELSE g[n]
    <2> HIDE DEF t
    <2> QED BY <1>0, KeepsAt
  <1> HIDE DEF t, f, g
  <1>3. 0 \in Good
    BY <1>1, <1>2
  <1>4. ASSUME NEW n \in Nat, n \in Good PROVE n + 1 \in Good
    <2>1. SUFFICES ASSUME n + 1 <= Len(s) PROVE g[n + 1] = f[n + 1]
      OBVIOUS
    <2>2. g[n] = f[n] /\ t[n + 1] = s[n + 1] BY <1>4, <1>0, <2>1
    <2> QED BY <1>0, <1>1, <1>2, <2>1, <2>2
  <1> HIDE DEF Good
  <1>5. g[Len(s)] = f[Len(s)]
    <2>1. Nat \subseteq Good BY <1>3, <1>4, Induction
    <2> QED BY <1>0, <2>1 DEF Good
  <1>6. g[Len(s) + 1] = IF x \in T THEN Append(f[Len(s)], x) ELSE f[Len(s)]
    BY <1>0, <1>2, <1>5
  <1> QED BY <1>0, <1>6, KeptIsLast DEF t, f, g

-----------------------------------------------------------------------------
(* What Kept leaves. *)

LEMMA KeptType == ASSUME NEW S, NEW s \in Seq(S), NEW T PROVE Kept(s, T) \in Seq(S)
  <1> DEFINE G == {t \in Seq(S) : Kept(t, T) \in Seq(S)}
  <1>1. <<>> \in G
    <2>1. <<>> \in Seq(S) BY EmptySeq
    <2>2. Kept(<<>>, T) = <<>> BY KeptOfNone
    <2> QED BY <2>1, <2>2
  <1>2. ASSUME NEW t \in Seq(S), NEW x \in S, t \in G PROVE Append(t, x) \in G
    <2>1. Kept(Append(t, x), T) = IF x \in T THEN Append(Kept(t, T), x) ELSE Kept(t, T)
      BY KeptOfMore
    <2>2. Append(t, x) \in Seq(S) /\ Append(Kept(t, T), x) \in Seq(S)
      BY <1>2, AppendProperties
    <2> QED BY <1>2, <2>1, <2>2
  <1> HIDE DEF G
  <1>3. Seq(S) \subseteq G
    BY <1>1, <1>2, SeqInduction
  <1> QED BY <1>3 DEF G

\* What is left is what there was of the set.
LEMMA KeptRange ==
  ASSUME NEW S, NEW s \in Seq(S), NEW T
  PROVE  \A x : x \in Range(Kept(s, T)) <=> x \in T /\ \E i \in 1 .. Len(s) : s[i] = x
  <1> DEFINE Has(t, x) == \E i \in 1 .. Len(t) : t[i] = x
             G == {t \in Seq(S) : \A x : Has(Kept(t, T), x) <=> x \in T /\ Has(t, x)}
  <1>1. <<>> \in G
    BY KeptOfNone
  <1>2. ASSUME NEW t \in Seq(S), NEW x \in S, t \in G PROVE Append(t, x) \in G
    <2>1. ASSUME NEW u \in Seq(S) PROVE \A y : Has(Append(u, x), y) <=> Has(u, y) \/ y = x
      <3>1. /\ Len(u) \in Nat /\ Len(Append(u, x)) = Len(u) + 1
            /\ \A i \in 1 .. Len(u) : Append(u, x)[i] = u[i]
            /\ Append(u, x)[Len(u) + 1] = x
        BY AppendProperties, LenProperties
      <3> QED BY <3>1
    <2>2. Kept(t, T) \in Seq(S) BY KeptType
    <2>3. Kept(Append(t, x), T) = IF x \in T THEN Append(Kept(t, T), x) ELSE Kept(t, T)
      BY KeptOfMore
    <2>4. Append(t, x) \in Seq(S) BY AppendProperties
    <2> HIDE DEF Has
    <2> QED BY <1>2, <2>1, <2>2, <2>3, <2>4
  <1> HIDE DEF G
  <1>3. Seq(S) \subseteq G
    BY <1>1, <1>2, SeqInduction
  <1>4. \A x : Has(Kept(s, T), x) <=> x \in T /\ Has(s, x)
    BY <1>3 DEF G
  <1>5. Kept(s, T) \in Seq(S)
    BY KeptType
  <1>6. Range(Kept(s, T)) = {Kept(s, T)[i] : i \in 1 .. Len(Kept(s, T))}
    BY <1>5, RangeEquality
  <1> QED BY <1>4, <1>6

LEMMA KeptOfJoined ==
  ASSUME NEW S, NEW s \in Seq(S), NEW t \in Seq(S), NEW T
  PROVE  Kept(s \o t, T) = Kept(s, T) \o Kept(t, T)
  <1> DEFINE G == {u \in Seq(S) : Kept(s \o u, T) = Kept(s, T) \o Kept(u, T)}
  <1>0. \A u \in Seq(S) : Kept(u, T) \in Seq(S)
    BY KeptType
  <1>1. <<>> \in G
    BY <1>0, KeptOfNone, ConcatEmptySeq
  <1>2. ASSUME NEW u \in Seq(S), NEW x \in S, u \in G PROVE Append(u, x) \in G
    <2>1. s \o Append(u, x) = Append(s \o u, x) /\ s \o u \in Seq(S) /\ Append(u, x) \in Seq(S)
      BY AppendIsConcat, ConcatAssociative, ConcatProperties, AppendProperties
    <2>2. Kept(s, T) \o Append(Kept(u, T), x) = Append(Kept(s, T) \o Kept(u, T), x)
      BY <1>0, AppendIsConcat, ConcatAssociative, ConcatProperties
    <2>3. Kept(Append(s \o u, x), T) = IF x \in T THEN Append(Kept(s \o u, T), x) ELSE Kept(s \o u, T)
      BY <2>1, KeptOfMore
    <2>4. Kept(Append(u, x), T) = IF x \in T THEN Append(Kept(u, T), x) ELSE Kept(u, T)
      BY KeptOfMore
    <2> QED BY <1>2, <2>1, <2>2, <2>3, <2>4
  <1> HIDE DEF G
  <1>3. Seq(S) \subseteq G
    BY <1>1, <1>2, SeqInduction
  <1> QED BY <1>3 DEF G

\* Only the elements of the sequence matter.
LEMMA KeptSame ==
  ASSUME NEW S, NEW s \in Seq(S), NEW T, NEW U, \A x \in S : x \in T <=> x \in U
  PROVE  Kept(s, T) = Kept(s, U)
  <1> DEFINE G == {t \in Seq(S) : Kept(t, T) = Kept(t, U)}
  <1>1. <<>> \in G
    BY KeptOfNone
  <1>2. ASSUME NEW t \in Seq(S), NEW x \in S, t \in G PROVE Append(t, x) \in G
    <2>1. /\ Kept(Append(t, x), T) = IF x \in T THEN Append(Kept(t, T), x) ELSE Kept(t, T)
          /\ Kept(Append(t, x), U) = IF x \in U THEN Append(Kept(t, U), x) ELSE Kept(t, U)
      BY KeptOfMore
    <2>2. Append(t, x) \in Seq(S) /\ (x \in T <=> x \in U)
      BY AppendProperties
    <2> QED BY <1>2, <2>1, <2>2
  <1> HIDE DEF G
  <1>3. Seq(S) \subseteq G
    BY <1>1, <1>2, SeqInduction
  <1> QED BY <1>3 DEF G

LEMMA KeptAll ==
  ASSUME NEW S, NEW s \in Seq(S), NEW T, S \subseteq T
  PROVE  Kept(s, T) = s
  <1> DEFINE G == {t \in Seq(S) : Kept(t, T) = t}
  <1>1. <<>> \in G
    BY KeptOfNone
  <1>2. ASSUME NEW t \in Seq(S), NEW x \in S, t \in G PROVE Append(t, x) \in G
    BY <1>2, KeptOfMore, AppendProperties
  <1> HIDE DEF G
  <1>3. Seq(S) \subseteq G
    BY <1>1, <1>2, SeqInduction
  <1> QED BY <1>3 DEF G

LEMMA KeptOfOne ==
  ASSUME NEW S, NEW x \in S, NEW T
  PROVE  Kept(<<x>>, T) = IF x \in T THEN <<x>> ELSE <<>>
  <1>1. <<>> \in Seq(S) /\ Append(<<>>, x) = <<x>>
    BY EmptySeq
  <1>2. Kept(Append(<<>>, x), T) = IF x \in T THEN Append(Kept(<<>>, T), x) ELSE Kept(<<>>, T)
    BY <1>1, KeptOfMore
  <1> QED BY <1>1, <1>2, KeptOfNone

-----------------------------------------------------------------------------
(* Sequences in pieces: what a change in the middle leaves on both sides. *)

LEMMA Pieces3 ==
  ASSUME NEW S, NEW s \in Seq(S), NEW i \in 1 .. Len(s)
  PROVE  LET a == SubSeq(s, 1, i - 1)
             b == SubSeq(s, i + 1, Len(s))
         IN /\ a \in Seq(S) /\ b \in Seq(S) /\ Len(a) = i - 1 /\ Len(b) = Len(s) - i
            /\ s = (a \o <<s[i]>>) \o b
  <1> DEFINE a == SubSeq(s, 1, i - 1)
             b == SubSeq(s, i + 1, Len(s))
  <1>0. Len(s) \in Nat /\ i \in Nat /\ \A k \in 1 .. Len(s) : s[k] \in S
    BY LenProperties, ElementOfSeq
  <1>1. a \in Seq(S) /\ Len(a) = i - 1
    BY <1>0, SubSeqProperties
  <1>2. b \in Seq(S) /\ Len(b) = Len(s) - i
    BY <1>0, SubSeqProperties
  <1>3. SubSeq(s, 1, i) = a \o <<s[i]>>
    BY <1>0, SubSeqRecursiveSecond
  <1>4. SubSeq(s, 1, i) \o b = SubSeq(s, 1, Len(s))
    <2>1. 1 \in 1 .. Len(s) + 1 /\ i \in 1 - 1 .. Len(s) /\ Len(s) \in i .. Len(s) BY <1>0
    <2> QED BY <2>1, ConcatAdjacentSubSeq
  <1>5. SubSeq(s, 1, Len(s)) = s
    BY SubSeqFull
  <1> QED BY <1>1, <1>2, <1>3, <1>4, <1>5

LEMMA OneIsSeq == ASSUME NEW S, NEW x \in S PROVE <<x>> \in Seq(S) /\ Len(<<x>>) = 1 /\ <<x>>[1] = x
  <1>1. <<>> \in Seq(S) /\ Len(<<>>) = 0 /\ Append(<<>>, x) = <<x>>
    BY EmptySeq
  <1> QED BY <1>1, AppendProperties

LEMMA Joined3 ==
  ASSUME NEW S, NEW a \in Seq(S), NEW x \in S, NEW b \in Seq(S)
  PROVE  LET s == (a \o <<x>>) \o b IN
         /\ s \in Seq(S) /\ Len(a) \in Nat /\ Len(b) \in Nat /\ Len(s) = Len(a) + 1 + Len(b)
         /\ \A k \in 1 .. Len(a) : s[k] = a[k]
         /\ s[Len(a) + 1] = x
         /\ \A k \in 1 .. Len(b) : s[Len(a) + 1 + k] = b[k]
  <1> DEFINE u == a \o <<x>>
             s == u \o b
  <1>0. Len(a) \in Nat /\ Len(b) \in Nat
    BY LenProperties
  <1>1. <<x>> \in Seq(S) /\ Len(<<x>>) = 1 /\ <<x>>[1] = x
    BY OneIsSeq
  <1>2. /\ u \in Seq(S) /\ Len(u) = Len(a) + 1
        /\ \A k \in 1 .. Len(a) + 1 : u[k] = IF k <= Len(a) THEN a[k] ELSE <<x>>[k - Len(a)]
    BY <1>1, ConcatProperties
  <1>3. /\ \A k \in 1 .. Len(a) : u[k] = a[k]
        /\ u[Len(a) + 1] = x
    <2>1. \A k \in 1 .. Len(a) : k \in 1 .. Len(a) + 1 /\ k <= Len(a) BY <1>0
    <2>2. Len(a) + 1 \in 1 .. Len(a) + 1 /\ ~(Len(a) + 1 <= Len(a)) /\ Len(a) + 1 - Len(a) = 1 BY <1>0
    <2> QED BY <1>1, <1>2, <2>1, <2>2
  <1> HIDE DEF u
  <1>4. /\ s \in Seq(S) /\ Len(s) = Len(u) + Len(b)
        /\ \A k \in 1 .. Len(u) + Len(b) : s[k] = IF k <= Len(u) THEN u[k] ELSE b[k - Len(u)]
    BY <1>2, ConcatProperties
  <1> HIDE DEF s
  <1>5. \A k \in 1 .. Len(a) + 1 : s[k] = u[k]
    BY <1>0, <1>2, <1>4
  <1>6. ASSUME NEW k \in 1 .. Len(b) PROVE s[Len(a) + 1 + k] = b[k]
    <2> DEFINE m == Len(a) + 1 + k
    <2>1. m \in 1 .. Len(u) + Len(b) /\ ~(m <= Len(u)) /\ m - Len(u) = k BY <1>0, <1>2
    <2> HIDE DEF m
    <2>2. s[m] = b[k] BY <1>4, <2>1
    <2> QED BY <2>2 DEF m
  <1>7. /\ s \in Seq(S) /\ Len(s) = Len(a) + 1 + Len(b)
        /\ \A k \in 1 .. Len(a) : s[k] = a[k]
        /\ s[Len(a) + 1] = x
    BY <1>0, <1>2, <1>3, <1>4, <1>5
  <1> QED BY <1>0, <1>6, <1>7 DEF s, u

LEMMA ExceptIn3 ==
  ASSUME NEW S, NEW a \in Seq(S), NEW x \in S, NEW b \in Seq(S), NEW y \in S
  PROVE  [(a \o <<x>>) \o b EXCEPT ![Len(a) + 1] = y] = (a \o <<y>>) \o b
  <1> DEFINE s == (a \o <<x>>) \o b
             t == (a \o <<y>>) \o b
             e == [s EXCEPT ![Len(a) + 1] = y]
  <1>1. /\ s \in Seq(S) /\ Len(a) \in Nat /\ Len(b) \in Nat /\ Len(s) = Len(a) + 1 + Len(b)
        /\ \A k \in 1 .. Len(a) : s[k] = a[k]
        /\ \A k \in 1 .. Len(b) : s[Len(a) + 1 + k] = b[k]
    BY Joined3
  <1>2. /\ t \in Seq(S) /\ Len(t) = Len(a) + 1 + Len(b)
        /\ \A k \in 1 .. Len(a) : t[k] = a[k]
        /\ t[Len(a) + 1] = y
        /\ \A k \in 1 .. Len(b) : t[Len(a) + 1 + k] = b[k]
    BY Joined3
  <1> HIDE DEF s, t
  <1>3. /\ e \in Seq(S) /\ Len(e) = Len(s)
        /\ \A k \in 1 .. Len(s) : e[k] = IF k = Len(a) + 1 THEN y ELSE s[k]
    <2>1. Len(a) + 1 \in 1 .. Len(s) BY <1>1
    <2> QED BY <1>1, <2>1, ExceptSeq
  <1> HIDE DEF e
  <1>4. ASSUME NEW k \in 1 .. Len(s) PROVE e[k] = t[k]
    <2>1. CASE k <= Len(a)
      <3>1. k \in 1 .. Len(a) BY <1>1, <2>1
      <3> QED BY <1>1, <1>2, <1>3, <2>1, <3>1
    <2>2. CASE k = Len(a) + 1
      BY <1>2, <1>3, <2>2
    <2>3. CASE k > Len(a) + 1
      <3> DEFINE m == k - (Len(a) + 1)
      <3>1. m \in 1 .. Len(b) /\ Len(a) + 1 + m = k BY <1>1, <2>3
      <3> HIDE DEF m
      <3>2. s[k] = b[m] /\ t[k] = b[m] BY <1>1, <1>2, <3>1
      <3> QED BY <1>1, <1>3, <2>3, <3>2
    <2> QED BY <1>1, <2>1, <2>2, <2>3
  <1>5. e = t
    BY <1>1, <1>2, <1>3, <1>4, SeqEqual
  <1> QED BY <1>5 DEF e, s, t

LEMMA SubSeqsOfJoined ==
  ASSUME NEW S, NEW a \in Seq(S), NEW b \in Seq(S)
  PROVE  /\ SubSeq(a \o b, 1, Len(a)) = a
         /\ SubSeq(a \o b, Len(a) + 1, Len(a \o b)) = b
  <1> DEFINE s == a \o b
             h == SubSeq(s, 1, Len(a))
             t == SubSeq(s, Len(a) + 1, Len(s))
  <1>1. /\ s \in Seq(S) /\ Len(a) \in Nat /\ Len(b) \in Nat /\ Len(s) = Len(a) + Len(b)
        /\ \A k \in 1 .. Len(a) + Len(b) : s[k] = IF k <= Len(a) THEN a[k] ELSE b[k - Len(a)]
        /\ \A k \in 1 .. Len(s) : s[k] \in S
    BY ConcatProperties, LenProperties, ElementOfSeq
  <1> HIDE DEF s
  <1>2. /\ h \in Seq(S) /\ Len(h) = Len(a) /\ \A k \in 1 .. Len(a) : h[k] = s[k]
    <2>1. \A k \in 1 .. Len(a) : s[k] \in S BY <1>1
    <2>2. /\ h \in Seq(S) /\ Len(h) = (IF 1 <= Len(a) THEN Len(a) - 1 + 1 ELSE 0)
          /\ \A k \in 1 .. Len(a) - 1 + 1 : h[k] = s[1 + k - 1]
      BY <1>1, <2>1, SubSeqProperties
    <2> HIDE DEF h
    <2> QED BY <1>1, <2>2
  <1>3. /\ t \in Seq(S) /\ Len(t) = Len(b) /\ \A k \in 1 .. Len(b) : t[k] = s[Len(a) + k]
    <2>1. \A k \in Len(a) + 1 .. Len(s) : s[k] \in S BY <1>1
    <2>2. /\ t \in Seq(S) /\ Len(t) = (IF Len(a) + 1 <= Len(s) THEN Len(s) - (Len(a) + 1) + 1 ELSE 0)
          /\ \A k \in 1 .. Len(s) - (Len(a) + 1) + 1 : t[k] = s[Len(a) + 1 + k - 1]
      BY <1>1, <2>1, SubSeqProperties
    <2> HIDE DEF t
    <2>3. Len(t) = Len(b) BY <1>1, <2>2
    <2>4. ASSUME NEW k \in 1 .. Len(b) PROVE t[k] = s[Len(a) + k]
      <3>1. k \in 1 .. Len(s) - (Len(a) + 1) + 1 /\ Len(a) + 1 + k - 1 = Len(a) + k BY <1>1
      <3> QED BY <2>2, <3>1
    <2> QED BY <2>2, <2>3, <2>4
  <1> HIDE DEF h, t
  <1>4. \A k \in 1 .. Len(a) : h[k] = a[k]
    BY <1>1, <1>2
  <1>5. \A k \in 1 .. Len(b) : t[k] = b[k]
    BY <1>1, <1>3
  <1>6. h = a /\ t = b
    BY <1>2, <1>3, <1>4, <1>5, SeqEqual
  <1> QED BY <1>6 DEF h, t, s

\* A sequence with one or two elements between two others, under names that
\* the lemmas can be matched by.
Put(a, x, b) == (a \o <<x>>) \o b
Put2(a, x, y, b) == ((a \o <<x>>) \o <<y>>) \o b
With(s, n, z) == [s EXCEPT ![n] = z]

LEMMA PutWith ==
  ASSUME NEW S, NEW a \in Seq(S), NEW x \in S, NEW b \in Seq(S), NEW z \in S, NEW n, n = Len(a) + 1
  PROVE  Put(a, x, b) \in Seq(S) /\ Put(a, x, b)[n] = x /\ With(Put(a, x, b), n, z) = Put(a, z, b)
  BY ExceptIn3, Joined3 DEF Put, With

LEMMA OneMore ==
  ASSUME NEW S, NEW a \in Seq(S), NEW x \in S
  PROVE  a \o <<x>> \in Seq(S) /\ Len(a \o <<x>>) = Len(a) + 1 /\ Len(a) \in Nat
  BY OneIsSeq, ConcatProperties, LenProperties

LEMMA PutInsert ==
  ASSUME NEW S, NEW a \in Seq(S), NEW x \in S, NEW b \in Seq(S), NEW y \in S, NEW n, n = Len(a) + 2
  PROVE  InsertAt(Put(a, x, b), n, y) = Put2(a, x, y, b)
  <1> DEFINE u == a \o <<x>>
  <1>1. u \in Seq(S) /\ Len(u) = Len(a) + 1 /\ Len(a) \in Nat
    BY OneMore
  <1> HIDE DEF u
  <1>2. SubSeq(u \o b, 1, Len(u)) = u /\ SubSeq(u \o b, Len(u) + 1, Len(u \o b)) = b
    BY <1>1, SubSeqsOfJoined
  <1>3. n - 1 = Len(u) /\ n = Len(u) + 1
    BY <1>1
  <1>4. SubSeq(u \o b, 1, n - 1) = u /\ SubSeq(u \o b, n, Len(u \o b)) = b
    BY <1>2, <1>3
  <1>5. InsertAt(u \o b, n, y) = (u \o <<y>>) \o b
    BY <1>4 DEF InsertAt
  <1> QED BY <1>5 DEF u, Put, Put2

LEMMA Put2Remove ==
  ASSUME NEW S, NEW a \in Seq(S), NEW x \in S, NEW y \in S, NEW b \in Seq(S), NEW n, n = Len(a) + 2
  PROVE  RemoveAt(Put2(a, x, y, b), n) = Put(a, x, b)
  <1> DEFINE u == a \o <<x>>
             v == u \o <<y>>
  <1>1. u \in Seq(S) /\ Len(u) = Len(a) + 1 /\ Len(a) \in Nat
    BY OneMore
  <1> HIDE DEF u
  <1>2. v \in Seq(S) /\ Len(v) = Len(u) + 1 /\ <<y>> \in Seq(S)
    BY <1>1, OneMore, OneIsSeq
  <1>3. v \o b = u \o (<<y>> \o b) /\ <<y>> \o b \in Seq(S)
    BY <1>1, <1>2, ConcatAssociative, ConcatProperties
  <1>4. SubSeq(v \o b, Len(v) + 1, Len(v \o b)) = b
    <2> HIDE DEF v
    <2> QED BY <1>2, SubSeqsOfJoined
  <1>5. SubSeq(v \o b, 1, Len(u)) = u
    BY <1>1, <1>3, SubSeqsOfJoined
  <1> HIDE DEF v
  <1>6. n - 1 = Len(u) /\ n + 1 = Len(v) + 1
    BY <1>1, <1>2
  <1>7. SubSeq(v \o b, 1, n - 1) = u /\ SubSeq(v \o b, n + 1, Len(v \o b)) = b
    BY <1>4, <1>5, <1>6
  <1>8. RemoveAt(v \o b, n) = u \o b
    BY <1>7 DEF RemoveAt
  <1> QED BY <1>8 DEF u, v, Put, Put2

LEMMA Put2At ==
  ASSUME NEW S, NEW a \in Seq(S), NEW x \in S, NEW y \in S, NEW b \in Seq(S)
  PROVE  /\ \A w \in S : Put2(a, w, y, b) = Put(a, w, <<y>> \o b)
         /\ \A w : Put2(a, x, w, b) = Put(a \o <<x>>, w, b)
         /\ <<y>> \o b \in Seq(S)
  <1>1. <<y>> \in Seq(S) /\ <<y>> \o b \in Seq(S)
    BY OneIsSeq, ConcatProperties
  <1>2. \A w \in S : Put2(a, w, y, b) = Put(a, w, <<y>> \o b)
    <2> TAKE w \in S
    <2>1. a \o <<w>> \in Seq(S) BY OneMore
    <2> QED BY <1>1, <2>1, ConcatAssociative DEF Put, Put2
  <1> QED BY <1>1, <1>2 DEF Put, Put2

LEMMA Put2First ==
  ASSUME NEW S, NEW a \in Seq(S), NEW x \in S, NEW y \in S, NEW b \in Seq(S), NEW n, n = Len(a) + 1
  PROVE  /\ Put2(a, x, y, b)[n] = x
         /\ \A z \in S : With(Put2(a, x, y, b), n, z) = Put2(a, z, y, b)
  <1> DEFINE c == <<y>> \o b
  <1>1. c \in Seq(S) /\ \A w \in S : Put2(a, w, y, b) = Put(a, w, c)
    BY Put2At
  <1> HIDE DEF c
  <1> QED BY <1>1, PutWith

LEMMA Put2Second ==
  ASSUME NEW S, NEW a \in Seq(S), NEW x \in S, NEW y \in S, NEW b \in Seq(S), NEW n, n = Len(a) + 2
  PROVE  /\ Put2(a, x, y, b)[n] = y
         /\ \A z \in S : With(Put2(a, x, y, b), n, z) = Put2(a, x, z, b)
  <1> DEFINE u == a \o <<x>>
  <1>1. \A w : Put2(a, x, w, b) = Put(u, w, b)
    BY DEF Put, Put2
  <1>2. u \in Seq(S) /\ n = Len(u) + 1
    BY OneMore
  <1> HIDE DEF u
  <1> QED BY <1>1, <1>2, PutWith
=============================================================================
