-------------------------- MODULE TsiReadingsProofs --------------------------
(***************************************************************************)
(* Proofs about the two modules that dump a TsiDB by the walk of           *)
(* TsiReadings: UserLexicon, for every set of texts, every primary TsiDB,  *)
(* every word the user adds and every MAX_REFCNT, with Puts that fail and  *)
(* processes that end at any step; and TsiTools, for every word list and   *)
(* any number of changes.                                                  *)
(*                                                                         *)
(* The walk visits every word because the places of the keys are a         *)
(* bijection onto 1, 2, ..; that it hands over every reading is said by    *)
(* FlattenHolds, how often by FlattenTimes.  The invariant of UserLexicon  *)
(* relates the two databases through what the dump at work has still to    *)
(* list (Covered), so that no dump has to be followed from its start to    *)
(* its end; that what is learned is new needs a second one (Following):    *)
(* the run at work stands in its text, where SegmentationProofs says it is *)
(* no word.  TsiTools lists and reads back in one step each, which are     *)
(* folds; their turns one after the other are Turns.                       *)
(***************************************************************************)
EXTENDS UserLexicon, TsiTools, FiniteSetTheorems, SequenceTheorems, TLAPS

-----------------------------------------------------------------------------
(* Numbers *)

\* Every nonempty set of natural numbers has a least element.
LEMMA LeastNumber ==
    ASSUME NEW T \in SUBSET Nat, T # {}
    PROVE  \E n \in T : \A m \in T : n <= m
<1>1. IsWellFoundedOn(OpToRel(<, Nat), Nat)
  BY NatLessThanWellFounded
<1>2. PICK n \in T : \A m \in T : <<m, n>> \notin OpToRel(<, Nat)
  BY <1>1, WFMin
<1>3. \A m \in T : ~ (m < n)
  BY <1>2 DEF OpToRel
<1>4. QED
  BY <1>3

\* A set of numbers that is closed under going on by one is all of them.
LEMMA Induction ==
    ASSUME NEW T \in SUBSET Nat, 0 \in T, \A n \in T : n + 1 \in T
    PROVE  T = Nat
<1>1. SUFFICES ASSUME Nat \ T # {} PROVE FALSE
  OBVIOUS
<1>2. PICK n \in Nat \ T : \A m \in Nat \ T : n <= m
  <2>1. (Nat \ T) \in SUBSET Nat
    OBVIOUS
  <2>2. QED
    BY <1>1, <2>1, LeastNumber
<1>3. n # 0 /\ n - 1 \in Nat /\ ~ (n <= n - 1)
  BY <1>2
<1>4. n - 1 \in T
  BY <1>2, <1>3
<1>5. (n - 1) + 1 = n
  BY <1>2
<1>6. QED
  BY <1>2, <1>4, <1>5
-----------------------------------------------------------------------------
(* Sequences in a row *)

\* g holds the first 1, 2, .. n of ss one behind the other.
Rows(S, ss, n, g) ==
    /\ g \in [1 .. n -> Seq(S)]
    /\ \A i \in 1 .. n : g[i] = IF i = 1 THEN ss[i] ELSE g[i - 1] \o ss[i]

\* One more row.
LEMMA RowMore ==
    ASSUME NEW S, NEW ss \in Seq(Seq(S)), NEW n \in Nat, n < Len(ss), NEW g, Rows(S, ss, n, g)
    PROVE  \E h : Rows(S, ss, n + 1, h)
<1> DEFINE top == IF n = 0 THEN ss[1] ELSE g[n] \o ss[n + 1]
           h == [i \in 1 .. n + 1 |-> IF i = n + 1 THEN top ELSE g[i]]
<1>1. ss[1] \in Seq(S) /\ ss[n + 1] \in Seq(S)
  OBVIOUS
<1>2. top \in Seq(S)
  <2>1. CASE n = 0
    BY <1>1, <2>1
  <2>2. CASE n # 0
    <3>1. g[n] \in Seq(S)
      BY <2>2 DEF Rows
    <3>2. g[n] \o ss[n + 1] \in Seq(S)
      BY <1>1, <3>1, ConcatProperties
    <3>3. QED
      BY <2>2, <3>2
  <2>3. QED
    BY <2>1, <2>2
<1>3. top = IF n = 0 THEN ss[1] ELSE g[n] \o ss[n + 1]
  OBVIOUS
<1> HIDE DEF top
<1>4. h \in [1 .. n + 1 -> Seq(S)]
  BY <1>2 DEF Rows
<1>5. ASSUME NEW i \in 1 .. n + 1
      PROVE  h[i] = IF i = 1 THEN ss[i] ELSE h[i - 1] \o ss[i]
  <2>1. CASE i = n + 1
    <3>1. h[i] = top
      BY <2>1
    <3>2. CASE n = 0
      BY <1>3, <2>1, <3>1, <3>2
    <3>3. CASE n # 0
      <4>1. n \in 1 .. n + 1 /\ n # n + 1 /\ i - 1 = n /\ i # 1
        BY <2>1, <3>3
      <4>2. h[i - 1] = g[n]
        BY <4>1
      <4>3. QED
        BY <1>3, <2>1, <3>1, <3>3, <4>1, <4>2
    <3>4. QED
      BY <3>2, <3>3
  <2>2. CASE i # n + 1
    <3>1. i \in 1 .. n /\ h[i] = g[i]
      BY <2>2
    <3>2. CASE i = 1
      BY <3>1, <3>2 DEF Rows
    <3>3. CASE i # 1
      <4>1. i - 1 \in 1 .. n + 1 /\ i - 1 # n + 1
        BY <3>1, <3>3
      <4>2. h[i - 1] = g[i - 1]
        BY <4>1
      <4>3. g[i] = g[i - 1] \o ss[i]
        BY <3>1, <3>3 DEF Rows
      <4>4. QED
        BY <3>1, <3>3, <4>2, <4>3
    <3>4. QED
      BY <3>2, <3>3
  <2>3. QED
    BY <2>1, <2>2
<1> HIDE DEF h
<1>6. Rows(S, ss, n + 1, h)
  BY <1>4, <1>5 DEF Rows
<1>7. QED
  BY <1>6

\* There are as many rows as there are sequences.
LEMMA RowsThere ==
    ASSUME NEW S, NEW ss \in Seq(Seq(S)), NEW n \in Nat, n <= Len(ss)
    PROVE  \E g : Rows(S, ss, n, g)
<1> DEFINE T == {m \in Nat : m <= Len(ss) => \E g : Rows(S, ss, m, g)}
<1>1. 0 \in T
  <2>1. Rows(S, ss, 0, [i \in 1 .. 0 |-> <<>>])
    BY DEF Rows
  <2>2. QED
    BY <2>1
<1>2. ASSUME NEW m \in T PROVE m + 1 \in T
  <2>1. SUFFICES ASSUME m + 1 <= Len(ss) PROVE \E h : Rows(S, ss, m + 1, h)
    OBVIOUS
  <2>2. m \in Nat /\ Len(ss) \in Nat
    OBVIOUS
  <2>3. m < Len(ss) /\ m <= Len(ss)
    BY <2>1, <2>2
  <2>4. PICK g : Rows(S, ss, m, g)
    BY <2>3
  <2>5. QED
    BY <2>2, <2>3, <2>4, RowMore
<1>3. T = Nat
  <2>1. T \in SUBSET Nat
    OBVIOUS
  <2> HIDE DEF T
  <2>2. QED
    BY <1>1, <1>2, <2>1, Induction
<1>4. QED
  BY <1>3

\* FlattenSeq is the last of the rows.
LEMMA FlattenIsLastRow ==
    ASSUME NEW S, NEW ss \in Seq(Seq(S)), Len(ss) > 0, NEW g, Rows(S, ss, Len(ss), g)
    PROVE  FlattenSeq(ss) = g[Len(ss)]
<1> DEFINE n == Len(ss)
           F(f) == [i \in 1 .. n |-> IF i = 1 THEN ss[i] ELSE f[i - 1] \o ss[i]]
           f == CHOOSE h : h = F(h)
<1>1. n \in Nat /\ n # 0
  OBVIOUS
<1>2. FlattenSeq(ss) = f[n]
  BY <1>1, Zenon DEF FlattenSeq
<1>3. g = F(g)
  <2>1. \A i \in 1 .. n : g[i] = F(g)[i]
    BY DEF Rows
  <2>2. g \in [1 .. n -> Seq(S)]
    BY DEF Rows
  <2> HIDE DEF n
  <2>3. QED
    BY <2>1, <2>2
<1>4. f = F(f)
  BY <1>3
<1> HIDE DEF f
<1> DEFINE T == {m \in Nat : m \in 1 .. n => f[m] = g[m]}
<1>5. 0 \in T
  OBVIOUS
<1>6. ASSUME NEW m \in T PROVE m + 1 \in T
  <2>1. SUFFICES ASSUME m + 1 \in 1 .. n PROVE f[m + 1] = g[m + 1]
    OBVIOUS
  <2>2. m \in Nat
    OBVIOUS
  <2>3. f[m + 1] = IF m + 1 = 1 THEN ss[m + 1] ELSE f[m] \o ss[m + 1]
    <3>1. f[m + 1] = F(f)[m + 1]
      BY <1>4
    <3>2. (m + 1) - 1 = m
      BY <2>2
    <3> HIDE DEF n
    <3>3. QED
      BY <2>1, <3>1, <3>2
  <2>4. g[m + 1] = IF m + 1 = 1 THEN ss[m + 1] ELSE g[m] \o ss[m + 1]
    <3>1. g[m + 1] = F(g)[m + 1]
      BY <1>3
    <3>2. (m + 1) - 1 = m
      BY <2>2
    <3> HIDE DEF n
    <3>3. QED
      BY <2>1, <3>1, <3>2
  <2>5. m = 0 \/ f[m] = g[m]
    BY <2>1, <2>2
  <2>6. QED
    BY <2>2, <2>3, <2>4, <2>5
<1>7. T = Nat
  <2>1. T \in SUBSET Nat
    OBVIOUS
  <2> HIDE DEF T
  <2>2. QED
    BY <1>5, <1>6, <2>1, Induction
<1>8. QED
  BY <1>1, <1>2, <1>7

\* A row is a sequence, the one before it and one more.
LEMMA RowIs ==
    ASSUME NEW S, NEW ss, NEW n \in Nat, NEW g, Rows(S, ss, n, g), NEW m \in 1 .. n
    PROVE  g[m] \in Seq(S) /\ g[m] = IF m = 1 THEN ss[m] ELSE g[m - 1] \o ss[m]
BY DEF Rows

\* What a row of sequences holds: the elements of each of them and no others, and as many
\* elements as there are sequences when each has one.
LEMMA FlattenHolds ==
    ASSUME NEW S, NEW ss \in Seq(Seq(S))
    PROVE  /\ FlattenSeq(ss) \in Seq(S)
           /\ \A i \in 1 .. Len(FlattenSeq(ss)) :
                \E k \in 1 .. Len(ss) : \E j \in 1 .. Len(ss[k]) : FlattenSeq(ss)[i] = ss[k][j]
           /\ \A k \in 1 .. Len(ss) : \A j \in 1 .. Len(ss[k]) :
                \E i \in 1 .. Len(FlattenSeq(ss)) : FlattenSeq(ss)[i] = ss[k][j]
           /\ (\A k \in 1 .. Len(ss) : Len(ss[k]) = 1) => Len(FlattenSeq(ss)) = Len(ss)
<1> DEFINE From(row, m) == \A i \in 1 .. Len(row) :
                             \E k \in 1 .. m : \E j \in 1 .. Len(ss[k]) : row[i] = ss[k][j]
           All(row, m)  == \A k \in 1 .. m : \A j \in 1 .. Len(ss[k]) :
                             \E i \in 1 .. Len(row) : row[i] = ss[k][j]
           Ones(row, m) == (\A k \in 1 .. Len(ss) : Len(ss[k]) = 1) => Len(row) = m
           Good(row, m) == From(row, m) /\ All(row, m) /\ Ones(row, m)
<1> HIDE DEF From, All, Ones, Good
<1>1. CASE Len(ss) = 0
  <2>1. ss = <<>> /\ FlattenSeq(ss) = <<>>
    BY <1>1, EmptySeq DEF FlattenSeq
  <2>2. <<>> \in Seq(S) /\ Len(<<>>) = 0 /\ 1 .. 0 = {}
    OBVIOUS
  <2>3. QED
    BY <1>1, <2>1, <2>2
<1>2. CASE Len(ss) # 0
  <2> DEFINE n == Len(ss)
  <2>1. n \in Nat /\ n > 0 /\ n <= Len(ss) /\ n = Len(ss)
    BY <1>2
  <2>2. PICK g : Rows(S, ss, n, g)
    BY <2>1, RowsThere
  <2>3. FlattenSeq(ss) = g[n]
    BY <2>1, <2>2, FlattenIsLastRow
  <2>4. \A p \in 1 .. n : g[p] = IF p = 1 THEN ss[p] ELSE g[p - 1] \o ss[p]
    BY <2>2 DEF Rows
  <2>5. g[n] \in Seq(S)
    BY <2>1, <2>2, RowIs
  <2> HIDE DEF n
  <2> DEFINE T == {m \in Nat : m \in 1 .. n => Good(g[m], m)}
  <2>6. 0 \in T
    OBVIOUS
  <2>7. ASSUME NEW m \in T PROVE m + 1 \in T
    <3>1. SUFFICES ASSUME m + 1 \in 1 .. n PROVE Good(g[m + 1], m + 1)
      OBVIOUS
    <3>2. m \in Nat /\ m + 1 \in 1 .. Len(ss) /\ ss[m + 1] \in Seq(S) /\ Len(ss[m + 1]) \in Nat
      BY <2>1, <3>1
    <3>3. CASE m = 0
      <4>1. g[m + 1] = ss[m + 1] /\ m + 1 = 1
        BY <2>1, <2>2, <3>1, <3>2, <3>3, RowIs
      <4> DEFINE b == ss[m + 1]
      <4>2. b = ss[1] /\ b \in Seq(S) /\ Len(b) \in Nat /\ 1 \in 1 .. 1 /\ 1 \in 1 .. Len(ss)
        BY <2>1, <3>2, <4>1
      <4> HIDE DEF b
      <4>3. From(b, 1)
        BY <4>2 DEF From
      <4>4. All(b, 1)
        BY <4>2 DEF All
      <4>5. Ones(b, 1)
        BY <4>2 DEF Ones
      <4>6. g[m + 1] = b
        BY <4>1 DEF b
      <4>7. QED
        BY <4>1, <4>3, <4>4, <4>5, <4>6 DEF Good
    <3>4. CASE m # 0
      <4> DEFINE a == g[m]
                 b == ss[m + 1]
      <4>1. g[m + 1] = a \o b
        <5>1. (m + 1) - 1 = m /\ m + 1 # 1
          BY <3>2, <3>4
        <5>2. QED
          <6>1. PICK p \in 1 .. n : p = m + 1
            BY <3>1
          <6>2. p # 1 /\ p - 1 = m
            BY <5>1, <6>1
          <6>3. g[p] = g[p - 1] \o ss[p]
            <7>1. g[p] = IF p = 1 THEN ss[p] ELSE g[p - 1] \o ss[p]
              BY <2>4
            <7>2. QED
              BY <6>2, <7>1, Zenon
          <6>4. QED
            BY <6>1, <6>2, <6>3
      <4>2. m \in 1 .. n /\ a \in Seq(S) /\ b \in Seq(S)
        <5>1. m \in 1 .. n
          BY <2>1, <3>1, <3>2, <3>4
        <5>2. QED
          BY <2>1, <2>2, <3>2, <5>1, RowIs
      <4>3. From(a, m) /\ All(a, m) /\ Ones(a, m)
        BY <4>2 DEF Good
      <4> HIDE DEF a, b
      <4>4. /\ Len(a) \in Nat /\ Len(b) \in Nat /\ Len(a \o b) = Len(a) + Len(b)
            /\ \A i \in 1 .. Len(a) : (a \o b)[i] = a[i]
            /\ \A i \in 1 .. Len(b) : (a \o b)[Len(a) + i] = b[i]
            /\ \A i \in 1 .. Len(a \o b) :
                 i \in 1 .. Len(a) \/ (i - Len(a) \in 1 .. Len(b) /\ (a \o b)[i] = b[i - Len(a)])
        BY <4>2
      <4>5. From(a \o b, m + 1)
        <5>1. SUFFICES ASSUME NEW i \in 1 .. Len(a \o b)
                       PROVE  \E k \in 1 .. m + 1 : \E j \in 1 .. Len(ss[k]) : (a \o b)[i] = ss[k][j]
          BY DEF From
        <5>2. CASE i \in 1 .. Len(a)
          <6>1. PICK k \in 1 .. m : \E j \in 1 .. Len(ss[k]) : a[i] = ss[k][j]
            BY <4>3, <5>2 DEF From
          <6>2. k \in 1 .. m + 1
            BY <3>2
          <6>3. QED
            BY <4>4, <5>2, <6>1, <6>2
        <5>3. CASE i - Len(a) \in 1 .. Len(b) /\ (a \o b)[i] = b[i - Len(a)]
          <6>1. m + 1 \in 1 .. m + 1
            BY <3>2
          <6>2. QED
            BY <5>3, <6>1 DEF b
        <5>4. QED
          BY <4>4, <5>2, <5>3
      <4>6. All(a \o b, m + 1)
        <5>1. SUFFICES ASSUME NEW k \in 1 .. m + 1, NEW j \in 1 .. Len(ss[k])
                       PROVE  \E i \in 1 .. Len(a \o b) : (a \o b)[i] = ss[k][j]
          BY DEF All
        <5>2. CASE k \in 1 .. m
          <6>1. PICK i \in 1 .. Len(a) : a[i] = ss[k][j]
            BY <4>3, <5>2 DEF All
          <6>2. i \in 1 .. Len(a \o b)
            BY <4>4
          <6>3. QED
            BY <4>4, <6>1, <6>2
        <5>3. CASE k = m + 1
          <6>1. j \in 1 .. Len(b) /\ b[j] = ss[k][j]
            BY <5>3 DEF b
          <6>2. Len(a) + j \in 1 .. Len(a \o b) /\ (a \o b)[Len(a) + j] = b[j]
            BY <4>4, <6>1
          <6>3. QED
            BY <6>1, <6>2
        <5>4. k \in 1 .. m \/ k = m + 1
          <6> HIDE DEF T
          <6>1. QED
            BY <3>2, <5>1
        <5>5. QED
          BY <5>2, <5>3, <5>4
      <4>7. Ones(a \o b, m + 1)
        <5>1. SUFFICES ASSUME \A k \in 1 .. Len(ss) : Len(ss[k]) = 1
                       PROVE  Len(a \o b) = m + 1
          BY DEF Ones
        <5>2. Len(a) = m
          BY <4>3, <5>1 DEF Ones
        <5>3. Len(b) = 1
          BY <3>2, <5>1 DEF b
        <5>4. QED
          BY <3>2, <4>4, <5>2, <5>3
      <4>8. QED
        BY <4>1, <4>5, <4>6, <4>7 DEF Good
    <3>5. QED
      BY <3>3, <3>4
  <2>8. T = Nat
    <3>1. T \in SUBSET Nat
      OBVIOUS
    <3> HIDE DEF T
    <3>2. QED
      BY <2>6, <2>7, <3>1, Induction
  <2>9. Good(g[n], n)
    BY <2>1, <2>8
  <2>10. QED
    <3>1. From(g[n], n) /\ All(g[n], n) /\ Ones(g[n], n)
      BY <2>9 DEF Good
    <3>2. PICK row : row = g[n]
      OBVIOUS
    <3>3. FlattenSeq(ss) = row /\ row \in Seq(S) /\ n = Len(ss)
      BY <2>1, <2>3, <2>5, <3>2
    <3>4. From(row, Len(ss)) /\ All(row, Len(ss)) /\ Ones(row, Len(ss))
      BY <3>1, <3>2, <3>3, Zenon
    <3>5. QED
      BY <3>3, <3>4, Zenon DEF From, All, Ones
<1>3. QED
  BY <1>1, <1>2

-----------------------------------------------------------------------------
(* The order of the keys *)

\* What SubSeq returns.
LEMMA PartIs ==
    ASSUME NEW S, NEW s \in Seq(S), NEW a \in Nat, NEW b \in Nat, 1 <= a, a <= b + 1, b <= Len(s)
    PROVE  /\ SubSeq(s, a, b) \in Seq(S) /\ Len(SubSeq(s, a, b)) = b - a + 1
           /\ \A i \in 1 .. b - a + 1 : SubSeq(s, a, b)[i] = s[a + i - 1]
OBVIOUS

\* Key j comes before key k by what they have at place n, the first where they differ.
FirstAt(j, k, n) ==
    /\ n \in 1 .. Len(k) /\ n <= Len(j) + 1
    /\ \A m \in 1 .. n - 1 : j[m] = k[m]
    /\ n <= Len(j) => j[n] < k[n]

\* That is what it means to come before.
LEMMA BeforeIs ==
    ASSUME NEW j \in Seq(Nat), NEW k \in Seq(Nat)
    PROVE  Before(j, k) <=> \E n \in Nat : FirstAt(j, k, n)
<1>1. Len(j) \in Nat /\ Len(k) \in Nat
  OBVIOUS
<1>2. ASSUME NEW n \in Nat, n <= Len(j) + 1, n <= Len(k), n > 0
      PROVE  SubSeq(k, 1, n - 1) = SubSeq(j, 1, n - 1) <=> \A m \in 1 .. n - 1 : j[m] = k[m]
  <2>1. n - 1 \in Nat /\ n - 1 <= Len(j) /\ n - 1 <= Len(k)
    BY <1>1, <1>2
  <2>2. /\ SubSeq(j, 1, n - 1) \in Seq(Nat) /\ Len(SubSeq(j, 1, n - 1)) = n - 1
        /\ SubSeq(k, 1, n - 1) \in Seq(Nat) /\ Len(SubSeq(k, 1, n - 1)) = n - 1
        /\ \A m \in 1 .. n - 1 : SubSeq(j, 1, n - 1)[m] = j[m] /\ SubSeq(k, 1, n - 1)[m] = k[m]
    <3>1. PICK b \in Nat : b = n - 1
      BY <2>1
    <3>2. b - 1 + 1 = b /\ \A m \in 1 .. b : 1 + m - 1 = m
      OBVIOUS
    <3>3. /\ SubSeq(j, 1, b) \in Seq(Nat) /\ Len(SubSeq(j, 1, b)) = b
          /\ \A m \in 1 .. b : SubSeq(j, 1, b)[m] = j[m]
      BY <2>1, <3>1, <3>2, PartIs
    <3>4. /\ SubSeq(k, 1, b) \in Seq(Nat) /\ Len(SubSeq(k, 1, b)) = b
          /\ \A m \in 1 .. b : SubSeq(k, 1, b)[m] = k[m]
      BY <2>1, <3>1, <3>2, PartIs
    <3>5. QED
      BY <3>1, <3>3, <3>4
  <2>3. ASSUME \A m \in 1 .. n - 1 : j[m] = k[m]
        PROVE  SubSeq(k, 1, n - 1) = SubSeq(j, 1, n - 1)
    <3>1. \A m \in 1 .. n - 1 : SubSeq(k, 1, n - 1)[m] = SubSeq(j, 1, n - 1)[m]
      BY <2>2, <2>3
    <3>2. QED
      BY <2>2, <3>1, SeqEqual
  <2>4. QED
    BY <2>2, <2>3
<1>3. IsStrictPrefix(j, k) <=> FirstAt(j, k, Len(j) + 1)
  <2>1. SubSeq(j, 1, Len(j)) = j
    OBVIOUS
  <2>2. Len(j) <= Len(k) /\ ~ (Len(j) + 1 <= Len(k)) => Len(j) = Len(k) /\ SubSeq(k, 1, Len(j)) = k
    BY <1>1
  <2>3. CASE Len(j) + 1 <= Len(k)
    <3>1. (Len(j) + 1) - 1 = Len(j) /\ Len(j) + 1 \in Nat /\ Len(j) + 1 > 0
      BY <1>1
    <3>2. SubSeq(k, 1, Len(j)) = SubSeq(j, 1, Len(j)) <=> \A m \in 1 .. Len(j) : j[m] = k[m]
      BY <1>2, <2>3, <3>1
    <3>3. j # k
      BY <1>1, <2>3
    <3>4. QED
      BY <1>1, <2>1, <2>3, <3>1, <3>2, <3>3 DEF FirstAt, IsStrictPrefix, IsPrefix
  <2>4. CASE ~ (Len(j) + 1 <= Len(k))
    BY <1>1, <2>1, <2>2, <2>4 DEF FirstAt, IsStrictPrefix, IsPrefix
  <2>5. QED
    BY <2>3, <2>4
<1>4. ASSUME NEW n \in 1 .. Len(j)
      PROVE  n <= Len(k) /\ j[n] < k[n] /\ SubSeq(j, 1, n - 1) = SubSeq(k, 1, n - 1)
               <=> FirstAt(j, k, n)
  <2>1. CASE n <= Len(k)
    <3>1. n \in Nat /\ n <= Len(j) + 1 /\ n > 0 /\ n <= Len(j)
      BY <1>1
    <3>2. SubSeq(j, 1, n - 1) = SubSeq(k, 1, n - 1) <=> \A m \in 1 .. n - 1 : j[m] = k[m]
      BY <1>2, <2>1, <3>1
    <3>3. QED
      BY <2>1, <3>1, <3>2 DEF FirstAt
  <2>2. CASE ~ (n <= Len(k))
    BY <2>2 DEF FirstAt
  <2>3. QED
    BY <2>1, <2>2
<1>5. ASSUME NEW n \in Nat, FirstAt(j, k, n) PROVE n = Len(j) + 1 \/ n \in 1 .. Len(j)
  BY <1>1, <1>5 DEF FirstAt
<1>6. Len(j) + 1 \in Nat /\ \A n \in 1 .. Len(j) : n \in Nat
  BY <1>1
<1>7. ASSUME Before(j, k) PROVE \E n \in Nat : FirstAt(j, k, n)
  BY <1>3, <1>4, <1>6, <1>7 DEF Before
<1>8. ASSUME NEW n \in Nat, FirstAt(j, k, n) PROVE Before(j, k)
  <2>1. CASE n = Len(j) + 1
    BY <1>3, <1>8, <2>1 DEF Before
  <2>2. CASE n \in 1 .. Len(j)
    BY <1>4, <1>8, <2>2 DEF Before
  <2>3. QED
    BY <1>5, <1>8, <2>1, <2>2
<1>9. QED
  BY <1>7, <1>8

\* The order is a strict and total one.
LEMMA BeforeIrreflexive == ASSUME NEW j \in Seq(Nat) PROVE ~ Before(j, j)
<1>1. ASSUME NEW n \in Nat, FirstAt(j, j, n) PROVE FALSE
  <2>1. n \in 1 .. Len(j) /\ j[n] < j[n]
    BY <1>1 DEF FirstAt
  <2>2. j[n] \in Nat
    BY <2>1
  <2>3. QED
    BY <2>1, <2>2
<1>2. Before(j, j) <=> \E n \in Nat : FirstAt(j, j, n)
  BY BeforeIs
<1>3. QED
  BY <1>1, <1>2

LEMMA BeforeTransitive ==
    ASSUME NEW j \in Seq(Nat), NEW k \in Seq(Nat), NEW l \in Seq(Nat),
           Before(j, k), Before(k, l)
    PROVE  Before(j, l)
<1>1. PICK n \in Nat : FirstAt(j, k, n)
  BY BeforeIs
<1>2. PICK m \in Nat : FirstAt(k, l, m)
  BY BeforeIs
<1>3. Len(j) \in Nat /\ Len(k) \in Nat /\ Len(l) \in Nat
  OBVIOUS
<1>4. CASE n < m
  <2>1. n \in 1 .. Len(l) /\ n <= Len(j) + 1 /\ n \in 1 .. m - 1 /\ n <= Len(j) => j[n] < l[n]
    BY <1>1, <1>2, <1>3, <1>4 DEF FirstAt
  <2>2. \A p \in 1 .. n - 1 : j[p] = l[p]
    BY <1>1, <1>2, <1>3, <1>4 DEF FirstAt
  <2>3. FirstAt(j, l, n)
    BY <1>1, <1>2, <1>3, <1>4, <2>1, <2>2 DEF FirstAt
  <2>4. QED
    BY <2>3, BeforeIs
<1>5. CASE m < n
  <2>1. FirstAt(j, l, m)
    <3>1. m \in 1 .. Len(l) /\ m <= Len(j) /\ m \in 1 .. n - 1 /\ m <= Len(k)
      BY <1>1, <1>2, <1>3, <1>5 DEF FirstAt
    <3>2. \A p \in 1 .. m - 1 : j[p] = l[p]
      BY <1>1, <1>2, <1>3, <1>5 DEF FirstAt
    <3>3. j[m] = k[m] /\ k[m] < l[m]
      BY <1>1, <1>2, <3>1 DEF FirstAt
    <3>4. QED
      BY <1>3, <3>1, <3>2, <3>3 DEF FirstAt
  <2>2. QED
    BY <2>1, BeforeIs
<1>6. CASE m = n
  <2>1. FirstAt(j, l, n)
    <3>1. n \in 1 .. Len(l) /\ n <= Len(j) + 1 /\ n <= Len(k)
      BY <1>1, <1>2, <1>6 DEF FirstAt
    <3>2. \A p \in 1 .. n - 1 : j[p] = l[p]
      BY <1>1, <1>2, <1>3, <1>6 DEF FirstAt
    <3>3. n <= Len(j) => j[n] < l[n]
      <4>1. SUFFICES ASSUME n <= Len(j) PROVE j[n] < l[n]
        OBVIOUS
      <4>2. j[n] < k[n] /\ k[n] < l[n]
        BY <1>1, <1>2, <1>6, <3>1, <4>1 DEF FirstAt
      <4>3. j[n] \in Nat /\ k[n] \in Nat /\ l[n] \in Nat
        BY <1>3, <3>1, <4>1
      <4>4. QED
        BY <4>2, <4>3
    <3>4. QED
      BY <3>1, <3>2, <3>3 DEF FirstAt
  <2>2. QED
    BY <2>1, BeforeIs
<1>7. QED
  BY <1>4, <1>5, <1>6

LEMMA BeforeTotal ==
    ASSUME NEW j \in Seq(Nat), NEW k \in Seq(Nat), j # k
    PROVE  Before(j, k) \/ Before(k, j)
<1> DEFINE T == {n \in Nat \ {0} : n > Len(j) \/ n > Len(k) \/ j[n] # k[n]}
<1>1. Len(j) \in Nat /\ Len(k) \in Nat
  OBVIOUS
<1>2. Len(j) + 1 \in T
  BY <1>1
<1>3. PICK n \in T : \A m \in T : n <= m
  BY <1>2, LeastNumber
<1>4. n \in Nat /\ n > 0
  OBVIOUS
<1>5. \A m \in 1 .. n - 1 : m <= Len(j) /\ m <= Len(k) /\ j[m] = k[m]
  <2>1. SUFFICES ASSUME NEW m \in 1 .. n - 1 PROVE m \notin T
    BY <1>1
  <2>2. ~ (n <= m)
    BY <1>4
  <2>3. QED
    BY <1>3, <2>2
<1>6. n <= Len(j) + 1 /\ n <= Len(k) + 1
  <2>1. n = 1 \/ n - 1 \in 1 .. n - 1
    BY <1>4
  <2>2. QED
    BY <1>1, <1>4, <1>5, <2>1
<1>7. CASE n <= Len(j) /\ n <= Len(k)
  <2>1. j[n] # k[n] /\ j[n] \in Nat /\ k[n] \in Nat
    BY <1>1, <1>4, <1>7
  <2>2. FirstAt(j, k, n) \/ FirstAt(k, j, n)
    BY <1>1, <1>4, <1>5, <1>6, <1>7, <2>1 DEF FirstAt
  <2>3. QED
    BY <1>4, <2>2, BeforeIs
<1>8. CASE n > Len(j) /\ n <= Len(k)
  <2>1. FirstAt(j, k, n)
    BY <1>1, <1>4, <1>5, <1>6, <1>8 DEF FirstAt
  <2>2. QED
    BY <1>4, <2>1, BeforeIs
<1>9. CASE n <= Len(j) /\ n > Len(k)
  <2>1. FirstAt(k, j, n)
    BY <1>1, <1>4, <1>5, <1>6, <1>9 DEF FirstAt
  <2>2. QED
    BY <1>4, <2>1, BeforeIs
<1>10. CASE n > Len(j) /\ n > Len(k)
  <2>1. Len(j) = Len(k) /\ n = Len(j) + 1
    BY <1>1, <1>4, <1>6, <1>10
  <2>2. \A m \in 1 .. Len(j) : j[m] = k[m]
    BY <1>5, <2>1, <1>1
  <2>3. j = k
    BY <2>1, <2>2, SeqEqual
  <2>4. QED
    BY <2>3
<1>11. QED
  BY <1>1, <1>4, <1>7, <1>8, <1>9, <1>10

-----------------------------------------------------------------------------
(* The walk over a database *)

\* Of two keys one has fewer keys before it.
LEMMA PlacesDiffer ==
    ASSUME NEW db, DOMAIN db \in SUBSET Seq(Nat), IsFiniteSet(DOMAIN db),
           NEW k \in DOMAIN db, NEW l \in DOMAIN db, Before(k, l)
    PROVE  Place(db, k) < Place(db, l)
<1> DEFINE A == {j \in DOMAIN db : Before(j, k)}
           B == {j \in DOMAIN db : Before(j, l)}
<1>1. A \subseteq B
  <2>1. SUFFICES ASSUME NEW j \in DOMAIN db, Before(j, k) PROVE Before(j, l)
    OBVIOUS
  <2>2. j \in Seq(Nat) /\ k \in Seq(Nat) /\ l \in Seq(Nat)
    OBVIOUS
  <2>3. QED
    BY <2>1, <2>2, BeforeTransitive
<1>2. k \in B /\ k \notin A
  <2>1. ~ Before(k, k)
    BY BeforeIrreflexive
  <2>2. QED
    BY <2>1
<1>3. IsFiniteSet(B)
  BY FS_Subset
<1> HIDE DEF A, B
<1>4. IsFiniteSet(A) /\ Cardinality(A) \in Nat /\ Cardinality(B) \in Nat
      /\ Cardinality(A) <= Cardinality(B) /\ (Cardinality(A) = Cardinality(B) => A = B)
  BY <1>1, <1>3, FS_Subset, FS_CardinalityType
<1>5. Cardinality(A) < Cardinality(B)
  BY <1>2, <1>4
<1>6. QED
  BY <1>5 DEF Place, A, B

\* The walk visits every key, once, and nothing else.
LEMMA WalkVisits ==
    ASSUME NEW db, DOMAIN db \in SUBSET Seq(Nat), IsFiniteSet(DOMAIN db)
    PROVE  /\ Cardinality(DOMAIN db) \in Nat
           /\ \A n \in 1 .. Cardinality(DOMAIN db) : Walk(db)[n] \in DOMAIN db
           /\ \A k \in DOMAIN db : \E n \in 1 .. Cardinality(DOMAIN db) : Walk(db)[n] = k
           /\ \A m, n \in 1 .. Cardinality(DOMAIN db) : Walk(db)[m] = Walk(db)[n] => m = n
<1> DEFINE D == DOMAIN db
           N == Cardinality(D)
           f == [k \in D |-> Place(db, k) + 1]
<1>1. N \in Nat
  BY FS_CardinalityType
<1>2. ASSUME NEW k \in D PROVE Place(db, k) \in Nat /\ Place(db, k) < N
  <2> DEFINE A == {j \in D : Before(j, k)}
  <2>1. k \notin A
    BY BeforeIrreflexive
  <2>2. A \subseteq D
    OBVIOUS
  <2> HIDE DEF A
  <2>3. IsFiniteSet(A) /\ Cardinality(A) \in Nat /\ Cardinality(A) <= N
        /\ (Cardinality(A) = N => A = D)
    BY <2>2, FS_Subset, FS_CardinalityType
  <2>4. Cardinality(A) < N
    BY <1>1, <2>1, <2>3
  <2>5. QED
    BY <2>3, <2>4 DEF Place, A
<1>3. f \in [D -> 1 .. N]
  <2>1. ASSUME NEW k \in D PROVE Place(db, k) + 1 \in 1 .. N
    <3> HIDE DEF N
    <3>1. QED
      BY <1>1, <1>2
  <2>2. QED
    BY <2>1
<1>4. ASSUME NEW k \in D, NEW l \in D, Place(db, k) = Place(db, l) PROVE k = l
  <2>1. SUFFICES ASSUME k # l PROVE FALSE
    OBVIOUS
  <2>2. Before(k, l) \/ Before(l, k)
    BY <2>1, BeforeTotal
  <2>3. Place(db, k) < Place(db, l) \/ Place(db, l) < Place(db, k)
    BY <2>2, PlacesDiffer
  <2>4. QED
    BY <1>2, <1>4, <2>3
<1>5. \A m \in 1 .. N : \E k \in D : f[k] = m
  <2>1. \A k, l \in D : f[k] = f[l] => k = l
    <3>1. SUFFICES ASSUME NEW k \in D, NEW l \in D, f[k] = f[l] PROVE k = l
      OBVIOUS
    <3>2. Place(db, k) = Place(db, l)
      BY <1>2, <3>1
    <3>3. QED
      BY <1>4, <3>2
  <2>2. f \in Injection(D, 1 .. N)
    BY <1>3, <2>1 DEF Injection, IsInjective
  <2>3. IsFiniteSet(1 .. N) /\ Cardinality(1 .. N) = N
    BY <1>1, FS_Interval
  <2> HIDE DEF N, f
  <2>4. Cardinality(D) = Cardinality(1 .. N)
    BY <2>3 DEF N
  <2>5. f \in Surjection(D, 1 .. N)
    BY <2>2, <2>3, <2>4, FS_Injection
  <2>6. QED
    BY <2>5 DEF Surjection
<1>6. ASSUME NEW n \in 1 .. N
      PROVE  Walk(db)[n] \in D /\ Place(db, Walk(db)[n]) = n - 1
  <2>1. PICK k \in D : f[k] = n
    BY <1>5
  <2>2. Place(db, k) = n - 1
    BY <1>1, <1>2, <2>1
  <2>3. Walk(db)[n] = CHOOSE j \in D : Place(db, j) = n - 1
    BY DEF Walk
  <2>4. QED
    BY <2>2, <2>3
<1>7. ASSUME NEW k \in D PROVE \E n \in 1 .. N : Walk(db)[n] = k
  <2>1. Place(db, k) + 1 \in 1 .. N /\ (Place(db, k) + 1) - 1 = Place(db, k)
    <3> HIDE DEF N
    <3>1. QED
      BY <1>1, <1>2
  <2>2. Walk(db)[Place(db, k) + 1] \in D
        /\ Place(db, Walk(db)[Place(db, k) + 1]) = Place(db, k)
    BY <1>6, <2>1
  <2>3. Walk(db)[Place(db, k) + 1] = k
    BY <1>4, <2>2
  <2>4. QED
    BY <2>1, <2>3
<1>8. ASSUME NEW m \in 1 .. N, NEW n \in 1 .. N, Walk(db)[m] = Walk(db)[n] PROVE m = n
  <2>1. m - 1 = n - 1
    BY <1>6, <1>8
  <2> HIDE DEF N
  <2>2. QED
    BY <1>1, <2>1
<1>9. QED
  BY <1>1, <1>6, <1>7, <1>8

-----------------------------------------------------------------------------
(* The inductive invariant of UserLexicon *)

Word    == Seq(1 .. 255)
Reading == Seq(Nat)
Entry   == [tsi : Word, yin : Reading]

\* A record of the user's TsiDB: it was counted, and has readings, each of the word's length.
RecordOf(w, rec) ==
    /\ rec.refcount \in 1 .. MaxRefCnt
    /\ rec.yins \in Seq(Reading) /\ rec.yins # <<>>
    /\ \A i \in 1 .. Len(rec.yins) : Len(w) = 2 * Len(rec.yins[i])

\* The user's TsiDB.
Stored(db) ==
    /\ DOMAIN db \in SUBSET Word /\ IsFiniteSet(DOMAIN db)
    /\ \A w \in DOMAIN db : RecordOf(w, db[w])

\* A word that may be listed under a reading.
Sound(db, w, y) == Len(w) = 2 * Len(y) /\ (w \in DOMAIN db \/ w = <<>>)

\* The records of the user's TsiYinDB: words, none twice, that may be listed there.
Lists ==
    \A y \in DOMAIN yindb :
      /\ yindb[y] \in Seq(Word) /\ yindb[y] # <<>>
      /\ \A a, b \in 1 .. Len(yindb[y]) : yindb[y][a] = yindb[y][b] => a = b
      /\ \A i \in 1 .. Len(yindb[y]) : Sound(tsidb, yindb[y][i], y)

\* What a dump has still to list is sound too.
Walking ==
    /\ todo \in Seq(Entry)
    /\ \A i \in 1 .. Len(todo) : Sound(tsidb, todo[i].tsi, todo[i].yin)

\* Word w is listed under reading y; or will be, as the walk comes by.
Listed(ydb, w, y) == y \in DOMAIN ydb /\ \E i \in 1 .. Len(ydb[y]) : ydb[y][i] = w
InWalk(seq, w, y) == \E i \in 1 .. Len(seq) : seq[i].tsi = w /\ seq[i].yin = y

\* Unless a dump was cut short, what is not listed is still to be listed by the dump at work.
Covered ==
    ~missed =>
      \A w \in DOMAIN tsidb : \A i \in 1 .. Len(tsidb[w].yins) :
        Listed(yindb, w, tsidb[w].yins[i]) \/ InWalk(todo, w, tsidb[w].yins[i])

\* The run of single characters: the primary TsiDB has a reading for each.
Characters(s, n) ==
    Len(s) = 2 * n /\ \A k \in 1 .. n : HasYinData(Bytes(s, 2 * k - 2, 2 * k))

Guessing ==
    /\ buf # <<>> \/ words # <<>> => pc = "guess"
    /\ buf \in Word
    /\ \E n \in Nat : Characters(buf, n)

IInv ==
    /\ pc \in {"idle", "guess", "down"} /\ missed \in BOOLEAN
    /\ Stored(tsidb)
    /\ Lists
    /\ Walking
    /\ Covered
    /\ Guessing

-----------------------------------------------------------------------------
(* Records *)

\* A sequence over a set is one over a larger set.
LEMMA SeqOfMore ==
    ASSUME NEW S, NEW T, S \subseteq T, NEW s \in Seq(S)
    PROVE  s \in Seq(T)
<1>1. Len(s) \in Nat /\ s \in [1 .. Len(s) -> S]
  BY LenProperties
<1>2. s \in [1 .. Len(s) -> T]
  BY <1>1
<1>3. QED
  BY <1>1, <1>2

\* Words are sequences of numbers, as the keys of RecordStore are.
LEMMA WordOfNumbers == Word \subseteq Seq(Nat)
<1>1. 1 .. 255 \subseteq Nat
  OBVIOUS
<1>2. QED
  BY <1>1, SeqOfMore, Zenon DEF Word

\* A record put in is a record of the TsiDB.
LEMMA StoredPut ==
    ASSUME NEW db, Stored(db), NEW w \in Word, NEW rec, RecordOf(w, rec)
    PROVE  Stored(Put(Flags, db, w, rec))
<1> DEFINE new == Put(Flags, db, w, rec)
<1>1. /\ DOMAIN new = DOMAIN db \cup {w} /\ new[w] = rec
      /\ \A k \in DOMAIN db : k # w => new[k] = db[k]
  BY DEF Put, CanPut, Flags
<1> HIDE DEF new
<1>2. IsFiniteSet(DOMAIN db \cup {w}) /\ DOMAIN db \in SUBSET Word
  BY FS_AddElement DEF Stored
<1>3. ASSUME NEW k \in DOMAIN new PROVE RecordOf(k, new[k])
  <2>1. CASE k = w
    BY <1>1, <2>1
  <2>2. CASE k # w
    <3>1. k \in DOMAIN db /\ new[k] = db[k]
      BY <1>1, <2>2
    <3>2. QED
      BY <3>1 DEF Stored
  <2>3. QED
    BY <2>1, <2>2
<1>4. Stored(new)
  BY <1>1, <1>2, <1>3 DEF Stored
<1>5. QED
  BY <1>4 DEF new

\* The dump starts with every reading of every word, and with nothing that is not sound.
LEMMA EntriesAre ==
    ASSUME NEW db, Stored(db)
    PROVE  /\ Entries(db) \in Seq(Entry)
           /\ \A i \in 1 .. Len(Entries(db)) : Sound(db, Entries(db)[i].tsi, Entries(db)[i].yin)
           /\ \A w \in DOMAIN db : \A i \in 1 .. Len(db[w].yins) :
                InWalk(Entries(db), w, db[w].yins[i])
<1>1. CASE db = NoRecords
  <2>1. DOMAIN db = {}
    BY <1>1 DEF NoRecords
  <2>2. Entries(db) = << [tsi |-> <<>>, yin |-> <<>>] >>
    BY <1>1 DEF Entries
  <2>3. [tsi |-> <<>>, yin |-> <<>>] \in Entry
    BY DEF Entry, Word, Reading
  <2>4. /\ Entries(db) \in Seq(Entry) /\ Len(Entries(db)) = 1
        /\ Entries(db)[1].tsi = <<>> /\ Entries(db)[1].yin = <<>>
    BY <2>2, <2>3
  <2>5. Sound(db, <<>>, <<>>)
    BY DEF Sound
  <2>6. \A i \in 1 .. Len(Entries(db)) : Sound(db, Entries(db)[i].tsi, Entries(db)[i].yin)
    <3>1. \A i \in 1 .. 1 : i = 1
      OBVIOUS
    <3>2. QED
      BY <2>4, <2>5, <3>1
  <2>7. QED
    BY <2>1, <2>4, <2>6
<1>2. CASE db # NoRecords
  <2> DEFINE N == Cardinality(DOMAIN db)
             Row(w) == [j \in 1 .. Len(db[w].yins) |-> [tsi |-> w, yin |-> db[w].yins[j]]]
             ss == [k \in 1 .. N |-> Row(Walk(db)[k])]
  <2>1. /\ N \in Nat
        /\ \A n \in 1 .. N : Walk(db)[n] \in DOMAIN db
        /\ \A k \in DOMAIN db : \E n \in 1 .. N : Walk(db)[n] = k
    <3>1. Word \subseteq Seq(Nat)
      BY WordOfNumbers
    <3>2. DOMAIN db \in SUBSET Seq(Nat) /\ IsFiniteSet(DOMAIN db)
      BY <3>1 DEF Stored
    <3>3. QED
      BY <3>2, WalkVisits
  <2>2. ASSUME NEW w \in DOMAIN db
        PROVE  /\ Readings(db, w) = db[w].yins
               /\ db[w].yins \in Seq(Reading) /\ w \in Word
               /\ \A j \in 1 .. Len(db[w].yins) :
                    db[w].yins[j] \in Reading /\ Len(w) = 2 * Len(db[w].yins[j])
    BY DEF Readings, Stored, RecordOf
  <2>3. ASSUME NEW w \in DOMAIN db
        PROVE  /\ Row(w) \in Seq(Entry) /\ Len(Row(w)) = Len(db[w].yins)
               /\ \A j \in 1 .. Len(db[w].yins) :
                    Row(w)[j].tsi = w /\ Row(w)[j].yin = db[w].yins[j]
    <3> DEFINE l == Len(db[w].yins)
    <3>1. l \in Nat /\ \A j \in 1 .. l : [tsi |-> w, yin |-> db[w].yins[j]] \in Entry
      BY <2>2 DEF Entry
    <3> HIDE DEF l
    <3>2. /\ Row(w) = [j \in 1 .. l |-> [tsi |-> w, yin |-> db[w].yins[j]]]
      BY DEF l
    <3>3. Row(w) \in Seq(Entry) /\ Len(Row(w)) = l
      BY <3>1, <3>2
    <3>4. QED
      BY <3>2, <3>3 DEF l
  <2>4. Entries(db) = FlattenSeq(ss)
    <3>1. \A k \in 1 .. N : [j \in 1 .. Len(Readings(db, Walk(db)[k])) |->
              [tsi |-> Walk(db)[k], yin |-> Readings(db, Walk(db)[k])[j]]] = Row(Walk(db)[k])
      BY <2>1, <2>2
    <3>2. Entries(db) = FlattenSeq([k \in 1 .. N |->
              [j \in 1 .. Len(Readings(db, Walk(db)[k])) |->
                 [tsi |-> Walk(db)[k], yin |-> Readings(db, Walk(db)[k])[j]]]])
      BY <1>2, Zenon DEF Entries
    <3> HIDE DEF N, Row
    <3>3. [k \in 1 .. N |-> [j \in 1 .. Len(Readings(db, Walk(db)[k])) |->
                 [tsi |-> Walk(db)[k], yin |-> Readings(db, Walk(db)[k])[j]]]] = ss
      BY <3>1
    <3>4. QED
      BY <3>2, <3>3
  <2> HIDE DEF N, Row
  <2>5. ss \in Seq(Seq(Entry)) /\ Len(ss) = N /\ \A k \in 1 .. N : ss[k] = Row(Walk(db)[k])
    <3>1. \A k \in 1 .. N : Row(Walk(db)[k]) \in Seq(Entry)
      BY <2>1, <2>3
    <3>2. QED
      BY <2>1, <3>1
  <2> HIDE DEF ss
  <2> DEFINE row == Entries(db)
  <2>6. /\ row \in Seq(Entry)
        /\ \A i \in 1 .. Len(row) :
             \E k \in 1 .. N : \E j \in 1 .. Len(ss[k]) : row[i] = ss[k][j]
        /\ \A k \in 1 .. N : \A j \in 1 .. Len(ss[k]) :
             \E i \in 1 .. Len(row) : row[i] = ss[k][j]
    <3>1. /\ FlattenSeq(ss) \in Seq(Entry)
          /\ \A i \in 1 .. Len(FlattenSeq(ss)) :
               \E k \in 1 .. Len(ss) : \E j \in 1 .. Len(ss[k]) : FlattenSeq(ss)[i] = ss[k][j]
          /\ \A k \in 1 .. Len(ss) : \A j \in 1 .. Len(ss[k]) :
               \E i \in 1 .. Len(FlattenSeq(ss)) : FlattenSeq(ss)[i] = ss[k][j]
      BY <2>5, FlattenHolds
    <3>2. Len(ss) = N /\ row = FlattenSeq(ss)
      BY <2>4, <2>5
    <3> HIDE DEF row
    <3>3. QED
      BY <3>1, <3>2
  <2> HIDE DEF row
  <2>7. ASSUME NEW i \in 1 .. Len(row) PROVE Sound(db, row[i].tsi, row[i].yin)
    <3>1. PICK k \in 1 .. N : \E j \in 1 .. Len(ss[k]) : row[i] = ss[k][j]
      BY <2>6
    <3>2. PICK j \in 1 .. Len(ss[k]) : row[i] = ss[k][j]
      BY <3>1
    <3>3. PICK w \in DOMAIN db : w = Walk(db)[k]
      BY <2>1
    <3>4. ss[k] = Row(w) /\ j \in 1 .. Len(db[w].yins)
      BY <2>3, <2>5, <3>3
    <3>5. row[i].tsi = w /\ row[i].yin = db[w].yins[j]
      BY <2>3, <3>2, <3>4
    <3>6. QED
      BY <2>2, <3>4, <3>5 DEF Sound
  <2>8. ASSUME NEW w \in DOMAIN db, NEW j \in 1 .. Len(db[w].yins)
        PROVE  InWalk(row, w, db[w].yins[j])
    <3>1. PICK k \in 1 .. N : Walk(db)[k] = w
      BY <2>1
    <3>2. ss[k] = Row(w) /\ j \in 1 .. Len(ss[k])
      BY <2>3, <2>5, <3>1
    <3>3. PICK i \in 1 .. Len(row) : row[i] = ss[k][j]
      BY <2>6, <3>2
    <3>4. row[i].tsi = w /\ row[i].yin = db[w].yins[j]
      BY <2>3, <3>2, <3>3
    <3>5. QED
      BY <3>4 DEF InWalk
  <2>9. QED
    BY <2>6, <2>7, <2>8 DEF row
<1>3. QED
  BY <1>1, <1>2

-----------------------------------------------------------------------------
(* The words of a text *)

\* What SegmentationProofs proves about the words of a chunk does not depend on the state of
\* Segmentation, which is given any values here.
SP == INSTANCE SegmentationProofs WITH
        Lines <- Texts, Dictionaries <- {PrimaryWords},
        method <- "complex", words <- PrimaryWords, line <- <<>>, q <- 0, chunks <- <<>>,
        split <- FALSE, c <- 1, done <- 0, fault <- FALSE

\* Both have the definitions of MaxMatch.
LEMMA SameLowByte == SP!LowByte = LowByte
BY DEF SP!LowByte, LowByte

LEMMA SameColumn == ASSUME NEW low PROVE SP!Column(low) = Column(low)
BY Zenon DEF SP!Column, Column

LEMMA SamePacked == ASSUME NEW code PROVE SP!PackedBig5(code) = PackedBig5(code)
BY SameLowByte, SameColumn, SMT DEF PackedBig5, SP!PackedBig5

LEMMA SameByteAt == ASSUME NEW s, NEW i PROVE SP!ByteAt(s, i) = ByteAt(s, i)
BY Zenon DEF SP!ByteAt, ByteAt

LEMMA SameCode == ASSUME NEW s, NEW i PROVE SP!ZhiToZhiCode(s, i) = ZhiToZhiCode(s, i)
BY SameByteAt, Zenon DEF SP!ZhiToZhiCode, ZhiToZhiCode

LEMMA SameRefCount == ASSUME NEW s, NEW i PROVE SP!RefCount(s, i) = RefCount(s, i)
BY SameCode, SamePacked, Zenon DEF SP!RefCount, RefCount

LEMMA SameBytes == ASSUME NEW s, NEW i, NEW j PROVE SP!Bytes(s, i, j) = Bytes(s, i, j)
BY Zenon DEF SP!Bytes, Bytes

LEMMA SameIsTsi ==
    ASSUME NEW ws, NEW s, NEW i, NEW n PROVE SP!IsTsi(ws, s, i, n) = IsTsi(ws, s, i, n)
BY SameBytes, Zenon DEF SP!IsTsi, IsTsi, SP!InDB, InDB

LEMMA SameLeast == ASSUME NEW s, NEW i PROVE SP!Least(s, i) = Least(s, i)
BY Zenon DEF SP!Least, Least

LEMMA SameLengths ==
    ASSUME NEW ws, NEW s, NEW i PROVE SP!Lengths(ws, s, i) = Lengths(ws, s, i)
BY SameIsTsi, SameLeast, Zenon DEF SP!Lengths, Lengths

LEMMA SameRow ==
    ASSUME NEW ws, NEW s, NEW i PROVE SP!WordsInARow(ws, s, i) = WordsInARow(ws, s, i)
BY SameLengths, SMT DEF SP!WordsInARow, WordsInARow

LEMMA SameGap == ASSUME NEW s, NEW i PROVE SP!Gap(s, i) = Gap(s, i)
BY Zenon DEF SP!Gap, Gap

LEMMA SameCardinality == ASSUME NEW S PROVE SP!Cardinality(S) = Cardinality(S)
BY Zenon DEF SP!Cardinality, Cardinality

LEMMA SameMmseg == ASSUME NEW s, NEW i, NEW w PROVE SP!Mmseg(s, i, w) = Mmseg(s, i, w)
BY SameGap, SameRefCount, SameCardinality, Zenon DEF SP!Mmseg, Mmseg

LEMMA SameBetter == ASSUME NEW s, NEW i PROVE SP!Better(s, i) = Better(s, i)
BY Zenon DEF SP!Better, Better

LEMMA SameCombinations ==
    ASSUME NEW ws, NEW s, NEW i PROVE SP!Combinations(ws, s, i) = Combinations(ws, s, i)
BY SameMmseg, SameRow, Zenon DEF SP!Combinations, Combinations

LEMMA SameFirstWord ==
    ASSUME NEW ws, NEW s, NEW i PROVE SP!FirstWord(ws, s, i) = FirstWord(ws, s, i)
BY SameCombinations, SameBetter, Zenon DEF SP!FirstWord, FirstWord

LEMMA SameCuts ==
    ASSUME NEW ws, NEW s, NEW i PROVE SP!ComplexCuts(ws, s, i) = ComplexCuts(ws, s, i)
BY SameFirstWord, SameIsTsi, SMT DEF SP!ComplexCuts, ComplexCuts

LEMMA SameCutEnd == ASSUME NEW cuts PROVE SP!CutEnd(cuts) = CutEnd(cuts)
BY Zenon DEF SP!CutEnd, CutEnd, SP!Last, Last

LEMMA SameCutWords == ASSUME NEW s, NEW cuts PROVE SP!CutWords(s, cuts) = CutWords(s, cuts)
BY SameBytes, Zenon DEF SP!CutWords, CutWords

LEMMA SameWords == ASSUME NEW ws, NEW s PROVE SP!ComplexWords(ws, s) = ComplexWords(ws, s)
BY SameCuts, SameCutEnd, SameCutWords, Zenon DEF SP!ComplexWords, ComplexWords

\* And what Segmentation assumes holds.
LEMMA SameAssumptions ==
    /\ Texts \subseteq Seq(1 .. 255)
    /\ CharRef \in [0 .. SP!CharRefLen - 1 -> Nat]
    /\ MaxTsiLen \in Nat \ {0, 1}
<1>1. SP!CharRefLen = CharRefLen
  BY DEF SP!CharRefLen, CharRefLen
<1>2. QED
  BY <1>1, TextsAssumption, CharRefAssumption, MaxTsiLenAssumption

\* The words of a text are words.
LEMMA WordsOfText ==
    ASSUME NEW text \in Texts
    PROVE  ComplexWords(PrimaryWords, text) \in Seq(Word)
<1>1. text \in SP!Text
  BY TextsAssumption DEF SP!Text
<1>2. PICK o : SP!Placed(PrimaryWords, text, SP!ComplexWords(PrimaryWords, text), o, 0)
  BY <1>1, SameAssumptions, SP!ComplexWordsPlaced
<1>3. SP!ComplexWords(PrimaryWords, text) \in Seq(SP!Text)
  BY <1>2 DEF SP!Placed
<1>4. QED
  BY <1>3, SameWords DEF SP!Text, Word

\* A run of two or more single characters in a text is no word of the primary TsiDB.
LEMMA RunIsNew ==
    ASSUME NEW text \in Texts, NEW k \in Nat, NEW n \in Nat, n > 1,
           k + n <= Len(ComplexWords(PrimaryWords, text)),
           NEW s \in Word, Len(s) = 2 * n,
           \A j \in 0 .. n - 1 :
             ComplexWords(PrimaryWords, text)[k + j + 1] = Bytes(s, 2 * j, 2 * j + 2)
    PROVE  s \notin PrimaryWords
<1>1. MaxTsiLen \in Nat
  BY MaxTsiLenAssumption
<1>2. CASE n > MaxTsiLen
  <2>1. ~ (Len(s) <= 2 * MaxTsiLen)
    BY <1>1, <1>2
  <2>2. QED
    BY <2>1, WordsAssumption DEF PrimaryWords
<1>3. CASE ~ (n > MaxTsiLen)
  <2>1. text \in SP!Text /\ s \in SP!Text
    BY TextsAssumption DEF SP!Text, Word
  <2>2. n \in 2 .. MaxTsiLen
    BY <1>1, <1>3
  <2>3. /\ k + n <= Len(SP!ComplexWords(PrimaryWords, text))
        /\ \A j \in 0 .. n - 1 :
             SP!ComplexWords(PrimaryWords, text)[k + j + 1] = SP!Bytes(s, 2 * j, 2 * j + 2)
    BY SameWords, SameBytes
  <2>4. QED
    BY <2>1, <2>2, <2>3, SameAssumptions, SP!SinglesAreNoWord
<1>4. QED
  BY <1>2, <1>3

-----------------------------------------------------------------------------
(* Steps of UserLexicon *)

\* Both databases are empty at first.
LEMMA InitInv == Init => IInv
<1>1. SUFFICES ASSUME Init PROVE IInv
  OBVIOUS
<1>2. DOMAIN tsidb = {} /\ DOMAIN yindb = {} /\ todo = <<>> /\ buf = <<>> /\ words = <<>>
      /\ pc = "idle" /\ missed = FALSE
  BY <1>1 DEF Init, NoRecords
<1>3. Stored(tsidb)
  BY <1>2, FS_EmptySet DEF Stored
<1>4. Lists /\ Covered
  BY <1>2 DEF Lists, Covered
<1>5. Walking
  BY <1>2 DEF Walking
<1>6. Guessing
  <2>1. Characters(<<>>, 0) /\ <<>> \in Word
    BY DEF Characters, Word
  <2>2. QED
    BY <1>2, <2>1 DEF Guessing
<1>7. QED
  BY <1>2, <1>3, <1>4, <1>5, <1>6 DEF IInv

\* Nothing becomes unsound when a word is stored.
LEMMA ListsKept ==
    ASSUME IInv, DOMAIN tsidb \subseteq DOMAIN tsidb', UNCHANGED yindb
    PROVE  Lists'
BY DEF IInv, Lists, Sound

\* A word is stored, or its Put fails, and a dump starts.
LEMMA DumpStarts ==
    ASSUME IInv, Stored(tsidb'), DOMAIN tsidb \subseteq DOMAIN tsidb', UNCHANGED yindb, StartDump
    PROVE  Lists' /\ Walking' /\ Covered' /\ missed' \in BOOLEAN
<1>1. todo' = Entries(tsidb') /\ missed' = FALSE
  BY DEF StartDump
<1>2. /\ todo' \in Seq(Entry)
      /\ \A i \in 1 .. Len(todo') : Sound(tsidb', todo'[i].tsi, todo'[i].yin)
      /\ \A w \in DOMAIN tsidb' : \A i \in 1 .. Len(tsidb'[w].yins) :
           InWalk(todo', w, tsidb'[w].yins[i])
  BY <1>1, EntriesAre
<1>3. Walking'
  BY <1>2 DEF Walking, Sound
<1>4. Covered'
  BY <1>2 DEF Covered, InWalk
<1>5. QED
  BY <1>1, <1>3, <1>4, ListsKept

\* A word is counted once more: its readings stay, and so does what is listed.
LEMMA WordCounted ==
    ASSUME IInv, NEW w \in DOMAIN tsidb, NEW rec, rec.yins = tsidb[w].yins,
           tsidb' \in {Put(Flags, tsidb, w, rec), tsidb}, UNCHANGED yindb, NoDump
    PROVE  Lists' /\ Walking' /\ Covered' /\ missed' \in BOOLEAN
<1>1. DOMAIN tsidb' = DOMAIN tsidb /\ \A k \in DOMAIN tsidb : tsidb'[k].yins = tsidb[k].yins
  <2>1. CASE tsidb' = tsidb
    BY <2>1
  <2>2. CASE tsidb' = Put(Flags, tsidb, w, rec)
    <3>1. /\ DOMAIN tsidb' = DOMAIN tsidb \cup {w} /\ tsidb'[w] = rec
          /\ \A k \in DOMAIN tsidb : k # w => tsidb'[k] = tsidb[k]
      <4>1. /\ DOMAIN Put(Flags, tsidb, w, rec) = DOMAIN tsidb \cup {w}
            /\ Put(Flags, tsidb, w, rec)[w] = rec
            /\ \A k \in DOMAIN tsidb : k # w => Put(Flags, tsidb, w, rec)[k] = tsidb[k]
        BY DEF Put, CanPut, Flags
      <4>2. QED
        BY <2>2, <4>1
    <3>2. QED
      BY <3>1
  <2>3. QED
    BY <2>1, <2>2
<1>2. todo' = todo /\ missed' = missed /\ yindb' = yindb
  BY DEF NoDump
<1>3. Lists'
  BY <1>1, ListsKept
<1>4. Walking'
  BY <1>1, <1>2 DEF IInv, Walking, Sound
<1>5. Covered'
  <2>1. SUFFICES ASSUME ~missed', NEW k \in DOMAIN tsidb', NEW i \in 1 .. Len(tsidb'[k].yins)
                 PROVE  Listed(yindb', k, tsidb'[k].yins[i]) \/ InWalk(todo', k, tsidb'[k].yins[i])
    BY DEF Covered, InWalk, Listed
  <2>2. ~missed /\ k \in DOMAIN tsidb /\ tsidb'[k].yins = tsidb[k].yins
    BY <1>1, <1>2, <2>1
  <2>3. Listed(yindb, k, tsidb[k].yins[i]) \/ InWalk(todo, k, tsidb[k].yins[i])
    BY <2>1, <2>2 DEF IInv, Covered
  <2>4. QED
    BY <1>2, <2>2, <2>3
<1>6. QED
  BY <1>2, <1>3, <1>4, <1>5 DEF IInv

\* The first readings of the characters of a run are a reading of the run.
LEMMA FirstReadingsAre ==
    ASSUME NEW s \in Word, NEW n \in Nat, Characters(s, n)
    PROVE  FirstReadings(s) \in Reading /\ Len(FirstReadings(s)) = n
<1> DEFINE First(k) == PrimaryReadings[Bytes(s, 2 * k - 2, 2 * k)][1]
           ss == [k \in 1 .. n |-> First(k)]
<1>1. Len(s) \div 2 = n
  BY DEF Characters
<1>2. ASSUME NEW k \in 1 .. n PROVE First(k) \in Seq(Nat) /\ Len(First(k)) = 1
  <2>0. PICK z : z = Bytes(s, 2 * k - 2, 2 * k)
    OBVIOUS
  <2>1. Len(z) = 2
    <3>1. Len(SubSeq(s, 2 * k - 1, 2 * k)) = (2 * k) - (2 * k - 1) + 1
      <4>1. /\ 2 * k - 1 \in Nat /\ 2 * k \in Nat /\ 1 <= 2 * k - 1
            /\ 2 * k - 1 <= 2 * k + 1 /\ 2 * k <= Len(s)
        BY DEF Characters
      <4>2. ASSUME NEW a \in Nat, NEW b \in Nat, 1 <= a, a <= b + 1, b <= Len(s)
            PROVE  Len(SubSeq(s, a, b)) = b - a + 1
        BY <4>2, PartIs DEF Word
      <4>3. QED
        BY <4>1, <4>2, Zenon
    <3>2. (2 * k - 2) + 1 = 2 * k - 1 /\ (2 * k) - (2 * k - 1) + 1 = 2
      OBVIOUS
    <3>3. QED
      BY <2>0, <3>1, <3>2 DEF Bytes
  <2>2. z \in DOMAIN PrimaryReadings /\ PrimaryReadings[z] # <<>>
    BY <2>0 DEF Characters, HasYinData, PrimaryWords
  <2>3. /\ PrimaryReadings[z] \in Seq(Seq(Nat))
        /\ \A y \in Range(PrimaryReadings[z]) : Len(z) = 2 * Len(y)
    BY <2>2, ReadingsAssumption
  <2>4. 1 \in 1 .. Len(PrimaryReadings[z]) /\ PrimaryReadings[z][1] \in Seq(Nat)
    BY <2>2, <2>3
  <2>5. PrimaryReadings[z][1] \in Range(PrimaryReadings[z])
    BY <2>3, <2>4 DEF Range
  <2>6. Len(PrimaryReadings[z][1]) = 1
    <3>1. PICK y \in Seq(Nat) : y = PrimaryReadings[z][1]
      BY <2>4
    <3>2. PICK m \in Nat : m = Len(y)
      OBVIOUS
    <3>3. Len(z) = 2 * Len(y)
      BY <2>3, <2>5, <3>1, Zenon
    <3>4. 2 = 2 * m
      BY <2>1, <3>2, <3>3
    <3>5. Len(y) = 1
      BY <3>2, <3>4
    <3>6. QED
      BY <3>1, <3>5, Zenon
  <2>7. First(k) = PrimaryReadings[z][1]
    BY <2>0
  <2>8. QED
    BY <2>4, <2>6, <2>7
<1>3. FirstReadings(s) = FlattenSeq(ss)
  BY <1>1 DEF FirstReadings
<1> HIDE DEF First
<1>4. ss \in Seq(Seq(Nat)) /\ Len(ss) = n /\ \A k \in 1 .. n : Len(ss[k]) = 1
  BY <1>2
<1> HIDE DEF ss
<1>5. FlattenSeq(ss) \in Seq(Nat) /\ Len(FlattenSeq(ss)) = n
  BY <1>4, FlattenHolds
<1>6. QED
  BY <1>3, <1>5 DEF Reading

\* The end of a run: nothing happens, the word is counted once more, or it is new.
LEMMA RunEnds ==
    ASSUME IInv, todo = <<>>, EndRun, UNCHANGED yindb
    PROVE  Stored(tsidb)' /\ Lists' /\ Walking' /\ Covered' /\ missed' \in BOOLEAN
<1> DEFINE old == Get(tsidb, buf, NewTsi)
           rec == TsiInfo(IF old.refcount < MaxRefCnt THEN old.refcount + 1 ELSE old.refcount,
                          IF old.yins = <<>> THEN <<FirstReadings(buf)>> ELSE old.yins)
<1>1. CASE Len(buf) < 4
  <2>1. UNCHANGED <<tsidb, yindb, todo, missed>>
    BY <1>1 DEF EndRun, NoDump
  <2>2. QED
    BY <2>1 DEF IInv, Stored, Lists, Walking, Covered, Listed, InWalk, Sound
<1>2. CASE ~ (Len(buf) < 4)
  <2>1. /\ tsidb' \in {Put(Flags, tsidb, buf, rec), tsidb}
        /\ IF old.yins = <<>> THEN StartDump ELSE NoDump
    BY <1>2 DEF EndRun
  <2>2. buf \in Word /\ Stored(tsidb)
    BY DEF IInv, Guessing
  <2>3. CASE buf \in DOMAIN tsidb
    <3>1. old = tsidb[buf] /\ RecordOf(buf, old)
      BY <2>2, <2>3 DEF Get, Stored
    <3>2. old.refcount \in 1 .. MaxRefCnt /\ old.yins # <<>>
      BY <3>1 DEF RecordOf
    <3>3. rec.yins = tsidb[buf].yins /\ rec.refcount \in 1 .. MaxRefCnt
      BY <3>1, <3>2, MaxRefCntAssumption DEF TsiInfo
    <3>4. RecordOf(buf, rec) /\ NoDump
      BY <2>1, <3>1, <3>2, <3>3 DEF RecordOf
    <3> HIDE DEF rec
    <3>5. Stored(tsidb)'
      <4>1. Stored(tsidb')
        BY <2>1, <2>2, <3>4, StoredPut
      <4>2. QED
        BY <4>1 DEF Stored
    <3>6. QED
      BY <2>1, <2>3, <3>3, <3>4, <3>5, WordCounted
  <2>4. CASE buf \notin DOMAIN tsidb
    <3>1. old = NewTsi
      BY <2>4 DEF Get
    <3>2. rec.yins = <<FirstReadings(buf)>> /\ rec.refcount = 1 /\ StartDump
      BY <2>1, <3>1, MaxRefCntAssumption DEF NewTsi, TsiInfo
    <3>3. PICK n \in Nat : Characters(buf, n)
      BY DEF IInv, Guessing
    <3>4. FirstReadings(buf) \in Reading /\ Len(buf) = 2 * Len(FirstReadings(buf))
      BY <2>2, <3>3, FirstReadingsAre DEF Characters
    <3>5. RecordOf(buf, rec)
      <4> HIDE DEF rec
      <4>1. PICK y \in Reading : y = FirstReadings(buf)
        BY <3>4
      <4>2. /\ rec.yins \in Seq(Reading) /\ rec.yins # <<>> /\ Len(rec.yins) = 1
            /\ rec.yins[1] = y
        BY <3>2, <4>1
      <4>3. rec.refcount \in 1 .. MaxRefCnt /\ \A i \in 1 .. 1 : i = 1
        BY <3>2, MaxRefCntAssumption
      <4>4. QED
        BY <3>4, <4>1, <4>2, <4>3 DEF RecordOf
    <3> HIDE DEF rec
    <3>6. DOMAIN tsidb \subseteq DOMAIN tsidb'
      <4>1. DOMAIN Put(Flags, tsidb, buf, rec) = DOMAIN tsidb \cup {buf}
        BY DEF Put, CanPut, Flags
      <4>2. QED
        BY <2>1, <4>1
    <3>7. Stored(tsidb')
      BY <2>1, <2>2, <3>5, StoredPut
    <3>8. Lists' /\ Walking' /\ Covered' /\ missed' \in BOOLEAN
      BY <3>2, <3>6, <3>7, DumpStarts
    <3>9. QED
      BY <3>7, <3>8 DEF Stored
  <2>5. QED
    BY <2>3, <2>4
<1>3. QED
  BY <1>1, <1>2

\* A word that is added is stored, or is not, and a dump starts in either case.
LEMMA UserTsiEvalInv == ASSUME IInv, NEW e \in Evals, UserTsiEval(e) PROVE IInv'
<1> DEFINE rec == TsiInfo(1, <<e.yin>>)
<1>1. /\ tsidb' \in {Put(Flags, tsidb, e.tsi, rec), tsidb} /\ StartDump
      /\ UNCHANGED <<pc, words, buf, yindb>>
  BY DEF UserTsiEval
<1>2. e.tsi \in Word /\ e.yin \in Reading /\ Len(e.tsi) = 2 * Len(e.yin)
  BY EvalsAssumption DEF Word, Reading
<1>3. RecordOf(e.tsi, rec)
  BY <1>2, MaxRefCntAssumption DEF RecordOf, TsiInfo
<1> HIDE DEF rec
<1>4. Stored(tsidb')
  <2>1. Stored(tsidb)
    BY DEF IInv
  <2>2. Stored(Put(Flags, tsidb, e.tsi, rec))
    BY <1>2, <1>3, <2>1, StoredPut
  <2>3. QED
    BY <1>1, <2>1, <2>2
<1>5. DOMAIN tsidb \subseteq DOMAIN tsidb'
  <2>1. DOMAIN Put(Flags, tsidb, e.tsi, rec) = DOMAIN tsidb \cup {e.tsi}
    BY DEF Put, CanPut, Flags
  <2>2. QED
    BY <1>1, <2>1
<1>6. Lists' /\ Walking' /\ Covered' /\ missed' \in BOOLEAN
  BY <1>1, <1>4, <1>5, DumpStarts
<1>7. Guessing'
  BY <1>1 DEF IInv, Guessing, Characters
<1>8. QED
  BY <1>1, <1>4, <1>6, <1>7 DEF IInv, Stored

\* What neither database sees: only the run and the words behind it change.
LEMMA DatabasesKept ==
    ASSUME IInv, UNCHANGED <<tsidb, yindb, todo, missed>>
    PROVE  Stored(tsidb)' /\ Lists' /\ Walking' /\ Covered' /\ missed' \in BOOLEAN
BY DEF IInv, Stored, Lists, Walking, Covered, Listed, InWalk, Sound

\* The empty run.
LEMMA NoRun == Characters(<<>>, 0) /\ <<>> \in Word
BY DEF Characters, Word

\* A text is fetched while no run is at work.
LEMMA FetchTextInv == ASSUME IInv, NEW text \in Texts, FetchText(text) PROVE IInv'
<1>1. /\ pc = "idle" /\ pc' = (IF text = <<>> THEN "down" ELSE "guess")
      /\ words' = (IF text = <<>> THEN <<>> ELSE ComplexWords(PrimaryWords, text))
      /\ UNCHANGED <<buf, tsidb, yindb, todo, missed>>
  BY DEF FetchText
<1>2. buf = <<>>
  BY <1>1 DEF IInv, Guessing
<1>3. Guessing'
  BY <1>1, <1>2, NoRun DEF Guessing
<1>4. pc' \in {"idle", "guess", "down"}
  BY <1>1
<1>5. QED
  BY <1>1, <1>3, <1>4, DatabasesKept DEF IInv

\* Two elements of a sequence, one behind the other.
LEMMA PairOf ==
    ASSUME NEW S, NEW s \in Seq(S), NEW a \in Nat, a + 2 <= Len(s)
    PROVE  \E p : /\ p \in Seq(S) /\ p = SubSeq(s, a + 1, a + 2) /\ Len(p) = 2
                  /\ p[1] = s[a + 1] /\ p[2] = s[a + 2]
<1>1. PICK m \in Int, n \in Int : m = a + 1 /\ n = a + 2
  OBVIOUS
<1>2. \A i \in m .. n : s[i] \in S
  <2>1. Len(s) \in Nat
    OBVIOUS
  <2>2. SUFFICES ASSUME NEW i \in m .. n PROVE i \in 1 .. Len(s)
    BY ElementOfSeq
  <2>3. QED
    BY <1>1, <2>1
<1>3. /\ SubSeq(s, m, n) \in Seq(S)
      /\ Len(SubSeq(s, m, n)) = IF m <= n THEN n - m + 1 ELSE 0
      /\ \A i \in 1 .. n - m + 1 : SubSeq(s, m, n)[i] = s[m + i - 1]
  BY <1>2, SubSeqProperties
<1>4. 1 \in 1 .. n - m + 1 /\ 2 \in 1 .. n - m + 1 /\ m + 1 - 1 = m /\ m + 2 - 1 = n
      /\ m <= n /\ n - m + 1 = 2
  BY <1>1
<1>5. PICK p : p = SubSeq(s, m, n)
  OBVIOUS
<1>6. p \in Seq(S) /\ Len(p) = 2 /\ p[1] = s[m] /\ p[2] = s[n]
  BY <1>3, <1>4, <1>5
<1>7. QED
  BY <1>1, <1>5, <1>6

\* Two elements more at the end of pairs are one pair more.
LEMMA PairAdded ==
    ASSUME NEW S, NEW s \in Seq(S), NEW z \in Seq(S), NEW n \in Nat, Len(s) = 2 * n, Len(z) = 2,
           NEW k \in 1 .. n + 1
    PROVE  /\ k = n + 1 => Bytes(s \o z, 2 * k - 2, 2 * k) = z
           /\ k # n + 1 => Bytes(s \o z, 2 * k - 2, 2 * k) = Bytes(s, 2 * k - 2, 2 * k)
<1>1. PICK t : /\ t \in Seq(S) /\ t = s \o z /\ Len(t) = 2 * n + 2
               /\ \A i \in 1 .. 2 * n : t[i] = s[i]
               /\ t[2 * n + 1] = z[1] /\ t[2 * n + 2] = z[2]
  <2>1. /\ s \o z \in Seq(S) /\ Len(s \o z) = Len(s) + Len(z)
        /\ \A i \in 1 .. Len(s) + Len(z) :
             (s \o z)[i] = IF i <= Len(s) THEN s[i] ELSE z[i - Len(s)]
    BY ConcatProperties
  <2>2. PICK t : t = s \o z
    OBVIOUS
  <2>3. PICK l \in Nat : l = 2 * n
    OBVIOUS
  <2>4. /\ t \in Seq(S) /\ Len(t) = l + 2
        /\ \A i \in 1 .. l + 2 : t[i] = IF i <= l THEN s[i] ELSE z[i - l]
    <3>1. Len(s) = l /\ Len(z) = 2
      BY <2>3
    <3>2. t \in Seq(S) /\ Len(t) = l + 2
      BY <2>1, <2>2, <3>1, Zenon
    <3>3. \A i \in 1 .. l + 2 : t[i] = IF i <= l THEN s[i] ELSE z[i - l]
      BY <2>1, <2>2, <3>1, Zenon
    <3>4. QED
      BY <3>2, <3>3, Zenon
  <2>5. \A i \in 1 .. l : i \in 1 .. l + 2 /\ i <= l
    OBVIOUS
  <2>6. /\ l + 1 \in 1 .. l + 2 /\ ~ (l + 1 <= l) /\ l + 1 - l = 1
        /\ l + 2 \in 1 .. l + 2 /\ ~ (l + 2 <= l) /\ l + 2 - l = 2
    OBVIOUS
  <2>7. t[l + 1] = z[1] /\ t[l + 2] = z[2] /\ \A i \in 1 .. l : t[i] = s[i]
    <3>1. \A i \in 1 .. l : t[i] = s[i]
      BY <2>4, <2>5, Zenon
    <3>2. t[l + 1] = z[l + 1 - l] /\ t[l + 2] = z[l + 2 - l]
      <4>1. ASSUME NEW j \in 1 .. l + 2, ~ (j <= l) PROVE t[j] = z[j - l]
        BY <2>4, <4>1, Zenon
      <4>2. PICK c \in 1 .. l + 2, d \in 1 .. l + 2 : c = l + 1 /\ d = l + 2
        BY <2>6
      <4>3. ~ (c <= l) /\ ~ (d <= l)
        BY <4>2
      <4>4. t[c] = z[c - l] /\ t[d] = z[d - l]
        BY <4>1, <4>3, Zenon
      <4>5. QED
        BY <4>2, <4>4
    <3>3. t[l + 1] = z[1] /\ t[l + 2] = z[2]
      BY <2>6, <3>2, Zenon
    <3>4. QED
      BY <3>1, <3>3, Zenon
  <2>8. QED
    BY <2>2, <2>3, <2>4, <2>7
<1>2. PICK a \in Nat : a = 2 * k - 2
  OBVIOUS
<1>3. a + 2 = 2 * k /\ a + 2 <= Len(t) /\ a + 1 \in Nat /\ a + 2 \in Nat /\ 1 <= a + 1
  <2>1. PICK b \in Nat : b = Len(t) /\ b = 2 * n + 2
    BY <1>1
  <2>2. a + 2 = 2 * k /\ a + 2 <= b /\ a + 1 \in Nat /\ a + 2 \in Nat /\ 1 <= a + 1
    BY <1>2, <2>1
  <2>3. QED
    BY <2>1, <2>2, Zenon
<1>4. PICK p : /\ p \in Seq(S) /\ p = SubSeq(t, a + 1, a + 2) /\ Len(p) = 2
               /\ p[1] = t[a + 1] /\ p[2] = t[a + 2]
  BY <1>1, <1>3, PairOf, Zenon
<1>5. CASE k = n + 1
  <2>1. a = 2 * n
    BY <1>2, <1>5
  <2>2. p[1] = z[1] /\ p[2] = z[2]
    BY <1>1, <1>4, <2>1
  <2>3. p = z
    BY <1>4, <2>2
  <2>4. QED
    BY <1>1, <1>2, <1>3, <1>4, <1>5, <2>3 DEF Bytes
<1>6. CASE k # n + 1
  <2>1. a + 2 <= 2 * n /\ a + 2 <= Len(s)
    BY <1>2, <1>6
  <2>2. PICK r : /\ r \in Seq(S) /\ r = SubSeq(s, a + 1, a + 2) /\ Len(r) = 2
                 /\ r[1] = s[a + 1] /\ r[2] = s[a + 2]
    BY <1>3, <2>1, PairOf
  <2>3. a + 1 \in 1 .. 2 * n /\ a + 2 \in 1 .. 2 * n
    BY <1>3, <2>1
  <2>4. p[1] = r[1] /\ p[2] = r[2]
    BY <1>1, <1>4, <2>2, <2>3
  <2>5. p = r
    BY <1>4, <2>2, <2>4
  <2>6. QED
    BY <1>1, <1>2, <1>3, <1>4, <1>6, <2>2, <2>5 DEF Bytes
<1>7. QED
  BY <1>5, <1>6

\* A character with a reading behind a run is a run.
LEMMA RunGrows ==
    ASSUME NEW s \in Word, NEW n \in Nat, Characters(s, n), NEW z \in Word, Len(z) = 2,
           HasYinData(z)
    PROVE  s \o z \in Word /\ Characters(s \o z, n + 1)
<1>1. Len(s) = 2 * n /\ s \o z \in Word /\ Len(s \o z) = 2 * (n + 1)
  <2>1. Len(s) = 2 * n
    BY DEF Characters
  <2>2. s \o z \in Word
    BY ConcatProperties DEF Word
  <2>3. Len(s \o z) = Len(s) + Len(z)
    BY ConcatProperties DEF Word
  <2>4. QED
    BY <2>1, <2>2, <2>3
<1>2. ASSUME NEW k \in 1 .. n + 1 PROVE HasYinData(Bytes(s \o z, 2 * k - 2, 2 * k))
  <2>1. /\ k = n + 1 => Bytes(s \o z, 2 * k - 2, 2 * k) = z
        /\ k # n + 1 => Bytes(s \o z, 2 * k - 2, 2 * k) = Bytes(s, 2 * k - 2, 2 * k)
    <3>1. PICK S : S = 1 .. 255
      OBVIOUS
    <3>2. s \in Seq(S) /\ z \in Seq(S) /\ Len(s) = 2 * n /\ Len(z) = 2
      BY <1>1, <3>1 DEF Word
    <3>3. QED
      BY <3>2, PairAdded
  <2>2. CASE k = n + 1
    BY <2>1, <2>2
  <2>3. CASE k # n + 1
    <3>1. k \in 1 .. n
      BY <2>3
    <3>2. HasYinData(Bytes(s, 2 * k - 2, 2 * k))
      BY <3>1 DEF Characters
    <3>3. QED
      BY <2>1, <2>3, <3>2
  <2>4. QED
    BY <2>2, <2>3
<1>3. QED
  BY <1>1, <1>2 DEF Characters

\* The run grows, the process ends, or the run does.
LEMMA GuessTurnInv == ASSUME IInv, GuessTurn PROVE IInv'
<1>1. /\ pc = "guess" /\ todo = <<>> /\ UNCHANGED yindb /\ buf \in Word
      /\ pc \in {"idle", "guess", "down"}
  BY DEF GuessTurn, IInv, Guessing
<1>2. PICK w : w = Head(words)
  OBVIOUS
<1>3. CASE isSingle(w) /\ HasYinData(w)
  <2>1. buf' = buf \o w /\ UNCHANGED <<pc, tsidb, yindb, todo, missed>>
    BY <1>1, <1>2, <1>3 DEF GuessTurn
  <2>2. w \in Word /\ Len(w) = 2
    BY <1>3, ReadingsAssumption DEF isSingle, HasYinData, PrimaryWords, Word
  <2>3. PICK n \in Nat : Characters(buf, n)
    BY DEF IInv, Guessing
  <2>4. buf' \in Word /\ Characters(buf', n + 1) /\ n + 1 \in Nat
    BY <1>1, <1>3, <2>1, <2>2, <2>3, RunGrows
  <2>5. Guessing'
    <3>1. \E m \in Nat : Characters(buf', m)
      BY <2>4
    <3>2. pc' = "guess"
      BY <1>1, <2>1
    <3>3. QED
      BY <2>4, <3>1, <3>2 DEF Guessing, Characters
  <2>6. QED
    BY <1>1, <2>1, <2>5, DatabasesKept DEF IInv
<1>4. CASE isSingle(w) /\ ~HasYinData(w)
  <2>1. pc' = "down" /\ buf' = <<>> /\ words' = <<>> /\ UNCHANGED <<tsidb, yindb, todo, missed>>
    BY <1>1, <1>2, <1>4 DEF GuessTurn
  <2>2. Guessing'
    BY <2>1, NoRun DEF Guessing
  <2>3. QED
    BY <2>1, <2>2, DatabasesKept DEF IInv
<1>5. CASE ~isSingle(w)
  <2>1. EndRun /\ buf' = <<>> /\ pc' = "guess"
    BY <1>1, <1>2, <1>5 DEF GuessTurn
  <2>2. Guessing'
    BY <2>1, NoRun DEF Guessing
  <2>3. Stored(tsidb)' /\ Lists' /\ Walking' /\ Covered' /\ missed' \in BOOLEAN
    BY <1>1, <2>1, RunEnds
  <2>4. QED
    BY <2>1, <2>2, <2>3 DEF IInv
<1>6. QED
  BY <1>3, <1>4, <1>5

\* The run behind the loop ends.
LEMMA GuessEndInv == ASSUME IInv, GuessEnd PROVE IInv'
<1>1. /\ todo = <<>> /\ words = <<>> /\ EndRun /\ buf' = <<>> /\ pc' = "idle"
      /\ words' = words /\ yindb' = yindb
  BY DEF GuessEnd
<1>2. Guessing'
  BY <1>1, NoRun DEF Guessing
<1>3. Stored(tsidb)' /\ Lists' /\ Walking' /\ Covered' /\ missed' \in BOOLEAN
  BY <1>1, RunEnds
<1>4. QED
  BY <1>1, <1>2, <1>3 DEF IInv

\* An entry is listed under its reading, behind what was listed there, or was listed already.
LEMMA EntryListed ==
    ASSUME IInv, todo # <<>>, yindb' = ListEntry(yindb, Head(todo)), UNCHANGED tsidb
    PROVE  /\ Lists'
           /\ Listed(yindb', Head(todo).tsi, Head(todo).yin)
           /\ \A v, x : Listed(yindb, v, x) => Listed(yindb', v, x)
<1>1. PICK e : e = Head(todo)
  OBVIOUS
<1>2. e = todo[1] /\ 1 \in 1 .. Len(todo) /\ e \in Entry
  BY <1>1 DEF IInv, Walking
<1>3. PICK w, y : w = e.tsi /\ y = e.yin
  OBVIOUS
<1>4. w \in Word /\ y \in Reading /\ Sound(tsidb, w, y)
  BY <1>2, <1>3 DEF IInv, Walking, Entry
<1>5. PICK old : old = WordsUnder(yindb, y)
  OBVIOUS
<1>6. /\ y \in DOMAIN yindb => old = yindb[y]
      /\ y \notin DOMAIN yindb => old = <<>>
  BY <1>5 DEF WordsUnder, Get
<1>7. /\ old \in Seq(Word)
      /\ \A a, b \in 1 .. Len(old) : old[a] = old[b] => a = b
      /\ \A i \in 1 .. Len(old) : Sound(tsidb, old[i], y)
  <2>1. CASE y \in DOMAIN yindb
    BY <1>6, <2>1 DEF IInv, Lists
  <2>2. CASE y \notin DOMAIN yindb
    <3>1. old = <<>>
      BY <1>6, <2>2
    <3>2. <<>> \in Seq(Word) /\ Len(<<>>) = 0 /\ 1 .. 0 = {}
      OBVIOUS
    <3>3. QED
      BY <3>1, <3>2
  <2>3. QED
    BY <2>1, <2>2
<1>8. DOMAIN old = 1 .. Len(old) /\ Len(old) \in Nat
  BY <1>7
<1>9. CASE w \in Range(old)
  <2>1. yindb' = yindb
    BY <1>1, <1>3, <1>5, <1>9 DEF ListEntry
  <2>2. PICK i \in 1 .. Len(old) : old[i] = w
    BY <1>8, <1>9 DEF Range
  <2>3. y \in DOMAIN yindb
    <3>1. Len(<<>>) = 0 /\ 1 .. 0 = {}
      OBVIOUS
    <3>2. QED
      BY <1>6, <2>2, <3>1
  <2>4. Listed(yindb, w, y)
    BY <1>6, <2>2, <2>3 DEF Listed
  <2>5. Lists'
    BY <2>1 DEF IInv, Lists, Sound
  <2>6. \A v, x : Listed(yindb, v, x) => Listed(yindb', v, x)
    BY <2>1
  <2>7. QED
    BY <1>1, <1>3, <2>1, <2>4, <2>5, <2>6
<1>10. CASE w \notin Range(old)
  <2>1. PICK new : new = Append(old, w)
    OBVIOUS
  <2>2. yindb' = [k \in DOMAIN yindb \cup {y} |-> IF k = y THEN new ELSE yindb[k]]
    <3>1. yindb' = Put(Flags, yindb, y, new)
      BY <1>1, <1>3, <1>5, <1>10, <2>1 DEF ListEntry
    <3>2. QED
      BY <3>1 DEF Put, CanPut, Flags
  <2>3. /\ DOMAIN yindb' = DOMAIN yindb \cup {y} /\ yindb'[y] = new
        /\ \A k \in DOMAIN yindb : k # y => yindb'[k] = yindb[k]
    BY <2>2
  <2>4. PICK n \in Nat : n = Len(old)
    BY <1>8
  <2>5. /\ new \in Seq(Word) /\ Len(new) = n + 1 /\ new[n + 1] = w
        /\ \A i \in 1 .. n : new[i] = old[i]
    BY <1>4, <1>7, <2>1, <2>4, AppendProperties
  <2>6. \A i \in 1 .. n : old[i] # w
    BY <1>8, <1>10, <2>4 DEF Range
  <2>7. \A i \in 1 .. n + 1 : i \in 1 .. n \/ i = n + 1
    OBVIOUS
  <2>8. ASSUME NEW a \in 1 .. n + 1, NEW b \in 1 .. n + 1, new[a] = new[b] PROVE a = b
    <3>1. CASE a = n + 1 /\ b = n + 1
      BY <3>1
    <3>2. CASE a = n + 1 /\ b \in 1 .. n
      BY <2>5, <2>6, <2>8, <3>2
    <3>3. CASE a \in 1 .. n /\ b = n + 1
      BY <2>5, <2>6, <2>8, <3>3
    <3>4. CASE a \in 1 .. n /\ b \in 1 .. n
      BY <1>7, <2>4, <2>5, <2>8, <3>4
    <3>5. QED
      BY <2>7, <3>1, <3>2, <3>3, <3>4
  <2>9. ASSUME NEW i \in 1 .. n + 1 PROVE Sound(tsidb, new[i], y)
    <3>1. CASE i = n + 1
      BY <1>4, <2>5, <3>1
    <3>2. CASE i \in 1 .. n
      BY <1>7, <2>4, <2>5, <3>2
    <3>3. QED
      BY <2>7, <3>1, <3>2
  <2>10. new # <<>>
    BY <2>5
  <2>11. Lists'
    <3>1. SUFFICES ASSUME NEW k \in DOMAIN yindb'
                   PROVE  /\ yindb'[k] \in Seq(Word) /\ yindb'[k] # <<>>
                          /\ \A a, b \in 1 .. Len(yindb'[k]) :
                               yindb'[k][a] = yindb'[k][b] => a = b
                          /\ \A i \in 1 .. Len(yindb'[k]) : Sound(tsidb', yindb'[k][i], k)
      BY DEF Lists, Sound
    <3>2. tsidb' = tsidb
      OBVIOUS
    <3>3. CASE k = y
      BY <2>3, <2>5, <2>8, <2>9, <2>10, <3>2, <3>3
    <3>4. CASE k # y
      <4>1. k \in DOMAIN yindb /\ yindb'[k] = yindb[k]
        BY <2>3, <3>1, <3>4
      <4>2. QED
        BY <3>2, <4>1 DEF IInv, Lists
    <3>5. QED
      BY <3>3, <3>4
  <2>12. Listed(yindb', w, y)
    <3>1. n + 1 \in 1 .. Len(new) /\ new[n + 1] = w
      BY <2>5
    <3>2. y \in DOMAIN yindb' /\ \E i \in 1 .. Len(yindb'[y]) : yindb'[y][i] = w
      BY <2>3, <3>1
    <3>3. QED
      BY <3>2 DEF Listed
  <2>13. ASSUME NEW v, NEW x, Listed(yindb, v, x) PROVE Listed(yindb', v, x)
    <3>1. x \in DOMAIN yindb /\ \E i \in 1 .. Len(yindb[x]) : yindb[x][i] = v
      BY <2>13 DEF Listed
    <3>2. CASE x # y
      BY <2>3, <3>1, <3>2 DEF Listed
    <3>3. CASE x = y
      <4>1. PICK i \in 1 .. n : old[i] = v
        BY <1>6, <2>4, <3>1, <3>3
      <4>2. i \in 1 .. Len(new) /\ new[i] = v
        BY <2>5, <4>1
      <4>3. x \in DOMAIN yindb' /\ \E j \in 1 .. Len(yindb'[x]) : yindb'[x][j] = v
        BY <2>3, <3>3, <4>2
      <4>4. QED
        BY <4>3 DEF Listed
    <3>4. QED
      BY <3>2, <3>3
  <2>14. QED
    BY <1>1, <1>3, <2>11, <2>12, <2>13
<1>11. QED
  BY <1>9, <1>10

\* The walk goes on by one entry.
LEMMA WalkGoesOn ==
    ASSUME IInv, todo # <<>>, todo' = Tail(todo), UNCHANGED tsidb
    PROVE  /\ Walking'
           /\ \A w, y : InWalk(todo, w, y) =>
                InWalk(todo', w, y) \/ (w = Head(todo).tsi /\ y = Head(todo).yin)
<1>1. PICK seq : seq = todo
  OBVIOUS
<1>2. seq \in Seq(Entry) /\ seq # <<>>
  BY <1>1 DEF IInv, Walking
<1>3. /\ Tail(seq) \in Seq(Entry) /\ Len(Tail(seq)) = Len(seq) - 1 /\ Len(seq) \in Nat
      /\ \A i \in 1 .. Len(Tail(seq)) : i + 1 \in 1 .. Len(seq) /\ Tail(seq)[i] = seq[i + 1]
      /\ Head(seq) = seq[1]
  BY <1>2
<1>4. Walking'
  <2>1. \A i \in 1 .. Len(seq) : Sound(tsidb, seq[i].tsi, seq[i].yin)
    BY <1>1 DEF IInv, Walking
  <2>2. \A i \in 1 .. Len(Tail(seq)) : Sound(tsidb, Tail(seq)[i].tsi, Tail(seq)[i].yin)
    BY <1>3, <2>1
  <2>3. todo' = Tail(seq) /\ tsidb' = tsidb
    BY <1>1
  <2>4. todo' \in Seq(Entry) /\ \A i \in 1 .. Len(todo') : Sound(tsidb', todo'[i].tsi, todo'[i].yin)
    BY <1>3, <2>2, <2>3
  <2>5. QED
    BY <2>4 DEF Walking, Sound
<1>5. ASSUME NEW w, NEW y, InWalk(seq, w, y)
      PROVE  InWalk(Tail(seq), w, y) \/ (w = Head(seq).tsi /\ y = Head(seq).yin)
  <2>1. PICK i \in 1 .. Len(seq) : seq[i].tsi = w /\ seq[i].yin = y
    BY <1>5 DEF InWalk
  <2>2. CASE i = 1
    BY <1>3, <2>1, <2>2
  <2>3. CASE i # 1
    <3>1. PICK j \in 1 .. Len(Tail(seq)) : j + 1 = i
      <4>1. i - 1 \in 1 .. Len(Tail(seq)) /\ (i - 1) + 1 = i
        BY <1>3, <2>3
      <4>2. QED
        BY <4>1
    <3>2. Tail(seq)[j] = seq[i]
      BY <1>3, <3>1
    <3>3. QED
      BY <2>1, <3>2 DEF InWalk
  <2>4. QED
    BY <2>2, <2>3
<1>6. QED
  BY <1>1, <1>4, <1>5

\* The entry is listed, was listed already, or its Put fails and the dump has missed one.
LEMMA DumpTurnInv == ASSUME IInv, DumpTurn PROVE IInv'
<1>1. /\ todo # <<>> /\ todo' = Tail(todo) /\ UNCHANGED <<pc, words, buf, tsidb>>
  BY DEF DumpTurn
<1>2. /\ Walking'
      /\ \A w, y : InWalk(todo, w, y) =>
           InWalk(todo', w, y) \/ (w = Head(todo).tsi /\ y = Head(todo).yin)
  BY <1>1, WalkGoesOn
<1>3. Stored(tsidb)' /\ Guessing' /\ pc' \in {"idle", "guess", "down"}
  BY <1>1 DEF IInv, Stored, Guessing, Characters
<1>4. CASE yindb' = ListEntry(yindb, Head(todo)) /\ UNCHANGED missed
  <2>1. /\ Lists' /\ Listed(yindb', Head(todo).tsi, Head(todo).yin)
        /\ \A v, x : Listed(yindb, v, x) => Listed(yindb', v, x)
    BY <1>1, <1>4, EntryListed
  <2>2. Covered'
    <3>1. SUFFICES ASSUME ~missed, NEW w \in DOMAIN tsidb, NEW i \in 1 .. Len(tsidb[w].yins)
                   PROVE  Listed(yindb', w, tsidb[w].yins[i]) \/ InWalk(todo', w, tsidb[w].yins[i])
      BY <1>1, <1>4 DEF Covered, Listed, InWalk
    <3>2. PICK y : y = tsidb[w].yins[i]
      OBVIOUS
    <3>3. Listed(yindb, w, y) \/ InWalk(todo, w, y)
      BY <3>1, <3>2 DEF IInv, Covered
    <3>4. Listed(yindb', w, y) \/ InWalk(todo', w, y)
      BY <1>2, <2>1, <3>3
    <3>5. QED
      BY <1>1, <3>2, <3>4 DEF Listed
  <2>3. missed' \in BOOLEAN
    BY <1>4 DEF IInv
  <2>4. QED
    BY <1>2, <1>3, <2>1, <2>2, <2>3 DEF IInv
<1>5. CASE missed' = TRUE /\ UNCHANGED yindb
  <2>1. Covered'
    BY <1>5 DEF Covered
  <2>2. Lists'
    BY <1>1, <1>5, ListsKept
  <2>3. QED
    BY <1>2, <1>3, <1>5, <2>1, <2>2 DEF IInv
<1>6. QED
  BY <1>4, <1>5 DEF DumpTurn

\* The process ends: a dump at work has missed what it did not come to.
LEMMA CrashInv == ASSUME IInv, Crash PROVE IInv'
<1>1. /\ pc' = "down" /\ words' = <<>> /\ buf' = <<>> /\ todo' = <<>>
      /\ missed' = (missed \/ todo /= <<>>) /\ UNCHANGED <<tsidb, yindb>>
  BY DEF Crash
<1>2. Guessing'
  BY <1>1, NoRun DEF Guessing
<1>3. Walking'
  BY <1>1 DEF Walking
<1>4. Covered'
  <2>1. SUFFICES ASSUME ~missed', NEW k \in DOMAIN tsidb', NEW i \in 1 .. Len(tsidb'[k].yins)
                 PROVE  Listed(yindb', k, tsidb'[k].yins[i]) \/ InWalk(todo', k, tsidb'[k].yins[i])
    BY DEF Covered, InWalk, Listed
  <2>2. ~missed /\ todo = <<>> /\ todo' = todo /\ tsidb' = tsidb /\ yindb' = yindb
    BY <1>1, <2>1 DEF IInv
  <2>3. Listed(yindb, k, tsidb[k].yins[i]) \/ InWalk(todo, k, tsidb[k].yins[i])
    BY <2>1, <2>2 DEF IInv, Covered
  <2>4. QED
    BY <2>2, <2>3
<1>5. Stored(tsidb)' /\ Lists' /\ missed' \in BOOLEAN
  BY <1>1 DEF IInv, Stored, Lists, Sound
<1>6. QED
  BY <1>1, <1>2, <1>3, <1>4, <1>5 DEF IInv

\* The process starts again: the databases are as they were.
LEMMA RestartInv == ASSUME IInv, Restart PROVE IInv'
<1>1. pc = "down" /\ pc' = "idle" /\ UNCHANGED <<words, buf, tsidb, yindb, todo, missed>>
  BY DEF Restart
<1>2. buf = <<>> /\ words = <<>>
  BY <1>1 DEF IInv, Guessing
<1>3. Guessing'
  BY <1>1, <1>2, NoRun DEF Guessing
<1>4. QED
  BY <1>1, <1>3, DatabasesKept DEF IInv

\* Nothing changes.
LEMMA StutterInv == ASSUME IInv, UNCHANGED vars PROVE IInv'
<1>1. UNCHANGED <<pc, words, buf, tsidb, yindb, todo, missed>>
  BY DEF vars
<1>2. Guessing' /\ pc' \in {"idle", "guess", "down"}
  BY <1>1 DEF IInv, Guessing, Characters
<1>3. QED
  BY <1>1, <1>2, DatabasesKept DEF IInv

\* Every state of the specification satisfies the invariant.
LEMMA Invariant == Spec => []IInv
<1>1. Init => IInv
  BY InitInv
<1>2. IInv /\ [Next]_vars => IInv'
  <2>1. SUFFICES ASSUME IInv, [Next]_vars PROVE IInv'
    OBVIOUS
  <2>2. CASE \E text \in Texts : FetchText(text)
    BY <2>1, <2>2, FetchTextInv
  <2>3. CASE GuessTurn
    BY <2>1, <2>3, GuessTurnInv
  <2>4. CASE GuessEnd
    BY <2>1, <2>4, GuessEndInv
  <2>5. CASE \E e \in Evals : UserTsiEval(e)
    BY <2>1, <2>5, UserTsiEvalInv
  <2>6. CASE DumpTurn
    BY <2>1, <2>6, DumpTurnInv
  <2>7. CASE Crash
    BY <2>1, <2>7, CrashInv
  <2>8. CASE Restart
    BY <2>1, <2>8, RestartInv
  <2>9. CASE UNCHANGED vars
    BY <2>1, <2>9, StutterInv
  <2>10. QED
    BY <2>1, <2>2, <2>3, <2>4, <2>5, <2>6, <2>7, <2>8, <2>9 DEF Next
<1>3. QED
  BY <1>1, <1>2, PTL DEF Spec

-----------------------------------------------------------------------------
(* What is learned is new *)

\* The run in buf are the n words behind the first k of the text, and the words not yet looked
\* at are those behind it.
RunAt(text, k, n) ==
    LET cw == ComplexWords(PrimaryWords, text) IN
    /\ Len(buf) = 2 * n /\ k + n <= Len(cw)
    /\ words = SubSeq(cw, k + n + 1, Len(cw))
    /\ \A j \in 0 .. n - 1 : cw[k + j + 1] = Bytes(buf, 2 * j, 2 * j + 2)

Following == pc = "guess" => \E text \in Texts : \E k, n \in Nat : RunAt(text, k, n)

\* It is about nothing else.
LEMMA FollowingKept == ASSUME Following, UNCHANGED <<pc, words, buf>> PROVE Following'
<1>1. ASSUME NEW text, NEW k, NEW n PROVE RunAt(text, k, n)' <=> RunAt(text, k, n)
  BY DEF RunAt
<1>2. QED
  BY <1>1, Zenon DEF Following

\* A word the user may have added though the primary TsiDB has it.
Added(w) == \E e \in Evals : e.tsi = w /\ e.yin \notin Range(PrimaryReadings[w])

\* One word more that is new or added.
LEMMA OneWordMore ==
    ASSUME LearnedIsNew, NEW w, DOMAIN tsidb' \subseteq DOMAIN tsidb \cup {w},
           w \in PrimaryWords => Added(w)
    PROVE  LearnedIsNew'
BY DEF LearnedIsNew, Added

\* A word is stored, or its Put fails.
LEMMA DomainPut ==
    ASSUME NEW db, NEW w, NEW rec
    PROVE  DOMAIN Put(Flags, db, w, rec) = DOMAIN db \cup {w}
BY DEF Put, CanPut, Flags

\* A text begins with no run.
LEMMA FetchTextFollowing ==
    ASSUME IInv, NEW text \in Texts, FetchText(text) PROVE Following'
<1>1. SUFFICES ASSUME pc' = "guess" PROVE \E k, n \in Nat : RunAt(text, k, n)'
  BY DEF Following
<1>2. pc = "idle" /\ words' = ComplexWords(PrimaryWords, text) /\ buf' = buf
  BY <1>1 DEF FetchText
<1>3. buf' = <<>>
  BY <1>2 DEF IInv, Guessing
<1>4. PICK cw \in Seq(Word) : cw = ComplexWords(PrimaryWords, text)
  BY WordsOfText
<1>5. words' = SubSeq(cw, 1, Len(cw))
  BY <1>2, <1>4
<1>6. Len(buf') = 2 * 0 /\ 0 + 0 <= Len(cw) /\ 0 + 0 + 1 = 1 /\ 0 .. 0 - 1 = {}
  BY <1>3
<1>7. RunAt(text, 0, 0)'
  BY <1>4, <1>5, <1>6 DEF RunAt
<1>8. QED
  BY <1>7

\* The first of the words not yet looked at.
LEMMA NextWord ==
    ASSUME NEW text \in Texts, NEW k \in Nat, NEW n \in Nat, RunAt(text, k, n), words # <<>>
    PROVE  LET cw == ComplexWords(PrimaryWords, text) IN
           /\ cw \in Seq(Word) /\ k + n + 1 <= Len(cw)
           /\ Head(words) = cw[k + n + 1]
           /\ Tail(words) = SubSeq(cw, k + n + 2, Len(cw))
<1>1. PICK cw \in Seq(Word) : cw = ComplexWords(PrimaryWords, text)
  BY WordsOfText
<1>2. PICK p \in Nat, l \in Nat : p = k + n /\ l = Len(cw)
  <2>1. k + n \in Nat /\ Len(cw) \in Nat
    OBVIOUS
  <2>2. QED
    BY <2>1
<1>3. p <= l /\ words = SubSeq(cw, p + 1, l)
  BY <1>1, <1>2 DEF RunAt
<1>4. p < l
  <2>1. SUFFICES ASSUME p = l PROVE words = <<>>
    BY <1>2, <1>3
  <2>2. QED
    BY <1>3, <2>1
<1>5. Head(words) = cw[p + 1] /\ Tail(words) = SubSeq(cw, p + 2, l)
  BY <1>2, <1>3, <1>4
<1>6. QED
  BY <1>1, <1>2, <1>4, <1>5

\* The run grows by the next word, or begins anew behind it.
LEMMA GuessTurnFollowing == ASSUME IInv, Following, GuessTurn PROVE Following'
<1>1. pc = "guess" /\ words # <<>> /\ buf \in Word
  BY DEF GuessTurn, IInv, Guessing
<1>2. PICK text \in Texts, k \in Nat, n \in Nat : RunAt(text, k, n)
  BY <1>1 DEF Following
<1>3. PICK cw \in Seq(Word) : cw = ComplexWords(PrimaryWords, text)
  BY WordsOfText
<1>4. PICK w : w = Head(words)
  OBVIOUS
<1>5. /\ k + n + 1 <= Len(cw) /\ w = cw[k + n + 1]
      /\ Tail(words) = SubSeq(cw, k + n + 2, Len(cw))
  BY <1>1, <1>2, <1>3, <1>4, NextWord
<1>6. /\ Len(buf) = 2 * n
      /\ \A j \in 0 .. n - 1 : cw[k + j + 1] = Bytes(buf, 2 * j, 2 * j + 2)
  BY <1>2, <1>3 DEF RunAt
<1>7. CASE isSingle(w) /\ HasYinData(w)
  <2>1. buf' = buf \o w /\ words' = Tail(words)
    BY <1>4, <1>7 DEF GuessTurn
  <2>2. w \in Word /\ Len(w) = 2
    BY <1>3, <1>5, <1>7 DEF isSingle
  <2>3. Len(buf') = 2 * (n + 1)
    <3>1. Len(buf \o w) = Len(buf) + Len(w)
      BY <1>1, <2>2, ConcatProperties DEF Word
    <3>2. QED
      BY <1>6, <2>1, <2>2, <3>1
  <2>4. ASSUME NEW j \in 0 .. (n + 1) - 1
        PROVE  cw[k + j + 1] = Bytes(buf', 2 * j, 2 * j + 2)
    <3>1. j + 1 \in 1 .. n + 1 /\ 2 * (j + 1) - 2 = 2 * j /\ 2 * (j + 1) = 2 * j + 2
      OBVIOUS
    <3>2. PICK S : S = 1 .. 255
      OBVIOUS
    <3>3. buf \in Seq(S) /\ w \in Seq(S)
      BY <1>1, <2>2, <3>2 DEF Word
    <3>4. /\ j + 1 = n + 1 => Bytes(buf \o w, 2 * j, 2 * j + 2) = w
          /\ j + 1 # n + 1 => Bytes(buf \o w, 2 * j, 2 * j + 2) = Bytes(buf, 2 * j, 2 * j + 2)
      <4>1. PICK i \in 1 .. n + 1 : i = j + 1 /\ 2 * i - 2 = 2 * j /\ 2 * i = 2 * j + 2
        BY <3>1
      <4>2. /\ i = n + 1 => Bytes(buf \o w, 2 * i - 2, 2 * i) = w
            /\ i # n + 1 => Bytes(buf \o w, 2 * i - 2, 2 * i) = Bytes(buf, 2 * i - 2, 2 * i)
        <5>1. PICK b \in Seq(S) : b = buf /\ Len(b) = 2 * n
          BY <1>6, <3>3
        <5>2. /\ i = n + 1 => Bytes(b \o w, 2 * i - 2, 2 * i) = w
              /\ i # n + 1 => Bytes(b \o w, 2 * i - 2, 2 * i) = Bytes(b, 2 * i - 2, 2 * i)
          BY <2>2, <3>3, <5>1, PairAdded, SMTT(30)
        <5>3. QED
          BY <5>1, <5>2
      <4>3. QED
        BY <4>1, <4>2
    <3>5. CASE j = n
      BY <1>5, <2>1, <3>4, <3>5
    <3>6. CASE j # n
      <4>1. j \in 0 .. n - 1 /\ j + 1 # n + 1
        BY <3>6
      <4>2. QED
        BY <1>6, <2>1, <3>4, <4>1
    <3>7. QED
      BY <3>5, <3>6
  <2>5. k + (n + 1) <= Len(cw) /\ words' = SubSeq(cw, k + (n + 1) + 1, Len(cw))
    <3>1. k + (n + 1) = k + n + 1 /\ k + (n + 1) + 1 = k + n + 2
      OBVIOUS
    <3>2. QED
      BY <1>5, <2>1, <3>1
  <2>6. RunAt(text, k, n + 1)' /\ n + 1 \in Nat
    BY <1>3, <2>3, <2>4, <2>5 DEF RunAt
  <2>7. QED
    BY <2>6 DEF Following
<1>8. CASE isSingle(w) /\ ~HasYinData(w)
  <2>1. pc' = "down"
    BY <1>4, <1>8 DEF GuessTurn
  <2>2. QED
    BY <2>1 DEF Following
<1>9. CASE ~isSingle(w)
  <2>1. buf' = <<>> /\ words' = Tail(words)
    BY <1>4, <1>9 DEF GuessTurn
  <2>2. PICK p \in Nat : p = k + n + 1
    OBVIOUS
  <2>3. p + 0 <= Len(cw) /\ words' = SubSeq(cw, p + 0 + 1, Len(cw))
    <3>1. p + 0 = k + n + 1 /\ p + 0 + 1 = k + n + 2
      BY <2>2
    <3>2. QED
      BY <1>5, <2>1, <3>1
  <2>4. Len(buf') = 2 * 0 /\ 0 .. 0 - 1 = {}
    BY <2>1
  <2>5. RunAt(text, p, 0)'
    BY <1>3, <2>3, <2>4 DEF RunAt
  <2>6. QED
    BY <2>5 DEF Following
<1>10. QED
  BY <1>7, <1>8, <1>9

\* The word stored at the end of a run is new.
LEMMA RunEndsNew ==
    ASSUME IInv, Following, LearnedIsNew, pc = "guess", EndRun PROVE LearnedIsNew'
<1>1. CASE Len(buf) < 4
  BY <1>1 DEF EndRun, LearnedIsNew
<1>2. CASE ~ (Len(buf) < 4)
  <2>1. DOMAIN tsidb' \subseteq DOMAIN tsidb \cup {buf}
    <3>1. \E rec : tsidb' \in {Put(Flags, tsidb, buf, rec), tsidb}
      BY <1>2 DEF EndRun
    <3>2. PICK rec : tsidb' \in {Put(Flags, tsidb, buf, rec), tsidb}
      BY <3>1
    <3>3. DOMAIN Put(Flags, tsidb, buf, rec) = DOMAIN tsidb \cup {buf}
      BY DomainPut
    <3>4. QED
      BY <3>2, <3>3
  <2>2. PICK text \in Texts, k \in Nat, n \in Nat : RunAt(text, k, n)
    BY DEF Following
  <2>3. buf \in Word
    BY DEF IInv, Guessing
  <2>4. /\ Len(buf) = 2 * n /\ k + n <= Len(ComplexWords(PrimaryWords, text))
        /\ \A j \in 0 .. n - 1 :
             ComplexWords(PrimaryWords, text)[k + j + 1] = Bytes(buf, 2 * j, 2 * j + 2)
    BY <2>2 DEF RunAt
  <2>5. n > 1
    BY <1>2, <2>4
  <2>6. buf \notin PrimaryWords
    BY <2>3, <2>4, <2>5, RunIsNew
  <2>7. QED
    BY <2>1, <2>6, OneWordMore
<1>3. QED
  BY <1>1, <1>2

\* Every step keeps the run where it stands in its text, and stores no word that is old.
LEMMA LearningStep ==
    ASSUME IInv, Following, LearnedIsNew, [Next]_vars
    PROVE  Following' /\ LearnedIsNew'
<1>1. CASE \E text \in Texts : FetchText(text)
  <2>1. UNCHANGED tsidb
    BY <1>1 DEF FetchText
  <2>2. QED
    BY <1>1, <2>1, FetchTextFollowing DEF LearnedIsNew
<1>2. CASE GuessTurn
  <2>1. pc = "guess" /\ (EndRun \/ UNCHANGED tsidb)
    BY <1>2 DEF GuessTurn
  <2>2. LearnedIsNew'
    <3>1. CASE EndRun
      BY <2>1, <3>1, RunEndsNew
    <3>2. CASE UNCHANGED tsidb
      BY <3>2 DEF LearnedIsNew
    <3>3. QED
      BY <2>1, <3>1, <3>2
  <2>3. QED
    BY <1>2, <2>2, GuessTurnFollowing
<1>3. CASE GuessEnd
  <2>1. pc = "guess" /\ pc' = "idle" /\ EndRun
    BY <1>3 DEF GuessEnd
  <2>2. LearnedIsNew'
    BY <2>1, RunEndsNew
  <2>3. QED
    BY <2>1, <2>2 DEF Following
<1>4. CASE \E e \in Evals : UserTsiEval(e)
  <2>1. PICK e \in Evals : UserTsiEval(e)
    BY <1>4
  <2>2. /\ pc = "idle" /\ pc' = pc /\ e.tsi \notin ListedInPool(e.yin)
        /\ tsidb' \in {Put(Flags, tsidb, e.tsi, TsiInfo(1, <<e.yin>>)), tsidb}
    BY <2>1 DEF UserTsiEval
  <2>3. DOMAIN tsidb' \subseteq DOMAIN tsidb \cup {e.tsi}
    BY <2>2, DomainPut
  <2>4. e.tsi \in PrimaryWords => Added(e.tsi)
    BY <2>2 DEF ListedInPool, Added
  <2>5. LearnedIsNew'
    BY <2>3, <2>4, OneWordMore
  <2>6. QED
    BY <2>2, <2>5 DEF Following
<1>5. CASE DumpTurn
  <2>1. UNCHANGED <<pc, words, buf, tsidb>>
    BY <1>5 DEF DumpTurn
  <2>2. LearnedIsNew'
    BY <2>1 DEF LearnedIsNew
  <2>3. QED
    BY <2>1, <2>2, FollowingKept
<1>6. CASE Crash
  BY <1>6 DEF Crash, Following, LearnedIsNew
<1>7. CASE Restart
  BY <1>7 DEF Restart, Following, LearnedIsNew
<1>8. CASE UNCHANGED vars
  <2>1. UNCHANGED <<pc, words, buf, tsidb>>
    BY <1>8 DEF vars
  <2>2. LearnedIsNew'
    BY <2>1 DEF LearnedIsNew
  <2>3. QED
    BY <2>1, <2>2, FollowingKept
<1>9. QED
  BY <1>1, <1>2, <1>3, <1>4, <1>5, <1>6, <1>7, <1>8 DEF Next

-----------------------------------------------------------------------------
(* Theorems about UserLexicon *)

\* The type invariant: every record of the user's TsiDB has a count between 1 and MAX_REFCNT
\* and readings of the word's length, and no record of the TsiYinDB is without words.
THEOREM TypeOKAlways == Spec => []TypeOK
<1>1. IInv => TypeOK
  <2>1. SUFFICES ASSUME IInv PROVE TypeOK
    OBVIOUS
  <2>2. buf # <<>> => pc = "guess" /\ Len(buf) % 2 = 0
    <3>1. PICK n \in Nat : Characters(buf, n)
      BY <2>1 DEF IInv, Guessing
    <3>2. Len(buf) = 2 * n
      BY <3>1 DEF Characters
    <3>3. QED
      BY <2>1, <3>2 DEF IInv, Guessing
  <2>3. ASSUME NEW w \in DOMAIN tsidb
        PROVE  /\ tsidb[w].refcount \in 1 .. MaxRefCnt
               /\ \A y \in Range(tsidb[w].yins) : Len(w) = 2 * Len(y)
    <3>1. RecordOf(w, tsidb[w])
      BY <2>1 DEF IInv, Stored
    <3>2. PICK ys \in Seq(Reading) : ys = tsidb[w].yins
      BY <3>1 DEF RecordOf
    <3>3. \A i \in 1 .. Len(ys) : Len(w) = 2 * Len(ys[i])
      BY <3>1, <3>2 DEF RecordOf
    <3>4. \A y \in Range(ys) : Len(w) = 2 * Len(y)
      BY <3>3 DEF Range
    <3>5. QED
      BY <3>1, <3>2, <3>4 DEF RecordOf
  <2>4. QED
    BY <2>1, <2>2, <2>3 DEF TypeOK, IInv, Guessing, Lists
<1>2. QED
  BY <1>1, Invariant, PTL

\* What the user taught can be found again, however many Puts failed and processes ended in
\* the middle of a dump before: a dump that comes to its end repairs it all (bimsTsiyinDump).
THEOREM StoredIsListedAlways == Spec => []StoredIsListed
<1>1. IInv => StoredIsListed
  <2>1. SUFFICES ASSUME IInv, todo = <<>>, ~missed, NEW w \in DOMAIN tsidb,
                        NEW y \in Range(tsidb[w].yins)
                 PROVE  w \in Range(WordsUnder(yindb, y))
    BY DEF StoredIsListed
  <2>2. tsidb[w].yins \in Seq(Reading)
    BY <2>1 DEF IInv, Stored, RecordOf
  <2>3. PICK i \in 1 .. Len(tsidb[w].yins) : y = tsidb[w].yins[i]
    BY <2>1, <2>2 DEF Range
  <2>4. ~ InWalk(todo, w, y)
    <3>1. Len(todo) = 0 /\ 1 .. 0 = {}
      BY <2>1
    <3>2. QED
      BY <3>1 DEF InWalk
  <2>5. Listed(yindb, w, y)
    BY <2>1, <2>3, <2>4 DEF IInv, Covered
  <2>6. y \in DOMAIN yindb /\ yindb[y] \in Seq(Word) /\ \E j \in 1 .. Len(yindb[y]) : yindb[y][j] = w
    BY <2>1, <2>5 DEF Listed, IInv, Lists
  <2>7. WordsUnder(yindb, y) = yindb[y]
    BY <2>6 DEF WordsUnder, Get
  <2>8. DOMAIN yindb[y] = 1 .. Len(yindb[y])
    BY <2>6
  <2>9. QED
    BY <2>6, <2>7, <2>8 DEF Range
<1>2. QED
  BY <1>1, Invariant, PTL

\* The user's TsiYinDB makes nothing up: no record lists a word twice, one of another length
\* or one that is not stored, though every dump walks over what was listed before.
THEOREM YinRecordsSoundAlways == Spec => []YinRecordsSound
<1>1. IInv => YinRecordsSound
  <2>1. SUFFICES ASSUME IInv, NEW y \in DOMAIN yindb
                 PROVE  /\ IsInjective(yindb[y])
                        /\ \A w \in Range(yindb[y]) :
                             Len(w) = 2 * Len(y) /\ (w \in DOMAIN tsidb \/ w = <<>>)
    BY DEF YinRecordsSound
  <2>2. /\ yindb[y] \in Seq(Word)
        /\ \A a, b \in 1 .. Len(yindb[y]) : yindb[y][a] = yindb[y][b] => a = b
        /\ \A i \in 1 .. Len(yindb[y]) : Sound(tsidb, yindb[y][i], y)
    BY <2>1 DEF IInv, Lists
  <2>3. DOMAIN yindb[y] = 1 .. Len(yindb[y])
    BY <2>2
  <2>4. IsInjective(yindb[y])
    BY <2>2, <2>3 DEF IsInjective
  <2>5. \A w \in Range(yindb[y]) : Sound(tsidb, w, y)
    BY <2>2, <2>3 DEF Range
  <2>6. QED
    BY <2>4, <2>5 DEF Sound
<1>2. QED
  BY <1>1, Invariant, PTL

\* What is learned is new: the segmentation leaves no run of single characters that is a word
\* of the primary TsiDB, whatever the counts of the characters and however the run ends, so
\* that no such word is stored again unless the user added it with a reading of its own
\* (tabe_guess_newtsi over tabeChunkSegmentationComplex).
THEOREM LearnedIsNewAlways == Spec => []LearnedIsNew
<1>1. Init => Following /\ LearnedIsNew
  BY DEF Init, NoRecords, Following, LearnedIsNew
<1>2. IInv /\ Following /\ LearnedIsNew /\ [Next]_vars => Following' /\ LearnedIsNew'
  BY LearningStep
<1>3. QED
  BY <1>1, <1>2, Invariant, PTL DEF Spec


-----------------------------------------------------------------------------
(* How often *)

\* The numbers up to m that have property H, with H the set of all that have it.
LEMMA OneMore ==
    ASSUME NEW m \in Nat, NEW H
    PROVE  /\ Cardinality({k \in 1 .. m : k \in H}) \in Nat
           /\ Cardinality({k \in 1 .. m + 1 : k \in H})
              = Cardinality({k \in 1 .. m : k \in H}) + IF m + 1 \in H THEN 1 ELSE 0
<1> DEFINE A == {k \in 1 .. m : k \in H}
           B == {k \in 1 .. m + 1 : k \in H}
<1>1. IsFiniteSet(1 .. m)
  BY FS_Interval
<1>2. IsFiniteSet(A) /\ Cardinality(A) \in Nat
  BY <1>1, FS_Subset, FS_CardinalityType
<1>3. m + 1 \notin A
  OBVIOUS
<1>4. CASE m + 1 \in H
  <2>1. B = A \cup {m + 1}
    BY <1>4
  <2> HIDE DEF A, B
  <2>2. Cardinality(B) = Cardinality(A) + 1
    BY <1>2, <1>3, <2>1, FS_AddElement
  <2>3. QED
    BY <1>2, <1>4, <2>2 DEF A, B
<1>5. CASE m + 1 \notin H
  <2>1. B = A
    BY <1>5
  <2>2. QED
    BY <1>2, <1>5, <2>1
<1>6. QED
  BY <1>4, <1>5

\* An element occurs in a sequence a natural number of times.
LEMMA TimesNat ==
    ASSUME NEW S, NEW s \in Seq(S), NEW e
    PROVE  Times(e, s) \in Nat
<1>1. Len(s) \in Nat
  OBVIOUS
<1>2. IsFiniteSet(1 .. Len(s))
  BY <1>1, FS_Interval
<1>3. {k \in 1 .. Len(s) : s[k] = e} \subseteq 1 .. Len(s)
  OBVIOUS
<1>4. QED
  BY <1>2, <1>3, FS_Subset, FS_CardinalityType DEF Times

\* Behind an element more.
LEMMA TimesAppend ==
    ASSUME NEW S, NEW s \in Seq(S), NEW x \in S, NEW e
    PROVE  Times(e, Append(s, x)) = Times(e, s) + IF x = e THEN 1 ELSE 0
<1> DEFINE m == Len(s)
           t == Append(s, x)
           H == {k \in 1 .. m + 1 : t[k] = e}
<1>1. m \in Nat /\ Len(t) = m + 1 /\ t[m + 1] = x /\ \A k \in 1 .. m : t[k] = s[k]
  OBVIOUS
<1>2. {k \in 1 .. m : k \in H} = {k \in 1 .. m : s[k] = e}
  BY <1>1
<1>3. {k \in 1 .. m + 1 : k \in H} = {k \in 1 .. Len(t) : t[k] = e}
  BY <1>1
<1>4. m + 1 \in H <=> x = e
  BY <1>1
<1> HIDE DEF m, t, H
<1>5. Cardinality({k \in 1 .. m + 1 : k \in H})
      = Cardinality({k \in 1 .. m : k \in H}) + IF m + 1 \in H THEN 1 ELSE 0
  BY <1>1, OneMore
<1>6. QED
  BY <1>2, <1>3, <1>4, <1>5 DEF Times, m, t

\* In two sequences one behind the other.
LEMMA TimesConcat ==
    ASSUME NEW S, NEW s \in Seq(S), NEW t \in Seq(S), NEW e
    PROVE  Times(e, s \o t) = Times(e, s) + Times(e, t)
<1> DEFINE Both(n) == Times(e, s \o SubSeq(t, 1, n))
           Behind(n) == Times(e, SubSeq(t, 1, n))
           Good(n) == n <= Len(t) => Both(n) = Times(e, s) + Behind(n)
           T == {n \in Nat : Good(n)}
<1>1. Len(t) \in Nat /\ Times(e, s) \in Nat
  BY TimesNat
<1>2. Both(0) = Times(e, s) /\ Behind(0) = 0
  <2>1. SubSeq(t, 1, 0) = <<>> /\ s \o <<>> = s
    BY <1>1
  <2>2. Times(e, <<>>) = 0
    <3>1. {k \in 1 .. Len(<<>>) : (<<>>)[k] = e} = {}
      OBVIOUS
    <3>2. QED
      BY <3>1, FS_EmptySet DEF Times
  <2>3. QED
    BY <2>1, <2>2, Zenon
<1>3. ASSUME NEW n \in Nat, n + 1 <= Len(t)
      PROVE  \E d \in {0, 1} : Both(n + 1) = Both(n) + d /\ Behind(n + 1) = Behind(n) + d
  <2> DEFINE u == SubSeq(t, 1, n)
             x == t[n + 1]
             d == IF x = e THEN 1 ELSE 0
  <2>1. x \in S /\ u \in Seq(S) /\ SubSeq(t, 1, n + 1) = Append(u, x)
    BY <1>1, <1>3
  <2>2. s \o Append(u, x) = Append(s \o u, x) /\ s \o u \in Seq(S)
    BY <2>1
  <2> HIDE DEF u, x
  <2>3. Times(e, Append(s \o u, x)) = Times(e, s \o u) + d
    BY <2>1, <2>2, TimesAppend
  <2>4. Times(e, Append(u, x)) = Times(e, u) + d
    BY <2>1, TimesAppend
  <2>5. Both(n + 1) = Both(n) + d
    BY <2>1, <2>2, <2>3, Zenon DEF u
  <2>6. Behind(n + 1) = Behind(n) + d
    BY <2>1, <2>4, Zenon DEF u
  <2>7. d \in {0, 1}
    OBVIOUS
  <2>8. QED
    BY <2>5, <2>6, <2>7, Zenon
<1>4. ASSUME NEW n \in Nat, n <= Len(t) PROVE Behind(n) \in Nat
  <2>1. SubSeq(t, 1, n) \in Seq(S)
    BY <1>1, <1>4
  <2>2. QED
    BY <2>1, TimesNat, Zenon
<1>5. Both(Len(t)) = Times(e, s \o t) /\ Behind(Len(t)) = Times(e, t)
  <2>1. SubSeq(t, 1, Len(t)) = t
    OBVIOUS
  <2>2. QED
    BY <2>1, Zenon
<1> HIDE DEF Both, Behind
<1>6. 0 \in T
  BY <1>1, <1>2
<1>7. ASSUME NEW n \in T PROVE n + 1 \in T
  <2>1. SUFFICES ASSUME n + 1 <= Len(t) PROVE Both(n + 1) = Times(e, s) + Behind(n + 1)
    OBVIOUS
  <2>2. n \in Nat /\ n <= Len(t) /\ Both(n) = Times(e, s) + Behind(n)
    BY <1>1, <2>1
  <2>3. PICK d \in {0, 1} : Both(n + 1) = Both(n) + d /\ Behind(n + 1) = Behind(n) + d
    BY <1>3, <2>1, <2>2
  <2>4. QED
    BY <1>1, <1>4, <2>2, <2>3
<1> HIDE DEF Good
<1>8. T = Nat
  BY <1>6, <1>7, Induction
<1>9. Good(Len(t))
  BY <1>1, <1>8
<1>10. QED
  BY <1>1, <1>5, <1>9 DEF Good

-----------------------------------------------------------------------------
(* Turns one after the other *)

\* The greatest number of a set.
LEMMA MaxIs ==
    ASSUME NEW s \in SUBSET Nat, NEW m \in s, \A k \in s : k <= m
    PROVE  Max(s) = m
<1>1. \A k \in s : m >= k
  OBVIOUS
<1>2. ASSUME NEW n \in s, \A k \in s : n >= k PROVE n = m
  BY <1>1, <1>2
<1>3. QED
  BY <1>1, <1>2, Zenon DEF Max

\* The two folds: entries are listed, lines are archived.
Turn(kind, db, e) == IF kind = "list" THEN AddEntry(db, e) ELSE Archive(db, e)

\* A function of sets of numbers up to m that takes its turn at the greatest number last.
Turns(kind, base, es, m, f) ==
    f = [s \in SUBSET (1 .. m) |->
           IF s = {} THEN base ELSE Turn(kind, f[s \ {Max(s)}], es[Max(s)])]

\* There is one, for the numbers up to m + 1 when there is one for those up to m.
LEMMA TurnsMore ==
    ASSUME NEW kind, NEW base, NEW es, NEW m \in Nat, NEW f, Turns(kind, base, es, m, f)
    PROVE  \E g : Turns(kind, base, es, m + 1, g)
<1> DEFINE D == SUBSET (1 .. m)
           E == SUBSET (1 .. m + 1)
           g == [s \in E |-> IF m + 1 \in s THEN Turn(kind, f[s \ {m + 1}], es[m + 1])
                                            ELSE f[s]]
<1>1. ASSUME NEW s \in E
      PROVE  g[s] = IF s = {} THEN base ELSE Turn(kind, g[s \ {Max(s)}], es[Max(s)])
  <2>1. CASE m + 1 \in s
    <3>1. s \in SUBSET Nat /\ \A k \in s : k <= m + 1
      OBVIOUS
    <3>2. Max(s) = m + 1
      BY <2>1, <3>1, MaxIs
    <3>3. s \ {m + 1} \in E /\ m + 1 \notin s \ {m + 1}
      OBVIOUS
    <3>4. g[s \ {m + 1}] = f[s \ {m + 1}]
      BY <3>3
    <3>5. QED
      BY <2>1, <3>2, <3>4
  <2>2. CASE m + 1 \notin s
    <3>1. s \in D /\ g[s] = f[s]
      BY <2>2
    <3>2. f[s] = IF s = {} THEN base ELSE Turn(kind, f[s \ {Max(s)}], es[Max(s)])
      BY <3>1 DEF Turns
    <3>3. s \ {Max(s)} \in E /\ m + 1 \notin s \ {Max(s)}
      BY <2>2
    <3>4. g[s \ {Max(s)}] = f[s \ {Max(s)}]
      BY <3>3
    <3>5. QED
      BY <3>1, <3>2, <3>4
  <2>3. QED
    BY <2>1, <2>2
<1>2. g = [s \in E |-> IF s = {} THEN base ELSE Turn(kind, g[s \ {Max(s)}], es[Max(s)])]
  BY <1>1
<1>3. Turns(kind, base, es, m + 1, g)
  BY <1>2 DEF Turns
<1>4. QED
  BY <1>3

\* The turns can be taken, up to any of them.
LEMMA TurnsThere ==
    ASSUME NEW kind, NEW base, NEW es, NEW m \in Nat
    PROVE  \E f : Turns(kind, base, es, m, f)
<1> DEFINE T == {n \in Nat : \E f : Turns(kind, base, es, n, f)}
<1>1. 0 \in T
  <2> DEFINE f == [s \in SUBSET (1 .. 0) |-> base]
  <2>1. 1 .. 0 = {}
    OBVIOUS
  <2>2. f = [s \in SUBSET (1 .. 0) |->
               IF s = {} THEN base ELSE Turn(kind, f[s \ {Max(s)}], es[Max(s)])]
    <3>1. \A s \in SUBSET (1 .. 0) : s = {}
      BY <2>1
    <3>2. QED
      BY <3>1
  <2>3. Turns(kind, base, es, 0, f)
    BY <2>2 DEF Turns
  <2>4. QED
    BY <2>3
<1>2. ASSUME NEW n \in T PROVE n + 1 \in T
  BY TurnsMore
<1>3. T = Nat
  <2> HIDE DEF T
  <2>1. T \in SUBSET Nat
    BY DEF T
  <2>2. QED
    BY <1>1, <1>2, <2>1, Induction
<1>4. QED
  BY <1>3

\* It ends after as many turns as there are entries.
LEMMA TurnsEnd ==
    ASSUME NEW kind, NEW base, NEW S, NEW es \in Seq(S), NEW f,
           Turns(kind, base, es, Len(es), f)
    PROVE  \E L : /\ L[0] = base /\ L[Len(es)] = f[DOMAIN es]
                  /\ \A n \in 1 .. Len(es) : L[n] = Turn(kind, L[n - 1], es[n])
<1> DEFINE m == Len(es)
           L == [n \in 0 .. m |-> f[1 .. n]]
<1>1. m \in Nat /\ DOMAIN es = 1 .. m
  OBVIOUS
<1>2. ASSUME NEW s \in SUBSET (1 .. m)
      PROVE  f[s] = IF s = {} THEN base ELSE Turn(kind, f[s \ {Max(s)}], es[Max(s)])
  BY <1>2 DEF Turns
<1>3. L[m] = f[DOMAIN es]
  BY <1>1
<1>4. L[0] = base
  <2>1. 1 .. 0 = {} /\ 1 .. 0 \in SUBSET (1 .. m) /\ 0 \in 0 .. m
    BY <1>1
  <2>2. f[1 .. 0] = base
    BY <1>2, <2>1
  <2>3. QED
    BY <2>1, <2>2
<1>5. ASSUME NEW n \in 1 .. m PROVE L[n] = Turn(kind, L[n - 1], es[n])
  <2>1. 1 .. n \in SUBSET (1 .. m) /\ 1 .. n # {} /\ n \in 0 .. m /\ n - 1 \in 0 .. m
    <3>1. n \in 1 .. n
      OBVIOUS
    <3>2. 1 .. n \in SUBSET (1 .. m)
      BY <1>1
    <3>3. n \in 0 .. m /\ n - 1 \in 0 .. m
      BY <1>1
    <3>4. QED
      BY <3>1, <3>2, <3>3
  <2>2. Max(1 .. n) = n
    <3>1. 1 .. n \in SUBSET Nat /\ n \in 1 .. n /\ \A k \in 1 .. n : k <= n
      OBVIOUS
    <3>2. QED
      BY <3>1, MaxIs
  <2>3. (1 .. n) \ {n} = 1 .. n - 1
    BY <1>1
  <2>4. f[1 .. n] = Turn(kind, f[1 .. n - 1], es[n])
    BY <1>2, <2>1, <2>2, <2>3
  <2>5. QED
    BY <2>1, <2>4
<1>6. QED
  BY <1>3, <1>4, <1>5

\* Many entries listed, many lines added.
AddEntries(base, es) == FoldLeft(AddEntry, base, es)
ArchiveAll(base, ls) == FoldLeft(Archive, base, ls)

\* The entries are listed by such turns.
LEMMA ListTurns ==
    ASSUME NEW base, NEW S, NEW es \in Seq(S)
    PROVE  \E L : /\ L[0] = base /\ L[Len(es)] = AddEntries(base, es)
                  /\ \A n \in 1 .. Len(es) : L[n] = AddEntry(L[n - 1], es[n])
<1> DEFINE f == CHOOSE i : i = [s \in SUBSET DOMAIN es |->
                                  IF s = {} THEN base ELSE AddEntry(i[s \ {Max(s)}], es[Max(s)])]
<1>1. Len(es) \in Nat /\ DOMAIN es = 1 .. Len(es)
  OBVIOUS
<1>2. AddEntries(base, es) = f[DOMAIN es]
  BY Zenon DEF AddEntries, FoldLeft, MapThenFoldSet
<1>3. \A db, e : Turn("list", db, e) = AddEntry(db, e)
  BY DEF Turn
<1>4. Turns("list", base, es, Len(es), f)
  <2>1. PICK g : Turns("list", base, es, Len(es), g)
    BY <1>1, TurnsThere
  <2>2. g = [s \in SUBSET DOMAIN es |->
               IF s = {} THEN base ELSE AddEntry(g[s \ {Max(s)}], es[Max(s)])]
    BY <1>1, <1>3, <2>1 DEF Turns
  <2>3. f = [s \in SUBSET DOMAIN es |->
               IF s = {} THEN base ELSE AddEntry(f[s \ {Max(s)}], es[Max(s)])]
    BY <2>2, Zenon
  <2> HIDE DEF f
  <2>4. QED
    BY <1>1, <1>3, <2>3 DEF Turns
<1> HIDE DEF f
<1>5. QED
  BY <1>2, <1>3, <1>4, TurnsEnd

\* The lines are added by such turns.
LEMMA ArchiveTurns ==
    ASSUME NEW base, NEW S, NEW ls \in Seq(S)
    PROVE  \E L : /\ L[0] = base /\ L[Len(ls)] = ArchiveAll(base, ls)
                  /\ \A n \in 1 .. Len(ls) : L[n] = Archive(L[n - 1], ls[n])
<1> DEFINE f == CHOOSE i : i = [s \in SUBSET DOMAIN ls |->
                                  IF s = {} THEN base ELSE Archive(i[s \ {Max(s)}], ls[Max(s)])]
<1>1. Len(ls) \in Nat /\ DOMAIN ls = 1 .. Len(ls)
  OBVIOUS
<1>2. ArchiveAll(base, ls) = f[DOMAIN ls]
  BY Zenon DEF ArchiveAll, FoldLeft, MapThenFoldSet
<1>3. \A db, e : Turn("archive", db, e) = Archive(db, e)
  BY DEF Turn
<1>4. Turns("archive", base, ls, Len(ls), f)
  <2>1. PICK g : Turns("archive", base, ls, Len(ls), g)
    BY <1>1, TurnsThere
  <2>2. g = [s \in SUBSET DOMAIN ls |->
               IF s = {} THEN base ELSE Archive(g[s \ {Max(s)}], ls[Max(s)])]
    BY <1>1, <1>3, <2>1 DEF Turns
  <2>3. f = [s \in SUBSET DOMAIN ls |->
               IF s = {} THEN base ELSE Archive(f[s \ {Max(s)}], ls[Max(s)])]
    BY <2>2, Zenon
  <2> HIDE DEF f
  <2>4. QED
    BY <1>1, <1>3, <2>3 DEF Turns
<1> HIDE DEF f
<1>5. QED
  BY <1>2, <1>3, <1>4, TurnsEnd

-----------------------------------------------------------------------------
(* Entries listed *)

\* One entry more: its reading has a record, with its word behind the others.
LEMMA AddEntryIs ==
    ASSUME NEW ydb, NEW e
    PROVE  /\ DOMAIN AddEntry(ydb, e) = DOMAIN ydb \cup {e.yin}
           /\ \A y : WordsUnder(AddEntry(ydb, e), y)
                     = IF y = e.yin THEN Append(WordsUnder(ydb, y), e.tsi) ELSE WordsUnder(ydb, y)
BY DEF AddEntry, WordsUnder, Get, Put, CanPut

\* What a listing of the first n entries holds.
Holds(W, R, es, n, ydb) ==
    /\ DOMAIN ydb = {es[k].yin : k \in 1 .. n}
    /\ \A y \in R :
         /\ WordsUnder(ydb, y) \in Seq(W)
         /\ \A w \in W : Times(w, WordsUnder(ydb, y))
                         = Cardinality({k \in 1 .. n : es[k] = [tsi |-> w, yin |-> y]})

\* Before the first entry.
LEMMA HoldsNothing ==
    ASSUME NEW W, NEW R, NEW es
    PROVE  Holds(W, R, es, 0, NoRecords)
<1>1. DOMAIN NoRecords = {} /\ 1 .. 0 = {}
  BY DEF NoRecords
<1>2. ASSUME NEW y PROVE WordsUnder(NoRecords, y) = <<>>
  BY <1>1 DEF WordsUnder, Get
<1>3. <<>> \in Seq(W)
  OBVIOUS
<1>4. ASSUME NEW w PROVE Times(w, <<>>) = 0
  <2>1. {k \in 1 .. Len(<<>>) : (<<>>)[k] = w} = {}
    OBVIOUS
  <2>2. QED
    BY <2>1, FS_EmptySet DEF Times
<1>5. ASSUME NEW e PROVE Cardinality({k \in 1 .. 0 : es[k] = e}) = 0
  <2>1. {k \in 1 .. 0 : es[k] = e} = {}
    BY <1>1
  <2>2. QED
    BY <2>1, FS_EmptySet
<1>6. DOMAIN NoRecords = {es[k].yin : k \in 1 .. 0}
  BY <1>1
<1>7. QED
  BY <1>2, <1>3, <1>4, <1>5, <1>6, Zenon DEF Holds

\* An entry more.
LEMMA HoldsMore ==
    ASSUME NEW W, NEW R, NEW es \in Seq([tsi : W, yin : R]), NEW n \in Nat, n < Len(es),
           NEW ydb, Holds(W, R, es, n, ydb)
    PROVE  Holds(W, R, es, n + 1, AddEntry(ydb, es[n + 1]))
<1> DEFINE e == es[n + 1]
           new == AddEntry(ydb, e)
           Count(m, x) == Cardinality({k \in 1 .. m : es[k] = x})
<1>1. e \in [tsi : W, yin : R] /\ e.tsi \in W /\ e.yin \in R /\ e = [tsi |-> e.tsi, yin |-> e.yin]
  <2>1. n + 1 \in 1 .. Len(es)
    BY LenProperties
  <2>2. e \in [tsi : W, yin : R]
    BY <2>1, ElementOfSeq
  <2> HIDE DEF e
  <2>3. QED
    BY <2>2
<1>2. DOMAIN new = {es[k].yin : k \in 1 .. n + 1}
  <2>1. DOMAIN new = {es[k].yin : k \in 1 .. n} \cup {e.yin}
    BY AddEntryIs DEF Holds
  <2>2. 1 .. n + 1 = (1 .. n) \cup {n + 1}
    OBVIOUS
  <2> HIDE DEF new
  <2>3. QED
    BY <2>1, <2>2
<1>3. ASSUME NEW x
      PROVE  Count(n, x) \in Nat /\ Count(n + 1, x) = Count(n, x) + IF e = x THEN 1 ELSE 0
  <2> DEFINE H == {k \in Nat : es[k] = x}
  <2>1. {k \in 1 .. n : k \in H} = {k \in 1 .. n : es[k] = x}
        /\ {k \in 1 .. n + 1 : k \in H} = {k \in 1 .. n + 1 : es[k] = x}
    OBVIOUS
  <2>2. n + 1 \in H <=> e = x
    OBVIOUS
  <2> HIDE DEF H, e
  <2>3. /\ Cardinality({k \in 1 .. n : k \in H}) \in Nat
        /\ Cardinality({k \in 1 .. n + 1 : k \in H})
           = Cardinality({k \in 1 .. n : k \in H}) + IF n + 1 \in H THEN 1 ELSE 0
    BY OneMore
  <2>4. QED
    BY <2>1, <2>2, <2>3
<1> HIDE DEF new, e, Count
<1>4. ASSUME NEW y \in R
      PROVE  /\ WordsUnder(new, y) \in Seq(W)
             /\ \A w \in W : Times(w, WordsUnder(new, y)) = Count(n + 1, [tsi |-> w, yin |-> y])
  <2> DEFINE old == WordsUnder(ydb, y)
  <2>1. old \in Seq(W) /\ \A w \in W : Times(w, old) = Count(n, [tsi |-> w, yin |-> y])
    BY DEF Holds, Count
  <2>2. WordsUnder(new, y) = IF y = e.yin THEN Append(old, e.tsi) ELSE old
    BY AddEntryIs DEF new
  <2> HIDE DEF old
  <2>3. CASE y = e.yin
    <3>1. WordsUnder(new, y) = Append(old, e.tsi)
      BY <2>2, <2>3
    <3>2. Append(old, e.tsi) \in Seq(W)
      BY <1>1, <2>1
    <3>3. ASSUME NEW w \in W
          PROVE  Times(w, Append(old, e.tsi)) = Count(n + 1, [tsi |-> w, yin |-> y])
      <4>1. Times(w, Append(old, e.tsi)) = Times(w, old) + IF e.tsi = w THEN 1 ELSE 0
        BY <1>1, <2>1, TimesAppend
      <4>2. e.tsi = w <=> e = [tsi |-> w, yin |-> y]
        BY <1>1, <2>3
      <4>3. QED
        BY <1>3, <2>1, <4>1, <4>2
    <3>4. QED
      BY <3>1, <3>2, <3>3
  <2>4. CASE y # e.yin
    <3>1. WordsUnder(new, y) = old
      BY <2>2, <2>4
    <3>2. ASSUME NEW w \in W PROVE Times(w, old) = Count(n + 1, [tsi |-> w, yin |-> y])
      <4>1. e # [tsi |-> w, yin |-> y]
        BY <2>4
      <4>2. QED
        BY <1>3, <2>1, <4>1
    <3>3. QED
      BY <2>1, <3>1, <3>2
  <2>5. QED
    BY <2>3, <2>4
<1>5. Holds(W, R, es, n + 1, new)
  BY <1>2, <1>4 DEF Holds, Count
<1>6. QED
  BY <1>5 DEF new, e

\* The listing of entries one after the other: a reading has its record, and lists a word as
\* often as the word has an entry with the reading.
Turned(W, R, es, ydb) ==
    /\ DOMAIN ydb = {es[k].yin : k \in 1 .. Len(es)}
    /\ \A y \in R :
         /\ WordsUnder(ydb, y) \in Seq(W)
         /\ \A w \in W : Times(w, WordsUnder(ydb, y)) = Times([tsi |-> w, yin |-> y], es)

\* What is listed of entries that go into no TsiYinDB.
LEMMA ListingCounts ==
    ASSUME NEW W, NEW R, NEW es \in Seq([tsi : W, yin : R])
    PROVE  Turned(W, R, es, AddEntries(NoRecords, es))
<1>1. PICK L : /\ L[0] = NoRecords /\ L[Len(es)] = AddEntries(NoRecords, es)
               /\ \A n \in 1 .. Len(es) : L[n] = AddEntry(L[n - 1], es[n])
  <2> DEFINE S == [tsi : W, yin : R]
  <2>1. es \in Seq(S)
    OBVIOUS
  <2> HIDE DEF S
  <2>2. QED
    BY <2>1, ListTurns
<1> DEFINE T == {n \in Nat : n <= Len(es) => Holds(W, R, es, n, L[n])}
<1>2. Len(es) \in Nat
  OBVIOUS
<1>3. 0 \in T
  <2>1. Holds(W, R, es, 0, L[0])
    BY <1>1, HoldsNothing, Zenon
  <2>2. QED
    BY <2>1
<1>4. ASSUME NEW n \in T PROVE n + 1 \in T
  <2>1. SUFFICES ASSUME n + 1 <= Len(es) PROVE Holds(W, R, es, n + 1, L[n + 1])
    OBVIOUS
  <2>2. n \in Nat /\ n < Len(es) /\ Holds(W, R, es, n, L[n])
    BY <1>2, <2>1
  <2>3. L[n + 1] = AddEntry(L[n], es[n + 1])
    <3>1. n + 1 \in 1 .. Len(es) /\ (n + 1) - 1 = n
      BY <1>2, <2>1, <2>2
    <3>2. QED
      BY <1>1, <3>1
  <2>4. QED
    BY <2>2, <2>3, HoldsMore
<1>5. T = Nat
  <2> HIDE DEF T
  <2>1. T \in SUBSET Nat
    BY DEF T
  <2>2. QED
    BY <1>3, <1>4, <2>1, Induction
<1>6. Holds(W, R, es, Len(es), AddEntries(NoRecords, es))
  BY <1>1, <1>2, <1>5
<1>7. QED
  BY <1>6 DEF Holds, Times, Turned

-----------------------------------------------------------------------------
(* From the last syllable to the first *)

\* What holds behind the last and goes on from each to the one before holds for all.
LEMMA Downwards ==
    ASSUME NEW n \in Nat, NEW T \in SUBSET Nat, n + 1 \in T,
           \A k \in 1 .. n : k + 1 \in T => k \in T
    PROVE  \A k \in 1 .. n + 1 : k \in T
<1> DEFINE U == {j \in Nat : j <= n => n + 1 - j \in T}
<1>1. 0 \in U
  OBVIOUS
<1>2. ASSUME NEW j \in U PROVE j + 1 \in U
  <2>1. SUFFICES ASSUME j + 1 <= n PROVE n + 1 - (j + 1) \in T
    OBVIOUS
  <2>2. j \in Nat /\ n + 1 - j \in T
    BY <2>1
  <2>3. n - j \in 1 .. n /\ (n - j) + 1 = n + 1 - j /\ n + 1 - (j + 1) = n - j
    BY <2>1, <2>2
  <2>4. QED
    BY <2>2, <2>3
<1>3. U = Nat
  <2>1. U \in SUBSET Nat
    OBVIOUS
  <2> HIDE DEF U
  <2>2. QED
    BY <1>1, <1>2, <2>1, Induction
<1>4. ASSUME NEW k \in 1 .. n + 1 PROVE k \in T
  <2>1. n + 1 - k \in Nat /\ n + 1 - k <= n /\ n + 1 - (n + 1 - k) = k
    OBVIOUS
  <2>2. n + 1 - k \in U
    BY <1>3, <2>1
  <2>3. QED
    BY <2>1, <2>2
<1>5. QED
  BY <1>4

\* A recursion from behind the last to the first.
Solves(D, n, b, G, f) ==
    /\ f \in [1 .. n + 1 -> D]
    /\ f[n + 1] = b
    /\ \A k \in 1 .. n : f[k] = G[<<k, f[k + 1]>>]

\* There is one.
LEMMA Descends ==
    ASSUME NEW D, NEW n \in Nat, NEW b \in D, NEW G \in [(1 .. n) \X D -> D]
    PROVE  \E f : Solves(D, n, b, G, f)
<1> DEFINE Down(f, j) == f[n + 1] = b /\ \A k \in n + 1 - j .. n : f[k] = G[<<k, f[k + 1]>>]
           U == {j \in Nat : j <= n => \E f \in [1 .. n + 1 -> D] : Down(f, j)}
<1>1. 0 \in U
  <2> DEFINE f == [k \in 1 .. n + 1 |-> b]
  <2>1. f \in [1 .. n + 1 -> D] /\ f[n + 1] = b /\ n + 1 - 0 .. n = {}
    OBVIOUS
  <2> HIDE DEF f
  <2>2. QED
    BY <2>1
<1>2. ASSUME NEW j \in U PROVE j + 1 \in U
  <2>1. SUFFICES ASSUME j + 1 <= n PROVE \E f \in [1 .. n + 1 -> D] : Down(f, j + 1)
    OBVIOUS
  <2>2. PICK f \in [1 .. n + 1 -> D] : Down(f, j)
    BY <2>1
  <2> DEFINE m == n - j
             x == G[<<m, f[m + 1]>>]
             g == [k \in 1 .. n + 1 |-> IF k = m THEN x ELSE f[k]]
  <2>3. m \in 1 .. n /\ m + 1 \in 1 .. n + 1 /\ n + 1 - (j + 1) = m /\ n + 1 - j = m + 1
    BY <2>1
  <2>4. f[m + 1] \in D
    BY <2>3
  <2>5. x \in D
    BY <2>3, <2>4
  <2> HIDE DEF m, x
  <2>6. g \in [1 .. n + 1 -> D] /\ g[n + 1] = b
    BY <2>2, <2>3, <2>5
  <2>7. ASSUME NEW k \in m .. n PROVE g[k] = G[<<k, g[k + 1]>>]
    <3>1. k \in 1 .. n + 1 /\ k + 1 \in 1 .. n + 1 /\ k + 1 # m /\ k \in Nat
      BY <2>3
    <3>2. g[k + 1] = f[k + 1]
      BY <3>1
    <3>3. CASE k = m
      BY <3>1, <3>2, <3>3 DEF x
    <3>4. CASE k # m
      <4>1. k \in m + 1 .. n
        BY <2>3, <3>4
      <4>2. f[k] = G[<<k, f[k + 1]>>]
        BY <2>2, <2>3, <4>1
      <4>3. QED
        BY <3>1, <3>2, <3>4, <4>2
    <3>5. QED
      BY <3>3, <3>4
  <2> HIDE DEF g
  <2>8. Down(g, j + 1)
    BY <2>3, <2>6, <2>7
  <2>9. QED
    BY <2>6, <2>8
<1>3. U = Nat
  <2>1. U \in SUBSET Nat
    OBVIOUS
  <2> HIDE DEF U
  <2>2. QED
    BY <1>1, <1>2, <2>1, Induction
<1>4. PICK f \in [1 .. n + 1 -> D] : Down(f, n)
  <2> HIDE DEF Down
  <2>1. \A j \in U : j <= n => \E f \in [1 .. n + 1 -> D] : Down(f, j)
    OBVIOUS
  <2> HIDE DEF U
  <2>2. n \in U /\ n <= n
    BY <1>3
  <2>3. QED
    BY <2>1, <2>2, Zenon
<1>5. n + 1 - n = 1
  OBVIOUS
<1>6. QED
  BY <1>4, <1>5 DEF Solves

-----------------------------------------------------------------------------
(* The readings of a word *)

\* The sequences of so many syllables.
Syllables(len) == {s \in Seq(Nat) : Len(s) = len}

\* The records of a TsiDB: every reading has a syllable for each character of its word.
Kept(db) ==
    /\ DOMAIN db \in SUBSET Seq(1 .. 255) /\ IsFiniteSet(DOMAIN db)
    /\ \A w \in DOMAIN db : Len(w) >= 2 /\ db[w].yins \in Seq(Syllables(Len(w) \div 2))

\* The readings of a character are one syllable each.
LEMMA ZhiYinIs ==
    ASSUME NEW db, Kept(db), NEW z, Len(z) = 2
    PROVE  ZhiYin(db, z) \in Seq(Syllables(1))
<1>1. CASE z \in DOMAIN db
  <2>1. Len(z) \div 2 = 1
    OBVIOUS
  <2>2. db[z].yins \in Seq(Syllables(1))
    BY <1>1, <2>1 DEF Kept
  <2>3. QED
    BY <1>1, <2>2 DEF ZhiYin, Get
<1>2. CASE z \notin DOMAIN db
  BY <1>2 DEF ZhiYin, Get, NewTsi, TsiInfo
<1>3. QED
  BY <1>1, <1>2

\* Each reading put before each of those that follow it.
Combined(heads, tails) ==
    FlattenSeq([r \in 1 .. Len(tails) |-> [a \in 1 .. Len(heads) |-> heads[a] \o tails[r]]])

\* They have a syllable more.
LEMMA CombinedAre ==
    ASSUME NEW heads, NEW m \in Nat, heads \in Seq(Syllables(1)),
           NEW tails \in Seq(Syllables(m))
    PROVE  Combined(heads, tails) \in Seq(Syllables(m + 1))
<1> DEFINE Row(r) == [a \in 1 .. Len(heads) |-> heads[a] \o tails[r]]
           ss == [r \in 1 .. Len(tails) |-> Row(r)]
<1>1. Len(heads) \in Nat /\ Len(tails) \in Nat
  OBVIOUS
<1>2. ASSUME NEW a \in 1 .. Len(heads), NEW r \in 1 .. Len(tails)
      PROVE  heads[a] \o tails[r] \in Syllables(m + 1)
  <2>1. heads[a] \in Syllables(1) /\ tails[r] \in Syllables(m)
    BY ElementOfSeq
  <2>2. heads[a] \in Seq(Nat) /\ tails[r] \in Seq(Nat) /\ Len(heads[a]) = 1 /\ Len(tails[r]) = m
    BY <2>1 DEF Syllables
  <2> DEFINE h == heads[a]
             t == tails[r]
  <2>3. h \in Seq(Nat) /\ t \in Seq(Nat) /\ Len(h) = 1 /\ Len(t) = m
    BY <2>2
  <2> HIDE DEF h, t
  <2>4. h \o t \in Seq(Nat) /\ Len(h \o t) = m + 1
    <3>1. h \o t \in Seq(Nat) /\ Len(h \o t) = Len(h) + Len(t)
      BY <2>3, ConcatProperties
    <3>2. QED
      BY <2>3, <3>1
  <2>5. h \o t \in Syllables(m + 1)
    BY <2>4 DEF Syllables
  <2>6. QED
    BY <2>5 DEF h, t
<1>3. ASSUME NEW r \in 1 .. Len(tails) PROVE Row(r) \in Seq(Syllables(m + 1))
  <2> DEFINE S == Syllables(m + 1)
  <2> HIDE DEF S
  <2>1. \A a \in 1 .. Len(heads) : heads[a] \o tails[r] \in S
    BY <1>2 DEF S
  <2>2. Row(r) \in [1 .. Len(heads) -> S]
    BY <2>1
  <2>3. Row(r) \in Seq(S)
    BY <1>1, <2>2
  <2>4. QED
    BY <2>3 DEF S
<1>4. ss \in Seq(Seq(Syllables(m + 1)))
  <2> HIDE DEF Row
  <2>1. QED
    BY <1>1, <1>3
<1> HIDE DEF ss
<1>5. FlattenSeq(ss) \in Seq(Syllables(m + 1))
  BY <1>4, FlattenHolds
<1>6. QED
  BY <1>5 DEF Combined, ss

\* The characters of a word.
LEMMA ZhiOf ==
    ASSUME NEW w \in Seq(1 .. 255), NEW k \in 1 .. Len(w) \div 2
    PROVE  Len(Zhis(w)[k]) = 2 /\ Zhis(w)[k] = SubSeq(w, 2 * k - 1, 2 * k)
<1>1. Zhis(w)[k] = SubSeq(w, 2 * k - 1, 2 * k)
  BY DEF Zhis
<1>2. 2 * k - 1 \in Nat /\ 2 * k \in Nat /\ 1 <= 2 * k - 1 /\ 2 * k <= Len(w)
  OBVIOUS
<1>3. Len(SubSeq(w, 2 * k - 1, 2 * k)) = 2
  BY <1>2
<1>4. QED
  BY <1>1, <1>3

\* The readings of a word's characters are one syllable each.
Voiced(db, w) ==
    \A k \in 1 .. Len(w) \div 2 : ZhiYin(db, Zhis(w)[k]) \in Seq(Syllables(1))

\* They are, in a TsiDB.
LEMMA KeptVoiced ==
    ASSUME NEW db, Kept(db), NEW w \in Seq(1 .. 255)
    PROVE  Voiced(db, w)
BY ZhiOf, ZhiYinIs DEF Voiced

\* The readings of what follows each character, from behind the last to the first.
Combining(db, w, f) ==
    /\ f[Len(w) \div 2 + 1] = << <<>> >>
    /\ \A k \in 1 .. Len(w) \div 2 : f[k] = Combined(ZhiYin(db, Zhis(w)[k]), f[k + 1])
    /\ \A k \in 1 .. Len(w) \div 2 + 1 : f[k] \in Seq(Syllables(Len(w) \div 2 + 1 - k))

\* The possible readings are what is combined from the first character on.
LEMMA PossibleIs ==
    ASSUME NEW db, NEW w \in Seq(1 .. 255), Voiced(db, w)
    PROVE  \E f : Combining(db, w, f) /\ PossibleTsiYins(db, w) = f[1]
<1> DEFINE n == Len(w) \div 2
           z == Zhis(w)
           D == Seq(Seq(Nat))
           Next1(k, tails) ==
             FlattenSeq([r \in 1 .. Len(tails) |->
               [a \in 1 .. Len(ZhiYin(db, z[k])) |-> ZhiYin(db, z[k])[a] \o tails[r]]])
           G == [p \in (1 .. n) \X D |-> Next1(p[1], p[2])]
           from == CHOOSE f : f = [k \in 1 .. Len(z) + 1 |->
                                     IF k > Len(z) THEN << <<>> >> ELSE Next1(k, f[k + 1])]
<1>1. Len(w) \in Nat /\ n \in Nat /\ 2 * n <= Len(w)
  OBVIOUS
<1>2. Len(z) = n /\ \A k \in 1 .. n : z[k] = SubSeq(w, 2 * k - 1, 2 * k)
  BY <1>1 DEF Zhis
<1>3. PossibleTsiYins(db, w) = from[1]
  BY Zenon DEF PossibleTsiYins
<1> HIDE DEF n, z
<1>4. ASSUME NEW k \in 1 .. n
      PROVE  ZhiYin(db, z[k]) \in Seq(Syllables(1))
  BY DEF Voiced, n, z
<1>5. ASSUME NEW k \in 1 .. n, NEW m \in Nat, NEW tails \in Seq(Syllables(m))
      PROVE  Next1(k, tails) \in Seq(Syllables(m + 1))
  <2>1. Combined(ZhiYin(db, z[k]), tails) \in Seq(Syllables(m + 1))
    BY <1>4, CombinedAre
  <2>2. QED
    BY <2>1, Zenon DEF Combined
<1>6. ASSUME NEW k \in 1 .. n, NEW tails \in D PROVE Next1(k, tails) \in D
  <2> DEFINE heads == ZhiYin(db, z[k])
             Row(r) == [a \in 1 .. Len(heads) |-> heads[a] \o tails[r]]
             ss == [r \in 1 .. Len(tails) |-> Row(r)]
  <2>1. heads \in D
    <3>1. Syllables(1) \subseteq Seq(Nat)
      BY DEF Syllables
    <3>2. QED
      BY <1>4, <3>1, SeqOfMore
  <2> HIDE DEF heads
  <2>2. \A a \in 1 .. Len(heads), r \in 1 .. Len(tails) : heads[a] \o tails[r] \in Seq(Nat)
    <3>1. SUFFICES ASSUME NEW a \in 1 .. Len(heads), NEW r \in 1 .. Len(tails)
                   PROVE  heads[a] \o tails[r] \in Seq(Nat)
      OBVIOUS
    <3>2. heads[a] \in Seq(Nat) /\ tails[r] \in Seq(Nat)
      BY <2>1, ElementOfSeq
    <3>3. QED
      BY <3>2, ConcatProperties
  <2>3. ASSUME NEW r \in 1 .. Len(tails) PROVE Row(r) \in D
    <3> DEFINE S == Seq(Nat)
    <3> HIDE DEF S
    <3>1. \A a \in 1 .. Len(heads) : heads[a] \o tails[r] \in S
      BY <2>2 DEF S
    <3>2. Len(heads) \in Nat
      BY <2>1
    <3>3. Row(r) \in Seq(S)
      BY <3>1, <3>2
    <3>4. QED
      BY <3>3 DEF S
  <2>4. ss \in Seq(D)
    <3>1. Len(tails) \in Nat
      OBVIOUS
    <3> HIDE DEF Row, D
    <3>2. QED
      BY <2>3, <3>1
  <2> HIDE DEF ss
  <2>5. FlattenSeq(ss) \in D
    BY <2>4, FlattenHolds
  <2>6. QED
    BY <2>5 DEF ss, heads
<1>7. << <<>> >> \in D /\ << <<>> >> \in Seq(Syllables(0))
  BY DEF Syllables
<1> HIDE DEF D
<1>8. from = [k \in 1 .. n + 1 |-> IF k > n THEN << <<>> >> ELSE Next1(k, from[k + 1])]
  <2>1. G \in [(1 .. n) \X D -> D]
    BY <1>6
  <2> HIDE DEF G
  <2>2. PICK f : Solves(D, n, << <<>> >>, G, f)
    BY <1>1, <1>7, <2>1, Descends
  <2>3. ASSUME NEW k \in 1 .. n + 1
        PROVE  f[k] = IF k > n THEN << <<>> >> ELSE Next1(k, f[k + 1])
    <3>1. CASE k > n
      <4>1. k = n + 1
        BY <1>1, <3>1
      <4>2. QED
        BY <2>2, <3>1, <4>1 DEF Solves
    <3>2. CASE ~ (k > n)
      <4>1. k \in 1 .. n /\ k + 1 \in 1 .. n + 1
        BY <1>1, <3>2
      <4>2. f[k] = G[<<k, f[k + 1]>>] /\ f[k + 1] \in D
        BY <2>2, <4>1 DEF Solves
      <4>3. G[<<k, f[k + 1]>>] = Next1(k, f[k + 1])
        BY <4>1, <4>2, Zenon DEF G
      <4>4. QED
        BY <3>2, <4>2, <4>3
    <3>3. QED
      BY <3>1, <3>2
  <2> HIDE DEF Next1
  <2>4. f = [k \in 1 .. n + 1 |-> IF k > n THEN << <<>> >> ELSE Next1(k, f[k + 1])]
    <3>1. f = [k \in 1 .. n + 1 |-> f[k]]
      BY <2>2 DEF Solves
    <3> DEFINE h(k) == IF k > n THEN << <<>> >> ELSE Next1(k, f[k + 1])
    <3>2. \A k \in 1 .. n + 1 : f[k] = h(k)
      BY <2>3
    <3> HIDE DEF h
    <3>3. f = [k \in 1 .. n + 1 |-> h(k)]
      BY <3>1, <3>2
    <3>4. QED
      BY <3>3, Zenon DEF h
  <2>5. QED
    BY <1>2, <2>4, Zenon DEF from
<1> HIDE DEF from, Next1, G
<1> DEFINE T == {k \in 1 .. n + 1 : from[k] \in Seq(Syllables(n + 1 - k))}
<1>9. n + 1 \in T
  <2>1. n + 1 \in 1 .. n + 1 /\ n + 1 > n /\ n + 1 - (n + 1) = 0
    BY <1>1
  <2>2. from[n + 1] = << <<>> >>
    BY <1>8, <2>1
  <2>3. QED
    BY <1>7, <2>1, <2>2
<1>10. ASSUME NEW k \in 1 .. n, k + 1 \in T PROVE k \in T
  <2>1. /\ k \in 1 .. n + 1 /\ ~ (k > n) /\ n - k \in Nat
        /\ n + 1 - (k + 1) = n - k /\ (n - k) + 1 = n + 1 - k
    BY <1>1
  <2>2. from[k] = Next1(k, from[k + 1])
    BY <1>8, <2>1
  <2>3. from[k + 1] \in Seq(Syllables(n - k))
    BY <1>10, <2>1
  <2>4. from[k] \in Seq(Syllables(n + 1 - k))
    BY <1>5, <2>1, <2>2, <2>3
  <2>5. QED
    BY <2>1, <2>4
<1>11. \A k \in 1 .. n + 1 : k \in T
  <2>1. T \in SUBSET Nat
    OBVIOUS
  <2> HIDE DEF T
  <2>2. QED
    BY <1>1, <1>9, <1>10, <2>1, Downwards
<1>12. ASSUME NEW k \in 1 .. n PROVE from[k] = Combined(ZhiYin(db, z[k]), from[k + 1])
  <2>1. k \in 1 .. n + 1 /\ ~ (k > n)
    BY <1>1
  <2>2. from[k] = Next1(k, from[k + 1])
    BY <1>8, <2>1
  <2>3. QED
    BY <2>2, Zenon DEF Next1, Combined
<1>13. from[n + 1] = << <<>> >>
  <2>1. n + 1 \in 1 .. n + 1 /\ n + 1 > n
    BY <1>1
  <2>2. QED
    BY <1>8, <2>1
<1>14. Combining(db, w, from)
  <2>1. \A k \in 1 .. n + 1 : from[k] \in Seq(Syllables(n + 1 - k))
    BY <1>11
  <2> HIDE DEF T
  <2>2. QED
    BY <1>12, <1>13, <2>1, Zenon DEF Combining, n, z
<1>15. QED
  BY <1>3, <1>14

\* The possible readings of a word have a syllable for each of its characters.
LEMMA PossibleAre ==
    ASSUME NEW db, Kept(db), NEW w \in Seq(1 .. 255)
    PROVE  PossibleTsiYins(db, w) \in Seq(Syllables(Len(w) \div 2))
<1> DEFINE n == Len(w) \div 2
<1>1. n \in Nat /\ 1 \in 1 .. n + 1 /\ n + 1 - 1 = n
  OBVIOUS
<1>2. Voiced(db, w)
  BY KeptVoiced
<1>3. PICK f : Combining(db, w, f) /\ PossibleTsiYins(db, w) = f[1]
  BY <1>2, PossibleIs
<1>4. f[1] \in Seq(Syllables(n + 1 - 1))
  <2>1. \A k \in 1 .. n + 1 : f[k] \in Seq(Syllables(n + 1 - k))
    BY <1>3 DEF Combining
  <2> HIDE DEF n
  <2>2. QED
    BY <1>1, <2>1
<1>5. QED
  BY <1>1, <1>3, <1>4

-----------------------------------------------------------------------------
(* The listing of a TsiDB *)

\* An element that only one of the sequences in a row holds occurs as often as there.
LEMMA FlattenTimes ==
    ASSUME NEW S, NEW ss \in Seq(Seq(S)), NEW e, NEW p \in 1 .. Len(ss),
           \A k \in 1 .. Len(ss) : k # p => Times(e, ss[k]) = 0
    PROVE  Times(e, FlattenSeq(ss)) = Times(e, ss[p])
<1> DEFINE n == Len(ss)
           x == Times(e, ss[p])
<1>1. n \in Nat /\ n > 0
  OBVIOUS
<1>2. ASSUME NEW k \in 1 .. n PROVE ss[k] \in Seq(S)
  BY ElementOfSeq
<1>3. x \in Nat
  BY <1>2, TimesNat
<1>4. PICK g : Rows(S, ss, n, g)
  BY <1>1, RowsThere
<1>5. FlattenSeq(ss) = g[n]
  BY <1>1, <1>4, FlattenIsLastRow
<1> HIDE DEF n, x
<1>0. ASSUME NEW m \in 1 .. n
      PROVE  g[m] \in Seq(S) /\ g[m] = IF m = 1 THEN ss[m] ELSE g[m - 1] \o ss[m]
  BY <1>1, <1>4, RowIs
<1> DEFINE At(i) == IF i < p THEN 0 ELSE x
           Good(i) == Times(e, g[i]) = At(i)
           T == {i \in Nat : i + 1 <= n => Good(i + 1)}
<1>6. ASSUME NEW i \in 1 .. n
      PROVE  Times(e, ss[i]) = IF i = p THEN x ELSE 0
  BY DEF n, x
<1>7. 0 \in T
  <2>1. 1 \in 1 .. n
    BY <1>1
  <2>2. g[1] = ss[1]
    BY <1>0, <2>1
  <2>3. Times(e, g[1]) = IF 1 = p THEN x ELSE 0
    BY <1>6, <2>1, <2>2
  <2>4. p \in Nat /\ p >= 1
    BY DEF n
  <2>5. Good(0 + 1)
    BY <1>3, <2>3, <2>4
  <2> HIDE DEF Good
  <2>6. QED
    BY <2>5
<1>8. ASSUME NEW i \in T PROVE i + 1 \in T
  <2>1. SUFFICES ASSUME (i + 1) + 1 <= n PROVE Good((i + 1) + 1)
    BY DEF T
  <2> DEFINE m == (i + 1) + 1
  <2>2. i \in Nat /\ i + 1 <= n
    BY <1>1, <2>1
  <2>3. Times(e, g[i + 1]) = At(i + 1)
    BY <2>2
  <2>4. m \in 1 .. n /\ m # 1 /\ m - 1 = i + 1 /\ i + 1 \in 1 .. n
    BY <1>1, <2>1, <2>2
  <2> HIDE DEF m
  <2>5. g[m] = g[i + 1] \o ss[m] /\ g[i + 1] \in Seq(S)
    <3>1. g[m] = IF m = 1 THEN ss[m] ELSE g[m - 1] \o ss[m]
      BY <1>0, <2>4, Zenon
    <3>2. g[i + 1] \in Seq(S)
      BY <1>0, <2>4, Zenon
    <3>3. QED
      BY <2>4, <3>1, <3>2, Zenon
  <2>6. Times(e, g[m]) = Times(e, g[i + 1]) + Times(e, ss[m])
    <3>1. ss[m] \in Seq(S)
      BY <1>2, <2>4
    <3>2. QED
      BY <2>5, <3>1, TimesConcat
  <2>7. Times(e, ss[m]) = IF m = p THEN x ELSE 0
    BY <1>6, <2>4
  <2>8. At(i + 1) + (IF m = p THEN x ELSE 0) = At(m)
    <3>1. p \in Nat /\ m = (i + 1) + 1
      BY DEF n, m
    <3>2. QED
      BY <1>3, <2>2, <3>1
  <2>9. Times(e, g[m]) = At(m)
    BY <2>3, <2>6, <2>7, <2>8, Zenon
  <2>10. QED
    BY <2>9, Zenon DEF m
<1>9. T = Nat
  <2>1. T \in SUBSET Nat
    OBVIOUS
  <2> HIDE DEF T
  <2>2. QED
    BY <1>7, <1>8, <2>1, Induction
<1>10. Good(n)
  <2>1. n - 1 \in Nat /\ (n - 1) + 1 = n
    BY <1>1
  <2> HIDE DEF Good
  <2>2. (n - 1) + 1 <= n => Good((n - 1) + 1)
    BY <1>9, <2>1
  <2>3. QED
    BY <1>1, <2>1, <2>2
<1>11. At(n) = x
  <2>1. p \in Nat /\ n \in Nat /\ ~ (n < p)
    BY <1>1 DEF n
  <2>2. QED
    BY <2>1
<1>12. QED
  <2>1. Times(e, g[n]) = x
    BY <1>10, <1>11, Zenon
  <2>2. QED
    BY <1>5, <2>1, Zenon DEF x

\* The entries of one word.
EntriesOf(w, yins) == [j \in 1 .. Len(yins) |-> [tsi |-> w, yin |-> yins[j]]]

\* A word's entries have a reading as often as the word has it.
LEMMA EntriesOfTimes ==
    ASSUME NEW R, NEW yins \in Seq(R), NEW v, NEW w, NEW y
    PROVE  Times([tsi |-> w, yin |-> y], EntriesOf(v, yins))
           = IF v = w THEN Times(y, yins) ELSE 0
<1> DEFINE row == EntriesOf(v, yins)
           e == [tsi |-> w, yin |-> y]
           A == {k \in 1 .. Len(row) : row[k] = e}
<1>1. Len(row) = Len(yins) /\ \A k \in 1 .. Len(yins) : row[k] = [tsi |-> v, yin |-> yins[k]]
  BY DEF EntriesOf
<1>2. CASE v = w
  <2> HIDE DEF row
  <2>0. ASSUME NEW x PROVE [tsi |-> v, yin |-> x] = e <=> x = y
    BY <1>2
  <2>1. \A k \in 1 .. Len(yins) : row[k] = e <=> yins[k] = y
    BY <1>1, <2>0, Zenon
  <2>2. A = {k \in 1 .. Len(yins) : yins[k] = y}
    BY <1>1, <2>1, Zenon
  <2>3. Times(e, row) = Times(y, yins)
    BY <2>2, Zenon DEF Times
  <2>4. QED
    BY <1>2, <2>3, Zenon DEF row
<1>3. CASE v # w
  <2> HIDE DEF row
  <2>0. ASSUME NEW x PROVE [tsi |-> v, yin |-> x] # e
    <3>1. [tsi |-> v, yin |-> x].tsi # e.tsi
      BY <1>3
    <3>2. QED
      BY <3>1, Zenon
  <2>1. \A k \in 1 .. Len(yins) : row[k] # e
    BY <1>1, <2>0, Zenon
  <2>2. A = {}
    BY <1>1, <2>1, Zenon
  <2>3. Times(e, row) = 0
    BY <2>2, FS_EmptySet, Zenon DEF Times
  <2>4. QED
    BY <1>3, <2>3, Zenon DEF row
<1>4. QED
  BY <1>2, <1>3

\* What the walk finds: the entries of a word are its readings, each as often as it has it.
LEMMA EntriesCount ==
    ASSUME NEW db, Kept(db), db # NoRecords
    PROVE  /\ Entries(db) \in Seq([tsi : DOMAIN db, yin : Seq(Nat)])
           /\ {Entries(db)[k].yin : k \in 1 .. Len(Entries(db))}
              = UNION {Range(Readings(db, w)) : w \in DOMAIN db}
           /\ \A w \in DOMAIN db : \A y :
                Times([tsi |-> w, yin |-> y], Entries(db)) = Times(y, Readings(db, w))
<1> DEFINE D == DOMAIN db
           S == [tsi : D, yin : Seq(Nat)]
           N == Cardinality(D)
           ss == [k \in 1 .. N |-> EntriesOf(Walk(db)[k], Readings(db, Walk(db)[k]))]
<1>1. /\ N \in Nat
      /\ \A n \in 1 .. N : Walk(db)[n] \in D
      /\ \A k \in D : \E n \in 1 .. N : Walk(db)[n] = k
      /\ \A m, n \in 1 .. N : Walk(db)[m] = Walk(db)[n] => m = n
  <2>1. 1 .. 255 \subseteq Nat
    OBVIOUS
  <2>2. Seq(1 .. 255) \subseteq Seq(Nat)
    BY <2>1, SeqOfMore
  <2>3. DOMAIN db \in SUBSET Seq(Nat) /\ IsFiniteSet(DOMAIN db)
    BY <2>2 DEF Kept
  <2>4. QED
    BY <2>3, WalkVisits
<1>2. ASSUME NEW w \in D PROVE Readings(db, w) \in Seq(Seq(Nat))
  <2>1. w \in Seq(1 .. 255) /\ db[w].yins \in Seq(Syllables(Len(w) \div 2))
    BY DEF Kept
  <2>2. Readings(db, w) \in Seq(Syllables(Len(w) \div 2))
    BY <2>1, PossibleAre DEF Readings
  <2>3. Syllables(Len(w) \div 2) \subseteq Seq(Nat)
    BY DEF Syllables
  <2>4. QED
    BY <2>2, <2>3, SeqOfMore
<1> HIDE DEF N
<1>3. Entries(db) = FlattenSeq(ss)
  BY Zenon DEF Entries, EntriesOf, N
<1>4. ASSUME NEW w \in D PROVE EntriesOf(w, Readings(db, w)) \in Seq(S)
  <2> DEFINE r == Readings(db, w)
  <2>1. r \in Seq(Seq(Nat))
    BY <1>2
  <2> HIDE DEF r
  <2>2. Len(r) \in Nat /\ \A j \in 1 .. Len(r) : [tsi |-> w, yin |-> r[j]] \in S
    BY <2>1
  <2> HIDE DEF S
  <2>3. EntriesOf(w, r) \in Seq(S)
    BY <2>2 DEF EntriesOf
  <2>4. QED
    BY <2>3 DEF r
<1>5. ss \in Seq(Seq(S)) /\ Len(ss) = N
      /\ \A k \in 1 .. N : ss[k] = EntriesOf(Walk(db)[k], Readings(db, Walk(db)[k]))
  <2> HIDE DEF S, D
  <2>1. QED
    BY <1>1, <1>4
<1> HIDE DEF ss, S
<1>6. FlattenSeq(ss) \in Seq(S)
  BY <1>5, FlattenHolds
<1>7. {FlattenSeq(ss)[k].yin : k \in 1 .. Len(FlattenSeq(ss))}
      = UNION {Range(Readings(db, w)) : w \in D}
  <2> DEFINE all == FlattenSeq(ss)
  <2>1. /\ \A i \in 1 .. Len(all) :
             \E k \in 1 .. Len(ss) : \E j \in 1 .. Len(ss[k]) : all[i] = ss[k][j]
        /\ \A k \in 1 .. Len(ss) : \A j \in 1 .. Len(ss[k]) :
             \E i \in 1 .. Len(all) : all[i] = ss[k][j]
    BY <1>5, FlattenHolds
  <2> HIDE DEF all
  <2>2. ASSUME NEW k \in 1 .. N
        PROVE  /\ Walk(db)[k] \in D
               /\ Len(ss[k]) = Len(Readings(db, Walk(db)[k]))
               /\ \A j \in 1 .. Len(ss[k]) : ss[k][j].yin = Readings(db, Walk(db)[k])[j]
    <3> DEFINE r == Readings(db, Walk(db)[k])
    <3>1. Walk(db)[k] \in D /\ r \in Seq(Seq(Nat))
      BY <1>1, <1>2
    <3>2. ss[k] = EntriesOf(Walk(db)[k], r)
      BY <1>5
    <3> HIDE DEF r
    <3>3. Len(EntriesOf(Walk(db)[k], r)) = Len(r)
          /\ \A j \in 1 .. Len(r) : EntriesOf(Walk(db)[k], r)[j].yin = r[j]
      BY <3>1 DEF EntriesOf
    <3>4. QED
      BY <3>1, <3>2, <3>3 DEF r
  <2>3. ASSUME NEW i \in 1 .. Len(all)
        PROVE  \E w \in D : all[i].yin \in Range(Readings(db, w))
    <3>0. PICK k \in 1 .. N : \E j \in 1 .. Len(ss[k]) : all[i] = ss[k][j]
      BY <1>5, <2>1
    <3>1. PICK j \in 1 .. Len(ss[k]) : all[i] = ss[k][j]
      BY <3>0
    <3>2. Readings(db, Walk(db)[k]) \in Seq(Seq(Nat))
      BY <1>2, <2>2
    <3>3. j \in 1 .. Len(Readings(db, Walk(db)[k])) /\ all[i].yin = Readings(db, Walk(db)[k])[j]
      BY <2>2, <3>1
    <3>4. all[i].yin \in Range(Readings(db, Walk(db)[k]))
      BY <3>2, <3>3 DEF Range
    <3>5. QED
      BY <2>2, <3>4
  <2>4. ASSUME NEW w \in D, NEW y \in Range(Readings(db, w))
        PROVE  \E i \in 1 .. Len(all) : all[i].yin = y
    <3>1. PICK k \in 1 .. N : Walk(db)[k] = w
      BY <1>1
    <3>2. Readings(db, w) \in Seq(Seq(Nat))
      BY <1>2
    <3>3. PICK j \in 1 .. Len(Readings(db, w)) : Readings(db, w)[j] = y
      BY <3>2 DEF Range
    <3>4. j \in 1 .. Len(ss[k]) /\ ss[k][j].yin = y
      BY <2>2, <3>1, <3>3
    <3>5. PICK i \in 1 .. Len(all) : all[i] = ss[k][j]
      BY <1>5, <2>1, <3>4
    <3>6. QED
      BY <3>4, <3>5
  <2>5. {all[k].yin : k \in 1 .. Len(all)} = UNION {Range(Readings(db, w)) : w \in D}
    BY <2>3, <2>4
  <2>6. QED
    BY <2>5 DEF all
<1>8. ASSUME NEW w \in D, NEW y
      PROVE  Times([tsi |-> w, yin |-> y], FlattenSeq(ss)) = Times(y, Readings(db, w))
  <2> DEFINE e == [tsi |-> w, yin |-> y]
  <2>1. PICK p \in 1 .. N : Walk(db)[p] = w
    BY <1>1
  <2>2. ASSUME NEW k \in 1 .. N
        PROVE  Times(e, ss[k]) = IF Walk(db)[k] = w THEN Times(y, Readings(db, w)) ELSE 0
    <3>1. Walk(db)[k] \in D /\ Readings(db, Walk(db)[k]) \in Seq(Seq(Nat))
      BY <1>1, <1>2
    <3>2. Times(e, EntriesOf(Walk(db)[k], Readings(db, Walk(db)[k])))
          = IF Walk(db)[k] = w THEN Times(y, Readings(db, Walk(db)[k])) ELSE 0
      BY <3>1, EntriesOfTimes
    <3> HIDE DEF e
    <3>3. QED
      BY <1>5, <3>2
  <2> HIDE DEF e
  <2>3. \A k \in 1 .. N : k # p => Times(e, ss[k]) = 0
    BY <1>1, <2>1, <2>2
  <2>4. Times(e, FlattenSeq(ss)) = Times(e, ss[p])
    BY <1>5, <2>3, FlattenTimes
  <2>5. QED
    BY <2>1, <2>2, <2>4 DEF e
<1>9. QED
  BY <1>3, <1>6, <1>7, <1>8, Zenon DEF S

-----------------------------------------------------------------------------
(* The third field of a line *)

\* Each alternative put before each of the copies that follow it.
Copies(alternatives, tails) ==
    FlattenSeq([a \in 1 .. Len(alternatives) |->
                  [r \in 1 .. Len(tails) |-> <<alternatives[a]>> \o tails[r]]])

\* They are sequences of syllables.
LEMMA CopiesAre ==
    ASSUME NEW alternatives \in Seq(Nat), NEW tails \in Seq(Seq(Nat))
    PROVE  Copies(alternatives, tails) \in Seq(Seq(Nat))
<1> DEFINE D == Seq(Seq(Nat))
           Row(a) == [r \in 1 .. Len(tails) |-> <<alternatives[a]>> \o tails[r]]
           ss == [a \in 1 .. Len(alternatives) |-> Row(a)]
<1>1. Len(alternatives) \in Nat /\ Len(tails) \in Nat
  OBVIOUS
<1>2. ASSUME NEW a \in 1 .. Len(alternatives), NEW r \in 1 .. Len(tails)
      PROVE  <<alternatives[a]>> \o tails[r] \in Seq(Nat)
  <2>1. alternatives[a] \in Nat /\ tails[r] \in Seq(Nat)
    BY ElementOfSeq
  <2>2. <<alternatives[a]>> \in Seq(Nat)
    BY <2>1
  <2>3. QED
    BY <2>1, <2>2, ConcatProperties
<1>3. ASSUME NEW a \in 1 .. Len(alternatives) PROVE Row(a) \in D
  <2> DEFINE S == Seq(Nat)
             copy(r) == <<alternatives[a]>> \o tails[r]
  <2>1. \A r \in 1 .. Len(tails) : copy(r) \in S
    BY <1>2
  <2> HIDE DEF S, copy
  <2>2. [r \in 1 .. Len(tails) |-> copy(r)] \in Seq(S)
    BY <1>1, <2>1
  <2>3. QED
    BY <2>2, Zenon DEF S, copy
<1>4. ss \in Seq(D)
  <2> HIDE DEF Row, D
  <2>1. QED
    BY <1>1, <1>3
<1> HIDE DEF ss
<1>5. FlattenSeq(ss) \in D
  BY <1>4, FlattenHolds
<1>6. QED
  BY <1>5 DEF Copies, ss

\* What tsiyin_expand writes out, from each syllable of the field on.
Expansion(field, f) ==
    /\ f \in [1 .. Len(field) + 1 -> Seq(Seq(Nat))]
    /\ f[Len(field) + 1] = << <<>> >>
    /\ \A k \in 1 .. Len(field) : f[k] = Copies(field[k], f[k + 1])

\* It writes out what there is from the first syllable on.
LEMMA ExpandIs ==
    ASSUME NEW field \in Seq(Seq(Nat))
    PROVE  \E f : /\ Expansion(field, f)
                  /\ Expand(field) = IF field = <<>> THEN <<>> ELSE FlattenSeq(f[1])
<1> DEFINE n == Len(field)
           D == Seq(Seq(Nat))
           G == [p \in (1 .. n) \X D |-> Copies(field[p[1]], p[2])]
           from == CHOOSE f : f = [k \in 1 .. n + 1 |->
                                     IF k > n THEN << <<>> >> ELSE Copies(field[k], f[k + 1])]
<1>1. n \in Nat
  OBVIOUS
<1>2. Expand(field) = IF field = <<>> THEN <<>> ELSE FlattenSeq(from[1])
  BY Zenon DEF Expand, Copies
<1>3. ASSUME NEW k \in 1 .. n, NEW tails \in D PROVE Copies(field[k], tails) \in D
  <2>1. field[k] \in Seq(Nat)
    BY ElementOfSeq
  <2>2. QED
    BY <2>1, CopiesAre
<1>4. << <<>> >> \in D
  OBVIOUS
<1> HIDE DEF n, D
<1>5. from = [k \in 1 .. n + 1 |-> IF k > n THEN << <<>> >> ELSE Copies(field[k], from[k + 1])]
  <2>1. G \in [(1 .. n) \X D -> D]
    BY <1>3
  <2> HIDE DEF G
  <2>2. PICK f : Solves(D, n, << <<>> >>, G, f)
    BY <1>1, <1>4, <2>1, Descends
  <2> DEFINE h(k) == IF k > n THEN << <<>> >> ELSE Copies(field[k], f[k + 1])
  <2>3. ASSUME NEW k \in 1 .. n + 1 PROVE f[k] = h(k)
    <3>1. CASE k > n
      <4>1. k = n + 1
        BY <1>1, <3>1
      <4>2. QED
        BY <2>2, <3>1, <4>1 DEF Solves
    <3>2. CASE ~ (k > n)
      <4>1. k \in 1 .. n /\ k + 1 \in 1 .. n + 1
        BY <1>1, <3>2
      <4>2. f[k] = G[<<k, f[k + 1]>>] /\ f[k + 1] \in D
        BY <2>2, <4>1 DEF Solves
      <4>3. G[<<k, f[k + 1]>>] = Copies(field[k], f[k + 1])
        BY <4>1, <4>2, Zenon DEF G
      <4>4. QED
        BY <3>2, <4>2, <4>3
    <3>3. QED
      BY <3>1, <3>2
  <2>4. f = [k \in 1 .. n + 1 |-> h(k)]
    <3>1. f = [k \in 1 .. n + 1 |-> f[k]]
      BY <2>2 DEF Solves
    <3> HIDE DEF h
    <3>2. QED
      BY <2>3, <3>1
  <2>5. QED
    BY <2>4, Zenon DEF from
<1> HIDE DEF from, G
<1>6. from[n + 1] = << <<>> >> /\ \A k \in 1 .. n : from[k] = Copies(field[k], from[k + 1])
  <2>1. n + 1 \in 1 .. n + 1 /\ n + 1 > n
    BY <1>1
  <2>2. ASSUME NEW k \in 1 .. n PROVE k \in 1 .. n + 1 /\ ~ (k > n)
    BY <1>1
  <2>3. QED
    BY <1>5, <2>1, <2>2
<1>7. \A k \in 1 .. n + 1 : from[k] \in D
  <2> DEFINE T == {k \in 1 .. n + 1 : from[k] \in D}
  <2>1. T \in SUBSET Nat
    OBVIOUS
  <2>2. n + 1 \in T
    <3>1. n + 1 \in 1 .. n + 1
      BY <1>1
    <3>2. from[n + 1] \in D
      BY <1>4, <1>6, Zenon
    <3>3. QED
      BY <3>1, <3>2, Zenon
  <2>3. \A k \in 1 .. n : k + 1 \in T => k \in T
    <3>1. SUFFICES ASSUME NEW k \in 1 .. n, from[k + 1] \in D PROVE k \in T
      OBVIOUS
    <3>2. from[k] \in D
      BY <1>3, <1>6, <3>1
    <3>3. QED
      BY <1>1, <3>2
  <2>4. \A k \in 1 .. n + 1 : k \in T
    <3> HIDE DEF T
    <3>1. QED
      BY <1>1, <2>1, <2>2, <2>3, Downwards
  <2>5. QED
    BY <2>4
<1>8. from \in [1 .. n + 1 -> D]
  BY <1>5, <1>7
<1>9. Expansion(field, from)
  BY <1>6, <1>8 DEF Expansion, n, D
<1>10. QED
  BY <1>2, <1>9

\* Syllables, that is.
LEMMA ExpandAre ==
    ASSUME NEW field \in Seq(Seq(Nat))
    PROVE  Expand(field) \in Seq(Nat)
<1>1. PICK f : /\ Expansion(field, f)
               /\ Expand(field) = IF field = <<>> THEN <<>> ELSE FlattenSeq(f[1])
  BY ExpandIs
<1>2. f[1] \in Seq(Seq(Nat))
  <2>1. 1 \in 1 .. Len(field) + 1
    OBVIOUS
  <2>2. QED
    BY <1>1, <2>1 DEF Expansion
<1>3. FlattenSeq(f[1]) \in Seq(Nat)
  BY <1>2, FlattenHolds
<1>4. QED
  BY <1>1, <1>3

\* The readings cut out of the copies are whole.
LEMMA CutAre ==
    ASSUME NEW syllables \in Seq(Nat), NEW len \in Nat, len > 0
    PROVE  /\ Cut(syllables, len) \in Seq(Syllables(len))
           /\ Len(Cut(syllables, len)) = Len(syllables) \div len
<1> DEFINE q == Len(syllables) \div len
<1>1. q \in Nat /\ len * q <= Len(syllables)
  OBVIOUS
<1> HIDE DEF q
<1>2. ASSUME NEW m \in 1 .. q
      PROVE  SubSeq(syllables, (m - 1) * len + 1, m * len) \in Syllables(len)
  <2> DEFINE a == (m - 1) * len + 1
             b == m * len
  <2>1. a \in Nat /\ b \in Nat /\ 1 <= a /\ b - a + 1 = len
    BY <1>1
  <2>2. b <= Len(syllables)
    <3>1. m * len <= len * q
      BY <1>1
    <3>2. QED
      BY <1>1, <3>1
  <2> HIDE DEF a, b
  <2>3. SubSeq(syllables, a, b) \in Seq(Nat) /\ Len(SubSeq(syllables, a, b)) = len
    BY <2>1, <2>2
  <2>4. QED
    BY <2>3 DEF Syllables, a, b
<1>3. Cut(syllables, len)
      = [m \in 1 .. q |-> SubSeq(syllables, (m - 1) * len + 1, m * len)]
  BY Zenon DEF Cut, q
<1>4. Cut(syllables, len) \in Seq(Syllables(len)) /\ Len(Cut(syllables, len)) = q
  <2> DEFINE part(m) == SubSeq(syllables, (m - 1) * len + 1, m * len)
             S == Syllables(len)
  <2>1. \A m \in 1 .. q : part(m) \in S
    BY <1>2
  <2> HIDE DEF part, S
  <2>2. [m \in 1 .. q |-> part(m)] \in Seq(S) /\ Len([m \in 1 .. q |-> part(m)]) = q
    BY <1>1, <2>1
  <2>3. QED
    BY <1>3, <2>2, Zenon DEF part, S
<1>5. QED
  BY <1>4 DEF q

-----------------------------------------------------------------------------
(* The inductive invariant of TsiTools, and the listing *)

\* The TsiDB keeps its records, and a TsiYinDB made from nothing is the listing of it.
ToolsInv ==
    /\ left \subseteq Lines
    /\ Kept(tsi_db)
    /\ fresh => yin_db = YinDump(tsi_db, NoRecords)

\* A record put in keeps the TsiDB's records.
LEMMA KeptPut ==
    ASSUME NEW db, Kept(db), NEW flags, "READONLY" \notin flags, "OVERWRITE" \in flags,
           NEW w \in Seq(1 .. 255), Len(w) >= 2, NEW count,
           NEW yins \in Seq(Syllables(Len(w) \div 2))
    PROVE  Kept(Put(flags, db, w, TsiInfo(count, yins)))
<1> DEFINE new == Put(flags, db, w, TsiInfo(count, yins))
<1>1. /\ DOMAIN new = DOMAIN db \cup {w} /\ new[w].yins = yins
      /\ \A k \in DOMAIN db : k # w => new[k] = db[k]
  BY DEF Put, CanPut, TsiInfo
<1> HIDE DEF new
<1>2. IsFiniteSet(DOMAIN db \cup {w}) /\ DOMAIN db \in SUBSET Seq(1 .. 255)
  BY FS_AddElement DEF Kept
<1>3. ASSUME NEW k \in DOMAIN new 
      PROVE  Len(k) >= 2 /\ new[k].yins \in Seq(Syllables(Len(k) \div 2))
  <2>1. CASE k = w
    BY <1>1, <2>1
  <2>2. CASE k # w
    <3>1. k \in DOMAIN db /\ new[k] = db[k]
      BY <1>1, <2>2
    <3>2. QED
      BY <3>1 DEF Kept
  <2>3. QED
    BY <2>1, <2>2
<1>4. Kept(new)
  BY <1>1, <1>2, <1>3 DEF Kept
<1>5. QED
  BY <1>4 DEF new

\* A line added keeps them: a word's readings are cut from its field, or are the possible ones.
LEMMA ArchiveKept ==
    ASSUME NEW db, Kept(db), NEW l, l.tsi \in Seq(1 .. 255), l.yin \in Seq(Seq(Nat)),
           Len(l.tsi) >= 2
    PROVE  Kept(Archive(db, l))
<1> DEFINE w == l.tsi
           len == Len(w) \div 2
           syllables == Expand(l.yin)
           yins == IF syllables = <<>> THEN OnlyYin(db, w) ELSE Cut(syllables, len)
<1>1. len \in Nat /\ len > 0
  <2> DEFINE n == Len(w)
  <2>1. n \in Nat /\ n >= 2
    OBVIOUS
  <2> HIDE DEF n
  <2>2. n \div 2 \in Nat /\ n \div 2 > 0
    BY <2>1
  <2>3. QED
    BY <2>2 DEF n
<1> HIDE DEF len
<1>2. Cut(syllables, len) \in Seq(Syllables(len))
  <2>1. syllables \in Seq(Nat)
    BY ExpandAre
  <2> HIDE DEF syllables
  <2>2. QED
    BY <1>1, <2>1, CutAre
<1>3. OnlyYin(db, w) \in Seq(Syllables(len))
  <2>1. PossibleTsiYins(db, w) \in Seq(Syllables(len))
    BY PossibleAre DEF len
  <2>2. <<>> \in Seq(Syllables(len))
    OBVIOUS
  <2>3. QED
    BY <2>1, <2>2, Zenon DEF OnlyYin
<1>4. yins \in Seq(Syllables(len))
  BY <1>2, <1>3, Zenon
<1> HIDE DEF yins, syllables
<1>5. Kept(Put({"CREATEDB", "NOSYNC", "OVERWRITE"}, db, w, TsiInfo(l.refcount, yins)))
  <2>1. "READONLY" \notin {"CREATEDB", "NOSYNC", "OVERWRITE"}
        /\ "OVERWRITE" \in {"CREATEDB", "NOSYNC", "OVERWRITE"}
    OBVIOUS
  <2>2. QED
    BY <1>4, <2>1, KeptPut DEF len
<1>6. QED
  BY <1>5, Zenon DEF Archive, yins, syllables, len

\* It holds at first.
LEMMA ToolsInitInv == ToolsInit => ToolsInv
<1> SUFFICES ASSUME ToolsInit PROVE ToolsInv
  OBVIOUS
<1>1. DOMAIN NoRecords = {}
  BY DEF NoRecords
<1>2. IsFiniteSet(DOMAIN NoRecords)
  BY <1>1, FS_EmptySet
<1>3. Kept(NoRecords)
  BY <1>1, <1>2 DEF Kept
<1>4. QED
  BY <1>3 DEF ToolsInit, ToolsInv

\* A word of the list has a character.
LEMMA LineIs ==
    ASSUME NEW l \in Lines
    PROVE  l.tsi \in Seq(1 .. 255) /\ l.yin \in Seq(Seq(Nat)) /\ Len(l.tsi) >= 2
<1>1. Len(l.tsi) \in {2 * n : n \in 1 .. 10}
  BY OneLinePerWord
<1>2. PICK n \in 1 .. 10 : Len(l.tsi) = 2 * n
  BY <1>1
<1>3. QED
  BY <1>2, LinesAssumption

\* Every utility keeps it.
LEMMA ToolsNextInv == ASSUME ToolsInv, [ToolsNext]_toolsVars PROVE ToolsInv'
<1> USE DEF ToolsInv
<1>1. ASSUME NEW l \in left, Tsiadd(l) PROVE ToolsInv'
  <2>1. l \in Lines
    OBVIOUS
  <2>2. Kept(Archive(tsi_db, l))
    BY <2>1, LineIs, ArchiveKept
  <2>3. QED
    BY <1>1, <2>2 DEF Tsiadd
<1>2. ASSUME NEW l \in Lines \ left, TsiaddWord(l.tsi) PROVE ToolsInv'
  <2> DEFINE m == [tsi |-> l.tsi, refcount |-> 0, yin |-> <<>>]
  <2>1. m.tsi \in Seq(1 .. 255) /\ m.yin \in Seq(Seq(Nat)) /\ Len(m.tsi) >= 2
    BY LineIs
  <2> HIDE DEF m
  <2>2. Kept(Archive(tsi_db, m))
    BY <2>1, ArchiveKept
  <2>3. tsi_db' = Archive(tsi_db, m) /\ ~ fresh' /\ left' = left
    BY <1>2 DEF TsiaddWord, m
  <2>4. QED
    BY <2>2, <2>3
<1>3. ASSUME NEW w \in DOMAIN tsi_db, Tsidel(w) PROVE ToolsInv'
  <2>1. tsi_db' = [v \in DOMAIN tsi_db \ {w} |-> tsi_db[v]] /\ ~ fresh' /\ left' = left
    BY <1>3 DEF Tsidel
  <2>2. DOMAIN tsi_db' = DOMAIN tsi_db \ {w} /\ \A v \in DOMAIN tsi_db' : tsi_db'[v] = tsi_db[v]
    BY <2>1
  <2>3. IsFiniteSet(DOMAIN tsi_db')
    BY <2>2, FS_RemoveElement DEF Kept
  <2>4. Kept(tsi_db')
    BY <2>2, <2>3 DEF Kept
  <2>5. QED
    BY <2>1, <2>4
<1>4. ASSUME NEW w \in Guesses, Tsiguess(w) PROVE ToolsInv'
  <2> DEFINE old == Get(tsi_db, w, NewTsi)
  <2>1. w \in Seq(1 .. 255) /\ Len(w) >= 2
    <3>1. w \in Seq(1 .. 255) /\ Len(w) \in {2 * n : n \in 2 .. 10}
      BY GuessesAssumption
    <3>2. PICK n \in 2 .. 10 : Len(w) = 2 * n
      BY <3>1
    <3>3. QED
      BY <3>1, <3>2
  <2>2. old.yins \in Seq(Syllables(Len(w) \div 2))
    <3>1. CASE w \in DOMAIN tsi_db
      BY <3>1 DEF Get, Kept
    <3>2. CASE w \notin DOMAIN tsi_db
      <4>1. old.yins = <<>>
        BY <3>2 DEF Get, NewTsi, TsiInfo
      <4>2. QED
        BY <4>1
    <3>3. QED
      BY <3>1, <3>2
  <2>3. tsi_db' = Put({"CREATEDB", "OVERWRITE"}, tsi_db, w, TsiInfo(old.refcount + 1, old.yins))
        /\ ~ fresh' /\ left' = left
    BY <1>4 DEF Tsiguess
  <2> HIDE DEF old
  <2>4. "READONLY" \notin {"CREATEDB", "OVERWRITE"} /\ "OVERWRITE" \in {"CREATEDB", "OVERWRITE"}
    OBVIOUS
  <2>5. Kept(tsi_db')
    BY <2>1, <2>2, <2>3, <2>4, KeptPut
  <2>6. QED
    BY <2>3, <2>5
<1>5. ASSUME Tsiyindump PROVE ToolsInv'
  BY <1>5 DEF Tsiyindump, YinDump, Kept
<1>6. ASSUME DumpAgain PROVE ToolsInv'
  BY <1>6 DEF DumpAgain, Kept
<1>7. ASSUME UNCHANGED toolsVars PROVE ToolsInv'
  BY <1>7 DEF toolsVars, Kept, YinDump
<1>8. QED
  BY <1>1, <1>2, <1>3, <1>4, <1>5, <1>6, <1>7 DEF ToolsNext

\* The TsiYinDB made from nothing is the TsiDB turned round.
LEMMA FreshIsExact == ASSUME ToolsInv PROVE ListingExact
<1> SUFFICES ASSUME fresh, tsi_db # NoRecords
             PROVE  /\ DOMAIN yin_db = UNION {Range(Readings(tsi_db, w)) : w \in DOMAIN tsi_db}
                    /\ \A y \in DOMAIN yin_db :
                         /\ Range(yin_db[y]) \subseteq DOMAIN tsi_db
                         /\ \A w \in DOMAIN tsi_db :
                              Times(w, yin_db[y]) = Times(y, Readings(tsi_db, w))
  BY DEF ListingExact
<1> DEFINE es == Entries(tsi_db)
           D == DOMAIN tsi_db
<1>1. Kept(tsi_db) /\ yin_db = AddEntries(NoRecords, es)
  BY DEF ToolsInv, YinDump, AddEntries
<1>2. /\ es \in Seq([tsi : D, yin : Seq(Nat)])
      /\ {es[k].yin : k \in 1 .. Len(es)} = UNION {Range(Readings(tsi_db, w)) : w \in D}
      /\ \A w \in D : \A y : Times([tsi |-> w, yin |-> y], es) = Times(y, Readings(tsi_db, w))
  BY <1>1, EntriesCount
<1> HIDE DEF es, D
<1>3. Turned(D, Seq(Nat), es, yin_db)
  BY <1>1, <1>2, ListingCounts
<1>4. ASSUME NEW y \in DOMAIN yin_db
      PROVE  /\ yin_db[y] \in Seq(D)
             /\ \A w \in D : Times(w, yin_db[y]) = Times(y, Readings(tsi_db, w))
  <2>1. PICK k \in 1 .. Len(es) : y = es[k].yin
    BY <1>3 DEF Turned
  <2>2. es[k] \in [tsi : D, yin : Seq(Nat)]
    BY <1>2, ElementOfSeq
  <2>3. y \in Seq(Nat)
    BY <2>1, <2>2
  <2>4. WordsUnder(yin_db, y) = yin_db[y]
    BY DEF WordsUnder, Get
  <2>5. QED
    BY <1>2, <1>3, <2>3, <2>4, Zenon DEF Turned
<1>5. ASSUME NEW y \in DOMAIN yin_db PROVE Range(yin_db[y]) \subseteq D
  BY <1>4 DEF Range
<1>6. QED
  BY <1>2, <1>3, <1>4, <1>5, Zenon DEF D, Turned

\* The listing that tsiyindump makes from nothing is the TsiDB turned round, whatever the
\* utilities did before: for every word list and any number of changes.
THEOREM ListingExactAlways == ToolsSpec => []ListingExact
<1>1. ToolsInit => ToolsInv
  BY ToolsInitInv
<1>2. ToolsInv /\ [ToolsNext]_toolsVars => ToolsInv'
  BY ToolsNextInv
<1>3. ToolsInv => ListingExact
  BY FreshIsExact
<1>4. QED
  BY <1>1, <1>2, <1>3, PTL DEF ToolsSpec

-----------------------------------------------------------------------------
(* Dumped and read back *)

\* One sequence alone in a row.
LEMMA FlattenOne ==
    ASSUME NEW S, NEW s \in Seq(S)
    PROVE  FlattenSeq(<<s>>) = s
<1> DEFINE ss == <<s>>
<1>1. ss \in Seq(Seq(S)) /\ Len(ss) = 1 /\ ss[1] = s
  OBVIOUS
<1> HIDE DEF ss
<1> DEFINE n == Len(ss)
<1>0. n \in Nat /\ n > 0 /\ n <= Len(ss) /\ 1 \in 1 .. n
  BY <1>1
<1> HIDE DEF n
<1>2. PICK g : Rows(S, ss, n, g)
  BY <1>1, <1>0, RowsThere
<1>3. FlattenSeq(ss) = g[n]
  BY <1>1, <1>2, <1>0, FlattenIsLastRow DEF n
<1>4. g[1] = ss[1]
  BY <1>2, <1>0, RowIs
<1>5. QED
  BY <1>1, <1>3, <1>4 DEF ss, n

\* Sequences of one length in a row: where each of them lies.
LEMMA FlattenParts ==
    ASSUME NEW S, NEW ss \in Seq(Seq(S)), NEW len \in Nat, \A k \in 1 .. Len(ss) : Len(ss[k]) = len
    PROVE  /\ Len(FlattenSeq(ss)) = len * Len(ss)
           /\ \A m \in 1 .. Len(ss) : \A j \in 1 .. len :
                FlattenSeq(ss)[(m - 1) * len + j] = ss[m][j]
<1> DEFINE n == Len(ss)
           Lies(row, i) == /\ Len(row) = len * i
                           /\ \A m \in 1 .. i : \A j \in 1 .. len :
                                row[(m - 1) * len + j] = ss[m][j]
<1>1. n \in Nat
  OBVIOUS
<1>2. ASSUME NEW k \in 1 .. n PROVE ss[k] \in Seq(S) /\ Len(ss[k]) = len
  BY ElementOfSeq
<1>3. CASE n = 0
  <2>1. FlattenSeq(ss) = ss
    BY <1>3, Zenon DEF FlattenSeq
  <2>2. QED
    BY <1>3, <2>1
<1>4. CASE n > 0
  <2>1. PICK g : Rows(S, ss, n, g)
    BY <1>1, RowsThere
  <2>2. FlattenSeq(ss) = g[n]
    BY <1>4, <2>1, FlattenIsLastRow
  <2> HIDE DEF n
  <2>3. ASSUME NEW m \in 1 .. n
        PROVE  g[m] \in Seq(S) /\ g[m] = IF m = 1 THEN ss[m] ELSE g[m - 1] \o ss[m]
    BY <1>1, <2>1, RowIs
  <2> DEFINE T == {i \in Nat : i + 1 <= n => Lies(g[i + 1], i + 1)}
  <2>4. 0 \in T
    <3>1. 1 \in 1 .. n
      BY <1>1, <1>4
    <3>2. g[1] = ss[1] /\ Len(ss[1]) = len
      BY <1>2, <2>3, <3>1
    <3>3. Lies(g[1], 1)
      BY <3>2
    <3> HIDE DEF Lies
    <3>4. QED
      BY <3>3
  <2>5. ASSUME NEW i \in Nat, (i + 1) + 1 <= n, Lies(g[i + 1], i + 1)
        PROVE  Lies(g[(i + 1) + 1], (i + 1) + 1)
    <3> DEFINE p == i + 1
               row == g[p]
               last == ss[p + 1]
    <3>1. p \in 1 .. n /\ p + 1 \in 1 .. n /\ p + 1 # 1 /\ (p + 1) - 1 = p /\ p \in Nat
      BY <1>1, <2>5
    <3> HIDE DEF p
    <3>2. g[p + 1] = row \o last /\ row \in Seq(S) /\ last \in Seq(S) /\ Len(last) = len
      <4>1. g[p + 1] = IF p + 1 = 1 THEN ss[p + 1] ELSE g[(p + 1) - 1] \o ss[p + 1]
        BY <2>3, <3>1, Zenon
      <4>2. row \in Seq(S)
        BY <2>3, <3>1, Zenon
      <4>3. last \in Seq(S) /\ Len(last) = len
        BY <1>2, <3>1, Zenon
      <4>4. QED
        BY <3>1, <4>1, <4>2, <4>3, Zenon
    <3>3. /\ Len(row) = len * p
          /\ \A m \in 1 .. p : \A j \in 1 .. len : row[(m - 1) * len + j] = ss[m][j]
      BY <2>5, Zenon DEF p
    <3> HIDE DEF row, last
    <3>4. /\ Len(row \o last) = Len(row) + Len(last)
          /\ \A k \in 1 .. Len(row) + Len(last) :
               (row \o last)[k] = IF k <= Len(row) THEN row[k] ELSE last[k - Len(row)]
      BY <3>2, ConcatProperties
    <3>5. Len(row \o last) = len * (p + 1)
      BY <3>1, <3>2, <3>3, <3>4
    <3>6. ASSUME NEW m \in 1 .. p + 1, NEW j \in 1 .. len
          PROVE  (row \o last)[(m - 1) * len + j] = ss[m][j]
      <4>1. CASE m \in 1 .. p
        <5>1. (m - 1) * len + j \in 1 .. len * p
          <6>1. m - 1 \in Nat /\ m <= p /\ (m - 1) * len + len = m * len
            BY <3>1, <4>1
          <6>2. m * len <= len * p /\ (m - 1) * len \in Nat
            BY <3>1, <6>1
          <6> DEFINE x == (m - 1) * len
                     y == m * len
                     z == len * p
          <6>3. x \in Nat /\ x + len = y /\ y <= z /\ z \in Nat
            BY <3>1, <6>1, <6>2
          <6> HIDE DEF x, y, z
          <6>4. x + j \in 1 .. z
            BY <6>3
          <6>5. QED
            BY <6>4 DEF x, z
        <5>2. len * p \in Nat
          BY <3>1
        <5>3. (row \o last)[(m - 1) * len + j] = row[(m - 1) * len + j]
          BY <3>2, <3>3, <3>4, <5>1, <5>2
        <5>4. QED
          BY <3>3, <4>1, <5>3
      <4>2. CASE m = p + 1
        <5>1. (m - 1) * len + j = len * p + j /\ len * p \in Nat
          BY <3>1, <4>2
        <5>2. (row \o last)[len * p + j] = last[j]
          <6> DEFINE l == len * p
                     c == row \o last
          <6>1. \A k \in 1 .. l + len : c[k] = IF k <= l THEN row[k] ELSE last[k - l]
            BY <3>2, <3>3, <3>4, Zenon
          <6>2. l \in Nat
            BY <5>1
          <6> HIDE DEF l, c
          <6>3. l + j \in 1 .. l + len /\ ~ (l + j <= l) /\ (l + j) - l = j
            BY <6>2
          <6>4. c[l + j] = last[j]
            BY <6>1, <6>3
          <6>5. QED
            BY <6>4 DEF l, c
        <5>3. QED
          BY <4>2, <5>1, <5>2 DEF last
      <4>3. m \in 1 .. p \/ m = p + 1
        BY <3>1
      <4>4. QED
        BY <4>1, <4>2, <4>3
    <3>7. Lies(row \o last, p + 1)
      BY <3>5, <3>6, Zenon
    <3>8. QED
      BY <3>2, <3>7, Zenon DEF p
  <2> HIDE DEF Lies
  <2>6. ASSUME NEW i \in T PROVE i + 1 \in T
    <3>1. i \in Nat /\ ((i + 1) + 1 <= n => Lies(g[i + 1], i + 1))
      BY <1>1
    <3>2. (i + 1) + 1 <= n => Lies(g[(i + 1) + 1], (i + 1) + 1)
      BY <2>5, <3>1
    <3>3. i + 1 \in Nat
      BY <3>1
    <3>4. QED
      BY <3>2, <3>3
  <2>7. T = Nat
    <3>1. T \in SUBSET Nat
      OBVIOUS
    <3> HIDE DEF T
    <3>2. QED
      BY <2>4, <2>6, <3>1, Induction
  <2>8. Lies(g[n], n)
    <3>1. n - 1 \in Nat /\ (n - 1) + 1 = n
      BY <1>1, <1>4
    <3>2. (n - 1) + 1 <= n => Lies(g[(n - 1) + 1], (n - 1) + 1)
      BY <2>7, <3>1
    <3>3. QED
      BY <1>1, <3>1, <3>2
  <2>9. QED
    BY <2>2, <2>8 DEF Lies, n
<1>5. n = 0 \/ n > 0
  BY <1>1
<1>6. QED
  BY <1>3, <1>4, <1>5, Zenon

\* The fields of a line have one syllable each: every valid one.
LEMMA PrintedIs ==
    ASSUME NEW s \in Seq(Nat)
    PROVE  /\ Printed(s) \in Seq(Syllables(1))
           /\ (\A n \in 1 .. Len(s) : s[n] # 0) =>
                Len(Printed(s)) = Len(s) /\ \A n \in 1 .. Len(s) : Printed(s)[n] = <<s[n]>>
<1> DEFINE F(n) == IF s[n] = 0 THEN <<>> ELSE << <<s[n]>> >>
           ss == [n \in 1 .. Len(s) |-> F(n)]
           S == Syllables(1)
<1>1. Len(s) \in Nat
  OBVIOUS
<1>2. ASSUME NEW n \in 1 .. Len(s)
      PROVE  F(n) \in Seq(S) /\ (s[n] # 0 => Len(F(n)) = 1 /\ F(n)[1] = <<s[n]>>)
  <2>1. s[n] \in Nat
    BY ElementOfSeq
  <2>2. <<s[n]>> \in S
    BY <2>1 DEF Syllables
  <2> DEFINE y == <<s[n]>>
  <2> HIDE DEF S, y
  <2>3. <<y>> \in Seq(S) /\ Len(<<y>>) = 1 /\ <<y>>[1] = y
    BY <2>2 DEF y
  <2>4. <<>> \in Seq(S)
    OBVIOUS
  <2>5. QED
    BY <2>3, <2>4, Zenon DEF y
<1> HIDE DEF S, F
<1>3. ss \in Seq(Seq(S)) /\ Len(ss) = Len(s) /\ \A n \in 1 .. Len(s) : ss[n] = F(n)
  BY <1>1, <1>2
<1>4. Printed(s) = FlattenSeq(ss)
  BY Zenon DEF Printed, F
<1> HIDE DEF ss
<1>5. FlattenSeq(ss) \in Seq(S)
  BY <1>3, FlattenHolds
<1>6. ASSUME \A n \in 1 .. Len(s) : s[n] # 0
      PROVE  Len(FlattenSeq(ss)) = Len(s)
             /\ \A n \in 1 .. Len(s) : FlattenSeq(ss)[n] = <<s[n]>>
  <2>1. \A k \in 1 .. Len(ss) : Len(ss[k]) = 1 /\ ss[k][1] = <<s[k]>>
    BY <1>2, <1>3, <1>6
  <2>2. /\ Len(FlattenSeq(ss)) = 1 * Len(ss)
        /\ \A m \in 1 .. Len(ss) : \A j \in 1 .. 1 : FlattenSeq(ss)[(m - 1) * 1 + j] = ss[m][j]
    <3>1. PICK one \in Nat : one = 1
      OBVIOUS
    <3>2. \A k \in 1 .. Len(ss) : Len(ss[k]) = one
      BY <2>1, <3>1
    <3>3. /\ Len(FlattenSeq(ss)) = one * Len(ss)
          /\ \A m \in 1 .. Len(ss) : \A j \in 1 .. one :
               FlattenSeq(ss)[(m - 1) * one + j] = ss[m][j]
      BY <1>3, <3>2, FlattenParts
    <3>4. QED
      BY <3>1, <3>3
  <2>3. ASSUME NEW n \in 1 .. Len(s) PROVE FlattenSeq(ss)[n] = <<s[n]>>
    <3>1. 1 \in 1 .. 1 /\ (n - 1) * 1 + 1 = n
      OBVIOUS
    <3>2. FlattenSeq(ss)[(n - 1) * 1 + 1] = ss[n][1]
      BY <1>3, <2>2, <3>1, Zenon
    <3>3. QED
      BY <1>3, <2>1, <3>1, <3>2
  <2>4. QED
    BY <1>1, <1>3, <2>2, <2>3
<1>7. QED
  BY <1>4, <1>5, <1>6, Zenon DEF S

\* One alternative before one copy.
LEMMA CopiesOne ==
    ASSUME NEW alternatives \in Seq(Nat), Len(alternatives) = 1, NEW t \in Seq(Nat)
    PROVE  Copies(alternatives, <<t>>) = << <<alternatives[1]>> \o t >>
<1> DEFINE u == <<alternatives[1]>> \o t
           Row(a) == [r \in 1 .. Len(<<t>>) |-> <<alternatives[a]>> \o (<<t>>)[r]]
           ss == [a \in 1 .. Len(alternatives) |-> Row(a)]
           D == Seq(Nat)
<1>1. u \in D
  <2>1. <<alternatives[1]>> \in Seq(Nat)
    <3>1. 1 \in 1 .. Len(alternatives)
      OBVIOUS
    <3>2. alternatives[1] \in Nat
      BY <3>1, ElementOfSeq
    <3>3. QED
      BY <3>2
  <2>2. QED
    BY <2>1, ConcatProperties
<1>2. 1 .. 1 = {1} /\ Len(<<t>>) = 1 /\ (<<t>>)[1] = t
  OBVIOUS
<1>3. Row(1) = [r \in {1} |-> u]
  <2>1. 1 .. Len(<<t>>) = {1}
    BY <1>2
  <2> DEFINE c(r) == <<alternatives[1]>> \o (<<t>>)[r]
  <2>2. c(1) = u
    BY <1>2
  <2> HIDE DEF c, u
  <2>3. [r \in {1} |-> c(r)] = [r \in {1} |-> u]
    BY <2>2
  <2>4. QED
    BY <2>1, <2>3, Zenon DEF c
<1>4. ss = [a \in {1} |-> Row(1)]
  <2>1. 1 .. Len(alternatives) = {1}
    BY <1>2
  <2> HIDE DEF Row
  <2>2. QED
    BY <2>1
<1>5. Copies(alternatives, <<t>>) = FlattenSeq(ss)
  BY Zenon DEF Copies
<1> HIDE DEF ss, Row, u, D
<1>6. Row(1) = <<u>>
  BY <1>3, <1>2
<1>7. ss = << <<u>> >>
  BY <1>4, <1>6, <1>2
<1>8. <<u>> \in Seq(D)
  BY <1>1
<1>9. FlattenSeq(<< <<u>> >>) = <<u>>
  BY <1>8, FlattenOne
<1>10. QED
  BY <1>5, <1>7, <1>9, Zenon DEF u

\* A field with one alternative for each syllable is written out once, as it is.
LEMMA ExpandOnes ==
    ASSUME NEW field \in Seq(Syllables(1))
    PROVE  /\ Expand(field) \in Seq(Nat) /\ Len(Expand(field)) = Len(field)
           /\ \A k \in 1 .. Len(field) : Expand(field)[k] = field[k][1]
<1> DEFINE n == Len(field)
           Tail1(k, t) == /\ t \in Seq(Nat) /\ Len(t) = n + 1 - k
                          /\ \A j \in 1 .. n + 1 - k : t[j] = field[k + j - 1][1]
<1>1. n \in Nat
  OBVIOUS
<1>2. ASSUME NEW k \in 1 .. n PROVE field[k] \in Seq(Nat) /\ Len(field[k]) = 1
  <2>1. field[k] \in Syllables(1)
    BY ElementOfSeq
  <2>2. QED
    BY <2>1 DEF Syllables
<1>3. field \in Seq(Seq(Nat))
  <2>1. Syllables(1) \subseteq Seq(Nat)
    BY DEF Syllables
  <2>2. QED
    BY <2>1, SeqOfMore
<1>4. PICK f : /\ Expansion(field, f)
               /\ Expand(field) = IF field = <<>> THEN <<>> ELSE FlattenSeq(f[1])
  BY <1>3, ExpandIs
<1>5. f[n + 1] = << <<>> >> /\ \A k \in 1 .. n : f[k] = Copies(field[k], f[k + 1])
  BY <1>4 DEF Expansion
<1> HIDE DEF n
<1> DEFINE T == {k \in 1 .. n + 1 : \E t : f[k] = <<t>> /\ Tail1(k, t)}
<1>6. n + 1 \in T
  <2>1. n + 1 \in 1 .. n + 1 /\ n + 1 - (n + 1) = 0
    BY <1>1
  <2>2. Tail1(n + 1, <<>>)
    BY <2>1
  <2> HIDE DEF Tail1
  <2>3. QED
    BY <1>5, <2>1, <2>2
<1>7. ASSUME NEW k \in 1 .. n, NEW t, Tail1(k + 1, t)
      PROVE  Tail1(k, <<field[k][1]>> \o t)
  <2> DEFINE h == <<field[k][1]>>
             u == h \o t
  <2>1. /\ h \in Seq(Nat) /\ Len(h) = 1 /\ h[1] = field[k][1]
        /\ t \in Seq(Nat) /\ Len(t) = n - k
        /\ \A j \in 1 .. n - k : t[j] = field[k + j][1]
    <3>1. field[k][1] \in Nat
      BY <1>2, ElementOfSeq
    <3>2. n + 1 - (k + 1) = n - k /\ \A j \in 1 .. n - k : (k + 1) + j - 1 = k + j
      BY <1>1
    <3>3. QED
      BY <1>7, <3>1, <3>2
  <2> HIDE DEF h
  <2>2. /\ u \in Seq(Nat) /\ Len(u) = 1 + (n - k)
        /\ \A i \in 1 .. 1 + (n - k) : u[i] = IF i <= 1 THEN h[i] ELSE t[i - 1]
    <3>1. /\ u \in Seq(Nat) /\ Len(u) = Len(h) + Len(t)
          /\ \A i \in 1 .. Len(h) + Len(t) : u[i] = IF i <= Len(h) THEN h[i] ELSE t[i - Len(h)]
      BY <2>1, ConcatProperties, Zenon
    <3> HIDE DEF u
    <3>2. QED
      BY <2>1, <3>1
  <2> HIDE DEF u
  <2>3. ASSUME NEW j \in 1 .. n + 1 - k PROVE u[j] = field[k + j - 1][1]
    <3>1. CASE j = 1
      <4>1. k + j - 1 = k /\ 1 \in 1 .. 1 + (n - k)
        BY <1>1, <3>1
      <4>2. QED
        BY <2>1, <2>2, <3>1, <4>1
    <3>2. CASE j # 1
      <4>1. j \in 1 .. 1 + (n - k) /\ ~ (j <= 1) /\ j - 1 \in 1 .. n - k /\ k + (j - 1) = k + j - 1
        BY <1>1, <3>2
      <4>2. QED
        BY <2>1, <2>2, <4>1
    <3>3. QED
      BY <3>1, <3>2
  <2>4. Len(u) = n + 1 - k
    BY <1>1, <2>2
  <2>5. Tail1(k, u)
    BY <2>2, <2>3, <2>4
  <2>6. QED
    BY <2>5 DEF u, h
<1>8. ASSUME NEW k \in 1 .. n, k + 1 \in T PROVE k \in T
  <2>1. PICK t : f[k + 1] = <<t>> /\ Tail1(k + 1, t)
    BY <1>8
  <2>2. t \in Seq(Nat)
    BY <2>1
  <2>3. f[k] = << <<field[k][1]>> \o t >>
    BY <1>2, <1>5, <2>1, <2>2, CopiesOne
  <2>4. Tail1(k, <<field[k][1]>> \o t)
    BY <1>7, <2>1
  <2>5. k \in 1 .. n + 1
    BY <1>1
  <2> HIDE DEF Tail1
  <2>6. QED
    BY <2>3, <2>4, <2>5
<1>9. 1 \in T
  <2>1. T \in SUBSET Nat
    OBVIOUS
  <2> HIDE DEF T
  <2>2. \A k \in 1 .. n + 1 : k \in T
    BY <1>1, <1>6, <1>8, <2>1, Downwards
  <2>3. 1 \in 1 .. n + 1
    BY <1>1
  <2>4. QED
    BY <2>2, <2>3
<1>10. PICK t : f[1] = <<t>> /\ Tail1(1, t)
  BY <1>9
<1>11. t \in Seq(Nat) /\ Len(t) = n /\ \A k \in 1 .. n : t[k] = field[k][1]
  <2>1. n + 1 - 1 = n /\ \A j \in 1 .. n : 1 + j - 1 = j
    BY <1>1
  <2>2. QED
    BY <1>10, <2>1
<1>12. CASE field = <<>>
  <2>1. n = 0
    BY <1>12 DEF n
  <2>2. Expand(field) = <<>>
    BY <1>4, <1>12
  <2>3. QED
    BY <2>1, <2>2 DEF n
<1>13. CASE field # <<>>
  <2>1. Expand(field) = FlattenSeq(<<t>>)
    BY <1>4, <1>10, <1>13
  <2>2. FlattenSeq(<<t>>) = t
    BY <1>11, FlattenOne
  <2>3. QED
    BY <1>11, <2>1, <2>2 DEF n
<1>14. QED
  BY <1>12, <1>13

\* Readings written one behind the other are cut apart again.
LEMMA CutBack ==
    ASSUME NEW len \in Nat, len > 0, NEW yins \in Seq(Syllables(len))
    PROVE  /\ FlattenSeq(yins) \in Seq(Nat)
           /\ Len(FlattenSeq(yins)) = len * Len(yins)
           /\ Cut(FlattenSeq(yins), len) = yins
<1> DEFINE s == FlattenSeq(yins)
           q == Len(yins)
<1>1. q \in Nat
  OBVIOUS
<1>2. yins \in Seq(Seq(Nat))
  <2>1. Syllables(len) \subseteq Seq(Nat)
    BY DEF Syllables
  <2>2. QED
    BY <2>1, SeqOfMore
<1>3. ASSUME NEW m \in 1 .. q PROVE yins[m] \in Seq(Nat) /\ Len(yins[m]) = len
  <2>1. yins[m] \in Syllables(len)
    BY ElementOfSeq
  <2>2. QED
    BY <2>1 DEF Syllables
<1>4. s \in Seq(Nat)
  BY <1>2, FlattenHolds
<1>5. /\ Len(s) = len * q
      /\ \A m \in 1 .. q : \A j \in 1 .. len : s[(m - 1) * len + j] = yins[m][j]
  BY <1>2, <1>3, FlattenParts
<1> HIDE DEF s
<1>6. /\ Cut(s, len) = [m \in 1 .. (Len(s) \div len) |->
                          SubSeq(s, (m - 1) * len + 1, m * len)]
      /\ Cut(s, len) \in Seq(Syllables(len)) /\ Len(Cut(s, len)) = Len(s) \div len
  <2>1. Cut(s, len) = [m \in 1 .. (Len(s) \div len) |-> SubSeq(s, (m - 1) * len + 1, m * len)]
    BY Zenon DEF Cut
  <2>2. Cut(s, len) \in Seq(Syllables(len)) /\ Len(Cut(s, len)) = Len(s) \div len
    BY <1>4, CutAre
  <2>3. QED
    BY <2>1, <2>2, Zenon
<1> HIDE DEF q
<1>7. Len(s) \div len = q
  BY <1>1, <1>5
<1>8. ASSUME NEW m \in 1 .. q
      PROVE  SubSeq(s, (m - 1) * len + 1, m * len) = yins[m]
  <2> DEFINE a == (m - 1) * len + 1
             b == m * len
  <2>1. a \in Nat /\ b \in Nat /\ 1 <= a /\ b - a + 1 = len /\ a = (m - 1) * len + 1
    BY <1>1
  <2>2. b <= Len(s)
    <3>1. m * len <= len * q
      BY <1>1
    <3>2. QED
      BY <1>5, <3>1
  <2>3. ASSUME NEW j \in 1 .. len PROVE a + j - 1 = (m - 1) * len + j
    <3> DEFINE x == (m - 1) * len
    <3>1. x \in Int
      BY <1>1
    <3> HIDE DEF x
    <3>2. (x + 1) + j - 1 = x + j
      BY <3>1
    <3>3. QED
      BY <3>2 DEF x
  <2> HIDE DEF a, b
  <2>4. /\ SubSeq(s, a, b) \in Seq(Nat) /\ Len(SubSeq(s, a, b)) = len
        /\ \A j \in 1 .. len : SubSeq(s, a, b)[j] = s[a + j - 1]
    BY <1>4, <2>1, <2>2
  <2>5. ASSUME NEW j \in 1 .. len PROVE SubSeq(s, a, b)[j] = yins[m][j]
    <3>1. SubSeq(s, a, b)[j] = s[a + j - 1]
      BY <2>4
    <3>2. s[(m - 1) * len + j] = yins[m][j]
      BY <1>5
    <3>3. QED
      BY <2>3, <3>1, <3>2
  <2>6. SubSeq(s, a, b) = yins[m]
    BY <1>3, <2>4, <2>5, SeqEqual
  <2>7. QED
    BY <2>6 DEF a, b
<1>9. Cut(s, len) = yins
  <2>1. yins = [m \in 1 .. q |-> yins[m]]
    BY DEF q
  <2> DEFINE part(m) == SubSeq(s, (m - 1) * len + 1, m * len)
  <2>2. Cut(s, len) = [m \in 1 .. q |-> part(m)]
    BY <1>6, <1>7, Zenon
  <2>3. \A m \in 1 .. q : part(m) = yins[m]
    BY <1>8
  <2> HIDE DEF part
  <2>4. QED
    BY <2>1, <2>2, <2>3
<1>10. QED
  BY <1>4, <1>5, <1>9 DEF s, q

\* Word w of new has the count it has in db, and its readings unless one has an invalid
\* syllable; a word without readings may have got the only possible one.
AsWas(db, new, w) ==
    /\ new[w].refcount = db[w].refcount
    /\ 0 \notin Range(FlattenSeq(db[w].yins)) =>
         new[w].yins = db[w].yins \/ (db[w].yins = <<>> /\ Len(new[w].yins) = 1)

LineFor(db, w) ==
    [tsi |-> w, refcount |-> db[w].refcount, yin |-> Printed(FlattenSeq(db[w].yins))]

\* A line of the dump archived: its word is as it was, and the others are left alone.
LEMMA LineBack ==
    ASSUME NEW db, Kept(db), NEW new, Kept(new), NEW w \in DOMAIN db
    PROVE  LET r == Archive(new, LineFor(db, w)) IN
           /\ Kept(r) /\ DOMAIN r = DOMAIN new \cup {w}
           /\ \A k \in DOMAIN new : k # w => r[k] = new[k]
           /\ AsWas(db, r, w)
<1> DEFINE old == db[w].yins
           all == FlattenSeq(old)
           field == Printed(all)
           len == Len(w) \div 2
           syllables == Expand(field)
           yins == IF syllables = <<>> THEN OnlyYin(new, w) ELSE Cut(syllables, len)
           l == LineFor(db, w)
           r == Archive(new, l)
<1>1. /\ w \in Seq(1 .. 255) /\ Len(w) >= 2 /\ old \in Seq(Syllables(len))
      /\ l.tsi = w /\ l.refcount = db[w].refcount /\ l.yin = field
  BY DEF Kept, LineFor
<1>2. len \in Nat /\ len > 0
  <2> DEFINE n == Len(w)
  <2>1. n \in Nat /\ n >= 2
    BY <1>1
  <2> HIDE DEF n
  <2>2. n \div 2 \in Nat /\ n \div 2 > 0
    BY <2>1
  <2>3. QED
    BY <2>2 DEF n
<1>3. PossibleTsiYins(new, w) \in Seq(Syllables(len))
  BY <1>1, PossibleAre
<1>4. r = Put({"CREATEDB", "NOSYNC", "OVERWRITE"}, new, w, TsiInfo(db[w].refcount, yins))
  BY <1>1, Zenon DEF Archive
<1> HIDE DEF len, old, l
<1>5. all \in Seq(Nat) /\ Len(all) = len * Len(old) /\ Cut(all, len) = old
  BY <1>1, <1>2, CutBack
<1> HIDE DEF all
<1>6. field \in Seq(Syllables(1))
  BY <1>5, PrintedIs
<1>7. Kept(r)
  <2>1. Syllables(1) \subseteq Seq(Nat)
    BY DEF Syllables
  <2>2. field \in Seq(Seq(Nat))
    BY <1>6, <2>1, SeqOfMore
  <2> HIDE DEF field
  <2>3. QED
    BY <1>1, <2>2, ArchiveKept
<1>8. ASSUME 0 \notin Range(all) PROVE yins = old \/ (old = <<>> /\ Len(yins) = 1)
  <2>1. \A n \in 1 .. Len(all) : all[n] # 0
    <3>1. DOMAIN all = 1 .. Len(all)
      BY <1>5
    <3>2. QED
      BY <1>8, <3>1 DEF Range
  <2>2. Len(field) = Len(all) /\ \A n \in 1 .. Len(all) : field[n] = <<all[n]>>
    BY <1>5, <2>1, PrintedIs
  <2> HIDE DEF field
  <2>3. /\ syllables \in Seq(Nat) /\ Len(syllables) = Len(field)
        /\ \A k \in 1 .. Len(field) : syllables[k] = field[k][1]
    BY <1>6, ExpandOnes
  <2> HIDE DEF syllables
  <2>4. syllables = all
    <3>1. Len(syllables) = Len(all) /\ \A i \in 1 .. Len(syllables) : syllables[i] = all[i]
      BY <2>2, <2>3
    <3>2. QED
      BY <1>5, <2>3, <3>1, SeqEqual
  <2>5. CASE all = <<>>
    <3>1. len * Len(old) = 0
      BY <1>5, <2>5
    <3>2. old = <<>>
      <4>1. Len(old) \in Nat
        BY <1>1
      <4>2. Len(old) = 0
        BY <1>2, <3>1, <4>1
      <4>3. QED
        BY <1>1, <4>2
    <3>3. yins = OnlyYin(new, w)
      BY <2>4, <2>5
    <3>4. yins = <<>> \/ Len(yins) = 1
      <4> DEFINE p == PossibleTsiYins(new, w)
      <4>1. p \in Seq(Syllables(len)) /\ yins = IF Len(p) > 1 THEN <<>> ELSE p
        BY <1>3, <3>3, Zenon DEF OnlyYin
      <4> HIDE DEF p, yins
      <4>2. CASE Len(p) > 1
        BY <4>1, <4>2
      <4>3. CASE ~ (Len(p) > 1)
        <5>1. Len(p) = 0 \/ Len(p) = 1
          <6>1. Len(p) \in Nat
            BY <4>1, LenProperties, Zenon
          <6>2. \A m \in Nat : ~ (m > 1) => m = 0 \/ m = 1
            OBVIOUS
          <6>3. QED
            BY <4>3, <6>1, <6>2, Zenon
        <5>2. Len(p) = 0 => p = <<>>
          BY <4>1
        <5>3. QED
          BY <4>1, <4>3, <5>1, <5>2
      <4>4. QED
        BY <4>2, <4>3
    <3>5. QED
      BY <3>2, <3>4
  <2>6. CASE all # <<>>
    BY <1>5, <2>4, <2>6
  <2>7. QED
    BY <2>5, <2>6
<1> HIDE DEF yins, r
<1>9. /\ DOMAIN r = DOMAIN new \cup {w}
      /\ r[w] = TsiInfo(db[w].refcount, yins)
      /\ \A k \in DOMAIN new : k # w => r[k] = new[k]
  BY <1>4 DEF Put, CanPut
<1>10. AsWas(db, r, w)
  <2>1. r[w].refcount = db[w].refcount /\ r[w].yins = yins
    BY <1>9 DEF TsiInfo
  <2>2. QED
    BY <1>8, <2>1 DEF AsWas, all, old
<1>11. QED
  BY <1>7, <1>9, <1>10 DEF r, l

\* What has been read back after n lines.
Restored(db, n, new) ==
    /\ Kept(new)
    /\ DOMAIN new = {Walk(db)[k] : k \in 1 .. n}
    /\ \A k \in 1 .. n : AsWas(db, new, Walk(db)[k])

\* A line more.
LEMMA RestoredMore ==
    ASSUME NEW db, Kept(db), NEW N \in Nat, NEW n \in Nat, n + 1 <= N,
           NEW new, Restored(db, n, new),
           \A k \in 1 .. N : Walk(db)[k] \in DOMAIN db,
           \A k, m \in 1 .. N : Walk(db)[k] = Walk(db)[m] => k = m
    PROVE  Restored(db, n + 1, Archive(new, LineFor(db, Walk(db)[n + 1])))
<1> DEFINE w == Walk(db)[n + 1]
           r == Archive(new, LineFor(db, w))
<1>1. n + 1 \in 1 .. N /\ w \in DOMAIN db
  OBVIOUS
<1> HIDE DEF w
<1>2. /\ Kept(r) /\ DOMAIN r = DOMAIN new \cup {w}
      /\ \A k \in DOMAIN new : k # w => r[k] = new[k]
      /\ AsWas(db, r, w)
  BY <1>1, LineBack DEF Restored
<1> HIDE DEF r
<1>3. 1 .. n + 1 = (1 .. n) \cup {n + 1}
  OBVIOUS
<1>4. DOMAIN r = {Walk(db)[k] : k \in 1 .. n + 1}
  BY <1>2, <1>3 DEF Restored, w
<1>5. ASSUME NEW k \in 1 .. n + 1 PROVE AsWas(db, r, Walk(db)[k])
  <2>1. CASE k = n + 1
    BY <1>2, <2>1 DEF w
  <2>2. CASE k # n + 1
    <3>1. k \in 1 .. n /\ k \in 1 .. N
      BY <2>2
    <3>2. Walk(db)[k] \in DOMAIN new /\ Walk(db)[k] # w
      BY <1>1, <2>2, <3>1 DEF Restored, w
    <3>3. r[Walk(db)[k]] = new[Walk(db)[k]]
      BY <1>2, <3>2
    <3>4. AsWas(db, new, Walk(db)[k])
      BY <3>1 DEF Restored
    <3>5. QED
      BY <3>3, <3>4 DEF AsWas
  <2>3. QED
    BY <2>1, <2>2
<1>6. Restored(db, n + 1, r)
  BY <1>2, <1>4, <1>5, Zenon DEF Restored
<1>7. QED
  BY <1>6 DEF r, w

\* All lines.
LEMMA ReadBack == ASSUME ToolsInv PROVE RoundTrip
<1> DEFINE db == tsi_db
           D == DOMAIN db
           N == Cardinality(D)
           ls == Tsidump(db)
           again == FoldLeft(Archive, NoRecords, ls)
<1>1. Kept(db)
  BY DEF ToolsInv
<1>2. /\ N \in Nat
      /\ \A n \in 1 .. N : Walk(db)[n] \in D
      /\ \A k \in D : \E n \in 1 .. N : Walk(db)[n] = k
      /\ \A m, n \in 1 .. N : Walk(db)[m] = Walk(db)[n] => m = n
  <2>1. 1 .. 255 \subseteq Nat
    OBVIOUS
  <2>2. Seq(1 .. 255) \subseteq Seq(Nat)
    BY <2>1, SeqOfMore
  <2>3. DOMAIN db \in SUBSET Seq(Nat) /\ IsFiniteSet(DOMAIN db)
    BY <1>1, <2>2 DEF Kept
  <2>4. QED
    BY <2>3, WalkVisits
<1> HIDE DEF N, db
<1>3. ls = [k \in 1 .. N |-> LineFor(db, Walk(db)[k])]
  BY Zenon DEF Tsidump, LineFor, N
<1> DEFINE S == {LineFor(db, Walk(db)[k]) : k \in 1 .. N}
<1>4. ls \in Seq(S) /\ Len(ls) = N /\ \A k \in 1 .. N : ls[k] = LineFor(db, Walk(db)[k])
  <2> DEFINE x(k) == LineFor(db, Walk(db)[k])
  <2>1. \A k \in 1 .. N : x(k) \in S
    OBVIOUS
  <2> HIDE DEF x, S
  <2>2. [k \in 1 .. N |-> x(k)] \in Seq(S) /\ Len([k \in 1 .. N |-> x(k)]) = N
        /\ \A k \in 1 .. N : [j \in 1 .. N |-> x(j)][k] = x(k)
    BY <1>2, <2>1
  <2>3. QED
    BY <1>3, <2>2, Zenon DEF x
<1> HIDE DEF ls, S
<1>5. PICK L : /\ L[0] = NoRecords /\ L[N] = ArchiveAll(NoRecords, ls)
               /\ \A n \in 1 .. N : L[n] = Archive(L[n - 1], ls[n])
  BY <1>4, ArchiveTurns
<1> DEFINE T == {n \in Nat : n <= N => Restored(db, n, L[n])}
<1>6. 0 \in T
  <2>1. DOMAIN NoRecords = {} /\ 1 .. 0 = {}
    BY DEF NoRecords
  <2>2. Kept(NoRecords)
    <3>1. IsFiniteSet(DOMAIN NoRecords)
      BY <2>1, FS_EmptySet
    <3>2. QED
      BY <2>1, <3>1 DEF Kept
  <2>3. Restored(db, 0, NoRecords)
    BY <2>1, <2>2 DEF Restored
  <2>4. Restored(db, 0, L[0])
    BY <1>5, <2>3, Zenon
  <2>5. QED
    BY <2>4
<1>7. ASSUME NEW n \in T PROVE n + 1 \in T
  <2>1. SUFFICES ASSUME n + 1 <= N PROVE Restored(db, n + 1, L[n + 1])
    OBVIOUS
  <2>2. n \in Nat /\ Restored(db, n, L[n])
    BY <1>2, <2>1
  <2>3. L[n + 1] = Archive(L[n], LineFor(db, Walk(db)[n + 1]))
    <3>1. n + 1 \in 1 .. N /\ (n + 1) - 1 = n
      BY <1>2, <2>1, <2>2
    <3>2. QED
      BY <1>4, <1>5, <3>1
  <2>4. Restored(db, n + 1, Archive(L[n], LineFor(db, Walk(db)[n + 1])))
    BY <1>1, <1>2, <2>1, <2>2, RestoredMore
  <2>5. QED
    BY <2>3, <2>4, Zenon
<1>8. T = Nat
  <2>1. T \in SUBSET Nat
    OBVIOUS
  <2> HIDE DEF T
  <2>2. QED
    BY <1>6, <1>7, <2>1, Induction
<1>9. Restored(db, N, again)
  <2>1. Restored(db, N, L[N])
    BY <1>2, <1>8
  <2>2. L[N] = again
    BY <1>5, Zenon DEF ArchiveAll
  <2>3. QED
    BY <2>1, <2>2, Zenon
<1> HIDE DEF again
<1>10. DOMAIN again = D
  <2>1. DOMAIN again = {Walk(db)[k] : k \in 1 .. N}
    BY <1>9 DEF Restored
  <2>2. QED
    BY <1>2, <2>1
<1>11. ASSUME NEW w \in D PROVE AsWas(db, again, w)
  BY <1>2, <1>9 DEF Restored
<1>12. QED
  BY <1>10, <1>11, Zenon DEF RoundTrip, AsWas, again, ls, db

\* A word list that tsidump writes and tsiadd reads back gives every word its count and its
\* readings, whatever the utilities did before, unless a syllable was invalid; only a word
\* that had no reading may have one more, the only possible one.
THEOREM RoundTripAlways == ToolsSpec => []RoundTrip
<1>1. ToolsInit => ToolsInv
  BY ToolsInitInv
<1>2. ToolsInv /\ [ToolsNext]_toolsVars => ToolsInv'
  BY ToolsNextInv
<1>3. ToolsInv => RoundTrip
  BY ReadBack
<1>4. QED
  BY <1>1, <1>2, <1>3, PTL DEF ToolsSpec

-----------------------------------------------------------------------------
(* The lines in any order *)

\* What is combined is one of the readings before one of those that follow.
LEMMA CombinedMembers ==
    ASSUME NEW m \in Nat, NEW heads \in Seq(Syllables(1)),
           NEW tails \in Seq(Syllables(m)), NEW i \in 1 .. Len(Combined(heads, tails))
    PROVE  \E a \in 1 .. Len(heads) : \E r \in 1 .. Len(tails) :
             Combined(heads, tails)[i] = heads[a] \o tails[r]
<1> DEFINE Row(r) == [a \in 1 .. Len(heads) |-> heads[a] \o tails[r]]
           ss == [r \in 1 .. Len(tails) |-> Row(r)]
           S == Seq(Nat)
<1>1. Len(heads) \in Nat /\ Len(tails) \in Nat
  OBVIOUS
<1>2. ASSUME NEW a \in 1 .. Len(heads), NEW r \in 1 .. Len(tails)
      PROVE  heads[a] \o tails[r] \in S
  <2>1. heads[a] \in Syllables(1) /\ tails[r] \in Syllables(m)
    BY ElementOfSeq
  <2>2. heads[a] \in Seq(Nat) /\ tails[r] \in Seq(Nat)
    BY <2>1 DEF Syllables
  <2>3. QED
    BY <2>2, ConcatProperties
<1>3. ASSUME NEW r \in 1 .. Len(tails) PROVE Row(r) \in Seq(S) /\ Len(Row(r)) = Len(heads)
  <2> HIDE DEF S
  <2>1. \A a \in 1 .. Len(heads) : heads[a] \o tails[r] \in S
    BY <1>2
  <2>2. QED
    BY <1>1, <2>1
<1>4. ss \in Seq(Seq(S)) /\ Len(ss) = Len(tails) /\ \A r \in 1 .. Len(tails) : ss[r] = Row(r)
  <2> HIDE DEF Row, S
  <2>1. QED
    BY <1>1, <1>3
<1>5. Combined(heads, tails) = FlattenSeq(ss)
  BY Zenon DEF Combined
<1> HIDE DEF ss, S
<1>6. PICK r \in 1 .. Len(ss) : \E a \in 1 .. Len(ss[r]) : FlattenSeq(ss)[i] = ss[r][a]
  BY <1>4, <1>5, FlattenHolds
<1>7. PICK a \in 1 .. Len(ss[r]) : FlattenSeq(ss)[i] = ss[r][a]
  BY <1>6
<1>8. r \in 1 .. Len(tails) /\ ss[r] = Row(r) /\ a \in 1 .. Len(heads)
  <2> HIDE DEF Row
  <2>1. QED
    BY <1>3, <1>4
<1>9. Row(r)[a] = heads[a] \o tails[r]
  BY <1>8
<1>10. QED
  BY <1>5, <1>7, <1>8, <1>9

\* One syllable before others.
LEMMA OneBefore ==
    ASSUME NEW m \in Nat, NEW s \in Syllables(1), NEW t \in Syllables(m)
    PROVE  /\ (s \o t)[1] = s[1] /\ s = <<s[1]>>
           /\ \A h \in 1 .. m + 1 : h # 1 => (s \o t)[h] = t[h - 1]
<1>1. s \in Seq(Nat) /\ t \in Seq(Nat) /\ Len(s) = 1 /\ Len(t) = m
  BY DEF Syllables
<1> DEFINE c == s \o t
           ls == Len(s)
           lt == Len(t)
<1>2. \A i \in 1 .. ls + lt : c[i] = IF i <= ls THEN s[i] ELSE t[i - ls]
  BY <1>1, ConcatProperties, Zenon
<1>3. ls = 1 /\ lt = m
  BY <1>1
<1>4. s = <<s[1]>>
  <2>1. 1 \in 1 .. Len(s)
    BY <1>1
  <2>2. s[1] \in Nat
    BY <1>1, <2>1, ElementOfSeq
  <2>3. <<s[1]>> \in Seq(Nat) /\ Len(<<s[1]>>) = 1 /\ <<s[1]>>[1] = s[1]
    BY <2>2
  <2>4. \A q \in 1 .. Len(s) : s[q] = <<s[1]>>[q]
    <3>1. \A q \in 1 .. Len(s) : q = 1
      BY <1>1
    <3>2. QED
      BY <2>3, <3>1
  <2>5. Len(s) = Len(<<s[1]>>)
    BY <1>1, <2>3
  <2>6. QED
    BY <1>1, <2>3, <2>4, <2>5, SeqEqual, Zenon
<1> HIDE DEF c, ls, lt
<1>5. c[1] = s[1]
  BY <1>2, <1>3
<1>6. ASSUME NEW h \in 1 .. m + 1, h # 1 PROVE c[h] = t[h - 1]
  BY <1>2, <1>3, <1>6
<1>7. QED
  BY <1>4, <1>5, <1>6 DEF c

\* A syllable is a reading of a character.
HasReading(db, z, s) == \E a \in 1 .. Len(ZhiYin(db, z)) : ZhiYin(db, z)[a] = <<s>>

\* A syllable of a possible reading is a reading of its character.
LEMMA PossibleMembers ==
    ASSUME NEW db, NEW w \in Seq(1 .. 255), Voiced(db, w),
           NEW i \in 1 .. Len(PossibleTsiYins(db, w)), NEW j \in 1 .. Len(w) \div 2
    PROVE  HasReading(db, Zhis(w)[j], PossibleTsiYins(db, w)[i][j])
<1> DEFINE n == Len(w) \div 2
           Of(k) == ZhiYin(db, Zhis(w)[k])
<1>1. PICK f : Combining(db, w, f) /\ PossibleTsiYins(db, w) = f[1]
  BY PossibleIs
<1>2. /\ n \in Nat
      /\ f[n + 1] = << <<>> >>
      /\ \A k \in 1 .. n : f[k] = Combined(Of(k), f[k + 1]) /\ Of(k) \in Seq(Syllables(1))
      /\ \A k \in 1 .. n + 1 : f[k] \in Seq(Syllables(n + 1 - k))
  BY <1>1 DEF Combining, Voiced
<1> HIDE DEF n, Of
<1> DEFINE Good(k) == \A g \in 1 .. Len(f[k]) : \A h \in 1 .. n + 1 - k :
                        \E a \in 1 .. Len(Of(k + h - 1)) :
                          Of(k + h - 1)[a] = <<f[k][g][h]>>
           T == {k \in 1 .. n + 1 : Good(k)}
<1>3. n + 1 \in T
  <2>1. n + 1 \in 1 .. n + 1 /\ 1 .. n + 1 - (n + 1) = {}
    BY <1>2
  <2>2. QED
    BY <2>1
<1>4. ASSUME NEW k \in 1 .. n, k + 1 \in T PROVE k \in T
  <2> DEFINE heads == Of(k)
             tails == f[k + 1]
             m == n - k
  <2>1. /\ m \in Nat /\ k + 1 \in 1 .. n + 1 /\ k \in 1 .. n + 1
        /\ n + 1 - (k + 1) = m /\ n + 1 - k = m + 1
    BY <1>2
  <2>2. heads \in Seq(Syllables(1)) /\ tails \in Seq(Syllables(m)) /\ f[k] = Combined(heads, tails)
    BY <1>2, <2>1
  <2>3. \A g \in 1 .. Len(tails) : \A h \in 1 .. m : \E a \in 1 .. Len(Of((k + 1) + h - 1)) :
          Of((k + 1) + h - 1)[a] = <<tails[g][h]>>
    BY <1>4, <2>1
  <2> HIDE DEF T, heads, tails, m
  <2>4. ASSUME NEW g \in 1 .. Len(f[k]), NEW h \in 1 .. m + 1
        PROVE  \E a \in 1 .. Len(Of(k + h - 1)) : Of(k + h - 1)[a] = <<f[k][g][h]>>
    <3>1. PICK a \in 1 .. Len(heads), r \in 1 .. Len(tails) : f[k][g] = heads[a] \o tails[r]
      <4>1. g \in 1 .. Len(Combined(heads, tails))
        BY <2>2
      <4>2. \E a \in 1 .. Len(heads) : \E r \in 1 .. Len(tails) :
              Combined(heads, tails)[g] = heads[a] \o tails[r]
        <5>1. m \in Nat /\ heads \in Seq(Syllables(1)) /\ tails \in Seq(Syllables(m))
          BY <2>1, <2>2
        <5>2. QED
          BY <4>1, <5>1, CombinedMembers, Zenon
      <4>3. QED
        BY <2>2, <4>2
    <3>2. heads[a] \in Syllables(1) /\ tails[r] \in Syllables(m)
      BY <2>2, ElementOfSeq
    <3> DEFINE s == heads[a]
               t == tails[r]
    <3>3. /\ (s \o t)[1] = s[1] /\ s = <<s[1]>>
          /\ \A q \in 1 .. m + 1 : q # 1 => (s \o t)[q] = t[q - 1]
      BY <2>1, <3>2, OneBefore
    <3> HIDE DEF s, t
    <3>4. CASE h = 1
      <4>1. f[k][g][h] = s[1]
        BY <3>1, <3>3, <3>4 DEF s, t
      <4>2. k + h - 1 = k /\ Of(k) = heads
        BY <3>4 DEF heads
      <4>3. heads[a] = <<f[k][g][h]>>
        BY <3>3, <4>1 DEF s
      <4>4. QED
        BY <4>2, <4>3
    <3>5. CASE h # 1
      <4>1. h - 1 \in 1 .. m /\ (k + 1) + (h - 1) - 1 = k + h - 1
        BY <2>1, <3>5
      <4>2. (s \o t)[h] = t[h - 1]
        BY <3>3, <3>5
      <4>3. \E b \in 1 .. Len(Of(k + h - 1)) : Of(k + h - 1)[b] = <<tails[r][h - 1]>>
        BY <2>3, <4>1
      <4>4. f[k][g][h] = tails[r][h - 1]
        BY <3>1, <4>2 DEF s, t
      <4>5. QED
        BY <4>3, <4>4
    <3>6. QED
      BY <3>4, <3>5
  <2>5. QED
    BY <2>1, <2>4 DEF T
<1>5. \A k \in 1 .. n + 1 : k \in T
  <2>1. T \in SUBSET Nat
    OBVIOUS
  <2> HIDE DEF T
  <2>2. QED
    BY <1>2, <1>3, <1>4, <2>1, Downwards
<1>6. 1 \in T /\ n + 1 - 1 = n /\ 1 + j - 1 = j /\ j \in 1 .. n
  <2> HIDE DEF T
  <2>1. QED
    BY <1>2, <1>5 DEF n
<1>7. \E a \in 1 .. Len(Of(j)) : Of(j)[a] = <<f[1][i][j]>>
  <2>1. Good(1)
    BY <1>6
  <2>2. i \in 1 .. Len(f[1]) /\ j \in 1 .. n + 1 - 1
    BY <1>1, <1>6
  <2>3. \E a \in 1 .. Len(Of(1 + j - 1)) : Of(1 + j - 1)[a] = <<f[1][i][j]>>
    BY <2>1, <2>2
  <2>4. QED
    BY <1>6, <2>3
<1>8. QED
  BY <1>1, <1>7 DEF Of, HasReading

\* Where the characters have the same readings, the word has the same possible ones.
LEMMA PossibleSame ==
    ASSUME NEW db, NEW other, NEW w \in Seq(1 .. 255), Voiced(db, w),
           \A k \in 1 .. Len(w) \div 2 : ZhiYin(other, Zhis(w)[k]) = ZhiYin(db, Zhis(w)[k])
    PROVE  PossibleTsiYins(other, w) = PossibleTsiYins(db, w)
<1> DEFINE n == Len(w) \div 2
<1>1. PICK f : Combining(db, w, f) /\ PossibleTsiYins(db, w) = f[1]
  BY PossibleIs
<1>2. PICK g : Combining(other, w, g) /\ PossibleTsiYins(other, w) = g[1]
  <2>1. Voiced(other, w)
    BY DEF Voiced
  <2>2. QED
    BY <2>1, PossibleIs
<1>3. n \in Nat /\ f[n + 1] = g[n + 1] /\ 1 \in 1 .. n + 1
  BY <1>1, <1>2 DEF Combining
<1>4. ASSUME NEW k \in 1 .. n, f[k + 1] = g[k + 1] PROVE f[k] = g[k]
  BY <1>1, <1>2, <1>4 DEF Combining
<1> HIDE DEF n
<1> DEFINE T == {k \in 1 .. n + 1 : f[k] = g[k]}
<1>5. T \in SUBSET Nat /\ n + 1 \in T
  BY <1>3
<1>6. \A k \in 1 .. n : k + 1 \in T => k \in T
  BY <1>3, <1>4
<1>7. 1 \in T
  <2> HIDE DEF T
  <2>1. \A k \in 1 .. n + 1 : k \in T
    BY <1>3, <1>5, <1>6, Downwards
  <2>2. QED
    BY <1>3, <2>1
<1>8. QED
  BY <1>1, <1>2, <1>7

\* Nothing is written out for a line without syllables.
LEMMA ExpandNone ==
    ASSUME NEW len \in Nat, len > 0
    PROVE  Expand(<<>>) = <<>> /\ Cut(Expand(<<>>), len) = <<>>
<1>1. Expand(<<>>) = <<>>
  BY Zenon DEF Expand
<1>2. <<>> \in Seq(Nat) /\ Len(<<>>) = 0 /\ 0 \div len = 0
  OBVIOUS
<1>3. Cut(<<>>, len) \in Seq(Syllables(len)) /\ Len(Cut(<<>>, len)) = 0
  BY <1>2, CutAre
<1>4. Cut(<<>>, len) = <<>>
  <2> DEFINE c == Cut(<<>>, len)
             S == Syllables(len)
  <2>1. c \in Seq(S) /\ Len(c) = 0
    BY <1>3
  <2> HIDE DEF c, S
  <2>2. c = <<>>
    BY <2>1, EmptySeq
  <2>3. QED
    BY <2>2 DEF c
<1>5. QED
  BY <1>1, <1>4

\* As long as nothing but lines was added, the words are those of the lines, with what the
\* lines say, or else with the only reading the characters that are there leave possible.
OrderInv ==
    /\ edits \in Nat
    /\ edits = 0 =>
         /\ DOMAIN tsi_db = {l.tsi : l \in Lines \ left}
         /\ \A l \in Lines \ left :
              LET yins == tsi_db[l.tsi].yins IN
              IF Expand(l.yin) # <<>> THEN yins = Cut(Expand(l.yin), Len(l.tsi) \div 2)
              ELSE yins = <<>> \/ (Len(l.tsi) > 2 /\ yins = PossibleTsiYins(tsi_db, l.tsi))

\* A word that is there no other word's line adds again.
LEMMA LineNew ==
    ASSUME ToolsInv, OrderInv, edits = 0, NEW l \in left
    PROVE  l \in Lines /\ l.tsi \notin DOMAIN tsi_db
<1>1. l \in Lines
  BY DEF ToolsInv
<1>2. l.tsi \notin {m.tsi : m \in Lines \ left}
  BY <1>1, OneLinePerWord
<1>3. QED
  BY <1>1, <1>2 DEF OrderInv

\* What a line puts into the TsiDB.
LEMMA ArchivePuts ==
    ASSUME NEW db, NEW l
    PROVE  LET new == Archive(db, l) IN
           /\ DOMAIN new = DOMAIN db \cup {l.tsi}
           /\ \A k \in DOMAIN db : k # l.tsi => new[k] = db[k]
           /\ new[l.tsi].yins = IF Expand(l.yin) = <<>> THEN OnlyYin(db, l.tsi)
                                ELSE Cut(Expand(l.yin), Len(l.tsi) \div 2)
<1> DEFINE yins == IF Expand(l.yin) = <<>> THEN OnlyYin(db, l.tsi)
                   ELSE Cut(Expand(l.yin), Len(l.tsi) \div 2)
<1>1. Archive(db, l)
      = Put({"CREATEDB", "NOSYNC", "OVERWRITE"}, db, l.tsi, TsiInfo(l.refcount, yins))
  BY Zenon DEF Archive
<1> HIDE DEF yins
<1>2. CanPut({"CREATEDB", "NOSYNC", "OVERWRITE"}, db, l.tsi)
  BY DEF CanPut
<1>3. Archive(db, l) = [k \in DOMAIN db \cup {l.tsi} |->
                          IF k = l.tsi THEN TsiInfo(l.refcount, yins) ELSE db[k]]
  BY <1>1, <1>2 DEF Put
<1>4. TsiInfo(l.refcount, yins).yins = yins
  BY DEF TsiInfo
<1>5. QED
  BY <1>3, <1>4 DEF yins

\* The characters of a word that has possible readings are there.
LEMMA CharactersThere ==
    ASSUME NEW db, Kept(db), NEW w \in Seq(1 .. 255), PossibleTsiYins(db, w) # <<>>,
           NEW k \in 1 .. Len(w) \div 2
    PROVE  Zhis(w)[k] \in DOMAIN db
<1> DEFINE z == Zhis(w)[k]
           p == PossibleTsiYins(db, w)
<1>1. Voiced(db, w)
  BY KeptVoiced
<1>2. 1 \in 1 .. Len(p)
  <2> DEFINE S == Syllables(Len(w) \div 2)
  <2>1. p \in Seq(S) /\ p # <<>>
    BY PossibleAre
  <2> HIDE DEF p, S
  <2>2. Len(p) # 0 /\ Len(p) \in Nat
    BY <2>1, EmptySeq
  <2>3. QED
    BY <2>2
<1>3. HasReading(db, z, p[1][k])
  BY <1>1, <1>2, PossibleMembers
<1>4. ZhiYin(db, z) # <<>>
  <2>1. 1 .. Len(<<>>) = {}
    OBVIOUS
  <2>2. QED
    BY <1>3, <2>1 DEF HasReading
<1>5. z \notin DOMAIN db => ZhiYin(db, z) = <<>>
  BY DEF ZhiYin, Get, NewTsi, TsiInfo
<1>6. QED
  BY <1>4, <1>5

\* A line more does not change the possible readings of a word that has some.
LEMMA StillPossible ==
    ASSUME NEW db, Kept(db), NEW l, l.tsi \notin DOMAIN db, NEW w \in Seq(1 .. 255),
           PossibleTsiYins(db, w) # <<>>
    PROVE  PossibleTsiYins(Archive(db, l), w) = PossibleTsiYins(db, w)
<1> DEFINE new == Archive(db, l)
<1>1. Voiced(db, w)
  BY KeptVoiced
<1>2. ASSUME NEW k \in 1 .. Len(w) \div 2 PROVE ZhiYin(new, Zhis(w)[k]) = ZhiYin(db, Zhis(w)[k])
  <2> DEFINE z == Zhis(w)[k]
  <2>1. z \in DOMAIN db
    BY CharactersThere
  <2>2. /\ DOMAIN new = DOMAIN db \cup {l.tsi}
        /\ \A q \in DOMAIN db : q # l.tsi => new[q] = db[q]
    BY ArchivePuts, Zenon
  <2> HIDE DEF new, z
  <2>3. z \in DOMAIN new /\ new[z] = db[z]
    BY <2>1, <2>2
  <2>4. ZhiYin(new, z) = ZhiYin(db, z)
    BY <2>1, <2>3 DEF ZhiYin, Get
  <2>5. QED
    BY <2>4 DEF z
<1> HIDE DEF new
<1>3. PossibleTsiYins(new, w) = PossibleTsiYins(db, w)
  BY <1>1, <1>2, PossibleSame
<1>4. QED
  BY <1>3 DEF new

\* A character is the only one of itself, and has no possible reading when it is not there.
LEMMA CharacterAlone ==
    ASSUME NEW db, Kept(db), NEW w \in Seq(1 .. 255), Len(w) = 2, w \notin DOMAIN db
    PROVE  PossibleTsiYins(db, w) = <<>>
<1>1. 1 \in 1 .. Len(w) \div 2 /\ 2 * 1 - 1 = 1 /\ 2 * 1 = 2
  OBVIOUS
<1>2. Zhis(w)[1] = SubSeq(w, 1, 2)
  BY <1>1, ZhiOf
<1>3. SubSeq(w, 1, 2) = w
  <2>1. SubSeq(w, 1, Len(w)) = w
    BY SubSeqFull
  <2>2. QED
    BY <2>1
<1>4. QED
  BY <1>1, <1>2, <1>3, CharactersThere

\* A line added.
LEMMA TsiaddOrder ==
    ASSUME ToolsInv, OrderInv, NEW l \in left, Tsiadd(l)
    PROVE  OrderInv'
<1> DEFINE new == Archive(tsi_db, l)
<1>1. tsi_db' = new /\ left' = left \ {l} /\ edits' = edits
  BY DEF Tsiadd
<1>2. SUFFICES ASSUME edits = 0
               PROVE  /\ DOMAIN new = {m.tsi : m \in Lines \ left'}
                      /\ \A m \in Lines \ left' :
                           IF Expand(m.yin) # <<>>
                             THEN new[m.tsi].yins = Cut(Expand(m.yin), Len(m.tsi) \div 2)
                             ELSE \/ new[m.tsi].yins = <<>>
                                  \/ /\ Len(m.tsi) > 2
                                     /\ new[m.tsi].yins = PossibleTsiYins(new, m.tsi)
  BY <1>1, Zenon DEF OrderInv
<1>3. l \in Lines /\ l.tsi \notin DOMAIN tsi_db
  BY <1>2, LineNew
<1>4. Lines \ left' = (Lines \ left) \cup {l}
  BY <1>1, <1>3
<1>5. /\ DOMAIN new = DOMAIN tsi_db \cup {l.tsi}
      /\ \A k \in DOMAIN tsi_db : k # l.tsi => new[k] = tsi_db[k]
      /\ new[l.tsi].yins = IF Expand(l.yin) = <<>> THEN OnlyYin(tsi_db, l.tsi)
                           ELSE Cut(Expand(l.yin), Len(l.tsi) \div 2)
  BY ArchivePuts, Zenon
<1>6. Kept(tsi_db)
  BY DEF ToolsInv
<1>7. ASSUME NEW w \in Seq(1 .. 255), PossibleTsiYins(tsi_db, w) # <<>>
      PROVE  PossibleTsiYins(new, w) = PossibleTsiYins(tsi_db, w)
  BY <1>3, <1>6, <1>7, StillPossible
<1> HIDE DEF new
<1>8. DOMAIN new = {m.tsi : m \in Lines \ left'}
  BY <1>2, <1>4, <1>5 DEF OrderInv
<1>9. ASSUME NEW m \in Lines \ left,
             NEW yins, yins = new[m.tsi].yins
      PROVE  IF Expand(m.yin) # <<>> THEN yins = Cut(Expand(m.yin), Len(m.tsi) \div 2)
             ELSE yins = <<>> \/ (Len(m.tsi) > 2 /\ yins = PossibleTsiYins(new, m.tsi))
  <2>1. m.tsi \in DOMAIN tsi_db /\ m.tsi # l.tsi
    BY <1>2, <1>3 DEF OrderInv
  <2>2. yins = tsi_db[m.tsi].yins
    BY <1>5, <1>9, <2>1
  <2>3. IF Expand(m.yin) # <<>> THEN yins = Cut(Expand(m.yin), Len(m.tsi) \div 2)
        ELSE yins = <<>> \/ (Len(m.tsi) > 2 /\ yins = PossibleTsiYins(tsi_db, m.tsi))
    BY <1>2, <2>2, Zenon DEF OrderInv
  <2>4. m.tsi \in Seq(1 .. 255)
    BY LineIs
  <2>5. QED
    BY <1>7, <2>3, <2>4, Zenon
<1>10. ASSUME NEW yins, yins = new[l.tsi].yins
       PROVE  IF Expand(l.yin) # <<>> THEN yins = Cut(Expand(l.yin), Len(l.tsi) \div 2)
              ELSE yins = <<>> \/ (Len(l.tsi) > 2 /\ yins = PossibleTsiYins(new, l.tsi))
  <2> DEFINE w == l.tsi
  <2>1. w \in Seq(1 .. 255) /\ Len(w) >= 2
    BY <1>3, LineIs
  <2>2. CASE Expand(l.yin) # <<>>
    BY <1>5, <1>10, <2>2, Zenon
  <2>3. CASE Expand(l.yin) = <<>>
    <3>1. yins = <<>> \/ yins = PossibleTsiYins(tsi_db, w)
      BY <1>5, <1>10, <2>3, Zenon DEF OnlyYin
    <3>2. SUFFICES ASSUME yins # <<>> PROVE Len(w) > 2 /\ yins = PossibleTsiYins(new, w)
      BY <2>3, Zenon
    <3>3. PossibleTsiYins(tsi_db, w) # <<>> /\ yins = PossibleTsiYins(tsi_db, w)
      BY <3>1, <3>2
    <3>4. PossibleTsiYins(new, w) = PossibleTsiYins(tsi_db, w)
      BY <1>7, <2>1, <3>3
    <3>5. Len(w) # 2
      BY <1>3, <1>6, <2>1, <3>3, CharacterAlone
    <3>6. Len(w) > 2
      <4> DEFINE c == Len(w)
      <4>1. c \in Nat /\ c >= 2 /\ c # 2
        BY <2>1, <3>5, LenProperties
      <4> HIDE DEF c
      <4>2. c > 2
        BY <4>1
      <4>3. QED
        BY <4>2 DEF c
    <3>7. QED
      BY <3>3, <3>4, <3>6
  <2>4. QED
    BY <2>2, <2>3
<1>11. QED
  BY <1>4, <1>8, <1>9, <1>10

\* It holds at first.
LEMMA OrderInitInv == ToolsInit => OrderInv
<1> SUFFICES ASSUME ToolsInit PROVE OrderInv
  OBVIOUS
<1>1. DOMAIN tsi_db = {} /\ Lines \ left = {} /\ edits = 0
  BY DEF ToolsInit, NoRecords
<1>2. QED
  BY <1>1 DEF OrderInv

\* Every utility keeps it.
LEMMA OrderNextInv ==
    ASSUME ToolsInv, OrderInv, [ToolsNext]_toolsVars
    PROVE  OrderInv'
<1>1. ASSUME NEW l \in left, Tsiadd(l) PROVE OrderInv'
  BY <1>1, TsiaddOrder
<1>2. ASSUME edits' = edits + 1 PROVE OrderInv'
  <2>1. edits' \in Nat /\ edits' # 0
    BY <1>2 DEF OrderInv
  <2>2. QED
    BY <2>1 DEF OrderInv
<1>3. ASSUME UNCHANGED <<left, tsi_db, edits>> PROVE OrderInv'
  BY <1>3 DEF OrderInv
<1>4. ASSUME NEW w, TsiaddWord(w) \/ Tsidel(w) \/ Tsiguess(w) PROVE OrderInv'
  <2>1. edits' = edits + 1
    BY <1>4, Zenon DEF TsiaddWord, Tsidel, Tsiguess
  <2>2. QED
    BY <1>2, <2>1
<1>5. ASSUME DumpAgain PROVE OrderInv'
  BY <1>2, <1>5 DEF DumpAgain
<1>6. ASSUME Tsiyindump PROVE OrderInv'
  BY <1>3, <1>6 DEF Tsiyindump
<1>7. ASSUME UNCHANGED toolsVars PROVE OrderInv'
  BY <1>3, <1>7 DEF toolsVars
<1>8. QED
  BY <1>1, <1>4, <1>5, <1>6, <1>7 DEF ToolsNext

\* A word is on one line.
LEMMA LineOfIs == ASSUME NEW l \in Lines PROVE LineOf(l.tsi) = l
<1>1. \A m \in Lines : m.tsi = l.tsi => m = l
  BY OneLinePerWord
<1>2. QED
  BY <1>1 DEF LineOf

\* The readings of a character are its syllables, one by one.
LEMMA CutOnes ==
    ASSUME NEW syllables \in Seq(Nat), NEW s,
           NEW a \in 1 .. Len(Cut(syllables, 1)), Cut(syllables, 1)[a] = <<s>>
    PROVE  s \in Range(syllables)
<1>1. Len(syllables) \in Nat
  BY LenProperties
<1>2. Len(syllables) \div 1 = Len(syllables)
  BY <1>1
<1>3. a \in 1 .. Len(syllables)
  <2>1. Len(Cut(syllables, 1)) = Len(syllables) \div 1
    BY CutAre
  <2>2. QED
    BY <1>2, <2>1
<1>4. Cut(syllables, 1)
      = [m \in 1 .. Len(syllables) \div 1 |-> SubSeq(syllables, (m - 1) * 1 + 1, m * 1)]
  BY Zenon DEF Cut
<1>5. Cut(syllables, 1)[a] = SubSeq(syllables, (a - 1) * 1 + 1, a * 1)
  BY <1>2, <1>3, <1>4
<1>6. (a - 1) * 1 + 1 = a /\ a * 1 = a /\ a \in Int
  BY <1>3
<1>7. SubSeq(syllables, a, a) = <<s>>
  BY <1>5, <1>6
<1>8. \A i \in a .. a : syllables[i] \in Nat
  <2>1. \A i \in a .. a : i = a
    BY <1>6
  <2>2. syllables[a] \in Nat
    BY <1>3, ElementOfSeq
  <2>3. QED
    BY <2>1, <2>2
<1>9. SubSeq(syllables, a, a)[1] = syllables[a + 1 - 1]
  <2>1. 1 \in 1 .. a - a + 1
    BY <1>6
  <2>2. QED
    BY <1>6, <1>8, <2>1, SubSeqProperties
<1>10. s = syllables[a]
  BY <1>6, <1>7, <1>9
<1>11. DOMAIN syllables = 1 .. Len(syllables)
  BY LenProperties
<1>12. QED
  BY <1>3, <1>10, <1>11 DEF Range

\* All lines added, and nothing else done.
Filled == LinesComplete /\ left = {} /\ edits = 0

\* Then every line's word is there.
LEMMA FilledIs ==
    ASSUME OrderInv, Filled, NEW l \in Lines
    PROVE  /\ l.tsi \in DOMAIN tsi_db
           /\ IF Expand(l.yin) # <<>>
                THEN tsi_db[l.tsi].yins = Cut(Expand(l.yin), Len(l.tsi) \div 2)
                ELSE \/ tsi_db[l.tsi].yins = <<>>
                     \/ /\ Len(l.tsi) > 2
                        /\ tsi_db[l.tsi].yins = PossibleTsiYins(tsi_db, l.tsi)
<1>1. l \in Lines \ left /\ edits = 0
  BY DEF Filled
<1>2. QED
  BY <1>1, Zenon DEF OrderInv

\* A line with syllables gives its word a reading.
LEMMA GivenReading ==
    ASSUME Filled, NEW l \in Lines, l.yin # <<>>
    PROVE  /\ Expand(l.yin) \in Seq(Nat) /\ Expand(l.yin) # <<>>
           /\ Cut(Expand(l.yin), Len(l.tsi) \div 2) # <<>>
<1> DEFINE e == Expand(l.yin)
           c == Len(l.tsi)
           len == c \div 2
<1>1. e \in Seq(Nat)
  BY LineIs, ExpandAre
<1>2. c \in Nat /\ c >= 2
  BY LineIs, LenProperties
<1>3. Len(e) >= len
  BY DEF Filled, LinesComplete
<1> HIDE DEF c, e
<1>4. len \in Nat /\ len > 0
  BY <1>2
<1> HIDE DEF len
<1> DEFINE n == Len(e)
<1>5. n \in Nat /\ n >= len
  BY <1>1, <1>3, LenProperties
<1>6. Len(Cut(e, len)) = n \div len
  BY <1>1, <1>4, CutAre
<1> HIDE DEF n
<1>7. n # 0
  BY <1>4, <1>5
<1>8. n \div len # 0
  BY <1>4, <1>5
<1>9. Len(<<>>) = 0
  OBVIOUS
<1>10. e # <<>> /\ Cut(e, len) # <<>>
  BY <1>6, <1>7, <1>8, <1>9 DEF n
<1>11. QED
  BY <1>1, <1>10 DEF e, len, c

\* A character has the readings its line gives, and no invalid one.
LEMMA CharacterIs ==
    ASSUME ToolsInv, OrderInv, Filled, NEW z \in DOMAIN tsi_db, Len(z) = 2
    PROVE  /\ tsi_db[z].yins = GivenYins(z)
           /\ \A s : HasReading(tsi_db, z, s) => s # 0
<1>1. PICK m \in Lines : z = m.tsi
  BY DEF OrderInv, Filled
<1>2. LineOf(z) = m /\ Len(z) \div 2 = 1
  BY <1>1, LineOfIs
<1>3. GivenYins(z) = Cut(Expand(m.yin), 1)
  BY <1>2 DEF GivenYins
<1>4. ZhiYin(tsi_db, z) = tsi_db[z].yins
  BY DEF ZhiYin, Get
<1>5. CASE m.yin # <<>>
  <2>1. Expand(m.yin) \in Seq(Nat) /\ Expand(m.yin) # <<>>
    BY <1>5, GivenReading
  <2>2. tsi_db[z].yins = Cut(Expand(m.yin), 1)
    BY <1>1, <1>2, <2>1, FilledIs
  <2>3. 0 \notin Range(Expand(m.yin))
    BY <1>1, <1>5 DEF Filled, LinesComplete
  <2>4. ASSUME NEW s, HasReading(tsi_db, z, s) PROVE s # 0
    <3>1. PICK a \in 1 .. Len(Cut(Expand(m.yin), 1)) : Cut(Expand(m.yin), 1)[a] = <<s>>
      BY <1>4, <2>2, <2>4, Zenon DEF HasReading
    <3>2. s \in Range(Expand(m.yin))
      BY <2>1, <3>1, CutOnes
    <3>3. QED
      BY <2>3, <3>2
  <2>5. QED
    BY <1>3, <2>2, <2>4
<1>6. CASE m.yin = <<>>
  <2>1. Expand(m.yin) = <<>> /\ Cut(Expand(m.yin), 1) = <<>>
    BY <1>6, ExpandNone
  <2>2. tsi_db[z].yins = <<>> \/ Len(z) > 2
    BY <1>1, <2>1, FilledIs
  <2>3. tsi_db[z].yins = <<>>
    BY <2>2
  <2>4. ASSUME NEW s PROVE ~ HasReading(tsi_db, z, s)
    <3>1. 1 .. Len(<<>>) = {}
      OBVIOUS
    <3>2. QED
      BY <1>4, <2>3, <3>1 DEF HasReading
  <2>5. QED
    BY <1>3, <2>1, <2>3, <2>4
<1>7. QED
  BY <1>5, <1>6

\* What the lines say of the characters leaves the same readings possible as the TsiDB does.
LEMMA FiledPossible ==
    ASSUME ToolsInv, OrderInv, Filled, NEW w \in Seq(1 .. 255)
    PROVE  PossibleTsiYins([v \in {l.tsi : l \in Lines} |-> TsiInfo(0, GivenYins(v))], w)
           = PossibleTsiYins(tsi_db, w)
<1> DEFINE filed == [v \in {l.tsi : l \in Lines} |-> TsiInfo(0, GivenYins(v))]
<1>1. DOMAIN tsi_db = {l.tsi : l \in Lines} /\ Kept(tsi_db)
  BY DEF OrderInv, Filled, ToolsInv
<1>2. Voiced(tsi_db, w)
  BY <1>1, KeptVoiced
<1>3. DOMAIN filed = DOMAIN tsi_db /\ \A v \in DOMAIN tsi_db : filed[v].yins = GivenYins(v)
  BY <1>1 DEF TsiInfo
<1> HIDE DEF filed
<1>4. ASSUME NEW k \in 1 .. Len(w) \div 2
      PROVE  ZhiYin(filed, Zhis(w)[k]) = ZhiYin(tsi_db, Zhis(w)[k])
  <2> DEFINE z == Zhis(w)[k]
  <2>1. Len(z) = 2
    BY ZhiOf
  <2> HIDE DEF z
  <2>2. CASE z \in DOMAIN tsi_db
    <3>1. filed[z].yins = tsi_db[z].yins
      BY <1>3, <2>1, <2>2, CharacterIs
    <3>2. QED
      BY <1>3, <2>2, <3>1 DEF ZhiYin, Get, z
  <2>3. CASE z \notin DOMAIN tsi_db
    BY <1>3, <2>3 DEF ZhiYin, Get, z
  <2>4. QED
    BY <2>2, <2>3
<1>5. PossibleTsiYins(filed, w) = PossibleTsiYins(tsi_db, w)
  BY <1>2, <1>4, PossibleSame
<1>6. QED
  BY <1>5 DEF filed

\* tsiyincheck has nothing to say of a word that has one of its possible readings, or none.
LEMMA PossibleConsistent ==
    ASSUME ToolsInv, OrderInv, Filled, NEW w \in Seq(1 .. 255), w \in DOMAIN tsi_db,
           tsi_db[w].yins = <<>> \/ tsi_db[w].yins = PossibleTsiYins(tsi_db, w)
    PROVE  w \notin Inconsistent(tsi_db)
<1>1. SUFFICES ASSUME NEW m \in 1 .. Len(tsi_db[w].yins), NEW k \in 1 .. Len(w) \div 2
               PROVE  /\ tsi_db[w].yins[m][k] # 0
                      /\ <<tsi_db[w].yins[m][k]>> \in Range(ZhiYin(tsi_db, Zhis(w)[k]))
  BY Zenon DEF Inconsistent
<1> DEFINE z == Zhis(w)[k]
           s == tsi_db[w].yins[m][k]
<1>2. Kept(tsi_db) /\ Voiced(tsi_db, w)
  BY KeptVoiced DEF ToolsInv
<1>3. 1 .. Len(<<>>) = {}
  OBVIOUS
<1>4. tsi_db[w].yins = PossibleTsiYins(tsi_db, w) /\ PossibleTsiYins(tsi_db, w) # <<>>
  BY <1>1, <1>3
<1>5. HasReading(tsi_db, z, s)
  BY <1>1, <1>2, <1>4, PossibleMembers
<1>6. z \in DOMAIN tsi_db /\ Len(z) = 2
  BY <1>2, <1>4, CharactersThere, ZhiOf
<1>7. s # 0
  BY <1>5, <1>6, CharacterIs
<1>8. <<s>> \in Range(ZhiYin(tsi_db, z))
  <2>1. PICK a \in 1 .. Len(ZhiYin(tsi_db, z)) : ZhiYin(tsi_db, z)[a] = <<s>>
    BY <1>5, Zenon DEF HasReading
  <2>2. ZhiYin(tsi_db, z) \in Seq(Syllables(1))
    BY <1>2 DEF Voiced
  <2>3. DOMAIN ZhiYin(tsi_db, z) = 1 .. Len(ZhiYin(tsi_db, z))
    BY <2>2, LenProperties
  <2>4. QED
    BY <2>1, <2>3, Zenon DEF Range
<1>9. QED
  BY <1>7, <1>8

\* What the words are listed under is what the lines say.
LEMMA OrderHolds == ASSUME ToolsInv, OrderInv PROVE OrderOfLinesIrrelevant
<1>1. SUFFICES ASSUME Filled, NEW l \in Lines
               PROVE  /\ Range(Readings(tsi_db, l.tsi)) = Range(FiledYins(l.tsi))
                      /\ l.yin = <<>> => l.tsi \notin Inconsistent(tsi_db)
  BY Zenon DEF OrderOfLinesIrrelevant, Filled
<1> DEFINE w == l.tsi
           len == Len(w) \div 2
<1>2. w \in Seq(1 .. 255) /\ LineOf(w) = l /\ w \in DOMAIN tsi_db
  BY <1>1, LineIs, LineOfIs, FilledIs
<1>3. CASE l.yin # <<>>
  <2>1. Expand(l.yin) # <<>> /\ Cut(Expand(l.yin), len) # <<>>
    BY <1>1, <1>3, GivenReading
  <2>2. tsi_db[w].yins = Cut(Expand(l.yin), len)
    BY <1>1, <2>1, FilledIs
  <2>3. Readings(tsi_db, w) = Cut(Expand(l.yin), len)
    BY <2>1, <2>2 DEF Readings
  <2>4. FiledYins(w) = Cut(Expand(l.yin), len)
    BY <1>2, <1>3, Zenon DEF FiledYins, GivenYins
  <2>5. QED
    BY <1>3, <2>3, <2>4
<1>4. CASE l.yin = <<>>
  <2>1. Expand(l.yin) = <<>>
    <3>1. 1 \in Nat /\ 1 > 0
      OBVIOUS
    <3>2. QED
      BY <1>4, <3>1, ExpandNone
  <2>2. tsi_db[w].yins = <<>> \/ tsi_db[w].yins = PossibleTsiYins(tsi_db, w)
    BY <1>1, <2>1, FilledIs
  <2>3. Readings(tsi_db, w) = PossibleTsiYins(tsi_db, w)
    BY <2>2 DEF Readings
  <2>4. FiledYins(w)
        = PossibleTsiYins([v \in {m.tsi : m \in Lines} |-> TsiInfo(0, GivenYins(v))], w)
    BY <1>2, <1>4, Zenon DEF FiledYins
  <2>5. FiledYins(w) = PossibleTsiYins(tsi_db, w)
    BY <1>1, <1>2, <2>4, FiledPossible
  <2>6. w \notin Inconsistent(tsi_db)
    BY <1>1, <1>2, <2>2, PossibleConsistent
  <2>7. QED
    BY <2>3, <2>5, <2>6
<1>5. QED
  BY <1>3, <1>4

\* The order of the lines does not matter to what the words are found under, nor to
\* tsiyincheck: for every word list whose lines give whole readings (archive,
\* util/tsiadd.c:270).
THEOREM OrderOfLinesIrrelevantAlways == ToolsSpec => []OrderOfLinesIrrelevant
<1>1. ToolsInit => ToolsInv /\ OrderInv
  BY ToolsInitInv, OrderInitInv
<1>2. ToolsInv /\ OrderInv /\ [ToolsNext]_toolsVars => (ToolsInv /\ OrderInv)'
  BY ToolsNextInv, OrderNextInv
<1>3. ToolsInv /\ OrderInv => OrderOfLinesIrrelevant
  BY OrderHolds
<1>4. QED
  BY <1>1, <1>2, <1>3, PTL DEF ToolsSpec
==============================================================================
