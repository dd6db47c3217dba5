------------------------- MODULE SegmentationProofs --------------------------
(***************************************************************************)
(* Proofs about Segmentation, for every line of bytes, every TsiDB, every  *)
(* table of character counts and every bound on the length of a word.      *)
(*                                                                         *)
(* The library's recursive functions (the scans of ChunkSplit, FlattenSeq) *)
(* are reached without an induction over an operator: what holds at every  *)
(* number is a set of numbers that is closed under going on by one, and    *)
(* the table of FlattenSeq is written down (Rows) before it is equated     *)
(* with what CHOOSE picks.                                                 *)
(***************************************************************************)
EXTENDS Segmentation, FiniteSetTheorems, SequenceTheorems, TLAPS

Text == Seq(1 .. 255)

-----------------------------------------------------------------------------
(* The packed codes                                                        *)
(*                                                                         *)
(* What tabeZhiCodeToPackedBig5Code computes, for every 16-bit code: the   *)
(* packed codes are three stretches, each in the order of the codes, and a *)
(* code can be told from its place in its stretch.                         *)

Code == {n \in Nat : n <= 65535}
Byte == 0 .. 255

\* p is the place of the character of these bytes among the frequent ones,
\* the less frequent ones, and the ZuYin symbols.
Frequent(high, low, p) ==
    /\ high \in 164 .. 198 /\ low \in LowByte
    /\ high = 198 => low \in 64 .. 126
    /\ p = (high - 164) * 157 + Column(low)

LessFrequent(high, low, p) ==
    /\ high \in 201 .. 249 /\ low \in LowByte
    /\ high = 249 => low \in (64 .. 126) \cup (161 .. 220)
    /\ p = (high - 201) * 157 + Column(low) + 5401

Symbol(high, low, p) ==
    /\ high = 163
    /\ \/ low \in 116 .. 126 /\ p = 13060 + low - 116
       \/ low \in 161 .. 186 /\ p = 13060 + 11 + low - 161

\* A code is its two bytes.
LEMMA CodeBytes ==
    ASSUME NEW code \in Code
    PROVE  /\ code \div 256 \in Byte
           /\ code % 256 \in Byte
           /\ code = 256 * (code \div 256) + (code % 256)
BY SMT DEF Code, Byte

\* A low byte has a column of its own, and the rows have 157 columns.
LEMMA ColumnInRow ==
    /\ \A low \in LowByte : Column(low) \in 0 .. 156
    /\ \A low \in 64 .. 126 : Column(low) \in 0 .. 62
    /\ \A low \in (64 .. 126) \cup (161 .. 220) : Column(low) \in 0 .. 122
    /\ \A a, b \in LowByte : Column(a) = Column(b) => a = b
BY SMT DEF LowByte, Column

LEMMA Stretches ==
    ASSUME NEW code \in Code, PackedBig5(code) # -1
    PROVE  LET high == code \div 256
               low  == code % 256
           IN  \/ Frequent(high, low, PackedBig5(code))
               \/ LessFrequent(high, low, PackedBig5(code))
               \/ Symbol(high, low, PackedBig5(code))
<1> DEFINE high == code \div 256
           low  == code % 256
<1>1. high \in Byte /\ low \in Byte
  BY CodeBytes
<1> HIDE DEF high, low
<1>2. PackedBig5(code) =
          CASE high \in 164 .. 197 /\ low \in LowByte ->
                 (high - 164) * 157 + Column(low)
            [] high = 198 /\ low \in 64 .. 126 ->
                 (high - 164) * 157 + Column(low)
            [] high \in 201 .. 248 /\ low \in LowByte ->
                 (high - 201) * 157 + Column(low) + 5401
            [] high = 249 /\ low \in (64 .. 126) \cup (161 .. 220) ->
                 (high - 201) * 157 + Column(low) + 5401
            [] high = 163 /\ low \in 116 .. 126 -> 13060 + low - 116
            [] high = 163 /\ low \in 161 .. 186 -> 13060 + 11 + low - 161
            [] OTHER -> -1
  BY DEF PackedBig5, high, low
<1>3. CASE high \in 164 .. 197 /\ low \in LowByte
  <2>1. PackedBig5(code) = (high - 164) * 157 + Column(low)
    BY <1>1, <1>2, <1>3 DEF Byte
  <2>2. Frequent(high, low, PackedBig5(code))
    BY <1>3, <2>1 DEF Frequent
  <2>3. QED
    BY <2>2 DEF high, low
<1>4. CASE high = 198 /\ low \in 64 .. 126
  <2>1. PackedBig5(code) = (high - 164) * 157 + Column(low)
    BY <1>1, <1>2, <1>4 DEF Byte
  <2>2. Frequent(high, low, PackedBig5(code))
    BY <1>4, <2>1 DEF Frequent, LowByte
  <2>3. QED
    BY <2>2 DEF high, low
<1>5. CASE high \in 201 .. 248 /\ low \in LowByte
  <2>1. PackedBig5(code) = (high - 201) * 157 + Column(low) + 5401
    BY <1>1, <1>2, <1>5 DEF Byte
  <2>2. LessFrequent(high, low, PackedBig5(code))
    BY <1>5, <2>1 DEF LessFrequent
  <2>3. QED
    BY <2>2 DEF high, low
<1>6. CASE high = 249 /\ low \in (64 .. 126) \cup (161 .. 220)
  <2>1. PackedBig5(code) = (high - 201) * 157 + Column(low) + 5401
    BY <1>1, <1>2, <1>6 DEF Byte
  <2>2. LessFrequent(high, low, PackedBig5(code))
    BY <1>6, <2>1 DEF LessFrequent, LowByte
  <2>3. QED
    BY <2>2 DEF high, low
<1>7. CASE high = 163 /\ low \in 116 .. 126
  <2>1. PackedBig5(code) = 13060 + low - 116
    BY <1>1, <1>2, <1>7 DEF Byte
  <2>2. QED
    BY <1>7, <2>1 DEF Symbol, high, low
<1>8. CASE high = 163 /\ low \in 161 .. 186
  <2>1. PackedBig5(code) = 13060 + 11 + low - 161
    BY <1>1, <1>2, <1>8 DEF Byte
  <2>2. QED
    BY <1>8, <2>1 DEF Symbol, high, low
<1>9. QED
  BY <1>2, <1>3, <1>4, <1>5, <1>6, <1>7, <1>8

\* The stretches follow one another.
LEMMA StretchBounds ==
    ASSUME NEW high \in Byte, NEW low \in Byte, NEW p
    PROVE  /\ Frequent(high, low, p) => p \in Int /\ 0 <= p /\ p <= 5400
           /\ LessFrequent(high, low, p) => p \in Int /\ 5401 <= p /\ p <= 13059
           /\ Symbol(high, low, p) => p \in Int /\ 13060 <= p /\ p <= 13096
<1> DEFINE column == Column(low)
<1>1. /\ low \in LowByte => column \in 0 .. 156
      /\ low \in 64 .. 126 => column \in 0 .. 62
      /\ low \in (64 .. 126) \cup (161 .. 220) => column \in 0 .. 122
  BY ColumnInRow
<1>2. Frequent(high, low, p) =>
         /\ high \in 164 .. 198 /\ column \in 0 .. 156
         /\ high = 198 => column \in 0 .. 62
         /\ p = (high - 164) * 157 + column
  BY <1>1 DEF Frequent
<1>3. LessFrequent(high, low, p) =>
         /\ high \in 201 .. 249 /\ column \in 0 .. 156
         /\ high = 249 => column \in 0 .. 122
         /\ p = (high - 201) * 157 + column + 5401
  BY <1>1 DEF LessFrequent
<1> HIDE DEF column
<1>4. Frequent(high, low, p) => p \in Int /\ 0 <= p /\ p <= 5400
  BY <1>2 DEF Byte
<1>5. LessFrequent(high, low, p) => p \in Int /\ 5401 <= p /\ p <= 13059
  BY <1>3 DEF Byte
<1>6. Symbol(high, low, p) => p \in Int /\ 13060 <= p /\ p <= 13096
  BY DEF Symbol, Byte
<1>7. QED
  BY <1>4, <1>5, <1>6

\* Two places of one stretch that are the same are that of one character.
LEMMA StretchInjective ==
    ASSUME NEW g \in Byte, NEW a \in Byte,
           NEW h \in Byte, NEW b \in Byte, NEW p,
           \/ Frequent(g, a, p) /\ Frequent(h, b, p)
           \/ LessFrequent(g, a, p) /\ LessFrequent(h, b, p)
           \/ Symbol(g, a, p) /\ Symbol(h, b, p)
    PROVE  g = h /\ a = b
<1>1. CASE Frequent(g, a, p) /\ Frequent(h, b, p)
  <2>1. a \in LowByte /\ b \in LowByte
    BY <1>1 DEF Frequent
  <2> DEFINE ca == Column(a)
             cb == Column(b)
  <2>2. (g - 164) * 157 + ca = (h - 164) * 157 + cb
    BY <1>1 DEF Frequent
  <2>3. ca \in 0 .. 156 /\ cb \in 0 .. 156
    BY <2>1, ColumnInRow
  <2> HIDE DEF ca, cb
  <2>4. g = h /\ ca = cb
    BY <2>2, <2>3 DEF Byte
  <2>5. QED
    BY <2>1, <2>4, ColumnInRow DEF ca, cb
<1>2. CASE LessFrequent(g, a, p) /\ LessFrequent(h, b, p)
  <2>1. a \in LowByte /\ b \in LowByte
    BY <1>2 DEF LessFrequent
  <2> DEFINE ca == Column(a)
             cb == Column(b)
  <2>2. (g - 201) * 157 + ca + 5401 = (h - 201) * 157 + cb + 5401
    BY <1>2 DEF LessFrequent
  <2>3. ca \in 0 .. 156 /\ cb \in 0 .. 156
    BY <2>1, ColumnInRow
  <2> HIDE DEF ca, cb
  <2>4. g = h /\ ca = cb
    BY <2>2, <2>3 DEF Byte
  <2>5. QED
    BY <2>1, <2>4, ColumnInRow DEF ca, cb
<1>3. CASE Symbol(g, a, p) /\ Symbol(h, b, p)
  BY <1>3 DEF Symbol, Byte
<1>4. QED
  BY <1>1, <1>2, <1>3

\* Whatever two bytes a code is, its packed code is negative or an index of
\* _CharRef: tabeZhiCodeLookupRefCount, which only rejects the negative ones,
\* reads within the table.
THEOREM PackedInTable ==
    \A code \in Code : PackedBig5(code) \in -1 .. (CharRefLen - 1)
<1> SUFFICES ASSUME NEW code \in Code, PackedBig5(code) # -1
             PROVE  PackedBig5(code) \in 0 .. 13096
  BY DEF CharRefLen
<1> DEFINE high == code \div 256
           low  == code % 256
<1>1. high \in Byte /\ low \in Byte
  BY CodeBytes
<1>2. \/ Frequent(high, low, PackedBig5(code))
      \/ LessFrequent(high, low, PackedBig5(code))
      \/ Symbol(high, low, PackedBig5(code))
  BY Stretches
<1> HIDE DEF high, low
<1> DEFINE p == PackedBig5(code)
<1>3. p \in Int /\ 0 <= p /\ p <= 13096
  BY <1>1, <1>2, StretchBounds
<1> HIDE DEF p
<1>4. p \in 0 .. 13096
  BY SMTT(60), <1>3
<1>5. QED
  BY <1>4 DEF p

\* Two codes never have the same packed code, so that no character is ranked
\* by the count of another one.
THEOREM PackedInjective ==
    \A a, b \in Code : PackedBig5(a) = PackedBig5(b) /\ PackedBig5(a) # -1 => a = b
<1> SUFFICES ASSUME NEW a \in Code, NEW b \in Code,
                    PackedBig5(a) = PackedBig5(b), PackedBig5(a) # -1
             PROVE  a = b
  OBVIOUS
<1> DEFINE ha == a \div 256
           la == a % 256
           hb == b \div 256
           lb == b % 256
           p  == PackedBig5(a)
<1>1. ha \in Byte /\ la \in Byte /\ a = 256 * ha + la
  BY CodeBytes
<1>2. hb \in Byte /\ lb \in Byte /\ b = 256 * hb + lb
  BY CodeBytes
<1>3. Frequent(ha, la, p) \/ LessFrequent(ha, la, p) \/ Symbol(ha, la, p)
  BY Stretches
<1>4. Frequent(hb, lb, p) \/ LessFrequent(hb, lb, p) \/ Symbol(hb, lb, p)
  BY Stretches
<1> HIDE DEF ha, la, hb, lb, p
<1>5. \/ Frequent(ha, la, p) /\ Frequent(hb, lb, p)
      \/ LessFrequent(ha, la, p) /\ LessFrequent(hb, lb, p)
      \/ Symbol(ha, la, p) /\ Symbol(hb, lb, p)
  <2> DEFINE inFirst  == p \in Int /\ 0 <= p /\ p <= 5400
             inSecond == p \in Int /\ 5401 <= p /\ p <= 13059
             inThird  == p \in Int /\ 13060 <= p /\ p <= 13096
  <2>1. ~ (inFirst /\ inSecond) /\ ~ (inFirst /\ inThird) /\ ~ (inSecond /\ inThird)
    OBVIOUS
  <2>2. /\ Frequent(ha, la, p) \/ Frequent(hb, lb, p) => inFirst
        /\ LessFrequent(ha, la, p) \/ LessFrequent(hb, lb, p) => inSecond
        /\ Symbol(ha, la, p) \/ Symbol(hb, lb, p) => inThird
    BY <1>1, <1>2, StretchBounds
  <2> HIDE DEF inFirst, inSecond, inThird
  <2>3. QED
    BY <1>3, <1>4, <2>1, <2>2, Zenon
<1>6. ha = hb /\ la = lb
  BY <1>1, <1>2, <1>5, StretchInjective
<1>7. QED
  BY <1>1, <1>2, <1>6

-----------------------------------------------------------------------------
(* Numbers *)

\* Every nonempty set of natural numbers has a least element.
LEMMA LeastNumber ==
    ASSUME NEW T \in SUBSET Nat, T # {}
    PROVE  \E n \in T : \A m \in T : n <= m
<1>1. IsWellFoundedOn(OpToRel(<, Nat), Nat)
  BY NatLessThanWellFounded
<1>2. PICK n \in T : \A m \in T : <<m, n>> \notin OpToRel(<, Nat)
  BY <1>1, WFMin
<1>3. \A m \in T : ~ (m < n)
  BY <1>2 DEF OpToRel
<1>4. QED
  BY <1>3

\* A set of numbers that is closed under going on by one is all of them.
LEMMA Induction ==
    ASSUME NEW T \in SUBSET Nat, 0 \in T, \A n \in T : n + 1 \in T
    PROVE  T = Nat
<1>1. SUFFICES ASSUME Nat \ T # {} PROVE FALSE
  OBVIOUS
<1>2. PICK n \in Nat \ T : \A m \in Nat \ T : n <= m
  <2>1. (Nat \ T) \in SUBSET Nat
    OBVIOUS
  <2>2. QED
    BY <1>1, <2>1, LeastNumber
<1>3. n # 0 /\ n - 1 \in Nat /\ ~ (n <= n - 1)
  BY <1>2
<1>4. n - 1 \in T
  BY <1>2, <1>3
<1>5. (n - 1) + 1 = n
  BY <1>2
<1>6. QED
  BY <1>2, <1>4, <1>5

\* Every nonempty set of numbers up to n has a greatest element.
LEMMA GreatestNumber ==
    ASSUME NEW n \in Nat, NEW T \in SUBSET (0 .. n), T # {}
    PROVE  \E g \in T : \A m \in T : m <= g
<1> DEFINE D == {n - m : m \in T}
<1>1. D \in SUBSET Nat /\ D # {}
  <2>1. \A m \in T : n - m \in Nat
    OBVIOUS
  <2>2. QED
    BY <2>1
<1>2. PICK d \in D : \A e \in D : d <= e
  <2> HIDE DEF D
  <2>1. QED
    BY <1>1, LeastNumber
<1>3. PICK g \in T : d = n - g
  BY <1>2
<1>4. \A m \in T : n - m \in D
  OBVIOUS
<1>5. ASSUME NEW m \in T PROVE m <= g
  <2>1. n - g <= n - m
    BY <1>2, <1>3, <1>4
  <2>2. m \in 0 .. n /\ g \in 0 .. n
    OBVIOUS
  <2>3. QED
    BY <2>1, <2>2
<1>6. QED
  BY <1>5

\* The greatest of a nonempty set of numbers up to n.
LEMMA MaxProperties ==
    ASSUME NEW n \in Nat, NEW T \in SUBSET (0 .. n), T # {}
    PROVE  Max(T) \in T /\ \A m \in T : m <= Max(T)
<1>1. PICK g \in T : \A m \in T : m <= g
  BY GreatestNumber
<1>2. \E x \in T : \A y \in T : x >= y
  BY <1>1
<1>3. Max(T) \in T /\ \A y \in T : Max(T) >= y
  BY <1>2, Zenon DEF Max
<1>4. QED
  BY <1>3

-----------------------------------------------------------------------------
(* Texts in a row *)

\* g holds the texts of the first 1, 2, .. n of ss.
Rows(ss, n, g) ==
    /\ g \in [1 .. n -> Text]
    /\ \A i \in 1 .. n : g[i] = IF i = 1 THEN ss[i] ELSE g[i - 1] \o ss[i]

\* One more row.
LEMMA RowMore ==
    ASSUME NEW ss \in Seq(Text), NEW n \in Nat, n < Len(ss), NEW g, Rows(ss, n, g)
    PROVE  \E h : Rows(ss, n + 1, h)
<1> DEFINE top == IF n = 0 THEN ss[1] ELSE g[n] \o ss[n + 1]
           h == [i \in 1 .. n + 1 |-> IF i = n + 1 THEN top ELSE g[i]]
<1>1. ss[1] \in Text /\ ss[n + 1] \in Text
  OBVIOUS
<1>2. top \in Text
  <2>1. CASE n = 0
    BY <1>1, <2>1
  <2>2. CASE n # 0
    <3>1. g[n] \in Text
      BY <2>2 DEF Rows
    <3>2. g[n] \o ss[n + 1] \in Text
      BY <1>1, <3>1, ConcatProperties DEF Text
    <3>3. QED
      BY <2>2, <3>2
  <2>3. QED
    BY <2>1, <2>2
<1>3. top = IF n = 0 THEN ss[1] ELSE g[n] \o ss[n + 1]
  OBVIOUS
<1> HIDE DEF top
<1>4. h \in [1 .. n + 1 -> Text]
  BY <1>2 DEF Rows
<1>5. ASSUME NEW i \in 1 .. n + 1
      PROVE  h[i] = IF i = 1 THEN ss[i] ELSE h[i - 1] \o ss[i]
  <2>1. CASE i = n + 1
    <3>1. h[i] = top
      BY <2>1
    <3>2. CASE n = 0
      BY <1>3, <2>1, <3>1, <3>2
    <3>3. CASE n # 0
      <4>1. n \in 1 .. n + 1 /\ n # n + 1 /\ i - 1 = n /\ i # 1
        BY <2>1, <3>3
      <4>2. h[i - 1] = g[n]
        BY <4>1
      <4>3. QED
        BY <1>3, <2>1, <3>1, <3>3, <4>1, <4>2
    <3>4. QED
      BY <3>2, <3>3
  <2>2. CASE i # n + 1
    <3>1. i \in 1 .. n /\ h[i] = g[i]
      BY <2>2
    <3>2. CASE i = 1
      BY <3>1, <3>2 DEF Rows
    <3>3. CASE i # 1
      <4>1. i - 1 \in 1 .. n + 1 /\ i - 1 # n + 1
        BY <3>1, <3>3
      <4>2. h[i - 1] = g[i - 1]
        BY <4>1
      <4>3. g[i] = g[i - 1] \o ss[i]
        BY <3>1, <3>3 DEF Rows
      <4>4. QED
        BY <3>1, <3>3, <4>2, <4>3
    <3>4. QED
      BY <3>2, <3>3
  <2>3. QED
    BY <2>1, <2>2
<1> HIDE DEF h
<1>6. Rows(ss, n + 1, h)
  BY <1>4, <1>5 DEF Rows
<1>7. QED
  BY <1>6

LEMMA RowsThere ==
    ASSUME NEW ss \in Seq(Text), NEW n \in Nat, n <= Len(ss)
    PROVE  \E g : Rows(ss, n, g)
<1> DEFINE T == {m \in Nat : m <= Len(ss) => \E g : Rows(ss, m, g)}
<1>1. 0 \in T
  <2>1. Rows(ss, 0, [i \in 1 .. 0 |-> <<>>])
    BY DEF Rows
  <2>2. QED
    BY <2>1
<1>2. ASSUME NEW m \in T PROVE m + 1 \in T
  <2>1. SUFFICES ASSUME m + 1 <= Len(ss) PROVE \E h : Rows(ss, m + 1, h)
    OBVIOUS
  <2>2. m \in Nat /\ Len(ss) \in Nat
    OBVIOUS
  <2>3. m < Len(ss) /\ m <= Len(ss)
    BY <2>1, <2>2
  <2>4. PICK g : Rows(ss, m, g)
    BY <2>3
  <2>5. QED
    BY <2>2, <2>3, <2>4, RowMore
<1>3. T = Nat
  <2>1. T \in SUBSET Nat
    OBVIOUS
  <2> HIDE DEF T
  <2>2. QED
    BY <1>1, <1>2, <2>1, Induction
<1>4. QED
  BY <1>3

\* FlattenSeq is the last of the rows.
LEMMA FlattenIsLastRow ==
    ASSUME NEW ss \in Seq(Text), Len(ss) > 0, NEW g, Rows(ss, Len(ss), g)
    PROVE  FlattenSeq(ss) = g[Len(ss)]
<1> DEFINE n == Len(ss)
           F(f) == [i \in 1 .. n |-> IF i = 1 THEN ss[i] ELSE f[i - 1] \o ss[i]]
           f == CHOOSE h : h = F(h)
<1>1. n \in Nat /\ n # 0
  OBVIOUS
<1>2. FlattenSeq(ss) = f[n]
  BY <1>1, Zenon DEF FlattenSeq
<1>3. g = F(g)
  <2>1. \A i \in 1 .. n : g[i] = F(g)[i]
    BY DEF Rows
  <2>2. g \in [1 .. n -> Text]
    BY DEF Rows
  <2> HIDE DEF n
  <2>3. QED
    BY <2>1, <2>2
<1>4. f = F(f)
  BY <1>3
<1> HIDE DEF f
<1> DEFINE T == {m \in Nat : m \in 1 .. n => f[m] = g[m]}
<1>5. 0 \in T
  OBVIOUS
<1>6. ASSUME NEW m \in T PROVE m + 1 \in T
  <2>1. SUFFICES ASSUME m + 1 \in 1 .. n PROVE f[m + 1] = g[m + 1]
    OBVIOUS
  <2>2. m \in Nat
    OBVIOUS
  <2>3. f[m + 1] = IF m + 1 = 1 THEN ss[m + 1] ELSE f[m] \o ss[m + 1]
    <3>1. f[m + 1] = F(f)[m + 1]
      BY <1>4
    <3>2. (m + 1) - 1 = m
      BY <2>2
    <3> HIDE DEF n
    <3>3. QED
      BY <2>1, <3>1, <3>2
  <2>4. g[m + 1] = IF m + 1 = 1 THEN ss[m + 1] ELSE g[m] \o ss[m + 1]
    <3>1. g[m + 1] = F(g)[m + 1]
      BY <1>3
    <3>2. (m + 1) - 1 = m
      BY <2>2
    <3> HIDE DEF n
    <3>3. QED
      BY <2>1, <3>1, <3>2
  <2>5. m = 0 \/ f[m] = g[m]
    BY <2>1, <2>2
  <2>6. QED
    BY <2>2, <2>3, <2>4, <2>5
<1>7. T = Nat
  <2>1. T \in SUBSET Nat
    OBVIOUS
  <2> HIDE DEF T
  <2>2. QED
    BY <1>5, <1>6, <2>1, Induction
<1>8. QED
  BY <1>1, <1>2, <1>7

LEMMA FlattenEmpty == FlattenSeq(<<>>) = <<>>
BY DEF FlattenSeq

LEMMA FlattenType ==
    ASSUME NEW ss \in Seq(Text)
    PROVE  FlattenSeq(ss) \in Text
<1>1. CASE ss = <<>>
  <2>1. FlattenSeq(ss) = <<>>
    BY <1>1, FlattenEmpty
  <2>2. QED
    BY <2>1 DEF Text
<1>2. CASE ss # <<>>
  <2>1. Len(ss) \in Nat /\ Len(ss) > 0 /\ Len(ss) <= Len(ss)
    BY <1>2, EmptySeq
  <2>2. PICK g : Rows(ss, Len(ss), g)
    BY <2>1, RowsThere
  <2>3. FlattenSeq(ss) = g[Len(ss)]
    BY <2>1, <2>2, FlattenIsLastRow
  <2>4. QED
    BY <2>1, <2>2, <2>3 DEF Rows
<1>3. QED
  BY <1>1, <1>2

\* What is appended to a row comes last.
LEMMA FlattenAppend ==
    ASSUME NEW ss \in Seq(Text), NEW t \in Text
    PROVE  FlattenSeq(Append(ss, t)) = FlattenSeq(ss) \o t
<1> DEFINE n == Len(ss)
           tt == Append(ss, t)
<1>1. /\ tt \in Seq(Text) /\ n \in Nat /\ Len(tt) = n + 1
      /\ tt[n + 1] = t /\ \A i \in 1 .. n : tt[i] = ss[i]
  OBVIOUS
<1> HIDE DEF tt
<1>2. PICK g : Rows(tt, n + 1, g)
  BY <1>1, RowsThere
<1>3. FlattenSeq(tt) = g[n + 1]
  BY <1>1, <1>2, FlattenIsLastRow
<1>4. CASE n = 0
  <2>1. ss = <<>> /\ FlattenSeq(ss) = <<>>
    BY <1>4, FlattenEmpty
  <2>2. g[n + 1] = t
    BY <1>1, <1>2, <1>4 DEF Rows
  <2>3. <<>> \o t = t
    BY ConcatEmptySeq DEF Text
  <2>4. QED
    BY <1>3, <1>4, <2>1, <2>2, <2>3 DEF tt
<1>5. CASE n # 0
  <2> DEFINE h == [i \in 1 .. n |-> g[i]]
  <2>1. Rows(ss, n, h)
    <3>1. h \in [1 .. n -> Text]
      BY <1>1, <1>2 DEF Rows
    <3>2. ASSUME NEW i \in 1 .. n
          PROVE  h[i] = IF i = 1 THEN ss[i] ELSE h[i - 1] \o ss[i]
      <4>1. i \in 1 .. n + 1 /\ h[i] = g[i] /\ ss[i] = tt[i]
        BY <1>1
      <4>2. g[i] = IF i = 1 THEN tt[i] ELSE g[i - 1] \o tt[i]
        BY <1>2, <4>1 DEF Rows
      <4>3. i # 1 => h[i - 1] = g[i - 1]
        BY <1>1
      <4>4. QED
        BY <4>1, <4>2, <4>3
    <3> HIDE DEF h
    <3>3. QED
      BY <3>1, <3>2 DEF Rows
  <2>2. h[n] = g[n]
    BY <1>1, <1>5
  <2> HIDE DEF h
  <2>3. FlattenSeq(ss) = g[n]
    BY <1>1, <1>5, <2>1, <2>2, FlattenIsLastRow
  <2>4. g[n + 1] = g[n] \o t
    <3>1. n + 1 \in 1 .. n + 1 /\ n + 1 # 1 /\ (n + 1) - 1 = n
      BY <1>1, <1>5
    <3>2. QED
      BY <1>1, <1>2, <3>1 DEF Rows
  <2>5. QED
    BY <1>3, <2>3, <2>4 DEF tt
<1>6. QED
  BY <1>4, <1>5

\* What is put in front of a row comes first.
LEMMA FlattenCons ==
    ASSUME NEW ss \in Seq(Text), NEW t \in Text
    PROVE  FlattenSeq(<<t>> \o ss) = t \o FlattenSeq(ss)
<1> DEFINE T == {n \in Nat : \A rr \in Seq(Text) :
                    Len(rr) = n => FlattenSeq(<<t>> \o rr) = t \o FlattenSeq(rr)}
<1>1. 0 \in T
  <2>1. SUFFICES ASSUME NEW rr \in Seq(Text), Len(rr) = 0
                 PROVE  FlattenSeq(<<t>> \o rr) = t \o FlattenSeq(rr)
    OBVIOUS
  <2>2. rr = <<>> /\ <<t>> \o rr = Append(rr, t)
    BY <2>1
  <2>3. FlattenSeq(rr) = <<>>
    BY <2>2, FlattenEmpty
  <2>4. FlattenSeq(Append(rr, t)) = <<>> \o t
    BY <2>3, FlattenAppend
  <2>5. <<>> \o t = t /\ t \o <<>> = t
    BY ConcatEmptySeq DEF Text
  <2>6. QED
    BY <2>2, <2>3, <2>4, <2>5
<1>2. ASSUME NEW n \in T PROVE n + 1 \in T
  <2>1. SUFFICES ASSUME NEW rr \in Seq(Text), Len(rr) = n + 1
                 PROVE  FlattenSeq(<<t>> \o rr) = t \o FlattenSeq(rr)
    OBVIOUS
  <2>2. n \in Nat /\ rr # <<>>
    BY <2>1
  <2>3. PICK pp \in Seq(Text), e \in Text : rr = Append(pp, e)
    BY <2>2, SequenceEmptyOrAppend
  <2>4. Len(pp) = n
    BY <2>1, <2>2, <2>3
  <2>5. <<t>> \o rr = Append(<<t>> \o pp, e)
    BY <2>3
  <2>6. <<t>> \o pp \in Seq(Text)
    OBVIOUS
  <2>7. FlattenSeq(<<t>> \o pp) = t \o FlattenSeq(pp)
    BY <2>4
  <2>8. FlattenSeq(Append(<<t>> \o pp, e)) = (t \o FlattenSeq(pp)) \o e
    BY <2>6, <2>7, FlattenAppend
  <2>9. FlattenSeq(rr) = FlattenSeq(pp) \o e
    BY <2>3, FlattenAppend
  <2>10. (t \o FlattenSeq(pp)) \o e = t \o (FlattenSeq(pp) \o e)
    <3>1. FlattenSeq(pp) \in Text
      BY FlattenType
    <3>2. QED
      BY <3>1, ConcatAssociative DEF Text
  <2>11. QED
    BY <2>5, <2>8, <2>9, <2>10
<1>3. T = Nat
  <2>1. T \in SUBSET Nat
    OBVIOUS
  <2> HIDE DEF T
  <2>2. QED
    BY <1>1, <1>2, <2>1, Induction
<1>4. Len(ss) \in T
  <2>1. Len(ss) \in Nat
    OBVIOUS
  <2>2. QED
    BY <1>3, <2>1
<1>5. QED
  BY <1>4

\* The row of a reversed sequence, one longer.
LEMMA FlattenReverse ==
    ASSUME NEW ss \in Seq(Text), NEW t \in Text
    PROVE  FlattenSeq(Reverse(Append(ss, t))) = t \o FlattenSeq(Reverse(ss))
<1>1. Reverse(ss) \in Seq(Text)
  BY DEF Reverse
<1>2. Reverse(Append(ss, t)) = <<t>> \o Reverse(ss)
  BY DEF Reverse
<1>3. QED
  BY <1>1, <1>2, FlattenCons

-----------------------------------------------------------------------------
(* The bytes of a text *)

LEMMA BytesProperties ==
    ASSUME NEW s \in Text, NEW i \in Nat, NEW j \in Nat, i <= j, j <= Len(s)
    PROVE  /\ Bytes(s, i, j) \in Text
           /\ Len(Bytes(s, i, j)) = j - i
           /\ \A k \in 0 .. (j - i - 1) : Bytes(s, i, j)[k + 1] = s[i + k + 1]
<1>1. ASSUME NEW k \in i + 1 .. j PROVE s[k] \in 1 .. 255
  <2>1. Len(s) \in Nat
    BY DEF Text
  <2>2. k \in 1 .. Len(s)
    BY <2>1
  <2>3. QED
    BY <2>2, ElementOfSeq DEF Text
<1>2. i + 1 \in Int /\ j \in Int
  OBVIOUS
<1>3. /\ SubSeq(s, i + 1, j) \in Seq(1 .. 255)
      /\ Len(SubSeq(s, i + 1, j)) = IF i + 1 <= j THEN j - (i + 1) + 1 ELSE 0
      /\ \A k \in 1 .. j - (i + 1) + 1 : SubSeq(s, i + 1, j)[k] = s[(i + 1) + k - 1]
  BY <1>1, <1>2, SubSeqProperties
<1>4. ASSUME NEW k \in 0 .. (j - i - 1) PROVE Bytes(s, i, j)[k + 1] = s[i + k + 1]
  <2>1. k + 1 \in 1 .. j - (i + 1) + 1 /\ (i + 1) + (k + 1) - 1 = i + k + 1
    OBVIOUS
  <2>2. QED
    BY <1>3, <2>1 DEF Bytes
<1>5. QED
  BY <1>3, <1>4 DEF Bytes, Text

LEMMA WordLength ==
    ASSUME NEW s \in Text, NEW i \in Nat, NEW n \in Nat, i + n <= Len(s)
    PROVE  Bytes(s, i, i + n) \in Text /\ Len(Bytes(s, i, i + n)) = n
<1>1. PICK j \in Nat : j = i + n
  OBVIOUS
<1>2. i <= j /\ j <= Len(s)
  BY <1>1
<1>3. Bytes(s, i, j) \in Text /\ Len(Bytes(s, i, j)) = j - i
  BY <1>2, BytesProperties
<1>4. QED
  BY <1>1, <1>3

LEMMA BytesJoin ==
    ASSUME NEW s \in Text, NEW i \in Nat, NEW j \in Nat, NEW k \in Nat,
           i <= j, j <= k, k <= Len(s)
    PROVE  Bytes(s, i, j) \o Bytes(s, j, k) = Bytes(s, i, k)
<1>1. i + 1 \in 1 .. Len(s) + 1 /\ j \in (i + 1) - 1 .. Len(s) /\ k \in j .. Len(s)
  BY DEF Text
<1>2. QED
  BY <1>1, ConcatAdjacentSubSeq DEF Text, Bytes

LEMMA BytesWhole ==
    ASSUME NEW s \in Text
    PROVE  Bytes(s, 0, Len(s)) = s /\ \A i \in Nat : Bytes(s, i, i) = <<>>
<1>1. Bytes(s, 0, Len(s)) = s
  BY SubSeqFull DEF Text, Bytes
<1>2. ASSUME NEW i \in Nat PROVE Bytes(s, i, i) = <<>>
  BY SubSeqEmpty DEF Bytes
<1>3. QED
  BY <1>1, <1>2

LEMMA ByteProperties ==
    ASSUME NEW s \in Text, NEW i \in Nat
    PROVE  /\ ByteAt(s, i) \in 0 .. 255
           /\ ByteAt(s, i) # 0 => i < Len(s)
           /\ i < Len(s) => ByteAt(s, i) = s[i + 1]
<1>1. Len(s) \in Nat
  BY DEF Text
<1>2. CASE i < Len(s)
  <2>1. i + 1 \in 1 .. Len(s)
    BY <1>1, <1>2
  <2>2. s[i + 1] \in 1 .. 255
    BY <2>1, ElementOfSeq DEF Text
  <2>3. ByteAt(s, i) = s[i + 1]
    BY <1>2 DEF ByteAt
  <2>4. QED
    BY <1>2, <2>2, <2>3
<1>3. CASE ~ (i < Len(s))
  <2>1. ByteAt(s, i) = 0
    BY <1>3 DEF ByteAt
  <2>2. QED
    BY <1>3, <2>1
<1>4. QED
  BY <1>2, <1>3

LEMMA TwoBytes ==
    ASSUME NEW a \in Byte, NEW b \in Byte
    PROVE  a * 256 + b \in Code /\ (a * 256 + b) % 256 = b
BY SMT DEF Code, Byte

\* A packed character ends with a low byte, and lies in the text.
LEMMA PackedEnds ==
    ASSUME NEW s \in Text, NEW i \in Nat, IsPacked(s, i)
    PROVE  ByteAt(s, i + 1) \in LowByte /\ i + 1 < Len(s)
<1> DEFINE a == ByteAt(s, i)
           b == ByteAt(s, i + 1)
           code == a * 256 + b
<1>1. a \in 0 .. 255 /\ b \in 0 .. 255 /\ (b # 0 => i + 1 < Len(s))
  BY ByteProperties
<1> HIDE DEF a, b
<1>2. code \in Code /\ code % 256 = b
  <2>1. a \in Byte /\ b \in Byte
    BY <1>1 DEF Byte
  <2>2. QED
    BY <2>1, TwoBytes
<1>3. PackedBig5(code) >= 0
  BY DEF IsPacked, ZhiToZhiCode, a, b
<1> HIDE DEF code
<1>4. PackedBig5(code) # -1
  BY <1>3
<1>5. \/ Frequent(code \div 256, code % 256, PackedBig5(code))
      \/ LessFrequent(code \div 256, code % 256, PackedBig5(code))
      \/ Symbol(code \div 256, code % 256, PackedBig5(code))
  BY <1>2, <1>4, Stretches
<1>6. b \in LowByte
  <2>1. \A h, p : Frequent(h, b, p) \/ LessFrequent(h, b, p) => b \in LowByte
    BY DEF Frequent, LessFrequent
  <2>2. \A h, p : Symbol(h, b, p) => b \in LowByte
    BY DEF Symbol, LowByte
  <2>3. QED
    BY <1>2, <1>5, <2>1, <2>2
<1>7. b # 0
  BY <1>6 DEF LowByte
<1>8. QED
  BY <1>1, <1>6, <1>7 DEF b

\* The search for a packed character does not go past the end.
LEMMA WidthProperties ==
    ASSUME NEW s \in Text, NEW i \in Nat
    PROVE  /\ Width(s, i) \in {1, 2}
           /\ i < Len(s) => i + Width(s, i) <= Len(s)
           /\ Width(s, i) = 2 <=> ZhiIsBig5Code(s, i)
<1>1. ZhiIsBig5Code(s, i) => i + 1 < Len(s)
  <2>1. 0 \notin LowByte
    BY DEF LowByte
  <2>2. ZhiIsBig5Code(s, i) => ByteAt(s, i + 1) # 0
    BY <2>1 DEF ZhiIsBig5Code
  <2>3. i + 1 \in Nat
    OBVIOUS
  <2>4. QED
    BY <2>2, <2>3, ByteProperties
<1>2. Len(s) \in Nat
  BY DEF Text
<1>3. QED
  BY <1>1, <1>2 DEF Width

-----------------------------------------------------------------------------
(* Scans *)

\* A scan that goes on from every offset short of n and stops at n stops.
LEMMA ScanThere ==
    ASSUME NEW n \in Nat, NEW Stop \in SUBSET Nat, \A i \in Nat : i >= n => i \in Stop,
           NEW step \in [Nat -> {1, 2}]
    PROVE  \E g : g = [i \in Nat |-> IF i \in Stop THEN i ELSE g[i + step[i]]]
<1> DEFINE Good(m, g) == \A i \in Nat : i >= m => g[i] = IF i \in Stop THEN i ELSE g[i + step[i]]
           T == {k \in Nat : \E g \in [Nat -> Nat] : \A m \in Nat : m + k >= n => Good(m, g)}
<1>1. 0 \in T
  <2> DEFINE g == [i \in Nat |-> i]
  <2>1. g \in [Nat -> Nat]
    OBVIOUS
  <2>2. ASSUME NEW m \in Nat, m + 0 >= n PROVE Good(m, g)
    <3>1. SUFFICES ASSUME NEW i \in Nat, i >= m
                   PROVE  g[i] = IF i \in Stop THEN i ELSE g[i + step[i]]
      OBVIOUS
    <3>2. i >= n
      BY <2>2, <3>1
    <3>3. QED
      BY <3>2
  <2> HIDE DEF g, Good
  <2>3. QED
    BY <2>1, <2>2
<1>2. ASSUME NEW k \in T PROVE k + 1 \in T
  <2>1. k \in Nat
    OBVIOUS
  <2>2. PICK g \in [Nat -> Nat] : \A m \in Nat : m + k >= n => Good(m, g)
    OBVIOUS
  <2>3. CASE k >= n
    <3>1. \A m \in Nat : m + k >= n
      BY <2>1, <2>3
    <3> HIDE DEF Good
    <3>2. \A m \in Nat : m + (k + 1) >= n => Good(m, g)
      BY <2>2, <3>1, Zenon
    <3>3. k + 1 \in Nat
      BY <2>1
    <3>4. QED
      BY <3>2, <3>3, Zenon
  <2>4. CASE k < n
    <3> DEFINE d == n - (k + 1)
               v == IF d \in Stop THEN d ELSE g[d + step[d]]
               h == [i \in Nat |-> IF i = d THEN v ELSE g[i]]
    <3>1. d \in Nat /\ d + k + 1 = n
      BY <2>1, <2>4
    <3>2. step[d] \in {1, 2} /\ d + step[d] \in Nat
      BY <3>1
    <3>3. v \in Nat
      BY <3>1, <3>2
    <3>4. v = IF d \in Stop THEN d ELSE g[d + step[d]]
      OBVIOUS
    <3> HIDE DEF d, v
    <3>5. h \in [Nat -> Nat]
      BY <3>3
    <3>6. ASSUME NEW i \in Nat, i > d PROVE h[i] = g[i]
      BY <3>1, <3>6
    <3>7. h[d] = v
      BY <3>1
    <3> HIDE DEF h
    <3>8. ASSUME NEW i \in Nat, i > d
          PROVE  h[i] = IF i \in Stop THEN i ELSE h[i + step[i]]
      <4>1. i \in Nat /\ i >= i /\ i + k >= n
        BY <2>1, <3>1, <3>8
      <4>2. g[i] = IF i \in Stop THEN i ELSE g[i + step[i]]
        BY <2>2, <4>1
      <4>3. i + step[i] \in Nat /\ i + step[i] > d
        <5>1. step[i] \in {1, 2}
          OBVIOUS
        <5>2. QED
          BY <3>1, <3>8, <5>1
      <4>4. h[i] = g[i] /\ h[i + step[i]] = g[i + step[i]]
        BY <3>6, <3>8, <4>3
      <4>5. QED
        BY <4>2, <4>4
    <3>9. h[d] = IF d \in Stop THEN d ELSE h[d + step[d]]
      <4>1. d + step[d] > d
        BY <3>1, <3>2
      <4>2. h[d + step[d]] = g[d + step[d]]
        BY <3>2, <3>6, <4>1
      <4>3. QED
        BY <3>4, <3>7, <4>2
    <3>10. ASSUME NEW m \in Nat, m + (k + 1) >= n PROVE Good(m, h)
      <4>1. SUFFICES ASSUME NEW i \in Nat, i >= m
                     PROVE  h[i] = IF i \in Stop THEN i ELSE h[i + step[i]]
        OBVIOUS
      <4>2. i = d \/ i > d
        BY <2>1, <3>1, <3>10, <4>1
      <4>3. QED
        BY <3>8, <3>9, <4>2
    <3> HIDE DEF Good
    <3>11. k + 1 \in Nat
      BY <2>1
    <3>12. QED
      BY <3>5, <3>10, <3>11, Zenon
  <2> HIDE DEF T
  <2>5. QED
    BY <2>1, <2>3, <2>4
<1>3. T = Nat
  <2>1. T \in SUBSET Nat
    OBVIOUS
  <2> HIDE DEF T
  <2>2. QED
    BY <1>1, <1>2, <2>1, Induction
<1>4. PICK g \in [Nat -> Nat] : \A m \in Nat : m + n >= n => Good(m, g)
  <2>1. n \in T
    BY <1>3
  <2>2. QED
    BY <2>1
<1>5. Good(0, g)
  <2>1. 0 + n >= n /\ 0 \in Nat
    OBVIOUS
  <2> HIDE DEF Good
  <2>2. QED
    BY <1>4, <2>1
<1>6. \A i \in Nat : g[i] = IF i \in Stop THEN i ELSE g[i + step[i]]
  BY <1>5
<1>7. g = [i \in Nat |-> IF i \in Stop THEN i ELSE g[i + step[i]]]
  BY <1>6
<1>8. QED
  BY <1>7

-----------------------------------------------------------------------------
(* The chunks of a line *)

LEMMA StartSteps ==
    ASSUME NEW s \in Text
    PROVE  \A i \in Nat : ChunkStart(s, i) =
              IF i >= Len(s) \/ IsPacked(s, i) THEN i ELSE ChunkStart(s, i + Width(s, i))
<1> DEFINE F(g) == [i \in Nat |-> IF i >= Len(s) \/ IsPacked(s, i)
                                    THEN i
                                    ELSE g[i + Width(s, i)]]
           f == CHOOSE g : g = F(g)
           Stop == {i \in Nat : i >= Len(s) \/ IsPacked(s, i)}
           step == [i \in Nat |-> Width(s, i)]
<1>1. \A i : ChunkStart(s, i) = f[i]
  BY Zenon DEF ChunkStart
<1>2. \A i \in Nat : Width(s, i) \in {1, 2}
  BY WidthProperties
<1>3. \E g : g = [i \in Nat |-> IF i \in Stop THEN i ELSE g[i + step[i]]]
  <2>1. step \in [Nat -> {1, 2}]
    BY <1>2
  <2>2. Stop \in SUBSET Nat /\ \A i \in Nat : i >= Len(s) => i \in Stop
    OBVIOUS
  <2>3. Len(s) \in Nat
    BY DEF Text
  <2> HIDE DEF Stop, step
  <2>4. QED
    BY <2>1, <2>2, <2>3, ScanThere
<1>4. ASSUME NEW g PROVE F(g) = [i \in Nat |-> IF i \in Stop THEN i ELSE g[i + step[i]]]
  OBVIOUS
<1>5. f = F(f)
  <2>1. \E g : g = F(g)
    <3> HIDE DEF F, Stop, step
    <3>1. QED
      BY <1>3, <1>4
  <2> HIDE DEF F
  <2>2. QED
    BY <2>1, Zenon
<1> HIDE DEF f
<1>6. ASSUME NEW i \in Nat
      PROVE f[i] = IF i >= Len(s) \/ IsPacked(s, i) THEN i ELSE f[i + Width(s, i)]
  <2>1. f[i] = F(f)[i]
    BY <1>5
  <2>2. QED
    BY <2>1
<1>7. QED
  BY <1>1, <1>6

LEMMA EndSteps ==
    ASSUME NEW s \in Text
    PROVE  \A i \in Nat : ChunkEnd(s, i) =
              IF i < Len(s) /\ IsPacked(s, i) THEN ChunkEnd(s, i + 2) ELSE i
<1> DEFINE F(g) == [i \in Nat |-> IF i < Len(s) /\ IsPacked(s, i) THEN g[i + 2] ELSE i]
           f == CHOOSE g : g = F(g)
           Stop == {i \in Nat : ~ (i < Len(s) /\ IsPacked(s, i))}
           step == [i \in Nat |-> 2]
<1>1. \A i : ChunkEnd(s, i) = f[i]
  BY Zenon DEF ChunkEnd
<1>3. \E g : g = [i \in Nat |-> IF i \in Stop THEN i ELSE g[i + step[i]]]
  <2>1. step \in [Nat -> {1, 2}]
    OBVIOUS
  <2>3. Len(s) \in Nat
    BY DEF Text
  <2>2. Stop \in SUBSET Nat /\ \A i \in Nat : i >= Len(s) => i \in Stop
    BY <2>3
  <2> HIDE DEF Stop, step
  <2>4. QED
    BY <2>1, <2>2, <2>3, ScanThere
<1>4. ASSUME NEW g PROVE F(g) = [i \in Nat |-> IF i \in Stop THEN i ELSE g[i + step[i]]]
  OBVIOUS
<1>5. f = F(f)
  <2>1. \E g : g = F(g)
    <3> HIDE DEF F, Stop, step
    <3>1. QED
      BY <1>3, <1>4
  <2> HIDE DEF F
  <2>2. QED
    BY <2>1, Zenon
<1> HIDE DEF f
<1>6. ASSUME NEW i \in Nat
      PROVE f[i] = IF i < Len(s) /\ IsPacked(s, i) THEN f[i + 2] ELSE i
  <2>1. f[i] = F(f)[i]
    BY <1>5
  <2>2. QED
    BY <2>1
<1>7. QED
  BY <1>1, <1>6

\* A chunk starts at a packed character or at the end of the line.
LEMMA StartProperties ==
    ASSUME NEW s \in Text, NEW i \in Nat, i <= Len(s)
    PROVE  /\ ChunkStart(s, i) \in i .. Len(s)
           /\ ChunkStart(s, i) < Len(s) => IsPacked(s, ChunkStart(s, i))
<1> DEFINE n == Len(s)
           P(j) == /\ ChunkStart(s, j) \in j .. n
                   /\ ChunkStart(s, j) < n => IsPacked(s, ChunkStart(s, j))
           T == {k \in Nat : \A j \in Nat : j <= n /\ j + k >= n => P(j)}
<1>0. n \in Nat
  BY DEF Text
<1>1. 0 \in T
  <2>1. SUFFICES ASSUME NEW j \in Nat, j <= n, j + 0 >= n PROVE P(j)
    OBVIOUS
  <2>2. j = n
    BY <1>0, <2>1
  <2>3. ChunkStart(s, j) = j
    BY <2>2, <1>0, StartSteps
  <2>4. QED
    BY <1>0, <2>2, <2>3
<1>2. ASSUME NEW k \in T PROVE k + 1 \in T
  <2>1. SUFFICES ASSUME NEW j \in Nat, j <= n, j + (k + 1) >= n PROVE P(j)
    OBVIOUS
  <2>2. k \in Nat /\ \A m \in Nat : m <= n /\ m + k >= n => P(m)
    OBVIOUS
  <2> HIDE DEF T
  <2>3. CASE j >= n \/ IsPacked(s, j)
    <3>1. ChunkStart(s, j) = j
      BY <2>3, StartSteps
    <3>2. QED
      BY <1>0, <2>1, <2>3, <3>1
  <2>4. CASE ~ (j >= n \/ IsPacked(s, j))
    <3> DEFINE w == Width(s, j)
    <3>1. ChunkStart(s, j) = ChunkStart(s, j + w)
      BY <2>4, StartSteps
    <3>2. w \in {1, 2} /\ (j < n => j + w <= n)
      BY WidthProperties
    <3> HIDE DEF w, n
    <3>3. j + w \in Nat /\ j + w <= n /\ j + w + k >= n
      BY <1>0, <2>1, <2>2, <2>4, <3>2
    <3>4. P(j + w)
      <4> HIDE DEF P
      <4>1. QED
        BY <2>2, <3>3
    <3>5. QED
      BY <1>0, <3>1, <3>2, <3>3, <3>4
  <2>5. QED
    BY <2>3, <2>4
<1>3. T = Nat
  <2>1. T \in SUBSET Nat
    OBVIOUS
  <2> HIDE DEF T
  <2>2. QED
    BY <1>1, <1>2, <2>1, Induction
<1>4. n \in T /\ i + n >= n
  <2>1. i + n >= n
    BY <1>0
  <2> HIDE DEF T
  <2>2. QED
    BY <1>0, <1>3, <2>1
<1>5. P(i)
  <2> HIDE DEF P
  <2>1. QED
    BY <1>4
<1>6. QED
  BY <1>5

\* A chunk is made of packed characters, and goes on as long as they do.
LEMMA EndProperties ==
    ASSUME NEW s \in Text, NEW i \in Nat, i <= Len(s)
    PROVE  /\ ChunkEnd(s, i) \in i .. Len(s)
           /\ ~ (ChunkEnd(s, i) < Len(s) /\ IsPacked(s, ChunkEnd(s, i)))
           /\ \E m \in Nat : /\ ChunkEnd(s, i) = i + 2 * m
                            /\ \A l \in Nat : l < m => IsPacked(s, i + 2 * l)
<1> DEFINE n == Len(s)
           P(j) == /\ ChunkEnd(s, j) \in j .. n
                   /\ ~ (ChunkEnd(s, j) < n /\ IsPacked(s, ChunkEnd(s, j)))
                   /\ \E m \in Nat : /\ ChunkEnd(s, j) = j + 2 * m
                                    /\ \A l \in Nat : l < m => IsPacked(s, j + 2 * l)
           T == {k \in Nat : \A j \in Nat : j <= n /\ j + k >= n => P(j)}
<1>0. n \in Nat
  BY DEF Text
<1>a. ASSUME NEW j \in Nat, j <= n, ~ (j < n /\ IsPacked(s, j)) PROVE P(j)
  <2>1. ChunkEnd(s, j) = j
    BY <1>a, EndSteps
  <2>2. j = j + 2 * 0 /\ \A l \in Nat : l < 0 => IsPacked(s, j + 2 * l)
    OBVIOUS
  <2>3. QED
    BY <1>0, <1>a, <2>1, <2>2
<1>1. 0 \in T
  <2>1. SUFFICES ASSUME NEW j \in Nat, j <= n, j + 0 >= n PROVE P(j)
    OBVIOUS
  <2>2. ~ (j < n)
    BY <1>0, <2>1
  <2> HIDE DEF P
  <2>3. QED
    BY <1>a, <2>1, <2>2
<1>2. ASSUME NEW k \in T PROVE k + 1 \in T
  <2>1. SUFFICES ASSUME NEW j \in Nat, j <= n, j + (k + 1) >= n PROVE P(j)
    OBVIOUS
  <2>2. k \in Nat /\ \A m \in Nat : m <= n /\ m + k >= n => P(m)
    OBVIOUS
  <2> HIDE DEF T
  <2>3. CASE ~ (j < n /\ IsPacked(s, j))
    <3> HIDE DEF P
    <3>1. QED
      BY <2>1, <2>3, <1>a
  <2>4. CASE j < n /\ IsPacked(s, j)
    <3>1. ChunkEnd(s, j) = ChunkEnd(s, j + 2)
      BY <2>4, EndSteps
    <3>2. j + 1 < n
      BY <2>4, PackedEnds
    <3> HIDE DEF n
    <3>3. j + 2 \in Nat /\ j + 2 <= n /\ j + 2 + k >= n
      BY <1>0, <2>1, <2>2, <3>2
    <3>4. P(j + 2)
      <4> HIDE DEF P
      <4>1. QED
        BY <2>2, <3>3
    <3>5. PICK m \in Nat : /\ ChunkEnd(s, j + 2) = j + 2 + 2 * m
                          /\ \A l \in Nat : l < m => IsPacked(s, j + 2 + 2 * l)
      BY <3>4
    <3>6. ChunkEnd(s, j) = j + 2 * (m + 1) /\ m + 1 \in Nat
      BY <3>1, <3>5
    <3>7. ASSUME NEW l \in Nat, l < m + 1 PROVE IsPacked(s, j + 2 * l)
      <4>1. CASE l = 0
        <5>1. j + 2 * l = j
          BY <4>1
        <5>2. QED
          BY <2>4, <5>1
      <4>2. CASE l # 0
        <5>1. l - 1 \in Nat /\ l - 1 < m /\ j + 2 + 2 * (l - 1) = j + 2 * l
          BY <3>7, <4>2
        <5>2. IsPacked(s, j + 2 + 2 * (l - 1))
          BY <3>5, <5>1
        <5>3. QED
          BY <5>1, <5>2
      <4>3. QED
        BY <4>1, <4>2
    <3>8. ChunkEnd(s, j) \in j .. n /\ ~ (ChunkEnd(s, j) < n /\ IsPacked(s, ChunkEnd(s, j)))
      BY <1>0, <3>1, <3>3, <3>4
    <3>9. QED
      BY <3>6, <3>7, <3>8
  <2>5. QED
    BY <2>3, <2>4
<1>3. T = Nat
  <2>1. T \in SUBSET Nat
    OBVIOUS
  <2> HIDE DEF T
  <2>2. QED
    BY <1>1, <1>2, <2>1, Induction
<1>4. n \in T /\ i + n >= n
  <2>1. i + n >= n
    BY <1>0
  <2> HIDE DEF T
  <2>2. QED
    BY <1>0, <1>3, <2>1
<1>5. P(i)
  <2> HIDE DEF P
  <2>1. QED
    BY <1>4
<1>6. QED
  BY <1>5

\* The part of a line before a chunk has no packed character where the scan
\* of it alone looks for one: its last byte may be the first of a character in
\* the line, but not of one that the scan of the line takes.
LEMMA OtherChunk ==
    ASSUME NEW s \in Text, NEW a \in Nat, a <= Len(s)
    PROVE  LET t == Bytes(s, a, ChunkStart(s, a)) IN ChunkStart(t, 0) = Len(t)
<1> DEFINE e == ChunkStart(s, a)
           t == Bytes(s, a, e)
           P(j) == ChunkStart(s, j) = e => ChunkStart(t, j - a) = e - a
           T == {k \in Nat : \A j \in Nat : a <= j /\ j <= e /\ j + k >= e => P(j)}
<1>0. /\ e \in a .. Len(s) /\ e \in Nat /\ Len(s) \in Nat
  <2>1. Len(s) \in Nat /\ e \in a .. Len(s)
    BY StartProperties DEF Text
  <2> HIDE DEF e
  <2>2. QED
    BY <2>1
<1> HIDE DEF e
<1>1. /\ t \in Text /\ Len(t) = e - a
      /\ \A k \in 0 .. (e - a - 1) : t[k + 1] = s[a + k + 1]
  BY <1>0, BytesProperties
<1> HIDE DEF t
<1>2. ASSUME NEW j \in Nat, a <= j, j < e
      PROVE  j - a \in Nat /\ ByteAt(t, j - a) = ByteAt(s, j)
  <2>1. j - a \in 0 .. e - a - 1 /\ a + (j - a) + 1 = j + 1
    BY <1>0, <1>2
  <2>2. t[j - a + 1] = s[j + 1]
    BY <1>1, <2>1
  <2>3. j - a < Len(t) /\ j < Len(s)
    BY <1>0, <1>1, <1>2
  <2>4. QED
    BY <2>1, <2>2, <2>3 DEF ByteAt
<1>3. ASSUME NEW j \in Nat, a <= j, j + 1 < e
      PROVE  /\ IsPacked(t, j - a) <=> IsPacked(s, j)
             /\ Width(t, j - a) = Width(s, j)
  <2>1. ByteAt(t, j - a) = ByteAt(s, j)
    BY <1>0, <1>2, <1>3
  <2>2. ByteAt(t, j - a + 1) = ByteAt(s, j + 1)
    <3>1. j + 1 \in Nat /\ a <= j + 1 /\ (j + 1) - a = j - a + 1
      BY <1>0, <1>3
    <3>2. ByteAt(t, (j + 1) - a) = ByteAt(s, j + 1)
      BY <1>2, <1>3, <3>1
    <3>3. QED
      BY <3>1, <3>2
  <2>3. QED
    BY <2>1, <2>2 DEF IsPacked, ZhiToZhiCode, Width, ZhiIsBig5Code
<1>4. ASSUME NEW j \in Nat, j + 1 = e, a <= j
      PROVE  ~ IsPacked(t, j - a) /\ Width(t, j - a) = 1
  <2>1. j - a \in Nat /\ (j - a) + 1 = Len(t)
    BY <1>0, <1>1, <1>4
  <2>2. ~ IsPacked(t, j - a)
    BY <1>1, <2>1, PackedEnds
  <2>3. Width(t, j - a) \in {1, 2} /\ j - a + Width(t, j - a) <= Len(t)
    <3>1. j - a < Len(t)
      BY <2>1
    <3>2. QED
      BY <1>1, <2>1, <3>1, WidthProperties
  <2>4. QED
    BY <2>1, <2>2, <2>3
<1>5. 0 \in T
  <2>1. SUFFICES ASSUME NEW j \in Nat, a <= j, j <= e, j + 0 >= e PROVE P(j)
    OBVIOUS
  <2>2. j - a \in Nat /\ j - a = e - a /\ j - a >= Len(t)
    BY <1>0, <1>1, <2>1
  <2>3. ChunkStart(t, j - a) = j - a
    BY <1>1, <2>2, StartSteps
  <2>4. QED
    BY <2>2, <2>3
<1>6. ASSUME NEW k \in T PROVE k + 1 \in T
  <2>1. SUFFICES ASSUME NEW j \in Nat, a <= j, j <= e, j + (k + 1) >= e PROVE P(j)
    OBVIOUS
  <2>2. k \in Nat /\ \A m \in Nat : a <= m /\ m <= e /\ m + k >= e => P(m)
    OBVIOUS
  <2> HIDE DEF T
  <2>3. CASE j = e
    <3>1. j + k >= e
      BY <2>2, <2>3
    <3> HIDE DEF P
    <3>2. QED
      BY <2>1, <2>2, <3>1
  <2>4. CASE j # e
    <3>1. SUFFICES ASSUME ChunkStart(s, j) = e PROVE ChunkStart(t, j - a) = e - a
      OBVIOUS
    <3> DEFINE w == Width(s, j)
    <3>2. ~ (j >= Len(s) \/ IsPacked(s, j)) /\ ChunkStart(s, j + w) = e
      BY <2>4, <3>1, StartSteps
    <3>3. w \in {1, 2} /\ j + w <= Len(s)
      <4>1. j < Len(s)
        BY <1>0, <3>2
      <4>2. QED
        BY <4>1, WidthProperties
    <3>4. j + w <= e
      <4>1. j + w \in Nat
        BY <3>3
      <4>2. ChunkStart(s, j + w) \in j + w .. Len(s)
        BY <3>3, <4>1, StartProperties
      <4> HIDE DEF w
      <4>3. QED
        BY <1>0, <3>2, <4>1, <4>2
    <3>5. ~ IsPacked(t, j - a) /\ Width(t, j - a) = w
      <4>1. CASE j + 1 < e
        BY <1>3, <2>1, <3>2, <4>1
      <4>2. CASE j + 1 = e
        <5>1. w = 1
          BY <1>0, <3>3, <3>4, <4>2
        <5>2. QED
          BY <1>4, <2>1, <4>2, <5>1
      <4>3. QED
        BY <1>0, <2>1, <2>4, <4>1, <4>2
    <3> HIDE DEF w
    <3>6. j - a \in Nat /\ j - a < Len(t) /\ (j - a) + w = (j + w) - a
      BY <1>0, <1>1, <2>1, <2>4, <3>3
    <3>7. ChunkStart(t, j - a) = ChunkStart(t, (j - a) + w)
      <4>1. ~ (j - a >= Len(t) \/ IsPacked(t, j - a))
        BY <1>0, <1>1, <3>5, <3>6
      <4>2. ChunkStart(t, j - a) = ChunkStart(t, (j - a) + Width(t, j - a))
        BY <1>1, <3>6, <4>1, StartSteps
      <4>3. QED
        BY <3>5, <4>2
    <3>8. P(j + w)
      <4>1. j + w \in Nat /\ a <= j + w /\ j + w + k >= e
        BY <1>0, <2>1, <2>2, <3>3
      <4> HIDE DEF P
      <4>2. QED
        BY <2>2, <3>4, <4>1
    <3>9. QED
      BY <3>2, <3>6, <3>7, <3>8
  <2>5. QED
    BY <2>3, <2>4
<1>7. T = Nat
  <2>1. T \in SUBSET Nat
    OBVIOUS
  <2> HIDE DEF T
  <2>2. QED
    BY <1>5, <1>6, <2>1, Induction
<1>8. P(a)
  <2>1. a <= a /\ a <= e /\ a + e >= e
    BY <1>0
  <2>2. e \in T
    <3> HIDE DEF T
    <3>1. QED
      BY <1>0, <1>7
  <2> HIDE DEF P
  <2>3. QED
    BY <2>1, <2>2
<1>9. a - a = 0
  OBVIOUS
<1>10. ChunkStart(t, 0) = Len(t)
  BY <1>1, <1>8, <1>9 DEF e
<1>11. QED
  BY <1>10 DEF t, e

-----------------------------------------------------------------------------
(* The inductive invariant *)

ChunkType == [chunk : Text, num_tsi : Int, tsi : Seq(Text)]

\* What the chunks up to offset p of the line are.
OfKind(ch) ==
    /\ ch.chunk # <<>>
    /\ IF ch.num_tsi < 0
         THEN ChunkStart(ch.chunk, 0) = Len(ch.chunk)
         ELSE /\ Len(ch.chunk) % 2 = 0
              /\ \A i \in 0 .. (Len(ch.chunk) - 1) : i % 2 = 0 => IsPacked(ch.chunk, i)

LineUpto(s, chs, p) ==
    /\ FlattenSeq(Texts(chs)) = Bytes(s, 0, p)
    /\ \A k \in 1 .. Len(chs) :
         /\ OfKind(chs[k])
         /\ k > 1 => (chs[k - 1].num_tsi < 0) # (chs[k].num_tsi < 0)

\* A word the method may cut, and a chunk that it must leave in one piece.
Proper(w) ==
    /\ Len(w) > 0
    /\ Len(w) > 2 \/ method # "complex" => w \in words
    /\ method = "complex" => Len(w) <= 2 * MaxTsiLen

Known(text) == text \in words /\ (method = "complex" => Len(text) <= 2 * MaxTsiLen)

Fresh(ch) == ch.tsi = <<>> /\ ch.num_tsi \in {-1, 0}

Counted(ch) == ch.num_tsi = Len(ch.tsi) /\ \A k \in 1 .. Len(ch.tsi) : Proper(ch.tsi[k])

\* The words of the first d bytes of the chunk, or of the last d bytes.
Covered(ch, d) ==
    IF method = "backward"
      THEN FlattenSeq(Reverse(ch.tsi)) = Bytes(ch.chunk, Len(ch.chunk) - d, Len(ch.chunk))
      ELSE FlattenSeq(ch.tsi) = Bytes(ch.chunk, 0, d)

Begun(ch, d) ==
    ch.num_tsi >= 0 =>
      /\ d <= Len(ch.chunk) /\ d % 2 = 0
      /\ d = 0 => ch.tsi = <<>>
      /\ Counted(ch)
      /\ Covered(ch, d)
      /\ d > 0 /\ Known(ch.chunk) => d = Len(ch.chunk) /\ ch.tsi = <<ch.chunk>>

Finished(ch) ==
    ch.num_tsi >= 0 =>
      /\ Counted(ch)
      /\ FlattenSeq(ch.tsi) = ch.chunk
      /\ Known(ch.chunk) => ch.tsi = <<ch.chunk>>

\* The types of the variables.
Typed ==
    /\ method \in Methods
    /\ line \in Text
    /\ q \in 0 .. Len(line)
    /\ chunks \in Seq(ChunkType)
    /\ split \in BOOLEAN /\ fault \in BOOLEAN
    /\ c \in Nat \ {0} /\ c <= Len(chunks) + 1
    /\ done \in Nat

\* While the line is split nothing is segmented, and the next chunk is not Chinese unless it is
\* the first.
Splitting ==
    split =>
      /\ c = 1 /\ done = 0 /\ ~fault
      /\ \A k \in 1 .. Len(chunks) : Fresh(chunks[k])
      /\ chunks # <<>> =>
           /\ chunks[Len(chunks)].num_tsi >= 0
           /\ ~ (q < Len(line) /\ IsPacked(line, q))

Segments ==
    \A k \in 1 .. Len(chunks) :
      /\ k < c => Finished(chunks[k])
      /\ k = c /\ ~fault => Begun(chunks[k], done)
      /\ k > c => Fresh(chunks[k])

IInv == Typed /\ LineUpto(line, chunks, q) /\ Splitting /\ Segments

-----------------------------------------------------------------------------
(* Splitting the line *)

\* One more text.
LEMMA TextsMore ==
    ASSUME NEW chs \in Seq(ChunkType), NEW ch \in ChunkType
    PROVE  /\ Texts(chs) \in Seq(Text)
           /\ Texts(Append(chs, ch)) = Append(Texts(chs), ch.chunk)
<1>1. \A k \in 1 .. Len(chs) : chs[k] \in ChunkType
  OBVIOUS
<1>2. \A x \in ChunkType : x.chunk \in Text
  BY DEF ChunkType
<1>3. Texts(chs) \in Seq(Text) /\ Len(Texts(chs)) = Len(chs)
  <2>1. \A k \in 1 .. Len(chs) : chs[k].chunk \in Text
    BY <1>1, <1>2
  <2>2. QED
    BY <2>1 DEF Texts
<1>4. ch.chunk \in Text
  BY <1>2
<1> DEFINE new == Append(chs, ch)
<1>5. /\ Len(new) = Len(chs) + 1 /\ new[Len(chs) + 1] = ch
      /\ \A k \in 1 .. Len(chs) : new[k] = chs[k]
  OBVIOUS
<1> HIDE DEF new
<1>6. \A k \in 1 .. Len(chs) + 1 : new[k].chunk = Append(Texts(chs), ch.chunk)[k]
  <2>1. \A k \in 1 .. Len(chs) : new[k].chunk = Append(Texts(chs), ch.chunk)[k]
    <3>1. \A k \in 1 .. Len(chs) : Texts(chs)[k] = chs[k].chunk
      BY DEF Texts
    <3>2. \A k \in 1 .. Len(chs) : Append(Texts(chs), ch.chunk)[k] = Texts(chs)[k]
      BY <1>3, <1>4
    <3>3. QED
      BY <1>5, <3>1, <3>2
  <2>2. new[Len(chs) + 1].chunk = Append(Texts(chs), ch.chunk)[Len(chs) + 1]
    BY <1>3, <1>4, <1>5
  <2>3. \A k \in 1 .. Len(chs) + 1 : k \in 1 .. Len(chs) \/ k = Len(chs) + 1
    OBVIOUS
  <2>4. QED
    BY <2>1, <2>2, <2>3, Zenon
<1>7. Texts(new) = Append(Texts(chs), ch.chunk)
  <2> DEFINE at == Append(Texts(chs), ch.chunk)
  <2>1. Len(chs) \in Nat /\ at \in Seq(Text) /\ Len(at) = Len(chs) + 1
    BY <1>3, <1>4
  <2>2. Texts(new) = [k \in 1 .. Len(chs) + 1 |-> new[k].chunk]
    BY <1>5 DEF Texts
  <2>3. at = [k \in 1 .. Len(chs) + 1 |-> at[k]]
    BY <2>1
  <2>4. \A k \in 1 .. Len(chs) + 1 : new[k].chunk = at[k]
    BY <1>6
  <2> HIDE DEF at
  <2>5. [k \in 1 .. Len(chs) + 1 |-> new[k].chunk] = [k \in 1 .. Len(chs) + 1 |-> at[k]]
    BY <2>4
  <2>6. QED
    BY <2>2, <2>3, <2>5 DEF at
<1>8. QED
  BY <1>3, <1>7 DEF new

\* One more chunk.
LEMMA LineMore ==
    ASSUME NEW s \in Text, NEW chs \in Seq(ChunkType), NEW ch \in ChunkType,
           NEW p \in Nat, NEW r \in Nat, p <= r, r <= Len(s),
           LineUpto(s, chs, p), ch.chunk = Bytes(s, p, r), OfKind(ch),
           chs # <<>> => (chs[Len(chs)].num_tsi < 0) # (ch.num_tsi < 0)
    PROVE  LineUpto(s, Append(chs, ch), r)
<1> DEFINE new == Append(chs, ch)
<1>1. /\ new \in Seq(ChunkType) /\ Len(chs) \in Nat /\ Len(new) = Len(chs) + 1
      /\ new[Len(chs) + 1] = ch /\ \A k \in 1 .. Len(chs) : new[k] = chs[k]
  OBVIOUS
<1>2. FlattenSeq(Texts(new)) = Bytes(s, 0, r)
  <2>1. Texts(chs) \in Seq(Text) /\ Texts(new) = Append(Texts(chs), ch.chunk)
    BY TextsMore
  <2>2. ch.chunk \in Text
    BY DEF ChunkType
  <2>3. FlattenSeq(Append(Texts(chs), ch.chunk)) = FlattenSeq(Texts(chs)) \o ch.chunk
    BY <2>1, <2>2, FlattenAppend
  <2>4. FlattenSeq(Texts(chs)) = Bytes(s, 0, p)
    BY DEF LineUpto
  <2>5. Bytes(s, 0, p) \o Bytes(s, p, r) = Bytes(s, 0, r)
    BY BytesJoin
  <2>6. QED
    BY <2>1, <2>3, <2>4, <2>5
<1> HIDE DEF new
<1>3. ASSUME NEW k \in 1 .. Len(new)
      PROVE  /\ OfKind(new[k])
             /\ k > 1 => (new[k - 1].num_tsi < 0) # (new[k].num_tsi < 0)
  <2>1. CASE k = Len(chs) + 1
    <3>1. k > 1 => k - 1 = Len(chs) /\ chs # <<>> /\ Len(chs) \in 1 .. Len(chs)
      BY <1>1, <2>1
    <3>2. QED
      BY <1>1, <2>1, <3>1
  <2>2. CASE k # Len(chs) + 1
    <3>1. k \in 1 .. Len(chs) /\ (k > 1 => k - 1 \in 1 .. Len(chs))
      BY <1>1, <2>2
    <3>2. QED
      BY <1>1, <3>1 DEF LineUpto
  <2>3. QED
    BY <2>1, <2>2
<1>4. LineUpto(s, new, r)
  BY <1>2, <1>3 DEF LineUpto
<1>5. QED
  BY <1>4 DEF new

\* The chunk that lies before a packed character or the end of the line.
LEMMA OtherIsChunk ==
    ASSUME NEW s \in Text, NEW a \in Nat, a <= Len(s), ChunkStart(s, a) # a
    PROVE  LET e == ChunkStart(s, a)
               ch == ChunkInfo(Bytes(s, a, e), -1)
           IN  /\ ch \in ChunkType /\ Fresh(ch) /\ OfKind(ch)
               /\ ch.chunk = Bytes(s, a, e) /\ ch.num_tsi = -1
<1> DEFINE e == ChunkStart(s, a)
           t == Bytes(s, a, e)
           ch == ChunkInfo(t, -1)
<1>1. e \in a .. Len(s) /\ Len(s) \in Nat
  BY StartProperties DEF Text
<1>2. ChunkStart(t, 0) = Len(t)
  BY OtherChunk
<1>3. e # a
  OBVIOUS
<1> HIDE DEF e
<1>4. t \in Text /\ Len(t) = e - a
  BY <1>1, BytesProperties
<1>5. t # <<>>
  <2>1. Len(t) # 0
    BY <1>1, <1>3, <1>4
  <2>2. QED
    BY <2>1
<1> HIDE DEF t
<1>6. <<>> \in Seq(Text)
  OBVIOUS
<1>7. ch = [chunk |-> t, num_tsi |-> -1, tsi |-> <<>>]
  BY DEF ChunkInfo
<1> HIDE DEF ch
<1>8. ch \in ChunkType /\ ch.chunk = t /\ ch.num_tsi = -1 /\ ch.tsi = <<>>
  BY <1>4, <1>6, <1>7 DEF ChunkType
<1>9. Fresh(ch) /\ OfKind(ch)
  BY <1>2, <1>5, <1>8 DEF Fresh, OfKind
<1>10. QED
  BY <1>8, <1>9 DEF ch, t, e

\* The chunk that starts at a packed character.
LEMMA ChineseIsChunk ==
    ASSUME NEW s \in Text, NEW a \in Nat, a < Len(s), IsPacked(s, a)
    PROVE  LET e == ChunkEnd(s, a)
               ch == ChunkInfo(Bytes(s, a, e), 0)
           IN  /\ ch \in ChunkType /\ Fresh(ch) /\ OfKind(ch)
               /\ ch.chunk = Bytes(s, a, e) /\ ch.num_tsi = 0
               /\ e \in a .. Len(s) /\ ~ (e < Len(s) /\ IsPacked(s, e))
<1> DEFINE e == ChunkEnd(s, a)
           t == Bytes(s, a, e)
           ch == ChunkInfo(t, 0)
<1>1. Len(s) \in Nat
  BY DEF Text
<1>2. a <= Len(s)
  BY <1>1
<1>3. e \in a .. Len(s) /\ ~ (e < Len(s) /\ IsPacked(s, e))
  BY <1>2, EndProperties
<1>4. PICK m \in Nat : e = a + 2 * m /\ \A l \in Nat : l < m => IsPacked(s, a + 2 * l)
  BY <1>2, EndProperties
<1>5. e # a
  <2>1. CASE e = a
    BY <1>3, <2>1
  <2>2. QED
    BY <2>1
<1> HIDE DEF e
<1>6. /\ t \in Text /\ Len(t) = e - a
      /\ \A k \in 0 .. (e - a - 1) : t[k + 1] = s[a + k + 1]
  <2>1. e \in Nat /\ a <= e /\ e <= Len(s)
    BY <1>1, <1>3
  <2>2. QED
    BY <2>1, BytesProperties
<1> HIDE DEF t
<1>7. Len(t) = 2 * m /\ m # 0
  BY <1>1, <1>3, <1>4, <1>5, <1>6
<1>8. t # <<>> /\ Len(t) % 2 = 0
  BY <1>7
<1>9. ASSUME NEW i \in 0 .. (Len(t) - 1), i % 2 = 0 PROVE IsPacked(t, i)
  <2>1. PICK l \in Nat : i = 2 * l
    <3>1. i = 2 * (i \div 2) /\ i \div 2 \in Nat
      BY <1>7, <1>9
    <3>2. QED
      BY <3>1
  <2>2. l < m /\ i + 1 < Len(t)
    BY <1>7, <2>1
  <2>3. IsPacked(s, a + 2 * l) /\ a + 2 * l = a + i
    BY <1>4, <2>1, <2>2
  <2>4. ByteAt(t, i) = ByteAt(s, a + i) /\ ByteAt(t, i + 1) = ByteAt(s, a + i + 1)
    <3>1. i \in 0 .. (e - a - 1) /\ i + 1 \in 0 .. (e - a - 1)
      BY <1>6, <2>2
    <3>2. t[i + 1] = s[a + i + 1] /\ t[i + 1 + 1] = s[a + (i + 1) + 1]
      BY <1>6, <3>1
    <3>3. /\ i < Len(t) /\ i + 1 < Len(t) /\ a + i < Len(s) /\ a + i + 1 < Len(s)
          /\ a + (i + 1) + 1 = a + i + 1 + 1
      BY <1>1, <1>3, <1>6, <2>2
    <3>4. QED
      BY <3>2, <3>3 DEF ByteAt
  <2>5. QED
    BY <2>3, <2>4 DEF IsPacked, ZhiToZhiCode
<1>10. <<>> \in Seq(Text)
  OBVIOUS
<1>11. ch = [chunk |-> t, num_tsi |-> 0, tsi |-> <<>>]
  BY DEF ChunkInfo
<1> HIDE DEF ch
<1>12. ch \in ChunkType /\ ch.chunk = t /\ ch.num_tsi = 0 /\ ch.tsi = <<>>
  BY <1>6, <1>10, <1>11 DEF ChunkType
<1>13. Fresh(ch) /\ OfKind(ch)
  BY <1>8, <1>9, <1>12 DEF Fresh, OfKind
<1>14. QED
  BY <1>3, <1>12, <1>13 DEF ch, t, e

\* A chunk nothing is cut of yet.
LEMMA FreshBegun ==
    ASSUME NEW ch \in ChunkType, Fresh(ch)
    PROVE  Begun(ch, 0)
<1>1. ch.chunk \in Text /\ ch.tsi = <<>> /\ Len(ch.chunk) \in Nat
  BY DEF ChunkType, Fresh, Text
<1>2. ch.num_tsi >= 0 => ch.num_tsi = 0
  BY DEF Fresh
<1>3. Counted(ch) \/ ~ (ch.num_tsi >= 0)
  BY <1>1, <1>2 DEF Counted
<1>4. Covered(ch, 0)
  <2>1. Reverse(<<>>) = <<>>
    BY DEF Reverse
  <2>2. FlattenSeq(ch.tsi) = <<>> /\ FlattenSeq(Reverse(ch.tsi)) = <<>>
    BY <1>1, <2>1, FlattenEmpty
  <2>3. Len(ch.chunk) - 0 = Len(ch.chunk)
    BY <1>1
  <2>4. Bytes(ch.chunk, 0, 0) = <<>> /\ Bytes(ch.chunk, Len(ch.chunk), Len(ch.chunk)) = <<>>
    BY <1>1, BytesWhole
  <2>5. QED
    BY <2>2, <2>3, <2>4 DEF Covered
<1>5. QED
  BY <1>1, <1>3, <1>4 DEF Begun

LEMMA FreshSegments ==
    ASSUME NEW chs \in Seq(ChunkType), \A k \in 1 .. Len(chs) : Fresh(chs[k])
    PROVE  \A k \in 1 .. Len(chs) :
             /\ k < 1 => Finished(chs[k])
             /\ k = 1 => Begun(chs[k], 0)
             /\ k > 1 => Fresh(chs[k])
<1>1. ASSUME NEW k \in 1 .. Len(chs) PROVE Begun(chs[k], 0)
  <2>1. chs[k] \in ChunkType /\ Fresh(chs[k])
    OBVIOUS
  <2>2. QED
    BY <2>1, FreshBegun
<1>2. \A k \in 1 .. Len(chs) : ~ (k < 1)
  OBVIOUS
<1>3. QED
  BY <1>1, <1>2

LEMMA InitInv == Init => IInv
<1> SUFFICES ASSUME Init PROVE IInv
  OBVIOUS
<1>1. line \in Text
  BY LinesAssumption DEF Init, Text
<1>2. /\ method \in Methods /\ q = 0 /\ chunks = <<>> /\ split = TRUE /\ c = 1
      /\ done = 0 /\ fault = FALSE
  BY DEF Init
<1>3. Typed
  <2>1. <<>> \in Seq(ChunkType) /\ Len(line) \in Nat
    BY <1>1 DEF Text
  <2>2. /\ q \in 0 .. Len(line) /\ c \in Nat \ {0} /\ c <= Len(chunks) + 1
        /\ done \in Nat
    BY <1>2, <2>1
  <2>3. QED
    BY <1>1, <1>2, <2>1, <2>2, Zenon DEF Typed
<1>4. LineUpto(line, chunks, q)
  <2>1. Texts(chunks) = <<>> /\ Len(chunks) = 0
    BY <1>2 DEF Texts
  <2>2. Bytes(line, 0, 0) = <<>>
    BY <1>1, BytesWhole
  <2>3. QED
    BY <1>2, <2>1, <2>2, FlattenEmpty DEF LineUpto
<1>5. Splitting /\ Segments
  BY <1>2 DEF Splitting, Segments
<1>6. QED
  BY <1>3, <1>4, <1>5 DEF IInv

\* What a turn of the split adds.
LEMMA SplitAdds ==
    ASSUME IInv, SplitLine
    PROVE  /\ chunks' \in Seq(ChunkType) /\ q' \in 0 .. Len(line)
           /\ LineUpto(line, chunks', q')
           /\ \A k \in 1 .. Len(chunks') : Fresh(chunks'[k])
           /\ split' \in BOOLEAN
           /\ split' /\ chunks' # <<>> =>
                /\ chunks'[Len(chunks')].num_tsi >= 0
                /\ ~ (q' < Len(line) /\ IsPacked(line, q'))
<1> DEFINE e == ChunkStart(line, q)
           f == ChunkEnd(line, e)
           o == ChunkInfo(Bytes(line, q, e), -1)
           x == ChunkInfo(Bytes(line, e, f), 0)
           other == IF e = q THEN <<>> ELSE <<o>>
           n == Len(line)
<1>1. /\ line \in Text /\ q \in Nat /\ q <= n /\ n \in Nat /\ chunks \in Seq(ChunkType)
      /\ LineUpto(line, chunks, q)
      /\ \A k \in 1 .. Len(chunks) : Fresh(chunks[k])
      /\ chunks # <<>> => /\ chunks[Len(chunks)].num_tsi >= 0
                          /\ ~ (q < Len(line) /\ IsPacked(line, q))
  BY DEF IInv, Typed, Splitting, SplitLine, Text
<1>2. e \in Nat /\ q <= e /\ e <= n /\ (e < n => IsPacked(line, e))
  <2>1. e \in q .. n /\ (e < n => IsPacked(line, e))
    BY <1>1, StartProperties
  <2> HIDE DEF e
  <2>2. QED
    BY <1>1, <2>1
<1>3. e # q => /\ o \in ChunkType /\ Fresh(o) /\ OfKind(o)
               /\ o.chunk = Bytes(line, q, e) /\ o.num_tsi = -1
  BY <1>1, OtherIsChunk
<1>4. /\ e >= n => /\ chunks' = chunks \o other /\ q' = e /\ split' = FALSE
      /\ e < n => /\ chunks' = chunks \o Append(other, x) /\ q' = f /\ split' = TRUE
  <2>1. /\ chunks' = chunks \o NextChunks(line, q).chunks
        /\ q' = NextChunks(line, q).at
        /\ split' = ~NextChunks(line, q).last
    BY DEF SplitLine
  <2>2. NextChunks(line, q) =
          IF e >= n
            THEN [chunks |-> other, at |-> e, last |-> TRUE]
            ELSE [chunks |-> Append(other, x), at |-> f, last |-> FALSE]
    BY DEF NextChunks
  <2> HIDE DEF e, f, other, x, n
  <2>3. ASSUME e >= n PROVE chunks' = chunks \o other /\ q' = e /\ split' = FALSE
    <3>1. NextChunks(line, q) = [chunks |-> other, at |-> e, last |-> TRUE]
      BY <2>2, <2>3
    <3>2. /\ NextChunks(line, q).chunks = other /\ NextChunks(line, q).at = e
          /\ NextChunks(line, q).last = TRUE
      BY <3>1
    <3>3. QED
      BY <2>1, <3>2, Zenon
  <2>4. ASSUME e < n
        PROVE  chunks' = chunks \o Append(other, x) /\ q' = f /\ split' = TRUE
    <3>1. ~ (e >= n)
      BY <1>1, <1>2, <2>4
    <3>2. NextChunks(line, q) = [chunks |-> Append(other, x), at |-> f, last |-> FALSE]
      BY <2>2, <3>1
    <3>3. /\ NextChunks(line, q).chunks = Append(other, x) /\ NextChunks(line, q).at = f
          /\ NextChunks(line, q).last = FALSE
      BY <3>2
    <3>4. QED
      BY <2>1, <3>3, Zenon
  <2>5. QED
    BY <2>3, <2>4
<1>5. e < n => /\ x \in ChunkType /\ Fresh(x) /\ OfKind(x)
               /\ x.chunk = Bytes(line, e, f) /\ x.num_tsi = 0
               /\ f \in e .. n /\ ~ (f < n /\ IsPacked(line, f))
  BY <1>1, <1>2, ChineseIsChunk
<1> HIDE DEF e, f, o, x, n
\* With the chunk that is not Chinese, if there is one.
<1> DEFINE mid == chunks \o other
<1>6. CASE e = q
  <2>1. mid = chunks
    BY <1>1, <1>6
  <2>2. CASE e >= n
    <3>1. chunks' = chunks /\ q' = q /\ split' = FALSE
      BY <1>4, <1>6, <2>1, <2>2
    <3>2. q \in 0 .. Len(line)
      BY <1>1 DEF n
    <3>3. QED
      BY <1>1, <3>1, <3>2, Zenon
  <2>3. CASE e < n
    <3>1. chunks = <<>>
      BY <1>1, <1>2, <1>6, <2>3 DEF n
    <3>2. chunks' = Append(chunks, x)
      BY <1>4, <1>6, <2>3, <3>1
    <3>3. LineUpto(line, chunks, e) /\ f \in Nat /\ e <= f /\ f <= Len(line)
      BY <1>1, <1>2, <1>5, <1>6, <2>3 DEF n
    <3>4. LineUpto(line, chunks', f)
      BY <1>1, <1>2, <1>5, <2>3, <3>1, <3>2, <3>3, LineMore
    <3>5. chunks' \in Seq(ChunkType) /\ Len(chunks') = 1 /\ chunks'[1] = x
      BY <1>5, <2>3, <3>1, <3>2
    <3>6. \A k \in 1 .. Len(chunks') : Fresh(chunks'[k])
      <4>1. ASSUME NEW k \in 1 .. 1 PROVE k = 1
        OBVIOUS
      <4>2. QED
        BY <1>5, <2>3, <3>5, <4>1
    <3>7. q' = f /\ split' = TRUE /\ f \in 0 .. n
      BY <1>4, <2>3, <3>3 DEF n
    <3>8. QED
      BY <1>5, <2>3, <3>4, <3>5, <3>6, <3>7 DEF n
  <2>4. QED
    BY <1>1, <1>2, <2>2, <2>3
<1>7. CASE e # q
  <2>1. mid = Append(chunks, o)
    BY <1>1, <1>3, <1>7
  <2>2. /\ mid \in Seq(ChunkType) /\ Len(mid) = Len(chunks) + 1
        /\ mid[Len(mid)] = o /\ mid # <<>>
        /\ \A k \in 1 .. Len(mid) : (k \in 1 .. Len(chunks) /\ mid[k] = chunks[k]) \/ k = Len(mid)
    BY <1>1, <1>3, <1>7, <2>1
  <2>3. \A k \in 1 .. Len(mid) : Fresh(mid[k])
    BY <1>1, <1>3, <1>7, <2>2
  <2>4. LineUpto(line, mid, e)
    <3>1. chunks # <<>> => (chunks[Len(chunks)].num_tsi < 0) # (o.num_tsi < 0)
      <4>1. chunks # <<>> => Len(chunks) \in 1 .. Len(chunks)
        BY <1>1
      <4>2. chunks # <<>> => chunks[Len(chunks)].num_tsi \in Int
        <5>1. \A z \in ChunkType : z.num_tsi \in Int
          BY DEF ChunkType
        <5>2. chunks # <<>> => chunks[Len(chunks)] \in ChunkType
          BY <1>1, <4>1, ElementOfSeq
        <5>3. QED
          BY <5>1, <5>2
      <4>3. QED
        BY <1>1, <1>3, <1>7, <4>2
    <3>2. e <= Len(line)
      BY <1>2 DEF n
    <3>3. QED
      BY <1>1, <1>2, <1>3, <1>7, <2>1, <3>1, <3>2, LineMore
  <2>5. other = <<o>>
    BY <1>7
  <2> HIDE DEF mid
  <2>6. CASE e >= n
    <3>1. chunks' = mid /\ q' = e /\ split' = FALSE
      BY <1>4, <2>6 DEF mid
    <3>2. e \in 0 .. Len(line)
      BY <1>2 DEF n
    <3>3. QED
      BY <2>2, <2>3, <2>4, <3>1, <3>2
  <2>7. CASE e < n
    <3>1. chunks' = Append(mid, x)
      <4>1. chunks' = chunks \o Append(<<o>>, x)
        BY <1>4, <2>5, <2>7
      <4>2. chunks \o Append(<<o>>, x) = Append(chunks \o <<o>>, x)
        BY <1>1, <1>3, <1>5, <1>7, <2>7
      <4>3. QED
        BY <2>5, <4>1, <4>2 DEF mid
    <3>2. /\ x \in ChunkType /\ Fresh(x) /\ OfKind(x)
          /\ x.chunk = Bytes(line, e, f) /\ x.num_tsi = 0
          /\ f \in Nat /\ e <= f /\ f <= Len(line) /\ ~ (f < n /\ IsPacked(line, f))
      BY <1>2, <1>5, <2>7 DEF n
    <3>3. mid # <<>> => (mid[Len(mid)].num_tsi < 0) # (x.num_tsi < 0)
      BY <1>3, <1>7, <2>2, <3>2
    <3>4. LineUpto(line, chunks', f)
      BY <1>1, <1>2, <2>2, <2>4, <3>1, <3>2, <3>3, LineMore
    <3>5. /\ chunks' \in Seq(ChunkType) /\ Len(chunks') = Len(mid) + 1
          /\ chunks'[Len(chunks')] = x
          /\ \A k \in 1 .. Len(chunks') : (k \in 1 .. Len(mid) /\ chunks'[k] = mid[k]) \/ k = Len(chunks')
      BY <2>2, <3>1, <3>2
    <3>6. \A k \in 1 .. Len(chunks') : Fresh(chunks'[k])
      BY <2>3, <3>2, <3>5
    <3>7. q' = f /\ split' = TRUE /\ f \in 0 .. Len(line)
      BY <1>1, <1>4, <2>7, <3>2
    <3>8. QED
      BY <3>2, <3>4, <3>5, <3>6, <3>7 DEF n
  <2>8. QED
    BY <1>1, <1>2, <2>6, <2>7
<1>8. QED
  BY <1>6, <1>7

LEMMA SplitLineInv == ASSUME IInv, SplitLine PROVE IInv'
<1>1. /\ chunks' \in Seq(ChunkType) /\ q' \in 0 .. Len(line)
      /\ LineUpto(line, chunks', q')
      /\ \A k \in 1 .. Len(chunks') : Fresh(chunks'[k])
      /\ split' \in BOOLEAN
      /\ split' /\ chunks' # <<>> =>
           /\ chunks'[Len(chunks')].num_tsi >= 0
           /\ ~ (q' < Len(line) /\ IsPacked(line, q'))
  BY SplitAdds
<1>2. UNCHANGED <<method, words, line, c, done, fault>> /\ c = 1 /\ done = 0 /\ ~fault
  BY DEF SplitLine, unchangedInput, IInv, Splitting
<1>3. Typed'
  BY <1>1, <1>2 DEF IInv, Typed
<1>4. LineUpto(line', chunks', q')
  BY <1>1, <1>2
<1>5. Splitting'
  BY <1>1, <1>2 DEF Splitting, Fresh
<1>6. Segments'
  <2>1. \A k \in 1 .. Len(chunks') :
          /\ k < 1 => Finished(chunks'[k])
          /\ k = 1 => Begun(chunks'[k], 0)
          /\ k > 1 => Fresh(chunks'[k])
    BY <1>1, FreshSegments
  <2>2. \A k \in 1 .. Len(chunks') :
          /\ k < 1 => Finished(chunks[k])'
          /\ k = 1 => Begun(chunks[k], 0)'
          /\ k > 1 => Fresh(chunks[k])'
    BY <1>2, <2>1 DEF Finished, Begun, Fresh, Counted, Covered, Proper, Known
  <2>3. QED
    BY <1>2, <2>2 DEF Segments
<1>7. QED
  BY <1>3, <1>4, <1>5, <1>6 DEF IInv, LineUpto, OfKind

-----------------------------------------------------------------------------
(* Turns in general *)

\* What a turn works on.
LEMMA ChunkHere ==
    ASSUME IInv, Segmenting
    PROVE  /\ c \in 1 .. Len(chunks) /\ chunks \in Seq(ChunkType)
           /\ Chunk \in ChunkType /\ Chunk.chunk \in Text /\ Size \in Nat
           /\ Chunk.num_tsi \in Int /\ Chunk.tsi \in Seq(Text)
           /\ split = FALSE /\ fault = FALSE /\ done \in Nat /\ line \in Text
           /\ Begun(Chunk, done) /\ OfKind(Chunk)
<1>1. /\ c \in Nat \ {0} /\ c <= Len(chunks) /\ chunks \in Seq(ChunkType)
      /\ split = FALSE /\ fault = FALSE /\ done \in Nat /\ line \in Text
  BY DEF IInv, Typed, Segmenting
<1>2. c \in 1 .. Len(chunks)
  BY <1>1
<1>3. chunks[c] \in ChunkType
  BY <1>1, <1>2, ElementOfSeq
<1>4. \A z \in ChunkType : z.chunk \in Text /\ z.num_tsi \in Int /\ z.tsi \in Seq(Text)
  BY DEF ChunkType
<1>5. \A t \in Text : Len(t) \in Nat
  BY DEF Text
<1>6. Begun(chunks[c], done) /\ OfKind(chunks[c])
  BY <1>1, <1>2 DEF IInv, Segments, LineUpto
<1>7. QED
  BY <1>1, <1>2, <1>3, <1>4, <1>5, <1>6 DEF Chunk, Size

LEMMA ChunkReplaced ==
    ASSUME NEW s \in Text, NEW p, NEW chs \in Seq(ChunkType), NEW i \in 1 .. Len(chs),
           NEW ch \in ChunkType, ch.chunk = chs[i].chunk,
           ch.num_tsi < 0 <=> chs[i].num_tsi < 0, LineUpto(s, chs, p),
           NEW new, new = [chs EXCEPT ![i] = ch]
    PROVE  /\ new \in Seq(ChunkType) /\ Len(new) = Len(chs) /\ new[i] = ch
           /\ \A k \in 1 .. Len(chs) : k # i => new[k] = chs[k]
           /\ LineUpto(s, new, p)
<1>1. /\ new \in Seq(ChunkType) /\ Len(new) = Len(chs) /\ new[i] = ch
      /\ \A k \in 1 .. Len(chs) : k # i => new[k] = chs[k]
  BY ExceptSeq
<1>2. ASSUME NEW k \in 1 .. Len(chs)
      PROVE  /\ new[k].chunk = chs[k].chunk
             /\ new[k].num_tsi < 0 <=> chs[k].num_tsi < 0
             /\ OfKind(new[k])
  <2>1. OfKind(chs[k])
    BY DEF LineUpto
  <2>2. CASE k = i
    BY <1>1, <2>1, <2>2 DEF OfKind
  <2>3. CASE k # i
    BY <1>1, <2>1, <2>3
  <2>4. QED
    BY <2>2, <2>3
<1>3. Texts(new) = Texts(chs)
  BY <1>1, <1>2 DEF Texts
<1>4. ASSUME NEW k \in 1 .. Len(chs), k > 1
      PROVE  (new[k - 1].num_tsi < 0) # (new[k].num_tsi < 0)
  <2>1. k - 1 \in 1 .. Len(chs)
    BY <1>4
  <2>2. (chs[k - 1].num_tsi < 0) # (chs[k].num_tsi < 0)
    BY <1>4 DEF LineUpto
  <2>3. /\ new[k - 1].num_tsi < 0 <=> chs[k - 1].num_tsi < 0
        /\ new[k].num_tsi < 0 <=> chs[k].num_tsi < 0
    BY <1>2, <2>1
  <2>4. QED
    BY <2>2, <2>3
<1>5. LineUpto(s, new, p)
  BY <1>1, <1>2, <1>3, <1>4 DEF LineUpto
<1>6. QED
  BY <1>1, <1>5

\* The chunks after such a turn, or after the end of a chunk.
LEMMA ChunksNow ==
    ASSUME IInv, Segmenting, NEW ch \in ChunkType, chunks' = [chunks EXCEPT ![c] = ch],
           ch.chunk = Chunk.chunk, ch.num_tsi < 0 <=> Chunk.num_tsi < 0
    PROVE  /\ chunks' \in Seq(ChunkType) /\ Len(chunks') = Len(chunks) /\ chunks'[c] = ch
           /\ \A k \in 1 .. Len(chunks) : k # c => chunks'[k] = chunks[k]
           /\ LineUpto(line, chunks', q)
<1>0. c \in 1 .. Len(chunks) /\ chunks \in Seq(ChunkType) /\ line \in Text
  BY ChunkHere
<1>1. /\ ch.chunk = chunks[c].chunk /\ (ch.num_tsi < 0 <=> chunks[c].num_tsi < 0)
      /\ LineUpto(line, chunks, q)
  BY DEF IInv, Chunk
<1>2. PICK s, p, chs, i, new :
           /\ s = line /\ p = q /\ chs = chunks /\ i = c /\ new = [chs EXCEPT ![i] = ch]
  OBVIOUS
<1>3. /\ s \in Text /\ chs \in Seq(ChunkType) /\ i \in 1 .. Len(chs)
      /\ ch.chunk = chs[i].chunk /\ (ch.num_tsi < 0 <=> chs[i].num_tsi < 0)
      /\ LineUpto(s, chs, p) /\ new = [chs EXCEPT ![i] = ch]
  BY <1>0, <1>1, <1>2
<1>4. LineUpto(s, new, p)
  BY <1>3, ChunkReplaced, Zenon
<1>5. /\ new \in Seq(ChunkType) /\ Len(new) = Len(chs) /\ new[i] = ch
      /\ \A k \in 1 .. Len(chs) : k # i => new[k] = chs[k]
  BY <1>3, ExceptSeq
<1>6. chunks' = new
  BY <1>2
<1>7. QED
  BY <1>2, <1>4, <1>5, <1>6

\* A turn that changes the words of the chunk.
LEMMA TurnInv ==
    ASSUME IInv, Segmenting, NEW ch \in ChunkType, chunks' = [chunks EXCEPT ![c] = ch],
           ch.chunk = Chunk.chunk, ch.num_tsi < 0 <=> Chunk.num_tsi < 0,
           done' \in Nat, fault' \in BOOLEAN,
           UNCHANGED <<method, words, line, q, split, c>>,
           ~fault' => Begun(ch, done')
    PROVE  IInv'
<1>1. /\ c \in 1 .. Len(chunks) /\ chunks \in Seq(ChunkType) /\ line \in Text
      /\ split = FALSE /\ fault = FALSE
  BY ChunkHere
<1>2. /\ chunks' \in Seq(ChunkType) /\ Len(chunks') = Len(chunks) /\ chunks'[c] = ch
      /\ \A k \in 1 .. Len(chunks) : k # c => chunks'[k] = chunks[k]
      /\ LineUpto(line, chunks', q)
  BY ChunksNow
<1>3. Typed'
  BY <1>2 DEF IInv, Typed
<1>4. LineUpto(line, chunks, q)'
  BY <1>2
<1>5. Splitting'
  BY <1>1 DEF Splitting
<1>6. ASSUME NEW k \in 1 .. Len(chunks')
      PROVE  /\ k < c' => Finished(chunks[k])'
             /\ k = c' /\ ~fault' => Begun(chunks[k], done)'
             /\ k > c' => Fresh(chunks[k])'
  <2>1. k \in 1 .. Len(chunks) /\ c' = c
    BY <1>2
  <2>2. /\ k < c => Finished(chunks[k])
        /\ k > c => Fresh(chunks[k])
    BY <2>1 DEF IInv, Segments
  <2>3. CASE k = c
    <3>1. ASSUME ~fault' PROVE Begun(chunks[k], done)'
      <4>1. PICK d : d = done'
        OBVIOUS
      <4>2. chunks'[k] = ch /\ Begun(ch, d)
        BY <1>2, <2>3, <3>1, <4>1
      <4>3. Counted(chunks[k])' <=> Counted(ch)
        BY <4>2 DEF Counted, Proper
      <4>4. Covered(chunks[k], done)' <=> Covered(ch, d)
        BY <4>1, <4>2 DEF Covered
      <4>5. Known(chunks[k].chunk)' <=> Known(ch.chunk)
        BY <4>2 DEF Known
      <4>6. QED
        BY <4>1, <4>2, <4>3, <4>4, <4>5 DEF Begun
    <3>2. ~ (k < c) /\ ~ (k > c)
      BY <2>1, <2>3
    <3>3. QED
      BY <1>2, <2>1, <2>3, <3>1, <3>2
  <2>4. CASE k # c
    <3>1. chunks'[k] = chunks[k]
      BY <1>2, <2>1, <2>4
    <3>2. k < c => Finished(chunks[k])'
      BY <2>2, <3>1 DEF Finished, Counted, Proper, Known
    <3>3. k > c => Fresh(chunks[k])'
      BY <2>2, <3>1 DEF Fresh
    <3>4. QED
      BY <2>1, <2>4, <3>2, <3>3
  <2>5. QED
    BY <2>3, <2>4
<1>7. Segments'
  BY <1>6 DEF Segments
<1>8. QED
  BY <1>3, <1>4, <1>5, <1>7 DEF IInv

\* The end of a chunk.
LEMMA EndInv ==
    ASSUME IInv, Segmenting, NEW ch \in ChunkType, chunks' = [chunks EXCEPT ![c] = ch],
           ch.chunk = Chunk.chunk, ch.num_tsi < 0 <=> Chunk.num_tsi < 0,
           NextChunk, UNCHANGED <<method, words, line, q, split, fault>>,
           Finished(ch)
    PROVE  IInv'
<1>1. /\ c \in 1 .. Len(chunks) /\ chunks \in Seq(ChunkType) /\ line \in Text
      /\ split = FALSE /\ fault = FALSE
  BY ChunkHere
<1>2. /\ chunks' \in Seq(ChunkType) /\ Len(chunks') = Len(chunks) /\ chunks'[c] = ch
      /\ \A k \in 1 .. Len(chunks) : k # c => chunks'[k] = chunks[k]
      /\ LineUpto(line, chunks', q)
  BY ChunksNow
<1>3. c' = c + 1 /\ done' = 0 /\ c \in Nat
  BY <1>1 DEF NextChunk
<1>4. Typed'
  <2>1. c' \in Nat \ {0} /\ c' <= Len(chunks') + 1 /\ done' \in Nat
    BY <1>1, <1>2, <1>3
  <2>2. QED
    BY <1>2, <2>1 DEF IInv, Typed
<1>5. LineUpto(line, chunks, q)'
  BY <1>2
<1>6. Splitting'
  BY <1>1 DEF Splitting
<1>7. ASSUME NEW k \in 1 .. Len(chunks')
      PROVE  /\ k < c' => Finished(chunks[k])'
             /\ k = c' /\ ~fault' => Begun(chunks[k], done)'
             /\ k > c' => Fresh(chunks[k])'
  <2>1. k \in 1 .. Len(chunks)
    BY <1>2
  <2>2. /\ k < c => Finished(chunks[k])
        /\ k > c => Fresh(chunks[k])
    BY <2>1 DEF IInv, Segments
  <2>3. CASE k < c
    <3>1. chunks'[k] = chunks[k]
      BY <1>2, <2>1, <2>3
    <3>2. Finished(chunks[k])'
      BY <2>2, <2>3, <3>1 DEF Finished, Counted, Proper, Known
    <3>3. ~ (k = c') /\ ~ (k > c')
      BY <1>3, <2>1, <2>3
    <3>4. QED
      BY <3>2, <3>3
  <2>4. CASE k = c
    <3>1. Finished(chunks[k])'
      <4>1. chunks'[k] = ch
        BY <1>2, <2>4
      <4>2. QED
        BY <4>1 DEF Finished, Counted, Proper, Known
    <3>2. ~ (k = c') /\ ~ (k > c')
      BY <1>3, <2>1, <2>4
    <3>3. QED
      BY <1>2, <2>4, <3>1, <3>2
  <2>5. CASE k > c
    <3>1. chunks'[k] = chunks[k] /\ ~ (k < c')
      BY <1>2, <1>3, <2>1, <2>5
    <3>2. Fresh(chunks'[k]) /\ chunks'[k] \in ChunkType
      BY <1>1, <2>1, <2>2, <2>5, <3>1
    <3>3. Begun(chunks'[k], 0)
      BY <3>2, FreshBegun
    <3>4. Begun(chunks[k], done)'
      BY <1>3, <3>3 DEF Begun, Counted, Covered, Proper, Known
    <3>5. Fresh(chunks[k])'
      BY <3>2 DEF Fresh
    <3>6. QED
      BY <3>1, <3>4, <3>5
  <2>6. QED
    BY <1>3, <2>1, <2>3, <2>4, <2>5
<1>8. Segments'
  BY <1>7 DEF Segments
<1>9. QED
  BY <1>4, <1>5, <1>6, <1>8 DEF IInv

\* A turn that leaves the chunks as they are.
LEMMA SameChunks ==
    ASSUME IInv, Segmenting
    PROVE  chunks = [chunks EXCEPT ![c] = Chunk] /\ Chunk \in ChunkType
<1>1. c \in 1 .. Len(chunks) /\ chunks \in Seq(ChunkType) /\ Chunk \in ChunkType
  BY ChunkHere
<1>2. chunks = [chunks EXCEPT ![c] = chunks[c]]
  BY <1>1
<1>3. QED
  BY <1>1, <1>2 DEF Chunk

LEMMA FaultInv ==
    ASSUME IInv, Segmenting, UNCHANGED <<method, words, line, q, chunks, split, c>>,
           fault' = TRUE, done' \in Nat
    PROVE  IInv'
<1>1. PICK ch \in ChunkType : ch = Chunk
  BY SameChunks
<1>2. /\ chunks' = [chunks EXCEPT ![c] = ch] /\ ch.chunk = Chunk.chunk
      /\ ch.num_tsi < 0 <=> Chunk.num_tsi < 0
  BY <1>1, SameChunks
<1>3. QED
  BY <1>2, TurnInv

LEMMA RecordWith ==
    ASSUME NEW ch \in ChunkType, NEW num \in Int, NEW tsi \in Seq(Text)
    PROVE  [ch EXCEPT !.num_tsi = num, !.tsi = tsi]
           = [chunk |-> ch.chunk, num_tsi |-> num, tsi |-> tsi]
<1> DEFINE new == [ch EXCEPT !.num_tsi = num, !.tsi = tsi]
<1>1. new \in ChunkType /\ new.chunk = ch.chunk /\ new.num_tsi = num /\ new.tsi = tsi
  BY DEF ChunkType
<1> HIDE DEF new
<1>2. new = [chunk |-> new.chunk, num_tsi |-> new.num_tsi, tsi |-> new.tsi]
  BY <1>1 DEF ChunkType
<1>3. QED
  BY <1>1, <1>2 DEF new

\* The words have room behind the array of a Chinese chunk.
LEMMA ThereIsRoom ==
    ASSUME IInv, Segmenting, Chunk.num_tsi >= 0, NEW cuts, AddWords(cuts)
    PROVE  fault' = FALSE
<1>1. (Chunk.num_tsi < 0) = FALSE
  BY ChunkHere
<1>2. fault' = (Chunk.num_tsi < 0)
  BY DEF AddWords
<1> HIDE DEF Chunk
<1>3. QED
  BY <1>1, <1>2, Zenon

\* A turn that adds words to a Chinese chunk.
LEMMA WordsAdded ==
    ASSUME IInv, Segmenting, Chunk.num_tsi >= 0, NEW ws \in Seq(Text), NEW d \in Nat,
           NEW cuts, AddWords(cuts), CutWords(Chunk.chunk, cuts) = ws, Len(cuts) = Len(ws),
           done' = d, UNCHANGED <<method, words, line, q, split, c>>,
           done < Size, done < d, d <= Size, d % 2 = 0,
           IF method = "backward"
             THEN FlattenSeq(Reverse(Chunk.tsi \o ws)) = Bytes(Chunk.chunk, Size - d, Size)
             ELSE FlattenSeq(Chunk.tsi \o ws) = Bytes(Chunk.chunk, 0, d),
           \A k \in 1 .. Len(ws) : Proper(ws[k]),
           done = 0 /\ Known(Chunk.chunk) => d = Size /\ ws = <<Chunk.chunk>>
    PROVE  IInv'
<1>1. /\ c \in 1 .. Len(chunks) /\ chunks \in Seq(ChunkType)
      /\ Chunk \in ChunkType /\ Chunk.chunk \in Text /\ Size \in Nat
      /\ Chunk.num_tsi \in Int /\ Chunk.tsi \in Seq(Text) /\ done \in Nat
      /\ Begun(Chunk, done)
  BY ChunkHere
<1>2. PICK old : old = Chunk
  OBVIOUS
<1> DEFINE ch == [chunk |-> old.chunk, num_tsi |-> old.num_tsi + Len(ws), tsi |-> old.tsi \o ws]
<1>3. /\ ch \in ChunkType /\ ch.chunk = old.chunk /\ ch.num_tsi = old.num_tsi + Len(ws)
      /\ ch.tsi = old.tsi \o ws
  <2>1. old.tsi \o ws \in Seq(Text) /\ old.num_tsi + Len(ws) \in Int
    BY <1>1, <1>2
  <2>2. QED
    BY <1>1, <1>2, <2>1 DEF ChunkType
<1>4. chunks' = [chunks EXCEPT ![c] = ch] /\ fault' = FALSE
  <2> DEFINE new == CutWords(Chunk.chunk, cuts)
  <2>1. [chunks[c] EXCEPT !.num_tsi = @ + Len(cuts), !.tsi = @ \o new] = ch
    <3>1. PICK a, b : a = old.num_tsi + Len(cuts) /\ b = old.tsi \o new
      OBVIOUS
    <3>5. a = old.num_tsi + Len(ws) /\ b = old.tsi \o ws /\ a \in Int /\ b \in Seq(Text)
      BY <1>1, <1>2, <3>1
    <3>2. [old EXCEPT !.num_tsi = a, !.tsi = b] = [chunk |-> old.chunk, num_tsi |-> a, tsi |-> b]
      <4>1. old \in ChunkType /\ a \in Int /\ b \in Seq(Text)
        BY <1>1, <1>2, <3>5
      <4> HIDE DEF new, ch
      <4>2. QED
        BY <4>1, RecordWith
    <3>3. old = chunks[c]
      BY <1>2 DEF Chunk
    <3>4. QED
      BY <3>1, <3>2, <3>3, <3>5
  <2>2. chunks' = [chunks EXCEPT ![c] = [chunks[c] EXCEPT !.num_tsi = @ + Len(cuts), !.tsi = @ \o new]]
        /\ fault' = FALSE
    <3>1. ~ (Chunk.num_tsi < 0)
      BY <1>1
    <3>2. fault' = FALSE
      BY ThereIsRoom
    <3>3. chunks' = [chunks EXCEPT ![c].num_tsi = @ + Len(cuts), ![c].tsi = @ \o new]
      BY <3>1, Zenon DEF AddWords
    <3>4. DOMAIN chunks = 1 .. Len(chunks)
      BY <1>1
    <3> HIDE DEF new
    <3>5. QED
      BY <1>1, <3>2, <3>3, <3>4
  <2> HIDE DEF ch, new
  <2>3. QED
    BY <2>1, <2>2
<1> HIDE DEF ch
<1>5. /\ ch.chunk = Chunk.chunk /\ ch.tsi = Chunk.tsi \o ws
      /\ ch.num_tsi = Chunk.num_tsi + Len(ws) /\ Len(ws) \in Nat
  BY <1>2, <1>3
<1>6. ch.num_tsi >= 0 /\ (ch.num_tsi < 0 <=> Chunk.num_tsi < 0)
  BY <1>1, <1>5
<1>7. Counted(Chunk) /\ Chunk.num_tsi = Len(Chunk.tsi) /\ (done > 0 /\ Known(Chunk.chunk) => done = Size)
      /\ (done = 0 => Chunk.tsi = <<>>)
  BY <1>1 DEF Begun, Counted, Size
<1>8. Counted(ch)
  <2>1. /\ Len(ch.tsi) = Len(Chunk.tsi) + Len(ws)
        /\ \A k \in 1 .. Len(ch.tsi) : \/ k \in 1 .. Len(Chunk.tsi) /\ ch.tsi[k] = Chunk.tsi[k]
                                       \/ \E m \in 1 .. Len(ws) : ch.tsi[k] = ws[m]
    <3>1. PICK os \in Seq(Text) : os = Chunk.tsi
      BY <1>1
    <3>2. Len(os \o ws) = Len(os) + Len(ws)
      OBVIOUS
    <3>3. ASSUME NEW k \in 1 .. Len(os \o ws)
          PROVE  \/ k \in 1 .. Len(os) /\ (os \o ws)[k] = os[k]
                 \/ \E m \in 1 .. Len(ws) : (os \o ws)[k] = ws[m]
      <4>1. CASE k <= Len(os)
        BY <3>2, <4>1
      <4>2. CASE ~ (k <= Len(os))
        <5>1. k - Len(os) \in 1 .. Len(ws) /\ (os \o ws)[k] = ws[k - Len(os)]
          BY <3>2, <4>2
        <5>2. QED
          BY <5>1
      <4>3. QED
        BY <4>1, <4>2
    <3>4. QED
      BY <1>5, <3>1, <3>2, <3>3
  <2>2. \A k \in 1 .. Len(ch.tsi) : Proper(ch.tsi[k])
    BY <1>7, <2>1 DEF Counted
  <2>3. QED
    BY <1>5, <1>7, <2>1, <2>2 DEF Counted
<1>9. Covered(ch, d)
  BY <1>5 DEF Covered, Size
<1>10. Known(ch.chunk) => d = Len(ch.chunk) /\ ch.tsi = <<ch.chunk>>
  <2>1. SUFFICES ASSUME Known(Chunk.chunk) PROVE d = Size /\ ch.tsi = <<Chunk.chunk>>
    BY <1>5 DEF Size
  <2>2. done = 0
    BY <1>1, <1>7, <2>1
  <2>3. d = Size /\ ws = <<Chunk.chunk>> /\ Chunk.tsi = <<>>
    BY <1>7, <2>1, <2>2
  <2>4. <<>> \o ws = ws
    OBVIOUS
  <2>5. QED
    BY <1>5, <2>3, <2>4
<1>11. Begun(ch, d)
  <2>1. d # 0 /\ d <= Len(ch.chunk)
    BY <1>1, <1>5 DEF Size
  <2>2. QED
    BY <1>8, <1>9, <1>10, <2>1 DEF Begun
<1>12. done' \in Nat /\ fault' \in BOOLEAN /\ Begun(ch, done')
  BY <1>4, <1>11
<1>13. QED
  BY <1>3, <1>4, <1>5, <1>6, <1>12, TurnInv

\* The word of one cut, and the words of two.
LEMMA CutIs ==
    ASSUME NEW text, NEW i, NEW n
    PROVE  /\ CutWords(text, << <<i, n>> >>) = <<Bytes(text, i, i + n)>>
           /\ CutEnd(<< <<i, n>> >>) = i + n
<1> DEFINE cuts == << <<i, n>> >>
<1>1. Len(cuts) = 1 /\ cuts[1][1] = i /\ cuts[1][2] = n
  OBVIOUS
<1>2. CutWords(text, cuts) = [k \in 1 .. 1 |-> Bytes(text, cuts[k][1], cuts[k][1] + cuts[k][2])]
  BY <1>1 DEF CutWords
<1>3. CutEnd(cuts) = i + n
  BY <1>1 DEF CutEnd, Last
<1> HIDE DEF cuts
<1>4. CutWords(text, cuts) = <<Bytes(text, i, i + n)>>
  BY <1>1, <1>2
<1>5. QED
  BY <1>3, <1>4 DEF cuts

LEMMA CutsAre ==
    ASSUME NEW text, NEW i, NEW n, NEW j, NEW m
    PROVE  /\ CutWords(text, << <<i, n>>, <<j, m>> >>) = <<Bytes(text, i, i + n), Bytes(text, j, j + m)>>
           /\ CutEnd(<< <<i, n>>, <<j, m>> >>) = j + m
<1> DEFINE cuts == << <<i, n>>, <<j, m>> >>
<1>1. /\ Len(cuts) = 2 /\ cuts[1][1] = i /\ cuts[1][2] = n
      /\ cuts[2][1] = j /\ cuts[2][2] = m
  OBVIOUS
<1>2. CutWords(text, cuts) = [k \in 1 .. 2 |-> Bytes(text, cuts[k][1], cuts[k][1] + cuts[k][2])]
  BY <1>1 DEF CutWords
<1>3. CutEnd(cuts) = j + m
  BY <1>1 DEF CutEnd, Last
<1> HIDE DEF cuts
<1>4. CutWords(text, cuts) = <<Bytes(text, i, i + n), Bytes(text, j, j + m)>>
  BY <1>1, <1>2
<1>5. QED
  BY <1>3, <1>4 DEF cuts

\* A chunk of which the words of all bytes are found.
LEMMA WholeCovered ==
    ASSUME IInv, Segmenting, Chunk.num_tsi >= 0, done = Size
    PROVE  /\ FlattenSeq(IF method = "backward" THEN Reverse(Chunk.tsi) ELSE Chunk.tsi) = Chunk.chunk
           /\ Counted(Chunk)
           /\ Known(Chunk.chunk) => Chunk.tsi = <<Chunk.chunk>>
<1>1. Chunk.chunk \in Text /\ Size \in Nat /\ Begun(Chunk, done) /\ OfKind(Chunk)
  BY ChunkHere
<1>2. Counted(Chunk) /\ Covered(Chunk, done)
      /\ (done > 0 /\ Known(Chunk.chunk) => Chunk.tsi = <<Chunk.chunk>>)
  BY <1>1 DEF Begun
<1>3. Chunk.chunk # <<>>
  BY <1>1 DEF OfKind
<1>4. Size > 0
  BY <1>1, <1>3 DEF Size, Text
<1>5. Bytes(Chunk.chunk, 0, Size) = Chunk.chunk
  BY <1>1, BytesWhole DEF Size
<1>6. Size - Size = 0
  BY <1>1
<1>7. FlattenSeq(IF method = "backward" THEN Reverse(Chunk.tsi) ELSE Chunk.tsi) = Chunk.chunk
  <2>1. CASE method = "backward"
    BY <1>2, <1>5, <1>6, <2>1 DEF Covered, Size
  <2>2. CASE method # "backward"
    BY <1>2, <1>5, <2>2 DEF Covered
  <2>3. QED
    BY <2>1, <2>2
<1>8. QED
  BY <1>2, <1>4, <1>7

\* A turn that adds one word, behind what is found or, for the backward method, before it.
LEMMA OneWordAdded ==
    ASSUME IInv, Segmenting, Chunk.num_tsi >= 0, NEW i \in Nat, NEW n \in Nat,
           AddWords(<< <<i, n>> >>), done' = done + n,
           UNCHANGED <<method, words, line, q, split, c>>,
           n > 0, n % 2 = 0, done + n <= Size,
           i = IF method = "backward" THEN Size - done - n ELSE done,
           Proper(Bytes(Chunk.chunk, i, i + n)),
           done = 0 /\ Known(Chunk.chunk) => n = Size
    PROVE  IInv'
<1>1. /\ Chunk \in ChunkType /\ Chunk.chunk \in Text /\ Size \in Nat
      /\ Chunk.num_tsi \in Int /\ Chunk.tsi \in Seq(Text) /\ done \in Nat
      /\ Begun(Chunk, done)
  BY ChunkHere
<1>2. Size = Len(Chunk.chunk) /\ done % 2 = 0 /\ Covered(Chunk, done)
  BY <1>1 DEF Begun, Size
<1> DEFINE text == Chunk.chunk
           w == Bytes(text, i, i + n)
           d == done + n
<1>3. /\ i + n \in Nat /\ i <= i + n /\ i + n <= Size
      /\ d \in Nat /\ done < d /\ d <= Size /\ d % 2 = 0 /\ done < Size
  <2>1. d % 2 = 0
    BY <1>1, <1>2
  <2>2. CASE method = "backward"
    <3>1. i = Size - done - n
      BY <2>2
    <3>2. QED
      BY <1>1, <2>1, <3>1
  <2>3. CASE method # "backward"
    <3>1. i = done
      BY <2>3
    <3>2. QED
      BY <1>1, <2>1, <3>1
  <2>4. QED
    BY <2>2, <2>3
<1>4. w \in Text
  BY <1>1, <1>2, <1>3, BytesProperties
<1>5. <<w>> \in Seq(Text) /\ Len(<<w>>) = 1 /\ <<w>>[1] = w
  BY <1>4
<1>6. PICK cuts : /\ AddWords(cuts) /\ CutWords(text, cuts) = <<w>>
                  /\ Len(cuts) = Len(<<w>>)
  <2>1. CutWords(text, << <<i, n>> >>) = <<w>>
    BY CutIs
  <2>2. Len(<< <<i, n>> >>) = Len(<<w>>)
    OBVIOUS
  <2>3. QED
    BY <2>1, <2>2
<1>7. Chunk.tsi \o <<w>> = Append(Chunk.tsi, w)
  <2>1. PICK os \in Seq(Text), x \in Text : os = Chunk.tsi /\ x = w
    BY <1>1, <1>4
  <2>2. os \o <<x>> = Append(os, x)
    OBVIOUS
  <2>3. QED
    BY <2>1, <2>2
<1> HIDE DEF w, d
<1>8. CASE method = "backward"
  <2>1. FlattenSeq(Reverse(Append(Chunk.tsi, w))) = w \o FlattenSeq(Reverse(Chunk.tsi))
    BY <1>1, <1>4, FlattenReverse
  <2>2. FlattenSeq(Reverse(Chunk.tsi)) = Bytes(text, Size - done, Size)
    BY <1>2, <1>8 DEF Covered
  <2>3. w = Bytes(text, Size - d, Size - done)
    <3>1. i = Size - d /\ i + n = Size - done
      BY <1>1, <1>8 DEF d
    <3>2. QED
      BY <3>1 DEF w
  <2>4. Size - d \in Nat /\ Size - done \in Nat /\ Size - d <= Size - done /\ Size - done <= Size
    BY <1>1, <1>3
  <2>5. Bytes(text, Size - d, Size - done) \o Bytes(text, Size - done, Size) = Bytes(text, Size - d, Size)
    <3>1. PICK t \in Text, x, y, z \in Nat :
             t = text /\ x = Size - d /\ y = Size - done /\ z = Size
      BY <1>1, <2>4
    <3>2. x <= y /\ y <= z /\ z <= Len(t)
      BY <1>1, <1>2, <2>4, <3>1
    <3>3. Bytes(t, x, y) \o Bytes(t, y, z) = Bytes(t, x, z)
      BY <3>2, BytesJoin
    <3>4. QED
      BY <3>1, <3>3
  <2>6. FlattenSeq(Reverse(Chunk.tsi \o <<w>>)) = Bytes(text, Size - d, Size)
    BY <1>7, <2>1, <2>2, <2>3, <2>5
  <2>7. \A k \in 1 .. Len(<<w>>) : Proper(<<w>>[k])
    <3>1. Proper(w)
      BY DEF w
    <3>2. QED
      BY <1>5, <3>1
  <2>8. done = 0 /\ Known(text) => d = Size /\ <<w>> = <<text>>
    <3>1. SUFFICES ASSUME done = 0, Known(text) PROVE d = Size /\ w = text
      OBVIOUS
    <3>2. d = Size /\ i = 0 /\ i + n = Size
      BY <1>1, <1>8, <3>1 DEF d
    <3>3. QED
      BY <1>1, <1>2, <3>2, BytesWhole DEF w
  <2>9. QED
    BY <1>1, <1>3, <1>5, <1>6, <1>8, <2>6, <2>7, <2>8, WordsAdded DEF d
<1>9. CASE method # "backward"
  <2>1. FlattenSeq(Append(Chunk.tsi, w)) = FlattenSeq(Chunk.tsi) \o w
    BY <1>1, <1>4, FlattenAppend
  <2>2. FlattenSeq(Chunk.tsi) = Bytes(text, 0, done)
    BY <1>2, <1>9 DEF Covered
  <2>3. w = Bytes(text, done, d)
    BY <1>9 DEF w, d
  <2>4. Bytes(text, 0, done) \o Bytes(text, done, d) = Bytes(text, 0, d)
    <3>1. PICK t \in Text, x, y, z \in Nat : t = text /\ x = 0 /\ y = done /\ z = d
      BY <1>1, <1>3
    <3>2. x <= y /\ y <= z /\ z <= Len(t)
      BY <1>1, <1>2, <1>3, <3>1
    <3>3. Bytes(t, x, y) \o Bytes(t, y, z) = Bytes(t, x, z)
      BY <3>2, BytesJoin
    <3>4. QED
      BY <3>1, <3>3
  <2>6. FlattenSeq(Chunk.tsi \o <<w>>) = Bytes(text, 0, d)
    BY <1>7, <2>1, <2>2, <2>3, <2>4
  <2>7. \A k \in 1 .. Len(<<w>>) : Proper(<<w>>[k])
    <3>1. Proper(w)
      BY DEF w
    <3>2. QED
      BY <1>5, <3>1
  <2>8. done = 0 /\ Known(text) => d = Size /\ <<w>> = <<text>>
    <3>1. SUFFICES ASSUME done = 0, Known(text) PROVE d = Size /\ w = text
      OBVIOUS
    <3>2. d = Size
      BY <1>1, <3>1 DEF d
    <3>3. QED
      BY <1>1, <1>2, <2>3, <3>1, <3>2, BytesWhole
  <2>9. QED
    BY <1>1, <1>3, <1>5, <1>6, <1>9, <2>6, <2>7, <2>8, WordsAdded DEF d
<1>10. QED
  BY <1>8, <1>9

\* The last two characters, one word each.
LEMMA TwoWordsAdded ==
    ASSUME IInv, Segmenting, Chunk.num_tsi >= 0, method = "complex",
           AddWords(<< <<done, 2>>, <<done + 2, 2>> >>), done' = done + 4,
           UNCHANGED <<method, words, line, q, split, c>>,
           done + 4 = Size, done = 0 => ~ Known(Chunk.chunk)
    PROVE  IInv'
<1>1. /\ Chunk \in ChunkType /\ Chunk.chunk \in Text /\ Size \in Nat
      /\ Chunk.num_tsi \in Int /\ Chunk.tsi \in Seq(Text) /\ done \in Nat
      /\ Begun(Chunk, done)
  BY ChunkHere
<1>2. Size = Len(Chunk.chunk) /\ done % 2 = 0 /\ Covered(Chunk, done) /\ method # "backward"
  BY <1>1 DEF Begun, Size
<1>3. PICK t \in Text, x, y, z \in Nat :
         t = Chunk.chunk /\ x = done /\ y = done + 2 /\ z = done + 4
  BY <1>1
<1>4. x <= y /\ y <= z /\ z = Len(t) /\ y = x + 2 /\ z = y + 2
  BY <1>1, <1>2, <1>3
<1>5. PICK v, w \in Text : v = Bytes(t, x, y) /\ w = Bytes(t, y, z) /\ Len(v) = 2 /\ Len(w) = 2
  <2>1. Bytes(t, x, y) \in Text /\ Len(Bytes(t, x, y)) = y - x
    BY <1>4, BytesProperties
  <2>2. Bytes(t, y, z) \in Text /\ Len(Bytes(t, y, z)) = z - y
    <3>1. y <= z /\ z <= Len(t)
      BY <1>4
    <3>2. QED
      BY <3>1, BytesProperties
  <2>3. QED
    BY <1>4, <2>1, <2>2
<1>6. <<v, w>> \in Seq(Text) /\ Len(<<v, w>>) = 2 /\ <<v, w>>[1] = v /\ <<v, w>>[2] = w
  BY <1>5
<1>7. PICK cuts : /\ AddWords(cuts) /\ CutWords(Chunk.chunk, cuts) = <<v, w>>
                  /\ Len(cuts) = Len(<<v, w>>)
  <2>1. CutWords(t, << <<x, 2>>, <<y, 2>> >>) = <<Bytes(t, x, x + 2), Bytes(t, y, y + 2)>>
    BY CutsAre
  <2>2. Len(<< <<x, 2>>, <<y, 2>> >>) = Len(<<v, w>>)
    OBVIOUS
  <2>3. QED
    BY <1>3, <1>4, <1>5, <2>1, <2>2
<1>8. \A k \in 1 .. Len(<<v, w>>) : Proper(<<v, w>>[k])
  <2>1. 2 <= 2 * MaxTsiLen
    BY MaxTsiLenAssumption
  <2>2. Proper(v) /\ Proper(w)
    BY <1>5, <2>1 DEF Proper
  <2>3. \A k \in 1 .. 2 : k = 1 \/ k = 2
    OBVIOUS
  <2>4. QED
    BY <1>6, <2>2, <2>3
<1>9. FlattenSeq(Chunk.tsi \o <<v, w>>) = Bytes(Chunk.chunk, 0, z)
  <2>1. PICK os \in Seq(Text) : os = Chunk.tsi
    BY <1>1
  <2>2. Append(os, v) \in Seq(Text) /\ os \o <<v, w>> = Append(Append(os, v), w)
    BY <1>5
  <2>3. FlattenSeq(Append(os, v)) = FlattenSeq(os) \o v
    BY <1>5, FlattenAppend
  <2>4. FlattenSeq(Append(Append(os, v), w)) = FlattenSeq(Append(os, v)) \o w
    BY <1>5, <2>2, FlattenAppend
  <2>5. FlattenSeq(os) = Bytes(t, 0, x)
    BY <1>2, <1>3, <2>1 DEF Covered
  <2>6. Bytes(t, 0, x) \o Bytes(t, x, y) = Bytes(t, 0, y)
    <3>1. PICK u \in Nat : u = 0
      OBVIOUS
    <3>2. u <= x /\ x <= y /\ y <= Len(t)
      BY <1>4, <3>1
    <3>3. Bytes(t, u, x) \o Bytes(t, x, y) = Bytes(t, u, y)
      BY <3>2, BytesJoin
    <3>4. QED
      BY <3>1, <3>3
  <2>7. Bytes(t, 0, y) \o Bytes(t, y, z) = Bytes(t, 0, z)
    <3>1. PICK u \in Nat : u = 0
      OBVIOUS
    <3>2. u <= y /\ y <= z /\ z <= Len(t)
      BY <1>4, <3>1
    <3>3. Bytes(t, u, y) \o Bytes(t, y, z) = Bytes(t, u, z)
      BY <3>2, BytesJoin
    <3>4. QED
      BY <3>1, <3>3
  <2>8. QED
    BY <1>3, <1>5, <2>1, <2>2, <2>3, <2>4, <2>5, <2>6, <2>7
<1>10. done' = z /\ done < Size /\ done < z /\ z <= Size /\ z % 2 = 0
  BY <1>1, <1>2, <1>3
<1>11. QED
  BY <1>2, <1>6, <1>7, <1>8, <1>9, <1>10, WordsAdded

\* A turn that writes in front of the words of a chunk that is not Chinese.
LEMMA NoRoom ==
    ASSUME IInv, Segmenting, Chunk.num_tsi < 0, NEW cuts, AddWords(cuts), done' \in Nat,
           UNCHANGED <<method, words, line, q, split, c>>
    PROVE  IInv'
<1>1. (Chunk.num_tsi < 0) = TRUE
  OBVIOUS
<1>2. fault' = (Chunk.num_tsi < 0) /\ chunks' = chunks
  BY DEF AddWords
<1> HIDE DEF Chunk
<1>3. fault' = TRUE
  BY <1>1, <1>2, Zenon
<1>4. QED
  BY <1>2, <1>3, FaultInv

\* The bytes that are left of a Chinese chunk.
LEMMA EvenRest ==
    ASSUME IInv, Segmenting, Chunk.num_tsi >= 0
    PROVE  Size % 2 = 0 /\ done % 2 = 0 /\ done <= Size /\ Size > 0 /\ Size = Len(Chunk.chunk)
<1>1. /\ Size \in Nat /\ Begun(Chunk, done) /\ OfKind(Chunk) /\ Chunk.num_tsi \in Int
      /\ Chunk.chunk \in Text
  BY ChunkHere
<1>2. ~ (Chunk.num_tsi < 0) /\ Chunk.chunk # <<>>
  BY <1>1 DEF OfKind
<1>3. Len(Chunk.chunk) # 0
  BY <1>1, <1>2 DEF Text
<1>4. Len(Chunk.chunk) % 2 = 0
  BY <1>1, <1>2 DEF OfKind
<1>5. done <= Len(Chunk.chunk) /\ done % 2 = 0
  BY <1>1 DEF Begun
<1>6. Size = Len(Chunk.chunk)
  BY DEF Size
<1>7. Size > 0
  BY <1>1, <1>3, <1>6
<1>8. QED
  BY <1>4, <1>5, <1>6, <1>7

LEMMA EvenPart ==
    ASSUME NEW s \in Nat, NEW d \in Nat, NEW m \in Nat,
           s % 2 = 0, d % 2 = 0, (s - d - m) % 2 = 0
    PROVE  m % 2 = 0
  OBVIOUS

LEMMA EvenNumber ==
    ASSUME NEW s \in Nat, s > 0, s % 2 = 0
    PROVE  s >= 2
  OBVIOUS

LEMMA SimplexTurnInv == ASSUME IInv, SimplexTurn PROVE IInv'
<1>1. /\ Segmenting /\ method = "simplex" /\ done <= Size - 2
      /\ UNCHANGED <<method, words, line, q, split, c>>
  BY DEF SimplexTurn, unchangedInput
<1>2. Chunk.chunk \in Text /\ Size \in Nat /\ Size = Len(Chunk.chunk) /\ done \in Nat /\ Chunk.num_tsi \in Int
  BY <1>1, ChunkHere DEF Size
<1> DEFINE T == LengthsFrom(words, Chunk.chunk, done)
           M == Max(T)
<1>3. CASE T = {}
  <2>1. fault' = TRUE /\ UNCHANGED <<chunks, done>>
    BY <1>3 DEF SimplexTurn
  <2>2. QED
    BY <1>1, <1>2, <2>1, FaultInv
<1>4. CASE T # {}
  <2>1. AddWords(<< <<done, M>> >>) /\ done' = done + M
    BY <1>4 DEF SimplexTurn
  <2>2. T \in SUBSET (0 .. Size)
    BY <1>2 DEF LengthsFrom
  <2>3. M \in T /\ \A m \in T : m <= M
    <3> HIDE DEF T
    <3>1. QED
      BY <1>2, <1>4, <2>2, MaxProperties
  <2> HIDE DEF M
  <2>4. /\ M \in 1 .. (Size - done) /\ (Size - done - M) % 2 = 0
        /\ Bytes(Chunk.chunk, done, done + M) \in words
    BY <1>2, <2>3 DEF LengthsFrom, InDB
  <2>5. M \in Nat /\ M > 0 /\ done + M <= Size /\ done' \in Nat
    BY <1>2, <2>1, <2>4
  <2>6. CASE Chunk.num_tsi < 0
    BY <1>1, <2>1, <2>5, <2>6, NoRoom
  <2>7. CASE Chunk.num_tsi >= 0
    <3>1. Size % 2 = 0 /\ done % 2 = 0
      BY <1>1, <2>7, EvenRest
    <3>2. M % 2 = 0
      BY <1>2, <2>4, <2>5, <3>1, EvenPart
    <3>3. Proper(Bytes(Chunk.chunk, done, done + M))
      <4>1. Len(Bytes(Chunk.chunk, done, done + M)) = M
        BY <1>2, <2>5, WordLength
      <4>2. QED
        BY <1>1, <1>2, <2>4, <2>5, <4>1 DEF Proper
    <3>4. done = 0 /\ Known(Chunk.chunk) => M = Size
      <4>1. SUFFICES ASSUME done = 0, Known(Chunk.chunk) PROVE M = Size
        OBVIOUS
      <4>2. Bytes(Chunk.chunk, 0, Size) = Chunk.chunk
        BY <1>2, BytesWhole
      <4>3. Bytes(Chunk.chunk, done, done + Size) \in words
        <5>1. 0 + Size = Size
          BY <1>2
        <5>2. QED
          BY <4>1, <4>2, <5>1 DEF Known
      <4>4. Size \in 1 .. (Size - done) /\ (Size - done - Size) % 2 = 0
        BY <1>1, <1>2, <4>1
      <4>5. Size \in T
        BY <1>2, <4>3, <4>4 DEF LengthsFrom, InDB
      <4>6. QED
        BY <1>2, <2>3, <2>5, <4>5
    <3>5. method # "backward"
      BY <1>1
    <3>6. QED
      BY <1>1, <1>2, <2>1, <2>5, <2>7, <3>2, <3>3, <3>4, <3>5, OneWordAdded
  <2>8. QED
    BY <1>2, <2>6, <2>7
<1>5. QED
  BY <1>3, <1>4

\* A chunk that is not Chinese is never counted.
LEMMA ForwardEnd ==
    ASSUME IInv, Segmenting, method # "backward", NextChunk,
           UNCHANGED <<method, words, line, q, chunks, split, fault>>,
           Chunk.num_tsi >= 0 => done = Size
    PROVE  IInv'
<1>1. Finished(Chunk)
  <2>1. SUFFICES ASSUME Chunk.num_tsi >= 0 PROVE Finished(Chunk)
    BY DEF Finished
  <2>2. /\ FlattenSeq(Chunk.tsi) = Chunk.chunk /\ Counted(Chunk)
        /\ Known(Chunk.chunk) => Chunk.tsi = <<Chunk.chunk>>
    BY <2>1, WholeCovered
  <2>3. QED
    BY <2>2 DEF Finished
<1>2. PICK ch \in ChunkType : ch = Chunk
  BY SameChunks
<1>3. chunks' = [chunks EXCEPT ![c] = ch] /\ Finished(ch)
  BY <1>1, <1>2, SameChunks
<1>4. ch.chunk = Chunk.chunk /\ (ch.num_tsi < 0 <=> Chunk.num_tsi < 0)
  BY <1>2
<1>5. QED
  BY <1>3, <1>4, EndInv

LEMMA SimplexEndInv == ASSUME IInv, SimplexEnd PROVE IInv'
<1>1. /\ Segmenting /\ method = "simplex" /\ done > Size - 2 /\ NextChunk
      /\ UNCHANGED <<method, words, line, q, chunks, split, fault>>
  BY DEF SimplexEnd, unchangedInput
<1>2. Size \in Nat /\ done \in Nat
  BY <1>1, ChunkHere
<1>3. Chunk.num_tsi >= 0 => done = Size
  <2>1. ASSUME Chunk.num_tsi >= 0 PROVE done = Size
    <3>1. Size % 2 = 0 /\ done % 2 = 0 /\ done <= Size
      BY <1>1, <2>1, EvenRest
    <3>2. QED
      BY <1>1, <1>2, <3>1
  <2>2. QED
    BY <2>1
<1>4. method # "backward"
  BY <1>1
<1>5. QED
  BY <1>1, <1>3, <1>4, ForwardEnd

LEMMA StutterInv == ASSUME IInv, UNCHANGED vars PROVE IInv'
<1>1. UNCHANGED <<method, words, line, q, chunks, split, c, done, fault>>
  BY DEF vars
<1>2. Typed' /\ LineUpto(line, chunks, q)'
  BY <1>1 DEF IInv, Typed, LineUpto, OfKind, Texts
<1>3. Splitting'
  BY <1>1 DEF IInv, Splitting, Fresh
<1>4. Segments'
  BY <1>1 DEF IInv, Segments, Finished, Begun, Counted, Covered, Proper, Known, Fresh
<1>5. QED
  BY <1>2, <1>3, <1>4 DEF IInv

LEMMA BackwardTurnInv == ASSUME IInv, BackwardTurn PROVE IInv'
<1>1. /\ Segmenting /\ method = "backward" /\ done < Size
      /\ UNCHANGED <<method, words, line, q, split, c>>
  BY DEF BackwardTurn, unchangedInput
<1>2. Chunk.chunk \in Text /\ Size \in Nat /\ Size = Len(Chunk.chunk) /\ done \in Nat /\ Chunk.num_tsi \in Int
  BY <1>1, ChunkHere DEF Size
<1> DEFINE tail == Size - done
           T == LengthsTo(words, Chunk.chunk, tail)
           M == Max(T)
<1>3. CASE T = {}
  <2>1. UNCHANGED <<chunks, done, fault>>
    BY <1>3 DEF BackwardTurn
  <2>2. QED
    BY <1>1, <2>1, StutterInv DEF vars
<1>4. CASE T # {}
  <2>1. AddWords(<< <<tail - M, M>> >>) /\ done' = done + M
    BY <1>4 DEF BackwardTurn
  <2>2. T \in SUBSET (0 .. Size)
    BY <1>1, <1>2 DEF LengthsTo
  <2>3. M \in T /\ \A m \in T : m <= M
    <3> HIDE DEF T
    <3>1. QED
      BY <1>2, <1>4, <2>2, MaxProperties
  <2> HIDE DEF M
  <2>4. /\ M \in 2 .. tail /\ (tail - M) % 2 = 0
        /\ Bytes(Chunk.chunk, tail - M, tail - M + M) \in words
    BY <1>2, <2>3 DEF LengthsTo, InDB
  <2>5. /\ M \in Nat /\ M > 0 /\ done + M <= Size /\ done' \in Nat
        /\ tail - M \in Nat /\ tail - M = Size - done - M
    BY <1>1, <1>2, <2>1, <2>4
  <2>6. CASE Chunk.num_tsi < 0
    BY <1>1, <2>1, <2>5, <2>6, NoRoom
  <2>7. CASE Chunk.num_tsi >= 0
    <3>1. Size % 2 = 0 /\ done % 2 = 0
      BY <1>1, <2>7, EvenRest
    <3>2. M % 2 = 0
      BY <1>2, <2>4, <2>5, <3>1, EvenPart
    <3>3. PICK i \in Nat : i = tail - M
      BY <2>5
    <3>4. Proper(Bytes(Chunk.chunk, i, i + M))
      <4>1. Len(Bytes(Chunk.chunk, i, i + M)) = M
        <5>1. i + M <= Len(Chunk.chunk)
          BY <1>2, <2>4, <2>5, <3>3
        <5>2. QED
          BY <1>2, <2>5, <5>1, WordLength
      <4>2. Bytes(Chunk.chunk, i, i + M) \in words
        BY <2>4, <3>3
      <4>3. QED
        BY <1>1, <2>5, <4>1, <4>2 DEF Proper
    <3>5. done = 0 /\ Known(Chunk.chunk) => M = Size
      <4>1. SUFFICES ASSUME done = 0, Known(Chunk.chunk) PROVE M = Size
        OBVIOUS
      <4>2. Bytes(Chunk.chunk, 0, Size) = Chunk.chunk
        BY <1>2, BytesWhole
      <4>3. tail = Size /\ tail - Size = 0 /\ (tail - Size) % 2 = 0 /\ tail - Size + Size = Size
        BY <1>2, <4>1
      <4>4. Bytes(Chunk.chunk, tail - Size, tail - Size + Size) \in words
        BY <4>1, <4>2, <4>3 DEF Known
      <4>5. Size > 0 /\ Size % 2 = 0
        BY <1>1, <2>7, EvenRest
      <4>6. Size \in 2 .. tail
        <5>1. Size >= 2
          BY <1>2, <4>5, EvenNumber
        <5>2. Size \in 2 .. Size
          BY <1>2, <5>1
        <5>3. QED
          BY <4>3, <5>2, Zenon
      <4>7. Size \in T
        BY <4>3, <4>4, <4>6 DEF LengthsTo, InDB
      <4>8. QED
        BY <1>2, <2>3, <2>5, <4>7
    <3>6. i = IF method = "backward" THEN Size - done - M ELSE done
      BY <1>1, <2>5, <3>3
    <3>7. AddWords(<< <<i, M>> >>)
      BY <2>1, <3>3
    <3> HIDE DEF tail
    <3>8. QED
      BY <1>1, <1>2, <2>1, <2>5, <2>7, <3>2, <3>4, <3>5, <3>6, <3>7, OneWordAdded
  <2>8. QED
    BY <1>2, <2>6, <2>7
<1>5. QED
  BY <1>3, <1>4

LEMMA ReverseIs ==
    ASSUME NEW ss \in Seq(Text)
    PROVE  /\ Reverse(ss) \in Seq(Text) /\ Len(Reverse(ss)) = Len(ss)
           /\ \A k \in 1 .. Len(ss) : \E m \in 1 .. Len(ss) : Reverse(ss)[k] = ss[m]
           /\ \A t \in Text : ss = <<t>> => Reverse(ss) = <<t>>
<1>1. Reverse(ss) \in Seq(Text) /\ Len(Reverse(ss)) = Len(ss)
  BY DEF Reverse
<1>2. ASSUME NEW k \in 1 .. Len(ss) PROVE \E m \in 1 .. Len(ss) : Reverse(ss)[k] = ss[m]
  <2>1. Len(ss) - k + 1 \in 1 .. Len(ss) /\ Reverse(ss)[k] = ss[(Len(ss) - k) + 1]
    BY DEF Reverse
  <2>2. QED
    BY <2>1
<1>3. ASSUME NEW t \in Text, ss = <<t>> PROVE Reverse(ss) = <<t>>
  BY <1>3 DEF Reverse
<1>4. QED
  BY <1>1, <1>2, <1>3

LEMMA BackwardEndInv == ASSUME IInv, BackwardEnd PROVE IInv'
<1>1. /\ Segmenting /\ method = "backward" /\ done >= Size /\ NextChunk
      /\ chunks' = [chunks EXCEPT ![c].tsi = Reverse(@)]
      /\ UNCHANGED <<method, words, line, q, split, fault>>
  BY DEF BackwardEnd, unchangedInput
<1>2. /\ c \in 1 .. Len(chunks) /\ chunks \in Seq(ChunkType) /\ Chunk \in ChunkType
      /\ Chunk.num_tsi \in Int /\ Chunk.tsi \in Seq(Text) /\ Size \in Nat /\ done \in Nat
  BY <1>1, ChunkHere
<1>3. PICK old, r : old \in ChunkType /\ old = Chunk /\ r = Reverse(old.tsi)
  BY <1>2
<1>4. old.tsi \in Seq(Text)
  BY <1>2, <1>3
<1>5. /\ r \in Seq(Text) /\ Len(r) = Len(old.tsi)
      /\ \A k \in 1 .. Len(old.tsi) : \E m \in 1 .. Len(old.tsi) : r[k] = old.tsi[m]
      /\ \A t \in Text : old.tsi = <<t>> => r = <<t>>
  BY <1>3, <1>4, ReverseIs
<1>6. PICK ch \in ChunkType : /\ ch = [old EXCEPT !.tsi = r] /\ ch.chunk = old.chunk
                              /\ ch.num_tsi = old.num_tsi /\ ch.tsi = r
  <2>1. PICK ch : ch = [old EXCEPT !.tsi = r]
    OBVIOUS
  <2>2. /\ ch \in ChunkType /\ ch.chunk = old.chunk
        /\ ch.num_tsi = old.num_tsi /\ ch.tsi = r
    BY <1>3, <1>5, <2>1 DEF ChunkType
  <2>3. QED
    BY <2>1, <2>2
<1>7. chunks' = [chunks EXCEPT ![c] = ch]
  <2>1. chunks[c] = old /\ DOMAIN chunks = 1 .. Len(chunks)
    BY <1>2, <1>3 DEF Chunk
  <2>2. chunks' = [chunks EXCEPT ![c] = [old EXCEPT !.tsi = Reverse(old.tsi)]]
    BY <1>1, <1>2, <2>1
  <2>3. QED
    BY <1>3, <1>6, <2>2
<1>8. Finished(ch)
  <2>1. SUFFICES ASSUME Chunk.num_tsi >= 0 PROVE Finished(ch)
    BY <1>3, <1>6 DEF Finished
  <2>2. done = Size
    <3>1. done <= Size
      BY <1>1, <2>1, EvenRest
    <3>2. QED
      BY <1>1, <1>2, <3>1
  <2>3. /\ FlattenSeq(Reverse(Chunk.tsi)) = Chunk.chunk /\ Counted(Chunk)
        /\ Known(Chunk.chunk) => Chunk.tsi = <<Chunk.chunk>>
    BY <1>1, <2>1, <2>2, WholeCovered
  <2>4. Counted(ch)
    BY <1>3, <1>5, <1>6, <2>3 DEF Counted
  <2>5. FlattenSeq(ch.tsi) = ch.chunk
    BY <1>3, <1>6, <2>3
  <2>6. Known(ch.chunk) => ch.tsi = <<ch.chunk>>
    <3>1. ch.chunk \in Text
      BY <1>1, <1>3, <1>6, ChunkHere
    <3>2. QED
      BY <1>3, <1>5, <1>6, <2>3, <3>1
  <2>7. QED
    BY <2>4, <2>5, <2>6 DEF Finished
<1>9. ch.chunk = Chunk.chunk /\ (ch.num_tsi < 0 <=> Chunk.num_tsi < 0)
  BY <1>3, <1>6
<1>10. QED
  BY <1>1, <1>7, <1>8, <1>9, EndInv

-----------------------------------------------------------------------------
(* The combinations of the complex method *)

\* A finite table of numbers is bounded.
LEMMA TableBounded ==
    ASSUME NEW n \in Nat, NEW f \in [0 .. n -> Nat]
    PROVE  \E b \in Nat : \A p \in 0 .. n : f[p] <= b
<1> DEFINE T == {m \in Nat : m <= n => \E b \in Nat : \A p \in 0 .. m : f[p] <= b}
<1>1. T \in SUBSET Nat
  OBVIOUS
<1>2. 0 \in T
  <2>1. f[0] \in Nat /\ \A p \in 0 .. 0 : f[p] <= f[0]
    OBVIOUS
  <2>2. QED
    BY <2>1
<1>3. ASSUME NEW m \in T PROVE m + 1 \in T
  <2>1. SUFFICES ASSUME m + 1 <= n
                 PROVE  \E b \in Nat : \A p \in 0 .. (m + 1) : f[p] <= b
    OBVIOUS
  <2>2. PICK b \in Nat : \A p \in 0 .. m : f[p] <= b
    BY <2>1
  <2>3. f[m + 1] \in Nat
    BY <2>1
  <2>4. PICK d \in Nat : b <= d /\ f[m + 1] <= d
    <3>1. b <= f[m + 1] \/ f[m + 1] <= b
      BY <2>3
    <3>2. QED
      BY <2>3, <3>1
  <2>5. ASSUME NEW p \in 0 .. (m + 1) PROVE f[p] <= d
    <3>1. CASE p = m + 1
      BY <2>4, <3>1
    <3>2. CASE p # m + 1
      <4>1. p \in 0 .. m /\ p \in 0 .. n
        BY <2>1, <3>2
      <4>2. f[p] <= b /\ f[p] \in Nat
        BY <2>2, <4>1
      <4>3. QED
        BY <2>4, <4>2
    <3>3. QED
      BY <3>1, <3>2
  <2>6. QED
    BY <2>5
<1> HIDE DEF T
<1>4. T = Nat
  BY <1>1, <1>2, <1>3, Induction
<1>5. n \in T
  BY <1>4
<1>6. QED
  BY <1>5 DEF T

\* The counts of characters are bounded.
CountsUpto(b) == \A s \in Text : \A i \in Nat : RefCount(s, i) \in 0 .. b

LEMMA RefCountBounded == \E b \in Nat : CountsUpto(b)
<1>1. PICK b \in Nat : \A p \in 0 .. CharRefLen - 1 : CharRef[p] <= b
  <2>1. PICK n \in Nat : n = CharRefLen - 1
    BY DEF CharRefLen
  <2>2. CharRef \in [0 .. n -> Nat]
    BY <2>1, CharRefAssumption
  <2>3. QED
    BY <2>1, <2>2, TableBounded
<1>2. ASSUME NEW s \in Text, NEW i \in Nat PROVE RefCount(s, i) \in 0 .. b
  <2> DEFINE code == ZhiToZhiCode(s, i)
             p == PackedBig5(code)
  <2>1. code \in Code
    <3>1. ByteAt(s, i) \in Byte /\ ByteAt(s, i + 1) \in Byte
      BY ByteProperties DEF Byte
    <3>2. PICK x, y \in Byte : x = ByteAt(s, i) /\ y = ByteAt(s, i + 1)
      BY <3>1
    <3>3. x * 256 + y \in Code
      BY TwoBytes
    <3>4. ZhiToZhiCode(s, i) = x * 256 + y
      BY <3>2 DEF ZhiToZhiCode
    <3>5. QED
      BY <3>3, <3>4, Zenon
  <2> HIDE DEF code
  <2>2. p \in -1 .. (CharRefLen - 1)
    BY <2>1, PackedInTable
  <2> HIDE DEF p
  <2>3. CASE p < 0
    BY <2>3 DEF RefCount, p, code
  <2>4. CASE ~ (p < 0)
    <3>1. RefCount(s, i) = CharRef[p]
      BY <2>4 DEF RefCount, p, code
    <3>2. p \in 0 .. CharRefLen - 1
      BY <2>2, <2>4 DEF CharRefLen
    <3>3. CharRef[p] \in Nat /\ CharRef[p] <= b
      BY <1>1, <3>2, CharRefAssumption
    <3>4. QED
      BY <3>1, <3>3
  <2>5. QED
    BY <2>3, <2>4
<1>3. QED
  BY <1>2 DEF CountsUpto

\* The lengths of the words at an offset.
LEMMA LengthsProperties ==
    ASSUME NEW ws, NEW text \in Text, NEW i \in Nat
    PROVE  /\ \A n \in Lengths(ws, text, i) :
                /\ n \in Nat /\ n > 0 /\ i + n <= Len(text) /\ n <= 2 * MaxTsiLen
                /\ n > 2 => Bytes(text, i, i + n) \in ws
                /\ i % 2 = 0 /\ Len(text) % 2 = 0 => n % 2 = 0
           /\ i < Len(text) => Lengths(ws, text, i) # {}
           /\ i < Len(text) /\ Len(text) - i <= 2 * MaxTsiLen /\ Bytes(text, i, Len(text)) \in ws
                => Len(text) - i \in Lengths(ws, text, i)
<1>1. PICK size \in Nat, top \in Nat : size = Len(text) /\ top = 2 * MaxTsiLen /\ top >= 4 /\ top % 2 = 0
  <2>1. Len(text) \in Nat
    BY DEF Text
  <2>2. 2 * MaxTsiLen \in Nat /\ 2 * MaxTsiLen >= 4 /\ (2 * MaxTsiLen) % 2 = 0
    BY MaxTsiLenAssumption
  <2>3. QED
    BY <2>1, <2>2
<1>2. PICK longest : longest = (IF top < size - i THEN top ELSE size - i)
  OBVIOUS
<1>3. longest \in Int /\ longest <= top /\ longest <= size - i
      /\ (longest = top \/ longest = size - i)
  BY <1>1, <1>2
<1>4. Lengths(ws, text, i) = {n \in 1 .. longest : (longest - n) % 2 = 0 /\ IsTsi(ws, text, i, n)}
  BY <1>1, <1>2 DEF Lengths, Least
<1>5. ASSUME NEW n \in Lengths(ws, text, i)
      PROVE  /\ n \in Nat /\ n > 0 /\ i + n <= Len(text) /\ n <= 2 * MaxTsiLen
             /\ n > 2 => Bytes(text, i, i + n) \in ws
             /\ i % 2 = 0 /\ Len(text) % 2 = 0 => n % 2 = 0
  <2>1. n \in 1 .. longest /\ (longest - n) % 2 = 0 /\ IsTsi(ws, text, i, n)
    BY <1>4, <1>5
  <2>2. n \in Nat /\ n > 0 /\ i + n <= size /\ n <= top
    BY <1>1, <1>3, <2>1
  <2>3. n > 2 => Bytes(text, i, i + n) \in ws
    BY <2>1, <2>2 DEF IsTsi, InDB
  <2>4. i % 2 = 0 /\ size % 2 = 0 => n % 2 = 0
    BY <1>1, <1>3, <2>1, <2>2
  <2>5. QED
    BY <1>1, <2>2, <2>3, <2>4
<1>6. ASSUME i < Len(text) PROVE Lengths(ws, text, i) # {}
  <2>1. longest >= 1
    BY <1>1, <1>3, <1>6
  <2>2. \E n \in {1, 2} : n \in 1 .. longest /\ (longest - n) % 2 = 0
    BY <1>3, <2>1
  <2>3. \A n \in {1, 2} : IsTsi(ws, text, i, n)
    BY DEF IsTsi
  <2>4. QED
    BY <1>4, <2>2, <2>3
<1>7. ASSUME i < Len(text), Len(text) - i <= 2 * MaxTsiLen, Bytes(text, i, Len(text)) \in ws
      PROVE  Len(text) - i \in Lengths(ws, text, i)
  <2>1. longest = size - i /\ size - i \in 1 .. longest /\ (longest - (size - i)) % 2 = 0
        /\ i + (size - i) = size
    BY <1>1, <1>3, <1>7
  <2>2. IsTsi(ws, text, i, size - i)
    BY <1>1, <1>7, <2>1 DEF IsTsi, InDB
  <2>3. QED
    BY <1>1, <1>4, <2>1, <2>2
<1>8. QED
  BY <1>5, <1>6, <1>7

\* A word of the TsiDB of even length where single characters are looked up, too.
LEMMA WordLookedUp ==
    ASSUME NEW ws, NEW text \in Text, NEW i \in Nat, 2 \in Lengths(ws, text, i),
           NEW n \in Nat, n > 0, n % 2 = 0, n <= 2 * MaxTsiLen, i + n <= Len(text),
           Bytes(text, i, i + n) \in ws
    PROVE  n \in Lengths(ws, text, i)
<1>1. PICK size \in Nat, top \in Nat : size = Len(text) /\ top = 2 * MaxTsiLen /\ top % 2 = 0
  <2>1. Len(text) \in Nat
    BY DEF Text
  <2>2. 2 * MaxTsiLen \in Nat /\ (2 * MaxTsiLen) % 2 = 0
    BY MaxTsiLenAssumption
  <2>3. QED
    BY <2>1, <2>2
<1>2. PICK longest : longest = (IF top < size - i THEN top ELSE size - i)
  OBVIOUS
<1>3. longest \in Int /\ (longest = top \/ longest = size - i)
  BY <1>1, <1>2
<1>4. Lengths(ws, text, i) = {m \in 1 .. longest : (longest - m) % 2 = 0 /\ IsTsi(ws, text, i, m)}
  BY <1>1, <1>2 DEF Lengths, Least
<1>5. (longest - 2) % 2 = 0
  BY <1>4
<1>6. (longest - n) % 2 = 0
  BY <1>3, <1>5
<1>7. n <= longest
  BY <1>1, <1>3
<1>8. IsTsi(ws, text, i, n)
  BY DEF IsTsi, InDB
<1>9. QED
  BY <1>3, <1>4, <1>6, <1>7, <1>8

\* Words of these lengths stand in a row at offset i; a length is 0 where there is no word.
InARow(ws, text, i, n1, n2, n3) ==
    /\ n1 \in Lengths(ws, text, i)
    /\ \/ n2 = 0 /\ n3 = 0
       \/ n2 \in Lengths(ws, text, i + n1) /\ n3 = 0
       \/ n2 \in Lengths(ws, text, i + n1) /\ n3 \in Lengths(ws, text, i + n1 + n2)

\* They fit into what is left of the text.
LEMMA InARowFits ==
    ASSUME NEW ws, NEW text \in Text, NEW i \in Nat, NEW n1, NEW n2, NEW n3,
           InARow(ws, text, i, n1, n2, n3)
    PROVE  /\ n1 \in Nat /\ n2 \in Nat /\ n3 \in Nat
           /\ n1 > 0 /\ (n2 = 0 => n3 = 0) /\ i + n1 + n2 + n3 <= Len(text)
<1> DEFINE At(j) == Lengths(ws, text, j)
<1>1. \A j \in Nat : \A n \in At(j) : n \in Nat /\ n > 0 /\ j + n <= Len(text)
  BY LengthsProperties
<1>2. n1 \in At(i)
  BY DEF InARow
<1>3. CASE n2 = 0 /\ n3 = 0
  <2> HIDE DEF At
  <2>1. n1 \in Nat /\ n1 > 0 /\ i + n1 <= Len(text)
    BY <1>1, <1>2
  <2>2. QED
    BY <1>3, <2>1
<1>4. CASE n2 \in At(i + n1) /\ n3 = 0
  <2> HIDE DEF At
  <2>1. n1 \in Nat /\ n1 > 0 /\ i + n1 \in Nat
    BY <1>1, <1>2
  <2>2. n2 \in Nat /\ n2 > 0 /\ i + n1 + n2 <= Len(text)
    BY <1>1, <1>4, <2>1
  <2>3. QED
    BY <1>4, <2>1, <2>2
<1>5. CASE n2 \in At(i + n1) /\ n3 \in At(i + n1 + n2)
  <2> HIDE DEF At
  <2>1. n1 \in Nat /\ n1 > 0 /\ i + n1 \in Nat
    BY <1>1, <1>2
  <2>2. n2 \in Nat /\ n2 > 0 /\ i + n1 + n2 \in Nat
    BY <1>1, <1>5, <2>1
  <2>3. n3 \in Nat /\ i + n1 + n2 + n3 <= Len(text)
    BY <1>1, <1>5, <2>2
  <2>4. QED
    BY <2>1, <2>2, <2>3
<1>6. QED
  BY <1>3, <1>4, <1>5 DEF InARow

\* They are what WordsInARow lists.
LEMMA WordsInARowAre ==
    ASSUME NEW ws, NEW text \in Text, NEW i \in Nat
    PROVE  /\ \A w \in WordsInARow(ws, text, i) :
                \E n1, n2, n3 \in Nat :
                  w = <<n1, n2, n3>> /\ InARow(ws, text, i, n1, n2, n3)
           /\ \A n1, n2, n3 : InARow(ws, text, i, n1, n2, n3)
                => <<n1, n2, n3>> \in WordsInARow(ws, text, i)
<1> DEFINE At(j) == Lengths(ws, text, j)
           One(n1) == {<<n1, 0, 0>>}
           Two(n1) == {<<n1, n2, 0>> : n2 \in At(i + n1)}
           Last3(n1, n2) == {<<n1, n2, n3>> : n3 \in At(i + n1 + n2)}
           Three(n1) == UNION {Last3(n1, n2) : n2 \in At(i + n1)}
<1>1. WordsInARow(ws, text, i) = UNION {One(n1) \cup Two(n1) \cup Three(n1) : n1 \in At(i)}
  BY DEF WordsInARow
<1> HIDE DEF At
<1>2. ASSUME NEW w \in WordsInARow(ws, text, i)
      PROVE  \E n1, n2, n3 \in Nat : w = <<n1, n2, n3>> /\ InARow(ws, text, i, n1, n2, n3)
  <2>1. PICK n1 \in At(i) : w \in One(n1) \/ w \in Two(n1) \/ w \in Three(n1)
    <3> HIDE DEF One, Two, Three
    <3>1. QED
      BY <1>1, <1>2
  <2>2. PICK n2, n3 : w = <<n1, n2, n3>> /\ InARow(ws, text, i, n1, n2, n3)
    <3>1. CASE w \in One(n1)
      BY <2>1, <3>1 DEF InARow, At
    <3>2. CASE w \in Two(n1)
      BY <2>1, <3>2 DEF InARow, At
    <3>3. CASE w \in Three(n1)
      <4>1. PICK n2 \in At(i + n1) : w \in Last3(n1, n2)
        <5> HIDE DEF Last3
        <5>1. QED
          BY <3>3
      <4>2. PICK n3 \in At(i + n1 + n2) : w = <<n1, n2, n3>>
        BY <4>1
      <4>3. QED
        BY <2>1, <4>1, <4>2 DEF InARow, At
    <3>4. QED
      BY <2>1, <3>1, <3>2, <3>3
  <2>3. n1 \in Nat /\ n2 \in Nat /\ n3 \in Nat
    BY <2>2, InARowFits
  <2>4. QED
    BY <2>2, <2>3
<1>3. ASSUME NEW n1, NEW n2, NEW n3, InARow(ws, text, i, n1, n2, n3)
      PROVE  <<n1, n2, n3>> \in WordsInARow(ws, text, i)
  <2>1. n1 \in At(i)
    BY <1>3 DEF InARow, At
  <2>2. <<n1, n2, n3>> \in One(n1) \/ <<n1, n2, n3>> \in Two(n1) \/ <<n1, n2, n3>> \in Three(n1)
    <3>1. CASE n2 = 0 /\ n3 = 0
      BY <3>1
    <3>2. CASE n2 \in At(i + n1) /\ n3 = 0
      BY <3>2
    <3>3. CASE n2 \in At(i + n1) /\ n3 \in At(i + n1 + n2)
      <4>1. <<n1, n2, n3>> \in Last3(n1, n2)
        BY <3>3
      <4> HIDE DEF Last3
      <4>2. QED
        BY <3>3, <4>1
    <3>4. QED
      BY <1>3, <3>1, <3>2, <3>3 DEF InARow, At
  <2> HIDE DEF One, Two, Three
  <2>3. QED
    BY <1>1, <2>1, <2>2
<1>4. QED
  BY <1>2, <1>3

LEMMA SmallSets ==
    Cardinality({1}) = 1 /\ Cardinality({1, 2}) = 2 /\ Cardinality({1, 2, 3}) = 3
<1>1. IsFiniteSet({1}) /\ Cardinality({1}) = 1
  BY FS_Singleton
<1>2. {1, 2} = {1} \cup {2} /\ 2 \notin {1}
  OBVIOUS
<1>3. IsFiniteSet({1, 2}) /\ Cardinality({1, 2}) = Cardinality({1}) + 1
  BY <1>1, <1>2, FS_AddElement
<1>4. {1, 2, 3} = {1, 2} \cup {3} /\ 3 \notin {1, 2}
  OBVIOUS
<1>5. Cardinality({1, 2, 3}) = Cardinality({1, 2}) + 1
  BY <1>3, <1>4, FS_AddElement
<1>6. PICK x, y, z : x = Cardinality({1}) /\ y = Cardinality({1, 2}) /\ z = Cardinality({1, 2, 3})
  OBVIOUS
<1>7. x = 1 /\ y = 2 /\ z = 3
  <2>1. x = 1
    BY <1>1, <1>6, Zenon
  <2>2. y = x + 1
    BY <1>3, <1>6, Zenon
  <2>3. z = y + 1
    BY <1>5, <1>6, Zenon
  <2>4. QED
    BY <2>1, <2>2, <2>3
<1>8. QED
  BY <1>6, <1>7, Zenon

\* What the four rules look at.
ThreeWords(w) ==
    w[1] \in Nat /\ w[2] \in Nat /\ w[3] \in Nat /\ w[1] > 0 /\ (w[2] = 0 => w[3] = 0)

Number(w) == IF w[2] = 0 THEN 1 ELSE IF w[3] = 0 THEN 2 ELSE 3

Rated(x, w, b) ==
    /\ x.s = w /\ x.len = w[1] + w[2] + w[3] /\ x.words = Number(w)
    /\ x.smallest_var \in Nat /\ x.largest_sum \in 0 .. 3 * b

LEMMA MmsegIs ==
    ASSUME NEW text \in Text, NEW i \in Nat, NEW b \in Nat, CountsUpto(b),
           NEW w, ThreeWords(w)
    PROVE  Rated(Mmseg(text, i, w), w, b)
<1>1. w[1] \in Nat /\ w[2] \in Nat /\ w[3] \in Nat /\ w[1] > 0 /\ (w[2] = 0 => w[3] = 0)
  BY DEF ThreeWords
<1> DEFINE K == {k \in 1 .. 3 : w[k] > 0}
           v == Gap(w[2], w[3]) + Gap(w[1], w[2]) + Gap(w[1], w[3])
           a1 == IF w[1] = 2 THEN RefCount(text, i) ELSE 0
           a2 == IF w[2] = 2 THEN RefCount(text, i + w[1]) ELSE 0
           a3 == IF w[3] = 2 THEN RefCount(text, i + w[1] + w[2]) ELSE 0
<1>2. v \in Nat
  BY <1>1 DEF Gap
<1>3. a1 \in 0 .. b /\ a2 \in 0 .. b /\ a3 \in 0 .. b
  <2>1. i + w[1] \in Nat /\ i + w[1] + w[2] \in Nat /\ 0 \in 0 .. b
    BY <1>1
  <2>2. QED
    BY <2>1 DEF CountsUpto
<1>4. Cardinality(K) = Number(w)
  <2>1. Cardinality({1}) = 1 /\ Cardinality({1, 2}) = 2 /\ Cardinality({1, 2, 3}) = 3
    BY SmallSets
  <2>5. \/ w[2] = 0 /\ K = {1}
        \/ w[2] # 0 /\ w[3] = 0 /\ K = {1, 2}
        \/ w[2] # 0 /\ w[3] # 0 /\ K = {1, 2, 3}
    <3>1. ~ (0 > 0)
      OBVIOUS
    <3>2. \A k : k \in K <=> \/ k = 1
                             \/ k = 2 /\ w[2] > 0
                             \/ k = 3 /\ w[3] > 0
      BY <1>1
    <3>3. (w[2] > 0 <=> w[2] # 0) /\ (w[3] > 0 <=> w[3] # 0) /\ (w[3] > 0 => w[2] # 0)
      BY <1>1
    <3> HIDE DEF K
    <3>4. QED
      BY <3>1, <3>2, <3>3
  <2> HIDE DEF K
  <2>6. QED
    BY <2>1, <2>5 DEF Number
<1>5. Mmseg(text, i, w) = [s |-> w, len |-> w[1] + w[2] + w[3], words |-> Cardinality(K),
                           smallest_var |-> v, largest_sum |-> a1 + a2 + a3]
  BY DEF Mmseg
<1>6. a1 + a2 + a3 \in 0 .. 3 * b
  <2> HIDE DEF a1, a2, a3
  <2>1. QED
    BY <1>3
<1> HIDE DEF K, v, a1, a2, a3
<1>7. PICK x : x = Mmseg(text, i, w)
  OBVIOUS
<1>8. /\ x.s = w /\ x.len = w[1] + w[2] + w[3] /\ x.words = Cardinality(K)
      /\ x.smallest_var = v /\ x.largest_sum = a1 + a2 + a3
  BY <1>5, <1>7
<1>9. Rated(x, w, b)
  BY <1>2, <1>4, <1>6, <1>8 DEF Rated
<1>10. QED
  BY <1>7, <1>9

\* Where a bounded function is greatest, and where any function is least.
LEMMA GreatestValue ==
    ASSUME NEW S, S # {}, NEW f \in [S -> Nat], NEW b \in Nat, \A x \in S : f[x] <= b
    PROVE  \E x \in S : \A y \in S : f[y] <= f[x]
<1> DEFINE T == {f[x] : x \in S}
<1>1. T \in SUBSET (0 .. b) /\ T # {}
  OBVIOUS
<1>2. PICK g \in T : \A m \in T : m <= g
  <2> HIDE DEF T
  <2>1. QED
    BY <1>1, GreatestNumber
<1>3. QED
  BY <1>2

LEMMA LeastValue ==
    ASSUME NEW S, S # {}, NEW f \in [S -> Nat]
    PROVE  \E x \in S : \A y \in S : f[x] <= f[y]
<1> DEFINE T == {f[x] : x \in S}
<1>1. T \in SUBSET Nat /\ T # {}
  OBVIOUS
<1>2. PICK g \in T : \A m \in T : g <= m
  <2> HIDE DEF T
  <2>1. QED
    BY <1>1, LeastNumber
<1>3. QED
  BY <1>2

\* What the combinations at an offset have in common.
Comparable(x, top, sum) ==
    /\ x.len \in 0 .. top /\ x.words \in Nat /\ x.smallest_var \in Nat
    /\ x.largest_sum \in 0 .. sum /\ x.s[1] \in 0 .. top

\* No combination is better than the first of the best by the four rules.
LEMMA BestExists ==
    ASSUME NEW S, S # {}, NEW top \in Nat, NEW sum \in Nat, \A x \in S : Comparable(x, top, sum)
    PROVE  \E x \in S : \A y \in S : ~ Better(y, x)
<1>1. PICK A : A # {} /\ A = {x \in S : \A y \in S : y.len <= x.len}
  <2>1. PICK f : f = [x \in S |-> x.len]
    OBVIOUS
  <2>2. f \in [S -> Nat] /\ \A x \in S : f[x] <= top /\ f[x] = x.len
    BY <2>1 DEF Comparable
  <2>3. PICK x \in S : \A y \in S : f[y] <= f[x]
    BY <2>2, GreatestValue
  <2>4. \A y \in S : y.len <= x.len
    BY <2>2, <2>3
  <2>5. QED
    BY <2>4
<1>2. PICK B : B # {} /\ B = {x \in A : \A y \in A : x.words <= y.words}
  <2>1. PICK f : f = [x \in A |-> x.words]
    OBVIOUS
  <2>2. f \in [A -> Nat] /\ \A x \in A : f[x] = x.words
    BY <1>1, <2>1 DEF Comparable
  <2>3. PICK x \in A : \A y \in A : f[x] <= f[y]
    BY <1>1, <2>2, LeastValue
  <2>4. \A y \in A : x.words <= y.words
    BY <2>2, <2>3
  <2>5. QED
    BY <2>4
<1>3. PICK C : C # {} /\ C = {x \in B : \A y \in B : x.smallest_var <= y.smallest_var}
  <2>1. PICK f : f = [x \in B |-> x.smallest_var]
    OBVIOUS
  <2>2. f \in [B -> Nat] /\ \A x \in B : f[x] = x.smallest_var
    BY <1>1, <1>2, <2>1 DEF Comparable
  <2>3. PICK x \in B : \A y \in B : f[x] <= f[y]
    BY <1>2, <2>2, LeastValue
  <2>4. \A y \in B : x.smallest_var <= y.smallest_var
    BY <2>2, <2>3
  <2>5. QED
    BY <2>4
<1>4. PICK D : D # {} /\ D = {x \in C : \A y \in C : y.largest_sum <= x.largest_sum}
  <2>1. PICK f : f = [x \in C |-> x.largest_sum]
    OBVIOUS
  <2>2. f \in [C -> Nat] /\ \A x \in C : f[x] <= sum /\ f[x] = x.largest_sum
    BY <1>1, <1>2, <1>3, <2>1 DEF Comparable
  <2>3. PICK x \in C : \A y \in C : f[y] <= f[x]
    BY <1>3, <2>2, GreatestValue
  <2>4. \A y \in C : y.largest_sum <= x.largest_sum
    BY <2>2, <2>3
  <2>5. QED
    BY <2>4
<1>5. PICK x \in D : \A y \in D : y.s[1] <= x.s[1]
  <2>1. PICK f : f = [x \in D |-> x.s[1]]
    OBVIOUS
  <2>2. f \in [D -> Nat] /\ \A x \in D : f[x] <= top /\ f[x] = x.s[1]
    BY <1>1, <1>2, <1>3, <1>4, <2>1 DEF Comparable
  <2>3. PICK x \in D : \A y \in D : f[y] <= f[x]
    BY <1>4, <2>2, GreatestValue
  <2>4. \A y \in D : y.s[1] <= x.s[1]
    BY <2>2, <2>3
  <2>5. QED
    BY <2>4
<1>6. x \in C /\ x \in B /\ x \in A /\ x \in S
  BY <1>1, <1>2, <1>3, <1>4
<1>7. ASSUME NEW y \in S PROVE ~ Better(y, x)
  <2>1. Comparable(x, top, sum) /\ Comparable(y, top, sum)
    BY <1>6
  <2>2. y.len <= x.len
    BY <1>1, <1>6
  <2>3. y.len = x.len => y \in A /\ x.words <= y.words
    <3>1. y.len = x.len => y \in A
      BY <1>1, <1>6
    <3>2. QED
      BY <1>2, <1>6, <3>1
  <2>4. y \in A /\ y.words = x.words => y \in B /\ x.smallest_var <= y.smallest_var
    <3>1. y \in A /\ y.words = x.words => y \in B
      BY <1>2, <1>6
    <3>2. QED
      BY <1>3, <1>6, <3>1
  <2>5. y \in B /\ y.smallest_var = x.smallest_var => y \in C /\ y.largest_sum <= x.largest_sum
    <3>1. y \in B /\ y.smallest_var = x.smallest_var => y \in C
      BY <1>3, <1>6
    <3>2. QED
      BY <1>4, <1>6, <3>1
  <2>6. y \in C /\ y.largest_sum = x.largest_sum => y \in D /\ y.s[1] <= x.s[1]
    <3>1. y \in C /\ y.largest_sum = x.largest_sum => y \in D
      BY <1>4, <1>6
    <3>2. QED
      BY <1>5, <3>1
  <2>7. /\ x.len \in Nat /\ y.len \in Nat /\ x.words \in Nat /\ y.words \in Nat
        /\ x.smallest_var \in Nat /\ y.smallest_var \in Nat
        /\ x.largest_sum \in Nat /\ y.largest_sum \in Nat
        /\ x.s[1] \in Nat /\ y.s[1] \in Nat
    BY <2>1 DEF Comparable
  <2>8. QED
    BY <2>2, <2>3, <2>4, <2>5, <2>6, <2>7 DEF Better
<1>8. QED
  BY <1>6, <1>7

\* Of the words in a row at offset i these reach furthest, and of those that reach as far they
\* are the fewest.
Best(ws, text, i, n1, n2, n3) ==
    /\ InARow(ws, text, i, n1, n2, n3)
    /\ \A m1, m2, m3 : InARow(ws, text, i, m1, m2, m3) =>
         /\ m1 + m2 + m3 <= n1 + n2 + n3
         /\ m1 + m2 + m3 = n1 + n2 + n3 => Number(<<n1, n2, n3>>) <= Number(<<m1, m2, m3>>)

\* The word the complex method cuts is the first of such words.
LEMMA FirstWordBest ==
    ASSUME NEW ws, NEW text \in Text, NEW i \in Nat, i < Len(text)
    PROVE  \E n2, n3 \in Nat : Best(ws, text, i, FirstWord(ws, text, i), n2, n3)
<1>1. PICK b \in Nat : CountsUpto(b)
  BY RefCountBounded
<1> DEFINE W == WordsInARow(ws, text, i)
           S == Combinations(ws, text, i)
           rest == Len(text) - i
<1>2. Len(text) \in Nat /\ rest \in Nat /\ rest > 0
  BY DEF Text
<1>3. S = {Mmseg(text, i, w) : w \in W}
  BY DEF Combinations
<1> HIDE DEF S, W
<1>4. ASSUME NEW n1, NEW n2, NEW n3, InARow(ws, text, i, n1, n2, n3),
             NEW x, x = Mmseg(text, i, <<n1, n2, n3>>)
      PROVE  /\ x \in S /\ Comparable(x, rest, 3 * b)
             /\ x.s[1] = n1 /\ x.len = n1 + n2 + n3 /\ x.words = Number(<<n1, n2, n3>>)
  <2>1. PICK w : w = <<n1, n2, n3>>
    OBVIOUS
  <2>2. w[1] = n1 /\ w[2] = n2 /\ w[3] = n3
    BY <2>1
  <2>3. w \in W
    BY <1>4, <2>1, WordsInARowAre DEF W
  <2>4. x \in S
    BY <1>3, <1>4, <2>1, <2>3
  <2>5. /\ n1 \in Nat /\ n2 \in Nat /\ n3 \in Nat
        /\ n1 > 0 /\ (n2 = 0 => n3 = 0) /\ i + n1 + n2 + n3 <= Len(text)
    BY <1>4, InARowFits
  <2>6. ThreeWords(w)
    BY <2>2, <2>5 DEF ThreeWords
  <2>7. Rated(x, w, b)
    BY <1>1, <1>4, <2>1, <2>6, MmsegIs
  <2>8. /\ x.s[1] = n1 /\ x.len = n1 + n2 + n3 /\ x.words = Number(w)
        /\ x.smallest_var \in Nat /\ x.largest_sum \in 0 .. 3 * b
    BY <2>2, <2>7 DEF Rated
  <2>9. n1 + n2 + n3 \in 0 .. rest /\ n1 \in 0 .. rest
    BY <1>2, <2>5
  <2>10. Number(w) \in Nat
    BY DEF Number
  <2>11. Comparable(x, rest, 3 * b)
    BY <2>8, <2>9, <2>10 DEF Comparable
  <2>12. QED
    BY <2>1, <2>4, <2>8, <2>11
<1>5. ASSUME NEW x \in S
      PROVE  \E n1, n2, n3 \in Nat :
               InARow(ws, text, i, n1, n2, n3) /\ x = Mmseg(text, i, <<n1, n2, n3>>)
  <2>1. PICK w \in W : x = Mmseg(text, i, w)
    BY <1>3, <1>5
  <2>2. PICK n1, n2, n3 \in Nat : w = <<n1, n2, n3>> /\ InARow(ws, text, i, n1, n2, n3)
    BY <2>1, WordsInARowAre DEF W
  <2>3. QED
    BY <2>1, <2>2
<1>6. S # {}
  <2>1. PICK n1 : n1 \in Lengths(ws, text, i)
    BY LengthsProperties
  <2>2. InARow(ws, text, i, n1, 0, 0)
    BY <2>1 DEF InARow
  <2>3. QED
    BY <1>4, <2>2
<1> HIDE DEF rest
<1>7. \E x \in S : \A y \in S : ~ Better(y, x)
  <2>1. 3 * b \in Nat
    OBVIOUS
  <2>2. PICK sum \in Nat : sum = 3 * b
    BY <2>1
  <2>3. ASSUME NEW x \in S PROVE Comparable(x, rest, sum)
    <3>1. PICK n1, n2, n3 \in Nat :
             InARow(ws, text, i, n1, n2, n3) /\ x = Mmseg(text, i, <<n1, n2, n3>>)
      BY <1>5
    <3>2. Comparable(x, rest, 3 * b)
      BY <1>4, <3>1
    <3>3. QED
      BY <2>2, <3>2
  <2>4. QED
    BY <1>2, <1>6, <2>2, <2>3, BestExists
<1>8. PICK x : x = CHOOSE z \in S : \A y \in S : ~ Better(y, z)
  OBVIOUS
<1>9. x \in S /\ \A y \in S : ~ Better(y, x)
  BY <1>7, <1>8, Zenon
<1>10. FirstWord(ws, text, i) = x.s[1]
  BY <1>8, Zenon DEF FirstWord, S
<1>11. PICK n1, n2, n3 \in Nat :
          InARow(ws, text, i, n1, n2, n3) /\ x = Mmseg(text, i, <<n1, n2, n3>>)
  BY <1>5, <1>9
<1>12. x.s[1] = n1 /\ x.len = n1 + n2 + n3 /\ x.words = Number(<<n1, n2, n3>>)
  BY <1>4, <1>11
<1>13. ASSUME NEW m1, NEW m2, NEW m3, InARow(ws, text, i, m1, m2, m3)
       PROVE  /\ m1 + m2 + m3 <= n1 + n2 + n3
              /\ m1 + m2 + m3 = n1 + n2 + n3 => Number(<<n1, n2, n3>>) <= Number(<<m1, m2, m3>>)
  <2>1. PICK y : y = Mmseg(text, i, <<m1, m2, m3>>)
    OBVIOUS
  <2>2. y \in S /\ y.len = m1 + m2 + m3 /\ y.words = Number(<<m1, m2, m3>>)
    BY <1>13, <2>1, <1>4
  <2>3. ~ Better(y, x)
    BY <1>9, <2>2
  <2>4. ~ (y.len > x.len) /\ ~ (y.len = x.len /\ y.words < x.words)
    BY <2>3 DEF Better
  <2>5. m1 \in Nat /\ m2 \in Nat /\ m3 \in Nat
    BY <1>13, InARowFits
  <2>6. Number(<<n1, n2, n3>>) \in Nat /\ Number(<<m1, m2, m3>>) \in Nat
    BY DEF Number
  <2>7. PICK lx \in Nat, ly \in Nat : lx = n1 + n2 + n3 /\ ly = m1 + m2 + m3
    BY <2>5
  <2>8. ly <= lx
    BY <1>12, <2>2, <2>4, <2>7
  <2>9. ly = lx => Number(<<n1, n2, n3>>) <= Number(<<m1, m2, m3>>)
    BY <1>12, <2>2, <2>4, <2>6, <2>7
  <2>10. QED
    BY <2>7, <2>8, <2>9
<1>14. Best(ws, text, i, n1, n2, n3)
  BY <1>11, <1>13, Zenon DEF Best
<1>15. FirstWord(ws, text, i) = n1
  BY <1>10, <1>12
<1>16. QED
  BY <1>14, <1>15, Zenon

\* The word the complex method cuts, and the one that is all that is left.
LEMMA FirstWordIs ==
    ASSUME NEW ws, NEW text \in Text, NEW i \in Nat, i < Len(text)
    PROVE  /\ FirstWord(ws, text, i) \in Lengths(ws, text, i)
           /\ Len(text) - i \in Lengths(ws, text, i) => FirstWord(ws, text, i) = Len(text) - i
<1>1. PICK n1, n2, n3 : n1 = FirstWord(ws, text, i) /\ Best(ws, text, i, n1, n2, n3)
  BY FirstWordBest
<1>2. InARow(ws, text, i, n1, n2, n3)
  BY <1>1 DEF Best
<1>3. n1 \in Lengths(ws, text, i)
  BY <1>2 DEF InARow
<1>4. ASSUME NEW rest, rest = Len(text) - i, rest \in Lengths(ws, text, i) PROVE n1 = rest
  <2>1. InARow(ws, text, i, rest, 0, 0)
    BY <1>4 DEF InARow
  <2>2. /\ rest + 0 + 0 <= n1 + n2 + n3
        /\ rest + 0 + 0 = n1 + n2 + n3 => Number(<<n1, n2, n3>>) <= Number(<<rest, 0, 0>>)
    BY <1>1, <2>1 DEF Best
  <2>3. /\ n1 \in Nat /\ n2 \in Nat /\ n3 \in Nat
        /\ (n2 = 0 => n3 = 0) /\ i + n1 + n2 + n3 <= Len(text)
    BY <1>2, InARowFits
  <2>4. rest \in Nat /\ Len(text) \in Nat
    BY <1>4 DEF Text
  <2>5. rest = n1 + n2 + n3
    BY <1>4, <2>2, <2>3, <2>4
  <2>6. Number(<<n1, n2, n3>>) <= Number(<<rest, 0, 0>>)
    BY <2>2, <2>3, <2>4, <2>5
  <2>7. Number(<<rest, 0, 0>>) = 1
    BY DEF Number
  <2>8. n2 = 0
    BY <2>6, <2>7 DEF Number
  <2>9. QED
    BY <2>3, <2>5, <2>8
<1>5. QED
  BY <1>1, <1>3, <1>4

\* The turn, by what is left.
LEMMA ComplexCutsAre ==
    ASSUME NEW ws, NEW text \in Text, NEW i \in Nat, i < Len(text),
           NEW cuts, cuts = ComplexCuts(ws, text, i)
    PROVE  \/ Len(text) = i + 2 /\ cuts = << <<i, 2>> >>
           \/ Len(text) = i + 4 /\ IsTsi(ws, text, i, 4) /\ cuts = << <<i, 4>> >>
           \/ /\ Len(text) = i + 4 /\ ~ IsTsi(ws, text, i, 4)
              /\ cuts = << <<i, 2>>, <<i + 2, 2>> >>
           \/ cuts = << <<i, FirstWord(ws, text, i)>> >>
<1> DEFINE rest == Len(text) - i
<1>1. Len(text) \in Nat
  BY DEF Text
<1>2. CASE rest = 2
  BY <1>1, <1>2 DEF ComplexCuts
<1>3. CASE rest = 4
  BY <1>1, <1>3 DEF ComplexCuts
<1>4. CASE rest # 2 /\ rest # 4
  BY <1>4 DEF ComplexCuts
<1>5. QED
  BY <1>2, <1>3, <1>4

LEMMA ComplexTurnInv == ASSUME IInv, ComplexTurn PROVE IInv'
<1>1. /\ Segmenting /\ method = "complex" /\ done < Size
      /\ UNCHANGED <<method, words, line, q, split, c>>
  BY DEF ComplexTurn, unchangedInput
<1>2. PICK text, cuts :
         /\ text \in Text /\ text = Chunk.chunk /\ cuts = ComplexCuts(words, text, done)
         /\ AddWords(cuts) /\ done' = CutEnd(cuts)
  <2>1. Chunk.chunk \in Text
    BY <1>1, ChunkHere
  <2>2. QED
    BY <2>1 DEF ComplexTurn
<1>3. /\ text \in Text /\ Size \in Nat /\ Size = Len(text) /\ done \in Nat /\ Chunk.num_tsi \in Int
  BY <1>1, <1>2, ChunkHere DEF Size
<1>4. done < Len(text)
  BY <1>1, <1>3
<1>5. PICK n : n = FirstWord(words, text, done)
  OBVIOUS
<1>6. n \in Lengths(words, text, done)
      /\ (Len(text) - done \in Lengths(words, text, done) => n = Len(text) - done)
  BY <1>3, <1>4, <1>5, FirstWordIs
<1>7. /\ n \in Nat /\ n > 0 /\ done + n <= Len(text) /\ n <= 2 * MaxTsiLen
      /\ n > 2 => Bytes(text, done, done + n) \in words
      /\ done % 2 = 0 /\ Len(text) % 2 = 0 => n % 2 = 0
  BY <1>3, <1>6, LengthsProperties
<1>8. \/ Len(text) = done + 2 /\ cuts = << <<done, 2>> >>
      \/ Len(text) = done + 4 /\ IsTsi(words, text, done, 4) /\ cuts = << <<done, 4>> >>
      \/ /\ Len(text) = done + 4 /\ ~ IsTsi(words, text, done, 4)
         /\ cuts = << <<done, 2>>, <<done + 2, 2>> >>
      \/ cuts = << <<done, n>> >>
  BY <1>2, <1>3, <1>4, <1>5, ComplexCutsAre
\* One word of m bytes that may be cut.
<1>9. ASSUME NEW m \in Nat, cuts = << <<done, m>> >>, Chunk.num_tsi >= 0,
             m > 0, m % 2 = 0, done + m <= Size, m <= 2 * MaxTsiLen,
             m > 2 => Bytes(text, done, done + m) \in words,
             done = 0 /\ Known(text) => m = Size
      PROVE  IInv'
  <2>1. CutEnd(cuts) = done + m
    BY <1>9, CutIs
  <2>2. Len(Bytes(text, done, done + m)) = m
    BY <1>3, <1>9, WordLength
  <2>3. Proper(Bytes(text, done, done + m))
    BY <1>1, <1>9, <2>2 DEF Proper
  <2>4. AddWords(<< <<done, m>> >>) /\ done' = done + m
    BY <1>2, <1>9, <2>1
  <2>5. done = IF method = "backward" THEN Size - done - m ELSE done
    BY <1>1
  <2>6. Proper(Bytes(Chunk.chunk, done, done + m)) /\ (done = 0 /\ Known(Chunk.chunk) => m = Size)
    BY <1>2, <1>9, <2>3
  <2>7. QED
    BY <1>1, <1>3, <1>9, <2>4, <2>5, <2>6, OneWordAdded
<1>10. CASE Chunk.num_tsi < 0
  <2>1. done' \in Nat
    <3>1. \A m : CutEnd(<< <<done, m>> >>) = done + m
      BY CutIs
    <3>2. CutEnd(<< <<done, 2>>, <<done + 2, 2>> >>) = done + 2 + 2
      BY CutsAre
    <3>3. done + n \in Nat /\ done + 2 \in Nat /\ done + 4 \in Nat /\ done + 2 + 2 \in Nat
      BY <1>3, <1>7
    <3>4. QED
      BY <1>2, <1>8, <3>1, <3>2, <3>3
  <2>2. QED
    BY <1>1, <1>2, <1>10, <2>1, NoRoom
<1>11. CASE Chunk.num_tsi >= 0
  <2>1. Size % 2 = 0 /\ done % 2 = 0
    BY <1>1, <1>11, EvenRest
  <2>2. 4 <= 2 * MaxTsiLen /\ 2 <= 2 * MaxTsiLen
    BY MaxTsiLenAssumption
  <2>3. Bytes(text, 0, Len(text)) = text
    BY <1>3, BytesWhole
  <2>4. CASE Len(text) = done + 2 /\ cuts = << <<done, 2>> >>
    <3>1. done = 0 => 2 = Size
      BY <1>3, <2>4
    <3>2. QED
      BY <1>3, <1>9, <1>11, <2>2, <2>4, <3>1
  <2>5. CASE Len(text) = done + 4 /\ IsTsi(words, text, done, 4) /\ cuts = << <<done, 4>> >>
    <3>1. Bytes(text, done, done + 4) \in words
      BY <2>5 DEF IsTsi, InDB
    <3>2. done = 0 => 4 = Size
      BY <1>3, <2>5
    <3>3. QED
      BY <1>3, <1>9, <1>11, <2>2, <2>5, <3>1, <3>2
  <2>6. CASE /\ Len(text) = done + 4 /\ ~ IsTsi(words, text, done, 4)
             /\ cuts = << <<done, 2>>, <<done + 2, 2>> >>
    <3>1. done = 0 => ~ Known(Chunk.chunk)
      <4>1. SUFFICES ASSUME done = 0, Known(text) PROVE FALSE
        BY <1>2
      <4>2. Bytes(text, done, done + 4) = text
        BY <1>3, <2>3, <2>6, <4>1
      <4>3. QED
        BY <2>6, <4>1, <4>2 DEF Known, IsTsi, InDB
    <3>2. CutEnd(cuts) = done + 2 + 2
      BY <2>6, CutsAre
    <3>3. done' = done + 4 /\ done + 4 = Size
      BY <1>2, <1>3, <2>6, <3>2
    <3>4. AddWords(<< <<done, 2>>, <<done + 2, 2>> >>)
      BY <1>2, <2>6
    <3>5. QED
      BY <1>1, <1>11, <3>1, <3>3, <3>4, TwoWordsAdded
  <2>7. CASE cuts = << <<done, n>> >>
    <3>1. n % 2 = 0 /\ done + n <= Size
      BY <1>3, <1>7, <2>1
    <3>2. done = 0 /\ Known(text) => n = Size
      <4>1. SUFFICES ASSUME done = 0, Known(text) PROVE n = Size
        OBVIOUS
      <4>2. text \in words /\ Len(text) <= 2 * MaxTsiLen
        BY <1>1, <4>1 DEF Known
      <4>3. Len(text) - done = Len(text) /\ Bytes(text, done, Len(text)) \in words
        BY <1>3, <2>3, <4>1, <4>2
      <4>4. Len(text) - done \in Lengths(words, text, done)
        <5>1. Len(text) - done <= 2 * MaxTsiLen
          BY <4>2, <4>3
        <5>2. QED
          BY <1>3, <1>4, <4>3, <5>1, LengthsProperties
      <4>5. QED
        BY <1>3, <1>6, <4>3, <4>4
    <3>3. QED
      BY <1>7, <1>9, <1>11, <2>7, <3>1, <3>2
  <2>8. QED
    BY <1>8, <2>4, <2>5, <2>6, <2>7
<1>12. QED
  BY <1>3, <1>10, <1>11

LEMMA ComplexEndInv == ASSUME IInv, ComplexEnd PROVE IInv'
<1>1. /\ Segmenting /\ method = "complex" /\ done >= Size /\ NextChunk
      /\ UNCHANGED <<method, words, line, q, chunks, split, fault>>
  BY DEF ComplexEnd, unchangedInput
<1>2. Size \in Nat /\ done \in Nat
  BY <1>1, ChunkHere
<1>3. Chunk.num_tsi >= 0 => done = Size
  <2>1. ASSUME Chunk.num_tsi >= 0 PROVE done = Size
    <3>1. done <= Size
      BY <1>1, <2>1, EvenRest
    <3>2. QED
      BY <1>1, <1>2, <3>1
  <2>2. QED
    BY <2>1
<1>4. method # "backward"
  BY <1>1
<1>5. QED
  BY <1>1, <1>3, <1>4, ForwardEnd

-----------------------------------------------------------------------------
(* Runs of single characters                                               *)
(*                                                                         *)
(* Where the rules cut a single character, the next two words of the best  *)
(* combination are a combination one character on: it reaches at least as  *)
(* far as the first, and if no further, with a word less.  So a run of     *)
(* single characters that were a word would make a combination that        *)
(* reaches as far as the best with fewer words.                            *)

\* After a single character what can be cut reaches as far, and if no further, with a word less.
LEMMA AfterSingle ==
    ASSUME NEW ws, NEW text \in Text, NEW i \in Nat, i + 2 < Len(text),
           NEW b2 \in Nat, NEW b3 \in Nat, Best(ws, text, i, 2, b2, b3),
           FirstWord(ws, text, i + 2) = 2
    PROVE  \E d2, d3 \in Nat :
             /\ Best(ws, text, i + 2, 2, d2, d3)
             /\ b2 + b3 <= 2 + d2 + d3
             /\ b2 + b3 = 2 + d2 + d3 => Number(<<2, d2, d3>>) + 1 <= Number(<<2, b2, b3>>)
<1>1. PICK d2, d3 \in Nat : Best(ws, text, i + 2, 2, d2, d3)
  <2>1. i + 2 \in Nat
    OBVIOUS
  <2>2. QED
    BY <2>1, FirstWordBest
<1>2. InARow(ws, text, i, 2, b2, b3) /\ (b2 = 0 => b3 = 0)
  <2>1. InARow(ws, text, i, 2, b2, b3)
    BY DEF Best
  <2>2. QED
    BY <2>1, InARowFits
<1>3. CASE b2 = 0
  BY <1>1, <1>2, <1>3
<1>4. CASE b2 # 0
  <2>1. InARow(ws, text, i + 2, b2, b3, 0)
    BY <1>2, <1>4 DEF InARow
  <2>2. /\ b2 + b3 + 0 <= 2 + d2 + d3
        /\ b2 + b3 + 0 = 2 + d2 + d3 => Number(<<2, d2, d3>>) <= Number(<<b2, b3, 0>>)
    BY <1>1, <2>1 DEF Best
  <2>3. Number(<<2, b2, b3>>) = Number(<<b2, b3, 0>>) + 1
    BY <1>4 DEF Number
  <2>4. \A w : Number(w) \in Nat
    BY DEF Number
  <2>5. PICK x \in Nat, y \in Nat, z \in Nat :
           x = Number(<<2, d2, d3>>) /\ y = Number(<<b2, b3, 0>>) /\ z = Number(<<2, b2, b3>>)
    BY <2>4
  <2>6. b2 + b3 <= 2 + d2 + d3 /\ (b2 + b3 = 2 + d2 + d3 => x + 1 <= z)
    BY <2>2, <2>3, <2>5
  <2>7. QED
    BY <1>1, <2>5, <2>6
<1>5. QED
  BY <1>3, <1>4

\* After a run of single characters, with a word less for every one of them.
LEMMA AfterSingles ==
    ASSUME NEW ws, NEW text \in Text, NEW i \in Nat, NEW b2 \in Nat, NEW b3 \in Nat,
           Best(ws, text, i, 2, b2, b3),
           NEW m \in Nat,
           \A j \in 0 .. m : i + 2 * j < Len(text) /\ FirstWord(ws, text, i + 2 * j) = 2
    PROVE  \E d2, d3 \in Nat :
             /\ Best(ws, text, i + 2 * m, 2, d2, d3)
             /\ b2 + b3 <= 2 * m + d2 + d3
             /\ b2 + b3 = 2 * m + d2 + d3 => Number(<<2, d2, d3>>) + m <= Number(<<2, b2, b3>>)
<1> DEFINE After(n, d2, d3) ==
             /\ Best(ws, text, i + 2 * n, 2, d2, d3)
             /\ b2 + b3 <= 2 * n + d2 + d3
             /\ b2 + b3 = 2 * n + d2 + d3 => Number(<<2, d2, d3>>) + n <= Number(<<2, b2, b3>>)
           Reached(n) == \E d2, d3 \in Nat : After(n, d2, d3)
           T == {n \in Nat : n <= m => Reached(n)}
<1>1. 0 \in T
  <2>1. i + 2 * 0 = i
    OBVIOUS
  <2>2. PICK x \in Nat : x = Number(<<2, b2, b3>>)
    BY DEF Number
  <2>3. After(0, b2, b3)
    BY <2>1, <2>2
  <2> HIDE DEF After
  <2>4. Reached(0)
    BY <2>3
  <2> HIDE DEF Reached
  <2>5. QED
    BY <2>4
<1> HIDE DEF Reached
<1>2. ASSUME NEW n \in T PROVE n + 1 \in T
  <2>1. SUFFICES ASSUME n + 1 <= m PROVE Reached(n + 1)
    BY <1>2
  <2>2. n \in Nat /\ n <= m
    BY <2>1
  <2>3. PICK d2, d3 \in Nat : After(n, d2, d3)
    <3>1. Reached(n)
      BY <2>2
    <3> HIDE DEF After
    <3>2. QED
      BY <3>1 DEF Reached
  <2>4. PICK p \in Nat : p = i + 2 * n
    BY <2>2
  <2>5. n + 1 \in 0 .. m /\ i + 2 * (n + 1) = p + 2
    BY <2>1, <2>2, <2>4
  <2>6. p + 2 < Len(text) /\ FirstWord(ws, text, p + 2) = 2
    BY <2>5
  <2>7. PICK g2, g3 \in Nat :
           /\ Best(ws, text, p + 2, 2, g2, g3)
           /\ d2 + d3 <= 2 + g2 + g3
           /\ d2 + d3 = 2 + g2 + g3 => Number(<<2, g2, g3>>) + 1 <= Number(<<2, d2, d3>>)
    BY <2>3, <2>4, <2>6, AfterSingle
  <2>8. PICK x \in Nat, y \in Nat, z \in Nat :
           x = Number(<<2, g2, g3>>) /\ y = Number(<<2, d2, d3>>) /\ z = Number(<<2, b2, b3>>)
    BY DEF Number
  <2>9. /\ b2 + b3 <= 2 * n + d2 + d3
        /\ b2 + b3 = 2 * n + d2 + d3 => y + n <= z
    BY <2>3, <2>8
  <2>10. d2 + d3 <= 2 + g2 + g3 /\ (d2 + d3 = 2 + g2 + g3 => x + 1 <= y)
    BY <2>7, <2>8
  <2>11. /\ b2 + b3 <= 2 * (n + 1) + g2 + g3
         /\ b2 + b3 = 2 * (n + 1) + g2 + g3 => x + (n + 1) <= z
    BY <2>2, <2>9, <2>10
  <2>12. After(n + 1, g2, g3)
    BY <2>5, <2>7, <2>8, <2>11
  <2> HIDE DEF After
  <2>13. QED
    BY <2>12 DEF Reached
<1>3. T = Nat
  <2>1. T \in SUBSET Nat
    OBVIOUS
  <2> HIDE DEF T
  <2>2. QED
    BY <1>1, <1>2, <2>1, Induction
<1>4. Reached(m)
  BY <1>3
<1>5. QED
  BY <1>4 DEF Reached

\* A run of single characters is no word, unless it is longer than any that is looked up.
LEMMA RunIsNoWord ==
    ASSUME NEW ws, NEW text \in Text, NEW i \in Nat, NEW n \in 2 .. MaxTsiLen,
           i + 2 * n <= Len(text),
           \A j \in 0 .. n - 1 : FirstWord(ws, text, i + 2 * j) = 2
    PROVE  Bytes(text, i, i + 2 * n) \notin ws
<1>1. SUFFICES ASSUME Bytes(text, i, i + 2 * n) \in ws PROVE FALSE
  OBVIOUS
<1>2. Len(text) \in Nat /\ MaxTsiLen \in Nat
  BY MaxTsiLenAssumption DEF Text
<1>3. PICK m \in Nat : m + 1 = n /\ m > 0
  <2>1. n - 1 \in Nat /\ (n - 1) + 1 = n /\ n - 1 > 0
    BY <1>2
  <2>2. QED
    BY <2>1
<1>4. \A j \in 0 .. m : i + 2 * j < Len(text) /\ FirstWord(ws, text, i + 2 * j) = 2
  <2>1. 0 .. m = 0 .. n - 1
    BY <1>3
  <2>2. \A j \in 0 .. m : i + 2 * j < Len(text)
    BY <1>2, <1>3
  <2>3. QED
    BY <2>1, <2>2
<1>5. FirstWord(ws, text, i) = 2 /\ i < Len(text)
  <2>1. 0 \in 0 .. m /\ i + 2 * 0 = i
    OBVIOUS
  <2>2. QED
    BY <1>4, <2>1
<1>6. PICK b2, b3 \in Nat : Best(ws, text, i, 2, b2, b3)
  BY <1>5, FirstWordBest
<1>7. PICK d2, d3 \in Nat :
         /\ Best(ws, text, i + 2 * m, 2, d2, d3)
         /\ b2 + b3 <= 2 * m + d2 + d3
         /\ b2 + b3 = 2 * m + d2 + d3 => Number(<<2, d2, d3>>) + m <= Number(<<2, b2, b3>>)
  BY <1>4, <1>6, AfterSingles
<1>8. 2 * n \in Lengths(ws, text, i)
  <2>1. 2 \in Lengths(ws, text, i)
    BY <1>6 DEF Best, InARow
  <2>2. PICK k \in Nat : k = 2 * n /\ k > 0 /\ k % 2 = 0 /\ k <= 2 * MaxTsiLen
    <3>1. 2 * n \in Nat /\ 2 * n > 0 /\ (2 * n) % 2 = 0 /\ 2 * n <= 2 * MaxTsiLen
      BY <1>2
    <3>2. QED
      BY <3>1
  <2>3. QED
    BY <1>1, <2>1, <2>2, WordLookedUp
<1>9. InARow(ws, text, i, 2 * n, d2, d3)
  <2>1. InARow(ws, text, i + 2 * m, 2, d2, d3)
    BY <1>7 DEF Best
  <2>2. i + 2 * m + 2 = i + 2 * n /\ i + 2 * m + 2 + d2 = i + 2 * n + d2
    BY <1>3
  <2>3. QED
    BY <1>8, <2>1, <2>2 DEF InARow
<1>10. /\ 2 * n + d2 + d3 <= 2 + b2 + b3
       /\ 2 * n + d2 + d3 = 2 + b2 + b3 => Number(<<2, b2, b3>>) <= Number(<<2 * n, d2, d3>>)
  BY <1>6, <1>9 DEF Best
<1>11. b2 + b3 = 2 * m + d2 + d3 /\ 2 * n + d2 + d3 = 2 + b2 + b3
  BY <1>3, <1>7, <1>10
<1>12. Number(<<2 * n, d2, d3>>) = Number(<<2, d2, d3>>)
  BY DEF Number
<1>13. PICK x \in Nat, y \in Nat : x = Number(<<2, d2, d3>>) /\ y = Number(<<2, b2, b3>>)
  BY DEF Number
<1>14. x + m <= y /\ y <= x
  BY <1>7, <1>10, <1>11, <1>12, <1>13
<1>15. QED
  BY <1>3, <1>14

\* The words of s stand in the text one behind the other from offset i, the k-th of them at
\* offset o[k]; a single character is what the rules cut there.
Placed(ws, text, s, o, i) ==
    /\ s \in Seq(Text)
    /\ o \in [1 .. Len(s) + 1 -> Nat] /\ o[1] = i
    /\ \A k \in 1 .. Len(s) :
         /\ o[k + 1] = o[k] + Len(s[k]) /\ o[k + 1] <= Len(text)
         /\ s[k] = Bytes(text, o[k], o[k + 1])
         /\ Len(s[k]) = 2 => FirstWord(ws, text, o[k]) = 2

\* They end at offset e.
PlacedTo(ws, text, s, i, e) == \E o : Placed(ws, text, s, o, i) /\ o[Len(s) + 1] = e

\* One word.
LEMMA OnePlaced ==
    ASSUME NEW ws, NEW text \in Text, NEW i \in Nat, NEW n \in Nat, i + n <= Len(text),
           n = 2 => FirstWord(ws, text, i) = 2
    PROVE  PlacedTo(ws, text, <<Bytes(text, i, i + n)>>, i, i + n)
<1>1. PICK w : w = Bytes(text, i, i + n)
  OBVIOUS
<1>2. w \in Text /\ Len(w) = n
  BY <1>1, WordLength
<1>3. PICK s : s = <<w>>
  OBVIOUS
<1>4. s \in Seq(Text) /\ Len(s) = 1 /\ s[1] = w
  BY <1>2, <1>3
<1>5. PICK o : o = [k \in 1 .. 2 |-> IF k = 1 THEN i ELSE i + n]
  OBVIOUS
<1>6. o \in [1 .. Len(s) + 1 -> Nat] /\ o[1] = i /\ o[2] = i + n
  BY <1>4, <1>5
<1>7. ASSUME NEW k \in 1 .. Len(s)
      PROVE  /\ o[k + 1] = o[k] + Len(s[k]) /\ o[k + 1] <= Len(text)
             /\ s[k] = Bytes(text, o[k], o[k + 1])
             /\ Len(s[k]) = 2 => FirstWord(ws, text, o[k]) = 2
  <2>1. k = 1 /\ k + 1 = 2
    BY <1>4
  <2>2. QED
    BY <1>1, <1>2, <1>4, <1>6, <2>1
<1>8. Placed(ws, text, s, o, i) /\ o[Len(s) + 1] = i + n
  BY <1>4, <1>6, <1>7 DEF Placed
<1>9. QED
  BY <1>1, <1>3, <1>8 DEF PlacedTo

\* The words of r go on where those of s end.
LEMMA PlacedJoin ==
    ASSUME NEW ws, NEW text \in Text, NEW s, NEW r, NEW i, NEW e, NEW d,
           PlacedTo(ws, text, s, i, e), PlacedTo(ws, text, r, e, d)
    PROVE  PlacedTo(ws, text, s \o r, i, d)
<1>1. PICK o, p :
         /\ Placed(ws, text, s, o, i) /\ o[Len(s) + 1] = e
         /\ Placed(ws, text, r, p, e) /\ p[Len(r) + 1] = d
  BY DEF PlacedTo
<1>2. s \in Seq(Text) /\ r \in Seq(Text)
  BY <1>1 DEF Placed
<1>3. PICK m \in Nat, n \in Nat : m = Len(s) /\ n = Len(r)
  BY <1>2
<1>4. PICK t : t = s \o r
  OBVIOUS
<1>5. /\ t \in Seq(Text) /\ Len(t) = m + n
      /\ \A k \in 1 .. m : t[k] = s[k]
      /\ \A k \in 1 .. n : t[m + k] = r[k]
  BY <1>2, <1>3, <1>4
<1>6. /\ o \in [1 .. m + 1 -> Nat] /\ o[1] = i
      /\ \A k \in 1 .. m : /\ o[k + 1] = o[k] + Len(s[k]) /\ o[k + 1] <= Len(text)
                           /\ s[k] = Bytes(text, o[k], o[k + 1])
                           /\ Len(s[k]) = 2 => FirstWord(ws, text, o[k]) = 2
  BY <1>1, <1>3 DEF Placed
<1>7. /\ p \in [1 .. n + 1 -> Nat] /\ p[1] = o[m + 1]
      /\ \A k \in 1 .. n : /\ p[k + 1] = p[k] + Len(r[k]) /\ p[k + 1] <= Len(text)
                           /\ r[k] = Bytes(text, p[k], p[k + 1])
                           /\ Len(r[k]) = 2 => FirstWord(ws, text, p[k]) = 2
  BY <1>1, <1>3 DEF Placed
<1>8. PICK z : z = [k \in 1 .. m + n + 1 |-> IF k <= m THEN o[k] ELSE p[k - m]]
  OBVIOUS
<1>9. \A k \in 1 .. m + 1 : z[k] = o[k]
  <2>1. SUFFICES ASSUME NEW k \in 1 .. m + 1 PROVE z[k] = o[k]
    OBVIOUS
  <2>2. CASE k <= m
    BY <1>8, <2>2
  <2>3. CASE ~ (k <= m)
    <3>1. k = m + 1 /\ k - m = 1
      BY <2>3
    <3>2. QED
      BY <1>7, <1>8, <2>3, <3>1
  <2>4. QED
    BY <2>2, <2>3
<1>20. \A k \in 1 .. n + 1 : z[m + k] = p[k]
  <2>1. SUFFICES ASSUME NEW k \in 1 .. n + 1 PROVE z[m + k] = p[k]
    OBVIOUS
  <2>2. m + k \in 1 .. m + n + 1 /\ ~ (m + k <= m) /\ (m + k) - m = k
    OBVIOUS
  <2>3. QED
    BY <1>8, <2>2
<1>21. z \in [1 .. m + n + 1 -> Nat] /\ z[1] = i
  <2>1. ASSUME NEW k \in 1 .. m + n + 1
        PROVE  (IF k <= m THEN o[k] ELSE p[k - m]) \in Nat
    <3>1. CASE k <= m
      BY <1>6, <3>1
    <3>2. CASE ~ (k <= m)
      <4>1. k - m \in 1 .. n + 1
        BY <3>2
      <4>2. QED
        BY <1>7, <3>2, <4>1
    <3>3. QED
      BY <3>1, <3>2
  <2>2. 1 \in 1 .. m + 1
    OBVIOUS
  <2>3. QED
    BY <1>6, <1>8, <1>9, <2>1, <2>2
<1>22. ASSUME NEW k \in 1 .. m + n
       PROVE  /\ z[k + 1] = z[k] + Len(t[k]) /\ z[k + 1] <= Len(text)
              /\ t[k] = Bytes(text, z[k], z[k + 1])
              /\ Len(t[k]) = 2 => FirstWord(ws, text, z[k]) = 2
  <2>1. CASE k \in 1 .. m
    <3>1. k \in 1 .. m + 1 /\ k + 1 \in 1 .. m + 1
      BY <2>1
    <3>2. z[k] = o[k] /\ z[k + 1] = o[k + 1] /\ t[k] = s[k]
      BY <1>5, <1>9, <2>1, <3>1
    <3>3. QED
      BY <1>6, <2>1, <3>2
  <2>2. CASE k \notin 1 .. m
    <3>1. PICK j \in 1 .. n : k = m + j
      <4>1. k - m \in 1 .. n /\ k = m + (k - m)
        BY <2>2
      <4>2. QED
        BY <4>1
    <3>2. j \in 1 .. n + 1 /\ j + 1 \in 1 .. n + 1 /\ k + 1 = m + (j + 1)
      BY <3>1
    <3>3. z[k] = p[j] /\ z[k + 1] = p[j + 1] /\ t[k] = r[j]
      BY <1>5, <1>20, <3>1, <3>2
    <3>4. QED
      BY <1>7, <3>1, <3>3
  <2>3. QED
    BY <2>1, <2>2
<1>23. Placed(ws, text, t, z, i)
  BY <1>5, <1>21, <1>22 DEF Placed
<1>24. z[Len(t) + 1] = p[n + 1]
  <2>1. n + 1 \in 1 .. n + 1 /\ m + (n + 1) = Len(t) + 1
    BY <1>5
  <2>2. QED
    BY <1>20, <2>1
<1>25. p[n + 1] = d
  BY <1>1, <1>3
<1>26. QED
  BY <1>4, <1>23, <1>24, <1>25 DEF PlacedTo

LEMMA TwoSingles ==
    ASSUME NEW S, NEW v \in S, NEW w \in S
    PROVE  <<v>> \o <<w>> = <<v, w>>
<1>1. PICK s, r, t : s = <<v>> /\ r = <<w>> /\ t = <<v, w>>
  OBVIOUS
<1>2. /\ s \in Seq(S) /\ Len(s) = 1 /\ s[1] = v
      /\ r \in Seq(S) /\ Len(r) = 1 /\ r[1] = w
      /\ t \in Seq(S) /\ Len(t) = 2 /\ t[1] = v /\ t[2] = w
  BY <1>1
<1>3. s \o r \in Seq(S) /\ Len(s \o r) = 2 /\ (s \o r)[1] = v /\ (s \o r)[2] = w
  <2>1. s \o r \in Seq(S) /\ Len(s \o r) = Len(s) + Len(r)
    BY <1>2, ConcatProperties
  <2>2. Len(s \o r) = 2
    BY <1>2, <2>1
  <2>3. \A i \in 1 .. 2 : (s \o r)[i] = IF i <= 1 THEN s[i] ELSE r[i - 1]
    BY <1>2, ConcatProperties
  <2>4. QED
    BY <1>2, <2>1, <2>2, <2>3
<1>4. \A k \in 1 .. Len(t) : t[k] = (s \o r)[k]
  BY <1>2, <1>3
<1>5. t = s \o r
  BY <1>2, <1>3, <1>4, SeqEqual
<1>6. QED
  BY <1>1, <1>5

\* The words a turn cuts, two single characters behind one another included.
LEMMA CutsPlaced ==
    ASSUME NEW ws, NEW text \in Text, NEW i \in Nat, i < Len(text),
           NEW cuts, cuts = ComplexCuts(ws, text, i)
    PROVE  /\ PlacedTo(ws, text, CutWords(text, cuts), i, CutEnd(cuts))
           /\ CutEnd(cuts) \in Nat /\ CutEnd(cuts) > i /\ CutEnd(cuts) <= Len(text)
<1>1. Len(text) \in Nat
  BY DEF Text
\* One word of n bytes.
<1>2. ASSUME NEW n \in Nat, n > 0, i + n <= Len(text), n = 2 => FirstWord(ws, text, i) = 2,
             cuts = << <<i, n>> >>
      PROVE  /\ PlacedTo(ws, text, CutWords(text, cuts), i, CutEnd(cuts))
             /\ CutEnd(cuts) \in Nat /\ CutEnd(cuts) > i /\ CutEnd(cuts) <= Len(text)
  <2>1. CutWords(text, cuts) = <<Bytes(text, i, i + n)>> /\ CutEnd(cuts) = i + n
    BY <1>2, CutIs
  <2>2. PlacedTo(ws, text, <<Bytes(text, i, i + n)>>, i, i + n)
    BY <1>2, OnePlaced
  <2>3. i + n \in Nat /\ i + n > i
    BY <1>2
  <2>4. QED
    BY <1>2, <2>1, <2>2, <2>3
\* The last two bytes of the text are the only word there.
<1>3. ASSUME NEW j \in Nat, Len(text) = j + 2 PROVE FirstWord(ws, text, j) = 2
  <2>1. FirstWord(ws, text, j) \in Lengths(ws, text, j)
        /\ (Len(text) - j \in Lengths(ws, text, j) => FirstWord(ws, text, j) = Len(text) - j)
    BY <1>3, FirstWordIs
  <2>2. Len(text) - j = 2 /\ Least(2 * MaxTsiLen, 2) = 2
    BY <1>3, MaxTsiLenAssumption DEF Least
  <2>3. 2 \in Lengths(ws, text, j)
    <3>1. 2 \in 1 .. 2 /\ (2 - 2) % 2 = 0 /\ IsTsi(ws, text, j, 2)
      BY DEF IsTsi
    <3>2. Lengths(ws, text, j) = {n \in 1 .. 2 : (2 - n) % 2 = 0 /\ IsTsi(ws, text, j, n)}
      BY <2>2 DEF Lengths
    <3>3. QED
      BY <3>1, <3>2
  <2>4. QED
    BY <2>1, <2>2, <2>3
<1>4. CASE Len(text) = i + 2 /\ cuts = << <<i, 2>> >>
  BY <1>1, <1>2, <1>3, <1>4
<1>5. CASE Len(text) = i + 4 /\ IsTsi(ws, text, i, 4) /\ cuts = << <<i, 4>> >>
  BY <1>1, <1>2, <1>5
<1>6. CASE /\ Len(text) = i + 4 /\ ~ IsTsi(ws, text, i, 4)
           /\ cuts = << <<i, 2>>, <<i + 2, 2>> >>
  <2>1. FirstWord(ws, text, i) = 2
    <3>1. PICK n : n = FirstWord(ws, text, i)
      OBVIOUS
    <3>2. n \in Lengths(ws, text, i)
      BY <3>1, FirstWordIs
    <3>3. Len(text) - i = 4 /\ Least(2 * MaxTsiLen, 4) = 4
      BY <1>6, MaxTsiLenAssumption DEF Least
    <3>4. n \in 1 .. 4 /\ (4 - n) % 2 = 0 /\ IsTsi(ws, text, i, n)
      BY <3>2, <3>3 DEF Lengths
    <3>5. n # 4
      BY <1>6, <3>4
    <3>6. QED
      BY <3>1, <3>4, <3>5
  <2>2. FirstWord(ws, text, i + 2) = 2
    BY <1>3, <1>6
  <2>3. /\ CutWords(text, cuts) = <<Bytes(text, i, i + 2), Bytes(text, i + 2, i + 2 + 2)>>
        /\ CutEnd(cuts) = i + 2 + 2
    BY <1>6, CutsAre
  <2>4. 2 \in Nat /\ i + 2 \in Nat /\ i + 2 <= Len(text) /\ (i + 2) + 2 <= Len(text)
    BY <1>6
  <2>5. PICK v, w : v = Bytes(text, i, i + 2) /\ w = Bytes(text, i + 2, i + 2 + 2)
    OBVIOUS
  <2>6. v \in Text /\ w \in Text
    BY <2>4, <2>5, WordLength
  <2>7. PlacedTo(ws, text, <<v>>, i, i + 2)
    BY <2>1, <2>4, <2>5, OnePlaced
  <2>8. PlacedTo(ws, text, <<w>>, i + 2, i + 2 + 2)
    BY <2>2, <2>4, <2>5, OnePlaced
  <2>9. PlacedTo(ws, text, <<v, w>>, i, i + 2 + 2)
    <3>1. PlacedTo(ws, text, <<v>> \o <<w>>, i, i + 2 + 2)
      BY <2>7, <2>8, PlacedJoin
    <3>2. QED
      BY <2>6, <3>1, TwoSingles, Zenon
  <2>10. i + 2 + 2 \in Nat /\ i + 2 + 2 > i /\ i + 2 + 2 <= Len(text)
    BY <1>6
  <2>11. QED
    BY <2>3, <2>5, <2>9, <2>10
<1>7. CASE cuts = << <<i, FirstWord(ws, text, i)>> >>
  <2>1. FirstWord(ws, text, i) \in Lengths(ws, text, i)
    BY FirstWordIs
  <2>2. PICK n : n = FirstWord(ws, text, i)
    OBVIOUS
  <2>3. n \in Nat /\ n > 0 /\ i + n <= Len(text)
    BY <2>1, <2>2, LengthsProperties
  <2>4. QED
    BY <1>2, <1>7, <2>2, <2>3
<1>8. QED
  BY <1>4, <1>5, <1>6, <1>7, ComplexCutsAre

-----------------------------------------------------------------------------
(* All the turns *)

\* What the turn at offset i makes of the words f of the offsets behind it.
WordsFrom(ws, text, f, i) ==
    IF i >= Len(text) THEN <<>>
    ELSE LET cuts == ComplexCuts(ws, text, i) IN CutWords(text, cuts) \o f[CutEnd(cuts)]

\* Only the offsets behind i matter.
LEMMA WordsFromLater ==
    ASSUME NEW ws, NEW text \in Text, NEW i \in Nat, NEW g, NEW h,
           \A e \in Nat : e > i => g[e] = h[e]
    PROVE  WordsFrom(ws, text, g, i) = WordsFrom(ws, text, h, i)
<1>1. CASE i >= Len(text)
  BY <1>1 DEF WordsFrom
<1>2. CASE ~ (i >= Len(text))
  <2>1. Len(text) \in Nat
    BY DEF Text
  <2>2. i < Len(text)
    BY <1>2, <2>1
  <2>3. PICK cuts : cuts = ComplexCuts(ws, text, i)
    OBVIOUS
  <2>4. CutEnd(cuts) \in Nat /\ CutEnd(cuts) > i
    BY <2>2, <2>3, CutsPlaced
  <2>5. g[CutEnd(cuts)] = h[CutEnd(cuts)]
    BY <2>4
  <2>6. QED
    BY <1>2, <2>3, <2>5, Zenon DEF WordsFrom
<1>3. QED
  BY <1>1, <1>2

\* The turns end: every offset has its words.
LEMMA TurnsEnd ==
    ASSUME NEW ws, NEW text \in Text
    PROVE  \E f : f = [i \in Nat |-> WordsFrom(ws, text, f, i)]
<1>1. Len(text) \in Nat
  BY DEF Text
<1> DEFINE Right(g, n) == /\ g = [i \in Nat |-> g[i]]
                          /\ \A i \in Nat : i + n >= Len(text) =>
                                              g[i] = WordsFrom(ws, text, g, i)
           T == {n \in Nat : \E g : Right(g, n)}
<1>2. 0 \in T
  <2>1. PICK g : g = [i \in Nat |-> <<>>]
    OBVIOUS
  <2>2. ASSUME NEW i \in Nat, i + 0 >= Len(text) PROVE g[i] = WordsFrom(ws, text, g, i)
    BY <1>1, <2>1, <2>2 DEF WordsFrom
  <2>3. g = [i \in Nat |-> g[i]]
    BY <2>1
  <2>4. Right(g, 0)
    BY <2>2, <2>3
  <2> HIDE DEF Right
  <2>5. QED
    BY <2>4
<1>3. ASSUME NEW n \in T PROVE n + 1 \in T
  <2>1. n \in Nat
    OBVIOUS
  <2>2. PICK g : Right(g, n)
    OBVIOUS
  <2>3. PICK h : h = [i \in Nat |-> IF i + (n + 1) = Len(text)
                                      THEN WordsFrom(ws, text, g, i) ELSE g[i]]
    OBVIOUS
  <2>4. ASSUME NEW i \in Nat, i + (n + 1) >= Len(text)
        PROVE  h[i] = WordsFrom(ws, text, h, i)
    <3>1. \A e \in Nat : e > i => e + (n + 1) # Len(text)
      BY <1>1, <2>1, <2>4
    <3>2. \A e \in Nat : e > i => h[e] = g[e]
      BY <2>3, <3>1
    <3>3. WordsFrom(ws, text, h, i) = WordsFrom(ws, text, g, i)
      BY <3>2, WordsFromLater
    <3>4. CASE i + (n + 1) = Len(text)
      BY <2>3, <3>3, <3>4
    <3>5. CASE i + (n + 1) # Len(text)
      <4>1. i + n >= Len(text)
        BY <1>1, <2>1, <2>4, <3>5
      <4>2. g[i] = WordsFrom(ws, text, g, i)
        BY <2>2, <4>1
      <4>3. QED
        BY <2>3, <3>3, <3>5, <4>2
    <3>6. QED
      BY <3>4, <3>5
  <2>5. h = [i \in Nat |-> h[i]]
    BY <2>3
  <2>6. Right(h, n + 1)
    BY <2>4, <2>5
  <2> HIDE DEF Right
  <2>7. QED
    BY <2>1, <2>6
<1>4. T = Nat
  <2>1. T \in SUBSET Nat
    OBVIOUS
  <2> HIDE DEF T
  <2>2. QED
    BY <1>2, <1>3, <2>1, Induction
<1>5. PICK f : Right(f, Len(text))
  BY <1>1, <1>4
<1>6. \A i \in Nat : f[i] = WordsFrom(ws, text, f, i)
  BY <1>1, <1>5
<1>7. f = [i \in Nat |-> f[i]]
  BY <1>5
<1>8. f = [i \in Nat |-> WordsFrom(ws, text, f, i)]
  <2>1. [i \in Nat |-> f[i]] = [i \in Nat |-> WordsFrom(ws, text, f, i)]
    BY <1>6
  <2>2. QED
    BY <1>7, <2>1, Zenon
<1>9. QED
  BY <1>8

\* The words of a chunk stand in it one behind the other, and a single character only where the
\* rules cut it.
LEMMA ComplexWordsPlaced ==
    ASSUME NEW ws, NEW text \in Text
    PROVE  \E o : Placed(ws, text, ComplexWords(ws, text), o, 0)
<1>1. Len(text) \in Nat
  BY DEF Text
<1> DEFINE f == CHOOSE g : g = [i \in Nat |-> WordsFrom(ws, text, g, i)]
<1>2. f = [i \in Nat |-> WordsFrom(ws, text, f, i)]
  BY TurnsEnd
<1>3. ComplexWords(ws, text) = f[0]
  BY Zenon DEF ComplexWords, WordsFrom
<1> HIDE DEF f
<1>4. \A i \in Nat : f[i] = WordsFrom(ws, text, f, i)
  BY <1>2
<1> DEFINE There(i) == \E e : PlacedTo(ws, text, f[i], i, e)
           T == {n \in Nat : \A i \in Nat :
                               i <= Len(text) /\ i + n >= Len(text) => There(i)}
<1>5. 0 \in T
  <2>1. SUFFICES ASSUME NEW i \in Nat, i <= Len(text), i + 0 >= Len(text) PROVE There(i)
    OBVIOUS
  <2>2. f[i] = <<>>
    BY <1>1, <1>4, <2>1 DEF WordsFrom
  <2>3. PICK s : s = <<>>
    OBVIOUS
  <2>4. s \in Seq(Text) /\ Len(s) = 0
    BY <2>3
  <2>5. PICK o : o = [k \in 1 .. 1 |-> i]
    OBVIOUS
  <2>6. o \in [1 .. Len(s) + 1 -> Nat] /\ o[1] = i
    BY <2>4, <2>5
  <2>7. \A k \in 1 .. Len(s) : FALSE
    BY <2>4
  <2>8. Placed(ws, text, s, o, i)
    BY <2>4, <2>6, <2>7 DEF Placed
  <2>9. PlacedTo(ws, text, f[i], i, o[Len(s) + 1])
    BY <2>2, <2>3, <2>8 DEF PlacedTo
  <2>10. QED
    BY <2>9
<1>6. ASSUME NEW n \in Nat, n \in T PROVE n + 1 \in T
  <2>1. \A i \in Nat : i <= Len(text) /\ i + n >= Len(text) => There(i)
    BY <1>6
  <2>2. SUFFICES ASSUME NEW i \in Nat, i <= Len(text), i + (n + 1) >= Len(text)
                 PROVE  There(i)
    OBVIOUS
  <2>3. CASE i + n >= Len(text)
    BY <2>1, <2>2, <2>3
  <2>4. CASE ~ (i + n >= Len(text))
    <3>1. i < Len(text)
      BY <1>1, <2>2, <2>4
    <3>2. PICK cuts : cuts = ComplexCuts(ws, text, i)
      OBVIOUS
    <3>3. PICK e : e = CutEnd(cuts)
      OBVIOUS
    <3>4. e \in Nat /\ e > i /\ e <= Len(text)
      BY <3>1, <3>2, <3>3, CutsPlaced
    <3>5. e + n >= Len(text)
      BY <1>1, <2>2, <3>4, <2>4
    <3>6. PICK d : PlacedTo(ws, text, f[e], e, d)
      BY <2>1, <3>4, <3>5
    <3>7. PICK s, r : s = CutWords(text, cuts) /\ r = f[e]
      OBVIOUS
    <3>8. PlacedTo(ws, text, s, i, e)
      BY <3>1, <3>2, <3>3, <3>7, CutsPlaced
    <3>9. PlacedTo(ws, text, r, e, d)
      BY <3>6, <3>7
    <3>10. PlacedTo(ws, text, s \o r, i, d)
      BY <3>8, <3>9, PlacedJoin
    <3>11. f[i] = s \o r
      <4>1. ~ (i >= Len(text))
        BY <1>1, <3>1
      <4>2. QED
        <5>1. f[i] = WordsFrom(ws, text, f, i)
          BY <1>4
        <5>2. WordsFrom(ws, text, f, i) = CutWords(text, cuts) \o f[CutEnd(cuts)]
          BY <3>2, <4>1, Zenon DEF WordsFrom
        <5>3. QED
          BY <3>3, <3>7, <5>1, <5>2, Zenon
    <3>12. QED
      BY <3>10, <3>11
  <2>5. QED
    BY <2>3, <2>4
<1>7. T = Nat
  <2>1. T \in SUBSET Nat
    OBVIOUS
  <2> HIDE DEF T
  <2>2. QED
    BY <1>5, <1>6, <2>1, Induction
<1>8. There(0)
  BY <1>1, <1>7
<1>9. QED
  BY <1>3, <1>8 DEF PlacedTo

LEMMA TwoOf ==
    ASSUME NEW s \in Text, NEW a \in Nat, a + 2 <= Len(s), NEW i \in 0 .. 1
    PROVE  Bytes(s, a, a + 2)[i + 1] = s[a + i + 1]
<1>1. PICK e \in Nat : e = a + 2
  OBVIOUS
<1>2. a <= e /\ e <= Len(s) /\ i \in 0 .. (e - a - 1)
  BY <1>1
<1>3. \A k \in 0 .. (e - a - 1) : Bytes(s, a, e)[k + 1] = s[a + k + 1]
  BY <1>2, BytesProperties
<1>4. QED
  BY <1>1, <1>2, <1>3

\* Two or more single characters that stand one behind another in the words of a chunk are no
\* word together, up to the longest that is looked up: the four rules of the complex method
\* prefer the word, whatever its characters are counted (tabeChunkSegmentationComplex).
THEOREM SinglesAreNoWord ==
    ASSUME NEW ws, NEW text \in Text, NEW w \in Text, NEW n \in 2 .. MaxTsiLen,
           Len(w) = 2 * n,
           NEW k \in Nat, k + n <= Len(ComplexWords(ws, text)),
           \A j \in 0 .. n - 1 :
             ComplexWords(ws, text)[k + j + 1] = Bytes(w, 2 * j, 2 * j + 2)
    PROVE  w \notin ws
<1>1. Len(text) \in Nat /\ n \in Nat
  BY MaxTsiLenAssumption DEF Text
<1>2. PICK s : s = ComplexWords(ws, text)
  OBVIOUS
<1>3. PICK o : Placed(ws, text, s, o, 0)
  BY <1>2, ComplexWordsPlaced
<1>4. /\ o \in [1 .. Len(s) + 1 -> Nat] /\ Len(s) \in Nat
      /\ \A m \in 1 .. Len(s) :
           /\ o[m + 1] = o[m] + Len(s[m]) /\ o[m + 1] <= Len(text)
           /\ s[m] = Bytes(text, o[m], o[m + 1])
           /\ Len(s[m]) = 2 => FirstWord(ws, text, o[m]) = 2
  BY <1>3 DEF Placed
<1>5. k + n <= Len(s)
  BY <1>2
<1>6. PICK p \in Nat : p = o[k + 1]
  BY <1>1, <1>4, <1>5
\* Each of them is two bytes.
<1>7. ASSUME NEW j \in 0 .. n - 1
      PROVE  k + j + 1 \in 1 .. Len(s) /\ s[k + j + 1] = Bytes(w, 2 * j, 2 * j + 2)
             /\ Len(s[k + j + 1]) = 2
  <2>1. k + j + 1 \in 1 .. Len(s)
    BY <1>1, <1>4, <1>5
  <2>2. s[k + j + 1] = Bytes(w, 2 * j, 2 * j + 2)
    BY <1>2
  <2>3. 2 * j \in Nat /\ 2 * j + 2 <= Len(w)
    BY <1>1
  <2>4. Len(Bytes(w, 2 * j, 2 * j + 2)) = 2
    BY <2>3, WordLength
  <2>5. QED
    BY <2>1, <2>2, <2>4
<1>8. \A j \in 0 .. n : o[k + j + 1] = p + 2 * j
  <2> DEFINE T == {j \in Nat : j <= n => o[k + j + 1] = p + 2 * j}
  <2>1. 0 \in T
    BY <1>6
  <2>2. ASSUME NEW j \in T PROVE j + 1 \in T
    <3>1. SUFFICES ASSUME j + 1 <= n PROVE o[k + (j + 1) + 1] = p + 2 * (j + 1)
      OBVIOUS
    <3>2. j \in 0 .. n - 1 /\ j <= n
      BY <1>1, <3>1
    <3>3. PICK m : m = k + j + 1
      OBVIOUS
    <3>4. m \in 1 .. Len(s) /\ Len(s[m]) = 2
      BY <1>7, <3>2, <3>3
    <3>5. o[m + 1] = o[m] + 2 /\ o[m] = p + 2 * j
      BY <1>4, <3>2, <3>3, <3>4
    <3>6. k + (j + 1) + 1 = m + 1
      BY <3>2, <3>3
    <3>7. QED
      BY <3>2, <3>5, <3>6
  <2>3. T \in SUBSET Nat
    OBVIOUS
  <2>4. T = Nat
    <3> HIDE DEF T
    <3>1. QED
      BY <2>1, <2>2, <2>3, Induction
  <2>5. ASSUME NEW j \in 0 .. n PROVE o[k + j + 1] = p + 2 * j
    <3>1. j \in Nat /\ j <= n
      BY <1>1
    <3>2. j \in T
      <4> HIDE DEF T
      <4>1. QED
        BY <2>4, <3>1
    <3>3. QED
      BY <3>1, <3>2
  <2>6. QED
    BY <2>5
<1>9. p + 2 * n <= Len(text)
  <2>1. o[k + n + 1] = p + 2 * n
    BY <1>1, <1>8
  <2>2. k + n \in 1 .. Len(s) /\ (k + n) + 1 = k + n + 1
    BY <1>1, <1>4, <1>5
  <2>3. QED
    BY <1>4, <2>1, <2>2
<1>10. ASSUME NEW j \in 0 .. n - 1
       PROVE  /\ FirstWord(ws, text, p + 2 * j) = 2
              /\ Bytes(text, p + 2 * j, p + 2 * j + 2) = Bytes(w, 2 * j, 2 * j + 2)
  <2>1. PICK m : m = k + j + 1
    OBVIOUS
  <2>2. m \in 1 .. Len(s) /\ s[m] = Bytes(w, 2 * j, 2 * j + 2) /\ Len(s[m]) = 2
    BY <1>7, <2>1
  <2>3. j \in 0 .. n
    BY <1>1
  <2>4. o[m] = p + 2 * j
    BY <1>8, <2>1, <2>3
  <2>5. o[m + 1] = p + 2 * j + 2
    BY <1>4, <2>2, <2>4
  <2>6. QED
    BY <1>4, <2>2, <2>4, <2>5
<1>11. Bytes(text, p, p + 2 * n) = w
  <2>1. PICK v : v = Bytes(text, p, p + 2 * n)
    OBVIOUS
  <2>2. /\ v \in Text /\ Len(v) = 2 * n
        /\ \A i \in 0 .. 2 * n - 1 : v[i + 1] = text[p + i + 1]
    <3>1. PICK e \in Nat : e = p + 2 * n
      BY <1>1
    <3>2. p <= e /\ e <= Len(text) /\ e - p = 2 * n
      BY <1>1, <1>9, <3>1
    <3>3. /\ Bytes(text, p, e) \in Text /\ Len(Bytes(text, p, e)) = e - p
          /\ \A i \in 0 .. (e - p - 1) : Bytes(text, p, e)[i + 1] = text[p + i + 1]
      BY <3>2, BytesProperties
    <3>4. QED
      BY <2>1, <3>1, <3>2, <3>3
  <2>3. ASSUME NEW j \in 0 .. n - 1, NEW i \in 0 .. 1
        PROVE  text[p + 2 * j + i + 1] = w[2 * j + i + 1]
    <3>1. PICK a \in Nat, b \in Nat : a = 2 * j /\ b = p + 2 * j
      OBVIOUS
    <3>2. a + 2 <= Len(w) /\ b + 2 <= Len(text)
      BY <1>1, <1>9, <3>1
    <3>3. Bytes(text, b, b + 2)[i + 1] = text[b + i + 1]
      BY <3>2, TwoOf
    <3>4. Bytes(w, a, a + 2)[i + 1] = w[a + i + 1]
      BY <3>2, TwoOf
    <3>5. Bytes(text, b, b + 2) = Bytes(w, a, a + 2)
      BY <1>10, <3>1
    <3>6. QED
      BY <3>1, <3>3, <3>4, <3>5
  <2>4. ASSUME NEW m \in 1 .. 2 * n PROVE v[m] = w[m]
    <3>1. PICK j \in 0 .. n - 1, i \in 0 .. 1 : m = 2 * j + i + 1
      <4>1. PICK d \in Nat : d + 1 = m /\ d < 2 * n
        <5>1. m - 1 \in Nat /\ (m - 1) + 1 = m /\ m - 1 < 2 * n
          BY <1>1
        <5>2. QED
          BY <5>1
      <4>2. PICK h \in Nat : h = d \div 2
        BY <4>1
      <4>3. d = 2 * h \/ d = 2 * h + 1
        BY <4>1, <4>2
      <4>4. h \in 0 .. n - 1
        BY <1>1, <4>1, <4>2, <4>3
      <4>5. QED
        BY <4>1, <4>3, <4>4
    <3>2. text[p + 2 * j + i + 1] = w[2 * j + i + 1]
      BY <2>3
    <3>3. PICK x : x = 2 * j + i
      OBVIOUS
    <3>4. x \in 0 .. 2 * n - 1 /\ m = x + 1 /\ p + 2 * j + i + 1 = p + x + 1
      BY <1>1, <3>1, <3>3
    <3>5. QED
      BY <2>2, <3>2, <3>3, <3>4
  <2>5. v = w
    BY <2>2, <2>4, SeqEqual DEF Text
  <2>6. QED
    BY <2>1, <2>5
<1>12. QED
  <2>1. \A j \in 0 .. n - 1 : FirstWord(ws, text, p + 2 * j) = 2
    BY <1>10
  <2>2. Bytes(text, p, p + 2 * n) \notin ws
    BY <1>9, <2>1, RunIsNoWord
  <2>3. QED
    BY <1>11, <2>2

-----------------------------------------------------------------------------
(* The theorems *)

LEMMA Invariant == Spec => []IInv
<1>1. Init => IInv
  BY InitInv
<1>2. IInv /\ [Next]_vars => IInv'
  <2>1. SUFFICES ASSUME IInv, Next \/ UNCHANGED vars PROVE IInv'
    OBVIOUS
  <2>2. CASE SplitLine
    BY <2>1, <2>2, SplitLineInv
  <2>3. CASE SimplexTurn
    BY <2>1, <2>3, SimplexTurnInv
  <2>4. CASE SimplexEnd
    BY <2>1, <2>4, SimplexEndInv
  <2>5. CASE BackwardTurn
    BY <2>1, <2>5, BackwardTurnInv
  <2>6. CASE BackwardEnd
    BY <2>1, <2>6, BackwardEndInv
  <2>7. CASE ComplexTurn
    BY <2>1, <2>7, ComplexTurnInv
  <2>8. CASE ComplexEnd
    BY <2>1, <2>8, ComplexEndInv
  <2>9. CASE UNCHANGED vars
    BY <2>1, <2>9, StutterInv
  <2>10. QED
    BY <2>1, <2>2, <2>3, <2>4, <2>5, <2>6, <2>7, <2>8, <2>9 DEF Next
<1>3. QED
  BY <1>1, <1>2, PTL DEF Spec

\* The chunks are the line in order and without a gap, split where tabeChuInfoToChunkInfo
\* promises to split it, for every line, every table of counts and every set of words.
THEOREM ChunksAreTheLineAlways == Spec => []ChunksAreTheLine
<1>1. IInv => ChunksAreTheLine
  BY DEF IInv, LineUpto, OfKind, ChunksAreTheLine
<1>2. QED
  BY <1>1, Invariant, PTL

\* Whatever the three segmentations have done of a Chinese chunk, the words they found are its
\* text, num_tsi counts them, and a longer one is in the TsiDB.
THEOREM WordsTileChunkAlways == Spec => []WordsTileChunk
<1>1. IInv => WordsTileChunk
  <2>1. SUFFICES ASSUME IInv, NEW k \in 1 .. Len(chunks), chunks[k].num_tsi >= 0, ~fault
                 PROVE  LET text == chunks[k].chunk
                            size == Len(text)
                            tsi  == FlattenSeq(InOrder(k))
                        IN  /\ tsi = CASE k > c -> <<>>
                                      [] k < c -> text
                                      [] k = c /\ method = "backward" -> Bytes(text, size - done, size)
                                      [] OTHER -> Bytes(text, 0, done)
                            /\ chunks[k].num_tsi = Len(chunks[k].tsi)
                            /\ \A w \in Range(chunks[k].tsi) :
                                 Len(w) > 0 /\ (Len(w) > 2 \/ method /= "complex" => w \in words)
    BY DEF WordsTileChunk
  <2>2. PICK ch \in ChunkType : ch = chunks[k]
    <3>1. chunks \in Seq(ChunkType)
      BY <2>1 DEF IInv, Typed
    <3>2. chunks[k] \in ChunkType
      BY <2>1, <3>1, ElementOfSeq
    <3>3. QED
      BY <3>2
  <2>3. ch.num_tsi \in Int /\ ch.tsi \in Seq(Text) /\ c \in Nat
    BY <2>1, <2>2 DEF ChunkType, IInv, Typed
  <2>4. /\ k < c => Finished(ch)
        /\ k = c => Begun(ch, done)
        /\ k > c => Fresh(ch)
    BY <2>1, <2>2 DEF IInv, Segments
  <2>5. Counted(ch)
    <3>1. CASE k > c
      <4>1. ch.tsi = <<>> /\ ch.num_tsi = 0
        BY <2>1, <2>2, <2>4, <3>1 DEF Fresh
      <4>2. QED
        BY <4>1 DEF Counted
    <3>2. CASE k < c
      BY <2>1, <2>2, <2>4, <3>2 DEF Finished
    <3>3. CASE k = c
      BY <2>1, <2>2, <2>4, <3>3 DEF Begun
    <3>4. QED
      BY <2>3, <3>1, <3>2, <3>3
  <2>6. \A w \in Range(ch.tsi) : Proper(w)
    <3>1. ASSUME NEW w \in Range(ch.tsi) PROVE Proper(w)
      <4>1. PICK m \in 1 .. Len(ch.tsi) : w = ch.tsi[m]
        BY <2>3, <3>1 DEF Range
      <4>2. QED
        BY <2>5, <4>1 DEF Counted
    <3>2. QED
      BY <3>1
  <2>7. FlattenSeq(InOrder(k)) = CASE k > c -> <<>>
                                   [] k < c -> ch.chunk
                                   [] k = c /\ method = "backward" ->
                                        Bytes(ch.chunk, Len(ch.chunk) - done, Len(ch.chunk))
                                   [] OTHER -> Bytes(ch.chunk, 0, done)
    <3>1. CASE k > c
      <4>1. ch.tsi = <<>> /\ ~ (k = c) /\ ~ (k < c)
        BY <2>3, <2>4, <3>1 DEF Fresh
      <4>2. InOrder(k) = <<>>
        BY <2>2, <4>1 DEF InOrder
      <4>3. QED
        BY <3>1, <4>1, <4>2, FlattenEmpty
    <3>2. CASE k < c
      <4>1. ~ (k = c) /\ ~ (k > c)
        BY <2>3, <3>2
      <4>2. InOrder(k) = ch.tsi
        BY <2>2, <4>1 DEF InOrder
      <4>3. FlattenSeq(ch.tsi) = ch.chunk
        BY <2>1, <2>2, <2>4, <3>2 DEF Finished
      <4>4. QED
        BY <3>2, <4>1, <4>2, <4>3
    <3>3. CASE k = c
      <4>1. ~ (k < c) /\ ~ (k > c)
        BY <2>3, <3>3
      <4>2. Covered(ch, done)
        BY <2>1, <2>2, <2>4, <3>3 DEF Begun
      <4>3. CASE method = "backward"
        <5>1. InOrder(k) = Reverse(ch.tsi)
          BY <2>2, <3>3, <4>3 DEF InOrder
        <5>2. FlattenSeq(Reverse(ch.tsi)) = Bytes(ch.chunk, Len(ch.chunk) - done, Len(ch.chunk))
          BY <4>2, <4>3 DEF Covered
        <5>3. QED
          BY <3>3, <4>1, <4>3, <5>1, <5>2
      <4>4. CASE method # "backward"
        <5>1. InOrder(k) = ch.tsi
          BY <2>2, <4>4 DEF InOrder
        <5>2. FlattenSeq(ch.tsi) = Bytes(ch.chunk, 0, done)
          BY <4>2, <4>4 DEF Covered
        <5>3. QED
          BY <4>1, <4>4, <5>1, <5>2
      <4>5. QED
        BY <4>3, <4>4
    <3>4. QED
      BY <2>3, <3>1, <3>2, <3>3
  <2>8. ch.num_tsi = Len(ch.tsi)
    BY <2>5 DEF Counted
  <2>9. QED
    BY <2>2, <2>6, <2>7, <2>8 DEF Proper
<1>2. QED
  BY <1>1, Invariant, PTL

\* A chunk that is a word of the TsiDB is never taken apart.
THEOREM LongestWordKeptAlways == Spec => []LongestWordKept
<1>1. IInv => LongestWordKept
  <2>1. SUFFICES ASSUME IInv, NEW k \in 1 .. (c - 1), chunks[k].num_tsi >= 0
                 PROVE  /\ chunks[k].chunk \in words
                           /\ (method = "complex" => Len(chunks[k].chunk) <= 2 * MaxTsiLen)
                             => chunks[k].tsi = <<chunks[k].chunk>>
                        /\ method = "complex" =>
                             \A w \in Range(chunks[k].tsi) : Len(w) <= 2 * MaxTsiLen
    BY DEF LongestWordKept
  <2>2. k \in 1 .. Len(chunks) /\ k < c /\ chunks \in Seq(ChunkType)
    BY <2>1 DEF IInv, Typed
  <2>3. PICK ch \in ChunkType : ch = chunks[k]
    <3>1. chunks[k] \in ChunkType
      BY <2>2, ElementOfSeq
    <3>2. QED
      BY <3>1
  <2>4. Counted(ch) /\ (Known(ch.chunk) => ch.tsi = <<ch.chunk>>)
    BY <2>1, <2>2, <2>3 DEF IInv, Segments, Finished
  <2>5. ASSUME method = "complex", NEW w \in Range(ch.tsi) PROVE Len(w) <= 2 * MaxTsiLen
    <3>1. ch.tsi \in Seq(Text)
      BY DEF ChunkType
    <3>2. PICK m \in 1 .. Len(ch.tsi) : w = ch.tsi[m]
      BY <2>5, <3>1 DEF Range
    <3>3. QED
      BY <2>4, <2>5, <3>2 DEF Counted, Proper
  <2>6. QED
    BY <2>3, <2>4, <2>5 DEF Known
<1>2. QED
  BY <1>1, Invariant, PTL
==============================================================================
