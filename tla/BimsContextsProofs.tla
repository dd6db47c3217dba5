-------------------------- MODULE BimsContextsProofs --------------------------
(***************************************************************************)
(* Theorems about BimsContexts: for any clients and any number of          *)
(* contexts, as long as no client is number 0, the two lists of bimsGetBC  *)
(* and bimsFreeBC partition the contexts, a client has one context at      *)
(* most, and the lists implement ClientTable.                              *)
(*                                                                         *)
(* The code has only the links.  The invariant says of them what a reader  *)
(* of the code sees: that there is a row of distinct contexts which the    *)
(* links follow to its end.                                                *)
(***************************************************************************)
EXTENDS BimsContexts, FiniteSetTheorems, FunctionTheorems,
        WellFoundedInduction, TLAPS

\* The element i of the row s of n contexts, or Null behind its end.
Link(n, s, i) == IF i <= n THEN s[i] ELSE Null

\* In the memory m the list that begins at head is the row s.
Linked(m, head, n, s) ==
    /\ n \in Nat
    /\ s \in [1 .. n -> Contexts]
    /\ \A i, j \in 1 .. n : s[i] = s[j] => i = j
    /\ head = Link(n, s, 1)
    /\ \A i \in 1 .. n : m[s[i]] \in Context /\ m[s[i]].next = Link(n, s, i + 1)

\* In the memory m the contexts are in two rows: b of those in use, no two of
\* one client, and f of those that are free and empty.
Rows(m, nb, b, nf, f) ==
    /\ \A i \in 1 .. nb, j \in 1 .. nf : b[i] # f[j]
    /\ \A c \in Contexts :
          m[c] # Null => (\E i \in 1 .. nb : c = b[i]) \/ (\E j \in 1 .. nf : c = f[j])
    /\ \A i \in 1 .. nb : m[b[i]].bcid \in Ids
    /\ \A i, j \in 1 .. nb : m[b[i]].bcid = m[b[j]].bcid => i = j
    /\ \A j \in 1 .. nf : m[f[j]].bcid = Zero /\ m[f[j]].text = "empty"

\* The walk of bimsFreeBC is at a context of the list in use, and prev is the
\* one before it, or somewhere on the free list.
WalkIn(w, nb, b, nf, f) ==
    \/ w = Null
    \/ \E k \in 1 .. (nb + 1) :
          w.bc = Link(nb, b, k) /\ w.prev = IF k = 1 THEN Null ELSE b[k - 1]
    \/ \E k \in 1 .. (nf + 1) : w.bc = Link(nf, f, k)

IInv ==
    /\ TypeOK
    /\ \E nb, nf \in Nat :
          \E b \in [1 .. nb -> Contexts], f \in [1 .. nf -> Contexts] :
             /\ Linked(ctx, bucket, nb, b)
             /\ Linked(ctx, freebc, nf, f)
             /\ Rows(ctx, nb, b, nf, f)
             /\ WalkIn(freeing, nb, b, nf, f)


-----------------------------------------------------------------------------
(* What the lists hold *)

\* Every nonempty set of natural numbers has a least element.
LEMMA LeastNumber ==
    ASSUME NEW T \in SUBSET Nat, T # {}
    PROVE  \E n \in T : \A m \in T : n <= m
<1>1. IsWellFoundedOn(OpToRel(<, Nat), Nat)
  BY NatLessThanWellFounded
<1>2. PICK n \in T : \A m \in T : <<m, n>> \notin OpToRel(<, Nat)
  BY <1>1, WFMin
<1>3. \A m \in T : ~ (m < n)
  BY <1>2 DEF OpToRel
<1>4. QED
  BY <1>3

\* A row of distinct contexts is no longer than there are contexts.
LEMMA RowIsShort ==
    ASSUME NEW m, NEW head, NEW n, NEW s, Linked(m, head, n, s)
    PROVE  n \in 0 .. Cardinality(Contexts) /\ Cardinality(Contexts) \in Nat
<1>1. n \in Nat /\ s \in [1 .. n -> Contexts]
      /\ \A i, j \in 1 .. n : s[i] = s[j] => i = j
  BY DEF Linked
<1>2. Cardinality(Contexts) \in Nat
  BY ContextsAssumption, FS_CardinalityType
<1>3. s \in Injection(1 .. n, Contexts)
  BY <1>1, Fun_IsInj
<1>4. Cardinality(1 .. n) <= Cardinality(Contexts)
  BY <1>3, ContextsAssumption, FS_Injection DEF ExistsInjection
<1>5. Cardinality(1 .. n) = n
  BY <1>1, FS_Interval
<1>6. QED
  BY <1>1, <1>2, <1>4, <1>5

\* Following the links of a list visits its row, and then nothing.
LEMMA NthIsLink ==
    ASSUME NEW head, NEW n, NEW s, Linked(ctx, head, n, s)
    PROVE  \A i \in 0 .. Cardinality(Contexts) : Nth(head)[i] = Link(n, s, i + 1)
<1> DEFINE C == Cardinality(Contexts)
           F(g) == [i \in 0 .. C |->
                       IF i = 0 THEN head
                       ELSE LET c == g[i - 1]
                            IN  IF c = Null THEN Null ELSE ctx[c].next]
           w == [i \in 0 .. C |-> Link(n, s, i + 1)]
<1>1. /\ n \in Nat /\ C \in Nat
      /\ s \in [1 .. n -> Contexts] /\ head = Link(n, s, 1)
      /\ \A i \in 1 .. n : ctx[s[i]].next = Link(n, s, i + 1)
  BY RowIsShort DEF Linked
<1>2. Nth(head) = CHOOSE g : g = F(g)
  BY DEF Nth
<1> HIDE DEF C
<1>3. w = F(w)
  <2>1. ASSUME NEW i \in 0 .. C
        PROVE  w[i] = F(w)[i]
    <3>1. CASE i = 0
      BY <1>1, <3>1
    <3>2. CASE i # 0
      <4>1. i - 1 \in 0 .. C /\ w[i - 1] = Link(n, s, i) /\ w[i] = Link(n, s, i + 1)
        BY <1>1, <3>2
      <4>2. CASE i <= n
        <5>1. i \in 1 .. n /\ w[i - 1] = s[i] /\ s[i] # Null
          BY <1>1, <3>2, <4>1, <4>2, NullAssumption DEF Link
        <5>2. QED
          BY <1>1, <3>2, <4>1, <5>1
      <4>3. CASE ~ (i <= n)
        <5>1. w[i - 1] = Null /\ w[i] = Null
          BY <1>1, <4>1, <4>3 DEF Link
        <5>2. QED
          BY <3>2, <5>1
      <4>4. QED
        BY <4>2, <4>3
    <3>3. QED
      BY <3>1, <3>2
  <2>2. QED
    BY <2>1
<1>4. \A g : g = F(g) => g = w
  <2> SUFFICES ASSUME NEW g, g = F(g) PROVE g = w
    OBVIOUS
  <2> DEFINE T == {i \in 0 .. C : g[i] # w[i]}
  <2>1. T = {}
    <3>1. SUFFICES ASSUME T # {} PROVE FALSE
      OBVIOUS
    <3>2. PICK i \in T : \A j \in T : i <= j
      <4>1. T \in SUBSET Nat
        BY <1>1
      <4> HIDE DEF T
      <4>2. QED
        BY <3>1, <4>1, LeastNumber
    <3>3. i \in 0 .. C /\ g[i] # w[i]
      OBVIOUS
    <3>4. g[i] = F(g)[i] /\ w[i] = F(w)[i]
      BY <1>3
    <3>5. i # 0
      BY <3>3, <3>4
    <3>6. i - 1 \in 0 .. C /\ g[i - 1] = w[i - 1]
      <4>1. i - 1 \in 0 .. C /\ i - 1 \notin T
        BY <1>1, <3>2, <3>3, <3>5
      <4>2. QED
        BY <4>1
    <3>7. F(g)[i] = F(w)[i]
      BY <3>3, <3>5, <3>6
    <3>8. QED
      BY <3>3, <3>4, <3>7
  <2>2. DOMAIN g = 0 .. C
    OBVIOUS
  <2>3. \A i \in 0 .. C : g[i] = w[i]
    BY <2>1
  <2> HIDE DEF F
  <2>4. g = [i \in 0 .. C |-> g[i]]
    BY <2>2 DEF F
  <2>5. QED
    BY <2>3, <2>4
<1> HIDE DEF F, w
<1>5. Nth(head) = w
  BY <1>2, <1>3, <1>4
<1>6. QED
  BY <1>5 DEF w, C

\* A list has the contexts of its row and an end.
LEMMA MembersAreRow ==
    ASSUME NEW head, NEW n, NEW s, Linked(ctx, head, n, s)
    PROVE  /\ Members(head) = {s[i] : i \in 1 .. n}
           /\ Nth(head)[Cardinality(Contexts)] = Null
<1> DEFINE C == Cardinality(Contexts)
<1>1. n \in 0 .. C /\ C \in Nat /\ s \in [1 .. n -> Contexts]
  BY RowIsShort DEF Linked
<1>2. \A i \in 0 .. C : Nth(head)[i] = Link(n, s, i + 1)
  BY NthIsLink
<1>3. Members(head) = {Nth(head)[i] : i \in 0 .. C} \ {Null}
  BY DEF Members
<1> HIDE DEF C
<1>4. ASSUME NEW c \in Members(head)
      PROVE  c \in {s[i] : i \in 1 .. n}
  <2>1. PICK i \in 0 .. C : c = Link(n, s, i + 1) /\ c # Null
    BY <1>2, <1>3
  <2>2. i + 1 \in 1 .. n /\ c = s[i + 1]
    BY <1>1, <2>1 DEF Link
  <2>3. QED
    BY <2>2
<1>5. ASSUME NEW i \in 1 .. n
      PROVE  s[i] \in Members(head)
  <2>1. i - 1 \in 0 .. C /\ s[i] = Link(n, s, i - 1 + 1)
    BY <1>1 DEF Link
  <2>2. s[i] # Null
    BY <1>1, NullAssumption
  <2>3. QED
    BY <1>2, <1>3, <2>1, <2>2
<1>6. Nth(head)[C] = Null
  BY <1>1, <1>2 DEF Link
<1>7. QED
  BY <1>4, <1>5, <1>6 DEF C

-----------------------------------------------------------------------------
(* Changes of a list *)

\* The row with a context put before it, and without one of its elements.
Before(c, n, s) == [i \in 1 .. (n + 1) |-> IF i = 1 THEN c ELSE s[i - 1]]
Without(n, s, k) == [i \in 1 .. (n - 1) |-> IF i < k THEN s[i] ELSE s[i + 1]]

\* A list whose contexts keep their links stays what it is.
LEMMA ListKept ==
    ASSUME NEW m, NEW m2, NEW head, NEW n, NEW s, Linked(m, head, n, s),
           \A i \in 1 .. n : m2[s[i]] \in Context /\ m2[s[i]].next = m[s[i]].next
    PROVE  Linked(m2, head, n, s)
BY DEF Linked

LEMMA ListLonger ==
    ASSUME NEW m, NEW m2, NEW head, NEW n, NEW s, Linked(m, head, n, s),
           NEW c \in Contexts, \A i \in 1 .. n : s[i] # c,
           m2[c] \in Context, m2[c].next = head,
           \A i \in 1 .. n : m2[s[i]] = m[s[i]]
    PROVE  Linked(m2, c, n + 1, Before(c, n, s))
<1> DEFINE t == Before(c, n, s)
<1>1. /\ n \in Nat /\ s \in [1 .. n -> Contexts] /\ head = Link(n, s, 1)
      /\ \A i, j \in 1 .. n : s[i] = s[j] => i = j
      /\ \A i \in 1 .. n : m[s[i]] \in Context /\ m[s[i]].next = Link(n, s, i + 1)
  BY DEF Linked
<1>2. /\ t \in [1 .. (n + 1) -> Contexts] /\ t[1] = c
      /\ \A i \in 2 .. (n + 1) : i - 1 \in 1 .. n /\ t[i] = s[i - 1]
  BY <1>1 DEF Before
<1> HIDE DEF t
<1>3. ASSUME NEW i \in 1 .. (n + 1), NEW j \in 1 .. (n + 1), t[i] = t[j]
      PROVE  i = j
  <2>1. i = 1 \/ i \in 2 .. (n + 1)
    BY <1>1
  <2>2. j = 1 \/ j \in 2 .. (n + 1)
    BY <1>1
  <2>3. CASE i = 1 \/ j = 1
    BY <1>2, <1>3, <2>1, <2>2, <2>3
  <2>4. CASE i \in 2 .. (n + 1) /\ j \in 2 .. (n + 1)
    <3>1. s[i - 1] = s[j - 1]
      BY <1>2, <1>3, <2>4
    <3>2. i - 1 = j - 1
      BY <1>1, <1>2, <2>4, <3>1
    <3>3. QED
      BY <1>1, <3>2
  <2>5. QED
    BY <2>1, <2>2, <2>3, <2>4
<1>4. \A i \in 0 .. n : Link(n + 1, t, i + 1 + 1) = Link(n, s, i + 1)
  BY <1>1, <1>2 DEF Link
<1>5. ASSUME NEW i \in 1 .. (n + 1)
      PROVE  m2[t[i]] \in Context /\ m2[t[i]].next = Link(n + 1, t, i + 1)
  <2>1. CASE i = 1
    <3>1. Link(n + 1, t, 1 + 1) = Link(n, s, 1)
      BY <1>1, <1>4
    <3>2. QED
      BY <1>1, <1>2, <2>1, <3>1
  <2>2. CASE i \in 2 .. (n + 1)
    <3>1. i - 1 \in 1 .. n /\ t[i] = s[i - 1]
      BY <1>2, <2>2
    <3>2. m2[t[i]] \in Context /\ m2[t[i]].next = Link(n, s, i - 1 + 1)
      BY <1>1, <3>1
    <3>3. i - 1 + 1 = i /\ i - 1 \in 0 .. n
      BY <1>1, <2>2
    <3>4. Link(n + 1, t, i + 1) = Link(n, s, i)
      BY <1>4, <3>3
    <3>5. QED
      BY <3>2, <3>3, <3>4
  <2>3. QED
    BY <1>1, <2>1, <2>2
<1>6. c = Link(n + 1, t, 1) /\ n + 1 \in Nat
  BY <1>1, <1>2 DEF Link
<1>7. Linked(m2, c, n + 1, t)
  BY <1>2, <1>3, <1>5, <1>6 DEF Linked
<1>8. QED
  BY <1>7 DEF t

\* A context is unlinked: the one before it, or the head of the list, is given
\* its link.
LEMMA ListShorter ==
    ASSUME NEW m, NEW m2, NEW head, NEW n, NEW s, Linked(m, head, n, s),
           NEW k \in 1 .. n,
           \A i \in 1 .. n :
              i # k => /\ m2[s[i]] \in Context
                       /\ m2[s[i]].next = IF i + 1 = k THEN m[s[k]].next
                                                        ELSE m[s[i]].next
    PROVE  Linked(m2, IF k = 1 THEN m[s[k]].next ELSE head, n - 1, Without(n, s, k))
<1> DEFINE t == Without(n, s, k)
           first == IF k = 1 THEN m[s[k]].next ELSE head
<1>1. /\ n \in Nat /\ s \in [1 .. n -> Contexts] /\ head = Link(n, s, 1)
      /\ \A i, j \in 1 .. n : s[i] = s[j] => i = j
      /\ \A i \in 1 .. n : m[s[i]].next = Link(n, s, i + 1)
  BY DEF Linked
<1>2. /\ k \in Nat /\ n - 1 \in Nat /\ t \in [1 .. (n - 1) -> Contexts]
      /\ \A i \in 1 .. (n - 1) : i \in 1 .. n /\ i + 1 \in 1 .. n
      /\ \A i \in 1 .. (n - 1) : i < k => t[i] = s[i]
      /\ \A i \in 1 .. (n - 1) : ~ (i < k) => t[i] = s[i + 1]
  BY <1>1 DEF Without
<1> HIDE DEF t
<1>3. ASSUME NEW i \in 1 .. (n - 1), NEW j \in 1 .. (n - 1), t[i] = t[j]
      PROVE  i = j
  <2>1. i \in Int /\ j \in Int
    OBVIOUS
  <2>2. CASE i < k /\ j < k
    BY <1>1, <1>2, <1>3, <2>2
  <2>3. CASE i < k /\ ~ (j < k)
    <3>1. i = j + 1
      BY <1>1, <1>2, <1>3, <2>3
    <3>2. QED
      BY <1>2, <2>1, <2>3, <3>1
  <2>4. CASE ~ (i < k) /\ j < k
    <3>1. i + 1 = j
      BY <1>1, <1>2, <1>3, <2>4
    <3>2. QED
      BY <1>2, <2>1, <2>4, <3>1
  <2>5. CASE ~ (i < k) /\ ~ (j < k)
    <3>1. i + 1 = j + 1
      BY <1>1, <1>2, <1>3, <2>5
    <3>2. QED
      BY <2>1, <3>1
  <2>6. QED
    BY <2>2, <2>3, <2>4, <2>5
\* The element i of the shorter row is the element i or i + 1 of the longer.
<1>4. \A i \in 1 .. n :
         Link(n - 1, t, i) = IF i < k THEN Link(n, s, i) ELSE Link(n, s, i + 1)
  BY <1>1, <1>2 DEF Link
<1>5. ASSUME NEW i \in 1 .. (n - 1)
      PROVE  m2[t[i]] \in Context /\ m2[t[i]].next = Link(n - 1, t, i + 1)
  <2>1. i \in 1 .. n /\ i + 1 \in 1 .. n /\ i \in Nat
    BY <1>2
  <2>2. Link(n - 1, t, i + 1) = IF i + 1 < k THEN Link(n, s, i + 1)
                                             ELSE Link(n, s, i + 1 + 1)
    BY <1>4, <2>1
  <2>3. CASE i + 1 < k
    <3>1. i < k /\ i # k /\ i + 1 # k
      BY <1>2, <2>1, <2>3
    <3>2. QED
      BY <1>1, <1>2, <2>1, <2>2, <2>3, <3>1
  <2>4. CASE i + 1 = k
    <3>1. i < k /\ i # k /\ ~ (i + 1 < k)
      BY <1>2, <2>1, <2>4
    <3>2. m2[t[i]] \in Context /\ m2[t[i]].next = m[s[k]].next
      BY <1>2, <2>1, <2>4, <3>1
    <3>3. m[s[k]].next = Link(n, s, i + 1 + 1)
      BY <1>1, <2>4
    <3>4. QED
      BY <2>2, <3>1, <3>2, <3>3
  <2>5. CASE ~ (i < k)
    <3>1. i + 1 # k /\ i + 1 + 1 # k /\ ~ (i + 1 < k)
      BY <1>2, <2>1, <2>5
    <3>2. m2[t[i]] \in Context /\ m2[t[i]].next = m[s[i + 1]].next
      BY <1>2, <2>1, <2>5, <3>1
    <3>3. m[s[i + 1]].next = Link(n, s, i + 1 + 1)
      BY <1>1, <2>1
    <3>4. QED
      BY <2>2, <3>1, <3>2, <3>3
  <2>6. QED
    BY <1>2, <2>1, <2>3, <2>4, <2>5
<1>6. first = Link(n - 1, t, 1)
  <2>1. 1 \in 1 .. n
    BY <1>1, <1>2
  <2>2. Link(n - 1, t, 1) = IF 1 < k THEN Link(n, s, 1) ELSE Link(n, s, 1 + 1)
    BY <1>4, <2>1
  <2>3. (k = 1) = ~ (1 < k)
    BY <1>2
  <2>4. m[s[k]].next = Link(n, s, k + 1)
    BY <1>1
  <2>5. QED
    BY <1>1, <2>2, <2>3, <2>4
<1> HIDE DEF first
<1>7. Linked(m2, first, n - 1, t)
  BY <1>2, <1>3, <1>5, <1>6 DEF Linked
<1>8. QED
  BY <1>7 DEF t, first

-----------------------------------------------------------------------------
(* The steps *)

\* What IInv says of one choice of rows.
InRows(nb, b, nf, f) ==
    /\ nb \in Nat /\ nf \in Nat
    /\ b \in [1 .. nb -> Contexts] /\ f \in [1 .. nf -> Contexts]
    /\ Linked(ctx, bucket, nb, b)
    /\ Linked(ctx, freebc, nf, f)
    /\ Rows(ctx, nb, b, nf, f)
    /\ WalkIn(freeing, nb, b, nf, f)

LEMMA RowsThere ==
    ASSUME IInv
    PROVE  \E nb, b, nf, f : InRows(nb, b, nf, f)
BY DEF IInv, InRows

LEMMA RowsNext ==
    ASSUME NEW nb, NEW b, NEW nf, NEW f, TypeOK',
           Linked(ctx', bucket', nb, b), Linked(ctx', freebc', nf, f),
           Rows(ctx', nb, b, nf, f), WalkIn(freeing', nb, b, nf, f)
    PROVE  IInv'
<1>1. /\ nb \in Nat /\ nf \in Nat
      /\ b \in [1 .. nb -> Contexts] /\ f \in [1 .. nf -> Contexts]
  BY DEF Linked
<1>2. QED
  BY <1>1 DEF IInv

LEMMA InitInv == Init => IInv
<1> SUFFICES ASSUME Init PROVE IInv
  OBVIOUS
<1> DEFINE e == [i \in 1 .. 0 |-> i]
<1>1. bucket = Null /\ freebc = Null /\ freeing = Null /\ ctx = [c \in Contexts |-> Null]
  BY DEF Init
<1>2. TypeOK
  BY <1>1 DEF TypeOK, Pointer
<1>3. 1 .. 0 = {} /\ e \in [1 .. 0 -> Contexts]
  OBVIOUS
<1> HIDE DEF e
<1>4. Linked(ctx, Null, 0, e)
  BY <1>3 DEF Linked, Link
<1>5. Rows(ctx, 0, e, 0, e)
  BY <1>1, <1>3 DEF Rows
<1>6. WalkIn(freeing, 0, e, 0, e)
  BY <1>1 DEF WalkIn
<1>7. QED
  BY <1>1, <1>2, <1>3, <1>4, <1>5, <1>6 DEF IInv

\* The contexts an identifier owns, in terms of the row.
LEMMA OwnedInRow ==
    ASSUME NEW nb, NEW b, NEW nf, NEW f, InRows(nb, b, nf, f), NEW id
    PROVE  Owned(id) = {c \in {b[i] : i \in 1 .. nb} : ctx[c].bcid = id}
BY MembersAreRow DEF InRows, Owned

\* A context bimsGetBC returns is the one of the client, the first free one or
\* a new one, and is a context again afterwards.
LEMMA ObtainedIs ==
    ASSUME TypeOK, NEW id \in Ids, NEW c \in Contexts
    PROVE  /\ Obtained(id, c) \in Context
           /\ Obtained(id, c).bcid = id
           /\ Obtained(id, c).next = IF Owned(id) # {}
                                     THEN IF ctx[c] = Null THEN Null ELSE ctx[c].next
                                     ELSE bucket
           /\ ctx[c] # Null => /\ Obtained(id, c).setting = ctx[c].setting
                               /\ Obtained(id, c).text = ctx[c].text
<1> DEFINE x == IF ctx[c] = Null THEN Zeroed ELSE ctx[c]
           n == IF Owned(id) # {} THEN x.next ELSE bucket
<1>1. Zeroed \in Context /\ Zeroed.next = Null
  BY DefaultAssumption DEF Zeroed, Context, Pointer
<1>2. x \in Context
  BY <1>1 DEF TypeOK
<1>3. bucket \in Pointer
  BY DEF TypeOK
<1>4. n \in Pointer
  BY <1>2, <1>3 DEF Context
<1>5. Obtained(id, c) = [x EXCEPT !.bcid = id, !.next = n]
  BY DEF Obtained
<1>6. x.next = IF ctx[c] = Null THEN Null ELSE ctx[c].next
  BY <1>1
<1>7. ctx[c] # Null => x.setting = ctx[c].setting /\ x.text = ctx[c].text
  OBVIOUS
<1>8. n = IF Owned(id) # {} THEN IF ctx[c] = Null THEN Null ELSE ctx[c].next ELSE bucket
  BY <1>6
<1> HIDE DEF x, n
<1>9. /\ [x EXCEPT !.bcid = id, !.next = n] \in Context
      /\ [x EXCEPT !.bcid = id, !.next = n].bcid = id
      /\ [x EXCEPT !.bcid = id, !.next = n].next = n
      /\ [x EXCEPT !.bcid = id, !.next = n].setting = x.setting
      /\ [x EXCEPT !.bcid = id, !.next = n].text = x.text
  BY <1>2, <1>4 DEF Context
<1>10. QED
  BY <1>5, <1>7, <1>8, <1>9

\* A call that obtains a context and leaves it with the identifier and the
\* link bimsGetBC gave it.
LEMMA GetBCInv ==
    ASSUME IInv, NEW id \in Ids, NEW c \in Obtainable(id), NEW r \in Context,
           r.bcid = id, r.next = Obtained(id, c).next, GetBC(id, c, r)
    PROVE  IInv'
<1>1. PICK nb, b, nf, f : InRows(nb, b, nf, f)
  BY RowsThere
<1>2. /\ Linked(ctx, bucket, nb, b) /\ Linked(ctx, freebc, nf, f)
      /\ Rows(ctx, nb, b, nf, f) /\ nb \in Nat /\ nf \in Nat
      /\ b \in [1 .. nb -> Contexts] /\ f \in [1 .. nf -> Contexts]
  BY <1>1 DEF InRows
<1>3. TypeOK
  BY DEF IInv
<1>4. /\ freeing = Null /\ freeing' = Null /\ ctx' = [ctx EXCEPT ![c] = r]
      /\ IF Owned(id) # {} THEN UNCHANGED <<bucket, freebc>>
         ELSE /\ bucket' = c
              /\ freebc' = IF freebc # Null THEN ctx[freebc].next ELSE Null
  BY DEF GetBC
<1>5. Owned(id) = {x \in {b[i] : i \in 1 .. nb} : ctx[x].bcid = id}
  BY <1>1, OwnedInRow
<1>6. c \in Contexts
  <2>1. Owned(id) \subseteq Contexts
    BY <1>2, <1>5
  <2>2. freebc # Null => freebc \in Contexts
    BY <1>3 DEF TypeOK, Pointer
  <2>3. QED
    BY <2>1, <2>2 DEF Obtainable
<1>7. /\ ctx' \in [Contexts -> Context \cup {Null}] /\ ctx'[c] = r
      /\ \A d \in Contexts : d # c => ctx'[d] = ctx[d]
  BY <1>3, <1>4, <1>6 DEF TypeOK
<1>8. /\ \A i \in 1 .. nb : b[i] \in Contexts /\ ctx[b[i]] \in Context
      /\ \A i \in 1 .. nf : f[i] \in Contexts /\ ctx[f[i]] \in Context
  BY <1>2 DEF Linked
<1>9. WalkIn(freeing', nb, b, nf, f)
  BY <1>4 DEF WalkIn
<1>10. r.next = IF Owned(id) # {} THEN IF ctx[c] = Null THEN Null ELSE ctx[c].next
                ELSE bucket
  BY <1>3, <1>6, ObtainedIs
<1>11. CASE Owned(id) # {}
  <2>1. PICK k \in 1 .. nb : c = b[k] /\ ctx[c].bcid = id
    BY <1>5, <1>11 DEF Obtainable
  <2>2. ctx[c] \in Context /\ ctx[c] # Null /\ r.next = ctx[c].next
    BY <1>8, <1>10, <1>11, <2>1, NullAssumption
  <2>3. \A i \in 1 .. nf : f[i] # c
    BY <1>2, <2>1 DEF Rows
  <2>4. \A i \in 1 .. nb : /\ ctx'[b[i]] \in Context
                           /\ ctx'[b[i]].next = ctx[b[i]].next
                           /\ ctx'[b[i]].bcid = ctx[b[i]].bcid
    BY <1>7, <1>8, <2>1, <2>2
  <2>5. \A i \in 1 .. nf : ctx'[f[i]] = ctx[f[i]]
    BY <1>7, <1>8, <2>3
  <2>6. bucket' = bucket /\ freebc' = freebc
    BY <1>4, <1>11
  <2>7. Linked(ctx', bucket', nb, b)
    BY <1>2, <2>4, <2>6, ListKept
  <2>8. Linked(ctx', freebc', nf, f)
    BY <1>2, <1>8, <2>5, <2>6, ListKept
  <2>9. Rows(ctx', nb, b, nf, f)
    <3>1. \A d \in Contexts :
             ctx'[d] # Null => (\E i \in 1 .. nb : d = b[i]) \/ (\E j \in 1 .. nf : d = f[j])
      BY <1>2, <1>7, <2>1 DEF Rows
    <3>2. QED
      BY <1>2, <2>4, <2>5, <3>1 DEF Rows
  <2>10. TypeOK'
    BY <1>3, <1>4, <1>7, <2>6 DEF TypeOK
  <2>11. QED
    BY <1>9, <2>7, <2>8, <2>9, <2>10, RowsNext
<1>12. CASE Owned(id) = {}
  <2>1. \A i \in 1 .. nb : ctx[b[i]].bcid # id
    BY <1>5, <1>12
  <2>2. \A i \in 1 .. nb : b[i] # c
    <3>1. CASE freebc # Null
      <4>1. c = f[1] /\ 1 \in 1 .. nf
        BY <1>2, <1>12, <3>1 DEF Obtainable, Linked, Link
      <4>2. QED
        BY <1>2, <4>1 DEF Rows
    <3>2. CASE freebc = Null
      <4>1. ctx[c] = Null
        BY <1>12, <3>2 DEF Obtainable
      <4>2. QED
        BY <1>8, <4>1, NullAssumption
    <3>3. QED
      BY <3>1, <3>2
  <2>3. \A i \in 1 .. nb : ctx'[b[i]] = ctx[b[i]]
    BY <1>7, <1>8, <2>2
  <2> DEFINE t == Before(c, nb, b)
  <2>4. Linked(ctx', bucket', nb + 1, t)
    <3>1. bucket' = c /\ ctx'[c] \in Context /\ ctx'[c].next = bucket
      BY <1>4, <1>7, <1>10, <1>12
    <3>2. Linked(ctx', c, nb + 1, Before(c, nb, b))
      BY <1>2, <1>6, <2>2, <2>3, <3>1, ListLonger
    <3>3. QED
      BY <3>1, <3>2
  <2>5. /\ \A i \in 1 .. (nb + 1) : i # 1 => i - 1 \in 1 .. nb
        /\ \A i \in 1 .. (nb + 1) : t[i] = IF i = 1 THEN c ELSE b[i - 1]
        /\ \A i \in 1 .. nb : i + 1 \in 1 .. (nb + 1) /\ t[i + 1] = b[i]
        /\ 1 \in 1 .. (nb + 1)
    BY <1>2 DEF Before
  <2> HIDE DEF t
  <2>6. /\ \A i \in 1 .. (nb + 1) : ctx'[t[i]].bcid \in Ids
        /\ \A i, j \in 1 .. (nb + 1) : ctx'[t[i]].bcid = ctx'[t[j]].bcid => i = j
    <3>1. ASSUME NEW i \in 1 .. (nb + 1), i # 1
          PROVE  /\ i - 1 \in 1 .. nb /\ ctx'[t[i]].bcid = ctx[b[i - 1]].bcid
                 /\ ctx[b[i - 1]].bcid \in Ids /\ ctx'[t[i]].bcid # id
      BY <1>2, <2>1, <2>3, <2>5, <3>1 DEF Rows
    <3>2. ctx'[t[1]].bcid = id
      BY <1>7, <2>5
    <3>3. ASSUME NEW i \in 1 .. (nb + 1), NEW j \in 1 .. (nb + 1),
                 ctx'[t[i]].bcid = ctx'[t[j]].bcid
          PROVE  i = j
      <4>1. CASE i = 1 \/ j = 1
        BY <3>1, <3>2, <3>3, <4>1
      <4>2. CASE i # 1 /\ j # 1
        <5>1. i - 1 = j - 1
          BY <1>2, <3>1, <3>3, <4>2 DEF Rows
        <5>2. QED
          BY <5>1
      <4>3. QED
        BY <4>1, <4>2
    <3>4. QED
      BY <3>1, <3>2, <3>3
  <2>7. CASE freebc # Null
    <3> DEFINE u == Without(nf, f, 1)
    <3>1. c = f[1] /\ 1 \in 1 .. nf /\ c = freebc
      BY <1>2, <1>12, <2>7 DEF Obtainable, Linked, Link
    <3>2. \A i \in 1 .. nf : i # 1 => f[i] # c
      BY <1>2, <3>1 DEF Linked
    <3>3. \A i \in 1 .. nf : i # 1 => ctx'[f[i]] = ctx[f[i]]
      BY <1>7, <1>8, <3>2
    <3>4. Linked(ctx', ctx[f[1]].next, nf - 1, u)
      <4>1. \A i \in 1 .. nf :
               i # 1 => /\ ctx'[f[i]] \in Context
                        /\ ctx'[f[i]].next = IF i + 1 = 1 THEN ctx[f[1]].next
                                                          ELSE ctx[f[i]].next
        BY <1>8, <3>3
      <4>2. Linked(ctx', IF 1 = 1 THEN ctx[f[1]].next ELSE freebc, nf - 1, u)
        BY <1>2, <3>1, <4>1, ListShorter
      <4>3. QED
        BY <4>2
    <3>5. freebc' = ctx[f[1]].next
      BY <1>4, <1>12, <2>7, <3>1
    <3>6. /\ \A i \in 1 .. (nf - 1) : i + 1 \in 1 .. nf /\ i + 1 # 1 /\ u[i] = f[i + 1]
          /\ \A i \in 1 .. nf : i # 1 => i - 1 \in 1 .. (nf - 1) /\ u[i - 1] = f[i]
      BY <1>2 DEF Without
    <3> HIDE DEF u
    <3>7. Rows(ctx', nb + 1, t, nf - 1, u)
      <4>1. ASSUME NEW i \in 1 .. (nb + 1), NEW j \in 1 .. (nf - 1)
            PROVE  t[i] # u[j]
        BY <1>2, <2>5, <3>2, <3>6 DEF Rows
      <4>2. ASSUME NEW d \in Contexts, ctx'[d] # Null
            PROVE  \/ \E i \in 1 .. (nb + 1) : d = t[i]
                   \/ \E j \in 1 .. (nf - 1) : d = u[j]
        <5>1. CASE d = c
          BY <2>5, <5>1
        <5>2. CASE d # c
          <6>1. ctx[d] # Null
            BY <1>7, <4>2, <5>2
          <6>2. CASE \E i \in 1 .. nb : d = b[i]
            BY <2>5, <6>2
          <6>3. CASE \E j \in 1 .. nf : d = f[j]
            BY <3>1, <3>6, <5>2, <6>3
          <6>4. QED
            BY <1>2, <6>1, <6>2, <6>3 DEF Rows
        <5>3. QED
          BY <5>1, <5>2
      <4>3. \A j \in 1 .. (nf - 1) : ctx'[u[j]].bcid = Zero /\ ctx'[u[j]].text = "empty"
        BY <1>2, <3>3, <3>6 DEF Rows
      <4>4. QED
        BY <2>6, <4>1, <4>2, <4>3 DEF Rows
    <3>8. TypeOK'
      <4>1. ctx[f[1]].next \in Pointer
        BY <1>8, <3>1 DEF Context
      <4>2. QED
        BY <1>4, <1>6, <1>7, <1>12, <3>5, <4>1 DEF TypeOK, Pointer
    <3>9. WalkIn(freeing', nb + 1, t, nf - 1, u)
      BY <1>4 DEF WalkIn
    <3>10. QED
      BY <2>4, <3>4, <3>5, <3>7, <3>8, <3>9, RowsNext
  <2>8. CASE freebc = Null
    <3>1. nf = 0
      <4>1. 1 <= nf => f[1] = Null /\ f[1] \in Contexts
        BY <1>2, <2>8 DEF Linked, Link
      <4>2. QED
        BY <1>2, <4>1, NullAssumption
    <3>2. freebc' = Null
      BY <1>4, <1>12, <2>8
    <3>3. Linked(ctx', freebc', nf, f)
      BY <1>2, <2>8, <3>1, <3>2, ListKept
    <3>4. Rows(ctx', nb + 1, t, nf, f)
      <4>1. ASSUME NEW d \in Contexts, ctx'[d] # Null
            PROVE  \E i \in 1 .. (nb + 1) : d = t[i]
        <5>1. CASE d = c
          BY <2>5, <5>1
        <5>2. CASE d # c
          <6>1. ctx[d] # Null
            BY <1>7, <4>1, <5>2
          <6>2. PICK i \in 1 .. nb : d = b[i]
            BY <1>2, <3>1, <6>1 DEF Rows
          <6>3. QED
            BY <2>5, <6>2
        <5>3. QED
          BY <5>1, <5>2
      <4>2. 1 .. nf = {}
        BY <3>1
      <4>3. QED
        BY <2>6, <4>1, <4>2 DEF Rows
    <3>5. TypeOK'
      BY <1>4, <1>6, <1>7, <1>12, <3>2 DEF TypeOK, Pointer
    <3>6. WalkIn(freeing', nb + 1, t, nf, f)
      BY <1>4 DEF WalkIn
    <3>7. QED
      BY <2>4, <3>3, <3>4, <3>5, <3>6, RowsNext
  <2>9. QED
    BY <2>7, <2>8
<1>13. QED
  BY <1>11, <1>12

\* The calls obtain a context and change what it holds of the client.
LEMMA CallsAre ==
    ASSUME IInv, NEW id \in Ids,
           \/ Query(id)
           \/ Edit(id)
           \/ \E s \in Settings, v \in Values : Configure(id, s, v)
    PROVE  \E c \in Obtainable(id), r \in Context :
              /\ c \in Contexts
              /\ r.bcid = id /\ r.next = Obtained(id, c).next /\ GetBC(id, c, r)
              /\ \/ r.setting = Obtained(id, c).setting
                 \/ /\ r.text = Obtained(id, c).text
                    /\ \E s \in Settings, v \in Values :
                          r.setting = [Obtained(id, c).setting EXCEPT ![s] = v]
<1>1. \A c \in Obtainable(id) :
         /\ c \in Contexts
         /\ Obtained(id, c) \in Context /\ Obtained(id, c).bcid = id
  <2>1. PICK nb, b, nf, f : InRows(nb, b, nf, f)
    BY RowsThere
  <2>2. Owned(id) \subseteq Contexts
    BY <2>1, OwnedInRow DEF InRows
  <2>3. freebc # Null => freebc \in Contexts
    BY DEF IInv, TypeOK, Pointer
  <2>4. Obtainable(id) \subseteq Contexts
    BY <2>2, <2>3 DEF Obtainable
  <2>5. QED
    BY <2>4, ObtainedIs DEF IInv
<1>2. CASE Query(id)
  BY <1>1, <1>2 DEF Query
<1>3. CASE Edit(id)
  <2>1. PICK c \in Obtainable(id), x \in {"empty", "typed"} :
           LET r == [Obtained(id, c) EXCEPT !.text = x] IN
           \/ GetBC(id, c, r)
           \/ GetBC(id, c, [r EXCEPT !.num_ysinfo = 0, !.ysinfo = FALSE])
           \/ GetBC(id, c, [r EXCEPT !.num_ysinfo = 1, !.ysinfo = TRUE])
    BY <1>3 DEF Edit
  <2> DEFINE o == Obtained(id, c)
             r == [o EXCEPT !.text = x]
             r0 == [r EXCEPT !.num_ysinfo = 0, !.ysinfo = FALSE]
             r1 == [r EXCEPT !.num_ysinfo = 1, !.ysinfo = TRUE]
  <2>2. o \in Context /\ o.bcid = id
    BY <1>1
  <2> HIDE DEF o
  <2>3. r \in Context /\ r.bcid = id /\ r.next = o.next /\ r.setting = o.setting
    BY <2>2 DEF Context
  <2> HIDE DEF r
  <2>4. r0 \in Context /\ r0.bcid = id /\ r0.next = o.next /\ r0.setting = o.setting
    BY <2>3 DEF Context
  <2>5. r1 \in Context /\ r1.bcid = id /\ r1.next = o.next /\ r1.setting = o.setting
    BY <2>3 DEF Context
  <2>6. GetBC(id, c, r) \/ GetBC(id, c, r0) \/ GetBC(id, c, r1)
    BY <2>1 DEF r, o
  <2> HIDE DEF r0, r1
  <2>7. QED
    BY <1>1, <2>3, <2>4, <2>5, <2>6 DEF o
<1>4. CASE \E s \in Settings, v \in Values : Configure(id, s, v)
  <2>1. PICK s \in Settings, v \in Values, c \in Obtainable(id) :
           GetBC(id, c, [Obtained(id, c) EXCEPT !.setting[s] = v])
    BY <1>4 DEF Configure
  <2> DEFINE o == Obtained(id, c)
             r == [o EXCEPT !.setting[s] = v]
  <2>2. o \in Context /\ o.bcid = id
    BY <1>1
  <2> HIDE DEF o
  <2>3. /\ r \in Context /\ r.bcid = id /\ r.next = o.next /\ r.text = o.text
        /\ r.setting = [o.setting EXCEPT ![s] = v]
    BY <2>2 DEF Context
  <2>4. GetBC(id, c, r)
    BY <2>1 DEF o
  <2> HIDE DEF r
  <2>5. QED
    BY <1>1, <2>3, <2>4 DEF o
<1>5. QED
  BY <1>2, <1>3, <1>4

LEMMA FreeBCInv == ASSUME IInv, NEW id \in Ids, FreeBC(id) PROVE IInv'
<1>1. PICK nb, b, nf, f : InRows(nb, b, nf, f)
  BY RowsThere
<1>2. /\ freeing' = [bcid |-> id, prev |-> Null, bc |-> bucket]
      /\ bucket' = bucket /\ freebc' = freebc /\ ctx' = ctx
  BY DEF FreeBC
<1>3. TypeOK'
  BY <1>2 DEF IInv, TypeOK, Walk, Pointer
<1>4. 1 \in 1 .. (nb + 1) /\ freeing'.bc = Link(nb, b, 1) /\ freeing'.prev = Null
  BY <1>1, <1>2 DEF InRows, Linked
<1>5. WalkIn(freeing', nb, b, nf, f)
  BY <1>4 DEF WalkIn
<1>6. QED
  BY <1>1, <1>2, <1>3, <1>5, RowsNext DEF InRows

LEMMA FreeSkipInv == ASSUME IInv, FreeSkip PROVE IInv'
<1>1. PICK nb, b, nf, f : InRows(nb, b, nf, f)
  BY RowsThere
<1>2. /\ freeing # Null /\ freeing.bc # Null
      /\ freeing' = [freeing EXCEPT !.prev = freeing.bc, !.bc = ctx[freeing.bc].next]
      /\ bucket' = bucket /\ freebc' = freebc /\ ctx' = ctx
  BY DEF FreeSkip
<1>3. freeing \in Walk
  BY <1>2 DEF IInv, TypeOK
<1>4. freeing'.prev = freeing.bc /\ freeing'.bc = ctx[freeing.bc].next
  BY <1>2, <1>3 DEF Walk
<1>5. ASSUME NEW n \in Nat, NEW s, NEW head, Linked(ctx, head, n, s),
             NEW k \in 1 .. (n + 1), freeing.bc = Link(n, s, k)
      PROVE  /\ k \in 1 .. n /\ k + 1 \in 1 .. (n + 1)
             /\ freeing.bc = s[k] /\ freeing'.bc = Link(n, s, k + 1)
             /\ freeing'.bc \in Pointer /\ freeing.bc \in Contexts
  <2>1. k \in 1 .. n /\ freeing.bc = s[k]
    BY <1>2, <1>5 DEF Link
  <2>2. QED
    BY <1>4, <1>5, <2>1 DEF Linked, Context
<1>6. CASE \E k \in 1 .. (nb + 1) :
              freeing.bc = Link(nb, b, k) /\ freeing.prev = IF k = 1 THEN Null ELSE b[k - 1]
  <2>1. PICK k \in 1 .. (nb + 1) : freeing.bc = Link(nb, b, k)
    BY <1>6
  <2>2. /\ k \in 1 .. nb /\ k + 1 \in 1 .. (nb + 1)
        /\ freeing.bc = b[k] /\ freeing'.bc = Link(nb, b, k + 1)
        /\ freeing'.bc \in Pointer /\ freeing.bc \in Contexts
    BY <1>1, <1>5, <2>1 DEF InRows
  <2>3. k + 1 # 1 /\ k + 1 - 1 = k
    BY <2>2
  <2>4. WalkIn(freeing', nb, b, nf, f)
    BY <1>4, <2>2, <2>3 DEF WalkIn
  <2>5. TypeOK'
    BY <1>2, <1>3, <2>2 DEF IInv, TypeOK, Walk, Pointer
  <2>6. QED
    BY <1>1, <1>2, <2>4, <2>5, RowsNext DEF InRows
<1>7. CASE \E k \in 1 .. (nf + 1) : freeing.bc = Link(nf, f, k)
  <2>1. PICK k \in 1 .. (nf + 1) : freeing.bc = Link(nf, f, k)
    BY <1>7
  <2>2. /\ k \in 1 .. nf /\ k + 1 \in 1 .. (nf + 1)
        /\ freeing.bc = f[k] /\ freeing'.bc = Link(nf, f, k + 1)
        /\ freeing'.bc \in Pointer /\ freeing.bc \in Contexts
    BY <1>1, <1>5, <2>1 DEF InRows
  <2>3. WalkIn(freeing', nb, b, nf, f)
    BY <2>2 DEF WalkIn
  <2>4. TypeOK'
    BY <1>2, <1>3, <2>2 DEF IInv, TypeOK, Walk, Pointer
  <2>5. QED
    BY <1>1, <1>2, <2>3, <2>4, RowsNext DEF InRows
<1>8. QED
  BY <1>1, <1>2, <1>6, <1>7 DEF InRows, WalkIn

LEMMA FreeEndInv == ASSUME IInv, FreeEnd PROVE IInv'
<1>1. PICK nb, b, nf, f : InRows(nb, b, nf, f)
  BY RowsThere
<1>2. freeing' = Null /\ bucket' = bucket /\ freebc' = freebc /\ ctx' = ctx
  BY DEF FreeEnd
<1>3. TypeOK' /\ WalkIn(freeing', nb, b, nf, f)
  BY <1>2 DEF IInv, TypeOK, WalkIn
<1>4. QED
  BY <1>1, <1>2, <1>3, RowsNext DEF InRows

LEMMA StutterInv == ASSUME IInv, UNCHANGED vars PROVE IInv'
<1>1. PICK nb, b, nf, f : InRows(nb, b, nf, f)
  BY RowsThere
<1>2. freeing' = freeing /\ bucket' = bucket /\ freebc' = freebc /\ ctx' = ctx
  BY DEF vars
<1>3. TypeOK'
  BY <1>2 DEF IInv, TypeOK
<1>4. QED
  BY <1>1, <1>2, <1>3, RowsNext DEF InRows

\* A context that matches is in use: those that are free have no client.
LEMMA MatchIsInUse ==
    ASSUME Zero \notin Ids, IInv, FreeMatch
    PROVE  \E nb, b, nf, f, k :
              /\ InRows(nb, b, nf, f)
              /\ k \in 1 .. nb /\ freeing.bc = b[k]
              /\ freeing.prev = IF k = 1 THEN Null ELSE b[k - 1]
<1>1. PICK nb, b, nf, f : InRows(nb, b, nf, f)
  BY RowsThere
<1>2. /\ freeing # Null /\ freeing.bc # Null /\ ctx[freeing.bc].bcid = freeing.bcid
      /\ freeing.bcid \in Ids /\ nb \in Nat /\ nf \in Nat
      /\ Rows(ctx, nb, b, nf, f) /\ WalkIn(freeing, nb, b, nf, f)
  BY <1>1 DEF FreeMatch, IInv, TypeOK, Walk, InRows
<1>3. ASSUME NEW k \in 1 .. (nf + 1), freeing.bc = Link(nf, f, k)
      PROVE  FALSE
  <2>1. k \in 1 .. nf /\ freeing.bc = f[k]
    BY <1>2, <1>3 DEF Link
  <2>2. ctx[freeing.bc].bcid = Zero
    BY <1>2, <2>1 DEF Rows
  <2>3. QED
    BY <1>2, <2>2
<1>4. PICK k \in 1 .. (nb + 1) :
         freeing.bc = Link(nb, b, k) /\ freeing.prev = IF k = 1 THEN Null ELSE b[k - 1]
  BY <1>2, <1>3 DEF WalkIn
<1>5. k \in 1 .. nb /\ freeing.bc = b[k]
  BY <1>2, <1>4 DEF Link
<1>6. QED
  BY <1>1, <1>4, <1>5

LEMMA FreeMatchInv == ASSUME Zero \notin Ids, IInv, FreeMatch PROVE IInv'
<1>1. PICK nb, b, nf, f, k :
         /\ InRows(nb, b, nf, f)
         /\ k \in 1 .. nb /\ freeing.bc = b[k]
         /\ freeing.prev = IF k = 1 THEN Null ELSE b[k - 1]
  BY MatchIsInUse
<1>2. /\ Linked(ctx, bucket, nb, b) /\ Linked(ctx, freebc, nf, f)
      /\ Rows(ctx, nb, b, nf, f) /\ nb \in Nat /\ nf \in Nat
      /\ b \in [1 .. nb -> Contexts] /\ f \in [1 .. nf -> Contexts]
  BY <1>1 DEF InRows
<1> DEFINE fbc == freeing.bc
           prev == freeing.prev
           unlinked == IF prev = Null THEN ctx ELSE [ctx EXCEPT ![prev].next = ctx[fbc].next]
           x == unlinked[fbc]
           r == [Cleared(x) EXCEPT !.next = freebc]
<1>3. /\ freeing # Null /\ fbc # Null /\ ctx[fbc].bcid = freeing.bcid
      /\ bucket' = IF prev = Null THEN ctx[fbc].next ELSE bucket
      /\ ctx' = [unlinked EXCEPT ![fbc] = r]
      /\ freebc' = fbc
      /\ freeing' = [freeing EXCEPT !.prev = fbc, !.bc = freebc]
  BY DEF FreeMatch
<1>4. /\ freeing \in Walk /\ freeing.bcid \in Ids
      /\ ctx \in [Contexts -> Context \cup {Null}]
      /\ bucket \in Pointer /\ freebc \in Pointer
  BY <1>3 DEF IInv, TypeOK, Walk
<1>5. /\ \A i \in 1 .. nb : b[i] \in Contexts /\ ctx[b[i]] \in Context
      /\ \A i \in 1 .. nf : f[i] \in Contexts /\ ctx[f[i]] \in Context
      /\ \A i, j \in 1 .. nb : b[i] = b[j] => i = j
  BY <1>2 DEF Linked
<1>6. k \in 1 .. nb /\ fbc = b[k] /\ prev = IF k = 1 THEN Null ELSE b[k - 1]
  BY <1>1
<1>8. /\ k \in 1 .. nb /\ fbc = b[k] /\ fbc \in Contexts /\ ctx[fbc] \in Context
      /\ k # 1 => k - 1 \in 1 .. nb
  <2>1. k # 1 => k - 1 \in 1 .. nb
    BY <1>2, <1>6
  <2>2. QED
    BY <1>5, <1>6, <2>1
<1>9. k # 1 => /\ prev = b[k - 1] /\ prev # Null /\ prev \in Contexts
               /\ prev # fbc /\ ctx[prev] \in Context
  <2> SUFFICES ASSUME k # 1
               PROVE  /\ prev = b[k - 1] /\ prev # Null /\ prev \in Contexts
                      /\ prev # fbc /\ ctx[prev] \in Context
    OBVIOUS
  <2>1. prev = b[k - 1] /\ k - 1 \in 1 .. nb /\ k - 1 # k
    BY <1>6, <1>8
  <2>2. QED
    BY <1>5, <1>8, <2>1, NullAssumption
<1>10. (prev = Null) = (k = 1)
  BY <1>6, <1>9
<1>11. ctx[fbc].next \in Pointer
  BY <1>8 DEF Context
<1>12. /\ unlinked \in [Contexts -> Context \cup {Null}]
       /\ \A d \in Contexts : d # prev => unlinked[d] = ctx[d]
       /\ k # 1 => /\ unlinked[prev] \in Context
                   /\ unlinked[prev].next = ctx[fbc].next
                   /\ unlinked[prev].bcid = ctx[prev].bcid
  <2>1. CASE k = 1
    BY <1>4, <1>10, <2>1
  <2>2. CASE k # 1
    <3> DEFINE p == [ctx[prev] EXCEPT !.next = ctx[fbc].next]
    <3>1. p \in Context /\ p.next = ctx[fbc].next /\ p.bcid = ctx[prev].bcid
      BY <1>9, <1>11, <2>2 DEF Context
    <3>2. unlinked = [ctx EXCEPT ![prev] = p]
      BY <1>10, <2>2
    <3> HIDE DEF p, unlinked, prev, fbc
    <3>3. QED
      BY <1>4, <1>9, <2>2, <3>1, <3>2
  <2>3. QED
    BY <2>1, <2>2
<1>13. x = ctx[fbc]
  <2>1. fbc # prev
    BY <1>3, <1>9, <1>10
  <2> HIDE DEF unlinked, prev, fbc
  <2>2. QED
    BY <1>8, <1>12, <2>1
<1> HIDE DEF unlinked
<1>14. r \in Context /\ r.next = freebc /\ r.bcid = Zero /\ r.text = "empty"
  <2>1. x \in Context
    BY <1>8, <1>13
  <2> HIDE DEF x
  <2>2. QED
    BY <1>4, <2>1 DEF Cleared, Context
<1> HIDE DEF r, prev
<1>15. /\ ctx' \in [Contexts -> Context \cup {Null}] /\ ctx'[fbc] = r
       /\ \A d \in Contexts : d # fbc => ctx'[d] = unlinked[d]
  BY <1>3, <1>8, <1>12, <1>14
<1> HIDE DEF fbc
\* What the steps did to the contexts on the two lists.
<1>16. ASSUME NEW i \in 1 .. nb, i # k
       PROVE  /\ b[i] # fbc /\ ctx'[b[i]] \in Context
              /\ ctx'[b[i]].bcid = ctx[b[i]].bcid
              /\ ctx'[b[i]].next = IF i + 1 = k THEN ctx[b[k]].next ELSE ctx[b[i]].next
  <2>1. b[i] # fbc /\ b[i] \in Contexts /\ ctx[b[i]] \in Context
    BY <1>5, <1>8, <1>16
  <2>2. ctx'[b[i]] = unlinked[b[i]]
    BY <1>15, <2>1
  <2>3. CASE i + 1 = k
    <3>1. k # 1 /\ k - 1 = i
      BY <1>2, <2>3
    <3>2. prev = b[i]
      BY <1>9, <3>1
    <3>3. QED
      BY <1>8, <1>12, <2>1, <2>2, <2>3, <3>1, <3>2
  <2>4. CASE i + 1 # k
    <3>1. b[i] # prev
      <4>1. CASE k = 1
        BY <1>10, <2>1, <4>1, NullAssumption
      <4>2. CASE k # 1
        <5>1. prev = b[k - 1] /\ k - 1 \in 1 .. nb /\ i # k - 1
          BY <1>2, <1>8, <1>9, <2>4, <4>2
        <5>2. QED
          BY <1>5, <5>1
      <4>3. QED
        BY <4>1, <4>2
    <3>2. QED
      BY <1>12, <2>1, <2>2, <2>4, <3>1
  <2>5. QED
    BY <2>3, <2>4
<1>17. ASSUME NEW j \in 1 .. nf
       PROVE  f[j] # fbc /\ ctx'[f[j]] = ctx[f[j]]
  <2>1. f[j] # fbc
    BY <1>2, <1>8 DEF Rows
  <2>2. f[j] # prev
    <3>1. CASE k = 1
      BY <1>5, <1>10, <3>1, NullAssumption
    <3>2. CASE k # 1
      BY <1>2, <1>8, <1>9, <3>2 DEF Rows
    <3>3. QED
      BY <3>1, <3>2
  <2>3. QED
    BY <1>5, <1>12, <1>15, <2>1, <2>2
<1> DEFINE t == Without(nb, b, k)
           u == Before(fbc, nf, f)
<1>18. Linked(ctx', bucket', nb - 1, t)
  <2>1. Linked(ctx', IF k = 1 THEN ctx[b[k]].next ELSE bucket, nb - 1, t)
    BY <1>2, <1>8, <1>16, ListShorter
  <2>2. bucket' = IF k = 1 THEN ctx[b[k]].next ELSE bucket
    BY <1>3, <1>8, <1>10 DEF prev, fbc
  <2>3. QED
    BY <2>1, <2>2
<1>19. Linked(ctx', fbc, nf + 1, u)
  <2>1. ctx'[fbc] \in Context /\ ctx'[fbc].next = freebc
    BY <1>14, <1>15
  <2>2. \A i \in 1 .. nf : f[i] # fbc
    BY <1>17
  <2>3. \A i \in 1 .. nf : ctx'[f[i]] = ctx[f[i]]
    BY <1>17
  <2>4. QED
    BY <1>2, <1>8, <2>1, <2>2, <2>3, ListLonger
\* Every element of the shorter row is one of the longer, at another place.
<1>20. /\ \A i \in 1 .. (nb - 1) : \E h \in 1 .. nb :
             h # k /\ t[i] = b[h] /\ h = IF i < k THEN i ELSE i + 1
       /\ \A h \in 1 .. nb : h # k => \E i \in 1 .. (nb - 1) : t[i] = b[h]
  <2>1. ASSUME NEW i \in 1 .. (nb - 1)
        PROVE  /\ (IF i < k THEN i ELSE i + 1) \in 1 .. nb
               /\ (IF i < k THEN i ELSE i + 1) # k
               /\ t[i] = b[IF i < k THEN i ELSE i + 1]
    BY <1>2 DEF Without
  <2>2. ASSUME NEW h \in 1 .. nb, h # k
        PROVE  /\ (IF h < k THEN h ELSE h - 1) \in 1 .. (nb - 1)
               /\ t[IF h < k THEN h ELSE h - 1] = b[h]
    <3>1. CASE h < k
      BY <1>2, <1>8, <3>1 DEF Without
    <3>2. CASE ~ (h < k)
      <4>1. h - 1 \in 1 .. (nb - 1) /\ ~ (h - 1 < k) /\ h - 1 + 1 = h
        BY <1>2, <1>8, <2>2, <3>2
      <4>2. QED
        BY <3>2, <4>1 DEF Without
    <3>3. QED
      BY <3>1, <3>2
  <2> HIDE DEF t
  <2>3. QED
    BY <2>1, <2>2
<1>21. /\ \A j \in 1 .. (nf + 1) : j # 1 => j - 1 \in 1 .. nf /\ u[j] = f[j - 1]
       /\ \A j \in 1 .. nf : j + 1 \in 1 .. (nf + 1) /\ u[j + 1] = f[j]
       /\ 1 \in 1 .. (nf + 1) /\ u[1] = fbc
  BY <1>2 DEF Before
<1> HIDE DEF t, u
<1>22. Rows(ctx', nb - 1, t, nf + 1, u)
  <2>1. ASSUME NEW i \in 1 .. (nb - 1), NEW j \in 1 .. (nf + 1)
        PROVE  t[i] # u[j]
    <3>1. PICK h \in 1 .. nb : h # k /\ t[i] = b[h]
      BY <1>20
    <3>2. CASE j = 1
      BY <1>16, <1>21, <3>1, <3>2
    <3>3. CASE j # 1
      <4>1. j - 1 \in 1 .. nf /\ u[j] = f[j - 1]
        BY <1>21, <3>3
      <4>2. b[h] # f[j - 1]
        BY <1>2, <4>1 DEF Rows
      <4>3. QED
        BY <3>1, <4>1, <4>2
    <3>4. QED
      BY <3>2, <3>3
  <2>2. ASSUME NEW d \in Contexts, ctx'[d] # Null
        PROVE  (\E i \in 1 .. (nb - 1) : d = t[i]) \/ (\E j \in 1 .. (nf + 1) : d = u[j])
    <3>1. CASE d = fbc
      BY <1>21, <3>1
    <3>2. CASE d # fbc
      <4>1. ctx[d] # Null
        <5>1. ctx'[d] = unlinked[d]
          BY <1>15, <3>2
        <5>2. CASE d = prev
          <6>1. k # 1
            BY <1>10, <5>2, NullAssumption
          <6>2. QED
            BY <1>9, <5>2, <6>1, NullAssumption
        <5>3. CASE d # prev
          BY <1>12, <2>2, <5>1, <5>3
        <5>4. QED
          BY <5>2, <5>3
      <4>2. CASE \E i \in 1 .. nb : d = b[i]
        <5>1. PICK h \in 1 .. nb : d = b[h]
          BY <4>2
        <5>2. h # k
          BY <1>8, <3>2, <5>1
        <5>3. QED
          BY <1>20, <5>1, <5>2
      <4>3. CASE \E j \in 1 .. nf : d = f[j]
        BY <1>21, <4>3
      <4>4. QED
        BY <1>2, <4>1, <4>2, <4>3 DEF Rows
    <3>3. QED
      BY <3>1, <3>2
  <2>3. ASSUME NEW i \in 1 .. (nb - 1)
        PROVE  ctx'[t[i]].bcid \in Ids
    <3>1. PICK h \in 1 .. nb : h # k /\ t[i] = b[h]
      BY <1>20
    <3>2. QED
      BY <1>2, <1>16, <3>1 DEF Rows
  <2>4. ASSUME NEW i \in 1 .. (nb - 1), NEW j \in 1 .. (nb - 1),
               ctx'[t[i]].bcid = ctx'[t[j]].bcid
        PROVE  i = j
    <3>1. PICK h \in 1 .. nb : h # k /\ t[i] = b[h] /\ h = IF i < k THEN i ELSE i + 1
      BY <1>20
    <3>2. PICK g \in 1 .. nb : g # k /\ t[j] = b[g] /\ g = IF j < k THEN j ELSE j + 1
      BY <1>20
    <3>3. ctx[b[h]].bcid = ctx[b[g]].bcid
      BY <1>16, <2>4, <3>1, <3>2
    <3>4. h = g
      BY <1>2, <3>3 DEF Rows
    <3>5. i \in Int /\ j \in Int /\ k \in Int
      BY <1>2, <1>6
    <3>6. QED
      BY <3>1, <3>2, <3>4, <3>5
  <2>5. ASSUME NEW j \in 1 .. (nf + 1)
        PROVE  ctx'[u[j]].bcid = Zero /\ ctx'[u[j]].text = "empty"
    <3>1. CASE j = 1
      BY <1>14, <1>15, <1>21, <3>1
    <3>2. CASE j # 1
      <4>1. j - 1 \in 1 .. nf /\ u[j] = f[j - 1]
        BY <1>21, <3>2
      <4>2. QED
        BY <1>2, <1>17, <4>1 DEF Rows
    <3>3. QED
      BY <3>1, <3>2
  <2>6. QED
    BY <2>1, <2>2, <2>3, <2>4, <2>5 DEF Rows
<1>23. freeing' \in Walk /\ freeing'.bc = freebc
  <2>1. fbc \in Pointer
    BY <1>8 DEF Pointer
  <2>2. freeing' = [freeing EXCEPT !.prev = fbc, !.bc = freebc]
    BY <1>3 DEF fbc
  <2>3. QED
    BY <1>4, <2>1, <2>2 DEF Walk
<1>24. WalkIn(freeing', nb - 1, t, nf + 1, u)
  <2>1. freebc = Link(nf + 1, u, 2)
    BY <1>2, <1>21 DEF Linked, Link
  <2>2. 2 \in 1 .. (nf + 1 + 1)
    BY <1>2
  <2>3. QED
    BY <1>23, <2>1, <2>2 DEF WalkIn
<1>25. TypeOK'
  <2>1. bucket' \in Pointer /\ freebc' \in Pointer
    BY <1>3, <1>4, <1>8, <1>11 DEF Pointer, fbc
  <2>2. QED
    BY <1>15, <1>23, <2>1 DEF TypeOK
<1>26. freebc' = fbc
  BY <1>3 DEF fbc
<1>27. QED
  BY <1>18, <1>19, <1>22, <1>24, <1>25, <1>26, RowsNext

LEMMA NextInv == ASSUME Zero \notin Ids, IInv, [Next]_vars PROVE IInv'
<1>1. ASSUME NEW id \in Ids,
             \/ Query(id)
             \/ Edit(id)
             \/ \E s \in Settings, v \in Values : Configure(id, s, v)
      PROVE  IInv'
  BY <1>1, CallsAre, GetBCInv
<1>2. QED
  BY <1>1, FreeBCInv, FreeMatchInv, FreeSkipInv, FreeEndInv, StutterInv DEF Next, FreeStep

\* The inductive invariant holds in every run, when no client is number 0.
THEOREM Invariant == ASSUME Zero \notin Ids PROVE Spec => []IInv
<1>1. IInv /\ [Next]_vars => IInv'
  BY NextInv
<1>2. QED
  BY <1>1, InitInv, PTL DEF Spec

\* bucket, freebc, the contexts and the walk of bimsFreeBC have their types.
THEOREM TypeCorrect == ASSUME Zero \notin Ids PROVE Spec => []TypeOK
<1>1. IInv => TypeOK
  BY DEF IInv
<1>2. QED
  BY <1>1, Invariant, PTL

LEMMA ListsFromRows == IInv => ListsPartitionContexts
<1> SUFFICES ASSUME IInv PROVE ListsPartitionContexts
  OBVIOUS
<1>1. PICK nb, b, nf, f : InRows(nb, b, nf, f)
  BY RowsThere
<1>2. /\ Members(bucket) = {b[i] : i \in 1 .. nb}
      /\ Nth(bucket)[Cardinality(Contexts)] = Null
  BY <1>1, MembersAreRow DEF InRows
<1>3. /\ Members(freebc) = {f[i] : i \in 1 .. nf}
      /\ Nth(freebc)[Cardinality(Contexts)] = Null
  BY <1>1, MembersAreRow DEF InRows
<1>4. Members(bucket) \cap Members(freebc) = {}
  BY <1>1, <1>2, <1>3 DEF InRows, Rows
<1>5. Members(bucket) \cup Members(freebc) \subseteq Allocated
  BY <1>1, <1>2, <1>3, NullAssumption DEF InRows, Linked, Allocated
<1>6. Allocated \subseteq Members(bucket) \cup Members(freebc)
  BY <1>1, <1>2, <1>3 DEF InRows, Rows, Allocated
<1>7. QED
  BY <1>2, <1>3, <1>4, <1>5, <1>6 DEF ListsPartitionContexts, IInv

\* At every step of the surgery bimsFreeBC does on the lists, and after every
\* bimsGetBC, each context that was ever made is on exactly one of the two
\* lists, and both lists end.
THEOREM ListsPartition == ASSUME Zero \notin Ids PROVE Spec => []ListsPartitionContexts
BY ListsFromRows, Invariant, PTL

LEMMA OwnersFromRows == IInv => OneContextPerClient
<1> SUFFICES ASSUME IInv PROVE OneContextPerClient
  OBVIOUS
<1>1. PICK nb, b, nf, f : InRows(nb, b, nf, f)
  BY RowsThere
<1>2. ASSUME NEW id \in Ids, NEW c \in Owned(id), NEW d \in Owned(id)
      PROVE  c = d
  <2>1. PICK i \in 1 .. nb : c = b[i] /\ ctx[c].bcid = id
    BY <1>1, OwnedInRow
  <2>2. PICK j \in 1 .. nb : d = b[j] /\ ctx[d].bcid = id
    BY <1>1, OwnedInRow
  <2>3. i = j
    BY <1>1, <2>1, <2>2 DEF InRows, Rows
  <2>4. QED
    BY <2>1, <2>2, <2>3
<1>3. Members(freebc) = {f[i] : i \in 1 .. nf}
  BY <1>1, MembersAreRow DEF InRows
<1>4. \A c \in Members(freebc) : ctx[c].bcid = Zero /\ ctx[c].text = "empty"
  BY <1>1, <1>3 DEF InRows, Rows
<1>5. QED
  BY <1>2, <1>4 DEF OneContextPerClient

\* bimsGetBC never finds two contexts for a client, and what bimsFreeBC put on
\* the free list belongs to nobody and holds no text.
THEOREM OneContext == ASSUME Zero \notin Ids PROVE Spec => []OneContextPerClient
BY OwnersFromRows, Invariant, PTL

-----------------------------------------------------------------------------
(* The lists implement the table of clients *)

\* The contexts of an identifier, whatever list they are on.
Holders(id) == {c \in Contexts : ctx[c] # Null /\ ctx[c].bcid = id}

Content(c) == [setting |-> ctx[c].setting, text |-> ctx[c].text]

\* What Table shows of a client is the content of its one context.
ShownIsContent ==
    \A id \in Ids :
        /\ Owned(id) = Holders(id)
        /\ Holders(id) = {} => Shown[id] = Null
        /\ \A c \in Holders(id) : Holders(id) = {c} /\ Shown[id] = Content(c)

LEMMA ShownFromRows == Zero \notin Ids /\ IInv => ShownIsContent
<1> SUFFICES ASSUME Zero \notin Ids, IInv, NEW id \in Ids
             PROVE  /\ Owned(id) = Holders(id)
                    /\ Holders(id) = {} => Shown[id] = Null
                    /\ \A c \in Holders(id) : Holders(id) = {c} /\ Shown[id] = Content(c)
  BY DEF ShownIsContent
<1>1. PICK nb, b, nf, f : InRows(nb, b, nf, f)
  BY RowsThere
<1>2. Owned(id) = {c \in {b[i] : i \in 1 .. nb} : ctx[c].bcid = id}
  BY <1>1, OwnedInRow
<1>3. Owned(id) = Holders(id)
  <2>1. Owned(id) \subseteq Holders(id)
    BY <1>1, <1>2, NullAssumption DEF InRows, Linked, Holders
  <2>2. ASSUME NEW c \in Holders(id) PROVE c \in Owned(id)
    <3>1. c \in Contexts /\ ctx[c] # Null /\ ctx[c].bcid = id
      BY DEF Holders
    <3>2. \E i \in 1 .. nb : c = b[i]
      BY <1>1, <3>1 DEF InRows, Rows
    <3>3. QED
      BY <1>2, <3>1, <3>2
  <2>3. QED
    BY <2>1, <2>2
<1>4. \A c \in Holders(id) : Holders(id) = {c}
  BY <1>3, OwnersFromRows DEF OneContextPerClient
<1>5. Owned(id) = {} => Shown[id] = Null
  BY DEF Shown
<1>6. ASSUME NEW c \in Holders(id) PROVE Shown[id] = Content(c)
  <2>1. Owned(id) = {c}
    BY <1>3, <1>4
  <2>2. (CHOOSE d \in Owned(id) : TRUE) = c
    BY <2>1
  <2>3. QED
    BY <2>1, <2>2 DEF Shown, Content
<1>7. QED
  BY <1>3, <1>4, <1>5, <1>6

\* A client whose context is left alone is shown as before.
LEMMA OthersShown ==
    ASSUME ShownIsContent, ShownIsContent', NEW id \in Ids,
           Holders(id)' = Holders(id),
           \A c \in Holders(id) : ctx'[c].setting = ctx[c].setting /\ ctx'[c].text = ctx[c].text
    PROVE  Shown'[id] = Shown[id]
<1>1. CASE Holders(id) = {}
  BY <1>1 DEF ShownIsContent
<1>2. CASE Holders(id) # {}
  <2>1. PICK c : c \in Holders(id)
    BY <1>2
  <2>2. Shown[id] = Content(c)
    BY <2>1 DEF ShownIsContent
  <2>3. Shown'[id] = Content(c)'
    BY <2>1 DEF ShownIsContent
  <2>4. Content(c)' = Content(c)
    BY <2>1 DEF Content
  <2>5. QED
    BY <2>2, <2>3, <2>4
<1>3. QED
  BY <1>1, <1>2

LEMMA InitImplements == Init => Table!Init
<1> SUFFICES ASSUME Init PROVE Table!Init
  OBVIOUS
<1>1. PICK nb, b, nf, f : InRows(nb, b, nf, f)
  BY InitInv, RowsThere
<1>2. \A id \in Ids : Owned(id) = {}
  <2>1. nb = 0
    BY <1>1, NullAssumption DEF InRows, Linked, Link, Init
  <2>2. QED
    BY <1>1, <2>1, OwnedInRow
<1>3. QED
  BY <1>2 DEF Shown, Table!Init

\* A call is an entry of the client, if it has no context, and otherwise sets
\* its text or one of its settings.
LEMMA CallImplements ==
    ASSUME Zero \notin Ids, IInv, ShownIsContent, ShownIsContent', NEW id \in Ids,
           \/ Query(id)
           \/ Edit(id)
           \/ \E s \in Settings, v \in Values : Configure(id, s, v)
    PROVE  Table!Next
<1>1. PICK c \in Obtainable(id), r \in Context :
         /\ c \in Contexts
         /\ r.bcid = id /\ r.next = Obtained(id, c).next /\ GetBC(id, c, r)
         /\ \/ r.setting = Obtained(id, c).setting
            \/ /\ r.text = Obtained(id, c).text
               /\ \E s \in Settings, v \in Values :
                     r.setting = [Obtained(id, c).setting EXCEPT ![s] = v]
  BY CallsAre
<1>2. /\ ctx' = [ctx EXCEPT ![c] = r] /\ ctx \in [Contexts -> Context \cup {Null}]
      /\ Owned(id) = Holders(id)
  BY <1>1 DEF GetBC, IInv, TypeOK, ShownIsContent
<1>3. ctx'[c] = r /\ r # Null /\ \A d \in Contexts : d # c => ctx'[d] = ctx[d]
  BY <1>1, <1>2, NullAssumption
\* No other client holds what bimsGetBC returns.
<1>4. ASSUME NEW j \in Ids, j # id PROVE c \notin Holders(j)
  <2>1. CASE Owned(id) # {}
    BY <1>1, <1>2, <1>4, <2>1 DEF Obtainable, Holders
  <2>2. CASE Owned(id) = {} /\ freebc # Null
    <3>1. PICK nb, b, nf, f : InRows(nb, b, nf, f)
      BY RowsThere
    <3>2. c = f[1] /\ 1 \in 1 .. nf
      BY <1>1, <2>2, <3>1 DEF Obtainable, InRows, Linked, Link
    <3>3. ctx[c].bcid = Zero
      BY <3>1, <3>2 DEF InRows, Rows
    <3>4. QED
      BY <3>3 DEF Holders
  <2>3. CASE Owned(id) = {} /\ freebc = Null
    BY <1>1, <2>3 DEF Obtainable, Holders
  <2>4. QED
    BY <2>1, <2>2, <2>3
<1>5. ASSUME NEW j \in Ids, j # id PROVE Shown'[j] = Shown[j]
  <2>1. \A d \in Contexts : d \in Holders(j)' <=> d \in Holders(j)
    <3> SUFFICES ASSUME NEW d \in Contexts
                 PROVE  d \in Holders(j)' <=> d \in Holders(j)
      OBVIOUS
    <3>1. CASE d = c
      BY <1>1, <1>3, <1>4, <1>5, <3>1 DEF Holders
    <3>2. CASE d # c
      BY <1>3, <3>2 DEF Holders
    <3>3. QED
      BY <3>1, <3>2
  <2>2. Holders(j)' = Holders(j)
    BY <2>1 DEF Holders
  <2>3. \A d \in Holders(j) : ctx'[d] = ctx[d]
    BY <1>3, <1>4, <1>5 DEF Holders
  <2>4. QED
    BY <1>5, <2>2, <2>3, OthersShown
<1> DEFINE now == [setting |-> r.setting, text |-> r.text]
<1>6. Shown'[id] = now
  <2>1. c \in Holders(id)'
    BY <1>1, <1>3 DEF Holders
  <2>2. Shown'[id] = Content(c)'
    BY <2>1 DEF ShownIsContent
  <2>3. QED
    BY <1>3, <2>2 DEF Content
<1>7. DOMAIN Shown = Ids /\ DOMAIN Shown' = Ids
  BY DEF Shown
<1>8. Shown' = [Shown EXCEPT ![id] = now]
  <2>1. Shown' = [j \in Ids |-> Shown'[j]] /\ Shown = [j \in Ids |-> Shown[j]]
    BY DEF Shown
  <2>2. \A j \in Ids : Shown'[j] = IF j = id THEN now ELSE Shown[j]
    BY <1>5, <1>6
  <2> HIDE DEF now
  <2>3. QED
    BY <1>7, <2>1, <2>2
<1>9. now \in Table!Client
  BY DEF Context, Table!Client
<1>10. CASE Owned(id) = {}
  <2>1. Shown[id] = Null
    BY <1>2, <1>10 DEF ShownIsContent
  <2>2. Table!Join(id)
    BY <1>8, <1>9, <2>1 DEF Table!Join
  <2>3. QED
    BY <2>2 DEF Table!Next
<1>11. CASE Owned(id) # {}
  <2>1. c \in Holders(id) /\ ctx[c] # Null /\ ctx[c] \in Context
    BY <1>1, <1>2, <1>11 DEF Obtainable, Holders
  <2>2. Shown[id] = [setting |-> ctx[c].setting, text |-> ctx[c].text]
    BY <2>1 DEF ShownIsContent, Content
  <2>3. Obtained(id, c).setting = ctx[c].setting /\ Obtained(id, c).text = ctx[c].text
    BY <1>1, <2>1, ObtainedIs DEF IInv
  <2>4. Shown[id] # Null
    <3>1. Shown[id] \in Holding
      BY <2>1, <2>2 DEF Holding, Context
    <3>2. QED
      BY <3>1, NullAssumption
  <2>5. CASE r.setting = Obtained(id, c).setting
    <3>1. [Shown EXCEPT ![id].text = r.text] = [Shown EXCEPT ![id] = now]
      <4>1. [Shown[id] EXCEPT !.text = r.text] = now
        BY <2>2, <2>3, <2>5
      <4> HIDE DEF now
      <4>2. QED
        BY <4>1
    <3>2. r.text \in {"empty", "typed"}
      BY DEF Context
    <3>3. Table!Edit(id)
      BY <1>8, <2>4, <3>1, <3>2 DEF Table!Edit
    <3>4. QED
      BY <3>3 DEF Table!Next
  <2>6. CASE /\ r.text = Obtained(id, c).text
             /\ \E s \in Settings, v \in Values :
                   r.setting = [Obtained(id, c).setting EXCEPT ![s] = v]
    <3>1. PICK s \in Settings, v \in Values : r.setting = [ctx[c].setting EXCEPT ![s] = v]
      BY <2>3, <2>6
    <3>2. [Shown EXCEPT ![id].setting[s] = v] = [Shown EXCEPT ![id] = now]
      <4>1. [Shown[id] EXCEPT !.setting[s] = v] = now
        BY <2>2, <2>3, <2>6, <3>1
      <4> HIDE DEF now
      <4>2. QED
        BY <4>1
    <3>3. Table!Configure(id, s)
      BY <1>8, <2>4, <3>2 DEF Table!Configure
    <3>4. QED
      BY <3>3 DEF Table!Next
  <2>7. QED
    BY <1>1, <2>5, <2>6
<1>12. QED
  BY <1>10, <1>11

\* The context of the client goes to the free list: the client leaves.
LEMMA FreeMatchImplements ==
    ASSUME Zero \notin Ids, IInv, ShownIsContent, ShownIsContent', FreeMatch
    PROVE  Table!Next
<1>0. PICK id \in Ids : id = freeing.bcid
  BY DEF FreeMatch, IInv, TypeOK, Walk
<1> DEFINE fbc == freeing.bc
           prev == freeing.prev
           unlinked == IF prev = Null THEN ctx ELSE [ctx EXCEPT ![prev].next = ctx[fbc].next]
           r == [Cleared(unlinked[fbc]) EXCEPT !.next = freebc]
<1>1. PICK nb, b, nf, f, k :
         /\ InRows(nb, b, nf, f)
         /\ k \in 1 .. nb /\ freeing.bc = b[k]
         /\ freeing.prev = IF k = 1 THEN Null ELSE b[k - 1]
  BY MatchIsInUse
<1>2. /\ fbc # Null /\ ctx[fbc].bcid = id
      /\ ctx' = [unlinked EXCEPT ![fbc] = r]
      /\ ctx \in [Contexts -> Context \cup {Null}] /\ freebc \in Pointer
  BY <1>0 DEF FreeMatch, IInv, TypeOK
<1>3. /\ nb \in Nat /\ b \in [1 .. nb -> Contexts]
      /\ \A i \in 1 .. nb : ctx[b[i]] \in Context
      /\ \A i, j \in 1 .. nb : b[i] = b[j] => i = j
  BY <1>1 DEF InRows, Linked
<1>4. fbc \in Contexts /\ ctx[fbc] \in Context /\ ctx[fbc] # Null
  BY <1>1, <1>3, NullAssumption
<1>5. prev # Null => prev \in Contexts /\ ctx[prev] \in Context /\ prev # fbc
  <2> SUFFICES ASSUME prev # Null
               PROVE  prev \in Contexts /\ ctx[prev] \in Context /\ prev # fbc
    OBVIOUS
  <2>1. k # 1 /\ prev = b[k - 1]
    BY <1>1
  <2>2. k - 1 \in 1 .. nb /\ k - 1 # k
    BY <1>1, <1>3, <2>1
  <2>3. QED
    BY <1>1, <1>3, <2>1, <2>2
<1>6. /\ unlinked \in [Contexts -> Context \cup {Null}] /\ unlinked[fbc] = ctx[fbc]
      /\ \A d \in Contexts :
            /\ unlinked[d] # Null <=> ctx[d] # Null
            /\ ctx[d] # Null => /\ unlinked[d].bcid = ctx[d].bcid
                                /\ unlinked[d].setting = ctx[d].setting
                                /\ unlinked[d].text = ctx[d].text
  <2>1. CASE prev = Null
    BY <1>2, <2>1
  <2>2. CASE prev # Null
    <3> DEFINE p == [ctx[prev] EXCEPT !.next = ctx[fbc].next]
    <3>1. ctx[fbc].next \in Pointer
      BY <1>4 DEF Context
    <3>2. /\ p \in Context /\ p.bcid = ctx[prev].bcid
          /\ p.setting = ctx[prev].setting /\ p.text = ctx[prev].text
      BY <1>5, <2>2, <3>1 DEF Context
    <3>3. p # Null /\ ctx[prev] # Null
      BY <1>5, <2>2, <3>2, NullAssumption
    <3>4. unlinked = [ctx EXCEPT ![prev] = p]
      BY <2>2
    <3> HIDE DEF p, unlinked, prev, fbc
    <3>5. QED
      BY <1>2, <1>4, <1>5, <2>2, <3>2, <3>3, <3>4
  <2>3. QED
    BY <2>1, <2>2
<1> HIDE DEF unlinked
<1>7. r \in Context /\ r.bcid = Zero
  BY <1>2, <1>4, <1>6 DEF Cleared, Context
<1> HIDE DEF r
<1>8. ctx'[fbc] = r /\ \A d \in Contexts : d # fbc => ctx'[d] = unlinked[d]
  BY <1>2, <1>4, <1>6
<1> HIDE DEF fbc, prev
<1>9. fbc \in Holders(id)
  BY <1>2, <1>4 DEF Holders
<1>10. Holders(id)' = {}
  <2>1. ASSUME NEW d \in Contexts, ctx'[d] # Null, ctx'[d].bcid = id
        PROVE  FALSE
    <3>1. d # fbc
      BY <1>2, <1>7, <1>8, <2>1
    <3>2. d \in Holders(id)
      BY <1>6, <1>8, <2>1, <3>1 DEF Holders
    <3>3. Holders(id) = {fbc}
      BY <1>2, <1>9 DEF ShownIsContent
    <3>4. QED
      BY <3>1, <3>2, <3>3
  <2>2. {d \in Contexts : ctx'[d] # Null /\ ctx'[d].bcid = id} = {}
    BY <2>1
  <2>3. QED
    BY <2>2 DEF Holders
<1>11. Shown'[id] = Null
  BY <1>2, <1>10 DEF ShownIsContent
<1>12. ASSUME NEW j \in Ids, j # id PROVE Shown'[j] = Shown[j]
  <2>1. \A d \in Contexts : d \in Holders(j)' <=> d \in Holders(j)
    <3> SUFFICES ASSUME NEW d \in Contexts
                 PROVE  d \in Holders(j)' <=> d \in Holders(j)
      OBVIOUS
    <3>1. CASE d = fbc
      BY <1>2, <1>7, <1>8, <1>12, <3>1 DEF Holders
    <3>2. CASE d # fbc
      BY <1>6, <1>8, <3>2 DEF Holders
    <3>3. QED
      BY <3>1, <3>2
  <2>2. Holders(j)' = Holders(j)
    BY <2>1 DEF Holders
  <2>3. \A d \in Holders(j) : ctx'[d].setting = ctx[d].setting /\ ctx'[d].text = ctx[d].text
    BY <1>2, <1>6, <1>8, <1>12 DEF Holders
  <2>4. QED
    BY <1>12, <2>2, <2>3, OthersShown
<1>13. Shown' = [Shown EXCEPT ![id] = Null]
  <2>1. Shown' = [j \in Ids |-> Shown'[j]] /\ Shown = [j \in Ids |-> Shown[j]]
    BY DEF Shown
  <2>2. \A j \in Ids : Shown'[j] = IF j = id THEN Null ELSE Shown[j]
    BY <1>11, <1>12
  <2>3. QED
    BY <1>2, <2>1, <2>2
<1>14. Shown[id] # Null
  <2>1. Shown[id] = Content(fbc)
    BY <1>2, <1>9 DEF ShownIsContent
  <2>2. Content(fbc) \in Holding
    BY <1>4 DEF Content, Holding, Context
  <2>3. QED
    BY <2>1, <2>2, NullAssumption
<1>15. Table!Leave(id)
  BY <1>13, <1>14 DEF Table!Leave
<1>16. QED
  BY <1>2, <1>15 DEF Table!Next

LEMMA StepImplements ==
    ASSUME Zero \notin Ids, IInv, ShownIsContent, ShownIsContent', [Next]_vars
    PROVE  Table!Next \/ Shown' = Shown
<1>1. ASSUME NEW id \in Ids,
             \/ Query(id)
             \/ Edit(id)
             \/ \E s \in Settings, v \in Values : Configure(id, s, v)
      PROVE  Table!Next
  BY <1>1, CallImplements
<1>2. CASE FreeMatch
  BY <1>2, FreeMatchImplements
<1>3. ASSUME bucket' = bucket, ctx' = ctx
      PROVE  Shown' = Shown
  BY <1>3 DEF Shown, Owned, Members, Nth
<1>4. QED
  BY <1>1, <1>2, <1>3 DEF Next, FreeStep, FreeBC, FreeSkip, FreeEnd, vars

\* Every call made for a client, and every step of bimsFreeBC, enters or
\* changes or takes away the context of that one client and of no other, or
\* does nothing a client could see: the two lists implement the table.
THEOREM ListsImplementTable == ASSUME Zero \notin Ids PROVE Spec => ImplementsClientTable
<1>1. IInv => ShownIsContent
  BY ShownFromRows
<1>2. IInv /\ ShownIsContent /\ ShownIsContent' /\ [Next]_vars
         => [Table!Next]_Shown
  BY StepImplements
<1>3. QED
  BY <1>1, <1>2, InitImplements, Invariant, PTL DEF Spec, ImplementsClientTable, Table!Spec
=============================================================================
