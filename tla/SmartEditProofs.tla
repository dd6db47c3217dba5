--------------------------- MODULE SmartEditProofs ----------------------------
(***************************************************************************)
(* Theorems about SmartEdit: for every dictionary, every use count and     *)
(* buffers of any length, the words bimsContextDP cuts are end to end, are *)
(* words of the dictionary that respect pins and boundaries, and the text  *)
(* shows what the user pinned.                                             *)
(***************************************************************************)
EXTENDS SmartEdit, SequenceTheorems, WellFoundedInduction, TLAPS

\* The buffer is a sequence: its length is a number.
BufferLength == yinlen \in Nat

\* Every syllable before yinhead belongs to a word.
SegmentsCover ==
    \A p \in 0 .. (yinhead - 1) : \E k \in DOMAIN ysinfo : Covers(ysinfo[k], p)

\* The combinations left over from earlier turns leave several best ones, or
\* there are none.
LeftoversTie == \A c \in comb : Best(comb) # {c}

IInv ==
    /\ TypeOK
    /\ BufferLength
    /\ SegmentsTile
    /\ SegmentsCover
    /\ WordsUsable
    /\ LeftoversTie
    /\ PinsShown

-----------------------------------------------------------------------------
(* Numbers *)

\* Every nonempty set of natural numbers has a least element.
LEMMA LeastNumber ==
    ASSUME NEW T \in SUBSET Nat, T # {}
    PROVE  \E n \in T : \A m \in T : n <= m
<1>1. IsWellFoundedOn(OpToRel(<, Nat), Nat)
  BY NatLessThanWellFounded
<1>2. PICK n \in T : \A m \in T : <<m, n>> \notin OpToRel(<, Nat)
  BY <1>1, WFMin
<1>3. \A m \in T : ~ (m < n)
  BY <1>2 DEF OpToRel
<1>4. QED
  BY <1>3

\* Among finitely many indices with a count there is one that no other one
\* beats: the largest count, and the last index of that count.
LEMMA MostUsed ==
    ASSUME NEW n \in Nat, NEW S \in SUBSET (1 .. n), S # {}, NEW f,
           \A i \in S : f[i] \in Nat
    PROVE  \E i \in S : \A j \in S : f[j] < f[i] \/ (f[j] = f[i] /\ j <= i)
<1> DEFINE Upto(k) == S \cap (1 .. k)
           Max(k) == \E i \in Upto(k) :
                        \A j \in Upto(k) : f[j] < f[i] \/ (f[j] = f[i] /\ j <= i)
           T == {k \in Nat : Upto(k) # {} /\ ~ Max(k)}
<1>1. T = {}
  <2>1. SUFFICES ASSUME T # {} PROVE FALSE
    OBVIOUS
  <2>2. PICK k \in T : \A m \in T : k <= m
    <3>1. T \in SUBSET Nat
      OBVIOUS
    <3> HIDE DEF T
    <3>2. QED
      BY <2>1, <3>1, LeastNumber
  <2>3. k \in Nat /\ Upto(k) # {} /\ ~ Max(k)
    OBVIOUS
  <2>4. k # 0
    BY <2>3
  <2>5. k - 1 \in Nat /\ k - 1 \notin T
    BY <2>2, <2>3, <2>4
  <2>6. Upto(k) = IF k \in S THEN Upto(k - 1) \cup {k} ELSE Upto(k - 1)
    BY <2>3, <2>4
  <2>7. CASE Upto(k - 1) = {}
    <3>1. Upto(k) = {k}
      BY <2>3, <2>6, <2>7
    <3>2. Max(k)
      BY <3>1
    <3>3. QED
      BY <2>3, <3>2
  <2>8. CASE Upto(k - 1) # {}
    <3>1. PICK i \in Upto(k - 1) :
             \A j \in Upto(k - 1) : f[j] < f[i] \/ (f[j] = f[i] /\ j <= i)
      BY <2>5, <2>8
    <3>2. i \in S /\ f[i] \in Nat /\ i < k /\ i \in Nat
      BY <2>3
    <3>3. CASE k \notin S
      BY <2>3, <2>6, <3>1, <3>3
    <3>4. CASE k \in S
      <4>1. f[k] \in Nat /\ Upto(k) = Upto(k - 1) \cup {k} /\ k \in Upto(k)
        BY <2>6, <3>4
      <4>2. CASE f[k] >= f[i]
        <5>1. \A j \in Upto(k - 1) : f[j] \in Nat /\ j \in Nat /\ j <= k
          BY <2>3
        <5>2. \A j \in Upto(k) : f[j] < f[k] \/ (f[j] = f[k] /\ j <= k)
          BY <2>3, <3>1, <3>2, <4>1, <4>2, <5>1
        <5>3. QED
          BY <2>3, <4>1, <5>2
      <4>3. CASE f[k] < f[i]
        <5>1. \A j \in Upto(k) : f[j] < f[i] \/ (f[j] = f[i] /\ j <= i)
          BY <3>1, <4>1, <4>3
        <5>2. QED
          BY <2>3, <4>1, <5>1
      <4>4. QED
        BY <3>2, <4>1, <4>2, <4>3
    <3>5. QED
      BY <3>3, <3>4
  <2>9. QED
    BY <2>7, <2>8
<1>2. Upto(n) = S
  OBVIOUS
<1>3. Max(n)
  BY <1>1, <1>2
<1>4. QED
  BY <1>2, <1>3

-----------------------------------------------------------------------------
(* What the rules compare *)

LEMMA PartIs ==
    ASSUME NEW c
    PROVE  /\ Part(c, 1) = c.s2 - c.s1
           /\ Part(c, 2) = c.s3 - c.s2
           /\ Part(c, 3) = c.s1 + c.len - c.s3
<1>1. 2 # 1 /\ 3 # 1 /\ 3 # 2
  OBVIOUS
<1>2. QED
  BY <1>1, Zenon DEF Part

LEMMA FrequencyIsNumber ==
    ASSUME NEW off, NEW n
    PROVE  Frequency(off, n) \in Nat
<1>1. CASE n < 2 \/ Word(off, n) \notin DOMAIN TsiYin
  BY <1>1 DEF Frequency
<1>2. CASE ~ (n < 2 \/ Word(off, n) \notin DOMAIN TsiYin)
  <2> DEFINE phrases == TsiYin[Word(off, n)]
             f == [i \in DOMAIN phrases |-> RefCount[phrases[i]]]
             most == CHOOSE i \in DOMAIN phrases :
                        \A j \in DOMAIN phrases :
                            RefCount[phrases[j]] <= RefCount[phrases[i]]
  <2>1. /\ phrases \in Seq(Seq(Zhi)) /\ Len(phrases) > 0
        /\ \A i \in DOMAIN phrases : RefCount[phrases[i]] \in Nat
    BY <1>2, TsiYinAssumption
  <2>2. Frequency(off, n) = RefCount[phrases[most]]
    BY <1>2 DEF Frequency
  <2> HIDE DEF phrases
  <2>3. DOMAIN phrases = 1 .. Len(phrases) /\ Len(phrases) \in Nat
    BY <2>1, LenProperties
  <2>4. \E i \in DOMAIN phrases :
           \A j \in DOMAIN phrases : f[j] < f[i] \/ (f[j] = f[i] /\ j <= i)
    <3>1. \A i \in DOMAIN phrases : f[i] \in Nat
      BY <2>1
    <3>2. DOMAIN phrases \in SUBSET (1 .. Len(phrases)) /\ DOMAIN phrases # {}
      BY <2>1, <2>3
    <3> HIDE DEF f
    <3>3. QED
      BY <2>3, <3>1, <3>2, MostUsed
  <2>5. \E i \in DOMAIN phrases : \A j \in DOMAIN phrases :
           RefCount[phrases[j]] <= RefCount[phrases[i]]
    <3>1. PICK i \in DOMAIN phrases :
             \A j \in DOMAIN phrases : f[j] < f[i] \/ (f[j] = f[i] /\ j <= i)
      BY <2>4
    <3>2. \A j \in DOMAIN phrases : f[j] = RefCount[phrases[j]] /\ f[j] \in Nat
      BY <2>1
    <3> HIDE DEF f
    <3>3. \A j \in DOMAIN phrases : f[j] <= f[i]
      BY <3>1, <3>2
    <3>4. QED
      BY <3>2, <3>3
  <2>6. most \in DOMAIN phrases
    BY <2>5
  <2>7. QED
    BY <2>1, <2>2, <2>6
<1>3. QED
  BY <1>1, <1>2

\* Two combinations that are at least as good as a third and as each other.
LEMMA BetterIsTransitive ==
    ASSUME NEW a \in Combination, NEW b \in Combination, NEW c \in Combination,
           AtLeastAsGood(a, b), AtLeastAsGood(b, c)
    PROVE  AtLeastAsGood(a, c)
<1> DEFINE Numbers(x) ==
              /\ x.len \in Nat /\ Words(x) \in Nat
              /\ Variance(x) \in Int /\ SumOfFrequencies(x) \in Int
<1>1. ASSUME NEW x \in Combination PROVE Numbers(x)
  <2>1. x.s1 \in Nat /\ x.s2 \in Nat /\ x.s3 \in Nat /\ x.len \in Nat
    BY DEF Combination
  <2>2. Part(x, 1) \in Int /\ Part(x, 2) \in Int /\ Part(x, 3) \in Int
    BY <2>1, PartIs
  <2>3. Words(x) \in Nat
    BY DEF Words
  <2>4. Variance(x) \in Int
    BY <2>2 DEF Variance, Distance
  <2>5. SumOfFrequencies(x) \in Int
    <3>1. /\ Frequency(x.s1, Part(x, 1)) \in Nat
          /\ Frequency(x.s2, Part(x, 2)) \in Nat
          /\ Frequency(x.s3, Part(x, 3)) \in Nat
      BY FrequencyIsNumber
    <3>2. QED
      BY <3>1 DEF SumOfFrequencies
  <2>6. QED
    BY <2>1, <2>3, <2>4, <2>5
<1>2. Numbers(a) /\ Numbers(b) /\ Numbers(c)
  BY <1>1
<1>3. QED
  BY <1>2 DEF AtLeastAsGood

-----------------------------------------------------------------------------
(* Cutting one word more *)

\* What the invariants say of the words cut up to head.
WellCut(segs, head) ==
    /\ segs \in Seq(Segment)
    /\ head \in Nat /\ head <= yinlen
    /\ \A k \in DOMAIN segs :
          /\ segs[k].yinlen > 0
          /\ segs[k].yinoff =
                IF k = 1 THEN 0 ELSE segs[k - 1].yinoff + segs[k - 1].yinlen
          /\ segs[k].yinlen > 1 => Usable(segs[k].yinoff, segs[k].yinlen)
    /\ head = IF segs = << >> THEN 0
              ELSE segs[Len(segs)].yinoff + segs[Len(segs)].yinlen
    /\ \A p \in 0 .. (head - 1) : \E k \in DOMAIN segs : Covers(segs[k], p)

LEMMA OneWordMore ==
    ASSUME yinlen \in Nat, NEW segs, NEW head, WellCut(segs, head),
           NEW n \in Nat, n > 0, head + n <= yinlen, n > 1 => Usable(head, n)
    PROVE  WellCut(Append(segs, [yinoff |-> head, yinlen |-> n]), head + n)
<1> DEFINE e == [yinoff |-> head, yinlen |-> n]
           more == Append(segs, e)
<1>1. segs \in Seq(Segment) /\ head \in Nat /\ head <= yinlen
  BY DEF WellCut
<1>2. e \in Segment /\ e.yinoff = head /\ e.yinlen = n
  BY <1>1 DEF Segment
<1> HIDE DEF e
<1>3. /\ more \in Seq(Segment) /\ Len(more) = Len(segs) + 1
      /\ Len(segs) \in Nat /\ DOMAIN more = 1 .. (Len(segs) + 1)
      /\ DOMAIN segs = 1 .. Len(segs)
      /\ more[Len(segs) + 1] = e
      /\ \A k \in 1 .. Len(segs) : more[k] = segs[k]
  BY <1>1, <1>2
<1> HIDE DEF more
<1>4. \A k \in DOMAIN more :
         /\ more[k].yinlen > 0
         /\ more[k].yinoff =
               IF k = 1 THEN 0 ELSE more[k - 1].yinoff + more[k - 1].yinlen
         /\ more[k].yinlen > 1 => Usable(more[k].yinoff, more[k].yinlen)
  <2> SUFFICES ASSUME NEW k \in DOMAIN more
               PROVE  /\ more[k].yinlen > 0
                      /\ more[k].yinoff =
                            IF k = 1 THEN 0 ELSE more[k - 1].yinoff + more[k - 1].yinlen
                      /\ more[k].yinlen > 1 => Usable(more[k].yinoff, more[k].yinlen)
    OBVIOUS
  <2>1. CASE k \in 1 .. Len(segs)
    <3>1. more[k] = segs[k] /\ (k # 1 => more[k - 1] = segs[k - 1])
      BY <1>3, <2>1
    <3>2. QED
      BY <1>3, <2>1, <3>1 DEF WellCut
  <2>2. CASE k = Len(segs) + 1
    <3>1. more[k] = e
      BY <1>3, <2>2
    <3>2. CASE segs = << >>
      BY <1>2, <1>3, <2>2, <3>1, <3>2 DEF WellCut
    <3>3. CASE segs # << >>
      <4>1. Len(segs) \in 1 .. Len(segs) /\ k # 1 /\ k - 1 = Len(segs)
        BY <1>1, <1>3, <2>2, <3>3
      <4>2. more[k - 1] = segs[Len(segs)]
        BY <1>3, <4>1
      <4>3. QED
        BY <1>2, <3>1, <3>3, <4>1, <4>2 DEF WellCut
    <3>4. QED
      BY <3>2, <3>3
  <2>3. QED
    BY <1>3, <2>1, <2>2
<1>5. more # << >> /\ head + n = more[Len(more)].yinoff + more[Len(more)].yinlen
  BY <1>2, <1>3
<1>6. \A p \in 0 .. (head + n - 1) : \E k \in DOMAIN more : Covers(more[k], p)
  <2> SUFFICES ASSUME NEW p \in 0 .. (head + n - 1)
               PROVE  \E k \in DOMAIN more : Covers(more[k], p)
    OBVIOUS
  <2>1. CASE p \in 0 .. (head - 1)
    <3>1. PICK k \in DOMAIN segs : Covers(segs[k], p)
      BY <2>1 DEF WellCut
    <3>2. k \in DOMAIN more /\ more[k] = segs[k]
      BY <1>3
    <3>3. QED
      BY <3>1, <3>2
  <2>2. CASE p \in head .. (head + n - 1)
    <3>1. Covers(more[Len(segs) + 1], p)
      BY <1>1, <1>2, <1>3, <2>2 DEF Covers
    <3>2. QED
      BY <1>3, <3>1
  <2>3. QED
    BY <1>1, <2>1, <2>2
<1>7. WellCut(more, head + n)
  BY <1>1, <1>3, <1>4, <1>5, <1>6 DEF WellCut
<1>8. QED
  BY <1>7 DEF more, e

LEMMA WellCutBefore ==
    ASSUME IInv
    PROVE  WellCut(ysinfo, yinhead)
BY DEF IInv, TypeOK, SegmentsTile, SegmentsCover, WordsUsable, WellCut

LEMMA WellCutAfter ==
    ASSUME bc' = bc, WellCut(ysinfo', yinhead')
    PROVE  /\ ysinfo' \in Seq(Segment) /\ yinhead' \in Nat
           /\ SegmentsTile' /\ SegmentsCover' /\ WordsUsable'
BY DEF WellCut, SegmentsTile, SegmentsCover, WordsUsable, Usable, Word, Fits,
       Covers, yinlen

\* A combination is of words of the dictionary, and its first one starts at
\* yinhead and ends in the buffer.
LEMMA CombinationsAre ==
    ASSUME yinlen \in Nat, yinhead \in Nat, NEW c \in Combinations
    PROVE  /\ c \in Combination /\ c.s1 = yinhead
           /\ c.s2 - c.s1 \in Nat /\ c.s2 - c.s1 > 0
           /\ yinhead + (c.s2 - c.s1) <= yinlen
           /\ Usable(yinhead, c.s2 - c.s1)
<1> DEFINE rest == yinlen - yinhead
<1>1. PICK n \in (1 .. rest) \X (0 .. rest) \X (0 .. rest) :
         /\ c = [s1 |-> yinhead, s2 |-> yinhead + n[1],
                 s3 |-> yinhead + n[1] + n[2], len |-> n[1] + n[2] + n[3]]
         /\ n[1] + n[2] + n[3] <= rest
         /\ Usable(yinhead, n[1])
  BY DEF Combinations
<1>2. n[1] \in 1 .. rest /\ n[2] \in 0 .. rest /\ n[3] \in 0 .. rest
  OBVIOUS
<1>3. /\ c.s1 = yinhead /\ c.s2 = yinhead + n[1]
      /\ c.s3 = yinhead + n[1] + n[2] /\ c.len = n[1] + n[2] + n[3]
  BY <1>1
<1>4. c \in Combination
  BY <1>1, <1>2 DEF Combination
<1>5. c.s2 - c.s1 = n[1]
  BY <1>2, <1>3
<1>6. QED
  BY <1>1, <1>2, <1>3, <1>4, <1>5

\* When the leftovers tie, the one best of them and the new combinations is a
\* new one: a leftover that is best of all is best of the leftovers, so an
\* equally good one exists.
LEMMA OneBestIsNew ==
    ASSUME comb \subseteq Combination, Combinations \subseteq Combination,
           LeftoversTie, NEW c, Best(comb \cup Combinations) = {c}
    PROVE  c \in Combinations
<1> DEFINE whole == comb \cup Combinations
<1>1. c \in whole /\ \A d \in whole : AtLeastAsGood(c, d)
  BY DEF Best
<1>2. ASSUME c \in comb PROVE FALSE
  <2>1. c \in Best(comb)
    BY <1>1, <1>2 DEF Best
  <2>2. PICK d \in Best(comb) : d # c
    BY <1>2, <2>1 DEF LeftoversTie
  <2>3. d \in comb /\ AtLeastAsGood(d, c)
    BY <1>2 DEF Best
  <2>4. \A b \in whole : AtLeastAsGood(d, b)
    BY <1>1, <1>2, <2>3, BetterIsTransitive
  <2>5. d \in Best(whole)
    BY <2>3, <2>4 DEF Best
  <2>6. QED
    BY <2>2, <2>5
<1>3. QED
  BY <1>1, <1>2

-----------------------------------------------------------------------------
(* The words become text *)

\* A usable word has phrases, each with a character for every syllable, and
\* one of them has the pinned characters.
LEMMA UsableWord ==
    ASSUME bc.yin \in Seq(Yin), NEW off \in Nat, NEW n \in Nat, n > 0,
           Usable(off, n)
    PROVE  /\ TsiYin[Word(off, n)] \in Seq(Seq(Zhi))
           /\ \A i \in DOMAIN TsiYin[Word(off, n)] :
                 /\ Len(TsiYin[Word(off, n)][i]) = n
                 /\ RefCount[TsiYin[Word(off, n)][i]] \in Nat
           /\ \E i \in DOMAIN TsiYin[Word(off, n)] :
                 Fits(TsiYin[Word(off, n)][i], off)
<1>1. Word(off, n) \in DOMAIN TsiYin
  BY DEF Usable
<1>2. Len(Word(off, n)) = n
  BY DEF Word
<1>3. QED
  BY <1>1, <1>2, TsiYinAssumption DEF Usable

\* The phrase of a usable word has a character for every syllable, and the
\* pinned ones are among them.
LEMMA PhraseFits ==
    ASSUME bc.yin \in Seq(Yin), NEW s \in Segment, s.yinlen > 0,
           Usable(s.yinoff, s.yinlen)
    PROVE  /\ PhraseOf(s) \in Seq(Zhi) /\ Len(PhraseOf(s)) = s.yinlen
           /\ Fits(PhraseOf(s), s.yinoff)
<1> DEFINE phrases == TsiYin[Word(s.yinoff, s.yinlen)]
           fitting == {i \in DOMAIN phrases : Fits(phrases[i], s.yinoff)}
           f == [i \in fitting |-> RefCount[phrases[i]]]
           chosen == CHOOSE i \in fitting :
                        \A j \in fitting :
                            \/ RefCount[phrases[j]] < RefCount[phrases[i]]
                            \/ RefCount[phrases[j]] = RefCount[phrases[i]] /\ j <= i
<1>1. s.yinoff \in Nat /\ s.yinlen \in Nat
  BY DEF Segment
<1>2. /\ phrases \in Seq(Seq(Zhi))
      /\ \A i \in DOMAIN phrases :
            Len(phrases[i]) = s.yinlen /\ RefCount[phrases[i]] \in Nat
      /\ fitting # {}
  BY <1>1, UsableWord
<1>3. PhraseOf(s) = phrases[chosen]
  BY <1>2 DEF PhraseOf
<1> HIDE DEF phrases
<1>4. \E i \in fitting : \A j \in fitting : f[j] < f[i] \/ (f[j] = f[i] /\ j <= i)
  <2>1. /\ Len(phrases) \in Nat /\ fitting \in SUBSET (1 .. Len(phrases))
        /\ \A i \in fitting : f[i] \in Nat
    BY <1>2
  <2>2. fitting # {}
    BY <1>2
  <2> HIDE DEF f, fitting
  <2>3. QED
    BY <2>1, <2>2, MostUsed
<1>5. \E i \in fitting :
         \A j \in fitting :
             \/ RefCount[phrases[j]] < RefCount[phrases[i]]
             \/ RefCount[phrases[j]] = RefCount[phrases[i]] /\ j <= i
  <2>1. \A i \in fitting : f[i] = RefCount[phrases[i]]
    OBVIOUS
  <2> HIDE DEF f, fitting
  <2>2. QED
    BY <1>4, <2>1
<1>6. chosen \in fitting
  BY <1>5
<1>7. QED
  BY <1>2, <1>3, <1>6

\* The character at an offset the words cover, pinned or not.
LEMMA CharacterShown ==
    ASSUME bc \in Buffer(yinlen), yinlen \in Nat, WellCut(ysinfo, yinlen),
           NEW i \in 1 .. yinlen
    PROVE  LET char == CharOf(ysinfo[SegmentAt(i - 1)], i - 1)
           IN  /\ char \in Zhi
               /\ bc.pindown[i] # NoPin => char = bc.pindown[i]
<1> DEFINE p == i - 1
           k == SegmentAt(p)
           s == ysinfo[k]
<1>1. p \in 0 .. (yinlen - 1) /\ p + 1 = i /\ p \in Nat
  OBVIOUS
<1>2. k \in DOMAIN ysinfo /\ Covers(s, p)
  BY <1>1 DEF WellCut, SegmentAt
<1>3. /\ s \in Segment /\ s.yinlen > 0
      /\ s.yinlen > 1 => Usable(s.yinoff, s.yinlen)
  BY <1>2 DEF WellCut
<1>4. /\ bc.yin \in [1 .. yinlen -> Yin] /\ bc.pindown \in [1 .. yinlen -> Pin]
      /\ bc.yin \in Seq(Yin)
  BY DEF Buffer
<1>5. bc.pindown[i] # NoPin => bc.pindown[i] \in Zhi
  BY <1>4, ReadingsAssumption DEF Pin
<1>6. s.yinoff \in Nat /\ s.yinlen \in Nat /\ s.yinoff <= p /\ p < s.yinoff + s.yinlen
  BY <1>2, <1>3 DEF Segment, Covers
<1> DEFINE char == CharOf(s, p)
<1> HIDE DEF s, p
<1>7. CASE s.yinlen > 1
  <2> DEFINE j == p - s.yinoff + 1
  <2>1. /\ PhraseOf(s) \in Seq(Zhi) /\ Len(PhraseOf(s)) = s.yinlen
        /\ Fits(PhraseOf(s), s.yinoff)
    BY <1>3, <1>4, <1>7, PhraseFits
  <2>2. j \in 1 .. s.yinlen /\ s.yinoff + j = i
    BY <1>1, <1>6
  <2>3. char = PhraseOf(s)[j]
    BY <1>7 DEF CharOf
  <2> HIDE DEF j
  <2>4. PhraseOf(s)[j] \in Zhi
    BY <2>1, <2>2
  <2>5. bc.pindown[i] # NoPin => PhraseOf(s)[j] = bc.pindown[i]
    BY <2>1, <2>2 DEF Fits
  <2> HIDE DEF char
  <2>6. char \in Zhi /\ (bc.pindown[i] # NoPin => char = bc.pindown[i])
    BY <2>3, <2>4, <2>5
  <2>7. QED
    BY <2>6 DEF char, s, p
<1>8. CASE ~ (s.yinlen > 1)
  <2>1. char = IF bc.pindown[i] # NoPin THEN bc.pindown[i] ELSE ChooseZhi[bc.yin[i]]
    BY <1>1, <1>8 DEF CharOf
  <2>2. bc.yin[i] \in Yin
    BY <1>4
  <2> HIDE DEF char
  <2>3. char \in Zhi /\ (bc.pindown[i] # NoPin => char = bc.pindown[i])
    BY <1>5, <2>1, <2>2, ChooseZhiAssumption
  <2>4. QED
    BY <2>3 DEF char, s, p
<1>9. QED
  BY <1>7, <1>8

-----------------------------------------------------------------------------
(* The invariant *)

LEMMA InitInv == Init => IInv
<1> SUFFICES ASSUME Init PROVE IInv
  OBVIOUS
<1>1. PICK n \in 0 .. MaxLen : bc \in Buffer(n)
  BY DEF Init
<1>2. n \in Nat
  BY MaxLenAssumption
<1>3. Len(bc.yin) = n
  BY <1>1, <1>2 DEF Buffer
<1>4. yinlen \in Nat /\ bc \in Buffer(yinlen)
  BY <1>1, <1>2, <1>3 DEF yinlen
<1>5. yinhead = 0 /\ comb = {} /\ ysinfo = << >> /\ internal_text = << >> /\ pc = "cut"
  BY DEF Init
<1>6. TypeOK
  BY <1>4, <1>5 DEF TypeOK
<1>7. DOMAIN ysinfo = {} /\ 0 .. (yinhead - 1) = {}
  BY <1>5
<1>8. QED
  BY <1>4, <1>5, <1>6, <1>7
  DEF IInv, BufferLength, SegmentsTile, SegmentsCover, WordsUsable, LeftoversTie, PinsShown

\* What is best depends on the buffer only.
LEMMA SameOrder ==
    ASSUME bc' = bc, NEW c, NEW d
    PROVE  AtLeastAsGood(c, d)' <=> AtLeastAsGood(c, d)
BY DEF AtLeastAsGood, SumOfFrequencies, Frequency, Word

LEMMA SameTie ==
    ASSUME bc' = bc
    PROVE  LeftoversTie' <=> \A c \in comb' : Best(comb') # {c}
BY SameOrder DEF LeftoversTie, Best

\* A turn of the loop of bimsContextDP.
LEMMA TurnInv ==
    ASSUME IInv, pc = "cut", UNCHANGED <<bc, internal_text, pc>>,
           WellCut(ysinfo', yinhead'), comb' \subseteq Combination, LeftoversTie'
    PROVE  IInv'
<1>1. /\ ysinfo' \in Seq(Segment) /\ yinhead' \in Nat
      /\ SegmentsTile' /\ SegmentsCover' /\ WordsUsable'
  BY WellCutAfter
<1>2. TypeOK' /\ BufferLength'
  BY <1>1 DEF IInv, TypeOK, BufferLength, yinlen
<1>3. PinsShown'
  BY DEF PinsShown
<1>4. QED
  BY <1>1, <1>2, <1>3 DEF IInv

\* What a turn starts from.
LEMMA TurnStarts ==
    ASSUME IInv
    PROVE  /\ yinlen \in Nat /\ yinhead \in Nat /\ yinhead <= yinlen
           /\ comb \subseteq Combination /\ Combinations \subseteq Combination
           /\ LeftoversTie /\ WellCut(ysinfo, yinhead)
<1>1. yinlen \in Nat /\ yinhead \in Nat /\ yinhead <= yinlen
  BY DEF IInv, TypeOK, BufferLength, SegmentsTile
<1>2. Combinations \subseteq Combination
  BY <1>1, CombinationsAre
<1>3. QED
  BY <1>1, <1>2, WellCutBefore DEF IInv, TypeOK

LEMMA CutLastOneInv == IInv /\ CutLastOne => IInv'
<1> SUFFICES ASSUME IInv, CutLastOne PROVE IInv'
  OBVIOUS
<1>1. WellCut(ysinfo', yinhead')
  BY TurnStarts, OneWordMore DEF CutLastOne, Cut
<1>2. LeftoversTie'
  BY TurnStarts, SameTie DEF CutLastOne, LeftoversTie
<1>3. QED
  BY <1>1, <1>2, TurnStarts, TurnInv DEF CutLastOne

LEMMA CutLastTwoInv == IInv /\ CutLastTwo => IInv'
<1> SUFFICES ASSUME IInv, CutLastTwo PROVE IInv'
  OBVIOUS
<1>1. CASE Usable(yinhead, 2)
  <2>1. WellCut(ysinfo', yinhead')
    <3>1. /\ ysinfo' = Append(ysinfo, [yinoff |-> yinhead, yinlen |-> 2])
          /\ yinhead' = yinhead + 2 /\ yinlen - yinhead = 2
      BY <1>1 DEF CutLastTwo, Cut
    <3>2. yinlen \in Nat /\ WellCut(ysinfo, yinhead) /\ yinhead + 2 <= yinlen
      BY <3>1, TurnStarts
    <3>3. QED
      BY <1>1, <3>1, <3>2, OneWordMore
  <2>2. LeftoversTie'
    BY TurnStarts, SameTie DEF CutLastTwo, LeftoversTie
  <2>3. QED
    BY <2>1, <2>2, TurnStarts, TurnInv DEF CutLastTwo
<1>2. CASE ~ Usable(yinhead, 2)
  <2> DEFINE first == [yinoff |-> yinhead, yinlen |-> 1]
             second == [yinoff |-> yinhead + 1, yinlen |-> 1]
  <2>1. WellCut(Append(ysinfo, first), yinhead + 1)
    BY TurnStarts, OneWordMore DEF CutLastTwo
  <2>2. WellCut(Append(Append(ysinfo, first), second), yinhead + 1 + 1)
    BY <2>1, TurnStarts, OneWordMore DEF CutLastTwo
  <2>3. ysinfo' = Append(Append(ysinfo, first), second)
    <3>1. /\ ysinfo \in Seq(Segment) /\ first \in Segment /\ second \in Segment
          /\ ysinfo' = ysinfo \o <<first, second>>
      BY <1>2, TurnStarts DEF CutLastTwo, Segment, IInv, TypeOK
    <3> HIDE DEF first, second
    <3>2. QED
      BY <3>1
  <2>4. yinhead' = yinhead + 1 + 1
    BY <1>2, TurnStarts DEF CutLastTwo
  <2>5. WellCut(ysinfo', yinhead')
    BY <2>2, <2>3, <2>4
  <2>6. LeftoversTie'
    BY TurnStarts, SameTie DEF CutLastTwo, LeftoversTie
  <2>7. QED
    BY <2>5, <2>6, TurnStarts, TurnInv DEF CutLastTwo
<1>3. QED
  BY <1>1, <1>2

LEMMA CutWordInv == IInv /\ CutWord => IInv'
<1> SUFFICES ASSUME IInv, CutWord PROVE IInv'
  OBVIOUS
<1>1. PICK c \in comb \cup Combinations :
         Best(comb \cup Combinations) = {c} /\ Cut(c.s2 - c.s1)
  BY DEF CutWord
<1>2. c \in Combinations
  BY <1>1, TurnStarts, OneBestIsNew
<1>3. WellCut(ysinfo', yinhead')
  BY <1>1, <1>2, TurnStarts, CombinationsAre, OneWordMore DEF Cut
<1>4. LeftoversTie'
  BY DEF CutWord, LeftoversTie
<1>5. QED
  BY <1>3, <1>4, TurnStarts, TurnInv DEF CutWord

LEMMA CutAmbiguousInv == IInv /\ CutAmbiguous => IInv'
<1> SUFFICES ASSUME IInv, CutAmbiguous PROVE IInv'
  OBVIOUS
<1>1. WellCut(ysinfo', yinhead')
  BY TurnStarts, OneWordMore DEF CutAmbiguous, Cut
<1>2. LeftoversTie'
  BY TurnStarts, SameTie DEF CutAmbiguous
<1>3. QED
  BY <1>1, <1>2, TurnStarts, TurnInv DEF CutAmbiguous

LEMMA ComposeInv == IInv /\ Compose => IInv'
<1> SUFFICES ASSUME IInv, Compose PROVE IInv'
  OBVIOUS
<1>1. /\ bc' = bc /\ yinhead' = yinhead /\ comb' = comb /\ ysinfo' = ysinfo
      /\ pc' = "done" /\ yinhead = yinlen
      /\ internal_text' =
            [i \in 1 .. yinlen |-> CharOf(ysinfo[SegmentAt(i - 1)], i - 1)]
  BY DEF Compose
<1>2. bc \in Buffer(yinlen) /\ yinlen \in Nat /\ WellCut(ysinfo, yinlen)
  BY <1>1, TurnStarts DEF IInv, TypeOK
<1>3. \A i \in 1 .. yinlen :
         internal_text'[i] \in Zhi
         /\ (bc.pindown[i] # NoPin => internal_text'[i] = bc.pindown[i])
  BY <1>1, <1>2, CharacterShown
<1>4. internal_text' \in Seq(Zhi) /\ Len(internal_text') = yinlen
  <2>1. internal_text' \in [1 .. yinlen -> Zhi]
    BY <1>1, <1>3
  <2>2. QED
    BY <1>2, <2>1
<1>5. WellCut(ysinfo', yinhead')
  BY <1>1, <1>2
<1>6. /\ ysinfo' \in Seq(Segment) /\ yinhead' \in Nat
      /\ SegmentsTile' /\ SegmentsCover' /\ WordsUsable'
  BY <1>1, <1>5, WellCutAfter
<1>7. TypeOK' /\ BufferLength'
  BY <1>1, <1>4, <1>6 DEF IInv, TypeOK, BufferLength, yinlen
<1>8. PinsShown'
  BY <1>1, <1>3, <1>4 DEF PinsShown, yinlen
<1>9. LeftoversTie'
  BY <1>1, SameTie DEF IInv, LeftoversTie
<1>10. QED
  BY <1>6, <1>7, <1>8, <1>9 DEF IInv

LEMMA StutterInv == IInv /\ UNCHANGED vars => IInv'
<1> SUFFICES ASSUME IInv, UNCHANGED vars PROVE IInv'
  OBVIOUS
<1>1. /\ bc' = bc /\ yinhead' = yinhead /\ comb' = comb /\ ysinfo' = ysinfo
      /\ pc' = pc /\ internal_text' = internal_text
  BY DEF vars
<1>2. WellCut(ysinfo', yinhead')
  BY <1>1, WellCutBefore
<1>3. /\ ysinfo' \in Seq(Segment) /\ yinhead' \in Nat
      /\ SegmentsTile' /\ SegmentsCover' /\ WordsUsable'
  BY <1>1, <1>2, WellCutAfter
<1>4. TypeOK' /\ BufferLength'
  BY <1>1, <1>3 DEF IInv, TypeOK, BufferLength, yinlen
<1>5. LeftoversTie' /\ PinsShown'
  BY <1>1, SameTie DEF IInv, LeftoversTie, PinsShown, yinlen
<1>6. QED
  BY <1>3, <1>4, <1>5 DEF IInv

LEMMA NextInv == IInv /\ [Next]_vars => IInv'
BY CutLastOneInv, CutLastTwoInv, CutWordInv, CutAmbiguousInv, ComposeInv, StutterInv
DEF Next

\* The inductive invariant holds in every run of bimsContextSmartEdit.
THEOREM Invariant == Spec => []IInv
BY InitInv, NextInv, PTL DEF Spec

\* In every run of bimsContextSmartEdit the buffer, the words and the text
\* have their types.
THEOREM TypeCorrect == Spec => []TypeOK
<1>1. IInv => TypeOK
  BY DEF IInv
<1>2. QED
  BY <1>1, Invariant, PTL

\* The words bimsContextDP cuts lie end to end from the start of the buffer
\* and never past its end, for every dictionary and however many turns leave
\* combinations behind.
THEOREM NoSyllableDropped == Spec => []SegmentsTile
<1>1. IInv => SegmentsTile
  BY DEF IInv
<1>2. QED
  BY <1>1, Invariant, PTL

\* Every word of two characters or more that bimsContextDP cuts is in the
\* dictionary, has a phrase with the pinned characters and crosses no
\* boundary, although the combination may be left from an earlier turn.
THEOREM WordsAreUsable == Spec => []WordsUsable
<1>1. IInv => WordsUsable
  BY DEF IInv
<1>2. QED
  BY <1>1, Invariant, PTL

\* The text bimsContextSmartEdit makes has a character for every syllable and
\* shows every character the user pinned.
THEOREM PinsAreShown == Spec => []PinsShown
<1>1. IInv => PinsShown
  BY DEF IInv
<1>2. QED
  BY <1>1, Invariant, PTL

\* A combination left over from an earlier turn never decides: the one best
\* combination is always of words at yinhead.
THEOREM LeftoversNeverDecide ==
    Spec => [](\A c : Best(comb \cup Combinations) = {c} => c \in Combinations)
<1>1. IInv => \A c : Best(comb \cup Combinations) = {c} => c \in Combinations
  BY TurnStarts, OneBestIsNew
<1>2. QED
  BY <1>1, Invariant, PTL
=============================================================================
