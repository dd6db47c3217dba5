-------------------------- MODULE ZuYinContextProofs --------------------------
(***************************************************************************)
(* Theorems about ZuYinContext, for every table of syllables that is       *)
(* sorted and holds syllables, whatever the memory behind it holds.        *)
(*                                                                         *)
(* First what a key does to the slots, keymap by keymap, and the type      *)
(* invariant.  Then the search in the table: the loop is a recursive       *)
(* function, which Iteration shows to exist, and what holds of its turns   *)
(* is shown by Induction.  NothingBelow and the fields of a yin give       *)
(* ReadsBack; Near is the invariant of the loop that shows that every      *)
(* syllable is found.                                                      *)
(***************************************************************************)
EXTENDS ZuYinContext, SequenceTheorems, WellFoundedInduction, TLAPS

-----------------------------------------------------------------------------
(* What a key does to the slots *)

\* The slots as ZuYinContext holds them.
Typed(ix) == ix \in Slots /\ OfTheirKind(ix)

LEMMA Kinds ==
    /\ Kind[0] = Initials /\ Kind[1] = Medials /\ Kind[2] = Finals /\ Kind[3] = Tones
    /\ \A i \in 0 .. 3 : Kind[i] \subseteq ZuYinIndex
<1>1. 0 \in 0 .. 3 /\ 1 \in 0 .. 3 /\ 2 \in 0 .. 3 /\ 3 \in 0 .. 3
      /\ 0 # 1 /\ 0 # 2 /\ 0 # 3 /\ 1 # 2 /\ 1 # 3 /\ 2 # 3
  OBVIOUS
<1>2. Kind[0] = Initials /\ Kind[1] = Medials /\ Kind[2] = Finals /\ Kind[3] = Tones
  BY <1>1, Zenon DEF Kind
<1>3. QED
  BY <1>2 DEF Initials, Medials, Finals, Tones, ZuYinIndex

LEMMA PlaceTyped ==
    ASSUME NEW ix, Typed(ix), NEW s
    PROVE  Typed(Place(ix, s))
BY Kinds DEF Typed, Slots, OfTheirKind, Place

\* One slot is given a symbol of its kind, or emptied.
LEMMA SlotTyped ==
    ASSUME NEW ix, Typed(ix), NEW i \in 0 .. 3, NEW s \in {0} \cup Kind[i]
    PROVE  Typed([ix EXCEPT ![i] = s])
BY Kinds DEF Typed, Slots, OfTheirKind

LEMMA InitialTyped ==
    ASSUME NEW ix, Typed(ix), NEW s \in {0} \cup Initials
    PROVE  Typed([ix EXCEPT ![0] = s])
BY SlotTyped, Kinds

\* The initial turns out to have been a final.
LEMMA LoneTyped ==
    ASSUME NEW ix, Typed(ix), NEW s \in Finals
    PROVE  Typed([ix EXCEPT ![0] = 0, ![2] = s])
<1>1. PICK e : e = [ix EXCEPT ![0] = 0]
  OBVIOUS
<1>2. Typed(e)
  BY <1>1, InitialTyped
<1>3. PICK i \in 0 .. 3 : i = 2
  OBVIOUS
<1>4. s \in {0} \cup Kind[i]
  BY <1>3, Kinds
<1>5. Typed([e EXCEPT ![i] = s])
  BY <1>2, <1>4, SlotTyped
<1>6. [e EXCEPT ![i] = s] = [ix EXCEPT ![0] = 0, ![2] = s]
  BY <1>1, <1>3 DEF Typed, Slots
<1>7. QED
  BY <1>5, <1>6

LEMMA RetroflexTyped ==
    ASSUME NEW ix, Typed(ix)
    PROVE  Typed(Retroflex(ix))
<1>1. ix[0] \in {0} \cup Initials
  BY Kinds DEF Typed, OfTheirKind
<1>2. (IF ix[0] = 12 THEN 15 ELSE IF ix[0] = 14 THEN 17 ELSE ix[0]) \in {0} \cup Initials
  BY <1>1 DEF Initials
<1>3. QED
  BY <1>2, InitialTyped DEF Retroflex

LEMMA PalatalTyped ==
    ASSUME NEW ix, Typed(ix), NEW s
    PROVE  Typed(Eten26PalatalRule(ix, s)[1])
<1> DEFINE z == CASE ix[0] = 9 -> 13 [] ix[0] = 15 -> 12 [] ix[0] = 17 -> 14 [] OTHER -> ix[0]
<1>1. ix[0] \in {0} \cup Initials
  BY Kinds DEF Typed, OfTheirKind
<1>2. 13 \in {0} \cup Initials /\ 12 \in {0} \cup Initials /\ 14 \in {0} \cup Initials
  BY DEF Initials
<1>3. 9 # 15 /\ 9 # 17 /\ 15 # 17
  OBVIOUS
<1>4. z \in {0} \cup Initials
  BY <1>1, <1>2, <1>3, Zenon
<1>5. Eten26PalatalRule(ix, s) = <<[ix EXCEPT ![0] = z], s>>
  BY Zenon DEF Eten26PalatalRule
<1> HIDE DEF z
<1>6. PICK e : e = [ix EXCEPT ![0] = z]
  OBVIOUS
<1>7. Typed(e)
  BY <1>4, <1>6, InitialTyped
<1>8. QED
  BY <1>5, <1>6, <1>7

\* What a table of the code gives is in its pairs.
LEMMA TableGives ==
    ASSUME NEW pairs, NEW s \in DOMAIN Table(pairs)
    PROVE  \E p \in pairs : p[1] = s /\ Table(pairs)[s] = p[2]
BY DEF Table

LEMMA HsuLoneFinal ==
    ASSUME NEW s \in DOMAIN HsuLone
    PROVE  HsuLone[s] \in Finals
<1> DEFINE P == {<<3, 33>>, <<7, 34>>, <<8, 37>>, <<9, 27>>, <<10, 35>>, <<11, 26>>}
<1>1. \A p \in P : p[2] \in Finals
  BY DEF Finals
<1>2. HsuLone = Table(P)
  BY DEF HsuLone
<1> HIDE DEF P
<1>3. QED
  BY <1>1, <1>2, TableGives

LEMMA Eten26LoneFinal ==
    ASSUME NEW s \in DOMAIN Eten26Lone, NEW i \in DOMAIN Eten26Lone[s]
    PROVE  Eten26Lone[s][i] \in Finals
<1> DEFINE A == {<<6, 35>>, <<11, 37>>, <<19, 30>>}
           B == {<<7, 34>>}
           C == {<<2, 32>>, <<3, 33>>, <<7, 34>>, <<11, 37>>}
           D == {<<2, 32>>, <<3, 33>>, <<6, 35>>, <<7, 34>>, <<11, 37>>}
           P == {<<4, Table(A)>>, <<5, Table(B)>>, <<18, Table(C)>>, <<10, Table(D)>>,
                 <<38, Table(D)>>}
<1>1. \A Q \in {A, B, C, D} : \A p \in Q : p[2] \in Finals
  <2>1. \A p \in A : p[2] \in Finals
    BY DEF Finals
  <2>2. \A p \in B : p[2] \in Finals
    BY DEF Finals
  <2>3. \A p \in C : p[2] \in Finals
    BY DEF Finals
  <2>4. \A p \in D : p[2] \in Finals
    BY DEF Finals
  <2> HIDE DEF A, B, C, D
  <2>5. QED
    BY <2>1, <2>2, <2>3, <2>4
<1>2. Eten26Lone = Table(P)
  BY DEF Eten26Lone
<1> HIDE DEF A, B, C, D
<1>3. \A p \in P : \E Q \in {A, B, C, D} : p[2] = Table(Q)
  OBVIOUS
<1> HIDE DEF P
<1>4. PICK p \in P : Eten26Lone[s] = p[2]
  BY <1>2, TableGives
<1>5. PICK Q \in {A, B, C, D} : Eten26Lone[s] = Table(Q)
  BY <1>3, <1>4
<1>6. QED
  BY <1>1, <1>5, TableGives

\* A rule of Eten26 gives slots and a symbol.
IsRule(r) == \E e, u : r = <<e, u>> /\ Typed(e)

LEMMA PairIsRule ==
    ASSUME NEW e, NEW u, Typed(e)
    PROVE  IsRule(<<e, u>>)
BY DEF IsRule

LEMMA FinalRuleTyped ==
    ASSUME NEW ix, Typed(ix), NEW s
    PROVE  IsRule(Eten26FinalRule(ix, s))
<1>1. IsRule(<<Retroflex(ix), Eten26Final[s]>>)
  BY RetroflexTyped, PairIsRule
<1>2. IsRule(<<ix, Eten26Final[s]>>) /\ IsRule(<<ix, s>>)
  BY PairIsRule
<1>3. QED
  BY <1>1, <1>2, Zenon DEF Eten26FinalRule

LEMMA ToneRuleTyped ==
    ASSUME NEW ix, Typed(ix), NEW s \in DOMAIN Eten26Tone
    PROVE  IsRule(Eten26ToneRule(ix, s))
<1> DEFINE lone == [ix EXCEPT ![0] = 0, ![2] = Eten26Lone[s][ix[0]]]
<1>1. IsRule(<<Retroflex(ix), Eten26Tone[s]>>)
  BY RetroflexTyped, PairIsRule
<1>2. IsRule(<<ix, Eten26Tone[s]>>) /\ IsRule(<<ix, s>>)
  BY PairIsRule
<1>3. DOMAIN Eten26Tone = DOMAIN Eten26Lone
  BY DEF Eten26Tone, Eten26Lone, Table
<1>4. ASSUME ix[0] \in DOMAIN Eten26Lone[s]
      PROVE  IsRule(<<lone, Eten26Tone[s]>>)
  <2>1. Eten26Lone[s][ix[0]] \in Finals
    BY <1>3, <1>4, Eten26LoneFinal
  <2>2. Typed(lone)
    BY <2>1, LoneTyped
  <2> HIDE DEF lone
  <2>3. QED
    BY <2>2, PairIsRule
<1>5. QED
  BY <1>1, <1>2, <1>4, Zenon DEF Eten26ToneRule

LEMMA Eten26Typed ==
    ASSUME NEW ix, Typed(ix), NEW s
    PROVE  Typed(Eten26Input(ix, s))
<1>1. IsRule(Eten26FinalRule(ix, s))
  BY FinalRuleTyped
<1>2. s \in DOMAIN Eten26Tone => IsRule(Eten26ToneRule(ix, s))
  BY ToneRuleTyped
<1>3. IsRule(Eten26PalatalRule(ix, s))
  BY PalatalTyped, PairIsRule DEF Eten26PalatalRule
<1>4. /\ IsRule(<<IF ix[1] = 0 THEN Retroflex(ix) ELSE ix, s>>)
      /\ IsRule(<<ix, 13>>) /\ IsRule(<<ix, s>>)
  BY RetroflexTyped, PairIsRule
<1>5. IsRule(Eten26Rule(ix, s))
  BY <1>1, <1>2, <1>3, <1>4, Zenon DEF Eten26Rule
<1>6. PICK e, u : Eten26Rule(ix, s) = <<e, u>> /\ Typed(e)
  BY <1>5 DEF IsRule
<1>7. Eten26Input(ix, s) = Place(e, u)
  BY <1>6 DEF Eten26Input
<1>8. QED
  BY <1>6, <1>7, PlaceTyped

LEMMA HsuInitialTyped ==
    ASSUME NEW ix, Typed(ix)
    PROVE  Typed(HsuInitial(ix))
<1> DEFINE palatal == ix[1] \in Palatals
           z == CASE ix[0] \in {12, 15} -> IF palatal THEN 12 ELSE 15
                  [] ix[0] \in {13, 16} -> IF palatal THEN 13 ELSE 16
                  [] ix[0] \in {14, 17} -> IF palatal THEN 14 ELSE 17
                  [] ix[0] = 9 /\ palatal -> 12
                  [] OTHER -> ix[0]
<1>1. ix[0] \in {0} \cup Initials
  BY Kinds DEF Typed, OfTheirKind
<1>2. \A i \in 12 .. 17 : i \in {0} \cup Initials
  BY DEF Initials
<1>3. 12 \in {0} \cup Initials /\ 13 \in {0} \cup Initials /\ 14 \in {0} \cup Initials
      /\ 15 \in {0} \cup Initials /\ 16 \in {0} \cup Initials /\ 17 \in {0} \cup Initials
  BY <1>2
<1>4. z \in {0} \cup Initials
  <2> HIDE DEF palatal
  <2>1. QED
    BY <1>1, <1>3, ZenonT(40)
<1>5. HsuInitial(ix) = [ix EXCEPT ![0] = z]
  BY Zenon DEF HsuInitial
<1> HIDE DEF z
<1>6. QED
  BY <1>4, <1>5, InitialTyped

LEMMA HsuTyped ==
    ASSUME NEW ix, Typed(ix), NEW s
    PROVE  Typed(HsuInput(ix, s))
<1> DEFINE placed == HsuInitial(Place(ix, HsuMeaning(ix, s)))
           lone == [placed EXCEPT ![0] = 0, ![2] = HsuLone[placed[0]]]
<1>1. Typed(placed)
  BY PlaceTyped, HsuInitialTyped
<1>2. HsuInput(ix, s) = placed \/ (placed[0] \in DOMAIN HsuLone /\ HsuInput(ix, s) = lone)
  BY DEF HsuInput
<1> HIDE DEF placed
<1>3. ASSUME placed[0] \in DOMAIN HsuLone
      PROVE  Typed(lone)
  <2>1. HsuLone[placed[0]] \in Finals
    BY <1>3, HsuLoneFinal
  <2>2. QED
    BY <1>1, <2>1, LoneTyped
<1> HIDE DEF lone
<1>4. QED
  BY <1>1, <1>2, <1>3

\* Whatever a key means in its keymap, the slots keep symbols of their kind.
LEMMA InputTyped ==
    ASSUME NEW k, NEW ix, Typed(ix), NEW key
    PROVE  Typed(Input(k, ix, key))
<1>1. PICK s : s = KeyToZuYinIndex(k, key)
  OBVIOUS
<1>2. Typed(Eten26Input(ix, s)) /\ Typed(HsuInput(ix, s)) /\ Typed(Place(ix, s))
  BY Eten26Typed, HsuTyped, PlaceTyped
<1>3. QED
  BY <1>1, <1>2, Zenon DEF Input

-----------------------------------------------------------------------------
(* Types *)

LEMMA SlotsHold ==
    ASSUME NEW ix, Typed(ix)
    PROVE  /\ ix[0] \in {0} \cup Initials /\ ix[1] \in {0} \cup Medials
           /\ ix[2] \in {0} \cup Finals /\ ix[3] \in {0} \cup Tones
BY Kinds DEF Typed, OfTheirKind

LEMMA EmptyTyped == Typed(Empty)
BY DEF Typed, Empty, Slots, OfTheirKind

LEMMA ShownTyped ==
    ASSUME NEW ix, Typed(ix)
    PROVE  Shown(ix) \in Seq(ZuYinIndex)
<1>1. \A s \in {0} \cup ZuYinIndex : Symbol(s) \in Seq(ZuYinIndex)
  BY DEF Symbol
<1>2. /\ ix[0] \in {0} \cup ZuYinIndex /\ ix[1] \in {0} \cup ZuYinIndex
      /\ ix[2] \in {0} \cup ZuYinIndex /\ ix[3] \in {0} \cup ZuYinIndex
  BY DEF Typed, Slots
<1>3. PICK a, b, c, d \in Seq(ZuYinIndex) :
         a = Symbol(ix[0]) /\ b = Symbol(ix[1]) /\ c = Symbol(ix[2]) /\ d = Symbol(ix[3])
  BY <1>1, <1>2
<1>4. a \o b \o c \o d \in Seq(ZuYinIndex)
  OBVIOUS
<1>5. QED
  BY <1>3, <1>4 DEF Shown

LEMMA StringTyped ==
    ASSUME NEW ix, Typed(ix)
    PROVE  String(ix) \in Seq(ZuYinIndex)
<1>1. << >> \in Seq(ZuYinIndex)
  OBVIOUS
<1>2. QED
  BY <1>1, ShownTyped DEF String

\* A user finds a key for each symbol in the keymap.
LEMMA KeyIsThere ==
    ASSUME NEW k \in Keymaps, NEW s \in ZuYinIndex
    PROVE  KeyOf(k, s) \in Keys(k)
<1>1. KeyMap[k][s] \in Keys(k)
  BY DEF Keys
<1>2. KeyMap["ETEN26"] = Eten26KeyMap
  BY Zenon DEF KeyMap, Keymaps
<1>3. /\ Eten26KeyMap[4] = "f" /\ Eten26KeyMap[18] = "j"
      /\ Eten26KeyMap[10] = "k" /\ Eten26KeyMap[5] = "d"
  BY DEF Eten26KeyMap
<1>4. 4 \in ZuYinIndex /\ 18 \in ZuYinIndex /\ 10 \in ZuYinIndex /\ 5 \in ZuYinIndex
  BY DEF ZuYinIndex
<1>5. \A key \in {"f", "j", "k", "d"} : key \in Keys("ETEN26")
  BY <1>2, <1>3, <1>4 DEF Keys
<1>6. QED
  BY <1>1, <1>5, Zenon DEF KeyOf

\* The syllables of the table.
LEMMA TableTyped ==
    ASSUME NEW i \in 1 .. num_of_yzt_entries
    PROVE  /\ YinZhiTable[i] \in Yins
           /\ Typed(IndexOf(YinZhiTable[i]))
<1>1. YinZhiTable[i] \in Yins
  BY TableAssumption DEF num_of_yzt_entries
<1>2. OfTheirKind(IndexOf(YinZhiTable[i]))
  BY SyllablesAssumption
<1>3. PICK ix : ix = IndexOf(YinZhiTable[i])
  OBVIOUS
<1>4. DOMAIN ix = 0 .. 3 /\ ix = [j \in 0 .. 3 |-> ix[j]]
  BY <1>3 DEF IndexOf
<1>5. \A j \in 0 .. 3 : ix[j] \in {0} \cup ZuYinIndex
  BY <1>2, <1>3, Kinds DEF OfTheirKind
<1>6. ix \in Slots
  BY <1>4, <1>5 DEF Slots
<1>7. QED
  BY <1>1, <1>2, <1>3, <1>6 DEF Typed

LEMMA InitTyped == Init => TypeOK
<1>1. << >> \in Seq(ZuYinIndex) /\ << >> \in Seq(Keys(keymap))
  OBVIOUS
<1>2. QED
  BY <1>1, EmptyTyped DEF Init, TypeOK, Typed

\* A key, whoever pressed it.
LEMMA FeedTyped ==
    ASSUME TypeOK, NEW key, Feed(key)
    PROVE  /\ Typed(index')
           /\ shown' \in Seq(ZuYinIndex)
           /\ composed' \in Yins \cup {NoYin}
<1>1. PICK ix : ix = Input(keymap, index, key)
  OBVIOUS
<1>2. Typed(ix)
  BY <1>1, InputTyped DEF TypeOK, Typed
<1>3. /\ shown' = String(ix)
      /\ index' = IF Composes(ix) THEN Empty ELSE ix
      /\ composed' = IF Composes(ix) THEN YinOf(ix) ELSE NoYin
  BY <1>1 DEF Feed
<1>4. Composes(ix) => YinOf(ix) \in Yins
  BY DEF Composes, Syllables
<1>5. QED
  BY <1>2, <1>3, <1>4, StringTyped, EmptyTyped

LEMMA TypeAnyKeyTyped == ASSUME TypeOK, TypeAnyKey PROVE TypeOK'
<1>1. PICK key \in Keys(keymap) : Feed(key)
  BY DEF TypeAnyKey
<1>2. QED
  BY <1>1, FeedTyped DEF TypeAnyKey, TypeOK, Typed

LEMMA TypeNextKeyTyped == ASSUME TypeOK, TypeNextKey PROVE TypeOK'
<1>1. Feed(Head(left)) /\ UNCHANGED <<keymap, beyond, target>>
  BY DEF TypeNextKey
<1>2. left' \in Seq(Keys(keymap))
  <2>1. left \in Seq(Keys(keymap)) /\ left # << >> /\ left' = Tail(left)
    BY DEF TypeOK, TypeNextKey
  <2>2. QED
    BY <2>1
<1>3. QED
  BY <1>1, <1>2, FeedTyped DEF TypeOK, Typed

LEMMA HasInMindTyped ==
    ASSUME TypeOK, NEW i \in 1 .. num_of_yzt_entries, HasInMind(YinZhiTable[i])
    PROVE  TypeOK'
<1>1. PICK symbols \in Seq(ZuYinIndex) : symbols = Shown(IndexOf(YinZhiTable[i]))
  BY TableTyped, ShownTyped
<1>2. /\ left' = [j \in DOMAIN symbols |-> KeyOf(keymap, symbols[j])]
      /\ target' = YinZhiTable[i] /\ composed' = NoYin /\ shown' = << >>
      /\ UNCHANGED <<keymap, index, beyond>>
  BY <1>1 DEF HasInMind
<1>3. left' \in Seq(Keys(keymap))
  <2>1. DOMAIN symbols = 1 .. Len(symbols) /\ Len(symbols) \in Nat
    OBVIOUS
  <2>2. \A j \in 1 .. Len(symbols) : KeyOf(keymap, symbols[j]) \in Keys(keymap)
    BY <2>1, KeyIsThere DEF TypeOK
  <2>3. left' = [j \in 1 .. Len(symbols) |-> KeyOf(keymap, symbols[j])]
    BY <1>2, <2>1
  <2>4. QED
    BY <2>1, <2>2, <2>3
<1>4. << >> \in Seq(ZuYinIndex)
  OBVIOUS
<1>5. QED
  BY <1>2, <1>3, <1>4, TableTyped DEF TypeOK

LEMMA BackSpaceTyped == ASSUME TypeOK, BackSpace PROVE TypeOK'
<1>1. PICK i : index' = [index EXCEPT ![i] = 0]
  BY DEF BackSpace
<1>2. Typed(index')
  BY <1>1 DEF TypeOK, Typed, Slots, OfTheirKind
<1>3. QED
  BY <1>2, StringTyped DEF BackSpace, TypeOK, Typed

LEMMA EscapeTyped == ASSUME TypeOK, Escape PROVE TypeOK'
<1>1. << >> \in Seq(ZuYinIndex)
  OBVIOUS
<1>2. QED
  BY <1>1, EmptyTyped DEF Escape, TypeOK, Typed

LEMMA SetKeyMapTyped == ASSUME TypeOK, SetKeyMap PROVE TypeOK'
<1>1. << >> \in Seq(Keys(keymap'))
  OBVIOUS
<1>2. QED
  BY <1>1 DEF SetKeyMap, TypeOK

LEMMA NextTyped == TypeOK /\ [Next]_vars => TypeOK'
<1>1. ASSUME TypeOK, UNCHANGED vars PROVE TypeOK'
  BY <1>1 DEF vars, TypeOK
<1>2. QED
  BY <1>1, TypeAnyKeyTyped, TypeNextKeyTyped, HasInMindTyped, BackSpaceTyped,
     EscapeTyped, SetKeyMapTyped DEF Next

\* Whatever keys are pressed in whatever keymap, and whatever the memory
\* behind the table of syllables holds, each slot of ZuYinContext holds a
\* symbol of its kind, and what goes into the buffer is a 14-bit yin.
THEOREM TypeCorrect == Spec => []TypeOK
BY InitTyped, NextTyped, PTL DEF Spec

-----------------------------------------------------------------------------
(* Recursive functions *)

\* Every nonempty set of natural numbers has a least element.
LEMMA LeastNumber ==
    ASSUME NEW T \in SUBSET Nat, T # {}
    PROVE  \E n \in T : \A m \in T : n <= m
<1>1. IsWellFoundedOn(OpToRel(<, Nat), Nat)
  BY NatLessThanWellFounded
<1>2. PICK n \in T : \A m \in T : <<m, n>> \notin OpToRel(<, Nat)
  BY <1>1, WFMin
<1>3. \A m \in T : ~ (m < n)
  BY <1>2 DEF OpToRel
<1>4. QED
  BY <1>3

\* What holds of 0 and of each successor of a number it holds of holds of
\* every number.
LEMMA Induction ==
    ASSUME NEW T \in SUBSET Nat, 0 \in T, \A n \in T : n + 1 \in T
    PROVE  T = Nat
<1>1. SUFFICES ASSUME Nat \ T # {} PROVE FALSE
  OBVIOUS
<1>2. PICK n \in Nat \ T : \A m \in Nat \ T : n <= m
  <2>1. Nat \ T \in SUBSET Nat
    OBVIOUS
  <2>2. QED
    BY <1>1, <2>1, LeastNumber
<1>3. n # 0 /\ n - 1 \in Nat /\ n - 1 \notin Nat \ T
  BY <1>2
<1>4. (n - 1) + 1 \in T
  BY <1>3
<1>5. QED
  BY <1>2, <1>4

\* The first n + 1 of the values that f gives one after the other from x.
Upto(S, x, f, n, g) ==
    /\ g \in [0 .. n -> S]
    /\ g[0] = x
    /\ \A i \in 0 .. n - 1 : g[i + 1] = f[g[i]]

LEMMA UptoThere ==
    ASSUME NEW S, NEW x \in S, NEW f \in [S -> S], NEW n \in Nat
    PROVE  \E g : Upto(S, x, f, n, g)
<1> DEFINE T == {m \in Nat : \E g : Upto(S, x, f, m, g)}
<1>1. 0 \in T
  <2>1. Upto(S, x, f, 0, [i \in 0 .. 0 |-> x])
    BY DEF Upto
  <2>2. QED
    BY <2>1
<1>2. ASSUME NEW m \in T PROVE m + 1 \in T
  <2>1. PICK g : Upto(S, x, f, m, g)
    OBVIOUS
  <2> DEFINE h == [i \in 0 .. m + 1 |-> IF i = m + 1 THEN f[g[m]] ELSE g[i]]
  <2>2. m \in Nat /\ g \in [0 .. m -> S] /\ g[m] \in S /\ f[g[m]] \in S
    BY <2>1 DEF Upto
  <2>3. h \in [0 .. m + 1 -> S]
    BY <2>2
  <2>4. h[0] = x
    BY <2>1, <2>2 DEF Upto
  <2>5. ASSUME NEW i \in 0 .. (m + 1) - 1 PROVE h[i + 1] = f[h[i]]
    <3>1. i \in 0 .. m /\ h[i] = g[i]
      BY <2>2
    <3>2. CASE i = m
      BY <2>2, <3>1, <3>2
    <3>3. CASE i # m
      <4>1. i \in 0 .. m - 1 /\ i + 1 \in 0 .. m + 1 /\ i + 1 # m + 1
        BY <2>2, <3>1, <3>3
      <4>2. h[i + 1] = g[i + 1]
        BY <4>1
      <4>3. QED
        BY <2>1, <3>1, <4>1, <4>2 DEF Upto
    <3>4. QED
      BY <3>2, <3>3
  <2> HIDE DEF h
  <2>6. Upto(S, x, f, m + 1, h)
    BY <2>3, <2>4, <2>5 DEF Upto
  <2>7. QED
    BY <2>2, <2>6
<1>3. T = Nat
  <2>1. T \in SUBSET Nat
    OBVIOUS
  <2> HIDE DEF T
  <2>2. QED
    BY <1>1, <1>2, <2>1, Induction
<1>4. QED
  BY <1>3

LEMMA UptoAgree ==
    ASSUME NEW S, NEW x \in S, NEW f \in [S -> S], NEW n \in Nat, NEW m \in Nat,
           NEW g, Upto(S, x, f, n, g), NEW h, Upto(S, x, f, m, h)
    PROVE  \A i \in Nat : i <= n /\ i <= m => g[i] = h[i]
<1> DEFINE T == {i \in Nat : i <= n /\ i <= m => g[i] = h[i]}
<1>1. 0 \in T
  BY DEF Upto
<1>2. ASSUME NEW i \in T PROVE i + 1 \in T
  <2>1. SUFFICES ASSUME i + 1 <= n, i + 1 <= m PROVE g[i + 1] = h[i + 1]
    OBVIOUS
  <2>2. i \in 0 .. n - 1 /\ i \in 0 .. m - 1 /\ g[i] = h[i]
    BY <2>1
  <2>3. QED
    BY <2>2 DEF Upto
<1>3. T = Nat
  <2>1. T \in SUBSET Nat
    OBVIOUS
  <2> HIDE DEF T
  <2>2. QED
    BY <1>1, <1>2, <2>1, Induction
<1>4. QED
  BY <1>3

\* There is a function that goes on from x by f.
LEMMA Iteration ==
    ASSUME NEW S, NEW x \in S, NEW f \in [S -> S]
    PROVE  \E g \in [Nat -> S] : g[0] = x /\ \A n \in Nat : g[n + 1] = f[g[n]]
<1> DEFINE G(n) == CHOOSE g : Upto(S, x, f, n, g)
           w == [n \in Nat |-> G(n)[n]]
<1>1. \A n \in Nat : Upto(S, x, f, n, G(n))
  BY UptoThere
<1> HIDE DEF G
<1>2. \A n \in Nat : G(n)[n] \in S
  BY <1>1 DEF Upto
<1>3. w \in [Nat -> S]
  BY <1>2
<1>4. w[0] = x
  BY <1>1 DEF Upto
<1>5. ASSUME NEW n \in Nat PROVE w[n + 1] = f[w[n]]
  <2>1. PICK g, h : g = G(n) /\ h = G(n + 1)
    OBVIOUS
  <2>2. Upto(S, x, f, n, g) /\ Upto(S, x, f, n + 1, h)
    BY <1>1, <2>1
  <2>3. g[n] = h[n]
    <3>1. n + 1 \in Nat /\ n <= n /\ n <= n + 1
      OBVIOUS
    <3>2. QED
      BY <2>2, <3>1, UptoAgree
  <2>4. h[n + 1] = f[h[n]]
    BY <2>2 DEF Upto
  <2>5. QED
    BY <2>1, <2>3, <2>4
<1> HIDE DEF w
<1>6. QED
  BY <1>3, <1>4, <1>5

\* The powers of two.
LEMMA Shifts ==
    /\ OneShifted \in [Nat -> Nat]
    /\ OneShifted[0] = 1
    /\ \A t \in Nat : OneShifted[t + 1] = 2 * OneShifted[t]
<1> DEFINE F(g) == [t \in Nat |-> IF t = 0 THEN 1 ELSE 2 * g[t - 1]]
           f == [n \in Nat |-> 2 * n]
<1>1. f \in [Nat -> Nat] /\ 1 \in Nat
  OBVIOUS
<1>2. PICK w \in [Nat -> Nat] : w[0] = 1 /\ \A n \in Nat : w[n + 1] = f[w[n]]
  <2> HIDE DEF f
  <2>1. PICK S, x : S = Nat /\ x = 1
    OBVIOUS
  <2>2. x \in S /\ f \in [S -> S]
    BY <1>1, <2>1
  <2>3. \E w \in [Nat -> S] : w[0] = x /\ \A n \in Nat : w[n + 1] = f[w[n]]
    BY <2>2, Iteration
  <2>4. QED
    BY <2>1, <2>3
<1>3. w = F(w)
  <2>1. ASSUME NEW t \in Nat PROVE w[t] = F(w)[t]
    <3>1. CASE t = 0
      BY <1>2, <3>1
    <3>2. CASE t # 0
      <4>1. t - 1 \in Nat /\ (t - 1) + 1 = t
        BY <3>2
      <4>2. w[t] = 2 * w[t - 1]
        BY <1>2, <4>1
      <4>3. QED
        BY <3>2, <4>2
    <3>3. QED
      BY <3>1, <3>2
  <2>2. QED
    BY <2>1
<1>4. OneShifted = CHOOSE g : g = F(g)
  BY DEF OneShifted
<1>5. OneShifted = F(OneShifted)
  BY <1>3, <1>4
<1>6. \A t \in Nat : OneShifted[t] = IF t = 0 THEN 1 ELSE 2 * OneShifted[t - 1]
  BY <1>5
<1>7. OneShifted[0] = 1
  BY <1>6
<1>8. \A t \in Nat : OneShifted[t + 1] = 2 * OneShifted[t]
  BY <1>6
<1>9. DOMAIN OneShifted = Nat
  BY <1>5
<1>10. \A t \in Nat : OneShifted[t] \in Nat
  <2> DEFINE T == {t \in Nat : OneShifted[t] \in Nat}
  <2>1. 0 \in T
    BY <1>7
  <2>2. \A t \in T : t + 1 \in T
    BY <1>8
  <2>3. T = Nat
    <3>1. T \in SUBSET Nat
      OBVIOUS
    <3> HIDE DEF T
    <3>2. QED
      BY <2>1, <2>2, <3>1, Induction
  <2>4. QED
    BY <2>3
<1>11. OneShifted = [t \in Nat |-> OneShifted[t]]
  BY <1>5, <1>9
<1>12. QED
  BY <1>7, <1>8, <1>10, <1>11

LEMMA ShiftsLarge == \A t \in Nat : OneShifted[t] >= t + 1
<1> DEFINE T == {t \in Nat : OneShifted[t] >= t + 1}
<1>1. 0 \in T
  BY Shifts
<1>2. ASSUME NEW t \in T PROVE t + 1 \in T
  BY Shifts
<1>3. T = Nat
  <2>1. T \in SUBSET Nat
    OBVIOUS
  <2> HIDE DEF T
  <2>2. QED
    BY <1>1, <1>2, <2>1, Induction
<1>4. QED
  BY <1>3

-----------------------------------------------------------------------------
(* The search in the table of syllables *)

LEMMA TableSize == num_of_yzt_entries \in Nat /\ num_of_yzt_entries >= 1
BY TableAssumption DEF num_of_yzt_entries

LEMMA ThresholdIs ==
    /\ Threshold \in Nat
    /\ OneShifted[Threshold] >= num_of_yzt_entries
    /\ \A u \in 0 .. Threshold - 1 : OneShifted[u] < num_of_yzt_entries
<1> DEFINE T == {t \in Nat : OneShifted[t] >= num_of_yzt_entries}
<1>1. num_of_yzt_entries \in T
  BY TableSize, ShiftsLarge, Shifts
<1>2. PICK t \in T : \A u \in T : t <= u
  <2>1. T \in SUBSET Nat /\ T # {}
    BY <1>1
  <2> HIDE DEF T
  <2>2. QED
    BY <2>1, LeastNumber
<1>3. t \in 0 .. num_of_yzt_entries
  BY <1>1, <1>2, TableSize
<1>4. \A u \in 0 .. t - 1 : OneShifted[u] < num_of_yzt_entries
  BY <1>2, <1>3, Shifts, TableSize
<1>5. \E s \in 0 .. num_of_yzt_entries :
         /\ OneShifted[s] >= num_of_yzt_entries
         /\ \A u \in 0 .. s - 1 : OneShifted[u] < num_of_yzt_entries
  BY <1>2, <1>3, <1>4
<1>6. QED
  BY <1>5, TableSize DEF Threshold

\* A turn of the loop.
LEMMA TurnIs ==
    ASSUME NEW p \in Position, NEW yin, NEW behind
    PROVE  /\ Turn(p, yin, behind) \in Position
           /\ Entry(p.index, behind) = yin => Turn(p, yin, behind) = p
           /\ Entry(p.index, behind) # yin =>
                 /\ Turn(p, yin, behind).index = NextIndex(p.index, p.step, yin, behind)
                 /\ Turn(p, yin, behind).step = NextStep(p.step)
<1>1. p.index \in Nat /\ p.step \in Nat
  BY DEF Position
<1>2. NextIndex(p.index, p.step, yin, behind) \in Nat
  BY <1>1, TableSize DEF NextIndex
<1>3. NextStep(p.step) \in Nat
  BY <1>1 DEF NextStep
<1>4. QED
  BY <1>2, <1>3 DEF Turn, Position

Start == [index |-> num_of_yzt_entries \div 2,
          step |-> (num_of_yzt_entries \div 2 + 1) \div 2]

LEMMA StartIs ==
    /\ Start \in Position
    /\ Start.index < num_of_yzt_entries
BY TableSize DEF Start, Position

LEMMA SearchIs ==
    ASSUME NEW yin, NEW behind
    PROVE  /\ Search(yin, behind) \in [Nat -> Position]
           /\ Search(yin, behind)[0] = Start
           /\ \A n \in Nat : Search(yin, behind)[n + 1] =
                                Turn(Search(yin, behind)[n], yin, behind)
<1> DEFINE F(g) == [n \in Nat |-> IF n = 0 THEN Start ELSE Turn(g[n - 1], yin, behind)]
           f == [p \in Position |-> Turn(p, yin, behind)]
           at == Search(yin, behind)
<1>1. f \in [Position -> Position] /\ Start \in Position
  BY TurnIs, StartIs
<1>2. PICK w \in [Nat -> Position] : w[0] = Start /\ \A n \in Nat : w[n + 1] = f[w[n]]
  <2> HIDE DEF f
  <2>1. QED
    BY <1>1, Iteration
<1>3. w = F(w)
  <2>1. ASSUME NEW n \in Nat PROVE w[n] = F(w)[n]
    <3>1. CASE n = 0
      BY <1>2, <3>1
    <3>2. CASE n # 0
      <4>1. n - 1 \in Nat /\ (n - 1) + 1 = n
        BY <3>2
      <4>2. w[n] = Turn(w[n - 1], yin, behind)
        BY <1>2, <4>1
      <4>3. QED
        BY <3>2, <4>2
    <3>3. QED
      BY <3>1, <3>2
  <2>2. QED
    BY <2>1
<1>4. at = CHOOSE g : g = F(g)
  BY DEF Search, Start
<1>5. at = F(at)
  BY <1>3, <1>4
<1> HIDE DEF at
<1>6. at[0] = Start /\ \A n \in Nat : at[n + 1] = Turn(at[n], yin, behind)
  BY <1>5
<1>7. \A n \in Nat : at[n] \in Position
  <2> DEFINE T == {n \in Nat : at[n] \in Position}
  <2>1. 0 \in T
    BY <1>6, StartIs
  <2>2. \A n \in T : n + 1 \in T
    BY <1>6, TurnIs
  <2>3. T = Nat
    <3>1. T \in SUBSET Nat
      OBVIOUS
    <3> HIDE DEF T
    <3>2. QED
      BY <2>1, <2>2, <3>1, Induction
  <2>4. QED
    BY <2>3
<1>8. at = [n \in Nat |-> at[n]]
  BY <1>5
<1>9. at \in [Nat -> Position]
  BY <1>7, <1>8
<1>10. QED
  BY <1>6, <1>9 DEF at

\* The search ends at the position of its last turn.
LEMMA SearchEndIs ==
    ASSUME NEW yin, NEW behind
    PROVE  /\ SearchEnd(yin, behind) = Search(yin, behind)[Threshold + 1].index
           /\ SearchEnd(yin, behind) \in Nat
<1>1. PICK last \in Nat : last = Threshold + 1
  BY ThresholdIs
<1>2. PICK at \in [Nat -> Position] : at = Search(yin, behind)
  BY SearchIs
<1>3. at[last] \in Position
  OBVIOUS
<1>4. at[last].index \in Nat
  BY <1>3 DEF Position
<1>5. QED
  BY <1>1, <1>2, <1>4 DEF SearchEnd

\* An entry of the table.
LEMMA EntryIs ==
    ASSUME NEW i \in Nat, i < num_of_yzt_entries, NEW behind
    PROVE  /\ i + 1 \in 1 .. num_of_yzt_entries
           /\ Entry(i, behind) = YinZhiTable[i + 1]
           /\ Entry(i, behind) \in Nat /\ Entry(i, behind) > 7
<1>1. PICK j \in 1 .. num_of_yzt_entries : j = i + 1
  BY TableSize
<1>2. PICK yin \in Yins : yin = YinZhiTable[j]
  BY TableTyped
<1>3. yin > 7
  BY <1>2, SyllablesAssumption
<1>4. Entry(i, behind) = YinZhiTable[j]
  BY <1>1 DEF Entry
<1>5. yin \in Nat
  BY DEF Yins
<1>6. QED
  BY <1>1, <1>2, <1>3, <1>4, <1>5

\* What the search finds is a syllable of the table, or what the memory
\* behind it holds.
THEOREM OnlySyllablesAreFound ==
    ASSUME NEW yin, NEW behind, YinToYinZhi(yin, behind) # NoEntry
    PROVE  yin = behind \/ \E i \in 1 .. num_of_yzt_entries : YinZhiTable[i] = yin
<1>1. PICK end \in Nat : end = SearchEnd(yin, behind)
  BY SearchEndIs
<1>2. Entry(end, behind) = yin
  BY <1>1 DEF YinToYinZhi
<1>3. end < num_of_yzt_entries => end + 1 \in 1 .. num_of_yzt_entries
  BY TableSize
<1>4. QED
  BY <1>2, <1>3 DEF Entry

\* A search for less than every syllable goes down only, and finds nothing,
\* whatever is behind the table.
LEMMA NothingBelow ==
    ASSUME NEW yin \in 0 .. 7, NEW behind
    PROVE  YinToYinZhi(yin, behind) = NoEntry
<1> DEFINE at == Search(yin, behind)
           T == {n \in Nat : at[n].index < num_of_yzt_entries}
<1>1. /\ at \in [Nat -> Position] /\ at[0] = Start
      /\ \A n \in Nat : at[n + 1] = Turn(at[n], yin, behind)
  BY SearchIs
<1> HIDE DEF at
<1>2. \A i \in Nat : i < num_of_yzt_entries =>
         Entry(i, behind) > yin /\ Entry(i, behind) \in Nat
  BY EntryIs
<1>3. 0 \in T
  BY <1>1, StartIs
<1>4. ASSUME NEW n \in T PROVE n + 1 \in T
  <2>1. PICK p \in Position : p = at[n]
    BY <1>1
  <2>2. p.index \in Nat /\ p.step \in Nat /\ p.index < num_of_yzt_entries
    BY <2>1 DEF Position
  <2>3. Entry(p.index, behind) > yin /\ Entry(p.index, behind) \in Nat
    BY <1>2, <2>2
  <2>4. at[n + 1].index = NextIndex(p.index, p.step, yin, behind)
    BY <1>1, <2>1, <2>3, TurnIs
  <2>5. NextIndex(p.index, p.step, yin, behind) < num_of_yzt_entries
    BY <2>2, <2>3, TableSize DEF NextIndex
  <2>6. QED
    BY <2>4, <2>5
<1>5. T = Nat
  <2>1. T \in SUBSET Nat
    OBVIOUS
  <2> HIDE DEF T
  <2>2. QED
    BY <1>3, <1>4, <2>1, Induction
<1>6. PICK end \in Nat : end = SearchEnd(yin, behind) /\ end < num_of_yzt_entries
  <2>1. Threshold + 1 \in T
    BY <1>5, ThresholdIs
  <2>2. QED
    BY <2>1, SearchEndIs DEF at
<1>7. Entry(end, behind) # yin
  BY <1>2, <1>6
<1>8. QED
  BY <1>6, <1>7 DEF YinToYinZhi

-----------------------------------------------------------------------------
(* What is composed reads back *)

\* The fields of a yin can be told apart.
Packed(a, b, c, d) == 512 * a + 128 * b + 8 * c + d
HasFields(yin, a, b, c, d) ==
    /\ yin \div 512 = a /\ (yin \div 128) % 4 = b
    /\ (yin \div 8) % 16 = c /\ yin % 8 = d

LEMMA Unpacked ==
    ASSUME NEW a \in 0 .. 31, NEW b \in 0 .. 3, NEW c \in 0 .. 15, NEW d \in 0 .. 7
    PROVE  HasFields(Packed(a, b, c, d), a, b, c, d)
<1> DEFINE yin == Packed(a, b, c, d)
<1> USE DEF Packed
<1>1. yin \div 512 = a
  OBVIOUS
<1>2. yin \div 128 = 4 * a + b
  OBVIOUS
<1>3. yin \div 8 = 16 * (4 * a + b) + c
  OBVIOUS
<1>4. yin % 8 = d
  OBVIOUS
<1>5. (4 * a + b) % 4 = b
  OBVIOUS
<1>6. (16 * (4 * a + b) + c) % 16 = c
  OBVIOUS
<1>7. QED
  BY <1>1, <1>2, <1>3, <1>4, <1>5, <1>6 DEF HasFields

LEMMA FieldsOfYin ==
    ASSUME NEW ix, Typed(ix)
    PROVE  /\ YinOf(ix) \in Nat
           /\ Fields(YinOf(ix))[0] = ix[0]
           /\ Fields(YinOf(ix))[1] = Field(ix[1], 22)
           /\ Fields(YinOf(ix))[2] = Field(ix[2], 25)
           /\ Fields(YinOf(ix))[3] = ToneField(ix[3])
<1>1. ix[0] \in 0 .. 31
  BY SlotsHold DEF Initials
<1>2. Field(ix[1], 22) \in 0 .. 3
  BY SlotsHold DEF Medials, Field
<1>3. Field(ix[2], 25) \in 0 .. 15
  BY SlotsHold DEF Finals, Field
<1>4. ToneField(ix[3]) \in 0 .. 7
  BY SlotsHold DEF Tones, ToneField
<1>5. PICK a \in 0 .. 31, b \in 0 .. 3, c \in 0 .. 15, d \in 0 .. 7 :
         a = ix[0] /\ b = Field(ix[1], 22) /\ c = Field(ix[2], 25)
         /\ d = ToneField(ix[3])
  BY <1>1, <1>2, <1>3, <1>4
<1>6. PICK yin : yin = YinOf(ix)
  OBVIOUS
<1>7. yin = Packed(a, b, c, d)
  BY <1>5, <1>6 DEF YinOf, Packed
<1>8. yin \in Nat
  BY <1>7 DEF Packed
<1>9. /\ yin \div 512 = a /\ (yin \div 128) % 4 = b
      /\ (yin \div 8) % 16 = c /\ yin % 8 = d
  <2>1. HasFields(Packed(a, b, c, d), a, b, c, d)
    BY Unpacked
  <2>2. HasFields(yin, a, b, c, d)
    BY <1>7, <2>1
  <2>3. QED
    BY <2>2 DEF HasFields
<1>10. 0 \in 0 .. 3 /\ 1 \in 0 .. 3 /\ 2 \in 0 .. 3 /\ 3 \in 0 .. 3
       /\ 0 # 1 /\ 0 # 2 /\ 0 # 3 /\ 1 # 2 /\ 1 # 3 /\ 2 # 3
  OBVIOUS
<1>11. /\ Fields(yin)[0] = yin \div 512 /\ Fields(yin)[1] = (yin \div 128) % 4
       /\ Fields(yin)[2] = (yin \div 8) % 16 /\ Fields(yin)[3] = yin % 8
  BY <1>10, Zenon DEF Fields
<1>12. QED
  BY <1>5, <1>6, <1>8, <1>9, <1>11

\* The symbols of a yin are those it was made of.
LEMMA IndexOfYin ==
    ASSUME NEW ix, Typed(ix), ix[3] # 0
    PROVE  IndexOf(YinOf(ix)) = ix
<1>1. PICK yin : yin = YinOf(ix)
  OBVIOUS
<1>2. PICK f : f = Fields(yin)
  OBVIOUS
<1>3. f[0] = ix[0] /\ f[1] = Field(ix[1], 22) /\ f[2] = Field(ix[2], 25)
      /\ f[3] = ToneField(ix[3])
  BY <1>1, <1>2, FieldsOfYin
<1>4. IndexOf(yin) =
         [i \in 0 .. 3 |-> CASE i = 0 -> f[0]
                             [] i = 1 -> IF f[1] = 0 THEN 0 ELSE f[1] + 21
                             [] i = 2 -> IF f[2] = 0 THEN 0 ELSE f[2] + 24
                             [] i = 3 -> IF f[3] = 0 THEN 38 ELSE f[3] + 37]
  BY <1>2 DEF IndexOf
<1>5. 0 \in 0 .. 3 /\ 1 \in 0 .. 3 /\ 2 \in 0 .. 3 /\ 3 \in 0 .. 3
      /\ 0 # 1 /\ 0 # 2 /\ 0 # 3 /\ 1 # 2 /\ 1 # 3 /\ 2 # 3
  OBVIOUS
<1>6. PICK jx : jx = IndexOf(yin) /\ DOMAIN jx = 0 .. 3 /\ jx = [i \in 0 .. 3 |-> jx[i]]
  BY <1>4
<1>7. /\ jx[0] = f[0]
      /\ jx[1] = IF f[1] = 0 THEN 0 ELSE f[1] + 21
      /\ jx[2] = IF f[2] = 0 THEN 0 ELSE f[2] + 24
      /\ jx[3] = IF f[3] = 0 THEN 38 ELSE f[3] + 37
  BY <1>4, <1>5, <1>6, Zenon
<1>8. jx[0] = ix[0]
  BY <1>3, <1>7
<1>9. jx[1] = ix[1]
  BY <1>3, <1>7, SlotsHold DEF Medials, Field
<1>10. jx[2] = ix[2]
  BY <1>3, <1>7, SlotsHold DEF Finals, Field
<1>11. jx[3] = ix[3]
  BY <1>3, <1>7, SlotsHold DEF Tones, ToneField
<1>12. \A i \in 0 .. 3 : jx[i] = ix[i]
  BY <1>8, <1>9, <1>10, <1>11
<1>13. ix = [i \in 0 .. 3 |-> ix[i]]
  BY DEF Typed, Slots
<1>14. QED
  BY <1>1, <1>6, <1>12, <1>13

\* The values of a sequence.
ValuesOf(s) == {s[k] : k \in DOMAIN s}

LEMMA ValuesOfBoth ==
    ASSUME NEW s \in Seq(ZuYinIndex), NEW t \in Seq(ZuYinIndex), NEW u, u = s \o t
    PROVE  /\ u \in Seq(ZuYinIndex) /\ Len(u) = Len(s) + Len(t)
           /\ ValuesOf(u) = ValuesOf(s) \cup ValuesOf(t)
<1>1. /\ Len(s) \in Nat /\ Len(t) \in Nat
      /\ DOMAIN s = 1 .. Len(s) /\ DOMAIN t = 1 .. Len(t)
      /\ DOMAIN (s \o t) = 1 .. Len(s) + Len(t)
      /\ \A k \in 1 .. Len(s) + Len(t) :
            (s \o t)[k] = IF k <= Len(s) THEN s[k] ELSE t[k - Len(s)]
  OBVIOUS
<1>2. u = s \o t /\ u \in Seq(ZuYinIndex) /\ Len(u) = Len(s) + Len(t)
  OBVIOUS
<1>3. ASSUME NEW k \in DOMAIN u PROVE u[k] \in ValuesOf(s) \cup ValuesOf(t)
  <2>1. CASE k <= Len(s)
    BY <1>1, <1>2, <2>1 DEF ValuesOf
  <2>2. CASE ~ (k <= Len(s))
    <3>1. k - Len(s) \in 1 .. Len(t) /\ u[k] = t[k - Len(s)]
      BY <1>1, <1>2, <2>2
    <3>2. QED
      BY <1>1, <3>1 DEF ValuesOf
  <2>3. QED
    BY <2>1, <2>2
<1>4. ASSUME NEW k \in DOMAIN s PROVE s[k] \in ValuesOf(u)
  <2>1. k \in DOMAIN u /\ u[k] = s[k]
    BY <1>1, <1>2
  <2>2. QED
    BY <2>1 DEF ValuesOf
<1>5. ASSUME NEW k \in DOMAIN t PROVE t[k] \in ValuesOf(u)
  <2>1. k + Len(s) \in DOMAIN u /\ u[k + Len(s)] = t[k]
    BY <1>1, <1>2
  <2>2. QED
    BY <2>1 DEF ValuesOf
<1>6. \A v \in ValuesOf(u) : v \in ValuesOf(s) \cup ValuesOf(t)
  BY <1>3 DEF ValuesOf
<1>7. ValuesOf(s) \subseteq ValuesOf(u)
  <2>1. ASSUME NEW v \in ValuesOf(s) PROVE v \in ValuesOf(u)
    <3>1. PICK k \in DOMAIN s : v = s[k]
      BY DEF ValuesOf
    <3>2. QED
      BY <1>4, <3>1
  <2>2. QED
    BY <2>1
<1>8. ValuesOf(t) \subseteq ValuesOf(u)
  <2>1. ASSUME NEW v \in ValuesOf(t) PROVE v \in ValuesOf(u)
    <3>1. PICK k \in DOMAIN t : v = t[k]
      BY DEF ValuesOf
    <3>2. QED
      BY <1>5, <3>1
  <2>2. QED
    BY <2>1
<1>9. ValuesOf(u) = ValuesOf(s) \cup ValuesOf(t)
  BY <1>6, <1>7, <1>8
<1>10. QED
  BY <1>2, <1>9

LEMMA SymbolIs ==
    ASSUME NEW s \in {0} \cup ZuYinIndex
    PROVE  /\ Symbol(s) \in Seq(ZuYinIndex)
           /\ Len(Symbol(s)) \in 0 .. 1
           /\ ValuesOf(Symbol(s)) = {s} \ {0}
<1>1. CASE s = 0
  <2>1. Symbol(s) = << >>
    BY <1>1 DEF Symbol
  <2>2. ValuesOf(<< >>) = {}
    BY DEF ValuesOf
  <2>3. << >> \in Seq(ZuYinIndex) /\ Len(<< >>) = 0
    OBVIOUS
  <2>4. {s} \ {0} = {} /\ 0 \in 0 .. 1
    BY <1>1
  <2>5. QED
    BY <2>1, <2>2, <2>3, <2>4
<1>2. CASE s # 0
  <2>1. Symbol(s) = <<s>>
    BY <1>2 DEF Symbol
  <2>2. ValuesOf(<<s>>) = {s}
    BY DEF ValuesOf
  <2>3. <<s>> \in Seq(ZuYinIndex) /\ Len(<<s>>) = 1
    BY <1>2
  <2>4. {s} \ {0} = {s} /\ 1 \in 0 .. 1
    BY <1>2
  <2>5. QED
    BY <2>1, <2>2, <2>3, <2>4
<1>3. QED
  BY <1>1, <1>2

\* The string of the slots has their symbols, four at most.
LEMMA ShownHas ==
    ASSUME NEW ix, Typed(ix)
    PROVE  {Shown(ix)[k] : k \in DOMAIN Shown(ix) \cap 1 .. 4} =
               {ix[0], ix[1], ix[2], ix[3]} \ {0}
<1>1. PICK a, b, c, d :
         a = Symbol(ix[0]) /\ b = Symbol(ix[1]) /\ c = Symbol(ix[2]) /\ d = Symbol(ix[3])
  OBVIOUS
<1>2. /\ ix[0] \in {0} \cup ZuYinIndex /\ ix[1] \in {0} \cup ZuYinIndex
      /\ ix[2] \in {0} \cup ZuYinIndex /\ ix[3] \in {0} \cup ZuYinIndex
  BY DEF Typed, Slots
<1>3. /\ a \in Seq(ZuYinIndex) /\ b \in Seq(ZuYinIndex)
      /\ c \in Seq(ZuYinIndex) /\ d \in Seq(ZuYinIndex)
  BY <1>1, <1>2, SymbolIs
<1>4. /\ Len(a) \in 0 .. 1 /\ Len(b) \in 0 .. 1 /\ Len(c) \in 0 .. 1 /\ Len(d) \in 0 .. 1
  BY <1>1, <1>2, SymbolIs
<1>5. /\ ValuesOf(a) = {ix[0]} \ {0} /\ ValuesOf(b) = {ix[1]} \ {0}
      /\ ValuesOf(c) = {ix[2]} \ {0} /\ ValuesOf(d) = {ix[3]} \ {0}
  BY <1>1, <1>2, SymbolIs
<1>6. PICK ab, abc, abcd : ab = a \o b /\ abc = ab \o c /\ abcd = abc \o d
  OBVIOUS
<1>7. /\ ab \in Seq(ZuYinIndex) /\ Len(ab) = Len(a) + Len(b)
      /\ ValuesOf(ab) = ValuesOf(a) \cup ValuesOf(b)
  <2>1. a \in Seq(ZuYinIndex) /\ b \in Seq(ZuYinIndex) /\ ab = a \o b
    BY <1>3, <1>6
  <2>2. QED
    BY <2>1, ValuesOfBoth
<1>8. /\ abc \in Seq(ZuYinIndex) /\ Len(abc) = Len(ab) + Len(c)
      /\ ValuesOf(abc) = ValuesOf(ab) \cup ValuesOf(c)
  <2>1. ab \in Seq(ZuYinIndex) /\ c \in Seq(ZuYinIndex) /\ abc = ab \o c
    BY <1>3, <1>6, <1>7
  <2>2. QED
    BY <2>1, ValuesOfBoth
<1>9. /\ abcd \in Seq(ZuYinIndex) /\ Len(abcd) = Len(abc) + Len(d)
      /\ ValuesOf(abcd) = ValuesOf(abc) \cup ValuesOf(d)
  <2>1. abc \in Seq(ZuYinIndex) /\ d \in Seq(ZuYinIndex) /\ abcd = abc \o d
    BY <1>3, <1>6, <1>8
  <2>2. QED
    BY <2>1, ValuesOfBoth
<1>10. ValuesOf(abcd) = {ix[0], ix[1], ix[2], ix[3]} \ {0}
  <2>1. ValuesOf(abcd) = ValuesOf(a) \cup ValuesOf(b) \cup ValuesOf(c) \cup ValuesOf(d)
    BY <1>7, <1>8, <1>9
  <2>2. PICK i, j, k, l : i = ix[0] /\ j = ix[1] /\ k = ix[2] /\ l = ix[3]
    OBVIOUS
  <2>3. ({i} \ {0}) \cup ({j} \ {0}) \cup ({k} \ {0}) \cup ({l} \ {0})
          = {i, j, k, l} \ {0}
    OBVIOUS
  <2>4. QED
    BY <1>5, <2>1, <2>2, <2>3
<1>11. Shown(ix) = abcd
  BY <1>1, <1>6 DEF Shown
<1>12. DOMAIN abcd \cap 1 .. 4 = DOMAIN abcd
  <2>1. DOMAIN abcd = 1 .. Len(abcd) /\ Len(abcd) \in Nat
    BY <1>9
  <2>2. PICK k, l, m, n \in 0 .. 1 :
           k = Len(a) /\ l = Len(b) /\ m = Len(c) /\ n = Len(d)
    BY <1>4
  <2>3. Len(abcd) = k + l + m + n
    BY <1>7, <1>8, <1>9, <2>2
  <2>4. QED
    BY <2>1, <2>3
<1>13. {Shown(ix)[k] : k \in DOMAIN Shown(ix) \cap 1 .. 4} = ValuesOf(abcd)
  BY <1>11, <1>12 DEF ValuesOf
<1>14. QED
  BY <1>10, <1>13

\* The symbols of the slots, in any order, give the slots: there is one of each
\* kind at most.
LEMMA SlotsFound ==
    ASSUME NEW ix, Typed(ix), NEW inspected,
           inspected = {ix[0], ix[1], ix[2], ix[3]} \ {0}
    PROVE  [i \in 0 .. 3 |-> IF inspected \cap Kind[i] = {} THEN 0
                             ELSE CHOOSE s \in inspected \cap Kind[i] : TRUE] = ix
<1>1. PICK a, b, c, d : a = ix[0] /\ b = ix[1] /\ c = ix[2] /\ d = ix[3]
  OBVIOUS
<1>2. /\ a \in {0} \cup Initials /\ b \in {0} \cup Medials
      /\ c \in {0} \cup Finals /\ d \in {0} \cup Tones
  BY <1>1, SlotsHold
<1>3. inspected = {a, b, c, d} \ {0}
  BY <1>1
<1>4. /\ inspected \cap Initials = {a} \ {0} /\ inspected \cap Medials = {b} \ {0}
      /\ inspected \cap Finals = {c} \ {0} /\ inspected \cap Tones = {d} \ {0}
  BY <1>2, <1>3 DEF Initials, Medials, Finals, Tones
<1>5. \A i \in 0 .. 3 : inspected \cap Kind[i] = {ix[i]} \ {0}
  <2>1. \A i \in 0 .. 3 : i = 0 \/ i = 1 \/ i = 2 \/ i = 3
    OBVIOUS
  <2>2. QED
    BY <1>1, <1>4, <2>1, Kinds
<1>6. ASSUME NEW i \in 0 .. 3
      PROVE  (IF inspected \cap Kind[i] = {} THEN 0
              ELSE CHOOSE s \in inspected \cap Kind[i] : TRUE) = ix[i]
  <2>1. PICK T : T = inspected \cap Kind[i]
    OBVIOUS
  <2>2. T = {ix[i]} \ {0}
    BY <1>5, <2>1
  <2>3. (IF T = {} THEN 0 ELSE CHOOSE s \in T : TRUE) = ix[i]
    BY <2>2
  <2>4. QED
    BY <2>1, <2>3
<1>7. ix = [i \in 0 .. 3 |-> ix[i]]
  BY DEF Typed, Slots
<1>8. QED
  BY <1>6, <1>7

\* The slots of the string that is written for a yin: the first tone is left
\* out.
LEMMA WrittenSlots ==
    ASSUME NEW ix, Typed(ix), ix[3] # 0
    PROVE  \E jx : /\ Typed(jx) /\ YinOf(jx) = YinOf(ix)
                   /\ YinToZuYinSymbolSequence(YinOf(ix)) = Shown(jx)
<1>1. PICK yin : yin = YinOf(ix)
  OBVIOUS
<1>2. PICK tone : tone = ix[3]
  OBVIOUS
<1>3. tone \in Tones
  BY <1>2, SlotsHold
<1>4. Fields(yin)[3] = ToneField(tone) /\ IndexOf(yin) = ix
  BY <1>1, <1>2, FieldsOfYin, IndexOfYin
<1>5. PICK mark : mark = IF tone = 38 THEN 0 ELSE tone
  OBVIOUS
<1>6. (IF Fields(yin)[3] = 0 THEN 0 ELSE tone) = mark
  BY <1>3, <1>4, <1>5 DEF Tones, ToneField
<1>7. PICK jx : jx = [ix EXCEPT ![3] = mark]
  OBVIOUS
<1>8. YinToZuYinSymbolSequence(yin) = Shown(jx)
  <2>1. YinToZuYinSymbolSequence(yin) =
            Shown([ix EXCEPT ![3] = IF Fields(yin)[3] = 0 THEN 0 ELSE ix[3]])
    BY <1>4 DEF YinToZuYinSymbolSequence
  <2>2. QED
    BY <1>2, <1>6, <1>7, <2>1
<1>9. Typed(jx)
  <2>1. 3 \in 0 .. 3 /\ mark \in {0} \cup Kind[3]
    BY <1>3, <1>5, Kinds
  <2>2. QED
    BY <1>7, <2>1, SlotTyped
<1>10. jx[0] = ix[0] /\ jx[1] = ix[1] /\ jx[2] = ix[2] /\ jx[3] = mark
  BY <1>7 DEF Typed, Slots
<1>11. ToneField(mark) = ToneField(tone)
  BY <1>5 DEF ToneField
<1>12. YinOf(jx) = yin
  BY <1>1, <1>2, <1>10, <1>11 DEF YinOf
<1>13. QED
  BY <1>1, <1>8, <1>9, <1>12

\* A syllable that the table has can be shown and read again.
LEMMA SyllableReadsBack ==
    ASSUME NEW ix, Typed(ix), ix[3] # 0, NEW behind,
           YinToYinZhi(YinOf(ix), behind) # NoEntry
    PROVE  /\ Shown(IndexOf(YinOf(ix))) = String(ix)
           /\ ZuYinSymbolSequenceToYin(YinToZuYinSymbolSequence(YinOf(ix)), behind)
                = YinOf(ix)
<1>1. PICK yin : yin = YinOf(ix)
  OBVIOUS
<1>2. yin \in Nat
  BY <1>1, FieldsOfYin
<1>3. yin > 7
  <2>1. yin \in 0 .. 7 => YinToYinZhi(yin, behind) = NoEntry
    BY NothingBelow
  <2>2. yin \notin 0 .. 7
    BY <1>1, <2>1
  <2>3. QED
    BY <1>2, <2>2
<1>4. ~ \A i \in 0 .. 2 : ix[i] = 0
  <2>1. SUFFICES ASSUME \A i \in 0 .. 2 : ix[i] = 0 PROVE FALSE
    OBVIOUS
  <2>2. ix[0] = 0 /\ ix[1] = 0 /\ ix[2] = 0
    BY <2>1
  <2>3. ToneField(ix[3]) \in 0 .. 7
    BY SlotsHold DEF Tones, ToneField
  <2>4. yin \in 0 .. 7
    BY <1>1, <2>2, <2>3 DEF YinOf, Field
  <2>5. QED
    BY <1>3, <2>4
<1>5. Shown(IndexOf(yin)) = String(ix)
  BY <1>1, <1>4, IndexOfYin DEF String
<1>6. PICK jx : Typed(jx) /\ YinOf(jx) = yin /\ YinToZuYinSymbolSequence(yin) = Shown(jx)
  BY <1>1, WrittenSlots
<1>7. PICK inspected :
         inspected = {Shown(jx)[k] : k \in DOMAIN Shown(jx) \cap 1 .. 4}
  OBVIOUS
<1>8. inspected = {jx[0], jx[1], jx[2], jx[3]} \ {0}
  BY <1>6, <1>7, ShownHas
<1>9. [i \in 0 .. 3 |-> IF inspected \cap Kind[i] = {} THEN 0
                        ELSE CHOOSE s \in inspected \cap Kind[i] : TRUE] = jx
  BY <1>6, <1>8, SlotsFound
<1>10. ZuYinSymbolSequenceToYin(Shown(jx), behind) =
         IF YinToYinZhi(YinOf(jx), behind) = NoEntry THEN 0 ELSE YinOf(jx)
  BY <1>7, <1>9 DEF ZuYinSymbolSequenceToYin
<1>11. QED
  BY <1>1, <1>5, <1>6, <1>10

-----------------------------------------------------------------------------
(* ReadsBack *)

LEMMA FeedReadsBack ==
    ASSUME TypeOK, NEW key, Feed(key), UNCHANGED beyond
    PROVE  ReadsBack'
<1>1. PICK ix : ix = Input(keymap, index, key)
  OBVIOUS
<1>2. Typed(ix)
  BY <1>1, InputTyped DEF TypeOK, Typed
<1>3. /\ shown' = String(ix)
      /\ composed' = IF Composes(ix) THEN YinOf(ix) ELSE NoYin
  BY <1>1 DEF Feed
<1>4. CASE Composes(ix)
  <2>1. ix[3] # 0 /\ YinToYinZhi(YinOf(ix), beyond) # NoEntry
    <3>1. <<YinOf(ix), beyond>> \in Syllables
      BY <1>4 DEF Composes
    <3>2. PICK f \in Yins \X Beyond :
             <<YinOf(ix), beyond>> = f /\ YinToYinZhi(f[1], f[2]) # NoEntry
      BY <3>1 DEF Syllables
    <3>3. f[1] = YinOf(ix) /\ f[2] = beyond
      BY <3>2
    <3>4. QED
      BY <1>4, <3>2, <3>3 DEF Composes
  <2>2. PICK yin : yin = YinOf(ix)
    OBVIOUS
  <2>3. /\ Shown(IndexOf(yin)) = String(ix)
        /\ ZuYinSymbolSequenceToYin(YinToZuYinSymbolSequence(yin), beyond) = yin
    BY <1>2, <2>1, <2>2, SyllableReadsBack
  <2>4. composed' = yin /\ beyond' = beyond
    BY <1>3, <1>4, <2>2
  <2>5. QED
    BY <1>3, <2>3, <2>4 DEF ReadsBack
<1>5. CASE ~ Composes(ix)
  BY <1>3, <1>5 DEF ReadsBack
<1>6. QED
  BY <1>4, <1>5

\* What the last key put into the buffer stays as it was until the next key.
LEMMA NextReadsBack == TypeOK /\ ReadsBack /\ [Next]_vars => ReadsBack'
<1> SUFFICES ASSUME TypeOK, ReadsBack, [Next]_vars PROVE ReadsBack'
  OBVIOUS
<1>1. CASE UNCHANGED vars
  BY <1>1 DEF ReadsBack, vars
<1>2. CASE TypeAnyKey
  BY <1>2, FeedReadsBack DEF TypeAnyKey
<1>3. CASE TypeNextKey
  BY <1>3, FeedReadsBack DEF TypeNextKey
<1>4. CASE BackSpace
  BY <1>4 DEF BackSpace, ReadsBack
<1>5. CASE Escape
  BY <1>5 DEF Escape, ReadsBack
<1>6. CASE SetKeyMap
  BY <1>6 DEF SetKeyMap, ReadsBack
<1>7. ASSUME NEW i \in 1 .. num_of_yzt_entries, HasInMind(YinZhiTable[i])
      PROVE  ReadsBack'
  BY <1>7 DEF HasInMind, ReadsBack
<1>8. QED
  BY <1>1, <1>2, <1>3, <1>4, <1>5, <1>6, <1>7 DEF Next

\* What goes into the buffer reads back, in every keymap, whatever keys were
\* pressed and whatever the memory behind the table holds: the string that
\* bimsQueryLastZuYinString makes of it is the one that was shown while typing,
\* and the symbols that tsidump writes for it are the same yin to tsiadd.
THEOREM ReadsBackAlways == Spec => []ReadsBack
<1>1. Init => ReadsBack
  BY DEF Init, ReadsBack
<1>2. QED
  BY <1>1, NextReadsBack, TypeCorrect, PTL DEF Spec

-----------------------------------------------------------------------------
(* Every syllable is found *)

LEMMA YinIsNumber ==
    ASSUME NEW i \in 1 .. num_of_yzt_entries
    PROVE  YinZhiTable[i] \in Nat
<1>1. PICK yin \in Yins : yin = YinZhiTable[i]
  BY TableTyped
<1>2. yin \in Nat
  BY DEF Yins
<1>3. QED
  BY <1>1, <1>2

\* Later entries of the table are larger.
LEMMA TableSorted ==
    ASSUME NEW i \in 1 .. num_of_yzt_entries, NEW j \in 1 .. num_of_yzt_entries, i < j
    PROVE  YinZhiTable[i] < YinZhiTable[j]
<1> DEFINE T == {d \in Nat : i + d + 1 <= num_of_yzt_entries =>
                                YinZhiTable[i] < YinZhiTable[i + d + 1]}
<1>1. \A l \in 1 .. num_of_yzt_entries - 1 : YinZhiTable[l] < YinZhiTable[l + 1]
  BY TableAssumption
<1>2. \A l \in 1 .. num_of_yzt_entries : YinZhiTable[l] \in Nat
  BY YinIsNumber
<1>3. 0 \in T
  <2>1. i + 1 <= num_of_yzt_entries => i \in 1 .. num_of_yzt_entries - 1
    BY TableSize
  <2>2. i + 0 + 1 = i + 1
    OBVIOUS
  <2>3. QED
    BY <1>1, <2>1, <2>2
<1>4. ASSUME NEW d \in T PROVE d + 1 \in T
  <2>1. SUFFICES ASSUME i + (d + 1) + 1 <= num_of_yzt_entries
                 PROVE  YinZhiTable[i] < YinZhiTable[i + (d + 1) + 1]
    OBVIOUS
  <2>2. PICK l \in 1 .. num_of_yzt_entries - 1 : l = i + d + 1
    BY <2>1, TableSize
  <2>3. YinZhiTable[i] < YinZhiTable[l]
    <3>1. d \in Nat /\ i + d + 1 <= num_of_yzt_entries
      BY <2>1, TableSize
    <3>2. YinZhiTable[i] < YinZhiTable[i + d + 1]
      BY <3>1
    <3>3. QED
      BY <2>2, <3>2
  <2>4. YinZhiTable[l] < YinZhiTable[l + 1]
    BY <1>1
  <2>5. l \in 1 .. num_of_yzt_entries /\ l + 1 \in 1 .. num_of_yzt_entries
    BY TableSize
  <2>6. YinZhiTable[i] < YinZhiTable[l + 1]
    <3>1. PICK a, b, c \in Nat : a = YinZhiTable[i] /\ b = YinZhiTable[l]
                                 /\ c = YinZhiTable[l + 1]
      BY <1>2, <2>5
    <3>2. a < b /\ b < c
      BY <2>3, <2>4, <3>1
    <3>3. QED
      BY <3>1, <3>2
  <2>7. i + (d + 1) + 1 = l + 1
    BY <2>2
  <2>8. QED
    BY <2>6, <2>7
<1>5. T = Nat
  <2>1. T \in SUBSET Nat
    OBVIOUS
  <2> HIDE DEF T
  <2>2. QED
    BY <1>3, <1>4, <2>1, Induction
<1>6. PICK d \in Nat : j = i + d + 1
  <2>1. j - i - 1 \in Nat /\ j = i + (j - i - 1) + 1
    OBVIOUS
  <2>2. QED
    BY <2>1
<1>7. YinZhiTable[i] < YinZhiTable[i + d + 1]
  <2>1. i + d + 1 <= num_of_yzt_entries
    BY <1>6, TableSize
  <2>2. d \in T
    <3> HIDE DEF T
    <3>1. QED
      BY <1>5
  <2>3. QED
    BY <2>1, <2>2
<1>8. QED
  BY <1>6, <1>7

(***************************************************************************)
(* The position of the search, index of n entries, moves by step towards   *)
(* the entry goal.  The memory behind the last entry may be smaller than   *)
(* the syllable: the index stays, but for one, where it is.                *)
(***************************************************************************)
Later(n, at, step) == IF at + step > n THEN n - 1 ELSE at + step
Earlier(n, at, step) == IF at - step < 0 THEN 0 ELSE at - step

Moves(n, goal, at, step, next) ==
    \/ goal > at /\ next = Later(n, at, step)
    \/ goal < at /\ next = Earlier(n, at, step)
    \/ at = n /\ next = Later(n, at, step)

LEMMA NextIndexMoves ==
    ASSUME NEW goal \in 0 .. num_of_yzt_entries - 1, NEW behind,
           NEW at \in 0 .. num_of_yzt_entries, at # goal, NEW step \in Nat
    PROVE  Moves(num_of_yzt_entries, goal, at, step,
                 NextIndex(at, step, YinZhiTable[goal + 1], behind))
<1>1. PICK n \in Nat : n = num_of_yzt_entries /\ n >= 1
  BY TableSize
<1>2. PICK yin : yin = YinZhiTable[goal + 1]
  OBVIOUS
<1>3. PICK there : there = Entry(at, behind)
  OBVIOUS
<1>4. PICK next : next = NextIndex(at, step, yin, behind)
  OBVIOUS
<1>5. next = IF yin > there THEN Later(n, at, step) ELSE Earlier(n, at, step)
  BY <1>1, <1>3, <1>4 DEF NextIndex, Later, Earlier
<1>6. CASE at < n
  <2>1. PICK i, j \in 1 .. num_of_yzt_entries : i = at + 1 /\ j = goal + 1
    BY <1>1, <1>6
  <2>2. there = YinZhiTable[i] /\ yin = YinZhiTable[j]
    BY <1>1, <1>2, <1>3, <1>6, <2>1 DEF Entry
  <2>3. there \in Nat /\ yin \in Nat
    BY <2>2, YinIsNumber
  <2>4. (i < j => there < yin) /\ (j < i => yin < there)
    BY <2>2, TableSorted
  <2>5. (at < goal <=> i < j) /\ (goal < at <=> j < i)
    BY <2>1
  <2>6. (at < goal => yin > there) /\ (goal < at => ~ (yin > there))
    BY <2>3, <2>4, <2>5
  <2>7. at < goal \/ goal < at
    OBVIOUS
  <2>8. QED
    BY <1>1, <1>2, <1>4, <1>5, <2>6, <2>7 DEF Moves
<1>7. CASE at = n
  <2>1. goal < at
    BY <1>1, <1>7
  <2>2. next = Later(n, at, step) \/ next = Earlier(n, at, step)
    BY <1>5
  <2>3. QED
    BY <1>1, <1>2, <1>4, <1>7, <2>1, <2>2 DEF Moves
<1>8. QED
  BY <1>1, <1>6, <1>7

(***************************************************************************)
(* The invariant of the loop, after k turns of T + 1: unless the entry is  *)
(* found, it is at most two steps away; the steps are over when it ends,   *)
(* and the search then has the turns it needs to walk to it.  An index     *)
(* that reached n may have lost a step there, which is small by then.      *)
(***************************************************************************)
Within(at, goal, distance) == goal - distance <= at /\ at <= goal + distance

\* The steps of a table of up to 1537 entries.
Narrow(step, k) ==
    /\ (k = 0 => step <= 384) /\ (k = 1 => step <= 192) /\ (k = 2 => step <= 96)
    /\ (k = 3 => step <= 48) /\ (k = 4 => step <= 24) /\ (k = 5 => step <= 12)
    /\ (k = 6 => step <= 6) /\ (k >= 7 => step <= 3)

\* Halved, the step ends in time.
InTime(T, step, k) == step = 1 \/ (k + 2 <= T /\ step <= OneShifted[T - 2 - k])

Reaches(n, T, at, step, goal, k) ==
    \/ step = 1 /\ Within(at, goal, T + 1 - k)
    \/ step > 1 /\ Within(at, goal, 2 * step)
    \/ step = 2 /\ at = n - 1 /\ Within(at, goal, 5) /\ k + 3 <= T

Near(n, T, at, step, goal, k) ==
    /\ at \in 0 .. n /\ step \in Nat /\ step >= 1
    /\ at + 2 * step <= n + 1 + k
    /\ Narrow(step, k)
    /\ InTime(T, step, k)
    /\ Reaches(n, T, at, step, goal, k)

LEMMA NextStepIs ==
    ASSUME NEW step \in Nat, step >= 1
    PROVE  /\ NextStep(step) \in Nat /\ NextStep(step) >= 1
           /\ 2 * NextStep(step) = step \/ 2 * NextStep(step) = step + 1
BY DEF NextStep

LEMMA InTimeNext ==
    ASSUME NEW T \in Nat, NEW step \in Nat, step >= 1, NEW k \in Nat,
           InTime(T, step, k)
    PROVE  InTime(T, NextStep(step), k + 1)
<1>1. PICK half \in Nat : half = NextStep(step)
  BY NextStepIs
<1>2. half >= 1 /\ (2 * half = step \/ 2 * half = step + 1)
  BY <1>1, NextStepIs
<1>3. CASE step <= 2
  BY <1>1, <1>2, <1>3 DEF InTime
<1>4. CASE step > 2
  <2>1. k + 2 <= T /\ step <= OneShifted[T - 2 - k]
    BY <1>4 DEF InTime
  <2>2. PICK d \in Nat : d = T - 2 - k
    BY <2>1
  <2>3. d # 0
    BY <1>4, <2>1, <2>2, Shifts
  <2>4. PICK e \in Nat : e = d - 1
    BY <2>3
  <2>5. PICK a, b \in Nat : a = OneShifted[e] /\ b = OneShifted[d]
    BY Shifts
  <2>6. b = 2 * a
    <3>1. d = e + 1
      BY <2>4
    <3>2. QED
      BY <2>5, <3>1, Shifts
  <2>7. half <= a
    BY <1>2, <2>1, <2>2, <2>5, <2>6
  <2>8. T - 2 - (k + 1) = e /\ (k + 1) + 2 <= T
    BY <2>2, <2>3, <2>4
  <2>9. QED
    BY <1>1, <2>5, <2>7, <2>8 DEF InTime
<1>5. QED
  BY <1>3, <1>4

LEMMA NarrowNext ==
    ASSUME NEW step \in Nat, step >= 1, NEW k \in Nat, Narrow(step, k)
    PROVE  Narrow(NextStep(step), k + 1)
<1>1. PICK half \in Nat : half = NextStep(step)
  BY NextStepIs
<1>2. 2 * half <= step + 1
  BY <1>1, NextStepIs
<1>3. Narrow(half, k + 1)
  BY <1>2 DEF Narrow
<1>4. QED
  BY <1>1, <1>3

\* A step larger than 1 is taken well before the end.
LEMMA TurnsLeft ==
    ASSUME NEW T \in Nat, NEW step \in Nat, NEW k \in Nat, InTime(T, step, k)
    PROVE  (step > 1 => k + 3 <= T) /\ (step > 2 => k + 4 <= T)
<1>1. CASE step > 1
  <2>1. PICK d \in Nat : d = T - 2 - k
    BY <1>1 DEF InTime
  <2>2. step <= OneShifted[d]
    BY <1>1, <2>1 DEF InTime
  <2>3. OneShifted[0] = 1 /\ OneShifted[1] = 2
    <3>1. OneShifted[0 + 1] = 2 * OneShifted[0]
      BY Shifts
    <3>2. QED
      BY <3>1, Shifts
  <2>4. d # 0
    BY <1>1, <2>2, <2>3
  <2>5. step > 2 => d # 1
    BY <2>2, <2>3
  <2>6. QED
    BY <2>1, <2>4, <2>5
<1>2. QED
  BY <1>1

\* A turn that goes a whole step, or less where the table begins or ends.
LEMMA ReachesByStep ==
    ASSUME NEW n \in Nat, NEW T \in Nat, NEW at \in 0 .. n, NEW step \in Nat, step >= 1,
           NEW goal \in 0 .. n - 1, at # goal, NEW k \in Nat, NEW next,
           InTime(T, step, k), Reaches(n, T, at, step, goal, k),
           \/ goal > at /\ next = Later(n, at, step)
           \/ goal < at /\ next = Earlier(n, at, step)
    PROVE  Reaches(n, T, next, NextStep(step), goal, k + 1)
<1>1. PICK half \in Nat : half = NextStep(step)
  BY NextStepIs
<1>2. half >= 1 /\ (2 * half = step \/ 2 * half = step + 1)
  BY <1>1, NextStepIs
<1>3. next \in 0 .. n
  BY DEF Later, Earlier
<1>4. (step > 1 => k + 3 <= T) /\ (step > 2 => k + 4 <= T)
  BY TurnsLeft
<1>5. CASE step = 1 /\ Within(at, goal, T + 1 - k)
  <2>1. Within(next, goal, T + 1 - (k + 1))
    BY <1>5 DEF Within, Later, Earlier
  <2>2. half = 1
    BY <1>2, <1>5
  <2>3. QED
    BY <1>1, <2>1, <2>2 DEF Reaches
<1>6. CASE step > 1 /\ Within(at, goal, 2 * step)
  <2>1. Within(next, goal, step)
    BY <1>6 DEF Within, Later, Earlier
  <2>2. CASE half = 1
    <3>1. step = 2
      BY <1>2, <1>6, <2>2
    <3>2. Within(next, goal, T + 1 - (k + 1))
      BY <1>3, <1>4, <2>1, <3>1 DEF Within
    <3>3. QED
      BY <1>1, <2>2, <3>2 DEF Reaches
  <2>3. CASE half > 1
    <3>1. Within(next, goal, 2 * half)
      BY <1>2, <1>3, <2>1 DEF Within
    <3>2. QED
      BY <1>1, <2>3, <3>1 DEF Reaches
  <2>4. QED
    BY <1>2, <2>2, <2>3
<1>7. CASE step = 2 /\ at = n - 1 /\ Within(at, goal, 5) /\ k + 3 <= T
  <2>1. goal < at /\ next = Earlier(n, at, 2)
    BY <1>7
  <2>2. Within(next, goal, 3)
    BY <1>7, <2>1 DEF Within, Earlier
  <2>3. half = 1
    BY <1>2, <1>7
  <2>4. Within(next, goal, T + 1 - (k + 1))
    BY <1>3, <1>7, <2>2 DEF Within
  <2>5. QED
    BY <1>1, <2>3, <2>4 DEF Reaches
<1>8. QED
  BY <1>5, <1>6, <1>7 DEF Reaches

\* A turn at the index n that sees less than the syllable behind the table.
LEMMA ReachesFromBehind ==
    ASSUME NEW n \in Nat, NEW T \in Nat, NEW step \in Nat, step >= 1, step <= 3,
           NEW goal \in 0 .. n - 1, NEW k \in Nat,
           InTime(T, step, k), Reaches(n, T, n, step, goal, k)
    PROVE  Reaches(n, T, n - 1, NextStep(step), goal, k + 1)
<1>1. PICK half \in Nat : half = NextStep(step)
  BY NextStepIs
<1>2. half >= 1 /\ (2 * half = step \/ 2 * half = step + 1)
  BY <1>1, NextStepIs
<1>3. (step > 1 => k + 3 <= T) /\ (step > 2 => k + 4 <= T)
  BY TurnsLeft
<1>4. CASE step = 1
  <2>1. Within(n, goal, T + 1 - k)
    BY <1>4 DEF Reaches
  <2>2. Within(n - 1, goal, T + 1 - (k + 1))
    BY <2>1 DEF Within
  <2>3. half = 1
    BY <1>2, <1>4
  <2>4. QED
    BY <1>1, <2>2, <2>3 DEF Reaches
<1>5. CASE step = 2
  <2>1. Within(n, goal, 4)
    BY <1>5 DEF Reaches
  <2>2. Within(n - 1, goal, T + 1 - (k + 1))
    BY <1>3, <1>5, <2>1 DEF Within
  <2>3. half = 1
    BY <1>2, <1>5
  <2>4. QED
    BY <1>1, <2>2, <2>3 DEF Reaches
<1>6. CASE step = 3
  <2>1. Within(n, goal, 6)
    BY <1>6 DEF Reaches
  <2>2. Within(n - 1, goal, 5)
    BY <2>1 DEF Within
  <2>3. half = 2 /\ (k + 1) + 3 <= T
    BY <1>2, <1>3, <1>6
  <2>4. QED
    BY <1>1, <2>2, <2>3 DEF Reaches
<1>7. QED
  BY <1>4, <1>5, <1>6

\* The invariant holds after a turn.
LEMMA NearNext ==
    ASSUME NEW n \in Nat, NEW T \in Nat, NEW at, NEW step, NEW k \in Nat,
           NEW goal \in 0 .. n - 1, at # goal, NEW next,
           Near(n, T, at, step, goal, k), Moves(n, goal, at, step, next)
    PROVE  Near(n, T, next, NextStep(step), goal, k + 1)
<1>1. PICK i \in 0 .. n, s \in Nat : i = at /\ s = step
  BY DEF Near
<1>2. /\ s >= 1 /\ i + 2 * s <= n + 1 + k /\ Narrow(s, k) /\ InTime(T, s, k)
      /\ Reaches(n, T, i, s, goal, k) /\ i # goal
  BY <1>1 DEF Near
<1>3. PICK half \in Nat : half = NextStep(s)
  BY <1>2, NextStepIs
<1>4. half >= 1 /\ (2 * half = s \/ 2 * half = s + 1)
  BY <1>2, <1>3, NextStepIs
<1>5. Narrow(half, k + 1) /\ InTime(T, half, k + 1)
  BY <1>2, <1>3, NarrowNext, InTimeNext
<1>6. /\ next = Later(n, i, s) \/ next = Earlier(n, i, s)
      /\ n >= 1
  BY <1>1 DEF Moves
<1>7. next \in 0 .. n /\ next + 2 * half <= n + 1 + (k + 1)
  <2>1. CASE next = Later(n, i, s) /\ i + s > n
    <3>1. next = n - 1 /\ s > n - i /\ 2 * half <= s + 1
      BY <1>4, <2>1 DEF Later
    <3>2. QED
      BY <1>2, <1>6, <3>1
  <2>2. CASE next = Later(n, i, s) /\ ~ (i + s > n)
    <3>1. next = i + s /\ i + s <= n /\ 2 * half <= s + 1
      BY <1>4, <2>2 DEF Later
    <3>2. QED
      BY <1>2, <3>1
  <2>3. CASE next = Earlier(n, i, s)
    <3>1. next \in 0 .. n /\ next <= i /\ 2 * half <= s + 1
      BY <1>4, <2>3 DEF Earlier
    <3>2. QED
      BY <1>2, <3>1
  <2>4. QED
    BY <1>6, <2>1, <2>2, <2>3
<1>8. Reaches(n, T, next, half, goal, k + 1)
  <2>1. CASE \/ goal > i /\ next = Later(n, i, s)
             \/ goal < i /\ next = Earlier(n, i, s)
    BY <1>2, <1>3, <2>1, ReachesByStep
  <2>2. CASE i = n /\ next = Later(n, i, s)
    <3>1. s <= 3
      <4>1. 2 * s <= 1 + k
        BY <1>2, <2>2
      <4>2. CASE k >= 7
        BY <1>2, <4>2 DEF Narrow
      <4>3. CASE ~ (k >= 7)
        BY <4>1, <4>3
      <4>4. QED
        BY <4>2, <4>3
    <3>2. next = n - 1
      BY <1>2, <2>2 DEF Later
    <3>3. Reaches(n, T, n, s, goal, k)
      BY <1>2, <2>2
    <3>4. QED
      BY <1>2, <1>3, <3>1, <3>2, <3>3, ReachesFromBehind
  <2>3. QED
    BY <1>1, <2>1, <2>2 DEF Moves
<1>9. QED
  BY <1>1, <1>3, <1>4, <1>5, <1>7, <1>8 DEF Near

\* The loop begins in the middle.
LEMMA NearStart ==
    ASSUME NEW n \in Nat, n >= 2, n <= 1537, NEW T \in Nat, OneShifted[T] >= n,
           NEW goal \in 0 .. n - 1
    PROVE  Near(n, T, n \div 2, (n \div 2 + 1) \div 2, goal, 0)
<1>1. PICK m \in Nat : m = n \div 2
  OBVIOUS
<1>2. PICK s \in Nat : s = (m + 1) \div 2
  OBVIOUS
<1>3. 2 * m = n \/ 2 * m + 1 = n
  BY <1>1
<1>4. 2 * s = m \/ 2 * s = m + 1
  BY <1>2
<1>5. m \in 0 .. n /\ s >= 1 /\ s <= 384 /\ m + 2 * s <= n + 1 + 0
  BY <1>3, <1>4
<1>6. Narrow(s, 0)
  BY <1>5 DEF Narrow
<1>7. T # 0
  BY Shifts
<1>8. InTime(T, s, 0)
  <2>1. SUFFICES ASSUME s # 1 PROVE 0 + 2 <= T /\ s <= OneShifted[T - 2 - 0]
    BY DEF InTime
  <2>2. n >= 3
    BY <1>3, <1>4, <1>5, <2>1
  <2>3. OneShifted[0 + 1] = 2
    BY Shifts
  <2>4. T # 1
    BY <2>2, <2>3
  <2>5. PICK d, e \in Nat : d = T - 2 /\ e = d + 1
    BY <1>7, <2>4
  <2>6. PICK a \in Nat : a = OneShifted[d]
    BY Shifts
  <2>7. OneShifted[e] = 2 * a
    BY <2>5, <2>6, Shifts
  <2>8. OneShifted[T] = 4 * a
    <3>1. T = e + 1
      BY <2>5
    <3>2. OneShifted[e + 1] = 2 * OneShifted[e]
      BY Shifts
    <3>3. QED
      BY <2>7, <3>1, <3>2
  <2>9. s <= a
    BY <1>3, <1>4, <2>8
  <2>10. T - 2 - 0 = d /\ 0 + 2 <= T
    BY <2>5
  <2>11. QED
    BY <2>6, <2>9, <2>10
<1>9. Within(m, goal, 2 * s)
  BY <1>3, <1>4 DEF Within
<1>10. Reaches(n, T, m, s, goal, 0)
  <2>1. CASE s = 1
    <3>1. Within(m, goal, T + 1 - 0)
      BY <1>5, <1>7, <1>9, <2>1 DEF Within
    <3>2. QED
      BY <2>1, <3>1 DEF Reaches
  <2>2. CASE s # 1
    BY <1>5, <1>9, <2>2 DEF Reaches
  <2>3. QED
    BY <2>1, <2>2
<1>11. QED
  BY <1>1, <1>2, <1>5, <1>6, <1>8, <1>10 DEF Near

\* After the last turn there is nothing left to go.
LEMMA NearEnd ==
    ASSUME NEW n \in Nat, NEW T \in Nat, NEW at, NEW step, NEW goal \in 0 .. n - 1,
           Near(n, T, at, step, goal, T + 1)
    PROVE  at = goal
<1>1. PICK i \in 0 .. n, s \in Nat : i = at /\ s = step
  BY DEF Near
<1>2. InTime(T, s, T + 1) /\ Reaches(n, T, i, s, goal, T + 1)
  BY <1>1 DEF Near
<1>3. s = 1
  BY <1>2 DEF InTime
<1>4. Within(i, goal, T + 1 - (T + 1))
  BY <1>2, <1>3 DEF Reaches
<1>5. QED
  BY <1>1, <1>4 DEF Within

LEMMA GoalIs ==
    ASSUME NEW goal \in 0 .. num_of_yzt_entries - 1, NEW behind
    PROVE  Entry(goal, behind) = YinZhiTable[goal + 1]
<1>1. goal \in Nat /\ goal < num_of_yzt_entries
  BY TableSize
<1>2. QED
  BY <1>1, EntryIs

\* The search has found the syllable of the entry goal, or is near it.
FoundOrNear(p, goal, behind, k) ==
    \/ Entry(p.index, behind) = YinZhiTable[goal + 1]
    \/ Near(num_of_yzt_entries, Threshold, p.index, p.step, goal, k)

LEMMA TurnStaysNear ==
    ASSUME NEW goal \in 0 .. num_of_yzt_entries - 1, NEW behind, NEW k \in Nat,
           NEW p \in Position, FoundOrNear(p, goal, behind, k)
    PROVE  FoundOrNear(Turn(p, YinZhiTable[goal + 1], behind), goal, behind, k + 1)
<1>1. PICK yin : yin = YinZhiTable[goal + 1]
  OBVIOUS
<1>2. PICK q : q = Turn(p, yin, behind)
  OBVIOUS
<1>3. CASE Entry(p.index, behind) = yin
  <2>1. q = p
    BY <1>2, <1>3, TurnIs
  <2>2. QED
    BY <1>1, <1>2, <1>3, <2>1 DEF FoundOrNear
<1>4. CASE Entry(p.index, behind) # yin
  <2>1. PICK n, T \in Nat : n = num_of_yzt_entries /\ T = Threshold
    BY TableSize, ThresholdIs
  <2>2. PICK at, step : at = p.index /\ step = p.step
    OBVIOUS
  <2>3. Near(n, T, at, step, goal, k)
    BY <1>1, <1>4, <2>1, <2>2 DEF FoundOrNear
  <2>4. at \in 0 .. n /\ step \in Nat
    BY <2>3 DEF Near
  <2>5. at # goal
    <3>1. Entry(goal, behind) = yin
      BY <1>1, GoalIs
    <3>2. QED
      BY <1>4, <2>2, <3>1
  <2>6. q.index = NextIndex(at, step, yin, behind) /\ q.step = NextStep(step)
    BY <1>2, <1>4, <2>2, TurnIs
  <2>7. Moves(n, goal, at, step, q.index)
    BY <1>1, <2>1, <2>4, <2>5, <2>6, NextIndexMoves
  <2>8. goal \in 0 .. n - 1
    BY <2>1
  <2>9. Near(n, T, q.index, NextStep(step), goal, k + 1)
    BY <2>3, <2>5, <2>7, <2>8, NearNext
  <2>10. QED
    BY <1>1, <1>2, <2>1, <2>6, <2>9 DEF FoundOrNear
<1>5. QED
  BY <1>3, <1>4

\* Every syllable of the table is found, whatever the memory behind the table
\* holds, and at its own entry unless that memory holds the same: the search
\* of tabeYinToYinZhi has turns enough for each table of up to 1537 entries
\* (tabe_yin2zhi.h has 1328).
THEOREM EverySyllableIsFound ==
    ASSUME num_of_yzt_entries <= 1537,
           NEW goal \in 0 .. num_of_yzt_entries - 1, NEW behind
    PROVE  /\ YinToYinZhi(YinZhiTable[goal + 1], behind) # NoEntry
           /\ behind # YinZhiTable[goal + 1] =>
                 YinToYinZhi(YinZhiTable[goal + 1], behind) = goal
<1>1. PICK yin : yin = YinZhiTable[goal + 1]
  OBVIOUS
<1>2. PICK n, T, last \in Nat : n = num_of_yzt_entries /\ T = Threshold /\ last = T + 1
  BY TableSize, ThresholdIs
<1>3. n >= 1 /\ n <= 1537 /\ goal \in 0 .. n - 1 /\ OneShifted[T] >= n
  BY <1>2, TableSize, ThresholdIs
<1> DEFINE K == {k \in Nat : FoundOrNear(Search(yin, behind)[k], goal, behind, k)}
<1>4. 0 \in K
  <2>1. CASE n = 1
    <3>1. goal = 0 /\ n \div 2 = 0
      BY <1>3, <2>1
    <3>2. Start.index = goal
      BY <1>2, <3>1 DEF Start
    <3>3. Entry(goal, behind) = yin
      BY <1>1, GoalIs
    <3>4. FoundOrNear(Start, goal, behind, 0)
      BY <1>1, <3>2, <3>3 DEF FoundOrNear
    <3>5. QED
      BY <3>4, SearchIs
  <2>2. CASE n # 1
    <3>1. n >= 2
      BY <1>3, <2>2
    <3>2. Near(n, T, n \div 2, (n \div 2 + 1) \div 2, goal, 0)
      BY <1>3, <3>1, NearStart
    <3>3. Start.index = n \div 2 /\ Start.step = (n \div 2 + 1) \div 2
      BY <1>2 DEF Start
    <3>4. FoundOrNear(Start, goal, behind, 0)
      BY <1>2, <3>2, <3>3 DEF FoundOrNear
    <3>5. QED
      BY <3>4, SearchIs
  <2>3. QED
    BY <2>1, <2>2
<1>5. ASSUME NEW k \in K PROVE k + 1 \in K
  <2>1. PICK p \in Position : p = Search(yin, behind)[k]
    BY SearchIs
  <2>2. FoundOrNear(p, goal, behind, k)
    BY <2>1
  <2>3. FoundOrNear(Turn(p, yin, behind), goal, behind, k + 1)
    BY <1>1, <2>2, TurnStaysNear
  <2>4. Search(yin, behind)[k + 1] = Turn(p, yin, behind)
    BY <2>1, SearchIs
  <2>5. QED
    BY <2>3, <2>4
<1>6. K = Nat
  <2>1. K \in SUBSET Nat
    OBVIOUS
  <2> HIDE DEF K
  <2>2. QED
    BY <1>4, <1>5, <2>1, Induction
<1>7. PICK end \in Nat : end = SearchEnd(yin, behind)
  BY SearchEndIs
<1>8. Entry(end, behind) = yin
  <2>1. PICK p : p = Search(yin, behind)[last]
    OBVIOUS
  <2>2. FoundOrNear(p, goal, behind, last)
    BY <1>6, <2>1
  <2>3. end = p.index
    BY <1>2, <1>7, <2>1, SearchEndIs
  <2>4. CASE Near(n, T, p.index, p.step, goal, last)
    <3>1. p.index = goal
      BY <1>2, <1>3, <2>4, NearEnd
    <3>2. QED
      BY <1>1, <2>3, <3>1, GoalIs
  <2>5. QED
    BY <1>1, <1>2, <2>2, <2>3, <2>4 DEF FoundOrNear
<1>9. YinToYinZhi(yin, behind) = end
  BY <1>7, <1>8 DEF YinToYinZhi
<1>10. end # NoEntry
  BY NoEntryAssumption
<1>11. behind # yin => end = goal
  <2>1. SUFFICES ASSUME behind # yin PROVE end = goal
    OBVIOUS
  <2>2. PICK i, j \in 1 .. num_of_yzt_entries : i = end + 1 /\ j = goal + 1
    BY <1>2, <1>3, <1>8, <2>1 DEF Entry
  <2>3. YinZhiTable[i] = YinZhiTable[j]
    BY <1>1, <1>8, <2>1, <2>2 DEF Entry
  <2>4. PICK a, b \in Nat : a = YinZhiTable[i] /\ b = YinZhiTable[j]
    BY YinIsNumber
  <2>5. (i < j => a < b) /\ (j < i => b < a)
    BY <2>4, TableSorted
  <2>6. QED
    BY <2>2, <2>3, <2>4, <2>5
<1>12. QED
  BY <1>1, <1>9, <1>10, <1>11
=============================================================================
