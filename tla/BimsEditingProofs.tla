-------------------------- MODULE BimsEditingProofs ---------------------------
(***************************************************************************)
(* Theorems about the editing buffer: whatever a client does, the three    *)
(* arrays stay aligned, the choices on offer fit the cursor and edits are  *)
(* local; a client that limits the buffer with room for the words of the   *)
(* dictionary, and leaves smart editing on, never makes the library write  *)
(* where there is no memory.                                               *)
(***************************************************************************)
EXTENDS BimsEditing, SequenceTheorems, TLAPS

\* There is no choice on offer while keys are fed, so that no edit can make
\* the choices stale.
NoChoiceWhileEditing == state = "EDITING" => zsel = {}

IInv == TypeOK /\ PinsMatchSyllables /\ ChoicesFit /\ NoChoiceWhileEditing

-----------------------------------------------------------------------------
(* The arrays *)

\* memmove down by one.
LEMMA ShiftDownProperties ==
    ASSUME NEW S, NEW a \in Seq(S), NEW pos \in 1 .. Len(a)
    PROVE  /\ ShiftDown(a, pos) \in Seq(S)
           /\ Len(ShiftDown(a, pos)) = Len(a) - 1
           /\ \A i \in 1 .. (Len(a) - 1) :
                 ShiftDown(a, pos)[i] = IF i < pos THEN a[i] ELSE a[i + 1]
<1> DEFINE n == Len(a) - 1
           e(i) == IF i < pos THEN a[i] ELSE a[i + 1]
<1>1. n \in Nat
  BY LenProperties
<1>2. \A i \in 1 .. n : e(i) \in S
  <2>1. \A i \in 1 .. Len(a) : a[i] \in S
    BY ElementOfSeq
  <2>2. \A i \in 1 .. n : i \in 1 .. Len(a) /\ i + 1 \in 1 .. Len(a)
    BY <1>1
  <2>3. QED
    BY <2>1, <2>2
<1>3. [i \in 1 .. n |-> e(i)] \in Seq(S)
  <2> HIDE DEF n, e
  <2>1. QED
    BY <1>1, <1>2, IsASeq
<1>4. ShiftDown(a, pos) = [i \in 1 .. n |-> e(i)]
  BY DEF ShiftDown
<1> HIDE DEF e
<1>5. Len([i \in 1 .. n |-> e(i)]) = n
  BY <1>1
<1>6. \A i \in 1 .. n : [j \in 1 .. n |-> e(j)][i] = e(i)
  OBVIOUS
<1>7. QED
  BY <1>3, <1>4, <1>5, <1>6 DEF e

\* b is a with x put in after the first pos elements.
Inserted(S, b, a, pos, x) ==
    /\ b \in Seq(S)
    /\ Len(b) = Len(a) + 1
    /\ \A i \in 1 .. pos : b[i] = a[i]
    /\ b[pos + 1] = x
    /\ \A i \in (pos + 2) .. (Len(a) + 1) : b[i] = a[i - 1]

\* memmove up by one, and a new element.
LEMMA ShiftUpInserts ==
    ASSUME NEW S, NEW a \in Seq(S), NEW pos \in 0 .. Len(a), NEW x \in S
    PROVE  Inserted(S, ShiftUp(a, pos, x), a, pos, x)
<1> DEFINE n == Len(a) + 1
           e(i) == IF i <= pos THEN a[i] ELSE IF i = pos + 1 THEN x ELSE a[i - 1]
<1>1. n \in Nat
  BY LenProperties
<1>2. \A i \in 1 .. n : e(i) \in S
  <2>1. \A i \in 1 .. Len(a) : a[i] \in S
    BY ElementOfSeq
  <2>2. \A i \in 1 .. n : /\ i <= pos => i \in 1 .. Len(a)
                          /\ i > pos + 1 => i - 1 \in 1 .. Len(a)
    BY <1>1
  <2>3. \A i \in 1 .. n : i <= pos \/ i = pos + 1 \/ i > pos + 1
    BY <1>1
  <2>4. QED
    BY <2>1, <2>2, <2>3
<1>3. [i \in 1 .. n |-> e(i)] \in Seq(S)
  <2> HIDE DEF n, e
  <2>1. QED
    BY <1>1, <1>2, IsASeq
<1>4. ShiftUp(a, pos, x) = [i \in 1 .. n |-> e(i)]
  BY DEF ShiftUp
<1> HIDE DEF e
<1>5. Len([i \in 1 .. n |-> e(i)]) = n
  BY <1>1
<1>6. \A i \in 1 .. n : [j \in 1 .. n |-> e(j)][i] = e(i)
  OBVIOUS
<1>7. /\ \A i \in 1 .. pos : i \in 1 .. n /\ e(i) = a[i]
      /\ pos + 1 \in 1 .. n /\ e(pos + 1) = x
      /\ \A i \in (pos + 2) .. n : i \in 1 .. n /\ e(i) = a[i - 1]
  BY <1>1 DEF e
<1>8. QED
  BY <1>3, <1>4, <1>5, <1>6, <1>7 DEF Inserted

\* Part of a sequence, perhaps none of it.
LEMMA SliceProperties ==
    ASSUME NEW S, NEW s \in Seq(S),
           NEW m \in 1 .. (Len(s) + 1), NEW n \in (m - 1) .. Len(s)
    PROVE  /\ SubSeq(s, m, n) \in Seq(S)
           /\ Len(SubSeq(s, m, n)) = n - m + 1
           /\ \A i \in 1 .. (n - m + 1) : SubSeq(s, m, n)[i] = s[m + i - 1]
<1>1. \A i \in m .. n : s[i] \in S
  <2>1. \A i \in m .. n : i \in 1 .. Len(s)
    BY LenProperties
  <2>2. QED
    BY <2>1, ElementOfSeq
<1>2. m \in Int /\ n \in Int /\ (m <= n \/ n = m - 1)
  BY LenProperties
<1>3. /\ SubSeq(s, m, n) \in Seq(S)
      /\ Len(SubSeq(s, m, n)) = IF m <= n THEN n - m + 1 ELSE 0
      /\ \A i \in 1 .. (n - m + 1) : SubSeq(s, m, n)[i] = s[m + i - 1]
  BY <1>1, <1>2, SubSeqProperties
<1>4. QED
  BY <1>2, <1>3

-----------------------------------------------------------------------------
(* The invariant *)

LEMMA InitInv == Init => IInv
<1> SUFFICES ASSUME Init PROVE IInv
  OBVIOUS
<1>1. TypeOK
  <2>1. yin \in Seq(Yin) /\ pindown \in Seq(Zhi \cup {NoPin}) /\ tsiboundary \in Seq(BOOLEAN)
    BY EmptySeq DEF Init
  <2>2. Len(yin) = 0 /\ Len(pindown) = 0 /\ Len(tsiboundary) = 0
    BY EmptySeq DEF Init
  <2>3. yinpos \in 0 .. 0 /\ internal_text \in Nat \cup {NoText} /\ maxlen \in Nat
    <3>1. client \in Clients /\ maxlen \in client.limits
      BY DEF Init
    <3>2. client.limits \subseteq Nat
      BY <3>1, BoundAssumption
    <3>3. QED
      BY <3>1, <3>2 DEF Init
  <2>4. client \in Clients /\ zc \subseteq 0 .. 3 /\ zsel \subseteq Seq(Zhi) /\ no_smart_ed \in BOOLEAN /\ fault \in BOOLEAN
    BY DEF Init
  <2>5. state \in {"EDITING", "TSI", "ZHI"} /\ answer \in {"NONE", "COMMIT", "IGNORE", "ABSORB"}
    BY DEF Init
  <2>6. QED
    BY <2>1, <2>2, <2>3, <2>4, <2>5 DEF TypeOK, yinlen
<1>2. yinlen = 0
  BY EmptySeq DEF Init, yinlen
<1>3. QED
  BY <1>1, <1>2 DEF Init, IInv, PinsMatchSyllables, ChoicesFit, NoChoiceWhileEditing

\* Steps that leave the buffer, the cursor and the choices alone.
LEMMA FrameInv ==
    ASSUME IInv, UNCHANGED <<buffer, yinpos, selection>>,
           internal_text' \in Nat \cup {NoText},
           client' \in Clients, no_smart_ed' \in BOOLEAN, maxlen' \in Nat,
           zc' \subseteq 0 .. 3,
           answer' \in {"NONE", "COMMIT", "IGNORE", "ABSORB"}, fault' \in BOOLEAN
    PROVE  IInv'
BY DEF IInv, TypeOK, PinsMatchSyllables, ChoicesFit, NoChoiceWhileEditing,
       buffer, selection, yinlen, Target

\* Steps that change the buffer, leave it aligned, and end with
\* bimsContextSmartEdit.  Choices on offer must stay fit.
LEMMA EditInv ==
    ASSUME IInv, SmartEdit, UNCHANGED <<options, selection>>,
           yin' \in Seq(Yin),
           pindown' \in Seq(Zhi \cup {NoPin}), Len(pindown') = Len(yin'),
           tsiboundary' \in Seq(BOOLEAN), Len(tsiboundary') = Len(yin'),
           yinpos' \in 0 .. Len(yin'),
           zc' \subseteq 0 .. 3,
           answer' \in {"NONE", "COMMIT", "IGNORE", "ABSORB"},
           \A i \in 1 .. Len(yin') :
              pindown'[i] # NoPin => pindown'[i] \in Readings[yin'[i]],
           state = "EDITING" \/ UNCHANGED <<yin, yinpos>>
    PROVE  IInv'
<1>1. internal_text' \in Nat \cup {NoText} /\ fault' \in BOOLEAN
  <2>1. Len(yin') \in Nat
    BY LenProperties
  <2>2. Overflows(yin', tsiboundary') \in BOOLEAN
    BY DEF Overflows
  <2>3. QED
    BY <2>1, <2>2 DEF SmartEdit, IInv, TypeOK, yinlen
<1>2. TypeOK'
  BY <1>1 DEF IInv, TypeOK, yinlen, options, selection
<1>3. PinsMatchSyllables'
  BY DEF PinsMatchSyllables, yinlen
<1>4. ChoicesFit' /\ NoChoiceWhileEditing'
  <2>1. CASE state = "EDITING"
    <3>1. zsel' = {}
      BY <2>1 DEF IInv, NoChoiceWhileEditing, selection
    <3>2. QED
      BY <3>1 DEF ChoicesFit, NoChoiceWhileEditing
  <2>2. CASE UNCHANGED <<yin, yinpos>>
    BY <2>2 DEF IInv, ChoicesFit, NoChoiceWhileEditing, selection, Target, yinlen
  <2>3. QED
    BY <2>1, <2>2
<1>5. QED
  BY <1>2, <1>3, <1>4 DEF IInv

-----------------------------------------------------------------------------
(* One lemma for each group of actions *)

LEMMA FailInv == IInv /\ Fail => IInv'
BY FrameInv DEF Fail, IInv, TypeOK, options

\* Keys that change at most the symbols typed so far, and the settings.
LEMMA QuietInv ==
    ASSUME IInv,
           \/ Escape \/ Return \/ UnknownKey \/ EraseSymbol \/ TypeSymbol
           \/ SetMaxLen \/ ToggleSmartEditing
    PROVE  IInv'
<1> USE DEF IInv, TypeOK, options
<1>1. CASE Escape
  BY <1>1, FrameInv DEF Escape, Returns
<1>2. CASE Return
  BY <1>2, FrameInv DEF Return, Returns
<1>3. CASE UnknownKey
  BY <1>3, FrameInv DEF UnknownKey, Returns
<1>4. CASE EraseSymbol
  BY <1>4, FrameInv DEF EraseSymbol, Returns
<1>5. CASE TypeSymbol
  <2>1. zc' \subseteq 0 .. 3
    <3>1. PICK z \in AfterSymbol : zc' = z
      BY <1>5 DEF TypeSymbol
    <3>2. (\E i \in 0 .. 3 : z = zc \cup {i}) \/ z = {2, 3}
      BY DEF AfterSymbol
    <3>3. zc \subseteq 0 .. 3 /\ {2, 3} \subseteq 0 .. 3
      OBVIOUS
    <3>4. \A i \in 0 .. 3 : zc \cup {i} \subseteq 0 .. 3
      BY <3>3
    <3>5. QED
      BY <3>1, <3>2, <3>3, <3>4
  <2>2. answer' \in {"COMMIT", "ABSORB"}
    BY <1>5 DEF TypeSymbol, Returns, Overflow
  <2>3. QED
    BY <1>5, <2>1, <2>2, FrameInv DEF TypeSymbol
<1>6. CASE SetMaxLen
  <2>1. client.limits \subseteq Nat
    BY BoundAssumption
  <2>2. maxlen' \in Nat
    BY <1>6, <2>1 DEF SetMaxLen
  <2>3. QED
    BY <1>6, <2>2, FrameInv DEF SetMaxLen
<1>7. CASE ToggleSmartEditing
  <2>1. client.modes \subseteq BOOLEAN
    BY BoundAssumption
  <2>2. no_smart_ed' \in BOOLEAN
    BY <1>7, <2>1 DEF ToggleSmartEditing
  <2>3. QED
    BY <1>7, <2>2, FrameInv DEF ToggleSmartEditing
<1>8. QED
  BY <1>1, <1>2, <1>3, <1>4, <1>5, <1>6, <1>7

LEMMA MoveInv ==
    ASSUME IInv, Home \/ Left \/ End \/ Right
    PROVE  IInv'
<1>1. yinlen \in Nat /\ yinpos \in 0 .. yinlen
  BY LenProperties DEF IInv, TypeOK, yinlen
<1>2. /\ yinpos' \in 0 .. yinlen
      /\ UNCHANGED <<buffer, internal_text, options, zc, selection, fault>>
      /\ answer' \in {"ABSORB", "IGNORE"}
      /\ MayFeed
  BY <1>1 DEF Home, Left, End, Right, MoveCursor, Returns
<1>3. zsel' = {}
  BY <1>2 DEF MayFeed, IInv, NoChoiceWhileEditing, selection
<1>4. TypeOK'
  BY <1>2 DEF IInv, TypeOK, buffer, options, selection, yinlen
<1>5. PinsMatchSyllables'
  BY <1>2 DEF IInv, PinsMatchSyllables, buffer, yinlen
<1>6. ChoicesFit' /\ NoChoiceWhileEditing'
  BY <1>3 DEF ChoicesFit, NoChoiceWhileEditing
<1>7. QED
  BY <1>4, <1>5, <1>6 DEF IInv

LEMMA ToggleEditingInv ==
    ASSUME IInv, ToggleEditing PROVE IInv'
<1>1. /\ zsel' = {} /\ state' = "EDITING"
      /\ UNCHANGED <<buffer, yinpos, internal_text, options, zc, answer, fault>>
  BY DEF ToggleEditing
<1>2. TypeOK'
  BY <1>1 DEF IInv, TypeOK, buffer, options, yinlen
<1>3. PinsMatchSyllables' /\ ChoicesFit' /\ NoChoiceWhileEditing'
  BY <1>1 DEF IInv, PinsMatchSyllables, ChoicesFit, NoChoiceWhileEditing, buffer, yinlen
<1>4. QED
  BY <1>2, <1>3 DEF IInv

\* Where a selection is made there is a syllable.
LEMMA TargetInBuffer ==
    ASSUME TypeOK, yinlen > 0
    PROVE  Target \in 0 .. (yinlen - 1)
<1>1. yinlen \in Nat
  BY LenProperties DEF TypeOK, yinlen
<1>2. QED
  BY <1>1 DEF TypeOK, Target

LEMMA ToggleZhiInv ==
    ASSUME IInv, ToggleZhiSelection PROVE IInv'
<1>1. /\ yinlen > 0 /\ state' = "ZHI"
      /\ zsel' = {<<z>> : z \in Readings[yin[Target + 1]]}
      /\ UNCHANGED <<buffer, yinpos, internal_text, options, zc, answer, fault>>
  BY DEF ToggleZhiSelection
<1>2. yinlen \in Nat /\ Target \in 0 .. (yinlen - 1)
  BY <1>1, TargetInBuffer, LenProperties DEF IInv, TypeOK, yinlen
<1>3. yin[Target + 1] \in Yin
  BY <1>2, ElementOfSeq DEF IInv, TypeOK, yinlen
<1>4. Readings[yin[Target + 1]] \subseteq Zhi
  BY <1>3, ReadingsAssumption
<1>5. zsel' \subseteq Seq(Zhi)
  <2>1. \A z \in Zhi : <<z>> \in Seq(Zhi)
    OBVIOUS
  <2>2. QED
    BY <1>1, <1>4, <2>1
<1>6. TypeOK'
  BY <1>1, <1>5 DEF IInv, TypeOK, buffer, options, yinlen
<1>7. ChoicesFit'
  <2>1. Target' = Target /\ yinlen' = yinlen /\ yin' = yin
    BY <1>1 DEF Target, yinlen, buffer
  <2>2. ASSUME NEW p \in zsel'
        PROVE  /\ Target + Len(p) <= yinlen
               /\ \A i \in DOMAIN p : p[i] \in Readings[yin[Target + i]]
    <3>1. PICK z \in Readings[yin[Target + 1]] : p = <<z>>
      BY <1>1, <2>2
    <3>2. Len(p) = 1 /\ DOMAIN p = {1} /\ p[1] = z
      BY <3>1
    <3>3. QED
      BY <1>2, <3>1, <3>2
  <2>3. QED
    BY <2>1, <2>2 DEF ChoicesFit
<1>8. PinsMatchSyllables' /\ NoChoiceWhileEditing'
  BY <1>1 DEF IInv, PinsMatchSyllables, NoChoiceWhileEditing, buffer, yinlen
<1>9. QED
  BY <1>6, <1>7, <1>8 DEF IInv

\* Every phrase on offer is one of the syllables at the cursor.
LEMMA TsiChoicesFit ==
    ASSUME TypeOK, yinlen > 0, NEW p \in TsiChoices
    PROVE  /\ p \in Seq(Zhi)
           /\ Target + Len(p) <= yinlen
           /\ \A i \in DOMAIN p : p[i] \in Readings[yin[Target + i]]
<1>1. yinlen \in Nat /\ Target \in 0 .. (yinlen - 1)
  BY TargetInBuffer, LenProperties DEF TypeOK, yinlen
<1>2. PICK n \in 2 .. 4 :
         /\ Target + n <= yinlen
         /\ SubSeq(yin, Target + 1, Target + n) \in DOMAIN TsiYin
         /\ p \in TsiYin[SubSeq(yin, Target + 1, Target + n)]
  BY DEF TsiChoices
<1> DEFINE w == SubSeq(yin, Target + 1, Target + n)
<1>3. w \in Seq(Yin) /\ Len(w) = n /\ \A i \in 1 .. n : w[i] = yin[Target + i]
  <2> DEFINE m == Target + 1
             k == Target + n
  <2>1. /\ m \in 1 .. (Len(yin) + 1) /\ k \in (m - 1) .. Len(yin)
        /\ k - m + 1 = n
        /\ \A i \in 1 .. n : m + i - 1 = Target + i
    BY <1>1, <1>2 DEF yinlen
  <2>2. yin \in Seq(Yin)
    BY DEF TypeOK
  <2>3. w = SubSeq(yin, m, k)
    OBVIOUS
  <2> HIDE DEF m, k, w
  <2>4. /\ w \in Seq(Yin)
        /\ Len(w) = k - m + 1
        /\ \A i \in 1 .. (k - m + 1) : w[i] = yin[m + i - 1]
    BY <2>1, <2>2, <2>3, SliceProperties
  <2>5. QED
    BY <2>1, <2>4
<1> HIDE DEF w
<1>4. /\ p \in Seq(Zhi) /\ Len(p) = Len(w)
      /\ \A i \in DOMAIN w : p[i] \in Readings[w[i]]
  BY <1>2, TsiYinAssumption DEF w
<1>5. DOMAIN w = 1 .. n /\ DOMAIN p = 1 .. n
  BY <1>3, <1>4, LenProperties
<1>6. QED
  BY <1>2, <1>3, <1>4, <1>5

LEMMA ToggleTsiInv ==
    ASSUME IInv, ToggleTsiSelection PROVE IInv'
<1>1. /\ yinlen > 0 /\ zsel' = TsiChoices
      /\ state' = IF TsiChoices # {} THEN "TSI" ELSE state
      /\ UNCHANGED <<buffer, yinpos, internal_text, options, zc, answer, fault>>
  BY DEF ToggleTsiSelection
<1>2. \A p \in zsel' : /\ p \in Seq(Zhi)
                       /\ Target + Len(p) <= yinlen
                       /\ \A i \in DOMAIN p : p[i] \in Readings[yin[Target + i]]
  BY <1>1, TsiChoicesFit DEF IInv
<1>3. zsel' \subseteq Seq(Zhi)
  BY <1>2
<1>4. TypeOK'
  BY <1>1, <1>3 DEF IInv, TypeOK, buffer, options, yinlen
<1>5. Target' = Target /\ yinlen' = yinlen /\ yin' = yin
  BY <1>1 DEF Target, yinlen, buffer
<1>6. ChoicesFit'
  BY <1>2, <1>5 DEF ChoicesFit
<1>7. PinsMatchSyllables' /\ NoChoiceWhileEditing'
  BY <1>1 DEF IInv, PinsMatchSyllables, NoChoiceWhileEditing, buffer, yinlen
<1>8. QED
  BY <1>4, <1>6, <1>7 DEF IInv

-----------------------------------------------------------------------------
(* The edits *)

\* What the arrays are before an edit.
LEMMA Aligned ==
    ASSUME IInv
    PROVE  /\ yinlen \in Nat /\ yinlen = Len(yin)
           /\ Len(pindown) = Len(yin) /\ Len(tsiboundary) = Len(yin)
           /\ yin \in Seq(Yin) /\ pindown \in Seq(Zhi \cup {NoPin})
           /\ tsiboundary \in Seq(BOOLEAN)
           /\ yinpos \in 0 .. Len(yin)
           /\ \A i \in 1 .. Len(yin) :
                 pindown[i] # NoPin => pindown[i] \in Readings[yin[i]]
BY LenProperties DEF IInv, TypeOK, PinsMatchSyllables, yinlen

LEMMA EraseInv ==
    ASSUME IInv, state = "EDITING", NEW pos \in 1 .. yinlen, Erase(pos)
    PROVE  IInv'
<1>1. CASE ~ HasText(IF pos < yinlen THEN yinlen ELSE yinlen - 1)
  BY <1>1, FailInv DEF Erase
<1>2. CASE HasText(IF pos < yinlen THEN yinlen ELSE yinlen - 1)
  <2>1. /\ yin' = ShiftDown(yin, pos)
        /\ pindown' = ShiftDown(pindown, pos)
        /\ tsiboundary' = ShiftDown(tsiboundary, pos)
        /\ yinpos' = pos - 1
        /\ SmartEdit
        /\ answer' = "ABSORB"
        /\ UNCHANGED <<options, zc, selection>>
    BY <1>2 DEF Erase, Returns
  <2>2. /\ pos \in 1 .. Len(yin) /\ pos \in 1 .. Len(pindown)
        /\ pos \in 1 .. Len(tsiboundary)
    BY Aligned
  <2>3. /\ yin' \in Seq(Yin) /\ Len(yin') = yinlen - 1
        /\ \A i \in 1 .. (yinlen - 1) : yin'[i] = IF i < pos THEN yin[i] ELSE yin[i + 1]
    BY <2>1, <2>2, Aligned, ShiftDownProperties
  <2>4. /\ pindown' \in Seq(Zhi \cup {NoPin}) /\ Len(pindown') = yinlen - 1
        /\ \A i \in 1 .. (yinlen - 1) :
              pindown'[i] = IF i < pos THEN pindown[i] ELSE pindown[i + 1]
    BY <2>1, <2>2, Aligned, ShiftDownProperties
  <2>5. tsiboundary' \in Seq(BOOLEAN) /\ Len(tsiboundary') = yinlen - 1
    BY <2>1, <2>2, Aligned, ShiftDownProperties
  <2>6. yinpos' \in 0 .. Len(yin')
    BY <2>1, <2>3, Aligned
  <2>7. ASSUME NEW i \in 1 .. Len(yin'), pindown'[i] # NoPin
        PROVE  pindown'[i] \in Readings[yin'[i]]
    <3>1. i \in 1 .. yinlen /\ i + 1 \in 1 .. yinlen /\ i \in 1 .. (yinlen - 1)
      BY <2>3, Aligned
    <3>2. QED
      BY <2>3, <2>4, <2>7, <3>1, Aligned
  <2>8. zc' \subseteq 0 .. 3
    BY <2>1 DEF IInv, TypeOK
  <2>9. QED
    BY <2>1, <2>3, <2>4, <2>5, <2>6, <2>7, <2>8, EditInv
<1>3. QED
  BY <1>1, <1>2

LEMMA EraseKeysInv ==
    ASSUME IInv, BackSpace \/ Delete
    PROVE  IInv'
<1>1. state = "EDITING"
  BY DEF BackSpace, Delete, MayFeed
<1>2. CASE EraseIgnored
  BY <1>2, FrameInv DEF EraseIgnored, Returns, IInv, TypeOK, options
<1>3. ASSUME yinlen > 0, yinpos > 0, Erase(yinpos) PROVE IInv'
  <2>1. yinpos \in 1 .. yinlen
    BY <1>3, Aligned
  <2>2. QED
    BY <1>1, <1>3, <2>1, EraseInv
<1>4. ASSUME yinlen > 0, yinpos < yinlen, Erase(yinpos + 1) PROVE IInv'
  <2>1. yinpos + 1 \in 1 .. yinlen
    BY <1>4, Aligned
  <2>2. QED
    BY <1>1, <1>4, <2>1, EraseInv
<1>5. QED
  BY <1>2, <1>3, <1>4 DEF BackSpace, Delete

LEMMA TypeSyllableInv ==
    ASSUME IInv, NEW y \in Yin, TypeSyllable(y)
    PROVE  IInv'
<1>1. /\ state = "EDITING"
      /\ yin' = ShiftUp(yin, yinpos, y)
      /\ pindown' = ShiftUp(pindown, yinpos, NoPin)
      /\ tsiboundary' = ShiftUp(tsiboundary, yinpos, FALSE)
      /\ yinpos' = yinpos + 1
      /\ zc' = {}
      /\ SmartEdit
      /\ answer' \in {"COMMIT", "ABSORB"}
      /\ UNCHANGED <<options, selection>>
  BY DEF TypeSyllable, MayFeed, Returns, Overflow
<1>2. yinpos \in 0 .. Len(yin) /\ yinpos \in 0 .. Len(pindown) /\ yinpos \in 0 .. Len(tsiboundary)
  BY Aligned
<1>3. Inserted(Yin, yin', yin, yinpos, y)
  <2>1. yin \in Seq(Yin) /\ yinpos \in 0 .. Len(yin) /\ y \in Yin
    BY <1>2, Aligned
  <2>2. Inserted(Yin, ShiftUp(yin, yinpos, y), yin, yinpos, y)
    BY <2>1, ShiftUpInserts
  <2>3. QED
    BY <1>1, <2>2
<1>4. Inserted(Zhi \cup {NoPin}, pindown', pindown, yinpos, NoPin)
  <2>1. pindown \in Seq(Zhi \cup {NoPin}) /\ yinpos \in 0 .. Len(pindown) /\ NoPin \in (Zhi \cup {NoPin})
    BY <1>2, Aligned
  <2>2. Inserted(Zhi \cup {NoPin}, ShiftUp(pindown, yinpos, NoPin), pindown, yinpos, NoPin)
    BY <2>1, ShiftUpInserts
  <2>3. QED
    BY <1>1, <2>2
<1>5. Inserted(BOOLEAN, tsiboundary', tsiboundary, yinpos, FALSE)
  <2>1. tsiboundary \in Seq(BOOLEAN) /\ yinpos \in 0 .. Len(tsiboundary) /\ FALSE \in BOOLEAN
    BY <1>2, Aligned
  <2>2. Inserted(BOOLEAN, ShiftUp(tsiboundary, yinpos, FALSE), tsiboundary, yinpos, FALSE)
    BY <2>1, ShiftUpInserts
  <2>3. QED
    BY <1>1, <2>2
<1>6. /\ yin' \in Seq(Yin) /\ Len(yin') = yinlen + 1
      /\ pindown' \in Seq(Zhi \cup {NoPin}) /\ Len(pindown') = yinlen + 1
      /\ tsiboundary' \in Seq(BOOLEAN) /\ Len(tsiboundary') = yinlen + 1
  BY <1>3, <1>4, <1>5, Aligned DEF Inserted
<1>7. yinpos' \in 0 .. Len(yin')
  BY <1>1, <1>6, Aligned
<1>8. ASSUME NEW i \in 1 .. Len(yin'), pindown'[i] # NoPin
      PROVE  pindown'[i] \in Readings[yin'[i]]
  <2>1. /\ i \in 1 .. yinpos \/ i = yinpos + 1 \/ i \in (yinpos + 2) .. (yinlen + 1)
        /\ i \in 1 .. yinpos => i \in 1 .. Len(yin)
        /\ i \in (yinpos + 2) .. (yinlen + 1) => i - 1 \in 1 .. Len(yin)
    BY <1>6, Aligned
  <2>2. CASE i \in 1 .. yinpos
    <3>1. yin'[i] = yin[i] /\ pindown'[i] = pindown[i]
      BY <1>3, <1>4, <2>2 DEF Inserted
    <3>2. QED
      BY <1>8, <2>1, <2>2, <3>1, Aligned
  <2>3. CASE i = yinpos + 1
    BY <1>4, <1>8, <2>3 DEF Inserted
  <2>4. CASE i \in (yinpos + 2) .. (yinlen + 1)
    <3>1. yin'[i] = yin[i - 1] /\ pindown'[i] = pindown[i - 1]
      BY <1>3, <1>4, <2>4, Aligned DEF Inserted
    <3>2. QED
      BY <1>8, <2>1, <2>4, <3>1, Aligned
  <2>5. QED
    BY <2>1, <2>2, <2>3, <2>4
<1>9. QED
  BY <1>1, <1>6, <1>7, <1>8, EditInv

LEMMA TabInv == ASSUME IInv, Tab PROVE IInv'
<1>1. state = "EDITING" /\ UNCHANGED <<yinpos, options, zc, selection>>
  BY DEF Tab, MayFeed
<1>2. CASE StringEmpty /\ yinlen > 0 /\ yinpos # yinlen
  <2>1. /\ tsiboundary' = [tsiboundary EXCEPT ![yinpos + 1] = ~ @]
        /\ UNCHANGED <<yin, pindown>>
        /\ SmartEdit
        /\ answer' = "ABSORB"
    BY <1>2 DEF Tab, Returns
  <2>2. yinpos + 1 \in 1 .. Len(tsiboundary)
    BY <1>2, Aligned
  <2>3. (~ tsiboundary[yinpos + 1]) \in BOOLEAN
    OBVIOUS
  <2>4. tsiboundary' \in Seq(BOOLEAN) /\ Len(tsiboundary') = Len(tsiboundary)
    BY <2>1, <2>2, <2>3, Aligned, ExceptSeq
  <2>5. zc' \subseteq 0 .. 3
    BY <1>1 DEF IInv, TypeOK
  <2>6. QED
    BY <1>1, <2>1, <2>4, <2>5, Aligned, EditInv
<1>3. CASE ~ (StringEmpty /\ yinlen > 0 /\ yinpos # yinlen)
  <2>1. UNCHANGED <<buffer, internal_text, fault>> /\ answer' = "IGNORE"
    BY <1>3 DEF Tab, Returns
  <2>2. QED
    BY <1>1, <2>1, FrameInv DEF IInv, TypeOK, options
<1>4. QED
  BY <1>2, <1>3

\* One character is pinned to a syllable that it is a reading of.
LEMMA PinOneInv ==
    ASSUME IInv, SmartEdit, UNCHANGED <<yin, tsiboundary, yinpos, options, zc, selection>>,
           answer' \in {"NONE", "COMMIT", "IGNORE", "ABSORB"},
           NEW i \in 1 .. yinlen, NEW z \in Readings[yin[i]],
           pindown' = [pindown EXCEPT ![i] = z]
    PROVE  IInv'
<1>1. yin[i] \in Yin
  BY Aligned, ElementOfSeq
<1>2. z \in Zhi \cup {NoPin}
  BY <1>1, ReadingsAssumption
<1>3. i \in 1 .. Len(pindown)
  BY Aligned
<1>4. /\ pindown' \in Seq(Zhi \cup {NoPin})
      /\ Len(pindown') = Len(pindown)
      /\ \A j \in 1 .. Len(pindown) : pindown'[j] = IF j = i THEN z ELSE pindown[j]
  BY <1>2, <1>3, Aligned, ExceptSeq
<1>5. \A j \in 1 .. Len(yin') : pindown'[j] # NoPin => pindown'[j] \in Readings[yin'[j]]
  BY <1>4, Aligned
<1>6. zc' \subseteq 0 .. 3
  BY DEF IInv, TypeOK
<1>7. QED
  BY <1>4, <1>5, <1>6, Aligned, EditInv

LEMMA CycleZhiInv == ASSUME IInv, CycleZhi PROVE IInv'
<1>1. CASE yinpos = 0
  BY <1>1, FrameInv DEF CycleZhi, Returns, IInv, TypeOK, options
<1>2. CASE yinpos # 0 /\ Fail
  BY <1>2, FailInv
<1>3. CASE yinpos # 0 /\ ~ Fail
  <2>1. PICK z \in Readings[yin[Target + 1]] : pindown' = [pindown EXCEPT ![Target + 1] = z]
    BY <1>3 DEF CycleZhi
  <2>2. /\ SmartEdit /\ answer' = "ABSORB"
        /\ UNCHANGED <<yin, tsiboundary, yinpos, options, zc, selection>>
    BY <1>3 DEF CycleZhi, Returns
  <2>3. yinlen > 0
    BY <1>3, Aligned
  <2> DEFINE i == Target + 1
  <2>4. i \in 1 .. yinlen
    BY <2>3, Aligned, TargetInBuffer DEF IInv
  <2> HIDE DEF i
  <2>5. z \in Readings[yin[i]] /\ pindown' = [pindown EXCEPT ![i] = z]
    BY <2>1 DEF i
  <2>6. QED
    BY <2>2, <2>4, <2>5, PinOneInv
<1>4. QED
  BY <1>1, <1>2, <1>3

LEMMA PindownInv == ASSUME IInv, Pindown PROVE IInv'
<1>1. PICK z \in Readings[yin[Target + 1]] : pindown' = [pindown EXCEPT ![Target + 1] = z]
  BY DEF Pindown
<1>2. yinlen > 0 /\ SmartEdit /\ UNCHANGED <<yin, tsiboundary, yinpos, options, zc, selection, answer>>
  BY DEF Pindown
<1> DEFINE i == Target + 1
<1>3. i \in 1 .. yinlen
  BY <1>2, Aligned, TargetInBuffer DEF IInv
<1> HIDE DEF i
<1>4. z \in Readings[yin[i]] /\ pindown' = [pindown EXCEPT ![i] = z]
  BY <1>1 DEF i
<1>5. answer' \in {"NONE", "COMMIT", "IGNORE", "ABSORB"}
  BY <1>2 DEF IInv, TypeOK
<1>6. QED
  BY <1>2, <1>3, <1>4, <1>5, PinOneInv

\* A choice is taken: it fits, so that no place behind the buffer is written.
LEMMA ChoiceInBuffer ==
    ASSUME IInv, NEW p \in zsel
    PROVE  /\ p \in Seq(Zhi)
           /\ ~ (Target + Len(p) + 1 > yinlen + 1)
           /\ Target \in Nat /\ Len(p) \in Nat
           /\ \A i \in 1 .. yinlen :
                 Target + 1 <= i /\ i < Target + Len(p) + 1 =>
                    p[i - (Target + 1) + 1] \in Readings[yin[i]]
<1>1. p \in Seq(Zhi)
  BY DEF IInv, TypeOK
<1>2. Len(p) \in Nat /\ DOMAIN p = 1 .. Len(p)
  BY <1>1, LenProperties
<1>3. Target \in Nat
  BY Aligned DEF Target
<1>4. /\ Target + Len(p) <= yinlen
      /\ \A i \in DOMAIN p : p[i] \in Readings[yin[Target + i]]
  BY DEF IInv, ChoicesFit
<1>5. ASSUME NEW i \in 1 .. yinlen, Target + 1 <= i, i < Target + Len(p) + 1
      PROVE  p[i - (Target + 1) + 1] \in Readings[yin[i]]
  <2> DEFINE j == i - (Target + 1) + 1
  <2>1. j \in DOMAIN p /\ Target + j = i
    BY <1>2, <1>3, <1>5, Aligned
  <2> HIDE DEF j
  <2>2. p[j] \in Readings[yin[i]]
    BY <1>4, <2>1
  <2>3. QED
    BY <2>2 DEF j
<1>6. QED
  BY <1>1, <1>2, <1>3, <1>4, <1>5, Aligned

LEMMA PindownByNumberInv ==
    ASSUME IInv, NEW p \in zsel, PindownByNumber(p)
    PROVE  IInv'
<1> DEFINE first == Target + 1
           after == Target + Len(p) + 1
           start == IF yinpos = yinlen THEN yinpos ELSE yinpos + 1
           pin(i) == IF first <= i /\ i < after THEN p[i - first + 1] ELSE pindown[i]
           bound(i) == CASE i = after -> TRUE
                         [] i = start /\ yinpos # 0 -> TRUE
                         [] OTHER -> ~ (first <= i /\ i < after) /\ tsiboundary[i]
<1>1. /\ pindown' = [i \in 1 .. yinlen |-> pin(i)]
      /\ tsiboundary' = [i \in 1 .. yinlen |-> bound(i)]
      /\ SmartEdit
      /\ UNCHANGED <<yin, yinpos, options, zc, selection, answer>>
  BY ChoiceInBuffer DEF PindownByNumber
<1>2. \A i \in 1 .. yinlen : pindown[i] \in Zhi \cup {NoPin} /\ yin[i] \in Yin
  BY Aligned, ElementOfSeq
<1>3. \A i \in 1 .. yinlen :
         /\ pin(i) \in Zhi \cup {NoPin}
         /\ pin(i) # NoPin => pin(i) \in Readings[yin[i]]
  <2> SUFFICES ASSUME NEW i \in 1 .. yinlen
               PROVE  /\ pin(i) \in Zhi \cup {NoPin}
                      /\ pin(i) # NoPin => pin(i) \in Readings[yin[i]]
    OBVIOUS
  <2>1. CASE first <= i /\ i < after
    <3>1. pin(i) \in Readings[yin[i]]
      BY <2>1, ChoiceInBuffer
    <3>2. Readings[yin[i]] \subseteq Zhi
      BY <1>2, ReadingsAssumption
    <3> HIDE DEF pin
    <3>3. QED
      BY <3>1, <3>2
  <2>2. CASE ~ (first <= i /\ i < after)
    <3>1. pin(i) = pindown[i]
      BY <2>2
    <3>2. i \in 1 .. Len(yin)
      BY Aligned
    <3> HIDE DEF pin
    <3>3. QED
      BY <1>2, <3>1, <3>2, Aligned
  <2>3. QED
    BY <2>1, <2>2
<1>4. \A i \in 1 .. yinlen : bound(i) \in BOOLEAN
  BY Zenon
<1> HIDE DEF pin, bound
<1>5. yinlen \in Nat /\ yinlen = Len(yin)
  BY Aligned
<1>6. /\ [i \in 1 .. yinlen |-> pin(i)] \in Seq(Zhi \cup {NoPin})
      /\ Len([i \in 1 .. yinlen |-> pin(i)]) = yinlen
  BY <1>3, <1>5, IsASeq
<1>7. /\ [i \in 1 .. yinlen |-> bound(i)] \in Seq(BOOLEAN)
      /\ Len([i \in 1 .. yinlen |-> bound(i)]) = yinlen
  BY <1>4, <1>5, IsASeq
<1>8. \A i \in 1 .. yinlen : [j \in 1 .. yinlen |-> pin(j)][i] = pin(i)
  OBVIOUS
<1>9. /\ pindown' \in Seq(Zhi \cup {NoPin}) /\ Len(pindown') = Len(yin')
      /\ tsiboundary' \in Seq(BOOLEAN) /\ Len(tsiboundary') = Len(yin')
  BY <1>1, <1>5, <1>6, <1>7
<1>10. \A i \in 1 .. Len(yin') : pindown'[i] # NoPin => pindown'[i] \in Readings[yin'[i]]
  BY <1>1, <1>3, <1>5, <1>8
<1>11. /\ yin' \in Seq(Yin) /\ yinpos' \in 0 .. Len(yin')
  BY <1>1, Aligned
<1>12. zc' \subseteq 0 .. 3 /\ answer' \in {"NONE", "COMMIT", "IGNORE", "ABSORB"}
  BY <1>1 DEF IInv, TypeOK
<1>13. UNCHANGED <<options, selection>> /\ UNCHANGED <<yin, yinpos>> /\ SmartEdit
  BY <1>1
<1>14. QED
  BY <1>9, <1>10, <1>11, <1>12, <1>13, EditInv

\* The head of the arrays goes, in each the same part, or all there is.
LEMMA FetchTextInv ==
    ASSUME IInv, NEW len \in 1 .. MaxYin, FetchText(len)
    PROVE  IInv'
<1> DEFINE newlen == IF yinlen < len THEN yinlen ELSE len
           rest == yinlen - newlen
<1>1. CASE ~ HasText(yinlen)
  BY <1>1, FailInv DEF FetchText
<1>2. CASE HasText(yinlen)
  <2>1. /\ yin' = SubSeq(yin, newlen + 1, newlen + rest)
        /\ pindown' = SubSeq(pindown, len + 1, len + rest)
        /\ tsiboundary' = SubSeq(tsiboundary, len + 1, len + rest)
        /\ yinpos' = IF yinpos > newlen THEN yinpos - newlen ELSE 0
        /\ SmartEdit
        /\ answer' = "NONE"
        /\ state = "EDITING"
        /\ UNCHANGED <<options, zc, selection>>
    BY <1>2 DEF FetchText
  <2>2. len \in Nat \ {0}
    BY BoundAssumption
  <2>3. newlen \in 0 .. yinlen /\ rest \in 0 .. yinlen /\ newlen + rest = yinlen
    BY <2>2, Aligned
  <2>4. yin' \in Seq(Yin) /\ Len(yin') = rest
        /\ \A i \in 1 .. rest : yin'[i] = yin[newlen + i]
    <3> DEFINE m == newlen + 1
               n == newlen + rest
    <3> HIDE DEF newlen, rest
    <3>1. /\ m \in 1 .. (Len(yin) + 1) /\ n \in (m - 1) .. Len(yin)
          /\ n - m + 1 = rest /\ \A i \in 1 .. rest : m + i - 1 = newlen + i
      BY <2>3, Aligned
    <3>2. yin' = SubSeq(yin, m, n) /\ yin \in Seq(Yin)
      BY <2>1, Aligned
    <3> HIDE DEF m, n
    <3>3. /\ SubSeq(yin, m, n) \in Seq(Yin)
          /\ Len(SubSeq(yin, m, n)) = n - m + 1
          /\ \A i \in 1 .. (n - m + 1) : SubSeq(yin, m, n)[i] = yin[m + i - 1]
      BY <3>1, <3>2, SliceProperties
    <3>4. QED
      BY <3>1, <3>2, <3>3
  <2>5. CASE len <= yinlen
    <3> DEFINE m == len + 1
               n == len + rest
    <3>1. /\ newlen = len
          /\ m \in 1 .. (Len(pindown) + 1) /\ n \in (m - 1) .. Len(pindown)
          /\ m \in 1 .. (Len(tsiboundary) + 1) /\ n \in (m - 1) .. Len(tsiboundary)
          /\ n - m + 1 = rest /\ \A i \in 1 .. rest : m + i - 1 = newlen + i
      BY <2>2, <2>3, <2>5, Aligned
    <3>2. /\ pindown' = SubSeq(pindown, m, n) /\ pindown \in Seq(Zhi \cup {NoPin})
          /\ tsiboundary' = SubSeq(tsiboundary, m, n) /\ tsiboundary \in Seq(BOOLEAN)
      BY <2>1, Aligned
    <3>3. rest \in 0 .. yinlen
      BY <2>3
    <3> HIDE DEF m, n, newlen, rest
    <3>4. /\ SubSeq(pindown, m, n) \in Seq(Zhi \cup {NoPin})
          /\ Len(SubSeq(pindown, m, n)) = n - m + 1
          /\ \A i \in 1 .. (n - m + 1) : SubSeq(pindown, m, n)[i] = pindown[m + i - 1]
      BY <3>1, <3>2, SliceProperties
    <3>5. /\ SubSeq(tsiboundary, m, n) \in Seq(BOOLEAN)
          /\ Len(SubSeq(tsiboundary, m, n)) = n - m + 1
      BY <3>1, <3>2, SliceProperties
    <3>6. /\ pindown' \in Seq(Zhi \cup {NoPin}) /\ Len(pindown') = rest
          /\ tsiboundary' \in Seq(BOOLEAN) /\ Len(tsiboundary') = rest
          /\ \A i \in 1 .. rest : pindown'[i] = pindown[newlen + i]
      BY <3>1, <3>2, <3>4, <3>5
    <3>7. \A i \in 1 .. rest : newlen + i \in 1 .. Len(yin)
      BY <2>3, Aligned
    <3>8. \A i \in 1 .. Len(yin') : pindown'[i] # NoPin => pindown'[i] \in Readings[yin'[i]]
      BY <2>4, <3>6, <3>7, Aligned
    <3>9. yinpos' \in 0 .. Len(yin')
      <4>1. newlen + rest = yinlen /\ newlen \in Nat
        BY <2>3, Aligned
      <4>2. yinpos' = IF yinpos > newlen THEN yinpos - newlen ELSE 0
        BY <2>1
      <4>3. QED
        BY <2>4, <3>3, <4>1, <4>2, Aligned
    <3>10. zc' \subseteq 0 .. 3 /\ answer' \in {"NONE", "COMMIT", "IGNORE", "ABSORB"}
      BY <2>1 DEF IInv, TypeOK
    <3>11. UNCHANGED <<options, selection>> /\ SmartEdit /\ state = "EDITING"
      BY <2>1
    <3>12. QED
      BY <2>4, <3>6, <3>8, <3>9, <3>10, <3>11, EditInv
  <2>6. CASE yinlen < len
    <3>1. newlen = yinlen /\ rest = 0
      BY <2>6, Aligned
    <3>2. len \in Int /\ len + 0 < len + 1 /\ len + 1 \in Int /\ len + 0 \in Int
      BY <2>2
    <3>3. pindown' = << >> /\ tsiboundary' = << >>
      BY <2>1, <3>1, <3>2, SubSeqEmpty
    <3>4. /\ pindown' \in Seq(Zhi \cup {NoPin}) /\ Len(pindown') = 0
          /\ tsiboundary' \in Seq(BOOLEAN) /\ Len(tsiboundary') = 0
      BY <3>3, EmptySeq
    <3>5. Len(yin') = 0 /\ yin' \in Seq(Yin)
      BY <2>4, <3>1
    <3>6. yinpos' \in 0 .. Len(yin')
      <4>1. yinpos' = IF yinpos > newlen THEN yinpos - newlen ELSE 0
        BY <2>1
      <4> HIDE DEF newlen
      <4>2. yinpos' = 0
        BY <3>1, <4>1, Aligned
      <4>3. QED
        BY <3>5, <4>2
    <3>7. \A i \in 1 .. Len(yin') : pindown'[i] # NoPin => pindown'[i] \in Readings[yin'[i]]
      BY <3>5
    <3>8. zc' \subseteq 0 .. 3 /\ answer' \in {"NONE", "COMMIT", "IGNORE", "ABSORB"}
      BY <2>1 DEF IInv, TypeOK
    <3>9. UNCHANGED <<options, selection>> /\ SmartEdit /\ state = "EDITING"
      BY <2>1
    <3>10. QED
      BY <3>4, <3>5, <3>6, <3>7, <3>8, <3>9, EditInv
  <2>7. QED
    BY <2>2, <2>5, <2>6, Aligned
<1>3. QED
  BY <1>1, <1>2

-----------------------------------------------------------------------------
(* Theorems *)

LEMMA NextInv == IInv /\ [Next]_vars => IInv'
<1> SUFFICES ASSUME IInv, [Next]_vars PROVE IInv'
  OBVIOUS
<1>1. CASE \/ Escape \/ Return \/ UnknownKey \/ EraseSymbol \/ TypeSymbol
           \/ SetMaxLen \/ ToggleSmartEditing
  BY <1>1, QuietInv
<1>2. CASE Home \/ Left \/ End \/ Right
  BY <1>2, MoveInv
<1>3. CASE BackSpace \/ Delete
  BY <1>3, EraseKeysInv
<1>4. CASE Tab
  BY <1>4, TabInv
<1>5. CASE CycleZhi
  BY <1>5, CycleZhiInv
<1>6. ASSUME NEW y \in Yin, TypeSyllable(y) PROVE IInv'
  BY <1>6, TypeSyllableInv
<1>7. CASE ToggleTsiSelection
  BY <1>7, ToggleTsiInv
<1>8. CASE ToggleZhiSelection
  BY <1>8, ToggleZhiInv
<1>9. CASE ToggleEditing
  BY <1>9, ToggleEditingInv
<1>10. CASE Pindown
  BY <1>10, PindownInv
<1>11. ASSUME NEW p \in zsel, PindownByNumber(p) PROVE IInv'
  BY <1>11, PindownByNumberInv
<1>12. ASSUME NEW len \in 1 .. MaxYin, FetchText(len) PROVE IInv'
  BY <1>12, FetchTextInv
<1>13. CASE UNCHANGED vars
  BY <1>13, FrameInv DEF vars, options, IInv, TypeOK
<1>14. QED
  BY <1>1, <1>2, <1>3, <1>4, <1>5, <1>6, <1>7, <1>8, <1>9, <1>10, <1>11, <1>12,
     <1>13 DEF Next

\* The invariant holds in every state.
THEOREM Invariance == Spec => []IInv
<1>1. QED
  BY InitInv, NextInv, PTL DEF Spec

\* Every variable keeps its type, and the three arrays keep one length,
\* whatever keys, selections, pins and fetches a client makes.
THEOREM TypeCorrect == Spec => []TypeOK
<1>1. IInv => TypeOK
  BY DEF IInv
<1>2. QED
  BY <1>1, Invariance, PTL

\* A pinned character is always a reading of its syllable: the arrays never
\* slip against each other.
THEOREM PinsAreReadings == Spec => []PinsMatchSyllables
<1>1. IInv => PinsMatchSyllables
  BY DEF IInv
<1>2. QED
  BY <1>1, Invariance, PTL

\* A choice on offer fits the syllables at the cursor until it is taken or
\* dropped: PindownByNumber writes no place behind the buffer.
THEOREM ChoicesAlwaysFit == Spec => []ChoicesFit
<1>1. IInv => ChoicesFit
  BY DEF IInv
<1>2. QED
  BY <1>1, Invariance, PTL

-----------------------------------------------------------------------------
(* A client that limits the buffer *)

\* For such a client the text is that of the whole buffer, and a buffer over
\* its limits is one that it has been told to fetch from.
LimitedInv ==
    /\ no_smart_ed = FALSE
    /\ maxlen \in client.limits
    /\ fault = FALSE
    /\ yinlen > 0 => HasText(yinlen)
    /\ \E n \in client.limits : yinlen <= n + 1
    /\ answer # "COMMIT" => \E n \in client.limits : yinlen <= n

\* Its limits are numbers.
LEMMA LimitsAreNat ==
    ASSUME IInv PROVE client.limits \subseteq Nat
BY BoundAssumption DEF IInv, TypeOK

\* Steps that leave the syllables and the text alone.
LEMMA FrameLimited ==
    ASSUME LimitedInv, UNCHANGED <<client, yin, internal_text, fault>>,
           no_smart_ed' = FALSE, maxlen' \in client.limits,
           answer' # "COMMIT" => answer # "COMMIT"
    PROVE  LimitedInv'
BY DEF LimitedInv, HasText, yinlen

\* Neither array is too short for a buffer that is one longer than a limit.
LEMMA ArraysSuffice ==
    ASSUME NEW n \in Nat, Roomy(n), NEW s \in Seq(Yin), Len(s) <= n + 1,
           NEW boundary
    PROVE  ~ Overflows(s, boundary)
<1>1. Len(s) \in Nat /\ TMP_BUFFER \in Nat
  BY LenProperties, BoundAssumption
<1>2. ASSUME NEW i \in 1 .. Len(s), NEW j \in 1 .. Len(s), i < j
      PROVE  /\ ~ (j - i >= TMP_BUFFER)
             /\ SubSeq(s, i, j) \in DOMAIN TsiYin => ~ (2 * (j - i + 1) >= TMP_BUFFER)
  <2>1. ~ (j - i >= TMP_BUFFER)
    BY <1>1, <1>2 DEF Roomy
  <2>2. ASSUME SubSeq(s, i, j) \in DOMAIN TsiYin
        PROVE  ~ (2 * (j - i + 1) >= TMP_BUFFER)
    <3>1. i \in 1 .. (Len(s) + 1) /\ j \in (i - 1) .. Len(s)
      BY <1>1, <1>2
    <3>2. Len(SubSeq(s, i, j)) = j - i + 1
      BY <3>1, SliceProperties
    <3>3. j - i + 1 \in Int /\ j - i + 1 <= n + 1
      BY <1>1, <1>2
    <3>4. 2 * Len(SubSeq(s, i, j)) < TMP_BUFFER
      BY <2>2, <3>2, <3>3 DEF Roomy
    <3>5. QED
      BY <1>1, <3>2, <3>3, <3>4
  <2>3. QED
    BY <2>1, <2>2
<1>3. QED
  BY <1>2 DEF Overflows

\* bimsContextSmartEdit does not write behind its arrays when the buffer is
\* one longer than a limit, and its text covers the buffer.
LEMMA EditLimited ==
    ASSUME IInv, Careful(client), LimitedInv, SmartEdit, UNCHANGED options,
           yin' \in Seq(Yin),
           \E n \in client.limits : Len(yin') <= n + 1,
           answer' # "COMMIT" => \E n \in client.limits : Len(yin') <= n
    PROVE  LimitedInv'
<1>1. /\ internal_text' = Len(yin')
      /\ fault' \in {FALSE, Overflows(yin', tsiboundary')}
  BY DEF SmartEdit, LimitedInv, yinlen
<1>2. ~ Overflows(yin', tsiboundary')
  <2>1. PICK n \in client.limits : Len(yin') <= n + 1
    OBVIOUS
  <2>2. n \in Nat /\ Roomy(n)
    BY <2>1, LimitsAreNat DEF Careful
  <2>3. QED
    BY <2>1, <2>2, ArraysSuffice
<1>3. fault' = FALSE
  <2>1. Overflows(yin', tsiboundary') \in BOOLEAN
    BY DEF Overflows
  <2> DEFINE late == Overflows(yin', tsiboundary')
  <2>2. fault' \in {FALSE, late} /\ late \in BOOLEAN /\ ~ late
    BY <1>1, <1>2, <2>1
  <2> HIDE DEF late
  <2>3. QED
    BY <2>2
<1>4. Len(yin') \in Nat /\ internal_text' # NoText /\ internal_text' >= Len(yin')
  BY <1>1, NoTextAssumption, LenProperties
<1>5. no_smart_ed' = FALSE /\ maxlen' \in client.limits /\ client' = client
  BY DEF LimitedInv, options
<1>6. QED
  BY <1>1, <1>3, <1>4, <1>5 DEF LimitedInv, HasText, yinlen

\* There is text for every place of the buffer.
LEMMA TextThere ==
    ASSUME IInv, LimitedInv, yinlen > 0, NEW n \in Int, n <= yinlen
    PROVE  HasText(n)
BY Aligned DEF LimitedInv, HasText, IInv, TypeOK

\* A buffer that gets shorter is within a limit.
LEMMA ShorterLimited ==
    ASSUME IInv, Careful(client), LimitedInv, SmartEdit, UNCHANGED options,
           yin' \in Seq(Yin), Len(yin') <= yinlen - 1
    PROVE  LimitedInv'
<1>1. PICK n \in client.limits : yinlen <= n + 1
  BY DEF LimitedInv
<1>2. n \in Nat /\ yinlen \in Nat /\ Len(yin') \in Nat
  BY LimitsAreNat, Aligned, LenProperties
<1>3. Len(yin') <= n /\ Len(yin') <= n + 1
  BY <1>1, <1>2
<1>4. QED
  BY <1>3, EditLimited

LEMMA EraseLimited ==
    ASSUME IInv, Careful(client), LimitedInv, NEW pos \in 1 .. yinlen, Erase(pos)
    PROVE  LimitedInv'
<1>1. yinlen \in Nat /\ yinlen > 0
  BY Aligned
<1>2. HasText(yinlen) /\ HasText(yinlen - 1)
  BY <1>1, TextThere
<1>3. yin' = ShiftDown(yin, pos) /\ SmartEdit /\ UNCHANGED options
  BY <1>2 DEF Erase
<1>4. yin \in Seq(Yin) /\ pos \in 1 .. Len(yin)
  BY Aligned
<1>5. yin' \in Seq(Yin) /\ Len(yin') <= yinlen - 1
  BY <1>1, <1>3, <1>4, Aligned, ShiftDownProperties
<1>6. QED
  BY <1>3, <1>5, ShorterLimited

LEMMA TypeSyllableLimited ==
    ASSUME IInv, Careful(client), LimitedInv, NEW y \in Yin, TypeSyllable(y)
    PROVE  LimitedInv'
<1>1. /\ answer # "COMMIT"
      /\ yin' = ShiftUp(yin, yinpos, y)
      /\ SmartEdit /\ UNCHANGED options
      /\ answer' = Overflow(yinlen + 1)
  BY DEF TypeSyllable, MayFeed, Returns
<1>2. Inserted(Yin, ShiftUp(yin, yinpos, y), yin, yinpos, y)
  BY Aligned, ShiftUpInserts
<1>3. yin' \in Seq(Yin) /\ Len(yin') = yinlen + 1
  BY <1>1, <1>2, Aligned DEF Inserted
<1>4. PICK n \in client.limits : yinlen <= n
  BY <1>1 DEF LimitedInv
<1>5. n \in Nat /\ yinlen \in Nat /\ Len(yin') <= n + 1
  BY <1>3, <1>4, Aligned, LimitsAreNat
<1>6. maxlen \in client.limits /\ maxlen \in Nat /\ maxlen # 0
  BY LimitsAreNat DEF Careful, LimitedInv, Roomy
<1>7. answer' # "COMMIT" => Len(yin') <= maxlen
  BY <1>1, <1>3, <1>5, <1>6 DEF Overflow
<1>8. QED
  BY <1>1, <1>3, <1>5, <1>6, <1>7, EditLimited

\* Steps that change pins or boundaries alone.
LEMMA PinLimited ==
    ASSUME IInv, Careful(client), LimitedInv, SmartEdit, UNCHANGED <<options, yin>>,
           answer' # "COMMIT" => answer # "COMMIT"
    PROVE  LimitedInv'
<1>1. yin' \in Seq(Yin) /\ Len(yin') = yinlen
  BY Aligned
<1>2. /\ \E n \in client.limits : yinlen <= n + 1
      /\ answer' # "COMMIT" => \E n \in client.limits : yinlen <= n
  BY DEF LimitedInv
<1>3. QED
  BY <1>1, <1>2, EditLimited

LEMMA FetchTextLimited ==
    ASSUME IInv, Careful(client), LimitedInv, NEW len \in 1 .. MaxYin, FetchText(len)
    PROVE  LimitedInv'
<1> DEFINE newlen == IF yinlen < len THEN yinlen ELSE len
           rest == yinlen - newlen
<1>1. yinlen > 0 /\ HasText(yinlen)
  BY Aligned, TextThere DEF FetchText
<1>2. yin' = SubSeq(yin, newlen + 1, newlen + rest) /\ SmartEdit /\ UNCHANGED options
  BY <1>1 DEF FetchText
<1>3. len \in Nat \ {0} /\ yinlen \in Nat
  BY BoundAssumption, Aligned
<1>4. newlen \in 1 .. yinlen /\ rest \in 0 .. (yinlen - 1) /\ newlen + rest = yinlen
  BY <1>1, <1>3
<1> HIDE DEF newlen, rest
<1> DEFINE m == newlen + 1
           n == newlen + rest
<1>5. /\ m \in 1 .. (Len(yin) + 1) /\ n \in (m - 1) .. Len(yin) /\ n - m + 1 = rest
      /\ yin' = SubSeq(yin, m, n) /\ yin \in Seq(Yin)
  BY <1>2, <1>3, <1>4, Aligned
<1> HIDE DEF m, n
<1>6. yin' \in Seq(Yin) /\ Len(yin') = rest
  BY <1>5, SliceProperties
<1>7. Len(yin') <= yinlen - 1
  BY <1>3, <1>4, <1>6
<1>8. QED
  BY <1>2, <1>6, <1>7, ShorterLimited

LEMMA NextLimited ==
    ASSUME IInv, Careful(client), LimitedInv, [Next]_vars
    PROVE  LimitedInv'
<1> USE DEF buffer, options, selection
<1>1. no_smart_ed = FALSE /\ maxlen \in client.limits
  BY DEF LimitedInv
<1>2. CASE Escape \/ Return \/ UnknownKey \/ EraseSymbol \/ TypeSymbol
  BY <1>1, <1>2, FrameLimited DEF Escape, Return, UnknownKey, EraseSymbol, TypeSymbol, MayFeed
<1>3. CASE SetMaxLen
  BY <1>1, <1>3, FrameLimited DEF SetMaxLen
<1>4. CASE ToggleSmartEditing
  BY <1>1, <1>4, FrameLimited DEF ToggleSmartEditing, Careful
<1>5. CASE Home \/ Left \/ End \/ Right
  BY <1>1, <1>5, FrameLimited DEF Home, Left, End, Right, MoveCursor, MayFeed
<1>6. CASE BackSpace \/ Delete
  <2>1. answer # "COMMIT"
    BY <1>6 DEF BackSpace, Delete, MayFeed
  <2>2. CASE EraseIgnored
    BY <1>1, <2>1, <2>2, FrameLimited DEF EraseIgnored
  <2>3. ASSUME yinlen > 0, yinpos > 0, Erase(yinpos) PROVE LimitedInv'
    <3>1. yinpos \in 1 .. yinlen
      BY <2>3, Aligned
    <3>2. QED
      BY <2>1, <2>3, <3>1, EraseLimited
  <2>4. ASSUME yinlen > 0, yinpos < yinlen, Erase(yinpos + 1) PROVE LimitedInv'
    <3>1. yinpos + 1 \in 1 .. yinlen
      BY <2>4, Aligned
    <3>2. QED
      BY <2>1, <2>4, <3>1, EraseLimited
  <2>5. QED
    BY <1>6, <2>2, <2>3, <2>4 DEF BackSpace, Delete
<1>7. CASE Tab
  <2>1. answer # "COMMIT" /\ UNCHANGED <<options, yin>>
    BY <1>7 DEF Tab, MayFeed
  <2>2. SmartEdit \/ UNCHANGED <<buffer, internal_text, fault>>
    BY <1>7 DEF Tab
  <2>3. QED
    BY <1>1, <2>1, <2>2, FrameLimited, PinLimited
<1>8. CASE CycleZhi
  <2>1. answer # "COMMIT"
    BY <1>8 DEF CycleZhi, MayFeed
  <2>2. CASE yinpos = 0
    BY <1>1, <1>8, <2>1, <2>2, FrameLimited DEF CycleZhi
  <2>3. CASE yinpos # 0
    <3>1. yinlen > 0
      BY <2>3, Aligned
    <3> DEFINE i == Target + 1
    <3>2. i \in Int /\ i <= yinlen
      BY <3>1, Aligned, TargetInBuffer DEF IInv
    <3>3. HasText(i)
      <4> HIDE DEF i
      <4>1. QED
        BY <3>1, <3>2, TextThere
    <3>4. SmartEdit /\ UNCHANGED <<options, yin>>
      BY <1>8, <2>3, <3>3 DEF CycleZhi
    <3>5. QED
      BY <2>1, <3>4, PinLimited
  <2>4. QED
    BY <2>2, <2>3
<1>9. ASSUME NEW y \in Yin, TypeSyllable(y) PROVE LimitedInv'
  BY <1>9, TypeSyllableLimited
<1>10. CASE ToggleTsiSelection \/ ToggleZhiSelection \/ ToggleEditing
  BY <1>1, <1>10, FrameLimited DEF ToggleTsiSelection, ToggleZhiSelection, ToggleEditing
<1>11. CASE Pindown
  BY <1>11, PinLimited DEF Pindown
<1>12. ASSUME NEW p \in zsel, PindownByNumber(p) PROVE LimitedInv'
  <2>1. ~ (Target + Len(p) + 1 > yinlen + 1)
    BY ChoiceInBuffer
  <2>2. SmartEdit /\ UNCHANGED <<yin, options, answer>>
    BY <1>12, <2>1 DEF PindownByNumber
  <2>3. QED
    BY <2>2, PinLimited
<1>13. ASSUME NEW len \in 1 .. MaxYin, FetchText(len) PROVE LimitedInv'
  BY <1>13, FetchTextLimited
<1>14. CASE UNCHANGED vars
  BY <1>1, <1>14, FrameLimited DEF vars
<1>15. QED
  BY <1>2, <1>3, <1>4, <1>5, <1>6, <1>7, <1>8, <1>9, <1>10, <1>11, <1>12, <1>13,
     <1>14 DEF Next

\* A client stays what it is.
LEMMA ClientStays ==
    ASSUME [Next]_vars PROVE client' = client
BY DEF Next, vars, options, Escape, Home, Left, End, Right, MoveCursor, Return,
       EraseSymbol, BackSpace, Delete, EraseIgnored, Erase, Tab, TypeSymbol,
       TypeSyllable, UnknownKey, CycleZhi, Fail, ToggleTsiSelection,
       ToggleZhiSelection, ToggleEditing, Pindown, PindownByNumber, FetchText,
       SetMaxLen, ToggleSmartEditing

\* LimitedInv from the first state on.
LEMMA LimitedStep ==
    /\ Init => (Careful(client) => LimitedInv)
    /\ IInv /\ (Careful(client) => LimitedInv) /\ [Next]_vars
          => (Careful(client) => LimitedInv)'
<1>1. Init => (Careful(client) => LimitedInv)
  <2> SUFFICES ASSUME Init, Careful(client) PROVE LimitedInv
    OBVIOUS
  <2>1. yinlen = 0
    BY EmptySeq DEF Init, yinlen
  <2>2. maxlen \in client.limits /\ maxlen \in Nat
    BY LimitsAreNat, InitInv DEF Init
  <2>3. yinlen <= maxlen /\ yinlen <= maxlen + 1
    BY <2>1, <2>2
  <2>4. QED
    BY <2>1, <2>2, <2>3 DEF Init, LimitedInv
<1>2. ASSUME IInv, Careful(client) => LimitedInv, [Next]_vars, Careful(client)'
      PROVE  LimitedInv'
  <2>1. client' = client
    BY <1>2, ClientStays
  <2>2. Careful(client)
    BY <1>2, <2>1 DEF Careful, Roomy
  <2>3. QED
    BY <1>2, <2>2, NextLimited
<1>3. QED
  BY <1>1, <1>2

\* No edit of a client that has a limit with room for its words from the first
\* key on and leaves smart editing on, and which fetches when it is told to,
\* writes behind the arrays of bimsContextDP and bimsContextSmartEdit or to a
\* text that is not there.
THEOREM NoFaultAlways == Spec => []NoFault
<1>1. IInv /\ (Careful(client) => LimitedInv) => NoFault
  BY DEF LimitedInv, NoFault
<1>2. QED
  BY <1>1, LimitedStep, Invariance, PTL DEF Spec

-----------------------------------------------------------------------------
(* Edits are local *)

Cell == Yin \X (Zhi \cup {NoPin}) \X BOOLEAN

\* The three arrays side by side.
LEMMA CellsType ==
    ASSUME NEW a \in Seq(Yin), NEW b \in Seq(Zhi \cup {NoPin}), NEW c \in Seq(BOOLEAN),
           Len(b) = Len(a), Len(c) = Len(a)
    PROVE  /\ [i \in 1 .. Len(a) |-> <<a[i], b[i], c[i]>>] \in Seq(Cell)
           /\ Len([i \in 1 .. Len(a) |-> <<a[i], b[i], c[i]>>]) = Len(a)
<1> DEFINE n == Len(a)
           e(i) == <<a[i], b[i], c[i]>>
<1>1. n \in Nat
  BY LenProperties
<1>2. \A i \in 1 .. n : e(i) \in Cell
  <2>1. \A i \in 1 .. n : a[i] \in Yin /\ b[i] \in Zhi \cup {NoPin} /\ c[i] \in BOOLEAN
    BY ElementOfSeq
  <2>2. QED
    BY <2>1 DEF Cell
<1> HIDE DEF n, e
<1>3. [i \in 1 .. n |-> e(i)] \in Seq(Cell)
  BY <1>1, <1>2, IsASeq
<1>4. Len([i \in 1 .. n |-> e(i)]) = n
  BY <1>1
<1>5. QED
  BY <1>3, <1>4 DEF n, e

\* A sequence with one element put in is what InsertAt makes.
LEMMA InsertedIsInsertAt ==
    ASSUME NEW S, NEW s \in Seq(S), NEW x \in S, NEW pos \in 0 .. Len(s), NEW t,
           Inserted(S, t, s, pos, x)
    PROVE  t = InsertAt(s, pos + 1, x)
<1> DEFINE head == SubSeq(s, 1, pos)
           tail == SubSeq(s, pos + 1, Len(s))
           whole == (head \o <<x>>) \o tail
<1>1. Len(s) \in Nat
  BY LenProperties
<1>2. /\ head \in Seq(S) /\ Len(head) = pos
      /\ \A i \in 1 .. pos : head[i] = s[i]
  <2>1. /\ 1 \in 1 .. (Len(s) + 1) /\ pos \in (1 - 1) .. Len(s)
        /\ pos - 1 + 1 = pos /\ \A i \in 1 .. pos : 1 + i - 1 = i
    BY <1>1
  <2>2. /\ SubSeq(s, 1, pos) \in Seq(S)
        /\ Len(SubSeq(s, 1, pos)) = pos - 1 + 1
        /\ \A i \in 1 .. (pos - 1 + 1) : SubSeq(s, 1, pos)[i] = s[1 + i - 1]
    BY <2>1, SliceProperties
  <2>3. QED
    BY <2>1, <2>2
<1>3. /\ tail \in Seq(S) /\ Len(tail) = Len(s) - pos
      /\ \A i \in 1 .. (Len(s) - pos) : tail[i] = s[pos + i]
  <2> DEFINE m == pos + 1
             n == Len(s)
  <2>1. /\ m \in 1 .. (Len(s) + 1) /\ n \in (m - 1) .. Len(s)
        /\ n - m + 1 = Len(s) - pos /\ \A i \in 1 .. (Len(s) - pos) : m + i - 1 = pos + i
    BY <1>1
  <2>2. tail = SubSeq(s, m, n)
    OBVIOUS
  <2> HIDE DEF m, n, tail
  <2>3. /\ SubSeq(s, m, n) \in Seq(S)
        /\ Len(SubSeq(s, m, n)) = n - m + 1
        /\ \A i \in 1 .. (n - m + 1) : SubSeq(s, m, n)[i] = s[m + i - 1]
    BY <2>1, SliceProperties
  <2>4. QED
    BY <2>1, <2>2, <2>3
<1>4. InsertAt(s, pos + 1, x) = whole
  <2>1. (pos + 1) - 1 = pos
    BY <1>1
  <2>2. QED
    BY <2>1 DEF InsertAt
<1> HIDE DEF head, tail
<1>5. <<x>> \in Seq(S) /\ Len(<<x>>) = 1 /\ <<x>>[1] = x
  OBVIOUS
<1>6. /\ head \o <<x>> \in Seq(S)
      /\ Len(head \o <<x>>) = pos + 1
      /\ \A i \in 1 .. (pos + 1) : (head \o <<x>>)[i] = IF i <= pos THEN s[i] ELSE x
  <2>1. /\ head \o <<x>> \in Seq(S)
        /\ Len(head \o <<x>>) = Len(head) + Len(<<x>>)
        /\ \A i \in 1 .. Len(head) + Len(<<x>>) :
              (head \o <<x>>)[i] = IF i <= Len(head) THEN head[i] ELSE <<x>>[i - Len(head)]
    BY <1>2, <1>5, ConcatProperties
  <2>2. \A i \in 1 .. (pos + 1) : IF i <= pos THEN i \in 1 .. pos ELSE i - pos = 1
    BY <1>1
  <2>3. QED
    BY <1>2, <1>5, <2>1, <2>2
<1> DEFINE front == head \o <<x>>
<1> HIDE DEF front
<1>7. /\ front \in Seq(S) /\ Len(front) = pos + 1 /\ whole = front \o tail
      /\ \A i \in 1 .. (pos + 1) : front[i] = IF i <= pos THEN s[i] ELSE x
  BY <1>6 DEF front
<1> HIDE DEF whole
<1>8. /\ whole \in Seq(S)
      /\ Len(whole) = Len(s) + 1
      /\ \A i \in 1 .. (Len(s) + 1) :
            whole[i] = IF i <= pos THEN s[i] ELSE IF i = pos + 1 THEN x ELSE s[i - 1]
  <2>1. /\ front \o tail \in Seq(S)
        /\ Len(front \o tail) = Len(front) + Len(tail)
        /\ \A i \in 1 .. Len(front) + Len(tail) :
              (front \o tail)[i] = IF i <= Len(front) THEN front[i] ELSE tail[i - Len(front)]
    BY <1>3, <1>7, ConcatProperties
  <2>2. Len(front) + Len(tail) = Len(s) + 1
    BY <1>1, <1>3, <1>7
  <2>3. ASSUME NEW i \in 1 .. (Len(s) + 1)
        PROVE  whole[i] = IF i <= pos THEN s[i] ELSE IF i = pos + 1 THEN x ELSE s[i - 1]
    <3>1. whole[i] = IF i <= pos + 1 THEN front[i] ELSE tail[i - (pos + 1)]
      BY <1>7, <2>1, <2>2
    <3>2. CASE i <= pos + 1
      BY <1>1, <1>7, <3>1, <3>2
    <3>3. CASE ~ (i <= pos + 1)
      <4>1. i - (pos + 1) \in 1 .. (Len(s) - pos) /\ pos + (i - (pos + 1)) = i - 1
        BY <1>1, <3>3
      <4>2. tail[i - (pos + 1)] = s[pos + (i - (pos + 1))]
        BY <1>3, <4>1
      <4>3. ~ (i <= pos) /\ i # pos + 1
        BY <1>1, <3>3
      <4>4. QED
        BY <3>1, <3>3, <4>1, <4>2, <4>3
    <3>4. QED
      BY <3>2, <3>3
  <2>4. QED
    BY <1>7, <2>1, <2>2, <2>3
<1>9. /\ t \in Seq(S) /\ Len(t) = Len(s) + 1
      /\ \A i \in 1 .. (Len(s) + 1) :
            t[i] = IF i <= pos THEN s[i] ELSE IF i = pos + 1 THEN x ELSE s[i - 1]
  <2>1. \A i \in 1 .. (Len(s) + 1) :
           i \in 1 .. pos \/ i = pos + 1 \/ i \in (pos + 2) .. (Len(s) + 1)
    BY <1>1
  <2>2. QED
    BY <1>1, <2>1 DEF Inserted
<1>10. t = whole
  BY <1>8, <1>9, SeqEqual
<1>11. QED
  BY <1>4, <1>10

\* t is s without its element at pos.
Removed(S, t, s, pos) ==
    /\ t \in Seq(S)
    /\ Len(t) = Len(s) - 1
    /\ \A i \in 1 .. (Len(s) - 1) : t[i] = IF i < pos THEN s[i] ELSE s[i + 1]

\* A sequence with one element taken out is what RemoveAt makes.
LEMMA RemovedIsRemoveAt ==
    ASSUME NEW S, NEW s \in Seq(S), NEW pos \in 1 .. Len(s), NEW t,
           Removed(S, t, s, pos)
    PROVE  t = RemoveAt(s, pos)
<1> DEFINE head == SubSeq(s, 1, pos - 1)
           tail == SubSeq(s, pos + 1, Len(s))
           whole == head \o tail
<1>1. Len(s) \in Nat
  BY LenProperties
<1>2. /\ head \in Seq(S) /\ Len(head) = pos - 1
      /\ \A i \in 1 .. (pos - 1) : head[i] = s[i]
  <2> DEFINE n == pos - 1
  <2>1. /\ 1 \in 1 .. (Len(s) + 1) /\ n \in (1 - 1) .. Len(s)
        /\ n - 1 + 1 = n /\ \A i \in 1 .. n : 1 + i - 1 = i
    BY <1>1
  <2>2. head = SubSeq(s, 1, n)
    OBVIOUS
  <2> HIDE DEF head
  <2>3. n = pos - 1
    OBVIOUS
  <2> HIDE DEF n
  <2>4. /\ SubSeq(s, 1, n) \in Seq(S)
        /\ Len(SubSeq(s, 1, n)) = n - 1 + 1
        /\ \A i \in 1 .. (n - 1 + 1) : SubSeq(s, 1, n)[i] = s[1 + i - 1]
    BY <2>1, SliceProperties
  <2>5. QED
    BY <2>1, <2>2, <2>3, <2>4
<1>3. /\ tail \in Seq(S) /\ Len(tail) = Len(s) - pos
      /\ \A i \in 1 .. (Len(s) - pos) : tail[i] = s[pos + i]
  <2> DEFINE m == pos + 1
             n == Len(s)
  <2>1. /\ m \in 1 .. (Len(s) + 1) /\ n \in (m - 1) .. Len(s)
        /\ n - m + 1 = Len(s) - pos /\ \A i \in 1 .. (Len(s) - pos) : m + i - 1 = pos + i
    BY <1>1
  <2>2. tail = SubSeq(s, m, n)
    OBVIOUS
  <2> HIDE DEF m, n, tail
  <2>3. /\ SubSeq(s, m, n) \in Seq(S)
        /\ Len(SubSeq(s, m, n)) = n - m + 1
        /\ \A i \in 1 .. (n - m + 1) : SubSeq(s, m, n)[i] = s[m + i - 1]
    BY <2>1, SliceProperties
  <2>4. QED
    BY <2>1, <2>2, <2>3
<1>4. RemoveAt(s, pos) = whole
  BY DEF RemoveAt
<1> HIDE DEF head, tail
<1>5. /\ whole \in Seq(S)
      /\ Len(whole) = Len(s) - 1
      /\ \A i \in 1 .. (Len(s) - 1) : whole[i] = IF i < pos THEN s[i] ELSE s[i + 1]
  <2>1. /\ head \o tail \in Seq(S)
        /\ Len(head \o tail) = Len(head) + Len(tail)
        /\ \A i \in 1 .. Len(head) + Len(tail) :
              (head \o tail)[i] = IF i <= Len(head) THEN head[i] ELSE tail[i - Len(head)]
    BY <1>2, <1>3, ConcatProperties
  <2>2. Len(head) + Len(tail) = Len(s) - 1
    BY <1>1, <1>2, <1>3
  <2>3. ASSUME NEW i \in 1 .. (Len(s) - 1)
        PROVE  whole[i] = IF i < pos THEN s[i] ELSE s[i + 1]
    <3>1. whole[i] = IF i <= pos - 1 THEN head[i] ELSE tail[i - (pos - 1)]
      BY <1>2, <2>1, <2>2
    <3>2. CASE i < pos
      <4>1. i \in 1 .. (pos - 1) /\ i <= pos - 1
        BY <1>1, <3>2
      <4>2. QED
        BY <1>2, <3>1, <3>2, <4>1
    <3>3. CASE ~ (i < pos)
      <4>1. /\ i - (pos - 1) \in 1 .. (Len(s) - pos) /\ pos + (i - (pos - 1)) = i + 1
            /\ ~ (i <= pos - 1)
        BY <1>1, <3>3
      <4>2. tail[i - (pos - 1)] = s[pos + (i - (pos - 1))]
        BY <1>3, <4>1
      <4>3. QED
        BY <3>1, <3>3, <4>1, <4>2
    <3>4. QED
      BY <3>2, <3>3
  <2>4. QED
    BY <2>1, <2>2, <2>3
<1> HIDE DEF whole
<1>6. t = whole
  BY <1>5, SeqEqual DEF Removed
<1>7. QED
  BY <1>4, <1>6

LEMMA CellsNow ==
    ASSUME IInv
    PROVE  /\ Cells \in Seq(Cell) /\ Len(Cells) = Len(yin)
           /\ \A i \in 1 .. Len(yin) : Cells[i] = <<yin[i], pindown[i], tsiboundary[i]>>
BY Aligned, CellsType DEF Cells, yinlen

LEMMA CellsNext ==
    ASSUME IInv'
    PROVE  /\ Cells' \in Seq(Cell) /\ Len(Cells') = Len(yin')
           /\ \A i \in 1 .. Len(yin') : Cells'[i] = <<yin'[i], pindown'[i], tsiboundary'[i]>>
<1>1. /\ yin' \in Seq(Yin) /\ pindown' \in Seq(Zhi \cup {NoPin})
      /\ tsiboundary' \in Seq(BOOLEAN)
      /\ Len(pindown') = Len(yin') /\ Len(tsiboundary') = Len(yin')
  BY DEF IInv, TypeOK, yinlen
<1>2. Cells' = [i \in 1 .. Len(yin') |-> <<yin'[i], pindown'[i], tsiboundary'[i]>>]
  BY DEF Cells, yinlen
<1>3. QED
  BY <1>1, <1>2, CellsType

LEMMA TypedIsLocal ==
    ASSUME IInv, IInv', NEW y \in Yin, TypeSyllable(y)
    PROVE  \E i \in 1 .. (yinlen + 1), z \in Yin :
              Cells' = InsertAt(Cells, i, <<z, NoPin, FALSE>>)
<1>1. /\ yin' = ShiftUp(yin, yinpos, y)
      /\ pindown' = ShiftUp(pindown, yinpos, NoPin)
      /\ tsiboundary' = ShiftUp(tsiboundary, yinpos, FALSE)
  BY DEF TypeSyllable
<1> DEFINE x == <<y, NoPin, FALSE>>
<1>2. x \in Cell
  BY DEF Cell
<1>3. Inserted(Yin, yin', yin, yinpos, y)
  BY <1>1, Aligned, ShiftUpInserts
<1>4. Inserted(Zhi \cup {NoPin}, pindown', pindown, yinpos, NoPin)
  BY <1>1, Aligned, ShiftUpInserts
<1>5. Inserted(BOOLEAN, tsiboundary', tsiboundary, yinpos, FALSE)
  BY <1>1, Aligned, ShiftUpInserts
<1>6. yinpos \in 0 .. Len(yin) /\ Len(yin) \in Nat /\ yinlen = Len(yin)
  BY Aligned
<1>7. Len(yin') = Len(yin) + 1 /\ Len(pindown) = Len(yin) /\ Len(tsiboundary) = Len(yin)
  BY <1>3, Aligned DEF Inserted
<1> DEFINE c == Cells
           d == Cells'
<1>8. /\ c \in Seq(Cell) /\ Len(c) = Len(yin)
      /\ \A i \in 1 .. Len(yin) : c[i] = <<yin[i], pindown[i], tsiboundary[i]>>
  BY CellsNow
<1>9. /\ d \in Seq(Cell) /\ Len(d) = Len(yin')
      /\ \A i \in 1 .. Len(yin') : d[i] = <<yin'[i], pindown'[i], tsiboundary'[i]>>
  BY CellsNext
<1> HIDE DEF c, d
<1>10. \A i \in 1 .. yinpos : d[i] = c[i]
  <2>1. ASSUME NEW i \in 1 .. yinpos PROVE d[i] = c[i]
    <3>1. i \in 1 .. Len(yin) /\ i \in 1 .. Len(yin')
      BY <1>6, <1>7
    <3>2. yin'[i] = yin[i] /\ pindown'[i] = pindown[i] /\ tsiboundary'[i] = tsiboundary[i]
      BY <1>3, <1>4, <1>5 DEF Inserted
    <3>3. QED
      BY <1>8, <1>9, <3>1, <3>2
  <2>2. QED
    BY <2>1
<1>11. d[yinpos + 1] = x
  <2>1. yinpos + 1 \in 1 .. Len(yin')
    BY <1>6, <1>7
  <2>2. /\ yin'[yinpos + 1] = y /\ pindown'[yinpos + 1] = NoPin
        /\ tsiboundary'[yinpos + 1] = FALSE
    BY <1>3, <1>4, <1>5 DEF Inserted
  <2>3. QED
    BY <1>9, <2>1, <2>2
<1>12. \A i \in (yinpos + 2) .. (Len(yin) + 1) : d[i] = c[i - 1]
  <2>1. ASSUME NEW i \in (yinpos + 2) .. (Len(yin) + 1) PROVE d[i] = c[i - 1]
    <3>1. i - 1 \in 1 .. Len(yin) /\ i \in 1 .. Len(yin')
      BY <1>6, <1>7
    <3>2. /\ yin'[i] = yin[i - 1] /\ pindown'[i] = pindown[i - 1]
          /\ tsiboundary'[i] = tsiboundary[i - 1]
      BY <1>3, <1>4, <1>5, <1>7 DEF Inserted
    <3>3. QED
      BY <1>8, <1>9, <3>1, <3>2
  <2>2. QED
    BY <2>1
<1> HIDE DEF x
<1>13. Inserted(Cell, d, c, yinpos, x)
  BY <1>7, <1>8, <1>9, <1>10, <1>11, <1>12 DEF Inserted
<1>14. d = InsertAt(c, yinpos + 1, x)
  <2>1. yinpos \in 0 .. Len(c)
    BY <1>6, <1>8
  <2>2. QED
    BY <1>2, <1>8, <1>13, <2>1, InsertedIsInsertAt
<1>15. yinpos + 1 \in 1 .. (yinlen + 1)
  BY <1>6
<1>16. QED
  BY <1>14, <1>15 DEF c, d, x

LEMMA ErasedIsLocal ==
    ASSUME IInv, IInv', NEW pos \in 1 .. yinlen, Erase(pos), yin' # yin
    PROVE  \E i \in 1 .. yinlen : Cells' = RemoveAt(Cells, i)
<1>1. /\ yin' = ShiftDown(yin, pos)
      /\ pindown' = ShiftDown(pindown, pos)
      /\ tsiboundary' = ShiftDown(tsiboundary, pos)
  BY DEF Erase, Fail, buffer
<1>2. pos \in 1 .. Len(yin) /\ Len(yin) \in Nat
  BY Aligned
<1>3. /\ Len(yin') = Len(yin) - 1
      /\ \A i \in 1 .. (Len(yin) - 1) : yin'[i] = IF i < pos THEN yin[i] ELSE yin[i + 1]
  BY <1>1, <1>2, Aligned, ShiftDownProperties
<1>4. \A i \in 1 .. (Len(yin) - 1) :
         pindown'[i] = IF i < pos THEN pindown[i] ELSE pindown[i + 1]
  <2>1. pindown \in Seq(Zhi \cup {NoPin}) /\ Len(pindown) = Len(yin)
    BY Aligned
  <2>2. \A i \in 1 .. (Len(pindown) - 1) :
           ShiftDown(pindown, pos)[i] = IF i < pos THEN pindown[i] ELSE pindown[i + 1]
    BY <1>2, <2>1, ShiftDownProperties
  <2>3. QED
    BY <1>1, <2>1, <2>2
<1>5. \A i \in 1 .. (Len(yin) - 1) :
         tsiboundary'[i] = IF i < pos THEN tsiboundary[i] ELSE tsiboundary[i + 1]
  <2>1. tsiboundary \in Seq(BOOLEAN) /\ Len(tsiboundary) = Len(yin)
    BY Aligned
  <2>2. \A i \in 1 .. (Len(tsiboundary) - 1) :
           ShiftDown(tsiboundary, pos)[i] = IF i < pos THEN tsiboundary[i] ELSE tsiboundary[i + 1]
    BY <1>2, <2>1, ShiftDownProperties
  <2>3. QED
    BY <1>1, <2>1, <2>2
<1> DEFINE c == Cells
           d == Cells'
<1>6. /\ c \in Seq(Cell) /\ Len(c) = Len(yin)
      /\ \A i \in 1 .. Len(yin) : c[i] = <<yin[i], pindown[i], tsiboundary[i]>>
  BY CellsNow
<1>7. /\ d \in Seq(Cell) /\ Len(d) = Len(yin')
      /\ \A i \in 1 .. Len(yin') : d[i] = <<yin'[i], pindown'[i], tsiboundary'[i]>>
  BY CellsNext
<1> HIDE DEF c, d
<1>8. \A i \in 1 .. (Len(yin) - 1) : d[i] = IF i < pos THEN c[i] ELSE c[i + 1]
  <2>1. ASSUME NEW i \in 1 .. (Len(yin) - 1)
        PROVE  d[i] = IF i < pos THEN c[i] ELSE c[i + 1]
    <3>1. i \in 1 .. Len(yin) /\ i + 1 \in 1 .. Len(yin) /\ i \in 1 .. Len(yin')
      BY <1>2, <1>3
    <3>2. CASE i < pos
      BY <1>3, <1>4, <1>5, <1>6, <1>7, <3>1, <3>2
    <3>3. CASE ~ (i < pos)
      BY <1>3, <1>4, <1>5, <1>6, <1>7, <3>1, <3>3
    <3>4. QED
      BY <3>2, <3>3
  <2>2. QED
    BY <2>1
<1>9. Removed(Cell, d, c, pos)
  BY <1>3, <1>6, <1>7, <1>8 DEF Removed
<1>10. d = RemoveAt(c, pos)
  BY <1>2, <1>6, <1>9, RemovedIsRemoveAt
<1>11. QED
  BY <1>10 DEF c, d

LEMMA FetchedIsLocal ==
    ASSUME IInv, IInv', NEW len \in 1 .. MaxYin, FetchText(len), yin' # yin
    PROVE  \E n \in 1 .. yinlen : Cells' = SubSeq(Cells, n + 1, yinlen)
<1> DEFINE newlen == IF yinlen < len THEN yinlen ELSE len
           rest == yinlen - newlen
<1>1. /\ yinlen > 0
      /\ yin' = SubSeq(yin, newlen + 1, newlen + rest)
      /\ pindown' = SubSeq(pindown, len + 1, len + rest)
      /\ tsiboundary' = SubSeq(tsiboundary, len + 1, len + rest)
  BY DEF FetchText, Fail, buffer
<1>2. len \in Nat \ {0} /\ yinlen \in Nat /\ yinlen = Len(yin)
  BY BoundAssumption, Aligned
<1>3. newlen \in 1 .. yinlen /\ rest \in 0 .. (yinlen - 1) /\ newlen + rest = yinlen
  BY <1>1, <1>2
<1>4. rest > 0 => newlen = len
  BY <1>2
<1> HIDE DEF newlen, rest
<1>5. Len(yin') = rest
  <2> DEFINE m == newlen + 1
             n == newlen + rest
  <2>1. /\ m \in 1 .. (Len(yin) + 1) /\ n \in (m - 1) .. Len(yin) /\ n - m + 1 = rest
        /\ yin' = SubSeq(yin, m, n) /\ yin \in Seq(Yin)
    BY <1>1, <1>2, <1>3, Aligned
  <2> HIDE DEF m, n
  <2>2. QED
    BY <2>1, SliceProperties
<1> DEFINE c == Cells
           d == Cells'
<1>6. /\ c \in Seq(Cell) /\ Len(c) = Len(yin)
      /\ \A i \in 1 .. Len(yin) : c[i] = <<yin[i], pindown[i], tsiboundary[i]>>
  BY CellsNow
<1>7. /\ d \in Seq(Cell) /\ Len(d) = Len(yin')
      /\ \A i \in 1 .. Len(yin') : d[i] = <<yin'[i], pindown'[i], tsiboundary'[i]>>
  BY CellsNext
<1> HIDE DEF c, d
<1>8. \A i \in 1 .. rest : d[i] = c[newlen + i]
  <2>1. ASSUME NEW i \in 1 .. rest PROVE d[i] = c[newlen + i]
    <3> DEFINE m == len + 1
               n == len + rest
    <3>1. newlen = len
      BY <1>3, <1>4
    <3>2. /\ m \in 1 .. (Len(yin) + 1) /\ n \in (m - 1) .. Len(yin) /\ n - m + 1 = rest
          /\ \A j \in 1 .. rest : m + j - 1 = newlen + j
          /\ newlen + i \in 1 .. Len(yin)
      BY <1>2, <1>3, <3>1
    <3>3. /\ yin' = SubSeq(yin, m, n) /\ pindown' = SubSeq(pindown, m, n)
          /\ tsiboundary' = SubSeq(tsiboundary, m, n)
      BY <1>1, <3>1
    <3> HIDE DEF m, n
    <3>4. yin'[i] = yin[newlen + i]
      <4>1. \A j \in 1 .. (n - m + 1) : SubSeq(yin, m, n)[j] = yin[m + j - 1]
        BY <3>2, Aligned, SliceProperties
      <4>2. QED
        BY <3>2, <3>3, <4>1
    <3>5. pindown'[i] = pindown[newlen + i]
      <4>1. \A j \in 1 .. (n - m + 1) : SubSeq(pindown, m, n)[j] = pindown[m + j - 1]
        BY <3>2, Aligned, SliceProperties
      <4>2. QED
        BY <3>2, <3>3, <4>1
    <3>6. tsiboundary'[i] = tsiboundary[newlen + i]
      <4>1. \A j \in 1 .. (n - m + 1) : SubSeq(tsiboundary, m, n)[j] = tsiboundary[m + j - 1]
        BY <3>2, Aligned, SliceProperties
      <4>2. QED
        BY <3>2, <3>3, <4>1
    <3>7. QED
      BY <1>5, <1>6, <1>7, <3>2, <3>4, <3>5, <3>6
  <2>2. QED
    BY <2>1
<1>9. d = SubSeq(c, newlen + 1, yinlen)
  <2> DEFINE m == newlen + 1
             n == yinlen
             t == SubSeq(c, m, n)
  <2>1. /\ m \in 1 .. (Len(c) + 1) /\ n \in (m - 1) .. Len(c) /\ n - m + 1 = rest
        /\ \A j \in 1 .. rest : m + j - 1 = newlen + j
    BY <1>2, <1>3, <1>6
  <2> HIDE DEF m, n
  <2>2. /\ t \in Seq(Cell) /\ Len(t) = rest
        /\ \A j \in 1 .. rest : t[j] = c[newlen + j]
    <3>1. /\ SubSeq(c, m, n) \in Seq(Cell)
          /\ Len(SubSeq(c, m, n)) = n - m + 1
          /\ \A j \in 1 .. (n - m + 1) : SubSeq(c, m, n)[j] = c[m + j - 1]
      BY <1>6, <2>1, SliceProperties
    <3>2. QED
      BY <2>1, <3>1
  <2>3. t = SubSeq(c, newlen + 1, yinlen)
    BY DEF m, n
  <2> HIDE DEF t
  <2>4. d = t
    BY <1>5, <1>7, <1>8, <2>2, SeqEqual
  <2>5. QED
    BY <2>3, <2>4
<1>10. QED
  BY <1>3, <1>9 DEF c, d

\* Every change of the syllables inserts one, erases one or takes some from
\* the head, and no other syllable loses its pin or boundary to a neighbour:
\* BackSpace, Delete, a new syllable and bimsFetchText move the arrays alike.
THEOREM EditsStayLocal == Spec => EditsAreLocal
<1> DEFINE Local ==
        yin' # yin =>
          \/ \E i \in 1 .. (yinlen + 1), y \in Yin :
                Cells' = InsertAt(Cells, i, <<y, NoPin, FALSE>>)
          \/ \E i \in 1 .. yinlen : Cells' = RemoveAt(Cells, i)
          \/ \E n \in 1 .. yinlen : Cells' = SubSeq(Cells, n + 1, yinlen)
<1>1. IInv /\ [Next]_vars => [Local]_vars
  <2> SUFFICES ASSUME IInv, [Next]_vars, yin' # yin PROVE Local
    OBVIOUS
  <2>1. IInv'
    BY NextInv
  <2>2. \/ BackSpace \/ Delete
        \/ \E y \in Yin : TypeSyllable(y)
        \/ \E len \in 1 .. MaxYin : FetchText(len)
    BY DEF Next, vars, buffer, Escape, Home, Left, End, Right, MoveCursor, Return,
           EraseSymbol, Tab, TypeSymbol, UnknownKey, CycleZhi, Fail, ToggleTsiSelection,
           ToggleZhiSelection, ToggleEditing, Pindown, PindownByNumber, SetMaxLen,
           ToggleSmartEditing
  <2>3. CASE BackSpace
    <3>1. yinlen > 0 /\ yinpos > 0 /\ Erase(yinpos)
      BY <2>3 DEF BackSpace, EraseIgnored, buffer
    <3>2. yinpos \in 1 .. yinlen
      BY <3>1, Aligned
    <3>3. QED
      BY <2>1, <3>1, <3>2, ErasedIsLocal
  <2>4. CASE Delete
    <3>1. yinlen > 0 /\ yinpos < yinlen /\ Erase(yinpos + 1)
      BY <2>4 DEF Delete, EraseIgnored, buffer
    <3>2. yinpos + 1 \in 1 .. yinlen
      BY <3>1, Aligned
    <3>3. QED
      BY <2>1, <3>1, <3>2, ErasedIsLocal
  <2>5. CASE \E y \in Yin : TypeSyllable(y)
    BY <2>1, <2>5, TypedIsLocal
  <2>6. CASE \E len \in 1 .. MaxYin : FetchText(len)
    BY <2>1, <2>6, FetchedIsLocal
  <2>7. QED
    BY <2>2, <2>3, <2>4, <2>5, <2>6
<1>2. QED
  BY <1>1, Invariance, PTL DEF Spec, EditsAreLocal
==============================================================================
