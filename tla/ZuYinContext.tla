---------------------------- MODULE ZuYinContext ----------------------------
(***************************************************************************)
(* The ZuYin context of a bims client: the keys of four keymaps become     *)
(* symbols, symbols become a syllable (src/supports/bims/bims.c).          *)
(*                                                                         *)
(* Two kinds of user type.  One presses any key in any order.  The other   *)
(* begins with an empty context, has a syllable in mind and presses the    *)
(* keys that the keymap gives for its symbols; target and left are what    *)
(* this user has in mind and has still to press.  What the syllable does   *)
(* to the editing buffer is BimsEditing.                                   *)
(***************************************************************************)
EXTENDS ZuYin

CONSTANTS
    Beyond,   \* yins that the memory behind _YinZhiTable may hold
    NoYin,    \* no syllable
    Clashes   \* by keymap, the syllables whose keys mean something else

ASSUME BeyondAssumption == Beyond \subseteq 0 .. 2^16 - 1 /\ Beyond # {}
ASSUME NoYinAssumption == NoYin \notin Int
ASSUME ClashesAssumption == \A k \in DOMAIN Clashes : Clashes[k] \subseteq Yins

VARIABLES
    keymap,
    index,     \* zc.index
    shown,     \* zc.string, as the last key made it
    composed,  \* the syllable the last key put into the buffer, or NoYin
    beyond,    \* what the memory behind the table holds
    target, left

vars == <<keymap, index, shown, composed, beyond, target, left>>

-----------------------------------------------------------------------------
(* The keymaps: the key of each symbol.                                    *)

Keymaps == {"ZO", "ETEN", "ETEN26", "HSU"}

ZozyKeyMap == <<
    "1", "q", "a", "z", "2", "w", "s", "x", "e", "d", "c", "r", "f", "v",
    "5", "t", "g", "b", "y", "h", "n", "u", "j", "m", "8", "i", "k", ",",
    "9", "o", "l", ".", "0", "p", ";", "/", "-", " ", "6", "3", "4", "7" >>

EtenKeyMap == <<
    "b", "p", "m", "f", "d", "t", "n", "l", "v", "k", "h", "g", "7", "c",
    ",", ".", "/", "j", ";", "'", "s", "e", "x", "u", "a", "o", "r", "w",
    "i", "q", "z", "y", "8", "9", "0", "-", "=", " ", "2", "3", "4", "1" >>

Eten26KeyMap == <<
    "b", "p", "m", "f", "d", "t", "n", "l", "v", "k", "h", "g", "v", "c",
    "g", "y", "c", "j", "q", "w", "s", "e", "x", "u", "a", "o", "r", "w",
    "i", "q", "z", "p", "m", "n", "t", "l", "h", " ", "d", "f", "j", "k" >>

HsuKeyMap == <<
    "b", "p", "m", "f", "d", "t", "n", "l", "g", "k", "h", "j", "v", "c",
    "j", "v", "c", "r", "z", "a", "s", "e", "x", "u", "y", "h", "g", "e",
    "i", "a", "w", "o", "m", "n", "k", "l", "l", " ", "d", "f", "j", "s" >>

KeyMap == [k \in Keymaps |-> CASE k = "ZO" -> ZozyKeyMap
                               [] k = "ETEN" -> EtenKeyMap
                               [] k = "ETEN26" -> Eten26KeyMap
                               [] k = "HSU" -> HsuKeyMap]

Keys(k) == {KeyMap[k][i] : i \in ZuYinIndex}

\* A key stands for the first of its symbols.
KeyToZuYinIndex(k, key) ==
    CHOOSE i \in ZuYinIndex :
        /\ KeyMap[k][i] = key
        /\ \A j \in 1 .. i - 1 : KeyMap[k][j] # key

\* The key a user presses for a symbol.  For the tones of Eten26 it is the
\* one the layout of the keymap names, and not the one in its array.
KeyOf(k, s) ==
    CASE k = "ETEN26" /\ s = 39 -> "f"
      [] k = "ETEN26" /\ s = 40 -> "j"
      [] k = "ETEN26" /\ s = 41 -> "k"
      [] k = "ETEN26" /\ s = 42 -> "d"
      [] OTHER -> KeyMap[k][s]

-----------------------------------------------------------------------------
(* A symbol takes the slot of its kind.                                    *)

\* Wrong variant: the first medial is taken for an initial.
PlaceOneTooFar(ix, s) ==
    [i \in 0 .. 3 |-> CASE s = 22 /\ i < 2 -> IF i = 0 THEN s ELSE ix[i]
                        [] s \in Kind[i] -> s
                        [] OTHER -> ix[i]]

Place(ix, s) ==
    [i \in 0 .. 3 |-> IF s \in Kind[i] THEN s ELSE ix[i]]

\* The function that takes the first of each pair to the second.
Table(pairs) ==
    [s \in {p[1] : p \in pairs} |-> (CHOOSE p \in pairs : p[1] = s)[2]]

Palatals == {22, 24}   \* the medials that j, q and x need

(***************************************************************************)
(* Eten26.  What a symbol means depends on the slots: the key of an        *)
(* initial stands for a final when the slots before it allow one, the key  *)
(* of another one for a tone, and j and x become zh and sh before anything *)
(* but a palatal medial.  A rule gives the slots and the symbol to place.  *)
(***************************************************************************)
\* Wrong variant: x does not become sh.
RetroflexZhOnly(ix) == [ix EXCEPT ![0] = IF @ = 12 THEN 15 ELSE @]

Retroflex(ix) ==
    [ix EXCEPT ![0] = IF @ = 12 THEN 15 ELSE IF @ = 14 THEN 17 ELSE @]

Eten26Final ==
    Table({<<2, 32>>, <<3, 33>>, <<6, 35>>, <<7, 34>>, <<8, 36>>, <<19, 30>>, <<20, 28>>})

\* The initials and the medials after which the key is that of the final.
Eten26FinalAfterInitial ==
    LET most == Initials \ {13}
    IN  Table({<<2, most \ {1, 7}>>, <<3, most>>, <<6, most>>, <<8, most>>,
               <<7, {1, 2, 3, 4} \cup 9 .. 12 \cup 14 .. 21>>,
               <<19, {1, 2, 3, 4, 5, 7, 8, 9, 11, 14, 17, 19}>>, <<20, {}>>})

Eten26FinalAfterMedial ==
    Table({<<2, {22}>>, <<3, Medials>>, <<6, {22, 23}>>, <<7, Medials>>,
           <<8, Medials>>, <<19, {23}>>, <<20, Medials>>})

Eten26Tone == Table({<<4, 39>>, <<5, 42>>, <<18, 40>>, <<10, 41>>, <<38, 38>>})

\* The initials that a tone may follow at once.
Eten26ToneAfter ==
    Table({<<4, {12, 14, 15, 16, 17, 20}>>, <<5, {14, 17, 19}>>,
           <<18, {12, 14, 15, 16, 17, 19, 20, 21}>>, <<10, {12, 14} \cup 15 .. 21>>,
           <<38, {0} \cup Initials>>})

\* The initials that a tone right after them makes a final.
Eten26Lone ==
    Table({<<4, Table({<<6, 35>>, <<11, 37>>, <<19, 30>>})>>,
           <<5, Table({<<7, 34>>})>>,
           <<18, Table({<<2, 32>>, <<3, 33>>, <<7, 34>>, <<11, 37>>})>>,
           <<10, Table({<<2, 32>>, <<3, 33>>, <<6, 35>>, <<7, 34>>, <<11, 37>>})>>,
           <<38, Table({<<2, 32>>, <<3, 33>>, <<6, 35>>, <<7, 34>>, <<11, 37>>})>>})

Eten26FinalRule(ix, s) ==
    CASE ix[1] = 0 /\ ix[0] \in Eten26FinalAfterInitial[s] ->
            <<Retroflex(ix), Eten26Final[s]>>
      [] ix[1] \in Eten26FinalAfterMedial[s] -> <<ix, Eten26Final[s]>>
      [] OTHER -> <<ix, s>>

Eten26ToneRule(ix, s) ==
    CASE ix[1] # 0 \/ ix[2] # 0 -> <<ix, Eten26Tone[s]>>
      [] ix[1] = 0 /\ ix[2] = 0 /\ ix[0] \in DOMAIN Eten26Lone[s] ->
            <<[ix EXCEPT ![0] = 0, ![2] = Eten26Lone[s][ix[0]]], Eten26Tone[s]>>
      [] ix[1] = 0 /\ ix[2] = 0 /\ ix[0] \in Eten26ToneAfter[s] \ DOMAIN Eten26Lone[s] ->
            <<Retroflex(ix), Eten26Tone[s]>>
      [] OTHER -> <<ix, s>>

Eten26PalatalRule(ix, s) ==
    <<[ix EXCEPT ![0] = CASE @ = 9 -> 13 [] @ = 15 -> 12 [] @ = 17 -> 14
                          [] OTHER -> @], s>>

Eten26Rule(ix, s) ==
    CASE s \in DOMAIN Eten26Final -> Eten26FinalRule(ix, s)
      [] s \in DOMAIN Eten26Tone -> Eten26ToneRule(ix, s)
      [] s \in Palatals -> Eten26PalatalRule(ix, s)
      [] s \in {23, 25, 27, 29, 31} ->
            <<IF ix[1] = 0 THEN Retroflex(ix) ELSE ix, s>>
      [] s = 9 /\ ix[1] \in Palatals -> <<ix, 13>>
      [] OTHER -> <<ix, s>>

Eten26Input(ix, s) ==
    LET rule == Eten26Rule(ix, s) IN Place(rule[1], rule[2])

(***************************************************************************)
(* Hsu.  The slot filled last decides what the symbol means; then the      *)
(* initial follows the medial, and a tone right after an initial makes     *)
(* some initials finals.                                                   *)
(***************************************************************************)
HsuTone == Table({<<4, 40>>, <<5, 39>>, <<21, 42>>, <<12, 41>>})
HsuFinal ==
    Table({<<3, 33>>, <<7, 34>>, <<8, 36>>, <<9, 27>>, <<10, 35>>, <<11, 26>>, <<20, 30>>})
HsuLone ==
    Table({<<3, 33>>, <<7, 34>>, <<8, 37>>, <<9, 27>>, <<10, 35>>, <<11, 26>>})

HsuMeaning(ix, s) ==
    CASE s \in DOMAIN HsuTone /\ (ix[0] # 0 \/ ix[1] # 0 \/ ix[2] # 0) -> HsuTone[s]
      [] s \in DOMAIN HsuFinal /\ (ix[0] # 0 \/ ix[1] # 0) /\ ix[2] = 0 -> HsuFinal[s]
      [] s = 22 /\ ix[1] # 0 /\ ix[2] = 0 -> 28
      [] s = 36 /\ ix[1] # 0 /\ ix[2] = 0 -> 41
      [] OTHER -> s

HsuInitial(ix) ==
    LET palatal == ix[1] \in Palatals
    IN  [ix EXCEPT ![0] =
            CASE @ \in {12, 15} -> IF palatal THEN 12 ELSE 15
              [] @ \in {13, 16} -> IF palatal THEN 13 ELSE 16
              [] @ \in {14, 17} -> IF palatal THEN 14 ELSE 17
              [] @ = 9 /\ palatal -> 12
              [] OTHER -> @]

HsuInput(ix, s) ==
    LET symbol == HsuMeaning(ix, s)
        placed == HsuInitial(Place(ix, symbol))
    IN  IF /\ placed[0] \in DOMAIN HsuLone /\ placed[1] = 0 /\ placed[2] = 0
           /\ symbol > 37
          THEN [placed EXCEPT ![0] = 0, ![2] = HsuLone[placed[0]]]
          ELSE placed

-----------------------------------------------------------------------------
\* The slots after a key.
Input(k, ix, key) ==
    LET s == KeyToZuYinIndex(k, key)
    IN  CASE k = "ETEN26" -> Eten26Input(ix, s)
          [] k = "HSU" -> HsuInput(ix, s)
          [] OTHER -> Place(ix, s)

\* bimsZuYinContextCheck asks for the characters of a syllable.
Syllables ==
    {f \in Yins \X Beyond : YinToYinZhi(f[1], f[2]) # NoEntry}

\* zc.string: a tone alone is not shown.
String(ix) == IF \A i \in 0 .. 2 : ix[i] = 0 THEN << >> ELSE Shown(ix)

Composes(ix) == ix[3] # 0 /\ <<YinOf(ix), beyond>> \in Syllables

Init ==
    /\ keymap \in Keymaps
    /\ index = Empty /\ shown = << >>
    /\ composed = NoYin
    /\ beyond \in Beyond
    /\ target = NoYin /\ left = << >>

\* A key of the keymap: the syllable goes into the buffer when it is one.
Feed(key) ==
    LET ix == Input(keymap, index, key)
    IN  /\ shown' = String(ix)
        /\ index' = IF Composes(ix) THEN Empty ELSE ix
        /\ composed' = IF Composes(ix) THEN YinOf(ix) ELSE NoYin

TypeAnyKey ==
    /\ left = << >>
    /\ \E key \in Keys(keymap) : Feed(key)
    /\ target' = NoYin
    /\ UNCHANGED <<keymap, beyond, left>>

\* Bound: not right after a syllable, when the context is just as empty.
HasInMind(yin) ==
    /\ index = Empty /\ left = << >> /\ composed = NoYin
    /\ target' = yin
    /\ left' = LET symbols == Shown(IndexOf(yin))
               IN  [i \in DOMAIN symbols |-> KeyOf(keymap, symbols[i])]
    /\ composed' = NoYin /\ shown' = << >>
    /\ UNCHANGED <<keymap, index, beyond>>

TypeNextKey ==
    /\ left # << >>
    /\ Feed(Head(left))
    /\ left' = Tail(left)
    /\ UNCHANGED <<keymap, beyond, target>>

\* Something but a tone is shown: the last slot that is filled is cleared.
BackSpace ==
    /\ left = << >>
    /\ \E i \in 0 .. 2 : index[i] # 0
    /\ index' = [index EXCEPT
                   ![CHOOSE i \in 0 .. 3 : index[i] # 0
                        /\ \A j \in i + 1 .. 3 : index[j] = 0] = 0]
    /\ shown' = String(index')
    /\ composed' = NoYin /\ target' = NoYin
    /\ UNCHANGED <<keymap, beyond, left>>

Escape ==
    /\ left = << >>
    /\ \E i \in 0 .. 2 : index[i] # 0
    /\ index' = Empty /\ shown' = << >>
    /\ composed' = NoYin /\ target' = NoYin
    /\ UNCHANGED <<keymap, beyond, left>>

SetKeyMap ==
    /\ left = << >>
    /\ keymap' \in Keymaps
    /\ target' = NoYin
    /\ UNCHANGED <<index, shown, composed, beyond, left>>

Next ==
    \/ TypeAnyKey \/ TypeNextKey \/ BackSpace \/ Escape \/ SetKeyMap
    \/ \E i \in 1 .. num_of_yzt_entries : HasInMind(YinZhiTable[i])

Spec == Init /\ [][Next]_vars

-----------------------------------------------------------------------------
TypeOK ==
    /\ keymap \in Keymaps
    /\ index \in Slots /\ OfTheirKind(index)
    /\ shown \in Seq(ZuYinIndex)
    /\ composed \in Yins \cup {NoYin}
    /\ beyond \in Beyond
    /\ target \in Yins \cup {NoYin}
    /\ left \in Seq(Keys(keymap))

\* Who types the symbols of a syllable gets that syllable, with its last key
\* and not before, whatever the keys of the keymap mean on the way; the
\* syllables of Clashes are those for which this fails, and no others.
TypedIsComposed ==
    target # NoYin =>
        /\ left = << >> => (composed = target <=> target \notin Clashes[keymap])
        /\ left # << >> /\ target \notin Clashes[keymap] => composed = NoYin

\* What goes into the buffer is what was on the screen: the string that
\* bimsQueryLastZuYinString makes of it is the one shown while typing, and
\* its symbols, as tsidump writes them, are read as the same yin by tsiadd.
ReadsBack ==
    composed # NoYin =>
        /\ Shown(IndexOf(composed)) = shown
        /\ ZuYinSymbolSequenceToYin(YinToZuYinSymbolSequence(composed), beyond)
             = composed

=============================================================================
