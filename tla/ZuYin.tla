-------------------------------- MODULE ZuYin --------------------------------
(***************************************************************************)
(* ZuYin symbols and syllables: src/tabe_zuyin.c, src/tabe_yin.c and       *)
(* bimsZuYinContextCheck of src/supports/bims/bims.c.                      *)
(*                                                                         *)
(* A symbol is its index: 1..21 initials, 22..24 medials, 25..37 finals,   *)
(* 38..42 tones (38 is the unmarked first tone); 0 is no symbol.  A string *)
(* of symbols is a sequence of indices.  A yin packs one symbol of each    *)
(* kind in 14 bits: initial << 9, medial << 7, final << 3, tone.           *)
(***************************************************************************)
EXTENDS Integers, Sequences

CONSTANTS
    YinZhiTable,  \* the field yin of the entries of _YinZhiTable
    NoEntry       \* tabeYinToYinZhi returned NULL

num_of_yzt_entries == Len(YinZhiTable)

Yins == 0 .. 16383   \* 14 bits

ASSUME TableAssumption ==
    /\ YinZhiTable \in Seq(Yins) /\ YinZhiTable # << >>
    /\ \A i \in 1 .. num_of_yzt_entries - 1 : YinZhiTable[i] < YinZhiTable[i + 1]
ASSUME NoEntryAssumption == NoEntry \notin Int

Initials == 1 .. 21
Medials == 22 .. 24
Finals == 25 .. 37
Tones == 38 .. 42
ZuYinIndex == 1 .. 42

\* ZuYinContext.index, the symbols typed so far by kind.
Slots == [0 .. 3 -> {0} \cup ZuYinIndex]
Empty == [i \in 0 .. 3 |-> 0]

\* Each slot holds a symbol of its own kind.
Kind == [i \in 0 .. 3 |-> CASE i = 0 -> Initials
                            [] i = 1 -> Medials
                            [] i = 2 -> Finals
                            [] i = 3 -> Tones]
OfTheirKind(index) == \A i \in 0 .. 3 : index[i] \in {0} \cup Kind[i]

\* The field of a yin that holds symbol s of a kind that begins at first.
Field(s, first) == IF s = 0 THEN 0 ELSE s - first + 1

\* Wrong variant: the tones are counted from the second one.
ToneFieldFromSecond(s) == IF s > 38 THEN s - 38 ELSE 0

\* A tone has the field s - 37, and the first tone has none.
ToneField(s) == IF s > 38 THEN s - 37 ELSE 0

YinOf(index) ==
    512 * index[0] + 128 * Field(index[1], 22) + 8 * Field(index[2], 25)
        + ToneField(index[3])

\* The fields of a yin, from the initial to the tone.
Fields(yin) ==
    [i \in 0 .. 3 |-> CASE i = 0 -> yin \div 512
                        [] i = 1 -> (yin \div 128) % 4
                        [] i = 2 -> (yin \div 8) % 16
                        [] i = 3 -> yin % 8]

\* The symbols that bimsQueryLastZuYinString shows for a yin: a syllable
\* without a tone field has the first tone.
IndexOf(yin) ==
    LET f == Fields(yin)
    IN  [i \in 0 .. 3 |-> CASE i = 0 -> f[0]
                            [] i = 1 -> IF f[1] = 0 THEN 0 ELSE f[1] + 21
                            [] i = 2 -> IF f[2] = 0 THEN 0 ELSE f[2] + 24
                            [] i = 3 -> IF f[3] = 0 THEN 38 ELSE f[3] + 37]

\* A syllable has symbols of each kind, one at most, and more than a tone.
ASSUME SyllablesAssumption ==
    \A i \in 1 .. num_of_yzt_entries :
        /\ OfTheirKind(IndexOf(YinZhiTable[i]))
        /\ YinZhiTable[i] > 7

\* The string of the slots that are filled.
Symbol(s) == IF s = 0 THEN << >> ELSE <<s>>
Shown(index) ==
    Symbol(index[0]) \o Symbol(index[1]) \o Symbol(index[2]) \o Symbol(index[3])

\* tabeYinToZuYinSymbolSequence shows nothing for the first tone.
YinToZuYinSymbolSequence(yin) ==
    Shown([IndexOf(yin) EXCEPT ![3] = IF Fields(yin)[3] = 0 THEN 0 ELSE @])

-----------------------------------------------------------------------------
(***************************************************************************)
(* tabeYinToYinZhi.  Entries count from 0.  The position can become        *)
(* num_of_yzt_entries, since only a larger one is brought back: the entry  *)
(* behind the last one is then memory that is not the table's, and holds   *)
(* the yin beyond.                                                         *)
(***************************************************************************)
Entry(i, beyond) ==
    IF i < num_of_yzt_entries THEN YinZhiTable[i + 1] ELSE beyond

\* 1 << t.
OneShifted[t \in Nat] == IF t = 0 THEN 1 ELSE 2 * OneShifted[t - 1]

Threshold ==
    CHOOSE t \in 0 .. num_of_yzt_entries :
        /\ OneShifted[t] >= num_of_yzt_entries
        /\ \A u \in 0 .. t - 1 : OneShifted[u] < num_of_yzt_entries

NextStep(step) == IF (step + 1) \div 2 > 0 THEN (step + 1) \div 2 ELSE 1

\* Where the loop looks next when the entry at index is not the one wanted.
NextIndex(index, step, yin, beyond) ==
    IF yin > Entry(index, beyond)
      THEN IF index + step > num_of_yzt_entries
             THEN num_of_yzt_entries - 1 ELSE index + step
      ELSE IF index - step < 0 THEN 0 ELSE index - step

\* A turn of the loop: it goes on from where it is, or stops.
Position == [index : Nat, step : Nat]
Turn(p, yin, beyond) ==
    IF Entry(p.index, beyond) = yin THEN p
    ELSE [index |-> NextIndex(p.index, p.step, yin, beyond), step |-> NextStep(p.step)]

\* The positions of the search for yin, one for each number of turns.
Search(yin, beyond) ==
    LET at[turns \in Nat] ==
            IF turns = 0
              THEN LET middle == num_of_yzt_entries \div 2
                   IN  [index |-> middle, step |-> (middle + 1) \div 2]
              ELSE Turn(at[turns - 1], yin, beyond)
    IN  at

\* Where it ends, after at most Threshold + 1 moves.
SearchEnd(yin, beyond) == Search(yin, beyond)[Threshold + 1].index

YinToYinZhi(yin, beyond) ==
    LET index == SearchEnd(yin, beyond)
    IN  IF Entry(index, beyond) = yin THEN index ELSE NoEntry

\* The yin of a string that has at most one symbol of each kind, or 0 when
\* the table has no such syllable; the first tone adds nothing.
ZuYinSymbolSequenceToYin(str, beyond) ==
    LET inspected == {str[k] : k \in DOMAIN str \cap 1 .. 4}
        yin == YinOf([i \in 0 .. 3 |->
                        IF inspected \cap Kind[i] = {} THEN 0
                        ELSE CHOOSE s \in inspected \cap Kind[i] : TRUE])
    IN  IF YinToYinZhi(yin, beyond) = NoEntry THEN 0 ELSE yin

=============================================================================
