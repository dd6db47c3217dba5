------------------------------ MODULE SmartEdit ------------------------------
(***************************************************************************)
(* How the input method turns syllables into text: bimsContextSmartEdit,   *)
(* bimsContextDP and bimsVerifyPindown of src/supports/bims/bims.c.        *)
(*                                                                         *)
(* bimsContextDP cuts the buffer into words from left to right.  At each   *)
(* turn of its loop it looks at every way to place up to three dictionary  *)
(* words from yinhead on and takes the first word of the best one; four    *)
(* rules say which is best, and when they leave several, one character is  *)
(* cut off alone.  bimsContextSmartEdit then looks up a phrase for each    *)
(* word.  The user may have pinned characters (pindown) and forbidden      *)
(* words across a position (tsiboundary).                                  *)
(*                                                                         *)
(* An instance of this module is one call.  Offsets count from 0, as they  *)
(* do in the code.  A position that is not pinned holds NoPin.             *)
(***************************************************************************)
EXTENDS Integers, Sequences

CONSTANTS
    Yin,        \* syllables
    Zhi,        \* characters
    NoPin,      \* 0 in pindown
    TsiYin,     \* the TsiYinDBs: from a sequence of syllables to its phrases
    RefCount,   \* the TsiDBs: how often a phrase was used
    ChooseZhi,  \* bimsYinChooseZhi: the character a syllable alone becomes
    Readings,   \* the characters a syllable may be pinned to
    MaxLen,     \* bound on the length of the buffer
    MaxPinned   \* bound on the length of a buffer with pinned characters

\* Every phrase of a TsiYinDB has a character for each syllable of its key,
\* and every one is in a TsiDB.
ASSUME TsiYinAssumption ==
    /\ DOMAIN TsiYin \subseteq Seq(Yin)
    /\ \A w \in DOMAIN TsiYin :
          /\ Len(w) > 0
          /\ TsiYin[w] \in Seq(Seq(Zhi))
          /\ Len(TsiYin[w]) > 0
          /\ \A i \in DOMAIN TsiYin[w] :
                /\ Len(TsiYin[w][i]) = Len(w)
                /\ RefCount[TsiYin[w][i]] \in Nat

ASSUME ChooseZhiAssumption == ChooseZhi \in [Yin -> Zhi]

ASSUME ReadingsAssumption == Readings \in [Yin -> SUBSET Zhi]
ASSUME MaxLenAssumption == MaxLen \in Nat /\ MaxPinned \in Nat
ASSUME NoPinAssumption == NoPin \notin Zhi

VARIABLES
    bc,             \* what the call reads of the context
    yinhead,        \* where the next word starts
    comb,           \* the combinations of words left over from earlier turns
    ysinfo,         \* the words cut so far
    internal_text,  \* the text
    pc

vars == <<bc, yinhead, comb, ysinfo, internal_text, pc>>

yinlen == Len(bc.yin)

\* struct smart_com: words at s1 .. s2, s2 .. s3 and s3 .. s1 + len; the last
\* two may be empty.
Combination == [s1 : Nat, s2 : Nat, s3 : Nat, len : Nat]

Segment == [yinoff : Nat, yinlen : Nat]

\* What a pindown may hold.
Pin == (UNION {Readings[y] : y \in Yin}) \cup {NoPin}

\* The three arrays of the context have one length, yinlen.
Buffer(n) == [yin : [1 .. n -> Yin], pindown : [1 .. n -> Pin],
              tsiboundary : [1 .. n -> BOOLEAN]]

Init ==
    /\ \E n \in 0 .. MaxLen : bc \in Buffer(n)
    /\ \A i \in 1 .. yinlen : 
          bc.pindown[i] \in {NoPin} \cup
              (IF yinlen <= MaxPinned THEN Readings[bc.yin[i]] ELSE {})
    /\ yinhead = 0
    /\ comb = {}
    /\ ysinfo = << >>
    /\ internal_text = << >>
    /\ pc = "cut"

-----------------------------------------------------------------------------
(* Which words may be cut *)

Word(off, n) == SubSeq(bc.yin, off + 1, off + n)

\* bimsVerifyPindown with an index: the phrase has the pinned characters.
Fits(phrase, off) ==
    \A j \in 1 .. Len(phrase) :
        bc.pindown[off + j] # NoPin => phrase[j] = bc.pindown[off + j]

\* A dictionary word with no boundary inside it, and with a phrase that has
\* the pinned characters (bimsVerifyPindown with index -1).
Usable(off, n) ==
    /\ Word(off, n) \in DOMAIN TsiYin
    /\ \A z \in 1 .. (n - 1) : ~ bc.tsiboundary[off + z + 1]
    /\ \E i \in DOMAIN TsiYin[Word(off, n)] : Fits(TsiYin[Word(off, n)][i], off)

\* Up to three words from yinhead on.
Combinations ==
    LET rest == yinlen - yinhead
    IN  {[s1 |-> yinhead, s2 |-> yinhead + n[1], s3 |-> yinhead + n[1] + n[2],
          len |-> n[1] + n[2] + n[3]] :
            n \in {m \in (1 .. rest) \X (0 .. rest) \X (0 .. rest) :
                      /\ m[1] + m[2] + m[3] <= rest
                      /\ m[2] = 0 => m[3] = 0
                      /\ Usable(yinhead, m[1])
                      /\ m[2] > 0 => Usable(yinhead + m[1], m[2])
                      /\ m[3] > 0 => Usable(yinhead + m[1] + m[2], m[3])}}

-----------------------------------------------------------------------------
(* Which combination is best *)

Part(c, i) == CASE i = 1 -> c.s2 - c.s1
                [] i = 2 -> c.s3 - c.s2
                [] i = 3 -> c.s1 + c.len - c.s3

Start(c, i) == CASE i = 1 -> c.s1 [] i = 2 -> c.s2 [] i = 3 -> c.s3

Words(c) == IF Part(c, 2) = 0 THEN 1 ELSE IF Part(c, 3) = 0 THEN 2 ELSE 3

Distance(m, n) == IF m < n THEN n - m ELSE m - n

Variance(c) == Distance(Part(c, 1), Part(c, 2)) + Distance(Part(c, 2), Part(c, 3))
                  + Distance(Part(c, 1), Part(c, 3))

\* The use count of the most used phrase of a word; a single character does
\* not count.
Frequency(off, n) ==
    IF n < 2 \/ Word(off, n) \notin DOMAIN TsiYin THEN 0
    ELSE LET phrases == TsiYin[Word(off, n)]
             most == CHOOSE i \in DOMAIN phrases :
                        \A j \in DOMAIN phrases :
                            RefCount[phrases[j]] <= RefCount[phrases[i]]
         IN  RefCount[phrases[most]]

SumOfFrequencies(c) == Frequency(c.s1, Part(c, 1)) + Frequency(c.s2, Part(c, 2))
                          + Frequency(c.s3, Part(c, 3))

\* Rule 1: the longest.  Rule 2: the longest words on average, that is, among
\* combinations of one length, the fewest words.  Rule 3: the smallest
\* variance.  Rule 4: the most used phrases.
AtLeastAsGood(c, d) ==
    \/ c.len > d.len
    \/ /\ c.len = d.len
       /\ \/ Words(c) < Words(d)
          \/ /\ Words(c) = Words(d)
             /\ \/ Variance(c) < Variance(d)
                \/ /\ Variance(c) = Variance(d)
                   /\ SumOfFrequencies(c) >= SumOfFrequencies(d)

Best(C) == {c \in C : \A d \in C : AtLeastAsGood(c, d)}

-----------------------------------------------------------------------------
(* bimsContextDP *)

\* Wrong variant: the next word starts one syllable on.
CutOne(n) ==
    /\ ysinfo' = Append(ysinfo, [yinoff |-> yinhead, yinlen |-> n])
    /\ yinhead' = yinhead + 1

Cut(n) ==
    /\ ysinfo' = Append(ysinfo, [yinoff |-> yinhead, yinlen |-> n])
    /\ yinhead' = yinhead + n

\* The last character.
CutLastOne ==
    /\ pc = "cut"
    /\ yinlen - yinhead = 1
    /\ Cut(1)
    /\ UNCHANGED <<bc, comb, internal_text, pc>>

\* Wrong variant: the last two characters always make a word.
CutLastTwoUnchecked ==
    /\ pc = "cut"
    /\ yinlen - yinhead = 2
    /\ Cut(2)
    /\ UNCHANGED <<bc, comb, internal_text, pc>>

\* The last two characters, as one word or as two.
CutLastTwo ==
    /\ pc = "cut"
    /\ yinlen - yinhead = 2
    /\ IF Usable(yinhead, 2)
       THEN Cut(2)
       ELSE /\ ysinfo' = ysinfo \o
                  <<[yinoff |-> yinhead, yinlen |-> 1],
                    [yinoff |-> yinhead + 1, yinlen |-> 1]>>
            /\ yinhead' = yinhead + 2
    /\ UNCHANGED <<bc, comb, internal_text, pc>>

\* The first word of the one best combination.
CutWord ==
    /\ pc = "cut"
    /\ yinlen - yinhead > 2
    /\ \E c \in comb \cup Combinations :
          /\ Best(comb \cup Combinations) = {c}
          /\ Cut(c.s2 - c.s1)
    /\ comb' = {}
    /\ UNCHANGED <<bc, internal_text, pc>>

\* Wrong variant: nothing is cut.
CutAmbiguousNothing ==
    /\ pc = "cut"
    /\ yinlen - yinhead > 2
    /\ \A c \in comb \cup Combinations : Best(comb \cup Combinations) # {c}
    /\ comb' = comb \cup Combinations
    /\ UNCHANGED <<bc, yinhead, ysinfo, internal_text, pc>>

\* No combination, or several that are equally good: one character, and the
\* combinations stay for the next turn.
CutAmbiguous ==
    /\ pc = "cut"
    /\ yinlen - yinhead > 2
    /\ \A c \in comb \cup Combinations : Best(comb \cup Combinations) # {c}
    /\ Cut(1)
    /\ comb' = comb \cup Combinations
    /\ UNCHANGED <<bc, internal_text, pc>>

-----------------------------------------------------------------------------
(* bimsContextSmartEdit *)

\* Wrong variant: the pinned characters are not looked at.
PhraseOfIgnoresPins(s) ==
    LET phrases == TsiYin[Word(s.yinoff, s.yinlen)]
    IN  phrases[CHOOSE i \in DOMAIN phrases :
                    \A j \in DOMAIN phrases : RefCount[phrases[j]] <= RefCount[phrases[i]]]

\* The most used phrase that has the pinned characters, the last one of
\* several; the first phrase when there is none.
PhraseOf(s) ==
    LET phrases == TsiYin[Word(s.yinoff, s.yinlen)]
        fitting == {i \in DOMAIN phrases : Fits(phrases[i], s.yinoff)}
    IN  IF fitting = {} THEN phrases[1]
        ELSE phrases[CHOOSE i \in fitting :
                        \A j \in fitting :
                            \/ RefCount[phrases[j]] < RefCount[phrases[i]]
                            \/ RefCount[phrases[j]] = RefCount[phrases[i]] /\ j <= i]

\* Wrong variant: a word of one character shows what pindown holds.
CharOfPinOnly(s, p) ==
    IF s.yinlen > 1 THEN PhraseOf(s)[p - s.yinoff + 1] ELSE bc.pindown[p + 1]

\* The character at offset p of the text, which the segment s covers.
CharOf(s, p) ==
    IF s.yinlen > 1 THEN PhraseOf(s)[p - s.yinoff + 1]
    ELSE IF bc.pindown[p + 1] # NoPin THEN bc.pindown[p + 1]
    ELSE ChooseZhi[bc.yin[p + 1]]

Covers(s, p) == s.yinoff <= p /\ p < s.yinoff + s.yinlen

SegmentAt(p) == CHOOSE k \in DOMAIN ysinfo : Covers(ysinfo[k], p)

Compose ==
    /\ pc = "cut"
    /\ yinhead = yinlen
    /\ internal_text' =
          [i \in 1 .. yinlen |-> CharOf(ysinfo[SegmentAt(i - 1)], i - 1)]
    /\ pc' = "done"
    /\ UNCHANGED <<bc, yinhead, comb, ysinfo>>

-----------------------------------------------------------------------------

Next == CutLastOne \/ CutLastTwo \/ CutWord \/ CutAmbiguous \/ Compose

\* The call runs to its end.
Spec == Init /\ [][Next]_vars /\ WF_vars(Next)

-----------------------------------------------------------------------------
(* Properties *)

\* Every variable has its type.
TypeOK ==
    /\ bc \in Buffer(yinlen)
    /\ yinhead \in Nat
    /\ comb \subseteq Combination
    /\ ysinfo \in Seq(Segment)
    /\ internal_text \in Seq(Zhi)
    /\ pc \in {"cut", "done"}

\* The words cut so far lie end to end from the start of the buffer to
\* yinhead and never past its end, although the combination that decides may
\* have been made for an earlier yinhead: no syllable is dropped or shown
\* twice.
SegmentsTile ==
    /\ yinhead <= yinlen
    /\ \A k \in DOMAIN ysinfo :
          /\ ysinfo[k].yinlen > 0
          /\ ysinfo[k].yinoff =
                IF k = 1 THEN 0 ELSE ysinfo[k - 1].yinoff + ysinfo[k - 1].yinlen
    /\ yinhead = IF ysinfo = << >> THEN 0
                 ELSE ysinfo[Len(ysinfo)].yinoff + ysinfo[Len(ysinfo)].yinlen

\* A word of two characters or more is in the dictionary, has a phrase with
\* the characters the user pinned, and does not reach across a boundary the
\* user set.
WordsUsable ==
    \A k \in DOMAIN ysinfo :
        ysinfo[k].yinlen > 1 => Usable(ysinfo[k].yinoff, ysinfo[k].yinlen)

\* What the user pinned is what the text shows.
PinsShown ==
    pc = "done" =>
        /\ Len(internal_text) = yinlen
        /\ \A i \in 1 .. yinlen :
              bc.pindown[i] # NoPin => internal_text[i] = bc.pindown[i]

\* bimsContextDP and bimsContextSmartEdit return.
Returns == <>(pc = "done")

-----------------------------------------------------------------------------
(* What comments in bims.c say and the code does not do *)

\* "rule 1: largest sum of three-tsi" and the rules after it (bimsContextDP):
\* when they leave one combination of the words at yinhead, its first word is
\* the next one.
RulesDecide ==
    [][\A c \in Combinations :
          yinlen - yinhead > 2 /\ Best(Combinations) = {c} =>
              yinhead' \in {yinhead, c.s2}]_vars
=============================================================================
