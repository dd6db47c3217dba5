------------------------------- MODULE MaxMatch ------------------------------
(***************************************************************************)
(* Where a chunk of Chinese text is cut into words (src/tabe_tsi.c): the   *)
(* longest words at either end of what is left, and the best of the        *)
(* combinations of three words.  Text and words are sequences of bytes, a  *)
(* TsiDB is the set of its words, lengths and offsets count bytes.         *)
(***************************************************************************)
EXTENDS ChunkSplit

CONSTANTS
    MaxTsiLen,   \* MAXTSILEN: the longest word the complex method looks up
    CharRef      \* the table of character counts, by packed code

ASSUME MaxTsiLenAssumption == MaxTsiLen \in Nat \ {0, 1}

\* _CharRef is an array of unsigned counts.
ASSUME CharRefAssumption == CharRef \in [0 .. CharRefLen - 1 -> Nat]

\* tsidb->Get of n bytes of the text from offset i.
InDB(words, text, i, n) == Bytes(text, i, i + n) \in words

\* isTsi: single characters are taken for words.
IsTsi(words, text, i, n) == n <= 2 \/ InDB(words, text, i, n)

\* tabeChunkSegmentationSimplex: the lengths of the words that start at offset i.
LengthsFrom(words, text, i) ==
    {n \in 1..(Len(text) - i) : (Len(text) - i - n) % 2 = 0 /\ InDB(words, text, i, n)}

\* Wrong variant: the shortest word looked up has more than one character.
LengthsToNoSingles(words, text, i) ==
    {n \in 3..i : (i - n) % 2 = 0 /\ InDB(words, text, i - n, n)}

\* tabeChunkSegmentationBackward: the lengths of the words that end at offset i.
LengthsTo(words, text, i) ==
    {n \in 2..i : (i - n) % 2 = 0 /\ InDB(words, text, i - n, n)}

-----------------------------------------------------------------------------
(* tabeChunkSegmentationComplex (mmseg). *)

Least(x, y) == IF x < y THEN x ELSE y

\* The lengths of a word at offset i, longest looked up first; a chunk of odd length is cut
\* at odd lengths.
Lengths(words, text, i) ==
    LET longest == Least(2 * MaxTsiLen, Len(text) - i) IN
    {n \in 1..longest : (longest - n) % 2 = 0 /\ IsTsi(words, text, i, n)}

\* Up to three words in a row from offset i; a length is 0 where there is no word.
WordsInARow(words, text, i) ==
    LET At(j) == Lengths(words, text, j) IN
    UNION {{<<n1, 0, 0>>}
           \cup {<<n1, n2, 0>> : n2 \in At(i + n1)}
           \cup UNION {{<<n1, n2, n3>> : n3 \in At(i + n1 + n2)} : n2 \in At(i + n1)} :
             n1 \in At(i)}

\* tabeZhiCodeLookupRefCount
RefCount(text, i) ==
    LET p == PackedBig5(ZhiToZhiCode(text, i)) IN IF p < 0 THEN 0 ELSE CharRef[p]

Gap(x, y) == IF x < y THEN y - x ELSE x - y

\* struct complex_mmseg: a combination and what the four rules look at.  Of combinations of
\* the same span the average length is largest where the words are fewest, and the variance is
\* compared without its divisor.
Mmseg(text, i, w) ==
    [s            |-> w,
     len          |-> w[1] + w[2] + w[3],
     words        |-> Cardinality({k \in 1..3 : w[k] > 0}),
     smallest_var |-> Gap(w[2], w[3]) + Gap(w[1], w[2]) + Gap(w[1], w[3]),
     largest_sum  |-> (IF w[1] = 2 THEN RefCount(text, i) ELSE 0)
                      + (IF w[2] = 2 THEN RefCount(text, i + w[1]) ELSE 0)
                      + (IF w[3] = 2 THEN RefCount(text, i + w[1] + w[2]) ELSE 0)]

Combinations(words, text, i) ==
    {Mmseg(text, i, w) : w \in WordsInARow(words, text, i)}

\* Wrong variant: the average length of the words is not compared.
BetterNoAverage(x, y) ==
    \/ x.len > y.len
    \/ x.len = y.len /\
       \/ x.smallest_var < y.smallest_var
       \/ x.smallest_var = y.smallest_var /\
          \/ x.largest_sum > y.largest_sum
          \/ x.largest_sum = y.largest_sum /\ x.s[1] < y.s[1]

\* Rules 1 to 4; of combinations equal by all of them the one listed first wins, and they are
\* listed with the longest first word first.
Better(x, y) ==
    \/ x.len > y.len
    \/ x.len = y.len /\
       \/ x.words < y.words
       \/ x.words = y.words /\
          \/ x.smallest_var < y.smallest_var
          \/ x.smallest_var = y.smallest_var /\
             \/ x.largest_sum > y.largest_sum
             \/ x.largest_sum = y.largest_sum /\ x.s[1] > y.s[1]

\* The length of the word that is cut at offset i.
FirstWord(words, text, i) ==
    LET comb == Combinations(words, text, i) IN
    (CHOOSE x \in comb : \A y \in comb : ~Better(y, x)).s[1]

\* Wrong variant: the last two characters are not looked up.
ComplexCutsSingles(words, text, i) ==
    LET rest == Len(text) - i
    IN  CASE rest = 2 -> << <<i, 2>> >>
          [] rest = 4 -> << <<i, 2>>, <<i + 2, 2>> >>
          [] OTHER -> << <<i, FirstWord(words, text, i)>> >>

\* The words one turn at offset i cuts, as pairs of offset and length.  The last character,
\* and the last two, are cut without the rules.
ComplexCuts(words, text, i) ==
    LET rest == Len(text) - i
    IN  CASE rest = 2 -> << <<i, 2>> >>
          [] rest = 4 -> IF IsTsi(words, text, i, 4) THEN << <<i, 4>> >>
                         ELSE << <<i, 2>>, <<i + 2, 2>> >>
          [] OTHER -> << <<i, FirstWord(words, text, i)>> >>

\* The text of the cuts, and the offset behind the last of them.
CutWords(text, cuts) ==
    [k \in 1..Len(cuts) |-> Bytes(text, cuts[k][1], cuts[k][1] + cuts[k][2])]
CutEnd(cuts) == Last(cuts)[1] + Last(cuts)[2]

\* All the turns: the words of a chunk of Chinese text.
ComplexWords(words, text) ==
    LET f[i \in Nat] ==
          IF i >= Len(text) THEN <<>>
          ELSE LET cuts == ComplexCuts(words, text, i)
               IN  CutWords(text, cuts) \o f[CutEnd(cuts)]
    IN  f[0]
==============================================================================
