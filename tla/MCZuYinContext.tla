--------------------------- MODULE MCZuYinContext ---------------------------
(* The ZuYin context with the table of syllables of the library.           *)
EXTENDS ZuYinContext, YinTable

\* SubSeq has TLC compute the sequence once and for all.
MCYinZhiTable == SubSeq(YinZhiEntries, 1, Len(YinZhiEntries))

\* The syllable of s, yu and the second tone, which the table does not have,
\* and a value no keys make.
MCBeyond == {11138, 65535}

\* 512 * i is the initial i alone, which the table lists as the symbol.
\* Below 512 are finals alone: 32, 36 eh; 48 ei; 66 ou2; 74 an2; 91 ang3;
\* 96 eng.  36xx: nou2, nou4, nen4.  10757: s with the neutral tone.
MCClashes ==
    [k \in Keymaps |->
       CASE k = "ETEN26" -> {32, 36, 48, 66, 74, 91, 96, 3650, 3652, 3668, 10757}
                              \cup {512 * i : i \in {2, 3, 6, 7, 11, 12, 13, 14}}
         [] k = "HSU" -> {32, 36, 48, 96} \cup {512 * i : i \in {3} \cup 7 .. 14}
         [] OTHER -> {}]
=============================================================================
