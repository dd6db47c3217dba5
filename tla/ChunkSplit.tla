----------------------------- MODULE ChunkSplit ------------------------------
(***************************************************************************)
(* Cutting a string into chunks (src/tabe_chu.c): runs of packed Big5      *)
(* characters, which the segmentation works on, and whatever lies between  *)
(* them, which is kept as a chunk whose num_tsi is -1.                     *)
(***************************************************************************)
EXTENDS Big5, SequencesExt

\* tabeChunkInfoNew and the chunks tabeChuInfoToChunkInfo builds.
ChunkInfo(s, num) == [chunk |-> s, num_tsi |-> num, tsi |-> <<>>]

\* The bytes of s from offset i up to offset j.
Bytes(s, i, j) == SubSeq(s, i + 1, j)

\* How far the search for the start of a chunk goes on from offset i.
Width(s, i) == IF ZhiIsBig5Code(s, i) THEN 2 ELSE 1

\* tabeChunkGet, first half: the offset of the first packed character.
ChunkStart(s, from) ==
    LET f[i \in Nat] == IF i >= Len(s) \/ IsPacked(s, i)
                          THEN i
                          ELSE f[i + Width(s, i)]
    IN  f[from]

\* Wrong variant: the chunk goes on as long as the characters are Big5 codes.
ChunkEndAnyBig5(s, start) ==
    LET f[i \in Nat] == IF i < Len(s) /\ ZhiIsBig5Code(s, i) THEN f[i + 2] ELSE i
    IN  f[start]

\* tabeChunkGet, second half: the offset of the end of a chunk that starts at i.
ChunkEnd(s, start) ==
    LET f[i \in Nat] == IF i < Len(s) /\ IsPacked(s, i) THEN f[i + 2] ELSE i
    IN  f[start]

(***************************************************************************)
(* One turn of the loop of tabeChuInfoToChunkInfo at offset q: the chunks  *)
(* it adds and the offset it goes on from.  When no packed character is    *)
(* left, the rest of the string is the last chunk and the loop ends.       *)
(***************************************************************************)
NextChunks(s, q) ==
    LET start == ChunkStart(s, q)
        end   == ChunkEnd(s, start)
        other == IF start = q THEN <<>>
                 ELSE <<ChunkInfo(Bytes(s, q, start), -1)>>
    IN  IF start >= Len(s)
          THEN [chunks |-> other, at |-> start, last |-> TRUE]
          ELSE [chunks |-> Append(other, ChunkInfo(Bytes(s, start, end), 0)),
                at |-> end, last |-> FALSE]
==============================================================================
