---------------------------- MODULE Segmentation -----------------------------
(***************************************************************************)
(* A line of text is cut into chunks, and every chunk into words           *)
(* (src/tabe_chu.c, src/tabe_tsi.c, driven as src/examples/testtabe.c      *)
(* drives them): the three segmentations look words up in a TsiDB, one     *)
(* turn of their outer loop at a time.                                     *)
(*                                                                         *)
(* The loops go wrong in two ways that the model keeps: a turn that finds  *)
(* no word leaves the backward loop where it was, and a chunk that is not  *)
(* Chinese has num_tsi = -1, so that the first word is written in front of *)
(* the array.  After a write outside a buffer nothing is known any more    *)
(* (fault).                                                                *)
(***************************************************************************)
EXTENDS MaxMatch

CONSTANTS
    Lines,       \* the strings to segment, as sequences of bytes
    Dictionaries \* sets of words a TsiDB may hold

\* No byte of a C string is its closing NUL.
ASSUME LinesAssumption == Lines \subseteq Seq(1 .. 255)

Methods == {"simplex", "complex", "backward"}

VARIABLES
    method,   \* which of the three segmentations the caller uses
    words,    \* what the TsiDB holds
    line,     \* chu->chu
    q,        \* where the next chunk is looked for
    chunks,   \* chu->chunk
    split,    \* tabeChuInfoToChunkInfo is still at work
    c,        \* the chunk being segmented
    done,     \* how much of it is segmented, in bytes
    fault     \* memory outside a buffer was written

vars == <<method, words, line, q, chunks, split, c, done, fault>>

\* The words of the TsiDB are not changed by anything here.
unchangedInput == UNCHANGED <<method, words, line>>

Init == /\ method \in Methods
        /\ words \in Dictionaries
        /\ line \in Lines
        /\ q = 0
        /\ chunks = <<>>
        /\ split = TRUE
        /\ c = 1
        /\ done = 0
        /\ fault = FALSE

-----------------------------------------------------------------------------
(* The chunks. *)

\* One turn of tabeChuInfoToChunkInfo.
SplitLine ==
    /\ split
    /\ LET next == NextChunks(line, q) IN
       /\ chunks' = chunks \o next.chunks
       /\ q' = next.at
       /\ split' = ~next.last
    /\ unchangedInput /\ UNCHANGED <<c, done, fault>>

-----------------------------------------------------------------------------
(* What the three segmentations share. *)

Chunk == chunks[c]
Size  == Len(Chunk.chunk)

Segmenting == ~split /\ c <= Len(chunks) /\ ~fault

\* The words at the given offsets, with their lengths, go behind the array of the chunk, which
\* has room for them only if its count is not negative.
AddWords(cuts) ==
    /\ fault' = (Chunk.num_tsi < 0)
    /\ IF Chunk.num_tsi < 0
         THEN UNCHANGED chunks
         ELSE chunks' = [chunks EXCEPT
                ![c].num_tsi = @ + Len(cuts),
                ![c].tsi = @ \o CutWords(Chunk.chunk, cuts)]

\* The caller goes on to the next chunk.
NextChunk == c' = c + 1 /\ done' = 0

-----------------------------------------------------------------------------
(* The longest word first. *)

\* A turn of tabeChunkSegmentationSimplex.  When not even one character is a word the length
\* goes on below zero, and strncpy copies without an end.
SimplexTurn ==
    /\ Segmenting /\ method = "simplex" /\ done <= Size - 2
    /\ LET lengths == LengthsFrom(words, Chunk.chunk, done)
       IN  IF lengths = {}
             THEN fault' = TRUE /\ UNCHANGED <<chunks, done>>
             ELSE AddWords(<< <<done, Max(lengths)>> >>) /\ done' = done + Max(lengths)
    /\ unchangedInput /\ UNCHANGED <<q, split, c>>

SimplexEnd ==
    /\ Segmenting /\ method = "simplex" /\ done > Size - 2
    /\ NextChunk
    /\ unchangedInput /\ UNCHANGED <<q, chunks, split, fault>>

-----------------------------------------------------------------------------
(* The longest word last. *)

\* A turn of tabeChunkSegmentationBackward; done counts from the end.  When no word ends here
\* nothing changes, and the next turn is the same.
BackwardTurn ==
    /\ Segmenting /\ method = "backward" /\ done < Size
    /\ LET tail    == Size - done
           lengths == LengthsTo(words, Chunk.chunk, tail)
       IN  IF lengths = {}
             THEN UNCHANGED <<chunks, done, fault>>
             ELSE /\ AddWords(<< <<tail - Max(lengths), Max(lengths)>> >>)
                  /\ done' = done + Max(lengths)
    /\ unchangedInput /\ UNCHANGED <<q, split, c>>

\* Wrong variant: the words stay in the order they were found in.
BackwardEndUnturned ==
    /\ Segmenting /\ method = "backward" /\ done >= Size
    /\ NextChunk
    /\ unchangedInput /\ UNCHANGED <<q, chunks, split, fault>>

\* The words were found from the last to the first.
BackwardEnd ==
    /\ Segmenting /\ method = "backward" /\ done >= Size
    /\ chunks' = [chunks EXCEPT ![c].tsi = Reverse(@)]
    /\ NextChunk
    /\ unchangedInput /\ UNCHANGED <<q, split, fault>>

-----------------------------------------------------------------------------
(* The best three words. *)

\* A turn of tabeChunkSegmentationComplex.
ComplexTurn ==
    /\ Segmenting /\ method = "complex" /\ done < Size
    /\ LET cuts == ComplexCuts(words, Chunk.chunk, done)
       IN  AddWords(cuts) /\ done' = CutEnd(cuts)
    /\ unchangedInput /\ UNCHANGED <<q, split, c>>

ComplexEnd ==
    /\ Segmenting /\ method = "complex" /\ done >= Size
    /\ NextChunk
    /\ unchangedInput /\ UNCHANGED <<q, chunks, split, fault>>

Next == \/ SplitLine
        \/ SimplexTurn \/ SimplexEnd
        \/ BackwardTurn \/ BackwardEnd
        \/ ComplexTurn \/ ComplexEnd

\* The program is a single thread that does nothing else: while a step can be taken, it is.
Spec == Init /\ [][Next]_vars /\ WF_vars(Next)

-----------------------------------------------------------------------------
(* Properties *)

Texts(seq) == [k \in 1..Len(seq) |-> seq[k].chunk]

\* The chunks are the line, in order and whole: up to where the split has come they
\* concatenate to it, every second one is Chinese, a Chinese one holds packed characters only,
\* and no other one holds a packed character where the scan looks for one
\* (tabeChuInfoToChunkInfo, tabe_chu.c:124).
ChunksAreTheLine ==
    /\ FlattenSeq(Texts(chunks)) = Bytes(line, 0, q)
    /\ \A k \in 1..Len(chunks) :
         LET text == chunks[k].chunk IN
         /\ text /= <<>>
         /\ k > 1 => (chunks[k - 1].num_tsi < 0) /= (chunks[k].num_tsi < 0)
         /\ IF chunks[k].num_tsi < 0
              THEN ChunkStart(text, 0) = Len(text)
              ELSE /\ Len(text) % 2 = 0
                   /\ \A i \in 0..(Len(text) - 1) : i % 2 = 0 => IsPacked(text, i)

\* The words of the chunk being segmented, in the order of the text.
InOrder(k) ==
    IF k = c /\ method = "backward" THEN Reverse(chunks[k].tsi) ELSE chunks[k].tsi

\* The words are the chunk: what is segmented so far is the concatenation of the words found,
\* from the head or, for the backward method, up to the tail, num_tsi counts them, and a word
\* of more than one character is a word of the TsiDB (tabe_tsi.c:116, :208, :549).
WordsTileChunk ==
    \A k \in 1..Len(chunks) :
      LET text == chunks[k].chunk
          size == Len(text)
          tsi  == FlattenSeq(InOrder(k))
      IN  chunks[k].num_tsi >= 0 /\ ~fault =>
            /\ tsi = CASE k > c -> <<>>
                       [] k < c -> text
                       [] k = c /\ method = "backward" -> Bytes(text, size - done, size)
                       [] OTHER -> Bytes(text, 0, done)
            /\ chunks[k].num_tsi = Len(chunks[k].tsi)
            /\ \A w \in Range(chunks[k].tsi) :
                 Len(w) > 0 /\ (Len(w) > 2 \/ method /= "complex" => w \in words)

\* A chunk that is itself a word of the TsiDB comes out in one piece, whatever shorter words it
\* is made of; the complex method promises it up to MAXTSILEN characters, and never finds a
\* longer word unless it is the last of two characters.
LongestWordKept ==
    \A k \in 1..(c - 1) :
      LET text == chunks[k].chunk IN
      chunks[k].num_tsi >= 0 =>
        /\ text \in words /\ (method = "complex" => Len(text) <= 2 * MaxTsiLen)
             => chunks[k].tsi = <<text>>
        /\ method = "complex" => \A w \in Range(chunks[k].tsi) : Len(w) <= 2 * MaxTsiLen

\* A line every chunk of which the method can cope with: Chinese, and for the methods that have
\* no way out of an unknown character, made of words of one character.
Tractable ==
    /\ \A k \in 1..Len(chunks) : chunks[k].num_tsi >= 0
    /\ method /= "complex" =>
         \A k \in 1..Len(chunks) : \A i \in 0..(Len(chunks[k].chunk) - 1) :
           i % 2 = 0 => Bytes(chunks[k].chunk, i, i + 2) \in words

\* Such a line is segmented to its end, without a write outside a buffer.
Segmented == ~split /\ c > Len(chunks) /\ ~fault
LineSegmented == (~split /\ Tractable) ~> Segmented
==============================================================================
