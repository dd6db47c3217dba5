----------------------------- MODULE TsiReadings -----------------------------
(***************************************************************************)
(* From the words of a TsiDB to the entries of a TsiYinDB: the walk that   *)
(* bimsTsiyinDump (src/supports/bims/bims.c) and tsiyindump                *)
(* (util/tsiyindump.c) have in common.  A word is a sequence of bytes, two *)
(* for a character; a reading is a sequence of syllables, one for each.    *)
(***************************************************************************)
EXTENDS RecordStore

\* The characters of a word.
Zhis(w) == [k \in 1..(Len(w) \div 2) |-> SubSeq(w, 2 * k - 1, 2 * k)]

\* tabeTsiInfoLookupZhiYin: the readings of a character, none if it is not in the TsiDB.
ZhiYin(db, z) == Get(db, z, NewTsi).yins

(***************************************************************************)
(* tabeTsiInfoLookupPossibleTsiYin: all combinations of the readings of    *)
(* the characters, those of the first character changing fastest.  One     *)
(* character without a reading leaves none; the empty word has one empty   *)
(* reading.                                                                *)
(***************************************************************************)
PossibleTsiYins(db, w) ==
    LET z == Zhis(w)
        from[k \in 1..(Len(z) + 1)] ==
          IF k > Len(z) THEN << <<>> >>
          ELSE FlattenSeq([r \in 1..Len(from[k + 1]) |->
                 [a \in 1..Len(ZhiYin(db, z[k])) |-> ZhiYin(db, z[k])[a] \o from[k + 1][r]]])
    IN  from[1]

\* The readings a word is listed under: its own, or the possible ones if it has none.
Readings(db, w) ==
    IF db[w].yins = <<>> THEN PossibleTsiYins(db, w) ELSE db[w].yins

\* Wrong variant: the walk goes on from the first word before it is listed.
EntriesButFirst(db) ==
    IF db = NoRecords THEN << [tsi |-> <<>>, yin |-> <<>>] >>
    ELSE FlattenSeq([k \in 1..(Cardinality(DOMAIN db) - 1) |->
           LET w == Walk(db)[k + 1] IN
           [j \in 1..Len(Readings(db, w)) |-> [tsi |-> w, yin |-> Readings(db, w)[j]]]])

\* The words of a TsiDB with each of their readings, in the order of the walk.  CursorSet
\* fails on an empty TsiDB, nobody looks, and the word is the empty one.
Entries(db) ==
    IF db = NoRecords THEN << [tsi |-> <<>>, yin |-> <<>>] >>
    ELSE FlattenSeq([k \in 1..Cardinality(DOMAIN db) |->
           LET w == Walk(db)[k] IN
           [j \in 1..Len(Readings(db, w)) |-> [tsi |-> w, yin |-> Readings(db, w)[j]]]])
==============================================================================
