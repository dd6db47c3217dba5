------------------------------ MODULE TsiTools -------------------------------
(***************************************************************************)
(* The utilities that make and maintain the databases (util/): tsiadd      *)
(* reads a word list into a TsiDB, tsiyindump lists its words by their     *)
(* syllables in a TsiYinDB, tsidump writes a word list, tsidel deletes     *)
(* words, tsiguess counts words it takes for new ones, tsiyincheck         *)
(* compares the syllables of words with those of their characters.  They   *)
(* are run one after the other, as tsi-src/Makefile.in runs the first two. *)
(***************************************************************************)
EXTENDS TsiReadings

CONSTANTS
    Lines,      \* the lines of the word list, [tsi, refcount, yin]: yin is the third field,
                \* for every syllable the alternatives between brackets, <<0>> when invalid
    Guesses,    \* runs of single characters tsiguess meets
    MaxEdits    \* bound on changes other than adding the lines, for model checking

\* One line for each word, of at most the 10 characters sscanf reads, with a count that is 0
\* in the list without -r.
ASSUME OneLinePerWord ==
    \A l, m \in Lines : Len(l.tsi) \in {2 * n : n \in 1..10} /\ (l.tsi = m.tsi => l = m)

\* A word is bytes of a C string, a syllable an unsigned number.
ASSUME LinesAssumption ==
    \A l \in Lines : l.tsi \in Seq(1..255) /\ l.yin \in Seq(Seq(Nat))

\* tsiguess counts runs of two characters or more.  One of more than ten is read back as its
\* first ten; such runs are not modelled.
ASSUME GuessesAssumption ==
    \A w \in Guesses : w \in Seq(1..255) /\ Len(w) \in {2 * n : n \in 2..10}

VARIABLES
    left,      \* the lines not yet added
    tsi_db,    \* tsi.db
    yin_db,    \* yin.db
    edits,     \* how often tsi.db was changed by other means than adding the lines
    fresh      \* yin.db was made from nothing, and tsi.db has not changed since

toolsVars == <<left, tsi_db, yin_db, edits, fresh>>

ToolsInit == /\ left = Lines
             /\ tsi_db = NoRecords
             /\ yin_db = NoRecords
             /\ edits = 0
             /\ fresh = FALSE

-----------------------------------------------------------------------------
(* tsiadd *)

\* tsiyin_expand: the field is written out once for every choice among the alternatives, the
\* last syllable changing fastest, and the copies follow one another.
Expand(field) ==
    LET from[k \in 1..(Len(field) + 1)] ==
          IF k > Len(field) THEN << <<>> >>
          ELSE FlattenSeq([a \in 1..Len(field[k]) |->
                 [r \in 1..Len(from[k + 1]) |-> <<field[k][a]>> \o from[k + 1][r]]])
    IN  IF field = <<>> THEN <<>> ELSE FlattenSeq(from[1])

\* As many readings as the syllables fill; what is left over is dropped.
Cut(syllables, len) ==
    [m \in 1..(Len(syllables) \div len) |-> SubSeq(syllables, (m - 1) * len + 1, m * len)]

\* Wrong variant: of several possible readings the word gets the first.
OnlyYinFirst(db, w) ==
    IF Len(PossibleTsiYins(db, w)) > 1 THEN <<PossibleTsiYins(db, w)[1]>>
    ELSE PossibleTsiYins(db, w)

\* The readings a word without syllables gets: the possible one if there is exactly one.
OnlyYin(db, w) ==
    IF Len(PossibleTsiYins(db, w)) > 1 THEN <<>> ELSE PossibleTsiYins(db, w)

\* A turn of archive: the line takes the place of the record its word may have, for the handle
\* is made an overwriting one around the Put.
Archive(db, l) ==
    LET syllables == Expand(l.yin)
        yins == IF syllables = <<>> THEN OnlyYin(db, l.tsi)
                ELSE Cut(syllables, Len(l.tsi) \div 2)
    IN  Put({"CREATEDB", "NOSYNC", "OVERWRITE"}, db, l.tsi, TsiInfo(l.refcount, yins))

Tsiadd(l) ==
    /\ left' = left \ {l}
    /\ tsi_db' = Archive(tsi_db, l)
    /\ fresh' = FALSE
    /\ UNCHANGED <<yin_db, edits>>

\* Without -r a line is a word and nothing else, and its count is 0.
TsiaddWord(w) ==
    /\ tsi_db' = Archive(tsi_db, [tsi |-> w, refcount |-> 0, yin |-> <<>>])
    /\ edits < MaxEdits /\ edits' = edits + 1
    /\ fresh' = FALSE
    /\ UNCHANGED <<left, yin_db>>

-----------------------------------------------------------------------------
(* tsidel, tsiguess *)

\* A word that Get finds is deleted; nothing is done to the TsiYinDB.
Tsidel(w) ==
    /\ tsi_db' = [v \in DOMAIN tsi_db \ {w} |-> tsi_db[v]]
    /\ edits < MaxEdits /\ edits' = edits + 1
    /\ fresh' = FALSE
    /\ UNCHANGED <<left, yin_db>>

\* tabe_guess_newtsi of util/tsiguess.c, which opens its TsiDB to overwrite: a run of single
\* characters is counted, and stored without a reading when it is new.
Tsiguess(w) ==
    LET old == Get(tsi_db, w, NewTsi) IN
    /\ tsi_db' = Put({"CREATEDB", "OVERWRITE"}, tsi_db, w, TsiInfo(old.refcount + 1, old.yins))
    /\ edits < MaxEdits /\ edits' = edits + 1
    /\ fresh' = FALSE
    /\ UNCHANGED <<left, yin_db>>

-----------------------------------------------------------------------------
(* tsiyindump *)

\* Wrong variant: the entry takes the place of the words its reading has.
AddEntryAnew(ydb, e) ==
    Put({"CREATEDB", "OVERWRITE", "NOSYNC"}, ydb, e.yin, <<e.tsi>>)

\* One entry goes behind the words its reading has.
AddEntry(ydb, e) ==
    Put({"CREATEDB", "OVERWRITE", "NOSYNC"}, ydb, e.yin, Append(WordsUnder(ydb, e.yin), e.tsi))

\* The whole walk, into the TsiYinDB there is.
YinDump(db, ydb) == FoldLeft(AddEntry, ydb, Entries(db))

\* The Makefile removes yin.db first.
Tsiyindump ==
    /\ yin_db' = YinDump(tsi_db, NoRecords)
    /\ fresh' = TRUE
    /\ UNCHANGED <<left, tsi_db, edits>>

\* A second walk into a TsiYinDB, counted as a change to bound its length.
DumpAgain ==
    /\ edits < MaxEdits /\ edits' = edits + 1
    /\ yin_db /= NoRecords
    /\ yin_db' = YinDump(tsi_db, yin_db)
    /\ fresh' = FALSE
    /\ UNCHANGED <<left, tsi_db>>

ToolsNext == \/ \E l \in left : Tsiadd(l)
             \/ \E l \in Lines \ left : TsiaddWord(l.tsi)
             \/ \E w \in DOMAIN tsi_db : Tsidel(w)
             \/ \E w \in Guesses : Tsiguess(w)
             \/ Tsiyindump
             \/ DumpAgain

ToolsSpec == ToolsInit /\ [][ToolsNext]_toolsVars

-----------------------------------------------------------------------------
(* tsidump and tsiyincheck, which change nothing *)

\* Syllables as fields of a line.  An invalid one prints as nothing between two blanks, and
\* blanks in a row are one to tsiadd.
Printed(syllables) ==
    FlattenSeq([n \in 1..Len(syllables) |->
                  IF syllables[n] = 0 THEN <<>> ELSE << <<syllables[n]>> >>])

\* Wrong variant: only the first reading is printed.
TsidumpFirst(db) ==
    [k \in 1..Cardinality(DOMAIN db) |->
       LET w == Walk(db)[k] IN
       [tsi |-> w, refcount |-> db[w].refcount,
        yin |-> IF db[w].yins = <<>> THEN <<>> ELSE Printed(db[w].yins[1])]]

\* The lines of tsidump -r -y for a TsiDB that has records (for one that has none it prints a
\* line that is no word).
Tsidump(db) ==
    [k \in 1..Cardinality(DOMAIN db) |->
       LET w == Walk(db)[k] IN
       [tsi |-> w, refcount |-> db[w].refcount, yin |-> Printed(FlattenSeq(db[w].yins))]]

\* check_consistency: the words with a syllable that is none of its character's.
Inconsistent(db) ==
    {w \in DOMAIN db : \E m \in 1..Len(db[w].yins) : \E k \in 1..(Len(w) \div 2) :
        LET yin == db[w].yins[m][k] IN
        yin = 0 \/ <<yin>> \notin Range(ZhiYin(db, Zhis(w)[k]))}

-----------------------------------------------------------------------------
(* Properties *)

Times(e, seq) == Cardinality({k \in 1..Len(seq) : seq[k] = e})

\* A TsiYinDB made from nothing is the TsiDB turned round: a reading lists a word as often as
\* the word has the reading, and nothing else, whatever was added, deleted, counted or listed
\* before (dump, util/tsiyindump.c:34).
ListingExact ==
    fresh /\ tsi_db /= NoRecords =>
      /\ DOMAIN yin_db = UNION {Range(Readings(tsi_db, w)) : w \in DOMAIN tsi_db}
      /\ \A y \in DOMAIN yin_db :
           /\ Range(yin_db[y]) \subseteq DOMAIN tsi_db
           /\ \A w \in DOMAIN tsi_db : Times(w, yin_db[y]) = Times(y, Readings(tsi_db, w))

\* What the lines say of a word's readings, with the characters' lines looked up in the whole
\* list instead of in what was added before.
LineOf(w) == CHOOSE l \in Lines : l.tsi = w
GivenYins(w) == Cut(Expand(LineOf(w).yin), Len(w) \div 2)
FiledYins(w) ==
    IF LineOf(w).yin /= <<>> THEN GivenYins(w)
    ELSE LET filed == [v \in {l.tsi : l \in Lines} |-> TsiInfo(0, GivenYins(v))]
         IN  PossibleTsiYins(filed, w)

\* A line with syllables has as many as its word has characters, or more, and no invalid one
\* for a character.
LinesComplete ==
    \A l \in Lines : l.yin /= <<>> =>
      /\ Len(Expand(l.yin)) >= Len(l.tsi) \div 2
      /\ Len(l.tsi) = 2 => 0 \notin Range(Expand(l.yin))

\* The order of the lines does not matter to what a word is found under: a word without
\* syllables that is added before its characters, between them or after them is listed under
\* the same readings, and tsiyincheck has nothing to say of it (archive, util/tsiadd.c:270).
OrderOfLinesIrrelevant ==
    LinesComplete /\ left = {} /\ edits = 0 =>
      \A l \in Lines :
        /\ Range(Readings(tsi_db, l.tsi)) = Range(FiledYins(l.tsi))
        /\ l.yin = <<>> => l.tsi \notin Inconsistent(tsi_db)

\* A word list written by tsidump -r -y and read back by tsiadd -r -y into a new TsiDB gives
\* every word its count and, unless one of its syllables was invalid, its readings; a word
\* that had none may get the only possible one (util/tsidump.c:37, util/tsiadd.c:270).
RoundTrip ==
    tsi_db /= NoRecords =>
    LET again == FoldLeft(Archive, NoRecords, Tsidump(tsi_db)) IN
    /\ DOMAIN again = DOMAIN tsi_db
    /\ \A w \in DOMAIN tsi_db :
         /\ again[w].refcount = tsi_db[w].refcount
         /\ 0 \notin Range(FlattenSeq(tsi_db[w].yins)) =>
              again[w].yins = tsi_db[w].yins \/ (tsi_db[w].yins = <<>> /\ Len(again[w].yins) = 1)
==============================================================================
