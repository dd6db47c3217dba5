----------------------------- MODULE UserLexicon -----------------------------
(***************************************************************************)
(* The words libbims learns from its user (src/supports/bims/bims.c).      *)
(* Text fetched from a context is segmented with the primary TsiDB; a run  *)
(* of characters that stayed single is taken for a new word and stored in  *)
(* the user's TsiDB (bimsTsiGuess); the application can add one by hand    *)
(* (bimsUserTsiEval).  The user's TsiYinDB, by which words are found when  *)
(* syllables are typed, is brought up to date by walking over the whole    *)
(* TsiDB (bimsTsiyinDump), and only when a word was new.                   *)
(*                                                                         *)
(* Every Put is synced and may fail; the process may end at any moment,    *)
(* and some texts end it.  One process uses the user's databases.          *)
(***************************************************************************)
EXTENDS MaxMatch, TsiReadings

CONSTANTS
    Texts,            \* what bimsFetchText returns: strings of packed characters
    PrimaryReadings,  \* the primary TsiDB: for every word its readings, each a sequence
                      \* of syllables
    PrepList,         \* the characters isprep knows
    Evals,            \* words with a reading the user adds, as [tsi, yin]
    MaxRefCnt         \* MAX_REFCNT

\* No byte of a C string is its closing NUL.
ASSUME TextsAssumption == Texts \subseteq Seq(1..255)

\* str[80] of bimsTsiyinDump holds a word of at most 39 characters.
ASSUME ShortTexts == \A t \in Texts : Len(t) < 80

ASSUME ChineseTexts ==
    \A t \in Texts : t /= <<>> => NextChunks(t, 0).chunks = <<ChunkInfo(t, 0)>>

\* A record of a TsiDB holds, for every reading, as many syllables as its word has characters:
\* it is packed and unpacked with yinnum * strlen(tsi)/2 of them (tabe_tsidbint.c:353, :383).
ASSUME ReadingsAssumption ==
    \A w \in DOMAIN PrimaryReadings :
      /\ w \in Seq(1..255) /\ PrimaryReadings[w] \in Seq(Seq(Nat))
      /\ \A y \in Range(PrimaryReadings[w]) : Len(w) = 2 * Len(y)

\* No word is longer than the longest that is looked up: MAXTSILEN is 10 (tabe_tsi.c:214), and
\* tsiadd reads no more than 20 bytes of a counted word (tsiadd.c:310).
ASSUME WordsAssumption == \A w \in DOMAIN PrimaryReadings : Len(w) <= 2 * MaxTsiLen

\* bimsUserTsiEval takes the length of both from the TsiYinInfo.
ASSUME EvalsAssumption ==
    \A e \in Evals : e.tsi \in Seq(1..255) /\ e.yin \in Seq(Nat) /\ Len(e.tsi) = 2 * Len(e.yin)

ASSUME MaxRefCntAssumption == MaxRefCnt \in Nat \ {0}

VARIABLES
    pc,       \* "idle", "guess" while a text is worked on, "down" when the process ended
    words,    \* the words of the text not yet looked at
    buf,      \* the run of single characters before them
    tsidb,    \* the user's TsiDB
    yindb,    \* the user's TsiYinDB
    todo,     \* what the dump at work still has to list; <<>> when none is at work
    missed    \* a dump ended early, or a Put of the last one failed

vars == <<pc, words, buf, tsidb, yindb, todo, missed>>

PrimaryWords == DOMAIN PrimaryReadings

Init == /\ pc = "idle"
        /\ words = <<>>
        /\ buf = <<>>
        /\ tsidb = NoRecords
        /\ yindb = NoRecords
        /\ todo = <<>>
        /\ missed = FALSE

\* bimsUserDBAppend opens both files with DB_FLAG_OVERWRITE.
Flags == {"OVERWRITE", "CREATEDB", "SHARED"}

-----------------------------------------------------------------------------
(* bimsTsiyinDump *)

\* What the walk will see is settled when it starts: nothing else writes the TsiDB.
StartDump == todo' = Entries(tsidb') /\ missed' = FALSE
NoDump    == UNCHANGED <<todo, missed>>

\* Wrong variant: what is listed already is listed again.
ListEntryAgain(ydb, e) ==
    Put(Flags, ydb, e.yin, Append(WordsUnder(ydb, e.yin), e.tsi))

\* One reading of one word: it is listed unless it is already.
ListEntry(ydb, e) ==
    LET listed == WordsUnder(ydb, e.yin)
    IN  IF e.tsi \in Range(listed) THEN ydb
        ELSE Put(Flags, ydb, e.yin, Append(listed, e.tsi))

DumpTurn ==
    /\ todo /= <<>>
    /\ \/ yindb' = ListEntry(yindb, Head(todo)) /\ UNCHANGED missed
       \/ \* the Put fails
          /\ ListEntry(yindb, Head(todo)) /= yindb
          /\ missed' = TRUE
          /\ UNCHANGED yindb
    /\ todo' = Tail(todo)
    /\ UNCHANGED <<pc, words, buf, tsidb>>

-----------------------------------------------------------------------------
(* bimsTsiGuess *)

\* A single character that is no function word.
isSingle(w) == Len(w) = 2 /\ w \notin PrepList

\* yindata of a character: NULL if it is not in the primary TsiDB or has no reading there.
HasYinData(z) == z \in PrimaryWords /\ PrimaryReadings[z] /= <<>>

\* The first reading of each character of a word, whatever was typed.
FirstReadings(w) ==
    FlattenSeq([k \in 1..(Len(w) \div 2) |-> PrimaryReadings[Bytes(w, 2 * k - 2, 2 * k)][1]])

\* Wrong variant: the count is bounded one too late.
EndRunOneMore ==
    IF Len(buf) < 4
      THEN UNCHANGED tsidb /\ NoDump
      ELSE LET old == Get(tsidb, buf, NewTsi)
               new == TsiInfo(IF old.refcount <= MaxRefCnt THEN old.refcount + 1
                                                           ELSE old.refcount,
                              IF old.yins = <<>> THEN <<FirstReadings(buf)>> ELSE old.yins)
           IN  /\ tsidb' \in {Put(Flags, tsidb, buf, new), tsidb}
               /\ IF old.yins = <<>> THEN StartDump ELSE NoDump

\* The run in buf is over: a word of two or more characters is stored, or counted once more.
\* The result of Put is not looked at; a new word is listed at once.
EndRun ==
    IF Len(buf) < 4
      THEN UNCHANGED tsidb /\ NoDump
      ELSE LET old == Get(tsidb, buf, NewTsi)
               new == TsiInfo(IF old.refcount < MaxRefCnt THEN old.refcount + 1
                                                          ELSE old.refcount,
                              IF old.yins = <<>> THEN <<FirstReadings(buf)>> ELSE old.yins)
           IN  /\ tsidb' \in {Put(Flags, tsidb, buf, new), tsidb}
               /\ IF old.yins = <<>> THEN StartDump ELSE NoDump

\* bimsFetchText hands its text to bimsTsiGuess.  An empty text makes no chunk, and
\* tabeChunkInfoDestroy is given NULL.
FetchText(text) ==
    /\ pc = "idle" /\ todo = <<>>
    /\ pc' = (IF text = <<>> THEN "down" ELSE "guess")
    /\ words' = (IF text = <<>> THEN <<>> ELSE ComplexWords(PrimaryWords, text))
    /\ UNCHANGED <<buf, tsidb, yindb, todo, missed>>

\* A turn of the loop of tabe_guess_newtsi; a character without yindata is copied from NULL.
GuessTurn ==
    /\ pc = "guess" /\ todo = <<>> /\ words /= <<>>
    /\ LET w == Head(words) IN
       CASE isSingle(w) /\ HasYinData(w) ->
              /\ buf' = buf \o w
              /\ words' = Tail(words)
              /\ UNCHANGED <<pc, tsidb, todo, missed>>
         [] isSingle(w) /\ ~HasYinData(w) ->
              /\ pc' = "down"
              /\ buf' = <<>> /\ words' = <<>>
              /\ UNCHANGED <<tsidb, todo, missed>>
         [] OTHER ->
              /\ EndRun
              /\ buf' = <<>>
              /\ words' = Tail(words)
              /\ UNCHANGED pc
    /\ UNCHANGED yindb

\* Behind the loop the run is looked at once more.
GuessEnd ==
    /\ pc = "guess" /\ todo = <<>> /\ words = <<>>
    /\ EndRun
    /\ buf' = <<>>
    /\ pc' = "idle"
    /\ UNCHANGED <<words, yindb>>

-----------------------------------------------------------------------------
(* bimsUserTsiEval *)

\* bimsTsiYinDBPoolSearch: the words the primary TsiYinDB and the user's list under a reading.
ListedInPool(yin) ==
    {w \in PrimaryWords : yin \in Range(PrimaryReadings[w])} \cup Range(WordsUnder(yindb, yin))

\* A word the pool does not list is stored with the one reading it was added with, in place of
\* the record there may be; the caller brings a TsiInfo without count or readings.
UserTsiEval(e) ==
    /\ pc = "idle" /\ todo = <<>>
    /\ e.tsi \notin ListedInPool(e.yin)
    /\ tsidb' \in {Put(Flags, tsidb, e.tsi, TsiInfo(1, <<e.yin>>)), tsidb}
    /\ StartDump
    /\ UNCHANGED <<pc, words, buf, yindb>>

-----------------------------------------------------------------------------
(* The process ends, and is started again. *)

Crash ==
    /\ pc /= "down"
    /\ pc' = "down"
    /\ words' = <<>> /\ buf' = <<>> /\ todo' = <<>>
    /\ missed' = (missed \/ todo /= <<>>)
    /\ UNCHANGED <<tsidb, yindb>>

Restart ==
    /\ pc = "down"
    /\ pc' = "idle"
    /\ UNCHANGED <<words, buf, tsidb, yindb, todo, missed>>

Next == \/ \E text \in Texts : FetchText(text)
        \/ GuessTurn \/ GuessEnd
        \/ \E e \in Evals : UserTsiEval(e)
        \/ DumpTurn
        \/ Crash \/ Restart

Spec == Init /\ [][Next]_vars

-----------------------------------------------------------------------------
(* Properties *)

Yins == UNION {Range(PrimaryReadings[w]) : w \in PrimaryWords}

TypeOK ==
    /\ pc \in {"idle", "guess", "down"}
    /\ buf /= <<>> => pc = "guess" /\ Len(buf) % 2 = 0
    /\ words /= <<>> => pc = "guess"
    /\ \A w \in DOMAIN tsidb :
         /\ tsidb[w].refcount \in 1..MaxRefCnt
         /\ \A y \in Range(tsidb[w].yins) : Len(w) = 2 * Len(y)
    /\ \A y \in DOMAIN yindb : yindb[y] /= <<>>
    /\ missed \in BOOLEAN

\* What the user taught can be found again: when no dump is at work and none was cut short,
\* every word of the user's TsiDB is listed under each of its readings.  So the next dump
\* repairs what a crash or a failed Put left, however many came between (bims.c:3264).
StoredIsListed ==
    todo = <<>> /\ ~missed =>
      \A w \in DOMAIN tsidb : \A y \in Range(tsidb[w].yins) : w \in Range(WordsUnder(yindb, y))

\* The TsiYinDB makes nothing up: through crashes, dumps that were cut short and dumps that
\* walk over words already listed, no record lists a word twice, or one of another length, or
\* one that is not stored, but for the empty record an empty TsiDB leaves (bims.c:3307).
YinRecordsSound ==
    \A y \in DOMAIN yindb :
      /\ IsInjective(yindb[y])
      /\ \A w \in Range(yindb[y]) : Len(w) = 2 * Len(y) /\ (w \in DOMAIN tsidb \/ w = <<>>)

\* What is learned is new: the segmentation leaves no run of single characters that is a word
\* of the primary TsiDB, so that none is stored again among the user's words unless the user
\* added it with a reading of its own (bims.c:2088 over tabe_tsi.c:208).
LearnedIsNew ==
    \A w \in DOMAIN tsidb : w \in PrimaryWords =>
      \E e \in Evals : e.tsi = w /\ e.yin \notin Range(PrimaryReadings[w])
==============================================================================
