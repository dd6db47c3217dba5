----------------------------- MODULE RecordStore -----------------------------
(***************************************************************************)
(* The records of a TsiDB and of a TsiYinDB (src/tabe_tsidbint.c,          *)
(* src/tabe_tsiyindbint.c; the two are the same code over different        *)
(* records).  A database is a function from keys to records; a key is a    *)
(* sequence of bytes or of syllables, and Berkeley DB keeps the keys in    *)
(* lexicographic order.                                                    *)
(***************************************************************************)
EXTENDS Integers, Sequences, SequencesExt

NoRecords == <<>>

Before(j, k) ==
    \/ IsStrictPrefix(j, k)
    \/ \E n \in 1..Len(j) :
         n <= Len(k) /\ j[n] < k[n] /\ SubSeq(j, 1, n - 1) = SubSeq(k, 1, n - 1)

\* How many keys of a database come before key k.
Place(db, k) == Cardinality({j \in DOMAIN db : Before(j, k)})

\* The keys as CursorSet with an empty key and CursorNext visit them.
Walk(db) ==
    [n \in 1..Cardinality(DOMAIN db) |-> CHOOSE k \in DOMAIN db : Place(db, k) = n - 1]

\* Put: a read-only handle refuses, and one without DB_FLAG_OVERWRITE refuses a key there is.
CanPut(flags, db, key) ==
    /\ "READONLY" \notin flags
    /\ "OVERWRITE" \in flags \/ key \notin DOMAIN db

Put(flags, db, key, rec) ==
    IF CanPut(flags, db, key)
      THEN [k \in DOMAIN db \cup {key} |-> IF k = key THEN rec ELSE db[k]]
      ELSE db

\* Get: what the caller's structure holds afterwards; a failed look-up leaves it as it was.
Get(db, key, before) == IF key \in DOMAIN db THEN db[key] ELSE before

\* A record of a TsiDB (struct TsiInfo) and of a TsiYinDB (struct TsiYinInfo, whose yin is
\* the key).
TsiInfo(count, yins) == [refcount |-> count, yins |-> yins]
NewTsi == TsiInfo(0, <<>>)

\* The words a TsiYinDB lists under a reading, none if there is no record.
WordsUnder(ydb, yin) == Get(ydb, yin, <<>>)
==============================================================================
