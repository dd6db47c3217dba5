--------------------------- MODULE BimsDBPoolProofs ---------------------------
(***************************************************************************)
(* Proofs about BimsDBPool, for every set of names, applications, handles  *)
(* and DB objects, every length of the pools and any pairs of names that   *)
(* bimsDBPoolDelete is called with.                                        *)
(***************************************************************************)
EXTENDS BimsDBPool, SequenceTheorems, NaturalsInduction,
        WellFoundedInduction, TLAPS

\* The theorems about the two handle pools.
TP == INSTANCE TsiDBPoolProofs WITH
        DBNames <- Names, FlagSets <- {SystemFlags, UserFlags},
        pool <- tPool, lost <- tLost, handle <- tHandle, db <- tDB,
        misclosed <- tMisclosed

YP == INSTANCE TsiDBPoolProofs WITH
        DBNames <- Names, FlagSets <- {SystemFlags, UserFlags},
        pool <- yPool, lost <- yLost, handle <- yHandle, db <- yDB,
        misclosed <- yMisclosed

-----------------------------------------------------------------------------
(* The inductive invariant *)

\* The pools as the calls leave them: never a single slot, a TsiDB slot is
\* always written, and a lone primary pair is there.
Shape(p) ==
    /\ p \in DBPool
    /\ Len(p.ydb_pool) = Len(p.tdb_pool)
    /\ Len(p.tdb_pool) # 1
    /\ Len(p.tdb_pool) <= MaxLen
    /\ \A i \in DOMAIN p.tdb_pool : p.tdb_pool[i] # Junk
    /\ Len(p.tdb_pool) = 0 => p.tdb \in Handles /\ p.ydb \in Handles

Shapes == \A a \in Pools : Shape(app[a])

\* What a call found when it began still holds when it goes on.
CallInProgress ==
    /\ call \in Opening =>
          /\ call.op = "init" <=> app[call.app] = Null
          /\ app[call.app] # Null => len_pool(call.app) < MaxLen
          /\ tHandle[call.t].key = KeyOf(call.op, call.name)
    /\ call \in Destroying =>
          /\ app[call.app] # Null
          /\ call.slot \in DOMAIN app[call.app].tdb_pool

\* Application a has the TsiDB handle h in place i: place 0 is that of a lone
\* primary, the others are the slots that are still to be closed.
TsiAt(a, i, h) ==
    \/ a \in LonePools /\ i = 0 /\ h = app[a].tdb
    \/ a \in Pools /\ i \in OpenSlots(a) /\ h = app[a].tdb_pool[i]

YinAt(a, i, h) ==
    \/ a \in LonePools /\ i = 0 /\ h = app[a].ydb
    \/ a \in Pools /\ i \in OpenSlots(a) /\ h = app[a].ydb_pool[i]

Places == 0 .. MaxLen

\* The TsiDB that a call has opened and not put into its place.
InHand == IF call \in Opening THEN {call.t} ELSE {}

\* A TsiDB handle is live as long as it is in one place or in the hand of a
\* call, never in two.
TsiPlaced ==
    /\ \A h \in T!Live : h \in InHand \/ \E a \in Apps, i \in Places : TsiAt(a, i, h)
    /\ InHand \subseteq T!Live
    /\ \A h \in Handles, a \in Apps, i \in Places : TsiAt(a, i, h) =>
          /\ h \in T!Live
          /\ h \notin InHand
          /\ \A b \in Apps, j \in Places : TsiAt(b, j, h) => b = a /\ j = i

YinPlaced ==
    /\ \A h \in Y!Live : h \in dropped \/ \E a \in Apps, i \in Places : YinAt(a, i, h)
    /\ dropped \subseteq Y!Live
    /\ \A h \in Handles, a \in Apps, i \in Places : YinAt(a, i, h) =>
          /\ h \in Y!Live
          /\ h \notin dropped
          /\ \A b \in Apps, j \in Places : YinAt(b, j, h) => b = a /\ j = i

Intact(a) == ~ (call \in Destroying /\ call.app = a)

\* The handles of a place are on the same dictionary.
PairsMatch ==
    \A a \in Pools, i \in Places, t, y \in Handles :
        JunkFree(a) /\ TsiAt(a, i, t) /\ YinAt(a, i, y) =>
            tHandle[t].key = yHandle[y].key

\* A place has both halves or none, unless bimsDBPoolDelete took one.
HalvesTogether ==
    \A a \in Pools, i \in Places : JunkFree(a) /\ ~ mixed =>
        ((\E t \in Handles : TsiAt(a, i, t)) <=> (\E y \in Handles : YinAt(a, i, y)))

\* As long as the primary TsiDB is there, it has a place; under the same
\* condition the primary TsiYinDB is there with it and shares its place.
PrimaryOf(a) ==
    /\ app[a].tdb # Null => \E i \in Places : TsiAt(a, i, app[a].tdb)
    /\ JunkFree(a) /\ ~ mixed =>
          /\ app[a].tdb = Null <=> app[a].ydb = Null
          /\ app[a].tdb # Null =>
                \E i \in Places : TsiAt(a, i, app[a].tdb) /\ YinAt(a, i, app[a].ydb)

PrimaryPlaced == \A a \in Pools : Intact(a) => PrimaryOf(a)

AppTyped == app \in [Apps -> DBPool \cup {Null}]

PoolInv ==
    /\ AppTyped
    /\ call \in Opening \cup Destroying \cup {Null}
    /\ dropped \subseteq Handles
    /\ mixed \in BOOLEAN
    /\ Shapes
    /\ CallInProgress
    /\ TsiPlaced
    /\ YinPlaced
    /\ PairsMatch
    /\ HalvesTogether
    /\ PrimaryPlaced

IInv == TP!IInv /\ YP!IInv /\ PoolInv
-----------------------------------------------------------------------------
(* The two handle pools *)

\* The assumptions of TsiDBPool, for both instances.
LEMMA PoolAssumptions ==
    /\ {SystemFlags, UserFlags} \subseteq SUBSET TP!DBFlags
    /\ Closed \notin TP!Key /\ Free \notin TP!Handle \cup TP!Key
BY ClosedAssumption, FreeAssumption
   DEF T!Key, TP!Key, T!Handle, TP!Handle, TP!DBFlags, SystemFlags, UserFlags

\* The two instances of TsiDBPool have the same operations and state.
LEMMA SameOpen ==
    ASSUME NEW h, NEW k
    PROVE  T!Open(h, k) <=> TP!Open(h, k)
BY DEF T!Open, T!OpenPrivate, T!OpenFirstShared, T!OpenAgainShared, T!Shared,
       T!DoOpen, T!NewHandle, T!Matching, T!First, T!Openable,
       TP!Open, TP!OpenPrivate, TP!OpenFirstShared, TP!OpenAgainShared, TP!Shared,
       TP!DoOpen, TP!NewHandle, TP!Matching, TP!First, TP!Openable

LEMMA SameLive == T!Live = TP!Live /\ T!Key = TP!Key
BY DEF T!Live, TP!Live, T!Key, TP!Key

LEMMA SameClose ==
    ASSUME NEW h
    PROVE  T!Close(h) <=> TP!Close(h)
BY DEF T!Close, T!ClosePrivate, T!CloseNotLast, T!CloseLast, T!CloseUnknown,
       T!Shared, T!DoClose, T!Abandon, T!Matching, T!First, T!Live,
       TP!Close, TP!ClosePrivate, TP!CloseNotLast, TP!CloseLast, TP!CloseUnknown,
       TP!Shared, TP!DoClose, TP!Abandon, TP!Matching, TP!First, TP!Live

\* What opening and closing a TsiDB do, from the proofs about the list.
LEMMA TsiOpened ==
    ASSUME TP!IInv, NEW h \in Handles, NEW k \in T!Key, T!Open(h, k)
    PROVE  /\ TP!IInv'
           /\ h \notin T!Live
           /\ T!Live' = T!Live \cup {h}
           /\ tHandle'[h].key = k
           /\ \A g \in T!Live : tHandle'[g] = tHandle[g]
<1>1. TP!Live' = T!Live' /\ T!Live = TP!Live
  BY DEF T!Live, TP!Live
<1>2. k \in TP!Key /\ TP!Open(h, k)
  BY SameOpen, SameLive
<1>3. /\ TP!IInv'
      /\ h \notin TP!Live
      /\ TP!Live' = TP!Live \cup {h}
      /\ tHandle'[h].key = k
      /\ \A g \in TP!Live : tHandle'[g] = tHandle[g]
  BY <1>2, PoolAssumptions, TP!OpenEffect
<1>4. QED
  BY <1>1, <1>3

LEMMA TsiClosed ==
    ASSUME TP!IInv, NEW h, T!Close(h)
    PROVE  /\ TP!IInv'
           /\ h \in T!Live
           /\ T!Live' = T!Live \ {h}
           /\ \A g \in T!Live' : tHandle'[g] = tHandle[g]
<1>1. TP!Live' = T!Live' /\ T!Live = TP!Live
  BY DEF T!Live, TP!Live
<1>2. TP!Close(h) /\ h \in TP!Live
  BY <1>1, SameClose DEF T!Close
<1>3. /\ TP!IInv'
      /\ TP!Live' = TP!Live \ {h}
      /\ \A g \in TP!Live' : tHandle'[g] = tHandle[g]
  BY <1>2, PoolAssumptions, TP!CloseEffect
<1>4. QED
  BY <1>1, <1>2, <1>3

LEMMA TsiUnchanged ==
    ASSUME TP!IInv, UNCHANGED tVars
    PROVE  TP!IInv' /\ T!Live' = T!Live /\ tHandle' = tHandle
<1>1. UNCHANGED TP!vars
  BY DEF tVars, TP!vars
<1>2. TP!IInv'
  BY <1>1, PoolAssumptions, TP!NextInv
<1>3. QED
  BY <1>2 DEF tVars, T!Live

LEMMA YinPoolAssumptions ==
    /\ {SystemFlags, UserFlags} \subseteq SUBSET YP!DBFlags
    /\ Closed \notin YP!Key /\ Free \notin YP!Handle \cup YP!Key
BY ClosedAssumption, FreeAssumption
   DEF T!Key, YP!Key, T!Handle, YP!Handle, YP!DBFlags, SystemFlags, UserFlags

LEMMA YinSameOpen ==
    ASSUME NEW h, NEW k
    PROVE  Y!Open(h, k) <=> YP!Open(h, k)
BY DEF Y!Open, Y!OpenPrivate, Y!OpenFirstShared, Y!OpenAgainShared, Y!Shared,
       Y!DoOpen, Y!NewHandle, Y!Matching, Y!First, Y!Openable,
       YP!Open, YP!OpenPrivate, YP!OpenFirstShared, YP!OpenAgainShared, YP!Shared,
       YP!DoOpen, YP!NewHandle, YP!Matching, YP!First, YP!Openable

LEMMA YinSameLive == Y!Live = YP!Live /\ Y!Key = YP!Key
BY DEF Y!Live, YP!Live, Y!Key, YP!Key

LEMMA YinSameClose ==
    ASSUME NEW h
    PROVE  Y!Close(h) <=> YP!Close(h)
BY DEF Y!Close, Y!ClosePrivate, Y!CloseNotLast, Y!CloseLast, Y!CloseUnknown,
       Y!Shared, Y!DoClose, Y!Abandon, Y!Matching, Y!First, Y!Live,
       YP!Close, YP!ClosePrivate, YP!CloseNotLast, YP!CloseLast, YP!CloseUnknown,
       YP!Shared, YP!DoClose, YP!Abandon, YP!Matching, YP!First, YP!Live

\* The same for the TsiYinDBs.
LEMMA YinOpened ==
    ASSUME YP!IInv, NEW h \in Handles, NEW k \in Y!Key, Y!Open(h, k)
    PROVE  /\ YP!IInv'
           /\ h \notin Y!Live
           /\ Y!Live' = Y!Live \cup {h}
           /\ yHandle'[h].key = k
           /\ \A g \in Y!Live : yHandle'[g] = yHandle[g]
<1>1. YP!Live' = Y!Live' /\ Y!Live = YP!Live
  BY DEF Y!Live, YP!Live
<1>2. k \in YP!Key /\ YP!Open(h, k)
  BY YinSameOpen, YinSameLive
<1>3. /\ YP!IInv'
      /\ h \notin YP!Live
      /\ YP!Live' = YP!Live \cup {h}
      /\ yHandle'[h].key = k
      /\ \A g \in YP!Live : yHandle'[g] = yHandle[g]
  BY <1>2, YinPoolAssumptions, YP!OpenEffect
<1>4. QED
  BY <1>1, <1>3

LEMMA YinClosed ==
    ASSUME YP!IInv, NEW h, Y!Close(h)
    PROVE  /\ YP!IInv'
           /\ h \in Y!Live
           /\ Y!Live' = Y!Live \ {h}
           /\ \A g \in Y!Live' : yHandle'[g] = yHandle[g]
<1>1. YP!Live' = Y!Live' /\ Y!Live = YP!Live
  BY DEF Y!Live, YP!Live
<1>2. YP!Close(h) /\ h \in YP!Live
  BY <1>1, YinSameClose DEF Y!Close
<1>3. /\ YP!IInv'
      /\ YP!Live' = YP!Live \ {h}
      /\ \A g \in YP!Live' : yHandle'[g] = yHandle[g]
  BY <1>2, YinPoolAssumptions, YP!CloseEffect
<1>4. QED
  BY <1>1, <1>2, <1>3

LEMMA YinUnchanged ==
    ASSUME YP!IInv, UNCHANGED yVars
    PROVE  YP!IInv' /\ Y!Live' = Y!Live /\ yHandle' = yHandle
<1>1. UNCHANGED YP!vars
  BY DEF yVars, YP!vars
<1>2. YP!IInv'
  BY <1>1, YinPoolAssumptions, YP!NextInv
<1>3. QED
  BY <1>2 DEF yVars, Y!Live

LEMMA SameKeys == Y!Key = T!Key
BY DEF Y!Key, T!Key
-----------------------------------------------------------------------------
(* What joins a pool *)

\* The pool p with other arrays.
WithArrays(p, ts, ys) ==
    [tdb |-> p.tdb, ydb |-> p.ydb, tdb_pool |-> ts, ydb_pool |-> ys]

\* Two fields are replaced.
LEMMA NewArrays ==
    ASSUME NEW p \in DBPool, NEW ts, NEW ys
    PROVE  [p EXCEPT !.tdb_pool = ts, !.ydb_pool = ys] = WithArrays(p, ts, ys)
<1>1. p = WithArrays(p, p.tdb_pool, p.ydb_pool)
  BY DEF DBPool, WithArrays
<1>2. [p EXCEPT !.tdb_pool = ts, !.ydb_pool = ys] =
          [[p EXCEPT !.tdb_pool = ts] EXCEPT !.ydb_pool = ys]
  OBVIOUS
<1>3. [WithArrays(p, p.tdb_pool, p.ydb_pool) EXCEPT !.tdb_pool = ts] =
          WithArrays(p, ts, p.ydb_pool)
  BY DEF WithArrays
<1>4. [WithArrays(p, ts, p.ydb_pool) EXCEPT !.ydb_pool = ys] = WithArrays(p, ts, ys)
  BY DEF WithArrays
<1>5. QED
  BY <1>1, <1>2, <1>3, <1>4

LEMMA PoolOfArrays ==
    ASSUME NEW p \in DBPool, NEW ts \in Seq(Slot), NEW ys \in Seq(Slot)
    PROVE  WithArrays(p, ts, ys) \in DBPool
BY DEF DBPool, WithArrays

LEMMA PairOfSlots ==
    ASSUME NEW x \in Slot, NEW y \in Slot
    PROVE  /\ <<x, y>> \in Seq(Slot) /\ Len(<<x, y>>) = 2
           /\ <<x, y>>[1] = x /\ <<x, y>>[2] = y
OBVIOUS

LEMMA HandlesAreSlots ==
    ASSUME NEW h \in Handles
    PROVE  h \in Slot /\ h # Null /\ h # Junk
BY PointerAssumption DEF Slot

\* The first pair that joins a primary pair.
LEMMA FirstJoins ==
    ASSUME NEW p, Shape(p), Len(p.tdb_pool) = 0, 0 < MaxLen,
           NEW t \in Handles, NEW y \in Handles
    PROVE  /\ Appended(p, t, y) = WithArrays(p, <<p.tdb, t>>, <<p.ydb, y>>)
           /\ Prepended(p, t, y) = WithArrays(p, <<t, p.tdb>>, <<y, p.ydb>>)
           /\ Shape(Appended(p, t, y))
           /\ Shape(Prepended(p, t, y))
<1>1. p \in DBPool /\ p.tdb \in Handles /\ p.ydb \in Handles
  BY DEF Shape
<1>2. /\ Appended(p, t, y) = WithArrays(p, <<p.tdb, t>>, <<p.ydb, y>>)
      /\ Prepended(p, t, y) = WithArrays(p, <<t, p.tdb>>, <<y, p.ydb>>)
  BY <1>1, NewArrays DEF Appended, Prepended
<1>3. 2 <= MaxLen
  BY MaxLenAssumption
<1>4. ASSUME NEW a \in Handles, NEW b \in Handles, NEW c \in Handles, NEW d \in Handles
      PROVE  Shape(WithArrays(p, <<a, b>>, <<c, d>>))
  <2> DEFINE q == WithArrays(p, <<a, b>>, <<c, d>>)
  <2>1. a \in Slot /\ b \in Slot /\ c \in Slot /\ d \in Slot /\ a # Junk /\ b # Junk
    BY HandlesAreSlots
  <2>2. /\ <<a, b>> \in Seq(Slot) /\ <<c, d>> \in Seq(Slot)
        /\ Len(<<a, b>>) = 2 /\ Len(<<c, d>>) = 2
    BY <2>1
  <2>3. q \in DBPool
    BY <1>1, <2>2, PoolOfArrays
  <2>4. q.tdb_pool = <<a, b>> /\ q.ydb_pool = <<c, d>>
    BY DEF WithArrays
  <2>5. \A i \in DOMAIN <<a, b>> : <<a, b>>[i] # Junk
    BY <2>1
  <2> HIDE DEF q
  <2>6. Shape(q)
    BY <1>3, <2>2, <2>3, <2>4, <2>5 DEF Shape
  <2>7. QED
    BY <2>6 DEF q
<1>5. QED
  BY <1>1, <1>2, <1>4

\* A further pair that is appended.
LEMMA MoreAppended ==
    ASSUME NEW p, Shape(p), Len(p.tdb_pool) # 0, Len(p.tdb_pool) < MaxLen,
           NEW t \in Handles, NEW y \in Handles
    PROVE  /\ Appended(p, t, y) =
                 WithArrays(p, Append(p.tdb_pool, t), Append(p.ydb_pool, y))
           /\ Shape(Appended(p, t, y))
<1> DEFINE ts == Append(p.tdb_pool, t)
           ys == Append(p.ydb_pool, y)
           n == Len(p.tdb_pool)
<1>1. p \in DBPool /\ n \in Nat /\ Len(p.ydb_pool) = n
  BY DEF Shape, DBPool
<1>2. Appended(p, t, y) = WithArrays(p, ts, ys)
  BY <1>1, NewArrays DEF Appended
<1>3. t \in Slot /\ y \in Slot /\ t # Junk
  BY HandlesAreSlots
<1>4. p.tdb_pool \in Seq(Slot) /\ p.ydb_pool \in Seq(Slot)
  BY <1>1 DEF DBPool
<1>5. /\ ts \in Seq(Slot) /\ Len(ts) = n + 1 /\ ys \in Seq(Slot) /\ Len(ys) = n + 1
      /\ ts[n + 1] = t /\ \A i \in 1 .. n : ts[i] = p.tdb_pool[i]
  BY <1>1, <1>3, <1>4
<1>6. \A i \in DOMAIN ts : ts[i] # Junk
  BY <1>1, <1>3, <1>4, <1>5 DEF Shape
<1>7. WithArrays(p, ts, ys) \in DBPool
  BY <1>1, <1>5, PoolOfArrays
<1>8. WithArrays(p, ts, ys).tdb_pool = ts /\ WithArrays(p, ts, ys).ydb_pool = ys
  BY DEF WithArrays
<1> HIDE DEF ts, ys
<1>9. Shape(WithArrays(p, ts, ys))
  BY <1>1, <1>5, <1>6, <1>7, <1>8, MaxLenAssumption DEF Shape
<1>10. QED
  BY <1>2, <1>9 DEF ts, ys

\* A further pair that is prepended: the TsiDBs move by a slot and the first
\* TsiYinDB is overwritten.
PairPrepended(p, t, y, ts, ys) ==
    /\ Prepended(p, t, y) = WithArrays(p, ts, ys)
    /\ Len(ts) = Len(p.tdb_pool) + 1 /\ Len(ys) = Len(p.tdb_pool) + 1
    /\ ts[1] = t /\ \A i \in DOMAIN p.tdb_pool : ts[i + 1] = p.tdb_pool[i]
    /\ ys[1] = y /\ ys[Len(p.tdb_pool) + 1] = Junk
    /\ \A i \in DOMAIN p.tdb_pool : i # 1 => ys[i] = p.ydb_pool[i]

LEMMA MorePrepended ==
    ASSUME NEW p, Shape(p), Len(p.tdb_pool) # 0, Len(p.tdb_pool) < MaxLen,
           NEW t \in Handles, NEW y \in Handles
    PROVE  /\ \E ts, ys \in Seq(Slot) : PairPrepended(p, t, y, ts, ys)
           /\ Shape(Prepended(p, t, y))
<1> DEFINE n == Len(p.tdb_pool)
           zs == [p.ydb_pool EXCEPT ![1] = y]
           ts == <<t>> \o p.tdb_pool
           ys == Append(zs, Junk)
<1>1. p \in DBPool /\ n \in Nat /\ n # 0 /\ Len(p.ydb_pool) = n
  BY DEF Shape, DBPool
<1>2. Prepended(p, t, y) = WithArrays(p, ts, ys)
  BY <1>1, NewArrays DEF Prepended
<1>3. t \in Slot /\ y \in Slot /\ t # Junk /\ Junk \in Slot
  BY HandlesAreSlots DEF Slot
<1>4. p.tdb_pool \in Seq(Slot) /\ p.ydb_pool \in Seq(Slot)
  BY <1>1 DEF DBPool
<1>5. /\ zs \in Seq(Slot) /\ Len(zs) = n /\ zs[1] = y
      /\ \A i \in 1 .. n : i # 1 => zs[i] = p.ydb_pool[i]
  BY <1>1, <1>3, <1>4
<1>6. /\ ys \in Seq(Slot) /\ Len(ys) = n + 1 /\ ys[n + 1] = Junk
      /\ \A i \in 1 .. n : ys[i] = zs[i]
  <2> HIDE DEF zs
  <2>1. QED
    BY <1>1, <1>3, <1>5
<1>7. <<t>> \in Seq(Slot) /\ Len(<<t>>) = 1 /\ <<t>>[1] = t
  BY <1>3
<1>8. ts \in Seq(Slot) /\ Len(ts) = n + 1
  BY <1>1, <1>4, <1>7
<1>9. \A i \in 1 .. n + 1 : ts[i] = IF i <= 1 THEN <<t>>[i] ELSE p.tdb_pool[i - 1]
  BY <1>1, <1>4, <1>7
<1>10. DOMAIN p.tdb_pool = 1 .. n /\ DOMAIN ts = 1 .. n + 1
  BY <1>4, <1>8
<1>11. ts[1] = t /\ \A i \in 1 .. n : ts[i + 1] = p.tdb_pool[i]
  BY <1>1, <1>7, <1>9
<1>12. \A i \in 1 .. n + 1 : ts[i] # Junk
  <2> SUFFICES ASSUME NEW i \in 1 .. n + 1 PROVE ts[i] # Junk
    OBVIOUS
  <2>1. CASE i = 1
    BY <2>1, <1>3, <1>11
  <2>2. CASE i # 1
    <3>1. i - 1 \in 1 .. n /\ ts[i] = p.tdb_pool[i - 1]
      BY <1>1, <1>9, <2>2
    <3>2. QED
      BY <3>1, <1>10 DEF Shape
  <2>3. QED
    BY <2>1, <2>2
<1>13. WithArrays(p, ts, ys) \in DBPool
  BY <1>1, <1>6, <1>8, PoolOfArrays
<1>14. WithArrays(p, ts, ys).tdb_pool = ts /\ WithArrays(p, ts, ys).ydb_pool = ys
  BY DEF WithArrays
<1> HIDE DEF ts, ys, zs
<1>15. Shape(WithArrays(p, ts, ys))
  BY <1>1, <1>6, <1>8, <1>10, <1>12, <1>13, <1>14, MaxLenAssumption DEF Shape
<1>16. PairPrepended(p, t, y, ts, ys)
  <2>1. Len(p.tdb_pool) = n
    BY DEF n
  <2>2. \A i \in 1 .. n : i # 1 => ys[i] = p.ydb_pool[i]
    BY <1>5, <1>6
  <2>3. ys[1] = y
    BY <1>1, <1>5, <1>6
  <2> HIDE DEF n
  <2>4. QED
    BY <1>2, <1>6, <1>8, <1>10, <1>11, <2>1, <2>2, <2>3 DEF PairPrepended
<1>17. QED
  BY <1>2, <1>6, <1>8, <1>15, <1>16
-----------------------------------------------------------------------------
(* Where the handles are *)

\* Nothing happens to the TsiDB handles.
LEMMA TsiKept ==
    ASSUME TsiPlaced, T!Live' = T!Live, InHand' = InHand,
           \A h \in Handles, a \in Apps, i \in Places :
              TsiAt(a, i, h)' <=> TsiAt(a, i, h)
    PROVE  TsiPlaced'
<1>1. T!Live \subseteq Handles
  BY DEF T!Live
<1>2. QED
  BY <1>1 DEF TsiPlaced

\* One is closed and leaves its place, or the hand of the call.
LEMMA TsiRemoved ==
    ASSUME TsiPlaced, NEW t, T!Live' = T!Live \ {t}, InHand' = InHand \ {t},
           \A h \in Handles, a \in Apps, i \in Places :
              TsiAt(a, i, h)' <=> TsiAt(a, i, h) /\ h # t
    PROVE  TsiPlaced'
<1>1. T!Live \subseteq Handles
  BY DEF T!Live
<1>2. QED
  BY <1>1 DEF TsiPlaced

\* One is opened and taken into the hand.
LEMMA TsiTaken ==
    ASSUME TsiPlaced, NEW t, t \notin T!Live, T!Live' = T!Live \cup {t},
           InHand = {}, InHand' = {t},
           \A h \in Handles, a \in Apps, i \in Places :
              TsiAt(a, i, h)' <=> TsiAt(a, i, h)
    PROVE  TsiPlaced'
<1>1. T!Live \subseteq Handles
  BY DEF T!Live
<1>2. QED
  BY <1>1 DEF TsiPlaced

\* The one in the hand gets place n of application a, and those that a holds
\* move by d places.
TsiShifts(a, n, d, t) ==
    \A h \in Handles, i \in Places :
       /\ \A b \in Apps \ {a} : TsiAt(b, i, h)' <=> TsiAt(b, i, h)
       /\ TsiAt(a, i, h) => i + d \in Places /\ i + d # n
       /\ TsiAt(a, i, h)' <=> \/ i = n /\ h = t
                              \/ i - d \in Places /\ TsiAt(a, i - d, h)

LEMMA TsiPut ==
    ASSUME TsiPlaced, NEW t \in Handles, InHand = {t}, InHand' = {},
           T!Live' = T!Live, NEW a \in Apps, NEW n \in Places, NEW d \in Nat,
           TsiShifts(a, n, d, t)
    PROVE  TsiPlaced'
<1> USE DEF TsiShifts
<1>1. T!Live \subseteq Handles
  BY DEF T!Live
<1>2. \A h \in T!Live' : \E b \in Apps, i \in Places : TsiAt(b, i, h)'
  <2> SUFFICES ASSUME NEW h \in T!Live PROVE \E b \in Apps, i \in Places : TsiAt(b, i, h)'
    OBVIOUS
  <2>1. CASE h = t
    BY <2>1
  <2>2. CASE h # t
    <3>1. PICK b \in Apps, i \in Places : TsiAt(b, i, h)
      BY <2>2 DEF TsiPlaced
    <3>2. CASE b # a
      BY <1>1, <3>1, <3>2
    <3>3. CASE b = a
      <4>1. h \in Handles /\ i + d \in Places /\ (i + d) - d = i
        BY <1>1, <3>1, <3>3 DEF Places
      <4>2. TsiAt(a, i + d, h)'
        BY <3>1, <3>3, <4>1
      <4>3. QED
        BY <4>1, <4>2
    <3>4. QED
      BY <3>2, <3>3
  <2>3. QED
    BY <2>1, <2>2
<1>3. ASSUME NEW h \in Handles, NEW b \in Apps, NEW i \in Places, TsiAt(b, i, h)'
      PROVE  /\ h \in T!Live
             /\ \A c \in Apps, j \in Places : TsiAt(c, j, h)' => c = b /\ j = i
  <2>1. CASE h = t
    <3>1. \A c \in Apps, j \in Places : ~ TsiAt(c, j, t)
      BY DEF TsiPlaced
    <3>2. \A c \in Apps, j \in Places : TsiAt(c, j, t)' => c = a /\ j = n
      BY <3>1
    <3>3. t \in T!Live
      BY DEF TsiPlaced
    <3>4. QED
      BY <1>3, <2>1, <3>2, <3>3
  <2>2. CASE h # t
    <3>1. \A c \in Apps, j \in Places :
             TsiAt(c, j, h)' =>
                IF c = a THEN j - d \in Places /\ TsiAt(a, j - d, h)
                         ELSE TsiAt(c, j, h)
      BY <2>2
    <3>2. \A c, e \in Apps, j, k \in Places :
             TsiAt(c, j, h) /\ TsiAt(e, k, h) => h \in T!Live /\ c = e /\ j = k
      BY DEF TsiPlaced
    <3>3. h \in T!Live
      BY <1>3, <3>1, <3>2
    <3>4. ASSUME NEW c \in Apps, NEW j \in Places, TsiAt(c, j, h)'
          PROVE  c = b /\ j = i
      <4>1. c = a <=> b = a
        BY <1>3, <3>1, <3>2, <3>4
      <4>2. CASE b = a
        <5>1. j - d = i - d
          BY <1>3, <3>1, <3>2, <3>4, <4>1, <4>2
        <5>2. QED
          BY <4>1, <4>2, <5>1 DEF Places
      <4>3. CASE b # a
        BY <1>3, <3>1, <3>2, <3>4, <4>1, <4>3
      <4>4. QED
        BY <4>2, <4>3
    <3>5. QED
      BY <3>3, <3>4
  <2>3. QED
    BY <2>1, <2>2
<1>4. QED
  BY <1>2, <1>3 DEF TsiPlaced

\* The same for the TsiYinDB handles.  Whoever has lost his pointer stays
\* where he is.
LEMMA YinKept ==
    ASSUME YinPlaced, Y!Live' = Y!Live, dropped' = dropped,
           \A h \in Handles, a \in Apps, i \in Places :
              YinAt(a, i, h)' <=> YinAt(a, i, h)
    PROVE  YinPlaced'
<1>1. Y!Live \subseteq Handles
  BY DEF Y!Live
<1>2. QED
  BY <1>1 DEF YinPlaced

\* One that has a place is closed.
LEMMA YinRemoved ==
    ASSUME YinPlaced, NEW y, Y!Live' = Y!Live \ {y}, dropped' = dropped, y \notin dropped,
           \A h \in Handles, a \in Apps, i \in Places :
              YinAt(a, i, h)' <=> YinAt(a, i, h) /\ h # y
    PROVE  YinPlaced'
<1>1. Y!Live \subseteq Handles
  BY DEF Y!Live
<1>2. QED
  BY <1>1 DEF YinPlaced

\* One is opened and gets place n of application a, whose others move by d.
YinShifts(a, n, d, y) ==
    \A h \in Handles, i \in Places :
       /\ \A b \in Apps \ {a} : YinAt(b, i, h)' <=> YinAt(b, i, h)
       /\ YinAt(a, i, h) => i + d \in Places /\ i + d # n
       /\ YinAt(a, i, h)' <=> \/ i = n /\ h = y
                              \/ i - d \in Places /\ YinAt(a, i - d, h)

LEMMA YinPut ==
    ASSUME YinPlaced, NEW y \in Handles, y \notin Y!Live, Y!Live' = Y!Live \cup {y},
           dropped' = dropped, NEW a \in Apps, NEW n \in Places, NEW d \in Nat,
           YinShifts(a, n, d, y)
    PROVE  YinPlaced'
<1> USE DEF YinShifts
<1>1. Y!Live \subseteq Handles
  BY DEF Y!Live
<1>2. \A b \in Apps, j \in Places : ~ YinAt(b, j, y)
  BY DEF YinPlaced
<1>3. y \notin dropped
  BY DEF YinPlaced
<1>4. \A h \in Y!Live' : h \in dropped \/ \E b \in Apps, i \in Places : YinAt(b, i, h)'
  <2> SUFFICES ASSUME NEW h \in Y!Live', h \notin dropped
               PROVE  \E b \in Apps, i \in Places : YinAt(b, i, h)'
    OBVIOUS
  <2>1. CASE h = y
    BY <2>1
  <2>2. CASE h # y
    <3>1. PICK b \in Apps, i \in Places : YinAt(b, i, h)
      BY <2>2 DEF YinPlaced
    <3>2. h \in Handles
      BY <1>1, <2>2
    <3>3. CASE b # a
      BY <3>1, <3>2, <3>3
    <3>4. CASE b = a
      <4>1. i + d \in Places /\ (i + d) - d = i
        BY <3>1, <3>2, <3>4 DEF Places
      <4>2. YinAt(a, i + d, h)'
        BY <3>1, <3>2, <3>4, <4>1
      <4>3. QED
        BY <4>1, <4>2
    <3>5. QED
      BY <3>3, <3>4
  <2>3. QED
    BY <2>1, <2>2
<1>5. ASSUME NEW h \in Handles, NEW b \in Apps, NEW i \in Places, YinAt(b, i, h)'
      PROVE  /\ h \in Y!Live \cup {y}
             /\ h \notin dropped
             /\ \A c \in Apps, j \in Places : YinAt(c, j, h)' => c = b /\ j = i
  <2>1. CASE h = y
    <3>1. \A c \in Apps, j \in Places : YinAt(c, j, y)' => c = a /\ j = n
      BY <1>2
    <3>2. QED
      BY <1>3, <1>5, <2>1, <3>1
  <2>2. CASE h # y
    <3>1. \A c \in Apps, j \in Places :
             YinAt(c, j, h)' =>
                IF c = a THEN j - d \in Places /\ YinAt(a, j - d, h)
                         ELSE YinAt(c, j, h)
      BY <2>2
    <3>2. \A c, e \in Apps, j, k \in Places :
             YinAt(c, j, h) /\ YinAt(e, k, h) =>
                h \in Y!Live /\ h \notin dropped /\ c = e /\ j = k
      BY DEF YinPlaced
    <3>3. h \in Y!Live /\ h \notin dropped
      BY <1>5, <3>1, <3>2
    <3>4. ASSUME NEW c \in Apps, NEW j \in Places, YinAt(c, j, h)'
          PROVE  c = b /\ j = i
      <4>1. c = a <=> b = a
        BY <1>5, <3>1, <3>2, <3>4
      <4>2. CASE b = a
        <5>1. j - d = i - d
          BY <1>5, <3>1, <3>2, <3>4, <4>1, <4>2
        <5>2. QED
          BY <4>1, <4>2, <5>1 DEF Places
      <4>3. CASE b # a
        BY <1>5, <3>1, <3>2, <3>4, <4>1, <4>3
      <4>4. QED
        BY <4>2, <4>3
    <3>5. QED
      BY <3>3, <3>4
  <2>3. QED
    BY <2>1, <2>2
<1>6. QED
  BY <1>4, <1>5 DEF YinPlaced

\* One is opened and takes place n from whoever was there.
LEMMA YinPushed ==
    ASSUME YinPlaced, NEW y \in Handles, y \notin Y!Live, Y!Live' = Y!Live \cup {y},
           NEW a \in Apps, NEW n \in Places,
           dropped' = dropped \cup {h \in Handles : YinAt(a, n, h)},
           \A h \in Handles, i \in Places :
              /\ \A b \in Apps \ {a} : YinAt(b, i, h)' <=> YinAt(b, i, h)
              /\ YinAt(a, i, h)' <=> IF i = n THEN h = y ELSE YinAt(a, i, h)
    PROVE  YinPlaced'
<1>1. Y!Live \subseteq Handles
  BY DEF Y!Live
<1>2. \A b \in Apps, j \in Places : ~ YinAt(b, j, y)
  BY DEF YinPlaced
<1>3. y \notin dropped'
  BY <1>2 DEF YinPlaced
<1>4. dropped' \subseteq Y!Live'
  BY <1>1 DEF YinPlaced
<1>5. \A h \in Y!Live' : h \in dropped' \/ \E b \in Apps, i \in Places : YinAt(b, i, h)'
  <2> SUFFICES ASSUME NEW h \in Y!Live', h \notin dropped'
               PROVE  \E b \in Apps, i \in Places : YinAt(b, i, h)'
    OBVIOUS
  <2>1. CASE h = y
    BY <2>1
  <2>2. CASE h # y
    <3>1. h \in Y!Live /\ h \in Handles /\ h \notin dropped
      BY <1>1, <2>2
    <3>2. PICK b \in Apps, i \in Places : YinAt(b, i, h)
      BY <3>1 DEF YinPlaced
    <3>3. ~ (b = a /\ i = n)
      BY <3>1, <3>2
    <3>4. YinAt(b, i, h)'
      BY <3>1, <3>2, <3>3
    <3>5. QED
      BY <3>4
  <2>3. QED
    BY <2>1, <2>2
<1>6. ASSUME NEW h \in Handles, NEW b \in Apps, NEW i \in Places, YinAt(b, i, h)'
      PROVE  /\ h \in Y!Live'
             /\ h \notin dropped'
             /\ \A c \in Apps, j \in Places : YinAt(c, j, h)' => c = b /\ j = i
  <2>1. CASE h = y
    <3>1. \A c \in Apps, j \in Places : YinAt(c, j, y)' => c = a /\ j = n
      BY <1>2
    <3>2. QED
      BY <1>3, <1>6, <2>1, <3>1
  <2>2. CASE h # y
    <3>1. \A c \in Apps, j \in Places :
             YinAt(c, j, h)' => YinAt(c, j, h) /\ ~ (c = a /\ j = n)
      BY <2>2
    <3>2. \A c, e \in Apps, j, k \in Places :
             YinAt(c, j, h) /\ YinAt(e, k, h) =>
                h \in Y!Live /\ h \notin dropped /\ c = e /\ j = k
      BY DEF YinPlaced
    <3>3. QED
      BY <1>6, <3>1, <3>2
  <2>3. QED
    BY <2>1, <2>2
<1>7. QED
  BY <1>4, <1>5, <1>6 DEF YinPlaced
-----------------------------------------------------------------------------
(* The pairs *)

\* What a place of a pool is.
LEMMA PlacesOf ==
    ASSUME Shapes, NEW a \in Pools
    PROVE  /\ a \in Apps
           /\ len_pool(a) \in Nat /\ len_pool(a) <= MaxLen
           /\ DOMAIN app[a].tdb_pool = 1 .. len_pool(a)
           /\ DOMAIN app[a].ydb_pool = 1 .. len_pool(a)
           /\ OpenSlots(a) \subseteq 1 .. len_pool(a)
           /\ Intact(a) => OpenSlots(a) = 1 .. len_pool(a)
           /\ \A i \in 1 .. len_pool(a) :
                 /\ i \in Places /\ i # 0
                 /\ app[a].tdb_pool[i] \in Handles \cup {Null}
                 /\ app[a].ydb_pool[i] \in Slot
           /\ app[a].tdb \in Handles \cup {Null} /\ app[a].ydb \in Handles \cup {Null}
<1> DEFINE p == app[a]
           n == len_pool(a)
<1>1. a \in Apps /\ Shape(p)
  BY DEF Pools, Shapes
<1>2. p \in DBPool /\ Len(p.tdb_pool) = n /\ Len(p.ydb_pool) = n /\ n <= MaxLen
  BY <1>1 DEF Shape, len_pool
<1>3. /\ p.tdb_pool \in Seq(Slot) /\ p.ydb_pool \in Seq(Slot)
      /\ p.tdb \in Handles \cup {Null} /\ p.ydb \in Handles \cup {Null}
  BY <1>2 DEF DBPool
<1>4. n \in Nat /\ DOMAIN p.tdb_pool = 1 .. n /\ DOMAIN p.ydb_pool = 1 .. n
  BY <1>2, <1>3
<1>5. \A i \in 1 .. n : p.tdb_pool[i] \in Slot /\ p.ydb_pool[i] \in Slot
  BY <1>2, <1>3
<1>6. \A i \in 1 .. n : p.tdb_pool[i] # Junk
  BY <1>1, <1>4 DEF Shape
<1>7. \A i \in 1 .. n : i \in Places /\ i # 0
  BY <1>2, <1>4, MaxLenAssumption DEF Places
<1>8. /\ OpenSlots(a) \subseteq 1 .. n
      /\ Intact(a) => OpenSlots(a) = 1 .. n
  BY <1>4 DEF OpenSlots, Intact
<1>9. QED
  BY <1>1, <1>2, <1>3, <1>4, <1>5, <1>6, <1>7, <1>8 DEF Slot

\* A place holds one handle.
LEMMA OneInAPlace ==
    ASSUME Shapes, NEW a \in Pools, NEW i \in Places
    PROVE  /\ \A g, h : TsiAt(a, i, g) /\ TsiAt(a, i, h) => g = h
           /\ \A g, h : YinAt(a, i, g) /\ YinAt(a, i, h) => g = h
<1>1. OpenSlots(a) \subseteq 1 .. len_pool(a) /\ \A j \in 1 .. len_pool(a) : j # 0
  BY PlacesOf
<1>2. QED
  BY <1>1 DEF TsiAt, YinAt

\* Only an application that has a pool has places.
LEMMA PlacesInPools ==
    ASSUME NEW a, NEW i, NEW h
    PROVE  TsiAt(a, i, h) \/ YinAt(a, i, h) => a \in Pools
BY DEF TsiAt, YinAt, LonePools

LEMMA PlacesInNewPools ==
    ASSUME NEW a, NEW i, NEW h
    PROVE  (TsiAt(a, i, h) \/ YinAt(a, i, h))' => a \in Pools'
BY DEF TsiAt, YinAt, LonePools

\* Handles are closed, one of each kind at most, t or y being no handle when
\* there is none: the others stay pairs.
LEMMA PairsLeft ==
    ASSUME Shapes, TsiPlaced, YinPlaced, PairsMatch, HalvesTogether,
           TsiPlaced', YinPlaced', NEW t, NEW y,
           \A g \in T!Live' : g \in T!Live /\ tHandle'[g] = tHandle[g],
           \A g \in Y!Live' : g \in Y!Live /\ yHandle'[g] = yHandle[g],
           mixed => mixed',
           \A a \in Pools' : JunkFree(a)' => JunkFree(a),
           \A h \in Handles, a \in Apps, i \in Places :
              /\ TsiAt(a, i, h)' <=> TsiAt(a, i, h) /\ h # t
              /\ YinAt(a, i, h)' <=> YinAt(a, i, h) /\ h # y,
           \A a \in Pools, i \in Places : JunkFree(a) /\ ~ mixed' =>
              (t \in Handles /\ TsiAt(a, i, t) <=> y \in Handles /\ YinAt(a, i, y))
    PROVE  PairsMatch' /\ HalvesTogether'
<1>1. ASSUME NEW a \in Pools', NEW i \in Places, NEW g \in Handles, NEW h \in Handles,
             JunkFree(a)', TsiAt(a, i, g)', YinAt(a, i, h)'
      PROVE  tHandle'[g].key = yHandle'[h].key
  <2>1. a \in Apps
    BY DEF Pools
  <2>2. TsiAt(a, i, g) /\ YinAt(a, i, h)
    BY <1>1, <2>1
  <2>3. a \in Pools /\ JunkFree(a)
    BY <1>1, <2>2, PlacesInPools
  <2>4. tHandle[g].key = yHandle[h].key
    BY <2>2, <2>3 DEF PairsMatch
  <2>5. g \in T!Live' /\ h \in Y!Live'
    BY <1>1, <2>1 DEF TsiPlaced, YinPlaced
  <2>6. QED
    BY <2>4, <2>5
<1>2. ASSUME NEW a \in Pools', NEW i \in Places, JunkFree(a)', ~ mixed'
      PROVE  (\E g \in Handles : TsiAt(a, i, g)') <=> (\E h \in Handles : YinAt(a, i, h)')
  <2>1. a \in Apps
    BY DEF Pools
  <2>2. JunkFree(a) /\ ~ mixed
    BY <1>2
  <2>3. CASE a \notin Pools
    BY <2>1, <2>3, PlacesInPools
  <2>4. CASE a \in Pools
    <3>1. (\E g \in Handles : TsiAt(a, i, g)) <=> (\E h \in Handles : YinAt(a, i, h))
      BY <2>2, <2>4 DEF HalvesTogether
    <3>2. t \in Handles /\ TsiAt(a, i, t) <=> y \in Handles /\ YinAt(a, i, y)
      BY <1>2, <2>2, <2>4
    <3>3. /\ \A g, h : TsiAt(a, i, g) /\ TsiAt(a, i, h) => g = h
          /\ \A g, h : YinAt(a, i, g) /\ YinAt(a, i, h) => g = h
      BY <2>4, OneInAPlace
    <3>4. \A h \in Handles : /\ TsiAt(a, i, h)' <=> TsiAt(a, i, h) /\ h # t
                             /\ YinAt(a, i, h)' <=> YinAt(a, i, h) /\ h # y
      BY <2>1
    <3>5. QED
      BY <3>1, <3>2, <3>3, <3>4
  <2>5. QED
    BY <2>3, <2>4
<1>3. PairsMatch'
  BY <1>1 DEF PairsMatch
<1>4. HalvesTogether'
  BY <1>2 DEF HalvesTogether
<1>5. QED
  BY <1>3, <1>4

\* A pair gets place n of application a, whose others move by d places.
Joined(a, n, d, t, y) ==
    \A h \in Handles, i \in Places :
       /\ \A b \in Apps \ {a} : TsiAt(b, i, h)' <=> TsiAt(b, i, h)
       /\ \A b \in Apps \ {a} : YinAt(b, i, h)' <=> YinAt(b, i, h)
       /\ TsiAt(a, i, h) => i + d \in Places /\ i + d # n
       /\ YinAt(a, i, h) => i + d \in Places /\ i + d # n
       /\ TsiAt(a, i, h)' <=> \/ i = n /\ h = t
                              \/ i - d \in Places /\ TsiAt(a, i - d, h)
       /\ YinAt(a, i, h)' <=> \/ i = n /\ h = y
                              \/ i - d \in Places /\ YinAt(a, i - d, h)

\* The pairs stay pairs, and the new one is one.
LEMMA PairsJoined ==
    ASSUME Shapes, TsiPlaced, YinPlaced, PairsMatch, HalvesTogether,
           NEW t \in Handles, NEW y \in Handles, y \notin Y!Live,
           NEW a \in Apps, NEW n \in Places, NEW d \in Nat,
           tHandle' = tHandle, mixed => mixed',
           \A g \in Y!Live : yHandle'[g] = yHandle[g],
           yHandle'[y].key = tHandle[t].key,
           \A b \in Pools' : JunkFree(b)' => b \notin Pools \/ JunkFree(b),
           Joined(a, n, d, t, y)
    PROVE  PairsMatch' /\ HalvesTogether'
<1> DEFINE From(b, i) == IF b = a THEN i - d ELSE i
           New(b, i) == b = a /\ i = n
<1>1. \A b \in Apps, i \in Places, h \in Handles :
         /\ TsiAt(b, i, h)' <=> \/ New(b, i) /\ h = t
                                \/ From(b, i) \in Places /\ TsiAt(b, From(b, i), h)
         /\ YinAt(b, i, h)' <=> \/ New(b, i) /\ h = y
                                \/ From(b, i) \in Places /\ YinAt(b, From(b, i), h)
  BY DEF Joined
<1>2. \A b \in Apps, i \in Places, h \in Handles :
         New(b, i) /\ From(b, i) \in Places =>
            ~ TsiAt(b, From(b, i), h) /\ ~ YinAt(b, From(b, i), h)
  <2> SUFFICES ASSUME NEW h \in Handles, n - d \in Places
               PROVE  ~ TsiAt(a, n - d, h) /\ ~ YinAt(a, n - d, h)
    OBVIOUS
  <2>1. (n - d) + d = n
    BY DEF Places
  <2>2. QED
    BY <2>1 DEF Joined
<1> HIDE DEF From, New
<1>3. ASSUME NEW b \in Pools', NEW i \in Places, NEW g \in Handles, NEW h \in Handles,
             JunkFree(b)', TsiAt(b, i, g)', YinAt(b, i, h)'
      PROVE  tHandle'[g].key = yHandle'[h].key
  <2>1. b \in Apps
    BY DEF Pools
  <2>2. CASE New(b, i)
    BY <1>1, <1>2, <1>3, <2>1, <2>2
  <2>3. CASE ~ New(b, i)
    <3>1. From(b, i) \in Places /\ TsiAt(b, From(b, i), g) /\ YinAt(b, From(b, i), h)
      BY <1>1, <1>3, <2>1, <2>3
    <3>2. b \in Pools /\ JunkFree(b)
      BY <1>3, <3>1, PlacesInPools
    <3>3. tHandle[g].key = yHandle[h].key
      BY <3>1, <3>2 DEF PairsMatch
    <3>4. h \in Y!Live
      BY <2>1, <3>1 DEF YinPlaced
    <3>5. QED
      BY <3>3, <3>4
  <2>4. QED
    BY <2>2, <2>3
<1>4. ASSUME NEW b \in Pools', NEW i \in Places, JunkFree(b)', ~ mixed'
      PROVE  (\E g \in Handles : TsiAt(b, i, g)') <=> (\E h \in Handles : YinAt(b, i, h)')
  <2>1. b \in Apps
    BY DEF Pools
  <2>2. CASE New(b, i)
    BY <1>1, <2>1, <2>2
  <2>3. CASE ~ New(b, i) /\ b \in Pools /\ From(b, i) \in Places
    <3>1. JunkFree(b) /\ ~ mixed
      BY <1>4, <2>3
    <3>2. (\E g \in Handles : TsiAt(b, From(b, i), g)) <=>
             (\E h \in Handles : YinAt(b, From(b, i), h))
      BY <2>3, <3>1 DEF HalvesTogether
    <3>3. \A h \in Handles : /\ TsiAt(b, i, h)' <=> TsiAt(b, From(b, i), h)
                             /\ YinAt(b, i, h)' <=> YinAt(b, From(b, i), h)
      BY <1>1, <2>1, <2>3
    <3>4. QED
      BY <3>2, <3>3
  <2>4. CASE ~ New(b, i) /\ ~ (b \in Pools /\ From(b, i) \in Places)
    BY <1>1, <2>1, <2>4, PlacesInPools
  <2>5. QED
    BY <2>2, <2>3, <2>4
<1>5. PairsMatch'
  BY <1>3 DEF PairsMatch
<1>6. HalvesTogether'
  BY <1>4 DEF HalvesTogether
<1>7. QED
  BY <1>5, <1>6
-----------------------------------------------------------------------------
(* The operations preserve the invariant. *)

\* The records of the calls are told apart by their first field.
LEMMA KindsOfCalls ==
    /\ Null \notin Opening /\ Null \notin Destroying /\ Null \notin DBPool
    /\ \A c \in Opening : c \notin Destroying
    /\ \A c \in Opening : c.app \in Apps /\ c.t \in Handles /\ c.name \in Names
    /\ \A c \in Destroying : c.app \in Apps /\ c.slot \in Nat
<1>1. \A c \in Opening : c.op # "destroy"
  BY DEF Opening
<1>2. \A c \in Destroying : c.op = "destroy"
  BY DEF Destroying
<1>3. QED
  BY <1>1, <1>2, NullAssumption DEF Opening, Destroying

\* A call opens both files with a key of libtabe.
LEMMA KeysOpened ==
    ASSUME NEW op, NEW n \in Names
    PROVE  KeyOf(op, n) \in T!Key /\ KeyOf(op, n) \in Y!Key
BY DEF KeyOf, T!Key, Y!Key

\* Calls that change no pool move no handle.
LEMMA PlacesKept ==
    ASSUME UNCHANGED app, \A a \in Pools : OpenSlots(a)' = OpenSlots(a)
    PROVE  /\ Pools' = Pools
           /\ \A a : JunkFree(a)' <=> JunkFree(a)
           /\ \A a, i, h : /\ TsiAt(a, i, h)' <=> TsiAt(a, i, h)
                           /\ YinAt(a, i, h)' <=> YinAt(a, i, h)
<1>1. Pools' = Pools
  BY DEF Pools
<1>2. LonePools' = LonePools
  BY <1>1 DEF LonePools, len_pool
<1>3. \A a : JunkFree(a)' <=> JunkFree(a)
  BY DEF JunkFree
<1>4. \A a, i, h : /\ TsiAt(a, i, h)' <=> TsiAt(a, i, h)
                   /\ YinAt(a, i, h)' <=> YinAt(a, i, h)
  BY <1>1, <1>2 DEF TsiAt, YinAt
<1>5. QED
  BY <1>1, <1>3, <1>4

\* No application holds a pool at the start.
LEMMA InitInv == Init => IInv
<1> SUFFICES ASSUME Init PROVE IInv
  OBVIOUS
<1>1. TP!IInv
  <2>1. TP!Init
    BY DEF Init, T!Init, TP!Init
  <2>2. QED
    BY <2>1, PoolAssumptions, TP!InitInv
<1>2. YP!IInv
  <2>1. YP!Init
    BY DEF Init, Y!Init, YP!Init
  <2>2. QED
    BY <2>1, YinPoolAssumptions, YP!InitInv
<1>3. Pools = {} /\ LonePools = {}
  BY DEF Init, Pools, LonePools
<1>4. T!Live = {} /\ Y!Live = {}
  BY DEF Init, T!Init, Y!Init, T!Live, Y!Live
<1>5. call \notin Opening /\ call \notin Destroying /\ InHand = {}
  BY KindsOfCalls DEF Init, InHand
<1>6. \A a, i, h : ~ TsiAt(a, i, h) /\ ~ YinAt(a, i, h)
  BY <1>3 DEF TsiAt, YinAt
<1>7. PoolInv
  BY <1>3, <1>4, <1>5, <1>6
     DEF AppTyped, PoolInv, Init, Shapes, CallInProgress, TsiPlaced, YinPlaced, PairsMatch,
         HalvesTogether, PrimaryPlaced
<1>8. QED
  BY <1>1, <1>2, <1>7 DEF IInv

\* What stays when no pool, no handle and no slot is touched.
LEMMA QuietInv ==
    ASSUME IInv, UNCHANGED <<tVars, yVars, app, dropped, mixed>>,
           call' \in Opening \cup Destroying \cup {Null},
           CallInProgress', InHand' = InHand,
           \A a \in Pools : OpenSlots(a)' = OpenSlots(a),
           \A a \in Pools : Intact(a)' => Intact(a)
    PROVE  IInv'
<1>1. /\ TP!IInv' /\ T!Live' = T!Live /\ tHandle' = tHandle
      /\ YP!IInv' /\ Y!Live' = Y!Live /\ yHandle' = yHandle
  BY TsiUnchanged, YinUnchanged DEF IInv
<1>2. /\ Pools' = Pools
      /\ \A a : JunkFree(a)' <=> JunkFree(a)
      /\ \A a, i, h : /\ TsiAt(a, i, h)' <=> TsiAt(a, i, h)
                      /\ YinAt(a, i, h)' <=> YinAt(a, i, h)
  BY PlacesKept
<1>3. TsiPlaced'
  BY <1>1, <1>2, TsiKept DEF IInv, PoolInv
<1>4. YinPlaced'
  BY <1>1, <1>2, YinKept DEF IInv, PoolInv
<1>5. Shapes'
  BY <1>2 DEF IInv, PoolInv, Shapes
<1>6. PairsMatch' /\ HalvesTogether'
  BY <1>1, <1>2 DEF IInv, PoolInv, PairsMatch, HalvesTogether
<1>7. PrimaryPlaced'
  BY <1>2 DEF IInv, PoolInv, PrimaryPlaced, PrimaryOf
<1>8. QED
  BY <1>1, <1>3, <1>4, <1>5, <1>6, <1>7 DEF AppTyped, IInv, PoolInv

\* bimsDestroy begins: its first slot is the next to close.
LEMMA BeginDestroyInv ==
    ASSUME IInv, NEW a \in Apps, BeginDestroy(a)
    PROVE  IInv'
<1>1. /\ call = Null /\ app[a] # Null /\ len_pool(a) > 0
      /\ call' = [op |-> "destroy", app |-> a, slot |-> 1]
      /\ UNCHANGED <<tVars, yVars, app, dropped, mixed>>
  BY DEF BeginDestroy
<1>2. call' \in Destroying
  BY <1>1 DEF Destroying
<1>3. call \notin Destroying /\ call \notin Opening /\ call' \notin Opening
  BY <1>1, <1>2, KindsOfCalls
<1>4. InHand' = InHand
  BY <1>3 DEF InHand
<1>5. a \in Pools /\ DOMAIN app[a].tdb_pool = 1 .. len_pool(a) /\ len_pool(a) \in Nat
  BY <1>1, PlacesOf DEF Pools, IInv, PoolInv
<1>6. CallInProgress'
  BY <1>1, <1>3, <1>5 DEF CallInProgress
<1>7. ASSUME NEW b \in Pools PROVE OpenSlots(b)' = OpenSlots(b)
  <2>1. DOMAIN app[b].tdb_pool = 1 .. len_pool(b)
    BY PlacesOf DEF IInv, PoolInv
  <2>2. {i \in 1 .. len_pool(b) : i >= 1} = 1 .. len_pool(b)
    OBVIOUS
  <2>3. app' = app /\ call'.app = a /\ call'.slot = 1
    BY <1>1
  <2>4. OpenSlots(b) = 1 .. len_pool(b)
    BY <1>3, <2>1 DEF OpenSlots
  <2>5. OpenSlots(b)' = 1 .. len_pool(b)
    BY <2>1, <2>2, <2>3 DEF OpenSlots
  <2>6. QED
    BY <2>4, <2>5
<1>8. \A b \in Pools : Intact(b)' => Intact(b)
  BY <1>3 DEF Intact
<1>9. QED
  BY <1>1, <1>2, <1>4, <1>6, <1>7, <1>8, QuietInv

\* The first half of a call, which has its TsiDB in hand afterwards.
LEMMA OpenTsiInv ==
    ASSUME IInv, NEW op \in {"init", "user", "append", "prepend"}, NEW a \in Apps,
           NEW n \in Names, OpenTsi(op, a, n)
    PROVE  IInv'
<1>1. call = Null /\ MayOpen(op, a) /\ UNCHANGED <<yVars, app, dropped, mixed>>
  BY DEF OpenTsi
<1>2. call \notin Destroying /\ call \notin Opening /\ InHand = {}
  BY <1>1, KindsOfCalls DEF InHand
<1>3. CASE T!OpenFails(KeyOf(op, n)) /\ UNCHANGED call
  <2>1. UNCHANGED tVars
    BY <1>3 DEF T!OpenFails, T!vars, tVars
  <2>2. CallInProgress'
    BY <1>2, <1>3 DEF CallInProgress
  <2>3. InHand' = InHand
    BY <1>3 DEF InHand
  <2>4. \A b \in Pools : OpenSlots(b)' = OpenSlots(b)
    BY <1>1, <1>3 DEF OpenSlots
  <2>5. \A b \in Pools : Intact(b)' => Intact(b)
    BY <1>3 DEF Intact
  <2>6. call' \in Opening \cup Destroying \cup {Null}
    BY <1>1, <1>3
  <2>7. QED
    BY <1>1, <2>1, <2>2, <2>3, <2>4, <2>5, <2>6, QuietInv
<1>4. ASSUME NEW t \in Handles, T!Open(t, KeyOf(op, n)),
             call' = [op |-> op, app |-> a, name |-> n, t |-> t]
      PROVE  IInv'
  <2>1. /\ TP!IInv'
        /\ t \notin T!Live
        /\ T!Live' = T!Live \cup {t}
        /\ tHandle'[t].key = KeyOf(op, n)
        /\ \A g \in T!Live : tHandle'[g] = tHandle[g]
    BY <1>4, KeysOpened, TsiOpened DEF IInv
  <2>2. YP!IInv' /\ Y!Live' = Y!Live /\ yHandle' = yHandle
    BY <1>1, YinUnchanged DEF IInv
  <2>3. call' \in Opening
    BY <1>4 DEF Opening
  <2>4. call' \notin Destroying
    BY <2>3, KindsOfCalls
  <2>5. InHand' = {t}
    BY <1>4, <2>3 DEF InHand
  <2>6. \A b \in Pools : OpenSlots(b)' = OpenSlots(b)
    BY <1>1, <1>2, <2>4 DEF OpenSlots
  <2>7. /\ Pools' = Pools
        /\ \A b : JunkFree(b)' <=> JunkFree(b)
        /\ \A b, i, h : /\ TsiAt(b, i, h)' <=> TsiAt(b, i, h)
                        /\ YinAt(b, i, h)' <=> YinAt(b, i, h)
    BY <1>1, <2>6, PlacesKept
  <2>8. TsiPlaced'
    BY <1>2, <2>1, <2>5, <2>7, TsiTaken DEF IInv, PoolInv
  <2>9. YinPlaced'
    BY <1>1, <2>2, <2>7, YinKept DEF IInv, PoolInv
  <2>10. Shapes'
    BY <1>1, <2>7 DEF IInv, PoolInv, Shapes
  <2>11. PairsMatch'
    <3> SUFFICES ASSUME NEW b \in Pools, NEW i \in Places, NEW g \in Handles,
                        NEW h \in Handles, JunkFree(b), TsiAt(b, i, g), YinAt(b, i, h)
                 PROVE  tHandle'[g].key = yHandle'[h].key
      BY <2>7 DEF PairsMatch
    <3>1. tHandle[g].key = yHandle[h].key
      BY DEF IInv, PoolInv, PairsMatch
    <3>2. b \in Apps
      BY DEF Pools
    <3>3. g \in T!Live
      BY <3>2 DEF IInv, PoolInv, TsiPlaced
    <3>4. QED
      BY <2>1, <2>2, <3>1, <3>3
  <2>12. HalvesTogether'
    BY <1>1, <2>7 DEF IInv, PoolInv, HalvesTogether
  <2>13. PrimaryPlaced'
    <3>1. \A b : Intact(b)
      BY <1>2 DEF Intact
    <3>2. QED
      BY <1>1, <2>7, <3>1 DEF IInv, PoolInv, PrimaryPlaced, PrimaryOf
  <2>14. CallInProgress'
    <3>1. call'.op = op /\ call'.app = a /\ call'.name = n /\ call'.t = t
      BY <1>4
    <3>2. op = "init" <=> app[a] = Null
      BY <1>1 DEF MayOpen
    <3>3. app[a] # Null => len_pool(a) < MaxLen
      BY <1>1 DEF MayOpen
    <3>4. len_pool(a)' = len_pool(a)
      BY <1>1 DEF len_pool
    <3>5. QED
      BY <1>1, <2>1, <2>4, <3>1, <3>2, <3>3, <3>4 DEF CallInProgress
  <2>15. QED
    BY <1>1, <2>1, <2>2, <2>3, <2>8, <2>9, <2>10, <2>11, <2>12, <2>13, <2>14
       DEF AppTyped, IInv, PoolInv
<1>5. QED
  BY <1>3, <1>4 DEF OpenTsi

\* A primary pair that loses no handle stays where it is.
LEMMA PrimaryStays ==
    ASSUME Shapes, NEW b \in Pools, PrimaryOf(b), app'[b] = app[b], mixed => mixed',
           NEW t, NEW y,
           \A h \in Handles, i \in Places :
              /\ TsiAt(b, i, h)' <=> TsiAt(b, i, h) /\ h # t
              /\ YinAt(b, i, h)' <=> YinAt(b, i, h) /\ h # y,
           app[b].tdb \in Handles => app[b].tdb # t,
           app[b].ydb \in Handles => app[b].ydb # y \/ mixed' \/ ~ JunkFree(b)
    PROVE  PrimaryOf(b)'
<1>1. app[b].tdb \in Handles \cup {Null} /\ app[b].ydb \in Handles \cup {Null}
  BY PlacesOf
<1>2. JunkFree(b)' <=> JunkFree(b)
  BY DEF JunkFree
<1>3. ASSUME app[b].tdb # Null
      PROVE  \E i \in Places : TsiAt(b, i, app[b].tdb)'
  BY <1>1, <1>3 DEF PrimaryOf
<1>4. ASSUME JunkFree(b), ~ mixed'
      PROVE  /\ app[b].tdb = Null <=> app[b].ydb = Null
             /\ app[b].tdb # Null =>
                   \E i \in Places : TsiAt(b, i, app[b].tdb)' /\ YinAt(b, i, app[b].ydb)'
  BY <1>1, <1>4 DEF PrimaryOf
<1> DEFINE p == app[b]
<1>5. app'[b] = p
  OBVIOUS
<1>6. (\E i \in Places : TsiAt(b, i, app[b].tdb))' <=>
         \E i \in Places : TsiAt(b, i, p.tdb)'
  BY DEF TsiAt
<1>7. (\E i \in Places : TsiAt(b, i, app[b].tdb) /\ YinAt(b, i, app[b].ydb))' <=>
         \E i \in Places : TsiAt(b, i, p.tdb)' /\ YinAt(b, i, p.ydb)'
  BY DEF TsiAt, YinAt
<1>8. QED
  BY <1>2, <1>3, <1>4, <1>6, <1>7 DEF PrimaryOf

\* Calls that close one handle of each kind at most, where t or y is no
\* handle when there is none to close.
LEMMA ClosingInv ==
    ASSUME IInv, TP!IInv', YP!IInv', NEW t, NEW y,
           AppTyped',
           call' \in Opening \cup Destroying \cup {Null},
           dropped' = dropped, mixed' \in BOOLEAN, mixed => mixed',
           Shapes', CallInProgress', PrimaryPlaced',
           T!Live' = T!Live \ {t}, \A g \in T!Live' : tHandle'[g] = tHandle[g],
           Y!Live' = Y!Live \ {y}, \A g \in Y!Live' : yHandle'[g] = yHandle[g],
           InHand' = InHand \ {t}, y \notin dropped,
           \A a \in Pools' : JunkFree(a)' => JunkFree(a),
           \A h \in Handles, a \in Apps, i \in Places :
              /\ TsiAt(a, i, h)' <=> TsiAt(a, i, h) /\ h # t
              /\ YinAt(a, i, h)' <=> YinAt(a, i, h) /\ h # y,
           \A a \in Pools, i \in Places : JunkFree(a) /\ ~ mixed' =>
              (t \in Handles /\ TsiAt(a, i, t) <=> y \in Handles /\ YinAt(a, i, y))
    PROVE  IInv'
<1>1. /\ Shapes /\ TsiPlaced /\ YinPlaced /\ PairsMatch /\ HalvesTogether
      /\ dropped \subseteq Handles
  BY DEF IInv, PoolInv
<1>2. TsiPlaced'
  BY <1>1, TsiRemoved
<1>3. YinPlaced'
  BY <1>1, YinRemoved
<1>4. /\ \A g \in T!Live' : g \in T!Live /\ tHandle'[g] = tHandle[g]
      /\ \A g \in Y!Live' : g \in Y!Live /\ yHandle'[g] = yHandle[g]
  OBVIOUS
<1>5. PairsMatch' /\ HalvesTogether'
  BY <1>1, <1>2, <1>3, <1>4, PairsLeft
<1>6. QED
  BY <1>1, <1>2, <1>3, <1>5 DEF IInv, PoolInv

\* The places of a whole pool.
LEMMA WholePool ==
    ASSUME Shapes, NEW a \in Pools, Intact(a), NEW i \in Places, NEW h
    PROVE  /\ TsiAt(a, i, h) <=> IF len_pool(a) = 0 THEN i = 0 /\ h = app[a].tdb
                                 ELSE i \in 1 .. len_pool(a) /\ h = app[a].tdb_pool[i]
           /\ YinAt(a, i, h) <=> IF len_pool(a) = 0 THEN i = 0 /\ h = app[a].ydb
                                 ELSE i \in 1 .. len_pool(a) /\ h = app[a].ydb_pool[i]
<1>1. OpenSlots(a) = 1 .. len_pool(a) /\ len_pool(a) \in Nat
  BY PlacesOf
<1>2. QED
  BY <1>1 DEF TsiAt, YinAt, LonePools

\* The places of the other applications do not change.
LEMMA OthersKept ==
    ASSUME NEW b \in Apps, app'[b] = app[b], OpenSlots(b)' = OpenSlots(b)
    PROVE  /\ b \in Pools' <=> b \in Pools
           /\ JunkFree(b)' <=> JunkFree(b)
           /\ \A i, h : /\ TsiAt(b, i, h)' <=> TsiAt(b, i, h)
                        /\ YinAt(b, i, h)' <=> YinAt(b, i, h)
<1>1. b \in Pools' <=> b \in Pools
  BY DEF Pools
<1>2. b \in LonePools' <=> b \in LonePools
  BY <1>1 DEF LonePools, len_pool
<1>3. QED
  BY <1>1, <1>2 DEF TsiAt, YinAt, JunkFree

\* The second half of a call undoes the first.
LEMMA OpenYinFailsInv ==
    ASSUME IInv, call \in Opening, T!Close(call.t), Y!OpenFails(KeyOf(call.op, call.name)),
           UNCHANGED <<app, dropped, mixed>>, call' = Null
    PROVE  IInv'
<1> DEFINE t == call.t
<1>1. /\ TP!IInv' /\ T!Live' = T!Live \ {t}
      /\ \A g \in T!Live' : tHandle'[g] = tHandle[g]
  BY TsiClosed DEF IInv
<1>2. UNCHANGED yVars
  BY DEF Y!OpenFails, Y!vars, yVars
<1>3. YP!IInv' /\ Y!Live' = Y!Live /\ yHandle' = yHandle
  BY <1>2, YinUnchanged DEF IInv
<1>4. /\ call \notin Destroying /\ call' \notin Opening /\ call' \notin Destroying
      /\ call' \in Opening \cup Destroying \cup {Null}
  BY KindsOfCalls
<1>5. InHand = {t} /\ InHand' = {}
  BY <1>4 DEF InHand
<1>6. \A b \in Pools : OpenSlots(b)' = OpenSlots(b)
  BY <1>4 DEF OpenSlots
<1>7. /\ Pools' = Pools
      /\ \A b : JunkFree(b)' <=> JunkFree(b)
      /\ \A b, i, h : /\ TsiAt(b, i, h)' <=> TsiAt(b, i, h)
                      /\ YinAt(b, i, h)' <=> YinAt(b, i, h)
  BY <1>6, PlacesKept
<1>8. \A b \in Apps, i \in Places : t \in Handles => ~ TsiAt(b, i, t)
  BY <1>5 DEF IInv, PoolInv, TsiPlaced
<1>9. \A h \in Handles, b \in Apps, i \in Places :
         /\ TsiAt(b, i, h)' <=> TsiAt(b, i, h) /\ h # t
         /\ YinAt(b, i, h)' <=> YinAt(b, i, h) /\ h # Null
  BY <1>7, <1>8, PointerAssumption
<1>10. Null \notin dropped /\ Y!Live' = Y!Live \ {Null}
  BY <1>3, PointerAssumption DEF IInv, PoolInv, YinPlaced, Y!Live
<1>11. Shapes'
  BY <1>7 DEF IInv, PoolInv, Shapes
<1>12. CallInProgress'
  BY <1>4 DEF CallInProgress
<1>13. PrimaryPlaced'
  <2>1. \A b : Intact(b)
    BY <1>4 DEF Intact
  <2>2. QED
    BY <1>7, <2>1 DEF IInv, PoolInv, PrimaryPlaced, PrimaryOf
<1>14. \A b \in Pools, i \in Places :
          t \in Handles /\ TsiAt(b, i, t) <=> Null \in Handles /\ YinAt(b, i, Null)
  BY <1>8, PointerAssumption DEF Pools
<1>15. /\ AppTyped' /\ mixed' \in BOOLEAN /\ dropped' = dropped
       /\ mixed => mixed'
       /\ \A g \in Y!Live' : yHandle'[g] = yHandle[g]
       /\ InHand' = InHand \ {t}
       /\ \A b \in Pools' : JunkFree(b)' => JunkFree(b)
  BY <1>3, <1>5, <1>7 DEF AppTyped, IInv, PoolInv
<1> HIDE DEF t
<1>16. QED
  BY <1>1, <1>3, <1>4, <1>9, <1>10, <1>11, <1>12, <1>13, <1>14, <1>15, ClosingInv

\* The last handles of application a are closed, and its pool is freed.
LEMMA PoolGoneInv ==
    ASSUME IInv, NEW a \in Pools, NEW t, NEW y,
           AppTyped', app'[a] = Null,
           \A b \in Apps \ {a} : app'[b] = app[b],
           call' = Null, UNCHANGED <<dropped, mixed>>,
           call \notin Opening, call \in Destroying => call.app = a,
           TP!IInv', T!Live' = T!Live \ {t}, \A g \in T!Live' : tHandle'[g] = tHandle[g],
           YP!IInv', Y!Live' = Y!Live \ {y}, \A g \in Y!Live' : yHandle'[g] = yHandle[g],
           y \notin dropped,
           \A i \in Places, h \in Handles : /\ TsiAt(a, i, h) => h = t
                                            /\ YinAt(a, i, h) => h = y,
           \A b \in Apps, i \in Places : /\ t \in Handles /\ TsiAt(b, i, t) => b = a
                                         /\ y \in Handles /\ YinAt(b, i, y) => b = a,
           \A i \in Places : JunkFree(a) /\ ~ mixed =>
              (t \in Handles /\ TsiAt(a, i, t) <=> y \in Handles /\ YinAt(a, i, y))
    PROVE  IInv'
<1>1. call' \notin Opening /\ call' \notin Destroying /\ InHand = {} /\ InHand' = {}
  BY KindsOfCalls DEF InHand
<1>2. Shapes /\ a \in Apps
  BY DEF Pools, IInv, PoolInv
<1>3. /\ AppTyped /\ AppTyped'
      /\ app'[a] = Null /\ \A b \in Apps \ {a} : app'[b] = app[b]
  BY <1>2 DEF IInv, PoolInv
<1>4. a \notin Pools'
  BY <1>3 DEF Pools
<1>5. \A b \in Apps \ {a} : /\ b \in Pools' <=> b \in Pools
                            /\ JunkFree(b)' <=> JunkFree(b)
                            /\ \A i, h : /\ TsiAt(b, i, h)' <=> TsiAt(b, i, h)
                                         /\ YinAt(b, i, h)' <=> YinAt(b, i, h)
  <2>1. \A b \in Apps \ {a} : OpenSlots(b)' = OpenSlots(b)
    BY <1>1, <1>3 DEF OpenSlots
  <2>2. QED
    BY <1>3, <2>1, OthersKept
<1>6. \A h \in Handles, b \in Apps, i \in Places :
         /\ TsiAt(b, i, h)' <=> TsiAt(b, i, h) /\ h # t
         /\ YinAt(b, i, h)' <=> YinAt(b, i, h) /\ h # y
  <2> SUFFICES ASSUME NEW h \in Handles, NEW b \in Apps, NEW i \in Places
               PROVE  /\ TsiAt(b, i, h)' <=> TsiAt(b, i, h) /\ h # t
                      /\ YinAt(b, i, h)' <=> YinAt(b, i, h) /\ h # y
    OBVIOUS
  <2>1. CASE b = a
    <3>1. ~ TsiAt(a, i, h)' /\ ~ YinAt(a, i, h)'
      BY <1>4, PlacesInNewPools
    <3>2. QED
      BY <2>1, <3>1
  <2>2. CASE b # a
    BY <1>5, <2>2
  <2>3. QED
    BY <2>1, <2>2
<1>7. Shapes'
  <2> SUFFICES ASSUME NEW b \in Pools' PROVE Shape(app'[b])
    BY DEF Shapes
  <2>1. b \in Apps \ {a} /\ b \in Pools
    BY <1>4, <1>5 DEF Pools
  <2>2. QED
    BY <1>2, <1>3, <2>1 DEF Shapes
<1>8. CallInProgress'
  BY <1>1 DEF CallInProgress
<1>9. \A b \in Pools' : JunkFree(b)' => JunkFree(b)
  BY <1>4, <1>5 DEF Pools
<1>10. PrimaryPlaced'
  <2> SUFFICES ASSUME NEW b \in Pools' PROVE PrimaryOf(b)'
    BY DEF PrimaryPlaced
  <2>1. b \in Apps \ {a} /\ b \in Pools
    BY <1>4, <1>5 DEF Pools
  <2>2. PrimaryOf(b)
    BY <2>1 DEF IInv, PoolInv, PrimaryPlaced, Intact
  <2>3. \A i \in Places : /\ ~ (t \in Handles /\ TsiAt(b, i, t))
                          /\ ~ (y \in Handles /\ YinAt(b, i, y))
    BY <2>1
  <2>4. app'[b] = app[b] /\ (mixed => mixed')
    BY <1>3, <2>1
  <2>5. /\ app[b].tdb \in Handles => app[b].tdb # t
        /\ app[b].ydb \in Handles => app[b].ydb # y \/ mixed' \/ ~ JunkFree(b)
    <3>1. app[b].tdb \in Handles => \E i \in Places : TsiAt(b, i, app[b].tdb)
      BY <2>2, PointerAssumption DEF PrimaryOf
    <3>2. JunkFree(b) /\ ~ mixed /\ app[b].ydb \in Handles =>
             \E i \in Places : YinAt(b, i, app[b].ydb)
      BY <2>2, PointerAssumption DEF PrimaryOf
    <3>3. app[b].tdb \in Handles => app[b].tdb # t
      BY <2>3, <3>1
    <3>4. JunkFree(b) /\ ~ mixed /\ app[b].ydb \in Handles => app[b].ydb # y
      BY <2>3, <3>2
    <3>5. QED
      BY <2>4, <3>3, <3>4
  <2>6. \A h \in Handles, i \in Places :
           /\ TsiAt(b, i, h)' <=> TsiAt(b, i, h) /\ h # t
           /\ YinAt(b, i, h)' <=> YinAt(b, i, h) /\ h # y
    BY <1>6, <2>1
  <2>7. QED
    BY <1>2, <2>1, <2>2, <2>4, <2>5, <2>6, PrimaryStays
<1>11. \A b \in Pools, i \in Places : JunkFree(b) /\ ~ mixed' =>
          (t \in Handles /\ TsiAt(b, i, t) <=> y \in Handles /\ YinAt(b, i, y))
  BY DEF Pools
<1>12. /\ mixed' \in BOOLEAN /\ dropped' = dropped /\ (mixed => mixed')
       /\ InHand' = InHand \ {t} /\ call' \in Opening \cup Destroying \cup {Null}
  BY <1>1 DEF IInv, PoolInv
<1>13. QED
  BY <1>3, <1>6, <1>7, <1>8, <1>9, <1>10, <1>11, <1>12, ClosingInv

\* bimsDestroy on a primary pair that is alone.
LEMMA DestroyPrimaryInv ==
    ASSUME IInv, NEW a \in Apps, DestroyPrimary(a)
    PROVE  IInv'
<1> DEFINE t == app[a].tdb
           y == app[a].ydb
<1>1. /\ call = Null /\ a \in Pools /\ len_pool(a) = 0
      /\ T!Close(t) /\ Y!Close(y)
      /\ app' = [app EXCEPT ![a] = Null] /\ UNCHANGED <<call, dropped, mixed>>
  BY DEF DestroyPrimary, Pools
<1>2. /\ TP!IInv' /\ T!Live' = T!Live \ {t}
      /\ \A g \in T!Live' : tHandle'[g] = tHandle[g]
      /\ YP!IInv' /\ Y!Live' = Y!Live \ {y}
      /\ \A g \in Y!Live' : yHandle'[g] = yHandle[g]
  BY <1>1, TsiClosed, YinClosed DEF IInv
<1>3. call \notin Opening /\ call \notin Destroying /\ call' = Null
  BY <1>1, KindsOfCalls
<1>4. Shapes /\ Intact(a)
  BY <1>3 DEF Intact, IInv, PoolInv
<1>5. t \in Handles /\ y \in Handles
  <2>1. Shape(app[a]) /\ Len(app[a].tdb_pool) = 0
    BY <1>1, <1>4 DEF Shapes, len_pool
  <2>2. QED
    BY <2>1 DEF Shape
<1>6. \A i \in Places : \A h : /\ TsiAt(a, i, h) <=> i = 0 /\ h = t
                               /\ YinAt(a, i, h) <=> i = 0 /\ h = y
  BY <1>1, <1>4, WholePool
<1>7. 0 \in Places
  BY MaxLenAssumption DEF Places
<1>8. /\ \A b \in Apps, i \in Places : TsiAt(b, i, t) => b = a
      /\ \A b \in Apps, i \in Places : YinAt(b, i, y) => b = a
      /\ y \notin dropped
  BY <1>5, <1>6, <1>7 DEF IInv, PoolInv, TsiPlaced, YinPlaced
<1>9. \A i \in Places : (t \in Handles /\ TsiAt(a, i, t) <=> y \in Handles /\ YinAt(a, i, y))
  BY <1>5, <1>6
<1>10. /\ AppTyped'
       /\ app'[a] = Null /\ \A b \in Apps \ {a} : app'[b] = app[b]
  BY <1>1 DEF AppTyped, IInv, PoolInv
<1> HIDE DEF t, y
<1>11. QED
  BY <1>10, <1>1, <1>2, <1>3, <1>6, <1>8, <1>9, PoolGoneInv

\* A slot may have no handle to close.
LEMMA TsiClosedOrNot ==
    ASSUME TP!IInv, NEW u, IF u \in Handles THEN T!Close(u) ELSE UNCHANGED tVars,
           NEW t, t = IF u \in Handles THEN u ELSE Null
    PROVE  /\ TP!IInv'
           /\ T!Live' = T!Live \ {t}
           /\ \A g \in T!Live' : tHandle'[g] = tHandle[g]
<1>1. CASE u \in Handles
  BY <1>1, TsiClosed
<1>2. CASE u \notin Handles
  <2>1. TP!IInv' /\ T!Live' = T!Live /\ tHandle' = tHandle
    BY <1>2, TsiUnchanged
  <2>2. t \notin T!Live
    BY <1>2, PointerAssumption DEF T!Live
  <2>3. QED
    BY <2>1, <2>2
<1>3. QED
  BY <1>1, <1>2

LEMMA YinClosedOrNot ==
    ASSUME YP!IInv, NEW v, IF v \in Handles THEN Y!Close(v) ELSE UNCHANGED yVars,
           NEW y, y = IF v \in Handles THEN v ELSE Null
    PROVE  /\ YP!IInv'
           /\ Y!Live' = Y!Live \ {y}
           /\ \A g \in Y!Live' : yHandle'[g] = yHandle[g]
<1>1. CASE v \in Handles
  BY <1>1, YinClosed
<1>2. CASE v \notin Handles
  <2>1. YP!IInv' /\ Y!Live' = Y!Live /\ yHandle' = yHandle
    BY <1>2, YinUnchanged
  <2>2. y \notin Y!Live
    BY <1>2, PointerAssumption DEF Y!Live
  <2>3. QED
    BY <2>1, <2>2
<1>3. QED
  BY <1>1, <1>2

\* One turn of the loop of bimsDestroy.
LEMMA DestroySlotInv ==
    ASSUME IInv, DestroySlot
    PROVE  IInv'
<1>1. PICK a \in Apps : a = call.app
  BY KindsOfCalls DEF DestroySlot
<1>2. PICK s \in Nat : s = call.slot
  BY KindsOfCalls DEF DestroySlot
<1>3. PICK n : n = len_pool(a)
  OBVIOUS
<1>4. PICK t : t = IF app[a].tdb_pool[s] \in Handles THEN app[a].tdb_pool[s] ELSE Null
  OBVIOUS
<1>5. PICK y : y = IF app[a].ydb_pool[s] \in Handles THEN app[a].ydb_pool[s] ELSE Null
  OBVIOUS
<1>6. /\ call \in Destroying /\ UNCHANGED <<dropped, mixed>>
      /\ IF app[a].tdb_pool[s] \in Handles THEN T!Close(app[a].tdb_pool[s])
                                           ELSE UNCHANGED tVars
      /\ IF app[a].ydb_pool[s] \in Handles THEN Y!Close(app[a].ydb_pool[s])
                                           ELSE UNCHANGED yVars
      /\ IF s < n THEN call' = [call EXCEPT !.slot = s + 1] /\ UNCHANGED app
                  ELSE call' = Null /\ app' = [app EXCEPT ![a] = Null]
  BY <1>1, <1>2, <1>3 DEF DestroySlot
<1>7. /\ TP!IInv' /\ T!Live' = T!Live \ {t}
      /\ \A g \in T!Live' : tHandle'[g] = tHandle[g]
      /\ YP!IInv' /\ Y!Live' = Y!Live \ {y}
      /\ \A g \in Y!Live' : yHandle'[g] = yHandle[g]
  BY <1>4, <1>5, <1>6, TsiClosedOrNot, YinClosedOrNot DEF IInv
<1>8. /\ call \notin Opening /\ InHand = {}
  BY <1>6, KindsOfCalls DEF InHand
<1>9. Shapes /\ a \in Pools /\ AppTyped
  BY <1>1, <1>6 DEF IInv, PoolInv, CallInProgress, Pools
<1>10. /\ n \in Nat /\ s \in 1 .. n
       /\ DOMAIN app[a].tdb_pool = 1 .. n
       /\ app[a].tdb_pool[s] \in Handles \cup {Null}
       /\ s \in Places /\ s # 0
  <2>1. /\ n \in Nat /\ DOMAIN app[a].tdb_pool = 1 .. n
        /\ \A i \in 1 .. n : /\ app[a].tdb_pool[i] \in Handles \cup {Null}
                             /\ i \in Places /\ i # 0
    BY <1>3, <1>9, PlacesOf
  <2>2. s \in 1 .. n
    BY <1>1, <1>2, <1>6, <2>1 DEF IInv, PoolInv, CallInProgress
  <2>3. QED
    BY <2>1, <2>2
<1>11. OpenSlots(a) = {i \in 1 .. n : i >= s}
  BY <1>1, <1>2, <1>6, <1>10 DEF OpenSlots
<1>12. \A i \in Places : \A h :
          /\ TsiAt(a, i, h) <=> i \in 1 .. n /\ i >= s /\ h = app[a].tdb_pool[i]
          /\ YinAt(a, i, h) <=> i \in 1 .. n /\ i >= s /\ h = app[a].ydb_pool[i]
  <2>1. a \notin LonePools
    BY <1>3, <1>10 DEF LonePools
  <2>2. QED
    BY <1>9, <1>11, <2>1 DEF TsiAt, YinAt
<1>13. /\ t \in Handles => TsiAt(a, s, t)
       /\ y \in Handles => YinAt(a, s, y)
  BY <1>4, <1>5, <1>10, <1>12, PointerAssumption
<1>14. /\ \A b \in Apps, i \in Places : t \in Handles /\ TsiAt(b, i, t) => b = a /\ i = s
       /\ \A b \in Apps, i \in Places : y \in Handles /\ YinAt(b, i, y) => b = a /\ i = s
       /\ y \notin dropped
  <2>1. t \in Handles =>
           \A b \in Apps, i \in Places : TsiAt(b, i, t) => b = a /\ i = s
    BY <1>10, <1>13 DEF IInv, PoolInv, TsiPlaced
  <2>2. y \in Handles =>
           /\ y \notin dropped
           /\ \A b \in Apps, i \in Places : YinAt(b, i, y) => b = a /\ i = s
    BY <1>10, <1>13 DEF IInv, PoolInv, YinPlaced
  <2>3. y \notin Handles => y \notin dropped
    BY DEF IInv, PoolInv
  <2>4. QED
    BY <2>1, <2>2, <2>3
<1>15. /\ AppTyped'
       /\ \A b \in Apps \ {a} : app'[b] = app[b]
  BY <1>6, <1>9 DEF AppTyped
<1>16. /\ call' \in Destroying \cup {Null} /\ call' \notin Opening
       /\ s < n => call' \in Destroying /\ call'.app = a /\ call'.slot = s + 1
       /\ ~ s < n => call' = Null /\ call' \notin Destroying
  <2>1. CASE s < n
    <3>1. call' = [op |-> "destroy", app |-> a, slot |-> s + 1]
      BY <1>1, <1>6, <2>1 DEF Destroying
    <3>2. call' \in Destroying
      BY <3>1 DEF Destroying
    <3>3. QED
      BY <2>1, <3>1, <3>2, KindsOfCalls
  <2>2. CASE ~ s < n
    BY <1>6, <2>2, KindsOfCalls
  <2>3. QED
    BY <2>1, <2>2
<1>17. InHand' = {}
  BY <1>16 DEF InHand
<1>18. \A b \in Apps \ {a} : OpenSlots(b)' = OpenSlots(b)
  BY <1>1, <1>6, <1>15, <1>16 DEF OpenSlots
<1>19. \A b \in Apps \ {a} : /\ b \in Pools' <=> b \in Pools
                             /\ JunkFree(b)' <=> JunkFree(b)
                             /\ \A i, h : /\ TsiAt(b, i, h)' <=> TsiAt(b, i, h)
                                          /\ YinAt(b, i, h)' <=> YinAt(b, i, h)
  BY <1>15, <1>18, OthersKept
<1>20. JunkFree(a) /\ ~ mixed => (t \in Handles <=> y \in Handles)
  <2>1. JunkFree(a) /\ ~ mixed =>
           ((\E h \in Handles : TsiAt(a, s, h)) <=> (\E h \in Handles : YinAt(a, s, h)))
    BY <1>9, <1>10 DEF IInv, PoolInv, HalvesTogether
  <2>2. (\E h \in Handles : TsiAt(a, s, h)) <=> t \in Handles
    BY <1>4, <1>10, <1>12, <1>13
  <2>3. (\E h \in Handles : YinAt(a, s, h)) <=> y \in Handles
    BY <1>5, <1>10, <1>12, <1>13
  <2>4. QED
    BY <2>1, <2>2, <2>3
<1>21. CASE s < n
  <2>1. app' = app
    BY <1>6, <1>21
  <2>2. Pools' = Pools /\ \A b : JunkFree(b)' <=> JunkFree(b)
    BY <2>1 DEF Pools, JunkFree
  <2>3. LonePools' = LonePools /\ a \notin LonePools
    BY <1>3, <1>10, <2>1, <2>2 DEF LonePools, len_pool
  <2>4. OpenSlots(a)' = {i \in 1 .. n : i >= s + 1}
    BY <1>10, <1>16, <1>21, <2>1 DEF OpenSlots
  <2>5. \A i \in Places : \A h :
           /\ TsiAt(a, i, h)' <=> i \in 1 .. n /\ i >= s + 1 /\ h = app[a].tdb_pool[i]
           /\ YinAt(a, i, h)' <=> i \in 1 .. n /\ i >= s + 1 /\ h = app[a].ydb_pool[i]
    BY <1>9, <2>1, <2>2, <2>3, <2>4 DEF TsiAt, YinAt
  <2>6. ASSUME NEW h \in Handles, NEW i \in Places
        PROVE  /\ TsiAt(a, i, h)' <=> TsiAt(a, i, h) /\ h # t
               /\ YinAt(a, i, h)' <=> YinAt(a, i, h) /\ h # y
    <3>1. i \in 1 .. n /\ i >= s + 1 <=> i \in 1 .. n /\ i >= s /\ i # s
      BY <1>10
    <3>2. TsiAt(a, s, h) => h = t
      BY <1>4, <1>12, <1>10
    <3>3. YinAt(a, s, h) => h = y
      BY <1>5, <1>12, <1>10
    <3>4. QED
      BY <1>12, <1>14, <2>5, <3>1, <3>2, <3>3
  <2>7. \A h \in Handles, b \in Apps, i \in Places :
           /\ TsiAt(b, i, h)' <=> TsiAt(b, i, h) /\ h # t
           /\ YinAt(b, i, h)' <=> YinAt(b, i, h) /\ h # y
    BY <1>14, <1>19, <2>6
  <2>8. Shapes'
    BY <1>9, <2>1, <2>2 DEF Shapes
  <2>9. CallInProgress'
    BY <1>9, <1>10, <1>16, <1>21, <2>1 DEF CallInProgress, Pools
  <2>10. QED
    <3>1. PrimaryPlaced'
      <4> SUFFICES ASSUME NEW b \in Pools', Intact(b)' PROVE PrimaryOf(b)'
        BY DEF PrimaryPlaced
      <4>1. b \in Apps \ {a} /\ b \in Pools
        BY <1>16, <1>21, <2>2 DEF Intact, Pools
      <4>2. PrimaryOf(b)
        BY <1>1, <4>1 DEF IInv, PoolInv, PrimaryPlaced, Intact
      <4>3. /\ app[b].tdb \in Handles => app[b].tdb # t
            /\ app[b].ydb \in Handles => app[b].ydb # y \/ mixed' \/ ~ JunkFree(b)
        BY <1>6, <1>14, <4>1, <4>2, PointerAssumption DEF PrimaryOf
      <4>4. \A h \in Handles, i \in Places :
               /\ TsiAt(b, i, h)' <=> TsiAt(b, i, h) /\ h # t
               /\ YinAt(b, i, h)' <=> YinAt(b, i, h) /\ h # y
        BY <2>7, <4>1
      <4>5. app'[b] = app[b] /\ (mixed => mixed')
        BY <1>6, <2>1
      <4>6. QED
        BY <1>9, <4>1, <4>2, <4>3, <4>4, <4>5, PrimaryStays
    <3>2. \A b \in Pools, i \in Places : JunkFree(b) /\ ~ mixed' =>
             (t \in Handles /\ TsiAt(b, i, t) <=> y \in Handles /\ YinAt(b, i, y))
      BY <1>6, <1>13, <1>14, <1>20 DEF Pools
    <3>3. /\ mixed' \in BOOLEAN /\ dropped' = dropped /\ (mixed => mixed')
          /\ InHand' = InHand \ {t} /\ call' \in Opening \cup Destroying \cup {Null}
          /\ \A b \in Pools' : JunkFree(b)' => JunkFree(b)
      BY <1>6, <1>8, <1>16, <1>17, <2>2 DEF IInv, PoolInv
    <3>4. QED
      BY <1>7, <1>14, <1>15, <2>7, <2>8, <2>9, <3>1, <3>2, <3>3, ClosingInv
<1>22. CASE ~ s < n
  <2>1. s = n /\ app'[a] = Null /\ call' = Null
    BY <1>6, <1>9, <1>10, <1>22 DEF AppTyped
  <2>2. \A i \in Places, h \in Handles : /\ TsiAt(a, i, h) => h = t
                                         /\ YinAt(a, i, h) => h = y
    <3>1. \A i \in 1 .. n : i >= s => i = s
      BY <1>10, <2>1
    <3>2. QED
      BY <1>4, <1>5, <1>12, <3>1
  <2>3. \A i \in Places : JunkFree(a) /\ ~ mixed =>
           (t \in Handles /\ TsiAt(a, i, t) <=> y \in Handles /\ YinAt(a, i, y))
    BY <1>9, <1>13, <1>14, <1>20
  <2>4. QED
    BY <1>1, <1>6, <1>7, <1>8, <1>9, <1>14, <1>15, <2>1, <2>2, <2>3, PoolGoneInv
<1>23. QED
  BY <1>21, <1>22

\* A set of numbers has a least one.
LEMMA LeastNumber ==
    ASSUME NEW N \in SUBSET Nat, N # {}
    PROVE  \E n \in N : \A m \in N : n <= m
<1>1. IsWellFoundedOn(OpToRel(<, Nat), Nat)
  BY NatLessThanWellFounded
<1>2. PICK n \in N : \A m \in N : <<m, n>> \notin OpToRel(<, Nat)
  BY <1>1, WFMin
<1>3. \A m \in N : ~ (m < n)
  BY <1>2 DEF OpToRel
<1>4. QED
  BY <1>3

\* The slot that a scan of bimsDBPoolDelete ends at.
LEMMA ScanEnds ==
    ASSUME NEW slots \in Seq(Slot), NEW handle, NEW name
    PROVE  LET N == {i \in 1 .. Len(slots) :
                        slots[i] \in Handles /\ handle[slots[i]].key.name = name}
               k == FirstNamed(slots, handle, name)
           IN  IF N = {} THEN k = Len(slots) + 1
                         ELSE k \in N /\ \A i \in N : k <= i
<1> DEFINE N == {i \in 1 .. Len(slots) :
                    slots[i] \in Handles /\ handle[slots[i]].key.name = name}
<1>1. DOMAIN slots = 1 .. Len(slots) /\ Len(slots) \in Nat
  OBVIOUS
<1>2. FirstNamed(slots, handle, name) =
         IF N = {} THEN Len(slots) + 1 ELSE CHOOSE i \in N : \A j \in N : i <= j
  BY <1>1 DEF FirstNamed
<1>3. N \in SUBSET Nat
  BY <1>1
<1> HIDE DEF N
<1>4. N # {} => \E i \in N : \A j \in N : i <= j
  BY <1>3, LeastNumber
<1>5. IF N = {} THEN FirstNamed(slots, handle, name) = Len(slots) + 1
                ELSE /\ FirstNamed(slots, handle, name) \in N
                     /\ \A i \in N : FirstNamed(slots, handle, name) <= i
  BY <1>2, <1>4
<1>6. QED
  BY <1>5 DEF N

\* What a delete leaves of a pool.
LEMMA WithoutShape ==
    ASSUME NEW p, Shape(p), Len(p.tdb_pool) # 0, NEW i, NEW j, NEW isPrimary
    PROVE  LET q == Without(p, i, j, isPrimary) IN
           /\ Shape(q)
           /\ Len(q.tdb_pool) = Len(p.tdb_pool)
           /\ \A k \in 1 .. Len(p.tdb_pool) :
                 /\ q.tdb_pool[k] = IF k = i THEN Null ELSE p.tdb_pool[k]
                 /\ q.ydb_pool[k] = IF k = j THEN Null ELSE p.ydb_pool[k]
           /\ q.tdb = IF i \in DOMAIN p.tdb_pool /\ p.tdb_pool[i] = p.tdb
                      THEN Null ELSE p.tdb
           /\ q.ydb = IF j \in DOMAIN p.ydb_pool /\ isPrimary THEN Null ELSE p.ydb
<1> DEFINE n == Len(p.tdb_pool)
           ts == [k \in DOMAIN p.tdb_pool |-> IF k = i THEN Null ELSE p.tdb_pool[k]]
           ys == [k \in DOMAIN p.ydb_pool |-> IF k = j THEN Null ELSE p.ydb_pool[k]]
           t == IF i \in DOMAIN p.tdb_pool /\ p.tdb_pool[i] = p.tdb
                THEN Null ELSE p.tdb
           y == IF j \in DOMAIN p.ydb_pool /\ isPrimary THEN Null ELSE p.ydb
           q == Without(p, i, j, isPrimary)
<1>1. p \in DBPool /\ n \in Nat /\ Len(p.ydb_pool) = n
  BY DEF Shape, DBPool
<1>2. /\ p.tdb_pool \in Seq(Slot) /\ p.ydb_pool \in Seq(Slot)
      /\ p.tdb \in Handles \cup {Null} /\ p.ydb \in Handles \cup {Null}
  BY <1>1 DEF DBPool
<1>3. DOMAIN p.tdb_pool = 1 .. n /\ DOMAIN p.ydb_pool = 1 .. n
  BY <1>1, <1>2
<1>4. \A k \in 1 .. n : p.tdb_pool[k] \in Slot /\ p.ydb_pool[k] \in Slot
  BY <1>1, <1>2
<1>5. Null \in Slot /\ Null # Junk
  BY PointerAssumption DEF Slot
<1>6. /\ ts \in [1 .. n -> Slot] /\ ys \in [1 .. n -> Slot]
  BY <1>3, <1>4, <1>5
<1>7. \A k \in 1 .. n : /\ ts[k] = IF k = i THEN Null ELSE p.tdb_pool[k]
                        /\ ys[k] = IF k = j THEN Null ELSE p.ydb_pool[k]
  BY <1>3
<1>8. \A k \in 1 .. n : p.tdb_pool[k] # Junk
  BY <1>3 DEF Shape
<1>9. \A k \in 1 .. n : ts[k] # Junk
  BY <1>5, <1>7, <1>8
<1>10. t \in Handles \cup {Null} /\ y \in Handles \cup {Null}
  BY <1>2
<1>11. q.tdb = t /\ q.ydb = y /\ q.tdb_pool = ts /\ q.ydb_pool = ys
  BY DEF Without
<1>12. q = [tdb |-> t, ydb |-> y, tdb_pool |-> ts, ydb_pool |-> ys]
  BY DEF Without
<1> HIDE DEF q, ts, ys, t, y
<1>13. /\ ts \in Seq(Slot) /\ Len(ts) = n /\ ys \in Seq(Slot) /\ Len(ys) = n
       /\ DOMAIN ts = 1 .. n
  BY <1>1, <1>6, SeqDef
<1>14. q \in DBPool
  BY <1>10, <1>12, <1>13 DEF DBPool
<1>15. Shape(q)
  BY <1>1, <1>9, <1>11, <1>13, <1>14 DEF Shape
<1>16. QED
  BY <1>7, <1>11, <1>13, <1>15 DEF q, t, y

\* bimsDBPoolDelete: the slots of the two scans are the same one, as long as the
\* names are those of one dictionary.
LEMMA DeleteInv ==
    ASSUME IInv, NEW a \in Apps, NEW d \in DeleteArgs, Delete(a, d[1], d[2])
    PROVE  IInv'
<1>1. PICK p : p = app[a]
  OBVIOUS
<1>2. PICK n : n = len_pool(a)
  OBVIOUS
<1>3. PICK i : i = FirstNamed(p.tdb_pool, tHandle, d[1])
  OBVIOUS
<1>4. PICK j : j = FirstNamed(p.ydb_pool, yHandle, d[2])
  OBVIOUS
<1>5. /\ call = Null /\ a \in Pools /\ n > 0
      /\ UNCHANGED <<call, dropped>>
      /\ mixed' = (mixed \/ d[1] # d[2])
  BY <1>2 DEF Delete, Pools
<1>6. PICK isPrimary \in IF i <= n THEN {p.ydb_pool[i] = p.ydb} ELSE BOOLEAN :
         /\ IF i <= n THEN T!Close(p.tdb_pool[i]) ELSE UNCHANGED tVars
         /\ IF j <= n THEN Y!Close(p.ydb_pool[j]) ELSE UNCHANGED yVars
         /\ app' = [app EXCEPT ![a] = Without(p, i, j, isPrimary)]
  BY <1>1, <1>2, <1>3, <1>4 DEF Delete
<1>7. i <= n => (isPrimary <=> p.ydb_pool[i] = p.ydb)
  BY <1>6
<1>8. /\ call \notin Opening /\ call \notin Destroying /\ InHand = {} /\ InHand' = {}
      /\ \A b : Intact(b) /\ Intact(b)'
  BY <1>5, KindsOfCalls DEF InHand, Intact
<1>9. Shapes /\ AppTyped /\ Shape(p) /\ n = Len(p.tdb_pool) /\ n # 0 /\ n \in Nat
  <2>1. Shapes /\ AppTyped /\ n = Len(p.tdb_pool)
    BY <1>1, <1>2 DEF IInv, PoolInv, len_pool
  <2>2. Shape(p)
    BY <1>1, <1>5, <2>1 DEF Shapes
  <2>3. n \in Nat
    BY <1>2, <1>5, <2>1, PlacesOf
  <2>4. QED
    BY <1>5, <2>1, <2>2, <2>3
<1>10. /\ DOMAIN p.tdb_pool = 1 .. n /\ DOMAIN p.ydb_pool = 1 .. n
       /\ \A k \in 1 .. n : /\ k \in Places /\ k # 0
                            /\ p.tdb_pool[k] \in Handles \cup {Null}
                            /\ p.ydb_pool[k] \in Slot
       /\ p.tdb \in Handles \cup {Null} /\ p.ydb \in Handles \cup {Null}
  BY <1>1, <1>2, <1>5, <1>9, PlacesOf
<1>11. \A k \in Places : \A h : /\ TsiAt(a, k, h) <=> k \in 1 .. n /\ h = p.tdb_pool[k]
                                /\ YinAt(a, k, h) <=> k \in 1 .. n /\ h = p.ydb_pool[k]
  BY <1>1, <1>2, <1>5, <1>8, <1>9, WholePool
<1> DEFINE NT == {k \in 1 .. n : /\ p.tdb_pool[k] \in Handles
                                 /\ tHandle[p.tdb_pool[k]].key.name = d[1]}
           NY == {k \in 1 .. n : /\ p.ydb_pool[k] \in Handles
                                 /\ yHandle[p.ydb_pool[k]].key.name = d[2]}
<1>12. /\ IF NT = {} THEN i = n + 1 ELSE i \in NT /\ \A k \in NT : i <= k
       /\ IF NY = {} THEN j = n + 1 ELSE j \in NY /\ \A k \in NY : j <= k
  <2>1. p.tdb_pool \in Seq(Slot) /\ p.ydb_pool \in Seq(Slot) /\ Len(p.ydb_pool) = n
    BY <1>9 DEF Shape, DBPool
  <2>2. IF NT = {} THEN i = n + 1 ELSE i \in NT /\ \A k \in NT : i <= k
    BY <1>3, <1>9, <2>1, ScanEnds
  <2>3. IF NY = {} THEN j = n + 1 ELSE j \in NY /\ \A k \in NY : j <= k
    BY <1>4, <2>1, ScanEnds
  <2>4. QED
    BY <2>2, <2>3
<1>13. /\ i <= n => i \in 1 .. n /\ p.tdb_pool[i] \in Handles
       /\ j <= n => j \in 1 .. n /\ p.ydb_pool[j] \in Handles
       /\ i \in Nat /\ j \in Nat
       /\ ~ i <= n => i \notin 1 .. n
       /\ ~ j <= n => j \notin 1 .. n
  BY <1>9, <1>12
<1>14. PICK t : t = IF i <= n THEN p.tdb_pool[i] ELSE Null
  OBVIOUS
<1>15. PICK y : y = IF j <= n THEN p.ydb_pool[j] ELSE Null
  OBVIOUS
<1>16. /\ TP!IInv' /\ T!Live' = T!Live \ {t}
       /\ \A g \in T!Live' : tHandle'[g] = tHandle[g]
  <2>1. IF t \in Handles THEN T!Close(t) ELSE UNCHANGED tVars
    BY <1>6, <1>13, <1>14, PointerAssumption
  <2>2. t = IF t \in Handles THEN t ELSE Null
    BY <1>13, <1>14
  <2>3. QED
    BY <2>1, <2>2, TsiClosedOrNot DEF IInv
<1>17. /\ YP!IInv' /\ Y!Live' = Y!Live \ {y}
       /\ \A g \in Y!Live' : yHandle'[g] = yHandle[g]
  <2>1. IF y \in Handles THEN Y!Close(y) ELSE UNCHANGED yVars
    BY <1>6, <1>13, <1>15, PointerAssumption
  <2>2. y = IF y \in Handles THEN y ELSE Null
    BY <1>13, <1>15
  <2>3. QED
    BY <2>1, <2>2, YinClosedOrNot DEF IInv
<1>18. /\ t \in Handles <=> i <= n
       /\ y \in Handles <=> j <= n
       /\ t \in Handles => TsiAt(a, i, t) /\ i \in Places
       /\ y \in Handles => YinAt(a, j, y) /\ j \in Places
  BY <1>10, <1>11, <1>13, <1>14, <1>15, PointerAssumption
<1>19. /\ \A b \in Apps, k \in Places : t \in Handles /\ TsiAt(b, k, t) => b = a /\ k = i
       /\ \A b \in Apps, k \in Places : y \in Handles /\ YinAt(b, k, y) => b = a /\ k = j
       /\ y \notin dropped
  <2>1. t \in Handles =>
           \A b \in Apps, k \in Places : TsiAt(b, k, t) => b = a /\ k = i
    BY <1>18 DEF IInv, PoolInv, TsiPlaced
  <2>2. y \in Handles =>
           /\ y \notin dropped
           /\ \A b \in Apps, k \in Places : YinAt(b, k, y) => b = a /\ k = j
    BY <1>18 DEF IInv, PoolInv, YinPlaced
  <2>3. y \notin Handles => y \notin dropped
    BY DEF IInv, PoolInv
  <2>4. QED
    BY <2>1, <2>2, <2>3
<1> HIDE DEF NT, NY

\* The two scans end at the same slot.
<1>20. JunkFree(a) /\ ~ mixed' => i = j /\ (t \in Handles <=> y \in Handles)
  <2> SUFFICES ASSUME JunkFree(a), ~ mixed'
               PROVE  i = j
    BY <1>18
  <2>1. ~ mixed /\ d[1] = d[2]
    BY <1>5
  <2>2. \A k \in 1 .. n :
           /\ p.tdb_pool[k] \in Handles <=> p.ydb_pool[k] \in Handles
           /\ p.tdb_pool[k] \in Handles =>
                 tHandle[p.tdb_pool[k]].key = yHandle[p.ydb_pool[k]].key
    <3> SUFFICES ASSUME NEW k \in 1 .. n
                 PROVE  /\ p.tdb_pool[k] \in Handles <=> p.ydb_pool[k] \in Handles
                        /\ p.tdb_pool[k] \in Handles =>
                              tHandle[p.tdb_pool[k]].key = yHandle[p.ydb_pool[k]].key
      OBVIOUS
    <3>1. (\E g \in Handles : TsiAt(a, k, g)) <=> (\E h \in Handles : YinAt(a, k, h))
      BY <1>5, <1>10, <2>1 DEF IInv, PoolInv, HalvesTogether
    <3>2. \A g, h \in Handles : TsiAt(a, k, g) /\ YinAt(a, k, h) =>
             tHandle[g].key = yHandle[h].key
      BY <1>5, <1>10 DEF IInv, PoolInv, PairsMatch
    <3>3. p.tdb_pool[k] \in Handles <=> p.ydb_pool[k] \in Handles
      BY <1>10, <1>11, <3>1
    <3>4. p.tdb_pool[k] \in Handles =>
             tHandle[p.tdb_pool[k]].key = yHandle[p.ydb_pool[k]].key
      BY <1>10, <1>11, <3>2, <3>3
    <3>5. QED
      BY <3>3, <3>4
  <2>3. NT = NY
    BY <2>1, <2>2 DEF NT, NY
  <2>4. NT \subseteq Nat
    BY <1>9 DEF NT
  <2>5. QED
    BY <1>12, <1>13, <2>3, <2>4
<1>21. PICK q : q = Without(p, i, j, isPrimary)
  OBVIOUS
<1>22. /\ Shape(q) /\ Len(q.tdb_pool) = n
       /\ \A k \in 1 .. n :
             /\ q.tdb_pool[k] = IF k = i THEN Null ELSE p.tdb_pool[k]
             /\ q.ydb_pool[k] = IF k = j THEN Null ELSE p.ydb_pool[k]
       /\ q.tdb = IF i \in 1 .. n /\ p.tdb_pool[i] = p.tdb THEN Null ELSE p.tdb
       /\ q.ydb = IF j \in 1 .. n /\ isPrimary THEN Null ELSE p.ydb
  BY <1>9, <1>10, <1>21, WithoutShape
<1>23. /\ AppTyped' /\ app'[a] = q /\ \A b \in Apps \ {a} : app'[b] = app[b]
  BY <1>6, <1>9, <1>21, <1>22 DEF AppTyped, Shape
<1>24. \A b \in Apps \ {a} : /\ b \in Pools' <=> b \in Pools
                             /\ JunkFree(b)' <=> JunkFree(b)
                             /\ \A k, h : /\ TsiAt(b, k, h)' <=> TsiAt(b, k, h)
                                          /\ YinAt(b, k, h)' <=> YinAt(b, k, h)
  <2>1. \A b \in Apps \ {a} : OpenSlots(b)' = OpenSlots(b)
    BY <1>5, <1>8, <1>23 DEF OpenSlots
  <2>2. QED
    BY <1>23, <2>1, OthersKept
<1>25. a \in Pools' /\ Pools' = Pools
  <2>1. q # Null
    BY <1>22, KindsOfCalls DEF Shape
  <2>2. a \in Pools'
    BY <1>23, <2>1 DEF Pools
  <2>3. QED
    BY <1>5, <1>24, <2>2 DEF Pools
<1>26. Shapes'
  <2> SUFFICES ASSUME NEW b \in Pools PROVE Shape(app'[b])
    BY <1>25 DEF Shapes
  <2>1. b \in Apps
    BY DEF Pools
  <2>2. QED
    BY <1>9, <1>22, <1>23, <2>1 DEF Shapes
<1>27. /\ len_pool(a)' = n
       /\ DOMAIN q.tdb_pool = 1 .. n /\ DOMAIN q.ydb_pool = 1 .. n
  <2>1. q.tdb_pool \in Seq(Slot) /\ q.ydb_pool \in Seq(Slot) /\ Len(q.ydb_pool) = n
    BY <1>22 DEF Shape, DBPool
  <2>2. QED
    BY <1>22, <1>23, <2>1 DEF len_pool
<1>28. JunkFree(a)' => JunkFree(a)
  <2>1. ASSUME \A k \in 1 .. n : q.ydb_pool[k] # Junk
        PROVE  \A k \in 1 .. n : p.ydb_pool[k] # Junk
    <3>1. j \in 1 .. n => p.ydb_pool[j] # Junk
      BY <1>9, <1>13, PointerAssumption
    <3>2. QED
      BY <1>22, <2>1, <3>1
  <2>2. QED
    BY <1>1, <1>10, <1>23, <1>27, <2>1 DEF JunkFree
<1>29. \A k \in Places : \A h : /\ TsiAt(a, k, h)' <=> k \in 1 .. n /\ h = q.tdb_pool[k]
                                /\ YinAt(a, k, h)' <=> k \in 1 .. n /\ h = q.ydb_pool[k]
  <2>1. a \notin LonePools'
    BY <1>9, <1>27 DEF LonePools
  <2>2. OpenSlots(a)' = 1 .. n
    BY <1>5, <1>8, <1>23, <1>27 DEF OpenSlots
  <2>3. QED
    BY <1>23, <1>25, <2>1, <2>2 DEF TsiAt, YinAt
<1>30. \A h \in Handles, b \in Apps, k \in Places :
          /\ TsiAt(b, k, h)' <=> TsiAt(b, k, h) /\ h # t
          /\ YinAt(b, k, h)' <=> YinAt(b, k, h) /\ h # y
  <2>1. ASSUME NEW h \in Handles, NEW k \in Places
        PROVE  /\ TsiAt(a, k, h)' <=> TsiAt(a, k, h) /\ h # t
               /\ YinAt(a, k, h)' <=> YinAt(a, k, h) /\ h # y
    <3>1. TsiAt(a, k, h) => (k = i <=> h = t)
      <4>1. k = i /\ TsiAt(a, k, h) => h = t
        BY <1>9, <1>11, <1>13, <1>14
      <4>2. QED
        BY <1>19, <4>1
    <3>2. YinAt(a, k, h) => (k = j <=> h = y)
      <4>1. k = j /\ YinAt(a, k, h) => h = y
        BY <1>9, <1>11, <1>13, <1>15
      <4>2. QED
        BY <1>19, <4>1
    <3>3. TsiAt(a, k, h)' <=> TsiAt(a, k, h) /\ k # i
      BY <1>11, <1>22, <1>29, PointerAssumption
    <3>4. YinAt(a, k, h)' <=> YinAt(a, k, h) /\ k # j
      BY <1>11, <1>22, <1>29, PointerAssumption
    <3>5. QED
      BY <3>1, <3>2, <3>3, <3>4
  <2>2. QED
    BY <1>19, <1>24, <2>1
<1>31. PrimaryOf(a)'
  <2>1. PrimaryOf(a)
    BY <1>5, <1>8 DEF IInv, PoolInv, PrimaryPlaced
  <2>2. ASSUME q.tdb # Null
        PROVE  \E k \in Places : TsiAt(a, k, q.tdb)'
    <3>1. q.tdb = p.tdb /\ p.tdb \in Handles /\ ~ (i \in 1 .. n /\ p.tdb_pool[i] = p.tdb)
      BY <1>10, <1>22, <2>2
    <3>2. PICK k \in Places : TsiAt(a, k, p.tdb)
      BY <1>1, <2>1, <2>2, <3>1 DEF PrimaryOf
    <3>3. p.tdb # t
      BY <1>13, <1>14, <2>2, <3>1
    <3>4. QED
      BY <1>30, <3>1, <3>2, <3>3
  <2>3. ASSUME JunkFree(a), ~ mixed'
        PROVE  /\ q.tdb = Null <=> q.ydb = Null
               /\ q.tdb # Null =>
                     \E k \in Places : TsiAt(a, k, q.tdb)' /\ YinAt(a, k, q.ydb)'
    <3>1. ~ mixed
      BY <1>5, <2>3
    <3>2. i = j
      BY <1>20, <2>3
    <3>3. p.tdb = Null <=> p.ydb = Null
      BY <1>1, <2>1, <2>3, <3>1 DEF PrimaryOf
    <3>4. CASE p.tdb = Null
      BY <1>22, <3>3, <3>4
    <3>5. CASE p.tdb # Null
      <4>1. PICK k \in Places : TsiAt(a, k, p.tdb) /\ YinAt(a, k, p.ydb)
        BY <1>1, <2>1, <2>3, <3>1, <3>5 DEF PrimaryOf
      <4>2. p.tdb \in Handles /\ p.ydb \in Handles
        BY <1>10, <3>3, <3>5
      <4>3. k \in 1 .. n /\ p.tdb_pool[k] = p.tdb /\ p.ydb_pool[k] = p.ydb
        BY <1>11, <4>1
      <4>4. CASE k = i
        <5>1. i <= n /\ j <= n /\ isPrimary
          BY <1>7, <1>13, <3>2, <4>3, <4>4
        <5>2. q.tdb = Null /\ q.ydb = Null
          BY <1>22, <3>2, <4>3, <4>4, <5>1
        <5>3. QED
          BY <5>2
      <4>5. CASE k # i
        <5>1. p.tdb # t
          BY <1>19, <4>1, <4>2, <4>5
        <5>2. p.ydb # y
          BY <1>19, <3>2, <4>1, <4>2, <4>5
        <5>3. ~ (i \in 1 .. n /\ p.tdb_pool[i] = p.tdb)
          BY <1>9, <1>14, <5>1
        <5>4. ~ (j \in 1 .. n /\ isPrimary)
          BY <1>7, <1>9, <1>15, <3>2, <5>2
        <5>5. q.tdb = p.tdb /\ q.ydb = p.ydb
          BY <1>22, <5>3, <5>4
        <5>6. TsiAt(a, k, p.tdb)' /\ YinAt(a, k, p.ydb)'
          BY <1>30, <4>1, <4>2, <5>1, <5>2
        <5>7. QED
          BY <3>5, <4>2, <5>5, <5>6, PointerAssumption
      <4>6. QED
        BY <4>4, <4>5
    <3>6. QED
      BY <3>4, <3>5
  <2>4. (\E k \in Places : TsiAt(a, k, app[a].tdb))' <=>
           \E k \in Places : TsiAt(a, k, q.tdb)'
    BY <1>23 DEF TsiAt
  <2>5. (\E k \in Places : TsiAt(a, k, app[a].tdb) /\ YinAt(a, k, app[a].ydb))' <=>
           \E k \in Places : TsiAt(a, k, q.tdb)' /\ YinAt(a, k, q.ydb)'
    BY <1>23 DEF TsiAt, YinAt
  <2>6. QED
    BY <1>23, <1>28, <2>2, <2>3, <2>4, <2>5 DEF PrimaryOf
<1>32. mixed' \in BOOLEAN /\ (mixed => mixed')
  BY <1>5 DEF IInv, PoolInv
<1>33. PrimaryPlaced'
  <2> SUFFICES ASSUME NEW b \in Pools', Intact(b)' PROVE PrimaryOf(b)'
    BY DEF PrimaryPlaced
  <2>1. b \in Pools /\ b \in Apps
    BY <1>25 DEF Pools
  <2>2. CASE b = a
    BY <1>31, <2>2
  <2>3. CASE b # a
    <3>1. PrimaryOf(b)
      BY <1>8, <2>1 DEF IInv, PoolInv, PrimaryPlaced
    <3>2. \A k \in Places : /\ ~ (t \in Handles /\ TsiAt(b, k, t))
                            /\ ~ (y \in Handles /\ YinAt(b, k, y))
      BY <1>19, <2>1, <2>3
    <3>3. app[b].tdb \in Handles => app[b].tdb # t
      BY <3>1, <3>2, PointerAssumption DEF PrimaryOf
    <3>4. JunkFree(b) /\ ~ mixed /\ app[b].ydb \in Handles => app[b].ydb # y
      BY <3>1, <3>2, PointerAssumption DEF PrimaryOf
    <3>5. app[b].ydb \in Handles => app[b].ydb # y \/ mixed' \/ ~ JunkFree(b)
      BY <1>32, <3>4
    <3>6. \A h \in Handles, k \in Places :
             /\ TsiAt(b, k, h)' <=> TsiAt(b, k, h) /\ h # t
             /\ YinAt(b, k, h)' <=> YinAt(b, k, h) /\ h # y
      BY <1>30, <2>1
    <3>7. app'[b] = app[b]
      BY <1>23, <2>1, <2>3
    <3>8. QED
      BY <1>9, <1>32, <2>1, <3>1, <3>3, <3>5, <3>6, <3>7, PrimaryStays
  <2>4. QED
    BY <2>2, <2>3
<1>34. \A b \in Pools, k \in Places : JunkFree(b) /\ ~ mixed' =>
          (t \in Handles /\ TsiAt(b, k, t) <=> y \in Handles /\ YinAt(b, k, y))
  BY <1>18, <1>19, <1>20 DEF Pools
<1>35. \A b \in Pools' : JunkFree(b)' => JunkFree(b)
  BY <1>24, <1>25, <1>28 DEF Pools
<1>36. CallInProgress'
  BY <1>5, <1>8 DEF CallInProgress
<1>37. /\ dropped' = dropped /\ InHand' = InHand \ {t}
       /\ call' \in Opening \cup Destroying \cup {Null}
  BY <1>5, <1>8
<1>38. QED
  BY <1>16, <1>17, <1>19, <1>23, <1>26, <1>30, <1>32, <1>33, <1>34, <1>35, <1>36,
     <1>37, ClosingInv

\* WithPair, call by call.
LEMMA PairCases ==
    ASSUME NEW op, NEW p, NEW t, NEW y
    PROVE  /\ op = "init" => WithPair(op, p, t, y) = NewPool(t, y)
           /\ op \in {"user", "append"} => WithPair(op, p, t, y) = Appended(p, t, y)
           /\ op = "prepend" => WithPair(op, p, t, y) = Prepended(p, t, y)
<1>1. op = "init" => WithPair(op, p, t, y) = NewPool(t, y)
  BY DEF WithPair
<1>2. op \in {"user", "append"} => WithPair(op, p, t, y) = Appended(p, t, y)
  BY DEF WithPair
<1>3. op = "prepend" => WithPair(op, p, t, y) = Prepended(p, t, y)
  BY DEF WithPair
<1>4. QED
  BY <1>1, <1>2, <1>3

\* The primary pair of a pool that becomes q.
LEMMA NewPrimary ==
    ASSUME NEW a, NEW q, app'[a] = q
    PROVE  PrimaryOf(a)' <=>
              /\ q.tdb # Null => \E i \in Places : TsiAt(a, i, q.tdb)'
              /\ JunkFree(a)' /\ ~ mixed' =>
                    /\ q.tdb = Null <=> q.ydb = Null
                    /\ q.tdb # Null => \E i \in Places : TsiAt(a, i, q.tdb)'
                                                         /\ YinAt(a, i, q.ydb)'
<1>1. (\E i \in Places : TsiAt(a, i, app[a].tdb))' <=>
         \E i \in Places : TsiAt(a, i, q.tdb)'
  BY DEF TsiAt
<1>2. (\E i \in Places : TsiAt(a, i, app[a].tdb) /\ YinAt(a, i, app[a].ydb))' <=>
         \E i \in Places : TsiAt(a, i, q.tdb)' /\ YinAt(a, i, q.ydb)'
  BY DEF TsiAt, YinAt
<1>3. QED
  BY <1>1, <1>2 DEF PrimaryOf

\* A call that puts a pair into the pool of application a, which becomes q,
\* leaves everybody else alone.
LEMMA JoinFrame ==
    ASSUME IInv, NEW a \in Apps, call \in Opening, call.app = a, call' = Null,
           UNCHANGED <<tVars, mixed>>,
           NEW q, Shape(q), AppTyped', app'[a] = q,
           \A b \in Apps \ {a} : app'[b] = app[b]
    PROVE  /\ TP!IInv' /\ T!Live' = T!Live /\ tHandle' = tHandle
           /\ InHand = {call.t} /\ InHand' = {}
           /\ call' \in Opening \cup Destroying \cup {Null}
           /\ Shapes' /\ CallInProgress'
           /\ mixed' \in BOOLEAN /\ (mixed => mixed') /\ (mixed' => mixed)
           /\ a \in Pools' /\ Intact(a)
           /\ \A b \in Apps \ {a} :
                 /\ b \in Pools' <=> b \in Pools
                 /\ JunkFree(b)' <=> JunkFree(b)
                 /\ \A i, h : /\ TsiAt(b, i, h)' <=> TsiAt(b, i, h)
                              /\ YinAt(b, i, h)' <=> YinAt(b, i, h)
           /\ \A i \in Places : \A h :
                 /\ TsiAt(a, i, h)' <=> IF Len(q.tdb_pool) = 0 THEN i = 0 /\ h = q.tdb
                                        ELSE i \in 1 .. Len(q.tdb_pool) /\ h = q.tdb_pool[i]
                 /\ YinAt(a, i, h)' <=> IF Len(q.tdb_pool) = 0 THEN i = 0 /\ h = q.ydb
                                        ELSE i \in 1 .. Len(q.tdb_pool) /\ h = q.ydb_pool[i]
           /\ PrimaryOf(a)' => PrimaryPlaced'
<1>1. TP!IInv' /\ T!Live' = T!Live /\ tHandle' = tHandle
  BY TsiUnchanged DEF IInv
<1>2. /\ call \notin Destroying /\ call' \notin Destroying /\ call' \notin Opening
      /\ \A b : Intact(b) /\ Intact(b)'
  BY KindsOfCalls DEF Intact
<1>3. InHand = {call.t} /\ InHand' = {} /\ CallInProgress'
  BY <1>2 DEF InHand, CallInProgress
<1>4. mixed' \in BOOLEAN /\ (mixed => mixed') /\ (mixed' => mixed)
  BY DEF IInv, PoolInv
<1>5. a \in Pools'
  <2>1. q # Null
    BY KindsOfCalls DEF Shape
  <2>2. QED
    BY <2>1 DEF Pools
<1>6. \A b \in Apps \ {a} :
         /\ b \in Pools' <=> b \in Pools
         /\ JunkFree(b)' <=> JunkFree(b)
         /\ \A i, h : /\ TsiAt(b, i, h)' <=> TsiAt(b, i, h)
                      /\ YinAt(b, i, h)' <=> YinAt(b, i, h)
  <2>1. \A b \in Apps \ {a} : OpenSlots(b)' = OpenSlots(b)
    BY <1>2 DEF OpenSlots
  <2>2. QED
    BY <2>1, OthersKept
<1>7. Shapes'
  <2> SUFFICES ASSUME NEW b \in Pools' PROVE Shape(app'[b])
    BY DEF Shapes
  <2>1. b \in Apps
    BY DEF Pools
  <2>2. CASE b = a
    BY <2>2
  <2>3. CASE b # a
    <3>1. b \in Pools /\ app'[b] = app[b]
      BY <1>6, <2>1, <2>3
    <3>2. QED
      BY <3>1 DEF IInv, PoolInv, Shapes
  <2>4. QED
    BY <2>2, <2>3
<1>8. \A i \in Places : \A h :
         /\ TsiAt(a, i, h)' <=> IF Len(q.tdb_pool) = 0 THEN i = 0 /\ h = q.tdb
                                ELSE i \in 1 .. Len(q.tdb_pool) /\ h = q.tdb_pool[i]
         /\ YinAt(a, i, h)' <=> IF Len(q.tdb_pool) = 0 THEN i = 0 /\ h = q.ydb
                                ELSE i \in 1 .. Len(q.tdb_pool) /\ h = q.ydb_pool[i]
  <2>1. q.tdb_pool \in Seq(Slot)
    BY DEF Shape, DBPool
  <2>2. Len(q.tdb_pool) \in Nat /\ DOMAIN q.tdb_pool = 1 .. Len(q.tdb_pool)
    BY <2>1
  <2>3. OpenSlots(a)' = 1 .. Len(q.tdb_pool)
    BY <1>2, <2>2 DEF OpenSlots
  <2>4. a \in LonePools' <=> Len(q.tdb_pool) = 0
    BY <1>5 DEF LonePools, len_pool
  <2>5. Len(q.tdb_pool) = 0 => 1 .. Len(q.tdb_pool) = {}
    BY <2>2
  <2>6. QED
    BY <1>5, <2>3, <2>4, <2>5 DEF TsiAt, YinAt
<1>9. ASSUME PrimaryOf(a)', NEW b \in Pools', b # a PROVE PrimaryOf(b)'
  <2>1. b \in Apps /\ b \in Pools
    BY <1>6, <1>9 DEF Pools
  <2>2. PrimaryOf(b) /\ Shapes
    BY <1>2, <2>1 DEF IInv, PoolInv, PrimaryPlaced
  <2>3. \A h \in Handles, i \in Places :
           /\ TsiAt(b, i, h)' <=> TsiAt(b, i, h) /\ h # Null
           /\ YinAt(b, i, h)' <=> YinAt(b, i, h) /\ h # Null
    BY <1>6, <1>9, <2>1, PointerAssumption
  <2>4. /\ app[b].tdb \in Handles => app[b].tdb # Null
        /\ app[b].ydb \in Handles => app[b].ydb # Null \/ mixed' \/ ~ JunkFree(b)
    BY PointerAssumption
  <2>5. app'[b] = app[b]
    BY <1>9, <2>1
  <2>6. QED
    BY <1>4, <2>1, <2>2, <2>3, <2>4, <2>5, PrimaryStays
<1>10. PrimaryOf(a)' => PrimaryPlaced'
  BY <1>9 DEF PrimaryPlaced
<1>11. QED
  BY <1>1, <1>2, <1>3, <1>4, <1>5, <1>6, <1>7, <1>8, <1>10

\* The pair gets place n, the pairs that were there move by d places.
LEMMA JoinInv ==
    ASSUME IInv, NEW a \in Apps, NEW t, NEW y \in Handles,
           call \in Opening, call.app = a, call.t = t, call' = Null,
           UNCHANGED <<tVars, dropped, mixed>>,
           YP!IInv', y \notin Y!Live, Y!Live' = Y!Live \cup {y},
           yHandle'[y].key = tHandle[t].key, \A g \in Y!Live : yHandle'[g] = yHandle[g],
           NEW q, Shape(q), AppTyped', app'[a] = q,
           \A b \in Apps \ {a} : app'[b] = app[b],
           PrimaryOf(a)',
           JunkFree(a)' => a \notin Pools \/ JunkFree(a),
           NEW n \in Places, NEW d \in Nat,
           \A h \in Handles, i \in Places :
              /\ TsiAt(a, i, h) => i + d \in Places /\ i + d # n
              /\ YinAt(a, i, h) => i + d \in Places /\ i + d # n
              /\ TsiAt(a, i, h)' <=> \/ i = n /\ h = t
                                     \/ i - d \in Places /\ TsiAt(a, i - d, h)
              /\ YinAt(a, i, h)' <=> \/ i = n /\ h = y
                                     \/ i - d \in Places /\ YinAt(a, i - d, h)
    PROVE  IInv'
<1>1. t \in Handles /\ Shapes /\ TsiPlaced /\ YinPlaced /\ PairsMatch /\ HalvesTogether
      /\ dropped \subseteq Handles
  BY KindsOfCalls DEF IInv, PoolInv
<1>2. /\ TP!IInv' /\ T!Live' = T!Live /\ tHandle' = tHandle
      /\ InHand = {t} /\ InHand' = {}
      /\ call' \in Opening \cup Destroying \cup {Null}
      /\ Shapes' /\ CallInProgress'
      /\ mixed' \in BOOLEAN /\ (mixed => mixed') /\ (mixed' => mixed)
      /\ a \in Pools'
      /\ \A b \in Apps \ {a} :
            /\ b \in Pools' <=> b \in Pools
            /\ JunkFree(b)' <=> JunkFree(b)
            /\ \A i, h : /\ TsiAt(b, i, h)' <=> TsiAt(b, i, h)
                         /\ YinAt(b, i, h)' <=> YinAt(b, i, h)
      /\ PrimaryPlaced'
  BY JoinFrame
<1>3. TsiPlaced'
  <2>1. TsiShifts(a, n, d, t)
    BY <1>2 DEF TsiShifts
  <2>2. QED
    BY <1>1, <1>2, <2>1, TsiPut
<1>4. YinPlaced'
  <2>1. YinShifts(a, n, d, y)
    BY <1>2 DEF YinShifts
  <2>2. QED
    BY <1>1, <2>1, YinPut
<1>5. \A b \in Pools' : JunkFree(b)' => b \notin Pools \/ JunkFree(b)
  BY <1>2 DEF Pools
<1>6. PairsMatch' /\ HalvesTogether'
  <2>1. \A h \in Handles, i \in Places :
           /\ \A b \in Apps \ {a} : TsiAt(b, i, h)' <=> TsiAt(b, i, h)
           /\ \A b \in Apps \ {a} : YinAt(b, i, h)' <=> YinAt(b, i, h)
           /\ TsiAt(a, i, h) => i + d \in Places /\ i + d # n
           /\ YinAt(a, i, h) => i + d \in Places /\ i + d # n
           /\ TsiAt(a, i, h)' <=> \/ i = n /\ h = t
                                  \/ i - d \in Places /\ TsiAt(a, i - d, h)
           /\ YinAt(a, i, h)' <=> \/ i = n /\ h = y
                                  \/ i - d \in Places /\ YinAt(a, i - d, h)
    BY <1>2
  <2>2. tHandle' = tHandle /\ (mixed => mixed')
    BY <1>2
  <2>3. \A g \in Y!Live : yHandle'[g] = yHandle[g]
    OBVIOUS
  <2>4. yHandle'[y].key = tHandle[t].key /\ y \notin Y!Live /\ y \in Handles
    OBVIOUS
  <2>5. Joined(a, n, d, t, y)
    BY <2>1 DEF Joined
  <2>6. QED
    BY <1>1, <1>5, <2>2, <2>3, <2>4, <2>5, PairsJoined
<1>7. dropped' = dropped
  OBVIOUS
<1>8. QED
  BY <1>1, <1>2, <1>3, <1>4, <1>6, <1>7 DEF IInv, PoolInv

\* What the pool p holds in place i.
TsiIn(p, i, h) == IF Len(p.tdb_pool) = 0 THEN i = 0 /\ h = p.tdb
                  ELSE i \in 1 .. Len(p.tdb_pool) /\ h = p.tdb_pool[i]
YinIn(p, i, h) == IF Len(p.tdb_pool) = 0 THEN i = 0 /\ h = p.ydb
                  ELSE i \in 1 .. Len(p.tdb_pool) /\ h = p.ydb_pool[i]

\* The pool q is p with one pair more, in place n.
Shifted(p, q, t, y, n, d) ==
    /\ q.tdb = p.tdb /\ q.ydb = p.ydb
    /\ \A i \in Places, h \in Handles :
          /\ TsiIn(p, i, h) \/ YinIn(p, i, h) => i + d \in Places /\ i + d # n
          /\ TsiIn(q, i, h) <=> \/ i = n /\ h = t
                                \/ i - d \in Places /\ TsiIn(p, i - d, h)
          /\ YinIn(q, i, h) <=> \/ i = n /\ h = y
                                \/ i - d \in Places /\ YinIn(p, i - d, h)

\* A first pair goes behind the primary one or in front of it.
LEMMA FirstShifts ==
    ASSUME NEW p, Shape(p), Len(p.tdb_pool) = 0, 0 < MaxLen,
           NEW t \in Handles, NEW y \in Handles
    PROVE  /\ Shifted(p, Appended(p, t, y), t, y, 2, 1)
           /\ Shifted(p, Prepended(p, t, y), t, y, 1, 2)
           /\ 1 \in Places /\ 2 \in Places
<1>1. 1 \in Places /\ 2 \in Places /\ MaxLen \in Nat
  BY MaxLenAssumption DEF Places
<1>2. \A i \in Places : \A h : /\ TsiIn(p, i, h) <=> i = 0 /\ h = p.tdb
                               /\ YinIn(p, i, h) <=> i = 0 /\ h = p.ydb
  BY DEF TsiIn, YinIn
<1>3. Shifted(p, Appended(p, t, y), t, y, 2, 1)
  <2> DEFINE q == Appended(p, t, y)
             ts == <<p.tdb, t>>
             ys == <<p.ydb, y>>
  <2>1. q = WithArrays(p, ts, ys)
    BY FirstJoins
  <2>2. Len(ts) = 2 /\ ts[1] = p.tdb /\ ts[2] = t /\ ys[1] = p.ydb /\ ys[2] = y
    OBVIOUS
  <2> HIDE DEF ts, ys
  <2>3. q.tdb = p.tdb /\ q.ydb = p.ydb /\ q.tdb_pool = ts /\ q.ydb_pool = ys
    BY <2>1 DEF WithArrays
  <2> HIDE DEF q
  <2>4. \A i \in Places : \A h :
           /\ TsiIn(q, i, h) <=> (i = 1 /\ h = p.tdb) \/ (i = 2 /\ h = t)
           /\ YinIn(q, i, h) <=> (i = 1 /\ h = p.ydb) \/ (i = 2 /\ h = y)
    <3>1. \A i \in Places : i \in 1 .. 2 <=> i = 1 \/ i = 2
      BY DEF Places
    <3>2. \A i \in Places : \A h :
             /\ TsiIn(q, i, h) <=> i \in 1 .. 2 /\ h = ts[i]
             /\ YinIn(q, i, h) <=> i \in 1 .. 2 /\ h = ys[i]
      <4>1. Len(q.tdb_pool) = 2 /\ 2 # 0
        BY <2>2, <2>3
      <4>2. QED
        BY <2>3, <4>1 DEF TsiIn, YinIn
    <3>3. QED
      BY <2>2, <3>1, <3>2
  <2>5. Shifted(p, q, t, y, 2, 1)
    BY <1>1, <1>2, <2>3, <2>4 DEF Shifted, Places
  <2>6. QED
    BY <2>5 DEF q
<1>4. Shifted(p, Prepended(p, t, y), t, y, 1, 2)
  <2> DEFINE q == Prepended(p, t, y)
             ts == <<t, p.tdb>>
             ys == <<y, p.ydb>>
  <2>1. q = WithArrays(p, ts, ys)
    BY FirstJoins
  <2>2. Len(ts) = 2 /\ ts[2] = p.tdb /\ ts[1] = t /\ ys[2] = p.ydb /\ ys[1] = y
    OBVIOUS
  <2> HIDE DEF ts, ys
  <2>3. q.tdb = p.tdb /\ q.ydb = p.ydb /\ q.tdb_pool = ts /\ q.ydb_pool = ys
    BY <2>1 DEF WithArrays
  <2> HIDE DEF q
  <2>4. \A i \in Places : \A h :
           /\ TsiIn(q, i, h) <=> (i = 2 /\ h = p.tdb) \/ (i = 1 /\ h = t)
           /\ YinIn(q, i, h) <=> (i = 2 /\ h = p.ydb) \/ (i = 1 /\ h = y)
    <3>1. \A i \in Places : i \in 1 .. 2 <=> i = 1 \/ i = 2
      BY DEF Places
    <3>2. \A i \in Places : \A h :
             /\ TsiIn(q, i, h) <=> i \in 1 .. 2 /\ h = ts[i]
             /\ YinIn(q, i, h) <=> i \in 1 .. 2 /\ h = ys[i]
      <4>1. Len(q.tdb_pool) = 2 /\ 2 # 0
        BY <2>2, <2>3
      <4>2. QED
        BY <2>3, <4>1 DEF TsiIn, YinIn
    <3>3. QED
      BY <2>2, <3>1, <3>2
  <2>5. Shifted(p, q, t, y, 1, 2)
    BY <1>1, <1>2, <2>3, <2>4 DEF Shifted, Places
  <2>6. QED
    BY <2>5 DEF q
<1>5. QED
  BY <1>1, <1>3, <1>4

\* A further pair that is appended moves none.
LEMMA AppendShifts ==
    ASSUME NEW p, Shape(p), Len(p.tdb_pool) # 0, Len(p.tdb_pool) < MaxLen,
           NEW t \in Handles, NEW y \in Handles
    PROVE  /\ Shifted(p, Appended(p, t, y), t, y, Len(p.tdb_pool) + 1, 0)
           /\ Len(p.tdb_pool) + 1 \in Places
<1> DEFINE n == Len(p.tdb_pool)
           q == Appended(p, t, y)
           ts == Append(p.tdb_pool, t)
           ys == Append(p.ydb_pool, y)
<1>1. /\ p.tdb_pool \in Seq(Slot) /\ p.ydb_pool \in Seq(Slot)
      /\ Len(p.ydb_pool) = n /\ n \in Nat
  BY DEF Shape, DBPool
<1>2. q = WithArrays(p, ts, ys)
  BY MoreAppended
<1>3. /\ Len(ts) = n + 1 /\ ts[n + 1] = t /\ \A i \in 1 .. n : ts[i] = p.tdb_pool[i]
      /\ ys[n + 1] = y /\ \A i \in 1 .. n : ys[i] = p.ydb_pool[i]
  BY <1>1
<1>4. n + 1 \in Places /\ n # 0 /\ \A i \in 1 .. n : i \in Places
  BY <1>1, MaxLenAssumption DEF Places
<1> HIDE DEF ts, ys
<1>5. q.tdb = p.tdb /\ q.ydb = p.ydb /\ q.tdb_pool = ts /\ q.ydb_pool = ys
  BY <1>2 DEF WithArrays
<1> HIDE DEF q
<1>6. \A i \in Places : \A h : /\ TsiIn(p, i, h) <=> i \in 1 .. n /\ h = p.tdb_pool[i]
                               /\ YinIn(p, i, h) <=> i \in 1 .. n /\ h = p.ydb_pool[i]
  BY DEF TsiIn, YinIn
<1>7. \A i \in Places : \A h :
         /\ TsiIn(q, i, h) <=> (i \in 1 .. n /\ h = p.tdb_pool[i]) \/ (i = n + 1 /\ h = t)
         /\ YinIn(q, i, h) <=> (i \in 1 .. n /\ h = p.ydb_pool[i]) \/ (i = n + 1 /\ h = y)
  BY <1>1, <1>3, <1>5 DEF TsiIn, YinIn, Places
<1> HIDE DEF n
<1>8. \A i \in Places : i + 0 = i /\ i - 0 = i /\ (i \in 1 .. n => i # n + 1)
  BY <1>1 DEF Places
<1>9. Shifted(p, q, t, y, n + 1, 0)
  BY <1>4, <1>5, <1>6, <1>7, <1>8 DEF Shifted
<1>10. QED
  BY <1>4, <1>9 DEF n, q

\* The TsiYinDB of the pair is open as y, and the pool of application a
\* becomes q.
Joins(a, q, y) ==
    /\ call \in Opening /\ call.app = a /\ call' = Null
    /\ UNCHANGED <<tVars, mixed>>
    /\ YP!IInv' /\ y \notin Y!Live /\ Y!Live' = Y!Live \cup {y}
    /\ yHandle'[y].key = tHandle[call.t].key
    /\ \A g \in Y!Live : yHandle'[g] = yHandle[g]
    /\ Shape(q) /\ AppTyped' /\ app'[a] = q
    /\ \A b \in Apps \ {a} : app'[b] = app[b]

\* The places of the pool after it.
LEMMA JoinedPlaces ==
    ASSUME IInv, NEW a \in Apps, NEW y, NEW q, Joins(a, q, y), NEW i \in Places, NEW h
    PROVE  /\ TsiAt(a, i, h)' <=> TsiIn(q, i, h)
           /\ YinAt(a, i, h)' <=> YinIn(q, i, h)
<1>1. /\ call \in Opening /\ call.app = a /\ call' = Null
      /\ UNCHANGED <<tVars, mixed>>
      /\ Shape(q) /\ AppTyped' /\ app'[a] = q
      /\ \A b \in Apps \ {a} : app'[b] = app[b]
  BY DEF Joins
<1>2. /\ TsiAt(a, i, h)' <=> IF Len(q.tdb_pool) = 0 THEN i = 0 /\ h = q.tdb
                             ELSE i \in 1 .. Len(q.tdb_pool) /\ h = q.tdb_pool[i]
      /\ YinAt(a, i, h)' <=> IF Len(q.tdb_pool) = 0 THEN i = 0 /\ h = q.ydb
                             ELSE i \in 1 .. Len(q.tdb_pool) /\ h = q.ydb_pool[i]
  BY <1>1, JoinFrame
<1>3. QED
  BY <1>2 DEF TsiIn, YinIn

\* ... and before it.
LEMMA PlacesBefore ==
    ASSUME IInv, NEW a \in Pools, call \in Opening, NEW i \in Places, NEW h
    PROVE  /\ TsiAt(a, i, h) <=> TsiIn(app[a], i, h)
           /\ YinAt(a, i, h) <=> YinIn(app[a], i, h)
<1>1. Shapes /\ Intact(a)
  BY KindsOfCalls DEF IInv, PoolInv, Intact
<1>2. QED
  BY <1>1, WholePool DEF TsiIn, YinIn, len_pool

\* A pair joins the others of a pool.
LEMMA ShiftInv ==
    ASSUME IInv, NEW a \in Pools, NEW y \in Handles, NEW q, Joins(a, q, y),
           dropped' = dropped, NEW n \in Places, NEW d \in Nat,
           Shifted(app[a], q, call.t, y, n, d),
           JunkFree(a)' => JunkFree(a)
    PROVE  IInv'
<1> DEFINE p == app[a]
           t == call.t
<1>1. a \in Apps /\ call \in Opening /\ Shapes
  BY DEF Pools, Joins, IInv, PoolInv
<1>2. t \in Handles /\ Intact(a)
  BY <1>1, KindsOfCalls DEF Intact
<1>3. \A h \in Handles, i \in Places :
         /\ TsiAt(a, i, h) => i + d \in Places /\ i + d # n
         /\ YinAt(a, i, h) => i + d \in Places /\ i + d # n
         /\ TsiAt(a, i, h)' <=> \/ i = n /\ h = t
                                \/ i - d \in Places /\ TsiAt(a, i - d, h)
         /\ YinAt(a, i, h)' <=> \/ i = n /\ h = y
                                \/ i - d \in Places /\ YinAt(a, i - d, h)
  <2>1. \A i \in Places, h \in Handles : /\ TsiAt(a, i, h) <=> TsiIn(p, i, h)
                                         /\ YinAt(a, i, h) <=> YinIn(p, i, h)
    BY <1>1, PlacesBefore
  <2>2. \A i \in Places, h \in Handles : /\ TsiAt(a, i, h)' <=> TsiIn(q, i, h)
                                         /\ YinAt(a, i, h)' <=> YinIn(q, i, h)
    BY <1>1, JoinedPlaces
  <2> HIDE DEF p, t
  <2>3. Shifted(p, q, t, y, n, d)
    BY DEF p, t
  <2>4. QED
    BY <2>1, <2>2, <2>3 DEF Shifted
<1>4. q.tdb = app[a].tdb /\ q.ydb = app[a].ydb
  BY DEF Shifted
<1>5. q.tdb \in Handles \cup {Null} /\ q.ydb \in Handles \cup {Null}
  BY <1>1, <1>4, PlacesOf
<1>6. \A i \in Places : i + d \in Places => (i + d) - d = i
  BY DEF Places
<1>7. \A i \in Places, h \in Handles :
         /\ TsiAt(a, i, h) => i + d \in Places /\ TsiAt(a, i + d, h)'
         /\ YinAt(a, i, h) => i + d \in Places /\ YinAt(a, i + d, h)'
  BY <1>3, <1>6
<1>8. PrimaryOf(a)
  BY <1>2 DEF IInv, PoolInv, PrimaryPlaced
<1>9. mixed' => mixed /\ (mixed => mixed')
  BY DEF Joins
<1>10. ASSUME q.tdb # Null PROVE \E i \in Places : TsiAt(a, i, q.tdb)'
  <2>1. PICK i \in Places : TsiAt(a, i, q.tdb)
    BY <1>4, <1>8, <1>10 DEF PrimaryOf
  <2>2. QED
    BY <1>5, <1>7, <1>10, <2>1
<1>11. ASSUME JunkFree(a)', ~ mixed'
       PROVE  /\ q.tdb = Null <=> q.ydb = Null
              /\ q.tdb # Null => \E i \in Places : TsiAt(a, i, q.tdb)' /\ YinAt(a, i, q.ydb)'
  <2>1. JunkFree(a) /\ ~ mixed
    BY <1>11 DEF Joins
  <2>2. q.tdb = Null <=> q.ydb = Null
    BY <1>4, <1>8, <2>1 DEF PrimaryOf
  <2>3. ASSUME q.tdb # Null
        PROVE  \E i \in Places : TsiAt(a, i, q.tdb)' /\ YinAt(a, i, q.ydb)'
    <3>1. PICK i \in Places : TsiAt(a, i, q.tdb) /\ YinAt(a, i, q.ydb)
      BY <1>4, <1>8, <2>1, <2>3 DEF PrimaryOf
    <3>2. q.tdb \in Handles /\ q.ydb \in Handles
      BY <1>5, <2>2, <2>3
    <3>3. i + d \in Places /\ TsiAt(a, i + d, q.tdb)' /\ YinAt(a, i + d, q.ydb)'
      BY <1>7, <3>1, <3>2
    <3>4. QED
      BY <3>3
  <2>4. QED
    BY <2>2, <2>3
<1>12. app'[a] = q
  BY DEF Joins
<1>13. PrimaryOf(a)'
  <2>1. q.tdb # Null => \E i \in Places : TsiAt(a, i, q.tdb)'
    BY <1>10
  <2>2. JunkFree(a)' /\ ~ mixed' =>
           /\ q.tdb = Null <=> q.ydb = Null
           /\ q.tdb # Null => \E i \in Places : TsiAt(a, i, q.tdb)' /\ YinAt(a, i, q.ydb)'
    BY <1>11
  <2>3. QED
    BY <1>12, <2>1, <2>2, NewPrimary
<1>14. /\ call.app = a /\ call' = Null /\ UNCHANGED <<tVars, dropped, mixed>>
       /\ YP!IInv' /\ y \notin Y!Live /\ Y!Live' = Y!Live \cup {y}
       /\ yHandle'[y].key = tHandle[t].key
       /\ \A g \in Y!Live : yHandle'[g] = yHandle[g]
       /\ Shape(q) /\ AppTyped' /\ app'[a] = q
       /\ \A b \in Apps \ {a} : app'[b] = app[b]
  BY DEF Joins
<1>15. call.t = t /\ (JunkFree(a)' => a \notin Pools \/ JunkFree(a))
  OBVIOUS
<1> HIDE DEF t, p
<1>16. QED
  BY <1>1, <1>3, <1>13, <1>14, <1>15, JoinInv

\* bimsInit: the pair is alone.
LEMMA NewPoolInv ==
    ASSUME IInv, NEW a \in Apps, a \notin Pools, NEW y \in Handles,
           Joins(a, NewPool(call.t, y), y), dropped' = dropped
    PROVE  IInv'
<1>1. PICK t : t = call.t
  OBVIOUS
<1> DEFINE q == NewPool(t, y)
<1>2. call \in Opening /\ t \in Handles
  BY <1>1, KindsOfCalls DEF Joins
<1>3. Joins(a, q, y)
  BY <1>1
<1>4. q.tdb = t /\ q.ydb = y /\ Len(q.tdb_pool) = 0 /\ q.ydb_pool = << >>
  BY DEF NewPool
<1>5. 0 \in Places
  BY MaxLenAssumption DEF Places
<1> HIDE DEF q
<1>6. \A i \in Places : \A h : /\ TsiAt(a, i, h)' <=> i = 0 /\ h = t
                               /\ YinAt(a, i, h)' <=> i = 0 /\ h = y
  <2>1. \A i \in Places : \A h : /\ TsiAt(a, i, h)' <=> TsiIn(q, i, h)
                                 /\ YinAt(a, i, h)' <=> YinIn(q, i, h)
    BY <1>3, JoinedPlaces
  <2>2. QED
    BY <1>4, <2>1 DEF TsiIn, YinIn
<1>7. \A h \in Handles, i \in Places :
         /\ TsiAt(a, i, h) => i + 0 \in Places /\ i + 0 # 0
         /\ YinAt(a, i, h) => i + 0 \in Places /\ i + 0 # 0
         /\ TsiAt(a, i, h)' <=> \/ i = 0 /\ h = t
                                \/ i - 0 \in Places /\ TsiAt(a, i - 0, h)
         /\ YinAt(a, i, h)' <=> \/ i = 0 /\ h = y
                                \/ i - 0 \in Places /\ YinAt(a, i - 0, h)
  <2>1. \A i, h : ~ TsiAt(a, i, h) /\ ~ YinAt(a, i, h)
    BY PlacesInPools
  <2>2. QED
    BY <1>6, <2>1
<1>8. app'[a] = q
  BY <1>3 DEF Joins
<1>9. PrimaryOf(a)'
  <2>1. q.tdb # Null /\ q.ydb # Null
    BY <1>2, <1>4, PointerAssumption
  <2>2. TsiAt(a, 0, q.tdb)' /\ YinAt(a, 0, q.ydb)'
    BY <1>4, <1>5, <1>6
  <2>3. QED
    BY <1>5, <1>8, <2>1, <2>2, NewPrimary
<1>10. /\ call.app = a /\ call' = Null /\ UNCHANGED <<tVars, dropped, mixed>>
       /\ YP!IInv' /\ y \notin Y!Live /\ Y!Live' = Y!Live \cup {y}
       /\ yHandle'[y].key = tHandle[t].key
       /\ \A g \in Y!Live : yHandle'[g] = yHandle[g]
       /\ Shape(q) /\ AppTyped' /\ app'[a] = q
       /\ \A b \in Apps \ {a} : app'[b] = app[b]
  BY <1>1, <1>3 DEF Joins
<1>11. call.t = t /\ (JunkFree(a)' => a \notin Pools \/ JunkFree(a)) /\ 0 \in Nat
  BY <1>1
<1>12. QED
  BY <1>2, <1>5, <1>7, <1>9, <1>10, <1>11, JoinInv

\* bimsUserDBAppend and bimsDBPoolAppend.
LEMMA AppendInv ==
    ASSUME IInv, NEW a \in Pools, NEW y \in Handles, len_pool(a) < MaxLen,
           Joins(a, Appended(app[a], call.t, y), y), dropped' = dropped
    PROVE  IInv'
<1>1. PICK p, t : p = app[a] /\ t = call.t
  OBVIOUS
<1> DEFINE q == Appended(p, t, y)
<1>2. a \in Apps /\ Shape(p) /\ Len(p.tdb_pool) < MaxLen
  BY <1>1 DEF Pools, IInv, PoolInv, Shapes, len_pool
<1>3. t \in Handles /\ Joins(a, q, y) /\ app'[a] = q
  BY <1>1, KindsOfCalls DEF Joins
<1>4. /\ p.ydb_pool \in Seq(Slot) /\ Len(p.tdb_pool) \in Nat
      /\ Len(p.ydb_pool) = Len(p.tdb_pool)
  BY <1>2 DEF Shape, DBPool
<1>5. CASE Len(p.tdb_pool) = 0
  <2>1. Shifted(p, q, t, y, 2, 1) /\ 2 \in Places
    BY <1>2, <1>3, <1>5, FirstShifts
  <2>2. JunkFree(a)
    BY <1>1, <1>4, <1>5 DEF JunkFree
  <2> HIDE DEF q
  <2>3. QED
    BY <1>1, <1>3, <2>1, <2>2, ShiftInv
<1>6. CASE Len(p.tdb_pool) # 0
  <2> DEFINE n == Len(p.tdb_pool) + 1
             ys == Append(p.ydb_pool, y)
  <2>1. Shifted(p, q, t, y, n, 0) /\ n \in Places
    BY <1>2, <1>3, <1>6, AppendShifts
  <2>2. q = WithArrays(p, Append(p.tdb_pool, t), ys)
    BY <1>2, <1>3, <1>6, MoreAppended
  <2>3. \A i \in DOMAIN p.ydb_pool : i \in DOMAIN ys /\ ys[i] = p.ydb_pool[i]
    BY <1>4
  <2> HIDE DEF ys
  <2>4. q.ydb_pool = ys
    BY <2>2 DEF WithArrays
  <2> HIDE DEF q, n
  <2>5. JunkFree(a)' => JunkFree(a)
    BY <1>1, <1>3, <2>3, <2>4 DEF JunkFree
  <2>6. QED
    BY <1>1, <1>3, <2>1, <2>5, ShiftInv
<1>7. QED
  BY <1>5, <1>6

\* bimsDBPoolPrepend, when the primary pair is alone.
LEMMA PrependFirstInv ==
    ASSUME IInv, NEW a \in Pools, NEW y \in Handles, len_pool(a) < MaxLen, len_pool(a) = 0,
           Joins(a, Prepended(app[a], call.t, y), y), dropped' = dropped
    PROVE  IInv'
<1>1. PICK p, t : p = app[a] /\ t = call.t
  OBVIOUS
<1> DEFINE q == Prepended(p, t, y)
<1>2. a \in Apps /\ Shape(p) /\ Len(p.tdb_pool) = 0 /\ 0 < MaxLen
  BY <1>1 DEF Pools, IInv, PoolInv, Shapes, len_pool
<1>3. t \in Handles /\ Joins(a, q, y)
  BY <1>1, KindsOfCalls DEF Joins
<1>4. p.ydb_pool \in Seq(Slot) /\ Len(p.ydb_pool) = 0
  BY <1>2 DEF Shape, DBPool
<1>5. Shifted(p, q, t, y, 1, 2) /\ 1 \in Places
  BY <1>2, <1>3, FirstShifts
<1>6. JunkFree(a)
  BY <1>1, <1>4 DEF JunkFree
<1> HIDE DEF q
<1>7. QED
  BY <1>1, <1>3, <1>5, <1>6, ShiftInv

\* What JoinFrame says of the places and of all that is not the pool of a.
JoinFrameHolds(a, t) ==
    /\ TP!IInv' /\ T!Live' = T!Live /\ tHandle' = tHandle
    /\ InHand = {t} /\ InHand' = {}
    /\ call' \in Opening \cup Destroying \cup {Null}
    /\ Shapes' /\ CallInProgress'
    /\ mixed' \in BOOLEAN /\ (mixed => mixed')
    /\ Intact(a)
    /\ \A b \in Apps \ {a} :
          /\ b \in Pools' <=> b \in Pools
          /\ JunkFree(b)' <=> JunkFree(b)
          /\ \A i, h : /\ TsiAt(b, i, h)' <=> TsiAt(b, i, h)
                       /\ YinAt(b, i, h)' <=> YinAt(b, i, h)
    /\ PrimaryOf(a)' => PrimaryPlaced'

\* The TsiDBs of a pool move by one place, and the one in hand gets the first.
LEMMA TsiMovedUp ==
    ASSUME TsiPlaced, NEW a \in Apps, NEW t \in Handles, JoinFrameHolds(a, t), 1 \in Places,
           \A i \in Places, h \in Handles :
              /\ TsiAt(a, i, h) => i + 1 \in Places /\ i + 1 # 1
              /\ TsiAt(a, i, h)' <=> \/ i = 1 /\ h = t
                                     \/ i - 1 \in Places /\ TsiAt(a, i - 1, h)
    PROVE  TsiPlaced'
<1>1. PICK c \in Nat : c = 1
  OBVIOUS
<1>2. c \in Places
  BY <1>1
<1>3. TsiShifts(a, c, c, t)
  BY <1>1 DEF JoinFrameHolds, TsiShifts
<1>4. InHand = {t} /\ InHand' = {} /\ T!Live' = T!Live
  BY DEF JoinFrameHolds
<1>5. QED
  BY <1>2, <1>3, <1>4, TsiPut

\* bimsDBPoolPrepend, when there are arrays: the TsiDBs move, the TsiYinDBs do
\* not, and an element that was never written is the last.
LEMMA PrependMoreInv ==
    ASSUME IInv, NEW a \in Pools, NEW y \in Handles, len_pool(a) < MaxLen, len_pool(a) # 0,
           Joins(a, Prepended(app[a], call.t, y), y),
           dropped' = dropped \cup ({app[a].ydb_pool[1]} \cap Handles)
    PROVE  IInv'
<1>1. PICK p, t : p = app[a] /\ t = call.t
  OBVIOUS
<1> DEFINE q == Prepended(p, t, y)
           n == Len(p.tdb_pool)
<1>2. a \in Apps /\ Shape(p) /\ n < MaxLen /\ n # 0 /\ call \in Opening
  BY <1>1 DEF Pools, IInv, PoolInv, Shapes, len_pool, Joins
<1>3. t \in Handles /\ Joins(a, q, y)
  BY <1>1, <1>2, KindsOfCalls
<1>4. PICK ts \in Seq(Slot), ys \in Seq(Slot) :
         /\ q = WithArrays(p, ts, ys) /\ Len(ts) = n + 1 /\ Len(ys) = n + 1
         /\ ts[1] = t /\ \A i \in DOMAIN p.tdb_pool : ts[i + 1] = p.tdb_pool[i]
         /\ ys[1] = y /\ ys[n + 1] = Junk
         /\ \A i \in DOMAIN p.tdb_pool : i # 1 => ys[i] = p.ydb_pool[i]
  <2>1. Len(p.tdb_pool) # 0 /\ Len(p.tdb_pool) < MaxLen
    BY <1>2
  <2>2. \E us, vs \in Seq(Slot) : PairPrepended(p, t, y, us, vs)
    BY <1>2, <1>3, <2>1, MorePrepended
  <2>3. QED
    BY <2>2 DEF PairPrepended
<1>5. /\ n \in Nat /\ DOMAIN p.tdb_pool = 1 .. n
      /\ \A i \in 1 .. n : i \in Places
      /\ 1 \in Places /\ n + 1 \in Places /\ 1 \in 1 .. n
  <2>1. p.tdb_pool \in Seq(Slot)
    BY <1>2 DEF Shape, DBPool
  <2>2. n \in Nat
    BY <2>1
  <2>3. QED
    BY <1>2, <2>1, <2>2, MaxLenAssumption DEF Places
<1>6. /\ q.tdb_pool = ts /\ q.ydb_pool = ys
      /\ q.tdb = app[a].tdb /\ q.ydb = app[a].ydb
  BY <1>1, <1>4 DEF WithArrays
<1> HIDE DEF q, n
<1>7. \A i \in Places : \A h :
         /\ TsiAt(a, i, h) <=> i \in 1 .. n /\ h = p.tdb_pool[i]
         /\ YinAt(a, i, h) <=> i \in 1 .. n /\ h = p.ydb_pool[i]
  <2>1. \A i \in Places : \A h : /\ TsiAt(a, i, h) <=> TsiIn(p, i, h)
                                 /\ YinAt(a, i, h) <=> YinIn(p, i, h)
    BY <1>1, <1>2, PlacesBefore
  <2>2. Len(p.tdb_pool) = n /\ n # 0
    BY <1>2 DEF n
  <2>3. QED
    BY <2>1, <2>2 DEF TsiIn, YinIn
<1>8. \A i \in Places : \A h :
         /\ TsiAt(a, i, h)' <=> i \in 1 .. n + 1 /\ h = ts[i]
         /\ YinAt(a, i, h)' <=> i \in 1 .. n + 1 /\ h = ys[i]
  <2>1. \A i \in Places : \A h : /\ TsiAt(a, i, h)' <=> TsiIn(q, i, h)
                                 /\ YinAt(a, i, h)' <=> YinIn(q, i, h)
    BY <1>2, <1>3, JoinedPlaces
  <2>2. Len(q.tdb_pool) = n + 1 /\ n + 1 # 0
    BY <1>4, <1>5, <1>6
  <2>3. QED
    BY <1>6, <2>1, <2>2 DEF TsiIn, YinIn
<1>9. /\ call.app = a /\ call' = Null /\ UNCHANGED <<tVars, mixed>>
      /\ YP!IInv' /\ y \notin Y!Live /\ Y!Live' = Y!Live \cup {y}
      /\ yHandle'[y].key = tHandle[t].key
      /\ \A g \in Y!Live : yHandle'[g] = yHandle[g]
      /\ Shape(q) /\ AppTyped' /\ app'[a] = q
      /\ \A b \in Apps \ {a} : app'[b] = app[b]
  BY <1>1, <1>3 DEF Joins
<1>10. ~ JunkFree(a)'
  BY <1>4, <1>5, <1>6, <1>9 DEF JunkFree
<1>11. \A i \in Places, h \in Handles :
          /\ TsiAt(a, i, h) => i + 1 \in Places /\ i + 1 # 1
          /\ TsiAt(a, i, h)' <=> \/ i = 1 /\ h = t
                                 \/ i - 1 \in Places /\ TsiAt(a, i - 1, h)
  <2> TAKE i \in Places, h \in Handles
  <2>1. i \in Nat /\ i <= MaxLen /\ n < MaxLen /\ MaxLen \in Nat
    BY <1>2, MaxLenAssumption DEF Places
  <2>2. TsiAt(a, i, h) => i + 1 \in Places /\ i + 1 # 1
    BY <1>5, <1>7, <2>1 DEF Places
  <2>3. CASE i \in 2 .. n + 1
    <3>1. /\ i - 1 \in 1 .. n /\ i - 1 \in Places /\ (i - 1) + 1 = i
          /\ i \in 1 .. n + 1 /\ i # 1
      BY <1>5, <2>3 DEF Places
    <3>2. ts[(i - 1) + 1] = p.tdb_pool[i - 1]
      BY <1>4, <1>5, <3>1
    <3>3. ts[i] = p.tdb_pool[i - 1]
      BY <3>1, <3>2
    <3>4. QED
      BY <1>7, <1>8, <2>2, <3>1, <3>3
  <2>4. CASE i = 1
    <3>1. i \in 1 .. n + 1 /\ ~ (i - 1 \in 1 .. n)
      BY <1>5, <2>4
    <3>2. QED
      BY <1>4, <1>7, <1>8, <2>2, <2>4, <3>1
  <2>5. CASE i \notin 1 .. n + 1
    <3>1. ~ (i - 1 \in 1 .. n) /\ i # 1
      BY <1>5, <2>1, <2>5
    <3>2. QED
      BY <1>7, <1>8, <2>2, <2>5, <3>1
  <2>6. i \in 2 .. n + 1 \/ i = 1 \/ i \notin 1 .. n + 1
    BY <1>5, <2>1
  <2>7. QED
    BY <2>3, <2>4, <2>5, <2>6
<1>12. \A i \in Places, h \in Handles :
          YinAt(a, i, h)' <=> IF i = 1 THEN h = y ELSE YinAt(a, i, h)
  <2> TAKE i \in Places, h \in Handles
  <2>1. CASE i = 1
    BY <1>4, <1>5, <1>8, <2>1
  <2>2. CASE i \in 1 .. n /\ i # 1
    <3>1. ys[i] = p.ydb_pool[i] /\ i \in 1 .. n + 1
      BY <1>4, <1>5, <2>2
    <3>2. QED
      BY <1>7, <1>8, <2>2, <3>1
  <2>3. CASE i = n + 1
    <3>1. ~ (i \in 1 .. n) /\ i # 1 /\ ys[i] = Junk /\ h # Junk
      BY <1>2, <1>4, <1>5, <2>3, PointerAssumption
    <3>2. QED
      BY <1>7, <1>8, <3>1
  <2>4. CASE i \notin 1 .. n + 1
    <3>1. ~ (i \in 1 .. n) /\ i # 1
      BY <1>5, <2>4
    <3>2. QED
      BY <1>7, <1>8, <2>4, <3>1
  <2>5. i = 1 \/ (i \in 1 .. n /\ i # 1) \/ i = n + 1 \/ i \notin 1 .. n + 1
    BY <1>5
  <2>6. QED
    BY <2>1, <2>2, <2>3, <2>4, <2>5
<1>13. dropped' = dropped \cup {h \in Handles : YinAt(a, 1, h)}
  <2>1. \A h : YinAt(a, 1, h) <=> h = p.ydb_pool[1]
    BY <1>5, <1>7
  <2>2. {h \in Handles : YinAt(a, 1, h)} = {p.ydb_pool[1]} \cap Handles
    BY <2>1
  <2>3. QED
    BY <1>1, <2>2
<1>14. JoinFrameHolds(a, t)
  BY <1>1, <1>2, <1>9, JoinFrame DEF JoinFrameHolds
<1>15. /\ Shapes /\ TsiPlaced /\ YinPlaced /\ PairsMatch /\ HalvesTogether
       /\ dropped \subseteq Handles
  BY DEF IInv, PoolInv
<1>16. TsiPlaced'
  BY <1>2, <1>3, <1>5, <1>11, <1>14, <1>15, TsiMovedUp
<1>17. YinPlaced'
  <2>1. \A h \in Handles, i \in Places :
           /\ \A b \in Apps \ {a} : YinAt(b, i, h)' <=> YinAt(b, i, h)
           /\ YinAt(a, i, h)' <=> IF i = 1 THEN h = y ELSE YinAt(a, i, h)
    BY <1>12, <1>14 DEF JoinFrameHolds
  <2>2. QED
    BY <1>2, <1>5, <1>9, <1>13, <1>15, <2>1, YinPushed
<1>18. \A b \in Pools' : JunkFree(b)' =>
          /\ b \in Apps \ {a} /\ b \in Pools /\ JunkFree(b)
          /\ \A i, h : /\ TsiAt(b, i, h)' <=> TsiAt(b, i, h)
                       /\ YinAt(b, i, h)' <=> YinAt(b, i, h)
  BY <1>10, <1>14 DEF JoinFrameHolds, Pools
<1>19. tHandle' = tHandle /\ (mixed => mixed')
  BY <1>14 DEF JoinFrameHolds
<1>20. PairsMatch'
  <2> SUFFICES ASSUME NEW b \in Pools', NEW i \in Places, NEW g \in Handles, NEW h \in Handles,
                      JunkFree(b)', TsiAt(b, i, g)', YinAt(b, i, h)'
               PROVE  tHandle'[g].key = yHandle'[h].key
    BY DEF PairsMatch
  <2>1. /\ b \in Pools /\ b \in Apps /\ JunkFree(b)
        /\ TsiAt(b, i, g) /\ YinAt(b, i, h)
    BY <1>18
  <2>2. tHandle[g].key = yHandle[h].key
    BY <1>15, <2>1 DEF PairsMatch
  <2>3. h \in Y!Live
    BY <1>15, <2>1 DEF YinPlaced
  <2>4. QED
    BY <1>9, <1>19, <2>2, <2>3
<1>21. HalvesTogether'
  <2> SUFFICES ASSUME NEW b \in Pools', NEW i \in Places, JunkFree(b)', ~ mixed'
               PROVE  (\E g \in Handles : TsiAt(b, i, g)') <=>
                         (\E h \in Handles : YinAt(b, i, h)')
    BY DEF HalvesTogether
  <2>1. /\ b \in Pools /\ JunkFree(b) /\ ~ mixed
        /\ \A h : /\ TsiAt(b, i, h)' <=> TsiAt(b, i, h)
                  /\ YinAt(b, i, h)' <=> YinAt(b, i, h)
    BY <1>18, <1>19
  <2>2. (\E g \in Handles : TsiAt(b, i, g)) <=> (\E h \in Handles : YinAt(b, i, h))
    BY <1>15, <2>1 DEF HalvesTogether
  <2>3. QED
    BY <2>1, <2>2
<1>22. PrimaryOf(a)'
  <2>1. q.tdb # Null => \E i \in Places : TsiAt(a, i, q.tdb)
    <3>1. PrimaryOf(a)
      BY <1>14 DEF JoinFrameHolds, IInv, PoolInv, PrimaryPlaced
    <3>2. QED
      BY <1>6, <3>1 DEF PrimaryOf
  <2>2. ASSUME q.tdb # Null PROVE \E i \in Places : TsiAt(a, i, q.tdb)'
    <3>1. PICK i \in Places : TsiAt(a, i, q.tdb)
      BY <2>1, <2>2
    <3>2. q.tdb \in Handles
      BY <1>6, <1>15, <2>2, PlacesOf
    <3>3. i + 1 \in Places /\ (i + 1) - 1 = i
      <4>1. i + 1 \in Places
        BY <1>11, <3>1, <3>2
      <4>2. (i + 1) - 1 = i
        BY DEF Places
      <4>3. QED
        BY <4>1, <4>2
    <3>4. TsiAt(a, i + 1, q.tdb)'
      BY <1>11, <3>1, <3>2, <3>3
    <3>5. QED
      BY <3>3, <3>4
  <2>3. QED
    BY <1>9, <1>10, <2>2, NewPrimary
<1>23. PrimaryPlaced'
  BY <1>14, <1>22 DEF JoinFrameHolds
<1>24. dropped' \subseteq Handles
  BY <1>13, <1>15
<1>25. QED
  BY <1>9, <1>14, <1>16, <1>17, <1>20, <1>21, <1>23, <1>24 DEF JoinFrameHolds, IInv, PoolInv

\* What a call makes of a pool has the shape of one.
LEMMA PairShape ==
    ASSUME IInv, call \in Opening, NEW y \in Handles
    PROVE  Shape(WithPair(call.op, app[call.app], call.t, y))
<1>1. PICK a, p, t, op : a = call.app /\ p = app[a] /\ t = call.t /\ op = call.op
  OBVIOUS
<1>2. /\ a \in Apps /\ t \in Handles /\ op \in {"init", "user", "append", "prepend"}
      /\ Shapes /\ CallInProgress
  BY <1>1, KindsOfCalls DEF Opening, IInv, PoolInv
<1>3. CASE op = "init"
  <2> DEFINE q == NewPool(t, y)
  <2>1. WithPair(op, p, t, y) = q
    BY <1>3, PairCases
  <2>2. << >> \in Seq(Slot) /\ Len(<< >>) = 0 /\ DOMAIN << >> = {}
    OBVIOUS
  <2>3. q \in DBPool
    BY <1>2, <2>2 DEF NewPool, DBPool
  <2>4. q.tdb = t /\ q.ydb = y /\ q.tdb_pool = << >> /\ q.ydb_pool = << >>
    BY DEF NewPool
  <2>5. 0 # 1 /\ 0 <= MaxLen
    BY MaxLenAssumption
  <2> HIDE DEF q
  <2>6. Shape(q)
    BY <1>2, <2>2, <2>3, <2>4, <2>5 DEF Shape
  <2>7. QED
    BY <1>1, <2>1, <2>6
<1>4. CASE op # "init"
  <2>1. a \in Pools /\ Len(p.tdb_pool) < MaxLen
    BY <1>1, <1>2, <1>4 DEF CallInProgress, Pools, len_pool
  <2>2. Shape(p)
    BY <1>1, <1>2, <2>1 DEF Shapes
  <2>3. Shape(Appended(p, t, y)) /\ Shape(Prepended(p, t, y))
    <3>1. CASE Len(p.tdb_pool) = 0
      <4>1. 0 < MaxLen
        BY <2>1, <3>1
      <4>2. QED
        BY <1>2, <2>2, <3>1, <4>1, FirstJoins
    <3>2. CASE Len(p.tdb_pool) # 0
      BY <1>2, <2>1, <2>2, <3>2, MoreAppended, MorePrepended
    <3>3. QED
      BY <3>1, <3>2
  <2>4. \/ WithPair(op, p, t, y) = Appended(p, t, y)
        \/ WithPair(op, p, t, y) = Prepended(p, t, y)
    BY <1>2, <1>4, PairCases
  <2>5. QED
    BY <1>1, <2>3, <2>4
<1>5. QED
  BY <1>3, <1>4

\* The TsiYinDB opens and the pair joins the pool.
LEMMA OpenYinJoins ==
    ASSUME IInv, call \in Opening, NEW y \in Handles, Y!Open(y, KeyOf(call.op, call.name)),
           app' = [app EXCEPT ![call.app] = WithPair(call.op, @, call.t, y)],
           call' = Null, UNCHANGED tVars, UNCHANGED mixed
    PROVE  Joins(call.app, WithPair(call.op, app[call.app], call.t, y), y)
<1>1. PICK a, q : a = call.app /\ q = WithPair(call.op, app[call.app], call.t, y)
  OBVIOUS
<1>2. a \in Apps /\ call.name \in Names
  BY <1>1, KindsOfCalls
<1>3. Shape(q)
  BY <1>1, PairShape
<1>4. PICK k : k = KeyOf(call.op, call.name)
  OBVIOUS
<1>5. k \in Y!Key /\ k = tHandle[call.t].key /\ Y!Open(y, k)
  BY <1>2, <1>4, KeysOpened DEF IInv, PoolInv, CallInProgress
<1>6. /\ YP!IInv' /\ y \notin Y!Live /\ Y!Live' = Y!Live \cup {y}
      /\ yHandle'[y].key = k
      /\ \A g \in Y!Live : yHandle'[g] = yHandle[g]
  BY <1>5, YinOpened DEF IInv
<1>7. app \in [Apps -> DBPool \cup {Null}] /\ app' = [app EXCEPT ![a] = q]
  BY <1>1 DEF IInv, PoolInv, AppTyped
<1>8. q \in DBPool \cup {Null}
  BY <1>3 DEF Shape
<1>9. AppTyped' /\ app'[a] = q /\ \A b \in Apps \ {a} : app'[b] = app[b]
  <2>1. app' \in [Apps -> DBPool \cup {Null}]
    BY <1>2, <1>7, <1>8
  <2>2. app'[a] = q /\ \A b \in Apps \ {a} : app'[b] = app[b]
    BY <1>2, <1>7
  <2>3. QED
    BY <2>1, <2>2 DEF AppTyped
<1>10. Joins(a, q, y)
  BY <1>1, <1>3, <1>5, <1>6, <1>9 DEF Joins
<1>11. QED
  BY <1>1, <1>10

\* The second half of a call.
LEMMA OpenYinInv ==
    ASSUME IInv, OpenYin
    PROVE  IInv'
<1>1. call \in Opening /\ call' = Null /\ mixed' = mixed
  BY DEF OpenYin
<1>2. PICK a, p, t, op : a = call.app /\ p = app[a] /\ t = call.t /\ op = call.op
  OBVIOUS
<1>3. /\ a \in Apps /\ t \in Handles /\ op \in {"init", "user", "append", "prepend"}
      /\ Shapes /\ CallInProgress
  BY <1>1, <1>2, KindsOfCalls DEF Opening, IInv, PoolInv
<1>4. ASSUME NEW y \in Handles, Y!Open(y, KeyOf(call.op, call.name)),
             app' = [app EXCEPT ![call.app] = WithPair(call.op, @, call.t, y)],
             dropped' = dropped \cup Overwritten(call.op, app[call.app]),
             UNCHANGED tVars
      PROVE  IInv'
  <2>1. Joins(a, WithPair(op, p, t, y), y)
    <3>1. UNCHANGED mixed
      BY <1>1
    <3>2. Joins(call.app, WithPair(call.op, app[call.app], call.t, y), y)
      BY <1>1, <1>4, <3>1, OpenYinJoins
    <3>3. QED
      BY <1>2, <3>2
  <2>2. dropped' = dropped \cup Overwritten(op, p)
    BY <1>2, <1>4
  <2>3. CASE op = "init"
    <3>1. a \notin Pools
      BY <1>1, <1>2, <1>3, <2>3 DEF CallInProgress, Pools
    <3>2. Joins(a, NewPool(t, y), y)
      BY <2>1, <2>3, PairCases
    <3>3. dropped' = dropped
      BY <2>2, <2>3 DEF Overwritten
    <3>4. QED
      BY <1>2, <1>3, <1>4, <3>1, <3>2, <3>3, NewPoolInv
  <2>4. CASE op # "init"
    <3>1. a \in Pools /\ len_pool(a) < MaxLen
      BY <1>1, <1>2, <1>3, <2>4 DEF CallInProgress, Pools
    <3>2. Len(p.tdb_pool) = len_pool(a) /\ Len(p.ydb_pool) = len_pool(a)
      BY <1>2, <1>3, <3>1 DEF Shapes, Shape, len_pool
    <3>3. len_pool(a) \in Nat
      BY <1>3, <3>1, PlacesOf
    <3>4. CASE op \in {"user", "append"}
      <4>1. Joins(a, Appended(p, t, y), y)
        BY <2>1, <3>4, PairCases
      <4>2. dropped' = dropped
        BY <2>2, <3>4 DEF Overwritten
      <4>3. QED
        BY <1>2, <1>4, <3>1, <4>1, <4>2, AppendInv
    <3>5. CASE op = "prepend" /\ len_pool(a) = 0
      <4>1. Joins(a, Prepended(p, t, y), y)
        BY <2>1, <3>5, PairCases
      <4>2. dropped' = dropped
        BY <2>2, <3>2, <3>5 DEF Overwritten
      <4>3. QED
        BY <1>2, <1>4, <3>1, <3>5, <4>1, <4>2, PrependFirstInv
    <3>6. CASE op = "prepend" /\ len_pool(a) # 0
      <4>1. Joins(a, Prepended(p, t, y), y)
        BY <2>1, <3>6, PairCases
      <4>2. dropped' = dropped \cup ({p.ydb_pool[1]} \cap Handles)
        BY <2>2, <3>2, <3>3, <3>6 DEF Overwritten
      <4>3. QED
        BY <1>2, <1>4, <3>1, <3>6, <4>1, <4>2, PrependMoreInv
    <3>7. QED
      BY <1>3, <2>4, <3>4, <3>5, <3>6
  <2>5. QED
    BY <2>3, <2>4
<1>5. ASSUME Y!OpenFails(KeyOf(call.op, call.name)), T!Close(call.t),
             UNCHANGED <<app, dropped>>
      PROVE  IInv'
  BY <1>1, <1>5, OpenYinFailsInv
<1>6. QED
  BY <1>4, <1>5 DEF OpenYin
-----------------------------------------------------------------------------
(* The invariant holds in every reachable state. *)

\* A process that died is replaced by one that starts afresh.
LEMMA CrashInv ==
    ASSUME Crash
    PROVE  Init'
<1>1. /\ T!Init' <=> /\ tPool' = << >> /\ tLost' = {}
                     /\ tHandle' = [h \in Handles |-> Free]
                     /\ tDB' = [d \in DBs |-> Closed] /\ tMisclosed' = {}
      /\ Y!Init' <=> /\ yPool' = << >> /\ yLost' = {}
                     /\ yHandle' = [h \in Handles |-> Free]
                     /\ yDB' = [d \in DBs |-> Closed] /\ yMisclosed' = {}
  BY DEF T!Init, Y!Init
<1>2. QED
  BY <1>1 DEF Crash, Init

\* A step that changes nothing.
LEMMA StutterInv ==
    ASSUME IInv, UNCHANGED vars
    PROVE  IInv'
<1>1. UNCHANGED <<tVars, yVars, app, dropped, mixed>> /\ call' = call
  BY DEF vars
<1>2. UNCHANGED tHandle
  BY <1>1 DEF tVars
<1>3. call' \in Opening \cup Destroying \cup {Null} /\ InHand' = InHand
  BY <1>1 DEF IInv, PoolInv, InHand
<1>4. CallInProgress'
  BY <1>1, <1>2 DEF IInv, PoolInv, CallInProgress, len_pool
<1>5. \A a \in Pools : OpenSlots(a)' = OpenSlots(a)
  BY <1>1 DEF OpenSlots
<1>6. \A a \in Pools : Intact(a)' => Intact(a)
  BY <1>1 DEF Intact
<1>7. QED
  BY <1>1, <1>3, <1>4, <1>5, <1>6, QuietInv

\* Every call keeps the invariant.
LEMMA NextInv == IInv /\ [Next]_vars => IInv'
<1> SUFFICES ASSUME IInv, [Next]_vars PROVE IInv'
  OBVIOUS
<1>1. ASSUME NEW op \in {"init", "user", "append", "prepend"}, NEW a \in Apps,
             NEW n \in Names, OpenTsi(op, a, n)
      PROVE  IInv'
  BY <1>1, OpenTsiInv
<1>2. ASSUME OpenYin PROVE IInv'
  BY <1>2, OpenYinInv
<1>3. ASSUME NEW a \in Apps, NEW d \in DeleteArgs, Delete(a, d[1], d[2]) PROVE IInv'
  BY <1>3, DeleteInv
<1>4. ASSUME NEW a \in Apps, DestroyPrimary(a) PROVE IInv'
  BY <1>4, DestroyPrimaryInv
<1>5. ASSUME NEW a \in Apps, BeginDestroy(a) PROVE IInv'
  BY <1>5, BeginDestroyInv
<1>6. ASSUME DestroySlot PROVE IInv'
  BY <1>6, DestroySlotInv
<1>7. ASSUME Crash PROVE IInv'
  <2>1. Init'
    BY <1>7, CrashInv
  <2>2. (Init => IInv)'
    BY InitInv, PTL
  <2>3. QED
    BY <2>1, <2>2
<1>8. ASSUME UNCHANGED vars PROVE IInv'
  BY <1>8, StutterInv
<1>9. QED
  BY <1>1, <1>2, <1>3, <1>4, <1>5, <1>6, <1>7, <1>8 DEF Next

\* The invariant that relates the pools of the applications, the call that is
\* under way and the two lists of libtabe is kept by every call.
THEOREM Invariant == Spec => []IInv
<1>1. QED
  BY InitInv, NextInv, PTL DEF Spec

\* The pools, the call under way and the state of both lists of libtabe stay
\* what the declarations of bims.h and tabe.h say.
THEOREM TypeCorrect == Spec => []TypeOK
<1>1. IInv => TypeOK
  <2> SUFFICES ASSUME IInv PROVE TypeOK
    OBVIOUS
  <2>1. T!TypeOK
    BY DEF IInv, TP!IInv, TP!TypeOK, T!TypeOK, TP!Entry, T!Entry, TP!Handle, T!Handle,
           TP!Key, T!Key
  <2>2. Y!TypeOK
    BY DEF IInv, YP!IInv, YP!TypeOK, Y!TypeOK, YP!Entry, Y!Entry, YP!Handle, Y!Handle,
           YP!Key, Y!Key
  <2>3. QED
    BY <2>1, <2>2 DEF IInv, PoolInv, AppTyped, TypeOK
<1>2. QED
  BY <1>1, Invariant, PTL

\* The slots by their places.
LEMMA SlotPlaces ==
    ASSUME IInv
    PROVE  /\ \A s \in TsiSlots :
                 /\ s[1] \in Apps /\ s[2] \in Places
                 /\ app[s[1]].tdb_pool[s[2]] \in Handles
                 /\ TsiAt(s[1], s[2], app[s[1]].tdb_pool[s[2]])
           /\ \A s \in YinSlots :
                 /\ s[1] \in Apps /\ s[2] \in Places
                 /\ app[s[1]].ydb_pool[s[2]] \in Handles
                 /\ YinAt(s[1], s[2], app[s[1]].ydb_pool[s[2]])
           /\ \A a \in LonePools :
                 /\ a \in Apps /\ 0 \in Places
                 /\ app[a].tdb \in Handles /\ app[a].ydb \in Handles
                 /\ TsiAt(a, 0, app[a].tdb) /\ YinAt(a, 0, app[a].ydb)
<1>1. Shapes
  BY DEF IInv, PoolInv
<1>2. 1 .. MaxLen \subseteq Places /\ 0 \in Places
  BY MaxLenAssumption DEF Places
<1>3. \A a \in Pools : \A i \in OpenSlots(a) : app[a].tdb_pool[i] \in Handles \cup {Null}
  <2> SUFFICES ASSUME NEW a \in Pools, NEW i \in OpenSlots(a)
               PROVE  app[a].tdb_pool[i] \in Handles \cup {Null}
    OBVIOUS
  <2>1. i \in 1 .. len_pool(a)
    BY <1>1, PlacesOf
  <2>2. QED
    BY <1>1, <2>1, PlacesOf
<1>4. ASSUME NEW s \in TsiSlots
      PROVE  /\ s[1] \in Apps /\ s[2] \in Places
             /\ app[s[1]].tdb_pool[s[2]] \in Handles
             /\ TsiAt(s[1], s[2], app[s[1]].tdb_pool[s[2]])
  <2>1. /\ s[1] \in Pools /\ s[2] \in 1 .. MaxLen /\ s[2] \in OpenSlots(s[1])
        /\ app[s[1]].tdb_pool[s[2]] # Null
    BY DEF TsiSlots
  <2>2. QED
    BY <1>2, <1>3, <2>1 DEF TsiAt, Pools
<1>5. ASSUME NEW s \in YinSlots
      PROVE  /\ s[1] \in Apps /\ s[2] \in Places
             /\ app[s[1]].ydb_pool[s[2]] \in Handles
             /\ YinAt(s[1], s[2], app[s[1]].ydb_pool[s[2]])
  <2>1. /\ s[1] \in Pools /\ s[2] \in 1 .. MaxLen /\ s[2] \in OpenSlots(s[1])
        /\ app[s[1]].ydb_pool[s[2]] \in Handles
    BY DEF YinSlots
  <2>2. QED
    BY <1>2, <2>1 DEF YinAt, Pools
<1>6. ASSUME NEW a \in LonePools
      PROVE  /\ a \in Apps /\ 0 \in Places
             /\ app[a].tdb \in Handles /\ app[a].ydb \in Handles
             /\ TsiAt(a, 0, app[a].tdb) /\ YinAt(a, 0, app[a].ydb)
  <2>1. a \in Pools /\ Len(app[a].tdb_pool) = 0
    BY DEF LonePools, len_pool
  <2>2. app[a].tdb \in Handles /\ app[a].ydb \in Handles
    BY <1>1, <2>1 DEF Shapes, Shape
  <2>3. QED
    BY <1>2, <2>1, <2>2 DEF TsiAt, YinAt, Pools
<1>7. QED
  BY <1>4, <1>5, <1>6

\* A handle in a place is that of a lone primary pair or of a slot.
LEMMA PlacedInASlot ==
    ASSUME IInv, NEW a \in Apps, NEW i \in Places, NEW h \in Handles
    PROVE  /\ TsiAt(a, i, h) => \/ a \in LonePools /\ h = app[a].tdb
                                \/ <<a, i>> \in TsiSlots /\ h = app[a].tdb_pool[i]
           /\ YinAt(a, i, h) => \/ a \in LonePools /\ h = app[a].ydb
                                \/ <<a, i>> \in YinSlots /\ h = app[a].ydb_pool[i]
<1>1. Shapes /\ h # Null
  BY PointerAssumption DEF IInv, PoolInv
<1>2. ASSUME a \in Pools, i \in OpenSlots(a) PROVE i \in 1 .. MaxLen
  <2>1. i \in 1 .. len_pool(a) /\ len_pool(a) \in Nat /\ len_pool(a) <= MaxLen
    BY <1>1, <1>2, PlacesOf
  <2>2. QED
    BY <2>1, MaxLenAssumption
<1> DEFINE s == <<a, i>>
<1>3. s[1] = a /\ s[2] = i
  OBVIOUS
<1>4. ASSUME a \in Pools, i \in OpenSlots(a) PROVE s \in Pools \X (1 .. MaxLen)
  BY <1>2, <1>4
<1> HIDE DEF s
<1>5. ASSUME a \in Pools, i \in OpenSlots(a)
      PROVE  /\ h = app[a].tdb_pool[i] => s \in TsiSlots
             /\ h = app[a].ydb_pool[i] => s \in YinSlots
  BY <1>1, <1>3, <1>4, <1>5 DEF TsiSlots, YinSlots
<1>6. /\ TsiAt(a, i, h) => \/ a \in LonePools /\ h = app[a].tdb
                           \/ s \in TsiSlots /\ h = app[a].tdb_pool[i]
      /\ YinAt(a, i, h) => \/ a \in LonePools /\ h = app[a].ydb
                           \/ s \in YinSlots /\ h = app[a].ydb_pool[i]
  BY <1>5 DEF TsiAt, YinAt
<1>7. QED
  BY <1>6 DEF s

\* Every TsiDB and TsiYinDB handle that is open is in one place, from where
\* one call closes it, is in the hand of the call that opened it, or is a
\* TsiYinDB whose pointer bimsDBPoolPrepend overwrote: a failed open leaks no
\* handle, and none is closed twice.
THEOREM EveryHandleIsOwned == Spec => []HandlesOwned
<1>1. IInv => TsiHandlesOwned
  <2> SUFFICES ASSUME IInv PROVE TsiHandlesOwned
    OBVIOUS
  <2>1. TsiPlaced /\ T!Live \subseteq Handles
    BY DEF IInv, PoolInv, T!Live
  <2> DEFINE Lone == {app[a].tdb : a \in LonePools}
             InSlots == {app[s[1]].tdb_pool[s[2]] : s \in TsiSlots}
  <2>2. \A h \in Lone : h \in T!Live
    BY <2>1, SlotPlaces DEF TsiPlaced
  <2>3. \A h \in InSlots : h \in T!Live
    BY <2>1, SlotPlaces DEF TsiPlaced
  <2>4. InHand \subseteq T!Live
    BY <2>1 DEF TsiPlaced
  <2>5. ASSUME NEW h \in T!Live PROVE h \in Lone \/ h \in InSlots \/ h \in InHand
    <3>1. CASE h \in InHand
      BY <3>1
    <3>2. CASE h \notin InHand
      <4>1. PICK a \in Apps, i \in Places : TsiAt(a, i, h)
        BY <2>1, <3>2 DEF TsiPlaced
      <4>2. \/ a \in LonePools /\ h = app[a].tdb
            \/ <<a, i>> \in TsiSlots /\ h = app[a].tdb_pool[i]
        BY <2>1, <4>1, PlacedInASlot
      <4>3. CASE a \in LonePools /\ h = app[a].tdb
        BY <4>3
      <4>4. CASE <<a, i>> \in TsiSlots /\ h = app[a].tdb_pool[i]
        <5>1. PICK s \in TsiSlots : s = <<a, i>>
          BY <4>4
        <5>2. h = app[s[1]].tdb_pool[s[2]]
          BY <4>4, <5>1
        <5>3. QED
          BY <5>2
      <4>5. QED
        BY <4>2, <4>3, <4>4
    <3>3. QED
      BY <3>1, <3>2
  <2> HIDE DEF Lone, InSlots
  <2>6. T!Live = Lone \cup InSlots \cup InHand
    BY <2>2, <2>3, <2>4, <2>5
  <2>7. ASSUME NEW r \in TsiSlots, NEW s \in TsiSlots,
               app[r[1]].tdb_pool[r[2]] = app[s[1]].tdb_pool[s[2]]
        PROVE  r = s
    <3>1. r[1] = s[1] /\ r[2] = s[2]
      BY <2>1, <2>7, SlotPlaces DEF TsiPlaced
    <3>2. r = <<r[1], r[2]>> /\ s = <<s[1], s[2]>>
      BY DEF TsiSlots
    <3>3. QED
      BY <3>1, <3>2
  <2>8. QED
    BY <2>6, <2>7 DEF TsiHandlesOwned, InHand, Lone, InSlots
<1>2. IInv => YinHandlesOwned
  <2> SUFFICES ASSUME IInv PROVE YinHandlesOwned
    OBVIOUS
  <2>1. YinPlaced /\ Y!Live \subseteq Handles
    BY DEF IInv, PoolInv, Y!Live
  <2> DEFINE Lone == {app[a].ydb : a \in LonePools}
             InSlots == {app[s[1]].ydb_pool[s[2]] : s \in YinSlots}
  <2>2. \A h \in Lone : h \in Y!Live
    BY <2>1, SlotPlaces DEF YinPlaced
  <2>3. \A h \in InSlots : h \in Y!Live
    BY <2>1, SlotPlaces DEF YinPlaced
  <2>4. dropped \subseteq Y!Live
    BY <2>1 DEF YinPlaced
  <2>5. ASSUME NEW h \in Y!Live PROVE h \in Lone \/ h \in InSlots \/ h \in dropped
    <3>1. CASE h \in dropped
      BY <3>1
    <3>2. CASE h \notin dropped
      <4>1. PICK a \in Apps, i \in Places : YinAt(a, i, h)
        BY <2>1, <3>2 DEF YinPlaced
      <4>2. \/ a \in LonePools /\ h = app[a].ydb
            \/ <<a, i>> \in YinSlots /\ h = app[a].ydb_pool[i]
        BY <2>1, <4>1, PlacedInASlot
      <4>3. CASE a \in LonePools /\ h = app[a].ydb
        BY <4>3
      <4>4. CASE <<a, i>> \in YinSlots /\ h = app[a].ydb_pool[i]
        <5>1. PICK s \in YinSlots : s = <<a, i>>
          BY <4>4
        <5>2. h = app[s[1]].ydb_pool[s[2]]
          BY <4>4, <5>1
        <5>3. QED
          BY <5>2
      <4>5. QED
        BY <4>2, <4>3, <4>4
    <3>3. QED
      BY <3>1, <3>2
  <2> HIDE DEF Lone, InSlots
  <2>6. Y!Live = dropped \cup Lone \cup InSlots
    BY <2>2, <2>3, <2>4, <2>5
  <2>7. ASSUME NEW r \in YinSlots, NEW s \in YinSlots,
               app[r[1]].ydb_pool[r[2]] = app[s[1]].ydb_pool[s[2]]
        PROVE  r = s
    <3>1. r[1] = s[1] /\ r[2] = s[2]
      BY <2>1, <2>7, SlotPlaces DEF YinPlaced
    <3>2. r = <<r[1], r[2]>> /\ s = <<s[1], s[2]>>
      BY DEF YinSlots
    <3>3. QED
      BY <3>1, <3>2
  <2>8. QED
    BY <2>6, <2>7 DEF YinHandlesOwned, Lone, InSlots
<1>3. QED
  BY <1>1, <1>2, Invariant, TypeCorrect, PTL DEF HandlesOwned

\* A slot never joins the TsiDB of one dictionary with the TsiYinDB of
\* another, whatever was opened, appended and deleted, until an element that
\* was never written is in the array; and without a call of bimsDBPoolDelete
\* with the files of two dictionaries, a slot has both halves or none.
THEOREM PairsStayTogether == Spec => []SlotsHoldPairs
<1>1. IInv => SlotsHoldPairs
  <2> SUFFICES ASSUME IInv, NEW a \in Pools, JunkFree(a), NEW i \in OpenSlots(a)
               PROVE  LET t == app[a].tdb_pool[i]
                          y == app[a].ydb_pool[i]
                      IN  /\ ~ mixed => (t = Null <=> y = Null)
                          /\ t # Null /\ y # Null => tHandle[t].key = yHandle[y].key
    BY DEF SlotsHoldPairs
  <2> DEFINE t == app[a].tdb_pool[i]
             y == app[a].ydb_pool[i]
  <2>1. Shapes /\ PairsMatch /\ HalvesTogether
    BY DEF IInv, PoolInv
  <2>2. i \in 1 .. len_pool(a) /\ DOMAIN app[a].ydb_pool = 1 .. len_pool(a)
    BY <2>1, PlacesOf
  <2>3. i \in Places /\ t \in Handles \cup {Null} /\ y \in Slot
    BY <2>1, <2>2, PlacesOf
  <2>4. y # Junk
    BY <2>2 DEF JunkFree
  <2>5. y \in Handles \cup {Null}
    BY <2>3, <2>4 DEF Slot
  <2>6. TsiAt(a, i, t) /\ YinAt(a, i, y)
    BY DEF TsiAt, YinAt
  <2>7. \A g : (TsiAt(a, i, g) => g = t) /\ (YinAt(a, i, g) => g = y)
    BY <2>1, <2>3, <2>6, OneInAPlace
  <2> HIDE DEF t, y
  <2>8. ~ mixed => (t = Null <=> y = Null)
    <3>1. ~ mixed => ((\E g \in Handles : TsiAt(a, i, g)) <=>
                         (\E h \in Handles : YinAt(a, i, h)))
      BY <2>1, <2>3 DEF HalvesTogether
    <3>2. (\E g \in Handles : TsiAt(a, i, g)) <=> t # Null
      BY <2>3, <2>6, <2>7, PointerAssumption
    <3>3. (\E h \in Handles : YinAt(a, i, h)) <=> y # Null
      BY <2>5, <2>6, <2>7, PointerAssumption
    <3>4. QED
      BY <3>1, <3>2, <3>3
  <2>9. t # Null /\ y # Null => tHandle[t].key = yHandle[y].key
    BY <2>1, <2>3, <2>5, <2>6 DEF PairsMatch
  <2>10. QED
    BY <2>8, <2>9 DEF t, y
<1>2. QED
  BY <1>1, Invariant, PTL

\* The primary TsiDB of a pool is open as long as its pointer is there, and so
\* is the primary TsiYinDB under the conditions that PrimaryUsable names:
\* bimsDBPoolDelete leaves no pointer to a handle it closed.
THEOREM PrimaryStaysUsable == Spec => []PrimaryUsable
<1>1. IInv => PrimaryUsable
  <2> SUFFICES ASSUME IInv, NEW a \in Pools, call \notin Destroying, JunkFree(a)
               PROVE  /\ app[a].tdb # Null => app[a].tdb \in T!Live
                      /\ ~ mixed => /\ app[a].tdb = Null <=> app[a].ydb = Null
                                    /\ app[a].ydb # Null => app[a].ydb \in Y!Live
    BY DEF PrimaryUsable
  <2>1. Shapes /\ TsiPlaced /\ YinPlaced /\ PrimaryOf(a)
    BY DEF IInv, PoolInv, PrimaryPlaced, Intact
  <2>2. /\ app[a].tdb \in Handles \cup {Null} /\ app[a].ydb \in Handles \cup {Null}
        /\ a \in Apps
    BY <2>1, PlacesOf
  <2>3. app[a].tdb # Null => app[a].tdb \in T!Live
    BY <2>1, <2>2 DEF PrimaryOf, TsiPlaced
  <2>4. ~ mixed => (app[a].tdb = Null <=> app[a].ydb = Null)
    BY <2>1 DEF PrimaryOf
  <2>5. ~ mixed /\ app[a].ydb # Null => app[a].ydb \in Y!Live
    BY <2>1, <2>2 DEF PrimaryOf, YinPlaced
  <2>6. QED
    BY <2>3, <2>4, <2>5
<1>2. QED
  BY <1>1, Invariant, PTL
=============================================================================
