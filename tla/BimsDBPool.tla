------------------------------ MODULE BimsDBPool ------------------------------
(***************************************************************************)
(* The dictionaries of the bims input method: bimsInit, bimsDestroy,       *)
(* bimsUserDBAppend and bimsDBPoolAppend, -Prepend and -Delete of          *)
(* src/supports/bims/bims.c, on top of the two handle pools of libtabe     *)
(* (TsiDBPool, instantiated once for the TsiDBs and once for the           *)
(* TsiYinDBs).                                                             *)
(*                                                                         *)
(* A DB_pool belongs to one application; an input method server runs       *)
(* several in one process, and all their handles go through the same two   *)
(* lists.  A dictionary is a pair of files, known here by one name.        *)
(*                                                                         *)
(* The calls run one at a time.  A call that opens two files takes two     *)
(* steps (the second one commits or undoes the first), and bimsDestroy     *)
(* takes one step for each slot; no other call runs in between.            *)
(***************************************************************************)
EXTENDS Naturals, Sequences

CONSTANTS
    Names,      \* dictionaries
    Apps,       \* applications that may hold a DB_pool
    Handles, DBs, Closed, Free,     \* of both handle pools
    Null,       \* the null pointer
    Junk,       \* what an array element holds that was never written
    DeleteArgs, \* the pairs of names bimsDBPoolDelete is called with
    MaxLen      \* bound on the slots of a DB_pool

ASSUME DeleteArgsAssumption == DeleteArgs \subseteq Names \X Names
ASSUME MaxLenAssumption == MaxLen \in Nat \ {1}     \* the first two slots come together
ASSUME PointerAssumption == /\ Null \notin Handles /\ Junk \notin Handles
                            /\ Null # Junk

SystemFlags == {"READONLY", "SHARED"}
UserFlags == {"OVERWRITE", "CREATEDB", "SHARED"}

VARIABLES
    tPool, tLost, tHandle, tDB, tMisclosed,     \* TsiDBs
    yPool, yLost, yHandle, yDB, yMisclosed,     \* TsiYinDBs
    app,        \* the DB_pool of each application, or Null
    call,       \* the call that is under way, or Null
    dropped,    \* history: the TsiYinDB handles whose pointer was overwritten
    mixed       \* history: whether bimsDBPoolDelete was ever called with the
                \* files of two dictionaries

tVars == <<tPool, tLost, tHandle, tDB, tMisclosed>>
yVars == <<yPool, yLost, yHandle, yDB, yMisclosed>>
vars == <<tVars, yVars, app, call, dropped, mixed>>

T == INSTANCE TsiDBPool WITH
        DBNames <- Names, FlagSets <- {SystemFlags, UserFlags},
        pool <- tPool, lost <- tLost, handle <- tHandle, db <- tDB,
        misclosed <- tMisclosed

Y == INSTANCE TsiDBPool WITH
        DBNames <- Names, FlagSets <- {SystemFlags, UserFlags},
        pool <- yPool, lost <- yLost, handle <- yHandle, db <- yDB,
        misclosed <- yMisclosed

\* struct _db_pool.  The two arrays have the same length, len_pool; both are
\* empty as long as the primary pair is alone.
Slot == Handles \cup {Null, Junk}
DBPool == [tdb : Handles \cup {Null}, ydb : Handles \cup {Null},
           tdb_pool : Seq(Slot), ydb_pool : Seq(Slot)]

Opening == [op : {"init", "user", "append", "prepend"}, app : Apps,
            name : Names, t : Handles]
Destroying == [op : {"destroy"}, app : Apps, slot : Nat]

ASSUME ClosedAssumption == Closed \notin T!Key
ASSUME FreeAssumption == Free \notin T!Handle \cup T!Key
ASSUME NullAssumption == Null \notin DBPool \cup Opening \cup Destroying

Init ==
    /\ T!Init
    /\ Y!Init
    /\ app = [a \in Apps |-> Null]
    /\ call = Null
    /\ dropped = {}
    /\ mixed = FALSE

len_pool(a) == Len(app[a].tdb_pool)

-----------------------------------------------------------------------------
(* bimsInit, bimsUserDBAppend, bimsDBPoolAppend, bimsDBPoolPrepend *)

KeyOf(op, n) ==
    [name |-> n, flags |-> IF op = "user" THEN UserFlags ELSE SystemFlags]

MayOpen(op, a) ==
    IF op = "init" THEN app[a] = Null
                   ELSE app[a] # Null /\ len_pool(a) < MaxLen

\* The bound on handles never stops a call half way.
Room == \E y \in Handles : yHandle[y] = Free

\* The first half of the call opens the TsiDB; when that fails, so does the
\* call, and nothing has changed.
OpenTsi(op, a, n) ==
    /\ call = Null
    /\ MayOpen(op, a)
    /\ \/ /\ Room
          /\ \E t \in Handles :
                /\ T!Open(t, KeyOf(op, n))
                /\ call' = [op |-> op, app |-> a, name |-> n, t |-> t]
       \/ T!OpenFails(KeyOf(op, n)) /\ UNCHANGED call
    /\ UNCHANGED <<yVars, app, dropped, mixed>>

NewPool(t, y) ==
    [tdb |-> t, ydb |-> y, tdb_pool |-> << >>, ydb_pool |-> << >>]

\* Wrong variant: the first two TsiYinDBs are swapped.
AppendedSwapped(p, t, y) ==
    IF Len(p.tdb_pool) = 0
    THEN [p EXCEPT !.tdb_pool = <<p.tdb, t>>, !.ydb_pool = <<y, p.ydb>>]
    ELSE [p EXCEPT !.tdb_pool = Append(@, t), !.ydb_pool = Append(@, y)]

\* The first pair that joins the primary one makes the two arrays.
Appended(p, t, y) ==
    IF Len(p.tdb_pool) = 0
    THEN [p EXCEPT !.tdb_pool = <<p.tdb, t>>, !.ydb_pool = <<p.ydb, y>>]
    ELSE [p EXCEPT !.tdb_pool = Append(@, t), !.ydb_pool = Append(@, y)]

\* When the arrays exist, the elements of tdb_pool are moved up by one and
\* those of ydb_pool are not: its first element is overwritten and the one
\* that realloc added stays as it is.
Prepended(p, t, y) ==
    IF Len(p.tdb_pool) = 0
    THEN [p EXCEPT !.tdb_pool = <<t, p.tdb>>, !.ydb_pool = <<y, p.ydb>>]
    ELSE [p EXCEPT !.tdb_pool = <<t>> \o @,
                   !.ydb_pool = Append([@ EXCEPT ![1] = y], Junk)]

WithPair(op, p, t, y) ==
    CASE op = "init" -> NewPool(t, y)
      [] op \in {"user", "append"} -> Appended(p, t, y)
      [] op = "prepend" -> Prepended(p, t, y)

\* The element of ydb_pool that Prepended overwrites.
Overwritten(op, p) ==
    IF op = "prepend" /\ Len(p.ydb_pool) > 0 THEN {p.ydb_pool[1]} \cap Handles
                                             ELSE {}

\* Wrong variant: when the TsiYinDB cannot be opened the TsiDB stays open.
OpenYinLeaks ==
    /\ call \in Opening
    /\ LET k == KeyOf(call.op, call.name) IN
          \/ \E y \in Handles :
                /\ Y!Open(y, k)
                /\ app' = [app EXCEPT ![call.app] =
                              WithPair(call.op, @, call.t, y)]
                /\ dropped' = dropped \cup Overwritten(call.op, app[call.app])
          \/ Y!OpenFails(k) /\ UNCHANGED <<app, dropped>>
    /\ call' = Null
    /\ UNCHANGED <<tVars, mixed>>

\* The second half opens the TsiYinDB and puts the pair in its place, or
\* closes the TsiDB again.
OpenYin ==
    /\ call \in Opening
    /\ LET k == KeyOf(call.op, call.name) IN
          \/ \E y \in Handles :
                /\ Y!Open(y, k)
                /\ app' = [app EXCEPT ![call.app] =
                              WithPair(call.op, @, call.t, y)]
                /\ dropped' = dropped \cup Overwritten(call.op, app[call.app])
                /\ UNCHANGED tVars
          \/ /\ Y!OpenFails(k)
             /\ T!Close(call.t)
             /\ UNCHANGED <<app, dropped>>
    /\ call' = Null
    /\ UNCHANGED mixed

-----------------------------------------------------------------------------
(* bimsDBPoolDelete *)

\* The first slot that holds a handle on the name, or one past the end.
FirstNamed(slots, handle, n) ==
    LET S == {i \in DOMAIN slots :
                 slots[i] \in Handles /\ handle[slots[i]].key.name = n}
    IN  IF S = {} THEN Len(slots) + 1
        ELSE CHOOSE i \in S : \A j \in S : i <= j

\* The scan for the TsiYinDB dereferences an element that was never written.
ScanReadsJunk(slots, j) ==
    \E i \in DOMAIN slots : i <= j /\ slots[i] = Junk

\* Wrong variant: the pointers to the primary pair stay.
WithoutKeepsPrimary(p, i, j, isPrimary) ==
    [p EXCEPT !.tdb_pool = [k \in DOMAIN @ |-> IF k = i THEN Null ELSE @[k]],
              !.ydb_pool = [k \in DOMAIN @ |-> IF k = j THEN Null ELSE @[k]]]

\* The pool without the TsiDB of slot i and the TsiYinDB of slot j, where
\* there are such slots.  A pointer to the primary one goes as well.
Without(p, i, j, isPrimary) ==
    LET tFound == i \in DOMAIN p.tdb_pool
        yFound == j \in DOMAIN p.ydb_pool
    IN  [tdb |-> IF tFound /\ p.tdb_pool[i] = p.tdb THEN Null ELSE p.tdb,
         ydb |-> IF yFound /\ isPrimary THEN Null ELSE p.ydb,
         tdb_pool |-> [k \in DOMAIN p.tdb_pool |-> IF k = i THEN Null ELSE p.tdb_pool[k]],
         ydb_pool |-> [k \in DOMAIN p.ydb_pool |-> IF k = j THEN Null ELSE p.ydb_pool[k]]]

\* The primary TsiYinDB is looked for with the index of the TsiDB.  When
\* there was no TsiDB of the name, that is one past the end of the array, and
\* what is read there decides.  An element that was never written may happen
\* to be null.
Delete(a, tname, yname) ==
    /\ call = Null
    /\ app[a] # Null
    /\ len_pool(a) > 0
    /\ LET p == app[a]
           i == FirstNamed(p.tdb_pool, tHandle, tname)
           j == FirstNamed(p.ydb_pool, yHandle, yname)
           tFound == i <= len_pool(a)
           yFound == j <= len_pool(a)
       IN  \E isPrimary \in IF tFound THEN {p.ydb_pool[i] = p.ydb} ELSE BOOLEAN :
              /\ IF tFound THEN T!Close(p.tdb_pool[i]) ELSE UNCHANGED tVars
              /\ IF yFound THEN Y!Close(p.ydb_pool[j]) ELSE UNCHANGED yVars
              /\ app' = [app EXCEPT ![a] = Without(p, i, j, isPrimary)]
    /\ mixed' = (mixed \/ tname # yname)
    /\ UNCHANGED <<call, dropped>>

-----------------------------------------------------------------------------
(* bimsDestroy *)

\* Without further dictionaries the primary pair is closed and the pool freed.
DestroyPrimary(a) ==
    /\ call = Null
    /\ app[a] # Null
    /\ len_pool(a) = 0
    /\ T!Close(app[a].tdb)
    /\ Y!Close(app[a].ydb)
    /\ app' = [app EXCEPT ![a] = Null]
    /\ UNCHANGED <<call, dropped, mixed>>

BeginDestroy(a) ==
    /\ call = Null
    /\ app[a] # Null
    /\ len_pool(a) > 0
    /\ call' = [op |-> "destroy", app |-> a, slot |-> 1]
    /\ UNCHANGED <<tVars, yVars, app, dropped, mixed>>

\* One turn of the loop; the last one frees the pool.
DestroySlot ==
    /\ call \in Destroying
    /\ LET a == call.app
           t == app[a].tdb_pool[call.slot]
           y == app[a].ydb_pool[call.slot]
       IN  /\ IF t \in Handles THEN T!Close(t) ELSE UNCHANGED tVars
           /\ IF y \in Handles THEN Y!Close(y) ELSE UNCHANGED yVars
           /\ IF call.slot < len_pool(a)
              THEN /\ call' = [call EXCEPT !.slot = @ + 1]
                   /\ UNCHANGED app
              ELSE /\ call' = Null
                   /\ app' = [app EXCEPT ![a] = Null]
    /\ UNCHANGED <<dropped, mixed>>

-----------------------------------------------------------------------------

\* Freed memory was closed in one of the lists.
Undefined == T!Undefined \/ Y!Undefined

\* Calling Close through an element that was never written may end the
\* process, and closing freed memory is taken to end it.  Its successor starts
\* with nothing open.
Crash ==
    /\ \/ Undefined
       \/ /\ call \in Destroying
          /\ app[call.app].ydb_pool[call.slot] = Junk
       \/ /\ call = Null
          /\ \E a \in Apps, d \in DeleteArgs :
                /\ app[a] # Null
                /\ ScanReadsJunk(app[a].ydb_pool,
                                 FirstNamed(app[a].ydb_pool, yHandle, d[2]))
    /\ tPool' = << >> /\ tLost' = {} /\ tHandle' = [h \in Handles |-> Free]
    /\ tDB' = [d \in DBs |-> Closed] /\ tMisclosed' = {}
    /\ yPool' = << >> /\ yLost' = {} /\ yHandle' = [h \in Handles |-> Free]
    /\ yDB' = [d \in DBs |-> Closed] /\ yMisclosed' = {}
    /\ app' = [a \in Apps |-> Null]
    /\ call' = Null
    /\ dropped' = {}
    /\ mixed' = FALSE

Next ==
    \/ /\ ~ Undefined
       /\ \/ \E op \in {"init", "user", "append", "prepend"}, a \in Apps, n \in Names :
                OpenTsi(op, a, n)
          \/ OpenYin
          \/ \E a \in Apps, d \in DeleteArgs : Delete(a, d[1], d[2])
          \/ \E a \in Apps : DestroyPrimary(a) \/ BeginDestroy(a)
          \/ DestroySlot
    \/ Crash

Spec == Init /\ [][Next]_vars

-----------------------------------------------------------------------------
(* Properties *)

TypeOK ==
    /\ T!TypeOK
    /\ Y!TypeOK
    /\ app \in [Apps -> DBPool \cup {Null}]
    /\ call \in Opening \cup Destroying \cup {Null}
    /\ dropped \subseteq Handles
    /\ mixed \in BOOLEAN

Pools == {a \in Apps : app[a] # Null}

\* The slots whose handles the pool still has to close.
OpenSlots(a) ==
    IF call \in Destroying /\ call.app = a
    THEN {i \in DOMAIN app[a].tdb_pool : i >= call.slot}
    ELSE DOMAIN app[a].tdb_pool

JunkFree(a) == \A i \in DOMAIN app[a].ydb_pool : app[a].ydb_pool[i] # Junk

\* A slot never joins the TsiDB of one dictionary with the TsiYinDB of
\* another, whatever was appended, prepended to the primary pair and deleted.
\* As long as bimsDBPoolDelete was called with the two files of a dictionary,
\* a slot also lost both or neither: the two scans, which look for the halves
\* on their own, end at the same slot.
SlotsHoldPairs ==
    \A a \in Pools : JunkFree(a) => \A i \in OpenSlots(a) :
        LET t == app[a].tdb_pool[i]
            y == app[a].ydb_pool[i]
        IN  /\ ~ mixed => (t = Null <=> y = Null)
            /\ t # Null /\ y # Null => tHandle[t].key = yHandle[y].key

TsiSlots == {s \in Pools \X (1 .. MaxLen) :
                s[2] \in OpenSlots(s[1]) /\ app[s[1]].tdb_pool[s[2]] # Null}
YinSlots == {s \in Pools \X (1 .. MaxLen) :
                s[2] \in OpenSlots(s[1]) /\ app[s[1]].ydb_pool[s[2]] \in Handles}

\* The pools that have the primary pair alone.
LonePools == {a \in Pools : len_pool(a) = 0}

\* Each TsiDB handle that is open is in one place, from where one call will
\* close it: no handle leaks on a failed open, and none is closed twice.
TsiHandlesOwned ==
    /\ T!Live = {app[a].tdb : a \in LonePools}
                  \cup {app[s[1]].tdb_pool[s[2]] : s \in TsiSlots}
                  \cup (IF call \in Opening THEN {call.t} ELSE {})
    /\ \A r, s \in TsiSlots :
          app[r[1]].tdb_pool[r[2]] = app[s[1]].tdb_pool[s[2]] => r = s

\* The same for the TsiYinDB handles: one that is open and has no place is
\* one whose pointer bimsDBPoolPrepend overwrote.
YinHandlesOwned ==
    /\ Y!Live = dropped \cup {app[a].ydb : a \in LonePools}
                  \cup {app[s[1]].ydb_pool[s[2]] : s \in YinSlots}
    /\ \A r, s \in YinSlots :
          app[r[1]].ydb_pool[r[2]] = app[s[1]].ydb_pool[s[2]] => r = s

\* The primary TsiDB of a pool can be used as long as it is there.  So can
\* the primary TsiYinDB, and the two are there or gone together, as long as
\* bimsDBPoolDelete was called with the two files of a dictionary: its second
\* test reads ydb_pool with the index of the first scan.
PrimaryUsable ==
    \A a \in Pools : call \notin Destroying /\ JunkFree(a) =>
        /\ app[a].tdb # Null => app[a].tdb \in T!Live
        /\ ~ mixed => /\ app[a].tdb = Null <=> app[a].ydb = Null
                      /\ app[a].ydb # Null => app[a].ydb \in Y!Live

\* Every handle has its place, in both arrays.
HandlesOwned == TypeOK /\ TsiHandlesOwned /\ YinHandlesOwned

-----------------------------------------------------------------------------
(* What comments in bims.c say and the code does not do *)

\* "Prepend a pair of tsi and tsiyin db into the pool" (bimsDBPoolPrepend):
\* the slots hold pairs after it, too.
PrependKeepsPairs ==
    \A a \in Pools : \A i \in OpenSlots(a) :
        app[a].tdb_pool[i] \in Handles =>
            /\ app[a].ydb_pool[i] \in Handles
            /\ tHandle[app[a].tdb_pool[i]].key = yHandle[app[a].ydb_pool[i]].key

=============================================================================
