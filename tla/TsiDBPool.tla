------------------------------ MODULE TsiDBPool ------------------------------
(***************************************************************************)
(* The shared handle pool of the Berkeley DB back end: tabeTsiDBOpen and   *)
(* tabeTsiDBClose of src/tabe_tsidbint.c, with the static list _tabe_rdb   *)
(* they keep.  src/tabe_tsiyindbint.c holds the same code for TsiYinDB,    *)
(* with a list of its own; BimsDBPool instantiates this module once for    *)
(* each of them.                                                           *)
(*                                                                         *)
(* A handle (struct TsiDB) is what a client holds.  A DB is the Berkeley   *)
(* DB object behind it.  A private handle owns its DB; the handles opened  *)
(* with DB_FLAG_SHARED on one name with the same flags share one DB, which *)
(* a reference count in a list entry keeps open until the last of them is  *)
(* closed.                                                                 *)
(*                                                                         *)
(* Memory is abstracted to references, and allocation never fails.  A DB   *)
(* is its address: dbp->close frees the object, and db_create may return   *)
(* its address again, although a handle may still point there (dangle).    *)
(* When such a handle is closed, what is there is closed: the DB of        *)
(* another open, or memory that was freed, after which nothing is known of *)
(* the process.  The DB object that db_create leaves behind when the open  *)
(* that follows it fails is not represented: nothing refers to it.         *)
(***************************************************************************)
EXTENDS Naturals, Sequences, FiniteSets

CONSTANTS
    DBNames,    \* file names
    FlagSets,   \* the combinations of DB_FLAG_* the clients pass
    Handles,    \* struct TsiDB objects
    DBs,        \* Berkeley DB objects
    Closed,     \* the state of a DB object that is not open
    Free        \* the state of a handle that is not allocated

DBFlags == {"OVERWRITE", "CREATEDB", "READONLY", "NOSYNC", "SHARED",
            "NOUNPACK_YIN"}

ASSUME FlagSetsAssumption == FlagSets \subseteq SUBSET DBFlags

\* What the list is searched by.
Key == [name : DBNames, flags : FlagSets]

\* _tabe_ref_DBpool
Entry == [key : Key, dbp : DBs, ref : Nat]

\* struct TsiDB.  A handle stays "closed" when its owner has closed it and its
\* memory was not released.
Handle == [key : Key, dbp : DBs, state : {"held", "closed"}]

ASSUME ClosedAssumption == Closed \notin Key
ASSUME FreeAssumption == Free \notin Handle \cup Key

VARIABLES
    pool,    \* the list _tabe_rdb, head first
    lost,    \* entries still allocated that the list does not reach any more
    handle,  \* what each struct TsiDB holds
    db,      \* the key each DB object is open on, or Closed when the object is freed
    misclosed   \* history: what a DB was open on when it was closed through a handle of
                \* another key; Closed is among them when freed memory was closed

vars == <<pool, lost, handle, db, misclosed>>

Init ==
    /\ pool = << >>
    /\ lost = {}
    /\ handle = [h \in Handles |-> Free]
    /\ db = [d \in DBs |-> Closed]
    /\ misclosed = {}

-----------------------------------------------------------------------------
(* Helpers *)

Shared(k) == "SHARED" \in k.flags

\* The handles their owners may still use.
Live == {h \in Handles : handle[h] # Free /\ handle[h].state = "held"}

\* Wrong variant: the flags are not compared.
MatchingByName(k) == {i \in DOMAIN pool : pool[i].key.name = k.name}

\* tabe_search_rdbpool: the positions of the list that match the key.  The
\* code takes the first one.
Matching(k) == {i \in DOMAIN pool : pool[i].key = k}

First(S) == CHOOSE i \in S : \A j \in S : i <= j

\* tabe_tsiDB_DoOpen refuses to create a read-only file; any other open may
\* still fail in Berkeley DB.
Openable(k) == ~ ({"CREATEDB", "READONLY"} \subseteq k.flags)

\* db_create returns any object that is not allocated, whatever still points to it.
DoOpen(d, k) ==
    /\ Openable(k)
    /\ db[d] = Closed
    /\ db' = [db EXCEPT ![d] = k]
    /\ UNCHANGED misclosed

\* Wrong variant: the DB stays open.
DoCloseForgetsDB(h) ==
    /\ handle' = [handle EXCEPT ![h] = Free]
    /\ UNCHANGED <<db, misclosed>>

\* tabe_tsiDB_DoClose: closes the DB the handle points to, whatever it is open on by now,
\* and releases the handle.
DoClose(h) ==
    /\ db' = [db EXCEPT ![handle[h].dbp] = Closed]
    /\ misclosed' = misclosed \cup ({db[handle[h].dbp]} \ {handle[h].key})
    /\ handle' = [handle EXCEPT ![h] = Free]

NewHandle(h, k, d) ==
    /\ handle[h] = Free
    /\ handle' = [handle EXCEPT ![h] = [key |-> k, dbp |-> d, state |-> "held"]]

-----------------------------------------------------------------------------
(* tabeTsiDBOpen *)

OpenPrivate(h, k) ==
    /\ ~ Shared(k)
    /\ \E d \in DBs : DoOpen(d, k) /\ NewHandle(h, k, d)
    /\ UNCHANGED <<pool, lost>>

\* Wrong variant: the handle that makes the entry is not counted.
OpenFirstUncounted(h, k) ==
    /\ Shared(k)
    /\ Matching(k) = {}
    /\ \E d \in DBs :
          /\ DoOpen(d, k)
          /\ NewHandle(h, k, d)
          /\ pool' = <<[key |-> k, dbp |-> d, ref |-> 0]>> \o pool
    /\ UNCHANGED lost

\* No entry for the key: the DB is opened and a new entry heads the list.
OpenFirstShared(h, k) ==
    /\ Shared(k)
    /\ Matching(k) = {}
    /\ \E d \in DBs :
          /\ DoOpen(d, k)
          /\ NewHandle(h, k, d)
          /\ pool' = <<[key |-> k, dbp |-> d, ref |-> 1]>> \o pool
    /\ UNCHANGED lost

\* Wrong variant: a further handle is not counted.
OpenAgainUncounted(h, k) ==
    /\ Shared(k)
    /\ Matching(k) # {}
    /\ NewHandle(h, k, pool[First(Matching(k))].dbp)
    /\ UNCHANGED <<pool, lost, db, misclosed>>

OpenAgainShared(h, k) ==
    /\ Shared(k)
    /\ Matching(k) # {}
    /\ LET i == First(Matching(k)) IN
          /\ NewHandle(h, k, pool[i].dbp)
          /\ pool' = [pool EXCEPT ![i].ref = @ + 1]
    /\ UNCHANGED <<lost, db, misclosed>>

\* Wrong variant: DB_FLAG_SHARED is not looked at.
OpenIgnoresFlag(h, k) ==
    /\ IF Matching(k) = {}
       THEN \E d \in DBs :
              /\ DoOpen(d, k)
              /\ NewHandle(h, k, d)
              /\ pool' = <<[key |-> k, dbp |-> d, ref |-> 1]>> \o pool
       ELSE LET i == First(Matching(k)) IN
              /\ NewHandle(h, k, pool[i].dbp)
              /\ pool' = [pool EXCEPT ![i].ref = @ + 1]
              /\ UNCHANGED <<db, misclosed>>
    /\ UNCHANGED lost

Open(h, k) == OpenPrivate(h, k) \/ OpenFirstShared(h, k) \/ OpenAgainShared(h, k)

\* tabe_tsiDB_DoOpen returns NULL, and so does tabeTsiDBOpen.  An open that
\* finds an entry does not call it.
OpenFails(k) ==
    /\ ~ Shared(k) \/ Matching(k) = {}
    /\ UNCHANGED vars

-----------------------------------------------------------------------------
(* tabeTsiDBClose *)

ClosePrivate(h) ==
    /\ ~ Shared(handle[h].key)
    /\ DoClose(h)
    /\ UNCHANGED <<pool, lost>>

\* The caller has given the handle up, nothing else happens to it.
Abandon(h) == handle' = [handle EXCEPT ![h].state = "closed"]

\* Wrong variant: the count is left as it is.
CloseUncounted(h) ==
    LET found == Matching(handle[h].key) IN
        /\ Shared(handle[h].key)
        /\ found # {}
        /\ pool[First(found)].ref # 1
        /\ Abandon(h)
        /\ UNCHANGED <<pool, lost, db, misclosed>>

CloseNotLast(h) ==
    LET found == Matching(handle[h].key)
        i     == First(found)
    IN  /\ Shared(handle[h].key)
        /\ found # {}
        /\ pool[i].ref # 1
        /\ pool' = [pool EXCEPT ![i].ref = @ - 1]
        /\ Abandon(h)
        /\ UNCHANGED <<lost, db, misclosed>>

\* Wrong variant: the entry stays in the list.
CloseLastKeepsEntry(h) ==
    LET found == Matching(handle[h].key) IN
        /\ Shared(handle[h].key)
        /\ found # {}
        /\ pool[First(found)].ref = 1
        /\ DoClose(h)
        /\ UNCHANGED <<pool, lost>>

\* The count drops to zero: "_tabe_rdb = rdbp->next" makes the rest of the
\* list after the entry the whole list, so the entries before it are lost.
CloseLast(h) ==
    LET found == Matching(handle[h].key)
        i     == First(found)
    IN  /\ Shared(handle[h].key)
        /\ found # {}
        /\ pool[i].ref = 1
        /\ DoClose(h)
        /\ pool' = SubSeq(pool, i + 1, Len(pool))
        /\ lost' = lost \cup {pool[j] : j \in 1 .. (i - 1)}

\* No entry for the handle's key: the call does nothing.
CloseUnknown(h) ==
    /\ Shared(handle[h].key)
    /\ Matching(handle[h].key) = {}
    /\ Abandon(h)
    /\ UNCHANGED <<pool, lost, db, misclosed>>

Close(h) ==
    /\ h \in Live
    /\ ClosePrivate(h) \/ CloseNotLast(h) \/ CloseLast(h) \/ CloseUnknown(h)

-----------------------------------------------------------------------------

\* Freed memory was closed.
Undefined == Closed \in misclosed

Next ==
    \/ /\ ~ Undefined
       /\ \/ \E h \in Handles, k \in Key : Open(h, k)
          \/ \E k \in Key : OpenFails(k)
          \/ \E h \in Handles : Close(h)
    \/ Undefined /\ UNCHANGED vars

Spec == Init /\ [][Next]_vars

-----------------------------------------------------------------------------
(* Properties *)

\* The keys of the entries that fell off the list.  An entry is never put
\* back, so a key stays in this set.
LostKeys == {e.key : e \in lost}

\* The keys nothing is promised of: their entry was lost, or their DB was closed through the
\* handle of a key that had been one of these before.
Unreliable == LostKeys \cup (misclosed \ {Closed})

\* The handles clients hold on a key.
Users(k) == {h \in Live : handle[h].key = k}

\* Every variable has its type.
TypeOK ==
    /\ pool \in Seq(Entry)
    /\ lost \subseteq Entry
    /\ handle \in [Handles -> Handle \cup {Free}]
    /\ db \in [DBs -> Key \cup {Closed}]
    /\ misclosed \subseteq Key \cup {Closed}

\* The list tabeTsiDBOpen searches has one entry for a key at most, each
\* entry counts at least one reference, and its DB is open on the entry's own
\* file and flags, even when an older entry of the key was lost: whatever was
\* closed before, in whatever order, a shared open hands out a DB that is
\* closed or belongs to another key only after that key's DB was closed
\* through a dangling handle.
PoolConsistent ==
    \A i \in DOMAIN pool :
        /\ Shared(pool[i].key)
        /\ pool[i].ref > 0
        /\ pool[i].key \notin misclosed => db[pool[i].dbp] = pool[i].key
        /\ \A j \in DOMAIN pool : pool[i].key = pool[j].key => i = j

\* A handle opened without DB_FLAG_SHARED keeps its DB to itself: unless a
\* dangling handle closed it, it stays open until its own Close, and no other
\* handle is on it but one that dangles.
PrivateDBOwned ==
    \A h \in Live : ~ Shared(handle[h].key) /\ handle[h].key \notin Unreliable =>
        /\ db[handle[h].dbp] = handle[h].key
        /\ \A g \in Live \ {h} :
              handle[g].dbp = handle[h].dbp => handle[g].key \in Unreliable

\* The close of one handle never closes the DB under another one, and no
\* handle reaches a DB opened on another file or with other flags (so that a
\* read-only handle never writes through the DB of a writer), for every key
\* whose entry was not lost and whose DB no dangling handle closed.
NoUseAfterClose ==
    \A h \in Live :
        handle[h].key \notin Unreliable => db[handle[h].dbp] = handle[h].key

\* No DB is ever closed through a handle of another key, and no freed memory
\* is closed, unless an entry was lost: a process that closes its entries
\* from the newest to the oldest has nothing to fear from the list.
HarmNeedsLoss == misclosed # {} => lost # {}

\* The count of an entry is the number of handles held on its key, unless an
\* older entry of the key was lost.
RefCountExact ==
    \A k \in Key \ LostKeys : \A i \in Matching(k) :
        pool[i].ref = Cardinality(Users(k))

\* A DB nobody holds is closed, and so flushed, unless its entry was lost.
ClosedAfterLastClose ==
    \A d \in DBs :
        db[d] # Closed /\ db[d] \notin LostKeys => Users(db[d]) # {}

-----------------------------------------------------------------------------
(* What the repository's documents say of the pool and its code breaks *)

\* "libtabe multiple accessment to the same db file support" (doc/Changes):
\* a client that holds a shared handle can use it.
HeldHandleUsable == \A h \in Live : db[handle[h].dbp] # Closed

-----------------------------------------------------------------------------
(* The pool implements DBSharing. *)

\* The key a client can rely on to be open, Free if there is none.
HeldKeys ==
    [h \in Handles |->
        IF h \in Live /\ handle[h].key \notin Unreliable THEN handle[h].key ELSE Free]

OpenKeys == {db[d] : d \in DBs} \ (Unreliable \cup {Closed})

Sharing ==
    INSTANCE DBSharing WITH
        Keys <- Key,
        None <- Free,
        held <- HeldKeys,
        open <- OpenKeys,
        forgotten <- Unreliable

\* Every open and close is an acquisition or a release of the abstract
\* specification, or fails without effect.
ImplementsSharing == Sharing!Spec
=============================================================================
