--------------------------- MODULE TsiDBPoolProofs ---------------------------
(***************************************************************************)
(* Proofs about TsiDBPool, for every set of names, flag combinations,      *)
(* handles and DB objects.                                                 *)
(***************************************************************************)
EXTENDS TsiDBPool, FiniteSetTheorems, SequenceTheorems, TLAPS

\* A shared handle whose key was not lost is on the DB of the entry that the
\* search finds for it.
SharedLinked ==
    \A h \in Live :
        Shared(handle[h].key) /\ handle[h].key \notin LostKeys =>
            \E i \in DOMAIN pool :
                pool[i].key = handle[h].key /\ pool[i].dbp = handle[h].dbp

\* A DB d that is open on a key belongs to a list entry or to a private handle
\* of the key.
OwnerOf(d, k) ==
    IF Shared(k)
    THEN \E i \in DOMAIN pool : pool[i].key = k /\ pool[i].dbp = d
    ELSE \E h \in Live : handle[h].key = k /\ handle[h].dbp = d

\* Every open DB has an owner, unless its entry was lost.
OpenDBOwned ==
    \A d \in DBs :
        db[d] # Closed /\ db[d] \notin LostKeys => OwnerOf(d, db[d])

\* The inductive invariant.  RefCountExact is what makes the close of the last
\* counted reference the close of the last user, SharedLinked what carries the
\* entry's open DB over to the handle, and NoUseAfterClose what keeps db_create
\* from returning the DB of a handle that does not dangle.
IInv ==
    /\ TypeOK
    /\ IsFiniteSet(Live)
    /\ PoolConsistent
    /\ PrivateDBOwned
    /\ NoUseAfterClose
    /\ HarmNeedsLoss
    /\ RefCountExact
    /\ SharedLinked
    /\ OpenDBOwned

-----------------------------------------------------------------------------
(* The list *)

\* In a consistent list the search returns an entry of the key.
LEMMA FirstMatching ==
    ASSUME PoolConsistent, NEW k \in Key, Matching(k) # {},
           pool \in Seq(Entry)
    PROVE  /\ First(Matching(k)) \in DOMAIN pool
           /\ pool[First(Matching(k))].key = k
<1>1. PICK i \in DOMAIN pool : pool[i].key = k
  BY DEF Matching
<1>2. i \in Nat
  BY <1>1
<1>3. \A j \in Matching(k) : i <= j
  BY <1>1, <1>2 DEF Matching, PoolConsistent
<1>4. First(Matching(k)) \in Matching(k)
  BY <1>1, <1>3 DEF First, Matching
<1>5. QED
  BY <1>4 DEF Matching

\* What an entry put at the head does to the list.
LEMMA Prepended ==
    ASSUME pool \in Seq(Entry), NEW e \in Entry, pool' = <<e>> \o pool
    PROVE  /\ pool' \in Seq(Entry)
           /\ DOMAIN pool' = 1 .. (Len(pool) + 1)
           /\ pool'[1] = e
           /\ \A i \in DOMAIN pool : pool'[i + 1] = pool[i]
           /\ \A i \in DOMAIN pool' : i = 1 \/ i - 1 \in DOMAIN pool
<1>1. <<e>> \in Seq(Entry) /\ Len(<<e>>) = 1 /\ <<e>>[1] = e
  OBVIOUS
<1>2. pool' \in Seq(Entry) /\ Len(pool') = Len(pool) + 1
  BY <1>1
<1>3. DOMAIN pool' = 1 .. (Len(pool) + 1) /\ DOMAIN pool = 1 .. Len(pool)
  BY <1>2
<1>4. \A i \in 1 .. (Len(pool) + 1) :
         pool'[i] = IF i <= 1 THEN <<e>>[i] ELSE pool[i - 1]
  BY <1>1
<1>5. pool'[1] = e
  BY <1>1, <1>4
<1>6. \A i \in DOMAIN pool : pool'[i + 1] = pool[i]
  BY <1>3, <1>4
<1>7. QED
  BY <1>2, <1>3, <1>5, <1>6

\* What cutting the list after position i leaves.
LEMMA CutAfter ==
    ASSUME pool \in Seq(Entry), NEW i \in DOMAIN pool,
           pool' = SubSeq(pool, i + 1, Len(pool))
    PROVE  /\ pool' \in Seq(Entry)
           /\ DOMAIN pool' = 1 .. (Len(pool) - i)
           /\ \A j \in DOMAIN pool' : j + i \in DOMAIN pool /\ pool'[j] = pool[j + i]
<1>1. i \in 1 .. Len(pool) /\ Len(pool) \in Nat
  OBVIOUS
<1>2. pool' \in Seq(Entry) /\ Len(pool') = Len(pool) - i
  BY <1>1
<1>3. \A j \in 1 .. (Len(pool) - i) : pool'[j] = pool[j + i]
  BY <1>1
<1>4. QED
  BY <1>1, <1>2, <1>3

\* What a new count in one entry leaves unchanged.
LEMMA Recounted ==
    ASSUME pool \in Seq(Entry), NEW i \in DOMAIN pool, NEW n \in Nat,
           pool' = [pool EXCEPT ![i].ref = n]
    PROVE  /\ pool' \in Seq(Entry)
           /\ DOMAIN pool' = DOMAIN pool
           /\ pool'[i].ref = n
           /\ \A j \in DOMAIN pool :
                 /\ pool'[j].key = pool[j].key
                 /\ pool'[j].dbp = pool[j].dbp
                 /\ j # i => pool'[j] = pool[j]
<1> DEFINE new == [key |-> pool[i].key, dbp |-> pool[i].dbp, ref |-> n]
<1>1. pool[i] \in Entry
  OBVIOUS
<1>2. new \in Entry
  BY <1>1 DEF Entry
<1>3. [pool[i] EXCEPT !.ref = n] = new
  BY <1>1 DEF Entry
<1>4. pool' = [pool EXCEPT ![i] = new]
  BY <1>3
<1>5. i \in 1 .. Len(pool) /\ DOMAIN pool = 1 .. Len(pool)
  OBVIOUS
<1>6. /\ pool' \in Seq(Entry)
      /\ Len(pool') = Len(pool)
      /\ \A j \in 1 .. Len(pool) : pool'[j] = IF j = i THEN new ELSE pool[j]
  <2> HIDE DEF new
  <2> QED
    BY <1>2, <1>4, <1>5, ExceptSeq
<1>7. QED
  BY <1>5, <1>6

-----------------------------------------------------------------------------
(* The handles *)

\* A new handle joins the live ones and leaves the others as they were.
LEMMA HandleAdded ==
    ASSUME TypeOK, NEW h \in Handles, NEW k \in Key, NEW d \in DBs,
           NewHandle(h, k, d)
    PROVE  /\ h \notin Live
           /\ Live' = Live \cup {h}
           /\ handle' \in [Handles -> Handle \cup {Free}]
           /\ handle'[h] = [key |-> k, dbp |-> d, state |-> "held"]
           /\ \A g \in Live : handle'[g] = handle[g]
<1>1. [key |-> k, dbp |-> d, state |-> "held"] \in Handle
  BY DEF Handle
<1>2. handle' \in [Handles -> Handle \cup {Free}]
  BY <1>1 DEF NewHandle, TypeOK
<1>3. handle'[h] = [key |-> k, dbp |-> d, state |-> "held"] /\ handle[h] = Free
  BY DEF NewHandle, TypeOK
<1>4. \A g \in Handles : g # h => handle'[g] = handle[g]
  BY DEF NewHandle, TypeOK
<1>5. h \notin Live
  BY <1>3 DEF Live
<1>6. handle'[h] # Free /\ handle'[h].state = "held"
  <2>1. handle'[h] # Free
    BY <1>1, <1>3, FreeAssumption
  <2>2. QED
    BY <1>3, <2>1
<1>7. Live' = Live \cup {h}
  BY <1>4, <1>6 DEF Live
<1>8. QED
  BY <1>2, <1>3, <1>4, <1>5, <1>7 DEF Live

\* What abandoning makes of a handle.
LEMMA Abandoned ==
    ASSUME NEW r \in Handle
    PROVE  [r EXCEPT !.state = "closed"] =
              [key |-> r.key, dbp |-> r.dbp, state |-> "closed"]
BY DEF Handle

\* A handle that is released, or abandoned, leaves the live ones.
LEMMA HandleRemoved ==
    ASSUME TypeOK, NEW h \in Live,
           \/ handle' = [handle EXCEPT ![h] = Free]
           \/ Abandon(h)
    PROVE  /\ Live' = Live \ {h}
           /\ handle' \in [Handles -> Handle \cup {Free}]
           /\ \A g \in Live' : handle'[g] = handle[g]
<1>1. h \in Handles /\ handle[h] \in Handle
  BY DEF Live, TypeOK
<1>2. \A g \in Handles : g # h => handle'[g] = handle[g]
  BY DEF Abandon, TypeOK
<1>3. CASE handle' = [handle EXCEPT ![h] = Free]
  <2>1. handle'[h] = Free /\ handle' \in [Handles -> Handle \cup {Free}]
    BY <1>1, <1>3 DEF TypeOK
  <2>2. QED
    BY <2>1, <1>2 DEF Live
<1>4. CASE Abandon(h)
  <2> DEFINE gone == [key |-> handle[h].key, dbp |-> handle[h].dbp, state |-> "closed"]
  <2>1. gone \in Handle
    BY <1>1 DEF Handle
  <2>2. [handle[h] EXCEPT !.state = "closed"] = gone
    BY <1>1, Abandoned
  <2>3. handle' = [handle EXCEPT ![h] = gone]
    BY <1>4, <2>2 DEF Abandon
  <2>4. handle' \in [Handles -> Handle \cup {Free}] /\ handle'[h].state = "closed"
    BY <1>1, <2>1, <2>3 DEF TypeOK
  <2>5. QED
    BY <1>2, <2>4 DEF Live
<1>5. QED
  BY <1>3, <1>4

-----------------------------------------------------------------------------
(* The operations preserve the invariant. *)

\* The users of a key, when one live handle comes or goes.
LEMMA UsersAdded ==
    ASSUME NEW h \in Handles, NEW k, h \notin Live, Live' = Live \cup {h},
           IsFiniteSet(Live),
           handle'[h].key = k,
           \A g \in Live : handle'[g] = handle[g]
    PROVE  /\ IsFiniteSet(Live')
           /\ Cardinality(Users(k)') = Cardinality(Users(k)) + 1
           /\ \A l : l # k => Users(l)' = Users(l)
<1>1. IsFiniteSet(Live')
  BY FS_AddElement
<1>2. Users(k)' = Users(k) \cup {h} /\ h \notin Users(k)
  BY DEF Users
<1>3. IsFiniteSet(Users(k))
  BY FS_Subset DEF Users
<1>4. Cardinality(Users(k)') = Cardinality(Users(k)) + 1
  BY <1>2, <1>3, FS_AddElement
<1>5. \A l : l # k => Users(l)' = Users(l)
  BY DEF Users
<1>6. QED
  BY <1>1, <1>4, <1>5

LEMMA UsersRemoved ==
    ASSUME NEW h \in Live, Live' = Live \ {h}, IsFiniteSet(Live),
           NEW k, k = handle[h].key,
           \A g \in Live' : handle'[g] = handle[g]
    PROVE  /\ IsFiniteSet(Live')
           /\ IsFiniteSet(Users(k))
           /\ Cardinality(Users(k)') = Cardinality(Users(k)) - 1
           /\ Cardinality(Users(k)) = 1 => Users(k) = {h}
           /\ \A l : l # k => Users(l)' = Users(l)
<1>1. IsFiniteSet(Live')
  BY FS_RemoveElement
<1>2. Users(k)' = Users(k) \ {h} /\ h \in Users(k)
  BY DEF Users
<1>3. IsFiniteSet(Users(k))
  BY FS_Subset DEF Users
<1>4. Cardinality(Users(k)') = Cardinality(Users(k)) - 1
  BY <1>2, <1>3, FS_RemoveElement
<1>5. ASSUME Cardinality(Users(k)) = 1 PROVE Users(k) = {h}
  BY <1>2, <1>3, <1>5, FS_Singleton
<1>6. \A l : l # k => Users(l)' = Users(l)
  BY DEF Users
<1>7. QED
  BY <1>1, <1>3, <1>4, <1>5, <1>6

LEMMA InitInv == Init => IInv
<1> SUFFICES ASSUME Init PROVE IInv
  OBVIOUS
<1>1. Live = {} /\ LostKeys = {} /\ DOMAIN pool = {} /\ misclosed = {}
  BY DEF Init, Live, LostKeys
<1>2. pool \in Seq(Entry)
  BY DEF Init
<1>3. TypeOK
  BY <1>2 DEF Init, TypeOK
<1>4. IsFiniteSet(Live)
  BY <1>1, FS_EmptySet
<1>5. OpenDBOwned
  BY DEF Init, OpenDBOwned
<1>6. /\ PoolConsistent /\ PrivateDBOwned /\ NoUseAfterClose /\ HarmNeedsLoss
      /\ RefCountExact /\ SharedLinked
  BY <1>1 DEF PoolConsistent, PrivateDBOwned, NoUseAfterClose, HarmNeedsLoss,
              RefCountExact, Matching, SharedLinked
<1>7. QED
  BY <1>3, <1>4, <1>5, <1>6 DEF IInv

\* A handle whose key can be relied on refers to an open DB of that key.
LEMMA ReliableHandle ==
    ASSUME IInv, NEW g \in Live, handle[g].key \notin Unreliable
    PROVE  /\ handle[g].dbp \in DBs
           /\ db[handle[g].dbp] = handle[g].key
           /\ handle[g].key \in Key
           /\ handle[g].key # Closed
<1>1. handle[g] \in Handle
  BY DEF IInv, TypeOK, Live
<1>2. QED
  BY <1>1, ClosedAssumption DEF Handle, IInv, NoUseAfterClose

\* The DB that db_create returns is under no handle and no entry that can be
\* relied on, so that the open disturbs none of them.
LEMMA OpenedDB ==
    ASSUME IInv, NEW h \in Handles, NEW k \in Key, NEW d \in DBs,
           DoOpen(d, k), NewHandle(h, k, d), UNCHANGED lost
    PROVE  /\ NoUseAfterClose' /\ PrivateDBOwned' /\ HarmNeedsLoss'
           /\ \A i \in DOMAIN pool :
                 pool[i].key \notin misclosed => db'[pool[i].dbp] = pool[i].key
<1>1. /\ h \notin Live
      /\ Live' = Live \cup {h}
      /\ handle'[h] = [key |-> k, dbp |-> d, state |-> "held"]
      /\ \A g \in Live : handle'[g] = handle[g]
  BY HandleAdded DEF IInv
<1>2. /\ db[d] = Closed /\ db'[d] = k
      /\ \A c \in DBs \ {d} : db'[c] = db[c]
      /\ misclosed' = misclosed /\ Unreliable' = Unreliable
  BY DEF DoOpen, IInv, TypeOK, Unreliable, LostKeys
<1>3. \A g \in Live : handle[g].key \notin Unreliable =>
         /\ handle[g].dbp \in DBs \ {d}
         /\ db[handle[g].dbp] = handle[g].key
  BY <1>2, ReliableHandle
<1>4. NoUseAfterClose'
  BY <1>1, <1>2, <1>3 DEF NoUseAfterClose
<1>5. PrivateDBOwned'
  <2> SUFFICES ASSUME NEW g \in Live', handle'[g].key \notin Unreliable,
                      ~ Shared(handle'[g].key)
               PROVE  /\ db'[handle'[g].dbp] = handle'[g].key
                      /\ \A f \in Live' \ {g} :
                            handle'[f].dbp = handle'[g].dbp => handle'[f].key \in Unreliable
    BY <1>2 DEF PrivateDBOwned
  <2>1. db'[handle'[g].dbp] = handle'[g].key
    BY <1>2, <1>4 DEF NoUseAfterClose
  <2>2. ASSUME NEW f \in Live' \ {g}, handle'[f].dbp = handle'[g].dbp
        PROVE  handle'[f].key \in Unreliable
    <3>1. CASE g = h
      BY <2>2, <3>1, <1>1, <1>3
    <3>2. CASE g # h /\ f = h
      BY <2>2, <3>2, <1>1, <1>3
    <3>3. CASE g # h /\ f # h
      BY <2>2, <3>3, <1>1 DEF IInv, PrivateDBOwned
    <3>4. QED
      BY <3>1, <3>2, <3>3
  <2>3. QED
    BY <2>1, <2>2
<1>6. HarmNeedsLoss'
  BY <1>2 DEF IInv, HarmNeedsLoss
<1>7. \A i \in DOMAIN pool : pool[i].key \notin misclosed => db'[pool[i].dbp] = pool[i].key
  <2> SUFFICES ASSUME NEW i \in DOMAIN pool, pool[i].key \notin misclosed
               PROVE  db'[pool[i].dbp] = pool[i].key
    OBVIOUS
  <2>1. pool[i] \in Entry
    BY DEF IInv, TypeOK
  <2>2. pool[i].key # Closed /\ pool[i].dbp \in DBs
    BY <2>1, ClosedAssumption DEF Entry
  <2>3. QED
    BY <2>2, <1>2 DEF IInv, PoolConsistent
<1>8. QED
  BY <1>4, <1>5, <1>6, <1>7

\* A handle that is given up while its DB stays as it is disturbs no other.
LEMMA HandleDropped ==
    ASSUME IInv, NEW h \in Live, Live' = Live \ {h},
           \A g \in Live' : handle'[g] = handle[g],
           UNCHANGED <<lost, db, misclosed>>
    PROVE  NoUseAfterClose' /\ PrivateDBOwned' /\ HarmNeedsLoss'
<1>1. Unreliable' = Unreliable
  BY DEF Unreliable, LostKeys
<1>2. NoUseAfterClose' /\ PrivateDBOwned'
  BY <1>1 DEF IInv, NoUseAfterClose, PrivateDBOwned
<1>3. QED
  BY <1>2 DEF IInv, HarmNeedsLoss

\* Closing a DB is felt by the handles of the same key only: the key of any
\* other handle on it can be relied on no more.
LEMMA ClosedDB ==
    ASSUME IInv, NEW h \in Live, DoClose(h), lost \subseteq lost',
           handle[h].key \notin Unreliable =>
              \A g \in Live \ {h} : handle[g].dbp = handle[h].dbp =>
                 handle[g].key # handle[h].key \/ handle[g].key \in Unreliable
    PROVE  /\ NoUseAfterClose' /\ PrivateDBOwned' /\ HarmNeedsLoss'
           /\ Unreliable \subseteq Unreliable'
           /\ misclosed' \subseteq Key \cup {Closed}
<1> DEFINE k == handle[h].key
           d == handle[h].dbp
<1>1. h \in Handles /\ k \in Key /\ d \in DBs
  <2>1. h \in Handles /\ handle[h] \in Handle
    BY DEF Live, IInv, TypeOK
  <2>2. QED
    BY <2>1 DEF Handle
<1>2. /\ db'[d] = Closed
      /\ \A c \in DBs \ {d} : db'[c] = db[c]
      /\ misclosed' = misclosed \cup ({db[d]} \ {k})
      /\ db[d] \in Key \cup {Closed}
  BY <1>1 DEF DoClose, IInv, TypeOK
<1>3. /\ Live' = Live \ {h}
      /\ \A g \in Live' : handle'[g] = handle[g]
  BY HandleRemoved DEF IInv, DoClose
<1>4. Unreliable \subseteq Unreliable'
  BY <1>2 DEF Unreliable, LostKeys
<1>5. misclosed' \subseteq Key \cup {Closed}
  BY <1>2 DEF IInv, TypeOK
<1>6. ASSUME NEW g \in Live', handle[g].key \notin Unreliable'
      PROVE  /\ handle[g].dbp \in DBs \ {d}
             /\ db[handle[g].dbp] = handle[g].key
  <2>1. handle[g].key \notin Unreliable /\ g \in Live \ {h}
    BY <1>3, <1>4, <1>6
  <2>2. /\ handle[g].dbp \in DBs
        /\ db[handle[g].dbp] = handle[g].key
        /\ handle[g].key # Closed
    BY <2>1, ReliableHandle
  <2>3. handle[g].dbp # d
    <3> SUFFICES ASSUME handle[g].dbp = d PROVE FALSE
      OBVIOUS
    <3>1. handle[g].key # k
      BY <2>1
    <3>2. handle[g].key \in misclosed' \ {Closed}
      BY <3>1, <2>2, <1>2
    <3>3. QED
      BY <3>2, <1>6 DEF Unreliable
  <2>4. QED
    BY <2>2, <2>3
<1>7. NoUseAfterClose'
  BY <1>2, <1>3, <1>6 DEF NoUseAfterClose
<1>8. PrivateDBOwned'
  <2> SUFFICES ASSUME NEW g \in Live', handle[g].key \notin Unreliable',
                      ~ Shared(handle[g].key)
               PROVE  /\ db'[handle[g].dbp] = handle[g].key
                      /\ \A f \in Live' \ {g} :
                            handle[f].dbp = handle[g].dbp => handle[f].key \in Unreliable'
    BY <1>3 DEF PrivateDBOwned
  <2>1. db'[handle[g].dbp] = handle[g].key
    BY <1>2, <1>6
  <2>2. QED
    BY <2>1, <1>3, <1>4 DEF IInv, PrivateDBOwned
<1>9. HarmNeedsLoss'
  <2> SUFFICES ASSUME lost' = {} PROVE misclosed' = {}
    BY DEF HarmNeedsLoss
  <2>1. lost = {} /\ misclosed = {}
    BY DEF IInv, HarmNeedsLoss
  <2>2. k \notin Unreliable
    BY <2>1 DEF Unreliable, LostKeys
  <2>3. db[d] = k
    BY <2>2 DEF IInv, NoUseAfterClose
  <2>4. QED
    BY <2>1, <2>3, <1>2
<1>10. QED
  BY <1>4, <1>5, <1>7, <1>8, <1>9

LEMMA OpenPrivateInv ==
    ASSUME IInv, NEW h \in Handles, NEW k \in Key, OpenPrivate(h, k)
    PROVE  IInv'
<1>1. PICK d \in DBs : DoOpen(d, k) /\ NewHandle(h, k, d)
  BY DEF OpenPrivate
<1>2. /\ h \notin Live
      /\ Live' = Live \cup {h}
      /\ handle' \in [Handles -> Handle \cup {Free}]
      /\ handle'[h] = [key |-> k, dbp |-> d, state |-> "held"]
      /\ \A g \in Live : handle'[g] = handle[g]
  BY <1>1, HandleAdded DEF IInv
<1>3. pool' = pool /\ lost' = lost /\ LostKeys' = LostKeys /\ ~ Shared(k)
  BY DEF OpenPrivate, LostKeys
<1>4. /\ db[d] = Closed /\ db'[d] = k
      /\ \A c \in DBs \ {d} : db'[c] = db[c]
      /\ db' \in [DBs -> Key \cup {Closed}]
      /\ misclosed' = misclosed
  BY <1>1 DEF DoOpen, IInv, TypeOK
<1>5. /\ NoUseAfterClose' /\ PrivateDBOwned' /\ HarmNeedsLoss'
      /\ \A i \in DOMAIN pool :
            pool[i].key \notin misclosed => db'[pool[i].dbp] = pool[i].key
  BY <1>1, <1>3, OpenedDB
<1>7. TypeOK'
  BY <1>2, <1>3, <1>4 DEF IInv, TypeOK
<1>8. IsFiniteSet(Live') /\ \A l : l # k => Users(l)' = Users(l)
  <2>1. handle'[h].key = k
    BY <1>2
  <2>2. QED
    BY <2>1, <1>2, UsersAdded DEF IInv
<1>9. PoolConsistent'
  BY <1>3, <1>4, <1>5 DEF IInv, PoolConsistent
<1>12. RefCountExact'
  <2>1. \A i \in DOMAIN pool : pool[i].key # k
    BY <1>3 DEF IInv, PoolConsistent
  <2>2. QED
    BY <2>1, <1>3, <1>8 DEF IInv, RefCountExact, Matching
<1>13. SharedLinked'
  BY <1>2, <1>3 DEF IInv, SharedLinked
<1>14. OpenDBOwned'
  <2> SUFFICES ASSUME NEW c \in DBs, db'[c] # Closed, db'[c] \notin LostKeys
               PROVE  OwnerOf(c, db[c])'
    BY <1>3 DEF OpenDBOwned
  <2>1. CASE c = d
    BY <2>1, <1>2, <1>3, <1>4 DEF OwnerOf
  <2>2. CASE c # d
    BY <2>2, <1>2, <1>3, <1>4 DEF IInv, OpenDBOwned, OwnerOf
  <2>3. QED
    BY <2>1, <2>2
<1>15. QED
  BY <1>5, <1>7, <1>8, <1>9, <1>12, <1>13, <1>14 DEF IInv

LEMMA OpenFirstSharedInv ==
    ASSUME IInv, NEW h \in Handles, NEW k \in Key, OpenFirstShared(h, k)
    PROVE  IInv'
<1>1. PICK d \in DBs : /\ DoOpen(d, k)
                       /\ NewHandle(h, k, d)
                       /\ pool' = <<[key |-> k, dbp |-> d, ref |-> 1]>> \o pool
  BY DEF OpenFirstShared
<1>2. /\ h \notin Live
      /\ Live' = Live \cup {h}
      /\ handle' \in [Handles -> Handle \cup {Free}]
      /\ handle'[h] = [key |-> k, dbp |-> d, state |-> "held"]
      /\ \A g \in Live : handle'[g] = handle[g]
  BY <1>1, HandleAdded DEF IInv
<1>3. lost' = lost /\ LostKeys' = LostKeys /\ Shared(k)
      /\ \A i \in DOMAIN pool : pool[i].key # k
  BY DEF OpenFirstShared, LostKeys, Matching
<1>4. /\ db[d] = Closed /\ db'[d] = k
      /\ \A c \in DBs \ {d} : db'[c] = db[c]
      /\ db' \in [DBs -> Key \cup {Closed}]
      /\ misclosed' = misclosed
  BY <1>1 DEF DoOpen, IInv, TypeOK
<1> DEFINE e == [key |-> k, dbp |-> d, ref |-> 1]
<1>5. /\ pool' \in Seq(Entry)
      /\ DOMAIN pool' = 1 .. (Len(pool) + 1)
      /\ pool'[1] = e
      /\ \A i \in DOMAIN pool : pool'[i + 1] = pool[i]
      /\ \A i \in DOMAIN pool' : i = 1 \/ i - 1 \in DOMAIN pool
  <2>1. e \in Entry
    BY DEF Entry
  <2>2. pool \in Seq(Entry)
    BY DEF IInv, TypeOK
  <2>3. pool' = <<e>> \o pool
    BY <1>1
  <2> HIDE DEF e
  <2> QED
    BY <2>1, <2>2, <2>3, Prepended
<1>6. /\ DOMAIN pool = 1 .. Len(pool) /\ Len(pool) \in Nat
      /\ 1 \in DOMAIN pool'
      /\ \A i \in DOMAIN pool : i + 1 \in DOMAIN pool'
      /\ \A i \in DOMAIN pool' : i # 1 => i - 1 \in DOMAIN pool /\ pool'[i] = pool[i - 1]
  BY <1>5 DEF IInv, TypeOK
<1>7. /\ NoUseAfterClose' /\ PrivateDBOwned' /\ HarmNeedsLoss'
      /\ \A i \in DOMAIN pool :
            pool[i].key \notin misclosed => db'[pool[i].dbp] = pool[i].key
  BY <1>1, <1>3, OpenedDB
<1>9. TypeOK'
  BY <1>2, <1>3, <1>4, <1>5 DEF IInv, TypeOK
<1>10. /\ IsFiniteSet(Live')
       /\ Cardinality(Users(k)') = Cardinality(Users(k)) + 1
       /\ \A l : l # k => Users(l)' = Users(l)
  <2>1. handle'[h].key = k
    BY <1>2
  <2>2. QED
    BY <2>1, <1>2, UsersAdded DEF IInv
<1>11. PoolConsistent'
  <2>1. \A i \in DOMAIN pool' :
           /\ Shared(pool'[i].key)
           /\ pool'[i].ref > 0
           /\ pool'[i].key \notin misclosed => db'[pool'[i].dbp] = pool'[i].key
    <3> SUFFICES ASSUME NEW i \in DOMAIN pool'
                 PROVE  /\ Shared(pool'[i].key)
                        /\ pool'[i].ref > 0
                        /\ pool'[i].key \notin misclosed =>
                              db'[pool'[i].dbp] = pool'[i].key
      OBVIOUS
    <3>1. CASE i = 1
      BY <3>1, <1>3, <1>4, <1>5
    <3>2. CASE i # 1
      BY <3>2, <1>6, <1>7 DEF IInv, PoolConsistent
    <3>3. QED
      BY <3>1, <3>2
  <2>2. ASSUME NEW i \in DOMAIN pool', NEW j \in DOMAIN pool',
               pool'[i].key = pool'[j].key
        PROVE  i = j
    <3>1. pool'[1].key = k
      BY <1>5
    <3>2. CASE i = 1 \/ j = 1
      BY <3>1, <3>2, <2>2, <1>3, <1>6
    <3>3. CASE i # 1 /\ j # 1
      <4>1. i - 1 = j - 1
        BY <3>3, <2>2, <1>6 DEF IInv, PoolConsistent
      <4>2. i \in Nat /\ j \in Nat
        BY <1>5, <1>6
      <4>3. QED
        BY <4>1, <4>2
    <3>4. QED
      BY <3>2, <3>3
  <2>3. QED
    BY <2>1, <2>2, <1>4 DEF PoolConsistent
<1>14. k \notin LostKeys => Users(k) = {}
  BY <1>3 DEF IInv, SharedLinked, Users
<1>15. RefCountExact'
  <2> SUFFICES ASSUME NEW l \in Key, l \notin LostKeys,
                      NEW i \in DOMAIN pool', pool'[i].key = l
               PROVE  pool'[i].ref = Cardinality(Users(l)')
    BY <1>3 DEF RefCountExact, Matching
  <2>1. CASE i = 1
    <3>1. l = k /\ pool'[i].ref = 1
      BY <2>1, <1>5
    <3>2. Cardinality(Users(k)) = 0
      BY <3>1, <1>14, FS_EmptySet
    <3>3. QED
      BY <3>1, <3>2, <1>10
  <2>2. CASE i # 1
    <3>1. i - 1 \in DOMAIN pool /\ pool'[i] = pool[i - 1] /\ l # k
      BY <2>2, <1>3, <1>6
    <3>2. pool[i - 1].ref = Cardinality(Users(l))
      BY <3>1 DEF IInv, RefCountExact, Matching
    <3>3. QED
      BY <3>1, <3>2, <1>10
  <2>3. QED
    BY <2>1, <2>2
<1>16. SharedLinked'
  <2> SUFFICES ASSUME NEW g \in Live', Shared(handle'[g].key),
                      handle'[g].key \notin LostKeys
               PROVE  \E i \in DOMAIN pool' :
                         pool'[i].key = handle'[g].key /\ pool'[i].dbp = handle'[g].dbp
    BY <1>3 DEF SharedLinked
  <2>1. CASE g = h
    BY <2>1, <1>2, <1>5, <1>6
  <2>2. CASE g # h
    <3>1. PICK i \in DOMAIN pool :
             pool[i].key = handle[g].key /\ pool[i].dbp = handle[g].dbp
      BY <2>2, <1>2 DEF IInv, SharedLinked
    <3>2. QED
      BY <3>1, <2>2, <1>2, <1>5, <1>6
  <2>3. QED
    BY <2>1, <2>2
<1>17. OpenDBOwned'
  <2> SUFFICES ASSUME NEW c \in DBs, db'[c] # Closed, db'[c] \notin LostKeys
               PROVE  OwnerOf(c, db[c])'
    BY <1>3 DEF OpenDBOwned
  <2>1. CASE c = d
    BY <2>1, <1>3, <1>4, <1>5, <1>6 DEF OwnerOf
  <2>2. CASE c # d /\ Shared(db[c])
    <3>1. PICK i \in DOMAIN pool : pool[i].key = db[c] /\ pool[i].dbp = c
      BY <2>2, <1>4 DEF IInv, OpenDBOwned, OwnerOf
    <3>2. QED
      BY <3>1, <2>2, <1>4, <1>5, <1>6 DEF OwnerOf
  <2>3. CASE c # d /\ ~ Shared(db[c])
    BY <2>3, <1>2, <1>4 DEF IInv, OpenDBOwned, OwnerOf
  <2>4. QED
    BY <2>1, <2>2, <2>3
<1>18. QED
  BY <1>7, <1>9, <1>10, <1>11, <1>15, <1>16, <1>17 DEF IInv

LEMMA OpenAgainSharedInv ==
    ASSUME IInv, NEW h \in Handles, NEW k \in Key, OpenAgainShared(h, k)
    PROVE  IInv'
<1> DEFINE i == First(Matching(k))
<1>1. i \in DOMAIN pool /\ pool[i].key = k /\ pool \in Seq(Entry)
  BY FirstMatching DEF OpenAgainShared, IInv, TypeOK
<1> HIDE DEF i
<1>2. pool[i] \in Entry /\ pool[i].dbp \in DBs /\ pool[i].ref \in Nat
  <2>1. pool[i] \in Entry
    BY <1>1
  <2>2. QED
    BY <2>1 DEF Entry
<1> DEFINE d == pool[i].dbp
<1>3. /\ NewHandle(h, k, d)
      /\ pool' = [pool EXCEPT ![i].ref = pool[i].ref + 1]
      /\ lost' = lost /\ db' = db /\ LostKeys' = LostKeys /\ Shared(k)
      /\ misclosed' = misclosed /\ Unreliable' = Unreliable
  BY DEF OpenAgainShared, LostKeys, Unreliable, i
<1>4. /\ pool' \in Seq(Entry)
      /\ DOMAIN pool' = DOMAIN pool
      /\ pool'[i].ref = pool[i].ref + 1
      /\ \A j \in DOMAIN pool :
            /\ pool'[j].key = pool[j].key
            /\ pool'[j].dbp = pool[j].dbp
            /\ j # i => pool'[j] = pool[j]
  <2>1. pool[i].ref + 1 \in Nat
    BY <1>2
  <2>2. QED
    BY <1>1, <1>3, <2>1, Recounted
<1>5. /\ h \notin Live
      /\ Live' = Live \cup {h}
      /\ handle' \in [Handles -> Handle \cup {Free}]
      /\ handle'[h] = [key |-> k, dbp |-> d, state |-> "held"]
      /\ \A g \in Live : handle'[g] = handle[g]
  <2>1. d \in DBs
    BY <1>2
  <2> HIDE DEF d
  <2> QED
    BY <2>1, <1>3, HandleAdded DEF IInv
<1>6. /\ IsFiniteSet(Live')
      /\ Cardinality(Users(k)') = Cardinality(Users(k)) + 1
      /\ \A l : l # k => Users(l)' = Users(l)
  <2>1. handle'[h].key = k
    BY <1>5
  <2>2. QED
    BY <2>1, <1>5, UsersAdded DEF IInv
<1>7. TypeOK'
  BY <1>3, <1>4, <1>5 DEF IInv, TypeOK
<1>8. PoolConsistent'
  <2>1. \A j \in DOMAIN pool : pool'[j].ref > 0
    BY <1>2, <1>4 DEF IInv, PoolConsistent
  <2>2. QED
    BY <2>1, <1>3, <1>4 DEF IInv, PoolConsistent
<1>9. k \notin Unreliable => db[d] = k
  <2>1. k # Closed
    BY ClosedAssumption
  <2>2. QED
    BY <2>1, <1>1 DEF IInv, PoolConsistent, Unreliable
<1>10. NoUseAfterClose' /\ HarmNeedsLoss'
  BY <1>3, <1>5, <1>9 DEF IInv, NoUseAfterClose, HarmNeedsLoss
<1>11. PrivateDBOwned'
  <2> SUFFICES ASSUME NEW g \in Live', handle'[g].key \notin Unreliable,
                      ~ Shared(handle'[g].key)
               PROVE  /\ db[handle'[g].dbp] = handle'[g].key
                      /\ \A f \in Live' \ {g} :
                            handle'[f].dbp = handle'[g].dbp => handle'[f].key \in Unreliable
    BY <1>3 DEF PrivateDBOwned
  <2>1. g # h
    BY <1>3, <1>5
  <2>2. g \in Live /\ handle'[g] = handle[g]
    BY <2>1, <1>5
  <2>3. /\ db[handle[g].dbp] = handle[g].key
        /\ \A f \in Live \ {g} :
              handle[f].dbp = handle[g].dbp => handle[f].key \in Unreliable
    BY <2>2 DEF IInv, PrivateDBOwned
  <2>4. handle'[h].dbp = handle[g].dbp => k \in Unreliable
    BY <2>2, <2>3, <1>3, <1>5, <1>9
  <2>5. QED
    BY <2>2, <2>3, <2>4, <1>5
<1>12. RefCountExact'
  <2> SUFFICES ASSUME NEW l \in Key, l \notin LostKeys,
                      NEW j \in DOMAIN pool, pool[j].key = l
               PROVE  pool'[j].ref = Cardinality(Users(l)')
    BY <1>3, <1>4 DEF RefCountExact, Matching
  <2>1. pool[j].ref = Cardinality(Users(l))
    BY DEF IInv, RefCountExact, Matching
  <2>2. j = i <=> l = k
    BY <1>1 DEF IInv, PoolConsistent
  <2>3. QED
    BY <2>1, <2>2, <1>4, <1>6
<1>13. SharedLinked'
  BY SMTT(60), <1>1, <1>3, <1>4, <1>5 DEF IInv, SharedLinked
<1>14. OpenDBOwned'
  BY <1>3, <1>4, <1>5 DEF IInv, OpenDBOwned, OwnerOf
<1>15. QED
  BY <1>6, <1>7, <1>8, <1>10, <1>11, <1>12, <1>13, <1>14 DEF IInv

LEMMA ClosePrivateInv ==
    ASSUME IInv, NEW h \in Live, ClosePrivate(h)
    PROVE  IInv'
<1> DEFINE k == handle[h].key
           d == handle[h].dbp
<1>1. h \in Handles /\ handle[h] \in Handle /\ k \in Key /\ d \in DBs
  <2>1. h \in Handles /\ handle[h] \in Handle
    BY DEF Live, IInv, TypeOK
  <2>2. QED
    BY <2>1 DEF Handle
<1>2. /\ handle' = [handle EXCEPT ![h] = Free]
      /\ pool' = pool /\ lost' = lost /\ LostKeys' = LostKeys /\ ~ Shared(k)
  BY DEF ClosePrivate, DoClose, LostKeys
<1>3. /\ db'[d] = Closed
      /\ \A c \in DBs \ {d} : db'[c] = db[c]
      /\ db' \in [DBs -> Key \cup {Closed}]
  BY <1>1 DEF ClosePrivate, DoClose, IInv, TypeOK
<1>4. /\ Live' = Live \ {h}
      /\ handle' \in [Handles -> Handle \cup {Free}]
      /\ \A g \in Live' : handle'[g] = handle[g]
  BY <1>2, HandleRemoved DEF IInv
<1>5. IsFiniteSet(Live') /\ \A l : l # k => Users(l)' = Users(l)
  <2> HIDE DEF k
  <2>1. k = handle[h].key
    BY DEF k
  <2> QED
    BY <2>1, <1>4, UsersRemoved DEF IInv
<1>6. misclosed' = misclosed \cup ({db[d]} \ {k})
  BY DEF ClosePrivate, DoClose
<1>7. \A i \in DOMAIN pool : /\ pool[i].key # k
                             /\ pool[i] \in Entry
                             /\ pool[i].dbp \in DBs
  <2>1. \A i \in DOMAIN pool : pool[i] \in Entry
    BY DEF IInv, TypeOK
  <2>2. QED
    BY <2>1, <1>2 DEF IInv, PoolConsistent, Entry
<1>8. /\ NoUseAfterClose' /\ PrivateDBOwned' /\ HarmNeedsLoss'
      /\ misclosed' \subseteq Key \cup {Closed}
  <2>1. k \notin Unreliable =>
           \A g \in Live \ {h} : handle[g].dbp = d => handle[g].key \in Unreliable
    BY <1>2 DEF IInv, PrivateDBOwned
  <2>2. QED
    BY <2>1, <1>2, ClosedDB DEF ClosePrivate
<1>9. TypeOK'
  BY <1>2, <1>3, <1>4, <1>8 DEF IInv, TypeOK
<1>10. PoolConsistent'
  <2> SUFFICES ASSUME NEW i \in DOMAIN pool, pool[i].key \notin misclosed'
               PROVE  db'[pool[i].dbp] = pool[i].key
    BY <1>2 DEF IInv, PoolConsistent
  <2>1. db[pool[i].dbp] = pool[i].key
    BY <1>6 DEF IInv, PoolConsistent
  <2>2. pool[i].dbp # d
    BY <2>1, <1>6, <1>7
  <2>3. QED
    BY <2>1, <2>2, <1>3, <1>7
<1>13. RefCountExact'
  <2> HIDE DEF k
  <2> QED
    BY <1>2, <1>5, <1>7 DEF IInv, RefCountExact, Matching
<1>14. SharedLinked'
  BY <1>2, <1>4 DEF IInv, SharedLinked
<1>15. OpenDBOwned'
  <2> SUFFICES ASSUME NEW c \in DBs, db'[c] # Closed, db'[c] \notin LostKeys
               PROVE  OwnerOf(c, db[c])'
    BY <1>2 DEF OpenDBOwned
  <2>1. c # d /\ db'[c] = db[c]
    BY <1>3
  <2>2. QED
    BY <2>1, <1>2, <1>4 DEF IInv, OpenDBOwned, OwnerOf
<1>16. QED
  BY <1>5, <1>8, <1>9, <1>10, <1>13, <1>14, <1>15 DEF IInv

LEMMA CloseUnknownInv ==
    ASSUME IInv, NEW h \in Live, CloseUnknown(h)
    PROVE  IInv'
<1> DEFINE k == handle[h].key
<1>1. /\ pool' = pool /\ lost' = lost /\ db' = db /\ LostKeys' = LostKeys
      /\ misclosed' = misclosed /\ Shared(k)
      /\ \A i \in DOMAIN pool : pool[i].key # k
  BY DEF CloseUnknown, LostKeys, Matching
<1>2. /\ Live' = Live \ {h}
      /\ handle' \in [Handles -> Handle \cup {Free}]
      /\ \A g \in Live' : handle'[g] = handle[g]
  <2>1. Abandon(h)
    BY DEF CloseUnknown
  <2>2. QED
    BY <2>1, HandleRemoved DEF IInv
<1>3. k \in LostKeys
  BY <1>1 DEF IInv, SharedLinked
<1>4. IsFiniteSet(Live') /\ \A l : l # k => Users(l)' = Users(l)
  <2> HIDE DEF k
  <2>1. k = handle[h].key
    BY DEF k
  <2> QED
    BY <2>1, <1>2, UsersRemoved DEF IInv
<1>5. TypeOK' /\ PoolConsistent'
  BY <1>1, <1>2 DEF IInv, TypeOK, PoolConsistent
<1>6. NoUseAfterClose' /\ PrivateDBOwned' /\ HarmNeedsLoss'
  BY <1>1, <1>2, HandleDropped
<1>7. RefCountExact'
  <2> HIDE DEF k
  <2> QED
    BY <1>1, <1>4 DEF IInv, RefCountExact, Matching
<1>8. SharedLinked'
  BY <1>1, <1>2 DEF IInv, SharedLinked
<1>9. OpenDBOwned'
  <2> SUFFICES ASSUME NEW c \in DBs, db[c] # Closed, db[c] \notin LostKeys,
                      ~ Shared(db[c])
               PROVE  \E g \in Live' : handle'[g].key = db[c] /\ handle'[g].dbp = c
    BY <1>1 DEF OpenDBOwned, OwnerOf, IInv
  <2>1. PICK g \in Live : handle[g].key = db[c] /\ handle[g].dbp = c
    BY DEF IInv, OpenDBOwned, OwnerOf
  <2>2. g # h
    BY <2>1, <1>1
  <2>3. QED
    BY <2>1, <2>2, <1>2
<1>10. QED
  BY <1>4, <1>5, <1>6, <1>7, <1>8, <1>9 DEF IInv

LEMMA CloseNotLastInv ==
    ASSUME IInv, NEW h \in Live, CloseNotLast(h)
    PROVE  IInv'
<1> DEFINE k == handle[h].key
           i == First(Matching(k))
<1>1. k \in Key
  <2>1. handle[h] \in Handle
    BY DEF Live, IInv, TypeOK
  <2>2. QED
    BY <2>1 DEF Handle
<1>2. i \in DOMAIN pool /\ pool[i].key = k /\ pool \in Seq(Entry)
  <2> HIDE DEF k
  <2>1. Matching(k) # {}
    BY DEF CloseNotLast, k
  <2>2. QED
    BY <1>1, <2>1, FirstMatching DEF IInv, TypeOK
<1>3. /\ pool[i].ref # 1
      /\ pool' = [pool EXCEPT ![i].ref = pool[i].ref - 1]
      /\ lost' = lost /\ db' = db /\ LostKeys' = LostKeys /\ Shared(k)
      /\ misclosed' = misclosed
  BY DEF CloseNotLast, LostKeys
<1>4. /\ Live' = Live \ {h}
      /\ handle' \in [Handles -> Handle \cup {Free}]
      /\ \A g \in Live' : handle'[g] = handle[g]
  <2>1. Abandon(h)
    BY DEF CloseNotLast
  <2>2. QED
    BY <2>1, HandleRemoved DEF IInv
<1>5. /\ IsFiniteSet(Live')
      /\ \A l : l = k => Cardinality(Users(l)') = Cardinality(Users(l)) - 1
      /\ \A l : l # k => Users(l)' = Users(l)
  <2>1. PICK l : l = handle[h].key
    OBVIOUS
  <2>2. /\ IsFiniteSet(Live')
        /\ Cardinality(Users(l)') = Cardinality(Users(l)) - 1
        /\ \A m : m # l => Users(m)' = Users(m)
    BY <2>1, <1>4, UsersRemoved DEF IInv
  <2>3. QED
    BY <2>1, <2>2
<1> HIDE DEF i
<1>6. pool[i].ref \in Nat /\ pool[i].ref > 0
  <2>1. pool[i] \in Entry
    BY <1>2
  <2>2. QED
    BY <2>1, <1>2 DEF Entry, IInv, PoolConsistent
<1>7. /\ pool' \in Seq(Entry)
      /\ DOMAIN pool' = DOMAIN pool
      /\ pool'[i].ref = pool[i].ref - 1
      /\ \A j \in DOMAIN pool :
            /\ pool'[j].key = pool[j].key
            /\ pool'[j].dbp = pool[j].dbp
            /\ j # i => pool'[j] = pool[j]
  <2>1. pool[i].ref - 1 \in Nat
    BY <1>6
  <2>2. QED
    BY <1>2, <1>3, <2>1, Recounted
<1>8. TypeOK'
  BY <1>3, <1>4, <1>7 DEF IInv, TypeOK
<1>9. PoolConsistent'
  <2>1. \A j \in DOMAIN pool : pool'[j].ref > 0
    BY <1>3, <1>6, <1>7 DEF IInv, PoolConsistent
  <2>2. QED
    BY <2>1, <1>3, <1>7 DEF IInv, PoolConsistent
<1>10. NoUseAfterClose' /\ PrivateDBOwned' /\ HarmNeedsLoss'
  BY <1>3, <1>4, HandleDropped
<1>11. RefCountExact'
  <2> SUFFICES ASSUME NEW l \in Key, l \notin LostKeys,
                      NEW j \in DOMAIN pool, pool[j].key = l
               PROVE  pool'[j].ref = Cardinality(Users(l)')
    BY <1>3, <1>7 DEF RefCountExact, Matching
  <2>1. pool[j].ref = Cardinality(Users(l))
    BY DEF IInv, RefCountExact, Matching
  <2>2. j = i <=> l = k
    BY <1>2 DEF IInv, PoolConsistent
  <2>3. QED
    BY <2>1, <2>2, <1>5, <1>7
<1>12. SharedLinked'
  BY <1>3, <1>4, <1>7 DEF IInv, SharedLinked
<1>13. OpenDBOwned'
  <2> SUFFICES ASSUME NEW c \in DBs, db[c] # Closed, db[c] \notin LostKeys
               PROVE  OwnerOf(c, db[c])'
    BY <1>3 DEF OpenDBOwned
  <2>1. CASE Shared(db[c])
    BY <2>1, <1>3, <1>7 DEF IInv, OpenDBOwned, OwnerOf
  <2>2. CASE ~ Shared(db[c])
    <3>1. PICK g \in Live : handle[g].key = db[c] /\ handle[g].dbp = c
      BY <2>2 DEF IInv, OpenDBOwned, OwnerOf
    <3>2. g # h
      BY <3>1, <2>2, <1>3
    <3>3. QED
      BY <3>1, <3>2, <2>2, <1>3, <1>4 DEF OwnerOf
  <2>3. QED
    BY <2>1, <2>2
<1>14. QED
  BY <1>5, <1>8, <1>9, <1>10, <1>11, <1>12, <1>13 DEF IInv

LEMMA CloseLastInv ==
    ASSUME IInv, NEW h \in Live, CloseLast(h)
    PROVE  IInv'
<1> DEFINE k == handle[h].key
           d == handle[h].dbp
           i == First(Matching(k))
<1>1. h \in Handles /\ k \in Key /\ d \in DBs
  <2>1. h \in Handles /\ handle[h] \in Handle
    BY DEF Live, IInv, TypeOK
  <2>2. QED
    BY <2>1 DEF Handle
<1>2. i \in DOMAIN pool /\ pool[i].key = k /\ pool \in Seq(Entry)
  <2> HIDE DEF k
  <2>1. Matching(k) # {}
    BY DEF CloseLast, k
  <2>2. QED
    BY <1>1, <2>1, FirstMatching DEF IInv, TypeOK
<1>3. /\ pool[i].ref = 1 /\ Shared(k)
      /\ handle' = [handle EXCEPT ![h] = Free]
      /\ pool' = SubSeq(pool, i + 1, Len(pool))
      /\ lost' = lost \cup {pool[j] : j \in 1 .. (i - 1)}
  BY DEF CloseLast, DoClose
<1>4. /\ db'[d] = Closed
      /\ \A c \in DBs \ {d} : db'[c] = db[c]
      /\ db' \in [DBs -> Key \cup {Closed}]
  BY <1>1 DEF CloseLast, DoClose, IInv, TypeOK
<1>5. /\ Live' = Live \ {h}
      /\ handle' \in [Handles -> Handle \cup {Free}]
      /\ \A g \in Live' : handle'[g] = handle[g]
  BY <1>3, HandleRemoved DEF IInv
<1>6. /\ IsFiniteSet(Live')
      /\ Cardinality(Users(k)) = 1 => Users(k) = {h}
      /\ \A l : l # k => Users(l)' = Users(l)
  <2> HIDE DEF k
  <2>1. k = handle[h].key
    BY DEF k
  <2> QED
    BY <2>1, <1>5, UsersRemoved DEF IInv
<1> HIDE DEF i
<1>7. /\ pool' \in Seq(Entry)
      /\ DOMAIN pool' = 1 .. (Len(pool) - i)
      /\ \A j \in DOMAIN pool' : j + i \in DOMAIN pool /\ pool'[j] = pool[j + i]
  BY <1>2, <1>3, CutAfter
<1>8. DOMAIN pool = 1 .. Len(pool) /\ Len(pool) \in Nat /\ i \in 1 .. Len(pool)
  BY <1>2
<1>9. \A j \in DOMAIN pool : j > i => j - i \in DOMAIN pool' /\ pool'[j - i] = pool[j]
  BY <1>7, <1>8
<1>10. \A j \in DOMAIN pool : j < i => pool[j] \in lost'
  BY <1>3, <1>8
<1>11. /\ LostKeys \subseteq LostKeys'
       /\ \A j \in DOMAIN pool : j < i => pool[j].key \in LostKeys'
  BY <1>3, <1>10 DEF LostKeys
<1>12. \A j \in DOMAIN pool : pool[j] \in Entry /\ pool[j].key \in Key /\ pool[j].dbp \in DBs
  <2>1. \A j \in DOMAIN pool : pool[j] \in Entry
    BY <1>2
  <2>2. QED
    BY <2>1 DEF Entry
<1>13. misclosed' = misclosed \cup ({db[d]} \ {k})
  BY DEF CloseLast, DoClose
<1>14. \A j \in DOMAIN pool' : pool'[j].key # k
  <2> SUFFICES ASSUME NEW j \in DOMAIN pool'
               PROVE  pool'[j].key # k
    OBVIOUS
  <2>1. j + i \in DOMAIN pool /\ pool'[j] = pool[j + i] /\ j + i # i
    BY <1>7, <1>8
  <2>2. pool[j + i].key # k
    BY <2>1, <1>2 DEF IInv, PoolConsistent
  <2>4. QED
    BY <2>1, <2>2
<1>15. /\ NoUseAfterClose' /\ PrivateDBOwned' /\ HarmNeedsLoss'
       /\ misclosed' \subseteq Key \cup {Closed}
  <2>1. k \notin Unreliable => Users(k) = {h}
    <3> SUFFICES ASSUME k \notin Unreliable PROVE Users(k) = {h}
      OBVIOUS
    <3>1. k \notin LostKeys
      BY DEF Unreliable
    <3>2. Cardinality(Users(k)) = 1
      BY <3>1, <1>1, <1>2, <1>3 DEF IInv, RefCountExact, Matching
    <3>3. QED
      BY <3>2, <1>6
  <2>2. k \notin Unreliable => \A g \in Live \ {h} : handle[g].key # k
    BY <2>1 DEF Users
  <2>3. DoClose(h) /\ lost \subseteq lost'
    BY <1>3 DEF CloseLast
  <2>4. QED
    BY <2>2, <2>3, ClosedDB
<1>16. TypeOK'
  <2>1. {pool[j] : j \in 1 .. (i - 1)} \subseteq Entry
    BY <1>8, <1>12
  <2>2. QED
    BY <2>1, <1>3, <1>4, <1>5, <1>7, <1>15 DEF IInv, TypeOK
<1>17. PoolConsistent'
  <2>1. ASSUME NEW j \in DOMAIN pool'
        PROVE  /\ Shared(pool'[j].key)
               /\ pool'[j].ref > 0
               /\ pool'[j].key \notin misclosed' => db'[pool'[j].dbp] = pool'[j].key
    <3>1. j + i \in DOMAIN pool /\ pool'[j] = pool[j + i]
      BY <1>7
    <3>2. Shared(pool'[j].key) /\ pool'[j].ref > 0
      BY <3>1 DEF IInv, PoolConsistent
    <3>3. ASSUME pool'[j].key \notin misclosed' PROVE db'[pool'[j].dbp] = pool'[j].key
      <4>1. db[pool[j + i].dbp] = pool[j + i].key
        BY <3>1, <3>3, <1>13 DEF IInv, PoolConsistent
      <4>2. pool[j + i].dbp # d
        BY <4>1, <3>1, <3>3, <1>13, <1>14
      <4>3. QED
        BY <3>1, <4>1, <4>2, <1>4, <1>12
    <3>4. QED
      BY <3>2, <3>3
  <2>2. ASSUME NEW j \in DOMAIN pool', NEW l \in DOMAIN pool',
               pool'[j].key = pool'[l].key
        PROVE  j = l
    <3>1. j + i = l + i
      BY <2>2, <1>7 DEF IInv, PoolConsistent
    <3>2. QED
      BY <3>1, <1>7, <1>8
  <2>3. QED
    BY <2>1, <2>2 DEF PoolConsistent
<1>20. RefCountExact'
  <2> SUFFICES ASSUME NEW l \in Key, l \notin LostKeys',
                      NEW j \in DOMAIN pool', pool'[j].key = l
               PROVE  pool'[j].ref = Cardinality(Users(l)')
    BY DEF RefCountExact, Matching
  <2>1. l # k /\ l \notin LostKeys
    BY <1>11, <1>14
  <2>2. pool[j + i].ref = Cardinality(Users(l))
    BY <2>1, <1>7 DEF IInv, RefCountExact, Matching
  <2>3. QED
    BY <2>1, <2>2, <1>6, <1>7
<1>21. SharedLinked'
  <2> SUFFICES ASSUME NEW g \in Live', Shared(handle[g].key),
                      handle[g].key \notin LostKeys'
               PROVE  \E j \in DOMAIN pool' :
                         pool'[j].key = handle[g].key /\ pool'[j].dbp = handle[g].dbp
    BY <1>5 DEF SharedLinked
  <2>1. PICK j \in DOMAIN pool :
           pool[j].key = handle[g].key /\ pool[j].dbp = handle[g].dbp
    BY <1>5, <1>11 DEF IInv, SharedLinked
  <2>2. ~ (j < i)
    BY <2>1, <1>11
  <2>3. j # i
    <3> SUFFICES ASSUME j = i PROVE FALSE
      OBVIOUS
    <3>1. handle[g].key = k /\ k \notin LostKeys
      BY <2>1, <1>2, <1>11
    <3>2. Cardinality(Users(k)) = 1
      BY <3>1, <1>1, <1>2, <1>3 DEF IInv, RefCountExact, Matching
    <3>3. g \in Users(k)
      BY <3>1, <1>5 DEF Users
    <3>4. QED
      BY <3>2, <3>3, <1>5, <1>6
  <2>4. j > i
    BY <2>2, <2>3, <1>8
  <2>5. QED
    BY <2>1, <2>4, <1>9
<1>22. OpenDBOwned'
  <2> SUFFICES ASSUME NEW c \in DBs, db'[c] # Closed, db'[c] \notin LostKeys'
               PROVE  OwnerOf(c, db[c])'
    BY DEF OpenDBOwned
  <2>1. c # d /\ db'[c] = db[c] /\ db[c] \notin LostKeys
    BY <1>4, <1>11
  <2>2. CASE Shared(db[c])
    <3>1. PICK j \in DOMAIN pool : pool[j].key = db[c] /\ pool[j].dbp = c
      BY <2>1, <2>2 DEF IInv, OpenDBOwned, OwnerOf
    <3>2. pool[j].key = db[c]
      BY <3>1
    <3>3. ~ (j < i)
      BY <3>2, <2>1, <1>11
    <3>4. j # i
      <4> SUFFICES ASSUME j = i PROVE FALSE
        OBVIOUS
      <4>1. k \notin LostKeys
        BY <3>2, <2>1, <1>2
      <4>2. PICK l \in DOMAIN pool : pool[l].key = k /\ pool[l].dbp = d
        BY <4>1, <1>3 DEF IInv, SharedLinked
      <4>3. l = i
        BY <4>2, <1>2 DEF IInv, PoolConsistent
      <4>4. QED
        BY <4>2, <4>3, <3>1, <2>1
    <3>5. j > i
      BY <3>3, <3>4, <1>8
    <3>6. QED
      BY <3>1, <3>5, <2>1, <2>2, <1>9 DEF OwnerOf
  <2>3. CASE ~ Shared(db[c])
    <3>1. PICK g \in Live : handle[g].key = db[c] /\ handle[g].dbp = c
      BY <2>1, <2>3 DEF IInv, OpenDBOwned, OwnerOf
    <3>2. g # h
      BY <3>1, <2>3, <1>3
    <3>3. QED
      BY <3>1, <3>2, <2>1, <2>3, <1>5 DEF OwnerOf
  <2>4. QED
    BY <2>2, <2>3
<1>23. QED
  BY <1>6, <1>15, <1>16, <1>17, <1>20, <1>21, <1>22 DEF IInv

-----------------------------------------------------------------------------
(* Theorems *)

LEMMA OpenInv ==
    ASSUME IInv, NEW h \in Handles, NEW k \in Key, Open(h, k)
    PROVE  IInv'
BY OpenPrivateInv, OpenFirstSharedInv, OpenAgainSharedInv DEF Open

LEMMA CloseInv ==
    ASSUME IInv, NEW h \in Handles, Close(h)
    PROVE  IInv'
BY ClosePrivateInv, CloseNotLastInv, CloseLastInv, CloseUnknownInv DEF Close

LEMMA NextInv == IInv /\ [Next]_vars => IInv'
<1> SUFFICES ASSUME IInv, [Next]_vars PROVE IInv'
  OBVIOUS
<1>1. ASSUME NEW h \in Handles, NEW k \in Key, Open(h, k) PROVE IInv'
  BY <1>1, OpenInv
<1>2. ASSUME NEW h \in Handles, Close(h) PROVE IInv'
  BY <1>2, CloseInv
<1>3. CASE UNCHANGED vars
  BY <1>3 DEF vars, IInv, TypeOK, Live, PoolConsistent, NoUseAfterClose,
              HarmNeedsLoss, PrivateDBOwned, RefCountExact, Matching, Users,
              SharedLinked, OpenDBOwned, OwnerOf, LostKeys, Unreliable
<1>4. QED
  BY <1>1, <1>2, <1>3 DEF Next, OpenFails

\* What an open means to its caller: a handle nobody held, on the key asked
\* for.
LEMMA OpenEffect ==
    ASSUME IInv, NEW h \in Handles, NEW k \in Key, Open(h, k)
    PROVE  /\ IInv'
           /\ h \notin Live
           /\ Live' = Live \cup {h}
           /\ handle'[h].key = k
           /\ \A g \in Live : handle'[g] = handle[g]
<1>1. IInv'
  BY OpenInv
<1>2. TypeOK
  BY DEF IInv
<1>3. \E d \in DBs : NewHandle(h, k, d)
  <2>1. CASE OpenPrivate(h, k) \/ OpenFirstShared(h, k)
    BY <2>1 DEF OpenPrivate, OpenFirstShared
  <2>2. CASE OpenAgainShared(h, k)
    <3>1. First(Matching(k)) \in DOMAIN pool
      BY <1>2, <2>2, FirstMatching DEF OpenAgainShared, TypeOK, IInv
    <3>2. \A i \in DOMAIN pool : pool[i] \in Entry
      BY <1>2 DEF TypeOK
    <3>3. pool[First(Matching(k))].dbp \in DBs
      BY <3>1, <3>2 DEF Entry
    <3>4. QED
      BY <2>2, <3>3 DEF OpenAgainShared
  <2>3. QED
    BY <2>1, <2>2 DEF Open
<1>4. PICK d \in DBs : NewHandle(h, k, d)
  BY <1>3
<1>5. /\ h \notin Live
      /\ Live' = Live \cup {h}
      /\ handle'[h] = [key |-> k, dbp |-> d, state |-> "held"]
      /\ \A g \in Live : handle'[g] = handle[g]
  BY <1>2, <1>4, HandleAdded
<1>6. QED
  BY <1>1, <1>5

\* What a close means: its handle is not held any more, every other one is as
\* it was.
LEMMA CloseEffect ==
    ASSUME IInv, NEW h \in Live, Close(h)
    PROVE  /\ IInv'
           /\ Live' = Live \ {h}
           /\ \A g \in Live' : handle'[g] = handle[g]
<1>1. h \in Handles
  BY DEF Live
<1>2. IInv'
  BY <1>1, CloseInv
<1>3. \/ handle' = [handle EXCEPT ![h] = Free]
      \/ Abandon(h)
  BY DEF Close, ClosePrivate, CloseNotLast, CloseLast, CloseUnknown, DoClose
<1>4. QED
  BY <1>2, <1>3, HandleRemoved DEF IInv

\* The invariant holds in every reachable state of the pool.
THEOREM Invariance == Spec => []IInv
<1>1. QED
  BY InitInv, NextInv, PTL DEF Spec

\* The variables keep their types.
THEOREM TypeCorrect == Spec => []TypeOK
<1>1. IInv => TypeOK
  BY DEF IInv
<1>2. QED
  BY <1>1, Invariance, PTL

\* Whatever was closed before, in whatever order, tabe_search_rdbpool finds
\* one entry at most, and it is counted and open on the name and flags asked
\* for, unless that very DB was closed through a dangling handle of another
\* key.
THEOREM PoolIsConsistent == Spec => []PoolConsistent
<1>1. IInv => PoolConsistent
  BY DEF IInv
<1>2. QED
  BY <1>1, Invariance, PTL

\* As long as tabeTsiDBClose drops no entry from the list, it closes no DB
\* through a handle of another key, and no freed memory: whatever dangles was
\* left dangling by a lost entry, although db_create may return any address
\* that is not in use.
THEOREM HarmComesFromLoss == Spec => []HarmNeedsLoss
<1>1. IInv => HarmNeedsLoss
  BY DEF IInv
<1>2. QED
  BY Invariance, <1>1, PTL

\* A DB that was opened without DB_FLAG_SHARED is open until its handle is
\* closed, and no other handle refers to it but one that dangles, unless such a
\* handle closed a DB of the same key.
THEOREM PrivateHandlesOwn == Spec => []PrivateDBOwned
<1>1. IInv => PrivateDBOwned
  BY DEF IInv
<1>2. QED
  BY Invariance, <1>1, PTL

\* tabeTsiDBClose closes the DB of no other handle, and no handle reaches the
\* DB of another file or of other flags, whatever the number of handles and
\* names and wherever db_create puts a DB, as long as the entry of that
\* handle's key was not lost and its DB not closed through a dangling handle.
THEOREM NoUseAfterCloseHolds == Spec => []NoUseAfterClose
<1>1. IInv => NoUseAfterClose
  BY DEF IInv
<1>2. QED
  BY <1>1, Invariance, PTL

\* The reference count of an entry is the number of its users, as long as the
\* entry of its key was never lost.
THEOREM RefCountIsExact == Spec => []RefCountExact
<1>1. IInv => RefCountExact
  BY DEF IInv
<1>2. QED
  BY <1>1, Invariance, PTL

\* The last close of a key closes its DB, as long as its entry was not lost.
THEOREM LastCloseCloses == Spec => []ClosedAfterLastClose
<1>1. IInv => ClosedAfterLastClose
  <2> SUFFICES ASSUME IInv, NEW d \in DBs, db[d] # Closed, db[d] \notin LostKeys
               PROVE  Users(db[d]) # {}
    BY DEF ClosedAfterLastClose
  <2>1. CASE Shared(db[d])
    <3>1. PICK i \in DOMAIN pool : pool[i].key = db[d] /\ pool[i].dbp = d
      BY <2>1 DEF IInv, OpenDBOwned, OwnerOf
    <3>2. pool[i].key = db[d] /\ pool[i].ref > 0
      BY <3>1 DEF IInv, PoolConsistent
    <3>3. db[d] \in Key
      BY DEF IInv, TypeOK
    <3>4. pool[i].ref = Cardinality(Users(db[d]))
      BY <3>2, <3>3 DEF IInv, RefCountExact, Matching
    <3>5. QED
      BY <3>2, <3>4, FS_EmptySet
  <2>2. CASE ~ Shared(db[d])
    <3>1. PICK h \in Live : handle[h].key = db[d] /\ handle[h].dbp = d
      BY <2>2 DEF IInv, OpenDBOwned, OwnerOf
    <3>2. QED
      BY <3>1 DEF Users
  <2>3. QED
    BY <2>1, <2>2
<1>2. QED
  BY <1>1, Invariance, PTL

-----------------------------------------------------------------------------
(***************************************************************************)
(* The list of shared databases, with its counts and what it loses,        *)
(* implements DBSharing.  A handle on a key that cannot be relied on is on *)
(* no file of DBSharing, so that what is done with it is a stutter there,  *)
(* unless it drops entries or closes the DB of another key, which are      *)
(* forgotten then.                                                         *)
(***************************************************************************)

\* What a live handle refers to.
LEMMA LiveHandle ==
    ASSUME TypeOK, NEW h \in Live
    PROVE  /\ h \in Handles
           /\ handle[h].key \in Key
           /\ handle[h].dbp \in DBs
<1>1. h \in Handles /\ handle[h] \in Handle
  BY DEF Live, TypeOK
<1>2. QED
  BY <1>1 DEF Handle

LEMMA InitImplements == Init => Sharing!Init
<1> SUFFICES ASSUME Init PROVE Sharing!Init
  OBVIOUS
<1>1. Live = {} /\ Unreliable = {}
  BY DEF Init, Live, LostKeys, Unreliable
<1>2. HeldKeys = [h \in Handles |-> Free]
  BY <1>1 DEF HeldKeys
<1>3. OpenKeys = {}
  BY DEF Init, OpenKeys
<1>4. QED
  BY <1>1, <1>2, <1>3 DEF Sharing!Init

-----------------------------------------------------------------------------
(* Opening *)

\* A handle that is made on a key is an acquisition of it, if the key can be
\* relied on; otherwise it is a stutter.
LEMMA NewHandleImplements ==
    ASSUME IInv, NEW h \in Handles, NEW k \in Key, NEW d \in DBs,
           NewHandle(h, k, d),
           UNCHANGED <<lost, misclosed>>,
           OpenKeys' = OpenKeys \cup ({k} \ Unreliable)
    PROVE  Sharing!Next \/ UNCHANGED Sharing!vars
<1>1. /\ h \notin Live
      /\ Live' = Live \cup {h}
      /\ handle'[h] = [key |-> k, dbp |-> d, state |-> "held"]
      /\ \A g \in Live : handle'[g] = handle[g]
  BY HandleAdded DEF IInv
<1>2. Unreliable' = Unreliable
  BY DEF Unreliable, LostKeys
<1>3. CASE k \in Unreliable
  <2>1. HeldKeys' = HeldKeys
    BY <1>1, <1>2, <1>3 DEF HeldKeys
  <2>2. OpenKeys' = OpenKeys
    BY <1>3
  <2>3. QED
    BY <2>1, <2>2, <1>2 DEF Sharing!vars
<1>4. CASE k \notin Unreliable
  <2>1. HeldKeys[h] = Free
    BY <1>1 DEF HeldKeys
  <2>2. HeldKeys' = [HeldKeys EXCEPT ![h] = k]
    <3>1. handle'[h].key = k
      BY <1>1
    <3>2. \A g \in Handles : HeldKeys'[g] = IF g = h THEN k ELSE HeldKeys[g]
      BY <3>1, <1>1, <1>2, <1>4 DEF HeldKeys
    <3>3. QED
      BY <3>2 DEF HeldKeys
  <2>3. OpenKeys' = OpenKeys \cup {k}
    BY <1>4
  <2>4. Sharing!Acquire(h, k)
    BY <2>1, <2>2, <2>3, <1>2, <1>4 DEF Sharing!Acquire
  <2>5. QED
    BY <2>4 DEF Sharing!Next
<1>5. QED
  BY <1>3, <1>4

LEMMA OpenImplements ==
    ASSUME IInv, NEW h \in Handles, NEW k \in Key, Open(h, k)
    PROVE  Sharing!Next \/ UNCHANGED Sharing!vars
<1>1. CASE OpenPrivate(h, k) \/ OpenFirstShared(h, k)
  <2>1. PICK d \in DBs : DoOpen(d, k) /\ NewHandle(h, k, d)
    BY <1>1 DEF OpenPrivate, OpenFirstShared
  <2>2. UNCHANGED <<lost, misclosed>> /\ Unreliable' = Unreliable
    BY <1>1, <2>1 DEF OpenPrivate, OpenFirstShared, DoOpen, Unreliable, LostKeys
  <2>3. /\ db[d] = Closed /\ db'[d] = k
        /\ \A c \in DBs \ {d} : db'[c] = db[c]
    BY <2>1 DEF DoOpen, IInv, TypeOK
  <2>4. OpenKeys' = OpenKeys \cup ({k} \ Unreliable)
    <3>1. {db'[c] : c \in DBs} \cup {Closed} = {db[c] : c \in DBs} \cup {Closed, k}
      BY <2>3
    <3>2. QED
      BY <3>1, <2>2, ClosedAssumption DEF OpenKeys
  <2>5. QED
    BY <2>1, <2>2, <2>4, NewHandleImplements
<1>2. CASE OpenAgainShared(h, k)
  <2> DEFINE i == First(Matching(k))
  <2>1. i \in DOMAIN pool /\ pool[i].key = k
    BY <1>2, FirstMatching DEF OpenAgainShared, IInv, TypeOK
  <2>2. /\ NewHandle(h, k, pool[i].dbp) /\ UNCHANGED <<lost, db, misclosed>>
        /\ Unreliable' = Unreliable
    BY <1>2 DEF OpenAgainShared, Unreliable, LostKeys
  <2> HIDE DEF i
  <2>3. pool[i] \in Entry
    BY <2>1 DEF IInv, TypeOK
  <2>4. pool[i].dbp \in DBs /\ (k \notin misclosed => db[pool[i].dbp] = k)
    BY <2>1, <2>3 DEF Entry, IInv, PoolConsistent
  <2>5. OpenKeys' = OpenKeys \cup ({k} \ Unreliable)
    <3>1. k \notin Unreliable => k \in OpenKeys
      BY <2>4, ClosedAssumption DEF OpenKeys, Unreliable
    <3>2. OpenKeys' = OpenKeys
      BY <2>2 DEF OpenKeys
    <3>3. QED
      BY <3>1, <3>2
  <2>6. QED
    BY <2>2, <2>4, <2>5, NewHandleImplements
<1>3. QED
  BY <1>1, <1>2 DEF Open

-----------------------------------------------------------------------------
(* Closing *)

\* A handle goes, its DB stays open and no entry is lost: a stutter for a
\* key that cannot be relied on, and for another one a release, if somebody
\* else holds it.
LEMMA AbandonImplements ==
    ASSUME IInv, NEW h \in Live,
           Live' = Live \ {h},
           \A g \in Live' : handle'[g] = handle[g],
           Unreliable' = Unreliable, OpenKeys' = OpenKeys,
           handle[h].key \notin Unreliable =>
              \E g \in Live \ {h} : handle[g].key = handle[h].key
    PROVE  Sharing!Next \/ UNCHANGED Sharing!vars
<1>1. h \in Handles /\ handle[h].key \in Key
  BY LiveHandle DEF IInv
<1>2. CASE handle[h].key \in Unreliable
  <2>1. HeldKeys' = HeldKeys
    BY <1>2 DEF HeldKeys
  <2>2. QED
    BY <2>1 DEF Sharing!vars
<1>3. CASE handle[h].key \notin Unreliable
  <2>1. HeldKeys[h] = handle[h].key /\ HeldKeys[h] # Free
    BY <1>1, <1>3, FreeAssumption DEF HeldKeys
  <2>2. PICK g \in Live \ {h} : handle[g].key = handle[h].key
    BY <1>3
  <2>3. g \in Handles \ {h} /\ HeldKeys[g] = HeldKeys[h]
    BY <2>1, <2>2, <1>3 DEF HeldKeys, Live
  <2>4. HeldKeys' = [HeldKeys EXCEPT ![h] = Free]
    BY <1>1 DEF HeldKeys
  <2>5. Sharing!Release(h)
    BY <2>1, <2>3, <2>4 DEF Sharing!Release
  <2>6. QED
    BY <1>1, <2>5 DEF Sharing!Next
<1>4. QED
  BY <1>2, <1>3

\* A handle goes and its DB is closed, and S are the keys that cannot be relied
\* on any more.
LEMMA DoCloseImplements ==
    ASSUME IInv, NEW h \in Live, DoClose(h), lost \subseteq lost',
           NEW S \in SUBSET Key, Unreliable' = Unreliable \cup S,
           handle[h].key \notin Unreliable =>
              /\ handle[h].key \notin S
              /\ \A g \in Live \ {h} : handle[g].key # handle[h].key
              /\ \A c \in DBs : db[c] = handle[h].key => c = handle[h].dbp
    PROVE  Sharing!Next
<1> DEFINE k == handle[h].key
           d == handle[h].dbp
<1>1. h \in Handles /\ k \in Key /\ d \in DBs
  BY LiveHandle DEF IInv
<1>2. /\ Live' = Live \ {h}
      /\ \A g \in Live' : handle'[g] = handle[g]
  <2>1. handle' = [handle EXCEPT ![h] = Free]
    BY DEF DoClose
  <2>2. QED
    BY <2>1, HandleRemoved DEF IInv
<1>3. db'[d] = Closed /\ \A c \in DBs \ {d} : db'[c] = db[c]
  BY <1>1 DEF DoClose, IInv, TypeOK
<1>4. OpenKeys' = {db[c] : c \in DBs \ {d}} \ (Unreliable \cup S \cup {Closed})
  BY <1>1, <1>3 DEF OpenKeys
<1>5. Free \notin OpenKeys
  BY FreeAssumption DEF OpenKeys, IInv, TypeOK
<1>6. \A g \in Live : handle[g].key \in Key
  BY LiveHandle DEF IInv
<1>7. CASE k \in Unreliable
  <2>1. HeldKeys' = [g \in Handles |-> IF HeldKeys[g] \in S \cup {Free}
                                        THEN Free ELSE HeldKeys[g]]
    <3>1. \A g \in Handles : HeldKeys'[g] = IF HeldKeys[g] \in S \cup {Free}
                                             THEN Free ELSE HeldKeys[g]
      BY <1>2, <1>6, <1>7 DEF HeldKeys
    <3>2. QED
      BY <3>1 DEF HeldKeys
  <2>2. db[d] \in Unreliable \cup S \cup {Closed}
    <3>1. db[d] = k \/ db[d] = Closed \/ db[d] \in misclosed' \ {Closed}
      BY DEF DoClose
    <3>2. QED
      BY <3>1, <1>7 DEF Unreliable
  <2>3. OpenKeys' = OpenKeys \ (S \cup {Free})
    BY <2>2, <1>1, <1>4, <1>5 DEF OpenKeys
  <2>4. Sharing!Drop(Free, S)
    BY <2>1, <2>3 DEF Sharing!Drop
  <2>5. Sharing!ReleaseForgotten
    BY <2>4, <1>7 DEF Sharing!ReleaseForgotten
  <2>6. QED
    BY <2>5 DEF Sharing!Next
<1>8. CASE k \notin Unreliable
  <2>1. HeldKeys[h] = k /\ k # Free
    BY <1>1, <1>8, FreeAssumption DEF HeldKeys
  <2>2. \A g \in Handles \ {h} : HeldKeys[g] # HeldKeys[h]
    BY <2>1, <1>8 DEF HeldKeys
  <2>3. HeldKeys' = [g \in Handles |-> IF HeldKeys[g] \in S \cup {k}
                                        THEN Free ELSE HeldKeys[g]]
    <3>1. \A g \in Handles \ {h} : HeldKeys'[g] = IF HeldKeys[g] \in S \cup {k}
                                                   THEN Free ELSE HeldKeys[g]
      BY <2>1, <2>2, <1>2, <1>6 DEF HeldKeys
    <3>2. HeldKeys'[h] = Free
      BY <1>1, <1>2 DEF HeldKeys
    <3>3. QED
      BY <3>1, <3>2, <2>1 DEF HeldKeys
  <2>4. OpenKeys' = OpenKeys \ (S \cup {k})
    <3>1. db[d] = k
      BY <1>8 DEF IInv, NoUseAfterClose
    <3>2. k \notin {db[c] : c \in DBs \ {d}}
      BY <1>8
    <3>3. QED
      BY <3>1, <3>2, <1>1, <1>4 DEF OpenKeys
  <2>5. Sharing!Drop(HeldKeys[h], S)
    BY <2>1, <2>3, <2>4 DEF Sharing!Drop
  <2>6. Sharing!ReleaseLast(h)
    BY <2>1, <2>2, <2>5, <1>8 DEF Sharing!ReleaseLast
  <2>7. QED
    BY <1>1, <2>6 DEF Sharing!Next
<1>9. QED
  BY <1>7, <1>8

\* A private handle takes its DB with it; the key stays open if another
\* private handle is on it.
LEMMA ClosePrivateImplements ==
    ASSUME IInv, NEW h \in Live, ClosePrivate(h)
    PROVE  Sharing!Next \/ UNCHANGED Sharing!vars
<1> DEFINE k == handle[h].key
           d == handle[h].dbp
           S == ({db[d]} \ {k}) \ {Closed}
<1>1. h \in Handles /\ k \in Key /\ d \in DBs
  BY LiveHandle DEF IInv
<1>2. ~ Shared(k) /\ DoClose(h) /\ lost' = lost
  BY DEF ClosePrivate
<1>3. S \in SUBSET Key /\ Unreliable' = Unreliable \cup S
  BY <1>1, <1>2 DEF DoClose, Unreliable, LostKeys, IInv, TypeOK
<1>4. k \notin Unreliable => db[d] = k /\ S = {}
  BY DEF IInv, NoUseAfterClose
<1>5. CASE k \notin Unreliable /\ \E g \in Live \ {h} : handle[g].key = k
  <2>1. PICK g \in Live \ {h} : handle[g].key = k
    BY <1>5
  <2>2. handle[g].dbp # d /\ db[handle[g].dbp] = k /\ handle[g].dbp \in DBs
    BY <2>1, <1>2, <1>5, LiveHandle DEF IInv, PrivateDBOwned
  <2>3. db'[d] = Closed /\ \A c \in DBs \ {d} : db'[c] = db[c]
    BY <1>1, <1>2 DEF DoClose, IInv, TypeOK
  <2>4. Unreliable' = Unreliable
    BY <1>3, <1>4, <1>5
  <2>5. OpenKeys' = OpenKeys
    BY <2>2, <2>3, <2>4, <1>1, <1>4, <1>5 DEF OpenKeys
  <2>6. Live' = Live \ {h} /\ \A f \in Live' : handle'[f] = handle[f]
    <3>1. handle' = [handle EXCEPT ![h] = Free]
      BY <1>2 DEF DoClose
    <3>2. QED
      BY <3>1, HandleRemoved DEF IInv
  <2>7. QED
    BY <2>1, <2>4, <2>5, <2>6, AbandonImplements
<1>6. CASE ~ (k \notin Unreliable /\ \E g \in Live \ {h} : handle[g].key = k)
  <2>1. ASSUME k \notin Unreliable, NEW c \in DBs, db[c] = k PROVE c = d
    <3>1. db[c] # Closed /\ k \notin LostKeys
      BY <2>1, <1>1, ClosedAssumption DEF Unreliable
    <3>2. PICK g \in Live : handle[g].key = k /\ handle[g].dbp = c
      BY <2>1, <3>1, <1>2 DEF IInv, OpenDBOwned, OwnerOf
    <3>3. QED
      BY <2>1, <3>2, <1>6
  <2>2. k \notin Unreliable => k \notin S /\ \A g \in Live \ {h} : handle[g].key # k
    BY <1>4, <1>6
  <2> HIDE DEF S
  <2>3. QED
    BY <2>1, <2>2, <1>2, <1>3, DoCloseImplements
<1>7. QED
  BY <1>5, <1>6

\* The last counted close of an entry is that of the last user of the key.
LEMMA CloseLastImplements ==
    ASSUME IInv, NEW h \in Live, CloseLast(h)
    PROVE  Sharing!Next
<1> DEFINE k == handle[h].key
           d == handle[h].dbp
           i == First(Matching(k))
           L == {pool[j].key : j \in 1 .. (i - 1)}
           S == L \cup (({db[d]} \ {k}) \ {Closed})
<1>1. h \in Handles /\ k \in Key /\ d \in DBs
  BY LiveHandle DEF IInv
<1>2. i \in DOMAIN pool /\ pool[i].key = k /\ pool \in Seq(Entry)
  <2> HIDE DEF k
  <2>1. Matching(k) # {}
    BY DEF CloseLast, k
  <2>2. QED
    BY <1>1, <2>1, FirstMatching DEF IInv, TypeOK
<1>3. /\ pool[i].ref = 1 /\ Shared(k) /\ DoClose(h)
      /\ lost' = lost \cup {pool[j] : j \in 1 .. (i - 1)}
  BY DEF CloseLast
<1> HIDE DEF i
<1>4. \A j \in 1 .. (i - 1) : j \in DOMAIN pool /\ j # i
  BY <1>2
<1>5. \A j \in 1 .. (i - 1) : pool[j].key \in Key /\ pool[j].key # k
  <2>1. \A j \in DOMAIN pool : pool[j] \in Entry
    BY <1>2
  <2>2. \A j \in DOMAIN pool : pool[j].key \in Key
    BY <2>1 DEF Entry
  <2>3. QED
    BY <2>2, <1>2, <1>4 DEF IInv, PoolConsistent
<1>6. S \in SUBSET Key /\ Unreliable' = Unreliable \cup S
  <2>1. LostKeys' = LostKeys \cup L
    BY <1>3 DEF LostKeys
  <2>2. misclosed' = misclosed \cup ({db[d]} \ {k})
    BY <1>3 DEF DoClose
  <2>3. L \in SUBSET Key /\ db[d] \in Key \cup {Closed}
    BY <1>1, <1>5 DEF IInv, TypeOK
  <2> HIDE DEF L
  <2>4. QED
    BY <2>1, <2>2, <2>3 DEF Unreliable
<1>7. ASSUME k \notin Unreliable
      PROVE  /\ k \notin S
             /\ \A g \in Live \ {h} : handle[g].key # k
             /\ \A c \in DBs : db[c] = k => c = d
  <2>0. k \notin LostKeys /\ k \notin S
    BY <1>5, <1>7 DEF Unreliable
  <2>1. Cardinality(Users(k)) = 1
    BY <2>0, <1>1, <1>2, <1>3 DEF IInv, RefCountExact, Matching
  <2>2. IsFiniteSet(Users(k)) /\ h \in Users(k)
    BY FS_Subset DEF IInv, Users
  <2>3. Users(k) = {h}
    BY <2>1, <2>2, FS_Singleton
  <2>4. \A g \in Live \ {h} : handle[g].key # k
    BY <2>3 DEF Users
  <2>5. PICK m \in DOMAIN pool : pool[m].key = k /\ pool[m].dbp = d
    BY <2>0, <1>3 DEF IInv, SharedLinked
  <2>6. ASSUME NEW c \in DBs, db[c] = k PROVE c = d
    <3>1. db[c] # Closed
      BY <2>6, <1>1, ClosedAssumption
    <3>2. PICK j \in DOMAIN pool : pool[j].key = k /\ pool[j].dbp = c
      BY <2>0, <2>6, <3>1, <1>3 DEF IInv, OpenDBOwned, OwnerOf
    <3>3. j = m
      BY <2>5, <2>6, <3>2 DEF IInv, PoolConsistent
    <3>4. QED
      BY <2>5, <3>2, <3>3
  <2>7. QED
    BY <2>0, <2>4, <2>6
<1> HIDE DEF S
<1>8. lost \subseteq lost'
  BY <1>3
<1>9. QED
  BY <1>3, <1>6, <1>7, <1>8, DoCloseImplements

\* A close that is not the last one leaves the DB as it is.
LEMMA CloseSharedImplements ==
    ASSUME IInv, NEW h \in Live, CloseNotLast(h) \/ CloseUnknown(h)
    PROVE  Sharing!Next \/ UNCHANGED Sharing!vars
<1> DEFINE k == handle[h].key
<1>1. k \in Key /\ Shared(k)
  BY LiveHandle DEF IInv, CloseNotLast, CloseUnknown
<1>2. Live' = Live \ {h} /\ \A g \in Live' : handle'[g] = handle[g]
  <2>1. Abandon(h)
    BY DEF CloseNotLast, CloseUnknown
  <2>2. QED
    BY <2>1, HandleRemoved DEF IInv
<1>3. Unreliable' = Unreliable /\ OpenKeys' = OpenKeys
  BY DEF CloseNotLast, CloseUnknown, LostKeys, OpenKeys, Unreliable
<1>4. ASSUME k \notin Unreliable PROVE \E g \in Live \ {h} : handle[g].key = k
  <2>0. k \notin LostKeys
    BY <1>4 DEF Unreliable
  <2>1. PICK i \in DOMAIN pool : pool[i].key = k
    BY <1>1, <2>0 DEF IInv, SharedLinked
  <2>2. Matching(k) # {}
    BY <2>1 DEF Matching
  <2> DEFINE f == First(Matching(k))
  <2>3. pool[f].ref # 1
    BY <2>2 DEF CloseNotLast, CloseUnknown
  <2>4. f \in DOMAIN pool /\ pool[f].key = k
    BY <1>1, <2>2, FirstMatching DEF IInv, TypeOK
  <2> HIDE DEF f
  <2>5. Cardinality(Users(k)) # 1
    BY <1>1, <2>0, <2>3, <2>4 DEF IInv, RefCountExact, Matching
  <2>6. h \in Users(k)
    BY DEF Users
  <2>7. Users(k) # {h}
    BY <2>5, FS_Singleton
  <2>8. PICK g \in Users(k) : g # h
    BY <2>6, <2>7
  <2>9. QED
    BY <2>8 DEF Users
<1>5. QED
  BY <1>2, <1>3, <1>4, AbandonImplements

-----------------------------------------------------------------------------
LEMMA StepImplements == IInv /\ [Next]_vars => [Sharing!Next]_(Sharing!vars)
<1> SUFFICES ASSUME IInv, [Next]_vars
             PROVE  Sharing!Next \/ UNCHANGED Sharing!vars
  OBVIOUS
<1>1. ASSUME NEW h \in Handles, NEW k \in Key, Open(h, k)
      PROVE  Sharing!Next \/ UNCHANGED Sharing!vars
  BY <1>1, OpenImplements
<1>2. ASSUME NEW h \in Handles, Close(h)
      PROVE  Sharing!Next \/ UNCHANGED Sharing!vars
  BY <1>2, ClosePrivateImplements, CloseSharedImplements, CloseLastImplements DEF Close
<1>3. CASE UNCHANGED vars
  BY <1>3 DEF vars, Sharing!vars, HeldKeys, OpenKeys, LostKeys, Unreliable, Live
<1>4. QED
  BY <1>1, <1>2, <1>3 DEF Next, OpenFails

\* Every open and close of the pool is an acquisition or a release of
\* DBSharing, or has no effect there: whoever uses the library may think of a
\* file that is open exactly as long as somebody holds it, but for the files
\* whose entries tabeTsiDBClose lost and those closed through their handles.
THEOREM PoolImplementsSharing == Spec => ImplementsSharing
<1>1. QED
  BY InitImplements, StepImplements, Invariance, PTL DEF Spec, ImplementsSharing, Sharing!Spec
=============================================================================
