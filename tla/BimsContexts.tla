----------------------------- MODULE BimsContexts -----------------------------
(***************************************************************************)
(* The contexts of the bims clients: bimsGetBC and bimsFreeBC of           *)
(* src/supports/bims/bims.c with the two linked lists they keep, bucket    *)
(* (the contexts in use) and freebc (those to be used again), and the      *)
(* calls that configure a context.                                         *)
(*                                                                         *)
(* Every function of bims that takes a bcid begins with bimsGetBC, so the  *)
(* first call made for an identifier is what creates its context.  The     *)
(* content of the context is abstracted to whether anything was typed;     *)
(* BimsEditing models it.  updatedb is left out: bimsGetBC sets it at the  *)
(* start of every call, so no call finds it off.                           *)
(*                                                                         *)
(* bimsFreeBC walks the list in steps of its own, because whether the walk *)
(* ends is one of the questions; nothing else runs until it does.          *)
(***************************************************************************)
EXTENDS Naturals, FiniteSets

CONSTANTS
    Ids,        \* identifiers the clients use
    Zero,       \* the number 0, which may be one of them
    Contexts,   \* struct bimsContext objects
    Settings,   \* keymap, maxlen, no_smart_ed, tsiguess, or some of them
    Values,     \* the values of a setting
    Default,    \* the value of a setting in zeroed memory
    Null

ASSUME ContextsAssumption == IsFiniteSet(Contexts)
ASSUME DefaultAssumption == Default \in Values

VARIABLES
    bucket,     \* head of the list of contexts in use
    freebc,     \* head of the list of free contexts
    ctx,        \* the contexts, Null for one that was never allocated
    freeing     \* the walk of bimsFreeBC that is under way, or Null

vars == <<bucket, freebc, ctx, freeing>>

Pointer == Contexts \cup {Null}

\* text stands for the fields that bimsFreeBC clears: yin and yinlen, yinpos,
\* internal_text, pindown, tsiboundary, state, zc and zsel.
Context ==
    [bcid : Ids \cup {Zero}, next : Pointer,
     text : {"empty", "typed"},
     setting : [Settings -> Values],
     num_ysinfo : {0, 1},       \* no segments, or some
     ysinfo : BOOLEAN]          \* whether the array is there

Walk == [bcid : Ids, prev : Pointer, bc : Pointer]

\* What a client of Table, below, holds.
Holding == [setting : [Settings -> Values], text : {"empty", "typed"}]

ASSUME NullAssumption == Null \notin Contexts \cup Context \cup Walk \cup Holding

\* memset(bc, 0, sizeof(struct bimsContext))
Zeroed ==
    [bcid |-> Zero, next |-> Null, text |-> "empty",
     setting |-> [s \in Settings |-> Default],
     num_ysinfo |-> 0, ysinfo |-> FALSE]

Init ==
    /\ bucket = Null
    /\ freebc = Null
    /\ ctx = [c \in Contexts |-> Null]
    /\ freeing = Null

-----------------------------------------------------------------------------
(* bimsGetBC *)

\* The context n links down a list, or Null behind its end.
Nth(head) ==
    LET at[n \in 0 .. Cardinality(Contexts)] ==
            IF n = 0 THEN head
            ELSE LET c == at[n - 1] IN IF c = Null THEN Null ELSE ctx[c].next
    IN  at

Members(head) ==
    LET at == Nth(head)
    IN  {at[n] : n \in 0 .. Cardinality(Contexts)} \ {Null}

\* The contexts in the bucket that belong to the identifier.
Owned(id) == {c \in Members(bucket) : ctx[c].bcid = id}

\* The contexts bimsGetBC may return: the one in the bucket, else the first
\* free one, else a new one.
Obtainable(id) ==
    LET owned == Owned(id) IN
    IF owned # {} THEN owned
    ELSE IF freebc # Null THEN {freebc}
    ELSE {c \in Contexts : ctx[c] = Null}

\* What the caller finds in it.  A context taken from the free list is as
\* bimsFreeBC left it.
Obtained(id, c) ==
    [(IF ctx[c] = Null THEN Zeroed ELSE ctx[c]) EXCEPT
        !.bcid = id,
        !.next = IF Owned(id) # {} THEN @ ELSE bucket]

\* Wrong variants: a context taken from the free list takes the rest of the
\* list with it, or stays on the list.
GetBCDropsFree(id, c, r) ==
    /\ freeing = Null
    /\ ctx' = [ctx EXCEPT ![c] = r]
    /\ IF Owned(id) # {} THEN UNCHANGED <<bucket, freebc>>
                        ELSE bucket' = c /\ freebc' = Null
    /\ UNCHANGED freeing

GetBCKeepsFree(id, c, r) ==
    /\ freeing = Null
    /\ ctx' = [ctx EXCEPT ![c] = r]
    /\ bucket' = IF Owned(id) # {} THEN bucket ELSE c
    /\ UNCHANGED <<freebc, freeing>>

\* A call that obtains c, one of those Obtainable, and leaves r in it.
GetBC(id, c, r) ==
    /\ freeing = Null
    /\ ctx' = [ctx EXCEPT ![c] = r]
    /\ IF Owned(id) # {}
       THEN UNCHANGED <<bucket, freebc>>
       ELSE /\ bucket' = c
            /\ freebc' = IF freebc # Null THEN ctx[freebc].next ELSE Null
    /\ UNCHANGED freeing

-----------------------------------------------------------------------------
(* The calls *)

\* A query, bimsToggleUpdate or bimsToggleNoUpdate: only what bimsGetBC does.
Query(id) == \E c \in Obtainable(id) : GetBC(id, c, Obtained(id, c))

\* bimsFeedKey, a selection, a pin or bimsFetchText.  bimsContextSmartEdit
\* frees the old segments and makes the new ones, if it runs.
Edit(id) ==
    \E c \in Obtainable(id), x \in {"empty", "typed"} :
        LET r == [Obtained(id, c) EXCEPT !.text = x] IN
        \/ GetBC(id, c, r)
        \/ GetBC(id, c, [r EXCEPT !.num_ysinfo = 0, !.ysinfo = FALSE])
        \/ GetBC(id, c, [r EXCEPT !.num_ysinfo = 1, !.ysinfo = TRUE])

\* bimsSetKeyMap, bimsSetMaxLen, bimsToggleSmartEditing,
\* bimsToggleNoSmartEditing, bimsToggleTsiGuess, bimsToggleNoTsiGuess
Configure(id, s, v) ==
    \E c \in Obtainable(id) :
        GetBC(id, c, [Obtained(id, c) EXCEPT !.setting[s] = v])

-----------------------------------------------------------------------------
(* bimsFreeBC *)

FreeBC(id) ==
    /\ freeing = Null
    /\ freeing' = [bcid |-> id, prev |-> Null, bc |-> bucket]
    /\ UNCHANGED <<bucket, freebc, ctx>>

\* Wrong variant: the identifier stays.
ClearedKeepsId(r) == [r EXCEPT !.text = "empty", !.ysinfo = FALSE]

\* The fields bimsFreeBC resets.  It keeps the settings and num_ysinfo.
Cleared(r) == [r EXCEPT !.bcid = Zero, !.text = "empty", !.ysinfo = FALSE]

\* The context is unlinked and heads the free list.  The walk goes on from
\* its new successor, that is through the free list.
FreeMatch ==
    /\ freeing # Null
    /\ freeing.bc # Null
    /\ ctx[freeing.bc].bcid = freeing.bcid
    /\ LET fbc  == freeing.bc
           prev == freeing.prev
           unlinked == IF prev = Null THEN ctx
                       ELSE [ctx EXCEPT ![prev].next = ctx[fbc].next]
       IN  /\ bucket' = IF prev = Null THEN ctx[fbc].next ELSE bucket
           /\ ctx' = [unlinked EXCEPT
                         ![fbc] = [Cleared(unlinked[fbc]) EXCEPT !.next = freebc]]
           /\ freebc' = fbc
           /\ freeing' = [freeing EXCEPT !.prev = fbc, !.bc = freebc]

FreeSkip ==
    /\ freeing # Null
    /\ freeing.bc # Null
    /\ ctx[freeing.bc].bcid # freeing.bcid
    /\ freeing' = [freeing EXCEPT !.prev = freeing.bc, !.bc = ctx[freeing.bc].next]
    /\ UNCHANGED <<bucket, freebc, ctx>>

FreeEnd ==
    /\ freeing # Null
    /\ freeing.bc = Null
    /\ freeing' = Null
    /\ UNCHANGED <<bucket, freebc, ctx>>

FreeStep == FreeMatch \/ FreeSkip \/ FreeEnd

-----------------------------------------------------------------------------

Next ==
    \/ \E id \in Ids :
          \/ Query(id)
          \/ Edit(id)
          \/ \E s \in Settings, v \in Values : Configure(id, s, v)
          \/ FreeBC(id)
    \/ FreeStep

\* bimsFreeBC runs on to its end; nothing obliges a client to call.
Fairness == WF_vars(FreeStep)

Spec == Init /\ [][Next]_vars /\ Fairness

-----------------------------------------------------------------------------
(* Properties *)

\* Every variable has its type.
TypeOK ==
    /\ bucket \in Pointer
    /\ freebc \in Pointer
    /\ ctx \in [Contexts -> Context \cup {Null}]
    /\ freeing \in Walk \cup {Null}

Allocated == {c \in Contexts : ctx[c] # Null}

\* No context is lost, none is on both lists, and neither list runs into a
\* circle, at every step of the surgery bimsFreeBC does on them while it
\* goes on walking over what it moves.
ListsPartitionContexts ==
    /\ TypeOK
    /\ Members(bucket) \cup Members(freebc) = Allocated
    /\ Members(bucket) \cap Members(freebc) = {}
    /\ Nth(bucket)[Cardinality(Contexts)] = Null
    /\ Nth(freebc)[Cardinality(Contexts)] = Null

\* An identifier has one context at most, and a free context belongs to
\* nobody: bimsGetBC never hands the text of one client to another.
OneContextPerClient ==
    /\ \A id \in Ids : \A c, d \in Owned(id) : c = d
    /\ \A c \in Members(freebc) : ctx[c].bcid = Zero /\ ctx[c].text = "empty"

\* bimsFreeBC returns.
FreeReturns == freeing # Null ~> freeing = Null

\* What a client has: the context bimsGetBC would find for it.
Shown ==
    [id \in Ids |->
        LET owned == Owned(id) IN
        IF owned = {} THEN Null
        ELSE LET c == CHOOSE d \in owned : TRUE
             IN  [setting |-> ctx[c].setting, text |-> ctx[c].text]]

\* The lists implement the table of clients: a call made for one client, or
\* the end of one, leaves the context of every other client as it was.
Table ==
    INSTANCE ClientTable WITH
        Texts <- {"empty", "typed"}, None <- Null, client <- Shown

ImplementsClientTable == Table!Spec

=============================================================================
