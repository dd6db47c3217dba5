------------------------------ MODULE DBSharing ------------------------------
(***************************************************************************)
(* What a client of tabeTsiDBOpen may rely on: any number of handles may   *)
(* be held on one file, and the file stays open exactly as long as         *)
(* somebody holds a handle on it.  There is no list and no count here;     *)
(* TsiDBPool implements this with both.                                    *)
(*                                                                         *)
(* When the last handle on a file is released, tabeTsiDBClose may forget   *)
(* other files, and once one was forgotten, closing a handle on it may     *)
(* close more.  Nothing is promised of a forgotten file; it plays no part  *)
(* in this specification any more.                                         *)
(***************************************************************************)
CONSTANTS
    Keys,       \* files
    Handles,    \* handles of the clients
    None        \* no file

VARIABLES
    held,       \* the key each client handle is on, or None
    open,       \* the keys some DB is open on
    forgotten   \* the keys nothing is promised of

vars == <<held, open, forgotten>>

TypeOK ==
    /\ forgotten \subseteq Keys
    /\ held \in [Handles -> (Keys \ forgotten) \cup {None}]
    /\ open \subseteq Keys \ forgotten

Init ==
    /\ held = [h \in Handles |-> None]
    /\ open = {}
    /\ forgotten = {}

Acquire(h, k) ==
    /\ held[h] = None
    /\ k \notin forgotten
    /\ held' = [held EXCEPT ![h] = k]
    /\ open' = open \cup {k}
    /\ UNCHANGED forgotten

\* Others still hold the file.
Release(h) ==
    /\ held[h] # None
    /\ \E g \in Handles \ {h} : held[g] = held[h]
    /\ held' = [held EXCEPT ![h] = None]
    /\ UNCHANGED <<open, forgotten>>

\* S is forgotten and the file k is closed.
Drop(k, S) ==
    /\ held' = [h \in Handles |-> IF held[h] \in S \cup {k} THEN None ELSE held[h]]
    /\ open' = open \ (S \cup {k})
    /\ forgotten' = forgotten \cup S

\* The last handle on a file.
ReleaseLast(h) ==
    /\ held[h] # None
    /\ \A g \in Handles \ {h} : held[g] # held[h]
    /\ \E S \in SUBSET (Keys \ {held[h]}) : Drop(held[h], S)

\* A handle on a file that was forgotten before.
ReleaseForgotten == forgotten # {} /\ \E S \in SUBSET Keys : Drop(None, S)

Next ==
    \/ \E h \in Handles : Release(h) \/ ReleaseLast(h) \/ \E k \in Keys : Acquire(h, k)
    \/ ReleaseForgotten

Spec == Init /\ [][Next]_vars
=============================================================================
