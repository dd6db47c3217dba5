----------------------------- MODULE ClientTable -----------------------------
(***************************************************************************)
(* What bimsGetBC and bimsFreeBC promise the clients of the input method:  *)
(* every identifier has a context of its own from its first call on until  *)
(* it is freed, and a call made for one client leaves the others alone.    *)
(* BimsContexts implements this with two linked lists.                     *)
(***************************************************************************)
CONSTANTS
    Ids,        \* client identifiers
    Settings,   \* what a client may configure
    Values,     \* what a setting may be
    Texts,      \* what a client may have typed
    None        \* a client without a context

VARIABLE client

Client == [setting : [Settings -> Values], text : Texts]

TypeOK == client \in [Ids -> Client \cup {None}]

Init == client = [id \in Ids |-> None]

\* The first call made for a client.  The settings it starts with are not
\* promised.
Join(id) ==
    /\ client[id] = None
    /\ \E c \in Client : client' = [client EXCEPT ![id] = c]

Configure(id, s) ==
    /\ client[id] # None
    /\ \E v \in Values : client' = [client EXCEPT ![id].setting[s] = v]

Edit(id) ==
    /\ client[id] # None
    /\ \E x \in Texts : client' = [client EXCEPT ![id].text = x]

Leave(id) ==
    /\ client[id] # None
    /\ client' = [client EXCEPT ![id] = None]

Next ==
    \E id \in Ids :
        \/ Join(id)
        \/ \E s \in Settings : Configure(id, s)
        \/ Edit(id)
        \/ Leave(id)

Spec == Init /\ [][Next]_client
=============================================================================
