----------------------------- MODULE MCSmartEdit -----------------------------
(***************************************************************************)
(* An instance of SmartEdit for TLC: a dictionary of two syllables, ba and *)
(* la, small enough that every buffer of up to MaxLen syllables with every *)
(* choice of pins and boundaries can be tried.  Its words overlap, so that *)
(* all four rules are needed and some buffers stay ambiguous.              *)
(***************************************************************************)
EXTENDS SmartEdit, FiniteSets, TLC

Syllables == {"ba", "la"}
Characters == {"b1", "b2", "l1", "l2"}
AnyPin == ("ba" :> {"b1", "b2"}) @@ ("la" :> {"l1", "l2"})

Dictionary ==
    (<<"ba">> :> << <<"b1">>, <<"b2">> >>) @@
    (<<"ba", "ba">> :> << <<"b1", "b2">>, <<"b2", "b2">> >>) @@
    (<<"ba", "la">> :> << <<"b1", "l1">>, <<"b2", "l2">> >>) @@
    (<<"la", "ba">> :> << <<"l1", "b1">> >>) @@
    (<<"la", "la", "ba">> :> << <<"l2", "l1", "b2">> >>)

Uses ==
    (<<"b1">> :> 3) @@ (<<"b2">> :> 1) @@
    (<<"b1", "b2">> :> 5) @@ (<<"b2", "b2">> :> 2) @@
    (<<"b1", "l1">> :> 2) @@ (<<"b2", "l2">> :> 2) @@
    (<<"l1", "b1">> :> 2) @@
    (<<"l2", "l1", "b2">> :> 1)

Alone == ("ba" :> "b1") @@ ("la" :> "l2")

Unpinned == "none"
=============================================================================
