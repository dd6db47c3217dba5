---------------------------- MODULE MCBimsEditing ----------------------------
(***************************************************************************)
(* Instances of BimsEditing for TLC.                                       *)
(***************************************************************************)
EXTENDS BimsEditing, TLC

Syllables == {"ba", "la"}
Characters == {"b1", "b2", "l1"}
Zhis == ("ba" :> {"b1", "b2"}) @@ ("la" :> {"l1"})

Dictionary ==
    (<<"ba", "la">> :> {<<"b1", "l1">>, <<"b2", "l1">>}) @@
    (<<"la", "la">> :> {<<"l1", "l1">>}) @@
    (<<"la", "ba", "ba">> :> {<<"l1", "b2", "b1">>})

\* One that keeps to a limit and leaves smart editing on, and one that sets no
\* limit and turns smart editing on and off.
AnyClient ==
    {[limits |-> {1}, modes |-> {FALSE}], [limits |-> {0}, modes |-> BOOLEAN]}
=============================================================================
