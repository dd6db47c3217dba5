----------------------------- MODULE MCTsiDBPool -----------------------------
(***************************************************************************)
(* Instances of TsiDBPool for TLC.  The flag combinations are those bims   *)
(* passes (shared read-only for the dictionaries that come with the        *)
(* library, shared, overwritable and created for the user's) and one of    *)
(* the utilities (private).                                                *)
(***************************************************************************)
EXTENDS TsiDBPool, TLC

SystemFlags == {"READONLY", "SHARED"}
UserFlags == {"OVERWRITE", "CREATEDB", "SHARED"}
UtilityFlags == {"OVERWRITE"}

AllKinds == {SystemFlags, UserFlags, UtilityFlags}
OneSharedKind == {SystemFlags}

\* Handles, DB objects and file names are interchangeable.
Symmetric ==
    Permutations(Handles) \cup Permutations(DBs) \cup Permutations(DBNames)
=============================================================================
