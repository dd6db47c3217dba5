----------------------------- MODULE MCBimsDBPool -----------------------------
(***************************************************************************)
(* Instances of BimsDBPool for TLC.                                        *)
(***************************************************************************)
EXTENDS BimsDBPool, TLC

\* Both files of a dictionary are deleted together.
PairedDeletes == {<<n, n>> : n \in Names}

\* The files of different dictionaries may be deleted in one call.
AnyDeletes == Names \X Names

Symmetric == Permutations(Names) \cup Permutations(Apps)
                \cup Permutations(Handles) \cup Permutations(DBs)
=============================================================================
