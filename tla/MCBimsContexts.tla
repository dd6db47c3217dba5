---------------------------- MODULE MCBimsContexts ----------------------------
(***************************************************************************)
(* Instances of BimsContexts for TLC.                                      *)
(***************************************************************************)
EXTENDS BimsContexts

\* One setting stands for all: none of them is treated differently.
OneSetting == {"keymap"}
=============================================================================
