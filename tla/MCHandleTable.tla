---------------------------- MODULE MCHandleTable ----------------------------
(***************************************************************************)
(* HandleTable for TLC.                                                    *)
(***************************************************************************)
EXTENDS HandleTable, TLC

Symmetric == Permutations(Processes)
=============================================================================
