---------------------------- MODULE MCCritSection ----------------------------
(***************************************************************************)
(* CritSection for TLC: how deep each thread enters the section.           *)
(***************************************************************************)
EXTENDS CritSection

CONSTANT t1
\* One thread recurses.
OneRecursive == [t \in Threads |-> IF t = t1 THEN 2 ELSE 1]
=============================================================================
