-------------------------------- MODULE Lists --------------------------------
(***************************************************************************)
(* struct list (include/wine/list.h) as a sequence: removing several       *)
(* entries at once, the others stay in their order.  SelectSeq takes an    *)
(* operator as a parameter, of which nothing can be proved; here the       *)
(* positions that stay are a set.                                          *)
(***************************************************************************)
EXTENDS Naturals, Sequences, FiniteSets

\* The place of position i among the positions of P.
Rank(P, i) == Cardinality({j \in P : j <= i})

\* The list of the entries of q at the positions of P.
Kept(q, P) == [n \in 1..Cardinality(P) |-> q[CHOOSE i \in P : Rank(P, i) = n]]
=============================================================================
