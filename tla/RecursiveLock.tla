---------------------------- MODULE RecursiveLock ----------------------------
(***************************************************************************)
(* What a critical section promises its callers (the RETURNS sections of   *)
(* RtlEnterCriticalSection, RtlTryEnterCriticalSection and                 *)
(* RtlLeaveCriticalSection): a lock that the thread inside may enter again *)
(* and must leave as often.                                                *)
(***************************************************************************)
EXTENDS Naturals

CONSTANT Threads

VARIABLE inside    \* how many times each thread is inside

Init == inside = [t \in Threads |-> 0]

Enter(t) ==
  /\ \A u \in Threads \ {t} : inside[u] = 0
  /\ inside' = [inside EXCEPT ![t] = @ + 1]

Leave(t) ==
  /\ inside[t] > 0
  /\ inside' = [inside EXCEPT ![t] = @ - 1]

Next == \E t \in Threads : Enter(t) \/ Leave(t)

Spec == Init /\ [][Next]_inside
=============================================================================
