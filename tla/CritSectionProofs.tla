-------------------------- MODULE CritSectionProofs --------------------------
(***************************************************************************)
(* Proofs about CritSection for any set of threads, either build and any   *)
(* bounds.                                                                 *)
(***************************************************************************)
EXTENDS CritSection, FiniteSetTheorems, TLAPS

\* Why no wake-up is lost: a futex word that is set over sleepers has a wake-up call to
\* come or a waiter that will look at it; a semaphore that has a count has no sleepers.
SleepInv ==
  (\E t \in Threads : At(t, "asleep")) =>
    /\ supported /\ futex = 1 => \E t \in Threads : pc[t] \in {"futex_wake", "wait", "block"}
    /\ ~supported => \A s \in Threads : s = LockSemaphore => semCount[s] = 0

\* A new section satisfies the inductive invariant.
LEMMA InitIInv == Init => IInv
BY NoThreadAssumption
   DEF Init, IInv, TypeOK, MutualExclusion, OneBaton, PointInv, CountInv, OwnerInv, SemInv,
       Holds, Offered, Points, GetPoints, WaitPoints, WakePoints

\* Every step of every thread keeps the inductive invariant.
LEMMA StepIInv == ASSUME IInv, NEW t \in Threads, Step(t) \/ Caller(t), UNCHANGED supported PROVE IInv'
<1> USE NoThreadAssumption, BuildAssumption, BoundAssumption
    DEF IInv, TypeOK, MutualExclusion, OneBaton, PointInv, CountInv, OwnerInv, SemInv,
        Holds, Offered, Points, GetPoints, WaitPoints, WakePoints, At, Goto,
        semVars, ownVars, ghostVars
<1>1. CASE TryFree(t)
  BY <1>1 DEF TryFree
<1>2. CASE TryOwner(t)
  BY <1>2 DEF TryOwner
<1>3. CASE TryInc(t)
  BY <1>3 DEF TryInc
<1>4. CASE SpinTake(t)
  BY <1>4 DEF SpinTake
<1>5. CASE SpinEnd(t)
  BY <1>5 DEF SpinEnd
<1>6. CASE Enter(t)
  BY <1>6 DEF Enter
<1>7. CASE EnterOwner(t)
  BY <1>7 DEF EnterOwner
<1>8. CASE EnterAgain(t)
  BY <1>8 DEF EnterAgain
<1>9. CASE Own(t)
  BY <1>9 DEF Own
<1>10. CASE OwnRecursion(t)
  BY <1>10 DEF OwnRecursion
<1>11. CASE GetSemaphore(t)
  BY <1>11 DEF GetSemaphore
<1>12. CASE InstallSemaphore(t)
  BY <1>12 DEF InstallSemaphore
<1>13. CASE Wait(t)
  <2>1. TypeOK'
    BY <1>13 DEF Wait
  <2>2. MutualExclusion'
    BY <1>13 DEF Wait
  <2>3. OneBaton'
    BY <1>13 DEF Wait
  <2>4. PointInv'
    BY <1>13 DEF Wait
  <2>5. CountInv'
    BY <1>13 DEF Wait
  <2>6. OwnerInv'
    BY <1>13 DEF Wait
  <2>7. SemInv'
    BY <1>13 DEF Wait
  <2> QED
    BY <2>1, <2>2, <2>3, <2>4, <2>5, <2>6, <2>7
<1>14. CASE FutexWait(t)
  BY <1>14 DEF FutexWait
<1>15. CASE SemaphoreWait(t)
  <2>0. ~supported /\ sem[t] = LockSemaphore /\ LockSemaphore \in Threads
    BY <1>15 DEF SemaphoreWait
  <2>1. TypeOK'
    BY <1>15, <2>0 DEF SemaphoreWait
  <2>2. MutualExclusion'
    BY <1>15, <2>0 DEF SemaphoreWait
  <2>3. OneBaton'
    BY <1>15, <2>0 DEF SemaphoreWait
  <2>4. PointInv'
    BY <1>15, <2>0 DEF SemaphoreWait
  <2>5. CountInv'
    BY <1>15, <2>0 DEF SemaphoreWait
  <2>6. OwnerInv'
    BY <1>15, <2>0 DEF SemaphoreWait
  <2>7. SemInv'
    BY <1>15, <2>0 DEF SemaphoreWait
  <2> QED
    BY <2>1, <2>2, <2>3, <2>4, <2>5, <2>6, <2>7
<1>16. CASE LeaveDec(t)
  BY <1>16 DEF LeaveDec
<1>17. CASE LeaveClear(t)
  BY <1>17 DEF LeaveClear
<1>18. CASE LeaveLast(t)
  BY <1>18 DEF LeaveLast
<1>19. CASE Wake(t)
  BY <1>19 DEF Wake
<1>20. CASE FutexWake(t)
  BY <1>20 DEF FutexWake
<1>21. CASE SemaphoreRelease(t)
  <2>0. ~supported /\ sem[t] = LockSemaphore /\ LockSemaphore \in Threads
    BY <1>21 DEF SemaphoreRelease
  <2>1. TypeOK'
    BY <1>21, <2>0 DEF SemaphoreRelease
  <2>2. MutualExclusion'
    BY <1>21, <2>0 DEF SemaphoreRelease
  <2>3. OneBaton'
    BY <1>21, <2>0 DEF SemaphoreRelease
  <2>4. PointInv'
    BY <1>21, <2>0 DEF SemaphoreRelease
  <2>5. CountInv'
    BY <1>21, <2>0 DEF SemaphoreRelease
  <2>6. OwnerInv'
    BY <1>21, <2>0 DEF SemaphoreRelease
  <2>7. SemInv'
    BY <1>21, <2>0 DEF SemaphoreRelease
  <2> QED
    BY <2>1, <2>2, <2>3, <2>4, <2>5, <2>6, <2>7
<1>22. CASE CallTryEnter(t)
  BY <1>22 DEF CallTryEnter
<1>23. CASE CallEnter(t)
  BY <1>23 DEF CallEnter
<1>24. CASE Leave(t)
  BY <1>24 DEF Leave
<1>25. CASE Interrupted(t)
  BY <1>25 DEF Interrupted
<1>26. CASE TimedOut(t)
  BY <1>26 DEF TimedOut
<1>27. CASE Raise(t)
  BY <1>27 DEF Raise
<1> QED
  BY <1>1, <1>2, <1>3, <1>4, <1>5, <1>6, <1>7, <1>8, <1>9, <1>10, <1>11, <1>12, <1>13, <1>14, <1>15, <1>16, <1>17, <1>18, <1>19, <1>20, <1>21, <1>22, <1>23, <1>24, <1>25, <1>26, <1>27 DEF Step, Caller

\* Deleting an unused section and initialising it again keeps the inductive invariant.
LEMMA DeleteIInv == ASSUME IInv, Delete, UNCHANGED supported PROVE IInv'
BY NoThreadAssumption
   DEF IInv, TypeOK, MutualExclusion, OneBaton, PointInv, CountInv, OwnerInv, SemInv, Delete,
       Holds, Offered, At, Points, GetPoints, WaitPoints, WakePoints

\* The inductive invariant holds in every reachable state.
THEOREM InductiveInvariant == Spec => []IInv
<1>1. Init => IInv
  BY InitIInv
<1>2. IInv /\ [Next]_vars => IInv'
  <2> SUFFICES ASSUME IInv, [Next]_vars PROVE IInv'
    OBVIOUS
  <2>1. CASE UNCHANGED supported /\ \E t \in Threads : Step(t) \/ Caller(t)
    BY <2>1, StepIInv
  <2>2. CASE UNCHANGED supported /\ Delete
    BY <2>2, DeleteIInv
  <2>3. CASE UNCHANGED vars
    BY <2>3 DEF vars, runVars, IInv, TypeOK, MutualExclusion, OneBaton, PointInv, CountInv, OwnerInv,
                SemInv, Holds, Offered
  <2> QED
    BY <2>1, <2>2, <2>3 DEF Next
<1> QED
  BY <1>1, <1>2, PTL DEF Spec

\* The fields of the section stay in range: in particular the two counters, which the
\* code decrements without a test, never go below -1 and 0.
THEOREM TypeCorrect == Spec => []TypeOK
BY InductiveInvariant, PTL DEF IInv

\* RtlEnterCriticalSection and RtlTryEnterCriticalSection never let two threads in.
THEOREM MutualExclusionHolds == Spec => []MutualExclusion
BY InductiveInvariant, PTL DEF IInv

\* The section is always exactly one of free, offered to its waiters or held: no
\* leave loses it and no wake-up duplicates it.
THEOREM OneBatonHolds == Spec => []OneBaton
BY InductiveInvariant, PTL DEF IInv

\* OwningThread and RecursionCount describe the thread inside.
THEOREM OwnerExactHolds == Spec => []OwnerExact
<1>1. IInv => OwnerExact
  BY DEF IInv, OwnerInv, OwnerExact, Holds
<1> QED
  BY InductiveInvariant, <1>1, PTL

\* A new section has no sleepers.
LEMMA InitSleepInv == Init => SleepInv
BY DEF Init, SleepInv, At

\* Every step of every thread keeps the reason why no wake-up is lost.
LEMMA StepSleepInv ==
  ASSUME IInv, SleepInv, NEW t \in Threads, Step(t) \/ Caller(t), UNCHANGED supported PROVE SleepInv'
<1> USE NoThreadAssumption
    DEF IInv, TypeOK, PointInv, SemInv, SleepInv, Points, GetPoints, WaitPoints, WakePoints, At, Goto,
        semVars, ownVars, ghostVars
<1>1. CASE GetSemaphore(t)
  BY <1>1 DEF GetSemaphore
<1>2. CASE InstallSemaphore(t)
  BY <1>2 DEF InstallSemaphore
<1>3. CASE Wait(t)
  BY <1>3 DEF Wait
<1>4. CASE FutexWait(t)
  BY <1>4 DEF FutexWait
<1>5. CASE SemaphoreWait(t)
  BY <1>5 DEF SemaphoreWait
<1>6. CASE Wake(t)
  BY <1>6 DEF Wake
<1>7. CASE FutexWake(t)
  BY <1>7 DEF FutexWake
<1>8. CASE SemaphoreRelease(t)
  BY <1>8 DEF SemaphoreRelease
<1>9. CASE Interrupted(t) \/ TimedOut(t) \/ Raise(t)
  BY <1>9 DEF Interrupted, TimedOut, Raise
<1>10. CASE TryFree(t) \/ TryOwner(t) \/ TryInc(t) \/ SpinTake(t) \/ SpinEnd(t)
  BY <1>10 DEF TryFree, TryOwner, TryInc, SpinTake, SpinEnd
<1>11. CASE Enter(t) \/ EnterOwner(t) \/ EnterAgain(t) \/ Own(t) \/ OwnRecursion(t)
  BY <1>11 DEF Enter, EnterOwner, EnterAgain, Own, OwnRecursion
<1>12. CASE LeaveDec(t) \/ LeaveClear(t) \/ LeaveLast(t)
  BY <1>12 DEF LeaveDec, LeaveClear, LeaveLast
<1>13. CASE CallTryEnter(t) \/ CallEnter(t) \/ Leave(t)
  BY <1>13 DEF CallTryEnter, CallEnter, Leave
<1> QED
  BY <1>1, <1>2, <1>3, <1>4, <1>5, <1>6, <1>7, <1>8, <1>9, <1>10, <1>11, <1>12, <1>13 DEF Step, Caller

\* A wake-up is never lost: when the section is offered and a thread sleeps, a wake-up
\* call is still to come or a waiter is awake to take the offer.
THEOREM NoLostWakeupHolds == Spec => []NoLostWakeup
<1>1. IInv /\ SleepInv /\ [Next]_vars => SleepInv'
  <2> SUFFICES ASSUME IInv, SleepInv, [Next]_vars PROVE SleepInv'
    OBVIOUS
  <2>1. CASE UNCHANGED supported /\ \E t \in Threads : Step(t) \/ Caller(t)
    BY <2>1, StepSleepInv
  <2>2. CASE UNCHANGED supported /\ Delete
    BY <2>2 DEF Delete, SleepInv, At
  <2>3. CASE UNCHANGED vars
    BY <2>3 DEF vars, runVars, SleepInv, At
  <2> QED
    BY <2>1, <2>2, <2>3 DEF Next
<1>2. IInv /\ SleepInv => NoLostWakeup
  BY DEF IInv, TypeOK, SleepInv, NoLostWakeup, Offered
<1> QED
  BY InitSleepInv, InductiveInvariant, <1>1, <1>2, PTL DEF Spec

-----------------------------------------------------------------------------
(***************************************************************************)
(* The value of LockCount.                                                 *)
(***************************************************************************)
CountedPoints == {"owner", "again", "own", "own2", "leave_dec", "clear", "last_dec"} \cup WaitPoints

\* The number of counted threads is a natural number.
LEMMA CountedType == Cardinality(Counted) \in Nat /\ IsFiniteSet(Counted)
<1>1. Counted \in SUBSET Threads
  BY DEF Counted
<1> QED
  BY <1>1, ThreadsAssumption, FS_Subset, FS_CardinalityType

\* A step of one thread changes the number of counted threads by that thread alone.
LEMMA CountedStep ==
  ASSUME NEW t \in Threads,
         \A u \in Threads \ {t} : pc'[u] \in CountedPoints <=> pc[u] \in CountedPoints
  PROVE  Cardinality(Counted') = CASE pc[t] \in CountedPoints /\ pc'[t] \notin CountedPoints
                                        -> Cardinality(Counted) - 1
                                   [] pc[t] \notin CountedPoints /\ pc'[t] \in CountedPoints
                                        -> Cardinality(Counted) + 1
                                   [] OTHER -> Cardinality(Counted)
<1>1. CASE pc[t] \in CountedPoints /\ pc'[t] \notin CountedPoints
  <2>1. Counted' = Counted \ {t} /\ t \in Counted
    BY <1>1 DEF Counted, CountedPoints
  <2> QED
    BY <1>1, <2>1, CountedType, FS_RemoveElement
<1>2. CASE pc[t] \notin CountedPoints /\ pc'[t] \in CountedPoints
  <2>1. Counted' = Counted \cup {t} /\ t \notin Counted
    BY <1>2 DEF Counted, CountedPoints
  <2> QED
    BY <1>2, <2>1, CountedType, FS_AddElement
<1>3. CASE pc[t] \in CountedPoints <=> pc'[t] \in CountedPoints
  <2>1. Counted' = Counted
    BY <1>3 DEF Counted, CountedPoints
  <2> QED
    BY <1>3, <2>1
<1> QED
  BY <1>1, <1>2, <1>3

\* Every step of every thread keeps LockCount exact.
LEMMA StepLockCount ==
  ASSUME IInv, LockCountExact, NEW t \in Threads, Step(t) \/ Caller(t), UNCHANGED supported
  PROVE  LockCountExact'
<1> DEFINE N == Cardinality(Counted)
           Others == \A u \in Threads \ {t} : pc'[u] \in CountedPoints <=> pc[u] \in CountedPoints
           Change == IF pc[t] \in CountedPoints /\ pc'[t] \notin CountedPoints THEN N' = N - 1
                     ELSE IF pc[t] \notin CountedPoints /\ pc'[t] \in CountedPoints THEN N' = N + 1
                     ELSE N' = N
<1>1. Others
  <2> USE DEF IInv, TypeOK, At, Goto, CountedPoints, WaitPoints
  <2>1. CASE GetSemaphore(t) \/ InstallSemaphore(t) \/ Wait(t) \/ FutexWait(t) \/ SemaphoreWait(t) \/ Wake(t)
    BY <2>1 DEF GetSemaphore, InstallSemaphore, Wait, FutexWait, SemaphoreWait, Wake
  <2>2. CASE FutexWake(t)
    BY <2>2 DEF FutexWake
  <2>3. CASE SemaphoreRelease(t)
    BY <2>3 DEF SemaphoreRelease
  <2>4. CASE Interrupted(t) \/ TimedOut(t) \/ Raise(t)
    BY <2>4 DEF Interrupted, TimedOut, Raise
  <2>5. CASE TryFree(t) \/ TryOwner(t) \/ TryInc(t) \/ SpinTake(t) \/ SpinEnd(t)
    BY <2>5 DEF TryFree, TryOwner, TryInc, SpinTake, SpinEnd
  <2>6. CASE Enter(t) \/ EnterOwner(t) \/ EnterAgain(t) \/ Own(t) \/ OwnRecursion(t)
    BY <2>6 DEF Enter, EnterOwner, EnterAgain, Own, OwnRecursion
  <2>7. CASE LeaveDec(t) \/ LeaveClear(t) \/ LeaveLast(t)
    BY <2>7 DEF LeaveDec, LeaveClear, LeaveLast
  <2>8. CASE CallTryEnter(t) \/ CallEnter(t) \/ Leave(t)
    BY <2>8 DEF CallTryEnter, CallEnter, Leave
  <2> QED
    BY <2>1, <2>2, <2>3, <2>4, <2>5, <2>6, <2>7, <2>8 DEF Step, Caller
<1>2. Change
  BY <1>1, CountedStep
<1>3. N \in Nat
  BY CountedType
<1> HIDE DEF N
<1>4. /\ (\A u \in Threads : depth[u] = 0) => LockCount + 1 = abandoned + N
      /\ \A u \in Threads : depth[u] > 0 => LockCount + 1 = abandoned + N + depth[u]
  BY DEF LockCountExact, N
<1>5. /\ (\A u \in Threads : depth'[u] = 0) => LockCount' + 1 = abandoned' + N'
      /\ \A u \in Threads : depth'[u] > 0 => LockCount' + 1 = abandoned' + N' + depth'[u]
  <2> USE <1>2, <1>3, <1>4 DEF IInv, TypeOK, At, Goto, CountedPoints, WaitPoints, WakePoints, semVars, ownVars, ghostVars
  <2>1. CASE GetSemaphore(t) \/ InstallSemaphore(t) \/ Wait(t) \/ FutexWait(t) \/ SemaphoreWait(t) \/ Wake(t)
    BY <2>1 DEF GetSemaphore, InstallSemaphore, Wait, FutexWait, SemaphoreWait, Wake
  <2>2. CASE FutexWake(t)
    BY <2>2 DEF FutexWake
  <2>3. CASE SemaphoreRelease(t)
    BY <2>3 DEF SemaphoreRelease
  <2>4. CASE Interrupted(t) \/ TimedOut(t) \/ Raise(t)
    BY <2>4 DEF Interrupted, TimedOut, Raise
  <2>5. CASE TryFree(t) \/ TryOwner(t) \/ TryInc(t) \/ SpinTake(t) \/ SpinEnd(t)
    BY <2>5 DEF TryFree, TryOwner, TryInc, SpinTake, SpinEnd
  <2>6. CASE Enter(t) \/ EnterOwner(t) \/ Own(t)
    BY <2>6 DEF Enter, EnterOwner, Own
  <2>7. CASE EnterAgain(t)
    BY <2>7 DEF EnterAgain, PointInv, MutualExclusion, Holds
  <2>8. CASE OwnRecursion(t)
    BY <2>8 DEF OwnRecursion, PointInv, MutualExclusion, Holds
  <2>9. CASE LeaveDec(t) \/ LeaveClear(t) \/ LeaveLast(t)
    <3>1. CASE LeaveDec(t) \/ LeaveClear(t)
      BY <3>1 DEF LeaveDec, LeaveClear
    <3>2. CASE LeaveLast(t)
      <4>1. pc[t] \in CountedPoints /\ pc'[t] \notin CountedPoints
        BY <3>2 DEF LeaveLast
      <4> QED
        BY <3>2, <4>1 DEF LeaveLast
    <3> QED
      BY <2>9, <3>1, <3>2
  <2>10. CASE CallTryEnter(t) \/ CallEnter(t)
    BY <2>10 DEF CallTryEnter, CallEnter
  <2>11. CASE Leave(t)
    BY <2>11 DEF Leave, PointInv, MutualExclusion, Holds, OwnerInv
  <2> QED
    BY <2>1, <2>2, <2>3, <2>4, <2>5, <2>6, <2>7, <2>8, <2>9, <2>10, <2>11 DEF Step, Caller
<1> QED
  BY <1>5 DEF LockCountExact, N

\* LockCount counts every entry and every waiter and nothing else, except the waits that
\* an exception ended.
THEOREM LockCountExactHolds == Spec => []LockCountExact
<1>1. Init => LockCountExact
  <2>1. Init => Counted = {}
    BY DEF Init, Counted, WaitPoints
  <2> QED
    BY <2>1, FS_EmptySet DEF Init, LockCountExact
<1>2. IInv /\ LockCountExact /\ [Next]_vars => LockCountExact'
  <2> SUFFICES ASSUME IInv, LockCountExact, [Next]_vars PROVE LockCountExact'
    OBVIOUS
  <2>1. CASE UNCHANGED supported /\ \E t \in Threads : Step(t) \/ Caller(t)
    BY <2>1, StepLockCount
  <2>2. CASE UNCHANGED supported /\ Delete
    <3>1. Counted' = {}
      BY <2>2 DEF Delete, Counted, At, WaitPoints
    <3> QED
      BY <2>2, <3>1, FS_EmptySet DEF Delete, LockCountExact, At
  <2>3. CASE UNCHANGED vars
    <3>1. Counted' = Counted
      BY <2>3 DEF vars, runVars, Counted
    <3> QED
      BY <2>3, <3>1 DEF vars, runVars, LockCountExact
  <2> QED
    BY <2>1, <2>2, <2>3 DEF Next
<1> QED
  BY InductiveInvariant, <1>1, <1>2, PTL DEF Spec

-----------------------------------------------------------------------------
\* A critical section implements the recursive lock its callers are promised.
THEOREM ImplementsLock == Spec => LockSpec
<1>1. Init => Lock!Init
  BY DEF Init, Lock!Init
<1>2. IInv /\ [Next]_vars => [Lock!Next]_depth
  <2> SUFFICES ASSUME IInv, [Next]_vars PROVE [Lock!Next]_depth
    OBVIOUS
  <2>1. ASSUME NEW t \in Threads, EnterAgain(t) PROVE Lock!Enter(t)
    <3>1. \A u \in Threads \ {t} : depth[u] = 0
      BY <2>1 DEF EnterAgain, IInv, TypeOK, MutualExclusion, PointInv, Holds, At
    <3> QED
      BY <2>1, <3>1 DEF EnterAgain, Lock!Enter
  <2>2. ASSUME NEW t \in Threads, OwnRecursion(t) PROVE Lock!Enter(t)
    <3>1. depth[t] = 0 /\ \A u \in Threads \ {t} : depth[u] = 0
      BY <2>2 DEF OwnRecursion, IInv, TypeOK, MutualExclusion, PointInv, Holds, At
    <3> QED
      BY <2>2, <3>1 DEF OwnRecursion, Lock!Enter, IInv, TypeOK
  <2>3. ASSUME NEW t \in Threads, Leave(t) PROVE Lock!Leave(t)
    BY <2>3 DEF Leave, Lock!Leave
  <2>4. ASSUME NEW t \in Threads, Step(t), ~EnterAgain(t), ~OwnRecursion(t) PROVE UNCHANGED depth
    BY <2>4 DEF Step, TryFree, TryOwner, TryInc, SpinTake, SpinEnd, Enter, EnterOwner, Own,
                GetSemaphore, InstallSemaphore, Wait, FutexWait, SemaphoreWait, LeaveDec,
                LeaveClear, LeaveLast, Wake, FutexWake, SemaphoreRelease, ghostVars
  <2>5. ASSUME NEW t \in Threads, Caller(t), ~Leave(t) PROVE UNCHANGED depth
    BY <2>5 DEF Caller, CallTryEnter, CallEnter, Interrupted, TimedOut, Raise, ghostVars
  <2>6. ASSUME Delete \/ UNCHANGED vars PROVE UNCHANGED depth
    BY <2>6 DEF Delete, vars, runVars
  <2> QED
    BY <2>1, <2>2, <2>3, <2>4, <2>5, <2>6 DEF Next, Lock!Next
<1> QED
  BY InductiveInvariant, <1>1, <1>2, PTL DEF Spec, LockSpec, Lock!Spec
=============================================================================
