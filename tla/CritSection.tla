----------------------------- MODULE CritSection -----------------------------
(***************************************************************************)
(* The user-mode lock of the Windows API, RTL_CRITICAL_SECTION, as         *)
(* implemented in dlls/ntdll/critsection.c: one section and the threads of *)
(* the process that use it.  Every access the C code makes to a shared     *)
(* field of the section, and every kernel or server call, is one step, so  *)
(* the threads interleave between any two of them.                         *)
(*                                                                         *)
(* Callers are well behaved: a thread leaves the section only while it is  *)
(* inside, and deletes it only when nobody uses it.  The creation of a     *)
(* semaphore never fails.                                                  *)
(***************************************************************************)
EXTENDS Integers, FiniteSets

CONSTANTS
  Threads,        \* threads of the process that use the section
  NoThread,       \* OwningThread = 0, LockSemaphore = 0
  SpinCount,      \* was the section created with a non-zero spin count
  Internal,       \* is it a Wine internal lock (DebugInfo->Spare[0] is set)
  MaxRecursion,   \* bound: how deep each thread enters the section
  MaxAbandoned    \* bound: how many waits end in an exception that unwinds

ASSUME NoThreadAssumption == NoThread \notin Threads
ASSUME ThreadsAssumption == IsFiniteSet(Threads)
ASSUME BuildAssumption == /\ SpinCount \in BOOLEAN
                          /\ Internal \in BOOLEAN
ASSUME BoundAssumption == MaxRecursion \in [Threads -> Nat \ {0}] /\ MaxAbandoned \in Nat

VARIABLES
  LockCount,        \* crit->LockCount, -1 when the section is free
  RecursionCount,   \* crit->RecursionCount
  OwningThread,     \* crit->OwningThread
  futex,            \* crit->LockSemaphore used as a futex word
  LockSemaphore,    \* crit->LockSemaphore used as a handle: the thread that
                    \* created the installed semaphore, or NoThread
  semCount,         \* the count of the semaphore each thread created
  sem,              \* get_semaphore's result in each thread
  late,             \* the threads whose wait has timed out once already
  pc,               \* where each thread is in critsection.c
  depth,            \* how many times each thread is inside the section
  abandoned,        \* waits ended by an exception since initialisation
  supported         \* use_futexes: does the kernel have futexes (else a server semaphore
                    \* is used); it is found out once and stays

runVars == <<LockCount, RecursionCount, OwningThread, futex, LockSemaphore,
             semCount, sem, late, pc, depth, abandoned>>
vars == <<runVars, supported>>
semVars == <<futex, LockSemaphore, semCount, sem>>
ownVars == <<RecursionCount, OwningThread>>
ghostVars == <<depth, abandoned>>

(***************************************************************************)
(* Control points.  "out" is the caller's code.  get_semaphore is called   *)
(* on the way to a wait and on the way to a wake-up.                       *)
(***************************************************************************)
GetPoints == {"wait_get", "wait_install", "wake_get", "wake_install"}
WaitPoints == {"wait", "block", "sem_wait", "asleep", "wait_get", "wait_install"}
WakePoints == {"wake", "wake_get", "wake_install", "sem_release"}
Points == {"out", "try", "try_owner", "enter_try", "enter_try_owner", "spin", "enter",
           "owner", "inc", "again", "own", "own2", "leave_dec", "clear", "last_dec",
           "futex_wake"} \cup WaitPoints \cup WakePoints \cup GetPoints

Goto(t, p) == pc' = [pc EXCEPT ![t] = p]

At(t, p) == pc[t] = p

Init ==
  /\ LockCount = -1
  /\ RecursionCount = 0
  /\ OwningThread = NoThread
  /\ futex = 0
  /\ LockSemaphore = NoThread
  /\ semCount = [t \in Threads |-> 0]
  /\ sem = [t \in Threads |-> NoThread]
  /\ late = {}
  /\ pc = [t \in Threads |-> "out"]
  /\ depth = [t \in Threads |-> 0]
  /\ abandoned = 0
  /\ supported \in BOOLEAN

-----------------------------------------------------------------------------
(***************************************************************************)
(* RtlTryEnterCriticalSection, called by the application ("try") or by     *)
(* RtlEnterCriticalSection before it spins ("enter_try").                  *)
(***************************************************************************)
CallTryEnter(t) ==
  /\ At(t, "out") /\ depth[t] < MaxRecursion[t]
  /\ Goto(t, "try")
  /\ UNCHANGED <<LockCount, ownVars, semVars, late, ghostVars>>

TryFree(t) ==
  /\ pc[t] \in {"try", "enter_try"}
  /\ IF LockCount = -1
     THEN LockCount' = 0 /\ Goto(t, "own")
     ELSE UNCHANGED LockCount /\ Goto(t, IF At(t, "try") THEN "try_owner" ELSE "enter_try_owner")
  /\ UNCHANGED <<ownVars, semVars, late, ghostVars>>

TryOwner(t) ==
  /\ pc[t] \in {"try_owner", "enter_try_owner"}
  /\ Goto(t, CASE OwningThread = t      -> "inc"
               [] At(t, "try_owner")    -> "out"
               [] OTHER                 -> "spin")
  /\ UNCHANGED <<LockCount, ownVars, semVars, late, ghostVars>>

TryInc(t) ==
  /\ At(t, "inc")
  /\ LockCount' = LockCount + 1
  /\ Goto(t, "again")
  /\ UNCHANGED <<ownVars, semVars, late, ghostVars>>

-----------------------------------------------------------------------------
(***************************************************************************)
(* RtlEnterCriticalSection.                                                *)
(***************************************************************************)
CallEnter(t) ==
  /\ At(t, "out") /\ depth[t] < MaxRecursion[t]
  /\ Goto(t, IF SpinCount THEN "enter_try" ELSE "enter")
  /\ UNCHANGED <<LockCount, ownVars, semVars, late, ghostVars>>

\* Mutant: the spin loop takes the section when nobody waits for it.
SpinTakeHeld(t) ==
  /\ At(t, "spin") /\ LockCount <= 0
  /\ LockCount' = 0
  /\ Goto(t, "own")
  /\ UNCHANGED <<ownVars, semVars, late, ghostVars>>

\* One round of the spin loop that takes the free section.
SpinTake(t) ==
  /\ At(t, "spin") /\ LockCount = -1
  /\ LockCount' = 0
  /\ Goto(t, "own")
  /\ UNCHANGED <<ownVars, semVars, late, ghostVars>>

\* The spin loop ends: there are waiters already, or the count is used up.
SpinEnd(t) ==
  /\ At(t, "spin")
  /\ Goto(t, "enter")
  /\ UNCHANGED <<LockCount, ownVars, semVars, late, ghostVars>>

Enter(t) ==
  /\ At(t, "enter")
  /\ LockCount' = LockCount + 1
  /\ Goto(t, IF LockCount' = 0 THEN "own" ELSE "owner")
  /\ UNCHANGED <<ownVars, semVars, late, ghostVars>>

EnterOwner(t) ==
  /\ At(t, "owner")
  /\ Goto(t, IF OwningThread = t THEN "again" ELSE "wait")
  /\ UNCHANGED <<LockCount, ownVars, semVars, late, ghostVars>>

\* The recursive entry of the owner, in Enter and in TryEnter.
EnterAgain(t) ==
  /\ At(t, "again")
  /\ RecursionCount' = RecursionCount + 1
  /\ depth' = [depth EXCEPT ![t] = @ + 1]
  /\ Goto(t, "out")
  /\ UNCHANGED <<LockCount, OwningThread, semVars, late, abandoned>>

Own(t) ==
  /\ At(t, "own")
  /\ OwningThread' = t
  /\ Goto(t, "own2")
  /\ UNCHANGED <<LockCount, RecursionCount, semVars, late, ghostVars>>

\* Mutant: the recursion count of a new owner is left at 0.
OwnRecursionUnset(t) ==
  /\ At(t, "own2")
  /\ depth' = [depth EXCEPT ![t] = 1]
  /\ Goto(t, "out")
  /\ UNCHANGED <<LockCount, ownVars, semVars, late, abandoned>>

OwnRecursion(t) ==
  /\ At(t, "own2")
  /\ RecursionCount' = 1
  /\ depth' = [depth EXCEPT ![t] = 1]
  /\ Goto(t, "out")
  /\ UNCHANGED <<LockCount, OwningThread, semVars, late, abandoned>>

-----------------------------------------------------------------------------
(***************************************************************************)
(* get_semaphore: the first thread to need the semaphore installs it.      *)
(***************************************************************************)
GetSemaphore(t) ==
  /\ pc[t] \in {"wait_get", "wake_get"}
  /\ IF LockSemaphore # NoThread
     THEN /\ sem' = [sem EXCEPT ![t] = LockSemaphore]
          /\ UNCHANGED semCount
          /\ Goto(t, IF At(t, "wait_get") THEN "sem_wait" ELSE "sem_release")
     ELSE /\ semCount' = [semCount EXCEPT ![t] = 0]
          /\ UNCHANGED sem
          /\ Goto(t, IF At(t, "wait_get") THEN "wait_install" ELSE "wake_install")
  /\ UNCHANGED <<LockCount, ownVars, futex, LockSemaphore, late, ghostVars>>

\* Mutant: a plain store instead of the compare-and-exchange.
InstallAlways(t) ==
  /\ pc[t] \in {"wait_install", "wake_install"}
  /\ LockSemaphore' = t
  /\ sem' = [sem EXCEPT ![t] = t]
  /\ Goto(t, IF At(t, "wait_install") THEN "sem_wait" ELSE "sem_release")
  /\ UNCHANGED <<LockCount, ownVars, futex, semCount, late, ghostVars>>

InstallSemaphore(t) ==
  /\ pc[t] \in {"wait_install", "wake_install"}
  /\ LockSemaphore' = IF LockSemaphore = NoThread THEN t ELSE LockSemaphore
  /\ sem' = [sem EXCEPT ![t] = LockSemaphore']
  /\ Goto(t, IF At(t, "wait_install") THEN "sem_wait" ELSE "sem_release")
  /\ UNCHANGED <<LockCount, ownVars, futex, semCount, late, ghostVars>>

-----------------------------------------------------------------------------
(***************************************************************************)
(* RtlpWaitForCriticalSection: wait_semaphore, repeated after a timeout.   *)
(***************************************************************************)
\* Mutant: fast_wait sees the futex word set and does not reset it.
WaitNoReset(t) ==
  /\ At(t, "wait")
  /\ UNCHANGED futex
  /\ late' = IF supported /\ futex = 1 THEN late \ {t} ELSE late
  /\ Goto(t, IF ~supported THEN "wait_get" ELSE IF futex = 1 THEN "own" ELSE "block")
  /\ UNCHANGED <<LockCount, ownVars, LockSemaphore, semCount, sem, ghostVars>>

\* fast_wait tries to take the futex word; the semaphore build gets the handle.
Wait(t) ==
  /\ At(t, "wait")
  /\ CASE ~supported -> UNCHANGED <<futex, late>> /\ Goto(t, "wait_get")
       [] supported /\ futex = 1 ->
            /\ futex' = 0
            /\ late' = late \ {t}
            /\ Goto(t, "own")
       [] OTHER -> UNCHANGED <<futex, late>> /\ Goto(t, "block")
  /\ UNCHANGED <<LockCount, ownVars, LockSemaphore, semCount, sem, ghostVars>>

\* futex_wait sleeps only if the word is still 0.
FutexWait(t) ==
  /\ At(t, "block")
  /\ Goto(t, IF futex = 0 THEN "asleep" ELSE "wait")
  /\ UNCHANGED <<LockCount, ownVars, semVars, late, ghostVars>>

\* NtWaitForSingleObject on the semaphore takes its count or sleeps.
SemaphoreWait(t) ==
  /\ At(t, "sem_wait")
  /\ IF semCount[sem[t]] = 1
     THEN /\ semCount' = [semCount EXCEPT ![sem[t]] = 0]
          /\ late' = late \ {t}
          /\ Goto(t, "own")
     ELSE UNCHANGED <<semCount, late>> /\ Goto(t, "asleep")
  /\ UNCHANGED <<LockCount, ownVars, futex, LockSemaphore, sem, ghostVars>>

\* A Unix signal interrupts futex_wait.
Interrupted(t) ==
  /\ At(t, "asleep") /\ supported
  /\ Goto(t, "wait")
  /\ UNCHANGED <<LockCount, ownVars, semVars, late, ghostVars>>

\* The wait times out: the first time it is repeated, later the loop starts over.
TimedOut(t) ==
  /\ At(t, "asleep")
  /\ late' = IF t \in late THEN late \ {t} ELSE late \cup {t}
  /\ Goto(t, "wait")
  /\ UNCHANGED <<LockCount, ownVars, semVars, ghostVars>>

\* STATUS_POSSIBLE_DEADLOCK is raised for an internal lock and a handler unwinds
\* out of the call: the wait is over and LockCount is not decremented.
Raise(t) ==
  /\ At(t, "asleep") /\ t \in late /\ Internal
  /\ abandoned < MaxAbandoned
  /\ abandoned' = abandoned + 1
  /\ late' = late \ {t}
  /\ Goto(t, "out")
  /\ UNCHANGED <<LockCount, ownVars, semVars, depth>>

-----------------------------------------------------------------------------
(***************************************************************************)
(* RtlLeaveCriticalSection and RtlpUnWaitCriticalSection.                  *)
(***************************************************************************)
Leave(t) ==
  /\ At(t, "out") /\ depth[t] > 0
  /\ RecursionCount' = RecursionCount - 1
  /\ depth' = [depth EXCEPT ![t] = @ - 1]
  /\ Goto(t, IF RecursionCount' # 0 THEN "leave_dec" ELSE "clear")
  /\ UNCHANGED <<LockCount, OwningThread, semVars, late, abandoned>>

\* Mutant: the nested leave forgets LockCount.
LeaveDecLost(t) ==
  /\ At(t, "leave_dec")
  /\ Goto(t, "out")
  /\ UNCHANGED <<LockCount, ownVars, semVars, late, ghostVars>>

LeaveDec(t) ==
  /\ At(t, "leave_dec")
  /\ LockCount' = LockCount - 1
  /\ Goto(t, "out")
  /\ UNCHANGED <<ownVars, semVars, late, ghostVars>>

\* Mutant: the last leave does not clear OwningThread.
LeaveKeepsOwner(t) ==
  /\ At(t, "clear")
  /\ Goto(t, "last_dec")
  /\ UNCHANGED <<LockCount, ownVars, semVars, late, ghostVars>>

LeaveClear(t) ==
  /\ At(t, "clear")
  /\ OwningThread' = NoThread
  /\ Goto(t, "last_dec")
  /\ UNCHANGED <<LockCount, RecursionCount, semVars, late, ghostVars>>

\* Mutant: the last leave wakes only if more than one thread waits.
LeaveLastOffByOne(t) ==
  /\ At(t, "last_dec")
  /\ LockCount' = LockCount - 1
  /\ Goto(t, CASE LockCount' < 1 -> "out"
               [] LockCount' >= 1 /\ supported -> "wake"
               [] OTHER -> "wake_get")
  /\ UNCHANGED <<ownVars, semVars, late, ghostVars>>

LeaveLast(t) ==
  /\ At(t, "last_dec")
  /\ LockCount' = LockCount - 1
  /\ Goto(t, CASE LockCount' < 0 -> "out"
               [] LockCount' >= 0 /\ supported -> "wake"
               [] OTHER -> "wake_get")
  /\ UNCHANGED <<ownVars, semVars, late, ghostVars>>

\* fast_wake stores the futex word ...
Wake(t) ==
  /\ At(t, "wake")
  /\ futex' = 1
  /\ Goto(t, "futex_wake")
  /\ UNCHANGED <<LockCount, ownVars, LockSemaphore, semCount, sem, late, ghostVars>>

\* Mutant: fast_wake stores the word and calls nobody.
FutexWakeNobody(t) ==
  /\ At(t, "futex_wake")
  /\ Goto(t, "out")
  /\ UNCHANGED <<LockCount, ownVars, semVars, late, ghostVars>>

\* ... and then wakes one sleeper, if there is one.
FutexWake(t) ==
  /\ At(t, "futex_wake")
  /\ \/ /\ \E u \in Threads : At(u, "asleep") /\ pc' = [pc EXCEPT ![t] = "out", ![u] = "wait"]
     \/ /\ \A u \in Threads : ~At(u, "asleep")
        /\ Goto(t, "out")
  /\ UNCHANGED <<LockCount, ownVars, semVars, late, ghostVars>>

\* NtReleaseSemaphore hands the count to a sleeper of that semaphore, or keeps it.
SemaphoreRelease(t) ==
  /\ At(t, "sem_release")
  /\ \/ \E u \in Threads :
          /\ At(u, "asleep") /\ sem[u] = sem[t]
          /\ pc' = [pc EXCEPT ![t] = "out", ![u] = "own"]
          /\ late' = late \ {u}
          /\ UNCHANGED semCount
     \/ /\ \A u \in Threads : ~(At(u, "asleep") /\ sem[u] = sem[t])
        /\ semCount' = [semCount EXCEPT ![sem[t]] = 1]
        /\ Goto(t, "out")
        /\ UNCHANGED late
  /\ UNCHANGED <<LockCount, ownVars, futex, LockSemaphore, sem, ghostVars>>

-----------------------------------------------------------------------------
\* RtlDeleteCriticalSection, then RtlInitializeCriticalSection: nobody uses it.
Delete ==
  /\ \A t \in Threads : At(t, "out") /\ depth[t] = 0
  /\ LockCount' = -1
  /\ RecursionCount' = 0
  /\ OwningThread' = NoThread
  /\ futex' = 0
  /\ LockSemaphore' = NoThread
  /\ semCount' = [t \in Threads |-> 0]
  /\ abandoned' = 0
  /\ UNCHANGED <<sem, late, pc, depth>>

Step(t) ==
  \/ TryFree(t) \/ TryOwner(t) \/ TryInc(t)
  \/ SpinTake(t) \/ SpinEnd(t) \/ Enter(t) \/ EnterOwner(t) \/ EnterAgain(t)
  \/ Own(t) \/ OwnRecursion(t)
  \/ GetSemaphore(t) \/ InstallSemaphore(t)
  \/ Wait(t) \/ FutexWait(t) \/ SemaphoreWait(t)
  \/ LeaveDec(t) \/ LeaveClear(t) \/ LeaveLast(t)
  \/ Wake(t) \/ FutexWake(t) \/ SemaphoreRelease(t)

Caller(t) ==
  \/ CallTryEnter(t) \/ CallEnter(t) \/ Leave(t)
  \/ Interrupted(t) \/ TimedOut(t) \/ Raise(t)

Next ==
  /\ (\E t \in Threads : Step(t) \/ Caller(t)) \/ Delete
  /\ UNCHANGED supported

Spec == Init /\ [][Next]_vars

\* A thread inside a call keeps running.  Nothing is assumed of the callers, of timeouts,
\* signals and exceptions.
FairSpec == Spec /\ \A t \in Threads : WF_runVars(Step(t))

-----------------------------------------------------------------------------
(***************************************************************************)
(* What the section promises.                                              *)
(***************************************************************************)
\* Every field of the section and every control point stays in its range: LockCount
\* never falls below -1, RecursionCount never below 0.
TypeOK ==
  /\ LockCount \in Nat \cup {-1}
  /\ RecursionCount \in Nat
  /\ OwningThread \in Threads \cup {NoThread}
  /\ futex \in {0, 1}
  /\ LockSemaphore \in Threads \cup {NoThread}
  /\ semCount \in [Threads -> {0, 1}]
  /\ sem \in [Threads -> Threads \cup {NoThread}]
  /\ late \subseteq Threads
  /\ pc \in [Threads -> Points]
  /\ depth \in [Threads -> Nat]
  /\ abandoned \in Nat
  /\ supported \in BOOLEAN

\* The thread has the section: from the step that wins it to the step that gives it up.
Holds(t) == depth[t] > 0 \/ pc[t] \in {"own", "own2", "clear", "last_dec"} \cup WakePoints

\* The section was given up and is waiting to be picked up by a waiter.
Offered == IF supported THEN futex = 1
           ELSE LockSemaphore # NoThread /\ semCount[LockSemaphore] = 1

\* RtlEnterCriticalSection ("held by the caller"): no two threads hold the section.
MutualExclusion == \A t, u \in Threads : Holds(t) /\ Holds(u) => t = u

\* The section is never lost and never doubled: it is free, or offered to the
\* waiters, or held, and only one of the three.  A second offer would be dropped
\* by fast_wake's plain store and refused by the semaphore's limit of 1.
OneBaton ==
  /\ LockCount = -1 => ~Offered /\ \A t \in Threads : ~Holds(t)
  /\ Offered => \A t \in Threads : ~Holds(t)
  /\ Offered \/ LockCount = -1 \/ \E t \in Threads : Holds(t)

\* A thread inside the section is its recorded owner with the right recursion
\* count, and no other thread takes itself for the owner.
OwnerExact ==
  \A t \in Threads :
    /\ depth[t] > 0 => OwningThread = t
    /\ depth[t] > 0 => RecursionCount = depth[t]
    /\ OwningThread = t => Holds(t)

\* The threads whose call has put one into LockCount and not yet into RecursionCount,
\* or has taken its last one out of RecursionCount and not yet out of LockCount.
Counted == {t \in Threads :
  pc[t] \in {"owner", "again", "own", "own2", "leave_dec", "clear", "last_dec"} \cup WaitPoints}

\* LockCount counts every entry of the thread inside and every waiter and nothing else,
\* except the waits that an exception ended (RtlpWaitForCriticalSection never takes its
\* share back).
LockCountExact ==
  /\ (\A t \in Threads : depth[t] = 0) => LockCount + 1 = abandoned + Cardinality(Counted)
  /\ \A t \in Threads :
       depth[t] > 0 => LockCount + 1 = abandoned + Cardinality(Counted) + depth[t]

\* A wake-up is never lost: when the section is offered and a thread sleeps, a
\* wake-up call is still to come or a waiter is awake to take the offer.
NoLostWakeup ==
  Offered /\ (\E t \in Threads : At(t, "asleep")) =>
    \E t \in Threads : pc[t] \in {"futex_wake", "wait", "block", "sem_wait", "wait_get"}

\* The section is a recursive lock: what the callers see, the number of times each is
\* inside, changes only as RecursiveLock allows.
Lock == INSTANCE RecursiveLock WITH inside <- depth
LockSpec == Lock!Spec

\* If no thread stays inside for ever, somebody who waits gets the section without the
\* help of a timeout, unless every waiter is thrown out of its wait by an exception.
Progress ==
  (\A t \in Threads : []<>(depth[t] = 0)) =>
    ((\E t \in Threads : pc[t] \in WaitPoints)
       ~> \/ \E t \in Threads : At(t, "own")
          \/ \A t \in Threads : pc[t] \notin WaitPoints)

-----------------------------------------------------------------------------
(***************************************************************************)
(* The inductive invariant behind the safety properties.                   *)
(***************************************************************************)
\* Where a thread can be outside and inside the section, and in which build.
PointInv ==
  \A t \in Threads :
    /\ pc[t] \in {"own", "own2", "clear", "last_dec", "futex_wake", "spin"}
                  \cup WaitPoints \cup WakePoints => depth[t] = 0
    /\ pc[t] \in {"inc", "again", "leave_dec"} => depth[t] > 0
    /\ supported => pc[t] \notin GetPoints \cup {"sem_wait", "sem_release"}
    /\ ~supported => pc[t] \notin {"block", "wake", "futex_wake"}

\* The thread inside has put its entries into LockCount, so that taking them back
\* never frees the section early.
CountInv ==
  \A t \in Threads : depth[t] > 0 =>
    /\ LockCount >= depth[t] - 1
    /\ pc[t] \in {"owner", "again", "leave_dec"} => LockCount >= depth[t]

\* OwningThread is the thread inside, or one about to be, or one that just left.
OwnerInv ==
  \A t \in Threads :
    /\ depth[t] > 0 => OwningThread = t /\ RecursionCount = depth[t]
    /\ OwningThread = t => depth[t] > 0 \/ pc[t] \in {"own2", "clear"}
    /\ pc[t] = "own2" => OwningThread = t

\* There is one semaphore, and whoever uses one uses that one.
SemInv ==
  ~supported =>
    /\ futex = 0
    /\ \A t \in Threads :
         /\ semCount[t] = 1 => t = LockSemaphore
         /\ pc[t] \in {"sem_wait", "asleep", "sem_release"} =>
              sem[t] = LockSemaphore /\ LockSemaphore # NoThread

IInv == TypeOK /\ MutualExclusion /\ OneBaton /\ PointInv /\ CountInv /\ OwnerInv /\ SemInv
=============================================================================
