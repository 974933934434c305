-------------------------- MODULE ServerWaitProofs --------------------------
(***************************************************************************)
(* Theorems about the threads, the objects and the waits of ServerWait:    *)
(* who is suspended, who owns a mutex, who has the APC of a timer, what    *)
(* the client is doing, and that every wait ends with one reply.           *)
(***************************************************************************)
EXTENDS ServerWaitTypes

-----------------------------------------------------------------------------
(***************************************************************************)
(* Suspended threads acquire nothing.                                      *)
(***************************************************************************)
\* The threads that the frames of the server's stack name.
LEMMA FrameThread ==
  ASSUME TypeInv, stack # <<>>
  PROVE  /\ Top(stack).op \in ThreadOps => Top(stack).x \in Threads
         /\ Top(stack).op \in {"abandon", "cleanup"} => Top(stack).x \in dead
<1>1. stack \in Seq(ServerFrames(dead))
  BY DEF TypeInv
<1>2. Top(stack) \in ServerFrames(dead)
  BY <1>1, StackTypes
<1> QED
  BY <1>2, FrameTypes DEF ThreadOps

\* The wait of a request select takes the objects that the thread may have.
LEMMA DoSelectAcquire ==
  ASSUME NEW t, NEW frames \in Seq(ClientFrames), frames # <<>>, DoSelect(t, frames)
  PROVE  \E w \in WaitRecords : Acquire(t, w)
<1>1. Top(frames) \in ClientFrames
  BY TopPop
<1>2. NewWait(Top(frames).args) \in WaitRecords
  BY <1>1, ClientFrameTypes, NewWaitTypes
<1> QED
  BY <1>2 DEF DoSelect

\* What a step does to the mutexes: a thread that lives, or waits, takes some; one is
\* released; or its owner releases it once.
MutexSteps ==
  \/ UNCHANGED <<mcount, owner, mutex_list>>
  \/ \E t \in Threads : (t \in dead => waits[t] # <<>>) /\ \E w \in WaitRecords : Acquire(t, w)
  \/ \E m \in Mutexes : Released(m)
  \/ \E m \in Mutexes :
       mcount[m] > 1 /\ mcount' = [mcount EXCEPT ![m] = mcount[m] - 1] /\ UNCHANGED <<owner, mutex_list>>

\* Signaling an object releases the mutex that it is, or none.
LEMMA SignalMutex ==
  ASSUME NEW o, NEW n, Signal(o, n)
  PROVE  MutexSteps
BY DEF Signal, mutex_signal, release_semaphore, set_event, MutexSteps

\* Every step treats the mutexes in one of these ways.
LEMMA MutexStep ==
  ASSUME TypeInv, Next
  PROVE  MutexSteps
<1>0. waits \in [Threads -> Seq(WaitRecords)] /\ mutex_list \in [Threads -> SUBSET Mutexes]
  BY DEF TypeInv, ObjTypeOK
<1>1. CASE UNCHANGED objVars
  BY <1>1 DEF objVars, MutexSteps
<1>2. ASSUME NEW t \in Threads, NEW w \in WaitRecords, Acquire(t, w), t \in dead => waits[t] # <<>>
      PROVE  MutexSteps
  BY <1>2 DEF MutexSteps
<1>3. ASSUME NEW t \in Threads, waits[t] # <<>>, Acquire(t, Top(waits[t]))
      PROVE  MutexSteps
  <2>1. Top(waits[t]) \in WaitRecords
    BY <1>0, <1>3, TopPop
  <2> QED
    BY <1>2, <1>3, <2>1
<1>4. CASE UNCHANGED <<mcount, owner, mutex_list>>
  BY <1>4 DEF MutexSteps
<1>5. CASE ServerActions
  <2>1. CASE WakeThread
    BY <1>3, <2>1, FrameThread DEF WakeThread, ThreadOps, Wakeable
  <2>2. CASE SelectRest
    BY <1>1, <1>3, <2>2, FrameThread DEF SelectRest, ThreadOps
  <2>3. CASE Abandon
    BY <1>0, <1>4, <2>3, FrameThread DEF Abandon, ThreadOps, MutexSteps
  <2> QED
    BY <1>1, <1>4, <1>5, <2>1, <2>2, <2>3
    DEF ServerActions, WakeUp, WakeThreadEnd, Kill, Cleanup, PulseReset, TimerSignals
<1>6. CASE \E t \in Threads : ClientActions(t)
  <2>1. ASSUME NEW t \in Threads, SelectAgain(t) PROVE MutexSteps
    <3>1. client[t] \in Seq(ClientFrames) /\ client[t] # <<>> /\ DoSelect(t, client[t]) /\ t \notin dead
      BY <2>1 DEF SelectAgain, TypeInv, ClientAt, Connected
    <3> QED
      BY <1>2, <3>1, DoSelectAcquire
  <2> QED
    BY <1>1, <1>6, <2>1 DEF ClientActions, ReadReply, GetApc, LeaveSuspend, ClientDies, TakeSignal, SetContext
<1>7. ASSUME NEW t \in Threads, RequestActions(t) PROVE MutexSteps
  <2>1. ASSUME NEW a \in WaitArgs, Select(t, a) PROVE MutexSteps
    <3>1. <<Call("wait", a)>> \in Seq(ClientFrames) /\ <<Call("wait", a)>> # <<>>
      BY ClientFrameTypes
    <3>2. t \notin dead /\ DoSelect(t, <<Call("wait", a)>>)
      BY <2>1 DEF Select, Runs
    <3> QED
      BY <1>2, <3>1, <3>2, DoSelectAcquire
  <2>2. ASSUME NEW o, NEW n,
               \/ \E a : SelectSignal(t, o, a)
               \/ SignalObject(t, o, n) \/ PulseEvent(t, o)
        PROVE  MutexSteps
    BY <2>2, SignalMutex DEF SelectSignal, SignalObject, PulseEvent
  <2>3. ASSUME NEW x, \/ CancelTimer(t, x) \/ \E period, apc \in BOOLEAN : SetTimer(t, x, period, apc)
                      \/ ResetEvent(t, x)
        PROVE  UNCHANGED <<mcount, owner, mutex_list>>
    BY <2>3 DEF CancelTimer, SetTimer, ResetEvent, objVars
  <2>4. ASSUME NEW u,
               \/ TerminateThread(t, u) \/ SuspendThread(t, u) \/ ResumeThread(t, u) \/ ExitThread(t)
               \/ \E system \in BOOLEAN : QueueApc(t, u, system)
        PROVE  UNCHANGED objVars
    BY <2>4 DEF TerminateThread, SuspendThread, ResumeThread, QueueApc, ExitThread
  <2> QED
    BY <1>1, <1>4, <1>7, <2>1, <2>2, <2>3, <2>4 DEF RequestActions
<1>8. ASSUME NEW t \in Threads, OtherActions(t) PROVE MutexSteps
  BY <1>1, <1>8 DEF OtherActions, TimePasses, ThreadTimeout, PollHup
<1>9. ASSUME \/ \E r \in Timers : TimerExpires(r)
             \/ \E p \in Processes : Crash(p)
      PROVE  MutexSteps
  BY <1>1, <1>9 DEF TimerExpires, Crash
<1> QED
  BY <1>5, <1>6, <1>7, <1>8, <1>9, NextActions

\* The new owners: a thread that is not suspended takes mutexes, or one is released.
LEMMA OwnerStep ==
  ASSUME TypeInv, MutexSteps
  PROVE  \/ \A m \in Mutexes : owner'[m] \in {owner[m], NoThread}
         \/ \E t \in Threads : suspend[t] = 0 /\ \A m \in Mutexes : owner'[m] \in {owner[m], t}
<1>1. ASSUME NEW t \in Threads, NEW w \in WaitRecords, Acquire(t, w)
      PROVE  \/ owner' = owner
             \/ suspend[t] = 0 /\ \A m \in Mutexes : owner'[m] \in {owner[m], t}
  BY <1>1, CheckWaitReady DEF Acquire, Satisfied, mutex_satisfied, objVars, TypeInv
<1>2. ASSUME NEW m \in Mutexes, Released(m)
      PROVE  \A k \in Mutexes : owner'[k] \in {owner[k], NoThread}
  BY <1>2 DEF Released, TypeInv, ObjTypeOK
<1>3. CASE owner' = owner
  BY <1>3
<1> QED
  BY <1>1, <1>2, <1>3 DEF MutexSteps

\* thread.c, check_wait: "Suspended threads may not acquire locks": no step gives a mutex
\* to a thread that is suspended.
THEOREM SuspendedAcquireNothingHolds == Spec => SuspendedAcquireNothing
<1>1. TypeInv /\ SelectInv /\ [Next]_vars =>
        [\A t \in Threads : \A m \in Mutexes : owner'[m] = t /\ owner[m] # t => suspend[t] = 0]_vars
  <2> SUFFICES ASSUME TypeInv, Next, NEW t \in Threads, NEW m \in Mutexes, owner'[m] = t, owner[m] # t
               PROVE  suspend[t] = 0
    OBVIOUS
  <2> QED
    BY MutexStep, OwnerStep, ObjectAssumption
<1> QED
  BY <1>1, TypesHold, PTL DEF Spec, SuspendedAcquireNothing

-----------------------------------------------------------------------------
(***************************************************************************)
(* The mutexes and their owners.                                           *)
(***************************************************************************)
\* The count of a mutex, its owner and the lists of the threads agree.
OwnerExact ==
  \A m \in Mutexes :
    /\ mcount[m] = 0 <=> owner[m] = NoThread
    /\ \A t \in Threads : m \in mutex_list[t] <=> owner[m] = t

\* Every step keeps count, owner and list of a mutex in agreement.
LEMMA OwnerExactStep ==
  ASSUME TypeInv, OwnerExact, MutexSteps
  PROVE  OwnerExact'
<1>0. /\ mcount \in [Mutexes -> Nat] /\ owner \in [Mutexes -> Threads \cup {NoThread}]
      /\ mutex_list \in [Threads -> SUBSET Mutexes] /\ NoThread \notin Threads
  BY ObjectAssumption DEF TypeInv, ObjTypeOK
<1>1. CASE UNCHANGED <<mcount, owner, mutex_list>>
  BY <1>1 DEF OwnerExact
<1>2. ASSUME NEW t \in Threads, NEW w \in WaitRecords, Acquire(t, w)
      PROVE  OwnerExact'
  <2>1. CASE UNCHANGED objVars
    BY <1>1, <2>1 DEF objVars
  <2>2. CASE Satisfied(t, Taken(t, w)) /\ Ready(t, w)
    <3> DEFINE taken == Taken(t, w)
               first == {m \in Mutexes : taken[m] > 0 /\ mcount[m] = 0}
    <3>1. \A m \in Mutexes : taken[m] \in {0, 1}
      BY <2>2, TakenFacts DEF Objects
    <3>2. /\ mcount' = [m \in Mutexes |-> mcount[m] + taken[m]]
          /\ owner' = [m \in Mutexes |-> IF m \in first THEN t ELSE owner[m]]
          /\ mutex_list' = [mutex_list EXCEPT ![t] = mutex_list[t] \cup first]
      BY <2>2 DEF Satisfied, mutex_satisfied
    <3> HIDE DEF taken
    <3> SUFFICES ASSUME NEW m \in Mutexes
                 PROVE  /\ mcount'[m] = 0 <=> owner'[m] = NoThread
                        /\ \A u \in Threads : m \in mutex_list'[u] <=> owner'[m] = u
      BY DEF OwnerExact
    <3>3. mcount'[m] = 0 <=> owner'[m] = NoThread
      BY <1>0, <3>1, <3>2 DEF OwnerExact
    <3>4. ASSUME NEW u \in Threads PROVE m \in mutex_list'[u] <=> owner'[m] = u
      BY <1>0, <3>1, <3>2 DEF OwnerExact
    <3> QED
      BY <3>3, <3>4
  <2> QED
    BY <1>2, <2>1, <2>2, CheckWaitReady DEF Acquire, TypeInv
<1>3. ASSUME NEW m \in Mutexes, Released(m)
      PROVE  OwnerExact'
  BY <1>0, <1>3 DEF Released, OwnerExact
<1>4. ASSUME NEW m \in Mutexes, mcount[m] > 1, mcount' = [mcount EXCEPT ![m] = mcount[m] - 1],
             UNCHANGED <<owner, mutex_list>>
      PROVE  OwnerExact'
  BY <1>0, <1>4 DEF OwnerExact
<1> QED
  BY <1>1, <1>2, <1>3, <1>4 DEF MutexSteps

\* Only kill_thread ends threads, and a dead thread does not begin to wait again.
DeadSteps == dead' = dead /\ \A u \in dead : waits[u] = <<>> => waits'[u] = <<>>

\* The request select changes no wait of a dead thread.
LEMMA DoSelectDead ==
  ASSUME TypeInv, NEW t \in Threads, NEW frames, t \notin dead, DoSelect(t, frames)
  PROVE  DeadSteps
<1>1. dead' = dead
  BY DEF DoSelect, Acquire, Satisfied, objVars
<1>2. \A u \in dead : waits'[u] = waits[u]
  BY DEF DoSelect, waitVars, TypeInv, ObjTypeOK
<1> QED
  BY <1>1, <1>2 DEF DeadSteps

\* Every step but that of kill_thread leaves the dead as they are.
LEMMA DeadStep ==
  ASSUME TypeInv, Next, ~Kill
  PROVE  DeadSteps
<1>0. waits \in [Threads -> Seq(WaitRecords)] /\ dead \subseteq Threads
  BY DEF TypeInv, ObjTypeOK
<1>1. CASE dead' = dead /\ waits' = waits
  BY <1>1 DEF DeadSteps
<1>2. CASE UNCHANGED <<objVars, waitVars>>
  BY <1>1, <1>2 DEF objVars, waitVars
<1>3. ASSUME NEW t \in Threads, waits[t] # <<>>, EndWait(t), dead' = dead
      PROVE  DeadSteps
  BY <1>0, <1>3 DEF EndWait, DeadSteps
<1>4. CASE ServerActions
  <2>1. CASE WakeThread
    BY <1>3, <2>1, FrameThread DEF WakeThread, ThreadOps, Wakeable, Acquire, Satisfied, objVars
  <2>2. CASE SelectRest
    <3>1. stack # <<>> /\ Top(stack).x \in Threads
      BY <2>2, FrameThread DEF SelectRest, ThreadOps
    <3>2. dead' = dead
      BY <2>2 DEF SelectRest, Acquire, Satisfied, objVars
    <3>3. CASE \E y : waits' = [waits EXCEPT ![Top(stack).x] = y] /\ waits[Top(stack).x] # <<>>
      BY <1>0, <3>1, <3>2, <3>3 DEF DeadSteps
    <3> QED
      BY <1>1, <1>3, <2>2, <3>1, <3>2, <3>3 DEF SelectRest, waitVars
  <2> QED
    BY <1>1, <1>2, <1>4, <2>1, <2>2
    DEF ServerActions, WakeUp, WakeThreadEnd, Abandon, Cleanup, PulseReset, TimerSignals, waitVars
<1>5. CASE \E t \in Threads : ClientActions(t)
  <2>1. ASSUME NEW t \in Threads, SelectAgain(t) PROVE DeadSteps
    BY <2>1, DoSelectDead DEF SelectAgain, Connected
  <2> QED
    BY <1>2, <1>5, <2>1 DEF ClientActions, ReadReply, GetApc, LeaveSuspend, ClientDies, TakeSignal, SetContext
<1>6. ASSUME NEW t \in Threads, RequestActions(t) PROVE DeadSteps
  <2>1. ASSUME NEW a, Select(t, a) PROVE DeadSteps
    BY <2>1, DoSelectDead DEF Select, Runs
  <2>2. ASSUME NEW o, NEW a, SelectSignal(t, o, a) PROVE DeadSteps
    <3>1. dead' = dead
      BY <2>2 DEF SelectSignal, Signal, mutex_signal, release_semaphore, set_event
    <3>2. t \notin dead /\ waits' = [waits EXCEPT ![t] = <<NewWait(a)>>]
      BY <2>2 DEF SelectSignal, Runs
    <3> QED
      BY <1>0, <3>1, <3>2 DEF DeadSteps
  <2>3. ASSUME NEW o, NEW n, SignalObject(t, o, n) \/ PulseEvent(t, o)
        PROVE  dead' = dead /\ waits' = waits
    BY <2>3 DEF SignalObject, PulseEvent, Signal, mutex_signal, release_semaphore, set_event, waitVars
  <2>4. ASSUME NEW x, \/ CancelTimer(t, x) \/ \E period, apc \in BOOLEAN : SetTimer(t, x, period, apc)
                      \/ ResetEvent(t, x)
        PROVE  dead' = dead /\ waits' = waits
    BY <2>4 DEF CancelTimer, SetTimer, ResetEvent, objVars, waitVars
  <2>5. ASSUME NEW u,
               \/ TerminateThread(t, u) \/ SuspendThread(t, u) \/ ResumeThread(t, u) \/ ExitThread(t)
               \/ \E system \in BOOLEAN : QueueApc(t, u, system)
        PROVE  UNCHANGED <<objVars, waitVars>>
    BY <2>5 DEF TerminateThread, SuspendThread, ResumeThread, QueueApc, ExitThread
  <2> QED
    BY <1>1, <1>2, <1>6, <2>1, <2>2, <2>3, <2>4, <2>5 DEF RequestActions
<1>7. ASSUME NEW t \in Threads, OtherActions(t) PROVE DeadSteps
  <2>1. CASE PollHup(t)
    BY <1>2, <2>1 DEF PollHup
  <2>2. ASSUME NEW level \in DOMAIN waits[t], TimePasses(t, level) \/ ThreadTimeout(t, level)
        PROVE  DeadSteps
    <3>1. waits[t] # <<>> /\ dead' = dead
      BY <2>2 DEF TimePasses, ThreadTimeout, objVars
    <3>2. CASE \E y : waits' = [waits EXCEPT ![t] = y]
      BY <1>0, <3>1, <3>2 DEF DeadSteps
    <3> QED
      BY <1>3, <2>2, <3>1, <3>2 DEF TimePasses, ThreadTimeout
  <2> QED
    BY <1>7, <2>1, <2>2 DEF OtherActions
<1>8. ASSUME \/ \E r \in Timers : TimerExpires(r)
             \/ \E p \in Processes : Crash(p)
      PROVE  DeadSteps
  BY <1>2, <1>8 DEF TimerExpires, Crash
<1> QED
  BY <1>4, <1>5, <1>6, <1>7, <1>8, NextActions

\* Nothing but a server step changes a stack that is not empty.
LEMMA IdleSteps ==
  ASSUME TypeInv, Next, ~ServerActions
  PROVE  stack = <<>> \/ stack' = stack
<1>1. CASE \E t \in Threads : ClientActions(t)
  BY <1>1 DEF ClientActions, SelectAgain, ReadReply, GetApc, LeaveSuspend, ClientDies, TakeSignal, SetContext, Idle
<1>2. CASE \E t \in Threads : RequestActions(t)
  BY <1>2 DEF RequestActions, Select, SelectSignal, SignalObject, PulseEvent, ResetEvent, CancelTimer, SetTimer,
              ExitThread, TerminateThread, SuspendThread, ResumeThread, QueueApc, Idle
<1>3. CASE \E t \in Threads : OtherActions(t)
  BY <1>3 DEF OtherActions, TimePasses, ThreadTimeout, PollHup, Idle
<1>4. CASE \/ \E r \in Timers : TimerExpires(r)
           \/ \E p \in Processes : Crash(p)
  BY <1>4 DEF TimerExpires, Crash, Idle
<1> QED
  BY <1>1, <1>2, <1>3, <1>4, NextActions

\* A dead thread acquires no mutex.
LEMMA DeadListStep ==
  ASSUME TypeInv, DeadInv, MutexSteps
  PROVE  \A u \in dead : mutex_list'[u] \subseteq mutex_list[u]
<1>0. mutex_list \in [Threads -> SUBSET Mutexes] /\ dead \subseteq Threads
  BY DEF TypeInv, ObjTypeOK
<1>1. CASE UNCHANGED mutex_list
  BY <1>1
<1>2. ASSUME NEW t \in Threads, NEW w \in WaitRecords, Acquire(t, w), t \in dead => waits[t] # <<>>
      PROVE  \A u \in dead : mutex_list'[u] \subseteq mutex_list[u]
  <2>1. t \notin dead
    BY <1>2 DEF DeadInv
  <2>2. \/ mutex_list' = mutex_list
        \/ \E S : mutex_list' = [mutex_list EXCEPT ![t] = S]
    BY <1>2 DEF Acquire, Satisfied, mutex_satisfied, objVars
  <2> QED
    BY <1>0, <2>1, <2>2
<1>3. ASSUME NEW m \in Mutexes, Released(m)
      PROVE  \A u \in dead : mutex_list'[u] \subseteq mutex_list[u]
  BY <1>0, <1>3 DEF Released
<1> QED
  BY <1>1, <1>2, <1>3 DEF MutexSteps

\* The list of a dead thread is empty once abandon_mutexes has ended.
Abandoning(u) == \E k \in DOMAIN stack : stack[k].op = "abandon" /\ stack[k].x = u

\* abandon_mutexes does not return before the list is empty.
LEMMA AbandoningStep ==
  ASSUME TypeInv, NEW u, Abandoning(u), Next, mutex_list'[u] # {}
  PROVE  Abandoning(u)'
<1>1. PICK k \in DOMAIN stack : stack[k].op = "abandon" /\ stack[k].x = u
  BY DEF Abandoning
<1>2. stack # <<>> /\ stack \in Seq(ServerFrames(dead))
  BY DEF Abandoning, TypeInv
<1>3. CASE stack' = stack
  BY <1>1, <1>3 DEF Abandoning
<1>4. CASE ServerActions
  <2>1. Len(stack) \in Nat /\ DOMAIN stack = 1..Len(stack) /\ Top(stack) = stack[Len(stack)] /\ StackStep(stack')
    BY <1>2, <1>4, TopPop, ServerStack
  <2>2. CASE k < Len(stack)
    <3>1. k \in DOMAIN stack' /\ stack'[k].op = stack[k].op /\ stack'[k].x = stack[k].x
      BY <1>1, <2>1, <2>2 DEF StackStep
    <3> QED
      BY <1>1, <3>1 DEF Abandoning
  <2>3. CASE k = Len(stack)
    <3>1. Top(stack).op = "abandon" /\ Top(stack).x = u
      BY <1>1, <2>1, <2>3
    <3>2. Abandon
      BY <1>4, <3>1 DEF ServerActions, WakeUp, WakeThread, WakeThreadEnd, Kill, Cleanup, PulseReset, SelectRest, TimerSignals
    <3>3. PICK m \in mutex_list[u] : stack' = stack \o <<CallWakeUp(m, 0)>>
      BY <3>1, <3>2 DEF Abandon
    <3>4. /\ DOMAIN (stack \o <<CallWakeUp(m, 0)>>) = 1..(Len(stack) + 1)
          /\ \A i \in 1..Len(stack) : (stack \o <<CallWakeUp(m, 0)>>)[i] = stack[i]
      <4>1. m \in Objects
        BY <3>1, <3>2, FrameThread DEF Abandon, TypeInv, ObjTypeOK, Objects, ThreadOps
      <4>2. CallWakeUp(m, 0) \in ServerFrames(dead)
        BY <4>1, FrameTypes
      <4> QED
        BY <1>2, <4>2, CallPlaces
    <3> QED
      BY <1>1, <2>1, <3>3, <3>4 DEF Abandoning
  <2> QED
    BY <2>1, <2>2, <2>3
<1> QED
  BY <1>2, <1>3, <1>4, IdleSteps

\* Every step keeps the invariant of the dead threads.
LEMMA DeadInvStep ==
  ASSUME TypeInv, DeadInv, Next
  PROVE  DeadInv'
<1>0. dead \subseteq Threads /\ stack \in Seq(ServerFrames(dead)) /\ waits \in [Threads -> Seq(WaitRecords)]
  BY DEF TypeInv, ObjTypeOK
<1>1. ASSUME NEW u \in dead, waits'[u] = <<>>
      PROVE  waits'[u] = <<>> /\ (mutex_list'[u] # {} => Abandoning(u)')
  <2>1. ASSUME mutex_list'[u] # {} PROVE Abandoning(u)'
    <3>1. Abandoning(u)
      BY <2>1, MutexStep, DeadListStep DEF DeadInv, Abandoning
    <3> QED
      BY <2>1, <3>1, AbandoningStep
  <2> QED
    BY <1>1, <2>1
<1>2. CASE ~Kill
  <2>1. DeadSteps
    BY <1>2, DeadStep
  <2> QED
    BY <1>1, <2>1 DEF DeadInv, DeadSteps, Abandoning
<1>3. CASE Kill
  <2>1. PICK t \in Threads : t = Top(stack).x /\ stack # <<>>
    BY <1>3, FrameThread DEF Kill, ThreadOps
  <2>2. dead' \subseteq dead \cup {t}
    BY <1>3, <2>1 DEF Kill
  <2>3. \A u \in dead : waits'[u] = <<>>
    BY <1>0, <1>3, <2>1 DEF Kill, waitVars, DeadInv
  <2>4. ASSUME t \notin dead PROVE waits'[t] = <<>> /\ Abandoning(t)'
    <3>1. waits'[t] = <<>>
      BY <1>0, <1>3, <2>1, <2>4 DEF Kill
    <3>2. \/ stack' = [stack EXCEPT ![Len(stack)].op = "abandon"] \o <<>>
          \/ stack' = [stack EXCEPT ![Len(stack)].op = "abandon"] \o <<CallKill(t)>>
      BY <1>3, <2>1, <2>4 DEF Kill
    <3> DEFINE S == ServerFrames(Threads)
    <3>3. stack \in Seq(S)
      BY <1>0, FramesStay
    <3>4. Top(stack) \in S /\ CallKill(t) \in S
      BY <2>1, <3>3, TopPop, FrameTypes
    <3>5. Top(stack).op = "kill"
      BY <1>3 DEF Kill
    <3>6. PICK g \in S : g = [Top(stack) EXCEPT !.op = "abandon"]
      BY <2>1, <3>4, <3>5, FrameTypes DEF ThreadOps
    <3>7. g.op = "abandon" /\ g.x = t
      BY <2>1, <3>4, <3>6 DEF ServerFrames
    <3>8. PICK a \in Seq(S) : a = [stack EXCEPT ![Len(stack)] = g] /\ Len(a) = Len(stack) /\ a[Len(stack)] = g
      <4> HIDE DEF S
      <4>1. PICK r : r = [stack EXCEPT ![Len(stack)] = g]
        OBVIOUS
      <4>2. r \in Seq(S) /\ Len(r) = Len(stack) /\ r[Len(stack)] = g
        BY <2>1, <3>3, <4>1, ReplaceTop
      <4> QED
        BY <4>1, <4>2
    <3>9. stack' = a \o <<>> \/ stack' = a \o <<CallKill(t)>>
      BY <3>2, <3>6, <3>8 DEF Top
    <3>10. Len(stack) \in 1..Len(a) /\ Len(a) \in Nat \ {0}
      BY <2>1, <3>3, <3>8, TopPop
    <3> HIDE DEF S
    <3>11. a # <<>>
      BY <3>10, EmptySeq
    <3>12. \E k \in DOMAIN stack' : stack'[k] = g
      <4>1. a \o <<>> = a
        BY ConcatEmptySeq
      <4>2. /\ DOMAIN (a \o <<CallKill(t)>>) = 1..(Len(a) + 1)
            /\ \A i \in 1..Len(a) : (a \o <<CallKill(t)>>)[i] = a[i]
        BY <3>4, <3>11, CallPlaces
      <4>3. DOMAIN a = 1..Len(a) /\ Len(stack) \in 1..(Len(a) + 1)
        BY <3>10
      <4> QED
        BY <3>8, <3>9, <3>10, <4>1, <4>2, <4>3
    <3> QED
      BY <3>1, <3>7, <3>12 DEF Abandoning
  <2> QED
    BY <1>1, <2>2, <2>3, <2>4 DEF DeadInv, Abandoning
<1> QED
  BY <1>2, <1>3

\* The invariant of the mutexes in the form that a step keeps.
LEMMA MutexForm ==
  ASSUME TypeInv, OwnerExact, DeadInv
  PROVE  MutexExact
<1> SUFFICES ASSUME NEW m \in Mutexes, stack = <<>>, owner[m] \in dead
             PROVE  FALSE
  BY DEF MutexExact, OwnerExact, Idle
<1>1. m \in mutex_list[owner[m]]
  BY DEF OwnerExact, TypeInv, ObjTypeOK
<1> QED
  BY <1>1 DEF DeadInv

\* mutex.c: the assertions on count, owner and list hold at every step, and abandon_mutexes
\* has taken every mutex from a dead thread when the server is idle again.
THEOREM MutexExactHolds == Spec => []MutexExact
<1> DEFINE Inv == TypeInv /\ SelectInv /\ OwnerExact /\ DeadInv
<1>1. Init => Inv
  <2> SUFFICES ASSUME Init PROVE Inv
    OBVIOUS
  <2>1. OwnerExact /\ DeadInv
    BY ObjectAssumption DEF Init, ObjInit, OwnerExact, DeadInv
  <2> QED
    BY <2>1, InitTypes
<1>2. Inv /\ [Next]_vars => Inv'
  <2> SUFFICES ASSUME Inv, [Next]_vars PROVE Inv'
    OBVIOUS
  <2>1. (TypeInv /\ SelectInv)'
    BY TypeStep
  <2>2. CASE UNCHANGED vars
    BY <2>1, <2>2 DEF vars, runVars, objVars, waitVars, OwnerExact, DeadInv
  <2>3. CASE Next
    BY <2>1, <2>3, MutexStep, OwnerExactStep, DeadInvStep
  <2> QED
    BY <2>2, <2>3
<1>3. Inv => MutexExact
  BY MutexForm
<1> QED
  BY <1>1, <1>2, <1>3, PTL DEF Spec

-----------------------------------------------------------------------------
(***************************************************************************)
(* The APCs of timers.                                                     *)
(***************************************************************************)
Once(q, r) == \A i, j \in DOMAIN q : q[i] = r /\ q[j] = r => i = j
Has(q, r) == \E i \in DOMAIN q : q[i] = r

\* thread_cancel_apc takes the APC out, and leaves the others as they are.
LEMMA CancelledHas ==
  ASSUME NEW S, NEW q \in Seq(S), NEW o
  PROVE  /\ Cancelled(q, o) \in Seq(S)
         /\ \A r : Has(Cancelled(q, o), r) => Has(q, r)
         /\ \A r : Once(q, r) => Once(Cancelled(q, o), r)
         /\ o # NoOwner /\ Once(q, o) => ~Has(Cancelled(q, o), o)
<1>1. CASE Cancelled(q, o) = q /\ (o = NoOwner \/ \A i \in DOMAIN q : q[i] # o)
  BY <1>1 DEF Has
<1>2. ASSUME NEW i \in DOMAIN q, q[i] = o, Cancelled(q, o) = RemoveAt(q, i)
      PROVE  /\ Cancelled(q, o) \in Seq(S)
             /\ \A r : Has(Cancelled(q, o), r) => Has(q, r)
             /\ \A r : Once(q, r) => Once(Cancelled(q, o), r)
             /\ Once(q, o) => ~Has(Cancelled(q, o), o)
  <2> DEFINE p == RemoveAt(q, i)
  <2>1. p \in Seq(S) /\ \A j \in DOMAIN p : \E k \in DOMAIN q : p[j] = q[k]
    BY RemoveAtFacts, RemoveAtPlaces
  <2>2. ASSUME NEW r, Once(q, r)
        PROVE  /\ \A j, k \in DOMAIN p : p[j] \in {r} /\ p[k] \in {r} => j = k
               /\ q[i] \in {r} => \A j \in DOMAIN p : p[j] \notin {r}
    <3>1. \A j, k \in DOMAIN q : q[j] \in {r} /\ q[k] \in {r} => j = k
      BY <2>2 DEF Once
    <3> QED
      BY <3>1, RemoveAtOf
  <2> HIDE DEF p
  <2>3. \A r : Has(p, r) => Has(q, r)
    BY <2>1 DEF Has
  <2>4. \A r : Once(q, r) => Once(p, r)
    BY <2>2 DEF Once
  <2>5. Once(q, o) => ~Has(p, o)
    BY <1>2, <2>2 DEF Has
  <2> QED
    BY <1>2, <2>1, <2>3, <2>4, <2>5 DEF p
<1> QED
  BY <1>1, <1>2, CancelledFacts

\* What a list has, and has once, when an APC is queued at its end.
LEMMA AppendHas ==
  ASSUME NEW S, NEW q \in Seq(S), NEW o \in S
  PROVE  /\ \A r : Has(Append(q, o), r) => Has(q, r) \/ r = o
         /\ \A r : Once(q, r) /\ (r = o => ~Has(q, o)) => Once(Append(q, o), r)
<1>1. PICK n \in Nat : n = Len(q) /\ DOMAIN q = 1..n
  OBVIOUS
<1>2. PICK p \in Seq(S) : p = Append(q, o) /\ DOMAIN p = 1..(n + 1) /\ p[n + 1] = o /\ \A j \in 1..n : p[j] = q[j]
  <2>1. /\ Append(q, o) \in Seq(S) /\ Len(Append(q, o)) = Len(q) + 1
        /\ \A j \in 1..Len(q) : Append(q, o)[j] = q[j]
        /\ Append(q, o)[Len(q) + 1] = o
    BY AppendSet
  <2>2. PICK p : p = Append(q, o)
    OBVIOUS
  <2>3. DOMAIN p = 1..Len(p)
    BY <2>1, <2>2, LenProperties
  <2> QED
    BY <1>1, <2>1, <2>2, <2>3
<1>3. \A j \in 1..(n + 1) : j \in 1..n \/ j = n + 1
  OBVIOUS
<1>4. ASSUME NEW r PROVE Has(p, r) => Has(q, r) \/ r = o
  BY <1>1, <1>2, <1>3 DEF Has
<1>5. ASSUME NEW r, Once(q, r), r = o => ~Has(q, o) PROVE Once(p, r)
  BY <1>1, <1>2, <1>3, <1>5 DEF Once, Has
<1> QED
  BY <1>2, <1>4, <1>5

\* What a list has, and has once, when its first APC is taken.
LEMMA TailHas ==
  ASSUME NEW S, NEW q \in Seq(S), q # <<>>
  PROVE  /\ \A r : Has(Tail(q), r) => Has(q, r)
         /\ \A r : Once(q, r) => Once(Tail(q), r)
<1>1. PICK n \in Nat : n = Len(q) /\ DOMAIN q = 1..n
  OBVIOUS
<1>2. /\ DOMAIN Tail(q) = 1..(n - 1)
      /\ \A j \in 1..(n - 1) : Tail(q)[j] = q[j + 1] /\ j + 1 \in 1..n
  BY <1>1, HeadTailProperties
<1>3. \A i, j \in 1..(n - 1) : i + 1 = j + 1 => i = j
  OBVIOUS
<1> QED
  BY <1>1, <1>2, <1>3 DEF Has, Once

\* What the invariant says of one thread.
TimerApcs(u) ==
  \A r \in Timers :
    /\ Once(user_apc[u], r)
    /\ Has(user_apc[u], r) /\ u \notin dead => apc_thread[r] = u

\* The invariant, thread by thread.
LEMMA TimerApcForm == TimerApcExact <=> \A u \in Threads : TimerApcs(u)
<1>1. ASSUME TimerApcExact, NEW u \in Threads, NEW r \in Timers
      PROVE  /\ Once(user_apc[u], r)
             /\ Has(user_apc[u], r) /\ u \notin dead => apc_thread[r] = u
  BY <1>1 DEF TimerApcExact, Once, Has
<1>2. ASSUME \A u \in Threads : TimerApcs(u), NEW u \in Threads,
             NEW i \in DOMAIN user_apc[u], NEW j \in DOMAIN user_apc[u], user_apc[u][i] \in Timers
      PROVE  /\ u \notin dead => apc_thread[user_apc[u][i]] = u
             /\ user_apc[u][i] = user_apc[u][j] => i = j
  BY <1>2 DEF TimerApcs, Once, Has
<1> QED
  BY <1>1, <1>2 DEF TimerApcExact, TimerApcs

\* The same of the next state.
LEMMA TimerApcFormNext == (TimerApcExact <=> \A u \in Threads : TimerApcs(u))'
BY TimerApcForm, PTL

\* Queueing an APC that no object owns.
LEMMA QueueApcTimers ==
  ASSUME TypeInv, TimerApcExact, NEW u \in Threads, QueueUserApc(u, NoOwner), UNCHANGED <<dead, apc_thread>>
  PROVE  TimerApcExact'
<1>1. /\ user_apc \in [Threads -> Seq(Timers \cup {NoOwner})] /\ NoOwner \notin Timers
      /\ \A v \in Threads : TimerApcs(v)
  BY ServerAssumption, TimerApcForm DEF TypeInv
<1>2. user_apc' = [user_apc EXCEPT ![u] = Append(user_apc[u], NoOwner)]
  BY DEF QueueUserApc, Cancelled
<1>3. TimerApcs(u)'
  <2>1. \A r \in Timers : /\ Once(Append(user_apc[u], NoOwner), r)
                          /\ Has(Append(user_apc[u], NoOwner), r) => Has(user_apc[u], r)
    BY <1>1, AppendHas DEF TimerApcs
  <2>2. user_apc'[u] = Append(user_apc[u], NoOwner)
    BY <1>1, <1>2
  <2> QED
    BY <1>1, <2>1, <2>2 DEF TimerApcs
<1>4. \A v \in Threads : v # u => TimerApcs(v)'
  BY <1>1, <1>2 DEF TimerApcs
<1> QED
  BY <1>3, <1>4, TimerApcFormNext

\* set_timer and cancel_timer: afterwards no live thread has an APC of the timer.
LEMMA CancelApcTimers ==
  ASSUME TypeInv, TimerApcExact, NEW r \in Timers, CancelApc(r), dead' = dead,
         NEW x, apc_thread' = [apc_thread EXCEPT ![r] = x]
  PROVE  TimerApcExact'
<1>1. /\ user_apc \in [Threads -> Seq(Timers \cup {NoOwner})] /\ NoOwner \notin Timers /\ NoThread \notin Threads
      /\ apc_thread \in [Timers -> Threads \cup {NoThread}] /\ \A v \in Threads : TimerApcs(v)
  BY ServerAssumption, ObjectAssumption, TimerApcForm DEF TypeInv
<1>2. ASSUME NEW v \in Threads, v # apc_thread[r] PROVE TimerApcs(v)'
  <2>1. user_apc'[v] = user_apc[v]
    BY <1>1, <1>2 DEF CancelApc
  <2> QED
    BY <1>1, <1>2, <2>1 DEF TimerApcs
<1>3. ASSUME NEW v \in Threads, v = apc_thread[r] PROVE TimerApcs(v)'
  <2>1. user_apc'[v] = Cancelled(user_apc[v], r)
    BY <1>1, <1>3 DEF CancelApc
  <2>2. /\ \A s \in Timers : /\ Once(Cancelled(user_apc[v], r), s)
                             /\ Has(Cancelled(user_apc[v], r), s) => Has(user_apc[v], s)
        /\ ~Has(Cancelled(user_apc[v], r), r)
    BY <1>1, CancelledHas DEF TimerApcs
  <2> QED
    BY <1>1, <2>1, <2>2 DEF TimerApcs
<1> QED
  BY <1>2, <1>3, TimerApcFormNext

\* timer_callback: the APC of the last time is taken back before the new one is queued.
LEMMA TimerExpiresTimers ==
  ASSUME TypeInv, TimerApcExact, NEW r \in Timers, TimerExpires(r)
  PROVE  TimerApcExact'
<1>1. /\ user_apc \in [Threads -> Seq(Timers \cup {NoOwner})] /\ NoOwner \notin Timers /\ NoThread \notin Threads
      /\ apc_thread \in [Timers -> Threads \cup {NoThread}] /\ \A v \in Threads : TimerApcs(v) /\ dead' = dead
  BY ServerAssumption, ObjectAssumption, TimerApcForm DEF TypeInv, TimerExpires, objVars
<1>2. ASSUME NEW u \in Threads, u = apc_thread[r], u \notin dead, QueueUserApc(u, r), apc_thread' = apc_thread
      PROVE  TimerApcExact'
  <2>1. PICK q \in Seq(Timers \cup {NoOwner}) :
          /\ q = Cancelled(user_apc[u], r)
          /\ \A s \in Timers : Once(q, s) /\ (Has(q, s) => Has(user_apc[u], s))
          /\ ~Has(q, r)
    BY <1>1, CancelledHas DEF TimerApcs
  <2>2. /\ user_apc'[u] = Append(q, r) /\ \A v \in Threads : v # u => user_apc'[v] = user_apc[v]
    BY <1>1, <1>2, <2>1 DEF QueueUserApc
  <2>3. \A s \in Timers : /\ Once(Append(q, r), s)
                          /\ Has(Append(q, r), s) => Has(q, s) \/ s = r
    BY <2>1, AppendHas
  <2>4. TimerApcs(u)'
    BY <1>1, <1>2, <2>1, <2>2, <2>3 DEF TimerApcs
  <2>5. \A v \in Threads : v # u => TimerApcs(v)'
    BY <1>1, <1>2, <2>2 DEF TimerApcs
  <2> QED
    BY <2>4, <2>5, TimerApcFormNext
<1>3. CASE apc_thread[r] \in dead \cup {NoThread} /\ user_apc' = user_apc
           /\ apc_thread' = [apc_thread EXCEPT ![r] = NoThread]
  <2>1. \A v \in Threads : TimerApcs(v)'
    BY <1>1, <1>3 DEF TimerApcs
  <2> QED
    BY <2>1, TimerApcFormNext
<1> QED
  BY <1>2, <1>3 DEF TimerExpires, apcVars

\* Every other step that touches the APCs takes some away.
LEMMA FewerTimers ==
  ASSUME TypeInv, TimerApcExact, dead \subseteq dead', apc_thread' = apc_thread,
         \A u \in Threads : \/ user_apc'[u] \in {user_apc[u], <<>>}
                            \/ user_apc[u] # <<>> /\ user_apc'[u] = Tail(user_apc[u])
  PROVE  TimerApcExact'
<1>1. user_apc \in [Threads -> Seq(Timers \cup {NoOwner})] /\ \A v \in Threads : TimerApcs(v)
  BY TimerApcForm DEF TypeInv
<1>2. ASSUME NEW u \in Threads PROVE TimerApcs(u)'
  <2>1. \A r \in Timers : /\ Once(user_apc'[u], r)
                          /\ Has(user_apc'[u], r) => Has(user_apc[u], r)
    <3>1. CASE user_apc'[u] = user_apc[u]
      BY <1>1, <3>1 DEF TimerApcs
    <3>2. CASE user_apc'[u] = <<>>
      BY <3>2 DEF Once, Has
    <3>3. CASE user_apc[u] # <<>> /\ user_apc'[u] = Tail(user_apc[u])
      <4>1. user_apc[u] \in Seq(Timers \cup {NoOwner}) /\ \A r \in Timers : Once(user_apc[u], r)
        BY <1>1 DEF TimerApcs
      <4> QED
        BY <3>3, <4>1, TailHas
    <3> QED
      BY <1>2, <3>1, <3>2, <3>3
  <2> QED
    BY <1>1, <2>1 DEF TimerApcs
<1> QED
  BY <1>2, TimerApcFormNext

\* Every step keeps the invariant of the timers' APCs.
LEMMA TimerApcStep ==
  ASSUME TypeInv, TimerApcExact, Next
  PROVE  TimerApcExact'
<1>0. user_apc \in [Threads -> Seq(Timers \cup {NoOwner})]
  BY DEF TypeInv
<1>1. dead \subseteq dead'
  BY DeadStep DEF DeadSteps, Kill
<1>2. CASE user_apc' = user_apc /\ apc_thread' = apc_thread
  BY <1>1, <1>2, FewerTimers
<1>3. CASE UNCHANGED <<apcVars, timerVars>>
  BY <1>2, <1>3 DEF apcVars, timerVars
<1>4. CASE ServerActions
  <2>1. CASE Cleanup
    <3>1. \A u \in Threads : user_apc'[u] \in {user_apc[u], <<>>}
      BY <1>0, <2>1 DEF Cleanup
    <3> QED
      BY <1>1, <2>1, <3>1, FewerTimers DEF Cleanup, timerVars
  <2> QED
    BY <1>2, <1>3, <1>4, <2>1
    DEF ServerActions, WakeUp, WakeThread, WakeThreadEnd, Kill, Abandon, PulseReset, SelectRest, TimerSignals, apcVars
<1>5. ASSUME NEW t \in Threads, ClientActions(t) PROVE TimerApcExact'
  <2>1. CASE GetApc(t)
    <3>1. \A u \in Threads : \/ user_apc'[u] = user_apc[u]
                             \/ user_apc[u] # <<>> /\ user_apc'[u] = Tail(user_apc[u])
      BY <1>0, <2>1 DEF GetApc, apcVars
    <3> QED
      BY <1>1, <2>1, <3>1, FewerTimers DEF GetApc, timerVars
  <2> QED
    BY <1>3, <1>5, <2>1 DEF ClientActions, SelectAgain, ReadReply, LeaveSuspend, ClientDies, TakeSignal, SetContext
<1>6. ASSUME NEW t \in Threads, RequestActions(t) PROVE TimerApcExact'
  <2>1. ASSUME NEW r \in Timers, CancelTimer(t, r) \/ \E period, apc \in BOOLEAN : SetTimer(t, r, period, apc)
        PROVE  TimerApcExact'
    <3>1. /\ CancelApc(r) /\ dead' = dead
          /\ \E x : apc_thread' = [apc_thread EXCEPT ![r] = x]
      BY <2>1 DEF CancelTimer, SetTimer, objVars
    <3> QED
      BY <3>1, CancelApcTimers
  <2>2. ASSUME NEW u \in Threads, NEW system \in BOOLEAN, QueueApc(t, u, system) PROVE TimerApcExact'
    <3>1. CASE user_apc' = user_apc
      BY <1>2, <2>2, <3>1 DEF QueueApc, timerVars
    <3> QED
      BY <2>2, <3>1, QueueApcTimers DEF QueueApc, objVars, timerVars
  <2>3. ASSUME NEW a, NEW o, NEW n,
               \/ Select(t, a) \/ SelectSignal(t, o, a) \/ SignalObject(t, o, n)
               \/ PulseEvent(t, o) \/ ResetEvent(t, o)
        PROVE  UNCHANGED <<apcVars, timerVars>>
    BY <2>3 DEF Select, SelectSignal, SignalObject, PulseEvent, ResetEvent
  <2>4. ASSUME NEW u, TerminateThread(t, u) \/ SuspendThread(t, u) \/ ResumeThread(t, u) \/ ExitThread(t)
        PROVE  UNCHANGED <<apcVars, timerVars>>
    BY <2>4 DEF TerminateThread, SuspendThread, ResumeThread, ExitThread
  <2> QED
    BY <1>3, <1>6, <2>1, <2>2, <2>3, <2>4 DEF RequestActions
<1>7. ASSUME NEW t \in Threads, OtherActions(t) PROVE TimerApcExact'
  BY <1>3, <1>7 DEF OtherActions, TimePasses, ThreadTimeout, PollHup
<1>8. ASSUME NEW r \in Timers, TimerExpires(r) PROVE TimerApcExact'
  BY <1>8, TimerExpiresTimers
<1>9. CASE \E p \in Processes : Crash(p)
  BY <1>3, <1>9 DEF Crash
<1> QED
  BY <1>4, <1>5, <1>6, <1>7, <1>8, <1>9, NextActions

\* timer.c: cancel_timer takes back the APC that is queued, so that a timer's APC is in
\* one live thread's queue at most, once, and that thread is the one that set it.
THEOREM TimerApcExactHolds == Spec => []TimerApcExact
<1>1. Init => TimerApcExact
  BY DEF Init, TimerApcExact
<1>2. TypeInv /\ SelectInv /\ TimerApcExact /\ [Next]_vars => TimerApcExact'
  <2>1. CASE UNCHANGED vars
    BY <2>1 DEF vars, runVars, objVars, apcVars, timerVars, TimerApcExact
  <2> QED
    BY <2>1, TimerApcStep
<1> QED
  BY <1>1, <1>2, TypesHold, PTL DEF Spec

-----------------------------------------------------------------------------
(***************************************************************************)
(* The client's frames.                                                    *)
(***************************************************************************)
Shaped(q) ==
  \A i \in DOMAIN q :
    /\ q[i].at # "read" => q[i].stolen = <<>>
    /\ q[i].kind = "wait" => i = 1 /\ q[i].at \in {"call", "read", "apc"}
    /\ q[i].kind = "suspend" =>
         /\ i = Len(q)
         /\ q[i].args = SuspendArgs /\ q[i].at \in {"set", "call", "read", "ctx"}
InHandler(q) == q # <<>> /\ Top(q).kind = "suspend" /\ Top(q).at # "set"

\* The invariant of the clients, thread by thread.
LEMMA ClientForm ==
  ClientInv <=> (\A t \in Threads : Shaped(client[t])) /\ (\A t \in context : InHandler(client[t]))
BY DEF ClientInv, ClientShape, ContextInv, Shaped, InHandler

\* The same of the next state.
LEMMA ClientFormNext ==
  (ClientInv <=> (\A t \in Threads : Shaped(client[t])) /\ (\A t \in context : InHandler(client[t])))'
BY ClientForm, PTL

\* The kinds of frames a client has, and where they can be.
LEMMA KindFacts ==
  \A f \in ClientFrames : f.kind \in {"wait", "suspend"} /\ f.at \in {"set", "call", "read", "apc", "ctx"}
BY DEF ClientFrames

\* A step that changes the frames of one thread.
LEMMA OneClient ==
  ASSUME TypeInv, ClientInv, NEW t \in Threads, NEW q, Shaped(q), client' = [client EXCEPT ![t] = q],
         context' \subseteq context \cup {t}, t \in context' => InHandler(q)
  PROVE  ClientInv'
<1>1. /\ client \in [Threads -> Seq(ClientFrames)] /\ context \subseteq Threads
      /\ \A u \in Threads : Shaped(client[u])
      /\ \A u \in context : InHandler(client[u])
  BY ClientForm DEF TypeInv
<1>2. \A u \in Threads : client'[u] = IF u = t THEN q ELSE client[u]
  BY <1>1
<1>3. \A u \in Threads : Shaped(client'[u])
  BY <1>1, <1>2
<1>4. \A u \in context' : InHandler(client'[u])
  BY <1>1, <1>2
<1> QED
  BY <1>3, <1>4, ClientFormNext

\* The innermost frame changes.
LEMMA TopShaped ==
  ASSUME NEW q \in Seq(ClientFrames), q # <<>>, Shaped(q), NEW x \in ClientFrames,
         x.kind = Top(q).kind, x.args = Top(q).args, x.at # "read" => x.stolen = <<>>,
         x.kind = "wait" => x.at \in {"call", "read", "apc"},
         x.kind = "suspend" => x.at \in {"set", "call", "read", "ctx"}
  PROVE  /\ Shaped([q EXCEPT ![Len(q)] = x])
         /\ x.kind = "suspend" /\ x.at # "set" => InHandler([q EXCEPT ![Len(q)] = x])
<1>1. /\ Len(q) \in DOMAIN q /\ Top(q) = q[Len(q)]
  BY TopPop
<1> DEFINE r == [q EXCEPT ![Len(q)] = x]
<1>3. /\ Len(r) = Len(q) /\ DOMAIN r = DOMAIN q /\ r # <<>> /\ Top(r) = x
      /\ \A i \in DOMAIN q : r[i] = IF i = Len(q) THEN x ELSE q[i]
  BY ReplaceTop
<1> HIDE DEF r
<1>4. Shaped(r)
  BY <1>1, <1>3 DEF Shaped
<1>5. x.kind = "suspend" /\ x.at # "set" => InHandler(r)
  BY <1>3 DEF InHandler
<1> QED
  BY <1>4, <1>5 DEF r

\* The innermost frame ends.
LEMMA PopShaped ==
  ASSUME NEW q \in Seq(ClientFrames), q # <<>>, Shaped(q)
  PROVE  Shaped(Pop(q)) /\ (Top(q).kind = "wait" => Pop(q) = <<>> /\ Len(q) = 1)
<1>1. PICK n \in Nat \ {0} : /\ n = Len(q) /\ DOMAIN q = 1..n /\ n \in DOMAIN q /\ Top(q) = q[n]
                             /\ Pop(q) \in Seq(ClientFrames) /\ Len(Pop(q)) = n - 1
                             /\ DOMAIN Pop(q) = 1..(n - 1) /\ \A i \in 1..(n - 1) : Pop(q)[i] = q[i]
  BY TopPop
<1>2. \A i \in 1..(n - 1) : i \in 1..n /\ i # n
  OBVIOUS
<1>3. \A i \in 1..n : q[i].kind \in {"wait", "suspend"}
  <2>1. \A i \in 1..n : q[i] \in ClientFrames
    BY <1>1
  <2> QED
    BY <2>1, KindFacts
<1>4. Shaped(Pop(q))
  <2>1. PICK p \in Seq(ClientFrames) : p = Pop(q) /\ DOMAIN p = 1..(n - 1) /\ \A i \in 1..(n - 1) : p[i] = q[i]
    BY <1>1
  <2>2. \A i \in 1..(n - 1) : q[i].kind = "wait"
    BY <1>1, <1>2, <1>3 DEF Shaped
  <2>3. Shaped(p)
    <3>1. ASSUME NEW i \in DOMAIN p
          PROVE  /\ p[i].at # "read" => p[i].stolen = <<>>
                 /\ p[i].kind = "wait" => i = 1 /\ p[i].at \in {"call", "read", "apc"}
                 /\ p[i].kind = "wait"
      <4>1. i \in 1..n /\ i \in 1..(n - 1) /\ p[i] = q[i]
        BY <1>2, <2>1
      <4> QED
        BY <1>1, <2>2, <4>1 DEF Shaped
    <3> QED
      BY <3>1 DEF Shaped
  <2> QED
    BY <2>1, <2>3
<1>5. ASSUME Top(q).kind = "wait" PROVE Pop(q) = <<>> /\ Len(q) = 1
  <2>1. n = 1
    BY <1>1, <1>5 DEF Shaped
  <2> QED
    BY <1>1, <2>1, NotEmpty
<1> QED
  BY <1>4, <1>5

\* The request select returns to the innermost frame, or makes it wait for a reply.
LEMMA SelectShaped ==
  ASSUME NEW q \in Seq(ClientFrames), q # <<>>, Shaped(q), Top(q).stolen = <<>>, NEW r
  PROVE  /\ Shaped(Returned(q, r)) /\ Shaped(Reading(q))
         /\ InHandler(q) => InHandler(Returned(q, r)) /\ InHandler(Reading(q))
<1>0. Top(q).kind \in {"wait", "suspend"}
  BY TopPop, KindFacts
<1>1. ASSUME Returned(q, r) = Pop(q), Top(q).kind = "wait"
      PROVE  Shaped(Returned(q, r)) /\ (InHandler(q) => InHandler(Returned(q, r)))
  BY <1>1, PopShaped DEF InHandler
<1>2. ASSUME NEW x \in ClientFrames, Returned(q, r) = [q EXCEPT ![Len(q)] = x],
             x.kind = Top(q).kind, x.args = Top(q).args, x.stolen = Top(q).stolen,
             x.at = IF x.kind = "suspend" THEN "ctx" ELSE "apc"
      PROVE  Shaped(Returned(q, r)) /\ (InHandler(q) => InHandler(Returned(q, r)))
  BY <1>0, <1>2, TopShaped DEF InHandler
<1>3. ASSUME NEW x \in ClientFrames, Reading(q) = [q EXCEPT ![Len(q)] = x],
             x.kind = Top(q).kind, x.args = Top(q).args, x.stolen = Top(q).stolen, x.at = "read"
      PROVE  Shaped(Reading(q)) /\ (InHandler(q) => InHandler(Reading(q)))
  BY <1>0, <1>3, TopShaped DEF InHandler
<1>4. Shaped(Returned(q, r)) /\ (InHandler(q) => InHandler(Returned(q, r)))
  BY <1>1, <1>2, ReturnedFacts, PopShaped DEF InHandler
<1>5. Shaped(Reading(q)) /\ (InHandler(q) => InHandler(Reading(q)))
  BY <1>3, ReadingFacts
<1> QED
  BY <1>4, <1>5

\* The request select keeps the invariant of the clients.
LEMMA DoSelectClient ==
  ASSUME TypeInv, ClientInv, NEW t \in Threads, NEW q \in Seq(ClientFrames), q # <<>>, Shaped(q), Top(q).stolen = <<>>,
         t \in context => InHandler(q), context' = context, DoSelect(t, q)
  PROVE  ClientInv'
<1>1. \E p : client' = [client EXCEPT ![t] = p] /\ (p = Reading(q) \/ \E r : p = Returned(q, r))
  BY DEF DoSelect
<1>2. PICK p : client' = [client EXCEPT ![t] = p] /\ (p = Reading(q) \/ \E r : p = Returned(q, r))
  BY <1>1
<1>3. Shaped(p) /\ (InHandler(q) => InHandler(p))
  BY <1>2, SelectShaped
<1> QED
  BY <1>2, <1>3, OneClient

\* A new wait of the application.
LEMMA CallShaped ==
  ASSUME NEW a \in WaitArgs
  PROVE  /\ <<Call("wait", a)>> \in Seq(ClientFrames) /\ <<Call("wait", a)>> # <<>>
         /\ Shaped(<<Call("wait", a)>>) /\ Top(<<Call("wait", a)>>).stolen = <<>>
         /\ Top(<<Call("wait", a)>>).args = a
<1>1. PICK f \in ClientFrames : f = Call("wait", a) /\ f.kind = "wait" /\ f.at = "call" /\ f.stolen = <<>> /\ f.args = a
  BY ClientFrameTypes DEF Call
<1>2. /\ <<f>> \in Seq(ClientFrames) /\ <<f>> # <<>> /\ Top(<<f>>) = f /\ DOMAIN <<f>> = {1} /\ <<f>>[1] = f
  BY DEF Top
<1>3. Shaped(<<f>>)
  BY <1>1, <1>2 DEF Shaped
<1> QED
  BY <1>1, <1>2, <1>3

\* The rest of select_on keeps the invariant of the clients.
LEMMA SelectRestClient ==
  ASSUME TypeInv, SelectInv, ClientInv, SelectRest
  PROVE  ClientInv'
<1>0. stack \in Seq(ServerFrames(dead)) /\ stack # <<>> /\ client \in [Threads -> Seq(ClientFrames)]
  BY DEF TypeInv, SelectRest
<1>1. PICK t \in Threads : t = Top(stack).x
  BY <1>0, FrameThread DEF SelectRest, ThreadOps
<1>2. Selecting(t)
  <2>1. Len(stack) \in DOMAIN stack /\ Top(stack) = stack[Len(stack)] /\ Top(stack).op = "select"
    BY <1>0, TopPop DEF SelectRest
  <2>2. Len(stack) = 1
    BY <2>1 DEF SelectInv
  <2> QED
    BY <1>0, <1>1, <2>1, <2>2 DEF Selecting
<1>3. /\ Len(client[t]) = 1 /\ client[t][1].at = "call" /\ client[t] \in Seq(ClientFrames) /\ client[t] # <<>>
      /\ Top(client[t]) = client[t][1]
  BY <1>0, <1>2, NotEmpty DEF SelectInv, Top
<1>4. Shaped(client[t]) /\ (t \in context => InHandler(client[t]))
  BY ClientForm
<1>5. Top(client[t]).stolen = <<>>
  BY <1>3, <1>4 DEF Shaped
<1>6. \/ client' = client
      \/ \E p : client' = [client EXCEPT ![t] = p] /\ (p = Reading(client[t]) \/ \E r : p = Returned(client[t], r))
  <2>1. ASSUME NEW r, client' = [client EXCEPT ![t] = Returned(@, r)]
        PROVE  \E p : client' = [client EXCEPT ![t] = p] /\ (p = Reading(client[t]) \/ \E s : p = Returned(client[t], s))
    BY <1>0, <2>1
  <2>2. ASSUME client' = [client EXCEPT ![t] = Reading(@)]
        PROVE  \E p : client' = [client EXCEPT ![t] = p] /\ (p = Reading(client[t]) \/ \E s : p = Returned(client[t], s))
    BY <1>0, <2>2
  <2> QED
    BY <1>1, <2>1, <2>2 DEF SelectRest
<1>7. context' = context
  BY DEF SelectRest
<1>8. ASSUME client' = client PROVE ClientInv'
  BY <1>7, <1>8 DEF ClientInv, ClientShape, ContextInv
<1>9. ASSUME NEW p, client' = [client EXCEPT ![t] = p], p = Reading(client[t]) \/ \E r : p = Returned(client[t], r)
      PROVE  ClientInv'
  <2>1. Shaped(p) /\ (InHandler(client[t]) => InHandler(p))
    BY <1>3, <1>4, <1>5, <1>9, SelectShaped
  <2> QED
    BY <1>4, <1>7, <1>9, <2>1, OneClient
<1> QED
  BY <1>6, <1>8, <1>9

\* Reading a reply keeps the invariant of the clients.
LEMMA ReadReplyClient ==
  ASSUME TypeInv, ClientInv, NEW t \in Threads, ReadReply(t)
  PROVE  ClientInv'
<1> DEFINE c == client[t]
           n == Len(client[t])
<1>0. client \in [Threads -> Seq(ClientFrames)] /\ c \in Seq(ClientFrames) /\ c # <<>> /\ Top(c).at = "read"
      /\ pipe[t] \in Seq(Replies) /\ pipe[t] # <<>> /\ context' = context
  BY DEF TypeInv, ReadReply, ClientAt
<1>1. Shaped(c) /\ (t \in context => InHandler(c))
  BY ClientForm
<1>2. /\ n \in DOMAIN c /\ Top(c) = c[n] /\ Top(c) \in ClientFrames
  BY <1>0, TopPop
<1>3. Top(c).stolen \in Seq(Replies) /\ <<>> \in Seq(Replies) /\ Top(c).kind \in {"wait", "suspend"}
  BY <1>2, ClientFrameTypes, EmptySeq, KindFacts
<1>4. <<Head(pipe[t])>> \o c[n].stolen \in Seq(Replies)
  BY <1>0, <1>2, <1>3, PipeFacts
<1>5. ASSUME NEW s \in Seq(Replies)
      PROVE  /\ [c EXCEPT ![n].stolen = s] \in Seq(ClientFrames) /\ [c EXCEPT ![n].stolen = s] # <<>>
             /\ Shaped([c EXCEPT ![n].stolen = s]) /\ Top([c EXCEPT ![n].stolen = s]).stolen = s
             /\ InHandler(c) => InHandler([c EXCEPT ![n].stolen = s])
  <2> DEFINE r == [c EXCEPT ![n].stolen = s]
  <2>1. /\ r \in Seq(ClientFrames) /\ Len(r) = n /\ r # <<>> /\ DOMAIN r = DOMAIN c
        /\ \A i \in DOMAIN c :
             /\ r[i].kind = c[i].kind /\ r[i].args = c[i].args /\ r[i].at = c[i].at
             /\ r[i].stolen = IF i = n THEN s ELSE c[i].stolen
    BY <1>0, StolenFacts
  <2> HIDE DEF r
  <2>2. Top(r) = r[n]
    BY <2>1 DEF Top
  <2>3. Shaped(r)
    <3>1. ASSUME NEW i \in DOMAIN r
          PROVE  /\ r[i].at # "read" => r[i].stolen = <<>>
                 /\ r[i].kind = "wait" => i = 1 /\ r[i].at \in {"call", "read", "apc"}
                 /\ r[i].kind = "suspend" =>
                      /\ i = Len(r)
                      /\ r[i].args = SuspendArgs /\ r[i].at \in {"set", "call", "read", "ctx"}
      <4>1. i \in DOMAIN c /\ r[i].kind = c[i].kind /\ r[i].args = c[i].args /\ r[i].at = c[i].at
        BY <2>1, <3>1
      <4>2. r[i].at # "read" => r[i].stolen = <<>>
        <5>1. CASE i = n
          BY <1>0, <1>2, <4>1, <5>1
        <5>2. CASE i # n
          BY <1>1, <2>1, <4>1, <5>2 DEF Shaped
        <5> QED
          BY <5>1, <5>2
      <4>3. Len(r) = Len(c)
        BY <2>1
      <4> HIDE DEF c, n
      <4> QED
        BY <1>1, <4>1, <4>2, <4>3 DEF Shaped
    <3> QED
      BY <3>1 DEF Shaped
  <2>4. Top(r).stolen = s /\ Top(r).kind = Top(c).kind /\ Top(r).at = Top(c).at
    BY <1>2, <2>1, <2>2
  <2>5. InHandler(c) => InHandler(r)
    BY <2>1, <2>4 DEF InHandler
  <2> QED
    BY <2>1, <2>3, <2>4, <2>5 DEF r
<1> HIDE DEF c, n
<1>6. \/ client' = client
      \/ client' = [client EXCEPT ![t] = Returned([c EXCEPT ![n].stolen = <<>>], Head(pipe[t]).r)]
      \/ client' = [client EXCEPT ![t] = [c EXCEPT ![n].stolen = <<Head(pipe[t])>> \o c[n].stolen]]
  BY <1>0 DEF ReadReply, c, n
<1>7. ASSUME client' = client PROVE ClientInv'
  BY <1>0, <1>7 DEF ClientInv, ClientShape, ContextInv
<1>8. ASSUME client' = [client EXCEPT ![t] = Returned([c EXCEPT ![n].stolen = <<>>], Head(pipe[t]).r)]
      PROVE  ClientInv'
  <2>1. PICK r \in Seq(ClientFrames) : r = [c EXCEPT ![n].stolen = <<>>] /\ r # <<>> /\ Shaped(r) /\ Top(r).stolen = <<>>
                                       /\ (InHandler(c) => InHandler(r))
    BY <1>3, <1>5
  <2>2. PICK p : p = Returned(r, Head(pipe[t]).r)
    OBVIOUS
  <2>3. Shaped(p) /\ (InHandler(r) => InHandler(p))
    BY <2>1, <2>2, SelectShaped
  <2> QED
    BY <1>0, <1>1, <1>8, <2>1, <2>2, <2>3, OneClient
<1>9. ASSUME client' = [client EXCEPT ![t] = [c EXCEPT ![n].stolen = <<Head(pipe[t])>> \o c[n].stolen]]
      PROVE  ClientInv'
  <2>1. PICK r : r = [c EXCEPT ![n].stolen = <<Head(pipe[t])>> \o c[n].stolen] /\ Shaped(r)
                 /\ (InHandler(c) => InHandler(r))
    BY <1>4, <1>5
  <2> QED
    BY <1>0, <1>1, <1>9, <2>1, OneClient
<1> QED
  BY <1>6, <1>7, <1>8, <1>9

\* The handler starts, sets its context, and returns; a wait of the application ends after
\* an APC, or starts over.
LEMMA HandlerClient ==
  ASSUME TypeInv, ClientInv, NEW t \in Threads, GetApc(t) \/ LeaveSuspend(t) \/ TakeSignal(t) \/ SetContext(t)
  PROVE  ClientInv'
<1>0. client \in [Threads -> Seq(ClientFrames)] /\ client[t] \in Seq(ClientFrames)
  BY DEF TypeInv
<1>1. PICK c \in Seq(ClientFrames) : c = client[t]
  BY <1>0
<1>2. Shaped(c) /\ (t \in context => InHandler(c))
  BY <1>1, ClientForm
<1>3. ASSUME c # <<>>
      PROVE  /\ Len(c) \in DOMAIN c /\ Top(c) = c[Len(c)] /\ Top(c).kind \in {"wait", "suspend"}
             /\ \A a \in {"set", "call", "read", "apc", "ctx"} :
                  /\ [c EXCEPT ![Len(c)].at = a] \in Seq(ClientFrames) /\ [c EXCEPT ![Len(c)].at = a] # <<>>
                  /\ Top([c EXCEPT ![Len(c)].at = a]).kind = Top(c).kind /\ Top([c EXCEPT ![Len(c)].at = a]).at = a
                  /\ /\ Top(c).at # "read"
                     /\ Top(c).kind = "wait" => a \in {"call", "read", "apc"}
                     /\ Top(c).kind = "suspend" => a \in {"set", "call", "read", "ctx"}
                     => Shaped([c EXCEPT ![Len(c)].at = a])
  <2>1. Len(c) \in DOMAIN c /\ Top(c) = c[Len(c)] /\ Top(c) \in ClientFrames
    BY <1>3, TopPop
  <2>2. Top(c).kind \in {"wait", "suspend"}
    BY <2>1, KindFacts
  <2>3. ASSUME NEW a \in {"set", "call", "read", "apc", "ctx"}
        PROVE  /\ [c EXCEPT ![Len(c)].at = a] \in Seq(ClientFrames) /\ [c EXCEPT ![Len(c)].at = a] # <<>>
               /\ Top([c EXCEPT ![Len(c)].at = a]).kind = Top(c).kind /\ Top([c EXCEPT ![Len(c)].at = a]).at = a
               /\ /\ Top(c).at # "read"
                  /\ Top(c).kind = "wait" => a \in {"call", "read", "apc"}
                  /\ Top(c).kind = "suspend" => a \in {"set", "call", "read", "ctx"}
                  => Shaped([c EXCEPT ![Len(c)].at = a])
    <3> DEFINE r == [c EXCEPT ![Len(c)].at = a]
    <3>1. /\ r \in Seq(ClientFrames) /\ Len(r) = Len(c) /\ r # <<>> /\ DOMAIN r = DOMAIN c
          /\ \A i \in DOMAIN c :
               /\ r[i].kind = c[i].kind /\ r[i].args = c[i].args /\ r[i].stolen = c[i].stolen
               /\ r[i].at = IF i = Len(c) THEN a ELSE c[i].at
      BY <1>3, PlaceFacts, ZenonT(60)
    <3> HIDE DEF r
    <3>2. Top(r) = r[Len(c)]
      BY <3>1 DEF Top
    <3>3. Top(r).kind = Top(c).kind /\ Top(r).at = a
      BY <2>1, <3>1, <3>2
    <3>4. ASSUME Top(c).at # "read",
                 Top(c).kind = "wait" => a \in {"call", "read", "apc"},
                 Top(c).kind = "suspend" => a \in {"set", "call", "read", "ctx"}
          PROVE  Shaped(r)
      <4>1. ASSUME NEW i \in DOMAIN r
            PROVE  /\ r[i].at # "read" => r[i].stolen = <<>>
                   /\ r[i].kind = "wait" => i = 1 /\ r[i].at \in {"call", "read", "apc"}
                   /\ r[i].kind = "suspend" =>
                        /\ i = Len(r)
                        /\ r[i].args = SuspendArgs /\ r[i].at \in {"set", "call", "read", "ctx"}
        <5>1. i \in DOMAIN c /\ Len(r) = Len(c) /\ r[i].kind = c[i].kind /\ r[i].args = c[i].args
              /\ r[i].stolen = c[i].stolen /\ (i = Len(c) \/ r[i].at = c[i].at)
          BY <3>1, <4>1
        <5>2. CASE i = Len(c)
          BY <1>2, <2>1, <3>2, <3>3, <3>4, <5>1, <5>2 DEF Shaped
        <5>3. CASE i # Len(c)
          BY <1>2, <5>1, <5>3 DEF Shaped
        <5> QED
          BY <5>2, <5>3
      <4> QED
        BY <4>1 DEF Shaped
    <3> QED
      BY <3>1, <3>3, <3>4 DEF r
  <2> QED
    BY <2>1, <2>2, <2>3
<1>4. CASE GetApc(t)
  <2>1. c # <<>> /\ Top(c).at = "apc" /\ context' = context
    BY <1>1, <1>4 DEF GetApc, ClientAt
  <2>2. Top(c).kind = "wait"
    <3>1. Len(c) \in DOMAIN c /\ Top(c) = c[Len(c)] /\ Top(c).kind \in {"wait", "suspend"}
      BY <1>3, <2>1
    <3>2. c[Len(c)].kind = "suspend" => c[Len(c)].at \in {"set", "call", "read", "ctx"}
      BY <1>2, <3>1 DEF Shaped
    <3> QED
      BY <2>1, <3>1, <3>2
  <2>3. t \notin context
    BY <1>2, <2>2 DEF InHandler
  <2>4. \/ client' = client \/ client' = [client EXCEPT ![t] = Pop(c)]
        \/ client' = [client EXCEPT ![t] = [c EXCEPT ![Len(c)].at = "call"]]
    BY <1>0, <1>1, <1>4 DEF GetApc
  <2>5. Shaped(Pop(c)) /\ Shaped([c EXCEPT ![Len(c)].at = "call"])
    BY <1>2, <1>3, <2>1, <2>2, PopShaped
  <2>6. CASE client' = client
    BY <2>1, <2>6 DEF ClientInv, ClientShape, ContextInv
  <2>7. ASSUME NEW p, client' = [client EXCEPT ![t] = p], Shaped(p) PROVE ClientInv'
    BY <2>1, <2>3, <2>7, OneClient
  <2> QED
    BY <2>4, <2>5, <2>6, <2>7
<1>5. CASE LeaveSuspend(t)
  <2>1. c # <<>> /\ context' = context \ {t} /\ client' = [client EXCEPT ![t] = Pop(c)]
    BY <1>0, <1>1, <1>5 DEF LeaveSuspend, ClientAt
  <2>2. Shaped(Pop(c))
    BY <1>2, <2>1, PopShaped
  <2> QED
    BY <2>1, <2>2, OneClient
<1>6. CASE TakeSignal(t)
  <2>1. /\ context' = context /\ client' = [client EXCEPT ![t] = Append(c, HandlerFrame)]
        /\ \A i \in DOMAIN c : c[i].kind # "suspend"
    BY <1>0, <1>1, <1>6 DEF TakeSignal, HandlerFrame
  <2>2. t \notin context
    <3>1. InHandler(c) => c # <<>> /\ c[Len(c)].kind = "suspend"
      BY <1>3 DEF InHandler
    <3> QED
      BY <1>2, <1>3, <2>1, <3>1
  <2>3. PICK p \in Seq(ClientFrames) : p = Append(c, HandlerFrame)
    BY HandlerFacts
  <2>4. PICK n \in Nat : n = Len(c) /\ DOMAIN c = 1..n /\ Len(p) = n + 1 /\ DOMAIN p = 1..(n + 1)
                         /\ p[n + 1] = HandlerFrame /\ \A i \in 1..n : p[i] = c[i]
    <3>1. PICK n \in Nat : n = Len(c) /\ DOMAIN c = 1..n
      OBVIOUS
    <3> QED
      BY <2>3, <3>1, HandlerFacts
  <2>5. \A i \in 1..(n + 1) : i \in 1..n \/ i = n + 1
    OBVIOUS
  <2>6. \A i \in 1..n : c[i].kind = "wait"
    <3>1. \A i \in 1..n : c[i] \in ClientFrames
      BY <2>4
    <3> QED
      BY <2>1, <2>4, <3>1, KindFacts
  <2>7. Shaped(p)
    <3>1. ASSUME NEW i \in DOMAIN p
          PROVE  /\ p[i].at # "read" => p[i].stolen = <<>>
                 /\ p[i].kind = "wait" => i = 1 /\ p[i].at \in {"call", "read", "apc"}
                 /\ p[i].kind = "suspend" =>
                      /\ i = Len(p)
                      /\ p[i].args = SuspendArgs /\ p[i].at \in {"set", "call", "read", "ctx"}
      <4>1. CASE i = n + 1
        <5>1. p[i] = HandlerFrame /\ i = Len(p)
          BY <2>4, <4>1
        <5> QED
          BY <5>1, HandlerFacts
      <4>2. CASE i \in 1..n
        BY <1>2, <2>4, <2>6, <4>2 DEF Shaped
      <4> QED
        BY <2>4, <2>5, <4>1, <4>2
    <3> QED
      BY <3>1 DEF Shaped
  <2> QED
    BY <2>1, <2>2, <2>3, <2>7, OneClient
<1>7. CASE SetContext(t)
  <2>1. c # <<>> /\ Top(c).at = "set" /\ context' = context \cup {t}
        /\ client' = [client EXCEPT ![t] = [c EXCEPT ![Len(c)].at = "call"]]
    BY <1>0, <1>1, <1>7 DEF SetContext, ClientAt
  <2>2. Top(c).kind = "suspend"
    BY <1>2, <1>3, <2>1 DEF Shaped
  <2>3. PICK p \in Seq(ClientFrames) : p = [c EXCEPT ![Len(c)].at = "call"] /\ p # <<>> /\ Shaped(p)
                                       /\ Top(p).kind = "suspend" /\ Top(p).at = "call"
    BY <1>3, <2>1, <2>2
  <2>4. InHandler(p)
    BY <2>3 DEF InHandler
  <2> QED
    BY <2>1, <2>3, <2>4, OneClient
<1> QED
  BY <1>4, <1>5, <1>6, <1>7

\* Every step keeps the invariant of the clients.
LEMMA ClientInvStep ==
  ASSUME TypeInv, SelectInv, ClientInv, Next
  PROVE  ClientInv'
<1>0. client \in [Threads -> Seq(ClientFrames)]
  BY DEF TypeInv
<1>1. CASE client' = client /\ context' \subseteq context
  <2>1. (\A t \in Threads : Shaped(client'[t])) /\ (\A t \in context' : InHandler(client'[t]))
    BY <1>1, ClientForm
  <2> QED
    BY <2>1, ClientFormNext
<1>2. CASE UNCHANGED <<context, clientVars>>
  BY <1>1, <1>2 DEF clientVars
<1>3. CASE ServerActions
  BY <1>1, <1>2, <1>3, SelectRestClient
  DEF ServerActions, WakeUp, WakeThread, WakeThreadEnd, Kill, Abandon, Cleanup, PulseReset, TimerSignals, clientVars
<1>4. ASSUME NEW t \in Threads, ClientActions(t) PROVE ClientInv'
  <2>1. CASE SelectAgain(t)
    <3>1. client[t] # <<>> /\ Top(client[t]).at = "call" /\ context' = context /\ DoSelect(t, client[t])
      BY <2>1 DEF SelectAgain, ClientAt
    <3>2. Shaped(client[t]) /\ (t \in context => InHandler(client[t]))
      BY ClientForm
    <3>3. Top(client[t]).stolen = <<>>
      <4>1. PICK q \in Seq(ClientFrames) : q = client[t]
        BY <1>0
      <4>2. Len(q) \in DOMAIN q /\ Top(q) = q[Len(q)]
        BY <3>1, <4>1, TopPop
      <4> QED
        BY <3>1, <3>2, <4>1, <4>2 DEF Shaped
    <3> QED
      BY <1>0, <3>1, <3>2, <3>3, DoSelectClient
  <2>2. CASE ClientDies(t)
    BY <1>1, <2>2 DEF ClientDies
  <2> QED
    BY <1>4, <2>1, <2>2, ReadReplyClient, HandlerClient DEF ClientActions
<1>5. ASSUME NEW t \in Threads, RequestActions(t) PROVE ClientInv'
  <2>0. t \in context => client[t] # <<>>
    BY ClientForm DEF InHandler
  <2>1. ASSUME NEW a \in WaitArgs, Select(t, a) PROVE ClientInv'
    <3>1. DoSelect(t, <<Call("wait", a)>>) /\ context' = context /\ t \notin context
      BY <2>0, <2>1 DEF Select, Runs
    <3> QED
      BY <3>1, CallShaped, DoSelectClient
  <2>2. ASSUME NEW o, NEW a \in WaitArgs, SelectSignal(t, o, a) PROVE ClientInv'
    <3>1. client' = [client EXCEPT ![t] = <<Call("wait", a)>>] /\ context' = context /\ t \notin context
      BY <2>0, <2>2 DEF SelectSignal, Runs
    <3> QED
      BY <3>1, CallShaped, OneClient
  <2>3. ASSUME NEW o, NEW n,
               \/ SignalObject(t, o, n) \/ PulseEvent(t, o) \/ ResetEvent(t, o)
               \/ CancelTimer(t, o) \/ \E period, apc \in BOOLEAN : SetTimer(t, o, period, apc)
               \/ TerminateThread(t, o) \/ ResumeThread(t, o)
               \/ \E system \in BOOLEAN : QueueApc(t, o, system)
        PROVE  UNCHANGED <<context, clientVars>>
    BY <2>3 DEF SignalObject, PulseEvent, ResetEvent, CancelTimer, SetTimer, TerminateThread, ResumeThread, QueueApc
  <2>4. ASSUME NEW u, SuspendThread(t, u) \/ ExitThread(t)
        PROVE  client' = client /\ context' = context
    BY <2>4 DEF SuspendThread, ExitThread
  <2> QED
    BY <1>1, <1>2, <1>5, <2>1, <2>2, <2>3, <2>4 DEF RequestActions
<1>6. ASSUME NEW t \in Threads, OtherActions(t) PROVE ClientInv'
  BY <1>2, <1>6 DEF OtherActions, TimePasses, ThreadTimeout, PollHup
<1>7. CASE \E r \in Timers : TimerExpires(r)
  BY <1>2, <1>7 DEF TimerExpires
<1>8. CASE \E p \in Processes : Crash(p)
  BY <1>1, <1>8 DEF Crash
<1> QED
  BY <1>3, <1>4, <1>5, <1>6, <1>7, <1>8, NextActions

\* The frames of the clients have their shape at every step.
THEOREM ClientHolds == Spec => []ClientInv
<1>1. Init => ClientInv
  BY DEF Init, ClientInv, ClientShape, ContextInv
<1>2. TypeInv /\ SelectInv /\ ClientInv /\ [Next]_vars => ClientInv'
  <2>1. CASE UNCHANGED vars
    BY <2>1 DEF vars, runVars, clientVars, ClientInv, ClientShape, ContextInv
  <2> QED
    BY <2>1, ClientInvStep
<1> QED
  BY <1>1, <1>2, TypesHold, PTL DEF Spec

\* thread.c, set_thread_context: "nested suspend or exception, shouldn't happen": a thread
\* sets its context only when it has none.
THEOREM NoNestedSuspendHolds == Spec => NoNestedSuspend
<1>1. TypeInv /\ ClientInv /\ [Next]_vars => [\A t \in Threads : SetContext(t) => t \notin context]_vars
  BY DEF SetContext, ClientAt, ClientInv, ContextInv
<1> QED
  BY <1>1, TypesHold, ClientHolds, PTL DEF Spec, NoNestedSuspend

\* A dead thread waits for nothing, and abandon_mutexes has taken its mutexes or will.
THEOREM DeadHolds == Spec => []DeadInv
<1>1. Init => DeadInv
  BY DEF Init, ObjInit, DeadInv
<1>2. TypeInv /\ DeadInv /\ [Next]_vars => DeadInv'
  <2>1. CASE UNCHANGED vars
    BY <2>1 DEF vars, runVars, objVars, waitVars, DeadInv
  <2> QED
    BY <2>1, DeadInvStep
<1> QED
  BY <1>1, <1>2, TypesHold, PTL DEF Spec

-----------------------------------------------------------------------------
(***************************************************************************)
(* Where the reply to a wait is: lists of records with a cookie.           *)
(***************************************************************************)
\* Two lists, one after the other.
LEMMA HoldsConcat ==
  ASSUME NEW S, NEW p \in Seq(S), NEW q \in Seq(S), NEW n
  PROVE  /\ Holds(p \o q, n) <=> Holds(p, n) \/ Holds(q, n)
         /\ HoldsOnce(p \o q, n) <=> HoldsOnce(p, n) /\ HoldsOnce(q, n) /\ ~(Holds(p, n) /\ Holds(q, n))
<1>1. /\ Len(p) \in Nat /\ DOMAIN p = 1..Len(p) /\ Len(q) \in Nat /\ DOMAIN q = 1..Len(q)
      /\ p \o q \in Seq(S) /\ Len(p \o q) = Len(p) + Len(q)
      /\ \A i \in 1..(Len(p) + Len(q)) : (p \o q)[i] = IF i <= Len(p) THEN p[i] ELSE q[i - Len(p)]
  BY ConcatProperties
<1> DEFINE r == p \o q
<1> HIDE DEF r
<1>2. DOMAIN r = 1..(Len(p) + Len(q))
  BY <1>1 DEF r
<1>3. \A i \in DOMAIN p : i \in DOMAIN r /\ r[i] = p[i]
  BY <1>1, <1>2 DEF r
<1>4. \A i \in DOMAIN q : i + Len(p) \in DOMAIN r /\ i + Len(p) \notin DOMAIN p /\ r[i + Len(p)] = q[i]
  <2>1. ASSUME NEW i \in DOMAIN q
        PROVE  i + Len(p) \in DOMAIN r /\ i + Len(p) \notin DOMAIN p /\ r[i + Len(p)] = q[i]
    <3>1. i + Len(p) \in 1..(Len(p) + Len(q)) /\ ~(i + Len(p) <= Len(p)) /\ (i + Len(p)) - Len(p) = i
      BY <1>1
    <3> QED
      BY <1>1, <1>2, <3>1 DEF r
  <2> QED
    BY <2>1
<1>5. \A i \in DOMAIN r : i \in DOMAIN p \/ (i \notin DOMAIN p /\ i - Len(p) \in DOMAIN q /\ r[i] = q[i - Len(p)])
  BY <1>1, <1>2 DEF r
<1>6. Holds(r, n) <=> Holds(p, n) \/ Holds(q, n)
  BY <1>3, <1>4, <1>5 DEF Holds
<1>7. ASSUME HoldsOnce(p, n), HoldsOnce(q, n), ~(Holds(p, n) /\ Holds(q, n))
      PROVE  HoldsOnce(r, n)
  <2>1. ASSUME NEW i \in DOMAIN r, NEW j \in DOMAIN r, r[i].cookie = n, r[j].cookie = n PROVE i = j
    <3>1. CASE i \in DOMAIN p /\ j \in DOMAIN p
      BY <1>3, <1>7, <2>1, <3>1 DEF HoldsOnce
    <3>2. CASE i \notin DOMAIN p /\ j \notin DOMAIN p
      <4>1. i - Len(p) = j - Len(p)
        BY <1>5, <1>7, <2>1, <3>2 DEF HoldsOnce
      <4> QED
        BY <1>1, <1>2, <4>1
    <3>3. CASE (i \in DOMAIN p) # (j \in DOMAIN p)
      BY <1>3, <1>5, <1>7, <2>1, <3>3 DEF Holds
    <3> QED
      BY <3>1, <3>2, <3>3
  <2> QED
    BY <2>1 DEF HoldsOnce
<1>8. ASSUME HoldsOnce(r, n) PROVE HoldsOnce(p, n) /\ HoldsOnce(q, n) /\ ~(Holds(p, n) /\ Holds(q, n))
  <2>1. HoldsOnce(p, n)
    BY <1>3, <1>8 DEF HoldsOnce
  <2>2. ASSUME NEW i \in DOMAIN q, NEW j \in DOMAIN q, q[i].cookie = n, q[j].cookie = n PROVE i = j
    <3>1. i + Len(p) = j + Len(p)
      BY <1>4, <1>8, <2>2 DEF HoldsOnce
    <3> QED
      BY <1>1, <3>1
  <2>3. ASSUME NEW i \in DOMAIN p, NEW j \in DOMAIN q, p[i].cookie = n, q[j].cookie = n PROVE FALSE
    BY <1>3, <1>4, <1>8, <2>3 DEF HoldsOnce
  <2> QED
    BY <2>1, <2>2, <2>3 DEF HoldsOnce, Holds
<1> QED
  BY <1>6, <1>7, <1>8 DEF r

\* No record, or one.
LEMMA HoldsFew ==
  ASSUME NEW x, NEW n
  PROVE  /\ ~Holds(<<>>, n) /\ HoldsOnce(<<>>, n)
         /\ (Holds(<<x>>, n) <=> x.cookie = n) /\ HoldsOnce(<<x>>, n)
BY DEF Holds, HoldsOnce

\* One record more, at the end or at the front.
LEMMA HoldsMore ==
  ASSUME NEW S, NEW q \in Seq(S), NEW x \in S, NEW n
  PROVE  /\ Append(q, x) \in Seq(S) /\ <<x>> \o q \in Seq(S)
         /\ Holds(Append(q, x), n) <=> Holds(q, n) \/ x.cookie = n
         /\ HoldsOnce(Append(q, x), n) <=> HoldsOnce(q, n) /\ ~(Holds(q, n) /\ x.cookie = n)
         /\ Holds(<<x>> \o q, n) <=> Holds(q, n) \/ x.cookie = n
         /\ HoldsOnce(<<x>> \o q, n) <=> HoldsOnce(q, n) /\ ~(Holds(q, n) /\ x.cookie = n)
<1>1. <<x>> \in Seq(S)
  OBVIOUS
<1>2. Append(q, x) = q \o <<x>>
  BY AppendIsConcat
<1>3. Append(q, x) \in Seq(S) /\ <<x>> \o q \in Seq(S)
  BY <1>1, ConcatProperties
<1> DEFINE one == <<x>>
<1>4. (Holds(one, n) <=> x.cookie = n) /\ HoldsOnce(one, n)
  BY HoldsFew
<1>5. one \in Seq(S)
  BY <1>1
<1> HIDE DEF one
<1>6. /\ Holds(q \o one, n) <=> Holds(q, n) \/ Holds(one, n)
      /\ HoldsOnce(q \o one, n) <=> HoldsOnce(q, n) /\ HoldsOnce(one, n) /\ ~(Holds(q, n) /\ Holds(one, n))
      /\ Holds(one \o q, n) <=> Holds(one, n) \/ Holds(q, n)
      /\ HoldsOnce(one \o q, n) <=> HoldsOnce(one, n) /\ HoldsOnce(q, n) /\ ~(Holds(one, n) /\ Holds(q, n))
  BY <1>5, HoldsConcat
<1>7. q \o one = Append(q, x) /\ one \o q = <<x>> \o q
  BY <1>2 DEF one
<1> QED
  BY <1>3, <1>4, <1>6, <1>7

\* One record less: the first or the last.
LEMMA HoldsLess ==
  ASSUME NEW S, NEW q \in Seq(S), q # <<>>, NEW n
  PROVE  /\ Holds(q, n) <=> Holds(Tail(q), n) \/ Head(q).cookie = n
         /\ HoldsOnce(q, n) <=> HoldsOnce(Tail(q), n) /\ ~(Holds(Tail(q), n) /\ Head(q).cookie = n)
         /\ Holds(q, n) <=> Holds(Pop(q), n) \/ Top(q).cookie = n
         /\ HoldsOnce(q, n) <=> HoldsOnce(Pop(q), n) /\ ~(Holds(Pop(q), n) /\ Top(q).cookie = n)
<1>1. Head(q) \in S /\ Tail(q) \in Seq(S) /\ q = <<Head(q)>> \o Tail(q)
  <2>1. PICK k \in Nat \ {0} : k = Len(q)
    BY TopPop
  <2>2. PICK h \in S : h = Head(q) /\ h = q[1]
    BY HeadTailProperties
  <2>3. PICK z \in Seq(S) : z = Tail(q) /\ Len(z) = k - 1 /\ \A i \in 1..(k - 1) : z[i] = q[i + 1]
    BY <2>1, HeadTailProperties
  <2>4. PICK r \in Seq(S) : r = <<h>> \o z /\ Len(r) = 1 + (k - 1)
                            /\ \A i \in 1..(1 + (k - 1)) : r[i] = IF i <= 1 THEN h ELSE z[i - 1]
    <3>1. <<h>> \in Seq(S) /\ Len(<<h>>) = 1 /\ <<h>>[1] = h
      OBVIOUS
    <3> DEFINE one == <<h>>
    <3>2. one \in Seq(S) /\ Len(one) = 1 /\ one[1] = h
      BY <3>1
    <3> HIDE DEF one
    <3>3. /\ one \o z \in Seq(S) /\ Len(one \o z) = Len(one) + Len(z)
          /\ \A i \in 1..(Len(one) + Len(z)) : (one \o z)[i] = IF i <= Len(one) THEN one[i] ELSE z[i - Len(one)]
      BY <3>2, ConcatProperties
    <3>4. \A i \in 1..(1 + (k - 1)) : i <= 1 => i = 1
      OBVIOUS
    <3>5. /\ one \o z \in Seq(S) /\ Len(one \o z) = 1 + (k - 1)
          /\ \A i \in 1..(1 + (k - 1)) : (one \o z)[i] = IF i <= 1 THEN h ELSE z[i - 1]
      BY <2>3, <3>2, <3>3, <3>4
    <3> QED
      BY <3>5 DEF one
  <2>5. ASSUME NEW i \in 1..k PROVE r[i] = q[i]
    <3>1. i \in 1..(1 + (k - 1)) /\ (i <= 1 => i = 1) /\ (~(i <= 1) => i - 1 \in 1..(k - 1) /\ (i - 1) + 1 = i)
      OBVIOUS
    <3> QED
      BY <2>2, <2>3, <2>4, <3>1
  <2>6. Len(r) = Len(q) /\ \A i \in 1..Len(r) : r[i] = q[i]
    BY <2>1, <2>4, <2>5
  <2>7. r = q
    BY <2>6, SeqEqual
  <2> QED
    BY <2>2, <2>3, <2>4, <2>7
<1>2. Top(q) \in S /\ Pop(q) \in Seq(S)
  BY TopPop
<1>3. q = Append(Pop(q), Top(q))
  <2>1. PICK r \in Seq(S) : r = Append(Pop(q), Top(q))
    <3>1. Append(Pop(q), Top(q)) \in Seq(S)
      BY <1>2, AppendProperties
    <3> QED
      BY <3>1
  <2>2. PICK k \in Nat \ {0} : k = Len(q) /\ Len(Pop(q)) = k - 1 /\ Top(q) = q[k] /\ \A i \in 1..(k - 1) : Pop(q)[i] = q[i]
    BY TopPop
  <2>3. Len(r) = (k - 1) + 1 /\ r[(k - 1) + 1] = Top(q) /\ \A i \in 1..(k - 1) : r[i] = Pop(q)[i]
    <3>1. PICK z \in Seq(S), y \in S : z = Pop(q) /\ y = Top(q)
      BY <1>2
    <3>2. /\ Len(Append(z, y)) = Len(z) + 1 /\ Append(z, y)[Len(z) + 1] = y
          /\ \A i \in 1..Len(z) : Append(z, y)[i] = z[i]
      BY AppendProperties
    <3>3. Len(r) = Len(z) + 1 /\ r[Len(z) + 1] = y /\ \A i \in 1..Len(z) : r[i] = z[i]
      BY <2>1, <3>1, <3>2
    <3>4. Len(z) = k - 1
      BY <2>2, <3>1
    <3> QED
      BY <3>1, <3>3, <3>4
  <2>4. (k - 1) + 1 = k /\ \A i \in 1..k : i \in 1..(k - 1) \/ i = k
    OBVIOUS
  <2>5. Len(r) = Len(q) /\ \A i \in 1..Len(r) : r[i] = q[i]
    BY <2>2, <2>3, <2>4
  <2>6. r = q
    BY <2>5, SeqEqual
  <2> QED
    BY <2>1, <2>6
<1>4. /\ Holds(<<Head(q)>> \o Tail(q), n) <=> Holds(Tail(q), n) \/ Head(q).cookie = n
      /\ HoldsOnce(<<Head(q)>> \o Tail(q), n) <=> HoldsOnce(Tail(q), n) /\ ~(Holds(Tail(q), n) /\ Head(q).cookie = n)
  BY <1>1, HoldsMore
<1>5. /\ Holds(Append(Pop(q), Top(q)), n) <=> Holds(Pop(q), n) \/ Top(q).cookie = n
      /\ HoldsOnce(Append(Pop(q), Top(q)), n) <=> HoldsOnce(Pop(q), n) /\ ~(Holds(Pop(q), n) /\ Top(q).cookie = n)
  BY <1>2, HoldsMore
<1> QED
  BY <1>1, <1>3, <1>4, <1>5
\* From c to d only frame m changes, as far as frames read for a reply.
SameBut(c, d, m) ==
  \A n : n # m =>
    /\ AtRead(c, n) <=> AtRead(d, n)
    /\ AtRead(c, n) => d[n].args = c[n].args /\ d[n].stolen = c[n].stolen
Same(c, d) ==
  \A n :
    /\ AtRead(c, n) <=> AtRead(d, n)
    /\ AtRead(c, n) => d[n].args = c[n].args /\ d[n].stolen = c[n].stolen

\* What the frames other than m have stolen.
Rest(c, m, n) == \E l \in DOMAIN c : l # m /\ AtRead(c, l) /\ Holds(c[l].stolen, n)
RestOnce(c, m, n) ==
  \A k, l \in DOMAIN c :
    k # m /\ AtRead(c, k) /\ Holds(c[k].stolen, n) /\ l # m /\ AtRead(c, l) /\ Holds(c[l].stolen, n) =>
      k = l /\ HoldsOnce(c[k].stolen, n)

\* What is stolen, by frame m and by the others.
LEMMA KeepsSplit ==
  ASSUME NEW c, NEW m, NEW n
  PROVE  /\ Keeps(c, n) <=> Rest(c, m, n) \/ (AtRead(c, m) /\ Holds(c[m].stolen, n))
         /\ KeepsOnce(c, n) <=> /\ RestOnce(c, m, n)
                                /\ AtRead(c, m) /\ Holds(c[m].stolen, n) =>
                                     HoldsOnce(c[m].stolen, n) /\ ~Rest(c, m, n)
<1>1. Keeps(c, n) <=> Rest(c, m, n) \/ (AtRead(c, m) /\ Holds(c[m].stolen, n))
  BY DEF Keeps, Rest, AtRead
<1>2. ASSUME KeepsOnce(c, n)
      PROVE  /\ RestOnce(c, m, n)
             /\ AtRead(c, m) /\ Holds(c[m].stolen, n) => HoldsOnce(c[m].stolen, n) /\ ~Rest(c, m, n)
  BY <1>2 DEF KeepsOnce, Rest, RestOnce, AtRead
<1>3. ASSUME RestOnce(c, m, n),
             AtRead(c, m) /\ Holds(c[m].stolen, n) => HoldsOnce(c[m].stolen, n) /\ ~Rest(c, m, n)
      PROVE  KeepsOnce(c, n)
  <2>1. ASSUME NEW k \in DOMAIN c, NEW l \in DOMAIN c, AtRead(c, k), Holds(c[k].stolen, n),
               AtRead(c, l), Holds(c[l].stolen, n)
        PROVE  k = l /\ HoldsOnce(c[k].stolen, n)
    <3>1. CASE k # m /\ l # m
      BY <1>3, <2>1, <3>1 DEF RestOnce
    <3>2. CASE k = m /\ l = m
      BY <1>3, <2>1, <3>2
    <3>3. CASE (k = m) # (l = m)
      BY <1>3, <2>1, <3>3 DEF Rest
    <3> QED
      BY <3>1, <3>2, <3>3
  <2> QED
    BY <2>1 DEF KeepsOnce
<1> QED
  BY <1>1, <1>2, <1>3

\* When only frame m changes, the others keep what they have stolen.
LEMMA RestSame ==
  ASSUME NEW c, NEW d, NEW m, SameBut(c, d, m), NEW n
  PROVE  (Rest(c, m, n) <=> Rest(d, m, n)) /\ (RestOnce(c, m, n) <=> RestOnce(d, m, n))
<1>1. \A l : l # m /\ AtRead(c, l) => AtRead(d, l) /\ l \in DOMAIN d /\ d[l].stolen = c[l].stolen
  BY DEF SameBut, AtRead
<1>2. \A l : l # m /\ AtRead(d, l) => AtRead(c, l) /\ l \in DOMAIN c /\ d[l].stolen = c[l].stolen
  BY DEF SameBut, AtRead
<1>3. Rest(c, m, n) <=> Rest(d, m, n)
  BY <1>1, <1>2 DEF Rest
<1>4. RestOnce(c, m, n) => RestOnce(d, m, n)
  BY <1>1, <1>2 DEF RestOnce
<1>5. RestOnce(d, m, n) => RestOnce(c, m, n)
  BY <1>1, <1>2 DEF RestOnce
<1> QED
  BY <1>3, <1>4, <1>5

\* A change that no frame notices that reads for a reply.
LEMMA QuietChange ==
  ASSUME NEW c, NEW d, Same(c, d)
  PROVE  /\ \A w : Fits(w, c) => Fits(w, d)
         /\ \A w, p : Answered(w, p, c) => Answered(w, p, d)
<1>1. ASSUME NEW w, Fits(w, c) PROVE Fits(w, d)
  BY <1>1 DEF Same, Fits
<1>2. ASSUME NEW w, NEW p, Answered(w, p, c) PROVE Answered(w, p, d)
  <2>1. \A n \in Nat : (Keeps(c, n) <=> Keeps(d, n)) /\ (KeepsOnce(c, n) => KeepsOnce(d, n))
    <3>1. \A l : AtRead(c, l) => AtRead(d, l) /\ l \in DOMAIN d /\ d[l].stolen = c[l].stolen
      BY DEF Same, AtRead
    <3>2. \A l : AtRead(d, l) => AtRead(c, l) /\ l \in DOMAIN c /\ d[l].stolen = c[l].stolen
      BY DEF Same, AtRead
    <3>3. ASSUME NEW n \in Nat PROVE Keeps(c, n) <=> Keeps(d, n)
      BY <3>1, <3>2 DEF Keeps
    <3>4. ASSUME NEW n \in Nat PROVE KeepsOnce(c, n) => KeepsOnce(d, n)
      BY <3>1, <3>2 DEF KeepsOnce
    <3> QED
      BY <3>3, <3>4
  <2>2. ASSUME NEW n \in Nat
        PROVE  /\ AtRead(d, n) <=> Holds(w, n) \/ Holds(p, n) \/ Keeps(d, n)
               /\ ~(Holds(w, n) /\ Holds(p, n)) /\ ~(Holds(w, n) /\ Keeps(d, n)) /\ ~(Holds(p, n) /\ Keeps(d, n))
               /\ HoldsOnce(w, n) /\ HoldsOnce(p, n) /\ KeepsOnce(d, n)
    <3>1. AtRead(d, n) <=> AtRead(c, n)
      BY DEF Same
    <3> QED
      BY <1>2, <2>1, <3>1 DEF Answered
  <2>3. ASSUME NEW l \in DOMAIN d, AtRead(d, l)
        PROVE  \A i \in DOMAIN d[l].stolen : d[l].stolen[i].cookie = Junk \/ d[l].stolen[i].cookie < l
    <3>1. AtRead(c, l) /\ l \in DOMAIN c /\ d[l].stolen = c[l].stolen
      BY <2>3 DEF Same, AtRead
    <3> QED
      BY <1>2, <3>1 DEF Answered
  <2> QED
    BY <2>2, <2>3 DEF Answered
<1> QED
  BY <1>1, <1>2

\* The innermost frame changes, or ends.
LEMMA TopChange ==
  ASSUME NEW c \in Seq(ClientFrames), c # <<>>, NEW x \in ClientFrames
  PROVE  /\ SameBut(c, [c EXCEPT ![Len(c)] = x], Len(c))
         /\ AtRead([c EXCEPT ![Len(c)] = x], Len(c)) <=> x.at = "read"
         /\ [c EXCEPT ![Len(c)] = x][Len(c)] = x
         /\ SameBut(c, Pop(c), Len(c)) /\ ~AtRead(Pop(c), Len(c))
         /\ AtRead(c, Len(c)) <=> Top(c).at = "read"
<1>1. PICK n \in Nat \ {0} : /\ n = Len(c) /\ DOMAIN c = 1..n /\ n \in DOMAIN c /\ Top(c) = c[n]
                             /\ DOMAIN Pop(c) = 1..(n - 1) /\ \A i \in 1..(n - 1) : Pop(c)[i] = c[i]
  BY TopPop
<1>2. \A i \in 1..n : i = n \/ i \in 1..(n - 1)
  OBVIOUS
<1>3. \A i \in 1..(n - 1) : i \in 1..n /\ i # n
  OBVIOUS
<1>4. SameBut(c, Pop(c), n) /\ ~AtRead(Pop(c), n)
  <2>1. PICK d : d = Pop(c) /\ DOMAIN d = 1..(n - 1) /\ \A i \in 1..(n - 1) : d[i] = c[i]
    BY <1>1
  <2>2. SameBut(c, d, n) /\ ~AtRead(d, n)
    BY <1>1, <1>2, <1>3, <2>1 DEF SameBut, AtRead
  <2> QED
    BY <2>1, <2>2
<1> DEFINE d == [c EXCEPT ![Len(c)] = x]
<1>5. DOMAIN d = DOMAIN c /\ d[Len(c)] = x /\ \A i \in DOMAIN c : d[i] = IF i = Len(c) THEN x ELSE c[i]
  BY ReplaceTop
<1> HIDE DEF d
<1>6. SameBut(c, d, n) /\ (AtRead(d, n) <=> x.at = "read")
  BY <1>1, <1>5 DEF SameBut, AtRead
<1>7. AtRead(c, n) <=> Top(c).at = "read"
  BY <1>1 DEF AtRead
<1> QED
  BY <1>1, <1>4, <1>5, <1>6, <1>7 DEF d

\* One frame more that does not read.
LEMMA MoreFrames ==
  ASSUME NEW c \in Seq(ClientFrames), NEW x \in ClientFrames, x.at # "read"
  PROVE  Same(c, Append(c, x))
<1>1. PICK d \in Seq(ClientFrames) : /\ d = Append(c, x) /\ Len(d) = Len(c) + 1 /\ d[Len(c) + 1] = x
                                     /\ \A i \in 1..Len(c) : d[i] = c[i]
  <2>1. /\ Append(c, x) \in Seq(ClientFrames) /\ Len(Append(c, x)) = Len(c) + 1 /\ Append(c, x)[Len(c) + 1] = x
        /\ \A i \in 1..Len(c) : Append(c, x)[i] = c[i]
    BY AppendProperties
  <2> QED
    BY <2>1
<1>2. PICK n \in Nat : n = Len(c) /\ DOMAIN c = 1..n /\ DOMAIN d = 1..(n + 1)
  BY <1>1, LenProperties
<1>3. (\A i \in 1..(n + 1) : i \in 1..n \/ i = n + 1) /\ (\A i \in 1..n : i \in 1..(n + 1))
  OBVIOUS
<1>4. \A i : (AtRead(c, i) <=> AtRead(d, i)) /\ (AtRead(c, i) => d[i] = c[i])
  <2>1. \A i \in 1..n : AtRead(c, i) <=> AtRead(d, i)
    BY <1>1, <1>2, <1>3 DEF AtRead
  <2>2. ~AtRead(d, n + 1) /\ ~AtRead(c, n + 1)
    BY <1>1, <1>2 DEF AtRead
  <2>3. \A i : AtRead(c, i) \/ AtRead(d, i) => i \in 1..n \/ i = n + 1
    BY <1>2, <1>3 DEF AtRead
  <2>4. \A i : AtRead(c, i) => d[i] = c[i]
    BY <1>1, <1>2 DEF AtRead
  <2> QED
    BY <2>1, <2>2, <2>3, <2>4
<1>5. Same(c, d)
  BY <1>4 DEF Same
<1> QED
  BY <1>1, <1>5

\* A frame that does not read changes to another that does not read, or ends.
LEMMA SameFrames ==
  ASSUME NEW c, NEW d, NEW m, SameBut(c, d, m), ~AtRead(c, m), ~AtRead(d, m)
  PROVE  Same(c, d)
BY DEF SameBut, Same

\* Two such changes in a row are one.
LEMMA SameTrans ==
  ASSUME NEW b, NEW c, NEW d, Same(b, c), Same(c, d)
  PROVE  Same(b, d)
BY DEF Same

\* The request select returns.
LEMMA ReturnedBut ==
  ASSUME NEW c \in Seq(ClientFrames), c # <<>>, NEW r
  PROVE  SameBut(c, Returned(c, r), Len(c)) /\ ~AtRead(Returned(c, r), Len(c))
<1>1. CASE Returned(c, r) = Pop(c)
  <2>1. PICK x \in ClientFrames : x = Top(c)
    BY TopPop
  <2> QED
    BY <1>1, TopChange
<1>2. ASSUME NEW x \in ClientFrames, Returned(c, r) = [c EXCEPT ![Len(c)] = x], x.at \in {"ctx", "apc"}
      PROVE  SameBut(c, Returned(c, r), Len(c)) /\ ~AtRead(Returned(c, r), Len(c))
  BY <1>2, TopChange
<1>3. \/ Returned(c, r) = Pop(c)
      \/ \E x \in ClientFrames : Returned(c, r) = [c EXCEPT ![Len(c)] = x] /\ x.at \in {"ctx", "apc"}
  BY ReturnedFacts
<1> QED
  BY <1>1, <1>2, <1>3

\* The innermost frame, which does not read, returns: for the frames that read nothing changes.
LEMMA ReturnedSame ==
  ASSUME NEW c \in Seq(ClientFrames), c # <<>>, Top(c).at # "read", NEW r
  PROVE  Same(c, Returned(c, r))
<1>1. PICK x \in ClientFrames : x = Top(c)
  BY TopPop
<1>2. ~AtRead(c, Len(c))
  BY <1>1, TopChange
<1> QED
  BY <1>2, ReturnedBut, SameFrames
\* A wait begins: frame m of the client reads for its reply.
LEMMA WaitBegins ==
  ASSUME NEW w \in Seq(WaitRecords), NEW p, NEW c, NEW d, NEW m \in Nat, SameBut(c, d, m),
         ~AtRead(c, m), AtRead(d, m), d[m].stolen = <<>>,
         NEW x \in WaitRecords, x.cookie = m, x.objs = d[m].args.objs
  PROVE  /\ Fits(w, c) /\ (\A l \in DOMAIN w : w[l].cookie < m) => Fits(Append(w, x), d)
         /\ Answered(w, p, c) => Answered(Append(w, x), p, d)
<1>1. PICK v \in Seq(WaitRecords) : /\ v = Append(w, x) /\ Len(v) = Len(w) + 1 /\ v[Len(w) + 1] = x
                                    /\ \A i \in 1..Len(w) : v[i] = w[i]
  <2>1. /\ Append(w, x) \in Seq(WaitRecords) /\ Len(Append(w, x)) = Len(w) + 1 /\ Append(w, x)[Len(w) + 1] = x
        /\ \A i \in 1..Len(w) : Append(w, x)[i] = w[i]
    BY AppendProperties
  <2> QED
    BY <2>1
<1>2. PICK k \in Nat : k = Len(w) /\ DOMAIN w = 1..k /\ DOMAIN v = 1..(k + 1)
  BY <1>1, LenProperties
<1>3. ASSUME Fits(w, c), \A l \in DOMAIN w : w[l].cookie < m PROVE Fits(v, d)
  <2>1. ASSUME NEW l \in 1..k
        PROVE  /\ AtRead(d, v[l].cookie) /\ v[l].objs = d[v[l].cookie].args.objs
               /\ \A j \in 1..(l - 1) : v[j].cookie < v[l].cookie
    <3>1. v[l] = w[l] /\ l \in DOMAIN w
      BY <1>1, <1>2
    <3>2. /\ AtRead(c, w[l].cookie) /\ w[l].objs = c[w[l].cookie].args.objs
          /\ \A j \in 1..(l - 1) : w[j].cookie < w[l].cookie
      BY <1>3, <3>1 DEF Fits
    <3>3. w[l].cookie # m
      BY <3>2
    <3>4. \A j \in 1..(l - 1) : j \in 1..k
      OBVIOUS
    <3> QED
      BY <1>1, <1>2, <3>1, <3>2, <3>3, <3>4 DEF SameBut
  <2>2. /\ AtRead(d, v[k + 1].cookie) /\ v[k + 1].objs = d[v[k + 1].cookie].args.objs
        /\ \A j \in 1..k : v[j].cookie < v[k + 1].cookie
    BY <1>1, <1>2, <1>3
  <2>3. (k + 1) - 1 = k /\ \A l \in 1..(k + 1) : l \in 1..k \/ l = k + 1
    OBVIOUS
  <2> QED
    BY <1>2, <2>1, <2>2, <2>3 DEF Fits
<1>4. ASSUME Answered(w, p, c) PROVE Answered(v, p, d)
  <2>1. ASSUME NEW n \in Nat
        PROVE  /\ AtRead(d, n) <=> Holds(v, n) \/ Holds(p, n) \/ Keeps(d, n)
               /\ ~(Holds(v, n) /\ Holds(p, n)) /\ ~(Holds(v, n) /\ Keeps(d, n)) /\ ~(Holds(p, n) /\ Keeps(d, n))
               /\ HoldsOnce(v, n) /\ HoldsOnce(p, n) /\ KeepsOnce(d, n)
    <3>1. /\ AtRead(c, n) <=> Holds(w, n) \/ Holds(p, n) \/ Keeps(c, n)
          /\ ~(Holds(w, n) /\ Holds(p, n)) /\ ~(Holds(w, n) /\ Keeps(c, n)) /\ ~(Holds(p, n) /\ Keeps(c, n))
          /\ HoldsOnce(w, n) /\ HoldsOnce(p, n) /\ KeepsOnce(c, n)
      BY <1>4 DEF Answered
    <3>2. /\ Holds(v, n) <=> Holds(w, n) \/ m = n
          /\ HoldsOnce(v, n) <=> HoldsOnce(w, n) /\ ~(Holds(w, n) /\ m = n)
      BY <1>1, HoldsMore
    <3>3. ~Holds(d[m].stolen, n)
      BY HoldsFew
    <3>4. (Keeps(d, n) <=> Rest(d, m, n)) /\ (KeepsOnce(d, n) <=> RestOnce(d, m, n))
      BY <3>3, KeepsSplit
    <3>5. (Keeps(c, n) <=> Rest(c, m, n)) /\ (KeepsOnce(c, n) <=> RestOnce(c, m, n))
      BY KeepsSplit
    <3>6. (Keeps(c, n) <=> Keeps(d, n)) /\ (KeepsOnce(c, n) <=> KeepsOnce(d, n))
      BY <3>4, <3>5, RestSame
    <3>7. n # m => (AtRead(d, n) <=> AtRead(c, n))
      BY DEF SameBut
    <3> QED
      BY <3>1, <3>2, <3>6, <3>7
  <2>2. ASSUME NEW l \in DOMAIN d, AtRead(d, l)
        PROVE  \A i \in DOMAIN d[l].stolen : d[l].stolen[i].cookie = Junk \/ d[l].stolen[i].cookie < l
    <3>1. CASE l = m
      BY <3>1
    <3>2. CASE l # m
      <4>1. AtRead(c, l) /\ l \in DOMAIN c /\ d[l].stolen = c[l].stolen
        BY <2>2, <3>2 DEF SameBut, AtRead
      <4> QED
        BY <1>4, <4>1 DEF Answered
    <3> QED
      BY <3>1, <3>2
  <2> QED
    BY <2>1, <2>2 DEF Answered
<1> QED
  BY <1>1, <1>3, <1>4

\* Waits that have the same cookies and objects.
LEMMA WaitsAlike ==
  ASSUME NEW w \in Seq(WaitRecords), NEW v, DOMAIN v = DOMAIN w, NEW p, NEW c,
         \A l \in DOMAIN w : v[l].cookie = w[l].cookie /\ v[l].objs = w[l].objs
  PROVE  (Fits(w, c) => Fits(v, c)) /\ (Answered(w, p, c) => Answered(v, p, c))
<1>1. ASSUME Fits(w, c) PROVE Fits(v, c)
  <2>1. \A l \in DOMAIN w : \A k \in 1..(l - 1) : k \in DOMAIN w
    OBVIOUS
  <2> QED
    BY <1>1, <2>1 DEF Fits
<1>2. \A n : (Holds(v, n) <=> Holds(w, n)) /\ (HoldsOnce(v, n) <=> HoldsOnce(w, n))
  BY DEF Holds, HoldsOnce
<1>3. ASSUME Answered(w, p, c) PROVE Answered(v, p, c)
  BY <1>2, <1>3 DEF Answered
<1> QED
  BY <1>1, <1>3

\* The innermost wait ends: its reply is sent, or it has no cookie.
LEMMA WaitEnds ==
  ASSUME NEW w \in Seq(WaitRecords), w # <<>>, NEW p \in Seq(Replies), NEW c
  PROVE  /\ Fits(w, c) => Fits(Pop(w), c)
         /\ \A x \in Replies : x.cookie = Top(w).cookie /\ Answered(w, p, c) => Answered(Pop(w), Append(p, x), c)
         /\ Top(w).cookie = Junk /\ Answered(w, p, c) => Answered(Pop(w), p, c)
<1>1. PICK v : v = Pop(w)
  OBVIOUS
<1>2. DOMAIN v \subseteq DOMAIN w /\ DOMAIN v \subseteq Nat /\ (\A l \in DOMAIN v : v[l] = w[l])
      /\ \A l \in DOMAIN v : \A k \in 1..(l - 1) : k \in DOMAIN v
  <2>1. PICK n \in Nat \ {0} : n = Len(w) /\ DOMAIN w = 1..n /\ DOMAIN v = 1..(n - 1) /\ \A i \in 1..(n - 1) : v[i] = w[i]
    BY <1>1, TopPop
  <2> QED
    BY <2>1
<1>3. Fits(w, c) => Fits(v, c)
  BY <1>2 DEF Fits
<1>4. \A n : /\ Holds(w, n) <=> Holds(v, n) \/ Top(w).cookie = n
             /\ HoldsOnce(w, n) <=> HoldsOnce(v, n) /\ ~(Holds(v, n) /\ Top(w).cookie = n)
  BY <1>1, HoldsLess
<1>5. ASSUME NEW x \in Replies, x.cookie = Top(w).cookie, Answered(w, p, c)
      PROVE  Answered(v, Append(p, x), c)
  <2>1. \A n : /\ Holds(Append(p, x), n) <=> Holds(p, n) \/ x.cookie = n
               /\ HoldsOnce(Append(p, x), n) <=> HoldsOnce(p, n) /\ ~(Holds(p, n) /\ x.cookie = n)
    BY HoldsMore
  <2>2. PICK q : q = Append(p, x)
    OBVIOUS
  <2>3. ASSUME NEW n \in Nat
        PROVE  /\ AtRead(c, n) <=> Holds(v, n) \/ Holds(q, n) \/ Keeps(c, n)
               /\ ~(Holds(v, n) /\ Holds(q, n)) /\ ~(Holds(v, n) /\ Keeps(c, n)) /\ ~(Holds(q, n) /\ Keeps(c, n))
               /\ HoldsOnce(v, n) /\ HoldsOnce(q, n) /\ KeepsOnce(c, n)
    <3>1. /\ AtRead(c, n) <=> Holds(w, n) \/ Holds(p, n) \/ Keeps(c, n)
          /\ ~(Holds(w, n) /\ Holds(p, n)) /\ ~(Holds(w, n) /\ Keeps(c, n)) /\ ~(Holds(p, n) /\ Keeps(c, n))
          /\ HoldsOnce(w, n) /\ HoldsOnce(p, n) /\ KeepsOnce(c, n)
      BY <1>5 DEF Answered
    <3> QED
      BY <1>4, <1>5, <2>1, <2>2, <3>1
  <2> QED
    BY <1>5, <2>2, <2>3 DEF Answered
<1>6. ASSUME Top(w).cookie = Junk, Answered(w, p, c)
      PROVE  Answered(v, p, c)
  <2>1. \A n \in Nat : Junk # n
    BY DEF Junk
  <2>2. \A n \in Nat : (Holds(w, n) <=> Holds(v, n)) /\ (HoldsOnce(w, n) <=> HoldsOnce(v, n))
    BY <1>4, <1>6, <2>1
  <2> QED
    BY <1>6, <2>2 DEF Answered
<1> QED
  BY <1>1, <1>3, <1>5, <1>6
\* The innermost wait reads its own reply; the replies that it has stolen go back.
LEMMA OwnReply ==
  ASSUME NEW w, NEW p \in Seq(Replies), p # <<>>, NEW c, NEW d, NEW m \in Nat, SameBut(c, d, m),
         AtRead(c, m), ~AtRead(d, m), c[m].stolen \in Seq(Replies), Head(p).cookie = m
  PROVE  /\ Fits(w, c) /\ ~Holds(w, m) => Fits(w, d)
         /\ Answered(w, p, c) => Answered(w, Tail(p) \o c[m].stolen, d) /\ ~Holds(w, m)
<1>1. ASSUME Fits(w, c), ~Holds(w, m) PROVE Fits(w, d)
  BY <1>1 DEF Fits, Holds, SameBut
<1>2. PICK s \in Seq(Replies) : s = c[m].stolen
  OBVIOUS
<1>3. Tail(p) \in Seq(Replies)
  BY HeadTailProperties
<1>4. PICK q : q = Tail(p) \o s
  OBVIOUS
<1>5. ASSUME Answered(w, p, c) PROVE Answered(w, q, d) /\ ~Holds(w, m)
  <2>1. ASSUME NEW n \in Nat
        PROVE  /\ AtRead(d, n) <=> Holds(w, n) \/ Holds(q, n) \/ Keeps(d, n)
               /\ ~(Holds(w, n) /\ Holds(q, n)) /\ ~(Holds(w, n) /\ Keeps(d, n)) /\ ~(Holds(q, n) /\ Keeps(d, n))
               /\ HoldsOnce(w, n) /\ HoldsOnce(q, n) /\ KeepsOnce(d, n)
               /\ n = m => ~Holds(w, n)
    <3>1. /\ AtRead(c, n) <=> Holds(w, n) \/ Holds(p, n) \/ Keeps(c, n)
          /\ ~(Holds(w, n) /\ Holds(p, n)) /\ ~(Holds(w, n) /\ Keeps(c, n)) /\ ~(Holds(p, n) /\ Keeps(c, n))
          /\ HoldsOnce(w, n) /\ HoldsOnce(p, n) /\ KeepsOnce(c, n)
      BY <1>5 DEF Answered
    <3>2. /\ Holds(p, n) <=> Holds(Tail(p), n) \/ m = n
          /\ HoldsOnce(p, n) <=> HoldsOnce(Tail(p), n) /\ ~(Holds(Tail(p), n) /\ m = n)
      BY HoldsLess
    <3>3. /\ Holds(q, n) <=> Holds(Tail(p), n) \/ Holds(s, n)
          /\ HoldsOnce(q, n) <=> HoldsOnce(Tail(p), n) /\ HoldsOnce(s, n) /\ ~(Holds(Tail(p), n) /\ Holds(s, n))
      BY <1>3, <1>4, HoldsConcat
    <3>4. (Keeps(d, n) <=> Rest(d, m, n)) /\ (KeepsOnce(d, n) <=> RestOnce(d, m, n))
      BY KeepsSplit
    <3>5. /\ Keeps(c, n) <=> Rest(c, m, n) \/ Holds(s, n)
          /\ KeepsOnce(c, n) <=> RestOnce(c, m, n) /\ (Holds(s, n) => HoldsOnce(s, n) /\ ~Rest(c, m, n))
      BY <1>2, KeepsSplit
    <3>6. (Rest(c, m, n) <=> Rest(d, m, n)) /\ (RestOnce(c, m, n) <=> RestOnce(d, m, n))
      BY RestSame
    <3>7. n # m => (AtRead(d, n) <=> AtRead(c, n))
      BY DEF SameBut
    <3>8. Holds(s, n) \/ HoldsOnce(s, n)
      BY DEF Holds, HoldsOnce
    <3>9. CASE n = m
      BY <3>1, <3>2, <3>3, <3>4, <3>5, <3>6, <3>8, <3>9
    <3>10. CASE n # m
      BY <3>1, <3>2, <3>3, <3>4, <3>5, <3>6, <3>7, <3>8, <3>10
    <3> QED
      BY <3>9, <3>10
  <2>2. ASSUME NEW l \in DOMAIN d, AtRead(d, l)
        PROVE  \A i \in DOMAIN d[l].stolen : d[l].stolen[i].cookie = Junk \/ d[l].stolen[i].cookie < l
    <3>1. AtRead(c, l) /\ l \in DOMAIN c /\ d[l].stolen = c[l].stolen
      BY <2>2 DEF SameBut, AtRead
    <3> QED
      BY <1>5, <3>1 DEF Answered
  <2> QED
    BY <2>1, <2>2 DEF Answered
<1> QED
  BY <1>1, <1>2, <1>4, <1>5

\* The innermost wait reads another reply and keeps it.
Below(c, m) == \A n : AtRead(c, n) /\ n # m => n < m

\* The innermost wait reads the reply of another wait and keeps it.
LEMMA OtherReply ==
  ASSUME NEW w, NEW p \in Seq(Replies), p # <<>>, NEW c, NEW d, NEW m \in Nat, SameBut(c, d, m),
         AtRead(c, m), AtRead(d, m), d[m].args = c[m].args, c[m].stolen \in Seq(Replies),
         d[m].stolen = <<Head(p)>> \o c[m].stolen, Head(p).cookie # m,
         Below(c, m)
  PROVE  /\ Fits(w, c) => Fits(w, d)
         /\ Answered(w, p, c) => Answered(w, Tail(p), d)
<1>1. ASSUME Fits(w, c) PROVE Fits(w, d)
  BY <1>1 DEF Fits, SameBut
<1>2. PICK s \in Seq(Replies) : s = c[m].stolen
  OBVIOUS
<1>3. PICK h \in Replies, q \in Seq(Replies) : h = Head(p) /\ q = Tail(p)
  BY HeadTailProperties
<1>4. PICK z \in Seq(Replies) : z = <<h>> \o s /\ z = d[m].stolen
  <2>1. <<h>> \o s \in Seq(Replies)
    BY HoldsMore
  <2> QED
    BY <1>2, <1>3, <2>1
<1>5. ASSUME Answered(w, p, c) PROVE Answered(w, q, d)
  <2>0. \A n : /\ Holds(p, n) <=> Holds(q, n) \/ h.cookie = n
               /\ HoldsOnce(p, n) <=> HoldsOnce(q, n) /\ ~(Holds(q, n) /\ h.cookie = n)
    BY <1>3, HoldsLess
  <2>1. ASSUME NEW n \in Nat
        PROVE  /\ AtRead(d, n) <=> Holds(w, n) \/ Holds(q, n) \/ Keeps(d, n)
               /\ ~(Holds(w, n) /\ Holds(q, n)) /\ ~(Holds(w, n) /\ Keeps(d, n)) /\ ~(Holds(q, n) /\ Keeps(d, n))
               /\ HoldsOnce(w, n) /\ HoldsOnce(q, n) /\ KeepsOnce(d, n)
    <3>1. /\ AtRead(c, n) <=> Holds(w, n) \/ Holds(p, n) \/ Keeps(c, n)
          /\ ~(Holds(w, n) /\ Holds(p, n)) /\ ~(Holds(w, n) /\ Keeps(c, n)) /\ ~(Holds(p, n) /\ Keeps(c, n))
          /\ HoldsOnce(w, n) /\ HoldsOnce(p, n) /\ KeepsOnce(c, n)
      BY <1>5 DEF Answered
    <3>2. /\ Holds(p, n) <=> Holds(q, n) \/ h.cookie = n
          /\ HoldsOnce(p, n) <=> HoldsOnce(q, n) /\ ~(Holds(q, n) /\ h.cookie = n)
      BY <2>0
    <3>3. /\ Holds(z, n) <=> Holds(s, n) \/ h.cookie = n
          /\ HoldsOnce(z, n) <=> HoldsOnce(s, n) /\ ~(Holds(s, n) /\ h.cookie = n)
      BY <1>4, HoldsMore
    <3>4. /\ Keeps(d, n) <=> Rest(d, m, n) \/ Holds(z, n)
          /\ KeepsOnce(d, n) <=> RestOnce(d, m, n) /\ (Holds(z, n) => HoldsOnce(z, n) /\ ~Rest(d, m, n))
      BY <1>4, KeepsSplit
    <3>5. /\ Keeps(c, n) <=> Rest(c, m, n) \/ Holds(s, n)
          /\ KeepsOnce(c, n) <=> RestOnce(c, m, n) /\ (Holds(s, n) => HoldsOnce(s, n) /\ ~Rest(c, m, n))
      BY <1>2, KeepsSplit
    <3>6. (Rest(c, m, n) <=> Rest(d, m, n)) /\ (RestOnce(c, m, n) <=> RestOnce(d, m, n))
      BY RestSame
    <3>7. AtRead(d, n) <=> AtRead(c, n)
      BY DEF SameBut
    <3>8. Holds(s, n) \/ HoldsOnce(s, n)
      BY DEF Holds, HoldsOnce
    <3> QED
      BY <3>1, <3>2, <3>3, <3>4, <3>5, <3>6, <3>7, <3>8
  <2>2. ASSUME NEW l \in DOMAIN d, AtRead(d, l)
        PROVE  \A i \in DOMAIN d[l].stolen : d[l].stolen[i].cookie = Junk \/ d[l].stolen[i].cookie < l
    <3>1. CASE l # m
      <4>1. AtRead(c, l) /\ l \in DOMAIN c /\ d[l].stolen = c[l].stolen
        BY <2>2, <3>1 DEF SameBut, AtRead
      <4> QED
        BY <1>5, <4>1 DEF Answered
    <3>2. CASE l = m
      <4>1. h.cookie = Junk \/ h.cookie < m
        <5>1. h.cookie \in Nat \cup {Junk}
          BY DEF Replies
        <5>2. Holds(p, h.cookie)
          BY <2>0
        <5>3. h.cookie \in Nat => AtRead(c, h.cookie)
          BY <1>5, <5>2 DEF Answered
        <5> QED
          BY <1>3, <5>1, <5>3 DEF Below
      <4>2. \A i \in DOMAIN s : s[i].cookie = Junk \/ s[i].cookie < m
        BY <1>2, <1>5 DEF Answered, AtRead
      <4>3. ASSUME NEW i \in DOMAIN z PROVE z[i].cookie = h.cookie \/ \E j \in DOMAIN s : z[i].cookie = s[j].cookie
        <5>1. Holds(z, z[i].cookie)
          BY DEF Holds
        <5>2. Holds(s, z[i].cookie) \/ h.cookie = z[i].cookie
          BY <1>4, <5>1, HoldsMore
        <5> QED
          BY <5>2 DEF Holds
      <4> QED
        BY <1>4, <3>2, <4>1, <4>2, <4>3
    <3> QED
      BY <3>1, <3>2
  <2> QED
    BY <2>1, <2>2 DEF Answered
<1> QED
  BY <1>1, <1>3, <1>5

\* A thread that is killed: its client is told, or the answer is on its way.
LEMMA KilledTold ==
  ASSUME NEW p \in Seq(Replies), NEW c \in Seq(ClientFrames)
  PROVE  /\ Answered(<<>>, p, c) => Told(p, c)
         /\ Told(Append(p, [cookie |-> Null, r |-> "killed"]), c)
<1>1. ASSUME Answered(<<>>, p, c), c # <<>>, Top(c).at = "read" PROVE Holds(p, Len(c))
  <2>1. PICK n \in Nat \ {0} : n = Len(c) /\ DOMAIN c = 1..n /\ n \in DOMAIN c /\ Top(c) = c[n]
    BY <1>1, TopPop
  <2>2. AtRead(c, n)
    BY <1>1, <2>1 DEF AtRead
  <2>3. Holds(<<>>, n) \/ Holds(p, n) \/ Keeps(c, n)
    BY <1>1, <2>2 DEF Answered
  <2>4. ~Holds(<<>>, n)
    BY HoldsFew
  <2>5. ~Keeps(c, n)
    <3>1. ASSUME NEW l \in DOMAIN c, AtRead(c, l), NEW i \in DOMAIN c[l].stolen, c[l].stolen[i].cookie = n PROVE FALSE
      <4>1. c[l].stolen[i].cookie = Junk \/ c[l].stolen[i].cookie < l
        BY <1>1, <3>1 DEF Answered
      <4>2. n # Junk /\ l <= n /\ l \in Nat
        BY <2>1 DEF Junk
      <4> QED
        BY <3>1, <4>1, <4>2
    <3> QED
      BY <3>1 DEF Keeps, Holds
  <2> QED
    BY <2>1, <2>3, <2>4, <2>5
<1>2. Holds(Append(p, [cookie |-> Null, r |-> "killed"]), Null)
  <2>1. [cookie |-> Null, r |-> "killed"] \in Replies
    BY DEF Replies, Null
  <2>2. PICK x \in Replies : x = [cookie |-> Null, r |-> "killed"] /\ x.cookie = Null
    BY <2>1
  <2>3. \A n : Holds(Append(p, x), n) <=> Holds(p, n) \/ x.cookie = n
    BY HoldsMore
  <2> QED
    BY <2>2, <2>3
<1> QED
  BY <1>1, <1>2 DEF Told
-----------------------------------------------------------------------------
(***************************************************************************)
(* The wait queues hold the entries of the waits.                          *)
(***************************************************************************)
QueuesFit(q, v) ==
  /\ \A o \in Objects : IsInjective(q[o]) /\ \A e \in Range(q[o]) :
       /\ e.level \in DOMAIN v[e.thread] /\ e.idx \in DOMAIN v[e.thread][e.level].objs
       /\ v[e.thread][e.level].objs[e.idx] = o
  /\ \A t \in Threads : \A l \in DOMAIN v[t] : \A i \in DOMAIN v[t][l].objs :
       [thread |-> t, level |-> l, idx |-> i] \in Range(q[v[t][l].objs[i]])

\* The invariant in this form, before and after a step.
LEMMA QueueForm == (QueueInv <=> QueuesFit(queue, waits)) /\ (QueueInv' <=> QueuesFit(queue', waits'))
<1>1. QueueInv <=> QueuesFit(queue, waits)
  BY DEF QueueInv, QueuesFit, Entry
<1>2. QueueInv' <=> QueuesFit(queue', waits')
  BY DEF QueueInv, QueuesFit, Entry
<1> QED
  BY <1>1, <1>2

\* The types that the queues and the waits have.
LEMMA QueueTypes ==
  ASSUME TypeInv
  PROVE  /\ queue \in [Objects -> Seq(Entries)] /\ waits \in [Threads -> Seq(WaitRecords)]
         /\ \A w \in WaitRecords : w.objs \in Seq(Objects) /\ \A i \in DOMAIN w.objs : w.objs[i] \in Objects
         /\ \A o \in Objects : \A e \in Range(queue[o]) : e.thread \in Threads /\ e.level \in Nat
<1>1. queue \in [Objects -> Seq(Entries)] /\ waits \in [Threads -> Seq(WaitRecords)]
  BY DEF TypeInv
<1>2. ASSUME NEW w \in WaitRecords
      PROVE  w.objs \in Seq(Objects) /\ \A i \in DOMAIN w.objs : w.objs[i] \in Objects
  <2>1. PICK q \in Seq(Objects) : q = w.objs
    BY DEF WaitRecords
  <2>2. \A i \in DOMAIN q : q[i] \in Objects
    OBVIOUS
  <2> QED
    BY <2>1, <2>2
<1>3. ASSUME NEW o \in Objects, NEW e \in Range(queue[o]) PROVE e.thread \in Threads /\ e.level \in Nat
  <2>1. PICK q \in Seq(Entries) : q = queue[o]
    BY <1>1
  <2>2. e \in Entries
    BY <1>3, <2>1 DEF Range
  <2> QED
    BY <2>2 DEF Entries
<1> QED
  BY <1>1, <1>2, <1>3

\* A wait begins.
LEMMA WaitQueued ==
  ASSUME TypeInv, QueueInv, NEW t \in Threads, NEW x \in WaitRecords,
         queue' = Queued(t, Len(waits[t]) + 1, x.objs), waits' = [waits EXCEPT ![t] = Append(waits[t], x)]
  PROVE  QueueInv'
<1>0. /\ queue \in [Objects -> Seq(Entries)] /\ waits \in [Threads -> Seq(WaitRecords)]
      /\ \A w \in WaitRecords : w.objs \in Seq(Objects) /\ \A i \in DOMAIN w.objs : w.objs[i] \in Objects
      /\ \A o \in Objects : \A e \in Range(queue[o]) : e.thread \in Threads /\ e.level \in Nat
  BY QueueTypes
<1>1. PICK n \in Nat : n = Len(waits[t]) /\ DOMAIN waits[t] = 1..n
  BY <1>0
<1>2. PICK v \in Seq(WaitRecords) : /\ v = Append(waits[t], x) /\ DOMAIN v = 1..(n + 1) /\ v[n + 1] = x
                                    /\ \A l \in 1..n : v[l] = waits[t][l]
  <2>1. waits[t] \in Seq(WaitRecords)
    BY <1>0
  <2>2. /\ Append(waits[t], x) \in Seq(WaitRecords) /\ Len(Append(waits[t], x)) = n + 1
        /\ Append(waits[t], x)[n + 1] = x
        /\ \A l \in 1..n : Append(waits[t], x)[l] = waits[t][l]
    BY <1>1, <2>1, AppendProperties
  <2>3. DOMAIN Append(waits[t], x) = 1..(n + 1)
    BY <2>2, LenProperties
  <2> QED
    BY <2>2, <2>3
<1>3. \A u \in Threads : waits'[u] = IF u = t THEN v ELSE waits[u]
  BY <1>0, <1>2
<1>4. /\ (\A l \in 1..(n + 1) : l \in 1..n \/ l = n + 1) /\ (\A l \in 1..n : l \in 1..(n + 1) /\ l # n + 1)
      /\ n + 1 \in 1..(n + 1)
  OBVIOUS
<1>5. QueuesFit(queue, waits)
  BY QueueForm
<1>6. ASSUME NEW o \in Objects
      PROVE  /\ Range(queue'[o]) = Range(queue[o])
                  \cup {[thread |-> t, level |-> n + 1, idx |-> i] : i \in {i \in DOMAIN x.objs : x.objs[i] = o}}
             /\ IsInjective(queue'[o])
  <2>1. x.objs \in Seq(Objects) /\ n + 1 \in Nat
    BY <1>0
  <2>2. \A e \in Range(queue[o]) : e.thread # t \/ e.level # n + 1
    BY <1>1, <1>4, <1>5 DEF QueuesFit
  <2>3. IsInjective(queue[o])
    BY <1>5 DEF QueuesFit
  <2>4. /\ Range(Queued(t, n + 1, x.objs)[o]) = Range(queue[o])
             \cup {[thread |-> t, level |-> n + 1, idx |-> i] : i \in {i \in DOMAIN x.objs : x.objs[i] = o}}
        /\ IsInjective(Queued(t, n + 1, x.objs)[o])
    <3>1. PICK objs \in Seq(Objects), k \in Nat : objs = x.objs /\ k = n + 1
      BY <2>1
    <3>2. \A p \in Objects : Range(Queued(t, k, objs)[p]) = Range(queue[p])
             \cup {[thread |-> t, level |-> k, idx |-> i] : i \in {i \in DOMAIN objs : objs[i] = p}}
      BY <1>0, QueuedFacts
    <3>3. \A p \in Objects : IsInjective(queue[p]) /\ (\A e \in Range(queue[p]) : e.thread # t \/ e.level # k)
                              => IsInjective(Queued(t, k, objs)[p])
      BY <1>0, QueuedFacts
    <3> QED
      BY <2>2, <2>3, <3>1, <3>2, <3>3
  <2> QED
    BY <1>1, <2>4
<1>7. ASSUME NEW o \in Objects, NEW e \in Range(queue'[o])
      PROVE  /\ e.level \in DOMAIN waits'[e.thread] /\ e.idx \in DOMAIN waits'[e.thread][e.level].objs
             /\ waits'[e.thread][e.level].objs[e.idx] = o
  <2>1. CASE e \in Range(queue[o])
    <3>1. /\ e.level \in DOMAIN waits[e.thread] /\ e.idx \in DOMAIN waits[e.thread][e.level].objs
          /\ waits[e.thread][e.level].objs[e.idx] = o /\ e.thread \in Threads
      BY <1>0, <1>5, <2>1 DEF QueuesFit
    <3> QED
      BY <1>1, <1>2, <1>3, <1>4, <3>1
  <2>2. ASSUME NEW i \in DOMAIN x.objs, x.objs[i] = o, e = [thread |-> t, level |-> n + 1, idx |-> i]
        PROVE  /\ e.level \in DOMAIN waits'[e.thread] /\ e.idx \in DOMAIN waits'[e.thread][e.level].objs
               /\ waits'[e.thread][e.level].objs[e.idx] = o
    <3>1. e.thread = t /\ e.level = n + 1 /\ e.idx = i
      BY <2>2
    <3> QED
      BY <1>2, <1>3, <1>4, <2>2, <3>1
  <2> QED
    BY <1>6, <1>7, <2>1, <2>2
<1>8. ASSUME NEW u \in Threads, NEW l \in DOMAIN waits'[u], NEW i \in DOMAIN waits'[u][l].objs
      PROVE  [thread |-> u, level |-> l, idx |-> i] \in Range(queue'[waits'[u][l].objs[i]])
  <2>1. CASE u = t /\ l = n + 1
    <3>1. waits'[u][l] = x
      BY <1>2, <1>3, <2>1
    <3>2. x.objs[i] \in Objects /\ i \in DOMAIN x.objs
      BY <1>0, <1>8, <3>1
    <3> QED
      BY <1>6, <2>1, <3>1, <3>2
  <2>2. CASE ~(u = t /\ l = n + 1)
    <3>1. waits'[u][l] = waits[u][l] /\ l \in DOMAIN waits[u]
      BY <1>1, <1>2, <1>3, <1>4, <1>8, <2>2
    <3>2. waits[u][l] \in WaitRecords
      <4>1. PICK q \in Seq(WaitRecords) : q = waits[u]
        BY <1>0
      <4> QED
        BY <3>1, <4>1
    <3>3. waits[u][l].objs[i] \in Objects
      BY <1>0, <1>8, <3>1, <3>2
    <3>4. [thread |-> u, level |-> l, idx |-> i] \in Range(queue[waits[u][l].objs[i]])
      BY <1>5, <1>8, <3>1 DEF QueuesFit
    <3> QED
      BY <1>6, <3>1, <3>3, <3>4
  <2> QED
    BY <2>1, <2>2
<1> QED
  BY <1>6, <1>7, <1>8, QueueForm DEF QueuesFit

\* The list v of a thread's waits, and its entries in the queues, after its waits have
\* ended from level n on.
Shortened(v, w, n) == (\A l : l \in DOMAIN v <=> l \in DOMAIN w /\ l < n) /\ \A l \in DOMAIN v : v[l] = w[l]
Unlisted(new, old, t, n) ==
  \A o \in Objects : /\ \A e : e \in Range(new[o]) <=> e \in Range(old[o]) /\ (e.thread = t => e.level < n)
                     /\ IsInjective(old[o]) => IsInjective(new[o])

\* The waits of a thread end, from one level on; only their entries leave the queues.
LEMMA WaitUnqueued ==
  ASSUME TypeInv, QueueInv, NEW t \in Threads, NEW n \in Nat, NEW v,
         waits' = [waits EXCEPT ![t] = v], Shortened(v, waits[t], n), Unlisted(queue', queue, t, n)
  PROVE  QueueInv'
<1>0. /\ queue \in [Objects -> Seq(Entries)] /\ waits \in [Threads -> Seq(WaitRecords)]
      /\ \A w \in WaitRecords : w.objs \in Seq(Objects) /\ \A i \in DOMAIN w.objs : w.objs[i] \in Objects
      /\ \A o \in Objects : \A e \in Range(queue[o]) : e.thread \in Threads /\ e.level \in Nat
  BY QueueTypes
<1>1. QueuesFit(queue, waits)
  BY QueueForm
<1>2. \A u \in Threads : waits'[u] = IF u = t THEN v ELSE waits[u]
  BY <1>0
<1>3. ASSUME NEW o \in Objects, NEW e \in Range(queue'[o])
      PROVE  /\ e.level \in DOMAIN waits'[e.thread] /\ e.idx \in DOMAIN waits'[e.thread][e.level].objs
             /\ waits'[e.thread][e.level].objs[e.idx] = o
  <2>1. e \in Range(queue[o]) /\ (e.thread = t => e.level < n)
    BY <1>3 DEF Unlisted
  <2>2. /\ e.level \in DOMAIN waits[e.thread] /\ e.idx \in DOMAIN waits[e.thread][e.level].objs
        /\ waits[e.thread][e.level].objs[e.idx] = o /\ e.thread \in Threads
    BY <1>0, <1>1, <2>1 DEF QueuesFit
  <2> QED
    BY <1>2, <2>1, <2>2 DEF Shortened
<1>4. ASSUME NEW u \in Threads, NEW l \in DOMAIN waits'[u], NEW i \in DOMAIN waits'[u][l].objs
      PROVE  [thread |-> u, level |-> l, idx |-> i] \in Range(queue'[waits'[u][l].objs[i]])
  <2>1. waits'[u][l] = waits[u][l] /\ l \in DOMAIN waits[u] /\ (u = t => l < n)
    BY <1>2, <1>4 DEF Shortened
  <2>2. waits[u][l] \in WaitRecords
    <3>1. PICK q \in Seq(WaitRecords) : q = waits[u]
      BY <1>0
    <3> QED
      BY <2>1, <3>1
  <2>3. waits[u][l].objs[i] \in Objects
    BY <1>0, <1>4, <2>1, <2>2
  <2>4. [thread |-> u, level |-> l, idx |-> i] \in Range(queue[waits[u][l].objs[i]])
    BY <1>1, <1>4, <2>1 DEF QueuesFit
  <2> QED
    BY <2>1, <2>3, <2>4 DEF Unlisted
<1>5. \A o \in Objects : IsInjective(queue'[o])
  BY <1>1 DEF QueuesFit, Unlisted
<1> QED
  BY <1>3, <1>4, <1>5, QueueForm DEF QueuesFit
\* end_wait.
LEMMA EndWaitQueue ==
  ASSUME TypeInv, QueueInv, NEW t \in Threads, waits[t] # <<>>, EndWait(t)
  PROVE  QueueInv'
<1>0. queue \in [Objects -> Seq(Entries)] /\ waits \in [Threads -> Seq(WaitRecords)]
  BY QueueTypes
<1>1. PICK w \in Seq(WaitRecords), n \in Nat \ {0} :
        /\ w = waits[t] /\ n = Len(w) /\ DOMAIN w = 1..n
        /\ DOMAIN Pop(w) = 1..(n - 1) /\ \A i \in 1..(n - 1) : Pop(w)[i] = w[i]
  <2>1. PICK w \in Seq(WaitRecords) : w = waits[t]
    BY <1>0
  <2>2. /\ Len(w) \in Nat \ {0} /\ DOMAIN w = 1..Len(w)
        /\ DOMAIN Pop(w) = 1..(Len(w) - 1) /\ \A i \in 1..(Len(w) - 1) : Pop(w)[i] = w[i]
    BY <2>1, TopPop
  <2> QED
    BY <2>1, <2>2
<1>2. waits' = [waits EXCEPT ![t] = Pop(w)] /\ queue' = Unqueued(t, n)
  BY <1>1 DEF EndWait
<1>3. ASSUME NEW o \in Objects
      PROVE  /\ \A e : e \in Range(queue'[o]) <=> e \in Range(queue[o]) /\ (e.thread = t => e.level < n)
             /\ IsInjective(queue[o]) => IsInjective(queue'[o])
  <2>1. /\ Range(Unqueued(t, n)[o]) = {e \in Range(queue[o]) : e.thread # t \/ e.level # n}
        /\ IsInjective(queue[o]) => IsInjective(Unqueued(t, n)[o])
    BY <1>0, UnqueuedFacts
  <2>2. \A e \in Range(queue[o]) : e.thread = t => e.level \in 1..n
    BY <1>1, QueueForm DEF QueuesFit
  <2>3. \A l \in 1..n : l # n <=> l < n
    OBVIOUS
  <2> QED
    BY <1>2, <2>1, <2>2, <2>3
<1>4. \A l : l \in DOMAIN Pop(w) <=> l \in DOMAIN waits[t] /\ l < n
  BY <1>1
<1>5. \A l \in DOMAIN Pop(w) : Pop(w)[l] = waits[t][l]
  BY <1>1
<1>6. Shortened(Pop(w), waits[t], n) /\ Unlisted(queue', queue, t, n) /\ n \in Nat
  BY <1>3, <1>4, <1>5 DEF Shortened, Unlisted
<1> QED
  BY <1>2, <1>6, WaitUnqueued

\* Every wait of a thread that is killed ends.
LEMMA KillQueue ==
  ASSUME TypeInv, QueueInv, NEW t \in Threads, waits' = [waits EXCEPT ![t] = <<>>], queue' = QueuedByOthers(t)
  PROVE  QueueInv'
<1>0. queue \in [Objects -> Seq(Entries)] /\ waits \in [Threads -> Seq(WaitRecords)]
  BY QueueTypes
<1>1. PICK w \in Seq(WaitRecords) : w = waits[t] /\ DOMAIN w \subseteq Nat \ {0}
  BY <1>0
<1>3. ASSUME NEW o \in Objects
      PROVE  /\ \A e : e \in Range(queue'[o]) <=> e \in Range(queue[o]) /\ (e.thread = t => e.level < 1)
             /\ IsInjective(queue[o]) => IsInjective(queue'[o])
  <2>1. /\ Range(QueuedByOthers(t)[o]) = {e \in Range(queue[o]) : e.thread # t}
        /\ IsInjective(queue[o]) => IsInjective(QueuedByOthers(t)[o])
    BY <1>0, QueuedByOthersFacts
  <2>2. \A e \in Range(queue[o]) : e.thread = t => e.level \in Nat \ {0}
    BY <1>1, QueueForm DEF QueuesFit
  <2>3. \A l \in Nat \ {0} : ~(l < 1)
    OBVIOUS
  <2> QED
    BY <2>1, <2>2, <2>3
<1>4. \A l : l \in DOMAIN <<>> <=> l \in DOMAIN waits[t] /\ l < 1
  BY <1>1
<1>5. \A l \in DOMAIN <<>> : <<>>[l] = waits[t][l]
  OBVIOUS
<1>6. Shortened(<<>>, waits[t], 1) /\ Unlisted(queue', queue, t, 1) /\ 1 \in Nat
  BY <1>3, <1>4, <1>5 DEF Shortened, Unlisted
<1> QED
  BY <1>6, WaitUnqueued

\* Waits keep their objects, and their cookies.
SameObjects(v, w) == DOMAIN v = DOMAIN w /\ \A l \in DOMAIN v : v[l].objs = w[l].objs
SameCookies(v, w) == \A l \in DOMAIN v : v[l].cookie = w[l].cookie

\* The queues fit the waits as long as the waits keep their objects.
LEMMA QueueKept ==
  ASSUME TypeInv, QueueInv, queue' = queue, NEW t \in Threads, NEW v, waits' = [waits EXCEPT ![t] = v],
         SameObjects(v, waits[t])
  PROVE  QueueInv'
<1>0. /\ queue \in [Objects -> Seq(Entries)] /\ waits \in [Threads -> Seq(WaitRecords)]
      /\ \A o \in Objects : \A e \in Range(queue[o]) : e.thread \in Threads /\ e.level \in Nat
  BY QueueTypes
<1>1. QueuesFit(queue, waits)
  BY QueueForm
<1>2. \A u \in Threads : waits'[u] = IF u = t THEN v ELSE waits[u]
  BY <1>0
<1>3. \A u \in Threads : DOMAIN waits'[u] = DOMAIN waits[u] /\ \A l \in DOMAIN waits[u] : waits'[u][l].objs = waits[u][l].objs
  BY <1>2 DEF SameObjects
<1>4. QueuesFit(queue', waits')
  <2>1. ASSUME NEW o \in Objects, NEW e \in Range(queue[o])
        PROVE  /\ e.level \in DOMAIN waits'[e.thread] /\ e.idx \in DOMAIN waits'[e.thread][e.level].objs
               /\ waits'[e.thread][e.level].objs[e.idx] = o
    BY <1>0, <1>1, <1>3 DEF QueuesFit
  <2>2. ASSUME NEW u \in Threads, NEW l \in DOMAIN waits'[u], NEW i \in DOMAIN waits'[u][l].objs
        PROVE  [thread |-> u, level |-> l, idx |-> i] \in Range(queue[waits'[u][l].objs[i]])
    BY <1>1, <1>3 DEF QueuesFit
  <2>3. \A o \in Objects : IsInjective(queue[o])
    BY <1>1 DEF QueuesFit
  <2> QED
    BY <2>1, <2>2, <2>3 DEF QueuesFit
<1> QED
  BY <1>4, QueueForm

-----------------------------------------------------------------------------
(***************************************************************************)
(* Every reply is expected once.                                           *)
(***************************************************************************)
\* A request select that goes on still goes on after a step of another kind.
LEMMA SelectingSteps ==
  ASSUME TypeInv, TypeInv', Next, ~SelectRest, NEW u, Selecting(u)
  PROVE  Selecting(u)'
<1>0. stack \in Seq(ServerFrames(dead)) /\ stack' \in Seq(ServerFrames(dead')) /\ stack # <<>>
  BY DEF TypeInv, Selecting
<1>1. CASE ~ServerActions
  BY <1>0, <1>1, IdleSteps DEF Selecting
<1>2. CASE ServerActions
  <2>1. StackStep(stack') /\ stack # <<>>
    BY <1>2, ServerStack
  <2>2. Len(stack) \in Nat \ {0} /\ Top(stack) = stack[Len(stack)] /\ DOMAIN stack = 1..Len(stack)
    BY <1>0, TopPop
  <2>3. CASE Len(stack) = 1
    <3>1. Top(stack).op = "select"
      BY <2>2, <2>3 DEF Selecting
    <3> QED
      BY <1>2, <3>1 DEF ServerActions, WakeUp, WakeThread, WakeThreadEnd, Kill, Abandon, Cleanup, PulseReset,
                        TimerSignals
  <2>4. CASE Len(stack) # 1
    <3>1. 1 \in DOMAIN stack /\ 1 < Len(stack)
      BY <2>2, <2>4
    <3>2. 1 \in DOMAIN stack' /\ stack'[1].op = stack[1].op /\ stack'[1].x = stack[1].x
      BY <2>1, <3>1 DEF StackStep, Selecting
    <3>3. stack' # <<>>
      BY <3>2
    <3> QED
      BY <3>2, <3>3 DEF Selecting
  <2> QED
    BY <2>3, <2>4
<1> QED
  BY <1>1, <1>2

\* A step that changes what is known of one thread's replies.
LEMMA OneReply ==
  ASSUME TypeInv, \A u \in Threads : ReplyInv(u), NEW t \in Threads,
         \A u \in Threads : u # t => waits'[u] = waits[u] /\ pipe'[u] = pipe[u] /\ client'[u] = client[u],
         \A u \in Threads : u # t /\ Selecting(u) => Selecting(u)',
         dead \subseteq dead', dead' \subseteq dead \cup {t}, gone \subseteq gone',
         ~Selecting(t)' => Fits(waits'[t], client'[t]),
         t \notin dead' \cup gone' => Answered(waits'[t], pipe'[t], client'[t]),
         t \in dead' \ gone' => Told(pipe'[t], client'[t])
  PROVE  \A u \in Threads : ReplyInv(u)'
<1>1. ReplyInv(t)'
  BY DEF ReplyInv
<1>2. ASSUME NEW u \in Threads, u # t PROVE ReplyInv(u)'
  <2>1. waits'[u] = waits[u] /\ pipe'[u] = pipe[u] /\ client'[u] = client[u] /\ (Selecting(u) => Selecting(u)')
    BY <1>2
  <2>2. (u \notin dead' \cup gone' => u \notin dead \cup gone) /\ (u \in dead' \ gone' => u \in dead \ gone)
    BY <1>2
  <2>3. ReplyInv(u)
    OBVIOUS
  <2> QED
    BY <2>1, <2>2, <2>3 DEF ReplyInv
<1> QED
  BY <1>1, <1>2

\* A step that changes no wait, pipe or frame; clients may die.
LEMMA NoReply ==
  ASSUME WaitInv, UNCHANGED <<waitVars, pipe, client, dead>>, gone \subseteq gone',
         \A u \in Threads : Selecting(u) => Selecting(u)'
  PROVE  WaitInv'
<1>1. QueueInv'
  BY QueueForm DEF WaitInv, waitVars
<1>2. ASSUME NEW u \in Threads PROVE ReplyInv(u)'
  <2>1. waits'[u] = waits[u] /\ pipe'[u] = pipe[u] /\ client'[u] = client[u] /\ (Selecting(u) => Selecting(u)')
    BY DEF waitVars
  <2>2. (u \notin dead' \cup gone' => u \notin dead \cup gone) /\ (u \in dead' \ gone' => u \in dead \ gone)
    OBVIOUS
  <2>3. ReplyInv(u)
    BY DEF WaitInv
  <2> QED
    BY <2>1, <2>2, <2>3 DEF ReplyInv
<1> QED
  BY <1>1, <1>2 DEF WaitInv

\* No request select goes on between two requests.
LEMMA IdleSelecting ==
  ASSUME Idle
  PROVE  \A u : ~Selecting(u)
BY DEF Idle, Selecting
\* A client's frames change, but none that reads for a reply.
LEMMA QuietReply ==
  ASSUME TypeInv, WaitInv, NEW t \in Threads, t \notin dead, NEW c, Same(client[t], c),
         client' = [client EXCEPT ![t] = c], UNCHANGED <<waitVars, pipe, dead, gone>>,
         \A u \in Threads : Selecting(u) => u = t \/ Selecting(u)', Selecting(t) => waits[t] = <<>>
  PROVE  WaitInv'
<1>0. client \in [Threads -> Seq(ClientFrames)]
  BY DEF TypeInv
<1>1. QueueInv'
  BY QueueForm DEF WaitInv, waitVars
<1>2. client'[t] = c /\ \A u \in Threads : u # t => client'[u] = client[u]
  BY <1>0
<1>3. /\ waits'[t] = waits[t] /\ pipe'[t] = pipe[t]
      /\ \A u \in Threads : u # t => waits'[u] = waits[u] /\ pipe'[u] = pipe[u] /\ client'[u] = client[u]
  BY <1>2 DEF waitVars
<1>4. ReplyInv(t) /\ \A u \in Threads : ReplyInv(u)
  BY DEF WaitInv
<1>5. Fits(waits'[t], c)
  <2>1. CASE Selecting(t)
    BY <1>3, <2>1 DEF Fits
  <2>2. CASE ~Selecting(t)
    BY <1>3, <1>4, <2>2, QuietChange DEF ReplyInv
  <2> QED
    BY <2>1, <2>2
<1>6. t \notin dead' \cup gone' => Answered(waits'[t], pipe'[t], c)
  <2>1. (t \notin dead' \cup gone' => t \notin dead \cup gone)
    OBVIOUS
  <2> QED
    BY <1>3, <1>4, <2>1, QuietChange DEF ReplyInv
<1>7. \A u \in Threads : u # t /\ Selecting(u) => Selecting(u)'
  OBVIOUS
<1>8. dead' = dead /\ gone' = gone /\ t \notin dead'
  OBVIOUS
<1>9. \A u \in Threads : ReplyInv(u)'
  BY <1>2, <1>3, <1>4, <1>5, <1>6, <1>7, <1>8, OneReply
<1> QED
  BY <1>1, <1>9 DEF WaitInv

\* The request select, for a wait whose frame does not read yet.
LEMMA DoSelectReply ==
  ASSUME TypeInv, WaitInv, Idle, NEW t \in Threads, t \notin dead,
         NEW q \in Seq(ClientFrames), q # <<>>, Top(q).at # "read", Top(q).stolen = <<>>, Same(client[t], q),
         DoSelect(t, q), UNCHANGED <<pipe, gone>>
  PROVE  WaitInv'
<1>0. /\ client \in [Threads -> Seq(ClientFrames)] /\ waits \in [Threads -> Seq(WaitRecords)]
  BY DEF TypeInv
<1>1. dead' = dead
  BY DEF DoSelect, Acquire, Satisfied, objVars
<1>2. \A u : ~Selecting(u)
  BY IdleSelecting
<1> DEFINE w == NewWait(Top(q).args)
<1>3. \/ client' = [client EXCEPT ![t] = Returned(q, CheckWait(t, w))] /\ UNCHANGED waitVars
      \/ /\ client' = [client EXCEPT ![t] = Reading(q)]
         /\ queue' = Queued(t, Len(waits[t]) + 1, w.objs)
         /\ waits' = [waits EXCEPT ![t] = Append(waits[t],
                        [w EXCEPT !.user = w.when # "never", !.cookie = Len(q)])]
  BY DEF DoSelect
<1>4. CASE client' = [client EXCEPT ![t] = Returned(q, CheckWait(t, w))] /\ UNCHANGED waitVars
  <2>1. PICK c : c = Returned(q, CheckWait(t, w))
    OBVIOUS
  <2>2. Same(client[t], c)
    BY <2>1, ReturnedSame, SameTrans
  <2> QED
    BY <1>1, <1>2, <1>4, <2>1, <2>2, QuietReply
<1>5. ASSUME client' = [client EXCEPT ![t] = Reading(q)],
             queue' = Queued(t, Len(waits[t]) + 1, w.objs),
             waits' = [waits EXCEPT ![t] = Append(waits[t],
                        [w EXCEPT !.user = w.when # "never", !.cookie = Len(q)])]
      PROVE  WaitInv'
  <2>1. PICK n \in Nat \ {0} : n = Len(q)
    BY TopPop
  <2>2. PICK x \in WaitRecords : /\ x = [w EXCEPT !.user = w.when # "never", !.cookie = n]
                                 /\ x.objs = Top(q).args.objs /\ x.objs = w.objs /\ x.cookie = n
    <3>1. Top(q).args \in WaitArgs
      BY TopPop, ClientFrameTypes
    <3>2. w \in WaitRecords /\ w.objs = Top(q).args.objs /\ (w.when # "never") \in BOOLEAN
      BY <3>1, NewWaitTypes
    <3> HIDE DEF w
    <3>3. ASSUME NEW b \in BOOLEAN
          PROVE  /\ [w EXCEPT !.user = b, !.cookie = n] \in WaitRecords
                 /\ [w EXCEPT !.user = b, !.cookie = n].objs = w.objs
                 /\ [w EXCEPT !.user = b, !.cookie = n].cookie = n
      BY <3>2 DEF WaitRecords
    <3> QED
      BY <3>2, <3>3
  <2>3. waits' = [waits EXCEPT ![t] = Append(waits[t], x)] /\ queue' = Queued(t, Len(waits[t]) + 1, x.objs)
    BY <1>5, <2>1, <2>2
  <2> HIDE DEF w
  <2>4. QueueInv'
    BY <2>3, WaitQueued DEF WaitInv
  <2>5. PICK d : d = Reading(q) /\ SameBut(q, d, n) /\ AtRead(d, n) /\ d[n].stolen = <<>> /\ d[n].args = Top(q).args
    <3>1. PICK y \in ClientFrames : /\ Reading(q) = [q EXCEPT ![Len(q)] = y]
                                    /\ y.args = Top(q).args /\ y.stolen = Top(q).stolen /\ y.at = "read"
      BY ReadingFacts
    <3>2. PICK e : e = [q EXCEPT ![Len(q)] = y]
      OBVIOUS
    <3>3. SameBut(q, e, n) /\ AtRead(e, n) /\ e[n] = y
      BY <2>1, <3>1, <3>2, TopChange
    <3> QED
      BY <3>1, <3>2, <3>3
  <2>6. ~AtRead(q, n)
    <3>1. PICK y \in ClientFrames : y = Top(q)
      BY TopPop
    <3> QED
      BY <2>1, <3>1, TopChange
  <2>7. PICK v \in Seq(WaitRecords) : v = waits[t]
    BY <1>0
  <2>8. ReplyInv(t) /\ \A u \in Threads : ReplyInv(u)
    BY DEF WaitInv
  <2>9. Fits(v, q)
    BY <1>2, <2>7, <2>8, QuietChange DEF ReplyInv
  <2>10. \A l \in DOMAIN v : v[l].cookie < n
    <3>1. ASSUME NEW l \in DOMAIN v PROVE v[l].cookie < n
      <4>1. AtRead(q, v[l].cookie)
        BY <2>9 DEF Fits
      <4>2. v[l].cookie \in 1..n /\ v[l].cookie # n
        BY <2>1, <2>6, <4>1 DEF AtRead
      <4> QED
        BY <4>2
    <3> QED
      BY <3>1
  <2>11. x.objs = d[n].args.objs
    BY <2>2, <2>5
  <2>12. Fits(Append(v, x), d) /\ \A p : Answered(v, p, q) => Answered(Append(v, x), p, d)
    <3>0. /\ n \in Nat /\ SameBut(q, d, n) /\ ~AtRead(q, n) /\ AtRead(d, n) /\ d[n].stolen = <<>>
          /\ x.cookie = n /\ x.objs = d[n].args.objs
      BY <2>2, <2>5, <2>6, <2>11
    <3>1. Fits(Append(v, x), d)
      BY <2>9, <2>10, <3>0, WaitBegins
    <3>2. ASSUME NEW p, Answered(v, p, q) PROVE Answered(Append(v, x), p, d)
      BY <3>0, <3>2, WaitBegins
    <3> QED
      BY <3>1, <3>2
  <2>13. client'[t] = d /\ waits'[t] = Append(v, x) /\ pipe'[t] = pipe[t]
         /\ \A u \in Threads : u # t => waits'[u] = waits[u] /\ pipe'[u] = pipe[u] /\ client'[u] = client[u]
    BY <1>0, <1>5, <2>3, <2>5, <2>7
  <2>14. t \notin dead' \cup gone' => Answered(Append(v, x), pipe[t], d)
    <3>1. t \notin dead' \cup gone' => t \notin dead \cup gone
      BY <1>1
    <3>2. t \notin dead \cup gone => Answered(v, pipe[t], q)
      BY <2>7, <2>8, QuietChange DEF ReplyInv
    <3> QED
      BY <2>12, <3>1, <3>2
  <2>15. \A u \in Threads : ReplyInv(u)'
    BY <1>1, <1>2, <2>8, <2>12, <2>13, <2>14, OneReply
  <2> QED
    BY <2>4, <2>15 DEF WaitInv
<1> QED
  BY <1>3, <1>4, <1>5

\* The signal handler and call_apcs: no frame that they change reads for a reply.
LEMMA HandlerReply ==
  ASSUME TypeInv, WaitInv, NEW t \in Threads, GetApc(t) \/ LeaveSuspend(t) \/ TakeSignal(t) \/ SetContext(t)
  PROVE  WaitInv'
<1>0. client \in [Threads -> Seq(ClientFrames)]
  BY DEF TypeInv
<1>1. PICK c \in Seq(ClientFrames) : c = client[t]
  BY <1>0
<1>2. t \notin dead /\ Idle /\ UNCHANGED <<waitVars, pipe, dead, gone>>
  BY DEF GetApc, LeaveSuspend, TakeSignal, SetContext, Connected, objVars
<1>3. \A u : ~Selecting(u)
  BY <1>2, IdleSelecting
<1>4. ASSUME NEW d, Same(c, d), client' = [client EXCEPT ![t] = d] PROVE WaitInv'
  BY <1>1, <1>2, <1>3, <1>4, QuietReply
<1>5. Same(c, c) /\ (client' = client => client' = [client EXCEPT ![t] = c])
  BY <1>0, <1>1 DEF Same
<1>6. ASSUME c # <<>>, Top(c).at # "read"
      PROVE  Same(c, Pop(c)) /\ Same(c, [c EXCEPT ![Len(c)].at = "call"])
  <2>1. PICK x \in ClientFrames : x = [Top(c) EXCEPT !.at = "call"] /\ x.at = "call"
    <3>1. Top(c) \in ClientFrames
      BY <1>6, TopPop
    <3>2. [Top(c) EXCEPT !.at = "call"] \in ClientFrames /\ [Top(c) EXCEPT !.at = "call"].at = "call"
      BY <3>1 DEF ClientFrames
    <3> QED
      BY <3>2
  <2>2. [c EXCEPT ![Len(c)].at = "call"] = [c EXCEPT ![Len(c)] = x]
    BY <2>1 DEF Top
  <2>3. ~AtRead(c, Len(c)) /\ SameBut(c, Pop(c), Len(c)) /\ ~AtRead(Pop(c), Len(c))
    BY <1>6, <2>1, TopChange
  <2>4. SameBut(c, [c EXCEPT ![Len(c)] = x], Len(c)) /\ ~AtRead([c EXCEPT ![Len(c)] = x], Len(c))
    BY <1>6, <2>1, TopChange
  <2> QED
    BY <2>2, <2>3, <2>4, SameFrames
<1>7. CASE TakeSignal(t)
  <2>1. client' = [client EXCEPT ![t] = Append(c, HandlerFrame)]
    BY <1>0, <1>1, <1>7 DEF TakeSignal, HandlerFrame
  <2>2. Same(c, Append(c, HandlerFrame))
    <3>1. HandlerFrame \in ClientFrames /\ HandlerFrame.at = "set"
      BY HandlerFacts
    <3> QED
      BY <3>1, MoreFrames
  <2> QED
    BY <1>4, <2>1, <2>2
<1>8. CASE SetContext(t)
  <2>1. c # <<>> /\ Top(c).at # "read" /\ client' = [client EXCEPT ![t] = [c EXCEPT ![Len(c)].at = "call"]]
    BY <1>0, <1>1, <1>8 DEF SetContext, ClientAt
  <2> QED
    BY <1>4, <1>6, <2>1
<1>9. CASE LeaveSuspend(t)
  <2>1. c # <<>> /\ Top(c).at # "read" /\ client' = [client EXCEPT ![t] = Pop(c)]
    BY <1>0, <1>1, <1>9 DEF LeaveSuspend, ClientAt
  <2> QED
    BY <1>4, <1>6, <2>1
<1>10. CASE GetApc(t)
  <2>1. c # <<>> /\ Top(c).at # "read"
    BY <1>1, <1>10 DEF GetApc, ClientAt
  <2>2. \/ client' = client \/ client' = [client EXCEPT ![t] = Pop(c)]
        \/ client' = [client EXCEPT ![t] = [c EXCEPT ![Len(c)].at = "call"]]
    BY <1>0, <1>1, <1>10 DEF GetApc
  <2> QED
    BY <1>4, <1>5, <1>6, <2>1, <2>2
<1> QED
  BY <1>7, <1>8, <1>9, <1>10

\* A new wait of the application reads nothing yet.
LEMMA CallSame ==
  ASSUME NEW a \in WaitArgs
  PROVE  Same(<<>>, <<Call("wait", a)>>) /\ Top(<<Call("wait", a)>>).at # "read"
<1>1. PICK f \in ClientFrames : f = Call("wait", a) /\ f.at = "call"
  BY ClientFrameTypes DEF Call
<1>2. Top(<<f>>) = f
  BY DEF Top
<1>3. Same(<<>>, <<f>>)
  BY <1>1 DEF Same, AtRead
<1> QED
  BY <1>1, <1>2, <1>3

\* The request select for a wait of the application, or once more for a wait that starts
\* over or that of the signal handler.
LEMMA SelectReply ==
  ASSUME TypeInv, ClientInv, WaitInv, NEW t \in Threads,
         SelectAgain(t) \/ \E a \in WaitArgs : Select(t, a)
  PROVE  WaitInv'
<1>0. client \in [Threads -> Seq(ClientFrames)]
  BY DEF TypeInv
<1>1. CASE SelectAgain(t)
  <2>1. PICK c \in Seq(ClientFrames) : c = client[t]
    BY <1>0
  <2>2. /\ c # <<>> /\ Top(c).at = "call" /\ DoSelect(t, c) /\ Idle /\ t \notin dead /\ UNCHANGED <<pipe, gone>>
    BY <1>1, <2>1 DEF SelectAgain, ClientAt, Connected
  <2>3. Shaped(c)
    BY <2>1, ClientForm
  <2>4. Len(c) \in DOMAIN c /\ Top(c) = c[Len(c)]
    BY <2>2, TopPop
  <2>5. Top(c).stolen = <<>> /\ Top(c).at # "read"
    BY <2>2, <2>3, <2>4 DEF Shaped
  <2>6. Same(client[t], c)
    BY <2>1 DEF Same
  <2> QED
    BY <2>2, <2>5, <2>6, DoSelectReply
<1>2. ASSUME NEW a \in WaitArgs, Select(t, a) PROVE WaitInv'
  <2>1. PICK q \in Seq(ClientFrames) : q = <<Call("wait", a)>> /\ q # <<>> /\ Top(q).stolen = <<>>
    BY CallShaped
  <2>2. DoSelect(t, q) /\ Idle /\ t \notin dead /\ UNCHANGED <<pipe, gone>> /\ client[t] = <<>>
    BY <1>2, <2>1 DEF Select, Runs
  <2>3. Same(client[t], q) /\ Top(q).at # "read"
    BY <2>1, <2>2, CallSame
  <2> QED
    BY <2>1, <2>2, <2>3, DoSelectReply
<1> QED
  BY <1>1, <1>2

\* A wait ends: its reply is sent, or its client is gone.
LEMMA EndReply ==
  ASSUME TypeInv, DeadInv, WaitInv, NEW t \in Threads, waits[t] # <<>>, EndWait(t),
         client' = client, dead' = dead, gone' = gone, \A u \in Threads : Selecting(u) => Selecting(u)',
         \/ t \in gone /\ pipe' = pipe
         \/ \E x \in Replies : x.cookie = Top(waits[t]).cookie /\ pipe' = [pipe EXCEPT ![t] = Append(pipe[t], x)]
  PROVE  WaitInv'
<1>0. /\ waits \in [Threads -> Seq(WaitRecords)] /\ pipe \in [Threads -> Seq(Replies)]
      /\ dead \subseteq Threads
  BY DEF TypeInv, ObjTypeOK
<1>1. QueueInv'
  BY EndWaitQueue DEF WaitInv
<1>2. PICK w \in Seq(WaitRecords), p \in Seq(Replies) : w = waits[t] /\ p = pipe[t]
  BY <1>0
<1>3. t \notin dead
  BY DEF DeadInv
<1>4. waits'[t] = Pop(w) /\ \A u \in Threads : u # t => waits'[u] = waits[u]
  BY <1>0, <1>2 DEF EndWait
<1>5. \A u \in Threads : u # t => pipe'[u] = pipe[u]
  BY <1>0
<1>6. ReplyInv(t) /\ \A u \in Threads : ReplyInv(u)
  BY DEF WaitInv
<1>7. ~Selecting(t)' => Fits(waits'[t], client'[t])
  <2>1. Fits(w, client[t]) => Fits(Pop(w), client[t])
    BY <1>2, WaitEnds
  <2> QED
    BY <1>2, <1>4, <1>6, <2>1 DEF ReplyInv
<1>8. ASSUME t \notin gone PROVE Answered(waits'[t], pipe'[t], client'[t])
  <2>1. PICK x \in Replies : x.cookie = Top(w).cookie /\ pipe'[t] = Append(p, x)
    BY <1>0, <1>2, <1>8
  <2>2. Answered(w, p, client[t])
    BY <1>2, <1>3, <1>6, <1>8 DEF ReplyInv
  <2>3. Answered(Pop(w), Append(p, x), client[t])
    BY <1>2, <2>1, <2>2, WaitEnds
  <2> QED
    BY <1>2, <1>4, <2>1, <2>3
<1>9. \A u \in Threads : u # t => waits'[u] = waits[u] /\ pipe'[u] = pipe[u] /\ client'[u] = client[u]
  BY <1>4, <1>5
<1>10. \A u \in Threads : ReplyInv(u)'
  BY <1>3, <1>6, <1>7, <1>8, <1>9, OneReply
<1> QED
  BY <1>1, <1>10 DEF WaitInv

\* wake_thread.
LEMMA WakeThreadReply ==
  ASSUME TypeInv, DeadInv, WaitInv, WakeThread, \A u \in Threads : Selecting(u) => Selecting(u)'
  PROVE  WaitInv'
<1>1. PICK t \in Threads : t = Top(stack).x
  BY FrameThread DEF WakeThread, ThreadOps
<1>2. /\ waits[t] # <<>> /\ EndWait(t) /\ client' = client /\ dead' = dead /\ gone' = gone
      /\ CheckWait(t, Top(waits[t])) # "none"
  BY <1>1 DEF WakeThread, Wakeable, clientVars, Acquire, Satisfied, objVars
<1>3. PICK x \in Replies : x = [cookie |-> Top(waits[t]).cookie, r |-> CheckWait(t, Top(waits[t]))]
                           /\ x.cookie = Top(waits[t]).cookie
  <2>1. waits[t] \in Seq(WaitRecords)
    BY DEF TypeInv
  <2>2. Top(waits[t]) \in WaitRecords
    BY <1>2, <2>1, TopPop
  <2>3. Top(waits[t]).cookie \in Nat \cup {Junk}
    BY <2>2 DEF WaitRecords
  <2>4. CheckWait(t, Top(waits[t])) \in {"object", "abandoned", "apc", "timeout"}
    BY <1>2, CheckWaitTypes
  <2>5. PICK k \in Nat \cup {Junk}, r \in {"object", "abandoned", "apc", "timeout"} :
          k = Top(waits[t]).cookie /\ r = CheckWait(t, Top(waits[t]))
    BY <2>3, <2>4
  <2>6. [cookie |-> k, r |-> r] \in Replies /\ [cookie |-> k, r |-> r].cookie = k
    BY DEF Replies
  <2> QED
    BY <2>5, <2>6
<1>4. (t \in gone /\ pipe' = pipe) \/ pipe' = [pipe EXCEPT ![t] = Append(pipe[t], x)]
  <2>1. pipe \in [Threads -> Seq(Replies)]
    BY DEF TypeInv
  <2> QED
    BY <1>1, <1>3, <2>1 DEF WakeThread
<1> QED
  BY <1>2, <1>3, <1>4, EndReply

\* What a wait asks for is noted in it: its reply does not change.
LEMMA NotedReply ==
  ASSUME TypeInv, WaitInv, Idle, NEW t \in Threads, NEW v, waits' = [waits EXCEPT ![t] = v],
         SameObjects(v, waits[t]), SameCookies(v, waits[t]),
         UNCHANGED <<queue, pipe, client, dead, gone>>
  PROVE  WaitInv'
<1>0. waits \in [Threads -> Seq(WaitRecords)]
  BY DEF TypeInv
<1>1. QueueInv'
  BY QueueKept DEF WaitInv
<1>2. PICK w \in Seq(WaitRecords) : w = waits[t]
  BY <1>0
<1>3. /\ Fits(w, client[t]) => Fits(v, client[t])
      /\ Answered(w, pipe[t], client[t]) => Answered(v, pipe[t], client[t])
  BY <1>2, WaitsAlike DEF SameObjects, SameCookies
<1>4. waits'[t] = v /\ \A u \in Threads : u # t => waits'[u] = waits[u]
  BY <1>0
<1>5. \A u : ~Selecting(u)
  BY IdleSelecting
<1>6. ASSUME NEW u \in Threads PROVE ReplyInv(u)'
  <2>1. ReplyInv(u)
    BY DEF WaitInv
  <2>2. CASE u # t
    BY <1>4, <1>5, <2>1, <2>2 DEF ReplyInv
  <2>3. CASE u = t
    BY <1>2, <1>3, <1>4, <1>5, <2>1, <2>3 DEF ReplyInv
  <2> QED
    BY <2>2, <2>3
<1> QED
  BY <1>1, <1>6 DEF WaitInv

\* The fields of a wait that a timeout changes.
LEMMA ChangeWhen ==
  ASSUME NEW w \in Seq(WaitRecords), NEW level \in DOMAIN w
  PROVE  /\ \A when : LET v == [w EXCEPT ![level].when = when] IN SameObjects(v, w) /\ SameCookies(v, w)
         /\ \A user : LET v == [w EXCEPT ![level].user = user] IN SameObjects(v, w) /\ SameCookies(v, w)
<1>1. w[level] \in WaitRecords
  OBVIOUS
<1>2. \A when : LET x == [w[level] EXCEPT !.when = when] IN x.objs = w[level].objs /\ x.cookie = w[level].cookie
  BY <1>1 DEF WaitRecords
<1>3. \A user : LET x == [w[level] EXCEPT !.user = user] IN x.objs = w[level].objs /\ x.cookie = w[level].cookie
  BY <1>1 DEF WaitRecords
<1> QED
  BY <1>2, <1>3 DEF SameObjects, SameCookies

\* Time passes, and thread_timeout.
LEMMA TimeoutReply ==
  ASSUME TypeInv, DeadInv, WaitInv, NEW t \in Threads, NEW level \in DOMAIN waits[t],
         TimePasses(t, level) \/ ThreadTimeout(t, level)
  PROVE  WaitInv'
<1>0. waits \in [Threads -> Seq(WaitRecords)] /\ pipe \in [Threads -> Seq(Replies)]
  BY DEF TypeInv
<1>1. PICK w \in Seq(WaitRecords) : w = waits[t]
  BY <1>0
<1>2. Idle /\ \A u : ~Selecting(u)
  BY IdleSelecting DEF TimePasses, ThreadTimeout
<1>3. UNCHANGED <<client, dead, gone>>
  BY DEF TimePasses, ThreadTimeout, clientVars, objVars
<1>4. CASE TimePasses(t, level)
  <2>1. PICK v : v = [w EXCEPT ![level].when = "past"]
    OBVIOUS
  <2>2. waits' = [waits EXCEPT ![t] = v] /\ UNCHANGED <<queue, pipe>>
    BY <1>0, <1>1, <1>4, <2>1 DEF TimePasses
  <2>3. SameObjects(v, w) /\ SameCookies(v, w)
    BY <1>1, <2>1, ChangeWhen
  <2> QED
    BY <1>1, <1>2, <1>3, <2>2, <2>3, NotedReply
<1>5. CASE waits' = [waits EXCEPT ![t][level].user = FALSE] /\ UNCHANGED <<queue, pipe>>
  <2>1. PICK v : v = [w EXCEPT ![level].user = FALSE]
    OBVIOUS
  <2>2. waits' = [waits EXCEPT ![t] = v]
    BY <1>0, <1>1, <1>5, <2>1
  <2>3. SameObjects(v, w) /\ SameCookies(v, w)
    BY <1>1, <2>1, ChangeWhen
  <2> QED
    BY <1>1, <1>2, <1>3, <1>5, <2>2, <2>3, NotedReply
<1>6. CASE /\ level = Len(waits[t]) /\ EndWait(t)
           /\ \/ pipe' = [pipe EXCEPT ![t] = Append(@, [cookie |-> waits[t][level].cookie, r |-> "timeout"])]
              \/ t \in gone /\ UNCHANGED pipe
  <2>1. w # <<>>
    BY <1>1
  <2>2. PICK k \in Nat \cup {Junk} : k = Top(w).cookie /\ k = w[level].cookie
    <3>1. Top(w) \in WaitRecords /\ Top(w) = w[level]
      BY <1>1, <1>6, <2>1, TopPop
    <3> QED
      BY <3>1 DEF WaitRecords
  <2>3. PICK x \in Replies : x = [cookie |-> k, r |-> "timeout"] /\ x.cookie = k
    <3>1. [cookie |-> k, r |-> "timeout"] \in Replies /\ [cookie |-> k, r |-> "timeout"].cookie = k
      BY DEF Replies
    <3> QED
      BY <3>1
  <2>4. (t \in gone /\ pipe' = pipe) \/ pipe' = [pipe EXCEPT ![t] = Append(pipe[t], x)]
    BY <1>0, <1>1, <1>6, <2>2, <2>3
  <2> QED
    BY <1>1, <1>2, <1>3, <1>6, <2>1, <2>2, <2>3, <2>4, EndReply
<1>7. CASE ThreadTimeout(t, level)
  BY <1>5, <1>6, <1>7 DEF ThreadTimeout
<1> QED
  BY <1>4, <1>7

\* The frame of a request select that signals an object stays below the calls of wake_up.
LEMMA SignalSelecting ==
  ASSUME TypeInv, NEW t \in Threads, NEW o \in Objects, NEW a \in WaitArgs, SelectSignal(t, o, a)
  PROVE  Selecting(t)'
<1>1. PICK f : f = Frame("select", t, 0, End) /\ f.op = "select" /\ f.x = t
  <2>1. Frame("select", t, 0, End).op = "select" /\ Frame("select", t, 0, End).x = t
    BY DEF Frame
  <2> QED
    BY <2>1
<1>2. SignalCalls(o, 1) = <<>> \/ \E k : SignalCalls(o, 1) = <<CallWakeUp(o, k)>>
  BY DEF SignalCalls
<1>3. stack' = <<f>> \o SignalCalls(o, 1)
  BY <1>1 DEF SelectSignal
<1>4. CASE stack' = <<f>> \o <<>>
  <2>1. <<f>> \in Seq({f})
    OBVIOUS
  <2>2. stack' = <<f>>
    BY <1>4, <2>1, ConcatEmptySeq
  <2> QED
    BY <1>1, <2>2 DEF Selecting
<1>5. ASSUME NEW k, stack' = <<f>> \o <<CallWakeUp(o, k)>> PROVE Selecting(t)'
  <2>1. stack' = <<f, CallWakeUp(o, k)>>
    BY <1>5, PairSeq
  <2> QED
    BY <1>1, <2>1 DEF Selecting
<1> QED
  BY <1>2, <1>3, <1>4, <1>5

\* SignalObjectAndWait: the wait has no cookie until the object is signaled.
LEMMA SelectSignalReply ==
  ASSUME TypeInv, WaitInv, NEW t \in Threads, NEW o \in Objects, NEW a \in WaitArgs, SelectSignal(t, o, a)
  PROVE  WaitInv'
<1>0. /\ waits \in [Threads -> Seq(WaitRecords)] /\ client \in [Threads -> Seq(ClientFrames)]
  BY DEF TypeInv
<1>1. /\ Idle /\ client[t] = <<>> /\ t \notin dead \cup gone /\ UNCHANGED <<pipe, gone>>
      /\ queue' = Queued(t, 1, a.objs)
      /\ waits' = [waits EXCEPT ![t] = <<NewWait(a)>>]
      /\ client' = [client EXCEPT ![t] = <<Call("wait", a)>>]
  BY DEF SelectSignal, Runs
<1>2. dead' = dead
  BY DEF SelectSignal, Signal, mutex_signal, release_semaphore, set_event
<1>3. \A u : ~Selecting(u)
  BY <1>1, IdleSelecting
<1>4. ReplyInv(t) /\ \A u \in Threads : ReplyInv(u)
  BY DEF WaitInv
<1>5. waits[t] = <<>>
  <2>1. Fits(waits[t], <<>>)
    BY <1>1, <1>3, <1>4 DEF ReplyInv
  <2>2. PICK w \in Seq(WaitRecords) : w = waits[t]
    BY <1>0
  <2>3. w # <<>> => Len(w) \in DOMAIN w
    BY TopPop
  <2>4. ~AtRead(<<>>, w[Len(w)].cookie)
    BY DEF AtRead
  <2> QED
    BY <2>1, <2>2, <2>3, <2>4 DEF Fits
<1>6. PICK x \in WaitRecords : x = NewWait(a) /\ x.objs = a.objs /\ x.cookie = Junk
  BY NewWaitTypes
<1>7. QueueInv'
  <2>1. Len(waits[t]) + 1 = 1 /\ Append(waits[t], x) = <<x>>
    BY <1>5
  <2>2. queue' = Queued(t, Len(waits[t]) + 1, x.objs) /\ waits' = [waits EXCEPT ![t] = Append(waits[t], x)]
    BY <1>1, <1>6, <2>1
  <2> QED
    BY <2>2, WaitQueued DEF WaitInv
<1>8. Selecting(t)'
  BY SignalSelecting
<1>9. Answered(<<x>>, pipe[t], <<Call("wait", a)>>)
  <2>1. Answered(<<>>, pipe[t], <<>>)
    BY <1>1, <1>4, <1>5 DEF ReplyInv
  <2>2. Answered(<<x>>, pipe[t], <<>>)
    <3>1. \A n \in Nat : Junk # n
      BY DEF Junk
    <3>2. \A n \in Nat : ~Holds(<<x>>, n) /\ HoldsOnce(<<x>>, n) /\ ~Holds(<<>>, n)
      BY <1>6, <3>1, HoldsFew
    <3> QED
      BY <2>1, <3>2 DEF Answered
  <2>3. Same(<<>>, <<Call("wait", a)>>)
    BY CallSame
  <2> QED
    BY <2>2, <2>3, QuietChange
<1>10. /\ waits'[t] = <<x>> /\ client'[t] = <<Call("wait", a)>>
       /\ \A u \in Threads : u # t => waits'[u] = waits[u] /\ pipe'[u] = pipe[u] /\ client'[u] = client[u]
  BY <1>0, <1>1, <1>6
<1>11. \A u \in Threads : ReplyInv(u)'
  BY <1>1, <1>2, <1>3, <1>4, <1>8, <1>9, <1>10, OneReply
<1> QED
  BY <1>7, <1>11 DEF WaitInv

\* kill_thread: every wait ends, and the client is told.
LEMMA KillReply ==
  ASSUME TypeInv, WaitInv, Kill, \A u \in Threads : Selecting(u) => Selecting(u)'
  PROVE  WaitInv'
<1>0. /\ waits \in [Threads -> Seq(WaitRecords)] /\ pipe \in [Threads -> Seq(Replies)]
      /\ client \in [Threads -> Seq(ClientFrames)]
  BY DEF TypeInv
<1>1. PICK t \in Threads : t = Top(stack).x
  BY FrameThread DEF Kill, ThreadOps
<1>2. client' = client /\ gone' = gone
  BY DEF Kill, clientVars
<1>3. CASE t \in dead
  <2>1. UNCHANGED <<waitVars, pipe, client, dead>>
    BY <1>1, <1>2, <1>3 DEF Kill
  <2> QED
    BY <1>2, <2>1, NoReply
<1>4. ASSUME t \notin dead, dead' = dead \cup {t}, waits' = [waits EXCEPT ![t] = <<>>], queue' = QueuedByOthers(t),
             pipe' = IF waits[t] # <<>> /\ t \notin gone
                     THEN [pipe EXCEPT ![t] = Append(@, [cookie |-> Null, r |-> "killed"])] ELSE pipe
      PROVE  WaitInv'
  <2>1. QueueInv'
    BY <1>4, KillQueue DEF WaitInv
  <2>2. ReplyInv(t) /\ \A u \in Threads : ReplyInv(u)
    BY DEF WaitInv
  <2>3. PICK p \in Seq(Replies), c \in Seq(ClientFrames) : p = pipe[t] /\ c = client[t]
    BY <1>0
  <2>4. /\ waits'[t] = <<>>
        /\ \A u \in Threads : u # t => waits'[u] = waits[u] /\ pipe'[u] = pipe[u] /\ client'[u] = client[u]
    BY <1>0, <1>2, <1>4
  <2>5. Fits(<<>>, client'[t])
    BY DEF Fits
  <2>6. ASSUME t \notin gone PROVE Told(pipe'[t], client'[t])
    <3>1. CASE waits[t] # <<>>
      <4>1. pipe'[t] = Append(p, [cookie |-> Null, r |-> "killed"])
        BY <1>0, <1>4, <2>3, <2>6, <3>1
      <4> QED
        BY <1>2, <2>3, <4>1, KilledTold
    <3>2. CASE waits[t] = <<>>
      <4>1. pipe'[t] = p
        BY <1>4, <2>3, <3>2
      <4>2. Answered(<<>>, p, c)
        BY <1>4, <2>2, <2>3, <2>6, <3>2 DEF ReplyInv
      <4> QED
        BY <1>2, <2>3, <4>1, <4>2, KilledTold
    <3> QED
      BY <3>1, <3>2
  <2>7. t \in dead' /\ dead \subseteq dead' /\ dead' \subseteq dead \cup {t} /\ gone \subseteq gone'
    BY <1>2, <1>4
  <2>8. \A u \in Threads : ReplyInv(u)'
    BY <1>2, <2>2, <2>4, <2>5, <2>6, <2>7, OneReply
  <2> QED
    BY <2>1, <2>8 DEF WaitInv
<1> QED
  BY <1>1, <1>3, <1>4 DEF Kill

\* The end of the request select after signal_object: the wait that had no cookie is
\* over, or the client reads for its reply.
LEMMA SelectRestReply ==
  ASSUME TypeInv, SelectInv, DeadInv, ClientInv, WaitInv, SelectRest
  PROVE  WaitInv'
<1>0. /\ stack \in Seq(ServerFrames(dead)) /\ stack # <<>> /\ client \in [Threads -> Seq(ClientFrames)]
      /\ waits \in [Threads -> Seq(WaitRecords)] /\ pipe \in [Threads -> Seq(Replies)]
  BY DEF TypeInv, SelectRest
<1>1. PICK t \in Threads : t = Top(stack).x
  BY <1>0, FrameThread DEF SelectRest, ThreadOps
<1>2. Len(stack) = 1 /\ Selecting(t) /\ stack[1].x = t
  <2>1. Len(stack) \in DOMAIN stack /\ Top(stack) = stack[Len(stack)] /\ Top(stack).op = "select"
    BY <1>0, TopPop DEF SelectRest
  <2>2. Len(stack) = 1
    BY <2>1 DEF SelectInv
  <2> QED
    BY <1>0, <1>1, <2>1, <2>2 DEF Selecting
<1>3. stack' = <<>> /\ (\A u : ~Selecting(u)') /\ \A u : Selecting(u) => u = t
  <2>1. Pop(stack) \in Seq(ServerFrames(dead)) /\ Len(Pop(stack)) = 0
    <3>1. Pop(stack) \in Seq(ServerFrames(dead)) /\ Len(Pop(stack)) = Len(stack) - 1
      BY <1>0, TopPop
    <3> QED
      BY <1>2, <3>1
  <2>2. stack' = <<>>
    BY <2>1, NotEmpty DEF SelectRest
  <2> QED
    BY <1>2, <2>2 DEF Selecting
<1>4. PICK c \in Seq(ClientFrames), w \in Seq(WaitRecords), p \in Seq(Replies) :
        c = client[t] /\ w = waits[t] /\ p = pipe[t]
  BY <1>0
<1>5. /\ Len(c) = 1 /\ c[1].at = "call" /\ c # <<>> /\ Top(c) = c[1] /\ Top(c).at # "read"
      /\ Len(w) <= 1 /\ (w # <<>> => w[1].cookie = Junk /\ w[1].objs = c[1].args.objs)
  BY <1>2, <1>4, NotEmpty DEF SelectInv, Top
<1>6. Top(c).stolen = <<>>
  <2>1. Shaped(c) /\ 1 \in DOMAIN c
    BY <1>4, <1>5, ClientForm, TopPop
  <2> QED
    BY <1>5, <2>1 DEF Shaped
<1>7. pipe' = pipe /\ gone' = gone /\ dead' = dead
  BY DEF SelectRest, Acquire, Satisfied, objVars
<1>8. ReplyInv(t) /\ \A u \in Threads : ReplyInv(u)
  BY DEF WaitInv
<1>9. \A q : Fits(<<>>, q)
  BY DEF Fits
<1>10. CASE t \in dead /\ UNCHANGED <<objVars, waitVars, client>>
  <2>1. w = <<>>
    BY <1>4, <1>10 DEF DeadInv
  <2>2. QueueInv'
    BY <1>10, QueueForm DEF WaitInv, waitVars
  <2>3. Fits(waits'[t], client'[t]) /\ (t \notin gone' => Told(pipe'[t], client'[t]))
    BY <1>4, <1>7, <1>8, <1>9, <1>10, <2>1 DEF ReplyInv, waitVars
  <2>4. \A u \in Threads : ReplyInv(u)'
    BY <1>3, <1>7, <1>8, <1>10, <2>3, OneReply DEF waitVars
  <2> QED
    BY <2>2, <2>4 DEF WaitInv
<1>11. CASE t \notin dead /\ w = <<>> /\ client' = [client EXCEPT ![t] = Returned(@, "object")] /\ UNCHANGED waitVars
  <2>1. PICK d : d = Returned(c, "object")
    OBVIOUS
  <2>2. Same(client[t], d) /\ client' = [client EXCEPT ![t] = d]
    BY <1>0, <1>4, <1>5, <1>11, <2>1, ReturnedSame
  <2> QED
    BY <1>3, <1>4, <1>7, <1>11, <2>2, QuietReply
<1>12. ASSUME w # <<>>
       PROVE  /\ Pop(w) = <<>> /\ Len(w) = 1 /\ DOMAIN w = {1} /\ w[1] \in WaitRecords
              /\ t \notin dead \cup gone => Answered(<<>>, p, c)
  <2>1. Len(w) = 1 /\ 1 \in DOMAIN w /\ DOMAIN w = 1..1 /\ Top(w) = w[1] /\ w[1] \in WaitRecords
        /\ Pop(w) \in Seq(WaitRecords) /\ Len(Pop(w)) = 0
    <3>1. Len(w) \in Nat \ {0} /\ Top(w) \in WaitRecords
      BY <1>12, TopPop
    <3>2. Len(w) = 1
      BY <1>5, <3>1
    <3> QED
      BY <1>12, <3>2, TopPop
  <2>2. Pop(w) = <<>>
    BY <2>1, NotEmpty
  <2>3. Top(w).cookie = Junk
    BY <1>5, <1>12, <2>1
  <2>4. t \notin dead \cup gone => Answered(w, p, c)
    BY <1>4, <1>8 DEF ReplyInv
  <2>5. Answered(w, p, c) => Answered(Pop(w), p, c)
    BY <1>12, <2>3, WaitEnds
  <2> QED
    BY <2>1, <2>2, <2>4, <2>5
<1>13. ASSUME w # <<>>, EndWait(t), NEW r, client' = [client EXCEPT ![t] = Returned(@, r)] PROVE WaitInv'
  <2>1. QueueInv'
    BY <1>4, <1>13, EndWaitQueue DEF WaitInv
  <2>2. PICK d : d = Returned(c, r)
    OBVIOUS
  <2>3. Same(c, d)
    BY <1>5, <2>2, ReturnedSame
  <2>4. waits'[t] = <<>> /\ client'[t] = d /\ pipe'[t] = p
    BY <1>0, <1>4, <1>7, <1>12, <1>13, <2>2 DEF EndWait
  <2>5. \A u \in Threads : u # t => waits'[u] = waits[u] /\ pipe'[u] = pipe[u] /\ client'[u] = client[u]
    BY <1>0, <1>7, <1>13 DEF EndWait
  <2>6. t \notin dead \cup gone => Answered(<<>>, p, d)
    BY <1>12, <1>13, <2>3, QuietChange
  <2>7. t \notin dead
    BY <1>4, <1>13 DEF DeadInv
  <2>8. \A u \in Threads : ReplyInv(u)'
    BY <1>3, <1>7, <1>8, <1>9, <2>4, <2>5, <2>6, <2>7, OneReply
  <2> QED
    BY <2>1, <2>8 DEF WaitInv
<1>14. ASSUME w # <<>>, NEW b \in BOOLEAN, waits' = [waits EXCEPT ![t][1].user = b, ![t][1].cookie = 1],
              client' = [client EXCEPT ![t] = Reading(@)], queue' = queue
       PROVE  WaitInv'
  <2>1. PICK x \in WaitRecords : x = [w[1] EXCEPT !.user = b, !.cookie = 1] /\ x.cookie = 1 /\ x.objs = w[1].objs
    <3>1. PICK y \in WaitRecords : y = w[1]
      BY <1>12, <1>14
    <3>2. /\ [y EXCEPT !.user = b, !.cookie = 1] \in WaitRecords
          /\ [y EXCEPT !.user = b, !.cookie = 1].cookie = 1
          /\ [y EXCEPT !.user = b, !.cookie = 1].objs = y.objs
      BY DEF WaitRecords
    <3> QED
      BY <3>1, <3>2
  <2>2. PICK v \in Seq(WaitRecords) : v = <<x>> /\ DOMAIN v = {1} /\ v[1] = x /\ v = Append(<<>>, x)
    <3>1. <<x>> \in Seq(WaitRecords) /\ DOMAIN <<x>> = {1} /\ <<x>>[1] = x /\ <<x>> = Append(<<>>, x)
      OBVIOUS
    <3> QED
      BY <3>1
  <2>3. waits' = [waits EXCEPT ![t] = v]
    <3>1. waits'[t] = [w EXCEPT ![1] = x] /\ waits' = [waits EXCEPT ![t] = waits'[t]]
      BY <1>0, <1>4, <1>12, <1>14, <2>1
    <3>2. [w EXCEPT ![1] = x] = v
      <4>1. Len(w) = 1 /\ w \in Seq(WaitRecords)
        BY <1>12, <1>14
      <4>2. PICK z \in Seq(WaitRecords) : z = [w EXCEPT ![1] = x] /\ Len(z) = 1 /\ z[1] = x
        <5>1. 1 \in 1..Len(w)
          BY <4>1
        <5>2. /\ [w EXCEPT ![1] = x] \in Seq(WaitRecords) /\ Len([w EXCEPT ![1] = x]) = Len(w)
              /\ \A j \in 1..Len(w) : [w EXCEPT ![1] = x][j] = IF j = 1 THEN x ELSE w[j]
          BY <5>1, ExceptSeq
        <5> QED
          BY <4>1, <5>1, <5>2
      <4> QED
        BY <2>2, <4>2
    <3> QED
      BY <3>1, <3>2
  <2>4. QueueInv'
    <3>1. SameObjects(v, waits[t])
      BY <1>4, <1>12, <1>14, <2>1, <2>2 DEF SameObjects
    <3> QED
      BY <1>14, <2>3, <3>1, QueueKept DEF WaitInv
  <2>5. PICK d : d = Reading(c) /\ SameBut(c, d, 1) /\ AtRead(d, 1) /\ d[1].stolen = <<>> /\ d[1].args = c[1].args
    <3>1. PICK y \in ClientFrames : /\ Reading(c) = [c EXCEPT ![Len(c)] = y]
                                    /\ y.args = Top(c).args /\ y.stolen = Top(c).stolen /\ y.at = "read"
      BY <1>5, ReadingFacts
    <3>2. PICK e : e = [c EXCEPT ![Len(c)] = y]
      OBVIOUS
    <3>3. SameBut(c, e, 1) /\ AtRead(e, 1) /\ e[1] = y
      <4>1. SameBut(c, e, Len(c)) /\ AtRead(e, Len(c)) /\ e[Len(c)] = y
        BY <1>5, <3>1, <3>2, TopChange
      <4> QED
        BY <1>5, <4>1
    <3> QED
      BY <1>5, <1>6, <3>1, <3>2, <3>3
  <2>6. ~AtRead(c, 1)
    BY <1>5 DEF AtRead
  <2>7. x.objs = d[1].args.objs
    BY <1>5, <1>14, <2>1, <2>5
  <2>8. <<>> \in Seq(WaitRecords)
    BY EmptySeq
  <2>9. Fits(Append(<<>>, x), d)
    <3>1. Fits(<<>>, c) /\ \A l \in DOMAIN <<>> : <<>>[l].cookie < 1
      BY <1>9
    <3> QED
      BY <2>1, <2>5, <2>6, <2>7, <2>8, <3>1, WaitBegins
  <2>10. t \notin dead \cup gone => Answered(Append(<<>>, x), p, d)
    <3>1. Answered(<<>>, p, c) => Answered(Append(<<>>, x), p, d)
      BY <2>1, <2>5, <2>6, <2>7, <2>8, WaitBegins
    <3> QED
      BY <1>12, <1>14, <3>1
  <2>11. waits'[t] = v /\ client'[t] = d /\ pipe'[t] = p
    BY <1>0, <1>4, <1>7, <1>14, <2>3, <2>5
  <2>12. \A u \in Threads : u # t => waits'[u] = waits[u] /\ pipe'[u] = pipe[u] /\ client'[u] = client[u]
    BY <1>0, <1>7, <1>14, <2>3
  <2>13. t \notin dead
    BY <1>4, <1>14 DEF DeadInv
  <2>14. \A u \in Threads : ReplyInv(u)'
    BY <1>3, <1>7, <1>8, <2>2, <2>9, <2>10, <2>11, <2>12, <2>13, OneReply
  <2> QED
    BY <2>4, <2>14 DEF WaitInv
<1>15. \/ t \in dead /\ UNCHANGED <<objVars, waitVars, client>>
       \/ t \notin dead /\ w = <<>> /\ client' = [client EXCEPT ![t] = Returned(@, "object")] /\ UNCHANGED waitVars
       \/ /\ w # <<>> /\ EndWait(t)
          /\ client' = [client EXCEPT ![t] = Returned(@, CheckWait(t, Top(waits[t])))]
       \/ /\ w # <<>> /\ client' = [client EXCEPT ![t] = Reading(@)] /\ queue' = queue
          /\ waits' = [waits EXCEPT ![t][1].user = Top(waits[t]).when # "never", ![t][1].cookie = 1]
  BY <1>1, <1>4 DEF SelectRest
<1> QED
  BY <1>10, <1>11, <1>13, <1>14, <1>15

\* Only what the innermost frame has stolen changes.
LEMMA StolenChange ==
  ASSUME NEW c \in Seq(ClientFrames), c # <<>>, Top(c).at = "read", NEW s \in Seq(Replies)
  PROVE  \E d \in Seq(ClientFrames) :
           /\ d = [c EXCEPT ![Len(c)].stolen = s] /\ d # <<>> /\ Len(d) = Len(c) /\ SameBut(c, d, Len(c))
           /\ AtRead(d, Len(c)) /\ d[Len(c)].args = c[Len(c)].args /\ d[Len(c)].stolen = s
           /\ Top(d).kind = Top(c).kind
<1> DEFINE r == [c EXCEPT ![Len(c)].stolen = s]
<1>1. /\ r \in Seq(ClientFrames) /\ Len(r) = Len(c) /\ r # <<>> /\ DOMAIN r = DOMAIN c
      /\ \A i \in DOMAIN c :
           /\ r[i].kind = c[i].kind /\ r[i].args = c[i].args /\ r[i].at = c[i].at
           /\ r[i].stolen = IF i = Len(c) THEN s ELSE c[i].stolen
  BY StolenFacts
<1> HIDE DEF r
<1>2. Len(c) \in DOMAIN c /\ Top(c) = c[Len(c)]
  BY TopPop
<1>3. SameBut(c, r, Len(c)) /\ AtRead(r, Len(c))
  BY <1>1, <1>2 DEF SameBut, AtRead
<1>4. Top(r).kind = Top(c).kind
  BY <1>1, <1>2 DEF Top
<1>5. r[Len(c)].args = c[Len(c)].args /\ r[Len(c)].stolen = s
  BY <1>1, <1>2
<1> QED
  BY <1>1, <1>3, <1>4, <1>5 DEF r

\* A wait that returns reads no more.
LEMMA ReturnedTold ==
  ASSUME NEW c \in Seq(ClientFrames), c # <<>>, Shaped(c), NEW d \in Seq(ClientFrames), d # <<>>,
         Len(d) = Len(c), Top(d).kind = Top(c).kind, NEW r, NEW p
  PROVE  Told(p, Returned(d, r))
<1>1. CASE Returned(d, r) = Pop(d) /\ Top(d).kind = "wait"
  <2>1. Len(d) = 1
    BY <1>1, PopShaped
  <2>2. Pop(d) \in Seq(ClientFrames) /\ Len(Pop(d)) = Len(d) - 1
    BY TopPop
  <2>3. Len(Pop(d)) = 0
    BY <2>1, <2>2
  <2> QED
    BY <1>1, <2>2, <2>3, NotEmpty DEF Told
<1>2. ASSUME NEW x \in ClientFrames, Returned(d, r) = [d EXCEPT ![Len(d)] = x], x.at # "read"
      PROVE  Told(p, Returned(d, r))
  <2>1. PICK e : e = [d EXCEPT ![Len(d)] = x] /\ Top(e) = x
    <3> DEFINE y == [d EXCEPT ![Len(d)] = x]
    <3>1. Top(y) = x
      BY ReplaceTop
    <3> HIDE DEF y
    <3> QED
      BY <3>1 DEF y
  <2> QED
    BY <1>2, <2>1 DEF Told
<1>3. \/ Returned(d, r) = Pop(d) /\ Top(d).kind = "wait"
      \/ \E x \in ClientFrames : Returned(d, r) = [d EXCEPT ![Len(d)] = x] /\ x.at # "read"
  BY ReturnedFacts
<1> QED
  BY <1>1, <1>2, <1>3

\* wait_reply.
LEMMA ReadReplyReply ==
  ASSUME TypeInv, DeadInv, ClientInv, WaitInv, NEW t \in Threads, ReadReply(t)
  PROVE  WaitInv'
<1>0. /\ client \in [Threads -> Seq(ClientFrames)] /\ waits \in [Threads -> Seq(WaitRecords)]
      /\ pipe \in [Threads -> Seq(Replies)]
  BY DEF TypeInv
<1>1. PICK c \in Seq(ClientFrames), w \in Seq(WaitRecords), p \in Seq(Replies) :
        c = client[t] /\ w = waits[t] /\ p = pipe[t]
  BY <1>0
<1>2. /\ c # <<>> /\ Top(c).at = "read" /\ p # <<>> /\ t \notin gone /\ Idle /\ UNCHANGED <<waitVars, dead>>
  BY <1>1 DEF ReadReply, ClientAt, objVars
<1>3. PICK n \in Nat \ {0} : n = Len(c) /\ DOMAIN c = 1..n /\ n \in DOMAIN c /\ Top(c) = c[n] /\ AtRead(c, n)
  <2>1. Len(c) \in Nat \ {0} /\ DOMAIN c = 1..Len(c) /\ Len(c) \in DOMAIN c /\ Top(c) = c[Len(c)]
    BY <1>2, TopPop
  <2> QED
    BY <1>2, <2>1 DEF AtRead
<1>4. PICK s \in Seq(Replies) : s = c[n].stolen
  BY <1>2, <1>3, TopPop, ClientFrameTypes
<1>5. PICK h \in Replies : h = Head(p)
  BY <1>2, HeadTailProperties
<1>6. \A u : ~Selecting(u)
  BY <1>2, IdleSelecting
<1>7. Shaped(c)
  BY <1>1, ClientForm
<1>8. ReplyInv(t) /\ \A u \in Threads : ReplyInv(u)
  BY DEF WaitInv
<1>9. QueueInv'
  BY <1>2, QueueForm DEF WaitInv, waitVars
<1>10. t \in dead => w = <<>>
  BY <1>1 DEF DeadInv
<1>11. Fits(w, c) /\ (t \notin dead => Answered(w, p, c)) /\ (t \in dead => Told(p, c))
  BY <1>1, <1>2, <1>6, <1>8 DEF ReplyInv
<1>12. ASSUME NEW q, NEW d, pipe' = [pipe EXCEPT ![t] = q], client' = [client EXCEPT ![t] = d], gone' = gone,
              Fits(w, d), t \notin dead => Answered(w, q, d), t \in dead => Told(q, d)
       PROVE  WaitInv'
  <2>1. waits'[t] = w /\ pipe'[t] = q /\ client'[t] = d
        /\ \A u \in Threads : u # t => waits'[u] = waits[u] /\ pipe'[u] = pipe[u] /\ client'[u] = client[u]
    BY <1>0, <1>1, <1>2, <1>12 DEF waitVars
  <2>2. \A u \in Threads : ReplyInv(u)'
    BY <1>2, <1>6, <1>8, <1>12, <2>1, OneReply
  <2> QED
    BY <1>9, <2>2 DEF WaitInv
<1>13. CASE gone' = gone \cup {t} /\ UNCHANGED <<pipe, client>>
  BY <1>2, <1>6, <1>13, NoReply
<1>14. CASE h.cookie = n /\ gone' = gone
            /\ pipe' = [pipe EXCEPT ![t] = Tail(@) \o client[t][n].stolen]
            /\ client' = [client EXCEPT ![t] = Returned([client[t] EXCEPT ![n].stolen = <<>>], h.r)]
  <2>1. PICK none \in Seq(Replies) : none = <<>>
    BY EmptySeq
  <2>2. PICK e \in Seq(ClientFrames) : /\ e = [c EXCEPT ![n].stolen = <<>>] /\ e # <<>> /\ Len(e) = n
                                       /\ SameBut(c, e, n) /\ Top(e).kind = Top(c).kind
    <3>1. PICK e \in Seq(ClientFrames) : /\ e = [c EXCEPT ![n].stolen = none] /\ e # <<>> /\ Len(e) = n
                                         /\ SameBut(c, e, n) /\ Top(e).kind = Top(c).kind
      <4>1. \E e \in Seq(ClientFrames) :
              /\ e = [c EXCEPT ![Len(c)].stolen = none] /\ e # <<>> /\ Len(e) = Len(c)
              /\ SameBut(c, e, Len(c)) /\ Top(e).kind = Top(c).kind
        BY <1>2, StolenChange
      <4> QED
        BY <1>3, <4>1
    <3> QED
      BY <2>1, <3>1
  <2>3. PICK d : d = Returned(e, h.r)
    OBVIOUS
  <2>4. SameBut(e, d, n) /\ ~AtRead(d, n)
    BY <2>2, <2>3, ReturnedBut
  <2>5. SameBut(c, d, n)
    BY <2>2, <2>4 DEF SameBut
  <2>0. /\ p # <<>> /\ n \in Nat /\ SameBut(c, d, n) /\ AtRead(c, n) /\ ~AtRead(d, n)
        /\ c[n].stolen \in Seq(Replies) /\ Head(p).cookie = n
    BY <1>2, <1>3, <1>4, <1>5, <1>14, <2>4, <2>5
  <2>6. Fits(w, c) /\ ~Holds(w, n) => Fits(w, d)
    BY <2>0, OwnReply
  <2>7. Answered(w, p, c) => Answered(w, Tail(p) \o s, d) /\ ~Holds(w, n)
    BY <1>4, <2>0, OwnReply
  <2>8. t \in dead => ~Holds(w, n)
    BY <1>10, HoldsFew
  <2>9. Told(Tail(p) \o s, d)
    BY <1>2, <1>3, <1>7, <2>2, <2>3, ReturnedTold
  <2>10. pipe' = [pipe EXCEPT ![t] = Tail(p) \o s] /\ client' = [client EXCEPT ![t] = d]
    BY <1>0, <1>1, <1>4, <1>14, <2>2, <2>3
  <2>11. Fits(w, d) /\ (t \notin dead => Answered(w, Tail(p) \o s, d))
    BY <1>11, <2>6, <2>7, <2>8
  <2> QED
    BY <1>12, <1>14, <2>9, <2>10, <2>11
<1>15. CASE h.cookie \notin {n, Null} /\ gone' = gone
            /\ pipe' = [pipe EXCEPT ![t] = Tail(@)]
            /\ client' = [client EXCEPT ![t][n].stolen = <<h>> \o @]
  <2>1. PICK z \in Seq(Replies) : z = <<h>> \o s
    BY HoldsMore
  <2>2. PICK d \in Seq(ClientFrames) : /\ d = [c EXCEPT ![n].stolen = z] /\ d # <<>> /\ Len(d) = n
                                       /\ SameBut(c, d, n) /\ AtRead(d, n) /\ d[n].args = c[n].args
                                       /\ d[n].stolen = z
    BY <1>2, <1>3, StolenChange
  <2>3. \A k : AtRead(c, k) /\ k # n => k < n
    BY <1>3 DEF AtRead
  <2>4. d[n].stolen = <<Head(p)>> \o c[n].stolen /\ Head(p).cookie # n /\ c[n].stolen \in Seq(Replies)
    BY <1>4, <1>5, <1>15, <2>1, <2>2
  <2>5. (Fits(w, c) => Fits(w, d)) /\ (Answered(w, p, c) => Answered(w, Tail(p), d))
    <3>1. /\ p # <<>> /\ n \in Nat /\ SameBut(c, d, n) /\ AtRead(c, n) /\ AtRead(d, n) /\ d[n].args = c[n].args
          /\ Below(c, n)
      BY <1>2, <1>3, <2>2, <2>3 DEF Below
    <3>2. Fits(w, c) => Fits(w, d)
      BY <2>4, <3>1, OtherReply
    <3>3. Answered(w, p, c) => Answered(w, Tail(p), d)
      BY <2>4, <3>1, OtherReply
    <3> QED
      BY <3>2, <3>3
  <2>6. ASSUME Told(p, c) PROVE Told(Tail(p), d)
    <3>1. Holds(p, Null) \/ Holds(p, n)
      BY <1>2, <1>3, <2>6 DEF Told
    <3>2. \A k : Holds(p, k) <=> Holds(Tail(p), k) \/ h.cookie = k
      BY <1>2, <1>5, HoldsLess
    <3> QED
      BY <1>15, <2>2, <3>1, <3>2 DEF Told
  <2>7. pipe' = [pipe EXCEPT ![t] = Tail(p)] /\ client' = [client EXCEPT ![t] = d]
    <3>1. client'[t] = [c EXCEPT ![n].stolen = <<h>> \o c[n].stolen] /\ client' = [client EXCEPT ![t] = client'[t]]
      BY <1>0, <1>1, <1>15
    <3> QED
      BY <1>0, <1>1, <1>4, <1>15, <2>1, <2>2, <3>1
  <2> QED
    BY <1>11, <1>12, <1>15, <2>5, <2>6, <2>7
<1>16. \/ gone' = gone \cup {t} /\ UNCHANGED <<pipe, client>>
       \/ /\ h.cookie = n /\ gone' = gone
          /\ pipe' = [pipe EXCEPT ![t] = Tail(@) \o client[t][n].stolen]
          /\ client' = [client EXCEPT ![t] = Returned([client[t] EXCEPT ![n].stolen = <<>>], h.r)]
       \/ /\ h.cookie \notin {n, Null} /\ gone' = gone
          /\ pipe' = [pipe EXCEPT ![t] = Tail(@)]
          /\ client' = [client EXCEPT ![t][n].stolen = <<h>> \o @]
  BY <1>1, <1>3, <1>5 DEF ReadReply
<1> QED
  BY <1>13, <1>14, <1>15, <1>16

\* Every step keeps the replies where they are expected.
LEMMA WaitInvStep ==
  ASSUME TypeInv, TypeInv', SelectInv, DeadInv, ClientInv, WaitInv, Next
  PROVE  WaitInv'
<1>1. ~SelectRest => \A u \in Threads : Selecting(u) => Selecting(u)'
  BY SelectingSteps
<1>2. ASSUME \A u \in Threads : Selecting(u) => Selecting(u)', UNCHANGED <<objVars, waitVars, pipe, clientVars>>
      PROVE  WaitInv'
  BY <1>2, NoReply DEF objVars, clientVars
<1>3. ASSUME \A u \in Threads : Selecting(u) => Selecting(u)', UNCHANGED <<waitVars, pipe, client, dead>>,
             gone \subseteq gone'
      PROVE  WaitInv'
  BY <1>3, NoReply
<1>4. CASE SelectRest
  BY <1>4, SelectRestReply
<1>5. CASE ServerActions /\ ~SelectRest
  <2>1. CASE WakeThread
    BY <1>1, <1>5, <2>1, WakeThreadReply
  <2>2. CASE Kill
    BY <1>1, <1>5, <2>2, KillReply
  <2>3. CASE WakeUp \/ WakeThreadEnd \/ Abandon \/ Cleanup \/ PulseReset \/ TimerSignals
    <3>1. UNCHANGED <<waitVars, pipe, client, dead>> /\ gone \subseteq gone'
      BY <2>3 DEF WakeUp, WakeThreadEnd, Abandon, Cleanup, PulseReset, TimerSignals, objVars, clientVars
    <3> QED
      BY <1>1, <1>3, <1>5, <3>1
  <2> QED
    BY <1>5, <2>1, <2>2, <2>3 DEF ServerActions
<1>6. ASSUME NEW t \in Threads, ClientActions(t), ~SelectRest PROVE WaitInv'
  <2>1. CASE SelectAgain(t)
    BY <2>1, SelectReply
  <2>2. CASE ReadReply(t)
    BY <2>2, ReadReplyReply
  <2>3. CASE GetApc(t) \/ LeaveSuspend(t) \/ TakeSignal(t) \/ SetContext(t)
    BY <2>3, HandlerReply
  <2>4. CASE ClientDies(t)
    <3>1. UNCHANGED <<waitVars, pipe, client, dead>> /\ gone \subseteq gone'
      BY <2>4 DEF ClientDies, objVars
    <3> QED
      BY <1>1, <1>3, <1>6, <3>1
  <2> QED
    BY <1>6, <2>1, <2>2, <2>3, <2>4 DEF ClientActions
<1>7. ASSUME NEW t \in Threads, RequestActions(t), ~SelectRest PROVE WaitInv'
  <2>1. ASSUME NEW a \in WaitArgs, Select(t, a) PROVE WaitInv'
    BY <2>1, SelectReply
  <2>2. ASSUME NEW o \in Objects, NEW a \in WaitArgs, SelectSignal(t, o, a) PROVE WaitInv'
    BY <2>2, SelectSignalReply
  <2>3. ASSUME NEW o, NEW n,
               \/ SignalObject(t, o, n) \/ PulseEvent(t, o) \/ ResetEvent(t, o)
               \/ CancelTimer(t, o) \/ \E period, apc \in BOOLEAN : SetTimer(t, o, period, apc)
               \/ TerminateThread(t, o) \/ ResumeThread(t, o) \/ SuspendThread(t, o) \/ ExitThread(t)
               \/ \E system \in BOOLEAN : QueueApc(t, o, system)
        PROVE  UNCHANGED <<waitVars, pipe, client, dead>> /\ gone \subseteq gone'
    BY <2>3 DEF SignalObject, PulseEvent, ResetEvent, CancelTimer, SetTimer, TerminateThread, ResumeThread, QueueApc,
                SuspendThread, ExitThread, Signal, mutex_signal, release_semaphore, set_event, clientVars, objVars
  <2> QED
    BY <1>1, <1>3, <1>7, <2>1, <2>2, <2>3 DEF RequestActions
<1>8. ASSUME NEW t \in Threads, OtherActions(t), ~SelectRest PROVE WaitInv'
  <2>1. ASSUME NEW level \in DOMAIN waits[t], TimePasses(t, level) \/ ThreadTimeout(t, level) PROVE WaitInv'
    BY <2>1, TimeoutReply
  <2>2. CASE PollHup(t)
    BY <1>1, <1>2, <1>8, <2>2 DEF PollHup
  <2> QED
    BY <1>8, <2>1, <2>2 DEF OtherActions
<1>9. ASSUME \E r \in Timers : TimerExpires(r), ~SelectRest PROVE WaitInv'
  BY <1>1, <1>2, <1>9 DEF TimerExpires
<1>10. ASSUME NEW p \in Processes, Crash(p), ~SelectRest PROVE WaitInv'
  <2>1. UNCHANGED <<waitVars, pipe, client, dead>> /\ gone \subseteq gone'
    BY <1>10 DEF Crash, objVars
  <2> QED
    BY <1>1, <1>3, <1>10, <2>1
<1> QED
  BY <1>4, <1>5, <1>6, <1>7, <1>8, <1>9, <1>10, NextActions

\* Nothing waits at the start.
LEMMA InitReply ==
  ASSUME Init
  PROVE  WaitInv
<1>1. IsInjective(<<>>) /\ Range(<<>>) = {}
  BY DEF IsInjective, Range
<1>2. QueueInv
  BY <1>1 DEF Init, QueueInv
<1>3. \A n : ~Holds(<<>>, n) /\ HoldsOnce(<<>>, n) /\ ~AtRead(<<>>, n) /\ ~Keeps(<<>>, n) /\ KeepsOnce(<<>>, n)
  BY DEF Holds, HoldsOnce, AtRead, Keeps, KeepsOnce
<1>4. Fits(<<>>, <<>>) /\ Answered(<<>>, <<>>, <<>>)
  BY <1>3 DEF Fits, Answered
<1>5. \A t \in Threads : ReplyInv(t)
  BY <1>4 DEF Init, ObjInit, ReplyInv
<1> QED
  BY <1>2, <1>5 DEF WaitInv

\* The queues hold the entries of the waits, each once; every wait of the server is that of
\* a frame of the client; and the reply that a frame reads for is in one place, in a wait,
\* in the pipe or with a frame that has stolen it.
THEOREM WaitHolds == Spec => []WaitInv
<1>1. Init => WaitInv
  BY InitReply
<1>2. TypeInv /\ TypeInv' /\ SelectInv /\ DeadInv /\ ClientInv /\ WaitInv /\ [Next]_vars => WaitInv'
  <2>1. ASSUME WaitInv, UNCHANGED vars PROVE WaitInv'
    <3>1. UNCHANGED <<waitVars, pipe, client, dead>> /\ gone' = gone /\ stack' = stack
      BY <2>1 DEF vars, runVars, objVars, clientVars
    <3> QED
      BY <2>1, <3>1, NoReply DEF Selecting
  <2> QED
    BY <2>1, WaitInvStep
<1> QED
  BY <1>1, <1>2, TypesHold, DeadHolds, ClientHolds, PTL DEF Spec

\* The places where a list has a cookie that it has at most once.
LEMMA CountPlaces ==
  ASSUME NEW q, NEW n, HoldsOnce(q, n)
  PROVE  Cardinality({i \in DOMAIN q : q[i].cookie = n}) = IF Holds(q, n) THEN 1 ELSE 0
<1> DEFINE S == {i \in DOMAIN q : q[i].cookie = n}
<1>1. ASSUME NEW i \in S PROVE S = {i}
  BY <1>1 DEF HoldsOnce
<1>2. Holds(q, n) <=> S # {}
  BY DEF Holds
<1>3. Cardinality({}) = 0 /\ \A x : Cardinality({x}) = 1
  BY FS_EmptySet, FS_Singleton
<1> HIDE DEF S
<1>4. Cardinality(S) = IF Holds(q, n) THEN 1 ELSE 0
  BY <1>1, <1>2, <1>3
<1> QED
  BY <1>4 DEF S

\* The replies that the frames have stolen, counted.
LEMMA CountStolen ==
  ASSUME ClientInv, NEW t \in Threads, NEW n, KeepsOnce(client[t], n)
  PROVE  Cardinality(Stolen(t, n)) = IF Keeps(client[t], n) THEN 1 ELSE 0
<1> DEFINE c == client[t]
           S == Stolen(t, n)
<1>1. \A x : x \in S <=> \E l \in DOMAIN c : \E i \in DOMAIN c[l].stolen : c[l].stolen[i].cookie = n /\ x = <<l, i>>
  BY DEF Stolen
<1>2. ASSUME NEW l \in DOMAIN c, NEW i \in DOMAIN c[l].stolen PROVE AtRead(c, l)
  BY <1>2 DEF ClientInv, ClientShape, AtRead
<1>3. Keeps(c, n) <=> S # {}
  <2>1. Keeps(c, n) <=> \E l \in DOMAIN c : \E i \in DOMAIN c[l].stolen : c[l].stolen[i].cookie = n
    BY <1>2 DEF Keeps, Holds
  <2> HIDE DEF S
  <2> QED
    BY <1>1, <2>1
<1>4. ASSUME NEW x \in S, NEW y \in S PROVE x = y
  <2>1. PICK l \in DOMAIN c : \E i : i \in DOMAIN c[l].stolen /\ c[l].stolen[i].cookie = n /\ x = <<l, i>>
    BY <1>1, <1>4
  <2>2. PICK i : i \in DOMAIN c[l].stolen /\ c[l].stolen[i].cookie = n /\ x = <<l, i>>
    BY <2>1
  <2>3. PICK k \in DOMAIN c : \E j : j \in DOMAIN c[k].stolen /\ c[k].stolen[j].cookie = n /\ y = <<k, j>>
    BY <1>1, <1>4
  <2>4. PICK j : j \in DOMAIN c[k].stolen /\ c[k].stolen[j].cookie = n /\ y = <<k, j>>
    BY <2>3
  <2>5. AtRead(c, l) /\ Holds(c[l].stolen, n) /\ AtRead(c, k) /\ Holds(c[k].stolen, n)
    BY <1>2, <2>2, <2>4 DEF Holds
  <2>6. l = k /\ HoldsOnce(c[l].stolen, n)
    BY <2>5 DEF KeepsOnce
  <2>7. i = j
    BY <2>2, <2>4, <2>6 DEF HoldsOnce
  <2> QED
    BY <2>2, <2>4, <2>6, <2>7
<1>5. Cardinality({}) = 0 /\ \A x : Cardinality({x}) = 1
  BY FS_EmptySet, FS_Singleton
<1> HIDE DEF S
<1>6. S # {} => \E x : S = {x}
  BY <1>4
<1>7. Cardinality(S) = IF Keeps(c, n) THEN 1 ELSE 0
  BY <1>3, <1>5, <1>6
<1> QED
  BY <1>7 DEF S

\* wait_reply and send_thread_wakeup: every client wait that expects a reply has exactly
\* one to come, and between two requests no other reply is left, but those of waits that
\* signaled the object that they wait for.
THEOREM OneAnswerHolds == Spec => []OneAnswer
<1>1. TypeInv /\ ClientInv /\ WaitInv => OneAnswer
  <2> SUFFICES ASSUME TypeInv, ClientInv, WaitInv, NEW t \in Threads \ (dead \cup gone)
               PROVE  /\ \A n \in DOMAIN client[t] : Reads(t, n) =>
                           Cardinality(Awaited(t, n)) + Cardinality(Sent(t, n)) + Cardinality(Stolen(t, n)) = 1
                      /\ \A i \in DOMAIN pipe[t] : pipe[t][i].cookie = Junk \/ Reads(t, pipe[t][i].cookie)
    BY DEF OneAnswer
  <2>0. client[t] \in Seq(ClientFrames) /\ pipe[t] \in Seq(Replies)
    BY DEF TypeInv
  <2>1. Answered(waits[t], pipe[t], client[t])
    BY DEF WaitInv, ReplyInv
  <2>2. ASSUME NEW n \in DOMAIN client[t], Reads(t, n)
        PROVE  Cardinality(Awaited(t, n)) + Cardinality(Sent(t, n)) + Cardinality(Stolen(t, n)) = 1
    <3>1. n \in Nat /\ AtRead(client[t], n)
      BY <2>0, <2>2 DEF Reads, AtRead
    <3>2. /\ Holds(waits[t], n) \/ Holds(pipe[t], n) \/ Keeps(client[t], n)
          /\ ~(Holds(waits[t], n) /\ Holds(pipe[t], n)) /\ ~(Holds(waits[t], n) /\ Keeps(client[t], n))
          /\ ~(Holds(pipe[t], n) /\ Keeps(client[t], n))
          /\ HoldsOnce(waits[t], n) /\ HoldsOnce(pipe[t], n) /\ KeepsOnce(client[t], n)
      BY <2>1, <3>1 DEF Answered
    <3>3. Cardinality(Awaited(t, n)) = IF Holds(waits[t], n) THEN 1 ELSE 0
      BY <3>2, CountPlaces DEF Awaited
    <3>4. Cardinality(Sent(t, n)) = IF Holds(pipe[t], n) THEN 1 ELSE 0
      BY <3>2, CountPlaces DEF Sent
    <3>5. Cardinality(Stolen(t, n)) = IF Keeps(client[t], n) THEN 1 ELSE 0
      BY <3>2, CountStolen
    <3> QED
      BY <3>2, <3>3, <3>4, <3>5
  <2>3. ASSUME NEW i \in DOMAIN pipe[t], pipe[t][i].cookie # Junk PROVE Reads(t, pipe[t][i].cookie)
    <3>1. pipe[t][i].cookie \in Nat
      <4>1. PICK p \in Seq(Replies) : p = pipe[t]
        BY <2>0
      <4>2. p[i] \in Replies
        BY <2>3, <4>1
      <4> QED
        BY <2>3, <4>1, <4>2 DEF Replies
    <3>2. Holds(pipe[t], pipe[t][i].cookie)
      BY DEF Holds
    <3> QED
      BY <2>1, <3>1, <3>2 DEF Answered, AtRead, Reads
  <2> QED
    BY <2>2, <2>3
<1> QED
  BY <1>1, TypesHold, ClientHolds, WaitHolds, PTL DEF Spec

\* kill_thread: a client that reads when its thread is killed finds something to read.
THEOREM KilledClientWakesHolds == Spec => []KilledClientWakes
<1>1. TypeInv /\ WaitInv => KilledClientWakes
  <2> SUFFICES ASSUME TypeInv, WaitInv, NEW t \in dead \ gone, ClientAt(t, "read") PROVE pipe[t] # <<>>
    BY DEF KilledClientWakes
  <2>1. t \in Threads
    BY DEF TypeInv, ObjTypeOK
  <2>2. Told(pipe[t], client[t])
    BY <2>1 DEF WaitInv, ReplyInv
  <2>3. Holds(pipe[t], Null) \/ Holds(pipe[t], Len(client[t]))
    BY <2>2 DEF Told, ClientAt
  <2> QED
    BY <2>3, HoldsFew
<1> QED
  BY <1>1, TypesHold, WaitHolds, PTL

\* Every variable has its type, and the wait queues hold exactly the entries of the waits
\* in progress (wait_on and end_wait).
THEOREM TypeOKHolds == Spec => []TypeOK
<1>1. TypeInv /\ WaitInv => TypeOK
  BY DEF TypeInv, WaitInv, QueueInv, TypeOK
<1> QED
  BY <1>1, TypesHold, WaitHolds, PTL
=============================================================================
