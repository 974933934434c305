------------------------------ MODULE ServerWait ------------------------------
(***************************************************************************)
(* How threads wait, and are woken up, suspended and killed: the wait      *)
(* engine of the wineserver (server/thread.c, server/mutex.c,              *)
(* server/semaphore.c, server/event.c, server/timer.c) together with the   *)
(* client side of a wait (dlls/ntdll/sync.c, dlls/ntdll/exception.c).      *)
(*                                                                         *)
(* The server is single threaded: it handles one request, one expired      *)
(* timeout or one closed connection at a time.  Its functions call each    *)
(* other recursively (a wake-up that fails kills a thread, which releases  *)
(* mutexes, which wakes up threads), so the module keeps the server's call *)
(* stack and takes one step per loop round.  The server is idle when the   *)
(* stack is empty; the clients make requests only then.                    *)
(*                                                                         *)
(* No process is suspended as a whole (process->suspend is 0), no memory   *)
(* allocation fails and every handle is valid.                             *)
(***************************************************************************)
EXTENDS WaitObjects, Lists, SequencesExt

CONSTANTS
  Workloads,      \* what applications do: each a record of the threads that run, the
                  \* objects that they signal or set, the waits
                  \* they ask for, pairs of an object to signal and a wait, done in one
                  \* request, the kinds of other requests (ops), and whether a process may
                  \* die without the server noticing at once (crashes)
  ReleaseCounts,  \* the counts applications release a semaphore by
  MaxSuspend,     \* MAXIMUM_SUSPEND_COUNT
  MaxApc,         \* bound: queued APCs of one kind per thread
  MaxRecursion,   \* bound: how often a thread acquires a mutex it owns
  MaxStale,       \* bound: the replies in a pipe that nobody waits for
  NoOwner         \* the owner of an APC that no object owns

\* What an application asks of a wait.  It names no object twice: nothing in the code
\* checks this, but the Windows API forbids it, and the server relies on it (wake_up goes
\* on from a freed entry, semaphore_satisfied asserts a count that is not 0).
WaitArgs ==
  {a \in [objs : Seq(Objects), all : BOOLEAN, intr : BOOLEAN, alertable : BOOLEAN,
          timeout : {"never", "future", "past"}] :
     IsInjective(a.objs)}

ASSUME ServerAssumption ==
  /\ \A w \in Workloads :
       /\ w.threads \subseteq Threads /\ w.crashes \in BOOLEAN
       /\ w.waits \subseteq WaitArgs /\ w.signalWaits \subseteq Objects \X WaitArgs
  /\ MaxSuspend \in Nat \ {0} /\ MaxApc \in Nat /\ MaxRecursion \in Nat \ {0} /\ MaxStale \in Nat
  /\ ReleaseCounts \subseteq Nat \ {0}
  /\ NoOwner \notin Timers

VARIABLES
  queue,        \* obj->wait_queue: entries [thread, level, idx], in order
  waits,        \* thread->wait and its chain of next, innermost last
  suspend,      \* thread->suspend
  context,      \* the threads with thread->context set
  system_apc, user_apc,  \* the APC queues: the owner of each APC
  armed,        \* the timers with timer->timeout set
  periodic,     \* the timers with timer->period set
  apc_thread,   \* timer->thread
  stack,        \* the server's call stack, innermost frame last
  corrupt,      \* has the server followed a freed or null pointer
  pipe,         \* the wake-up replies in each thread's wait_fd
  gone,         \* the clients that no longer exist
  sig,          \* the clients with a pending SIGUSR1
  client,       \* what each client is doing inside ntdll, innermost last
  load          \* the workload; it is chosen at the start and stays

waitVars == <<queue, waits>>
timerVars == <<armed, periodic, apc_thread>>
apcVars == <<system_apc, user_apc>>
clientVars == <<gone, sig, client>>
runVars == <<objVars, waitVars, suspend, context, apcVars, timerVars, stack, corrupt, pipe, clientVars>>
vars == <<runVars, load>>

Init ==
  /\ ObjInit
  /\ queue = [o \in Objects |-> <<>>]
  /\ waits = [t \in Threads |-> <<>>]
  /\ suspend = [t \in Threads |-> 0]
  /\ context = {}
  /\ system_apc = [t \in Threads |-> <<>>]
  /\ user_apc = [t \in Threads |-> <<>>]
  /\ armed = {} /\ periodic = {}
  /\ apc_thread = [r \in Timers |-> NoThread]
  /\ stack = <<>>
  /\ corrupt = FALSE
  /\ pipe = [t \in Threads |-> <<>>]
  /\ gone = {} /\ sig = {}
  /\ client = [t \in Threads |-> <<>>]
  /\ load \in Workloads

Top(s) == s[Len(s)]
Pop(s) == SubSeq(s, 1, Len(s) - 1)

Idle == stack = <<>> /\ ~corrupt

\* The thread runs application code and the server still listens to it.
Runs(t) == t \notin dead \cup gone /\ client[t] = <<>>

\* A frame of the server's stack: the function, what it works on, its counter, its cursor.
Frame(op, x, n, next) == [op |-> op, x |-> x, n |-> n, next |-> next]
Start == [thread |-> NoThread, level |-> 0, idx |-> 0]   \* the loop has not begun
End == [thread |-> NoThread, level |-> 0, idx |-> 1]     \* the list head again
CallWakeUp(o, max) == Frame("wake_up", o, max, Start)
CallWakeThread(t) == Frame("wake_thread", t, 0, End)
CallKill(t) == Frame("kill", t, 0, End)

-----------------------------------------------------------------------------
(***************************************************************************)
(* struct thread_wait, check_wait, wait_on and end_wait.                   *)
(***************************************************************************)
Junk == -1    \* a cookie that was never set
Null == 0     \* the cookie sent to a killed thread

NewWait(a) == [objs |-> a.objs, all |-> a.all, intr |-> a.intr, alertable |-> a.alertable,
               when |-> a.timeout, user |-> FALSE, cookie |-> Junk]

SignaledAt(t, w) == {i \in DOMAIN w.objs : Signaled(w.objs[i], t)}

Ready(t, w) == IF w.all THEN SignaledAt(t, w) = DOMAIN w.objs ELSE SignaledAt(t, w) # {}

\* How often a satisfied wait takes each object: all of them, or the first one signaled.
Taken(t, w) ==
  [o \in Objects |->
     IF w.all THEN Cardinality({i \in DOMAIN w.objs : w.objs[i] = o})
     ELSE IF \E i \in SignaledAt(t, w) : w.objs[i] = o /\ \A j \in SignaledAt(t, w) : i <= j
     THEN 1 ELSE 0]

\* Mutant: suspended threads are not left out.
CheckWaitSuspended(t, w) ==
  CASE Ready(t, w) -> "object"
    [] OTHER -> IF w.when = "past" /\ suspend[t] = 0 THEN "timeout" ELSE "none"

\* What check_wait returns; "none" is -1.
CheckWait(t, w) ==
  CASE suspend[t] > 0 -> "none"
    [] suspend[t] = 0 /\ Ready(t, w) ->
         IF \E m \in abandoned : Taken(t, w)[m] > 0 THEN "abandoned" ELSE "object"
    [] OTHER ->
         IF \/ w.intr /\ system_apc[t] # <<>>
            \/ w.alertable /\ user_apc[t] # <<>>
         THEN "apc" ELSE IF w.when = "past" THEN "timeout" ELSE "none"

\* The effect of check_wait on the objects.
Acquire(t, w) ==
  IF CheckWait(t, w) \in {"object", "abandoned"} THEN Satisfied(t, Taken(t, w)) ELSE UNCHANGED objVars

\* The queues once the wait at the given level of the thread is added or removed.
Queued(t, level, objs) ==
  [o \in Objects |->
     queue[o] \o Kept([i \in DOMAIN objs |-> [thread |-> t, level |-> level, idx |-> i]],
                      {i \in DOMAIN objs : objs[i] = o})]
Unqueued(t, level) ==
  [o \in Objects |->
     Kept(queue[o], {i \in DOMAIN queue[o] : queue[o][i].thread # t \/ queue[o][i].level # level})]

\* The queues once every wait of the thread has ended.
QueuedByOthers(t) ==
  [o \in Objects |-> Kept(queue[o], {i \in DOMAIN queue[o] : queue[o][i].thread # t})]

\* Mutant: the wait ends but its entries stay in the queues.
EndWaitStale(t) ==
  /\ waits' = [waits EXCEPT ![t] = Pop(@)]
  /\ UNCHANGED queue

EndWait(t) ==
  /\ queue' = Unqueued(t, Len(waits[t]))
  /\ waits' = [waits EXCEPT ![t] = Pop(@)]

-----------------------------------------------------------------------------
(***************************************************************************)
(* The client's frames: a wait of the application, or the wait of the      *)
(* SIGUSR1 handler (wait_suspend).  The cookie of a wait is the address of *)
(* a variable on the client's stack: the depth of its frame.               *)
(***************************************************************************)
Call(kind, args) == [kind |-> kind, args |-> args, at |-> "call", stolen |-> <<>>]

\* The wait of wait_suspend: no objects, a timeout of 0, no APCs.
SuspendArgs == [objs |-> <<>>, all |-> FALSE, intr |-> FALSE, alertable |-> FALSE, timeout |-> "past"]

\* The client's frames when the innermost wait returns r.
Returned(frames, r) ==
  CASE Top(frames).kind = "suspend" -> [frames EXCEPT ![Len(frames)].at = "ctx"]
    [] Top(frames).kind = "wait" /\ r = "apc" -> [frames EXCEPT ![Len(frames)].at = "apc"]
    [] OTHER -> Pop(frames)

Reading(frames) == [frames EXCEPT ![Len(frames)].at = "read"]

\* Mutant: the cookie of the wait is not stored.
DoSelectNoCookie(t, frames) ==
  LET w == NewWait(Top(frames).args)
      r == CheckWait(t, w)
  IN /\ Acquire(t, w)
     /\ \/ /\ r # "none"
           /\ client' = [client EXCEPT ![t] = Returned(frames, r)]
           /\ UNCHANGED waitVars
        \/ /\ r = "none"
           /\ client' = [client EXCEPT ![t] = Reading(frames)]
           /\ queue' = Queued(t, Len(waits[t]) + 1, w.objs)
           /\ waits' = [waits EXCEPT ![t] = Append(@, [w EXCEPT !.user = w.when # "never"])]

\* The request select without an object to signal, for the innermost of these frames.
DoSelect(t, frames) ==
  LET w == NewWait(Top(frames).args)
      r == CheckWait(t, w)
  IN /\ Acquire(t, w)
     /\ \/ /\ r # "none"
           /\ client' = [client EXCEPT ![t] = Returned(frames, r)]
           /\ UNCHANGED waitVars
        \/ /\ r = "none"
           /\ client' = [client EXCEPT ![t] = Reading(frames)]
           /\ queue' = Queued(t, Len(waits[t]) + 1, w.objs)
           /\ waits' = [waits EXCEPT ![t] = Append(@,
                          [w EXCEPT !.user = w.when # "never", !.cookie = Len(frames)])]

MayAcquire(t, a) == \A o \in Range(a.objs) \cap Mutexes : owner[o] = t => mcount[o] < MaxRecursion

\* The application waits.
Select(t, a) ==
  /\ Idle /\ Runs(t) /\ MayAcquire(t, a)
  /\ DoSelect(t, <<Call("wait", a)>>)
  /\ UNCHANGED <<suspend, context, apcVars, timerVars, stack, corrupt, pipe, gone, sig>>

-----------------------------------------------------------------------------
(***************************************************************************)
(* Signaling an object: obj->ops->signal, used by the select request, and  *)
(* the requests release_mutex, release_semaphore and event_op.             *)
(***************************************************************************)
CanSignal(t, o, n) ==
  \/ o \in Mutexes /\ mcount[o] > 0 /\ owner[o] = t
  \/ o \in Semaphores /\ scount[o] + n <= SemMax[o]
  \/ o \in Events

\* The state change of each kind of object ...
mutex_signal(m) ==
  /\ \/ /\ mcount[m] > 1
        /\ mcount' = [mcount EXCEPT ![m] = @ - 1]
        /\ UNCHANGED <<owner, mutex_list>>
     \/ /\ mcount[m] = 1
        /\ Released(m)
  /\ UNCHANGED <<abandoned, scount, signaled, dead, removed>>

release_semaphore(s, n) ==
  /\ scount' = [scount EXCEPT ![s] = @ + n]
  /\ UNCHANGED <<mcount, owner, abandoned, mutex_list, signaled, dead, removed>>

set_event(e) ==
  /\ signaled' = signaled \cup {e}
  /\ UNCHANGED <<mcount, owner, abandoned, mutex_list, scount, dead, removed>>

\* ... and of any of them.
Signal(o, n) ==
  \/ o \in Mutexes /\ mutex_signal(o)
  \/ o \in Semaphores /\ release_semaphore(o, n)
  \/ o \in Events /\ set_event(o)

\* The calls of wake_up that follow the state change.
\* Mutant: one waiter is woken, whatever the object and the count.
SignalCallsOne(o, n) ==
  IF o \in Mutexes /\ mcount[o] > 1 THEN <<>> ELSE <<CallWakeUp(o, 1)>>

SignalCalls(o, n) ==
  CASE o \in Mutexes -> IF mcount[o] = 1 THEN <<CallWakeUp(o, 0)>> ELSE <<>>
    [] o \in Semaphores -> IF scount[o] = 0 THEN <<CallWakeUp(o, n)>> ELSE <<>>
    [] OTHER -> <<CallWakeUp(o, IF o \in Manual THEN 0 ELSE 1)>>

\* One of the requests release_mutex, release_semaphore and event_op.
SignalObject(t, o, n) ==
  /\ Idle /\ Runs(t) /\ CanSignal(t, o, n)
  /\ Signal(o, n)
  /\ stack' = SignalCalls(o, n)
  /\ UNCHANGED <<waitVars, suspend, context, apcVars, timerVars, corrupt, pipe, clientVars>>

ReleaseMutex(t, m) == m \in Mutexes /\ SignalObject(t, m, 1)
ReleaseSemaphore(t, s, n) == s \in Semaphores /\ SignalObject(t, s, n)
SetEvent(t, e) == e \in Events /\ SignalObject(t, e, 1)

PulseEvent(t, e) ==
  /\ Idle /\ Runs(t)
  /\ Signal(e, 1)
  /\ stack' = <<Frame("reset", e, 0, End)>> \o SignalCalls(e, 1)
  /\ UNCHANGED <<waitVars, suspend, context, apcVars, timerVars, corrupt, pipe, clientVars>>

\* The event stops being signaled: the end of a pulse, or ResetEvent.
PulseReset ==
  /\ stack # <<>> /\ Top(stack).op = "reset" /\ ~corrupt
  /\ signaled' = signaled \ {Top(stack).x}
  /\ stack' = Pop(stack)
  /\ UNCHANGED <<mcount, owner, abandoned, mutex_list, scount, dead, removed, waitVars, suspend, context,
                 apcVars, timerVars, corrupt, pipe, clientVars>>

ResetEvent(t, e) ==
  /\ Idle /\ Runs(t) /\ e \in signaled
  /\ signaled' = signaled \ {e}
  /\ UNCHANGED <<mcount, owner, abandoned, mutex_list, scount, dead, removed, waitVars, suspend, context,
                 apcVars, timerVars, stack, corrupt, pipe, clientVars>>

\* SignalObjectAndWait: the wait is set up before the object is signaled.
SelectSignal(t, o, a) ==
  /\ Idle /\ Runs(t) /\ CanSignal(t, o, 1) /\ MayAcquire(t, a) /\ Len(pipe[t]) <= MaxStale
  /\ Signal(o, 1)
  /\ queue' = Queued(t, 1, a.objs)
  /\ waits' = [waits EXCEPT ![t] = <<NewWait(a)>>]
  /\ client' = [client EXCEPT ![t] = <<Call("wait", a)>>]
  /\ stack' = <<Frame("select", t, 0, End)>> \o SignalCalls(o, 1)
  /\ UNCHANGED <<suspend, context, apcVars, timerVars, corrupt, pipe, gone, sig>>

\* The rest of select_on after signal_object.
SelectRest ==
  /\ stack # <<>> /\ Top(stack).op = "select" /\ ~corrupt
  /\ stack' = Pop(stack)
  /\ LET t == Top(stack).x
         w == Top(waits[t])
         r == CheckWait(t, w)
     IN \/ \* the current thread was killed: current is NULL
           /\ t \in dead
           /\ corrupt' = TRUE
           /\ UNCHANGED <<objVars, waitVars, client>>
        \/ \* it woke itself up
           /\ t \notin dead /\ waits[t] = <<>>
           /\ client' = [client EXCEPT ![t] = Returned(@, "object")]
           /\ UNCHANGED <<objVars, waitVars, corrupt>>
        \/ /\ t \notin dead /\ waits[t] # <<>> /\ r # "none"
           /\ Acquire(t, w)
           /\ EndWait(t)
           /\ client' = [client EXCEPT ![t] = Returned(@, r)]
           /\ UNCHANGED corrupt
        \/ /\ t \notin dead /\ waits[t] # <<>> /\ r = "none"
           /\ waits' = [waits EXCEPT ![t][1].user = w.when # "never", ![t][1].cookie = 1]
           /\ client' = [client EXCEPT ![t] = Reading(@)]
           /\ UNCHANGED <<objVars, queue, corrupt>>
  /\ UNCHANGED <<suspend, context, apcVars, timerVars, pipe, gone, sig>>

-----------------------------------------------------------------------------
(***************************************************************************)
(* wake_up and wake_thread.                                                *)
(***************************************************************************)
\* Mutant: LIST_FOR_EACH, which takes the next entry after the loop body.
WakeUpUnsafe ==
  /\ stack # <<>> /\ Top(stack).op = "wake_up" /\ ~corrupt
  /\ LET f == Top(stack)
         q == queue[f.x]
         after(i) == IF i = Len(q) THEN End ELSE q[i + 1]
         cursor == IF f.next = Start THEN (IF q = <<>> THEN End ELSE q[1])
                   ELSE IF f.next \in Range(q) THEN after(CHOOSE i \in DOMAIN q : q[i] = f.next)
                   ELSE Start
     IN /\ corrupt' = (cursor = Start)
        /\ stack' = IF cursor \in {Start, End} THEN Pop(stack)
                    ELSE Pop(stack) \o <<[f EXCEPT !.next = cursor], CallWakeThread(cursor.thread)>>
  /\ UNCHANGED <<objVars, waitVars, suspend, context, apcVars, timerVars, pipe, clientVars>>

\* One round of LIST_FOR_EACH_SAFE over the wait queue: the cursor moves to the entry
\* that was next in the round before, wherever that entry is now.
WakeUp ==
  /\ stack # <<>> /\ Top(stack).op = "wake_up" /\ ~corrupt
  /\ LET f == Top(stack)
         q == queue[f.x]
         cursor == IF f.next # Start THEN f.next ELSE IF q = <<>> THEN End ELSE q[1]
     IN \/ /\ cursor = End
           /\ stack' = Pop(stack)
           /\ UNCHANGED corrupt
        \/ /\ cursor # End /\ cursor \notin Range(q)
           /\ corrupt' = TRUE
           /\ UNCHANGED stack
        \/ \E i \in DOMAIN q :
           /\ cursor = q[i]
           /\ stack' = Pop(stack)
                       \o <<[f EXCEPT !.next = IF i = Len(q) THEN End ELSE q[i + 1]],
                            CallWakeThread(q[i].thread)>>
           /\ UNCHANGED corrupt
  /\ UNCHANGED <<objVars, waitVars, suspend, context, apcVars, timerVars, pipe, clientVars>>

\* The stack when wake_thread returns its count: wake_up counts it against its max.
AfterWake(count) ==
  LET rest == Pop(stack)
  IN IF rest = <<>> \/ Top(rest).op # "wake_up" \/ count = 0 \/ Top(rest).n = 0 THEN rest
     ELSE IF Top(rest).n = 1 THEN Pop(rest)
     ELSE [rest EXCEPT ![Len(rest)].n = @ - 1]

Wakeable(t) == waits[t] # <<>> /\ CheckWait(t, Top(waits[t])) # "none"

\* The wait is not satisfied, or there is none.
WakeThreadEnd ==
  /\ stack # <<>> /\ Top(stack).op \in {"wake_thread", "wake_failed"} /\ ~corrupt
  /\ Top(stack).op = "wake_thread" => ~Wakeable(Top(stack).x)
  /\ stack' = AfterWake(Top(stack).n)
  /\ UNCHANGED <<objVars, waitVars, suspend, context, apcVars, timerVars, corrupt, pipe, clientVars>>

\* The wait is over: the reply is sent, or the client is gone (EPIPE) and the thread is killed.
WakeThread ==
  /\ stack # <<>> /\ Top(stack).op = "wake_thread" /\ ~corrupt
  /\ LET t == Top(stack).x
         w == Top(waits[t])
     IN /\ Wakeable(t)
        /\ Acquire(t, w)
        /\ EndWait(t)
        /\ \/ /\ t \notin gone
              /\ pipe' = [pipe EXCEPT ![t] = Append(@, [cookie |-> w.cookie, r |-> CheckWait(t, w)])]
              /\ stack' = [stack EXCEPT ![Len(stack)].n = @ + 1]
           \/ /\ t \in gone
              /\ stack' = [stack EXCEPT ![Len(stack)].op = "wake_failed"] \o <<CallKill(t)>>
              /\ UNCHANGED pipe
  /\ UNCHANGED <<suspend, context, apcVars, timerVars, corrupt, clientVars>>

-----------------------------------------------------------------------------
(***************************************************************************)
(* kill_thread.                                                            *)
(***************************************************************************)
\* Mutant: a client that waits is not told.
KillSilent ==
  /\ stack # <<>> /\ Top(stack).op = "kill" /\ ~corrupt
  /\ dead' = dead \cup {Top(stack).x}
  /\ waits' = [waits EXCEPT ![Top(stack).x] = <<>>]
  /\ queue' = QueuedByOthers(Top(stack).x)
  /\ stack' = [stack EXCEPT ![Len(stack)].op = "abandon"]
  /\ UNCHANGED <<mcount, owner, abandoned, mutex_list, scount, signaled, removed, suspend, context,
                 apcVars, timerVars, corrupt, pipe, clientVars>>

\* Up to the call of abandon_mutexes: every wait ends and a client that waits is told; if
\* it is gone the failed write calls kill_thread again, which returns at once.
Kill ==
  /\ stack # <<>> /\ Top(stack).op = "kill" /\ ~corrupt
  /\ LET t == Top(stack).x
     IN \/ /\ t \in dead
           /\ stack' = Pop(stack)
           /\ UNCHANGED <<dead, waitVars, pipe>>
        \/ /\ t \notin dead
           /\ dead' = dead \cup {t}
           /\ waits' = [waits EXCEPT ![t] = <<>>]
           /\ queue' = QueuedByOthers(t)
           /\ pipe' = IF waits[t] # <<>> /\ t \notin gone
                      THEN [pipe EXCEPT ![t] = Append(@, [cookie |-> Null, r |-> "killed"])] ELSE pipe
           /\ stack' = [stack EXCEPT ![Len(stack)].op = "abandon"]
                       \o IF waits[t] # <<>> /\ t \in gone THEN <<CallKill(t)>> ELSE <<>>
  /\ UNCHANGED <<mcount, owner, abandoned, mutex_list, scount, signaled, removed, suspend, context,
                 apcVars, timerVars, corrupt, clientVars>>

\* Mutant: the mutexes of a dead thread are not abandoned.
AbandonNone ==
  /\ stack # <<>> /\ Top(stack).op = "abandon" /\ ~corrupt
  /\ stack' = [stack EXCEPT ![Len(stack)].op = "cleanup"] \o <<CallWakeUp(Top(stack).x, 0)>>
  /\ UNCHANGED <<objVars, waitVars, suspend, context, apcVars, timerVars, corrupt, pipe, clientVars>>

\* One round of abandon_mutexes, or its end and wake_up on the thread itself.
Abandon ==
  /\ stack # <<>> /\ Top(stack).op = "abandon" /\ ~corrupt
  /\ LET t == Top(stack).x
     IN \/ \E m \in mutex_list[t] :
             /\ Released(m)
             /\ abandoned' = abandoned \cup {m}
             /\ stack' = stack \o <<CallWakeUp(m, 0)>>
        \/ /\ mutex_list[t] = {}
           /\ stack' = [stack EXCEPT ![Len(stack)].op = "cleanup"] \o <<CallWakeUp(t, 0)>>
           /\ UNCHANGED <<mcount, owner, abandoned, mutex_list>>
  /\ UNCHANGED <<scount, signaled, dead, removed, waitVars, suspend, context, apcVars, timerVars, corrupt,
                 pipe, clientVars>>

\* cleanup_thread and remove_process_thread: the last thread wakes who waits for the process.
Cleanup ==
  /\ stack # <<>> /\ Top(stack).op = "cleanup" /\ ~corrupt
  /\ LET t == Top(stack).x
     IN /\ system_apc' = [system_apc EXCEPT ![t] = <<>>]
        /\ user_apc' = [user_apc EXCEPT ![t] = <<>>]
        /\ context' = context \ {t}
        /\ removed' = removed \cup {t}
        /\ stack' = Pop(stack)
                    \o IF \E u \in Threads \ removed' : ProcessOf[u] = ProcessOf[t]
                       THEN <<>> ELSE <<CallWakeUp(ProcessOf[t], 0)>>
  /\ UNCHANGED <<mcount, owner, abandoned, mutex_list, scount, signaled, dead, waitVars, suspend,
                 timerVars, corrupt, pipe, clientVars>>

\* TerminateThread on another thread.
TerminateThread(t, u) ==
  /\ Idle /\ Runs(t) /\ u # t /\ u \notin dead
  /\ stack' = <<CallKill(u)>>
  /\ UNCHANGED <<objVars, waitVars, suspend, context, apcVars, timerVars, corrupt, pipe, clientVars>>

\* The thread exits: its connection closes and the server kills it.
ExitThread(t) ==
  /\ Idle /\ Runs(t)
  /\ gone' = gone \cup {t}
  /\ stack' = <<CallKill(t)>>
  /\ UNCHANGED <<objVars, waitVars, suspend, context, apcVars, timerVars, corrupt, pipe, sig, client>>

\* A process dies (a Unix signal): nothing tells the server at once ...
Crash(p) ==
  /\ load.crashes /\ ~corrupt
  /\ \E t \in Threads \ (dead \cup gone) : ProcessOf[t] = p
  /\ gone' = gone \cup {t \in Threads : ProcessOf[t] = p}
  /\ UNCHANGED <<objVars, waitVars, suspend, context, apcVars, timerVars, stack, corrupt, pipe, sig, client>>

\* ... until thread_poll_event finds a closed connection.
PollHup(t) ==
  /\ Idle /\ t \in gone \ dead
  /\ stack' = <<CallKill(t)>>
  /\ UNCHANGED <<objVars, waitVars, suspend, context, apcVars, timerVars, corrupt, pipe, clientVars>>

-----------------------------------------------------------------------------
(***************************************************************************)
(* Timeouts of waits.                                                      *)
(***************************************************************************)
TimePasses(t, level) ==
  /\ Idle
  /\ waits[t][level].when = "future"
  /\ waits' = [waits EXCEPT ![t][level].when = "past"]
  /\ UNCHANGED <<objVars, queue, suspend, context, apcVars, timerVars, stack, corrupt, pipe, clientVars>>

ThreadTimeout(t, level) ==
  /\ Idle
  /\ waits[t][level].user /\ waits[t][level].when = "past"
  /\ \/ /\ level < Len(waits[t]) \/ suspend[t] > 0
        /\ waits' = [waits EXCEPT ![t][level].user = FALSE]
        /\ UNCHANGED <<queue, stack, pipe>>
     \/ /\ level = Len(waits[t]) /\ suspend[t] = 0
        /\ EndWait(t)
        /\ \/ /\ t \notin gone
              /\ pipe' = [pipe EXCEPT ![t] =
                            Append(@, [cookie |-> waits[t][level].cookie, r |-> "timeout"])]
              /\ stack' = <<CallWakeThread(t)>>
           \/ /\ t \in gone
              /\ stack' = <<CallKill(t)>>
              /\ UNCHANGED pipe
  /\ UNCHANGED <<objVars, suspend, context, apcVars, timerVars, corrupt, clientVars>>

-----------------------------------------------------------------------------
(***************************************************************************)
(* Asynchronous procedure calls and waitable timers.                       *)
(***************************************************************************)
Cancelled(q, o) ==
  LET at == {i \in DOMAIN q : q[i] = o /\ \A j \in 1..(i - 1) : q[j] # o}
  IN IF o = NoOwner \/ at = {} THEN q
     ELSE RemoveAt(q, CHOOSE i \in at : TRUE)

\* thread_queue_apc for a running thread, and the call of wake_thread at its end.
QueueUserApc(u, o) ==
  /\ user_apc' = [user_apc EXCEPT ![u] = Append(Cancelled(@, o), o)]
  /\ UNCHANGED system_apc

QueueCalls(q, u, o) == IF Cancelled(q[u], o) = <<>> THEN <<CallWakeThread(u)>> ELSE <<>>

QueueApc(t, u, system) ==
  /\ Idle /\ Runs(t) /\ u \notin dead
  /\ Len(IF system THEN system_apc[u] ELSE user_apc[u]) < MaxApc
  /\ IF system THEN system_apc' = [system_apc EXCEPT ![u] = Append(@, NoOwner)] /\ UNCHANGED user_apc
     ELSE QueueUserApc(u, NoOwner)
  /\ stack' = QueueCalls(IF system THEN system_apc ELSE user_apc, u, NoOwner)
  /\ UNCHANGED <<objVars, waitVars, suspend, context, timerVars, corrupt, pipe, clientVars>>

\* cancel_timer takes back the timer's APC.
\* Mutant: the APC stays queued.
CancelApcLost(r) == UNCHANGED user_apc

CancelApc(r) ==
  LET u == apc_thread[r]
  IN user_apc' = IF u = NoThread THEN user_apc ELSE [user_apc EXCEPT ![u] = Cancelled(@, r)]

CancelTimer(t, r) ==
  /\ Idle /\ Runs(t)
  /\ CancelApc(r)
  /\ armed' = armed \ {r}
  /\ apc_thread' = [apc_thread EXCEPT ![r] = NoThread]
  /\ UNCHANGED <<objVars, waitVars, suspend, context, system_apc, periodic, stack, corrupt, pipe, clientVars>>

\* set_timer, with or without a period and an APC for the caller.
SetTimer(t, r, period, apc) ==
  /\ Idle /\ Runs(t)
  /\ CancelApc(r)
  /\ armed' = armed \cup {r}
  /\ periodic' = IF period /\ r \notin Manual THEN periodic \cup {r} ELSE periodic \ {r}
  /\ apc_thread' = [apc_thread EXCEPT ![r] = IF apc THEN t ELSE NoThread]
  /\ signaled' = IF r \in Manual THEN signaled \ {r} ELSE signaled
  /\ UNCHANGED <<mcount, owner, abandoned, mutex_list, scount, dead, removed, waitVars, suspend, context,
                 system_apc, stack, corrupt, pipe, clientVars>>

\* timer_callback up to the end of thread_queue_apc ...
TimerExpires(r) ==
  /\ Idle /\ r \in armed
  /\ LET u == apc_thread[r]
     IN \/ /\ u \in Threads \ dead
           /\ QueueUserApc(u, r)
           /\ stack' = <<Frame("expire", r, 0, End)>> \o QueueCalls(user_apc, u, r)
           /\ UNCHANGED apc_thread
        \/ /\ u \in dead \cup {NoThread}
           /\ apc_thread' = [apc_thread EXCEPT ![r] = NoThread]
           /\ stack' = <<Frame("expire", r, 0, End)>>
           /\ UNCHANGED apcVars
  /\ UNCHANGED <<objVars, waitVars, suspend, context, armed, periodic, corrupt, pipe, clientVars>>

\* ... and the rest of it.
TimerSignals ==
  /\ stack # <<>> /\ Top(stack).op = "expire" /\ ~corrupt
  /\ LET r == Top(stack).x
     IN /\ armed' = IF r \in periodic THEN armed ELSE armed \ {r}
        /\ signaled' = signaled \cup {r}
        /\ stack' = Pop(stack) \o <<CallWakeUp(r, 0)>>
  /\ UNCHANGED <<mcount, owner, abandoned, mutex_list, scount, dead, removed, waitVars, suspend, context,
                 apcVars, periodic, apc_thread, corrupt, pipe, clientVars>>

-----------------------------------------------------------------------------
(***************************************************************************)
(* Suspension.                                                             *)
(***************************************************************************)
SuspendThread(t, u) ==
  /\ Idle /\ Runs(t) /\ u \notin dead /\ suspend[u] < MaxSuspend
  /\ suspend' = [suspend EXCEPT ![u] = @ + 1]
  /\ sig' = IF suspend[u] = 0 /\ u \notin context THEN sig \cup {u} ELSE sig
  /\ UNCHANGED <<objVars, waitVars, context, apcVars, timerVars, stack, corrupt, pipe, gone, client>>

\* Mutant: resuming does not check the waits of the thread.
ResumeThreadOnly(t, u) ==
  /\ Idle /\ Runs(t) /\ u \notin dead /\ suspend[u] > 0
  /\ suspend' = [suspend EXCEPT ![u] = @ - 1]
  /\ UNCHANGED <<objVars, waitVars, context, apcVars, timerVars, stack, corrupt, pipe, clientVars>>

ResumeThread(t, u) ==
  /\ Idle /\ Runs(t) /\ u \notin dead /\ suspend[u] > 0
  /\ suspend' = [suspend EXCEPT ![u] = @ - 1]
  /\ stack' = IF suspend[u] = 1 THEN <<CallWakeThread(u)>> ELSE <<>>
  /\ UNCHANGED <<objVars, waitVars, context, apcVars, timerVars, corrupt, pipe, clientVars>>

-----------------------------------------------------------------------------
(***************************************************************************)
(* The client inside ntdll.                                                *)
(***************************************************************************)
ClientAt(t, p) == client[t] # <<>> /\ Top(client[t]).at = p

\* A client whose thread is dead can read its pipe; any other call makes it exit.
Connected(t) == t \notin dead \cup gone

\* Mutant: the handler does not mask SIGUSR1.
TakeSignalUnmasked(t) ==
  /\ Idle /\ Connected(t) /\ t \in sig /\ Len(client[t]) < 4
  /\ sig' = sig \ {t}
  /\ client' = [client EXCEPT ![t] = Append(@, [Call("suspend", SuspendArgs) EXCEPT !.at = "set"])]
  /\ UNCHANGED <<objVars, waitVars, suspend, context, apcVars, timerVars, stack, corrupt, pipe, gone>>

\* The SIGUSR1 handler starts; it masks SIGUSR1 until it returns.
TakeSignal(t) ==
  /\ Idle /\ Connected(t) /\ t \in sig
  /\ \A i \in DOMAIN client[t] : client[t][i].kind # "suspend"
  /\ sig' = sig \ {t}
  /\ client' = [client EXCEPT ![t] = Append(@, [Call("suspend", SuspendArgs) EXCEPT !.at = "set"])]
  /\ UNCHANGED <<objVars, waitVars, suspend, context, apcVars, timerVars, stack, corrupt, pipe, gone>>

\* wait_suspend begins: set_thread_context with suspend set.
SetContext(t) ==
  /\ Idle /\ Connected(t) /\ ClientAt(t, "set")
  /\ context' = context \cup {t}
  /\ client' = [client EXCEPT ![t][Len(client[t])].at = "call"]
  /\ UNCHANGED <<objVars, waitVars, suspend, apcVars, timerVars, stack, corrupt, pipe, gone, sig>>

\* The select request of wait_suspend, or a wait that starts over after an APC.
SelectAgain(t) ==
  /\ Idle /\ Connected(t) /\ ClientAt(t, "call")
  /\ DoSelect(t, client[t])
  /\ UNCHANGED <<suspend, context, apcVars, timerVars, stack, corrupt, pipe, gone, sig>>

\* wait_reply reads a reply: its own, then it puts the stolen ones back; or another.
ReadReply(t) ==
  /\ Idle /\ t \notin gone /\ ClientAt(t, "read") /\ pipe[t] # <<>>
  /\ LET reply == Head(pipe[t])
         n == Len(client[t])
     IN \/ /\ reply.cookie = Null
           /\ gone' = gone \cup {t}
           /\ UNCHANGED <<pipe, client>>
        \/ /\ reply.cookie = n
           /\ pipe' = [pipe EXCEPT ![t] = Tail(@) \o client[t][n].stolen]
           /\ client' = [client EXCEPT ![t] = Returned([client[t] EXCEPT ![n].stolen = <<>>], reply.r)]
           /\ UNCHANGED gone
        \/ /\ reply.cookie \notin {n, Null}
           /\ pipe' = [pipe EXCEPT ![t] = Tail(@)]
           /\ client' = [client EXCEPT ![t][n].stolen = <<reply>> \o @]
           /\ UNCHANGED gone
  /\ UNCHANGED <<objVars, waitVars, suspend, context, apcVars, timerVars, stack, corrupt, sig>>

\* One round of call_apcs: get_apc, and at the end the wait returns or starts over.
GetApc(t) ==
  /\ Idle /\ Connected(t) /\ ClientAt(t, "apc")
  /\ LET n == Len(client[t])
         alertable == client[t][n].args.alertable
     IN \/ /\ system_apc[t] # <<>>
           /\ system_apc' = [system_apc EXCEPT ![t] = Tail(@)]
           /\ UNCHANGED <<user_apc, client>>
        \/ /\ system_apc[t] = <<>> /\ alertable /\ user_apc[t] # <<>>
           /\ user_apc' = [user_apc EXCEPT ![t] = Tail(@)]
           /\ UNCHANGED <<system_apc, client>>
        \/ /\ system_apc[t] = <<>> /\ (alertable => user_apc[t] = <<>>)
           /\ client' = [client EXCEPT ![t] =
                            IF alertable THEN Pop(@) ELSE [client[t] EXCEPT ![n].at = "call"]]
           /\ UNCHANGED apcVars
  /\ UNCHANGED <<objVars, waitVars, suspend, context, timerVars, stack, corrupt, pipe, gone, sig>>

\* The end of wait_suspend: get_thread_context, and the handler returns.
LeaveSuspend(t) ==
  /\ Idle /\ Connected(t) /\ ClientAt(t, "ctx")
  /\ context' = context \ {t}
  /\ client' = [client EXCEPT ![t] = Pop(@)]
  /\ UNCHANGED <<objVars, waitVars, suspend, apcVars, timerVars, stack, corrupt, pipe, gone, sig>>

\* A killed client that does not wait for a reply dies of SIGTERM or at its next call.
ClientDies(t) ==
  /\ Idle /\ t \in dead \ gone /\ ~ClientAt(t, "read")
  /\ gone' = gone \cup {t}
  /\ UNCHANGED <<objVars, waitVars, suspend, context, apcVars, timerVars, stack, corrupt, pipe, sig, client>>

-----------------------------------------------------------------------------
\* The server's own steps inside one request.
ServerStep ==
  \/ WakeUp \/ WakeThread \/ WakeThreadEnd \/ Kill \/ Abandon \/ Cleanup
  \/ PulseReset \/ SelectRest \/ TimerSignals

ClientStep(t) ==
  SelectAgain(t) \/ ReadReply(t) \/ GetApc(t) \/ LeaveSuspend(t) \/ ClientDies(t)
  \/ TakeSignal(t) \/ SetContext(t)

Application(t) ==
  /\ t \in load.threads
  /\ \/ \E a \in load.waits : Select(t, a)
     \/ \E sw \in load.signalWaits : SelectSignal(t, sw[1], sw[2])
     \/ \E m \in Mutexes : ReleaseMutex(t, m)
     \/ \E s \in Semaphores \cap load.objects, n \in ReleaseCounts : ReleaseSemaphore(t, s, n)
     \/ \E e \in Events \cap load.objects : SetEvent(t, e)
     \/ "pulse" \in load.ops /\ \E e \in Events \cap load.objects : PulseEvent(t, e) \/ ResetEvent(t, e)
     \/ \E r \in Timers \cap load.objects :
          CancelTimer(t, r) \/ \E period, apc \in BOOLEAN : SetTimer(t, r, period, apc)
     \/ "exit" \in load.ops /\ ExitThread(t)
     \/ \E u \in load.threads :
          \/ "kill" \in load.ops /\ TerminateThread(t, u)
          \/ "suspend" \in load.ops /\ (SuspendThread(t, u) \/ ResumeThread(t, u))
          \/ "apc" \in load.ops /\ \E system \in BOOLEAN : QueueApc(t, u, system)

Timeout(t) == \E level \in DOMAIN waits[t] : TimePasses(t, level) \/ ThreadTimeout(t, level)

Next ==
  /\ \/ ServerStep
     \/ \E t \in Threads : ClientStep(t) \/ Application(t) \/ Timeout(t) \/ PollHup(t)
     \/ \E r \in Timers : TimerExpires(r)
     \/ \E p \in Processes : Crash(p)
  /\ UNCHANGED load

Spec == Init /\ [][Next]_vars

\* The server finishes what it began, and each round of its main loop runs the expired
\* timeouts and serves every connection that is ready, so that no client or timeout is
\* passed over for ever (strong fairness: it is enabled only between requests).  A client
\* inside ntdll goes on.  Nothing is assumed of the applications.
FairSpec ==
  /\ Spec
  /\ WF_runVars(ServerStep)
  /\ \A t \in Threads : SF_runVars(ClientStep(t)) /\ SF_runVars(Timeout(t)) /\ SF_runVars(PollHup(t))

-----------------------------------------------------------------------------
(***************************************************************************)
(* What the wait engine promises.                                          *)
(***************************************************************************)
Entry(o, e) ==
  /\ e.level \in DOMAIN waits[e.thread]
  /\ e.idx \in DOMAIN waits[e.thread][e.level].objs
  /\ waits[e.thread][e.level].objs[e.idx] = o

\* Every variable has its type, and the wait queues hold exactly the entries of the
\* waits in progress (wait_on and end_wait).
TypeOK ==
  /\ ObjTypeOK
  /\ suspend \in [Threads -> 0..MaxSuspend]
  /\ context \subseteq Threads /\ gone \subseteq Threads /\ sig \subseteq Threads
  /\ armed \subseteq Timers /\ periodic \subseteq Timers \ Manual
  /\ apc_thread \in [Timers -> Threads \cup {NoThread}]
  /\ corrupt \in BOOLEAN
  /\ \A o \in Objects : \A e \in Range(queue[o]) : Entry(o, e)
  /\ \A t \in Threads : \A l \in DOMAIN waits[t] : \A i \in DOMAIN waits[t][l].objs :
       [thread |-> t, level |-> l, idx |-> i] \in Range(queue[waits[t][l].objs[i]])

\* No wake-up is lost: between two requests no thread is left waiting for what it could
\* have, and a timeout that was ignored (nested wait, suspended thread) is not forgotten.
NoMissedWake ==
  Idle => \A t \in Threads : waits[t] # <<>> =>
    LET r == CheckWait(t, Top(waits[t])) IN r = "none" \/ (r = "timeout" /\ Top(waits[t]).user)

\* The assertions of mutex.c: count, owner and the owner's list of mutexes agree at
\* every step, and between two requests no dead thread owns a mutex.
MutexExact ==
  \A m \in Mutexes :
    /\ mcount[m] = 0 <=> owner[m] = NoThread
    /\ \A t \in Threads : m \in mutex_list[t] <=> owner[m] = t
    /\ Idle => owner[m] \notin dead

\* LIST_FOR_EACH_SAFE in wake_up never follows an entry that was freed meanwhile, and
\* select_on never uses a current thread that was killed meanwhile.
NoCorruption == ~corrupt

\* The same of processes that do not crash: only a client that is gone when it is woken
\* makes wake_thread kill it in the middle of wake_up.
SafeWithoutCrashes == corrupt => load.crashes

\* Where the reply with this cookie may be: still to come, from a wait of the server, in
\* the pipe, or stolen by a wait of the client.
Awaited(t, n) == {l \in DOMAIN waits[t] : waits[t][l].cookie = n}
Sent(t, n) == {i \in DOMAIN pipe[t] : pipe[t][i].cookie = n}
Stolen(t, n) ==
  UNION {{<<l, i>> : i \in {i \in DOMAIN client[t][l].stolen : client[t][l].stolen[i].cookie = n}} :
           l \in DOMAIN client[t]}

Reads(t, n) == n \in DOMAIN client[t] /\ client[t][n].at = "read"

\* Every client wait that expects a reply has exactly one to come, from the server, in
\* the pipe or stolen by a nested wait; and no reply is left that nobody expects, but for
\* those of a wait that signaled the object it waits for (select_on, "check if we woke
\* ourselves up"): such a reply has no cookie and stays in the pipe.
OneAnswer ==
  Idle => \A t \in Threads \ (dead \cup gone) :
    /\ \A n \in DOMAIN client[t] : Reads(t, n) =>
         Cardinality(Awaited(t, n)) + Cardinality(Sent(t, n)) + Cardinality(Stolen(t, n)) = 1
    /\ \A i \in DOMAIN pipe[t] : pipe[t][i].cookie = Junk \/ Reads(t, pipe[t][i].cookie)

\* A timer's APC is queued at most once, for the thread that set the timer last: setting
\* or cancelling the timer takes back the one that is queued (cancel_timer).
TimerApcExact ==
  \A u \in Threads : \A i, j \in DOMAIN user_apc[u] :
    user_apc[u][i] \in Timers =>
      /\ u \notin dead => apc_thread[user_apc[u][i]] = u
      /\ user_apc[u][i] = user_apc[u][j] => i = j

\* set_thread_context: "nested suspend or exception, shouldn't happen".
NoNestedSuspend == [][\A t \in Threads : SetContext(t) => t \notin context]_vars

\* kill_thread: a client that sits in wait_reply when its thread is killed can read
\* something, so that it never sleeps for ever.
KilledClientWakes ==
  Idle => \A t \in dead \ gone : ClientAt(t, "read") => pipe[t] # <<>>

\* check_wait: "Suspended threads may not acquire locks".
SuspendedAcquireNothing ==
  [][\A t \in Threads : \A m \in Mutexes :
       owner'[m] = t /\ owner[m] # t => suspend[t] = 0]_vars

\* A wait with a timeout returns, also when the timeout expired while the thread was
\* suspended or in a nested wait (thread_timeout ignores it then): unless the thread is
\* killed or suspended again.
TimedWaitReturns ==
  \A t \in Threads :
    (client[t] # <<>> /\ client[t][1].args.timeout # "never")
      ~> (client[t] = <<>> \/ t \in dead \cup gone \/ suspend[t] > 0)

-----------------------------------------------------------------------------
(***************************************************************************)
(* What comments and assertions of the code say that does not hold.        *)
(***************************************************************************)
\* release_semaphore: "there cannot be any thread to wake up if the count is != 0".
NobodyToWake ==
  Idle => \A s \in Semaphores : scount[s] # 0 =>
    \A e \in Range(queue[s]) :
      CheckWait(e.thread, Top(waits[e.thread])) \notin {"object", "abandoned"}

\* wait_suspend: "will only return once the thread is no longer suspended"; with the
\* signal that stop_thread sends, a suspended thread never runs application code.
SuspendedStops ==
  Idle => \A t \in Threads \ (dead \cup gone) :
    suspend[t] > 0 /\ client[t] = <<>> => t \in sig
-----------------------------------------------------------------------------
(***************************************************************************)
(* The invariants in inductive form.                                       *)
(***************************************************************************)
Entries == [thread : Threads, level : Nat, idx : Nat]
WaitRecords ==
  {w \in [objs : Seq(Objects), all : BOOLEAN, intr : BOOLEAN, alertable : BOOLEAN,
          when : {"never", "future", "past"}, user : BOOLEAN, cookie : Nat \cup {Junk}] :
     IsInjective(w.objs)}
Replies == [cookie : Nat \cup {Junk}, r : {"object", "abandoned", "apc", "timeout", "killed"}]
ClientFrames ==
  [kind : {"wait", "suspend"}, args : WaitArgs, at : {"set", "call", "read", "apc", "ctx"},
   stolen : Seq(Replies)]
ServerFrames(killed) ==
  [op : {"wake_up"}, x : Objects, n : Nat, next : Entries \cup {Start, End}]
  \cup [op : {"wake_thread", "wake_failed", "kill", "select"}, x : Threads, n : Nat, next : {End}]
  \cup [op : {"abandon", "cleanup"}, x : Threads \cap killed, n : Nat, next : {End}]
  \cup [op : {"reset"}, x : Events, n : Nat, next : {End}]
  \cup [op : {"expire"}, x : Timers, n : Nat, next : {End}]

TypeInv ==
  /\ ObjTypeOK
  /\ queue \in [Objects -> Seq(Entries)]
  /\ waits \in [Threads -> Seq(WaitRecords)]
  /\ suspend \in [Threads -> 0..MaxSuspend]
  /\ context \subseteq Threads /\ gone \subseteq Threads /\ sig \subseteq Threads
  /\ system_apc \in [Threads -> Seq({NoOwner})]
  /\ user_apc \in [Threads -> Seq(Timers \cup {NoOwner})]
  /\ armed \subseteq Timers /\ periodic \subseteq Timers \ Manual
  /\ apc_thread \in [Timers -> Threads \cup {NoThread}]
  /\ stack \in Seq(ServerFrames(dead))
  /\ corrupt \in BOOLEAN
  /\ pipe \in [Threads -> Seq(Replies)]
  /\ client \in [Threads -> Seq(ClientFrames)]
  /\ load \in Workloads

\* A dead thread waits for nothing, and while it still owns a mutex abandon_mutexes has
\* not ended.
DeadInv ==
  \A t \in dead :
    /\ waits[t] = <<>>
    /\ mutex_list[t] # {} => \E k \in DOMAIN stack : stack[k].op = "abandon" /\ stack[k].x = t

MutexInv == MutexExact /\ DeadInv

\* The handler is never entered twice: at most a wait of the application and, in it, one
\* of the handler; only a wait that reads has stolen replies; and a thread has a context only while it is in the handler.
ClientShape ==
  \A t \in Threads : \A i \in DOMAIN client[t] :
    /\ client[t][i].at # "read" => client[t][i].stolen = <<>>
    /\ client[t][i].kind = "wait" => i = 1 /\ client[t][i].at \in {"call", "read", "apc"}
    /\ client[t][i].kind = "suspend" =>
         /\ i = Len(client[t])
         /\ client[t][i].args = SuspendArgs /\ client[t][i].at \in {"set", "call", "read", "ctx"}
ContextInv ==
  \A t \in context :
    client[t] # <<>> /\ Top(client[t]).kind = "suspend" /\ Top(client[t]).at # "set"

ClientInv == ClientShape /\ ContextInv

\* The thread's request select is between wait_on and the end of signal_object.
Selecting(t) == stack # <<>> /\ stack[1].op = "select" /\ stack[1].x = t
SelectInv ==
  /\ \A k \in DOMAIN stack : stack[k].op = "select" => k = 1
  /\ \A t \in Threads : Selecting(t) =>
       /\ Len(client[t]) = 1 /\ client[t][1].kind = "wait" /\ client[t][1].at = "call"
       /\ Len(waits[t]) <= 1
       /\ waits[t] # <<>> => waits[t][1].cookie = Junk /\ waits[t][1].objs = client[t][1].args.objs

\* A frame of the client that reads, and the replies with this cookie in a list.
AtRead(c, n) == n \in DOMAIN c /\ c[n].at = "read"
Holds(q, n) == \E i \in DOMAIN q : q[i].cookie = n
HoldsOnce(q, n) == \A i, j \in DOMAIN q : q[i].cookie = n /\ q[j].cookie = n => i = j

\* The wait queues hold the entries of the waits, each once.
QueueInv ==
  /\ \A o \in Objects : IsInjective(queue[o]) /\ \A e \in Range(queue[o]) : Entry(o, e)
  /\ \A t \in Threads : \A l \in DOMAIN waits[t] : \A i \in DOMAIN waits[t][l].objs :
       [thread |-> t, level |-> l, idx |-> i] \in Range(queue[waits[t][l].objs[i]])

\* Every wait w of the server belongs to a frame of the client, in the same order.
Fits(w, c) ==
  \A l \in DOMAIN w :
    /\ AtRead(c, w[l].cookie)
    /\ w[l].objs = c[w[l].cookie].args.objs
    /\ \A k \in 1..(l - 1) : w[k].cookie < w[l].cookie

\* The replies that the frames that read have stolen.
Keeps(c, n) == \E l \in DOMAIN c : AtRead(c, l) /\ Holds(c[l].stolen, n)
KeepsOnce(c, n) ==
  \A k, l \in DOMAIN c :
    AtRead(c, k) /\ Holds(c[k].stolen, n) /\ AtRead(c, l) /\ Holds(c[l].stolen, n) =>
      k = l /\ HoldsOnce(c[k].stolen, n)

\* The reply that a frame of the client reads for is in one place of the waits, the pipe
\* and the replies stolen by inner frames; a reply that no frame reads for is in none.
Answered(w, p, c) ==
  /\ \A n \in Nat :
       /\ AtRead(c, n) <=> Holds(w, n) \/ Holds(p, n) \/ Keeps(c, n)
       /\ ~(Holds(w, n) /\ Holds(p, n)) /\ ~(Holds(w, n) /\ Keeps(c, n)) /\ ~(Holds(p, n) /\ Keeps(c, n))
       /\ HoldsOnce(w, n) /\ HoldsOnce(p, n) /\ KeepsOnce(c, n)
  /\ \A l \in DOMAIN c : AtRead(c, l) =>
       \A i \in DOMAIN c[l].stolen : c[l].stolen[i].cookie = Junk \/ c[l].stolen[i].cookie < l

\* A killed client that reads has something to read that ends its wait.
Told(p, c) == c # <<>> /\ Top(c).at = "read" => Holds(p, Null) \/ Holds(p, Len(c))

ReplyInv(t) ==
  /\ ~Selecting(t) => Fits(waits[t], client[t])
  /\ t \notin dead \cup gone => Answered(waits[t], pipe[t], client[t])
  /\ t \in dead \ gone => Told(pipe[t], client[t])

WaitInv == QueueInv /\ \A t \in Threads : ReplyInv(t)

\* As long as no process crashes the server's calls are nested at most three deep, with
\* wake_up and wake_thread innermost, and wake_thread removes no entry but of the thread
\* that it wakes.
CallsInv ==
  \A k \in DOMAIN stack :
    /\ stack[k].op # "wake_failed"
    /\ stack[k].op = "wake_thread" => k = Len(stack)
    /\ stack[k].op = "wake_up" =>
         k = Len(stack) \/ (k + 1 = Len(stack) /\ Top(stack).op = "wake_thread")
    /\ stack[k].op \notin {"wake_thread", "wake_up"} => k = 1
    /\ stack[k].op = "select" => stack[k].x \notin dead
CursorInv ==
  \A k \in DOMAIN stack : stack[k].op = "wake_up" =>
    IF k = Len(stack) THEN stack[k].next \in {Start, End} \cup Range(queue[stack[k].x])
    ELSE stack[k].next = End
         \/ (stack[k].next \in Range(queue[stack[k].x]) /\ stack[k].next.thread # Top(stack).x)
CrashInv ==
  ~load.crashes =>
    /\ ~corrupt /\ CallsInv /\ CursorInv
    /\ \A t \in gone \ dead : stack = <<CallKill(t)>> /\ waits[t] = <<>>

-----------------------------------------------------------------------------
(***************************************************************************)
(* When no wake-up is lost, and why.                                       *)
(***************************************************************************)
\* The objects of which a signal is for one waiter only.
Counted == Semaphores \cup (Events \ Manual)

\* The workloads that lose no wake-up: no process crashes, no wait for all has a timeout
\* and a counted object, and signal and wait waits for one object, as
\* NtSignalAndWaitForSingleObject does.
Simple(a) == a.all /\ a.timeout # "never" => Range(a.objs) \cap Counted = {}
Plain ==
  /\ ~load.crashes
  /\ \A a \in load.waits : Simple(a)
  /\ \A sw \in load.signalWaits : Simple(sw[2]) /\ Len(sw[2].objs) = 1

\* What ends the innermost wait of a thread without an object: an APC, or a timeout that no
\* timer of the server is set for.
Interrupted(t, w) ==
  \/ w.intr /\ system_apc[t] # <<>>
  \/ w.alertable /\ user_apc[t] # <<>>
Pressing(t) ==
  LET w == Top(waits[t])
  IN Interrupted(t, w) \/ (w.when = "past" /\ ~(w.user /\ Len(waits[t]) = 1))

\* The thread waits although its innermost wait is over.
Missed(t) == waits[t] # <<>> /\ suspend[t] = 0 /\ (Ready(t, Top(waits[t])) \/ Pressing(t))

\* Only the outermost wait, the application's, has objects; the waits are as simple as those
\* of the workload.
FramesPlain(c) == \A i \in DOMAIN c : c[i].kind = "wait" => Simple(c[i].args)
WaitsPlain(v, selecting) ==
  \A l \in DOMAIN v :
    /\ l = 1 \/ (v[l].objs = <<>> /\ ~v[l].all /\ v[l].when = "past")
    /\ v[l].all /\ v[l].when # "never" => Range(v[l].objs) \cap Counted = {}
    /\ v[l].when = "future" => v[l].user \/ selecting
    /\ selecting => Len(v[l].objs) = 1
PlainInv == \A t \in Threads : FramesPlain(client[t]) /\ WaitsPlain(waits[t], Selecting(t))

\* The thread has an entry in the list that a loop with this cursor still visits.
Ahead(next, q, t) ==
  \E j \in DOMAIN q : q[j].thread = t /\ (next = Start \/ \E i \in 1..j : q[i] = next)

\* A function of the server will look at the waits v of thread t.
Comes(f, q, v, t) ==
  \/ f.op \in {"wake_thread", "select"} /\ f.x = t
  \/ f.op = "wake_up" /\ Ahead(f.next, q[f.x], t)
  \/ f.op = "abandon" /\ f.x \in Range(Top(v).objs)
Covers == \A t \in Threads : Missed(t) => \E k \in DOMAIN stack : Comes(stack[k], queue, waits[t], t)

\* A wake_up that is to wake n threads: as many signals are left, and whoever still waits
\* although its wait is over has waited for this object only.
Left(o) == IF o \in Semaphores THEN scount[o] ELSE IF o \in signaled THEN 1 ELSE 0
Only(t, o) ==
  LET w == Top(waits[t])
  IN /\ ~Pressing(t) /\ o \in Range(w.objs)
     /\ ~w.all => \A i \in SignaledAt(t, w) : w.objs[i] = o
Woken(s, k) == k < Len(s) /\ s[Len(s)].n > 0
Exact(o, n) ==
  \A t \in Threads : Missed(t) /\ ~Selecting(t) => Left(o) = n /\ Only(t, o)
BudgetInv ==
  \A k \in DOMAIN stack : stack[k].op = "wake_up" /\ stack[k].n > 0 =>
    /\ stack[k].x \in Counted
    /\ k < Len(stack) /\ ~Woken(stack, k) => \E e \in Range(queue[stack[k].x]) : e.thread = Top(stack).x
    /\ Woken(stack, k) => waits[Top(stack).x] = <<>>
    /\ Exact(stack[k].x, IF Woken(stack, k) THEN stack[k].n - 1 ELSE stack[k].n)

WakeInv == Plain => PlainInv /\ Covers /\ BudgetInv

IInv == TypeInv /\ SelectInv /\ MutexInv /\ TimerApcExact /\ ClientInv /\ WaitInv /\ CrashInv /\ WakeInv
=============================================================================
