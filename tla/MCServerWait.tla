---------------------------- MODULE MCServerWait ----------------------------
(***************************************************************************)
(* ServerWait for TLC: which objects there are and which waits are made.   *)
(***************************************************************************)
EXTENDS ServerWait

CONSTANTS m1, m2, s1, e1, e2, r1, t1, t2, t3, p1, p2

On(objs, all, alertable, timeout) ==
  [objs |-> objs, all |-> all, intr |-> TRUE, alertable |-> alertable, timeout |-> timeout]

OwnProcess == [t \in Threads |-> IF t = t1 THEN p1 ELSE p2]
SemMax2 == [s \in Semaphores |-> 2]

Load(threads, objects, asked, signalWaits, ops, crashes) ==
  [threads |-> threads, objects |-> objects, waits |-> asked, signalWaits |-> signalWaits,
   ops |-> ops, crashes |-> crashes]

\* Locking: a mutex, two mutexes at once, a mutex or a semaphore, another thread.
LockLoad ==
  Load({t1, t2, t3}, {s1},
       {On(<<m1>>, FALSE, FALSE, "never"), On(<<m1, m2>>, TRUE, FALSE, "never"),
        On(<<m1, s1>>, FALSE, FALSE, "future"), On(<<t1>>, FALSE, FALSE, "never")},
       {}, {"exit", "kill"}, FALSE)
\* Waits for a timer, which APCs of the system interrupt, and those of a user one of them.
ApcLoad ==
  Load({t1, t2}, {r1},
       {On(<<r1>>, FALSE, TRUE, "future"), On(<<r1>>, FALSE, FALSE, "never")},
       {}, {"apc", "exit"}, FALSE)
\* Waits that suspensions interrupt, one of them for an event and a mutex together.
SuspendLoad ==
  Load({t1, t2}, {e1},
       {On(<<m1>>, FALSE, FALSE, "future"), On(<<e1, m1>>, TRUE, FALSE, "never")},
       {}, {"suspend", "kill"}, FALSE)
\* Processes that die while their threads hold a mutex and wait, for a mutex or an event,
\* an event or a process, and signal one object and wait for another.
CrashLoad ==
  Load({t1, t2, t3}, {e1, e2},
       {On(<<m1>>, FALSE, FALSE, "never"), On(<<m1, e2>>, FALSE, FALSE, "never"),
        On(<<e1, p1>>, FALSE, FALSE, "future")},
       {<<e2, On(<<m1>>, FALSE, FALSE, "never")>>}, {"pulse", "exit"}, TRUE)
\* Threads that signal the event they wait for, and may be suspended meanwhile.
SelfLoad ==
  Load({t1, t2}, {}, {},
       {<<e1, On(<<e1>>, FALSE, FALSE, "never")>>}, {"suspend"}, FALSE)
AllLoads == {LockLoad, ApcLoad, SuspendLoad, CrashLoad, SelfLoad}

\* A wait with a timeout, for the liveness of timeouts.
TimedLoads == {Load({t1, t2}, {}, {On(<<m1>>, FALSE, FALSE, "future")}, {}, {"suspend"}, FALSE)}
\* Suspensions of threads that do not wait.
RaceLoads == {Load({t1, t2}, {}, {}, {}, {"suspend"}, FALSE)}
\* A wait for all with a timeout, before a plain wait for the semaphore.
SemaphoreLoads ==
  {Load({t1, t2, t3}, {s1, e1},
        {On(<<s1, e1>>, TRUE, FALSE, "future"), On(<<s1>>, FALSE, FALSE, "never")},
        {}, {}, FALSE)}
\* Processes that die, and nothing else.
CursorLoads ==
  {Load({t1, t2, t3}, {e1, e2},
        {On(<<m1>>, FALSE, FALSE, "never"), On(<<m1, e2>>, FALSE, FALSE, "never")},
        {}, {}, TRUE)}
=============================================================================
