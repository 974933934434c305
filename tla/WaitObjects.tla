----------------------------- MODULE WaitObjects -----------------------------
(***************************************************************************)
(* The objects of the wineserver a thread can wait on: mutexes             *)
(* (server/mutex.c), semaphores (server/semaphore.c), events               *)
(* (server/event.c), waitable timers (server/timer.c), threads and         *)
(* processes.  This module gives their state and the two operations of     *)
(* struct object_ops through which a wait sees them, signaled and          *)
(* satisfied.                                                              *)
(***************************************************************************)
EXTENDS Naturals, Integers, Sequences, FiniteSets

CONSTANTS
  Threads, Processes,
  ProcessOf,      \* the process of each thread
  Mutexes, Semaphores, Events, Timers,
  Manual,         \* the manual-reset events and timers
  SemMax,         \* the max of each semaphore
  NoThread        \* a NULL struct thread *

ASSUME ObjectAssumption ==
  /\ NoThread \notin Threads
  /\ Manual \subseteq Events \cup Timers
  /\ SemMax \in [Semaphores -> Nat \ {0}]
  /\ ProcessOf \in [Threads -> Processes]

\* The sets of objects have nothing in common.
ASSUME KindAssumption ==
  /\ \A S \in {Processes, Mutexes, Semaphores, Events, Timers} : S \cap Threads = {}
  /\ \A S \in {Mutexes, Semaphores, Events, Timers} : S \cap Processes = {}
  /\ \A S \in {Semaphores, Events, Timers} : S \cap Mutexes = {}
  /\ \A S \in {Events, Timers} : S \cap Semaphores = {}
  /\ Timers \cap Events = {}

VARIABLES
  mcount,       \* mutex->count
  owner,        \* mutex->owner
  abandoned,    \* the mutexes with mutex->abandoned set
  mutex_list,   \* thread->mutex_list, as a set
  scount,       \* sem->count
  signaled,     \* the events and timers with signaled set
  dead,         \* the threads in state TERMINATED
  removed       \* the threads no longer in process->thread_list

objVars == <<mcount, owner, abandoned, mutex_list, scount, signaled, dead, removed>>

Objects == Threads \cup Processes \cup Mutexes \cup Semaphores \cup Events \cup Timers

ObjInit ==
  /\ mcount = [m \in Mutexes |-> 0]
  /\ owner = [m \in Mutexes |-> NoThread]
  /\ abandoned = {}
  /\ mutex_list = [t \in Threads |-> {}]
  /\ scount = [s \in Semaphores |-> 0]
  /\ signaled = {}
  /\ dead = {} /\ removed = {}

ObjTypeOK ==
  /\ mcount \in [Mutexes -> Nat]
  /\ owner \in [Mutexes -> Threads \cup {NoThread}]
  /\ abandoned \subseteq Mutexes
  /\ mutex_list \in [Threads -> SUBSET Mutexes]
  /\ scount \in [Semaphores -> Nat] /\ \A s \in Semaphores : scount[s] <= SemMax[s]
  /\ signaled \subseteq Events \cup Timers
  /\ removed \subseteq dead /\ dead \subseteq Threads

\* obj->ops->signaled( obj, thread ), object by object
mutex_signaled(m, t) == mcount[m] = 0 \/ owner[m] = t
semaphore_signaled(s) == scount[s] > 0
event_signaled(e) == e \in signaled
timer_signaled(r) == r \in signaled
thread_signaled(u) == u \in dead
process_signaled(p) == \A u \in Threads \ removed : ProcessOf[u] # p

Signaled(o, t) ==
  \/ o \in Mutexes /\ mutex_signaled(o, t)
  \/ o \in Semaphores /\ semaphore_signaled(o)
  \/ o \in Events /\ event_signaled(o)
  \/ o \in Timers /\ timer_signaled(o)
  \/ o \in Threads /\ thread_signaled(o)
  \/ o \in Processes /\ process_signaled(o)

\* obj->ops->satisfied( obj, thread ) for every object of the bag "taken", which says
\* how often each object is taken.
mutex_satisfied(t, taken) ==
  LET first == {m \in Mutexes : taken[m] > 0 /\ mcount[m] = 0}
  IN /\ mcount' = [m \in Mutexes |-> mcount[m] + taken[m]]
     /\ owner' = [m \in Mutexes |-> IF m \in first THEN t ELSE owner[m]]
     /\ mutex_list' = [mutex_list EXCEPT ![t] = @ \cup first]
     /\ abandoned' = {m \in abandoned : taken[m] = 0}
semaphore_satisfied(taken) == scount' = [s \in Semaphores |-> scount[s] - taken[s]]
event_satisfied(e, taken) == taken[e] > 0 /\ e \notin Manual   \* is the event reset
timer_satisfied(r, taken) == taken[r] > 0 /\ r \notin Manual   \* is the timer reset

Satisfied(t, taken) ==
  /\ mutex_satisfied(t, taken)
  /\ semaphore_satisfied(taken)
  /\ signaled' = signaled \ ({e \in Events : event_satisfied(e, taken)}
                              \cup {r \in Timers : timer_satisfied(r, taken)})
  /\ UNCHANGED <<dead, removed>>

\* The state change of do_release: the mutex leaves its owner.
Released(m) ==
  /\ mcount' = [mcount EXCEPT ![m] = 0]
  /\ owner' = [owner EXCEPT ![m] = NoThread]
  /\ mutex_list' = [mutex_list EXCEPT ![owner[m]] = @ \ {m}]
=============================================================================
