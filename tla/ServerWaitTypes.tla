-------------------------- MODULE ServerWaitTypes ---------------------------
(***************************************************************************)
(* The steps of ServerWait, one by one, and what they do to the types of its *)
(* variables and to the server's stack: for every set of threads and objects *)
(* and every workload.                                                     *)
(***************************************************************************)
EXTENDS ServerWait, ListTheorems

-----------------------------------------------------------------------------
(***************************************************************************)
(* Facts about the operators of the module.                                *)
(***************************************************************************)
\* The innermost frame of a stack and the stack without it.
LEMMA TopPop ==
  ASSUME NEW S, NEW q \in Seq(S), q # <<>>
  PROVE  /\ Len(q) \in Nat \ {0} /\ Top(q) \in S /\ Top(q) = q[Len(q)] /\ Len(q) \in DOMAIN q
         /\ Pop(q) \in Seq(S) /\ Len(Pop(q)) = Len(q) - 1
         /\ DOMAIN q = 1..Len(q) /\ DOMAIN Pop(q) = 1..(Len(q) - 1)
         /\ \A i \in 1..(Len(q) - 1) : Pop(q)[i] = q[i]
<1>1. Len(q) \in Nat \ {0} /\ DOMAIN q = 1..Len(q)
  BY EmptySeq
<1>2. Top(q) \in S
  BY <1>1 DEF Top
<1>3. /\ Pop(q) \in Seq(S) /\ Len(Pop(q)) = Len(q) - 1
      /\ \A i \in 1..(Len(q) - 1) : Pop(q)[i] = q[i]
  BY <1>1, SubSeqProperties DEF Pop
<1> QED
  BY <1>1, <1>2, <1>3 DEF Top

\* A list is empty when its length is 0.
LEMMA NotEmpty ==
  ASSUME NEW S, NEW q \in Seq(S)
  PROVE  (q = <<>>) <=> (Len(q) = 0)
BY EmptySeq

\* A list with two more elements.
LEMMA AppendTwo ==
  ASSUME NEW S, NEW q \in Seq(S), NEW x \in S, NEW y \in S
  PROVE  /\ q \o <<x, y>> \in Seq(S) /\ Len(q \o <<x, y>>) = Len(q) + 2 /\ Len(q) \in Nat
         /\ \A i \in 1..Len(q) : (q \o <<x, y>>)[i] = q[i]
         /\ (q \o <<x, y>>)[Len(q) + 1] = x /\ (q \o <<x, y>>)[Len(q) + 2] = y
<1>1. <<x, y>> \in Seq(S) /\ Len(<<x, y>>) = 2 /\ <<x, y>>[1] = x /\ <<x, y>>[2] = y
  OBVIOUS
<1> QED
  BY <1>1, ConcatProperties

\* A list with one more element, or none.
LEMMA AppendOne ==
  ASSUME NEW S, NEW q \in Seq(S), NEW x \in S
  PROVE  /\ q \o <<x>> \in Seq(S) /\ Len(q \o <<x>>) = Len(q) + 1 /\ Len(q) \in Nat
         /\ \A i \in 1..Len(q) : (q \o <<x>>)[i] = q[i]
         /\ (q \o <<x>>)[Len(q) + 1] = x
         /\ q \o <<>> = q
<1>1. <<x>> \in Seq(S) /\ Len(<<x>>) = 1 /\ <<x>>[1] = x
  OBVIOUS
<1>2. q \o <<>> = q
  BY ConcatEmptySeq
<1> QED
  BY <1>1, <1>2, ConcatProperties

\* Two lists without a repetition and without a common element, one after the other.
LEMMA ConcatInjective ==
  ASSUME NEW S, NEW p \in Seq(S), NEW q \in Seq(S), IsInjective(p), IsInjective(q),
         Range(p) \cap Range(q) = {}
  PROVE  IsInjective(p \o q)
<1>1. /\ Len(p) \in Nat /\ DOMAIN p = 1..Len(p) /\ Len(q) \in Nat /\ DOMAIN q = 1..Len(q)
      /\ p \o q \in Seq(S) /\ Len(p \o q) = Len(p) + Len(q)
      /\ \A i \in 1..(Len(p) + Len(q)) : (p \o q)[i] = IF i <= Len(p) THEN p[i] ELSE q[i - Len(p)]
  BY ConcatProperties
<1> DEFINE r == p \o q
<1> HIDE DEF r
<1>2. DOMAIN r = 1..(Len(p) + Len(q))
  BY <1>1 DEF r
<1>3. \A i \in 1..Len(p) : r[i] = p[i] /\ r[i] \in Range(p)
  BY <1>1 DEF r, Range
<1>4. \A i \in (Len(p) + 1)..(Len(p) + Len(q)) :
        i - Len(p) \in DOMAIN q /\ r[i] = q[i - Len(p)] /\ r[i] \in Range(q)
  BY <1>1 DEF r, Range
<1>5. \A i \in DOMAIN r : i \in 1..Len(p) \/ i \in (Len(p) + 1)..(Len(p) + Len(q))
  BY <1>1, <1>2
<1>6. ASSUME NEW i \in DOMAIN r, NEW j \in DOMAIN r, r[i] = r[j] PROVE i = j
  <2>1. CASE i \in 1..Len(p) /\ j \in 1..Len(p)
    BY <1>1, <1>3, <1>6, <2>1 DEF IsInjective
  <2>2. CASE i \notin 1..Len(p) /\ j \notin 1..Len(p)
    <3>1. i - Len(p) = j - Len(p)
      BY <1>4, <1>5, <1>6, <2>2 DEF IsInjective
    <3> QED
      BY <1>1, <1>2, <3>1
  <2>3. CASE (i \in 1..Len(p)) # (j \in 1..Len(p))
    BY <1>3, <1>4, <1>5, <1>6, <2>3
  <2> QED
    BY <2>1, <2>2, <2>3
<1> QED
  BY <1>6 DEF IsInjective, r

\* A wait takes an object at most once, and only when it is signaled.
LEMMA TakenFacts ==
  ASSUME NEW t \in Threads, NEW w \in WaitRecords, Ready(t, w)
  PROVE  \A o \in Objects :
           /\ Taken(t, w)[o] \in {0, 1}
           /\ Taken(t, w)[o] = 1 => Signaled(o, t)
<1> SUFFICES ASSUME NEW o \in Objects
             PROVE  Taken(t, w)[o] \in {0, 1} /\ (Taken(t, w)[o] = 1 => Signaled(o, t))
  OBVIOUS
<1>1. CASE w.all
  <2> DEFINE P == {i \in DOMAIN w.objs : w.objs[i] = o}
  <2>1. Taken(t, w)[o] = Cardinality(P)
    BY <1>1 DEF Taken
  <2>2. SignaledAt(t, w) = DOMAIN w.objs
    BY <1>1 DEF Ready
  <2>3. CASE P = {}
    BY <2>1, <2>3, FS_EmptySet
  <2>4. CASE P # {}
    <3>1. PICK i \in DOMAIN w.objs : w.objs[i] = o
      BY <2>4
    <3>2. P = {i}
      BY <3>1 DEF WaitRecords, IsInjective
    <3>3. Cardinality(P) = 1
      BY <3>2, FS_Singleton
    <3>4. Signaled(o, t)
      BY <2>2, <3>1 DEF SignaledAt
    <3> QED
      BY <2>1, <3>3, <3>4
  <2> QED
    BY <2>3, <2>4
<1>2. CASE ~ w.all
  BY <1>2 DEF Taken, SignaledAt
<1> QED
  BY <1>1, <1>2

\* check_wait says that the objects are taken only of a thread that is not suspended and
\* whose wait is satisfied.
LEMMA CheckWaitReady ==
  ASSUME NEW t \in Threads, NEW w, CheckWait(t, w) \in {"object", "abandoned"}, suspend[t] \in Nat
  PROVE  suspend[t] = 0 /\ Ready(t, w)
BY DEF CheckWait

-----------------------------------------------------------------------------
(***************************************************************************)
(* Every variable has its type.                                            *)
(***************************************************************************)
\* satisfied keeps the types: above all, no count of a semaphore goes below 0.
LEMMA AcquireTypes ==
  ASSUME TypeInv, NEW t \in Threads, NEW w \in WaitRecords, Acquire(t, w)
  PROVE  ObjTypeOK' /\ dead' = dead /\ removed' = removed
<1>1. CASE CheckWait(t, w) \in {"object", "abandoned"}
  <2>1. Satisfied(t, Taken(t, w)) /\ Ready(t, w)
    BY <1>1, CheckWaitReady DEF Acquire, TypeInv
  <2> DEFINE taken == Taken(t, w)
  <2>2. \A o \in Objects : taken[o] \in {0, 1} /\ (taken[o] = 1 => Signaled(o, t))
    BY <2>1, TakenFacts
  <2>0. /\ \A m \in Mutexes : mcount[m] \in Nat /\ m \in Objects
        /\ \A s \in Semaphores : scount[s] \in Nat /\ scount[s] <= SemMax[s] /\ SemMax[s] \in Nat /\ s \in Objects
    BY ObjectAssumption DEF TypeInv, ObjTypeOK, Objects
  <2> HIDE DEF taken
  <2>3. mcount' \in [Mutexes -> Nat]
    <3>1. \A m \in Mutexes : mcount[m] + taken[m] \in Nat
      BY <2>2, <2>0
    <3> QED
      BY <2>1, <3>1 DEF Satisfied, mutex_satisfied, taken
  <2>4. /\ owner' \in [Mutexes -> Threads \cup {NoThread}] /\ abandoned' \subseteq Mutexes
        /\ mutex_list' \in [Threads -> SUBSET Mutexes]
    BY <2>1 DEF Satisfied, mutex_satisfied, taken, TypeInv, ObjTypeOK
  <2>5. scount' \in [Semaphores -> Nat] /\ \A s \in Semaphores : scount'[s] <= SemMax[s]
    <3>1. \A s \in Semaphores : taken[s] = 1 => scount[s] > 0
      BY <2>2, KindAssumption DEF Signaled, semaphore_signaled, Objects
    <3>2. \A s \in Semaphores : scount[s] - taken[s] \in Nat /\ scount[s] - taken[s] <= SemMax[s]
      BY <2>2, <2>0, <3>1
    <3>3. scount' = [s \in Semaphores |-> scount[s] - taken[s]]
      BY <2>1 DEF Satisfied, semaphore_satisfied, taken
    <3> QED
      BY <3>2, <3>3
  <2>6. /\ signaled' \subseteq Events \cup Timers /\ removed' \subseteq dead' /\ dead' \subseteq Threads
        /\ dead' = dead /\ removed' = removed
    BY <2>1 DEF Satisfied, TypeInv, ObjTypeOK
  <2> QED
    BY <2>3, <2>4, <2>5, <2>6 DEF ObjTypeOK
<1>2. CASE CheckWait(t, w) \notin {"object", "abandoned"}
  BY <1>2 DEF Acquire, objVars, TypeInv, ObjTypeOK
<1> QED
  BY <1>1, <1>2

\* Adding and removing the entries of a wait keeps the types of the queues, and these
\* are the entries that were there or come from the wait.
LEMMA QueuedFacts ==
  ASSUME queue \in [Objects -> Seq(Entries)], NEW t \in Threads, NEW level \in Nat, NEW objs \in Seq(Objects)
  PROVE  /\ Queued(t, level, objs) \in [Objects -> Seq(Entries)]
         /\ \A o \in Objects : Range(Queued(t, level, objs)[o]) = Range(queue[o])
              \cup {[thread |-> t, level |-> level, idx |-> i] : i \in {i \in DOMAIN objs : objs[i] = o}}
         /\ \A o \in Objects :
              /\ IsInjective(queue[o])
              /\ \A e \in Range(queue[o]) : e.thread # t \/ e.level # level
              => IsInjective(Queued(t, level, objs)[o])
<1> DEFINE new == [i \in DOMAIN objs |-> [thread |-> t, level |-> level, idx |-> i]]
           at(o) == {i \in DOMAIN objs : objs[i] = o}
<1>1. Len(objs) \in Nat /\ DOMAIN objs = 1..Len(objs)
  OBVIOUS
<1>2. new \in Seq(Entries) /\ DOMAIN new = DOMAIN objs
  <2>1. \A i \in DOMAIN objs : [thread |-> t, level |-> level, idx |-> i] \in Entries
    BY <1>1 DEF Entries
  <2>2. new \in [1..Len(objs) -> Entries]
    BY <1>1, <2>1
  <2> QED
    BY <1>1, <2>2, SeqDef
<1>3. ASSUME NEW o \in Objects
      PROVE  /\ Queued(t, level, objs)[o] \in Seq(Entries)
             /\ Range(Queued(t, level, objs)[o]) = Range(queue[o]) \cup {new[i] : i \in at(o)}
             /\ IsInjective(queue[o]) /\ (\A e \in Range(queue[o]) : e.thread # t \/ e.level # level)
                => IsInjective(Queued(t, level, objs)[o])
  <2> DEFINE k == Kept(new, at(o))
  <2>1. at(o) \in SUBSET DOMAIN new
    BY <1>2
  <2>7. IsInjective(new) /\ \A i \in at(o) : new[i].thread = t /\ new[i].level = level
    <3>1. \A i \in DOMAIN new : new[i].thread = t /\ new[i].level = level /\ new[i].idx = i
      OBVIOUS
    <3> HIDE DEF new
    <3> QED
      BY <2>1, <3>1 DEF IsInjective
  <2> HIDE DEF new, at
  <2>2. /\ k \in Seq(Entries)
        /\ \A j \in DOMAIN k : \E i \in at(o) : k[j] = new[i]
        /\ \A i \in at(o) : \E j \in DOMAIN k : k[j] = new[i]
        /\ IsInjective(k)
    BY <1>2, <2>1, <2>7, KeptFacts
  <2>3. Queued(t, level, objs)[o] = queue[o] \o k
    BY DEF Queued, new, at
  <2> HIDE DEF k
  <2>4. Range(k) = {new[i] : i \in at(o)}
    BY <2>2 DEF Range
  <2>5. queue[o] \in Seq(Entries)
    OBVIOUS
  <2>6. queue[o] \o k \in Seq(Entries) /\ Range(queue[o] \o k) = Range(queue[o]) \cup Range(k)
    BY <2>2, <2>5, RangeConcatenation, ConcatProperties
  <2>8. ASSUME IsInjective(queue[o]), \A e \in Range(queue[o]) : e.thread # t \/ e.level # level
        PROVE  IsInjective(queue[o] \o k)
    <3>1. Range(queue[o]) \cap Range(k) = {}
      BY <2>4, <2>7, <2>8
    <3> QED
      BY <2>2, <2>5, <2>8, <3>1, ConcatInjective
  <2> QED
    BY <2>3, <2>4, <2>6, <2>8
<1>4. ASSUME NEW o \in Objects
      PROVE  {new[i] : i \in at(o)} = {[thread |-> t, level |-> level, idx |-> i] : i \in at(o)}
  OBVIOUS
<1> DEFINE both(o) == queue[o] \o Kept(new, at(o))
<1>5. Queued(t, level, objs) = [o \in Objects |-> both(o)]
  BY DEF Queued
<1> HIDE DEF both, new
<1>6. Queued(t, level, objs) \in [Objects -> Seq(Entries)]
  BY <1>3, <1>5
<1> QED
  BY <1>3, <1>4, <1>6

\* end_wait removes exactly the entries of the wait ...
LEMMA UnqueuedFacts ==
  ASSUME queue \in [Objects -> Seq(Entries)], NEW t, NEW level
  PROVE  /\ Unqueued(t, level) \in [Objects -> Seq(Entries)]
         /\ \A o \in Objects :
              /\ Range(Unqueued(t, level)[o]) = {e \in Range(queue[o]) : e.thread # t \/ e.level # level}
              /\ IsInjective(queue[o]) => IsInjective(Unqueued(t, level)[o])
<1> DEFINE P(o) == {i \in DOMAIN queue[o] : queue[o][i].thread # t \/ queue[o][i].level # level}
           left(o) == Kept(queue[o], P(o))
<1>1. ASSUME NEW o \in Objects
      PROVE  /\ left(o) \in Seq(Entries)
             /\ Range(left(o)) = {e \in Range(queue[o]) : e.thread # t \/ e.level # level}
             /\ IsInjective(queue[o]) => IsInjective(left(o))
  <2>1. P(o) \in SUBSET DOMAIN queue[o] /\ queue[o] \in Seq(Entries)
    OBVIOUS
  <2>2. \A i \in DOMAIN queue[o] : i \in P(o) <=> queue[o][i].thread # t \/ queue[o][i].level # level
    OBVIOUS
  <2> HIDE DEF P
  <2>3. /\ left(o) \in Seq(Entries)
        /\ \A k \in DOMAIN left(o) : \E i \in P(o) : left(o)[k] = queue[o][i]
        /\ \A i \in P(o) : \E k \in DOMAIN left(o) : left(o)[k] = queue[o][i]
        /\ IsInjective(queue[o]) => IsInjective(left(o))
    BY <2>1, KeptFacts
  <2> HIDE DEF left
  <2> QED
    BY <2>1, <2>2, <2>3 DEF Range
<1>2. Unqueued(t, level) = [o \in Objects |-> left(o)]
  BY DEF Unqueued
<1> HIDE DEF left
<1> QED
  BY <1>1, <1>2

\* ... and kill_thread those of every wait of the thread.
LEMMA QueuedByOthersFacts ==
  ASSUME queue \in [Objects -> Seq(Entries)], NEW t
  PROVE  /\ QueuedByOthers(t) \in [Objects -> Seq(Entries)]
         /\ \A o \in Objects :
              /\ Range(QueuedByOthers(t)[o]) = {e \in Range(queue[o]) : e.thread # t}
              /\ IsInjective(queue[o]) => IsInjective(QueuedByOthers(t)[o])
<1> DEFINE P(o) == {i \in DOMAIN queue[o] : queue[o][i].thread # t}
           left(o) == Kept(queue[o], P(o))
<1>1. ASSUME NEW o \in Objects
      PROVE  /\ left(o) \in Seq(Entries)
             /\ Range(left(o)) = {e \in Range(queue[o]) : e.thread # t}
             /\ IsInjective(queue[o]) => IsInjective(left(o))
  <2>1. P(o) \in SUBSET DOMAIN queue[o] /\ queue[o] \in Seq(Entries)
    OBVIOUS
  <2>2. \A i \in DOMAIN queue[o] : i \in P(o) <=> queue[o][i].thread # t
    OBVIOUS
  <2> HIDE DEF P
  <2>3. /\ left(o) \in Seq(Entries)
        /\ \A k \in DOMAIN left(o) : \E i \in P(o) : left(o)[k] = queue[o][i]
        /\ \A i \in P(o) : \E k \in DOMAIN left(o) : left(o)[k] = queue[o][i]
        /\ IsInjective(queue[o]) => IsInjective(left(o))
    BY <2>1, KeptFacts
  <2> HIDE DEF left
  <2> QED
    BY <2>1, <2>2, <2>3 DEF Range
<1>2. QueuedByOthers(t) = [o \in Objects |-> left(o)]
  BY DEF QueuedByOthers
<1> HIDE DEF left
<1> QED
  BY <1>1, <1>2

\* thread_cancel_apc takes the first APC of the owner out of the queue.
LEMMA CancelledFacts ==
  ASSUME NEW S, NEW q \in Seq(S), NEW o
  PROVE  /\ Cancelled(q, o) \in Seq(S)
         /\ \/ Cancelled(q, o) = q /\ (o = NoOwner \/ \A i \in DOMAIN q : q[i] # o)
            \/ \E i \in DOMAIN q : q[i] = o /\ Cancelled(q, o) = RemoveAt(q, i)
<1> DEFINE at == {i \in DOMAIN q : q[i] = o /\ \A j \in 1..(i - 1) : q[j] # o}
<1>1. CASE o = NoOwner
  BY <1>1 DEF Cancelled
<1>2. CASE o # NoOwner /\ at # {}
  <2>1. Cancelled(q, o) = RemoveAt(q, CHOOSE i \in at : TRUE)
    BY <1>2 DEF Cancelled
  <2>2. (CHOOSE i \in at : TRUE) \in at
    BY <1>2
  <2>3. PICK i \in at : Cancelled(q, o) = RemoveAt(q, i)
    BY <2>1, <2>2
  <2> QED
    BY <2>3, RemoveAtFacts
<1>3. CASE o # NoOwner /\ at = {}
  <2>1. Cancelled(q, o) = q
    BY <1>3 DEF Cancelled
  <2>2. \A i \in DOMAIN q : q[i] # o
    <3> DEFINE places == {i \in DOMAIN q : q[i] = o}
    <3>1. SUFFICES ASSUME places # {} PROVE FALSE
      OBVIOUS
    <3>2. places \subseteq Nat
      OBVIOUS
    <3>3. PICK i \in places : \A j \in places : i <= j
      BY <3>1, <3>2, LeastNatural
    <3>4. i \in at
      BY <3>3
    <3> QED
      BY <1>3, <3>4
  <2> QED
    BY <2>1, <2>2
<1> QED
  BY <1>1, <1>2, <1>3

\* The frames the server pushes, and the changes of a frame.
ThreadOps == {"wake_thread", "wake_failed", "kill", "abandon", "cleanup", "select"}

\* Every frame that a function of the server pushes is a frame, and stays one when
\* its counter or cursor changes.
LEMMA FrameTypes ==
  ASSUME NEW killed
  PROVE
  /\ \A o \in Objects, n \in Nat : CallWakeUp(o, n) \in ServerFrames(killed)
  /\ \A t \in Threads : CallWakeThread(t) \in ServerFrames(killed) /\ CallKill(t) \in ServerFrames(killed)
                        /\ Frame("select", t, 0, End) \in ServerFrames(killed)
  /\ \A e \in Events : Frame("reset", e, 0, End) \in ServerFrames(killed)
  /\ \A r \in Timers : Frame("expire", r, 0, End) \in ServerFrames(killed)
  /\ \A f \in ServerFrames(killed) : f.n \in Nat /\ \A n \in Nat : [f EXCEPT !.n = n] \in ServerFrames(killed)
  /\ \A f \in ServerFrames(killed) : f.op = "wake_up" =>
       f.x \in Objects /\ \A c \in Entries \cup {End} : [f EXCEPT !.next = c] \in ServerFrames(killed)
  /\ \A f \in ServerFrames(killed) : f.op \in ThreadOps =>
       /\ f.x \in Threads /\ (f.op \in {"abandon", "cleanup"} => f.x \in killed)
       /\ \A op \in ThreadOps : (op \in {"abandon", "cleanup"} => f.x \in killed)
            => [f EXCEPT !.op = op] \in ServerFrames(killed)
  /\ \A f \in ServerFrames(killed) : f.op = "reset" => f.x \in Events
  /\ \A f \in ServerFrames(killed) : f.op = "expire" => f.x \in Timers
BY DEF ServerFrames, CallWakeUp, CallWakeThread, CallKill, Frame, ThreadOps

\* A thread dies: the frames stay frames.
LEMMA FramesStay ==
  ASSUME NEW killed, NEW more, killed \subseteq more, NEW q \in Seq(ServerFrames(killed))
  PROVE  q \in Seq(ServerFrames(more))
<1>1. ServerFrames(killed) \subseteq ServerFrames(more)
  BY DEF ServerFrames
<1>2. q \in [1..Len(q) -> ServerFrames(killed)] /\ Len(q) \in Nat
  OBVIOUS
<1>3. q \in [1..Len(q) -> ServerFrames(more)]
  BY <1>1, <1>2
<1> QED
  BY <1>2, <1>3, SeqDef

\* What the request select returns or waits for is a frame of the client again.
LEMMA ClientFrameTypes ==
  /\ \A a \in WaitArgs, kind \in {"wait", "suspend"} : Call(kind, a) \in ClientFrames
  /\ SuspendArgs \in WaitArgs
  /\ \A f \in ClientFrames : f.args \in WaitArgs /\ f.stolen \in Seq(Replies)
  /\ \A f \in ClientFrames : \A at \in {"set", "call", "read", "apc", "ctx"} :
       [f EXCEPT !.at = at] \in ClientFrames
  /\ \A f \in ClientFrames : \A q \in Seq(Replies) : [f EXCEPT !.stolen = q] \in ClientFrames
<1>1. \A S : <<>> \in Seq(S)
  BY EmptySeq
<1>2. SuspendArgs \in WaitArgs
  BY <1>1 DEF SuspendArgs, WaitArgs, IsInjective
<1>3. \A a \in WaitArgs, kind \in {"wait", "suspend"} : Call(kind, a) \in ClientFrames
  BY <1>1 DEF Call, ClientFrames
<1> QED
  BY <1>2, <1>3 DEF ClientFrames

\* The result of check_wait, and the wait that a request begins.
LEMMA CheckWaitTypes ==
  ASSUME NEW t, NEW w
  PROVE  CheckWait(t, w) \in {"object", "abandoned", "apc", "timeout", "none"}
BY DEF CheckWait

\* The wait that create_wait sets up is a wait record without a cookie.
LEMMA NewWaitTypes ==
  ASSUME NEW a \in WaitArgs
  PROVE  /\ NewWait(a) \in WaitRecords /\ NewWait(a).objs = a.objs /\ NewWait(a).cookie = Junk
         /\ NewWait(a).when = a.timeout
         /\ \A u \in BOOLEAN, n \in Nat :
              /\ [NewWait(a) EXCEPT !.user = u, !.cookie = n] \in WaitRecords
              /\ [NewWait(a) EXCEPT !.user = u, !.cookie = n].cookie = n
              /\ [NewWait(a) EXCEPT !.user = u, !.cookie = n].objs = a.objs
BY DEF NewWait, WaitArgs, WaitRecords, Junk

\* A list whose last element is replaced.
LEMMA ReplaceTop ==
  ASSUME NEW S, NEW q \in Seq(S), q # <<>>, NEW x \in S
  PROVE  LET r == [q EXCEPT ![Len(q)] = x]
         IN /\ r \in Seq(S) /\ Len(r) = Len(q) /\ DOMAIN r = DOMAIN q /\ r # <<>>
            /\ Top(r) = x /\ r[Len(q)] = x
            /\ \A i \in DOMAIN q : r[i] = IF i = Len(q) THEN x ELSE q[i]
<1>1. Len(q) \in Nat \ {0} /\ Len(q) \in 1..Len(q) /\ DOMAIN q = 1..Len(q)
  BY TopPop
<1> DEFINE r == [q EXCEPT ![Len(q)] = x]
<1>2. r \in Seq(S) /\ Len(r) = Len(q) /\ \A i \in 1..Len(q) : r[i] = IF i = Len(q) THEN x ELSE q[i]
  BY <1>1, ExceptSeq
<1> HIDE DEF r
<1>3. DOMAIN r = 1..Len(r)
  BY <1>2, LenProperties
<1>5. r # <<>>
  BY <1>1, <1>2, EmptySeq
<1>4. Top(r) = r[Len(q)]
  BY <1>2 DEF Top
<1> QED
  BY <1>1, <1>2, <1>3, <1>4, <1>5 DEF r

\* The client's frames when the innermost wait returns: the handler goes on, the wait
\* looks at its APCs, or the call is over.
LEMMA ReturnedFacts ==
  ASSUME NEW q \in Seq(ClientFrames), q # <<>>, NEW r
  PROVE  /\ Returned(q, r) \in Seq(ClientFrames)
         /\ \/ Returned(q, r) = Pop(q) /\ Top(q).kind = "wait"
            \/ \E x \in ClientFrames :
                 /\ Returned(q, r) = [q EXCEPT ![Len(q)] = x]
                 /\ x.kind = Top(q).kind /\ x.args = Top(q).args /\ x.stolen = Top(q).stolen
                 /\ x.at = IF x.kind = "suspend" THEN "ctx" ELSE "apc"
<1>1. Top(q) \in ClientFrames /\ Top(q) = q[Len(q)] /\ Pop(q) \in Seq(ClientFrames)
  BY TopPop
<1> DEFINE x(at) == [Top(q) EXCEPT !.at = at]
<1>2. \A at \in {"ctx", "apc"} :
        /\ x(at) \in ClientFrames /\ x(at).kind = Top(q).kind /\ x(at).args = Top(q).args
        /\ x(at).stolen = Top(q).stolen /\ x(at).at = at
  BY <1>1 DEF ClientFrames
<1>3. CASE Top(q).kind = "suspend"
  <2>1. Returned(q, r) = [q EXCEPT ![Len(q)].at = "ctx"]
    BY <1>3 DEF Returned
  <2>2. Returned(q, r) = [q EXCEPT ![Len(q)] = x("ctx")]
    BY <2>1 DEF Top
  <2> QED
    <3>1. PICK y \in ClientFrames :
            /\ y = x("ctx") /\ y.kind = Top(q).kind /\ y.args = Top(q).args
            /\ y.stolen = Top(q).stolen /\ y.at = "ctx"
      BY <1>2
    <3>2. Returned(q, r) = [q EXCEPT ![Len(q)] = y]
      BY <2>2, <3>1
    <3>3. Returned(q, r) \in Seq(ClientFrames)
      BY <3>2, ReplaceTop
    <3> QED
      BY <1>3, <3>1, <3>2, <3>3
<1>4. CASE Top(q).kind = "wait" /\ r = "apc"
  <2>1. Returned(q, r) = [q EXCEPT ![Len(q)].at = "apc"]
    BY <1>4 DEF Returned
  <2>2. Returned(q, r) = [q EXCEPT ![Len(q)] = x("apc")]
    BY <2>1 DEF Top
  <2> QED
    <3>1. PICK y \in ClientFrames :
            /\ y = x("apc") /\ y.kind = Top(q).kind /\ y.args = Top(q).args
            /\ y.stolen = Top(q).stolen /\ y.at = "apc"
      BY <1>2
    <3>2. Returned(q, r) = [q EXCEPT ![Len(q)] = y]
      BY <2>2, <3>1
    <3>3. Returned(q, r) \in Seq(ClientFrames)
      BY <3>2, ReplaceTop
    <3> QED
      BY <1>4, <3>1, <3>2, <3>3
<1>5. CASE Top(q).kind = "wait" /\ r # "apc"
  <2>1. Returned(q, r) = Pop(q)
    BY <1>5 DEF Returned
  <2> QED
    BY <1>1, <1>5, <2>1
<1> QED
  BY <1>1, <1>3, <1>4, <1>5 DEF ClientFrames

\* The client reads its pipe: only the place in its innermost frame changes.
LEMMA ReadingFacts ==
  ASSUME NEW q \in Seq(ClientFrames), q # <<>>
  PROVE  /\ Reading(q) \in Seq(ClientFrames)
         /\ \E x \in ClientFrames :
              /\ Reading(q) = [q EXCEPT ![Len(q)] = x]
              /\ x.kind = Top(q).kind /\ x.args = Top(q).args /\ x.stolen = Top(q).stolen
              /\ x.at = "read"
<1>1. Top(q) \in ClientFrames /\ Top(q) = q[Len(q)]
  BY TopPop
<1> DEFINE x == [Top(q) EXCEPT !.at = "read"]
<1>2. x \in ClientFrames /\ x.kind = Top(q).kind /\ x.args = Top(q).args /\ x.stolen = Top(q).stolen
      /\ x.at = "read"
  BY <1>1 DEF ClientFrames
<1>3. Reading(q) = [q EXCEPT ![Len(q)] = x]
  BY DEF Reading, Top
<1>4. PICK y \in ClientFrames :
        /\ y = x /\ y.kind = Top(q).kind /\ y.args = Top(q).args
        /\ y.stolen = Top(q).stolen /\ y.at = "read"
  BY <1>2
<1> HIDE DEF x
<1>5. Reading(q) = [q EXCEPT ![Len(q)] = y]
  BY <1>3, <1>4
<1>6. Reading(q) \in Seq(ClientFrames)
  BY <1>5, ReplaceTop
<1> QED
  BY <1>4, <1>5, <1>6

\* A request select keeps the types of what it changes.
LEMMA DoSelectTypes ==
  ASSUME TypeInv, NEW t \in Threads, NEW frames \in Seq(ClientFrames), frames # <<>>,
         DoSelect(t, frames)
  PROVE  /\ ObjTypeOK' /\ dead' = dead /\ queue' \in [Objects -> Seq(Entries)] /\ waits' \in [Threads -> Seq(WaitRecords)]
         /\ client' \in [Threads -> Seq(ClientFrames)]
<1> DEFINE w == NewWait(Top(frames).args)
<1>1. /\ Top(frames) \in ClientFrames /\ Len(frames) \in Nat /\ Top(frames).args \in WaitArgs
  BY TopPop, ClientFrameTypes
<1>2. /\ w \in WaitRecords /\ w.objs \in Seq(Objects)
      /\ \A u \in BOOLEAN : [w EXCEPT !.user = u, !.cookie = Len(frames)] \in WaitRecords
  BY <1>1, NewWaitTypes DEF WaitRecords
<1>3. /\ Acquire(t, w)
      /\ \/ /\ client' = [client EXCEPT ![t] = Returned(frames, CheckWait(t, w))]
            /\ UNCHANGED waitVars
         \/ /\ client' = [client EXCEPT ![t] = Reading(frames)]
            /\ queue' = Queued(t, Len(waits[t]) + 1, w.objs)
            /\ waits' = [waits EXCEPT ![t] = Append(waits[t],
                           [w EXCEPT !.user = w.when # "never", !.cookie = Len(frames)])]
  BY DEF DoSelect
<1> HIDE DEF w
<1>4. ObjTypeOK' /\ dead' = dead
  BY <1>2, <1>3, AcquireTypes
<1>5. Returned(frames, CheckWait(t, w)) \in Seq(ClientFrames) /\ Reading(frames) \in Seq(ClientFrames)
  BY ReturnedFacts, ReadingFacts
<1>6. client' \in [Threads -> Seq(ClientFrames)]
  <2>1. client \in [Threads -> Seq(ClientFrames)]
    BY DEF TypeInv
  <2> QED
    BY <1>3, <1>5, <2>1
<1>7. waits[t] \in Seq(WaitRecords) /\ Len(waits[t]) + 1 \in Nat
  BY DEF TypeInv
<1>8. queue' \in [Objects -> Seq(Entries)]
  <2>1. queue \in [Objects -> Seq(Entries)]
    BY DEF TypeInv
  <2>2. Queued(t, Len(waits[t]) + 1, w.objs) \in [Objects -> Seq(Entries)]
    BY <1>2, <1>7, <2>1, QueuedFacts
  <2> QED
    BY <1>3, <2>1, <2>2 DEF waitVars
<1>9. waits' \in [Threads -> Seq(WaitRecords)]
  <2>1. \A u \in BOOLEAN :
          Append(waits[t], [w EXCEPT !.user = u, !.cookie = Len(frames)]) \in Seq(WaitRecords)
    BY <1>2, <1>7, AppendProperties
  <2>2. (w.when # "never") \in BOOLEAN
    OBVIOUS
  <2>3. waits \in [Threads -> Seq(WaitRecords)]
    BY DEF TypeInv
  <2> QED
    BY <1>3, <2>1, <2>2, <2>3 DEF waitVars
<1> QED
  BY <1>4, <1>6, <1>8, <1>9

\* The end of a wait keeps the types of the queues and the waits.
LEMMA EndWaitTypes ==
  ASSUME TypeInv, NEW t \in Threads, waits[t] # <<>>, EndWait(t)
  PROVE  queue' \in [Objects -> Seq(Entries)] /\ waits' \in [Threads -> Seq(WaitRecords)]
<1>1. waits[t] \in Seq(WaitRecords) /\ Pop(waits[t]) \in Seq(WaitRecords)
  BY TopPop DEF TypeInv
<1> QED
  BY <1>1, UnqueuedFacts DEF EndWait, TypeInv

\* So does do_release, and it touches nothing but the mutex and the list of its owner.
LEMMA ReleasedTypes ==
  ASSUME ObjTypeOK, NEW m \in Mutexes, Released(m)
  PROVE  /\ mcount' \in [Mutexes -> Nat] /\ owner' \in [Mutexes -> Threads \cup {NoThread}]
         /\ mutex_list' \in [Threads -> SUBSET Mutexes]
<1>1. mcount' \in [Mutexes -> Nat] /\ owner' \in [Mutexes -> Threads \cup {NoThread}]
  BY DEF Released, ObjTypeOK
<1>2. /\ mutex_list \in [Threads -> SUBSET Mutexes]
      /\ mutex_list' = [mutex_list EXCEPT ![owner[m]] = mutex_list[owner[m]] \ {m}]
  BY DEF Released, ObjTypeOK
<1>3. \A t \in Threads : mutex_list'[t] = IF t = owner[m] THEN mutex_list[t] \ {m} ELSE mutex_list[t]
  BY <1>2
<1>4. mutex_list' = [t \in Threads |-> mutex_list'[t]]
  BY <1>2
<1> QED
  BY <1>1, <1>2, <1>3, <1>4

\* The signal operations keep the types of the objects.
LEMMA SignalTypes ==
  ASSUME TypeInv, NEW t \in Threads, NEW o \in Objects, NEW n \in Nat \ {0}, CanSignal(t, o, n), Signal(o, n)
  PROVE  /\ ObjTypeOK' /\ SignalCalls(o, n) \in Seq(ServerFrames(dead)) /\ dead' = dead /\ removed' = removed
         /\ SignalCalls(o, n) # <<>> =>
              \E k \in Nat : SignalCalls(o, n) = <<CallWakeUp(o, k)>>
<1>1. SignalCalls(o, n) = <<>> \/ \E k \in Nat : SignalCalls(o, n) = <<CallWakeUp(o, k)>>
  BY DEF SignalCalls
<1>2. SignalCalls(o, n) \in Seq(ServerFrames(dead))
  <2>1. \A k \in Nat : CallWakeUp(o, k) \in ServerFrames(dead)
    BY FrameTypes
  <2>2. \A f \in ServerFrames(dead) : <<f>> \in Seq(ServerFrames(dead))
    OBVIOUS
  <2> QED
    BY <1>1, <2>1, <2>2, EmptySeq
<1>0. ObjTypeOK
  BY DEF TypeInv
<1>3. ASSUME o \in Mutexes /\ mutex_signal(o) PROVE ObjTypeOK'
  <2>1. CASE mcount[o] > 1 /\ UNCHANGED <<owner, mutex_list>> /\ mcount' = [mcount EXCEPT ![o] = @ - 1]
    <3>1. mcount[o] - 1 \in Nat
      BY <1>0, <1>3, <2>1 DEF ObjTypeOK
    <3> QED
      BY <1>0, <1>3, <2>1, <3>1 DEF ObjTypeOK, mutex_signal
  <2>2. CASE Released(o)
    BY <1>0, <1>3, <2>2, ReleasedTypes DEF ObjTypeOK, mutex_signal
  <2> QED
    BY <1>3, <2>1, <2>2 DEF mutex_signal
<1>4. ASSUME o \in Semaphores /\ release_semaphore(o, n) PROVE ObjTypeOK'
  <2>1. scount[o] + n <= SemMax[o]
    BY <1>4, KindAssumption DEF CanSignal
  <2>2. scount[o] + n \in Nat
    BY <1>0, <1>4 DEF ObjTypeOK
  <2>3. scount' \in [Semaphores -> Nat] /\ \A s \in Semaphores : scount'[s] <= SemMax[s]
    BY <1>0, <1>4, <2>1, <2>2 DEF release_semaphore, ObjTypeOK
  <2> QED
    BY <1>0, <1>4, <2>3 DEF release_semaphore, ObjTypeOK
<1>5. ASSUME o \in Events /\ set_event(o) PROVE ObjTypeOK'
  BY <1>0, <1>5 DEF set_event, ObjTypeOK
<1>6. ObjTypeOK' /\ dead' = dead /\ removed' = removed
  BY <1>3, <1>4, <1>5 DEF Signal, mutex_signal, release_semaphore, set_event
<1> QED
  BY <1>1, <1>2, <1>6

\* The actions of the system, one by one.
ServerActions ==
  WakeUp \/ WakeThread \/ WakeThreadEnd \/ Kill \/ Abandon \/ Cleanup
  \/ PulseReset \/ SelectRest \/ TimerSignals
ClientActions(t) ==
  SelectAgain(t) \/ ReadReply(t) \/ GetApc(t) \/ LeaveSuspend(t) \/ ClientDies(t)
  \/ TakeSignal(t) \/ SetContext(t)
RequestActions(t) ==
  \/ \E a \in WaitArgs : Select(t, a)
  \/ \E o \in Objects, a \in WaitArgs : SelectSignal(t, o, a)
  \/ \E o \in Objects, n \in Nat \ {0} : SignalObject(t, o, n)
  \/ \E e \in Events : PulseEvent(t, e) \/ ResetEvent(t, e)
  \/ \E r \in Timers : CancelTimer(t, r) \/ \E period, apc \in BOOLEAN : SetTimer(t, r, period, apc)
  \/ ExitThread(t)
  \/ \E u \in Threads :
       \/ TerminateThread(t, u) \/ SuspendThread(t, u) \/ ResumeThread(t, u)
       \/ \E system \in BOOLEAN : QueueApc(t, u, system)
OtherActions(t) ==
  \/ \E level \in DOMAIN waits[t] : TimePasses(t, level) \/ ThreadTimeout(t, level)
  \/ PollHup(t)

\* A step of the system is a step of the server, of a thread, of a timer or of a process.
LEMMA NextActions ==
  ASSUME TypeInv, Next
  PROVE  /\ load' = load
         /\ \/ ServerActions
            \/ \E t \in Threads : ClientActions(t) \/ RequestActions(t) \/ OtherActions(t)
            \/ \E r \in Timers : TimerExpires(r)
            \/ load.crashes /\ \E p \in Processes : Crash(p)
<1>1. /\ load.threads \subseteq Threads /\ load.waits \subseteq WaitArgs
      /\ load.signalWaits \subseteq Objects \X WaitArgs /\ ReleaseCounts \subseteq Nat \ {0}
  BY ServerAssumption DEF TypeInv
<1>2. Mutexes \subseteq Objects /\ Semaphores \subseteq Objects /\ Events \subseteq Objects
  BY DEF Objects
<1>3. ASSUME NEW t \in Threads, Application(t) PROVE RequestActions(t)
  <2>1. ASSUME NEW sw \in load.signalWaits, SelectSignal(t, sw[1], sw[2]) PROVE RequestActions(t)
    <3>1. sw[1] \in Objects /\ sw[2] \in WaitArgs
      BY <1>1
    <3> QED
      BY <2>1, <3>1 DEF RequestActions
  <2>2. ASSUME NEW s \in Semaphores, NEW n \in ReleaseCounts, ReleaseSemaphore(t, s, n) PROVE RequestActions(t)
    BY <1>1, <1>2, <2>2 DEF RequestActions, ReleaseSemaphore
  <2>3. ASSUME NEW m \in Mutexes, ReleaseMutex(t, m) PROVE RequestActions(t)
    BY <1>2, <2>3 DEF RequestActions, ReleaseMutex
  <2>4. ASSUME NEW e \in Events, SetEvent(t, e) PROVE RequestActions(t)
    BY <1>2, <2>4 DEF RequestActions, SetEvent
  <2>5. ASSUME NEW a \in load.waits, Select(t, a) PROVE RequestActions(t)
    BY <1>1, <2>5 DEF RequestActions
  <2>6. ASSUME NEW u \in load.threads,
               \/ TerminateThread(t, u) \/ SuspendThread(t, u) \/ ResumeThread(t, u)
               \/ \E system \in BOOLEAN : QueueApc(t, u, system)
        PROVE  RequestActions(t)
    BY <1>1, <2>6 DEF RequestActions
  <2>7. ASSUME ExitThread(t) \/ (\E e \in Events : PulseEvent(t, e) \/ ResetEvent(t, e))
               \/ \E r \in Timers : CancelTimer(t, r) \/ \E period, apc \in BOOLEAN : SetTimer(t, r, period, apc)
        PROVE  RequestActions(t)
    BY <2>7 DEF RequestActions
  <2> QED
    BY <1>3, <2>1, <2>2, <2>3, <2>4, <2>5, <2>6, <2>7 DEF Application
<1>4. ASSUME NEW t \in Threads, ClientStep(t) \/ Timeout(t) \/ PollHup(t)
      PROVE  ClientActions(t) \/ OtherActions(t)
  BY <1>4 DEF ClientStep, Timeout, ClientActions, OtherActions
<1>5. ServerStep => ServerActions
  BY DEF ServerStep, ServerActions
<1>6. \A p : Crash(p) => load.crashes
  BY DEF Crash
<1> QED
  BY <1>3, <1>4, <1>5, <1>6 DEF Next

\* Types of the server's stack after the changes that the actions make.
LEMMA StackTypes ==
  ASSUME NEW S, stack \in Seq(S), stack # <<>>
  PROVE  /\ Top(stack) \in S /\ Pop(stack) \in Seq(S) /\ Len(stack) \in Nat \ {0}
         /\ \A f, g \in S : Pop(stack) \o <<f, g>> \in Seq(S)
         /\ \A f \in S : /\ Pop(stack) \o <<f>> \in Seq(S)
                                    /\ stack \o <<f>> \in Seq(S)
         /\ \A f \in S : [stack EXCEPT ![Len(stack)] = f] \in Seq(S)
         /\ \A f, g \in S : [stack EXCEPT ![Len(stack)] = f] \o <<g>> \in Seq(S)
         /\ \A n \in Nat : [stack EXCEPT ![Len(stack)].n = n] = [stack EXCEPT ![Len(stack)] = [Top(stack) EXCEPT !.n = n]]
         /\ \A op : [stack EXCEPT ![Len(stack)].op = op] = [stack EXCEPT ![Len(stack)] = [Top(stack) EXCEPT !.op = op]]
<1>1. Top(stack) \in S /\ Pop(stack) \in Seq(S) /\ Len(stack) \in Nat \ {0}
  BY TopPop
<1>2. \A f, g \in S : Pop(stack) \o <<f, g>> \in Seq(S)
  BY <1>1, AppendTwo
<1>3. \A f \in S : Pop(stack) \o <<f>> \in Seq(S) /\ stack \o <<f>> \in Seq(S)
  BY <1>1, AppendOne
<1>4. \A f \in S : [stack EXCEPT ![Len(stack)] = f] \in Seq(S)
  BY ReplaceTop
<1>5. \A f, g \in S : [stack EXCEPT ![Len(stack)] = f] \o <<g>> \in Seq(S)
  BY <1>4, AppendOne
<1>6. \A n : [stack EXCEPT ![Len(stack)].n = n] = [stack EXCEPT ![Len(stack)] = [Top(stack) EXCEPT !.n = n]]
  BY DEF Top
<1>7. \A op : [stack EXCEPT ![Len(stack)].op = op] = [stack EXCEPT ![Len(stack)] = [Top(stack) EXCEPT !.op = op]]
  BY DEF Top
<1> QED
  BY <1>1, <1>2, <1>3, <1>4, <1>5, <1>6, <1>7

\* What is left of the stack when wake_thread returns.
LEMMA AfterWakeFacts ==
  ASSUME stack \in Seq(ServerFrames(dead)), stack # <<>>, NEW count \in Nat
  PROVE  /\ AfterWake(count) \in Seq(ServerFrames(dead))
         /\ \/ AfterWake(count) = Pop(stack)
            \/ /\ Pop(stack) # <<>> /\ Top(Pop(stack)).op = "wake_up"
               /\ AfterWake(count) = Pop(Pop(stack))
            \/ /\ Pop(stack) # <<>> /\ Top(Pop(stack)).op = "wake_up"
               /\ \E n \in Nat : AfterWake(count) =
                    [Pop(stack) EXCEPT ![Len(Pop(stack))] = [Top(Pop(stack)) EXCEPT !.n = n]]
<1> DEFINE rest == Pop(stack)
<1>1. rest \in Seq(ServerFrames(dead))
  BY TopPop
<1>2. CASE rest = <<>> \/ Top(rest).op # "wake_up" \/ count = 0 \/ Top(rest).n = 0
  BY <1>1, <1>2 DEF AfterWake
<1>3. CASE ~ (rest = <<>> \/ Top(rest).op # "wake_up" \/ count = 0 \/ Top(rest).n = 0) /\ Top(rest).n = 1
  <2>1. AfterWake(count) = Pop(rest)
    BY <1>3 DEF AfterWake
  <2>2. Pop(rest) \in Seq(ServerFrames(dead))
    BY <1>1, <1>3, TopPop
  <2> QED
    BY <1>3, <2>1, <2>2
<1>4. CASE ~ (rest = <<>> \/ Top(rest).op # "wake_up" \/ count = 0 \/ Top(rest).n = 0) /\ Top(rest).n # 1
  <2>1. Top(rest) \in ServerFrames(dead) /\ Top(rest) = rest[Len(rest)]
    BY <1>1, <1>4, TopPop
  <2>2. Top(rest).n - 1 \in Nat
    BY <1>4, <2>1, FrameTypes
  <2>3. AfterWake(count) = [rest EXCEPT ![Len(rest)].n = rest[Len(rest)].n - 1]
    BY <1>4 DEF AfterWake
  <2>4. PICK n \in Nat : n = Top(rest).n - 1
    BY <2>2
  <2> HIDE DEF rest
  <2>5. AfterWake(count) = [rest EXCEPT ![Len(rest)] = [Top(rest) EXCEPT !.n = n]]
    BY <2>1, <2>3, <2>4
  <2>6. [Top(rest) EXCEPT !.n = n] \in ServerFrames(dead)
    BY <2>1, <2>4, FrameTypes
  <2>7. AfterWake(count) \in Seq(ServerFrames(dead))
    BY <1>1, <1>4, <2>5, <2>6, ReplaceTop
  <2> QED
    BY <1>4, <2>4, <2>5, <2>7 DEF rest
<1> QED
  BY <1>2, <1>3, <1>4

\* A step that leaves the objects alone keeps their types.
LEMMA ObjFrame ==
  ASSUME ObjTypeOK, UNCHANGED objVars
  PROVE  ObjTypeOK'
BY DEF ObjTypeOK, objVars

\* A reply sent to a thread.
LEMMA SendTypes ==
  ASSUME pipe \in [Threads -> Seq(Replies)], NEW t \in Threads, NEW c \in Nat \cup {Junk},
         NEW r \in {"object", "abandoned", "apc", "timeout", "killed"}
  PROVE  /\ [pipe EXCEPT ![t] = Append(pipe[t], [cookie |-> c, r |-> r])] \in [Threads -> Seq(Replies)]
         /\ Append(pipe[t], [cookie |-> c, r |-> r]) \in Seq(Replies)
<1>1. [cookie |-> c, r |-> r] \in Replies
  BY DEF Replies
<1>2. Append(pipe[t], [cookie |-> c, r |-> r]) \in Seq(Replies)
  BY <1>1, AppendProperties
<1> QED
  BY <1>2

\* The innermost wait of a thread.
LEMMA WaitTypes ==
  ASSUME waits \in [Threads -> Seq(WaitRecords)], NEW t \in Threads, NEW l \in DOMAIN waits[t]
  PROVE  /\ waits[t] \in Seq(WaitRecords) /\ waits[t][l] \in WaitRecords
         /\ waits[t][l].cookie \in Nat \cup {Junk} /\ waits[t][l].objs \in Seq(Objects)
         /\ waits[t][l].user \in BOOLEAN /\ waits[t][l].when \in {"never", "future", "past"}
         /\ DOMAIN waits[t] = 1..Len(waits[t]) /\ Len(waits[t]) \in Nat
         /\ Top(waits[t]) = waits[t][Len(waits[t])] /\ Len(waits[t]) \in DOMAIN waits[t]
<1>1. waits[t] \in Seq(WaitRecords)
  OBVIOUS
<1>2. waits[t][l] \in WaitRecords
  <2> HIDE DEF WaitRecords
  <2> QED
    BY <1>1
<1>3. /\ waits[t][l].cookie \in Nat \cup {Junk} /\ waits[t][l].objs \in Seq(Objects)
      /\ waits[t][l].user \in BOOLEAN /\ waits[t][l].when \in {"never", "future", "past"}
  BY <1>2 DEF WaitRecords
<1>4. /\ DOMAIN waits[t] = 1..Len(waits[t]) /\ Len(waits[t]) \in Nat
      /\ Top(waits[t]) = waits[t][Len(waits[t])] /\ Len(waits[t]) \in DOMAIN waits[t]
  BY <1>1 DEF Top
<1> QED
  BY <1>1, <1>2, <1>3, <1>4

\* The server's own steps keep the types, action by action.
LEMMA WakeUpTypes ==
  ASSUME TypeInv, load' = load, WakeUp
  PROVE  TypeInv'
<1>1. stack # <<>> /\ stack \in Seq(ServerFrames(dead)) /\ queue \in [Objects -> Seq(Entries)] /\ ObjTypeOK
  BY DEF WakeUp, TypeInv
<1>2. /\ Top(stack) \in ServerFrames(dead) /\ Pop(stack) \in Seq(ServerFrames(dead)) /\ Top(stack).op = "wake_up"
      /\ \A f, g \in ServerFrames(dead) : Pop(stack) \o <<f, g>> \in Seq(ServerFrames(dead))
  BY <1>1, StackTypes DEF WakeUp
<1> DEFINE f == Top(stack)
           q == queue[f.x]
           next(i) == IF i = Len(q) THEN End ELSE q[i + 1]
<1>3. f.x \in Objects /\ q \in Seq(Entries) /\ \A c \in Entries \cup {End} : [f EXCEPT !.next = c] \in ServerFrames(dead)
  BY <1>1, <1>2, FrameTypes
<1>4. \A i \in DOMAIN q : CallWakeThread(q[i].thread) \in ServerFrames(dead) /\ next(i) \in Entries \cup {End}
  <2> SUFFICES ASSUME NEW i \in DOMAIN q
               PROVE  CallWakeThread(q[i].thread) \in ServerFrames(dead) /\ next(i) \in Entries \cup {End}
    OBVIOUS
  <2>1. q[i] \in Entries /\ (i # Len(q) => q[i + 1] \in Entries)
    BY <1>3
  <2>2. q[i].thread \in Threads
    BY <2>1 DEF Entries
  <2> QED
    BY <2>1, <2>2, FrameTypes
<1>5. \A i \in DOMAIN q :
        Pop(stack) \o <<[f EXCEPT !.next = next(i)], CallWakeThread(q[i].thread)>> \in Seq(ServerFrames(dead))
  BY <1>2, <1>3, <1>4
<1>6. /\ \/ stack' \in {Pop(stack), stack}
         \/ \E i \in DOMAIN q :
              stack' = Pop(stack) \o <<[f EXCEPT !.next = next(i)], CallWakeThread(q[i].thread)>>
      /\ corrupt' \in {TRUE, corrupt}
  BY DEF WakeUp
<1>7. stack' \in Seq(ServerFrames(dead)) /\ corrupt' \in BOOLEAN
  <2> HIDE DEF f, q, next
  <2> QED
    BY <1>1, <1>2, <1>5, <1>6 DEF TypeInv
<1>8. UNCHANGED <<objVars, waitVars, suspend, context, apcVars, timerVars, pipe, clientVars>>
  BY DEF WakeUp
<1>9. ObjTypeOK'
  BY <1>1, <1>8, ObjFrame
<1> QED
  BY <1>7, <1>8, <1>9 DEF TypeInv, objVars, waitVars, apcVars, timerVars, clientVars

\* wake_thread keeps the types.
LEMMA WakeThreadTypes ==
  ASSUME TypeInv, load' = load, WakeThread \/ WakeThreadEnd
  PROVE  TypeInv'
<1>1. stack # <<>> /\ stack \in Seq(ServerFrames(dead)) /\ ObjTypeOK
  BY DEF WakeThread, WakeThreadEnd, TypeInv
<1>2. Top(stack) \in ServerFrames(dead) /\ Top(stack).op \in ThreadOps /\ Top(stack).n \in Nat
  BY <1>1, StackTypes, FrameTypes DEF WakeThread, WakeThreadEnd, ThreadOps
<1>3. ASSUME WakeThreadEnd PROVE TypeInv'
  <2>1. AfterWake(Top(stack).n) \in Seq(ServerFrames(dead))
    BY <1>1, <1>2, AfterWakeFacts
  <2>2. /\ stack' \in Seq(ServerFrames(dead))
        /\ UNCHANGED <<objVars, waitVars, suspend, context, apcVars, timerVars, corrupt, pipe, clientVars>>
    BY <1>3, <2>1 DEF WakeThreadEnd
  <2>3. ObjTypeOK'
    BY <1>1, <2>2, ObjFrame
  <2> QED
    BY <2>2, <2>3 DEF TypeInv, objVars, waitVars, apcVars, timerVars, clientVars
<1>4. ASSUME WakeThread PROVE TypeInv'
  <2> DEFINE t == Top(stack).x
             w == Top(waits[t])
             r == CheckWait(t, w)
  <2>1. t \in Threads
    BY <1>2, FrameTypes
  <2>2. /\ Wakeable(t) /\ Acquire(t, w) /\ EndWait(t)
        /\ \/ /\ pipe' = [pipe EXCEPT ![t] = Append(pipe[t], [cookie |-> w.cookie, r |-> r])]
              /\ stack' = [stack EXCEPT ![Len(stack)].n = Top(stack).n + 1]
           \/ /\ stack' = [stack EXCEPT ![Len(stack)].op = "wake_failed"] \o <<CallKill(t)>>
              /\ UNCHANGED pipe
        /\ UNCHANGED <<suspend, context, apcVars, timerVars, corrupt, clientVars>>
    BY <1>4 DEF WakeThread, Top
  <2>3. waits[t] \in Seq(WaitRecords) /\ waits[t] # <<>> /\ pipe \in [Threads -> Seq(Replies)]
    BY <2>1, <2>2 DEF Wakeable, TypeInv
  <2>4. w \in WaitRecords /\ w.cookie \in Nat \cup {Junk}
    <3>1. Len(waits[t]) \in DOMAIN waits[t] /\ waits \in [Threads -> Seq(WaitRecords)]
      BY <2>1, <2>3, TopPop DEF TypeInv
    <3> QED
      BY <2>1, <3>1, WaitTypes
  <2>5. r \in {"object", "abandoned", "apc", "timeout", "killed"}
    BY <2>2, CheckWaitTypes DEF Wakeable
  <2>6. ObjTypeOK' /\ dead' = dead
    BY <2>1, <2>2, <2>4, AcquireTypes
  <2>7. queue' \in [Objects -> Seq(Entries)] /\ waits' \in [Threads -> Seq(WaitRecords)]
    BY <2>1, <2>2, <2>3, EndWaitTypes
  <2>8. pipe' \in [Threads -> Seq(Replies)]
    <3> HIDE DEF r, w
    <3>1. [pipe EXCEPT ![t] = Append(pipe[t], [cookie |-> w.cookie, r |-> r])] \in [Threads -> Seq(Replies)]
      BY <2>1, <2>3, <2>4, <2>5, SendTypes
    <3> QED
      BY <2>2, <2>3, <3>1
  <2>9. stack' \in Seq(ServerFrames(dead))
    <3>1. [Top(stack) EXCEPT !.n = Top(stack).n + 1] \in ServerFrames(dead)
      <4>1. Top(stack).n + 1 \in Nat
        BY <1>2
      <4> QED
        BY <1>2, <4>1, FrameTypes
    <3>2. [Top(stack) EXCEPT !.op = "wake_failed"] \in ServerFrames(dead) /\ CallKill(t) \in ServerFrames(dead)
      BY <1>2, <2>1, FrameTypes DEF ThreadOps
    <3>3. Top(stack).n + 1 \in Nat
      BY <1>2
    <3>4. [stack EXCEPT ![Len(stack)].n = Top(stack).n + 1] \in Seq(ServerFrames(dead))
      BY <1>1, <3>1, <3>3, StackTypes
    <3>5. [stack EXCEPT ![Len(stack)].op = "wake_failed"] \o <<CallKill(t)>> \in Seq(ServerFrames(dead))
      BY <1>1, <3>2, StackTypes
    <3> QED
      BY <2>2, <3>4, <3>5
  <2> HIDE DEF t, w, r
  <2> QED
    BY <2>2, <2>6, <2>7, <2>8, <2>9 DEF TypeInv, apcVars, timerVars, clientVars
<1> QED
  BY <1>3, <1>4

\* kill_thread keeps the types: the frames it leaves work on a dead thread.
LEMMA KillTypes ==
  ASSUME TypeInv, load' = load, Kill \/ Abandon \/ Cleanup
  PROVE  TypeInv'
<1> DEFINE t == Top(stack).x
<1>1. stack # <<>> /\ stack \in Seq(ServerFrames(dead)) /\ ObjTypeOK /\ Top(stack).op \in {"kill", "abandon", "cleanup"}
  BY DEF Kill, Abandon, Cleanup, TypeInv
<1>2. t \in Threads /\ (Top(stack).op # "kill" => t \in dead) /\ Top(stack) \in ServerFrames(dead)
  BY <1>1, StackTypes, FrameTypes DEF ThreadOps
<1>3. t \in Objects /\ ProcessOf[t] \in Objects /\ \A m \in Mutexes : m \in Objects
  BY <1>2, ObjectAssumption DEF Objects
<1>4. ASSUME Kill PROVE TypeInv'
  <2>1. CASE t \in dead
    <3>1. stack' = Pop(stack) /\ UNCHANGED <<dead, waitVars, pipe>>
      BY <1>4, <2>1 DEF Kill
    <3>2. stack' \in Seq(ServerFrames(dead))
      BY <1>1, <3>1, StackTypes
    <3>3. UNCHANGED <<mcount, owner, abandoned, mutex_list, scount, signaled, removed, suspend, context,
                      apcVars, timerVars, corrupt, clientVars>>
      BY <1>4 DEF Kill
    <3>4. ObjTypeOK'
      BY <1>1, <3>1, <3>3 DEF ObjTypeOK
    <3> QED
      BY <3>1, <3>2, <3>3, <3>4 DEF TypeInv, objVars, waitVars, apcVars, timerVars, clientVars
  <2>2. CASE t \notin dead
    <3>1. /\ dead' = dead \cup {t} /\ waits' = [waits EXCEPT ![t] = <<>>] /\ queue' = QueuedByOthers(t)
          /\ pipe' = pipe \/ pipe' = [pipe EXCEPT ![t] = Append(pipe[t], [cookie |-> Null, r |-> "killed"])]
          /\ \/ stack' = [stack EXCEPT ![Len(stack)].op = "abandon"] \o <<>>
             \/ stack' = [stack EXCEPT ![Len(stack)].op = "abandon"] \o <<CallKill(t)>>
      BY <1>4, <2>2 DEF Kill
    <3>2. UNCHANGED <<mcount, owner, abandoned, mutex_list, scount, signaled, removed, suspend, context,
                      apcVars, timerVars, corrupt, clientVars>>
      BY <1>4 DEF Kill
    <3>3. ObjTypeOK'
      BY <1>1, <1>2, <3>1, <3>2 DEF ObjTypeOK
    <3>4. waits' \in [Threads -> Seq(WaitRecords)]
      <4>1. waits \in [Threads -> Seq(WaitRecords)] /\ <<>> \in Seq(WaitRecords)
        BY EmptySeq DEF TypeInv
      <4> QED
        BY <1>2, <3>1, <4>1
    <3>5. queue' \in [Objects -> Seq(Entries)]
      <4>1. queue \in [Objects -> Seq(Entries)]
        BY DEF TypeInv
      <4> QED
        BY <3>1, <4>1, QueuedByOthersFacts
    <3>6. pipe' \in [Threads -> Seq(Replies)]
      <4>1. pipe \in [Threads -> Seq(Replies)] /\ Null \in Nat
        BY DEF TypeInv, Null
      <4>2. [pipe EXCEPT ![t] = Append(pipe[t], [cookie |-> Null, r |-> "killed"])] \in [Threads -> Seq(Replies)]
        BY <1>2, <4>1, SendTypes
      <4> QED
        BY <3>1, <4>1, <4>2
    <3>7. stack' \in Seq(ServerFrames(dead'))
      <4>0. t \in dead' /\ stack \in Seq(ServerFrames(dead'))
        BY <1>1, <3>1, FramesStay
      <4>1. [Top(stack) EXCEPT !.op = "abandon"] \in ServerFrames(dead') /\ CallKill(t) \in ServerFrames(dead')
        <5>1. Top(stack) \in ServerFrames(dead') /\ Top(stack).op \in ThreadOps
          BY <1>1, <4>0, StackTypes DEF ThreadOps
        <5> QED
          BY <1>2, <4>0, <5>1, FrameTypes DEF ThreadOps
      <4>2. /\ [stack EXCEPT ![Len(stack)].op = "abandon"] \in Seq(ServerFrames(dead'))
            /\ [stack EXCEPT ![Len(stack)].op = "abandon"] \o <<CallKill(t)>> \in Seq(ServerFrames(dead'))
        BY <1>1, <4>0, <4>1, StackTypes
      <4>3. [stack EXCEPT ![Len(stack)].op = "abandon"] \o <<>> = [stack EXCEPT ![Len(stack)].op = "abandon"]
        BY <4>2, ConcatEmptySeq
      <4> QED
        BY <3>1, <4>2, <4>3
    <3> HIDE DEF t
    <3> QED
      BY <3>2, <3>3, <3>4, <3>5, <3>6, <3>7 DEF TypeInv, apcVars, timerVars, clientVars
  <2> QED
    BY <2>1, <2>2
<1>5. ASSUME Abandon PROVE TypeInv'
  <2>1. UNCHANGED <<scount, signaled, dead, removed, waitVars, suspend, context, apcVars, timerVars,
                    corrupt, pipe, clientVars>>
    BY <1>5 DEF Abandon
  <2>2. stack' \in Seq(ServerFrames(dead)) /\ ObjTypeOK'
    <3>1. ASSUME NEW m \in mutex_list[t], Released(m), abandoned' = abandoned \cup {m},
                 stack' = stack \o <<CallWakeUp(m, 0)>>
          PROVE  stack' \in Seq(ServerFrames(dead)) /\ ObjTypeOK'
      <4>1. m \in Mutexes
        BY <1>1, <1>2 DEF ObjTypeOK
      <4>2. CallWakeUp(m, 0) \in ServerFrames(dead)
        BY <1>3, <4>1, FrameTypes
      <4> QED
        BY <1>1, <2>1, <3>1, <4>1, <4>2, ReleasedTypes, StackTypes DEF ObjTypeOK
    <3>2. ASSUME UNCHANGED <<mcount, owner, abandoned, mutex_list>>,
                 stack' = [stack EXCEPT ![Len(stack)].op = "cleanup"] \o <<CallWakeUp(t, 0)>>
          PROVE  stack' \in Seq(ServerFrames(dead)) /\ ObjTypeOK'
      <4>1. CallWakeUp(t, 0) \in ServerFrames(dead) /\ [Top(stack) EXCEPT !.op = "cleanup"] \in ServerFrames(dead)
        <5>1. Top(stack).op \in ThreadOps /\ t \in dead
          BY <1>2, <1>5 DEF Abandon, ThreadOps
        <5> QED
          BY <1>2, <1>3, <5>1, FrameTypes DEF ThreadOps
      <4>2. [stack EXCEPT ![Len(stack)].op = "cleanup"] \o <<CallWakeUp(t, 0)>> \in Seq(ServerFrames(dead))
        BY <1>1, <4>1, StackTypes
      <4> QED
        BY <1>1, <2>1, <3>2, <4>2 DEF ObjTypeOK
    <3> QED
      BY <1>5, <3>1, <3>2 DEF Abandon
  <2> QED
    BY <2>1, <2>2 DEF TypeInv, objVars, waitVars, apcVars, timerVars, clientVars
<1>6. ASSUME Cleanup PROVE TypeInv'
  <2>1. UNCHANGED <<mcount, owner, abandoned, mutex_list, scount, signaled, dead, waitVars, suspend,
                    timerVars, corrupt, pipe, clientVars>>
    BY <1>6 DEF Cleanup
  <2>2. /\ system_apc' = [system_apc EXCEPT ![t] = <<>>] /\ user_apc' = [user_apc EXCEPT ![t] = <<>>]
        /\ context' = context \ {t} /\ removed' = removed \cup {t}
        /\ \/ stack' = Pop(stack) \o <<>>
           \/ stack' = Pop(stack) \o <<CallWakeUp(ProcessOf[t], 0)>>
    BY <1>6 DEF Cleanup
  <2>3. stack' \in Seq(ServerFrames(dead))
    <3>1. CallWakeUp(ProcessOf[t], 0) \in ServerFrames(dead)
      BY <1>3, FrameTypes
    <3>2. Pop(stack) \o <<CallWakeUp(ProcessOf[t], 0)>> \in Seq(ServerFrames(dead)) /\ Pop(stack) \in Seq(ServerFrames(dead))
      BY <1>1, <3>1, StackTypes
    <3> QED
      BY <2>2, <3>2, AppendOne
  <2>5. ObjTypeOK'
    <3>1. t \in dead
      BY <1>2, <1>6 DEF Cleanup
    <3> QED
      BY <1>1, <2>1, <2>2, <3>1 DEF ObjTypeOK
  <2>4. /\ system_apc' \in [Threads -> Seq({NoOwner})]
        /\ user_apc' \in [Threads -> Seq(Timers \cup {NoOwner})]
    BY <2>2, EmptySeq DEF TypeInv
  <2> QED
    BY <2>1, <2>2, <2>3, <2>4, <2>5 DEF TypeInv, waitVars, timerVars, clientVars
<1> QED
  BY <1>4, <1>5, <1>6

\* The rest of select_on keeps the types.
LEMMA SelectRestTypes ==
  ASSUME TypeInv, SelectInv, load' = load, SelectRest
  PROVE  TypeInv'
<1> DEFINE t == Top(stack).x
           w == Top(waits[t])
           r == CheckWait(t, w)
<1>1. stack # <<>> /\ stack \in Seq(ServerFrames(dead)) /\ ObjTypeOK /\ Top(stack).op = "select"
  BY DEF SelectRest, TypeInv
<1>2. t \in Threads /\ Pop(stack) \in Seq(ServerFrames(dead))
  BY <1>1, StackTypes, FrameTypes DEF ThreadOps
<1>3. client[t] \in Seq(ClientFrames) /\ client[t] # <<>>
  <2>1. Len(stack) = 1 /\ stack[1] = Top(stack)
    BY <1>1, TopPop DEF SelectInv
  <2>2. Selecting(t)
    BY <1>1, <2>1 DEF Selecting
  <2>3. Len(client[t]) = 1 /\ client[t] \in Seq(ClientFrames)
    BY <1>2, <2>2 DEF SelectInv, TypeInv
  <2> QED
    BY <2>3, NotEmpty
<1>4. \A s : Returned(client[t], s) \in Seq(ClientFrames) /\ Reading(client[t]) \in Seq(ClientFrames)
  BY <1>3, ReturnedFacts, ReadingFacts
<1>5. /\ stack' = Pop(stack)
      /\ UNCHANGED <<suspend, context, apcVars, timerVars, pipe, gone, sig>>
  BY DEF SelectRest
<1>6. /\ ObjTypeOK' /\ dead' = dead /\ queue' \in [Objects -> Seq(Entries)]
      /\ waits' \in [Threads -> Seq(WaitRecords)] /\ client' \in [Threads -> Seq(ClientFrames)]
      /\ corrupt' \in BOOLEAN
  <2>0. /\ queue \in [Objects -> Seq(Entries)] /\ waits \in [Threads -> Seq(WaitRecords)]
        /\ client \in [Threads -> Seq(ClientFrames)] /\ corrupt \in BOOLEAN
    BY DEF TypeInv
  <2>1. CASE corrupt' = TRUE /\ UNCHANGED <<objVars, waitVars, client>>
    BY <1>1, <2>0, <2>1, ObjFrame DEF waitVars, objVars
  <2>2. CASE /\ client' = [client EXCEPT ![t] = Returned(client[t], "object")]
             /\ UNCHANGED <<objVars, waitVars, corrupt>>
    <3>1. client' \in [Threads -> Seq(ClientFrames)]
      BY <1>4, <2>0, <2>2
    <3> QED
      BY <1>1, <2>0, <2>2, <3>1, ObjFrame DEF waitVars, objVars
  <2>3. CASE /\ waits[t] # <<>> /\ Acquire(t, w) /\ EndWait(t) /\ UNCHANGED corrupt
             /\ client' = [client EXCEPT ![t] = Returned(client[t], r)]
    <3>1. w \in WaitRecords
      BY <1>2, <2>0, <2>3, TopPop
    <3>2. ObjTypeOK' /\ dead' = dead
      BY <1>2, <2>3, <3>1, AcquireTypes
    <3>3. queue' \in [Objects -> Seq(Entries)] /\ waits' \in [Threads -> Seq(WaitRecords)]
      BY <1>2, <2>3, EndWaitTypes
    <3>4. client' \in [Threads -> Seq(ClientFrames)]
      BY <1>4, <2>0, <2>3
    <3> QED
      BY <2>0, <2>3, <3>2, <3>3, <3>4
  <2>4. CASE /\ waits[t] # <<>> /\ UNCHANGED <<objVars, queue, corrupt>>
             /\ waits' = [waits EXCEPT ![t][1].user = w.when # "never", ![t][1].cookie = 1]
             /\ client' = [client EXCEPT ![t] = Reading(client[t])]
    <3>1. waits[t] \in Seq(WaitRecords) /\ Len(waits[t]) \in Nat \ {0} /\ waits[t][1] \in WaitRecords
      BY <1>2, <2>0, <2>4, TopPop, ElementOfSeq
    <3>2. \A u \in BOOLEAN : [waits[t][1] EXCEPT !.user = u, !.cookie = 1] \in WaitRecords
      BY <3>1 DEF WaitRecords
    <3>3. PICK x \in WaitRecords : x = [waits[t][1] EXCEPT !.user = (w.when # "never"), !.cookie = 1]
      BY <3>2
    <3>4. waits' = [waits EXCEPT ![t] = [waits[t] EXCEPT ![1] = x]]
      <4>1. waits' = [waits EXCEPT ![t] = [waits[t] EXCEPT ![1] =
                        [waits[t][1] EXCEPT !.user = (w.when # "never"), !.cookie = 1]]]
        BY <1>2, <2>0, <2>4, <3>1
      <4> QED
        BY <3>3, <4>1
    <3>5. [waits[t] EXCEPT ![1] = x] \in Seq(WaitRecords)
      BY <3>1, <3>3, ExceptSeq
    <3>6. waits' \in [Threads -> Seq(WaitRecords)]
      BY <2>0, <3>4, <3>5
    <3>7. client' \in [Threads -> Seq(ClientFrames)]
      BY <1>4, <2>0, <2>4
    <3> QED
      BY <1>1, <2>0, <2>4, <3>6, <3>7, ObjFrame DEF objVars
  <2>5. \/ corrupt' = TRUE /\ UNCHANGED <<objVars, waitVars, client>>
        \/ /\ client' = [client EXCEPT ![t] = Returned(client[t], "object")]
           /\ UNCHANGED <<objVars, waitVars, corrupt>>
        \/ /\ waits[t] # <<>> /\ Acquire(t, w) /\ EndWait(t) /\ UNCHANGED corrupt
           /\ client' = [client EXCEPT ![t] = Returned(client[t], r)]
        \/ /\ waits[t] # <<>> /\ UNCHANGED <<objVars, queue, corrupt>>
           /\ waits' = [waits EXCEPT ![t][1].user = w.when # "never", ![t][1].cookie = 1]
           /\ client' = [client EXCEPT ![t] = Reading(client[t])]
    BY DEF SelectRest
  <2> HIDE DEF t, w, r
  <2> QED
    BY <2>1, <2>2, <2>3, <2>4, <2>5
<1> QED
  BY <1>2, <1>5, <1>6 DEF TypeInv, apcVars, timerVars

\* Every step of the server inside a request keeps the types.
LEMMA ServerTypes ==
  ASSUME TypeInv, SelectInv, load' = load, ServerActions
  PROVE  TypeInv'
<1>0. ObjTypeOK /\ stack \in Seq(ServerFrames(dead))
  BY DEF TypeInv
<1>1. ASSUME PulseReset PROVE TypeInv'
  <2>1. /\ signaled' \subseteq signaled /\ stack' = Pop(stack) /\ stack # <<>>
        /\ UNCHANGED <<mcount, owner, abandoned, mutex_list, scount, dead, removed, waitVars, suspend, context,
                       apcVars, timerVars, corrupt, pipe, clientVars>>
    BY <1>1 DEF PulseReset
  <2>2. stack' \in Seq(ServerFrames(dead))
    BY <1>0, <2>1, StackTypes
  <2>3. ObjTypeOK'
    BY <1>0, <2>1 DEF ObjTypeOK
  <2> QED
    BY <2>1, <2>2, <2>3 DEF TypeInv, waitVars, apcVars, timerVars, clientVars
<1>2. ASSUME TimerSignals PROVE TypeInv'
  <2> DEFINE r == Top(stack).x
  <2>1. /\ armed' \subseteq armed /\ signaled' = signaled \cup {r}
        /\ stack # <<>> /\ Top(stack).op = "expire" /\ stack' = Pop(stack) \o <<CallWakeUp(r, 0)>>
        /\ UNCHANGED <<mcount, owner, abandoned, mutex_list, scount, dead, removed, waitVars, suspend, context,
                       apcVars, periodic, apc_thread, corrupt, pipe, clientVars>>
    BY <1>2 DEF TimerSignals
  <2>2. r \in Timers
    BY <1>0, <2>1, StackTypes, FrameTypes
  <2>3. CallWakeUp(r, 0) \in ServerFrames(dead)
    BY <2>2, FrameTypes DEF Objects
  <2>4. stack' \in Seq(ServerFrames(dead))
    BY <1>0, <2>1, <2>3, StackTypes
  <2>5. ObjTypeOK'
    BY <1>0, <2>1, <2>2 DEF ObjTypeOK
  <2> QED
    BY <2>1, <2>4, <2>5 DEF TypeInv, waitVars, apcVars, timerVars, clientVars
<1> QED
  BY <1>1, <1>2, WakeUpTypes, WakeThreadTypes, KillTypes, SelectRestTypes DEF ServerActions

\* The innermost frame of a client changes: its place ...
LEMMA PlaceFacts ==
  ASSUME NEW q \in Seq(ClientFrames), q # <<>>, NEW a \in {"set", "call", "read", "apc", "ctx"}
  PROVE  LET r == [q EXCEPT ![Len(q)].at = a]
         IN /\ r \in Seq(ClientFrames) /\ Len(r) = Len(q) /\ r # <<>> /\ DOMAIN r = DOMAIN q
            /\ \A i \in DOMAIN q :
                 /\ r[i].kind = q[i].kind /\ r[i].args = q[i].args /\ r[i].stolen = q[i].stolen
                 /\ r[i].at = IF i = Len(q) THEN a ELSE q[i].at
<1>1. Top(q) \in ClientFrames /\ Top(q) = q[Len(q)]
  BY TopPop
<1>2. PICK x \in ClientFrames :
        /\ x = [Top(q) EXCEPT !.at = a] /\ x.kind = Top(q).kind /\ x.args = Top(q).args
        /\ x.stolen = Top(q).stolen /\ x.at = a
  <2>1. Top(q) \in [kind : {"wait", "suspend"}, args : WaitArgs, at : {"set", "call", "read", "apc", "ctx"},
                    stolen : Seq(Replies)]
    BY <1>1 DEF ClientFrames
  <2> DEFINE x == [Top(q) EXCEPT !.at = a]
  <2>2. x \in ClientFrames /\ x.kind = Top(q).kind /\ x.args = Top(q).args /\ x.stolen = Top(q).stolen /\ x.at = a
    BY <2>1 DEF ClientFrames
  <2> HIDE DEF x
  <2> QED
    BY <2>2 DEF x
<1>3. [q EXCEPT ![Len(q)].at = a] = [q EXCEPT ![Len(q)] = x]
  BY <1>2 DEF Top
<1> QED
  BY <1>1, <1>2, <1>3, ReplaceTop

\* ... or the replies that it has stolen.
LEMMA StolenFacts ==
  ASSUME NEW q \in Seq(ClientFrames), q # <<>>, NEW s \in Seq(Replies)
  PROVE  LET r == [q EXCEPT ![Len(q)].stolen = s]
         IN /\ r \in Seq(ClientFrames) /\ Len(r) = Len(q) /\ r # <<>> /\ DOMAIN r = DOMAIN q
            /\ \A i \in DOMAIN q :
                 /\ r[i].kind = q[i].kind /\ r[i].args = q[i].args /\ r[i].at = q[i].at
                 /\ r[i].stolen = IF i = Len(q) THEN s ELSE q[i].stolen
<1>1. Top(q) \in ClientFrames /\ Top(q) = q[Len(q)]
  BY TopPop
<1>2. PICK x \in ClientFrames :
        /\ x = [Top(q) EXCEPT !.stolen = s] /\ x.kind = Top(q).kind /\ x.args = Top(q).args
        /\ x.at = Top(q).at /\ x.stolen = s
  <2>1. Top(q) \in [kind : {"wait", "suspend"}, args : WaitArgs, at : {"set", "call", "read", "apc", "ctx"},
                    stolen : Seq(Replies)]
    BY <1>1 DEF ClientFrames
  <2> DEFINE x == [Top(q) EXCEPT !.stolen = s]
  <2>2. x \in ClientFrames /\ x.kind = Top(q).kind /\ x.args = Top(q).args /\ x.at = Top(q).at /\ x.stolen = s
    BY <2>1 DEF ClientFrames
  <2> HIDE DEF x
  <2> QED
    BY <2>2 DEF x
<1>3. [q EXCEPT ![Len(q)].stolen = s] = [q EXCEPT ![Len(q)] = x]
  BY <1>2 DEF Top
<1> QED
  BY <1>1, <1>2, <1>3, ReplaceTop

\* The SIGUSR1 handler's frame on top of the others.
HandlerFrame == [Call("suspend", SuspendArgs) EXCEPT !.at = "set"]

\* The frames of a client that enters its SIGUSR1 handler.
LEMMA HandlerFacts ==
  ASSUME NEW q \in Seq(ClientFrames)
  PROVE  /\ HandlerFrame \in ClientFrames /\ HandlerFrame.kind = "suspend" /\ HandlerFrame.at = "set"
         /\ HandlerFrame.args = SuspendArgs /\ HandlerFrame.stolen = <<>>
         /\ Append(q, HandlerFrame) \in Seq(ClientFrames) /\ Len(q) \in Nat
         /\ Len(Append(q, HandlerFrame)) = Len(q) + 1 /\ DOMAIN Append(q, HandlerFrame) = 1..(Len(q) + 1)
         /\ \A i \in 1..Len(q) : Append(q, HandlerFrame)[i] = q[i]
         /\ Append(q, HandlerFrame)[Len(q) + 1] = HandlerFrame
<1>1. Call("suspend", SuspendArgs) \in ClientFrames
  BY ClientFrameTypes
<1>2. HandlerFrame \in ClientFrames
  BY <1>1, ClientFrameTypes DEF HandlerFrame
<1>3. /\ HandlerFrame.kind = "suspend" /\ HandlerFrame.at = "set"
      /\ HandlerFrame.args = SuspendArgs /\ HandlerFrame.stolen = <<>>
  BY DEF HandlerFrame, Call
<1> HIDE DEF HandlerFrame
<1>4. /\ Append(q, HandlerFrame) \in Seq(ClientFrames) /\ Len(q) \in Nat
      /\ Len(Append(q, HandlerFrame)) = Len(q) + 1
      /\ \A i \in 1..Len(q) : Append(q, HandlerFrame)[i] = q[i]
      /\ Append(q, HandlerFrame)[Len(q) + 1] = HandlerFrame
  BY <1>2, AppendProperties
<1>5. DOMAIN Append(q, HandlerFrame) = 1..(Len(q) + 1)
  BY <1>4, LenProperties
<1> QED
  BY <1>2, <1>3, <1>4, <1>5

\* The pipe after a reply is read: the rest, or the rest and the stolen replies.
LEMMA PipeFacts ==
  ASSUME NEW p \in Seq(Replies), p # <<>>, NEW s \in Seq(Replies)
  PROVE  /\ Head(p) \in Replies /\ Head(p) = p[1] /\ 1 \in DOMAIN p /\ Tail(p) \in Seq(Replies)
         /\ Tail(p) \o s \in Seq(Replies) /\ <<Head(p)>> \o s \in Seq(Replies)
         /\ DOMAIN p = 1..Len(p) /\ Len(p) \in Nat \ {0} /\ Len(Tail(p)) = Len(p) - 1
         /\ \A i \in 1..(Len(p) - 1) : Tail(p)[i] = p[i + 1]
         /\ Len(s) \in Nat /\ DOMAIN s = 1..Len(s) /\ DOMAIN (Tail(p) \o s) = 1..(Len(p) - 1 + Len(s))
         /\ \A i \in 1..(Len(p) - 1 + Len(s)) :
              (Tail(p) \o s)[i] = IF i <= Len(p) - 1 THEN p[i + 1] ELSE s[i - (Len(p) - 1)]
         /\ DOMAIN (<<Head(p)>> \o s) = 1..(Len(s) + 1) /\ DOMAIN Tail(p) = 1..(Len(p) - 1)
         /\ \A i \in 1..(Len(s) + 1) : (<<Head(p)>> \o s)[i] = IF i = 1 THEN p[1] ELSE s[i - 1]
<1>1. /\ Len(p) \in Nat \ {0} /\ DOMAIN p = 1..Len(p) /\ Len(s) \in Nat /\ DOMAIN s = 1..Len(s)
  BY NotEmpty
<1>2. /\ Head(p) \in Replies /\ Head(p) = p[1]
      /\ Tail(p) \in Seq(Replies) /\ Len(Tail(p)) = Len(p) - 1
      /\ \A i \in 1..(Len(p) - 1) : Tail(p)[i] = p[i + 1]
  BY <1>1, HeadTailProperties
<1>3. /\ Tail(p) \o s \in Seq(Replies) /\ Len(Tail(p) \o s) = Len(p) - 1 + Len(s)
      /\ \A i \in 1..(Len(p) - 1 + Len(s)) :
           (Tail(p) \o s)[i] = IF i <= Len(p) - 1 THEN p[i + 1] ELSE s[i - (Len(p) - 1)]
  <2>1. /\ Tail(p) \o s \in Seq(Replies) /\ Len(Tail(p) \o s) = Len(Tail(p)) + Len(s)
        /\ \A i \in 1..(Len(Tail(p)) + Len(s)) :
             (Tail(p) \o s)[i] = IF i <= Len(Tail(p)) THEN Tail(p)[i] ELSE s[i - Len(Tail(p))]
    BY <1>2, ConcatProperties
  <2>2. \A i \in 1..(Len(p) - 1 + Len(s)) : i <= Len(p) - 1 => i \in 1..(Len(p) - 1)
    BY <1>1
  <2> QED
    BY <1>1, <1>2, <2>1, <2>2
<1>4. /\ <<Head(p)>> \o s \in Seq(Replies) /\ Len(<<Head(p)>> \o s) = Len(s) + 1
      /\ \A i \in 1..(Len(s) + 1) : (<<Head(p)>> \o s)[i] = IF i = 1 THEN p[1] ELSE s[i - 1]
  <2>1. /\ <<Head(p)>> \in Seq(Replies) /\ Len(<<Head(p)>>) = 1 /\ <<Head(p)>>[1] = p[1]
    BY <1>2
  <2>2. /\ <<Head(p)>> \o s \in Seq(Replies) /\ Len(<<Head(p)>> \o s) = 1 + Len(s)
        /\ \A i \in 1..(1 + Len(s)) :
             (<<Head(p)>> \o s)[i] = IF i <= 1 THEN <<Head(p)>>[i] ELSE s[i - 1]
    BY <2>1, ConcatProperties
  <2> QED
    BY <1>1, <2>1, <2>2
<1>5. /\ DOMAIN (Tail(p) \o s) = 1..(Len(p) - 1 + Len(s)) /\ DOMAIN (<<Head(p)>> \o s) = 1..(Len(s) + 1)
      /\ DOMAIN Tail(p) = 1..(Len(p) - 1)
  BY <1>2, <1>3, <1>4, LenProperties
<1> QED
  BY <1>1, <1>2, <1>3, <1>4, <1>5

\* The steps of a client keep the types.
LEMMA ClientTypes ==
  ASSUME TypeInv, load' = load, NEW t \in Threads, ClientActions(t)
  PROVE  TypeInv'
<1>0. /\ ObjTypeOK /\ stack \in Seq(ServerFrames(dead)) /\ client \in [Threads -> Seq(ClientFrames)]
      /\ pipe \in [Threads -> Seq(Replies)] /\ client[t] \in Seq(ClientFrames) /\ pipe[t] \in Seq(Replies)
  BY DEF TypeInv
<1> DEFINE c == client[t]
           n == Len(client[t])
<1>1. ASSUME SelectAgain(t) PROVE TypeInv'
  <2>1. /\ c # <<>> /\ DoSelect(t, c)
        /\ UNCHANGED <<suspend, context, apcVars, timerVars, stack, corrupt, pipe, gone, sig>>
    BY <1>1 DEF SelectAgain, ClientAt
  <2>2. /\ ObjTypeOK' /\ dead' = dead /\ queue' \in [Objects -> Seq(Entries)]
        /\ waits' \in [Threads -> Seq(WaitRecords)] /\ client' \in [Threads -> Seq(ClientFrames)]
    BY <1>0, <2>1, DoSelectTypes
  <2> QED
    BY <2>1, <2>2 DEF TypeInv, apcVars, timerVars
<1>2. ASSUME ReadReply(t) PROVE TypeInv'
  <2>1. /\ c # <<>> /\ pipe[t] # <<>>
        /\ UNCHANGED <<objVars, waitVars, suspend, context, apcVars, timerVars, stack, corrupt, sig>>
    BY <1>2 DEF ReadReply, ClientAt
  <2>2. n \in DOMAIN c /\ c[n] \in ClientFrames /\ c[n].stolen \in Seq(Replies) /\ <<>> \in Seq(Replies)
    BY <1>0, <2>1, TopPop, ClientFrameTypes, EmptySeq
  <2>3. /\ Tail(pipe[t]) \in Seq(Replies) /\ Tail(pipe[t]) \o c[n].stolen \in Seq(Replies)
        /\ <<Head(pipe[t])>> \o c[n].stolen \in Seq(Replies)
    BY <1>0, <2>1, <2>2, PipeFacts
  <2>4. pipe' \in [Threads -> Seq(Replies)]
    BY <1>0, <1>2, <2>3 DEF ReadReply
  <2>5. client' \in [Threads -> Seq(ClientFrames)]
    <3>1. /\ [c EXCEPT ![n].stolen = <<Head(pipe[t])>> \o c[n].stolen] \in Seq(ClientFrames)
          /\ [c EXCEPT ![n].stolen = <<>>] \in Seq(ClientFrames) /\ [c EXCEPT ![n].stolen = <<>>] # <<>>
      <4>1. \A s \in Seq(Replies) : [c EXCEPT ![n].stolen = s] \in Seq(ClientFrames)
                                   /\ [c EXCEPT ![n].stolen = s] # <<>>
        BY <1>0, <2>1, StolenFacts
      <4> HIDE DEF c, n
      <4> QED
        BY <2>2, <2>3, <4>1
    <3>2. \A s : Returned([c EXCEPT ![n].stolen = <<>>], s) \in Seq(ClientFrames)
      BY <3>1, ReturnedFacts
    <3>3. \/ client' = client
          \/ client' = [client EXCEPT ![t] = Returned([c EXCEPT ![n].stolen = <<>>], Head(pipe[t]).r)]
          \/ client' = [client EXCEPT ![t] = [c EXCEPT ![n].stolen = <<Head(pipe[t])>> \o c[n].stolen]]
      BY <1>0, <1>2 DEF ReadReply
    <3>5. client' = client \/ \E q \in Seq(ClientFrames) : client' = [client EXCEPT ![t] = q]
      <4> HIDE DEF c, n
      <4>1. PICK q \in Seq(ClientFrames) : q = Returned([c EXCEPT ![n].stolen = <<>>], Head(pipe[t]).r)
        BY <3>2
      <4>2. PICK s \in Seq(ClientFrames) : s = [c EXCEPT ![n].stolen = <<Head(pipe[t])>> \o c[n].stolen]
        BY <3>1
      <4> QED
        BY <3>3, <4>1, <4>2
    <3> QED
      BY <1>0, <3>5
  <2>6. gone' \subseteq Threads
    BY <1>2 DEF ReadReply, TypeInv
  <2>7. ObjTypeOK'
    BY <1>0, <2>1, ObjFrame
  <2> QED
    BY <2>1, <2>4, <2>5, <2>6, <2>7 DEF TypeInv, objVars, waitVars, apcVars, timerVars
<1>3. ASSUME GetApc(t) PROVE TypeInv'
  <2>1. /\ c # <<>>
        /\ UNCHANGED <<objVars, waitVars, suspend, context, timerVars, stack, corrupt, pipe, gone, sig>>
    BY <1>3 DEF GetApc, ClientAt
  <2>2. ObjTypeOK'
    BY <1>0, <2>1, ObjFrame
  <2>3. Pop(c) \in Seq(ClientFrames) /\ [c EXCEPT ![n].at = "call"] \in Seq(ClientFrames)
    BY <1>0, <2>1, TopPop, PlaceFacts
  <2>4. client' \in [Threads -> Seq(ClientFrames)]
    <3>1. \/ client' = client \/ client' = [client EXCEPT ![t] = Pop(c)]
          \/ client' = [client EXCEPT ![t] = [c EXCEPT ![n].at = "call"]]
      BY <1>0, <1>3 DEF GetApc
    <3> HIDE DEF c, n
    <3> QED
      BY <1>0, <2>3, <3>1
  <2>5. system_apc' \in [Threads -> Seq({NoOwner})] /\ user_apc' \in [Threads -> Seq(Timers \cup {NoOwner})]
    <3>1. system_apc \in [Threads -> Seq({NoOwner})] /\ user_apc \in [Threads -> Seq(Timers \cup {NoOwner})]
      BY DEF TypeInv
    <3>2. /\ system_apc[t] # <<>> => Tail(system_apc[t]) \in Seq({NoOwner})
          /\ user_apc[t] # <<>> => Tail(user_apc[t]) \in Seq(Timers \cup {NoOwner})
      BY <3>1, HeadTailProperties
    <3>3. /\ system_apc' = system_apc
             \/ (system_apc[t] # <<>> /\ system_apc' = [system_apc EXCEPT ![t] = Tail(system_apc[t])])
          /\ user_apc' = user_apc
             \/ (user_apc[t] # <<>> /\ user_apc' = [user_apc EXCEPT ![t] = Tail(user_apc[t])])
      BY <1>3, <3>1 DEF GetApc, apcVars
    <3> QED
      BY <3>1, <3>2, <3>3
  <2> QED
    BY <2>1, <2>2, <2>4, <2>5 DEF TypeInv, objVars, waitVars, timerVars
<1>4. ASSUME LeaveSuspend(t) PROVE TypeInv'
  <2>1. /\ c # <<>> /\ context' \subseteq context /\ client' = [client EXCEPT ![t] = Pop(c)]
        /\ UNCHANGED <<objVars, waitVars, suspend, apcVars, timerVars, stack, corrupt, pipe, gone, sig>>
    BY <1>0, <1>4 DEF LeaveSuspend, ClientAt
  <2>2. client' \in [Threads -> Seq(ClientFrames)]
    BY <1>0, <2>1, TopPop
  <2>3. ObjTypeOK'
    BY <1>0, <2>1, ObjFrame
  <2> QED
    BY <2>1, <2>2, <2>3 DEF TypeInv, objVars, waitVars, apcVars, timerVars
<1>5. ASSUME ClientDies(t) PROVE TypeInv'
  <2>1. /\ gone' = gone \cup {t}
        /\ UNCHANGED <<objVars, waitVars, suspend, context, apcVars, timerVars, stack, corrupt, pipe, sig, client>>
    BY <1>5 DEF ClientDies
  <2>2. ObjTypeOK'
    BY <1>0, <2>1, ObjFrame
  <2> QED
    BY <2>1, <2>2 DEF TypeInv, objVars, waitVars, apcVars, timerVars
<1>6. ASSUME TakeSignal(t) PROVE TypeInv'
  <2>1. /\ sig' \subseteq sig /\ client' = [client EXCEPT ![t] = Append(c, HandlerFrame)]
        /\ UNCHANGED <<objVars, waitVars, suspend, context, apcVars, timerVars, stack, corrupt, pipe, gone>>
    BY <1>0, <1>6 DEF TakeSignal, HandlerFrame
  <2>2. client' \in [Threads -> Seq(ClientFrames)]
    BY <1>0, <2>1, HandlerFacts
  <2>3. ObjTypeOK'
    BY <1>0, <2>1, ObjFrame
  <2> QED
    BY <2>1, <2>2, <2>3 DEF TypeInv, objVars, waitVars, apcVars, timerVars
<1>7. ASSUME SetContext(t) PROVE TypeInv'
  <2>1. /\ c # <<>> /\ context' = context \cup {t} /\ client' = [client EXCEPT ![t] = [c EXCEPT ![n].at = "call"]]
        /\ UNCHANGED <<objVars, waitVars, suspend, apcVars, timerVars, stack, corrupt, pipe, gone, sig>>
    BY <1>0, <1>7 DEF SetContext, ClientAt
  <2>2. client' \in [Threads -> Seq(ClientFrames)]
    BY <1>0, <2>1, PlaceFacts
  <2>3. ObjTypeOK'
    BY <1>0, <2>1, ObjFrame
  <2> QED
    BY <2>1, <2>2, <2>3 DEF TypeInv, objVars, waitVars, apcVars, timerVars
<1> QED
  BY <1>1, <1>2, <1>3, <1>4, <1>5, <1>6, <1>7 DEF ClientActions

\* The requests of an application keep the types.
LEMMA SignalRequestTypes ==
  ASSUME TypeInv, load' = load, NEW t \in Threads, NEW o \in Objects
  PROVE  /\ \A n \in Nat \ {0} : SignalObject(t, o, n) => TypeInv'
         /\ PulseEvent(t, o) /\ o \in Events => TypeInv'
         /\ \A a \in WaitArgs : SelectSignal(t, o, a) => TypeInv'
<1>0. /\ queue \in [Objects -> Seq(Entries)] /\ waits \in [Threads -> Seq(WaitRecords)]
      /\ client \in [Threads -> Seq(ClientFrames)]
  BY DEF TypeInv
<1>1. ASSUME NEW n \in Nat \ {0}, SignalObject(t, o, n) PROVE TypeInv'
  <2>1. /\ ObjTypeOK' /\ dead' = dead /\ SignalCalls(o, n) \in Seq(ServerFrames(dead))
    BY <1>1, SignalTypes DEF SignalObject
  <2> QED
    BY <1>1, <2>1 DEF SignalObject, TypeInv, waitVars, apcVars, timerVars, clientVars
<1>2. ASSUME PulseEvent(t, o), o \in Events PROVE TypeInv'
  <2>0. CanSignal(t, o, 1) /\ Signal(o, 1)
    BY <1>2 DEF PulseEvent, CanSignal
  <2>1. /\ ObjTypeOK' /\ dead' = dead /\ SignalCalls(o, 1) \in Seq(ServerFrames(dead))
    BY <2>0, SignalTypes
  <2>2. stack' \in Seq(ServerFrames(dead))
    <3>1. Frame("reset", o, 0, End) \in ServerFrames(dead)
      BY <1>2, FrameTypes
    <3>2. <<Frame("reset", o, 0, End)>> \in Seq(ServerFrames(dead))
      BY <3>1
    <3>3. <<Frame("reset", o, 0, End)>> \o SignalCalls(o, 1) \in Seq(ServerFrames(dead))
      BY <2>1, <3>2, ConcatProperties
    <3> QED
      BY <1>2, <3>3 DEF PulseEvent
  <2> QED
    BY <1>2, <2>1, <2>2 DEF PulseEvent, TypeInv, waitVars, apcVars, timerVars, clientVars
<1>3. ASSUME NEW a \in WaitArgs, SelectSignal(t, o, a) PROVE TypeInv'
  <2>0. CanSignal(t, o, 1) /\ Signal(o, 1)
    BY <1>3 DEF SelectSignal
  <2>1. /\ ObjTypeOK' /\ dead' = dead /\ SignalCalls(o, 1) \in Seq(ServerFrames(dead))
    BY <2>0, SignalTypes
  <2>2. stack' \in Seq(ServerFrames(dead))
    <3>1. Frame("select", t, 0, End) \in ServerFrames(dead)
      BY FrameTypes
    <3>2. <<Frame("select", t, 0, End)>> \in Seq(ServerFrames(dead))
      BY <3>1
    <3>3. <<Frame("select", t, 0, End)>> \o SignalCalls(o, 1) \in Seq(ServerFrames(dead))
      BY <2>1, <3>2, ConcatProperties
    <3> QED
      BY <1>3, <3>3 DEF SelectSignal
  <2>3. queue' \in [Objects -> Seq(Entries)]
    <3>1. a.objs \in Seq(Objects)
      BY DEF WaitArgs
    <3>2. Queued(t, 1, a.objs) \in [Objects -> Seq(Entries)]
      BY <1>0, <3>1, QueuedFacts
    <3> QED
      BY <1>3, <3>2 DEF SelectSignal
  <2>4. waits' \in [Threads -> Seq(WaitRecords)]
    <3>1. NewWait(a) \in WaitRecords
      BY NewWaitTypes
    <3>2. <<NewWait(a)>> \in Seq(WaitRecords)
      BY <3>1
    <3> QED
      BY <1>0, <1>3, <3>2 DEF SelectSignal
  <2>5. client' \in [Threads -> Seq(ClientFrames)]
    <3>1. Call("wait", a) \in ClientFrames
      BY ClientFrameTypes
    <3>2. <<Call("wait", a)>> \in Seq(ClientFrames)
      BY <3>1
    <3> QED
      BY <1>0, <1>3, <3>2 DEF SelectSignal
  <2>6. UNCHANGED <<suspend, context, apcVars, timerVars, corrupt, pipe, gone, sig>>
    BY <1>3 DEF SelectSignal
  <2> QED
    BY <2>1, <2>2, <2>3, <2>4, <2>5, <2>6 DEF TypeInv, apcVars, timerVars
<1> QED
  BY <1>1, <1>2, <1>3

\* Queueing an APC keeps the types.
LEMMA ApcTypes ==
  ASSUME user_apc \in [Threads -> Seq(Timers \cup {NoOwner})], NEW u \in Threads, NEW o \in Timers \cup {NoOwner}
  PROVE  /\ user_apc[u] \in Seq(Timers \cup {NoOwner}) /\ Cancelled(user_apc[u], o) \in Seq(Timers \cup {NoOwner})
         /\ [user_apc EXCEPT ![u] = Cancelled(user_apc[u], o)] \in [Threads -> Seq(Timers \cup {NoOwner})]
         /\ Append(Cancelled(user_apc[u], o), o) \in Seq(Timers \cup {NoOwner})
         /\ [user_apc EXCEPT ![u] = Append(Cancelled(user_apc[u], o), o)]
              \in [Threads -> Seq(Timers \cup {NoOwner})]
         /\ \A q : QueueCalls(q, u, o) \in {<<>>, <<CallWakeThread(u)>>}
         /\ \A q : QueueCalls(q, u, o) \in Seq(ServerFrames(dead))
<1> DEFINE S == Timers \cup {NoOwner}
<1>1. user_apc[u] \in Seq(S) /\ o \in S
  OBVIOUS
<1>4. user_apc \in [Threads -> Seq(S)]
  OBVIOUS
<1> HIDE DEF S
<1>2. Cancelled(user_apc[u], o) \in Seq(S)
  BY <1>1, CancelledFacts
<1>3. Append(Cancelled(user_apc[u], o), o) \in Seq(S)
  BY <1>1, <1>2, AppendProperties
<1>7. /\ [user_apc EXCEPT ![u] = Cancelled(user_apc[u], o)] \in [Threads -> Seq(S)]
      /\ [user_apc EXCEPT ![u] = Append(Cancelled(user_apc[u], o), o)] \in [Threads -> Seq(S)]
  BY <1>2, <1>3, <1>4
<1>5. \A q : QueueCalls(q, u, o) \in {<<>>, <<CallWakeThread(u)>>}
  BY DEF QueueCalls
<1>6. \A q : QueueCalls(q, u, o) \in Seq(ServerFrames(dead))
  <2>1. CallWakeThread(u) \in ServerFrames(dead)
    BY FrameTypes
  <2>2. <<CallWakeThread(u)>> \in Seq(ServerFrames(dead))
    BY <2>1
  <2> QED
    BY <1>5, <2>2, EmptySeq
<1> QED
  BY <1>1, <1>2, <1>3, <1>5, <1>6, <1>7 DEF S

\* Every request of an application keeps the types.
LEMMA RequestTypes ==
  ASSUME TypeInv, load' = load, NEW t \in Threads, RequestActions(t)
  PROVE  TypeInv'
<1>0. /\ ObjTypeOK /\ stack \in Seq(ServerFrames(dead)) /\ client \in [Threads -> Seq(ClientFrames)]
      /\ user_apc \in [Threads -> Seq(Timers \cup {NoOwner})] /\ suspend \in [Threads -> 0..MaxSuspend]
      /\ system_apc \in [Threads -> Seq({NoOwner})] /\ MaxSuspend \in Nat
  BY ServerAssumption DEF TypeInv
<1>1. ASSUME NEW a \in WaitArgs, Select(t, a) PROVE TypeInv'
  <2>1. <<Call("wait", a)>> \in Seq(ClientFrames) /\ <<Call("wait", a)>> # <<>>
    <3>1. Call("wait", a) \in ClientFrames
      BY ClientFrameTypes
    <3> QED
      BY <3>1
  <2>2. /\ ObjTypeOK' /\ dead' = dead /\ queue' \in [Objects -> Seq(Entries)]
        /\ waits' \in [Threads -> Seq(WaitRecords)] /\ client' \in [Threads -> Seq(ClientFrames)]
    BY <1>1, <2>1, DoSelectTypes DEF Select
  <2> QED
    BY <1>1, <2>2 DEF Select, TypeInv, apcVars, timerVars
<1>2. ASSUME NEW e \in Events, PulseEvent(t, e) \/ ResetEvent(t, e) PROVE TypeInv'
  <2>1. ASSUME ResetEvent(t, e) PROVE TypeInv'
    BY <1>0, <2>1 DEF ResetEvent, TypeInv, ObjTypeOK, waitVars, apcVars, timerVars, clientVars
  <2> QED
    BY <1>2, <2>1, SignalRequestTypes DEF Objects
<1>3. ASSUME NEW r \in Timers, CancelTimer(t, r) \/ \E period, apc \in BOOLEAN : SetTimer(t, r, period, apc)
      PROVE  TypeInv'
  <2>0. apc_thread \in [Timers -> Threads \cup {NoThread}]
    BY DEF TypeInv
  <2>1. CancelApc(r) => user_apc' \in [Threads -> Seq(Timers \cup {NoOwner})]
    <3>1. apc_thread[r] # NoThread =>
            /\ apc_thread[r] \in Threads
            /\ [user_apc EXCEPT ![apc_thread[r]] = Cancelled(user_apc[apc_thread[r]], r)]
                 \in [Threads -> Seq(Timers \cup {NoOwner})]
      BY <1>0, <2>0, ApcTypes
    <3>2. CancelApc(r) =>
            user_apc' = IF apc_thread[r] = NoThread THEN user_apc
                        ELSE [user_apc EXCEPT ![apc_thread[r]] = Cancelled(user_apc[apc_thread[r]], r)]
      BY DEF CancelApc
    <3> QED
      BY <1>0, <3>1, <3>2
  <2>2. ASSUME CancelTimer(t, r) PROVE TypeInv'
    <3>1. /\ user_apc' \in [Threads -> Seq(Timers \cup {NoOwner})] /\ armed' \subseteq armed
          /\ apc_thread' \in [Timers -> Threads \cup {NoThread}]
          /\ UNCHANGED <<objVars, waitVars, suspend, context, system_apc, periodic, stack, corrupt, pipe, clientVars>>
      BY <2>0, <2>1, <2>2 DEF CancelTimer
    <3>2. ObjTypeOK'
      BY <1>0, <3>1, ObjFrame
    <3> QED
      BY <3>1, <3>2 DEF TypeInv, objVars, waitVars, clientVars
  <2>3. ASSUME NEW period \in BOOLEAN, NEW apc \in BOOLEAN, SetTimer(t, r, period, apc) PROVE TypeInv'
    <3>1. /\ user_apc' \in [Threads -> Seq(Timers \cup {NoOwner})] /\ armed' = armed \cup {r}
          /\ apc_thread' \in [Timers -> Threads \cup {NoThread}] /\ signaled' \subseteq signaled
          /\ periodic' \subseteq periodic \cup ({r} \ Manual)
          /\ UNCHANGED <<mcount, owner, abandoned, mutex_list, scount, dead, removed, waitVars, suspend, context,
                         system_apc, stack, corrupt, pipe, clientVars>>
      BY <2>0, <2>1, <2>3 DEF SetTimer
    <3>2. ObjTypeOK'
      BY <1>0, <3>1 DEF ObjTypeOK
    <3> QED
      BY <3>1, <3>2 DEF TypeInv, waitVars, clientVars
  <2> QED
    BY <1>3, <2>2, <2>3
<1>4. ASSUME ExitThread(t) PROVE TypeInv'
  <2>1. <<CallKill(t)>> \in Seq(ServerFrames(dead))
    <3>1. CallKill(t) \in ServerFrames(dead)
      BY FrameTypes
    <3> QED
      BY <3>1
  <2>2. /\ gone' = gone \cup {t} /\ stack' \in Seq(ServerFrames(dead))
        /\ UNCHANGED <<objVars, waitVars, suspend, context, apcVars, timerVars, corrupt, pipe, sig, client>>
    BY <1>4, <2>1 DEF ExitThread
  <2>3. ObjTypeOK'
    BY <1>0, <2>2, ObjFrame
  <2> QED
    BY <2>2, <2>3 DEF TypeInv, objVars, waitVars, apcVars, timerVars
<1>5. ASSUME NEW u \in Threads, TerminateThread(t, u) \/ SuspendThread(t, u) \/ ResumeThread(t, u)
      PROVE  TypeInv'
  <2>1. /\ <<CallKill(u)>> \in Seq(ServerFrames(dead)) /\ <<CallWakeThread(u)>> \in Seq(ServerFrames(dead))
        /\ <<>> \in Seq(ServerFrames(dead))
    <3>1. CallKill(u) \in ServerFrames(dead) /\ CallWakeThread(u) \in ServerFrames(dead)
      BY FrameTypes
    <3> QED
      BY <3>1, EmptySeq
  <2>2. /\ stack' \in Seq(ServerFrames(dead)) /\ sig' \subseteq sig \cup {u}
        /\ UNCHANGED <<objVars, waitVars, context, apcVars, timerVars, corrupt, pipe, gone, client>>
    BY <1>0, <1>5, <2>1 DEF TerminateThread, SuspendThread, ResumeThread, clientVars
  <2>3. suspend' \in [Threads -> 0..MaxSuspend]
    BY <1>0, <1>5 DEF TerminateThread, SuspendThread, ResumeThread
  <2>4. ObjTypeOK'
    BY <1>0, <2>2, ObjFrame
  <2> QED
    BY <2>2, <2>3, <2>4 DEF TypeInv, objVars, waitVars, apcVars, timerVars
<1>6. ASSUME NEW u \in Threads, NEW system \in BOOLEAN, QueueApc(t, u, system) PROVE TypeInv'
  <2>1. UNCHANGED <<objVars, waitVars, suspend, context, timerVars, corrupt, pipe, clientVars>>
    BY <1>6 DEF QueueApc
  <2>2. stack' \in Seq(ServerFrames(dead))
    BY <1>0, <1>6, ApcTypes DEF QueueApc
  <2>3. user_apc' \in [Threads -> Seq(Timers \cup {NoOwner})]
    <3>1. [user_apc EXCEPT ![u] = Append(Cancelled(user_apc[u], NoOwner), NoOwner)]
            \in [Threads -> Seq(Timers \cup {NoOwner})]
      BY <1>0, ApcTypes
    <3>2. user_apc' = user_apc \/ user_apc' = [user_apc EXCEPT ![u] = Append(Cancelled(user_apc[u], NoOwner), NoOwner)]
      BY <1>6 DEF QueueApc, QueueUserApc
    <3> QED
      BY <1>0, <3>1, <3>2
  <2>4. system_apc' \in [Threads -> Seq({NoOwner})]
    <3>1. Append(system_apc[u], NoOwner) \in Seq({NoOwner})
      BY <1>0, AppendProperties
    <3>2. system_apc' = system_apc \/ system_apc' = [system_apc EXCEPT ![u] = Append(system_apc[u], NoOwner)]
      BY <1>6 DEF QueueApc, QueueUserApc
    <3> QED
      BY <1>0, <3>1, <3>2
  <2>5. ObjTypeOK'
    BY <1>0, <2>1, ObjFrame
  <2> QED
    BY <2>1, <2>2, <2>3, <2>4, <2>5 DEF TypeInv, objVars, waitVars, timerVars, clientVars
<1> QED
  BY <1>1, <1>2, <1>3, <1>4, <1>5, <1>6, SignalRequestTypes DEF RequestActions

\* Timeouts, closed connections, expired timers and crashes keep the types.
LEMMA OtherTypes ==
  ASSUME TypeInv, load' = load, NEW t \in Threads, OtherActions(t)
  PROVE  TypeInv'
<1>0. /\ ObjTypeOK /\ stack \in Seq(ServerFrames(dead)) /\ waits \in [Threads -> Seq(WaitRecords)]
      /\ queue \in [Objects -> Seq(Entries)] /\ pipe \in [Threads -> Seq(Replies)]
  BY DEF TypeInv
<1>1. /\ <<CallKill(t)>> \in Seq(ServerFrames(dead)) /\ <<CallWakeThread(t)>> \in Seq(ServerFrames(dead))
  <2>1. CallKill(t) \in ServerFrames(dead) /\ CallWakeThread(t) \in ServerFrames(dead)
    BY FrameTypes
  <2> QED
    BY <2>1
<1>2. ASSUME PollHup(t) PROVE TypeInv'
  <2>1. /\ stack' \in Seq(ServerFrames(dead))
        /\ UNCHANGED <<objVars, waitVars, suspend, context, apcVars, timerVars, corrupt, pipe, clientVars>>
    BY <1>1, <1>2 DEF PollHup
  <2>2. ObjTypeOK'
    BY <1>0, <2>1, ObjFrame
  <2> QED
    BY <2>1, <2>2 DEF TypeInv, objVars, waitVars, apcVars, timerVars, clientVars
<1>3. ASSUME NEW l \in DOMAIN waits[t], TimePasses(t, l) \/ ThreadTimeout(t, l) PROVE TypeInv'
  <2>1. /\ UNCHANGED <<objVars, suspend, context, apcVars, timerVars, corrupt, clientVars>>
    BY <1>3 DEF TimePasses, ThreadTimeout
  <2>2. waits[t][l] \in WaitRecords /\ waits[t] \in Seq(WaitRecords) /\ l \in 1..Len(waits[t])
        /\ Len(waits[t]) \in Nat /\ waits[t][l].cookie \in Nat \cup {Junk}
    BY <1>0, WaitTypes
  <2>3. /\ [waits[t][l] EXCEPT !.user = FALSE] \in WaitRecords
        /\ [waits[t][l] EXCEPT !.when = "past"] \in WaitRecords
    BY <2>2 DEF WaitRecords
  <2>4. \A x \in WaitRecords : [waits EXCEPT ![t] = [waits[t] EXCEPT ![l] = x]] \in [Threads -> Seq(WaitRecords)]
    <3>1. \A x \in WaitRecords : [waits[t] EXCEPT ![l] = x] \in Seq(WaitRecords)
      BY <2>2, ExceptSeq
    <3> QED
      BY <1>0, <3>1
  <2>5. /\ queue' \in [Objects -> Seq(Entries)] /\ waits' \in [Threads -> Seq(WaitRecords)]
        /\ pipe' \in [Threads -> Seq(Replies)] /\ stack' \in Seq(ServerFrames(dead))
    <3>1. CASE /\ \/ waits' = [waits EXCEPT ![t] = [waits[t] EXCEPT ![l] = [waits[t][l] EXCEPT !.user = FALSE]]]
                  \/ waits' = [waits EXCEPT ![t] = [waits[t] EXCEPT ![l] = [waits[t][l] EXCEPT !.when = "past"]]]
               /\ UNCHANGED <<queue, stack, pipe>>
      BY <1>0, <2>3, <2>4, <3>1
    <3>2. CASE /\ EndWait(t)
               /\ pipe' = [pipe EXCEPT ![t] = Append(pipe[t], [cookie |-> waits[t][l].cookie, r |-> "timeout"])]
                  \/ UNCHANGED pipe
               /\ stack' \in {<<CallWakeThread(t)>>, <<CallKill(t)>>}
      <4>1. waits[t] # <<>>
        BY <2>2, NotEmpty
      <4>2. [pipe EXCEPT ![t] = Append(pipe[t], [cookie |-> waits[t][l].cookie, r |-> "timeout"])]
              \in [Threads -> Seq(Replies)]
        BY <1>0, <2>2, SendTypes
      <4> QED
        BY <1>0, <1>1, <3>2, <4>1, <4>2, EndWaitTypes
    <3> QED
      <4>1. waits \in [Threads -> Seq(WaitRecords)] /\ waits[t][l] \in WaitRecords
        BY <1>0, <2>2
      <4>2. TimePasses(t, l) =>
              /\ waits' = [waits EXCEPT ![t] = [waits[t] EXCEPT ![l] = [waits[t][l] EXCEPT !.when = "past"]]]
              /\ UNCHANGED <<queue, stack, pipe>>
        BY <1>0, <2>2 DEF TimePasses
      <4>3. ThreadTimeout(t, l) =>
              \/ /\ waits' = [waits EXCEPT ![t] = [waits[t] EXCEPT ![l] = [waits[t][l] EXCEPT !.user = FALSE]]]
                 /\ UNCHANGED <<queue, stack, pipe>>
              \/ /\ EndWait(t)
                 /\ pipe' = [pipe EXCEPT ![t] = Append(pipe[t], [cookie |-> waits[t][l].cookie, r |-> "timeout"])]
                    \/ UNCHANGED pipe
                 /\ stack' \in {<<CallWakeThread(t)>>, <<CallKill(t)>>}
        BY <1>0, <2>2 DEF ThreadTimeout
      <4> QED
        BY <1>3, <3>1, <3>2, <4>2, <4>3
  <2>6. ObjTypeOK'
    BY <1>0, <2>1, ObjFrame
  <2> QED
    BY <2>1, <2>5, <2>6 DEF TypeInv, objVars, apcVars, timerVars, clientVars
<1> QED
  BY <1>2, <1>3 DEF OtherActions

\* A timer that expires keeps the types.
LEMMA TimerExpiresTypes ==
  ASSUME TypeInv, load' = load, NEW r \in Timers, TimerExpires(r)
  PROVE  TypeInv'
<1>0. /\ ObjTypeOK /\ user_apc \in [Threads -> Seq(Timers \cup {NoOwner})]
      /\ apc_thread \in [Timers -> Threads \cup {NoThread}]
  BY DEF TypeInv
<1> DEFINE u == apc_thread[r]
<1>1. /\ UNCHANGED <<objVars, waitVars, suspend, context, armed, periodic, corrupt, pipe, clientVars>>
      /\ \/ /\ u \in Threads /\ QueueUserApc(u, r) /\ apc_thread' = apc_thread
            /\ stack' = <<Frame("expire", r, 0, End)>> \o QueueCalls(user_apc, u, r)
         \/ /\ apc_thread' = [apc_thread EXCEPT ![r] = NoThread]
            /\ stack' = <<Frame("expire", r, 0, End)>> /\ UNCHANGED apcVars
  BY DEF TimerExpires
<1>2. <<Frame("expire", r, 0, End)>> \in Seq(ServerFrames(dead))
  <2>1. Frame("expire", r, 0, End) \in ServerFrames(dead)
    BY FrameTypes
  <2> QED
    BY <2>1
<1>3. /\ stack' \in Seq(ServerFrames(dead)) /\ apc_thread' \in [Timers -> Threads \cup {NoThread}]
      /\ user_apc' \in [Threads -> Seq(Timers \cup {NoOwner})] /\ system_apc' = system_apc
  <2>1. CASE /\ u \in Threads /\ QueueUserApc(u, r) /\ apc_thread' = apc_thread
             /\ stack' = <<Frame("expire", r, 0, End)>> \o QueueCalls(user_apc, u, r)
    <3>1. /\ QueueCalls(user_apc, u, r) \in Seq(ServerFrames(dead))
          /\ [user_apc EXCEPT ![u] = Append(Cancelled(user_apc[u], r), r)] \in [Threads -> Seq(Timers \cup {NoOwner})]
      BY <1>0, <2>1, ApcTypes
    <3>2. <<Frame("expire", r, 0, End)>> \o QueueCalls(user_apc, u, r) \in Seq(ServerFrames(dead))
      BY <1>2, <3>1, ConcatProperties
    <3>3. user_apc' = [user_apc EXCEPT ![u] = Append(Cancelled(user_apc[u], r), r)] /\ system_apc' = system_apc
      BY <2>1 DEF QueueUserApc
    <3> QED
      BY <1>0, <2>1, <3>1, <3>2, <3>3
  <2>2. CASE /\ apc_thread' = [apc_thread EXCEPT ![r] = NoThread]
             /\ stack' = <<Frame("expire", r, 0, End)>> /\ UNCHANGED apcVars
    BY <1>0, <1>2, <2>2 DEF apcVars
  <2> QED
    BY <1>1, <2>1, <2>2
<1>4. ObjTypeOK'
  BY <1>0, <1>1, ObjFrame
<1> QED
  BY <1>1, <1>3, <1>4 DEF TypeInv, objVars, waitVars, clientVars

\* A process that dies keeps the types.
LEMMA CrashTypes ==
  ASSUME TypeInv, load' = load, NEW p \in Processes, Crash(p)
  PROVE  TypeInv'
<1>1. /\ gone' \subseteq Threads
      /\ UNCHANGED <<objVars, waitVars, suspend, context, apcVars, timerVars, stack, corrupt, pipe, sig, client>>
  BY DEF Crash, TypeInv
<1>2. ObjTypeOK'
  BY <1>1, ObjFrame DEF TypeInv
<1> QED
  BY <1>1, <1>2 DEF TypeInv, objVars, waitVars, apcVars, timerVars

\* Every step keeps the types.
LEMMA StepTypes ==
  ASSUME TypeInv, SelectInv, Next
  PROVE  TypeInv'
<1>1. load' = load
  BY NextActions
<1> QED
  BY <1>1, NextActions, ServerTypes, ClientTypes, RequestTypes, OtherTypes, TimerExpiresTypes, CrashTypes

\* The initial state has the types.
LEMMA InitTypes ==
  ASSUME Init
  PROVE  TypeInv /\ SelectInv
<1>1. ObjTypeOK
  BY ObjectAssumption DEF Init, ObjInit, ObjTypeOK
<1>2. \A S : <<>> \in Seq(S)
  BY EmptySeq
<1>3. 0 \in 0..MaxSuspend
  BY ServerAssumption
<1>4. TypeInv
  BY <1>1, <1>2, <1>3 DEF Init, TypeInv
<1>5. SelectInv
  BY DEF Init, SelectInv, Selecting
<1> QED
  BY <1>4, <1>5

-----------------------------------------------------------------------------
(***************************************************************************)
(* The server's stack.                                                     *)
(***************************************************************************)
\* What one step of the server does to its stack: frames are called on top, the innermost
\* one goes on, changes or returns, and the frames below stay, but for a wake_up that has
\* woken its last thread.
Changes == {<<"wake_thread", "wake_failed">>, <<"kill", "abandon">>, <<"abandon", "cleanup">>}
Callees == {"wake_up", "wake_thread", "kill"}
StackStep(new) ==
  /\ \A k \in DOMAIN new :
       \/ k \in DOMAIN stack /\ new[k].op = stack[k].op /\ new[k].x = stack[k].x
       \/ k = Len(stack) /\ new[k].x = Top(stack).x /\ <<Top(stack).op, new[k].op>> \in Changes
       \/ k >= Len(stack) /\ new[k].op \in Callees
  /\ \A k \in DOMAIN stack : k < Len(stack) =>
       stack[k].op = "wake_up" \/ (k \in DOMAIN new /\ new[k].op = stack[k].op /\ new[k].x = stack[k].x)

\* A call pushed on a stack, with or without popping the innermost frame: what is at each place.
LEMMA CallPlaces ==
  ASSUME NEW S, NEW q \in Seq(S), q # <<>>, NEW g \in S
  PROVE  /\ q \o <<g>> \in Seq(S) /\ DOMAIN (q \o <<g>>) = 1..(Len(q) + 1) /\ (q \o <<g>>)[Len(q) + 1] = g
         /\ \A k \in 1..Len(q) : (q \o <<g>>)[k] = q[k]
         /\ Pop(q) \o <<g>> \in Seq(S) /\ DOMAIN (Pop(q) \o <<g>>) = 1..Len(q) /\ (Pop(q) \o <<g>>)[Len(q)] = g
         /\ \A k \in 1..(Len(q) - 1) : (Pop(q) \o <<g>>)[k] = q[k]
<1>1. /\ q \o <<g>> \in Seq(S) /\ Len(q \o <<g>>) = Len(q) + 1 /\ (q \o <<g>>)[Len(q) + 1] = g
      /\ \A k \in 1..Len(q) : (q \o <<g>>)[k] = q[k]
  BY AppendOne
<1>2. PICK p \in Seq(S) :
        /\ p = Pop(q) /\ Len(p) + 1 = Len(q) /\ Len(p) = Len(q) - 1
        /\ \A k \in 1..(Len(q) - 1) : p[k] = q[k]
  BY TopPop
<1>3. /\ p \o <<g>> \in Seq(S) /\ Len(p \o <<g>>) = Len(p) + 1 /\ (p \o <<g>>)[Len(p) + 1] = g
      /\ \A k \in 1..Len(p) : (p \o <<g>>)[k] = p[k]
  BY AppendOne
<1>4. DOMAIN (q \o <<g>>) = 1..(Len(q) + 1) /\ DOMAIN (p \o <<g>>) = 1..Len(q)
  BY <1>1, <1>2, <1>3, LenProperties
<1> QED
  BY <1>1, <1>2, <1>3, <1>4

\* A stack whose innermost frame changes: what is at each place.
LEMMA ChangePlaces ==
  ASSUME NEW S, NEW q \in Seq(S), q # <<>>, NEW f \in S
  PROVE  /\ [q EXCEPT ![Len(q)] = f] \in Seq(S) /\ DOMAIN [q EXCEPT ![Len(q)] = f] = 1..Len(q)
         /\ [q EXCEPT ![Len(q)] = f][Len(q)] = f
         /\ \A k \in 1..(Len(q) - 1) : [q EXCEPT ![Len(q)] = f][k] = q[k]
<1> DEFINE r == [q EXCEPT ![Len(q)] = f]
<1>1. /\ r \in Seq(S) /\ Len(r) = Len(q) /\ r[Len(q)] = f /\ DOMAIN r = DOMAIN q
      /\ \A k \in DOMAIN q : r[k] = IF k = Len(q) THEN f ELSE q[k]
  BY ReplaceTop
<1>2. DOMAIN q = 1..Len(q) /\ Len(q) \in Nat \ {0}
  BY TopPop
<1> HIDE DEF r
<1>3. \A k \in 1..(Len(q) - 1) : k \in DOMAIN q /\ k # Len(q)
  <2>1. PICK n \in Nat \ {0} : n = Len(q)
    BY <1>2
  <2>2. \A k \in 1..(n - 1) : k \in 1..n /\ k # n
    OBVIOUS
  <2> QED
    BY <1>2, <2>1, <2>2
<1> QED
  BY <1>1, <1>2, <1>3 DEF r

\* A stack whose innermost frame changes and makes a call: what is at each place.
LEMMA ChangeCallPlaces ==
  ASSUME NEW S, NEW q \in Seq(S), q # <<>>, NEW f \in S, NEW g \in S
  PROVE  /\ Pop(q) \o <<f, g>> \in Seq(S)
         /\ DOMAIN (Pop(q) \o <<f, g>>) = 1..(Len(q) + 1)
         /\ (Pop(q) \o <<f, g>>)[Len(q)] = f /\ (Pop(q) \o <<f, g>>)[Len(q) + 1] = g
         /\ \A k \in 1..(Len(q) - 1) : (Pop(q) \o <<f, g>>)[k] = q[k]
<1>1. PICK n \in Nat \ {0} : n = Len(q)
  BY TopPop
<1>2. PICK p \in Seq(S) :
        /\ p = Pop(q) /\ Len(p) = n - 1 /\ \A k \in 1..(n - 1) : p[k] = q[k]
  BY <1>1, TopPop
<1>7. PICK a \in Seq(S) :
        /\ a = p \o <<f, g>> /\ Len(a) = n + 1 /\ a[n] = f /\ a[n + 1] = g
        /\ \A k \in 1..(n - 1) : a[k] = q[k]
  <2> DEFINE r == p \o <<f, g>>
  <2>1. /\ r \in Seq(S) /\ Len(r) = Len(p) + 2
        /\ \A k \in 1..Len(p) : r[k] = p[k]
        /\ r[Len(p) + 1] = f /\ r[Len(p) + 2] = g
    BY AppendTwo
  <2>2. Len(p) + 2 = n + 1 /\ Len(p) + 1 = n /\ Len(p) = n - 1
    BY <1>1, <1>2
  <2> HIDE DEF r
  <2>3. /\ r \in Seq(S) /\ Len(r) = n + 1 /\ r[n] = f /\ r[n + 1] = g
        /\ \A k \in 1..(n - 1) : r[k] = q[k]
    BY <1>2, <2>1, <2>2
  <2> QED
    BY <2>3 DEF r
<1>9. DOMAIN a = 1..(n + 1)
  BY <1>7, LenProperties
<1> QED
  BY <1>1, <1>2, <1>7, <1>9

\* To change the innermost frame is to pop it and to push the changed one.
LEMMA ChangeCall ==
  ASSUME NEW S, NEW q \in Seq(S), q # <<>>, NEW f \in S, NEW g \in S
  PROVE  Pop(q) \o <<f, g>> = [q EXCEPT ![Len(q)] = f] \o <<g>>
<1>1. PICK n \in Nat \ {0} : n = Len(q)
  BY TopPop
<1>2. PICK a \in Seq(S) :
        /\ a = Pop(q) \o <<f, g>> /\ Len(a) = n + 1 /\ a[n] = f /\ a[n + 1] = g
        /\ \A k \in 1..(n - 1) : a[k] = q[k]
  <2> DEFINE r == Pop(q) \o <<f, g>>
  <2>1. /\ r \in Seq(S) /\ DOMAIN r = 1..(Len(q) + 1) /\ r[Len(q)] = f /\ r[Len(q) + 1] = g
        /\ \A k \in 1..(Len(q) - 1) : r[k] = q[k]
    BY ChangeCallPlaces
  <2> HIDE DEF r
  <2>2. Len(r) = n + 1
    BY <1>1, <2>1, LenProperties
  <2> QED
    BY <1>1, <2>1, <2>2 DEF r
<1>3. PICK one \in Seq(S) :
        /\ one = [q EXCEPT ![n] = f] /\ Len(one) = n /\ DOMAIN one = 1..n /\ one[n] = f
        /\ \A k \in 1..(n - 1) : one[k] = q[k]
  <2> DEFINE r == [q EXCEPT ![Len(q)] = f]
  <2>1. Len(r) = Len(q) /\ r \in Seq(S)
    BY ReplaceTop
  <2>2. DOMAIN r = 1..Len(q) /\ r[Len(q)] = f /\ \A k \in 1..(Len(q) - 1) : r[k] = q[k]
    BY ChangePlaces
  <2>3. r = [q EXCEPT ![n] = f]
    BY <1>1
  <2> HIDE DEF r
  <2> QED
    BY <1>1, <2>1, <2>2, <2>3
<1>6. /\ Len(one \o <<g>>) = n + 1 /\ one \o <<g>> \in Seq(S)
      /\ (one \o <<g>>)[n] = f /\ (one \o <<g>>)[n + 1] = g
      /\ \A k \in 1..(n - 1) : (one \o <<g>>)[k] = q[k]
  <2>1. /\ Len(one \o <<g>>) = n + 1 /\ one \o <<g>> \in Seq(S) /\ (one \o <<g>>)[n + 1] = g
        /\ \A k \in 1..n : (one \o <<g>>)[k] = one[k]
    BY <1>3, AppendOne
  <2>2. n \in 1..n /\ \A k \in 1..(n - 1) : k \in 1..n
    BY <1>1
  <2> QED
    BY <1>3, <2>1, <2>2
<1>8. a = one \o <<g>>
  <2>2. PICK b \in Seq(S) :
          /\ b = one \o <<g>> /\ Len(b) = n + 1 /\ b[n] = f /\ b[n + 1] = g
          /\ \A k \in 1..(n - 1) : b[k] = q[k]
    BY <1>6
  <2>3. \A k \in 1..Len(a) : k \in 1..(n - 1) \/ k = n \/ k = n + 1
    BY <1>1, <1>2
  <2>4. \A k \in 1..Len(a) : a[k] = b[k]
    BY <1>2, <2>2, <2>3
  <2>6. Len(a) = Len(b)
    BY <1>2, <2>2
  <2>5. a = b
    BY <2>4, <2>6, SeqEqual
  <2> QED
    BY <2>2, <2>5
<1> QED
  BY <1>1, <1>2, <1>3, <1>8

\* Returning, calling and changing the innermost frame are steps of the stack.
LEMMA StackSteps ==
  ASSUME NEW S, stack \in Seq(S), stack # <<>>
  PROVE  /\ StackStep(stack) /\ StackStep(Pop(stack))
         /\ \A g \in S : g.op \in Callees => StackStep(stack \o <<g>>) /\ StackStep(Pop(stack) \o <<g>>)
         /\ \A f \in S : f.x = Top(stack).x /\ (f.op = Top(stack).op \/ <<Top(stack).op, f.op>> \in Changes)
              => /\ StackStep([stack EXCEPT ![Len(stack)] = f])
                 /\ \A g \in S : g.op \in Callees =>
                      /\ StackStep([stack EXCEPT ![Len(stack)] = f] \o <<g>>)
                      /\ StackStep(Pop(stack) \o <<f, g>>)
<1>1. PICK n \in Nat \ {0} :
        /\ n = Len(stack) /\ DOMAIN stack = 1..n /\ Top(stack) = stack[n]
        /\ DOMAIN Pop(stack) = 1..(n - 1) /\ \A k \in 1..(n - 1) : Pop(stack)[k] = stack[k]
  BY TopPop
<1>0. /\ \A k \in 1..n : k \in 1..(n - 1) \/ k = n
      /\ \A k \in 1..(n + 1) : k \in 1..n \/ k = n + 1
      /\ \A k \in 1..n : k < n => k \in 1..(n - 1)
      /\ \A k \in 1..(n - 1) : k \in 1..n /\ k \in 1..(n + 1)
      /\ n >= n /\ n + 1 >= n
  OBVIOUS
<1>2. StackStep(stack) /\ StackStep(Pop(stack))
  BY <1>0, <1>1 DEF StackStep
<1>3. ASSUME NEW g \in S, g.op \in Callees
      PROVE  StackStep(stack \o <<g>>) /\ StackStep(Pop(stack) \o <<g>>)
  <2>0. /\ DOMAIN (stack \o <<g>>) = 1..(n + 1) /\ (stack \o <<g>>)[n + 1] = g
        /\ \A k \in 1..n : (stack \o <<g>>)[k] = stack[k]
        /\ DOMAIN (Pop(stack) \o <<g>>) = 1..n /\ (Pop(stack) \o <<g>>)[n] = g
        /\ \A k \in 1..(n - 1) : (Pop(stack) \o <<g>>)[k] = stack[k]
    BY <1>1, CallPlaces
  <2>3. StackStep(stack \o <<g>>)
    BY <1>0, <1>1, <1>3, <2>0 DEF StackStep
  <2>4. StackStep(Pop(stack) \o <<g>>)
    BY <1>0, <1>1, <1>3, <2>0 DEF StackStep
  <2> QED
    BY <2>3, <2>4
<1>4. ASSUME NEW f \in S, f.x = Top(stack).x, f.op = Top(stack).op \/ <<Top(stack).op, f.op>> \in Changes
      PROVE  /\ StackStep([stack EXCEPT ![Len(stack)] = f])
             /\ \A g \in S : g.op \in Callees =>
                  /\ StackStep([stack EXCEPT ![Len(stack)] = f] \o <<g>>)
                  /\ StackStep(Pop(stack) \o <<f, g>>)
  <2>1. PICK a : a = [stack EXCEPT ![Len(stack)] = f]
    OBVIOUS
  <2>2. DOMAIN a = 1..Len(stack) /\ a[Len(stack)] = f /\ \A k \in 1..(Len(stack) - 1) : a[k] = stack[k]
    BY <2>1, ChangePlaces
  <2>3. StackStep(a)
    BY <1>0, <1>1, <1>4, <2>2 DEF StackStep
  <2>4. ASSUME NEW g \in S, g.op \in Callees PROVE StackStep(Pop(stack) \o <<f, g>>) /\ StackStep(a \o <<g>>)
    <3>1. PICK b : b = Pop(stack) \o <<f, g>>
      OBVIOUS
    <3>2. /\ DOMAIN (Pop(stack) \o <<f, g>>) = 1..(Len(stack) + 1)
          /\ (Pop(stack) \o <<f, g>>)[Len(stack)] = f /\ (Pop(stack) \o <<f, g>>)[Len(stack) + 1] = g
          /\ \A k \in 1..(Len(stack) - 1) : (Pop(stack) \o <<f, g>>)[k] = stack[k]
      BY ChangeCallPlaces
    <3>3. Pop(stack) \o <<f, g>> = [stack EXCEPT ![Len(stack)] = f] \o <<g>>
      BY ChangeCall
    <3>4. /\ DOMAIN b = 1..(Len(stack) + 1) /\ b[Len(stack)] = f /\ b[Len(stack) + 1] = g
          /\ \A k \in 1..(Len(stack) - 1) : b[k] = stack[k]
      BY <3>1, <3>2
    <3>5. StackStep(b)
      BY <1>0, <1>1, <1>4, <2>4, <3>4 DEF StackStep
    <3> QED
      BY <2>1, <3>1, <3>3, <3>5
  <2> QED
    BY <2>1, <2>3, <2>4
<1> QED
  BY <1>2, <1>3, <1>4

\* The stack when wake_thread returns: it is popped, and with it wake_up, or wake_up counts.
LEMMA AfterWakeStep ==
  ASSUME stack \in Seq(ServerFrames(dead)), stack # <<>>, NEW count \in Nat
  PROVE  StackStep(AfterWake(count))
<1> DEFINE S == ServerFrames(dead)
<1>1. PICK n \in Nat \ {0} :
        /\ n = Len(stack) /\ DOMAIN stack = 1..n /\ Top(stack) = stack[n]
        /\ DOMAIN Pop(stack) = 1..(n - 1) /\ \A k \in 1..(n - 1) : Pop(stack)[k] = stack[k]
        /\ Pop(stack) \in Seq(S) /\ Len(Pop(stack)) = n - 1
  BY TopPop
<1>2. CASE AfterWake(count) = Pop(stack)
  BY <1>2, StackSteps
<1>3. ASSUME Pop(stack) # <<>>, Top(Pop(stack)).op = "wake_up"
      PROVE  /\ n - 1 \in Nat \ {0} /\ stack[n - 1].op = "wake_up" /\ Top(Pop(stack)) = stack[n - 1]
             /\ \A k \in 1..(n - 1) : k < n - 1 => k \in 1..(n - 2)
             /\ \A k \in 1..n : k < n => k \in 1..(n - 1)
             /\ n - 1 \in 1..(n - 1) /\ \A k \in 1..(n - 2) : k \in 1..n /\ k \in 1..(n - 1)
  <2>1. Len(Pop(stack)) \in Nat \ {0} /\ Top(Pop(stack)) = Pop(stack)[Len(Pop(stack))]
    BY <1>1, <1>3, TopPop
  <2>2. n - 1 \in Nat \ {0} /\ n - 1 \in 1..(n - 1)
    BY <1>1, <2>1
  <2>3. Top(Pop(stack)) = stack[n - 1]
    BY <1>1, <2>1, <2>2
  <2>4. /\ \A k \in 1..(n - 1) : k < n - 1 => k \in 1..(n - 2)
        /\ \A k \in 1..n : k < n => k \in 1..(n - 1)
        /\ \A k \in 1..(n - 2) : k \in 1..n /\ k \in 1..(n - 1)
    OBVIOUS
  <2> QED
    BY <1>3, <2>2, <2>3, <2>4
<1>4. CASE Pop(stack) # <<>> /\ Top(Pop(stack)).op = "wake_up" /\ AfterWake(count) = Pop(Pop(stack))
  <2> DEFINE a == Pop(Pop(stack))
  <2>1. DOMAIN a = 1..(n - 2) /\ \A k \in 1..(n - 2) : a[k] = stack[k]
    <3>1. /\ DOMAIN a = 1..(Len(Pop(stack)) - 1)
          /\ \A k \in 1..(Len(Pop(stack)) - 1) : a[k] = Pop(stack)[k]
      BY <1>1, <1>4, TopPop
    <3>2. Len(Pop(stack)) - 1 = n - 2
      BY <1>1
    <3> HIDE DEF a
    <3> QED
      BY <1>1, <1>3, <1>4, <3>1, <3>2
  <2> HIDE DEF a
  <2>2. \A k \in 1..(n - 1) : k \in 1..(n - 2) \/ k = n - 1
    OBVIOUS
  <2>3. StackStep(a)
    BY <1>1, <1>3, <1>4, <2>1, <2>2 DEF StackStep
  <2> QED
    BY <1>4, <2>3 DEF a
<1>5. ASSUME Pop(stack) # <<>>, Top(Pop(stack)).op = "wake_up", NEW m \in Nat,
             AfterWake(count) = [Pop(stack) EXCEPT ![Len(Pop(stack))] = [Top(Pop(stack)) EXCEPT !.n = m]]
      PROVE  StackStep(AfterWake(count))
  <2>1. Top(Pop(stack)) \in S
    BY <1>1, <1>5, TopPop
  <2>2. PICK f \in S : f = [Top(Pop(stack)) EXCEPT !.n = m]
    BY <2>1, FrameTypes
  <2>3. f.op = "wake_up" /\ f.x = Top(Pop(stack)).x
    BY <1>5, <2>1, <2>2 DEF ServerFrames
  <2> DEFINE a == [Pop(stack) EXCEPT ![Len(Pop(stack))] = f]
  <2>4. DOMAIN a = 1..Len(Pop(stack)) /\ a[Len(Pop(stack))] = f
        /\ \A k \in 1..(Len(Pop(stack)) - 1) : a[k] = Pop(stack)[k]
    BY <1>1, <1>5, ChangePlaces
  <2> HIDE DEF a, S
  <2>5. DOMAIN a = 1..(n - 1) /\ a[n - 1] = f /\ \A k \in 1..(n - 2) : a[k] = stack[k]
    <3>1. Len(Pop(stack)) - 1 = n - 2
      BY <1>1
    <3> QED
      BY <1>1, <1>3, <1>5, <2>4, <3>1
  <2>6. \A k \in 1..(n - 1) : k \in 1..(n - 2) \/ k = n - 1
    OBVIOUS
  <2>7. StackStep(a)
    BY <1>1, <1>3, <1>5, <2>3, <2>5, <2>6 DEF StackStep
  <2> QED
    BY <1>5, <2>2, <2>7 DEF a
<1>6. \/ AfterWake(count) = Pop(stack)
      \/ Pop(stack) # <<>> /\ Top(Pop(stack)).op = "wake_up" /\ AfterWake(count) = Pop(Pop(stack))
      \/ \E m \in Nat : /\ Pop(stack) # <<>> /\ Top(Pop(stack)).op = "wake_up"
                       /\ AfterWake(count) = [Pop(stack) EXCEPT ![Len(Pop(stack))] = [Top(Pop(stack)) EXCEPT !.n = m]]
  BY AfterWakeFacts
<1> QED
  BY <1>2, <1>4, <1>5, <1>6

\* Every step of the server inside a request is such a step of its stack.
LEMMA ServerStack ==
  ASSUME TypeInv, ServerActions
  PROVE  stack # <<>> /\ StackStep(stack')
<1>1. stack # <<>> /\ stack \in Seq(ServerFrames(dead))
  BY DEF TypeInv, ServerActions, WakeUp, WakeThread, WakeThreadEnd, Kill, Abandon, Cleanup, PulseReset,
         SelectRest, TimerSignals
<1>2. /\ Top(stack) \in ServerFrames(dead) /\ \A f \in ServerFrames(dead) : f.n \in Nat
      /\ \A o \in Objects : CallWakeUp(o, 0) \in ServerFrames(dead)
      /\ \A t \in Threads : CallKill(t) \in ServerFrames(dead) /\ CallWakeThread(t) \in ServerFrames(dead)
      /\ \A o, c : CallWakeUp(o, c).op \in Callees
      /\ \A t : CallKill(t).op \in Callees /\ CallWakeThread(t).op \in Callees
  BY <1>1, StackTypes, FrameTypes DEF CallWakeUp, CallKill, CallWakeThread, Frame, Callees
<1>3. ASSUME PulseReset \/ SelectRest PROVE StackStep(stack')
  BY <1>1, <1>3, StackSteps DEF PulseReset, SelectRest
<1>4. ASSUME TimerSignals PROVE StackStep(stack')
  <2>1. /\ Top(stack).op = "expire" /\ stack' = Pop(stack) \o <<CallWakeUp(Top(stack).x, 0)>>
    BY <1>4 DEF TimerSignals
  <2>2. Top(stack).x \in Objects
    BY <1>2, <2>1, FrameTypes DEF Objects
  <2> QED
    BY <1>1, <1>2, <2>1, <2>2, StackSteps
<1>5. ASSUME WakeThreadEnd PROVE StackStep(stack')
  BY <1>1, <1>2, <1>5, AfterWakeStep DEF WakeThreadEnd
<1>6. ASSUME WakeUp PROVE StackStep(stack')
  <2> DEFINE f == Top(stack)
             q == queue[f.x]
             next(i) == IF i = Len(q) THEN End ELSE q[i + 1]
  <2>1. /\ f.op = "wake_up"
        /\ \/ stack' \in {stack, Pop(stack)}
           \/ \E i \in DOMAIN q :
                stack' = Pop(stack) \o <<[f EXCEPT !.next = next(i)], CallWakeThread(q[i].thread)>>
    BY <1>6 DEF WakeUp
  <2>2. f.x \in Objects /\ \A c \in Entries \cup {End} : [f EXCEPT !.next = c] \in ServerFrames(dead)
    BY <1>2, <2>1, FrameTypes
  <2>3. q \in Seq(Entries)
    BY <2>2 DEF TypeInv
  <2>4. ASSUME NEW i \in DOMAIN q, stack' = Pop(stack) \o <<[f EXCEPT !.next = next(i)], CallWakeThread(q[i].thread)>>
        PROVE  StackStep(stack')
    <3>1. q[i] \in Entries /\ (i # Len(q) => q[i + 1] \in Entries)
      BY <2>3
    <3>2. q[i].thread \in Threads /\ next(i) \in Entries \cup {End}
      BY <3>1 DEF Entries
    <3>3. PICK g \in ServerFrames(dead) : g = CallWakeThread(q[i].thread) /\ g.op \in Callees
      BY <1>2, <3>2
    <3>4. PICK h \in ServerFrames(dead) : h = [f EXCEPT !.next = next(i)]
      BY <2>2, <3>2
    <3>5. h.op = f.op /\ h.x = f.x
      BY <1>2, <2>1, <3>4 DEF ServerFrames
    <3>6. stack' = Pop(stack) \o <<h, g>>
      BY <2>4, <3>3, <3>4
    <3> QED
      BY <1>1, <3>3, <3>5, <3>6, StackSteps
  <2>5. CASE stack' \in {stack, Pop(stack)}
    BY <1>1, <2>5, StackSteps
  <2> HIDE DEF f, q, next
  <2> QED
    BY <2>1, <2>4, <2>5
<1>7. ASSUME WakeThread PROVE StackStep(stack')
  <2>1. /\ Top(stack).op = "wake_thread"
        /\ \/ stack' = [stack EXCEPT ![Len(stack)].n = Top(stack).n + 1]
           \/ stack' = [stack EXCEPT ![Len(stack)].op = "wake_failed"] \o <<CallKill(Top(stack).x)>>
    BY <1>7 DEF WakeThread, Top
  <2>2. Top(stack).x \in Threads
    BY <1>2, <2>1, FrameTypes DEF ThreadOps
  <2>3. PICK f \in ServerFrames(dead) : f = [Top(stack) EXCEPT !.n = Top(stack).n + 1]
    <3>1. Top(stack).n + 1 \in Nat
      BY <1>2
    <3> QED
      BY <1>2, <3>1, FrameTypes
  <2>4. PICK g \in ServerFrames(dead) : g = [Top(stack) EXCEPT !.op = "wake_failed"]
    BY <1>2, <2>1, FrameTypes DEF ThreadOps
  <2>5. /\ f.op = Top(stack).op /\ f.x = Top(stack).x /\ g.x = Top(stack).x /\ <<Top(stack).op, g.op>> \in Changes
    BY <1>2, <2>1, <2>3, <2>4 DEF ServerFrames, Changes
  <2>6. /\ [stack EXCEPT ![Len(stack)].n = Top(stack).n + 1] = [stack EXCEPT ![Len(stack)] = f]
        /\ [stack EXCEPT ![Len(stack)].op = "wake_failed"] = [stack EXCEPT ![Len(stack)] = g]
    BY <2>3, <2>4 DEF Top
  <2>7. StackStep([stack EXCEPT ![Len(stack)] = f])
    BY <1>1, <2>5, StackSteps
  <2>8. StackStep([stack EXCEPT ![Len(stack)] = g] \o <<CallKill(Top(stack).x)>>)
    BY <1>1, <1>2, <2>2, <2>5, StackSteps
  <2> QED
    BY <2>1, <2>6, <2>7, <2>8
<1>8. ASSUME Kill PROVE StackStep(stack')
  <2>1. /\ Top(stack).op = "kill"
        /\ \/ stack' = Pop(stack)
           \/ stack' = [stack EXCEPT ![Len(stack)].op = "abandon"] \o <<>>
           \/ stack' = [stack EXCEPT ![Len(stack)].op = "abandon"] \o <<CallKill(Top(stack).x)>>
    BY <1>8 DEF Kill
  <2> DEFINE S == ServerFrames(Threads)
  <2>2. stack \in Seq(S) /\ Top(stack).x \in Threads
    <3>1. dead \subseteq Threads
      BY DEF TypeInv, ObjTypeOK
    <3> QED
      BY <1>1, <1>2, <2>1, <3>1, FramesStay, FrameTypes DEF ThreadOps
  <2>3. Top(stack) \in S /\ CallKill(Top(stack).x) \in S
    BY <1>1, <2>2, TopPop, FrameTypes
  <2>4. PICK g \in S : g = [Top(stack) EXCEPT !.op = "abandon"]
    BY <2>1, <2>2, <2>3, FrameTypes DEF ThreadOps
  <2>5. g.x = Top(stack).x /\ <<Top(stack).op, g.op>> \in Changes
    BY <2>1, <2>3, <2>4 DEF ServerFrames, Changes
  <2>6. [stack EXCEPT ![Len(stack)].op = "abandon"] = [stack EXCEPT ![Len(stack)] = g]
    BY <2>4 DEF Top
  <2> HIDE DEF S
  <2>7. /\ StackStep([stack EXCEPT ![Len(stack)] = g])
        /\ StackStep([stack EXCEPT ![Len(stack)] = g] \o <<CallKill(Top(stack).x)>>) /\ StackStep(Pop(stack))
    BY <1>1, <1>2, <2>2, <2>3, <2>5, StackSteps
  <2>8. [stack EXCEPT ![Len(stack)] = g] \o <<>> = [stack EXCEPT ![Len(stack)] = g]
    BY <1>1, <2>2, ReplaceTop, ConcatEmptySeq
  <2> QED
    BY <2>1, <2>6, <2>7, <2>8
<1>9. ASSUME Abandon PROVE StackStep(stack')
  <2>1. /\ Top(stack).op = "abandon"
        /\ \/ \E m \in mutex_list[Top(stack).x] : stack' = stack \o <<CallWakeUp(m, 0)>>
           \/ stack' = [stack EXCEPT ![Len(stack)].op = "cleanup"] \o <<CallWakeUp(Top(stack).x, 0)>>
    BY <1>9 DEF Abandon
  <2>2. Top(stack).x \in Threads /\ Top(stack).x \in dead
    BY <1>2, <2>1, FrameTypes DEF ThreadOps
  <2>3. Top(stack).x \in Objects /\ \A m \in mutex_list[Top(stack).x] : m \in Objects
    BY <2>2 DEF TypeInv, ObjTypeOK, Objects
  <2>4. PICK g \in ServerFrames(dead) : g = [Top(stack) EXCEPT !.op = "cleanup"]
    BY <1>2, <2>1, <2>2, FrameTypes DEF ThreadOps
  <2>5. g.x = Top(stack).x /\ <<Top(stack).op, g.op>> \in Changes
    BY <1>2, <2>1, <2>4 DEF ServerFrames, Changes
  <2>6. [stack EXCEPT ![Len(stack)].op = "cleanup"] = [stack EXCEPT ![Len(stack)] = g]
    BY <2>4 DEF Top
  <2>7. \A o \in Objects : /\ StackStep(stack \o <<CallWakeUp(o, 0)>>)
                           /\ StackStep([stack EXCEPT ![Len(stack)] = g] \o <<CallWakeUp(o, 0)>>)
    BY <1>1, <1>2, <2>5, StackSteps
  <2> QED
    BY <2>1, <2>3, <2>6, <2>7
<1>10. ASSUME Cleanup PROVE StackStep(stack')
  <2>1. /\ Top(stack).op = "cleanup"
        /\ \/ stack' = Pop(stack) \o <<>>
           \/ stack' = Pop(stack) \o <<CallWakeUp(ProcessOf[Top(stack).x], 0)>>
    BY <1>10 DEF Cleanup
  <2>2. Top(stack).x \in Threads
    BY <1>2, <2>1, FrameTypes DEF ThreadOps
  <2>3. ProcessOf[Top(stack).x] \in Objects
    BY <2>2, ObjectAssumption DEF Objects
  <2>4. Pop(stack) \o <<>> = Pop(stack)
    BY <1>1, TopPop, ConcatEmptySeq
  <2> QED
    BY <1>1, <1>2, <2>1, <2>3, <2>4, StackSteps
<1> QED
  BY <1>1, <1>3, <1>4, <1>5, <1>6, <1>7, <1>8, <1>9, <1>10 DEF ServerActions

\* While the request select goes on, its client does nothing and its wait can only end.
LEMMA SelectStays ==
  ASSUME SelectInv, StackStep(stack'), stack # <<>>, NEW S, stack' \in Seq(S), client' = client,
         \A t \in Threads : Selecting(t) => waits'[t] \in {waits[t], <<>>}
  PROVE  SelectInv'
<1>1. \A k \in DOMAIN stack' : stack'[k].op = "select" =>
        k \in DOMAIN stack /\ stack[k].op = "select" /\ stack'[k].x = stack[k].x
  BY DEF StackStep, Changes, Callees
<1>2. \A k \in DOMAIN stack' : stack'[k].op = "select" => k = 1
  BY <1>1 DEF SelectInv
<1>3. ASSUME NEW t \in Threads, Selecting(t)'
      PROVE  Selecting(t)
  <2>1. 1 \in DOMAIN stack'
    BY <1>3, TopPop DEF Selecting
  <2> QED
    BY <1>1, <1>3, <2>1 DEF Selecting
<1>4. Len(<<>>) <= 1
  BY EmptySeq
<1>5. ASSUME NEW t \in Threads, Selecting(t)'
      PROVE  /\ Len(client'[t]) = 1 /\ client'[t][1].kind = "wait" /\ client'[t][1].at = "call"
             /\ Len(waits'[t]) <= 1
             /\ waits'[t] # <<>> => waits'[t][1].cookie = Junk /\ waits'[t][1].objs = client'[t][1].args.objs
  <2>1. Selecting(t) /\ waits'[t] \in {waits[t], <<>>}
    BY <1>3, <1>5
  <2> QED
    BY <1>4, <2>1 DEF SelectInv
<1> QED
  BY <1>2, <1>5 DEF SelectInv

\* No request select goes on.
LEMMA SelectNone ==
  ASSUME \A k \in DOMAIN stack' : stack'[k].op # "select",
         stack' = <<>> \/ 1 \in DOMAIN stack'
  PROVE  SelectInv'
BY DEF SelectInv, Selecting

\* The steps of the server keep what is known of a request select that goes on.
LEMMA ServerSelect ==
  ASSUME TypeInv, TypeInv', SelectInv, ServerActions
  PROVE  SelectInv'
<1>0. /\ stack \in Seq(ServerFrames(dead)) /\ stack' \in Seq(ServerFrames(dead'))
      /\ waits \in [Threads -> Seq(WaitRecords)]
  BY DEF TypeInv
<1>1. stack # <<>> /\ StackStep(stack')
  BY ServerStack
<1>2. CASE ~SelectRest
  <2>1. ASSUME NEW t \in Threads, Selecting(t) PROVE waits'[t] \in {waits[t], <<>>}
    <3>1. CASE UNCHANGED waits
      BY <3>1
    <3>2. CASE WakeThread
      <4> DEFINE u == Top(stack).x
      <4>1. EndWait(u) /\ waits[u] # <<>>
        BY <3>2 DEF WakeThread, Wakeable
      <4>2. CASE u # t
        BY <1>0, <4>1, <4>2 DEF EndWait
      <4>3. CASE u = t
        <5>1. waits[t] \in Seq(WaitRecords) /\ Len(waits[t]) \in Nat \ {0} /\ Len(waits[t]) <= 1
          BY <1>0, <2>1, <4>1, <4>3, TopPop DEF SelectInv
        <5>2. Pop(waits[t]) = <<>>
          <6>1. Pop(waits[t]) \in Seq(WaitRecords) /\ Len(Pop(waits[t])) = Len(waits[t]) - 1
            BY <4>1, <4>3, <5>1, TopPop
          <6> QED
            BY <5>1, <6>1, NotEmpty
        <5> QED
          BY <1>0, <4>1, <4>3, <5>2 DEF EndWait
      <4> QED
        BY <4>2, <4>3
    <3>3. CASE Kill
      BY <1>0, <3>3 DEF Kill, waitVars
    <3> QED
      BY <1>2, <3>1, <3>2, <3>3 DEF ServerActions, WakeUp, WakeThreadEnd, Abandon, Cleanup, PulseReset,
                                    TimerSignals, waitVars
  <2>2. client' = client
    BY <1>2 DEF ServerActions, WakeUp, WakeThread, WakeThreadEnd, Kill, Abandon, Cleanup, PulseReset,
                TimerSignals, clientVars
  <2> QED
    BY <1>0, <1>1, <2>1, <2>2, SelectStays
<1>3. CASE SelectRest
  <2>1. Len(stack) \in DOMAIN stack /\ stack[Len(stack)].op = "select" /\ stack' = Pop(stack)
        /\ Len(Pop(stack)) = Len(stack) - 1
    BY <1>0, <1>1, <1>3, TopPop DEF SelectRest
  <2>2. Len(stack) = 1
    BY <2>1 DEF SelectInv
  <2>3. Len(stack') = 0 /\ stack' = <<>>
    BY <1>0, <2>1, <2>2, NotEmpty
  <2> QED
    BY <2>3, EmptySeq, SelectNone
<1> QED
  BY <1>2, <1>3

\* One element after another.
LEMMA PairSeq ==
  ASSUME NEW f, NEW g
  PROVE  <<f>> \o <<>> = <<f>> /\ <<f>> \o <<g>> = <<f, g>>
<1> DEFINE S == {f, g}
<1>0. <<f>> \in Seq(S) /\ <<f, g>> \in Seq(S) /\ f \in S /\ g \in S
  OBVIOUS
<1>1. <<f>> \o <<>> = <<f>> /\ <<f>> \o <<g>> = <<f, g>>
  <2> HIDE DEF S
  <2>1. PICK q \in Seq(S) : q = <<f>> \o <<g>> /\ Len(q) = 2 /\ q[1] = f /\ q[2] = g
    <3>1. PICK one \in Seq(S) : one = <<f>> /\ Len(one) = 1 /\ one[1] = f
      BY <1>0
    <3>2. /\ one \o <<g>> \in Seq(S) /\ Len(one \o <<g>>) = Len(one) + 1
          /\ \A i \in 1..Len(one) : (one \o <<g>>)[i] = one[i]
          /\ (one \o <<g>>)[Len(one) + 1] = g
      BY <1>0, AppendOne
    <3> DEFINE r == one \o <<g>>
    <3>4. r \in Seq(S) /\ Len(r) = Len(one) + 1 /\ (\A i \in 1..Len(one) : r[i] = one[i]) /\ r[Len(one) + 1] = g
      BY <3>2
    <3>5. r = <<f>> \o <<g>>
      BY <3>1
    <3>6. 1 + 1 = 2 /\ 1 \in 1..1
      OBVIOUS
    <3> HIDE DEF r
    <3>3. Len(r) = 2 /\ r[1] = f /\ r[2] = g
      BY <3>1, <3>4, <3>6
    <3> QED
      BY <3>3, <3>4, <3>5
  <2>2. PICK p \in Seq(S) : p = <<f, g>> /\ Len(p) = 2 /\ p[1] = f /\ p[2] = g
    BY <1>0
  <2>3. p = q
    <3>1. Len(p) = Len(q) /\ \A i \in 1..Len(p) : p[i] = q[i]
      <4>1. \A i \in 1..2 : i = 1 \/ i = 2
        OBVIOUS
      <4> QED
        BY <2>1, <2>2, <4>1
    <3> QED
      BY <3>1, SeqEqual
  <2> QED
    BY <1>0, <2>1, <2>2, <2>3, ConcatEmptySeq
<1> QED
  BY <1>1

\* The stack has at most two frames, none of them of the request select.
CallsOnly(q) ==
  \/ q = <<>>
  \/ \E f : q = <<f>> /\ f.op # "select"
  \/ \E f, g : q = <<f, g>> /\ f.op # "select" /\ g.op # "select"

\* After a step to such a stack nothing is left to prove of the request select.
LEMMA CallsOnlySelect ==
  ASSUME CallsOnly(stack')
  PROVE  SelectInv'
<1>1. \A k \in DOMAIN stack' : stack'[k].op # "select"
  <2>1. CASE stack' = <<>>
    BY <2>1
  <2>2. ASSUME NEW f, stack' = <<f>>, f.op # "select" PROVE \A k \in DOMAIN stack' : stack'[k].op # "select"
    BY <2>2
  <2>3. ASSUME NEW f, NEW g, stack' = <<f, g>>, f.op # "select", g.op # "select"
        PROVE  \A k \in DOMAIN stack' : stack'[k].op # "select"
    BY <2>3
  <2> QED
    BY <2>1, <2>2, <2>3 DEF CallsOnly
<1>2. stack' = <<>> \/ 1 \in DOMAIN stack'
  BY DEF CallsOnly
<1> QED
  BY <1>1, <1>2, SelectNone

\* The calls that requests make: none is of the request select, but for that request itself.
LEMMA CallsOnlyFacts ==
  /\ CallsOnly(<<>>)
  /\ \A x, n : CallsOnly(<<CallWakeUp(x, n)>>) /\ CallsOnly(<<CallWakeThread(x)>>) /\ CallsOnly(<<CallKill(x)>>)
  /\ \A o, n : CallsOnly(SignalCalls(o, n)) /\ CallsOnly(<<Frame("reset", o, 0, End)>> \o SignalCalls(o, n))
  /\ \A q, u, o : CallsOnly(QueueCalls(q, u, o)) /\ CallsOnly(<<Frame("expire", o, 0, End)>> \o QueueCalls(q, u, o))
  /\ \A o : CallsOnly(<<Frame("expire", o, 0, End)>>)
<1>1. /\ CallsOnly(<<>>)
      /\ \A x, n : CallsOnly(<<CallWakeUp(x, n)>>) /\ CallsOnly(<<CallWakeThread(x)>>) /\ CallsOnly(<<CallKill(x)>>)
      /\ \A o : CallsOnly(<<Frame("expire", o, 0, End)>>)
  <2>1. CallsOnly(<<>>) /\ \A f : f.op # "select" => CallsOnly(<<f>>)
    BY DEF CallsOnly
  <2>2. \A x, n : CallWakeUp(x, n).op # "select" /\ CallWakeThread(x).op # "select" /\ CallKill(x).op # "select"
    BY DEF CallWakeUp, CallWakeThread, CallKill, Frame
  <2>3. \A o : Frame("expire", o, 0, End).op # "select"
    BY DEF Frame
  <2> QED
    BY <2>1, <2>2, <2>3
<1>2. /\ \A o, n : SignalCalls(o, n) = <<>> \/ \E k : SignalCalls(o, n) = <<CallWakeUp(o, k)>>
      /\ \A q, u, o : QueueCalls(q, u, o) = <<>> \/ QueueCalls(q, u, o) = <<CallWakeThread(u)>>
  BY DEF SignalCalls, QueueCalls
<1>3. \A f, g : f.op # "select" /\ g.op # "select" =>
        /\ <<f>> \o <<>> = <<f>> /\ <<f>> \o <<g>> = <<f, g>>
        /\ CallsOnly(<<f>> \o <<>>) /\ CallsOnly(<<f>> \o <<g>>)
  <2> SUFFICES ASSUME NEW f, NEW g, f.op # "select", g.op # "select"
               PROVE  /\ <<f>> \o <<>> = <<f>> /\ <<f>> \o <<g>> = <<f, g>>
                      /\ CallsOnly(<<f>> \o <<>>) /\ CallsOnly(<<f>> \o <<g>>)
    OBVIOUS
  <2>1. <<f>> \o <<>> = <<f>> /\ <<f>> \o <<g>> = <<f, g>>
    BY PairSeq
  <2> QED
    BY <2>1 DEF CallsOnly
<1>5. /\ \A f : f.op # "select" => CallsOnly(<<f>> \o <<>>)
      /\ \A f, g : f.op # "select" /\ g.op # "select" => CallsOnly(<<f>> \o <<g>>)
  BY <1>3
<1>4. /\ \A o, k : Frame("reset", o, 0, End).op # "select" /\ Frame("expire", o, 0, End).op # "select"
      /\ \A o, k : CallWakeUp(o, k).op # "select" /\ CallWakeThread(o).op # "select"
  BY DEF CallWakeUp, CallWakeThread, Frame
<1>6. ASSUME NEW o, NEW n
      PROVE  CallsOnly(SignalCalls(o, n)) /\ CallsOnly(<<Frame("reset", o, 0, End)>> \o SignalCalls(o, n))
  <2> DEFINE f == Frame("reset", o, 0, End)
  <2>1. f.op # "select" /\ \A k : CallWakeUp(o, k).op # "select"
    BY <1>4
  <2>2. CallsOnly(<<f>> \o <<>>) /\ \A k : CallsOnly(<<f>> \o <<CallWakeUp(o, k)>>)
    <3> HIDE DEF f
    <3> QED
      BY <1>5, <2>1
  <2> QED
    BY <1>1, <1>2, <2>2
<1>7. ASSUME NEW q, NEW u, NEW o
      PROVE  CallsOnly(QueueCalls(q, u, o)) /\ CallsOnly(<<Frame("expire", o, 0, End)>> \o QueueCalls(q, u, o))
  <2> DEFINE f == Frame("expire", o, 0, End)
  <2>1. f.op # "select" /\ CallWakeThread(u).op # "select"
    BY <1>4
  <2>2. CallsOnly(<<f>> \o <<>>) /\ CallsOnly(<<f>> \o <<CallWakeThread(u)>>)
    <3> HIDE DEF f
    <3> QED
      BY <1>5, <2>1
  <2> QED
    BY <1>1, <1>2, <2>2
<1> QED
  BY <1>1, <1>6, <1>7

\* The request select itself, until it has signaled the object.
LEMMA SelectSignalSelect ==
  ASSUME TypeInv, TypeInv', NEW t \in Threads, NEW o \in Objects, NEW a \in WaitArgs, SelectSignal(t, o, a)
  PROVE  SelectInv'
<1> DEFINE f == Frame("select", t, 0, End)
<1>1. f.op = "select" /\ f.x = t
  BY DEF Frame
<1>2. SignalCalls(o, 1) = <<>> \/ \E k : SignalCalls(o, 1) = <<CallWakeUp(o, k)>>
  BY DEF SignalCalls
<1>3. \A k : CallWakeUp(o, k).op # "select"
  BY DEF CallWakeUp, Frame
<1>4. stack' = <<f>> \o SignalCalls(o, 1) /\ stack' \in Seq(ServerFrames(dead'))
  BY DEF SelectSignal, TypeInv
<1>5. stack'[1] = f /\ \A k \in DOMAIN stack' : stack'[k].op = "select" => k = 1
  <2>1. CASE stack' = <<f>> \o <<>>
    <3>1. <<f>> \in Seq({f})
      OBVIOUS
    <3>2. stack' = <<f>>
      BY <2>1, <3>1, ConcatEmptySeq
    <3> HIDE DEF f
    <3> QED
      BY <3>2
  <2>2. ASSUME NEW k, stack' = <<f>> \o <<CallWakeUp(o, k)>>
        PROVE  stack'[1] = f /\ \A i \in DOMAIN stack' : stack'[i].op = "select" => i = 1
    <3>1. stack' = <<f, CallWakeUp(o, k)>>
      BY <2>2, PairSeq
    <3>2. CallWakeUp(o, k).op # "select"
      BY <1>3
    <3> HIDE DEF f
    <3> QED
      BY <3>1, <3>2
  <2> HIDE DEF f
  <2> QED
    BY <1>2, <1>4, <2>1, <2>2
<1>6. client'[t] = <<Call("wait", a)>> /\ waits'[t] = <<NewWait(a)>>
  BY DEF SelectSignal, TypeInv
<1>7. Call("wait", a).kind = "wait" /\ Call("wait", a).at = "call" /\ Call("wait", a).args = a
  BY DEF Call
<1>8. NewWait(a).cookie = Junk /\ NewWait(a).objs = a.objs
  BY NewWaitTypes
<1>9. /\ Len(client'[t]) = 1 /\ client'[t][1].kind = "wait" /\ client'[t][1].at = "call"
      /\ Len(waits'[t]) <= 1
      /\ waits'[t][1].cookie = Junk /\ waits'[t][1].objs = client'[t][1].args.objs
  BY <1>6, <1>7, <1>8
<1> QED
  BY <1>1, <1>5, <1>9 DEF SelectInv, Selecting

\* No other request leaves a frame of the request select.
LEMMA RequestSelect ==
  ASSUME TypeInv, TypeInv', NEW t \in Threads, RequestActions(t)
  PROVE  SelectInv'
<1>1. CASE \E o \in Objects, a \in WaitArgs : SelectSignal(t, o, a)
  BY <1>1, SelectSignalSelect
<1>2. CASE \E o \in Objects, n \in Nat \ {0} : SignalObject(t, o, n)
  BY <1>2, CallsOnlyFacts, CallsOnlySelect DEF SignalObject
<1>3. CASE \E e \in Events : PulseEvent(t, e)
  BY <1>3, CallsOnlyFacts, CallsOnlySelect DEF PulseEvent
<1>4. CASE \E u \in Threads : TerminateThread(t, u) \/ ResumeThread(t, u) \/ ExitThread(t)
  BY <1>4, CallsOnlyFacts, CallsOnlySelect DEF TerminateThread, ResumeThread, ExitThread
<1>5. CASE \E u \in Threads, system \in BOOLEAN : QueueApc(t, u, system)
  <2>1. PICK q, u : stack' = QueueCalls(q, u, NoOwner)
    BY <1>5 DEF QueueApc
  <2>2. CallsOnly(QueueCalls(q, u, NoOwner))
    BY CallsOnlyFacts
  <2> QED
    BY <2>1, <2>2, CallsOnlySelect
<1>6. CASE stack' = <<>>
  BY <1>6, CallsOnlyFacts, CallsOnlySelect
<1>7. ASSUME NEW a \in WaitArgs, Select(t, a) PROVE stack' = <<>>
  BY <1>7 DEF Select, Idle
<1>8. ASSUME NEW e \in Events, ResetEvent(t, e) PROVE stack' = <<>>
  BY <1>8 DEF ResetEvent, Idle
<1>9. ASSUME NEW r \in Timers, CancelTimer(t, r) \/ \E period, apc \in BOOLEAN : SetTimer(t, r, period, apc)
      PROVE  stack' = <<>>
  BY <1>9 DEF CancelTimer, SetTimer, Idle
<1>10. ASSUME NEW u \in Threads, SuspendThread(t, u) PROVE stack' = <<>>
  BY <1>10 DEF SuspendThread, Idle
<1> QED
  BY <1>1, <1>2, <1>3, <1>4, <1>5, <1>6, <1>7, <1>8, <1>9, <1>10 DEF RequestActions

\* Nor does a step of a client, of a timer or of the main loop.
LEMMA OtherSelect ==
  ASSUME TypeInv, TypeInv', SelectInv,
         \/ \E t \in Threads : ClientActions(t) \/ OtherActions(t)
         \/ \E r \in Timers : TimerExpires(r)
         \/ \E p \in Processes : Crash(p)
  PROVE  SelectInv'
<1>1. CASE \E t \in Threads : ClientActions(t)
  <2>1. stack' = <<>>
    BY <1>1 DEF ClientActions, SelectAgain, ReadReply, GetApc, LeaveSuspend, ClientDies, TakeSignal, SetContext, Idle
  <2> QED
    BY <2>1, CallsOnlyFacts, CallsOnlySelect
<1>2. ASSUME NEW t \in Threads, OtherActions(t)
      PROVE  SelectInv'
  <2>1. CASE stack' = <<>> \/ stack' = <<CallWakeThread(t)>> \/ stack' = <<CallKill(t)>>
    BY <2>1, CallsOnlyFacts, CallsOnlySelect
  <2> QED
    BY <1>2, <2>1 DEF OtherActions, TimePasses, ThreadTimeout, PollHup, Idle
<1>3. CASE \E r \in Timers : TimerExpires(r)
  BY <1>3, CallsOnlyFacts, CallsOnlySelect DEF TimerExpires
<1>4. CASE \E p \in Processes : Crash(p)
  BY <1>4 DEF Crash, SelectInv, Selecting, waitVars
<1> QED
  BY <1>1, <1>2, <1>3, <1>4

\* Every step keeps the types and what is known of a request select that goes on.
LEMMA TypeStep ==
  ASSUME TypeInv /\ SelectInv, [Next]_vars
  PROVE  (TypeInv /\ SelectInv)'
<1>1. CASE UNCHANGED vars
  BY <1>1 DEF vars, runVars, objVars, waitVars, apcVars, timerVars, clientVars, TypeInv, ObjTypeOK, SelectInv, Selecting
<1>2. CASE Next
  <2>1. TypeInv'
    BY <1>2, StepTypes
  <2> QED
    BY <1>2, <2>1, NextActions, ServerSelect, RequestSelect, OtherSelect
<1> QED
  BY <1>1, <1>2

\* thread.c: every variable has its type: no count of a semaphore leaves its bounds, a
\* thread is suspended at most MAXIMUM_SUSPEND_COUNT times, only a dead thread leaves its
\* process, only a dead thread's mutexes are abandoned.
THEOREM TypesHold == Spec => [](TypeInv /\ SelectInv)
<1>1. Init => TypeInv /\ SelectInv
  BY InitTypes
<1> QED
  BY <1>1, TypeStep, PTL DEF Spec
=============================================================================
