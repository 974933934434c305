--------------------------- MODULE NamedPipeProofs ---------------------------
(***************************************************************************)
(* Proofs about NamedPipe for any threads, any number of server and client *)
(* ends and any limit of instances.                                        *)
(***************************************************************************)
EXTENDS NamedPipe, ListTheorems, FiniteSetTheorems, TLAPS

\* A new pipe satisfies the inductive invariant.
LEMMA InitIInv == Init => IInv
<1> SUFFICES ASSUME Init PROVE IInv
  OBVIOUS
<1> USE NoneAssumption DEF Init, FreeServer, FreeClient, ToSet
<1>1. TypeOK /\ StateExact /\ FreeExact
  BY DEF TypeOK, ServerType, ClientType, States, StateExact, ServerExact, ClientExact, FreeExact
<1>2. InstancesExact /\ NoMissedServer
  BY DEF InstancesExact, NoMissedServer, IsInjective
<1>3. CallInv
  BY DEF CallInv, WaitInv, ConnectInv, FlushInv, PendingInv
<1> QED
  BY <1>1, <1>2, <1>3 DEF IInv

\* At most one ConnectNamedPipe is pending on a server end.
LEMMA QueueShape ==
  ASSUME TypeOK, StateExact, NEW s \in Servers
  PROVE  \/ srv[s].wait_q = <<>> /\ ToSet(srv[s].wait_q) = {}
         \/ \E t \in Threads : /\ srv[s].wait_q = <<t>> /\ ToSet(srv[s].wait_q) = {t}
                               /\ srv[s].state = "wait_open"
<1>1. srv[s].wait_q \in Seq(Threads)
  BY DEF TypeOK, ServerType
<1>2. CASE srv[s].wait_q = <<>>
  BY <1>2 DEF ToSet
<1>3. CASE srv[s].wait_q # <<>>
  <2>1. Len(srv[s].wait_q) = 1 /\ srv[s].state = "wait_open"
    BY <1>3 DEF StateExact, ServerExact, ClientExact
  <2>2. srv[s].wait_q[1] \in Threads /\ srv[s].wait_q = <<srv[s].wait_q[1]>>
    BY <1>1, <2>1
  <2> QED
    BY <2>1, <2>2 DEF ToSet
<1> QED
  BY <1>2, <1>3

\* CallInv looks at no more than the lists and the calls.
LEMMA CallFrame ==
  ASSUME CallInv, UNCHANGED <<waiters, pc, answer>>,
         \A s \in Servers : srv'[s].flush = srv[s].flush /\ srv'[s].wait_q = srv[s].wait_q
  PROVE  CallInv'
BY DEF CallInv, WaitInv, ConnectInv, FlushInv, PendingInv

\* A flush that ends leaves every other call as it was.
LEMMA FlushOver ==
  ASSUME CallInv, TypeOK, NEW s \in Servers, UNCHANGED <<waiters, pc>>,
         answer' = [t \in Threads |-> IF t \in {srv[s].flush} THEN "flushed" ELSE answer[t]],
         srv'[s].flush = None,
         \A u \in Servers : /\ srv'[u].wait_q = srv[u].wait_q
                            /\ u # s => srv'[u].flush = srv[u].flush
  PROVE  CallInv'
<1> SUFFICES ASSUME NEW t \in Threads, pc'[t] # "dead"
             PROVE  WaitInv(t)' /\ ConnectInv(t)' /\ FlushInv(t)' /\ PendingInv(t)'
  BY DEF CallInv
<1>1. WaitInv(t) /\ ConnectInv(t) /\ FlushInv(t) /\ PendingInv(t)
  BY DEF CallInv
<1>2. answer'[t] = answer[t] \/ (srv[s].flush = t /\ answer'[t] = "flushed" /\ pc[t] = "flush")
  BY <1>1 DEF FlushInv
<1>3. WaitInv(t)' /\ ConnectInv(t)'
  BY <1>1, <1>2 DEF WaitInv, ConnectInv
<1>4. FlushInv(t)'
  BY <1>1, <1>2, NoneAssumption DEF FlushInv
<1>5. PendingInv(t)'
  BY <1>1, <1>2 DEF PendingInv
<1> QED
  BY <1>3, <1>4, <1>5

\* InstancesExact and NoMissedServer see no more of the ends than which are in use and
\* which listen.
LEMMA StateFrame ==
  ASSUME InstancesExact, NoMissedServer, UNCHANGED <<servers, instances, maxinstances, waiters>>,
         \A u \in Servers : /\ srv'[u].state = "free" <=> srv[u].state = "free"
                            /\ srv'[u].state = "wait_open" => srv[u].state = "wait_open"
  PROVE  InstancesExact' /\ NoMissedServer'
<1>1. {u \in Servers : srv'[u].state # "free"} = {u \in Servers : srv[u].state # "free"}
  OBVIOUS
<1> QED
  BY <1>1 DEF InstancesExact, NoMissedServer

-----------------------------------------------------------------------------
(***************************************************************************)
(* Each action keeps the inductive invariant.                              *)
(***************************************************************************)
\* A call returns, a thread dies.
LEMMA ReturnKeeps == ASSUME IInv, NEW t \in Threads, Return(t) \/ ThreadDies(t) PROVE IInv'
<1> USE DEF Return, ThreadDies, pipeVars
<1>1. TypeOK'
  BY DEF IInv, TypeOK
<1>2. StateExact' /\ FreeExact' /\ InstancesExact' /\ NoMissedServer'
  BY DEF IInv, StateExact, ServerExact, ClientExact, FreeExact, InstancesExact, NoMissedServer
<1>3. CallInv'
  BY DEF IInv, TypeOK, CallInv, WaitInv, ConnectInv, FlushInv, PendingInv
<1> QED
  BY <1>1, <1>2, <1>3 DEF IInv

\* The client reads, the server writes.
LEMMA DataKeeps ==
  ASSUME IInv, (\E s \in Servers : Write(s)) \/ (\E c \in Clients : Read(c)) PROVE IInv'
<1> USE DEF Write, Read, pipeVars
<1>1. TypeOK'
  BY DEF IInv, TypeOK
<1>2. StateExact' /\ FreeExact' /\ InstancesExact' /\ NoMissedServer'
  BY DEF IInv, StateExact, ServerExact, ClientExact, FreeExact, InstancesExact, NoMissedServer
<1>3. CallInv'
  BY DEF IInv, CallInv, WaitInv, ConnectInv, FlushInv, PendingInv
<1> QED
  BY <1>1, <1>2, <1>3 DEF IInv

\* A new server end.
LEMMA CreateKeeps ==
  ASSUME IInv, NEW s \in Servers, NEW m \in 1..MaxInstances, CreateNamedPipe(s, m) PROVE IInv'
<1> USE NoneAssumption, LimitAssumption DEF IInv, CreateNamedPipe, MayCreate, NewServer, FreeServer
<1>1. /\ servers' \in Seq(Servers) /\ Len(servers) \in Nat /\ Len(servers') = Len(servers) + 1
      /\ ToSet(servers') = ToSet(servers) \cup {s}
      /\ IsInjective(servers')
  BY PrependSet DEF TypeOK, InstancesExact
<1>2. servers = <<>> => Len(servers) = 0
  OBVIOUS
<1>3. TypeOK'
  <2>1. FreeServer \in ServerType
    BY EmptySeq DEF ServerType
  <2>2. NewServer \in ServerType
    BY <2>1 DEF ServerType, States
  <2>3. srv' \in [Servers -> ServerType]
    BY <2>2 DEF TypeOK, ServerType
  <2>4. instances' \in Nat /\ maxinstances' \in Nat
    BY DEF TypeOK
  <2> QED
    BY <1>1, <2>3, <2>4 DEF TypeOK, ServerType
<1>4. srv[s].client = None /\ srv[s].flush = None /\ srv[s].wait_q = <<>>
  BY DEF StateExact, ServerExact, ClientExact, TypeOK, ServerType
<1>5. StateExact' /\ FreeExact'
  BY <1>4 DEF StateExact, ServerExact, ClientExact, FreeExact, TypeOK, ServerType, ClientType
<1>6. InstancesExact'
  <2>1. instances' = Len(servers') /\ instances' <= maxinstances'
    BY <1>1, <1>2 DEF InstancesExact, TypeOK
  <2>2. {u \in Servers : srv'[u].state # "free"} = {u \in Servers : srv[u].state # "free"} \cup {s}
    BY DEF TypeOK
  <2> QED
    BY <1>1, <2>1, <2>2 DEF InstancesExact
<1>7. NoMissedServer'
  BY <1>1, <1>3 DEF NoMissedServer, TypeOK
<1>8. CallInv'
  <2>1. \A u \in Servers : srv'[u].flush = srv[u].flush /\ srv'[u].wait_q = srv[u].wait_q
    BY <1>4 DEF TypeOK
  <2> QED
    BY <2>1, CallFrame
<1> QED
  BY <1>3, <1>5, <1>6, <1>7, <1>8 DEF IInv

\* A WaitNamedPipe is answered at once or waits.
LEMMA WaitKeeps ==
  ASSUME IInv, NEW t \in Threads, NEW timed \in BOOLEAN, WaitNamedPipe(t, timed) PROVE IInv'
<1> USE DEF IInv, WaitNamedPipe, Blocks, Answered, pipeVars
<1>1. CASE \E s \in Servers : srv[s].state = "wait_open"
  <2>1. TypeOK'
    BY <1>1 DEF TypeOK
  <2>2. StateExact' /\ FreeExact' /\ InstancesExact' /\ NoMissedServer'
    BY <1>1 DEF StateExact, ServerExact, ClientExact, FreeExact, InstancesExact, NoMissedServer
  <2>3. CallInv'
    BY <1>1 DEF TypeOK, CallInv, WaitInv, ConnectInv, FlushInv, PendingInv
  <2> QED
    BY <2>1, <2>2, <2>3
<1>2. CASE \A s \in Servers : srv[s].state # "wait_open"
  <2> DEFINE new == [thread |-> t, timed |-> timed]
             n == Len(waiters)
  <2>1. new \in WaiterType /\ new.thread = t /\ waiters' = Append(waiters, new) /\ waiters \in Seq(WaiterType)
    BY <1>2 DEF TypeOK, WaiterType
  <2>2. /\ waiters' \in Seq(WaiterType)
        /\ n \in Nat /\ Len(waiters') = n + 1
        /\ \A j \in 1..n : waiters'[j] = waiters[j]
        /\ waiters'[n + 1] = new
    <3> HIDE DEF new
    <3> QED
      BY <2>1, AppendSet
  <2>3. TypeOK'
    BY <1>2, <2>2 DEF TypeOK
  <2>4. StateExact' /\ FreeExact' /\ InstancesExact' /\ NoMissedServer'
    BY <1>2 DEF StateExact, ServerExact, ClientExact, FreeExact, InstancesExact, NoMissedServer
  <2> HIDE DEF new, n
  <2>5. DOMAIN waiters = 1..n /\ DOMAIN waiters' = 1..(n + 1)
    BY <2>2, <2>1
  <2>6. \A j \in 1..n : waiters[j].thread # t
    BY <2>5 DEF CallInv, WaitInv, TypeOK
  <2>7. pc[t] = "app" /\ answer[t] = "none" /\ pc' = [pc EXCEPT ![t] = "wait"] /\ answer' = answer /\ srv' = srv
    BY <1>2 DEF CallInv, PendingInv
  <2>8. ASSUME NEW u \in Threads, pc'[u] # "dead" PROVE WaitInv(u)'
    <3>1. CASE u = t
      BY <2>1, <2>2, <2>5, <2>6, <2>7, <3>1 DEF TypeOK, WaitInv
    <3>2. CASE u # t
      <4>1. WaitInv(u) /\ pc'[u] = pc[u]
        BY <2>7, <2>8, <3>2 DEF TypeOK, CallInv
      <4>2. \A j \in 1..(n + 1) : waiters'[j].thread = u => j \in 1..n /\ waiters[j].thread = u
        BY <2>1, <2>2, <3>2
      <4> HIDE DEF IInv, WaitNamedPipe, Blocks, Answered
      <4>3. \A j, k \in 1..n : waiters[j].thread = u /\ waiters[k].thread = u => j = k
        BY <2>5, <4>1 DEF WaitInv
      <4> QED
        BY <2>5, <2>7, <4>1, <4>2, <4>3 DEF WaitInv
    <3> QED
      BY <3>1, <3>2
  <2>9. ASSUME NEW u \in Threads, pc'[u] # "dead" PROVE ConnectInv(u)' /\ FlushInv(u)'
    BY <2>7, <2>9 DEF TypeOK, CallInv, ConnectInv, FlushInv
  <2>10. ASSUME NEW u \in Threads, pc'[u] # "dead" PROVE PendingInv(u)'
    <3>1. CASE u = t
      <4>1. n + 1 \in 1..(n + 1)
        BY <2>2
      <4> QED
        BY <2>1, <2>2, <2>5, <2>7, <3>1, <4>1 DEF TypeOK, PendingInv
    <3>2. CASE u # t
      <4>1. PendingInv(u) /\ pc'[u] = pc[u]
        BY <2>7, <2>10, <3>2 DEF TypeOK, CallInv
      <4>2. \A j \in 1..n : j \in 1..(n + 1)
        BY <2>2
      <4> QED
        BY <2>2, <2>5, <2>7, <4>1, <4>2 DEF PendingInv
    <3> QED
      BY <3>1, <3>2
  <2> QED
    BY <2>3, <2>4, <2>8, <2>9, <2>10 DEF CallInv
<1> QED
  BY <1>1, <1>2

\* A WaitNamedPipe times out.
LEMMA TimeoutKeeps == ASSUME IInv, NEW t \in Threads, WaitTimeout(t) PROVE IInv'
<1> USE DEF IInv, WaitTimeout, Answered, pipeVars
<1>1. PICK i \in DOMAIN waiters :
        waiters[i] = [thread |-> t, timed |-> TRUE] /\ waiters' = RemoveAt(waiters, i)
  OBVIOUS
<1>2. waiters' \in Seq(WaiterType)
  BY <1>1, RemoveAtFacts DEF TypeOK
<1>3. TypeOK'
  BY <1>2 DEF TypeOK
<1>4. StateExact' /\ FreeExact' /\ InstancesExact' /\ NoMissedServer'
  <2>1. waiters # <<>>
    BY <1>1
  <2> QED
    BY <2>1 DEF StateExact, ServerExact, ClientExact, FreeExact, InstancesExact, NoMissedServer
<1>5. waiters[i].thread = t /\ UNCHANGED <<srv, pc>> /\ \A u \in Threads : u # t => answer'[u] = answer[u]
  BY <1>1 DEF TypeOK
<1>6. pc[t] # "dead" => pc[t] = "wait" /\ answer'[t] # "none"
  BY <1>1 DEF CallInv, WaitInv, TypeOK
<1>7. ASSUME NEW u \in Threads, pc'[u] # "dead"
      PROVE  WaitInv(u)' /\ ConnectInv(u)' /\ FlushInv(u)' /\ PendingInv(u)'
  <2> DEFINE X == {w \in WaiterType : w.thread = u}
  <2>1. WaitInv(u) /\ ConnectInv(u) /\ FlushInv(u) /\ PendingInv(u)
    BY <1>5, <1>7 DEF CallInv
  <2>2. /\ \A j \in DOMAIN waiters : waiters[j] \in X <=> waiters[j].thread = u
        /\ \A j \in DOMAIN waiters' : waiters'[j] \in X <=> waiters'[j].thread = u
    BY <1>2, ElementOfSeq DEF TypeOK
  <2>3. \A j, k \in DOMAIN waiters : waiters[j] \in X /\ waiters[k] \in X => j = k
    BY <2>1, <2>2 DEF WaitInv
  <2> HIDE DEF X, IInv, WaitTimeout, Answered
  <2>4. /\ \A j, k \in DOMAIN waiters' : waiters'[j] \in X /\ waiters'[k] \in X => j = k
        /\ waiters[i] \in X => \A j \in DOMAIN waiters' : waiters'[j] \notin X
        /\ waiters[i] \notin X =>
             ((\E j \in DOMAIN waiters' : waiters'[j] \in X) <=> \E j \in DOMAIN waiters : waiters[j] \in X)
    <3>1. waiters \in Seq(WaiterType)
      BY DEF IInv, TypeOK
    <3> QED
      BY <1>1, <2>3, <3>1, RemoveAtOf
  <2>5. waiters[i] \in X <=> u = t
    BY <1>1, <1>5, <2>2
  <2>6. WaitInv(u)'
    BY <1>5, <2>1, <2>2, <2>4, <2>5 DEF WaitInv
  <2>7. ConnectInv(u)' /\ FlushInv(u)'
    BY <1>5, <1>6, <1>7, <2>1 DEF ConnectInv, FlushInv
  <2>8. PendingInv(u)'
    BY <1>5, <1>6, <1>7, <2>1, <2>2, <2>4, <2>5 DEF PendingInv
  <2> QED
    BY <2>6, <2>7, <2>8
<1> QED
  BY <1>3, <1>4, <1>7 DEF CallInv

\* A ConnectNamedPipe waits for a client; the clients that waited for a server are told.
LEMMA ConnectKeeps ==
  ASSUME IInv, NEW t \in Threads, NEW s \in Servers, Connect(t, s) PROVE IInv'
<1> USE NoneAssumption DEF IInv, Connect, Blocks, Answered, pipeVars
<1>1. srv[s].wait_q = <<>> /\ ToSet(srv[s].wait_q) = {}
  BY QueueShape
<1>2. /\ srv[s] \in ServerType /\ srv[s].client = None /\ srv[s].flush = None /\ ~srv[s].fd
      /\ srv[s].state \in {"idle", "wait_connect"}
  <2>1. srv[s] \in ServerType /\ ServerExact(s) /\ srv[s].state \in {"idle", "wait_connect"}
    BY DEF TypeOK, StateExact
  <2> QED
    BY <2>1 DEF ServerExact
<1>3. /\ Append(srv[s].wait_q, t) \in Seq(Threads) /\ Len(Append(srv[s].wait_q, t)) = 1
      /\ ToSet(Append(srv[s].wait_q, t)) = {t}
  <2>1. srv[s].wait_q \in Seq(Threads) /\ Len(srv[s].wait_q) = 0
    BY <1>1, <1>2 DEF ServerType
  <2>2. /\ Append(srv[s].wait_q, t) \in Seq(Threads)
        /\ Len(Append(srv[s].wait_q, t)) = Len(srv[s].wait_q) + 1
        /\ ToSet(Append(srv[s].wait_q, t)) = ToSet(srv[s].wait_q) \cup {t}
    BY <2>1, AppendSet
  <2> QED
    BY <1>1, <2>1, <2>2
<1>4. srv' = [srv EXCEPT ![s].state = "wait_open", ![s].wait_q = Append(@, t)] /\ srv \in [Servers -> ServerType]
  BY DEF TypeOK
<1>5. /\ srv'[s] \in ServerType /\ srv'[s].state = "wait_open" /\ srv'[s].client = None
      /\ srv'[s].flush = None /\ ~srv'[s].fd /\ srv'[s].wait_q = Append(srv[s].wait_q, t)
  BY <1>2, <1>3, <1>4 DEF ServerType, States
<1>6. \A u \in Servers : u # s => srv'[u] = srv[u]
  BY <1>4
<1>7. srv' \in [Servers -> ServerType]
  BY <1>4, <1>5, <1>6
<1>8. TypeOK'
  BY <1>7, EmptySeq DEF TypeOK
<1> HIDE DEF Connect
<1>9. cli' = cli /\ waiters' = <<>> /\ pc[t] = "app" /\ pc' = [pc EXCEPT ![t] = "connect"]
      /\ UNCHANGED pipeVars /\ answer' = [u \in Threads |-> IF u \in Waiting THEN "success" ELSE answer[u]]
  BY DEF Connect
<1>10. StateExact' /\ FreeExact'
  <2>1. ServerExact(s)'
    BY <1>3, <1>5, <1>9 DEF ServerExact
  <2>2. ASSUME NEW u \in Servers, u # s PROVE ServerExact(u)'
    BY <1>6, <1>9, <2>2 DEF StateExact, ServerExact
  <2>3. ASSUME NEW c \in Clients PROVE ClientExact(c)'
    <3>1. ClientExact(c) /\ cli[c].server # s
      BY <1>2, NoneAssumption DEF StateExact, ClientExact
    <3> QED
      BY <1>6, <1>9, <3>1 DEF ClientExact, TypeOK, ClientType
  <2> QED
    BY <1>9, <2>1, <2>2, <2>3 DEF StateExact, FreeExact
<1>11. InstancesExact' /\ NoMissedServer'
  <2>1. {u \in Servers : srv'[u].state # "free"} = {u \in Servers : srv[u].state # "free"}
    BY <1>2, <1>5, <1>6
  <2> QED
    BY <1>9, <2>1 DEF InstancesExact, NoMissedServer
<1>12. ASSUME NEW u \in Threads, pc'[u] # "dead"
       PROVE  WaitInv(u)' /\ ConnectInv(u)' /\ FlushInv(u)' /\ PendingInv(u)'
  <2>1. WaitInv(u) /\ ConnectInv(u) /\ FlushInv(u) /\ PendingInv(u) /\ (u # t => pc'[u] = pc[u])
    BY <1>9, <1>12 DEF CallInv, TypeOK
  <2>2. u \in Waiting <=> \E i \in DOMAIN waiters : waiters[i].thread = u
    BY DEF Waiting, ToSet
  <2>3. pc[t] = "app" /\ answer[t] = "none" /\ (u \in Waiting => pc[u] = "wait" /\ u # t)
    BY <1>9, <2>1, <2>2 DEF CallInv, PendingInv, WaitInv
  <2>4. (u \notin Waiting => answer'[u] = answer[u]) /\ (u \in Waiting => answer'[u] = "success")
    BY <1>9
  <2>5. /\ pc'[t] = "connect" /\ ToSet(srv'[s].wait_q) = {t} /\ ToSet(srv[s].wait_q) = {}
        /\ srv'[s].flush = srv[s].flush
    BY <1>1, <1>2, <1>3, <1>5, <1>9 DEF TypeOK
  <2> HIDE DEF IInv, Blocks, Answered
  <2>6. WaitInv(u)'
    BY <1>9 DEF WaitInv
  <2>7. ConnectInv(u)'
    BY <1>6, <2>1, <2>2, <2>3, <2>4, <2>5 DEF ConnectInv, WaitInv
  <2>8. FlushInv(u)'
    BY <1>2, <1>6, <2>1, <2>2, <2>3, <2>4, <2>5 DEF FlushInv, WaitInv
  <2>9. PendingInv(u)'
    BY <1>2, <1>6, <2>1, <2>2, <2>3, <2>4, <2>5 DEF PendingInv
  <2> QED
    BY <2>6, <2>7, <2>8, <2>9
<1> QED
  BY <1>8, <1>10, <1>11, <1>12 DEF CallInv

\* FlushFileBuffers waits.
LEMMA FlushKeeps ==
  ASSUME IInv, NEW t \in Threads, NEW s \in Servers, Flush(t, s) PROVE IInv'
<1> USE NoneAssumption DEF IInv, Flush, Blocks, pipeVars
<1>1. srv' = [srv EXCEPT ![s].flush = t] /\ srv \in [Servers -> ServerType] /\ srv[s].flush = None
  BY DEF TypeOK
<1>2. /\ srv'[s] \in ServerType /\ srv'[s].flush = t
      /\ srv'[s].state = srv[s].state /\ srv'[s].client = srv[s].client
      /\ srv'[s].fd = srv[s].fd /\ srv'[s].wait_q = srv[s].wait_q
  <2>1. srv[s] \in ServerType /\ srv'[s] = [srv[s] EXCEPT !.flush = t]
    BY <1>1
  <2> QED
    BY <2>1 DEF ServerType
<1>3. \A u \in Servers : u # s => srv'[u] = srv[u]
  BY <1>1
<1>4. srv' \in [Servers -> ServerType]
  BY <1>1, <1>2, <1>3
<1>5. TypeOK'
  BY <1>4 DEF TypeOK
<1>6. StateExact' /\ FreeExact'
  <2>1. ServerExact(s)'
    BY <1>1, <1>2 DEF StateExact, ServerExact
  <2>2. ASSUME NEW u \in Servers, u # s PROVE ServerExact(u)'
    BY <1>3, <2>2 DEF StateExact, ServerExact
  <2>3. ASSUME NEW c \in Clients PROVE ClientExact(c)'
    BY <1>2, <1>3 DEF StateExact, ClientExact, TypeOK, ClientType
  <2> QED
    BY <2>1, <2>2, <2>3 DEF StateExact, FreeExact
<1>7. InstancesExact' /\ NoMissedServer'
  <2>1. \A u \in Servers : srv'[u].state = srv[u].state
    BY <1>2, <1>3
  <2>2. {u \in Servers : srv'[u].state # "free"} = {u \in Servers : srv[u].state # "free"}
    BY <2>1
  <2> QED
    BY <2>1, <2>2 DEF InstancesExact, NoMissedServer
<1>8. ASSUME NEW u \in Threads, pc'[u] # "dead"
      PROVE  WaitInv(u)' /\ ConnectInv(u)' /\ FlushInv(u)' /\ PendingInv(u)'
  <2>1. /\ WaitInv(u) /\ ConnectInv(u) /\ FlushInv(u) /\ PendingInv(u) /\ (u # t => pc'[u] = pc[u])
        /\ pc[t] = "app" /\ pc'[t] = "flush" /\ answer' = answer /\ waiters' = waiters
    BY <1>8 DEF CallInv, TypeOK
  <2>2. \A v \in Servers : srv'[v].wait_q = srv[v].wait_q
    BY <1>2, <1>3
  <2> HIDE DEF IInv, Flush, Blocks
  <2>3. WaitInv(u)' /\ ConnectInv(u)'
    BY <2>1, <2>2 DEF WaitInv, ConnectInv
  <2>4. FlushInv(u)'
    BY <1>1, <1>2, <1>3, <2>1 DEF FlushInv, PendingInv
  <2>5. PendingInv(u)'
    BY <1>1, <1>2, <1>3, <2>1, <2>2 DEF PendingInv
  <2> QED
    BY <2>3, <2>4, <2>5
<1> QED
  BY <1>5, <1>6, <1>7, <1>8 DEF CallInv

\* The poll of a flush finds that everything was read.
LEMMA CheckFlushedKeeps == ASSUME IInv, NEW s \in Servers, CheckFlushed(s) PROVE IInv'
<1> USE NoneAssumption DEF IInv, CheckFlushed, Answered, pipeVars
<1>1. srv' = [srv EXCEPT ![s].flush = None] /\ srv \in [Servers -> ServerType]
  BY DEF TypeOK
<1>2. /\ srv'[s] \in ServerType /\ srv'[s].flush = None
      /\ srv'[s].state = srv[s].state /\ srv'[s].client = srv[s].client
      /\ srv'[s].fd = srv[s].fd /\ srv'[s].wait_q = srv[s].wait_q
  <2>1. srv[s] \in ServerType /\ srv'[s] = [srv[s] EXCEPT !.flush = None]
    BY <1>1
  <2> QED
    BY <2>1 DEF ServerType
<1>3. \A u \in Servers : u # s => srv'[u] = srv[u]
  BY <1>1
<1>4. TypeOK'
  <2>1. srv' \in [Servers -> ServerType]
    BY <1>1, <1>2, <1>3
  <2> QED
    BY <2>1 DEF TypeOK
<1>5. StateExact' /\ FreeExact'
  <2>1. ServerExact(s)'
    BY <1>2 DEF StateExact, ServerExact
  <2>2. ASSUME NEW u \in Servers, u # s PROVE ServerExact(u)'
    BY <1>3, <2>2 DEF StateExact, ServerExact
  <2>3. ASSUME NEW c \in Clients PROVE ClientExact(c)'
    BY <1>2, <1>3 DEF StateExact, ClientExact, TypeOK, ClientType
  <2> QED
    BY <2>1, <2>2, <2>3 DEF StateExact, FreeExact
<1>6. InstancesExact' /\ NoMissedServer'
  BY <1>2, <1>3, StateFrame
<1>7. CallInv'
  BY <1>2, <1>3, FlushOver
<1> QED
  BY <1>4, <1>5, <1>6, <1>7

\* DisconnectNamedPipe ends the flush and takes the fds of both ends.
LEMMA DisconnectKeeps == ASSUME IInv, NEW s \in Servers, Disconnect(s) PROVE IInv'
<1> USE NoneAssumption DEF IInv, Disconnect, Answered, WithoutFd, pipeVars
<1>1. srv \in [Servers -> ServerType] /\ srv[s] \in ServerType /\ srv[s].state \in {"connected", "wait_disconnect"}
      /\ cli \in [Clients -> ClientType]
  BY DEF TypeOK
<1>2. /\ srv'[s] \in ServerType /\ srv'[s].flush = None /\ ~srv'[s].fd
      /\ srv'[s].state = IF srv[s].state = "connected" THEN "disconnected" ELSE "wait_connect"
      /\ srv'[s].client = srv[s].client /\ srv'[s].wait_q = srv[s].wait_q
  <2>1. srv'[s] = [srv[s] EXCEPT !.state = IF @ = "connected" THEN "disconnected" ELSE "wait_connect",
                                 !.fd = FALSE, !.flush = None]
    BY <1>1
  <2> QED
    BY <1>1, <2>1 DEF ServerType, States
<1>3. \A u \in Servers : u # s => srv'[u] = srv[u]
  BY <1>1
<1>4. /\ cli' \in [Clients -> ClientType]
      /\ \A c \in Clients : /\ c # srv[s].client => cli'[c] = cli[c]
                            /\ c = srv[s].client => ~cli'[c].fd
                            /\ cli'[c].server = cli[c].server /\ cli'[c].open = cli[c].open
  <2>1. CASE srv[s].client = None
    BY <1>1, <2>1
  <2>2. CASE srv[s].client # None
    <3>1. srv[s].client \in Clients /\ cli' = [cli EXCEPT ![srv[s].client].fd = FALSE]
      BY <1>1, <2>2 DEF ServerType
    <3> DEFINE c == srv[s].client
    <3>2. cli'[c] = [cli[c] EXCEPT !.fd = FALSE] /\ cli[c] \in ClientType
      BY <1>1, <3>1
    <3> HIDE DEF c, IInv, Disconnect, WithoutFd
    <3>3. cli'[c] \in ClientType /\ ~cli'[c].fd /\ cli'[c].server = cli[c].server /\ cli'[c].open = cli[c].open
      BY <3>2 DEF ClientType
    <3>4. \A d \in Clients : d # c => cli'[d] = cli[d]
      BY <1>1, <3>1 DEF c
    <3> QED
      BY <1>1, <3>1, <3>3, <3>4 DEF c
  <2> QED
    BY <2>1, <2>2
<1>5. TypeOK'
  <2>1. srv' \in [Servers -> ServerType]
    BY <1>1, <1>2, <1>3
  <2> QED
    BY <1>4, <2>1 DEF TypeOK
<1> HIDE DEF Disconnect, WithoutFd
<1>6. ServerExact(s) /\ \A c \in Clients : ClientExact(c)
  BY DEF StateExact
<1>7. StateExact' /\ FreeExact'
  <2>1. ServerExact(s)'
    BY <1>1, <1>2, <1>4, <1>6 DEF ServerExact, ServerType
  <2>2. ASSUME NEW u \in Servers, u # s PROVE ServerExact(u)'
    <3>1. ServerExact(u) /\ srv'[u] = srv[u] /\ srv[u] \in ServerType
      BY <1>1, <1>3, <2>2 DEF StateExact
    <3>2. srv[u].client # None => srv[u].client \in Clients /\ srv[u].client # srv[s].client
      BY <1>6, <2>2, <3>1 DEF ServerExact, ServerType
    <3> QED
      BY <1>4, <3>1, <3>2 DEF ServerExact
  <2>3. ASSUME NEW c \in Clients PROVE ClientExact(c)'
    <3>1. \A u \in Servers : srv'[u].client = srv[u].client
      BY <1>2, <1>3
    <3>2. cli[c] \in ClientType /\ cli'[c].server = cli[c].server /\ (cli'[c].fd => cli[c].fd)
      BY <1>1, <1>4
    <3> QED
      BY <1>6, <3>1, <3>2 DEF ClientExact, ClientType
  <2>4. FreeExact'
    BY <1>1, <1>4 DEF FreeExact
  <2> QED
    BY <2>1, <2>2, <2>3, <2>4 DEF StateExact
<1>8. InstancesExact' /\ NoMissedServer'
  <2>1. UNCHANGED <<servers, instances, maxinstances, waiters>>
    BY DEF Disconnect
  <2> QED
    BY <1>1, <1>2, <1>3, <2>1, StateFrame
<1>9. CallInv'
  <2>1. /\ UNCHANGED <<waiters, pc>>
        /\ answer' = [t \in Threads |-> IF t \in {srv[s].flush} THEN "flushed" ELSE answer[t]]
    BY DEF Disconnect
  <2> QED
    BY <1>2, <1>3, <2>1, FlushOver
<1> QED
  BY <1>5, <1>7, <1>8, <1>9

\* A client end goes; a flush on its server end is over.
LEMMA CloseClientKeeps == ASSUME IInv, NEW c \in Clients, CloseClient(c) PROVE IInv'
<1> USE NoneAssumption DEF IInv, CloseClient, Answered, pipeVars
<1>1. /\ srv \in [Servers -> ServerType] /\ cli \in [Clients -> ClientType]
      /\ cli[c] \in ClientType /\ cli' = [cli EXCEPT ![c] = FreeClient] /\ FreeClient \in ClientType
  BY DEF TypeOK, FreeClient, ClientType
<1>2. /\ cli' \in [Clients -> ClientType] /\ cli'[c] = FreeClient
      /\ \A d \in Clients : d # c => cli'[d] = cli[d]
  BY <1>1
<1>3. \A s \in Servers : ServerExact(s)
  BY DEF StateExact
<1>4. \A d \in Clients : ClientExact(d)
  BY DEF StateExact
<1>5. FreeExact'
  BY <1>2 DEF FreeExact, FreeClient
<1>6. UNCHANGED <<servers, instances, maxinstances, waiters, pc>> /\ data' \subseteq Servers
  BY DEF TypeOK
<1>7. CASE cli[c].server = None
  <2>1. srv' = srv /\ answer' = answer
    BY <1>7
  <2>2. TypeOK'
    BY <1>2, <1>6, <2>1 DEF TypeOK
  <2> HIDE DEF CloseClient
  <2>3. ASSUME NEW s \in Servers PROVE ServerExact(s)'
    <3>1. ServerExact(s) /\ srv[s].client # c /\ srv[s] \in ServerType
      BY <1>1, <1>3, <1>7 DEF ServerExact
    <3> QED
      BY <1>2, <2>1, <3>1 DEF ServerExact, ServerType
  <2>4. ASSUME NEW d \in Clients PROVE ClientExact(d)'
    BY <1>2, <1>4, <2>1 DEF ClientExact, FreeClient
  <2>5. InstancesExact' /\ NoMissedServer'
    BY <1>6, <2>1, StateFrame
  <2>6. CallInv'
    BY <1>6, <2>1, CallFrame
  <2> QED
    BY <1>5, <2>2, <2>3, <2>4, <2>5, <2>6 DEF StateExact
<1>8. CASE cli[c].server # None
  <2>0. PICK s \in Servers : s = cli[c].server
    BY <1>1, <1>8 DEF ClientType
  <2>1. s \in Servers /\ srv[s] \in ServerType /\ srv[s].client = c /\ srv[s].state \in {"connected", "disconnected"}
    <3>1. s \in Servers /\ srv[s].client = c
      BY <1>4, <1>8, <2>0 DEF ClientExact
    <3> QED
      BY <1>1, <1>3, <3>1 DEF ServerExact
  <2>2. srv' = [srv EXCEPT ![s].client = None, ![s].flush = None,
                  ![s].state = IF @ = "connected" THEN "wait_disconnect" ELSE "wait_connect"]
    BY <1>8, <2>0
  <2>3. answer' = [t \in Threads |-> IF t \in {srv[s].flush} THEN "flushed" ELSE answer[t]]
    BY <1>8, <2>0
  <2> HIDE DEF CloseClient
  <2>4. srv'[s] = [srv[s] EXCEPT !.client = None, !.flush = None,
                     !.state = IF @ = "connected" THEN "wait_disconnect" ELSE "wait_connect"]
    BY <1>1, <2>1, <2>2
  <2>5. /\ srv'[s] \in ServerType /\ srv'[s].flush = None /\ srv'[s].client = None
        /\ srv'[s].fd = srv[s].fd /\ srv'[s].wait_q = srv[s].wait_q
        /\ srv'[s].state = IF srv[s].state = "connected" THEN "wait_disconnect" ELSE "wait_connect"
    BY <2>1, <2>4 DEF ServerType, States
  <2>6. \A u \in Servers : u # s => srv'[u] = srv[u]
    BY <1>1, <2>1, <2>2
  <2>7. TypeOK'
    <3>1. srv' \in [Servers -> ServerType]
      BY <1>1, <2>2, <2>5, <2>6
    <3>2. answer' \in [Threads -> {"none", "success", "timeout", "closed", "flushed"}]
      BY <2>3 DEF TypeOK
    <3> QED
      BY <1>2, <1>6, <3>1, <3>2 DEF TypeOK
  <2>8. ServerExact(s)'
    <3>1. ServerExact(s)
      BY <1>3, <2>1
    <3> QED
      BY <2>1, <2>5, <3>1 DEF ServerExact
  <2>9. ASSUME NEW u \in Servers, u # s PROVE ServerExact(u)'
    <3>1. ServerExact(u) /\ srv'[u] = srv[u] /\ srv[u] \in ServerType
      BY <1>1, <1>3, <2>6, <2>9
    <3>2. srv[u].client # c
      BY <2>0, <2>9, <3>1 DEF ServerExact
    <3> QED
      BY <1>2, <3>1, <3>2 DEF ServerExact, ServerType
  <2>10. ASSUME NEW d \in Clients PROVE ClientExact(d)'
    <3>1. CASE d = c
      BY <1>2, <3>1 DEF ClientExact, FreeClient
    <3>2. CASE d # c
      <4>1. ClientExact(d) /\ cli'[d] = cli[d] /\ (cli[d].server # None => cli[d].server # s)
        BY <1>2, <1>4, <2>1, <3>2 DEF ClientExact
      <4>2. cli[d].server # None => cli[d].server \in Servers
        BY <1>1 DEF ClientType
      <4> QED
        BY <2>6, <4>1, <4>2 DEF ClientExact
    <3> QED
      BY <3>1, <3>2
  <2>11. InstancesExact' /\ NoMissedServer'
    BY <1>6, <2>1, <2>5, <2>6, StateFrame
  <2>12. CallInv'
    BY <1>6, <2>1, <2>3, <2>5, <2>6, FlushOver
  <2>13. StateExact'
    BY <2>8, <2>9, <2>10 DEF StateExact
  <2> QED
    BY <1>5, <2>7, <2>11, <2>12, <2>13
<1> QED
  BY <1>7, <1>8

\* A client opens the pipe; a ConnectNamedPipe that waits is answered.
LEMMA OpenKeeps == ASSUME IInv, NEW c \in Clients, OpenNamedPipe(c) PROVE IInv'
<1> USE NoneAssumption DEF IInv
<1>1. /\ srv \in [Servers -> ServerType] /\ cli \in [Clients -> ClientType]
      /\ ~cli[c].open /\ ~cli[c].fd /\ cli[c].server = None
      /\ UNCHANGED <<servers, instances, maxinstances, waiters, pc>>
  BY DEF TypeOK, OpenNamedPipe, FreeExact, pipeVars
<1>2. PICK i \in DOMAIN servers : OpenNamedPipe(c)!2!(i)
  BY DEF OpenNamedPipe
<1>3. PICK s \in Servers : s = servers[i]
  BY ElementOfSeq DEF TypeOK
<1> DEFINE q == srv[s].wait_q
           head == IF srv[s].state = "wait_open" /\ q # <<>> THEN {Head(q)} ELSE {}
<1>4. /\ Listening(s)
      /\ srv' = [srv EXCEPT ![s] = [state |-> "connected", fd |-> TRUE, client |-> c,
                                    flush |-> srv[s].flush, wait_q |-> IF head = {} THEN q ELSE Tail(q)]]
      /\ data' = data \ {s}
      /\ cli' = [cli EXCEPT ![c] = [open |-> TRUE, fd |-> TRUE, server |-> s]]
      /\ answer' = [t \in Threads |-> IF t \in head THEN "success" ELSE answer[t]]
  BY <1>2, <1>3 DEF First, Answered
<1>5. srv[s] \in ServerType /\ ServerExact(s) /\ srv[s].state \in {"idle", "wait_open"}
  BY <1>1, <1>4 DEF Listening, StateExact
<1>6. srv[s].client = None /\ srv[s].flush = None
  BY <1>5 DEF ServerExact
<1>7. head = ToSet(q) /\ (IF head = {} THEN q ELSE Tail(q)) = <<>> /\ head \subseteq Threads
  <2>1. CASE q = <<>>
    BY <2>1 DEF ToSet
  <2>2. CASE q # <<>>
    <3>1. PICK t \in Threads : q = <<t>> /\ ToSet(q) = {t} /\ srv[s].state = "wait_open"
      BY <2>2, QueueShape
    <3>2. Head(q) = t /\ Tail(q) = <<>>
      BY <3>1
    <3> QED
      BY <2>2, <3>1, <3>2
  <2> QED
    BY <2>1, <2>2
<1>8. srv' = [srv EXCEPT ![s] = [state |-> "connected", fd |-> TRUE, client |-> c,
                                 flush |-> None, wait_q |-> <<>>]]
  BY <1>4, <1>6, <1>7
<1> HIDE DEF head
<1>9. /\ srv'[s].state = "connected" /\ srv'[s].fd /\ srv'[s].client = c
      /\ srv'[s].flush = None /\ srv'[s].wait_q = <<>>
      /\ srv'[s] \in ServerType
  <2>1. <<>> \in Seq(Threads)
    BY EmptySeq
  <2>2. srv'[s] = [state |-> "connected", fd |-> TRUE, client |-> c, flush |-> None, wait_q |-> <<>>]
    BY <1>1, <1>8
  <2> QED
    BY <2>1, <2>2 DEF ServerType, States
<1>10. \A u \in Servers : u # s => srv'[u] = srv[u]
  BY <1>1, <1>8
<1>11. /\ cli' \in [Clients -> ClientType] /\ cli'[c].open /\ cli'[c].fd /\ cli'[c].server = s
       /\ \A d \in Clients : d # c => cli'[d] = cli[d]
  BY <1>1, <1>4 DEF ClientType
<1>12. TypeOK'
  <2>1. srv' \in [Servers -> ServerType]
    BY <1>1, <1>8, <1>9, <1>10
  <2>2. data' \subseteq Servers /\ answer' \in [Threads -> {"none", "success", "timeout", "closed", "flushed"}]
    BY <1>4 DEF TypeOK
  <2> QED
    BY <1>1, <1>11, <2>1, <2>2 DEF TypeOK
<1>13. StateExact'
  <2>1. ServerExact(s)'
    BY <1>9, <1>11 DEF ServerExact
  <2>2. ASSUME NEW u \in Servers, u # s PROVE ServerExact(u)'
    <3>1. ServerExact(u) /\ srv'[u] = srv[u] /\ srv[u] \in ServerType
      BY <1>1, <1>10, <2>2 DEF StateExact
    <3>2. srv[u].client # c
      BY <1>1, <3>1 DEF ServerExact
    <3> QED
      BY <1>11, <3>1, <3>2 DEF ServerExact, ServerType
  <2>3. ASSUME NEW d \in Clients PROVE ClientExact(d)'
    <3>1. CASE d = c
      BY <1>9, <1>11, <3>1 DEF ClientExact
    <3>2. CASE d # c
      <4>1. ClientExact(d) /\ cli'[d] = cli[d] /\ cli[d] \in ClientType
        BY <1>1, <1>11, <3>2 DEF StateExact
      <4>2. cli[d].server # s
        BY <1>6, <4>1 DEF ClientExact
      <4> QED
        BY <1>10, <4>1, <4>2 DEF ClientExact, ClientType
    <3> QED
      BY <3>1, <3>2
  <2> QED
    BY <2>1, <2>2, <2>3 DEF StateExact
<1>14. FreeExact'
  BY <1>1, <1>11 DEF FreeExact
<1>15. InstancesExact' /\ NoMissedServer'
  BY <1>1, <1>5, <1>9, <1>10, StateFrame
<1>16. ASSUME NEW t \in Threads, pc'[t] # "dead"
       PROVE  WaitInv(t)' /\ ConnectInv(t)' /\ FlushInv(t)' /\ PendingInv(t)'
  <2>1. WaitInv(t) /\ ConnectInv(t) /\ FlushInv(t) /\ PendingInv(t)
    BY <1>1, <1>16 DEF CallInv
  <2>2. \/ t \notin ToSet(q) /\ answer'[t] = answer[t]
        \/ t \in ToSet(q) /\ answer'[t] = "success" /\ pc[t] = "connect"
    BY <1>4, <1>7, <2>1 DEF ConnectInv
  <2>3. ToSet(srv'[s].wait_q) = {}
    BY <1>9 DEF ToSet
  <2>4. WaitInv(t)'
    BY <1>1, <2>1, <2>2 DEF WaitInv
  <2>5. ConnectInv(t)'
    BY <1>1, <1>10, <2>1, <2>2, <2>3 DEF ConnectInv
  <2>6. FlushInv(t)'
    BY <1>1, <1>6, <1>9, <1>10, <2>1, <2>2 DEF FlushInv
  <2>7. PendingInv(t)'
    BY <1>1, <1>6, <1>9, <1>10, <2>1, <2>2 DEF PendingInv
  <2> QED
    BY <2>4, <2>5, <2>6, <2>7
<1> QED
  BY <1>12, <1>13, <1>14, <1>15, <1>16 DEF CallInv

\* A server end goes; with the last one the pipe goes too.
LEMMA CloseServerKeeps == ASSUME IInv, NEW s \in Servers, CloseServer(s) PROVE IInv'
<1> USE NoneAssumption DEF IInv
<1>1. /\ srv \in [Servers -> ServerType] /\ cli \in [Clients -> ClientType] /\ srv[s] \in ServerType
      /\ ServerExact(s)
  BY DEF TypeOK, StateExact
<1>2. PICK i \in DOMAIN servers : servers[i] = s /\ servers' = RemoveAt(servers, i)
  BY DEF CloseServer
<1> DEFINE told == (IF srv[s].wait_q = <<>> THEN {} ELSE {Head(srv[s].wait_q)})
                   \cup (IF servers' = <<>> THEN Waiting ELSE {})
<1>3. /\ srv' = [srv EXCEPT ![s] = FreeServer]
      /\ cli' = IF srv[s].client = None THEN cli
                ELSE [cli EXCEPT ![srv[s].client] = [open |-> TRUE, fd |-> FALSE, server |-> None]]
      /\ answer' = [t \in Threads |-> IF t = srv[s].flush THEN "flushed"
                                      ELSE IF t \in told THEN "closed" ELSE answer[t]]
      /\ waiters' = IF servers' = <<>> THEN <<>> ELSE waiters
      /\ instances' = instances - 1 /\ data' = data \ {s} /\ UNCHANGED <<maxinstances, pc>>
  BY DEF CloseServer
<1>4. /\ servers' \in Seq(Servers) /\ Len(servers) \in Nat /\ i \in 1..Len(servers)
      /\ Len(servers') = Len(servers) - 1
      /\ IsInjective(servers') /\ ToSet(servers') = ToSet(servers) \ {s}
  BY <1>2, RemoveAtFacts, RemoveAtSet DEF TypeOK, InstancesExact
<1>5. told = ToSet(srv[s].wait_q) \cup (IF servers' = <<>> THEN Waiting ELSE {})
  <2>1. CASE srv[s].wait_q = <<>>
    BY <2>1 DEF ToSet
  <2>2. CASE srv[s].wait_q # <<>>
    <3>1. PICK t \in Threads : srv[s].wait_q = <<t>> /\ ToSet(srv[s].wait_q) = {t}
      BY <2>2, QueueShape
    <3>2. Head(srv[s].wait_q) = t
      BY <3>1
    <3> QED
      BY <2>2, <3>1, <3>2
  <2> QED
    BY <2>1, <2>2
<1> HIDE DEF told
<1>6. /\ srv'[s] = FreeServer /\ FreeServer \in ServerType
      /\ FreeServer.state = "free" /\ ~FreeServer.fd /\ FreeServer.client = None
      /\ FreeServer.flush = None /\ FreeServer.wait_q = <<>>
  BY <1>1, <1>3, EmptySeq DEF FreeServer, ServerType
<1>7. \A u \in Servers : u # s => srv'[u] = srv[u]
  BY <1>1, <1>3
<1>8. /\ cli' \in [Clients -> ClientType]
      /\ \A d \in Clients : /\ d # srv[s].client => cli'[d] = cli[d]
                            /\ d = srv[s].client => cli'[d].open /\ ~cli'[d].fd /\ cli'[d].server = None
  <2>1. CASE srv[s].client = None
    BY <1>1, <1>3, <2>1
  <2>2. CASE srv[s].client # None
    <3>1. PICK d \in Clients : d = srv[s].client
      BY <1>1, <2>2 DEF ServerType
    <3>2. cli' = [cli EXCEPT ![d] = [open |-> TRUE, fd |-> FALSE, server |-> None]]
      BY <1>3, <2>2, <3>1
    <3> QED
      BY <1>1, <3>1, <3>2 DEF ClientType
  <2> QED
    BY <2>1, <2>2
<1>9. TypeOK'
  <2>1. srv' \in [Servers -> ServerType]
    BY <1>1, <1>3, <1>6
  <2>2. data' \subseteq Servers /\ answer' \in [Threads -> {"none", "success", "timeout", "closed", "flushed"}]
    BY <1>3 DEF TypeOK
  <2>3. instances' \in Nat /\ maxinstances' \in Nat
    BY <1>3, <1>4 DEF TypeOK, InstancesExact
  <2>4. waiters' \in Seq(WaiterType) /\ pc' \in [Threads -> {"app", "wait", "connect", "flush", "dead"}]
    BY <1>3, EmptySeq DEF TypeOK
  <2> QED
    BY <1>4, <1>8, <2>1, <2>2, <2>3, <2>4 DEF TypeOK
<1>10. StateExact'
  <2>1. ServerExact(s)'
    BY <1>6 DEF ServerExact
  <2>2. ASSUME NEW u \in Servers, u # s PROVE ServerExact(u)'
    <3>1. ServerExact(u) /\ srv'[u] = srv[u] /\ srv[u] \in ServerType
      BY <1>1, <1>7, <2>2 DEF StateExact
    <3>2. srv[u].client # None => srv[u].client # srv[s].client /\ srv[u].client \in Clients
      BY <1>1, <2>2, <3>1 DEF ServerExact, ServerType
    <3> QED
      BY <1>8, <3>1, <3>2 DEF ServerExact
  <2>3. ASSUME NEW d \in Clients PROVE ClientExact(d)'
    <3>1. CASE d = srv[s].client
      BY <1>8, <3>1 DEF ClientExact
    <3>2. CASE d # srv[s].client
      <4>1. ClientExact(d) /\ cli'[d] = cli[d] /\ cli[d] \in ClientType
        BY <1>1, <1>8, <3>2 DEF StateExact
      <4>2. cli[d].server # s
        BY <3>2, <4>1 DEF ClientExact
      <4> QED
        BY <1>7, <4>1, <4>2 DEF ClientExact, ClientType
    <3> QED
      BY <3>1, <3>2
  <2> QED
    BY <2>1, <2>2, <2>3 DEF StateExact
<1>11. FreeExact'
  BY <1>8 DEF FreeExact
<1>12. InstancesExact'
  <2>1. {u \in Servers : srv'[u].state # "free"} = {u \in Servers : srv[u].state # "free"} \ {s}
    BY <1>6, <1>7
  <2>2. instances' = Len(servers') /\ instances' <= maxinstances'
    BY <1>3, <1>4 DEF InstancesExact, TypeOK
  <2> QED
    BY <1>4, <2>1, <2>2 DEF InstancesExact
<1>13. NoMissedServer'
  <2>1. \A u \in Servers : srv'[u].state = "wait_open" => srv[u].state = "wait_open"
    BY <1>6, <1>7
  <2> QED
    BY <1>3, <2>1 DEF NoMissedServer
<1>14. ASSUME NEW t \in Threads, pc'[t] # "dead"
       PROVE  WaitInv(t)' /\ ConnectInv(t)' /\ FlushInv(t)' /\ PendingInv(t)'
  <2>1. WaitInv(t) /\ ConnectInv(t) /\ FlushInv(t) /\ PendingInv(t) /\ pc' = pc
    BY <1>3, <1>14 DEF CallInv
  <2>2. t \in Waiting <=> \E j \in DOMAIN waiters : waiters[j].thread = t
    BY DEF Waiting, ToSet
  <2>3. \/ t = srv[s].flush /\ answer'[t] = "flushed" /\ pc[t] = "flush"
        \/ t \in ToSet(srv[s].wait_q) /\ answer'[t] = "closed" /\ pc[t] = "connect"
        \/ t \in Waiting /\ waiters' = <<>> /\ answer'[t] = "closed" /\ pc[t] = "wait"
        \/ /\ t # srv[s].flush /\ t \notin ToSet(srv[s].wait_q) /\ answer'[t] = answer[t]
           /\ waiters' = waiters \/ (waiters' = <<>> /\ t \notin Waiting)
    BY <1>3, <1>5, <2>1, <2>2 DEF WaitInv, ConnectInv, FlushInv
  <2>4. ToSet(srv'[s].wait_q) = {} /\ srv'[s].flush = None
    BY <1>6 DEF ToSet
  <2>5. waiters' = waiters \/ waiters' = <<>>
    BY <1>3
  <2> HIDE DEF IInv
  <2>6. WaitInv(t)'
    BY <2>1, <2>2, <2>3, <2>5 DEF WaitInv
  <2>7. ConnectInv(t)'
    BY <1>7, <2>1, <2>3, <2>4 DEF ConnectInv
  <2>8. FlushInv(t)'
    BY <1>7, <2>1, <2>3, <2>4 DEF FlushInv
  <2>9. PendingInv(t)'
    BY <1>7, <2>1, <2>2, <2>3, <2>4 DEF PendingInv
  <2> QED
    BY <2>6, <2>7, <2>8, <2>9
<1> QED
  BY <1>9, <1>10, <1>11, <1>12, <1>13, <1>14 DEF CallInv

-----------------------------------------------------------------------------
(***************************************************************************)
(* The theorems.                                                           *)
(***************************************************************************)
\* The inductive invariant holds in every reachable state.
THEOREM InductiveInvariant == Spec => []IInv
<1>1. IInv /\ [Next]_vars => IInv'
  <2> SUFFICES ASSUME IInv, [Next]_vars PROVE IInv'
    OBVIOUS
  <2>1. CASE UNCHANGED vars
    <3>1. TypeOK' /\ StateExact' /\ FreeExact'
      BY <2>1 DEF vars, pipeVars, IInv, TypeOK, StateExact, ServerExact, ClientExact, FreeExact
    <3>2. InstancesExact' /\ NoMissedServer'
      BY <2>1 DEF vars, pipeVars, IInv, InstancesExact, NoMissedServer
    <3>3. CallInv'
      BY <2>1, CallFrame DEF vars, IInv
    <3> QED
      BY <3>1, <3>2, <3>3 DEF IInv
  <2>2. CASE Next
    BY <2>2, ReturnKeeps, DataKeeps, CreateKeeps, WaitKeeps, TimeoutKeeps, ConnectKeeps, FlushKeeps,
       CheckFlushedKeeps, DisconnectKeeps, OpenKeeps, CloseServerKeeps, CloseClientKeeps DEF Next
  <2> QED
    BY <2>1, <2>2
<1> QED
  BY InitIInv, <1>1, PTL DEF Spec

\* Every field of the ends, the lists and the calls stays in its range: in particular
\* pipe->instances never falls below 0.
THEOREM TypeCorrect == Spec => []TypeOK
BY InductiveInvariant, PTL DEF IInv

\* The state of a server end always says which fds and pointers there are on both ends,
\* as the assertions of named_pipe.c expect.
THEOREM StateExactHolds == Spec => []StateExact
BY InductiveInvariant, PTL DEF IInv

\* pipe->instances counts the server ends and stays within the limit.
THEOREM InstancesExactHolds == Spec => []InstancesExact
BY InductiveInvariant, PTL DEF IInv

\* WaitNamedPipe never sleeps while a server end listens, nor on a pipe that is gone.
THEOREM NoMissedServerHolds == Spec => []NoMissedServer
BY InductiveInvariant, PTL DEF IInv

\* How many elements a set has that has at most one.
LEMMA AtMostOne ==
  ASSUME NEW S, \A x, y \in S : x = y
  PROVE  Cardinality(S) = IF S = {} THEN 0 ELSE 1
<1>1. CASE S = {}
  BY <1>1, FS_EmptySet
<1>2. CASE S # {}
  <2>1. PICK x \in S : S = {x}
    BY <1>2
  <2> QED
    BY <1>2, <2>1, FS_Singleton
<1> QED
  BY <1>1, <1>2

\* A call that waits has one answer to come or one that came, and no other, whoever
\* closes, disconnects or dies.
THEOREM OneAnswerHolds == Spec => []OneAnswer
<1>1. IInv => OneAnswer
  <2> SUFFICES ASSUME IInv, NEW t \in Threads, pc[t] # "dead"
               PROVE  OneAnswer!(t)!2
    BY DEF OneAnswer
  <2> DEFINE asyncs == {i \in DOMAIN waiters : waiters[i].thread = t}
             connects == {s \in Servers : t \in ToSet(srv[s].wait_q)}
             flushes == {s \in Servers : srv[s].flush = t}
  <2>1. WaitInv(t) /\ ConnectInv(t) /\ FlushInv(t) /\ PendingInv(t)
    BY DEF IInv, CallInv
  <2>2. /\ pc[t] \in {"app", "wait", "connect", "flush"}
        /\ pc[t] = "app" => answer[t] = "none"
        /\ asyncs # {} <=> pc[t] = "wait" /\ answer[t] = "none"
        /\ connects # {} <=> pc[t] = "connect" /\ answer[t] = "none"
        /\ flushes # {} <=> pc[t] = "flush" /\ answer[t] = "none"
    BY <2>1 DEF IInv, TypeOK, WaitInv, ConnectInv, FlushInv, PendingInv
  <2>3. /\ \A i, j \in asyncs : i = j
        /\ \A s, u \in connects : s = u
        /\ \A s, u \in flushes : s = u
    BY <2>1 DEF WaitInv, ConnectInv, FlushInv
  <2> HIDE DEF asyncs, connects, flushes
  <2>4. /\ Cardinality(asyncs) = IF asyncs = {} THEN 0 ELSE 1
        /\ Cardinality(connects) = IF connects = {} THEN 0 ELSE 1
        /\ Cardinality(flushes) = IF flushes = {} THEN 0 ELSE 1
    BY <2>3, AtMostOne
  <2>5. Cardinality(asyncs) + Cardinality(connects) + Cardinality(flushes)
          + (IF answer[t] = "none" THEN 0 ELSE 1) = IF pc[t] = "app" THEN 0 ELSE 1
    BY <2>2, <2>4
  <2> QED
    BY <2>5 DEF asyncs, connects, flushes
<1> QED
  BY InductiveInvariant, <1>1, PTL
=============================================================================
