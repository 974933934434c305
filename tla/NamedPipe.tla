------------------------------ MODULE NamedPipe ------------------------------
(***************************************************************************)
(* One named pipe of the wineserver (server/named_pipe.c): its server and  *)
(* client ends, the clients that wait for a server (WaitNamedPipe), the    *)
(* servers that wait for a client (ConnectNamedPipe) and the flush of a    *)
(* server end (FlushFileBuffers), with the asynchronous operations of      *)
(* server/fd.c and the waits of dlls/ntdll/file.c.                         *)
(*                                                                         *)
(* Every request is one action; requests that fail change nothing and are  *)
(* left out.  An end is destroyed when its last handle is closed.  Of the  *)
(* data only what the flush asks is kept: has the server written something *)
(* that the client has not read.  Names, modes and failed allocations are  *)
(* left out.                                                               *)
(***************************************************************************)
EXTENDS Naturals, SequencesExt

CONSTANTS
  Threads,        \* threads that make the calls that wait
  Servers,        \* addresses of server ends
  Clients,        \* addresses of client ends
  None,           \* a null pointer
  MaxInstances    \* bound: the limits of instances that are asked for

ASSUME NoneAssumption == None \notin Threads \cup Servers \cup Clients
ASSUME LimitAssumption == MaxInstances \in Nat

VARIABLES
  srv,           \* struct pipe_server, of each address
  cli,           \* struct pipe_client, of each address
  data,          \* the server ends whose client has something to read
  servers,       \* pipe->servers
  instances,     \* pipe->instances
  maxinstances,  \* pipe->maxinstances
  waiters,       \* pipe->waiters: the thread of each async, and has it a timeout
  pc,            \* the call each thread waits in
  answer         \* the status its APC or event brings, "none" before

pipeVars == <<servers, instances, maxinstances>>
vars == <<srv, cli, data, pipeVars, waiters, pc, answer>>

States == {"idle", "wait_open", "connected", "wait_disconnect", "disconnected", "wait_connect"}

\* flush is the thread that waits for server->event; it is None when flush_poll is NULL.
FreeServer == [state |-> "free", fd |-> FALSE, client |-> None, flush |-> None, wait_q |-> <<>>]
FreeClient == [open |-> FALSE, fd |-> FALSE, server |-> None]

Init ==
  /\ srv = [s \in Servers |-> FreeServer]
  /\ cli = [c \in Clients |-> FreeClient]
  /\ data = {}
  /\ servers = <<>> /\ instances = 0 /\ maxinstances = 0
  /\ waiters = <<>>
  /\ pc = [t \in Threads |-> "app"]
  /\ answer = [t \in Threads |-> "none"]

-----------------------------------------------------------------------------
(* Answers: async_terminate queues an APC for a thread, set_event sets the *)
(* event of a flush.                                                       *)

Answered(ts, status) == answer' = [t \in Threads |-> IF t \in ts THEN status ELSE answer[t]]
Waiting == {w.thread : w \in ToSet(waiters)}

Blocks(t, call) == pc[t] = "app" /\ pc' = [pc EXCEPT ![t] = call]

\* The call returns with its answer.
Return(t) ==
  /\ pc[t] \in {"wait", "connect", "flush"} /\ answer[t] # "none"
  /\ pc' = [pc EXCEPT ![t] = "app"]
  /\ answer' = [answer EXCEPT ![t] = "none"]
  /\ UNCHANGED <<srv, cli, data, pipeVars, waiters>>

\* A thread dies; its asyncs stay where they are.
ThreadDies(t) ==
  /\ pc[t] # "dead"
  /\ pc' = [pc EXCEPT ![t] = "dead"]
  /\ UNCHANGED <<srv, cli, data, pipeVars, waiters, answer>>

-----------------------------------------------------------------------------
(* Creating and opening.                                                   *)

\* Mutant of MayCreate: one instance too many.
MayCreateMore(m) == servers = <<>> \/ (maxinstances >= instances /\ m = maxinstances)

\* create_named_pipe for a new pipe, or for one that has room and the same parameters.
MayCreate(m) == servers = <<>> \/ (maxinstances > instances /\ m = maxinstances)

\* Mutant of NewServer: flush_poll is not initialised.
NewServerUnset == [FreeServer EXCEPT !.state = "idle", !.flush = "unset"]

\* create_pipe_server.
NewServer == [FreeServer EXCEPT !.state = "idle"]

CreateNamedPipe(s, m) ==
  /\ srv[s].state = "free" /\ MayCreate(m)
  /\ srv' = [srv EXCEPT ![s] = NewServer]
  /\ servers' = <<s>> \o servers
  /\ instances' = IF servers = <<>> THEN 1 ELSE instances + 1
  /\ maxinstances' = IF servers = <<>> THEN m ELSE maxinstances
  /\ UNCHANGED <<cli, data, waiters, pc, answer>>

\* find_server2: the first of the list that listens or was never connected.
Listening(s) == srv[s].state \in {"idle", "wait_open"}
First(i) == Listening(servers[i]) /\ \A j \in 1..(i - 1) : ~Listening(servers[j])

\* open_named_pipe; a ConnectNamedPipe that waits on the server end is answered.
OpenNamedPipe(c) ==
  /\ ~cli[c].open
  /\ \E i \in DOMAIN servers :
       LET s == servers[i]
           q == srv[s].wait_q
           head == IF srv[s].state = "wait_open" /\ q # <<>> THEN {Head(q)} ELSE {}
       IN  /\ First(i)
           /\ srv' = [srv EXCEPT ![s] = [state |-> "connected", fd |-> TRUE, client |-> c,
                                         flush |-> srv[s].flush,
                                         wait_q |-> IF head = {} THEN q ELSE Tail(q)]]
           /\ data' = data \ {s}
           /\ cli' = [cli EXCEPT ![c] = [open |-> TRUE, fd |-> TRUE, server |-> s]]
           /\ Answered(head, "success")
  /\ UNCHANGED <<pipeVars, waiters, pc>>

\* Mutant of Connect: the clients that wait for the pipe are not told.
ConnectSilent(t, s) ==
  /\ srv[s].state \in {"idle", "wait_connect"} /\ Blocks(t, "connect")
  /\ srv' = [srv EXCEPT ![s].state = "wait_open", ![s].wait_q = Append(@, t)]
  /\ UNCHANGED <<cli, data, pipeVars, waiters, answer>>

\* connect_named_pipe, of a server end that is not connected.
Connect(t, s) ==
  /\ srv[s].state \in {"idle", "wait_connect"} /\ Blocks(t, "connect")
  /\ srv' = [srv EXCEPT ![s].state = "wait_open", ![s].wait_q = Append(@, t)]
  /\ Answered(Waiting, "success")
  /\ waiters' = <<>>
  /\ UNCHANGED <<cli, data, pipeVars>>

\* wait_named_pipe, of a pipe that exists: a server that listens answers at once.
WaitNamedPipe(t, timed) ==
  /\ servers # <<>> /\ Blocks(t, "wait")
  /\ IF \E s \in Servers : srv[s].state = "wait_open"
     THEN Answered({t}, "success") /\ UNCHANGED waiters
     ELSE /\ waiters' = Append(waiters, [thread |-> t, timed |-> timed])
          /\ UNCHANGED answer
  /\ UNCHANGED <<srv, cli, data, pipeVars>>

\* Mutant of WaitTimeout: the async stays in the list.
WaitTimeoutKeeps(t) ==
  /\ [thread |-> t, timed |-> TRUE] \in ToSet(waiters)
  /\ Answered({t}, "timeout")
  /\ UNCHANGED <<srv, cli, data, pipeVars, waiters, pc>>

\* async_callback: the timeout of a WaitNamedPipe.
WaitTimeout(t) ==
  /\ \E i \in DOMAIN waiters :
       /\ waiters[i] = [thread |-> t, timed |-> TRUE]
       /\ waiters' = RemoveAt(waiters, i)
  /\ Answered({t}, "timeout")
  /\ UNCHANGED <<srv, cli, data, pipeVars, pc>>

-----------------------------------------------------------------------------
(* Data, and the flush of a server end.                                    *)

Write(s) ==
  /\ srv[s].state = "connected"
  /\ data' = data \cup {s}
  /\ UNCHANGED <<srv, cli, pipeVars, waiters, pc, answer>>

Read(c) ==
  /\ cli[c].fd
  /\ data' = data \ {cli[c].server}
  /\ UNCHANGED <<srv, cli, pipeVars, waiters, pc, answer>>

\* pipe_server_flush when there is something to wait for.
Flush(t, s) ==
  /\ srv[s].state = "connected" /\ srv[s].flush = None /\ s \in data
  /\ Blocks(t, "flush")
  /\ srv' = [srv EXCEPT ![s].flush = t]
  /\ UNCHANGED <<cli, data, pipeVars, waiters, answer>>

\* Mutant of CheckFlushed: the result of poll is taken the wrong way round.
CheckFlushedInverted(s) ==
  /\ srv[s].flush # None /\ s \in data
  /\ Answered({srv[s].flush}, "flushed")
  /\ srv' = [srv EXCEPT ![s].flush = None]
  /\ UNCHANGED <<cli, data, pipeVars, waiters, pc>>

\* check_flushed, once the client has read everything; before, it only polls again.
CheckFlushed(s) ==
  /\ srv[s].flush # None /\ s \notin data
  /\ Answered({srv[s].flush}, "flushed")
  /\ srv' = [srv EXCEPT ![s].flush = None]
  /\ UNCHANGED <<cli, data, pipeVars, waiters, pc>>

-----------------------------------------------------------------------------
(* The ends part.                                                          *)

\* do_disconnect: the fds of both ends go.
WithoutFd(c) == IF c = None THEN cli ELSE [cli EXCEPT ![c].fd = FALSE]

\* Mutant of Disconnect: the client end keeps its fd.
DisconnectKeepsFd(s) ==
  /\ srv[s].state \in {"connected", "wait_disconnect"}
  /\ srv' = [srv EXCEPT
       ![s].state = IF @ = "connected" THEN "disconnected" ELSE "wait_connect",
       ![s].fd = FALSE, ![s].flush = None]
  /\ Answered({srv[s].flush}, "flushed")
  /\ data' = data \ {s}
  /\ UNCHANGED <<cli, pipeVars, waiters, pc>>

\* disconnect_named_pipe, of an end with a connection; a flush is over (notify_empty).
Disconnect(s) ==
  /\ srv[s].state \in {"connected", "wait_disconnect"}
  /\ srv' = [srv EXCEPT
       ![s].state = IF @ = "connected" THEN "disconnected" ELSE "wait_connect",
       ![s].fd = FALSE, ![s].flush = None]
  /\ Answered({srv[s].flush}, "flushed")
  /\ cli' = WithoutFd(srv[s].client)
  /\ data' = data \ {s}
  /\ UNCHANGED <<pipeVars, waiters, pc>>

\* pipe_server_destroy; with the last server end the pipe goes too (named_pipe_destroy),
\* and the clients that wait for it are told.
CloseServer(s) ==
  /\ \E i \in DOMAIN servers : servers[i] = s /\ servers' = RemoveAt(servers, i)
  /\ srv' = [srv EXCEPT ![s] = FreeServer]
  /\ cli' = IF srv[s].client = None THEN cli
            ELSE [cli EXCEPT ![srv[s].client] = [open |-> TRUE, fd |-> FALSE, server |-> None]]
  /\ LET told == (IF srv[s].wait_q = <<>> THEN {} ELSE {Head(srv[s].wait_q)})
                 \cup (IF servers' = <<>> THEN Waiting ELSE {})
     IN answer' = [t \in Threads |-> IF t = srv[s].flush THEN "flushed"
                                     ELSE IF t \in told THEN "closed" ELSE answer[t]]
  /\ waiters' = IF servers' = <<>> THEN <<>> ELSE waiters
  /\ instances' = instances - 1
  /\ data' = data \ {s}
  /\ UNCHANGED <<maxinstances, pc>>

\* pipe_client_destroy: the server end keeps its fd until it disconnects.
CloseClient(c) ==
  /\ cli[c].open
  /\ LET s == cli[c].server
     IN  IF s = None THEN UNCHANGED <<srv, answer>>
         ELSE /\ srv' = [srv EXCEPT ![s].client = None, ![s].flush = None,
                           ![s].state = IF @ = "connected" THEN "wait_disconnect" ELSE "wait_connect"]
              /\ Answered({srv[s].flush}, "flushed")
  /\ cli' = [cli EXCEPT ![c] = FreeClient]
  /\ data' = data \ {cli[c].server}
  /\ UNCHANGED <<pipeVars, waiters, pc>>

-----------------------------------------------------------------------------
Next ==
  \/ \E t \in Threads :
       \/ Return(t) \/ ThreadDies(t) \/ WaitTimeout(t)
       \/ \E timed \in BOOLEAN : WaitNamedPipe(t, timed)
       \/ \E s \in Servers : Connect(t, s) \/ Flush(t, s)
  \/ \E s \in Servers :
       \/ \E m \in 1..MaxInstances : CreateNamedPipe(s, m)
       \/ Write(s) \/ CheckFlushed(s) \/ Disconnect(s) \/ CloseServer(s)
  \/ \E c \in Clients : OpenNamedPipe(c) \/ Read(c) \/ CloseClient(c)

Spec == Init /\ [][Next]_vars

\* The server's main loop runs check_flushed every 100 ms, and a call that has its answer
\* returns.  Nothing is assumed of the ends.
FairSpec ==
  /\ Spec
  /\ \A s \in Servers : WF_vars(CheckFlushed(s))
  /\ \A t \in Threads : WF_vars(Return(t))

-----------------------------------------------------------------------------
(* Properties.                                                             *)

ServerType == [state : States \cup {"free"}, fd : BOOLEAN, client : Clients \cup {None},
               flush : Threads \cup {None}, wait_q : Seq(Threads)]
WaiterType == [thread : Threads, timed : BOOLEAN]
ClientType == [open : BOOLEAN, fd : BOOLEAN, server : Servers \cup {None}]

TypeOK ==
  /\ srv \in [Servers -> ServerType]
  /\ cli \in [Clients -> ClientType]
  /\ data \subseteq Servers
  /\ servers \in Seq(Servers) /\ instances \in Nat /\ maxinstances \in Nat
  /\ waiters \in Seq(WaiterType)
  /\ pc \in [Threads -> {"app", "wait", "connect", "flush", "dead"}]
  /\ answer \in [Threads -> {"none", "success", "timeout", "closed", "flushed"}]

\* What the assertions of named_pipe.c rely on: the state of a server end says which fds
\* and pointers there are on both ends, a flush is polled only while the ends are
\* connected, and a ConnectNamedPipe is pending only while the end waits for a client.
ServerExact(s) ==
  LET x == srv[s]
  IN  /\ x.fd <=> x.state \in {"connected", "wait_disconnect"}
      /\ x.client # None <=> x.state \in {"connected", "disconnected"}
      /\ x.client # None => cli[x.client].server = s
                            /\ (cli[x.client].fd <=> x.state = "connected")
      /\ x.flush # None => x.state = "connected"
      /\ x.wait_q # <<>> => x.state = "wait_open" /\ Len(x.wait_q) = 1
ClientExact(c) ==
  /\ cli[c].fd => cli[c].server # None
  /\ cli[c].server # None => srv[cli[c].server].client = c
StateExact == (\A s \in Servers : ServerExact(s)) /\ \A c \in Clients : ClientExact(c)

\* A call that waits has one answer to come or one that came, and no other: the asyncs and
\* the flush events are never lost and never used twice, whoever closes what.
OneAnswer ==
  \A t \in Threads : pc[t] # "dead" =>
    LET asyncs == Cardinality({i \in DOMAIN waiters : waiters[i].thread = t})
        connects == Cardinality({s \in Servers : t \in ToSet(srv[s].wait_q)})
        flushes == Cardinality({s \in Servers : srv[s].flush = t})
        came == IF answer[t] = "none" THEN 0 ELSE 1
    IN  asyncs + connects + flushes + came = IF pc[t] = "app" THEN 0 ELSE 1

\* WaitNamedPipe does not sleep while a server end waits for a client, nor for a pipe that
\* is gone.
NoMissedServer ==
  waiters # <<>> => servers # <<>> /\ \A s \in Servers : srv[s].state # "wait_open"

\* pipe->instances counts the server ends and stays within the limit (the assertions of
\* pipe_server_destroy and named_pipe_destroy).
InstancesExact ==
  /\ instances = Len(servers)
  /\ ToSet(servers) = {s \in Servers : srv[s].state # "free"}
  /\ IsInjective(servers) /\ instances <= maxinstances

\* FlushFileBuffers on a server end returns if the client end reads everything or either
\* end goes away, although all there is is a poll.
FlushReturns ==
  \A t \in Threads : <>[](data = {}) => []<>(pc[t] # "flush")

-----------------------------------------------------------------------------
(***************************************************************************)
(* The inductive invariant behind the safety properties.                   *)
(***************************************************************************)
\* What a thread waits for and where its async or its event is: an async or an event of a
\* living thread belongs to the call the thread is in, which has no answer yet.
WaitInv(t) ==
  \A i \in DOMAIN waiters : waiters[i].thread = t =>
    /\ pc[t] = "wait" /\ answer[t] = "none"
    /\ \A j \in DOMAIN waiters : waiters[j].thread = t => i = j
ConnectInv(t) ==
  \A s \in Servers : t \in ToSet(srv[s].wait_q) =>
    /\ pc[t] = "connect" /\ answer[t] = "none"
    /\ \A u \in Servers : t \in ToSet(srv[u].wait_q) => s = u
FlushInv(t) ==
  \A s \in Servers : srv[s].flush = t =>
    /\ pc[t] = "flush" /\ answer[t] = "none"
    /\ \A u \in Servers : srv[u].flush = t => s = u
PendingInv(t) ==
  /\ pc[t] = "app" => answer[t] = "none"
  /\ answer[t] = "none" =>
       /\ pc[t] = "wait" => \E i \in DOMAIN waiters : waiters[i].thread = t
       /\ pc[t] = "connect" => \E s \in Servers : t \in ToSet(srv[s].wait_q)
       /\ pc[t] = "flush" => \E s \in Servers : srv[s].flush = t
CallInv ==
  \A t \in Threads : pc[t] # "dead" => WaitInv(t) /\ ConnectInv(t) /\ FlushInv(t) /\ PendingInv(t)

\* An address that no client end uses has nothing left.
FreeExact == \A c \in Clients : ~cli[c].open => ~cli[c].fd /\ cli[c].server = None

IInv == TypeOK /\ StateExact /\ FreeExact /\ InstancesExact /\ NoMissedServer /\ CallInv
=============================================================================
