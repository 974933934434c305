# A verification project for Wine 0.9.19

Wine runs Windows programs on Unix. What a Windows kernel does (objects, handles, waits,
processes, messages between windows) is done here by one Unix process, the *wineserver*,
which the Windows processes ask for everything over pipes and sockets. This directory holds
TLA+ models of the part of Wine where concurrency, failure and ordering matter most: how
threads lock, wait, are woken up, suspended and killed, how processes share objects
through handles, and how they exchange messages and data over queues and named pipes. Paths below are relative to `src/wine-0.9.19/wine-0.9.19/`.

## 1. Inventory

| Part | State | Operations | Hard because |
|---|---|---|---|
| critical sections, `dlls/ntdll/critsection.c` | `LockCount`, `RecursionCount`, `OwningThread`, a futex word or a semaphore made on demand | enter, try, leave, wait, wake, delete | shared memory without a lock; timeouts and exceptions in the middle of a hand-over |
| wait engine, `server/thread.c` | chain of waits per thread, wait queue per object, suspend counts, APC queues | `select`, `wake_up`, timeouts, APCs, suspend, resume, kill | `wake_up` calls code that changes the queue it walks; a thread waits in several nested waits |
| mutexes, semaphores, events, timers, `server/{mutex,semaphore,event,timer}.c` | counts, owners, signaled flags, pending expirations | signal, release, set, pulse, cancel | owners die; timers fire, repeat and are taken back while their APC is queued |
| client side of waits, `dlls/ntdll/{sync,exception}.c` | nested calls of `wait_reply` on one pipe, stolen replies | wait, run APCs, stop in `wait_suspend` | signal handlers wait on the same pipe as the code they interrupt |
| handle tables, `server/{handle,object}.c` | growing and shrinking arrays of entries, reference counts | allocate, duplicate, inherit, protect, close, cache an fd | raw `realloc`ed memory, three indices that must agree, operations on other processes |
| processes, `server/process.c` | process and thread lists, identifier table with a free list | start, exit, kill, attach | identifiers reused while somebody still holds them |
| message queues, `server/{queue,hook}.c` | posted and sent messages, results in three lists, bits and masks, timers | send, post, receive, reply, time out, destroy a queue | nested sends, early replies, either side dies, a bit per kind of message |
| sending and receiving, `dlls/user/message.c` | the stack of sends and window procedures of a thread | `SendMessage` and its variants, `GetMessage`, `ReplyMessage` | a thread that waits for an answer handles messages and may send again |
| named pipes, mailslots, `server/{named_pipe,mailslot}.c` | state of each end, clients and servers that wait | create, open, listen, wait, flush, disconnect, close | the two ends act in any order, each points to the other |
| fds and main loop, `server/fd.c` | poll set, timeouts, asynchronous operations, file locks | poll, lock, unlock, queue, cancel | one operation ends by event, timeout, cancel or death |
| fds of a client, `dlls/ntdll/server.c` | the server's cache of fd numbers, fds on their way | get, receive, cache, release, close | two requests and a socket, while handles are closed and reused |
| requests, `server/request.c` | partial requests and replies per thread | read, write, pass an fd | non-blocking partial transfers |
| debugger, `server/{debugger,ptrace}.c` | debug events, `process->suspend` | wait, continue, attach, detach | a debugger dies with events open |
| registry, `server/registry.c` | key tree, dirty branches, files | set, save | a crash while saving |
| windows, classes, atoms, regions, clipboard, consoles, sockets, tokens | data of one request at a time | | little: mostly data |
| loader, other DLLs, programs, tools | | | outside of the server's protocols |

How they interact: a client sends a request and sleeps on its reply pipe; the server handles
one request (or one expired timeout, or one hang-up) to its end before the next. Every
blocking call of Windows becomes `select` in the server and a later wake-up message on a
second pipe. SIGUSR1 stops a thread for suspension. A closed pipe tells the server that a
client died. Critical sections need the
server only on a kernel without futexes.

What makes each part correct: critical sections exclude, lose no wake-up and let somebody
in; the wait engine leaves nobody asleep who could run, answers each wait once, hands on what
the dead owned and never follows a freed pointer; a sent message is answered once and the
answer finds its sender; a pipe end's state agrees with its fds and with the other end; a handle means one object until it is
closed, and an object lives exactly as long as something refers to it.

## 2. Modules

| Module | Models |
|---|---|
| `RecursiveLock` | what a critical section promises: a lock its owner may enter again |
| `CritSection` | `critsection.c`, one step per shared access or kernel call |
| `MCCritSection` | which thread recurses |
| `CritSectionProofs` | theorems about `CritSection` |
| `WaitObjects` | the state of waitable objects and their `signaled` and `satisfied` operations |
| `Lists` | positions in lists from which elements are removed |
| `ServerWait` | waits, wake-ups, timeouts, APCs, suspension, death; server and client |
| `MCServerWait` | the workloads of each run |
| `ServerWaitTypes` | theorems about `ServerWait`: types of all variables and of the server's frames |
| `ServerWaitProofs` | theorems: suspension, mutexes, timers, the SIGUSR1 handler, dead threads, queues, replies |
| `ServerWaitWakes` | theorems: the cursor of `wake_up`, and that no wake-up is lost |
| `HandleTable` | handle tables and reference counts |
| `MCHandleTable` | symmetry of the processes |
| `HandleTableProofs` | theorems about `HandleTable` |
| `SendReply` | what `SendMessage` promises: a stack of questions per thread, each answered once |
| `MessageQueue` | sent and posted messages: `queue.c` and the loops of `dlls/user/message.c` |
| `MCMessageQueue` | the workloads of each run |
| `MessageQueueProofs` | theorems about `MessageQueue`, its refinement of `SendReply` among them |
| `NamedPipe` | one named pipe, both kinds of ends, the calls that wait for them |
| `NamedPipeProofs` | theorems about `NamedPipe` |
| `ListTheorems` | lemmas about lists, ranks and least elements that the proofs share |
| `FdCache` | how the threads of a client get, cache and close the fds of handles |

`ServerWait` extends `WaitObjects`; `CritSection` and `MessageQueue` instantiate the abstract
specification they implement.

**Workloads.** What programs ask of a component decides what can go wrong, and asking for
everything at once is beyond model checking. `ServerWait` and `MessageQueue` therefore have a
constant `Workloads`, a set of records (which threads, objects, waits or messages, operations
and faults there are); a behaviour chooses one at the start (`load`) and stays in it. One run
explores several workloads and checks every property in each. In the same way
`CritSection` chooses at the start whether the kernel has futexes (`supported`), which
`use_futexes` finds out once.

**CritSection.** Variables are the fields of `RTL_CRITICAL_SECTION`, the program counter of
each thread and what the kernel keeps (`futex` word, sleepers, `semCount`). `depth` and
`abandoned` are history: how deep each thread is inside, and how many waits an exception
ended. `Step(t)` is the code of `critsection.c`; `Caller(t)` is what applications and the
clock may do. Callers behave: they leave only what they entered and delete only an unused
section. The Mach semaphore build differs only in the kernel call and is left out.

**ServerWait.** `stack` is the server's call stack, because its functions recurse: `wake_up`
calls `wake_thread`, whose write may find the client dead, which runs `kill_thread`, which
runs `abandon_mutexes`, which runs `wake_up`. A step is one round of a loop or one call.
`Idle` is the empty stack: requests, timeouts and hang-ups begin only then, which is the
single-threaded main loop. `client` is the stack of calls inside ntdll per thread, `pipe` the
wake-ups on their way, `sig` the pending SIGUSR1. `corrupt` records that the server followed
a pointer to freed memory (the cursor of `wake_up`). Abstracted: handles are valid, memory is
never short, `process->suspend` is 0, absolute times are only `past`, `future` or `never`, and
exit codes, contexts and APC arguments are not kept. A wait names no object twice
(`WaitArgs`): nothing in the code refuses it, but a wait for all that named a semaphore twice
would take it twice, against the assertion in `semaphore_satisfied`, and `end_wait` would free
the entry that `wake_up` goes on from. A request may signal the object it waits for; `MaxStale`
bounds how many of the replies that this leaves behind (section 5) are in a pipe.

**HandleTable.** A table is the record `[count, last, free, entries]` of `struct
handle_table`; an entry has the object and the marks inherit, protect and "an fd is cached".
`Junk` is the content of memory that `malloc` or `realloc` gave and nobody wrote. Each action
is one request. `BeginWait`/`EndWait` are the references a wait holds. A table that cannot
grow beyond `MaxCount` stands for failed allocations. Access rights, names as text and the
few object types that refuse to be closed are left out. `CloseRemote` says whether a process
closes a handle of another one whose fd is cached; section 5 says what happens then.

**MessageQueue.** Each request of `queue.c` is one action. `res` holds the `message_result`
structures; a result is free when neither its sender nor its receiver is a queue, which is
when the code frees it. `sendResult`, `callbackResult` and `recvResult` are the three lists a
result may be in, `sent` and `posted` the message lists, and the four bit variables the
`wake_bits`, `changed_bits` and masks. On the client's side `calls` is the stack of calls a
thread is in (a send that waits, a window procedure, a callback, a look for messages), and
`pc` the place in the loop of the innermost one (`wait_message_reply`, `GetMessage`,
`peek_message`). A killed thread whose queue has an open handle leaves an `"orphan"` queue,
which stays until the process ends. Left out: hardware input, paint and timer messages and
their bits, hooks, hung queues, the contents of messages, failed allocations.

**NamedPipe.** `srv` and `cli` are the two kinds of ends, `servers`, `instances` and
`maxinstances` the pipe, `waiters` and `wait_q` the queues of asynchronous operations, `pc`
and `answer` the threads that wait and the answer that is on its way to them. `data` says for
which server ends `poll` finds something at the client end. Ends are destroyed when their
last handle is closed, threads may die while they wait. Requests that fail change nothing and
are left out, as are message mode and names.

**FdCache.** The server's `ptr` and `fd` of each handle entry, the fd table of the client's
kernel, the socket fds travel on, and the program counter of each thread in
`wine_server_handle_to_fd` and `NtClose`, one request or system call a step.

## 3. Runs

| Run | Question | Bounds | States |
|---|---|---|---|
| `crit` | is a critical section, with and without futexes, a recursive lock, and does some waiter always get in? | 3 threads, recursion 2 for one of them, 1 abandoned wait | 571,019 |
| `wait` | are waits, suspensions, APCs, timers and deaths handled so that nobody is forgotten or answered twice? | five workloads: 2 mutexes and a semaphore (0..2) with 3 threads; a timer and APCs with 2; a mutex and an event with suspension and 2; 1 mutex, 2 events and dying processes with 3; an event that is signaled and waited for in one call, with suspension and 2 | 2,000,329 |
| `wait_live` | does a timed wait return although its timeout was ignored? | 2 threads, 1 mutex | 18,033 |
| `handle_table` | do tables, handles and references agree? | 2 processes and the global table, 1 object, 3 references, tables of 1 to 4 entries | 111,684 |
| `messages` | are results owned, answers delivered and threads woken, and does `SendMessage` return? | 2 threads, 3 results, calls up to 4 deep; three workloads: 3 messages of all kinds; sent and posted ones with filters; killed threads | 320,787 |
| `named_pipe` | do the two ends agree, and is every call that waits answered once? | 2 threads, 2 server and 2 client ends, limits of 1 and 2 instances | 108,016 |

and six that are expected to fail, section 5.

*What the properties say.* `MutualExclusion`, `OneBaton` (the section is free, offered or
held, never two), `LockCountExact`, `OwnerExact`, `NoLostWakeup`, `LockSpec` (implements
`RecursiveLock`) and `Progress` for critical sections. `NoMissedWake` (between requests nobody
sleeps who could go on), `MutexExact` (count, owner and the owner's list agree, no dead
owner), `OneAnswer` (each client wait has exactly one reply to come, wherever it is, and no
reply is left over but those of threads that woke themselves), `KilledClientWakes`, `SafeWithoutCrashes` (no freed pointer is followed as
long as no process dies by itself), `SuspendedAcquireNothing`,
`NoNestedSuspend`, `TimerApcExact` and `TimedWaitReturns` for waits; `TypeOK` of `ServerWait`
also says that the queues hold exactly the entries of the waits in progress. `Initialised`,
`FirstFree`, `LastUsed`, `RefcountExact` and `HandleStable` for handles. `ResultsOwned` (a result is in
exactly the lists that its pointers say, and in none once freed), `StacksMatch` (the server's
two stacks of a thread are the calls it is in, innermost first), `NoLostWake`, `BitsExact`,
`SendReplySpec` (implements `SendReply`) and `SendsReturn` for messages. `StateExact` (the
assertions of `named_pipe.c`), `OneAnswer`, `NoMissedServer`, `InstancesExact` and
`FlushReturns` for pipes.

*Why the bounds are enough.* Three threads are an owner, a waiter that is being woken and one
that interferes; with two, hand-over and competition never happen together (the workloads on suspension,
APCs and timeouts need only one thread that waits and one that acts on it). Recursion 2 of one
thread is needed for the recursive path of leave, and one abandoned wait for the count that never comes
back. A wait of each kind (one, any, all, timed, for a thread or process) is in some workload.
Tables with `MIN_HANDLE_ENTRIES` 1 go through 1, 2 and 4 entries, so they grow twice, shrink
from 4 to 2 with one handle left and grow again with three references. At most one mark per
entry is set at a time (`Marks`), which the code treats independently. Three messages between
two threads are a send, one sent from its window procedure and one from that one's: the
shortest stack in which an answer can go to the wrong message on either side. Two instances of
a pipe are a listening end and another one to be mistaken for it, two threads a client that
waits and a server that connects.

*Deadlock* is checked for critical sections, handle tables and pipes. In `ServerWait`,
`MessageQueue` and `FdCache` applications may wait or stop for ever, so it is off; in the first
two liveness properties take its place.

*Fairness.* Critical sections: weak fairness of each thread's own steps, which is a scheduler
that runs every thread; nothing is assumed of timeouts, so `Progress` is not saved by the
retry after 5 seconds, and it assumes that owners leave. `wait_live`: weak fairness of the
server's steps, and strong fairness of each client inside ntdll, of each timeout and of each
hang-up, because they are enabled only while the server is idle and every round of its main
loop serves all of them. Applications are never assumed to do anything. `messages`: weak
fairness of each thread inside the loops of `message.c` and of the return of a window
procedure, and of an idle thread calling `GetMessage`; timeouts are not assumed to expire.
`SendsReturn` holds for programs without `SMTO_BLOCK`, modal loops and killed threads
(`Cooperative`): each of the three lets a sender wait for ever, by design of the API or, for a
killed thread, because its queue lives as long as its process. `named_pipe`: weak fairness of
`check_flushed`, which the main loop runs every 100 ms, and of a call that has its answer.

*Mutants.* Each property is shown to fail for a plausible slip in a definition that models
code: the operators marked "Mutant" in the modules.

## 4. Proofs

The theorems hold for every value of the constants that the named assumptions allow, and
show for all of them what the runs of section 3 check on small instances. All safety properties
of the passing runs are proved, the two refinements included; `NoMissedWake`, which is not true in
general, for the workloads that `Plain` describes.

**CritSectionProofs** (429 obligations), for any finite number of threads, any recursion bounds,
with and without futexes: `TypeCorrect`, `MutualExclusionHolds`, `OneBatonHolds`,
`OwnerExactHolds`, `NoLostWakeupHolds`, `LockCountExactHolds` and `ImplementsLock` (every step
is a step of `RecursiveLock` or a stutter). `MutualExclusion` is not inductive: a waiter gets in
because the owner passed it the baton, so `IInv` also says where the baton is (`OneBaton`), at
which points what counts hold (`PointInv`, `CountInv`), that the owner field is right where the
code reads it without a lock (`OwnerInv`), and that all threads agree on the installed semaphore
(`SemInv`). For `NoLostWakeup`, `SleepInv` adds that while somebody sleeps, a futex word that is set
belongs to a thread that is about to wake or to wait, and an unused wake-up is not left in the
semaphore. `LockCountExact` counts the set of threads past their increment (`Counted`): a step adds
or removes one thread at most, so that no induction is needed. Assumptions: `NoThread` is not a
thread, `Threads` is finite, the switches are Boolean, bounds are natural numbers.

**HandleTableProofs** (1399 obligations), for any finite set of processes, any objects and any table
size, under `CloseRemote = FALSE` (`handle_leak` in section 5 is what happens otherwise):
`InitialisedHolds`, `FirstFreeHolds`, `LastUsedHolds`, `RefcountExactHolds`, `TypeOKHolds` and the
action property `HandleStableHolds`. The first three follow from `Shape`: of every table
`last < count`, entries up to `last` were written, entries below `free` are in use and entry
`last` is in use. None of these is inductive alone: shrinking keeps `free <= last + 1` only
because the entries below `free` are in use, and allocating keeps memory initialised only
because `free <= last + 1`. One lemma per function of `handle.c` (`AllocOK`, `ShrunkOK`,
`ClosedOK`, `InheritedOK`, `DuplicatedOK`) says that it leaves the shape behind and what handles
name an object afterwards. References are counted by the set of pairs of a table and an index
that name the object (`References`): `Gained` and `Dropped` are one pair more and one less, a
process that starts or ends adds or takes a row. `RefInv` also says that every reference is in the
table of a living process or the global one: what a new process inherits then adds to the
references without an overlap. `ClosesOne`,
a fact about every step, gives `HandleStable`. That the downward loop of `shrink_handle_table`
finds the last used entry needs a largest element of a bounded set. Assumptions: the special
values are distinct, `Processes` is finite, and `MIN_HANDLE_ENTRIES` is positive and at most
`MaxCount`.

**NamedPipeProofs** (1084 obligations), for any ends, threads and instance limits: `TypeCorrect`,
`StateExactHolds`, `InstancesExactHolds`, `NoMissedServerHolds` and `OneAnswerHolds`. The inductive
invariant adds that an address no client end uses has nothing left (`FreeExact`) and, for each
thread, where its call is (`CallInv`): in the queue of the pipe, of one server end or in one
flush, each at most once and with no answer yet, or answered.

**ServerWaitTypes, ServerWaitProofs, ServerWaitWakes** (2450, 3684 and 4996 obligations), for any
threads, objects, workloads and bounds. The model is a recursive program with an explicit stack, so
its invariants speak of every frame of the stack and not only of the top one:

* `TypesHold`: every variable has its type, and `select` is only ever the outermost call
  (`SelectInv`). The types are not routine: a frame of `abandon_mutexes` has a dead thread
  (`ServerFrames(dead)`), and `StackStep` says how one step may change the stack.
* `SuspendedAcquireNothingHolds`, `NoNestedSuspendHolds` (action properties), from `ClientInv`:
  the SIGUSR1 handler is the innermost call and is never entered twice (`ClientHolds`).
* `MutexExactHolds` with `DeadHolds`: a dead thread has no wait, and owns a mutex only while a
  frame of `abandon_mutexes` for it is on the stack, which `Idle` excludes.
* `TimerApcExactHolds`, which is inductive once it is stated per thread and timer: a timer is at
  most once in a thread's queue, and only in that of its `apc_thread` if the thread lives.
* `WaitHolds`: the queues hold the entries of the waits, each once (`QueueInv`); each wait of the
  server belongs to a frame of the client, in the same order (`Fits`); the reply to each reading
  frame is in exactly one of the waits, the pipe and the replies that inner frames stole
  (`Answered`), where the stolen ones are for outer frames only; and a killed client has something
  to read (`Told`). These need each other: that a reply finds its frame needs the order, and the
  order needs that no inner frame returns before its wait has ended. `OneAnswerHolds`,
  `KilledClientWakesHolds` and `TypeOKHolds` follow; `OneAnswer` counts sets, which are singletons.
* `SafeWithoutCrashesHolds`, from `CrashInv`: as long as no process dies unnoticed, `wake_up` calls
  nothing but `wake_thread`, which removes entries of one thread only, and the saved cursor is an
  entry of another thread or the end of the list. That it is of another thread is where no
  object is waited for twice in one wait, and no thread twice in one queue, is needed.
* `NoMissedWakeHolds`: `Spec => [](Plain => NoMissedWake)`. `Plain` says that no process crashes, that no
  wait for all has both a timeout and a *counted* object (a semaphore or an auto-reset event, whose signal is
  for one waiter), and that signal-and-wait waits for one object, as `NtSignalAndWaitForSingleObject` does;
  suspensions, APCs, nested waits, kills and pulses are all allowed. The second condition cannot
  be dropped: in the workload of `semaphore_waiter` TLC finds `NoMissedWake` violated. The first
  may be stronger than needed: the run `wait` finds no violation with crashes.

The argument for `NoMissedWake` has to hold inside a request, where threads do wait for what they
could have. `WakeInv` (proved inductive in `WakeHolds`, with the invariants above) says why each of
them (`Missed`) will not be left behind:

* `Covers`: some frame of the server's stack is going to look at it: `wake_thread` or `select` of that
  thread, a `wake_up` whose cursor has its entry still ahead (`Comes`, `Ahead`), or `abandon_mutexes`,
  which calls `wake_up` for each object it releases.
* `BudgetInv`: `wake_up` with a count stops early, which would break `Covers`; it may because whoever still
  waits has waited for nothing but this object, and exactly as many signals of it are left as threads
  are to be woken (`Exact`, `Only`, `Left`). A thread that leaves with a timeout is counted but takes
  nothing; this is what `Plain` and `PlainInv` exclude.
* `PlainInv`: only the outermost wait of a thread has objects, the inner ones being those of the SIGUSR1
  handler, and a timeout that is not yet due has a timer that will look at the wait.

`RisesMissed` is the common form of the steps that signal: whoever is newly missed waits for the signaled
object, and for no other that is signaled. `CalmerMissed` is that of the steps that signal nothing.
`IInv` of `ServerWait` puts all these invariants together: `INVARIANT IInv` in a cfg has TLC check them
before a change of the model is proved again.

Assumptions: workloads name threads and objects of the model and waits without duplicates, the
special values are distinct, bounds are natural numbers.

**MessageQueueProofs** (4282 obligations), for any threads and workloads, any finite set of results and
any nesting of calls: `TypeOKHolds`, `ResultsOwnedHolds`, `StacksMatchHolds`, `BitsExactHolds`,
`NoLostWakeHolds` and `ImplementsSendReply`. All rest on one inductive invariant (`IInvHolds`), whose
parts need each other:

* `ListsInv` is `ResultsOwned` per list and element: a result is in its sender's stack or, for a
  callback, in its callback set, and in its receiver's message list until the message is received, then
  in its stack of messages to answer. `ResultInv` says what a result may be (free, waiting,
  answered), which is why a timeout never meets an answered one and an answer is given once.
* `StacksMatch` needs the shape of the client's calls (`CallsInv`: waits and window procedures
  alternate, and `pc` belongs to the innermost one). It tells that `reply_message` and
  `get_message_reply`, which name no message, take the one that the client means.
* `BitsExact` says what is in the lists. `QS_SMRESULT` is the exception: it may outlive the answer it was
  set for (section 5), so `AnswerInv` says only that some message of the stack was answered
  whenever it is set. `NoLostWake` follows with `MaskInv`: a sleeper has the masks of its innermost call,
  and unless `QS_POSTMESSAGE` is in its changed bits, no posted message matches its filter.

Replies, timeouts, destroyed windows and threads that go away all cut some results from the lists and answer
others, one or many at once. `AnswerStep` is that common form; each of the four is shown to have it
(`ReplyStep`, `TimeoutStep`, `CleanupStep`, `DestroyStep`), and that it keeps the invariant, and that it
is a step of `SendReply`, is proved once (`AnswerKeeps`, `AnswerSeen`). In the refinement a send pushes an
unanswered message, `get_message_reply` is `GiveUp`, because its caller knows only what `AnswerInv` says,
and whatever a destroyed queue owed is denied in the step in which its own stack goes (`Die`).
Assumptions: the null pointers are not threads or results, `Results` is finite (a result that is allocated
stands for memory; answering many of them adds as many callback messages to a list), bounds are natural
numbers, workloads are the records that `WorkloadAssumption` describes.

**ListTheorems** (523 obligations) has what the proofs share about lists: removing an element,
appending, filtering by rank (`Rank` and `Kept` are recursive functions), injective lists. The
library's induction theorems take an operator and cannot be used; induction is replaced by the
least element of a set of counterexamples (`LeastNatural`).

Only model-checked:

* liveness (`Progress`, `TimedWaitReturns`, `SendsReturn`, `FlushReturns`), out of the
  prover's reach;
* `NoMissedWake` of processes that crash (the workload `CrashLoad` of the run `wait`).

## 5. What does not hold

* `semaphore_waiter`: `server/semaphore.c:101` says "there cannot be any thread to wake up if
  the count is != 0". `wake_up` also counts a thread that left with a timeout.
* `suspend_race`: `dlls/ntdll/exception.c:162` says that the wait in `wait_suspend` "will only
  return once the thread is no longer suspended". A thread suspended again before it has fetched its
  context gets no signal and runs on.
* `wake_cursor`: `wake_up` uses `LIST_FOR_EACH_SAFE`, and its body can free the next entry when
  a client turns out to be dead.
* `handle_leak`: `close_handle` clears the entry and then returns early at
  `server/handle.c:354`. The object keeps a reference that nobody owns, and `free` and `last`
  are not brought back, so that the shape proved in section 4 is lost as well.

* `stale_answer`: `dlls/user/message.c:2112` says of `wait_message_reply` "Wait until a sent
  message gets replied to." `QS_SMRESULT` may still be set for an earlier send: the thread sent
  a message with a timeout, handles another one while it waits, the timeout expires, and the
  window procedure sends again. The new send returns at once and its answer is thrown away.
  This is why `SendReply` has the step `GiveUp`.
* `fd_cache`: `dlls/ntdll/server.c:477` says of `wine_server_handle_to_fd` "Retrieve the file
  descriptor corresponding to a file handle." When another thread closes the handle and opens
  a second file, which gets the same handle, between the two requests that fetch and cache an
  fd, the first file's fd is cached for the second one.

`NoMissedWake` holds in the passing run because that has no wait for all with a timeout on a
semaphore or an auto-reset event (`Plain`, section 4). `SafeWithoutCrashes` is what is left of `NoCorruption`: it needs a process that dies,
and section 4 proves that nothing else breaks it.

Two things that the proofs brought to light, and that no line of the code denies. A
`SignalObjectAndWait` whose own signal wakes it is answered twice: `wake_thread` writes a reply
to the pipe, with the cookie of a wait that has none yet, and `select_on` ends the wait
again. The reply stays in the pipe until a later `wait_reply` of the thread steals it as one
for somebody else. `OneAnswer` was false as first stated, and the workload `SelfLoad` keeps the
case in the run. And `wake_up`, `end_wait` and `semaphore_satisfied` take for granted that no wait
names an object twice, which `select` does not check.

## 6. Not modelled, and the plan

Done: the critical section, the wait engine with its objects, the handle tables, messages
between threads, named pipes and the fd cache. What is not modelled, and why:

* `get_named_pipe_info` follows the pointer of a client end to its server end, which may be
  NULL; it changes nothing and no action stands for it. The fd of a disconnected end that the
  client process has cached needs `NamedPipe` and `FdCache` together.
* Hardware input, paint and timer messages, hooks and the hung state of a queue: more bits of
  the same kind, and a shared input structure of its own.
* Identifiers of processes and threads and their reuse (`process.c`),
  `Debugger` events, which need `process->suspend` in `ServerWait`; file locks and the
  asynchronous operations of files (`fd.c`), whose waiters are those of `ServerWait`; partial
  transfers of requests (`request.c`); saving of the registry. These can be modelled and are
  the next modules, in this order.

Theorem to prove next: `NoMissedWake` of `ServerWait` for processes that crash, up to the step in which the
server follows a freed pointer.

Left out for good: rendering, text, sound, the registers of a context, generated request tracing,
the loader and the build tools; they have no protocol to check or are pure data.
