----------------------------- MODULE MessageQueue -----------------------------
(***************************************************************************)
(* Messages sent between threads (server/queue.c) and the client code that *)
(* waits for their answers and handles them (dlls/user/message.c).         *)
(*                                                                         *)
(* A sent message has a result structure that the queues of the sender and *)
(* of the receiver share; it is freed by whichever lets go of it last.     *)
(* Every server request is one action.  A client thread is a stack of the  *)
(* calls it is in: a window procedure may send, a wait for an answer       *)
(* handles the messages that arrive, so answers are produced and collected *)
(* in nested order.  Input, paint and timer bits of a queue, the contents  *)
(* of messages and failed allocations are left out.                        *)
(***************************************************************************)
EXTENDS Naturals, Sequences, FiniteSets, SequencesExt, Lists

CONSTANTS
  Threads, Results,
  NoQueue, NoResult,   \* null pointers
  Workloads,           \* what programs do, each a record (WorkloadAssumption)
  MaxPosted,           \* bound: messages posted to a queue and not received
  MaxDepth             \* bound: calls a thread is in

ASSUME NullAssumption == NoQueue \notin Threads /\ NoResult \notin Results
ASSUME ResultsAssumption == IsFiniteSet(Results)
ASSUME BoundAssumption == MaxPosted \in Nat /\ MaxDepth \in Nat
ASSUME WorkloadAssumption ==
  \A w \in Workloads :
    /\ w.kinds \subseteq {"send", "notify", "callback"}      \* the messages threads send
    /\ w.timeouts \subseteq BOOLEAN      \* may a message have a timeout
    /\ w.windows \subseteq BOOLEAN       \* is it for a window of the receiver
    /\ w.blocking \subseteq BOOLEAN      \* is it sent with SMTO_BLOCK
    /\ w.gets \subseteq {"GetMessage", "GetSome", "PeekMessage"}  \* how messages are
                                         \* received; "GetSome" is GetMessage with a filter
    /\ w.modal \in BOOLEAN               \* may a window procedure look for messages itself
    /\ w.posted \subseteq Threads        \* the threads that messages are posted to
    /\ w.ops \subseteq {"early", "window", "exit", "kill"}   \* what else happens
    /\ w.sends \in Nat                   \* bound: messages sent

VARIABLES
  queue,           \* thread->queue: "live"; "orphan" once the thread is gone; "none" destroyed
  handle,          \* has the client a handle on its queue (get_msg_queue)
  sent, posted,    \* queue->msg_list[SEND_MESSAGE] and queue->msg_list[POST_MESSAGE]
  quit,            \* queue->quit_message
  sendResult, callbackResult, recvResult,
  wakeBits, changedBits, wakeMask, changedMask,
  res,             \* the result structures
  calls,           \* the calls each thread is in, innermost first
  pc,              \* what the innermost call does next
  sends,           \* messages sent so far
  load             \* the workload; it is chosen at the start and stays

queueVars == <<sent, posted, quit, sendResult, callbackResult, recvResult>>
bitVars == <<wakeBits, changedBits, wakeMask, changedMask>>
runVars == <<queue, handle, queueVars, bitVars, res, calls, pc, sends>>
vars == <<runVars, load>>

-------------------------------------------------------------------------------
(* The structures.                                                         *)

SENDMESSAGE == "QS_SENDMESSAGE"
SMRESULT == "QS_SMRESULT"
POSTMESSAGE == "QS_POSTMESSAGE"
ALLPOSTMESSAGE == "QS_ALLPOSTMESSAGE"
Bits == {SENDMESSAGE, SMRESULT, POSTMESSAGE, ALLPOSTMESSAGE}
PostBits == {POSTMESSAGE, ALLPOSTMESSAGE}

Message(type, r, win) == [type |-> type, result |-> r, win |-> win]
Messages == [type : {"send", "notify", "callback", "callback_result"},
             result : Results \cup {NoResult}, win : BOOLEAN]
CallbackResult == Message("callback_result", NoResult, FALSE)
\* Posted messages: to the thread, which every filter of GetMessage lets through here, and
\* to a window, which the filter "some" does not.
Posts == {"thread", "window"}

\* msg: is the message still to be received; callback: is there a callback message;
\* timeout: is the timeout armed; answer: the result or the error stored.
FreeResult ==
  [msg |-> FALSE, sender |-> NoQueue, receiver |-> NoQueue, replied |-> FALSE,
   callback |-> FALSE, timeout |-> FALSE, answer |-> "none"]
\* Mutant of ResultOf: the answer is not initialised.
ResultOfUnset(msg, sender, receiver, callback, timeout) ==
  [msg |-> msg, sender |-> sender, receiver |-> receiver, replied |-> FALSE,
   callback |-> callback, timeout |-> timeout, answer |-> "unset"]
ResultOf(msg, sender, receiver, callback, timeout) ==
  [msg |-> msg, sender |-> sender, receiver |-> receiver, replied |-> FALSE,
   callback |-> callback, timeout |-> timeout, answer |-> "none"]
ResultType ==
  [msg : BOOLEAN, sender : Threads \cup {NoQueue}, receiver : Threads \cup {NoQueue},
   replied : BOOLEAN, callback : BOOLEAN, timeout : BOOLEAN,
   answer : {"none", "reply", "timeout", "denied"}]

\* A call in progress.  "send": SendMessage, flag is SMTO_BLOCK; "proc": a window procedure,
\* flag is ISMEX_REPLIED; "callback": a SendMessageCallback callback; "get": GetMessage
\* (flag) or PeekMessage without removal.
Call(kind, r, flag, filter) == [kind |-> kind, result |-> r, flag |-> flag, filter |-> filter]
Calls == [kind : {"send", "proc", "callback", "get"}, result : Results \cup {NoResult},
          flag : BOOLEAN, filter : {"all", "some"}]

InUse(r) == res[r].sender # NoQueue \/ res[r].receiver # NoQueue
CanAlloc == \E r \in Results : ~InUse(r)
NewResult == CHOOSE r \in Results : ~InUse(r)

Init ==
  /\ queue = [t \in Threads |-> "live"]
  /\ handle = [t \in Threads |-> FALSE]
  /\ sent = [t \in Threads |-> <<>>]
  /\ posted = [t \in Threads |-> <<>>]
  /\ quit = [t \in Threads |-> FALSE]
  /\ sendResult = [t \in Threads |-> <<>>]
  /\ callbackResult = [t \in Threads |-> {}]
  /\ recvResult = [t \in Threads |-> <<>>]
  /\ wakeBits = [t \in Threads |-> {}]
  /\ changedBits = [t \in Threads |-> {}]
  /\ wakeMask = [t \in Threads |-> {}]
  /\ changedMask = [t \in Threads |-> {}]
  /\ res = [r \in Results |-> FreeResult]
  /\ calls = [t \in Threads |-> <<>>]
  /\ pc = [t \in Threads |-> "app"]
  /\ sends = 0
  /\ load \in Workloads

-------------------------------------------------------------------------------
(* Answers.  A queue that dies answers several results at once, so the     *)
(* operators take the set R of the results that are answered.              *)

\* free_result, once neither queue has the result.
Released(x) == IF x.sender = NoQueue /\ x.receiver = NoQueue THEN FreeResult ELSE x

\* store_message_result, as far as it changes the result; a callback message leaves the
\* result for the queue of the sender, which then lets go of it.
Answered(x, answer) ==
  LET queued == x.sender # NoQueue /\ x.callback
  IN  Released([x EXCEPT !.replied = TRUE, !.answer = answer, !.timeout = FALSE,
                         !.callback = x.callback /\ ~queued,
                         !.sender = IF queued THEN NoQueue ELSE x.sender])

\* The callback messages that answering R puts into queue q, and the bits it sets there.
Callbacks(R, q) == {r \in R : res[r].sender = q /\ res[r].callback}
AnswerBits(R, q) ==
  (IF Callbacks(R, q) # {} THEN {SENDMESSAGE} ELSE {})
  \cup (IF sendResult[q] # <<>> /\ Head(sendResult[q]) \in R THEN {SMRESULT} ELSE {})
WithCallbacks(list, R, q) == list \o [i \in 1..Cardinality(Callbacks(R, q)) |-> CallbackResult]

\* What every queue looks like after R was answered, sentNow being the messages that
\* are left in the lists and cleared the bits that went with the others.
AnswerQueues(R, sentNow, cleared) ==
  /\ sent' = [q \in Threads |-> WithCallbacks(sentNow[q], R, q)]
  /\ wakeBits' = [q \in Threads |-> (wakeBits[q] \ cleared[q]) \cup AnswerBits(R, q)]
  /\ changedBits' = [q \in Threads |-> (changedBits[q] \ cleared[q]) \cup AnswerBits(R, q)]
NothingCleared == [q \in Threads |-> {}]

\* The bits that go when the list of sent messages becomes empty.
SentCleared(list) == IF list = <<>> THEN {SENDMESSAGE} ELSE {}
\* Mutant of PostsCleared: a pending quit message does not count.
PostsClearedQuit(list, quits) == IF list = <<>> THEN PostBits ELSE {}
\* The bits that go when the posted messages are gone and there is no quit message.
PostsCleared(list, quits) == IF list = <<>> /\ ~quits THEN PostBits ELSE {}

\* set_queue_bits, which also wakes the thread if it waits (Wake).
SetBits(t, bits) ==
  /\ wakeBits' = [wakeBits EXCEPT ![t] = @ \cup bits]
  /\ changedBits' = [changedBits EXCEPT ![t] = @ \cup bits]
ClearBits(t, bits) ==
  /\ wakeBits' = [wakeBits EXCEPT ![t] = @ \ bits]
  /\ changedBits' = [changedBits EXCEPT ![t] = @ \ bits]

\* Mutant of Reply: replies again to a message that was replied to or has timed out.
ReplyAgain(t, remove) ==
  IF recvResult[t] = <<>> THEN UNCHANGED <<queueVars, bitVars, res>>
  ELSE LET r == Head(recvResult[t])
           x == IF remove THEN [res[r] EXCEPT !.receiver = NoQueue] ELSE res[r]
           R == IF remove /\ x.sender = NoQueue THEN {} ELSE {r}
       IN  /\ recvResult' = [recvResult EXCEPT ![t] = IF remove THEN Tail(@) ELSE @]
           /\ res' = [res EXCEPT ![r] = IF R = {} THEN Released(x) ELSE Answered(x, "reply")]
           /\ callbackResult' = [q \in Threads |-> callbackResult[q] \ Callbacks(R, q)]
           /\ AnswerQueues(R, sent, NothingCleared)
           /\ UNCHANGED <<posted, quit, sendResult, wakeMask, changedMask>>

\* reply_message in the server, for the last message t received.
Reply(t, remove) ==
  IF recvResult[t] = <<>> THEN UNCHANGED <<queueVars, bitVars, res>>
  ELSE LET r == Head(recvResult[t])
           x == IF remove THEN [res[r] EXCEPT !.receiver = NoQueue] ELSE res[r]
           R == IF x.replied \/ (remove /\ x.sender = NoQueue) THEN {} ELSE {r}
       IN  /\ recvResult' = [recvResult EXCEPT ![t] = IF remove THEN Tail(@) ELSE @]
           /\ res' = [res EXCEPT ![r] = IF R = {} THEN Released(x) ELSE Answered(x, "reply")]
           /\ callbackResult' = [q \in Threads |-> callbackResult[q] \ Callbacks(R, q)]
           /\ AnswerQueues(R, sent, NothingCleared)
           /\ UNCHANGED <<posted, quit, sendResult, wakeMask, changedMask>>

\* A result without the queue t, and the results the receiver t owes an answer.
Cut(x, t) == [x EXCEPT !.sender = IF x.sender = t THEN NoQueue ELSE x.sender,
                       !.receiver = IF x.receiver = t THEN NoQueue ELSE x.receiver,
                       !.msg = x.msg /\ x.receiver # t]
Owed(t) == {r \in Results : /\ res[r].receiver = t /\ res[r].sender \notin {t, NoQueue}
                            /\ res[r].msg \/ ~res[r].replied}

\* msg_queue_destroy: cleanup_results and empty_msg_list.
Destroy(t) ==
  LET R == Owed(t)
  IN  /\ res' = [r \in Results |->
                   IF r \in R THEN Answered(Cut(res[r], t), "denied") ELSE Released(Cut(res[r], t))]
      /\ callbackResult' = [q \in Threads |->
                              IF q = t THEN {} ELSE callbackResult[q] \ Callbacks(R, q)]
      /\ AnswerQueues(R, [sent EXCEPT ![t] = <<>>], [NothingCleared EXCEPT ![t] = Bits])
      /\ sendResult' = [sendResult EXCEPT ![t] = <<>>]
      /\ recvResult' = [recvResult EXCEPT ![t] = <<>>]
      /\ posted' = [posted EXCEPT ![t] = <<>>]
      /\ quit' = [quit EXCEPT ![t] = FALSE]
      /\ wakeMask' = [wakeMask EXCEPT ![t] = {}]
      /\ changedMask' = [changedMask EXCEPT ![t] = {}]

-------------------------------------------------------------------------------
(* Sending: put_message_in_queue and the send_message request.  The        *)
(* receiver may be gone, which the sender learns at once.                  *)

InApp(t) == queue[t] = "live" /\ pc[t] = "app"
Top(t) == Head(calls[t])
CanCall(t) == InApp(t) /\ Len(calls[t]) < MaxDepth

\* What sending puts into the queue of u.
Deliver(u, m) ==
  /\ sent' = [sent EXCEPT ![u] = Append(@, m)]
  /\ SetBits(u, {SENDMESSAGE})
  /\ sends' = sends + 1
  /\ UNCHANGED <<queue, posted, quit, recvResult, wakeMask, changedMask>>

\* SendMessage and SendMessageTimeout; alloc_message_result.
SendMessage(t, u, timeout, block, win) ==
  /\ CanCall(t) /\ t # u /\ queue[u] = "live" /\ "send" \in load.kinds
  /\ sends < load.sends
  /\ CanAlloc
  /\ LET r == NewResult
     IN  /\ res' = [res EXCEPT ![r] = ResultOf(TRUE, t, u, FALSE, timeout)]
         /\ sendResult' = [sendResult EXCEPT ![t] = <<r>> \o @]
         /\ Deliver(u, Message("send", r, win))
         /\ calls' = [calls EXCEPT ![t] = <<Call("send", r, block, "all")>> \o @]
  /\ pc' = [pc EXCEPT ![t] = "mask"]
  /\ handle' = [handle EXCEPT ![t] = TRUE]
  /\ UNCHANGED callbackResult

\* SendMessageCallback, which does not wait; its messages have no timeout.
SendCallback(t, u, win) ==
  /\ CanCall(t) /\ t # u /\ queue[u] = "live" /\ "callback" \in load.kinds
  /\ sends < load.sends
  /\ CanAlloc
  /\ LET r == NewResult
     IN  /\ res' = [res EXCEPT ![r] = ResultOf(TRUE, t, u, TRUE, FALSE)]
         /\ callbackResult' = [callbackResult EXCEPT ![t] = @ \cup {r}]
         /\ Deliver(u, Message("callback", r, win))
  /\ UNCHANGED <<handle, sendResult, calls, pc>>

\* SendNotifyMessage.
SendNotify(t, u, win) ==
  /\ CanCall(t) /\ t # u /\ queue[u] = "live" /\ "notify" \in load.kinds
  /\ sends < load.sends
  /\ Deliver(u, Message("notify", NoResult, win))
  /\ UNCHANGED <<handle, sendResult, callbackResult, res, calls, pc>>

\* PostMessage: the MSG_POSTED case of send_message.
PostMessage(t, u, p) ==
  /\ InApp(t) /\ queue[u] = "live" /\ u \in load.posted /\ Len(posted[u]) < MaxPosted
  /\ posted' = [posted EXCEPT ![u] = Append(@, p)]
  /\ SetBits(u, PostBits)
  /\ UNCHANGED <<queue, handle, sent, quit, sendResult, callbackResult, recvResult,
                 wakeMask, changedMask, res, calls, pc, sends>>

\* PostQuitMessage: the post_quit_message request.
PostQuit(t) ==
  /\ InApp(t) /\ t \in load.posted
  /\ quit' = [quit EXCEPT ![t] = TRUE]
  /\ SetBits(t, PostBits)
  /\ UNCHANGED <<queue, handle, sent, posted, sendResult, callbackResult, recvResult,
                 wakeMask, changedMask, res, calls, pc, sends>>

-------------------------------------------------------------------------------
(* Waiting: the loops of wait_message_reply and GetMessage.                *)

\* GetMessage and PeekMessage begin with peek_message.
GetMessage(t, get) ==
  /\ CanCall(t) /\ (load.modal \/ calls[t] = <<>>)
  /\ calls' = [calls EXCEPT ![t] = <<Call("get", NoResult, get # "PeekMessage",
                                         IF get = "GetSome" THEN "some" ELSE "all")>> \o @]
  /\ pc' = [pc EXCEPT ![t] = "peek"]
  /\ handle' = [handle EXCEPT ![t] = @ \/ get # "PeekMessage"]
  /\ UNCHANGED <<queue, queueVars, bitVars, res, sends>>

\* Mutant of WakeMask: a thread that waits for an answer is not woken for messages.
WakeMaskBlocks(c) == IF c.kind = "get" THEN {SENDMESSAGE} ELSE {SMRESULT}

\* The masks of the two loops; those of GetMessage also depend on the bits left out here.
WakeMask(c) ==
  IF c.kind = "get" THEN {SENDMESSAGE}
  ELSE {SMRESULT} \cup (IF c.flag THEN {} ELSE {SENDMESSAGE})
ChangedMask(c) == IF c.kind = "get" THEN {SENDMESSAGE, POSTMESSAGE} ELSE WakeMask(c)

\* is_signaled
Signaled(t) == (wakeBits[t] \cap wakeMask[t]) \cup (changedBits[t] \cap changedMask[t]) # {}

\* What the loops do with the bits that set_queue_mask returns.
AfterMask(t) ==
  IF Top(t).kind = "get"
  THEN IF changedBits[t] \cap ChangedMask(Top(t)) # {} \/ SENDMESSAGE \in wakeBits[t]
       THEN "peek" ELSE "wait"
  ELSE IF SMRESULT \in wakeBits[t] THEN "retrieve"
       ELSE IF SENDMESSAGE \in wakeBits[t] THEN "peek" ELSE "wait"

\* Mutant of SetQueueMask: it always resets the masks, as if no wait followed.
SetQueueMaskSkips(t) ==
  /\ pc[t] = "mask"
  /\ wakeMask' = [wakeMask EXCEPT ![t] = {}]
  /\ changedMask' = [changedMask EXCEPT ![t] = {}]
  /\ pc' = [pc EXCEPT ![t] = AfterMask(t)]
  /\ UNCHANGED <<queue, handle, queueVars, wakeBits, changedBits, res, calls, sends>>

\* The set_queue_mask request with skip_wait: when the queue is signaled already, the
\* masks are reset as at the end of a wait.
SetQueueMask(t) ==
  /\ pc[t] = "mask"
  /\ LET wake == WakeMask(Top(t))
         changed == ChangedMask(Top(t))
         signaled == (wakeBits[t] \cap wake) \cup (changedBits[t] \cap changed) # {}
     IN  /\ wakeMask' = [wakeMask EXCEPT ![t] = IF signaled THEN {} ELSE wake]
         /\ changedMask' = [changedMask EXCEPT ![t] = IF signaled THEN {} ELSE changed]
  /\ pc' = [pc EXCEPT ![t] = AfterMask(t)]
  /\ UNCHANGED <<queue, handle, queueVars, wakeBits, changedBits, res, calls, sends>>

\* The thread waits until its queue is signaled (wake_up, msg_queue_satisfied).
Wake(t) ==
  /\ pc[t] = "wait" /\ Signaled(t)
  /\ wakeMask' = [wakeMask EXCEPT ![t] = {}]
  /\ changedMask' = [changedMask EXCEPT ![t] = {}]
  /\ pc' = [pc EXCEPT ![t] = IF Top(t).kind = "get" THEN "peek" ELSE "mask"]
  /\ UNCHANGED <<queue, handle, queueVars, wakeBits, changedBits, res, calls, sends>>

\* retrieve_reply: the get_message_reply request with cancel set takes the last message
\* sent off the stack, answered or not.
RetrieveReply(t) ==
  /\ pc[t] = "retrieve"
  /\ IF sendResult[t] = <<>> THEN UNCHANGED <<sendResult, res, wakeBits, changedBits>>
     ELSE LET r == Head(sendResult[t])
              rest == Tail(sendResult[t])
          IN  /\ sendResult' = [sendResult EXCEPT ![t] = rest]
              /\ res' = [res EXCEPT ![r] = Released([@ EXCEPT !.sender = NoQueue])]
              /\ ClearBits(t, IF rest = <<>> \/ ~res[Head(rest)].replied THEN {SMRESULT} ELSE {})
  /\ calls' = [calls EXCEPT ![t] = Tail(@)]
  /\ pc' = [pc EXCEPT ![t] = "app"]
  /\ UNCHANGED <<queue, handle, sent, posted, quit, callbackResult, recvResult,
                 wakeMask, changedMask, sends>>

-------------------------------------------------------------------------------
(* Receiving: peek_message and the get_message request.                    *)

\* Mutant of ReceiveSent: a result goes to the end of the receiver's list.
ReceiveSentLast(t) ==
  /\ pc[t] = "peek" /\ sent[t] # <<>>
  /\ LET m == Head(sent[t])
         rest == Tail(sent[t])
     IN  /\ sent' = [sent EXCEPT ![t] = rest]
         /\ ClearBits(t, SentCleared(rest))
         /\ IF m.result = NoResult THEN UNCHANGED <<res, recvResult>>
            ELSE /\ res' = [res EXCEPT ![m.result].msg = FALSE]
                 /\ recvResult' = [recvResult EXCEPT ![t] = Append(@, m.result)]
         /\ calls' = [calls EXCEPT ![t] =
              <<Call(IF m.type = "callback_result" THEN "callback" ELSE "proc",
                     m.result, FALSE, "all")>> \o @]
  /\ pc' = [pc EXCEPT ![t] = "app"]
  /\ UNCHANGED <<queue, handle, posted, quit, sendResult, callbackResult,
                 wakeMask, changedMask, sends>>

\* receive_message, and the call the client makes for the message: the window procedure
\* or the callback of a message answered.
ReceiveSent(t) ==
  /\ pc[t] = "peek" /\ sent[t] # <<>>
  /\ LET m == Head(sent[t])
         rest == Tail(sent[t])
     IN  /\ sent' = [sent EXCEPT ![t] = rest]
         /\ ClearBits(t, SentCleared(rest))
         /\ IF m.result = NoResult THEN UNCHANGED <<res, recvResult>>
            ELSE /\ res' = [res EXCEPT ![m.result].msg = FALSE]
                 /\ recvResult' = [recvResult EXCEPT ![t] = <<m.result>> \o @]
         /\ calls' = [calls EXCEPT ![t] =
              <<Call(IF m.type = "callback_result" THEN "callback" ELSE "proc",
                     m.result, FALSE, "all")>> \o @]
  /\ pc' = [pc EXCEPT ![t] = "app"]
  /\ UNCHANGED <<queue, handle, posted, quit, sendResult, callbackResult,
                 wakeMask, changedMask, sends>>

\* No message was sent: a wait for an answer goes on.
NothingSent(t) ==
  /\ pc[t] = "peek" /\ sent[t] = <<>> /\ Top(t).kind = "send"
  /\ pc' = [pc EXCEPT ![t] = "mask"]
  /\ UNCHANGED <<queue, handle, queueVars, bitVars, res, calls, sends>>

Matches(p, filter) == filter = "all" \/ p = "thread"

\* get_message goes on to the posted messages: it clears changed bits, then takes the first
\* posted message the filter lets through (get_posted_message), then the quit message,
\* which is not filtered (get_quit_message).  PeekMessage removes neither.
ReceivePosted(t) ==
  /\ pc[t] = "peek" /\ sent[t] = <<>> /\ Top(t).kind = "get"
  /\ LET c == Top(t)
         found == \E i \in DOMAIN posted[t] : Matches(posted[t][i], c.filter)
         first == CHOOSE i \in DOMAIN posted[t] :
                    /\ Matches(posted[t][i], c.filter)
                    /\ \A j \in 1..(i - 1) : ~Matches(posted[t][j], c.filter)
         postedNow == IF found /\ c.flag THEN RemoveAt(posted[t], first) ELSE posted[t]
         quitNow == quit[t] /\ (found \/ ~c.flag)
         taken == c.flag /\ (found \/ quit[t])
         cleared == IF taken THEN PostsCleared(postedNow, quitNow) ELSE {}
         returns == found \/ quit[t] \/ ~c.flag
     IN  /\ posted' = [posted EXCEPT ![t] = postedNow]
         /\ quit' = [quit EXCEPT ![t] = quitNow]
         /\ wakeBits' = [wakeBits EXCEPT ![t] = @ \ cleared]
         /\ changedBits' = [changedBits EXCEPT ![t] =
              (IF c.filter = "all" THEN {} ELSE @ \cap {ALLPOSTMESSAGE}) \ cleared]
         /\ calls' = [calls EXCEPT ![t] = IF returns THEN Tail(@) ELSE @]
         /\ pc' = [pc EXCEPT ![t] = IF returns THEN "app" ELSE "mask"]
  /\ UNCHANGED <<queue, handle, sent, sendResult, callbackResult, recvResult,
                 wakeMask, changedMask, res, sends>>

\* A window procedure returns: reply_message in the client answers unless the message was
\* a notification, and peek_message goes on.
ProcReturns(t) ==
  /\ InApp(t) /\ calls[t] # <<>>
  /\ IF Top(t).kind = "proc" /\ Top(t).result # NoResult THEN Reply(t, TRUE)
     ELSE UNCHANGED <<queueVars, bitVars, res>>
  /\ calls' = [calls EXCEPT ![t] = Tail(@)]
  /\ pc' = [pc EXCEPT ![t] = "peek"]
  /\ UNCHANGED <<queue, handle, sends>>

\* ReplyMessage, for the innermost window procedure (thread_info->receive_info).
ReplyMessage(t) ==
  /\ InApp(t) /\ "early" \in load.ops
  /\ \E i \in DOMAIN calls[t] :
       /\ calls[t][i].kind = "proc" /\ \A j \in 1..(i - 1) : calls[t][j].kind # "proc"
       /\ calls[t][i].result # NoResult /\ ~calls[t][i].flag
       /\ calls' = [calls EXCEPT ![t][i].flag = TRUE]
  /\ Reply(t, FALSE)
  /\ UNCHANGED <<queue, handle, pc, sends>>

-------------------------------------------------------------------------------
(* Timeouts, windows and threads that go away.                             *)

\* The messages of a list with another result.
WithoutResult(list, r) == Kept(list, {i \in DOMAIN list : list[i].result # r})

\* Mutant of ResultTimeout: a message taken back keeps its receiver.
ResultTimeoutKeeps(r) ==
  /\ res[r].timeout
  /\ LET x == [res[r] EXCEPT !.timeout = FALSE]
         left == WithoutResult(sent[x.receiver], r)
         R == IF x.sender = NoQueue THEN {} ELSE {r}
     IN  /\ res' = [res EXCEPT ![r] = Answered([x EXCEPT !.msg = FALSE], "timeout")]
         /\ AnswerQueues(R, [sent EXCEPT ![x.receiver] = left], NothingCleared)
  /\ UNCHANGED <<queue, handle, posted, quit, sendResult, callbackResult, recvResult,
                 wakeMask, changedMask, calls, pc, sends>>

\* A result whose message is not received any more.
TakenBack(x) == [x EXCEPT !.msg = FALSE, !.receiver = NoQueue]

\* result_timeout: a message that was not received yet is taken back.
ResultTimeout(r) ==
  /\ res[r].timeout
  /\ LET x == [res[r] EXCEPT !.timeout = FALSE]
         u == x.receiver
         left == WithoutResult(sent[u], r)
         R == IF x.sender = NoQueue THEN {} ELSE {r}
     IN  IF x.msg
         THEN /\ res' = [res EXCEPT ![r] = Answered(TakenBack(x), "timeout")]
              /\ AnswerQueues(R, [sent EXCEPT ![u] = left],
                              [NothingCleared EXCEPT ![u] = SentCleared(left)])
         ELSE /\ res' = [res EXCEPT ![r] = Answered(x, "timeout")]
              /\ AnswerQueues(R, sent, NothingCleared)
  /\ UNCHANGED <<queue, handle, posted, quit, sendResult, callbackResult, recvResult,
                 wakeMask, changedMask, calls, pc, sends>>

\* queue_cleanup_window: a window of t is destroyed with the messages for it.
CleanupWindow(t) ==
  /\ InApp(t) /\ "window" \in load.ops
  /\ LET gone == {r \in Results : \E i \in DOMAIN sent[t] :
                                    sent[t][i].win /\ sent[t][i].result = r}
         R == {r \in gone : res[r].sender # NoQueue}
         left == Kept(sent[t], {i \in DOMAIN sent[t] : ~sent[t][i].win})
         leftPosted == Kept(posted[t], {i \in DOMAIN posted[t] : posted[t][i] # "window"})
         cleared == (IF left = sent[t] THEN {} ELSE SentCleared(left))
                    \cup (IF leftPosted = posted[t] THEN {}
                          ELSE PostsCleared(leftPosted, quit[t]))
     IN  /\ posted' = [posted EXCEPT ![t] = leftPosted]
         /\ res' = [r \in Results |->
                      IF r \in R THEN Answered(TakenBack(res[r]), "denied")
                      ELSE IF r \in gone THEN Released(TakenBack(res[r])) ELSE res[r]]
         /\ callbackResult' = [q \in Threads |-> callbackResult[q] \ Callbacks(R, q)]
         /\ AnswerQueues(R, [sent EXCEPT ![t] = left], [NothingCleared EXCEPT ![t] = cleared])
  /\ UNCHANGED <<queue, handle, quit, sendResult, recvResult,
                 wakeMask, changedMask, calls, pc, sends>>

\* A thread exits: thread_detach closes its handle on the queue, free_msg_queue drops the
\* other references, and the queue is destroyed.
ThreadExit(t) ==
  /\ InApp(t) /\ "exit" \in load.ops
  /\ queue' = [queue EXCEPT ![t] = "none"]
  /\ handle' = [handle EXCEPT ![t] = FALSE]
  /\ calls' = [calls EXCEPT ![t] = <<>>]
  /\ pc' = [pc EXCEPT ![t] = "dead"]
  /\ Destroy(t)
  /\ UNCHANGED sends

\* A thread is killed: free_msg_queue does the same, but a handle of the process on the
\* queue is left open and keeps it.
ThreadKilled(t) ==
  /\ queue[t] = "live" /\ "kill" \in load.ops
  /\ calls' = [calls EXCEPT ![t] = <<>>]
  /\ pc' = [pc EXCEPT ![t] = "dead"]
  /\ IF handle[t]
     THEN /\ queue' = [queue EXCEPT ![t] = "orphan"]
          /\ UNCHANGED <<queueVars, bitVars, res>>
     ELSE /\ queue' = [queue EXCEPT ![t] = "none"]
          /\ Destroy(t)
  /\ UNCHANGED <<handle, sends>>

\* The process of a killed thread ends, which closes its handles.
HandlesClosed(t) ==
  /\ queue[t] = "orphan"
  /\ queue' = [queue EXCEPT ![t] = "none"]
  /\ handle' = [handle EXCEPT ![t] = FALSE]
  /\ Destroy(t)
  /\ UNCHANGED <<calls, pc, sends>>

-------------------------------------------------------------------------------
Client(t) ==
  \/ SetQueueMask(t)
  \/ Wake(t)
  \/ RetrieveReply(t)
  \/ ReceiveSent(t)
  \/ NothingSent(t)
  \/ ReceivePosted(t)
  \/ ProcReturns(t)

Next ==
  /\ \/ \E t, u \in Threads, win \in load.windows :
          \/ \E timeout \in load.timeouts, block \in load.blocking :
               SendMessage(t, u, timeout, block, win)
          \/ SendCallback(t, u, win) \/ SendNotify(t, u, win)
     \/ \E t, u \in Threads, p \in Posts : PostMessage(t, u, p)
     \/ \E t \in Threads, get \in load.gets : GetMessage(t, get)
     \/ \E t \in Threads :
          \/ Client(t)
          \/ PostQuit(t) \/ ReplyMessage(t) \/ CleanupWindow(t)
          \/ ThreadExit(t) \/ ThreadKilled(t) \/ HandlesClosed(t)
     \/ \E r \in Results : ResultTimeout(r)
  /\ UNCHANGED load

Spec == Init /\ [][Next]_vars

(***************************************************************************)
(* Window procedures return, and a thread that has nothing else to do      *)
(* looks for messages: that is what a program owes its senders.            *)
(***************************************************************************)
Pump(t) == calls[t] = <<>> /\ GetMessage(t, "GetMessage")
FairSpec == Spec /\ \A t \in Threads : WF_runVars(Client(t)) /\ WF_runVars(Pump(t))

-------------------------------------------------------------------------------
(* Properties.                                                             *)

TypeOK ==
  /\ queue \in [Threads -> {"live", "orphan", "none"}]
  /\ handle \in [Threads -> BOOLEAN]
  /\ sent \in [Threads -> Seq(Messages)]
  /\ posted \in [Threads -> Seq(Posts)]
  /\ quit \in [Threads -> BOOLEAN]
  /\ sendResult \in [Threads -> Seq(Results)]
  /\ callbackResult \in [Threads -> SUBSET Results]
  /\ recvResult \in [Threads -> Seq(Results)]
  /\ wakeBits \in [Threads -> SUBSET Bits]
  /\ changedBits \in [Threads -> SUBSET Bits]
  /\ wakeMask \in [Threads -> SUBSET Bits]
  /\ changedMask \in [Threads -> SUBSET Bits]
  /\ res \in [Results -> ResultType]
  /\ calls \in [Threads -> Seq(Calls)]
  /\ pc \in [Threads -> {"app", "mask", "wait", "peek", "retrieve", "dead"}]
  /\ sends \in 0..load.sends

\* The results of a list of messages.
ResultsIn(list) == {list[i].result : i \in DOMAIN list} \ {NoResult}

\* No result is lost and none is used after it was freed: a queue's lists hold each result
\* that names the queue as its sender or receiver, once, and no other (queue.c keeps these
\* pointers by hand in free_message, result_timeout, reply_message and cleanup_results);
\* a timeout is armed only for a result that nobody answered (the assertion of
\* result_timeout).
ResultsOwned ==
  /\ \A q \in Threads :
       /\ IsInjective(sendResult[q]) /\ IsInjective(recvResult[q])
       /\ ToSet(sendResult[q]) \cap callbackResult[q] = {}
       /\ ToSet(sendResult[q]) \cup callbackResult[q] = {r \in Results : res[r].sender = q}
       /\ ToSet(recvResult[q]) = {r \in Results : res[r].receiver = q /\ ~res[r].msg}
       /\ ResultsIn(sent[q]) = {r \in Results : res[r].receiver = q /\ res[r].msg}
       /\ queue[q] = "none" => sent[q] = <<>>
  /\ \A r \in Results :
       /\ InUse(r) \/ res[r] = FreeResult
       /\ res[r].timeout => ~res[r].replied
       /\ res[r].msg => ~res[r].replied /\ res[r].receiver # NoQueue

\* The results of the calls of a kind, innermost first.
ResultsOf(list, kind) ==
  Kept([i \in DOMAIN list |-> list[i].result],
       {i \in DOMAIN list : list[i].kind = kind /\ list[i].result # NoResult})

\* Answers go to the message they are for: the server's stacks of a thread are the
\* messages of the calls the thread is in, innermost first, although reply_message and
\* get_message_reply never say which message they mean.
StacksMatch ==
  \A t \in Threads : queue[t] = "live" =>
    sendResult[t] = ResultsOf(calls[t], "send") /\ recvResult[t] = ResultsOf(calls[t], "proc")

\* A thread that sleeps on its queue is woken for everything it waits for: the answer to
\* the message it sent last, messages sent to it (unless it blocks them), and in
\* GetMessage the quit message and the posted messages that its filter lets through.
NoLostWake ==
  \A t \in Threads : pc[t] = "wait" /\ ~Signaled(t) =>
    LET c == Top(t)
    IN  IF c.kind = "send"
        THEN ~res[c.result].replied /\ (c.flag \/ sent[t] = <<>>)
        ELSE /\ sent[t] = <<>> /\ ~quit[t]
             /\ \A i \in DOMAIN posted[t] : ~Matches(posted[t][i], c.filter)

\* The bits of a queue say what is in it, although each list is changed in several places.
BitsExact ==
  \A q \in Threads :
    /\ SENDMESSAGE \in wakeBits[q] <=> sent[q] # <<>>
    /\ POSTMESSAGE \in wakeBits[q] <=> posted[q] # <<>> \/ quit[q]
    /\ sendResult[q] # <<>> /\ res[Head(sendResult[q])].replied => SMRESULT \in wakeBits[q]
    /\ sendResult[q] = <<>> => SMRESULT \notin wakeBits[q]
    /\ changedBits[q] \subseteq wakeBits[q]

\* wait_message_reply returns when the message sent last was answered.
AnsweredWhenRetrieved ==
  \A t \in Threads : pc[t] = "retrieve" => res[Top(t).result].replied

\* What a sender sees is what SendReply says: every message it waits for is answered once,
\* by the receiver, by the clock or because the receiver is gone, and the answers are
\* collected innermost first.
SentMessages == INSTANCE SendReply WITH
  waits <- [t \in Threads |-> [i \in DOMAIN sendResult[t] |-> res[sendResult[t][i]].answer]]
SendReplySpec == SentMessages!Spec

\* A program whose threads are not killed, do not shut out messages with SMTO_BLOCK and
\* return from their window procedures without waiting for messages of their own.
Cooperative == "kill" \notin load.ops /\ load.blocking = {FALSE} /\ ~load.modal

\* SendMessage returns, however the threads of a cooperative program send to each other, if
\* window procedures return and idle threads look for messages: a thread that waits for an
\* answer handles the messages that are sent to it.
SendsReturn ==
  Cooperative => \A t \in Threads : []<>(\A i \in DOMAIN calls[t] : calls[t][i].kind # "send")

-------------------------------------------------------------------------------
(***************************************************************************)
(* The invariants in inductive form.                                       *)
(***************************************************************************)
\* A result is in the list of its sender that its kind says, and in that of its receiver.
ListsInv ==
  \A q \in Threads :
    /\ IsInjective(sendResult[q]) /\ IsInjective(recvResult[q])
    /\ \A i, j \in DOMAIN sent[q] :
         sent[q][i].result = sent[q][j].result /\ sent[q][i].result # NoResult => i = j
    /\ \A i \in DOMAIN sent[q] :
         sent[q][i].type = "callback_result" => sent[q][i].result = NoResult
    /\ \A r \in Results :
         /\ r \in ToSet(sendResult[q]) <=> res[r].sender = q /\ ~res[r].callback
         /\ r \in callbackResult[q] <=> res[r].sender = q /\ res[r].callback
         /\ r \in ToSet(recvResult[q]) <=> res[r].receiver = q /\ ~res[r].msg
         /\ r \in ResultsIn(sent[q]) <=> res[r].receiver = q /\ res[r].msg
    /\ queue[q] = "none" =>
         sent[q] = <<>> /\ sendResult[q] = <<>> /\ recvResult[q] = <<>> /\ callbackResult[q] = {}

\* A result is free, or it awaits an answer, or it has one.
ResultInv(x) ==
  /\ x.sender = NoQueue /\ x.receiver = NoQueue => x = FreeResult
  /\ x.timeout => ~x.replied /\ ~x.callback
  /\ x.msg => ~x.replied /\ x.receiver # NoQueue
  /\ x.replied <=> x.answer # "none"
ResultsInv == \A r \in Results : ResultInv(res[r])

\* A thread waits in a send or a GetMessage, in which it runs a window procedure or a
\* callback, which may send again.
Waits == {"send", "get"}
Runs == {"proc", "callback"}
CallsInv ==
  \A t \in Threads :
    /\ queue[t] # "live" <=> pc[t] = "dead"
    /\ pc[t] = "dead" => calls[t] = <<>>
    /\ pc[t] \in {"mask", "wait", "peek", "retrieve"} => calls[t] # <<>> /\ Top(t).kind \in Waits
    /\ pc[t] = "retrieve" => Top(t).kind = "send"
    /\ pc[t] = "app" /\ calls[t] # <<>> => Top(t).kind \in Runs
    /\ \A i \in DOMAIN calls[t] :
         /\ calls[t][i].kind \in Runs => i + 1 \in DOMAIN calls[t] /\ calls[t][i + 1].kind \in Waits
         /\ calls[t][i].kind \in Waits /\ i + 1 \in DOMAIN calls[t] => calls[t][i + 1].kind \in Runs
         /\ calls[t][i].kind = "send" => calls[t][i].result # NoResult

\* QS_SMRESULT says that some message of the stack was answered: at least if the last one was.
AnswerInv ==
  \A t \in Threads :
    /\ SMRESULT \in wakeBits[t] => \E i \in DOMAIN sendResult[t] : res[sendResult[t][i]].replied
    /\ pc[t] = "retrieve" => SMRESULT \in wakeBits[t]

\* The masks of a thread that waits are those of its call, and what GetMessage did not take
\* it would not take now either, but for what was posted since.
MaskInv ==
  \A t \in Threads :
    /\ pc[t] = "wait" => wakeMask[t] = WakeMask(Top(t)) /\ changedMask[t] = ChangedMask(Top(t))
    /\ pc[t] \in {"mask", "wait"} /\ Top(t).kind = "get" /\ POSTMESSAGE \notin changedBits[t] =>
         ~quit[t] /\ \A i \in DOMAIN posted[t] : ~Matches(posted[t][i], Top(t).filter)

IInv ==
  /\ TypeOK /\ load \in Workloads /\ ListsInv /\ ResultsInv /\ CallsInv /\ StacksMatch
  /\ BitsExact /\ AnswerInv /\ MaskInv
===============================================================================
