------------------------- MODULE MessageQueueProofs -------------------------
(***************************************************************************)
(* Theorems about messages between threads, for any number of threads,     *)
(* results and nested calls: results are owned exactly, the stacks of the  *)
(* server match the calls of the clients, no thread sleeps through a       *)
(* message, and every sent message is answered as SendReply says.          *)
(***************************************************************************)
EXTENDS MessageQueue, ListTheorems

\* A new innermost call, or a new last message sent.
LEMMA PushFacts ==
  ASSUME NEW S, NEW q \in Seq(S), NEW c \in S
  PROVE  /\ <<c>> \o q \in Seq(S) /\ <<c>> \o q # <<>>
         /\ Len(q) \in Nat /\ DOMAIN q = 1..Len(q) /\ DOMAIN (<<c>> \o q) = 1..(Len(q) + 1)
         /\ (<<c>> \o q)[1] = c /\ \A i \in 1..Len(q) : (<<c>> \o q)[i + 1] = q[i]
         /\ Head(<<c>> \o q) = c
<1>1. <<c>> \in Seq(S) /\ Len(<<c>>) = 1 /\ <<c>>[1] = c
  OBVIOUS
<1>2. /\ <<c>> \o q \in Seq(S) /\ Len(<<c>> \o q) = Len(q) + 1 /\ Len(q) \in Nat
      /\ (<<c>> \o q)[1] = c /\ \A i \in 1..Len(q) : (<<c>> \o q)[i + 1] = q[i]
  BY <1>1, ConcatProperties
<1>3. DOMAIN (<<c>> \o q) = 1..(Len(q) + 1) /\ DOMAIN q = 1..Len(q)
  BY <1>2
<1>4. Head(<<c>> \o q) = (<<c>> \o q)[1] /\ <<c>> \o q # <<>>
  BY <1>2, EmptySeq, HeadTailProperties
<1> QED
  BY <1>2, <1>3, <1>4

\* The innermost call returns, or the first message of a list is taken.
LEMMA PopFacts ==
  ASSUME NEW S, NEW q \in Seq(S), q # <<>>
  PROVE  /\ Head(q) = q[1] /\ Head(q) \in S /\ 1 \in DOMAIN q
         /\ Tail(q) \in Seq(S) /\ Len(q) \in Nat \ {0} /\ DOMAIN q = 1..Len(q)
         /\ DOMAIN Tail(q) = 1..(Len(q) - 1) /\ \A i \in 1..(Len(q) - 1) : Tail(q)[i] = q[i + 1]
         /\ q = <<Head(q)>> \o Tail(q)
<1>1. /\ Len(q) \in Nat /\ Len(q) # 0 /\ DOMAIN q = 1..Len(q)
  BY EmptySeq
<1>2. /\ Tail(q) \in Seq(S) /\ Len(Tail(q)) = Len(q) - 1 /\ \A i \in 1..Len(Tail(q)) : Tail(q)[i] = q[i + 1]
      /\ Head(q) \in S
  BY HeadTailProperties
<1>3. Head(q) = q[1] /\ 1 \in DOMAIN q
  BY <1>1
<1>4. DOMAIN Tail(q) = 1..(Len(q) - 1)
  BY <1>2
<1>5. q = <<Head(q)>> \o Tail(q)
  <2>1. PICK r \in Seq(S) : r = <<Head(q)>> \o Tail(q) /\ Len(r) = Len(q) /\ r[1] = q[1]
                            /\ \A i \in 1..(Len(q) - 1) : r[i + 1] = q[i + 1]
    <3>1. <<Head(q)>> \in Seq(S) /\ Len(<<Head(q)>>) = 1 /\ <<Head(q)>>[1] = Head(q)
      BY <1>2
    <3>2. /\ <<Head(q)>> \o Tail(q) \in Seq(S) /\ Len(<<Head(q)>> \o Tail(q)) = Len(Tail(q)) + 1
          /\ (<<Head(q)>> \o Tail(q))[1] = Head(q)
          /\ \A i \in 1..Len(Tail(q)) : (<<Head(q)>> \o Tail(q))[i + 1] = Tail(q)[i]
      BY <1>2, <3>1, ConcatProperties
    <3>3. Len(<<Head(q)>> \o Tail(q)) = Len(q)
      BY <1>1, <1>2, <3>2
    <3> QED
      BY <1>2, <1>3, <3>2, <3>3
  <2>2. \A i \in 1..Len(q) : r[i] = q[i]
    <3> SUFFICES ASSUME NEW i \in 1..Len(q), i # 1 PROVE r[i] = q[i]
      BY <2>1
    <3>1. i - 1 \in 1..(Len(q) - 1) /\ i = (i - 1) + 1
      BY <1>1
    <3> QED
      BY <2>1, <3>1
  <2>3. Len(r) = Len(q)
    BY <2>1
  <2>4. r = q
    BY <2>2, <2>3, SeqEqual
  <2> QED
    BY <2>1, <2>4
<1> QED
  BY <1>1, <1>2, <1>3, <1>4, <1>5

\* A list with the callback messages that answering R adds to it.
LEMMA WithCallbacksFacts ==
  ASSUME NEW list \in Seq(Messages), NEW R \in SUBSET Results, NEW q
  PROVE  LET w == WithCallbacks(list, R, q)
         IN  /\ w \in Seq(Messages) /\ DOMAIN list = 1..Len(list) /\ Len(list) \in Nat
             /\ DOMAIN list \subseteq DOMAIN w
             /\ \A i \in DOMAIN list : w[i] = list[i]
             /\ \A i \in DOMAIN w : i \in DOMAIN list \/ w[i] = CallbackResult
             /\ w = <<>> <=> list = <<>> /\ Callbacks(R, q) = {}
             /\ Callbacks(R, q) = {} => w = list
<1> DEFINE w == WithCallbacks(list, R, q)
           n == Cardinality(Callbacks(R, q))
           more == [i \in 1..n |-> CallbackResult]
<1>1. Callbacks(R, q) \in SUBSET Results
  BY DEF Callbacks
<1>2. IsFiniteSet(Callbacks(R, q))
  BY <1>1, ResultsAssumption, FS_Subset
<1>3. n \in Nat /\ (n = 0 <=> Callbacks(R, q) = {})
  BY <1>2, FS_CardinalityType, FS_EmptySet
<1>4. CallbackResult \in Messages
  BY DEF CallbackResult, Message, Messages
<1> HIDE DEF n
<1>5. more \in Seq(Messages) /\ Len(more) = n /\ \A i \in 1..n : more[i] = CallbackResult
  BY <1>3, <1>4
<1>6. w = list \o more
  BY DEF WithCallbacks, n
<1> HIDE DEF more, w
<1>7. /\ w \in Seq(Messages) /\ Len(w) = Len(list) + n /\ Len(list) \in Nat
      /\ \A i \in 1..Len(list) : w[i] = list[i]
      /\ \A i \in 1..n : w[Len(list) + i] = more[i]
  <2>1. PICK b \in Seq(Messages) : b = more
    BY <1>5
  <2>2. /\ list \o b \in Seq(Messages) /\ Len(list \o b) = Len(list) + Len(b)
        /\ \A i \in 1..Len(list) : (list \o b)[i] = list[i]
        /\ \A i \in 1..Len(b) : (list \o b)[Len(list) + i] = b[i]
    BY ConcatProperties
  <2>3. Len(b) = n /\ Len(list) \in Nat
    BY <1>5, <2>1
  <2> QED
    BY <1>6, <2>1, <2>2, <2>3
<1>8. DOMAIN w = 1..(Len(list) + n) /\ DOMAIN list = 1..Len(list)
  BY <1>7
<1>9. ASSUME NEW i \in DOMAIN w, i \notin DOMAIN list PROVE w[i] = CallbackResult
  <2>1. i - Len(list) \in 1..n /\ i = Len(list) + (i - Len(list))
    BY <1>3, <1>7, <1>8, <1>9
  <2> QED
    BY <1>5, <1>7, <2>1
<1>10. w = <<>> <=> list = <<>> /\ n = 0
  BY <1>3, <1>7, EmptySeq
<1>11. n = 0 => w = list
  <2> SUFFICES ASSUME n = 0 PROVE w = list
    OBVIOUS
  <2>1. Len(w) = Len(list) /\ \A i \in 1..Len(w) : w[i] = list[i]
    BY <1>7
  <2> QED
    BY <1>7, <2>1, SeqEqual
<1>12. DOMAIN list \subseteq DOMAIN w
  BY <1>3, <1>7, <1>8
<1> QED
  BY <1>3, <1>7, <1>8, <1>9, <1>10, <1>11, <1>12 DEF w

-----------------------------------------------------------------------------
(***************************************************************************)
(* Types.                                                                  *)
(***************************************************************************)
Replies == {"reply", "timeout", "denied"}
TypeInv == TypeOK /\ load \in Workloads

\* Results are what their fields are.
LEMMA SameResult ==
  ASSUME NEW x \in ResultType, NEW y \in ResultType, x.msg = y.msg, x.sender = y.sender,
         x.receiver = y.receiver, x.replied = y.replied, x.callback = y.callback,
         x.timeout = y.timeout, x.answer = y.answer
  PROVE  x = y
BY DEF ResultType

\* store_message_result and free_result, field by field.
LEMMA AnsweredIs ==
  ASSUME NEW x \in ResultType, NEW a \in Replies
  PROVE  LET queued == x.sender # NoQueue /\ x.callback
             gone == (queued \/ x.sender = NoQueue) /\ x.receiver = NoQueue
             z == Answered(x, a)
         IN  /\ z \in ResultType
             /\ gone => z = FreeResult
             /\ ~gone => /\ z.msg = x.msg /\ z.receiver = x.receiver /\ z.replied /\ z.answer = a
                         /\ ~z.timeout /\ (z.callback <=> x.callback /\ ~queued)
                         /\ z.sender = IF queued THEN NoQueue ELSE x.sender
<1> DEFINE queued == x.sender # NoQueue /\ x.callback
           cb == x.callback /\ ~queued
           sd == IF queued THEN NoQueue ELSE x.sender
           y == [x EXCEPT !.replied = TRUE, !.answer = a, !.timeout = FALSE,
                          !.callback = cb, !.sender = sd]
<1>1. cb \in BOOLEAN /\ sd \in Threads \cup {NoQueue}
  BY DEF ResultType
<1>2. Answered(x, a) = Released(y)
  BY DEF Answered
<1>3. sd = NoQueue <=> queued \/ x.sender = NoQueue
  OBVIOUS
<1> HIDE DEF cb, sd
<1>4. /\ y \in ResultType
      /\ y.msg = x.msg /\ y.receiver = x.receiver /\ y.replied /\ y.answer = a
      /\ ~y.timeout /\ y.callback = cb /\ y.sender = sd
  BY <1>1 DEF ResultType, Replies
<1> HIDE DEF y
<1>5. FreeResult \in ResultType
  BY DEF FreeResult, ResultType
<1>6. Released(y) = IF (queued \/ x.sender = NoQueue) /\ x.receiver = NoQueue THEN FreeResult ELSE y
  BY <1>3, <1>4 DEF Released
<1> QED
  BY <1>2, <1>4, <1>5, <1>6 DEF sd, cb

\* free_result only frees what no queue refers to any more.
LEMMA ReleasedIs ==
  ASSUME NEW x \in ResultType
  PROVE  /\ Released(x) = IF x.sender = NoQueue /\ x.receiver = NoQueue THEN FreeResult ELSE x
         /\ Released(x) \in ResultType
BY DEF Released, FreeResult, ResultType

\* cleanup_results, field by field.
LEMMA CutIs ==
  ASSUME NEW x \in ResultType, NEW t \in Threads
  PROVE  LET z == Cut(x, t)
         IN  /\ z \in ResultType
             /\ z.msg <=> x.msg /\ x.receiver # t
             /\ z.sender = IF x.sender = t THEN NoQueue ELSE x.sender
             /\ z.receiver = IF x.receiver = t THEN NoQueue ELSE x.receiver
             /\ z.replied = x.replied /\ z.callback = x.callback
             /\ z.timeout = x.timeout /\ z.answer = x.answer
<1> DEFINE m == x.msg /\ x.receiver # t
           sd == IF x.sender = t THEN NoQueue ELSE x.sender
           rc == IF x.receiver = t THEN NoQueue ELSE x.receiver
           z == [x EXCEPT !.sender = sd, !.receiver = rc, !.msg = m]
<1>1. m \in BOOLEAN /\ sd \in Threads \cup {NoQueue} /\ rc \in Threads \cup {NoQueue}
  BY DEF ResultType
<1>2. Cut(x, t) = z
  BY DEF Cut
<1> HIDE DEF m, sd, rc
<1>3. /\ z \in ResultType /\ z.msg = m /\ z.sender = sd /\ z.receiver = rc
      /\ z.replied = x.replied /\ z.callback = x.callback /\ z.timeout = x.timeout /\ z.answer = x.answer
  BY <1>1 DEF ResultType
<1> QED
  BY <1>2, <1>3 DEF m, sd, rc

\* A message that is taken back, field by field.
LEMMA TakenBackIs ==
  ASSUME NEW x \in ResultType
  PROVE  LET z == TakenBack(x)
         IN  /\ z \in ResultType /\ ~z.msg /\ z.receiver = NoQueue /\ z.sender = x.sender
             /\ z.replied = x.replied /\ z.callback = x.callback
             /\ z.timeout = x.timeout /\ z.answer = x.answer
BY DEF ResultType, TakenBack

\* The lists and bits of every queue after results were answered.
LEMMA AnswerQueuesTypes ==
  ASSUME TypeInv, NEW R \in SUBSET Results, NEW sentNow \in [Threads -> Seq(Messages)], NEW cleared,
         AnswerQueues(R, sentNow, cleared)
  PROVE  /\ sent' \in [Threads -> Seq(Messages)]
         /\ wakeBits' \in [Threads -> SUBSET Bits] /\ changedBits' \in [Threads -> SUBSET Bits]
<1>1. \A q : AnswerBits(R, q) \in SUBSET Bits
  BY DEF AnswerBits, Bits
<1>2. \A q \in Threads : WithCallbacks(sentNow[q], R, q) \in Seq(Messages)
  BY WithCallbacksFacts
<1>3. wakeBits \in [Threads -> SUBSET Bits] /\ changedBits \in [Threads -> SUBSET Bits]
  BY DEF TypeInv, TypeOK
<1> QED
  BY <1>1, <1>2, <1>3 DEF AnswerQueues

-----------------------------------------------------------------------------
(***************************************************************************)
(* Answers.  Replies, timeouts, windows and threads that go away all cut   *)
(* some results from their queues and answer others; what follows from     *)
(* that is shown once, for a step of the form AnswerStep.                  *)
(***************************************************************************)
\* The results that the lists of a queue hold.
Distinct(list) ==
  /\ \A i, j \in DOMAIN list :
       list[i].result = list[j].result /\ list[i].result # NoResult => i = j
  /\ \A i \in DOMAIN list : list[i].type = "callback_result" => list[i].result = NoResult
Hold(q, sr, cb, rr, list, rs) ==
  /\ IsInjective(sr) /\ IsInjective(rr) /\ Distinct(list)
  /\ \A r \in Results :
       /\ r \in ToSet(sr) <=> rs[r].sender = q /\ ~rs[r].callback
       /\ r \in cb <=> rs[r].sender = q /\ rs[r].callback
       /\ r \in ToSet(rr) <=> rs[r].receiver = q /\ ~rs[r].msg
       /\ r \in ResultsIn(list) <=> rs[r].receiver = q /\ rs[r].msg
Destroyed(state, sr, cb, rr, list) ==
  state = "none" => list = <<>> /\ sr = <<>> /\ rr = <<>> /\ cb = {}
ListsOf(q) == /\ Hold(q, sendResult[q], callbackResult[q], recvResult[q], sent[q], res)
            /\ Destroyed(queue[q], sendResult[q], callbackResult[q], recvResult[q], sent[q])

\* ListsInv, thread by thread.
LEMMA ListsForm == ListsInv <=> \A q \in Threads : ListsOf(q)
BY DEF ListsInv, ListsOf, Hold, Destroyed, Distinct

\* The same of the next state.
LEMMA ListsFormNext == (ListsInv <=> \A q \in Threads : ListsOf(q))'
BY ListsForm, PTL

\* y is x, or x after queues let go of it.
CutOf(y, x) ==
  /\ y.replied = x.replied /\ y.callback = x.callback /\ y.answer = x.answer
  /\ y.timeout => x.timeout
  /\ y.msg => x.msg /\ y.receiver # NoQueue
  /\ y.sender \in {x.sender, NoQueue}

\* Queue q when the results are y and C, now, cleared say what it lost before R is answered.
QueueStep(q, R, y, C, now, cleared) ==
  /\ Hold(q, sendResult'[q], C[q], recvResult'[q], now[q], y)
  /\ Destroyed(queue'[q], sendResult'[q], C[q], recvResult'[q], now[q])
  /\ \/ sendResult'[q] = sendResult[q] /\ SMRESULT \notin cleared[q]
     \/ sendResult'[q] = <<>> /\ SMRESULT \in cleared[q] /\ \A r \in R : res[r].sender # q
  /\ SENDMESSAGE \in wakeBits[q] \ cleared[q] <=> now[q] # <<>>
  /\ POSTMESSAGE \in wakeBits[q] \ cleared[q] <=> posted'[q] # <<>> \/ quit'[q]
  /\ \/ pc'[q] \notin {"mask", "wait", "retrieve"}
     \/ /\ pc'[q] = pc[q] /\ calls'[q] = calls[q] /\ posted'[q] = posted[q] /\ quit'[q] = quit[q]
        /\ wakeMask'[q] = wakeMask[q] /\ changedMask'[q] = changedMask[q]
        /\ cleared[q] \subseteq {SENDMESSAGE}

AnswerStep(R, y, a, C, now, cleared) ==
  /\ R \in SUBSET Results /\ y \in [Results -> ResultType] /\ a \in Replies
  /\ C \in [Threads -> SUBSET Results] /\ now \in [Threads -> Seq(Messages)]
  /\ \A r \in Results : CutOf(y[r], res[r])
  /\ \A r \in R : y[r].sender = res[r].sender /\ ~y[r].msg /\ ~res[r].replied
  /\ res' = [r \in Results |-> IF r \in R THEN Answered(y[r], a) ELSE Released(y[r])]
  /\ callbackResult' = [q \in Threads |-> C[q] \ Callbacks(R, q)]
  /\ AnswerQueues(R, now, cleared)
  /\ \A q \in Threads : QueueStep(q, R, y, C, now, cleared)

\* One result in such a step.
LEMMA AnswerElement ==
  ASSUME TypeInv, ResultsInv, NEW R, NEW y, NEW a, NEW C, NEW now, NEW cleared,
         AnswerStep(R, y, a, C, now, cleared), NEW r \in Results
  PROVE  /\ res'[r] \in ResultType /\ y[r] \in ResultType /\ ResultInv(res'[r])
         /\ \A q \in Threads :
              /\ res'[r].sender = q /\ ~res'[r].callback <=> y[r].sender = q /\ ~y[r].callback
              /\ res'[r].sender = q /\ res'[r].callback <=>
                   y[r].sender = q /\ y[r].callback /\ r \notin R
              /\ res'[r].receiver = q /\ ~res'[r].msg <=> y[r].receiver = q /\ ~y[r].msg
              /\ res'[r].receiver = q /\ res'[r].msg <=> y[r].receiver = q /\ y[r].msg
              /\ y[r].sender = q /\ ~y[r].callback =>
                   /\ res'[r].answer = IF r \in R THEN a ELSE res[r].answer
                   /\ res'[r].replied <=> res[r].replied \/ r \in R
<1>1. y[r] \in ResultType /\ CutOf(y[r], res[r]) /\ res[r] \in ResultType /\ ResultInv(res[r])
  BY DEF AnswerStep, TypeInv, TypeOK, ResultsInv
<1>2. a \in Replies /\ res'[r] = IF r \in R THEN Answered(y[r], a) ELSE Released(y[r])
  BY DEF AnswerStep
<1>3. r \in R => y[r].sender = res[r].sender /\ ~y[r].msg /\ ~res[r].replied
  BY DEF AnswerStep
<1>4. /\ FreeResult.sender = NoQueue /\ FreeResult.receiver = NoQueue /\ ~FreeResult.msg
      /\ ~FreeResult.replied /\ ~FreeResult.callback /\ ~FreeResult.timeout
      /\ FreeResult.answer = "none" /\ FreeResult \in ResultType
  BY DEF FreeResult, ResultType
<1>5. \A q \in Threads : q # NoQueue
  BY NullAssumption
<1>6. /\ y[r].sender \in Threads \cup {NoQueue} /\ y[r].receiver \in Threads \cup {NoQueue}
      /\ y[r].msg \in BOOLEAN /\ y[r].callback \in BOOLEAN /\ y[r].replied \in BOOLEAN
      /\ y[r].timeout \in BOOLEAN
      /\ res[r].replied \in BOOLEAN /\ res[r].callback \in BOOLEAN
  BY <1>1 DEF ResultType
<1>7. "none" \notin Replies
  BY DEF Replies
<1>8. CASE r \in R
  <2> DEFINE queued == y[r].sender # NoQueue /\ y[r].callback
             gone == (queued \/ y[r].sender = NoQueue) /\ y[r].receiver = NoQueue
  <2>1. /\ res'[r] \in ResultType
        /\ gone => res'[r] = FreeResult
        /\ ~gone => /\ res'[r].msg = y[r].msg /\ res'[r].receiver = y[r].receiver
                    /\ res'[r].replied /\ res'[r].answer = a /\ ~res'[r].timeout
                    /\ (res'[r].callback <=> y[r].callback /\ ~queued)
                    /\ res'[r].sender = IF queued THEN NoQueue ELSE y[r].sender
    BY <1>1, <1>2, <1>8, AnsweredIs
  <2>2. ResultInv(res'[r])
    BY <1>3, <1>4, <1>6, <1>7, <1>2, <1>8, <2>1 DEF ResultInv
  <2> QED
    BY <1>1, <1>3, <1>4, <1>5, <1>6, <1>8, <2>1, <2>2
<1>9. CASE r \notin R
  <2>1. /\ res'[r] \in ResultType
        /\ res'[r] = IF y[r].sender = NoQueue /\ y[r].receiver = NoQueue THEN FreeResult ELSE y[r]
    BY <1>1, <1>2, <1>9, ReleasedIs
  <2>2. ResultInv(res'[r])
    BY <1>1, <1>4, <1>6, <2>1 DEF ResultInv, CutOf
  <2> QED
    BY <1>1, <1>4, <1>5, <1>6, <1>9, <2>1, <2>2 DEF CutOf
<1> QED
  BY <1>8, <1>9

\* The lists hold the results after the step, and each result is free, awaits an answer or
\* has one.
LEMMA AnswerLists ==
  ASSUME TypeInv, ResultsInv, NEW R, NEW y, NEW a, NEW C, NEW now, NEW cleared,
         AnswerStep(R, y, a, C, now, cleared)
  PROVE  ListsInv' /\ ResultsInv' /\ \A q \in Threads : Callbacks(R, q) # {} => C[q] # {}
<1>1. ResultsInv'
  <2>1. \A r \in Results : ResultInv(res'[r])
    BY AnswerElement
  <2>2. \A r \in Results : ResultInv(res[r])'
    BY <2>1 DEF ResultInv
  <2> QED
    BY <2>2 DEF ResultsInv
<1>2. ASSUME NEW q \in Threads PROVE ListsOf(q)' /\ (Callbacks(R, q) # {} => C[q] # {})
  <2>1. /\ Hold(q, sendResult'[q], C[q], recvResult'[q], now[q], y)
        /\ Destroyed(queue'[q], sendResult'[q], C[q], recvResult'[q], now[q])
    BY <1>2 DEF AnswerStep, QueueStep
  <2>2. /\ R \in SUBSET Results /\ now[q] \in Seq(Messages) /\ C[q] \in SUBSET Results
        /\ sent'[q] = WithCallbacks(now[q], R, q)
        /\ callbackResult'[q] = C[q] \ Callbacks(R, q)
    BY DEF AnswerStep, AnswerQueues
  <2>3. \A r \in R : r \in Callbacks(R, q) <=> y[r].sender = q /\ y[r].callback
    <3> SUFFICES ASSUME NEW r \in R PROVE r \in Callbacks(R, q) <=> y[r].sender = q /\ y[r].callback
      OBVIOUS
    <3>1. y[r].sender = res[r].sender /\ CutOf(y[r], res[r])
      BY <2>2 DEF AnswerStep
    <3> QED
      BY <3>1 DEF Callbacks, CutOf
  <2>4. Callbacks(R, q) \subseteq R
    BY DEF Callbacks
  <2>5. Callbacks(R, q) \subseteq C[q]
    BY <2>1, <2>2, <2>3, <2>4 DEF Hold
  <2>6. ASSUME NEW r \in Results
        PROVE  r \in callbackResult'[q] <=> res'[r].sender = q /\ res'[r].callback
    BY <2>1, <2>2, <2>3, <2>4, <2>6, AnswerElement DEF Hold
  <2>7. /\ DOMAIN now[q] \subseteq DOMAIN sent'[q]
        /\ \A i \in DOMAIN now[q] : sent'[q][i] = now[q][i]
        /\ \A i \in DOMAIN sent'[q] : i \in DOMAIN now[q] \/ sent'[q][i] = CallbackResult
        /\ sent'[q] = <<>> <=> now[q] = <<>> /\ Callbacks(R, q) = {}
    <3>0. R \in SUBSET Results
      BY <2>2
    <3>1. PICK list \in Seq(Messages) : list = now[q]
      BY <2>2
    <3>2. LET w == WithCallbacks(list, R, q)
          IN  /\ w \in Seq(Messages) /\ DOMAIN list = 1..Len(list) /\ Len(list) \in Nat
              /\ DOMAIN list \subseteq DOMAIN w
              /\ \A i \in DOMAIN list : w[i] = list[i]
              /\ \A i \in DOMAIN w : i \in DOMAIN list \/ w[i] = CallbackResult
              /\ w = <<>> <=> list = <<>> /\ Callbacks(R, q) = {}
              /\ Callbacks(R, q) = {} => w = list
      BY <3>0, WithCallbacksFacts
    <3> QED
      BY <2>2, <3>1, <3>2
  <2>8. CallbackResult.result = NoResult /\ CallbackResult.type = "callback_result"
    BY DEF CallbackResult, Message
  <2>9. Distinct(now[q])
    BY <2>1 DEF Hold
  <2>10. Distinct(sent'[q])
    BY <2>7, <2>8, <2>9 DEF Distinct
  <2>11. ResultsIn(sent'[q]) = ResultsIn(now[q])
    BY <2>7, <2>8 DEF ResultsIn
  <2>12. Hold(q, sendResult'[q], callbackResult'[q], recvResult'[q], sent'[q], res')
    <3>1. \A r \in Results :
            /\ r \in ToSet(sendResult'[q]) <=> res'[r].sender = q /\ ~res'[r].callback
            /\ r \in ToSet(recvResult'[q]) <=> res'[r].receiver = q /\ ~res'[r].msg
            /\ r \in ResultsIn(now[q]) <=> res'[r].receiver = q /\ res'[r].msg
      BY <2>1, AnswerElement DEF Hold
    <3>2. IsInjective(sendResult'[q]) /\ IsInjective(recvResult'[q])
      BY <2>1 DEF Hold
    <3> QED
      BY <2>6, <2>10, <2>11, <3>1, <3>2 DEF Hold
  <2>13. Destroyed(queue'[q], sendResult'[q], callbackResult'[q], recvResult'[q], sent'[q])
    BY <2>1, <2>2, <2>5, <2>7 DEF Destroyed
  <2> QED
    BY <2>5, <2>12, <2>13 DEF ListsOf
<1>3. \A q \in Threads : ListsOf(q)'
  BY <1>2
<1>4. ListsInv'
  BY <1>3, ListsFormNext
<1> QED
  BY <1>1, <1>2, <1>4

-----------------------------------------------------------------------------
\* The invariants of the bits and the masks, queue by queue.
BitsOf(q) ==
  /\ SENDMESSAGE \in wakeBits[q] <=> sent[q] # <<>>
  /\ POSTMESSAGE \in wakeBits[q] <=> posted[q] # <<>> \/ quit[q]
  /\ sendResult[q] # <<>> /\ res[Head(sendResult[q])].replied => SMRESULT \in wakeBits[q]
  /\ sendResult[q] = <<>> => SMRESULT \notin wakeBits[q]
  /\ changedBits[q] \subseteq wakeBits[q]
SomeReplied(list, rs) == \E i \in DOMAIN list : rs[list[i]].replied
AnswerOf(q) ==
  /\ SMRESULT \in wakeBits[q] => SomeReplied(sendResult[q], res)
  /\ pc[q] = "retrieve" => SMRESULT \in wakeBits[q]
NoMatch(list, quits, filter) == ~quits /\ \A i \in DOMAIN list : ~Matches(list[i], filter)
MaskOf(q) ==
  /\ pc[q] = "wait" => wakeMask[q] = WakeMask(Top(q)) /\ changedMask[q] = ChangedMask(Top(q))
  /\ pc[q] \in {"mask", "wait"} /\ Top(q).kind = "get" /\ POSTMESSAGE \notin changedBits[q] =>
       NoMatch(posted[q], quit[q], Top(q).filter)

\* The invariants of the bits, thread by thread.
LEMMA BitsForm == /\ BitsExact <=> \A q \in Threads : BitsOf(q)
                  /\ AnswerInv <=> \A q \in Threads : AnswerOf(q)
                  /\ MaskInv <=> \A q \in Threads : MaskOf(q)
<1>1. BitsExact <=> \A q \in Threads : BitsOf(q)
  BY DEF BitsExact, BitsOf
<1>2. AnswerInv <=> \A q \in Threads : AnswerOf(q)
  BY DEF AnswerInv, AnswerOf, SomeReplied
<1>3. MaskInv <=> \A q \in Threads : MaskOf(q)
  BY DEF MaskInv, MaskOf, NoMatch
<1> QED
  BY <1>1, <1>2, <1>3

\* The same of the next state.
LEMMA BitsFormNext == (/\ BitsExact <=> \A q \in Threads : BitsOf(q)
                       /\ AnswerInv <=> \A q \in Threads : AnswerOf(q)
                       /\ MaskInv <=> \A q \in Threads : MaskOf(q))'
BY BitsForm, PTL

\* The wake bits are four different ones.
LEMMA BitNames ==
  /\ SENDMESSAGE # SMRESULT /\ SENDMESSAGE # POSTMESSAGE /\ SENDMESSAGE # ALLPOSTMESSAGE
  /\ SMRESULT # POSTMESSAGE /\ SMRESULT # ALLPOSTMESSAGE /\ POSTMESSAGE # ALLPOSTMESSAGE
  /\ PostBits = {POSTMESSAGE, ALLPOSTMESSAGE}
  /\ Bits = {SENDMESSAGE, SMRESULT, POSTMESSAGE, ALLPOSTMESSAGE}
BY DEF SENDMESSAGE, SMRESULT, POSTMESSAGE, ALLPOSTMESSAGE, PostBits, Bits

\* What the answers do to the bits of one queue.
LEMMA AnswerBitsOf ==
  ASSUME NEW R, NEW q
  PROVE  /\ SENDMESSAGE \in AnswerBits(R, q) <=> Callbacks(R, q) # {}
         /\ SMRESULT \in AnswerBits(R, q) <=> sendResult[q] # <<>> /\ Head(sendResult[q]) \in R
         /\ AnswerBits(R, q) \subseteq {SENDMESSAGE, SMRESULT}
BY BitNames DEF AnswerBits

\* The bits say what is in the queues after the step, and no waiting thread misses a change.
LEMMA AnswerBitsExact ==
  ASSUME TypeInv, ListsInv, ResultsInv, BitsExact, AnswerInv, MaskInv,
         NEW R, NEW y, NEW a, NEW C, NEW now, NEW cleared, AnswerStep(R, y, a, C, now, cleared)
  PROVE  BitsExact' /\ AnswerInv' /\ MaskInv'
<1>1. ASSUME NEW q \in Threads PROVE BitsOf(q)' /\ AnswerOf(q)' /\ MaskOf(q)'
  <2>1. QueueStep(q, R, y, C, now, cleared)
    BY DEF AnswerStep
  <2>2. /\ R \in SUBSET Results /\ now[q] \in Seq(Messages)
        /\ sent'[q] = WithCallbacks(now[q], R, q)
        /\ wakeBits'[q] = (wakeBits[q] \ cleared[q]) \cup AnswerBits(R, q)
        /\ changedBits'[q] = (changedBits[q] \ cleared[q]) \cup AnswerBits(R, q)
    BY DEF AnswerStep, AnswerQueues
  <2>3. BitsOf(q) /\ AnswerOf(q) /\ MaskOf(q)
    BY BitsForm
  <2>4. sent'[q] = <<>> <=> now[q] = <<>> /\ Callbacks(R, q) = {}
    <3>0. R \in SUBSET Results
      BY <2>2
    <3>1. PICK list \in Seq(Messages) : list = now[q]
      BY <2>2
    <3>2. LET w == WithCallbacks(list, R, q)
          IN  /\ w \in Seq(Messages) /\ DOMAIN list = 1..Len(list) /\ Len(list) \in Nat
              /\ DOMAIN list \subseteq DOMAIN w
              /\ \A i \in DOMAIN list : w[i] = list[i]
              /\ \A i \in DOMAIN w : i \in DOMAIN list \/ w[i] = CallbackResult
              /\ w = <<>> <=> list = <<>> /\ Callbacks(R, q) = {}
              /\ Callbacks(R, q) = {} => w = list
      BY <3>0, WithCallbacksFacts
    <3> QED
      BY <2>2, <3>1, <3>2
  <2>5. SENDMESSAGE \in wakeBits'[q] <=> sent'[q] # <<>>
    BY <2>1, <2>2, <2>4, AnswerBitsOf DEF QueueStep
  <2>6. POSTMESSAGE \in wakeBits'[q] <=> posted'[q] # <<>> \/ quit'[q]
    BY <2>1, <2>2, AnswerBitsOf, BitNames DEF QueueStep
  <2>7. changedBits'[q] \subseteq wakeBits'[q]
    BY <2>2, <2>3 DEF BitsOf
  <2>8. sendResult[q] \in Seq(Results)
    BY DEF TypeInv, TypeOK
  <2>11. /\ sendResult'[q] # <<>> /\ res'[Head(sendResult'[q])].replied => SMRESULT \in wakeBits'[q]
         /\ sendResult'[q] = <<>> => SMRESULT \notin wakeBits'[q]
         /\ SMRESULT \in wakeBits'[q] => SomeReplied(sendResult'[q], res')
    <3>9. CASE sendResult'[q] = sendResult[q] /\ SMRESULT \notin cleared[q]
      <4>1. ASSUME NEW i \in DOMAIN sendResult[q]
            PROVE  /\ sendResult[q][i] \in Results
                   /\ res'[sendResult[q][i]].replied <=>
                        res[sendResult[q][i]].replied \/ sendResult[q][i] \in R
        <5>1. sendResult[q][i] \in Results /\ sendResult[q][i] \in ToSet(sendResult[q])
          BY <2>8, <4>1 DEF ToSet
        <5>2. y[sendResult[q][i]].sender = q /\ ~y[sendResult[q][i]].callback
          BY <2>1, <3>9, <5>1 DEF QueueStep, Hold
        <5> QED
          BY <5>1, <5>2, AnswerElement
      <4>2. sendResult[q] # <<>> => 1 \in DOMAIN sendResult[q] /\ Head(sendResult[q]) = sendResult[q][1]
        BY <2>8, PopFacts
      <4>3. sendResult'[q] # <<>> /\ res'[Head(sendResult'[q])].replied => SMRESULT \in wakeBits'[q]
        BY <2>2, <2>3, <3>9, <4>1, <4>2, AnswerBitsOf DEF BitsOf
      <4>4. sendResult'[q] = <<>> => SMRESULT \notin wakeBits'[q]
        BY <2>2, <2>3, <3>9, AnswerBitsOf DEF BitsOf
      <4>5. SMRESULT \in wakeBits'[q] => SomeReplied(sendResult'[q], res')
        BY <2>2, <2>3, <3>9, <4>1, <4>2, AnswerBitsOf DEF AnswerOf, SomeReplied
      <4> QED
        BY <2>2, <3>9, <4>3, <4>4, <4>5
    <3>10. CASE sendResult'[q] = <<>> /\ SMRESULT \in cleared[q] /\ \A r \in R : res[r].sender # q
      <4>1. sendResult[q] # <<>> => Head(sendResult[q]) \notin R
        <5> SUFFICES ASSUME sendResult[q] # <<>> PROVE Head(sendResult[q]) \notin R
          OBVIOUS
        <5>1. Head(sendResult[q]) \in Results /\ Head(sendResult[q]) \in ToSet(sendResult[q])
          BY <2>8, PopFacts DEF ToSet
        <5>2. res[Head(sendResult[q])].sender = q
          BY <5>1 DEF ListsInv
        <5> QED
          BY <3>10, <5>2
      <4>2. SMRESULT \notin wakeBits'[q]
        BY <2>2, <3>10, <4>1, AnswerBitsOf
      <4> QED
        BY <3>10, <4>2
    <3> QED
      BY <2>1, <3>9, <3>10 DEF QueueStep
  <2>12. BitsOf(q)'
    BY <2>5, <2>6, <2>7, <2>11 DEF BitsOf
  <2>13. pc'[q] = "retrieve" => SMRESULT \in wakeBits'[q]
    BY <2>1, <2>2, <2>3, BitNames DEF QueueStep, AnswerOf
  <2>14. AnswerOf(q)'
    BY <2>11, <2>13 DEF AnswerOf, SomeReplied
  <2>15. MaskOf(q)'
    <3>1. CASE pc'[q] \notin {"mask", "wait", "retrieve"}
      BY <3>1 DEF MaskOf
    <3>2. CASE /\ pc'[q] = pc[q] /\ calls'[q] = calls[q] /\ posted'[q] = posted[q] /\ quit'[q] = quit[q]
               /\ wakeMask'[q] = wakeMask[q] /\ changedMask'[q] = changedMask[q]
               /\ cleared[q] \subseteq {SENDMESSAGE}
      <4>1. Top(q)' = Top(q)
        BY <3>2 DEF Top
      <4>2. POSTMESSAGE \notin changedBits'[q] => POSTMESSAGE \notin changedBits[q]
        BY <2>2, <3>2, BitNames
      <4> QED
        BY <2>3, <3>2, <4>1, <4>2 DEF MaskOf
    <3> QED
      BY <2>1, <3>1, <3>2 DEF QueueStep
  <2> QED
    BY <2>12, <2>14, <2>15
<1> QED
  BY <1>1, BitsFormNext

-----------------------------------------------------------------------------
\* The first of a list of distinct results is taken off.
LEMMA PopSet ==
  ASSUME NEW q \in Seq(Results), q # <<>>, IsInjective(q)
  PROVE  /\ Head(q) \in Results /\ Head(q) \in ToSet(q)
         /\ Tail(q) \in Seq(Results) /\ IsInjective(Tail(q)) /\ ToSet(Tail(q)) = ToSet(q) \ {Head(q)}
<1>1. /\ Head(q) = q[1] /\ Head(q) \in Results /\ 1 \in DOMAIN q
      /\ Tail(q) \in Seq(Results) /\ Len(q) \in Nat \ {0} /\ DOMAIN q = 1..Len(q)
      /\ DOMAIN Tail(q) = 1..(Len(q) - 1) /\ \A i \in 1..(Len(q) - 1) : Tail(q)[i] = q[i + 1]
  BY PopFacts
<1>2. \A i, j \in DOMAIN q : q[i] = q[j] => i = j
  BY DEF IsInjective
<1>3. IsInjective(Tail(q))
  <2> SUFFICES ASSUME NEW i \in DOMAIN Tail(q), NEW j \in DOMAIN Tail(q), Tail(q)[i] = Tail(q)[j]
               PROVE  i = j
    BY DEF IsInjective
  <2>1. i \in Nat /\ j \in Nat /\ i + 1 \in DOMAIN q /\ j + 1 \in DOMAIN q /\ q[i + 1] = q[j + 1]
    BY <1>1
  <2>2. i + 1 = j + 1
    BY <1>2, <2>1
  <2> QED
    BY <2>1, <2>2
<1>4. ToSet(Tail(q)) \subseteq ToSet(q) \ {Head(q)}
  <2> SUFFICES ASSUME NEW i \in DOMAIN Tail(q) PROVE Tail(q)[i] \in ToSet(q) \ {Head(q)}
    BY DEF ToSet
  <2>1. i + 1 \in DOMAIN q /\ i + 1 # 1 /\ Tail(q)[i] = q[i + 1]
    BY <1>1
  <2> QED
    BY <1>1, <1>2, <2>1 DEF ToSet
<1>5. ToSet(q) \ {Head(q)} \subseteq ToSet(Tail(q))
  <2> SUFFICES ASSUME NEW i \in DOMAIN q, q[i] # Head(q) PROVE q[i] \in ToSet(Tail(q))
    BY DEF ToSet
  <2>1. i - 1 \in DOMAIN Tail(q) /\ (i - 1) + 1 = i
    BY <1>1
  <2>2. Tail(q)[i - 1] = q[i]
    BY <1>1, <2>1
  <2> QED
    BY <2>1, <2>2 DEF ToSet
<1>6. Head(q) \in ToSet(q)
  BY <1>1 DEF ToSet
<1> QED
  BY <1>1, <1>3, <1>4, <1>5, <1>6

\* Some messages of a list are taken out.
LEMMA KeptMessages ==
  ASSUME NEW list \in Seq(Messages), Distinct(list), NEW P \in SUBSET DOMAIN list
  PROVE  LET left == Kept(list, P)
         IN  /\ left \in Seq(Messages) /\ Distinct(left)
             /\ ResultsIn(left) = {list[i].result : i \in P} \ {NoResult}
             /\ left # <<>> => list # <<>>
<1> DEFINE left == Kept(list, P)
<1>1. /\ left \in Seq(Messages)
      /\ \A k \in DOMAIN left : \E i \in P : left[k] = list[i]
      /\ \A i \in P : \E k \in DOMAIN left : left[k] = list[i]
  BY KeptFacts
<1>2. \A k, l \in DOMAIN left : \E i, j \in P : left[k] = list[i] /\ left[l] = list[j] /\ (i = j => k = l)
  BY KeptPlaces
<1> HIDE DEF left
<1>3. Distinct(left)
  <2>1. ASSUME NEW k \in DOMAIN left, NEW l \in DOMAIN left,
               left[k].result = left[l].result, left[k].result # NoResult
        PROVE  k = l
    <3>1. PICK i \in P, j \in P : left[k] = list[i] /\ left[l] = list[j] /\ (i = j => k = l)
      BY <1>2
    <3> QED
      BY <2>1, <3>1 DEF Distinct
  <2>2. ASSUME NEW k \in DOMAIN left, left[k].type = "callback_result"
        PROVE  left[k].result = NoResult
    BY <1>1, <2>2 DEF Distinct
  <2> QED
    BY <2>1, <2>2 DEF Distinct
<1>4. ResultsIn(left) = {list[i].result : i \in P} \ {NoResult}
  <2>1. ASSUME NEW k \in DOMAIN left PROVE left[k].result \in {list[i].result : i \in P}
    BY <1>1
  <2>2. ASSUME NEW i \in P PROVE list[i].result \in {left[k].result : k \in DOMAIN left}
    BY <1>1
  <2> QED
    BY <2>1, <2>2 DEF ResultsIn
<1>5. left # <<>> => list # <<>>
  <2> SUFFICES ASSUME left # <<>> PROVE list # <<>>
    OBVIOUS
  <2>1. 1 \in DOMAIN left
    BY <1>1, PopFacts
  <2>2. DOMAIN list # {}
    BY <1>1, <2>1
  <2> QED
    BY <2>2, EmptySeq
<1> QED
  BY <1>1, <1>3, <1>4, <1>5 DEF left

\* An empty list holds no result.
LEMMA HoldNothing ==
  /\ IsInjective(<<>>) /\ Distinct(<<>>) /\ ToSet(<<>>) = {} /\ ResultsIn(<<>>) = {}
<1>1. DOMAIN <<>> = {}
  BY EmptySeq
<1> QED
  BY <1>1 DEF IsInjective, Distinct, ToSet, ResultsIn

\* A result that nobody freed is not freed.
LEMMA ReleasedSame ==
  ASSUME TypeInv, ResultsInv, NEW r \in Results
  PROVE  Released(res[r]) = res[r]
<1>1. ResultInv(res[r])
  BY DEF ResultsInv
<1> QED
  BY <1>1 DEF Released, ResultInv

\* The threads that do not take part in a step.
Aside(q) == \/ pc'[q] \notin {"mask", "wait", "retrieve"}
            \/ pc'[q] = pc[q] /\ calls'[q] = calls[q]

\* reply_message answers one result.
LEMMA ReplyStep ==
  ASSUME TypeInv, ListsInv, ResultsInv, BitsExact, NEW t \in Threads, NEW remove \in BOOLEAN,
         recvResult[t] # <<>>, Reply(t, remove), queue' = queue, \A q \in Threads : Aside(q)
  PROVE  \E R, y, C, now, cleared : AnswerStep(R, y, "reply", C, now, cleared)
<1> DEFINE r == Head(recvResult[t])
           x == IF remove THEN [res[r] EXCEPT !.receiver = NoQueue] ELSE res[r]
           R == IF x.replied \/ (remove /\ x.sender = NoQueue) THEN {} ELSE {r}
           y == [res EXCEPT ![r] = x]
<1>1. /\ recvResult' = [recvResult EXCEPT ![t] = IF remove THEN Tail(recvResult[t]) ELSE recvResult[t]]
      /\ res' = [res EXCEPT ![r] = IF R = {} THEN Released(x) ELSE Answered(x, "reply")]
      /\ callbackResult' = [q \in Threads |-> callbackResult[q] \ Callbacks(R, q)]
      /\ AnswerQueues(R, sent, NothingCleared)
      /\ UNCHANGED <<posted, quit, sendResult, wakeMask, changedMask>>
  BY DEF Reply
<1>2. recvResult[t] \in Seq(Results) /\ IsInjective(recvResult[t])
  BY DEF TypeInv, TypeOK, ListsInv
<1>3. /\ r \in Results /\ r \in ToSet(recvResult[t])
      /\ Tail(recvResult[t]) \in Seq(Results) /\ IsInjective(Tail(recvResult[t]))
      /\ ToSet(Tail(recvResult[t])) = ToSet(recvResult[t]) \ {r}
  BY <1>2, PopSet
<1>4. res[r].receiver = t /\ ~res[r].msg /\ res[r] \in ResultType
  BY <1>3 DEF ListsInv, TypeInv, TypeOK
<1>5. /\ x \in ResultType /\ x.sender = res[r].sender /\ x.msg = res[r].msg
      /\ x.receiver = (IF remove THEN NoQueue ELSE t)
      /\ x.replied = res[r].replied /\ x.callback = res[r].callback
      /\ x.timeout = res[r].timeout /\ x.answer = res[r].answer
  BY <1>4 DEF ResultType
<1>6. R \in SUBSET {r} /\ (r \in R => ~res[r].replied)
  BY <1>5
<1>7. /\ y \in [Results -> ResultType] /\ y[r] = x /\ \A k \in Results : k # r => y[k] = res[k]
  BY <1>3, <1>5 DEF TypeInv, TypeOK
<1> HIDE DEF r, x, R, y
<1>8. CutOf(x, res[r])
  BY <1>4, <1>5 DEF CutOf
<1>9. \A k \in Results : CutOf(y[k], res[k])
  <2> SUFFICES ASSUME NEW k \in Results, k # r PROVE CutOf(res[k], res[k])
    BY <1>7, <1>8
  <2>1. ResultInv(res[k])
    BY DEF ResultsInv
  <2> QED
    BY <2>1 DEF CutOf, ResultInv
<1>10. res' = [k \in Results |-> IF k \in R THEN Answered(y[k], "reply") ELSE Released(y[k])]
  <2>1. res'[r] = IF R = {} THEN Released(x) ELSE Answered(x, "reply")
    BY <1>1, <1>3 DEF TypeInv, TypeOK
  <2>2. \A k \in Results : k # r => res'[k] = Released(y[k]) /\ k \notin R
    BY <1>1, <1>6, <1>7, ReleasedSame DEF TypeInv, TypeOK
  <2>3. R = {} \/ R = {r}
    BY <1>6
  <2>4. res' = [k \in Results |-> res'[k]]
    BY <1>1 DEF TypeInv, TypeOK
  <2>5. \A k \in Results : res'[k] = IF k \in R THEN Answered(y[k], "reply") ELSE Released(y[k])
    BY <1>7, <2>1, <2>2, <2>3
  <2> QED
    BY <2>4, <2>5
<1>11. \A k \in R : y[k].sender = res[k].sender /\ ~y[k].msg /\ ~res[k].replied
  BY <1>4, <1>5, <1>6, <1>7
<1>12. ASSUME NEW q \in Threads
       PROVE  QueueStep(q, R, y, callbackResult, sent, NothingCleared)
  <2>1. ListsOf(q) /\ BitsOf(q) /\ NothingCleared[q] = {}
    BY ListsForm, BitsForm DEF NothingCleared
  <2>2. ASSUME NEW k \in Results
        PROVE  /\ y[k].sender = res[k].sender /\ y[k].callback = res[k].callback
               /\ y[k].msg = res[k].msg
               /\ k # r \/ q # t => (y[k].receiver = q <=> res[k].receiver = q)
    BY <1>4, <1>5, <1>7, NullAssumption
  <2>3. \/ q # t /\ recvResult'[q] = recvResult[q]
        \/ q = t /\ recvResult'[q] = IF remove THEN Tail(recvResult[q]) ELSE recvResult[q]
    BY <1>1 DEF TypeInv, TypeOK
  <2>4. /\ IsInjective(recvResult'[q])
        /\ \A k \in Results : k \in ToSet(recvResult'[q]) <=> y[k].receiver = q /\ ~y[k].msg
    <3>1. CASE q = t /\ remove
      <4>1. recvResult'[q] = Tail(recvResult[t]) /\ y[r].receiver # q
        BY <1>5, <1>7, <2>3, <3>1, NullAssumption
      <4> QED
        BY <1>3, <2>1, <2>2, <3>1, <4>1 DEF ListsOf, Hold
    <3>2. CASE ~(q = t /\ remove)
      <4>1. recvResult'[q] = recvResult[q] /\ (q = t => y[r].receiver = res[r].receiver)
        BY <1>4, <1>5, <1>7, <2>3, <3>2
      <4> QED
        BY <2>1, <2>2, <4>1 DEF ListsOf, Hold
    <3> QED
      BY <3>1, <3>2
  <2>5. ASSUME NEW k \in Results
        PROVE  k \in ResultsIn(sent[q]) <=> y[k].receiver = q /\ y[k].msg
    <3>1. CASE k = r
      BY <1>4, <2>1, <2>2, <3>1 DEF ListsOf, Hold
    <3>2. CASE k # r
      BY <2>1, <2>2, <3>2 DEF ListsOf, Hold
    <3> QED
      BY <3>1, <3>2
  <2>6. Hold(q, sendResult'[q], callbackResult[q], recvResult'[q], sent[q], y)
    BY <1>1, <2>1, <2>2, <2>4, <2>5 DEF ListsOf, Hold
  <2>7. Destroyed(queue'[q], sendResult'[q], callbackResult[q], recvResult'[q], sent[q])
    BY <1>1, <2>1, <2>3 DEF ListsOf, Destroyed
  <2> QED
    BY <1>1, <2>1, <2>6, <2>7 DEF QueueStep, BitsOf, Aside
<1>13. /\ R \in SUBSET Results /\ "reply" \in Replies
       /\ callbackResult \in [Threads -> SUBSET Results] /\ sent \in [Threads -> Seq(Messages)]
  BY <1>3, <1>6 DEF TypeInv, TypeOK, Replies
<1>14. AnswerStep(R, y, "reply", callbackResult, sent, NothingCleared)
  BY <1>1, <1>7, <1>9, <1>10, <1>11, <1>12, <1>13 DEF AnswerStep
<1> QED
  BY <1>14

\* result_timeout answers one result, and takes back its message.
LEMMA TimeoutStep ==
  ASSUME TypeInv, ListsInv, ResultsInv, BitsExact, NEW r \in Results, ResultTimeout(r)
  PROVE  \E R, y, C, now, cleared : AnswerStep(R, y, "timeout", C, now, cleared)
<1> DEFINE x == [res[r] EXCEPT !.timeout = FALSE]
           u == x.receiver
           left == WithoutResult(sent[u], r)
           z == IF x.msg THEN TakenBack(x) ELSE x
           y == [res EXCEPT ![r] = z]
           now == IF x.msg THEN [sent EXCEPT ![u] = left] ELSE sent
           cleared == IF x.msg THEN [NothingCleared EXCEPT ![u] = SentCleared(left)]
                      ELSE NothingCleared
           S == IF x.sender = NoQueue THEN {} ELSE {r}
<1>1. /\ res' = [res EXCEPT ![r] = Answered(z, "timeout")]
      /\ AnswerQueues(S, now, cleared)
      /\ UNCHANGED <<queue, handle, posted, quit, sendResult, callbackResult, recvResult,
                     wakeMask, changedMask, calls, pc, sends>>
  BY DEF ResultTimeout
<1>2. /\ res[r] \in ResultType /\ ResultInv(res[r]) /\ res[r].timeout
  BY DEF TypeInv, TypeOK, ResultsInv, ResultTimeout
<1>3. ~res[r].replied /\ ~res[r].callback
  BY <1>2 DEF ResultInv
<1>4. /\ x \in ResultType /\ x.msg = res[r].msg /\ x.sender = res[r].sender
      /\ x.receiver = res[r].receiver /\ x.replied = res[r].replied
      /\ x.callback = res[r].callback /\ ~x.timeout /\ x.answer = res[r].answer
  BY <1>2 DEF ResultType
<1> HIDE DEF x
<1>5. /\ z \in ResultType /\ ~z.msg /\ z.sender = res[r].sender
      /\ z.replied = res[r].replied /\ z.callback = res[r].callback
      /\ ~z.timeout /\ z.answer = res[r].answer
      /\ z.receiver = IF res[r].msg THEN NoQueue ELSE res[r].receiver
  <2>1. TakenBack(x) \in ResultType /\ ~TakenBack(x).msg /\ TakenBack(x).receiver = NoQueue
        /\ TakenBack(x).sender = x.sender /\ TakenBack(x).replied = x.replied
        /\ TakenBack(x).callback = x.callback
        /\ TakenBack(x).timeout = x.timeout /\ TakenBack(x).answer = x.answer
    BY <1>4, TakenBackIs
  <2> QED
    BY <1>2, <1>4, <2>1 DEF ResultType
<1> HIDE DEF z
<1>6. y \in [Results -> ResultType] /\ y[r] = z /\ \A k \in Results : k # r => y[k] = res[k]
  BY <1>5 DEF TypeInv, TypeOK
<1>7. u = res[r].receiver /\ (x.msg => u \in Threads)
  BY <1>2, <1>4 DEF ResultInv, ResultType
<1> HIDE DEF y, u
<1>8. x.msg => /\ left \in Seq(Messages) /\ Distinct(left)
               /\ ResultsIn(left) = ResultsIn(sent[u]) \ {r}
               /\ (left # <<>> => sent[u] # <<>>)
  <2> SUFFICES ASSUME x.msg
               PROVE  /\ left \in Seq(Messages) /\ Distinct(left)
                      /\ ResultsIn(left) = ResultsIn(sent[u]) \ {r}
                      /\ (left # <<>> => sent[u] # <<>>)
    OBVIOUS
  <2>1. PICK list \in Seq(Messages) : list = sent[u]
    BY <1>7 DEF TypeInv, TypeOK
  <2>2. Distinct(list)
    BY <1>7, <2>1, ListsForm DEF ListsOf, Hold
  <2>3. PICK P \in SUBSET DOMAIN list : P = {i \in DOMAIN list : list[i].result # r}
    OBVIOUS
  <2>4. left = Kept(list, P)
    BY <2>1, <2>3 DEF WithoutResult
  <2>5. LET l == Kept(list, P)
        IN  /\ l \in Seq(Messages) /\ Distinct(l)
            /\ ResultsIn(l) = {list[i].result : i \in P} \ {NoResult}
            /\ l # <<>> => list # <<>>
    BY <2>2, KeptMessages
  <2>6. {list[i].result : i \in P} \ {NoResult} = ResultsIn(list) \ {r}
    BY <2>3 DEF ResultsIn
  <2> QED
    BY <2>1, <2>4, <2>5, <2>6
<1> HIDE DEF left
<1>9. now \in [Threads -> Seq(Messages)]
  BY <1>7, <1>8 DEF TypeInv, TypeOK
<1>10. ASSUME NEW q \in Threads
       PROVE  /\ now[q] = (IF x.msg /\ q = u THEN left ELSE sent[q])
              /\ cleared[q] = (IF x.msg /\ q = u THEN SentCleared(left) ELSE {})
  BY <1>7 DEF NothingCleared, TypeInv, TypeOK
<1> HIDE DEF now, cleared
<1>11. \A k \in Results : CutOf(y[k], res[k])
  <2>1. CutOf(z, res[r])
    BY <1>5 DEF CutOf
  <2> SUFFICES ASSUME NEW k \in Results, k # r PROVE CutOf(res[k], res[k])
    BY <1>6, <2>1
  <2>2. ResultInv(res[k])
    BY DEF ResultsInv
  <2> QED
    BY <2>2 DEF CutOf, ResultInv
<1>12. res' = [k \in Results |-> IF k \in {r} THEN Answered(y[k], "timeout") ELSE Released(y[k])]
  <2>1. res' = [k \in Results |-> res'[k]]
    BY <1>1 DEF TypeInv, TypeOK
  <2>2. \A k \in Results : res'[k] = IF k \in {r} THEN Answered(y[k], "timeout") ELSE Released(y[k])
    BY <1>1, <1>6, ReleasedSame DEF TypeInv, TypeOK
  <2> QED
    BY <2>1, <2>2
<1>13. \A q \in Threads : Callbacks({r}, q) = {} /\ Callbacks(S, q) = {}
  BY <1>3 DEF Callbacks
<1>14. ASSUME NEW q \in Threads PROVE AnswerBits(S, q) = AnswerBits({r}, q)
  <2>1. CASE x.sender # NoQueue
    BY <2>1
  <2>2. CASE x.sender = NoQueue
    <3>1. r \notin ToSet(sendResult[q])
      BY <1>4, <2>2, NullAssumption DEF ListsInv
    <3>2. sendResult[q] # <<>> => Head(sendResult[q]) \in ToSet(sendResult[q])
      <4>1. sendResult[q] \in Seq(Results)
        BY DEF TypeInv, TypeOK
      <4> QED
        BY <4>1, PopFacts DEF ToSet
    <3>3. sendResult[q] # <<>> => Head(sendResult[q]) # r
      BY <3>1, <3>2
    <3>4. S = {}
      BY <2>2
    <3> QED
      BY <1>13, <3>3, <3>4 DEF AnswerBits
  <2> QED
    BY <2>1, <2>2
<1>15. AnswerQueues({r}, now, cleared)
  <2>1. \A q \in Threads : WithCallbacks(now[q], S, q) = WithCallbacks(now[q], {r}, q)
    BY <1>13 DEF WithCallbacks
  <2> QED
    BY <1>1, <1>14, <2>1 DEF AnswerQueues
<1>16. callbackResult' = [q \in Threads |-> callbackResult[q] \ Callbacks({r}, q)]
  <2>1. \A q \in Threads : callbackResult[q] \ Callbacks({r}, q) = callbackResult[q]
    BY <1>13
  <2> QED
    BY <1>1, <2>1 DEF TypeInv, TypeOK
<1>17. ASSUME NEW q \in Threads
       PROVE  QueueStep(q, {r}, y, callbackResult, now, cleared)
  <2>1. ListsOf(q) /\ BitsOf(q)
    BY ListsForm, BitsForm
  <2>2. \A k \in Results : /\ y[k].sender = res[k].sender /\ y[k].callback = res[k].callback
                           /\ k # r => y[k].receiver = res[k].receiver /\ y[k].msg = res[k].msg
    BY <1>5, <1>6
  <2>3. /\ y[r].receiver = q /\ ~y[r].msg <=> res[r].receiver = q /\ ~res[r].msg
        /\ ~y[r].msg
    BY <1>5, <1>6, NullAssumption
  <2>4. ASSUME NEW k \in Results
        PROVE  k \in ToSet(recvResult[q]) <=> y[k].receiver = q /\ ~y[k].msg
    <3>1. CASE k = r
      BY <2>1, <2>3, <3>1 DEF ListsOf, Hold
    <3>2. CASE k # r
      BY <2>1, <2>2, <3>2 DEF ListsOf, Hold
    <3> QED
      BY <3>1, <3>2
  <2>5. Distinct(now[q])
    BY <1>8, <1>10, <2>1 DEF ListsOf, Hold
  <2>6. ASSUME NEW k \in Results
        PROVE  k \in ResultsIn(now[q]) <=> y[k].receiver = q /\ y[k].msg
    <3>1. k \in ResultsIn(sent[q]) <=> res[k].receiver = q /\ res[k].msg
      BY <2>1 DEF ListsOf, Hold
    <3>2. CASE x.msg /\ q = u
      BY <1>8, <1>10, <2>2, <2>3, <3>1, <3>2
    <3>3. CASE ~(x.msg /\ q = u)
      BY <1>4, <1>7, <1>10, <2>2, <2>3, <3>1, <3>3
    <3> QED
      BY <3>2, <3>3
  <2>7. Hold(q, sendResult'[q], callbackResult[q], recvResult'[q], now[q], y)
    BY <1>1, <2>1, <2>2, <2>4, <2>5, <2>6 DEF ListsOf, Hold
  <2>8. Destroyed(queue'[q], sendResult'[q], callbackResult[q], recvResult'[q], now[q])
    BY <1>1, <1>8, <1>10, <2>1 DEF ListsOf, Destroyed
  <2>9. SENDMESSAGE \in wakeBits[q] \ cleared[q] <=> now[q] # <<>>
    BY <1>8, <1>10, <2>1 DEF BitsOf, SentCleared
  <2>10. cleared[q] \subseteq {SENDMESSAGE}
    BY <1>10 DEF SentCleared
  <2>11. POSTMESSAGE \in wakeBits[q] \ cleared[q] <=> posted'[q] # <<>> \/ quit'[q]
    BY <1>1, <2>1, <2>10, BitNames DEF BitsOf
  <2>12. SMRESULT \notin cleared[q]
    BY <2>10, BitNames
  <2> QED
    BY <1>1, <2>7, <2>8, <2>9, <2>10, <2>11, <2>12 DEF QueueStep
<1>18. \A k \in {r} : y[k].sender = res[k].sender /\ ~y[k].msg /\ ~res[k].replied
  BY <1>3, <1>5, <1>6
<1>19. /\ {r} \in SUBSET Results /\ "timeout" \in Replies
       /\ callbackResult \in [Threads -> SUBSET Results]
  BY DEF TypeInv, TypeOK, Replies
<1>20. AnswerStep({r}, y, "timeout", callbackResult, now, cleared)
  BY <1>6, <1>9, <1>11, <1>12, <1>15, <1>16, <1>17, <1>18, <1>19 DEF AnswerStep
<1> QED
  BY <1>20

\* The queue of a thread is destroyed; the results it owes are denied.
LEMMA DestroyStep ==
  ASSUME TypeInv, ListsInv, ResultsInv, BitsExact, NEW t \in Threads, Destroy(t),
         \A q \in Threads : q # t => queue'[q] = queue[q],
         pc'[t] = "dead", \A q \in Threads : Aside(q)
  PROVE  \E R, y, C, now, cleared : AnswerStep(R, y, "denied", C, now, cleared)
<1> DEFINE R == Owed(t)
           y == [r \in Results |-> Cut(res[r], t)]
           C == [callbackResult EXCEPT ![t] = {}]
           now == [sent EXCEPT ![t] = <<>>]
           cleared == [NothingCleared EXCEPT ![t] = Bits]
<1>1. /\ res' = [r \in Results |->
                   IF r \in R THEN Answered(Cut(res[r], t), "denied") ELSE Released(Cut(res[r], t))]
      /\ callbackResult' = [q \in Threads |->
                              IF q = t THEN {} ELSE callbackResult[q] \ Callbacks(R, q)]
      /\ AnswerQueues(R, now, cleared)
      /\ sendResult' = [sendResult EXCEPT ![t] = <<>>]
      /\ recvResult' = [recvResult EXCEPT ![t] = <<>>]
      /\ posted' = [posted EXCEPT ![t] = <<>>]
      /\ quit' = [quit EXCEPT ![t] = FALSE]
      /\ wakeMask' = [wakeMask EXCEPT ![t] = {}]
      /\ changedMask' = [changedMask EXCEPT ![t] = {}]
  BY DEF Destroy
<1>2. ASSUME NEW r \in Results
      PROVE  /\ y[r] \in ResultType /\ res[r] \in ResultType /\ ResultInv(res[r])
             /\ y[r] = Cut(res[r], t)
             /\ y[r].msg <=> res[r].msg /\ res[r].receiver # t
             /\ y[r].sender = IF res[r].sender = t THEN NoQueue ELSE res[r].sender
             /\ y[r].receiver = IF res[r].receiver = t THEN NoQueue ELSE res[r].receiver
             /\ y[r].replied = res[r].replied /\ y[r].callback = res[r].callback
             /\ y[r].timeout = res[r].timeout /\ y[r].answer = res[r].answer
  <2>1. res[r] \in ResultType /\ ResultInv(res[r]) /\ y[r] = Cut(res[r], t)
    BY DEF TypeInv, TypeOK, ResultsInv
  <2>2. LET z == Cut(res[r], t)
        IN  /\ z \in ResultType
            /\ z.msg <=> res[r].msg /\ res[r].receiver # t
            /\ z.sender = IF res[r].sender = t THEN NoQueue ELSE res[r].sender
            /\ z.receiver = IF res[r].receiver = t THEN NoQueue ELSE res[r].receiver
            /\ z.replied = res[r].replied /\ z.callback = res[r].callback
            /\ z.timeout = res[r].timeout /\ z.answer = res[r].answer
    BY <2>1, CutIs
  <2> QED
    BY <2>1, <2>2
<1>3. \A r \in R : /\ r \in Results /\ res[r].receiver = t /\ res[r].sender \notin {t, NoQueue}
                   /\ ~res[r].replied
  BY <1>2 DEF Owed, ResultInv
<1>4. /\ C \in [Threads -> SUBSET Results] /\ now \in [Threads -> Seq(Messages)]
      /\ C[t] = {} /\ now[t] = <<>> /\ cleared[t] = Bits
      /\ \A q \in Threads : q # t => C[q] = callbackResult[q] /\ now[q] = sent[q] /\ cleared[q] = {}
  <2>1. <<>> \in Seq(Messages)
    BY EmptySeq
  <2> QED
    BY <2>1 DEF TypeInv, TypeOK, NothingCleared
<1>5. R \in SUBSET Results /\ "denied" \in Replies
  BY DEF Owed, Replies
<1> HIDE DEF R, C, now, cleared
<1>6. y \in [Results -> ResultType]
  BY <1>2
<1>7. res' = [r \in Results |-> IF r \in R THEN Answered(y[r], "denied") ELSE Released(y[r])]
  BY <1>1
<1> HIDE DEF y
<1>8. ASSUME NEW r \in Results PROVE CutOf(y[r], res[r])
  BY <1>2 DEF CutOf, ResultInv
<1>9. \A r \in R : y[r].sender = res[r].sender /\ ~y[r].msg /\ ~res[r].replied
  BY <1>2, <1>3
<1>10. callbackResult' = [q \in Threads |-> C[q] \ Callbacks(R, q)]
  <2>1. \A q \in Threads : C[q] \ Callbacks(R, q) =
                             IF q = t THEN {} ELSE callbackResult[q] \ Callbacks(R, q)
    BY <1>4
  <2> QED
    BY <1>1, <2>1
<1>11. QueueStep(t, R, y, C, now, cleared)
  <2>1. sendResult'[t] = <<>> /\ recvResult'[t] = <<>> /\ posted'[t] = <<>> /\ ~quit'[t]
    BY <1>1 DEF TypeInv, TypeOK
  <2>2. \A r \in Results : y[r].sender # t /\ y[r].receiver # t
    BY <1>2, NullAssumption
  <2>3. Hold(t, sendResult'[t], C[t], recvResult'[t], now[t], y)
    BY <1>4, <2>1, <2>2, HoldNothing DEF Hold
  <2>4. Destroyed(queue'[t], sendResult'[t], C[t], recvResult'[t], now[t])
    BY <1>4, <2>1 DEF Destroyed
  <2>5. wakeBits[t] \ cleared[t] = {}
    BY <1>4 DEF TypeInv, TypeOK
  <2>6. SMRESULT \in cleared[t]
    BY <1>4, BitNames
  <2>7. \A r \in R : res[r].sender # t
    BY <1>3
  <2> QED
    BY <1>4, <2>1, <2>3, <2>4, <2>5, <2>6, <2>7 DEF QueueStep
<1>12. ASSUME NEW q \in Threads, q # t
       PROVE  QueueStep(q, R, y, C, now, cleared)
  <2>1. ListsOf(q) /\ BitsOf(q)
    BY ListsForm, BitsForm
  <2>2. /\ C[q] = callbackResult[q] /\ now[q] = sent[q] /\ cleared[q] = {}
        /\ queue'[q] = queue[q]
    BY <1>4, <1>12
  <2>3. /\ sendResult'[q] = sendResult[q] /\ recvResult'[q] = recvResult[q]
        /\ posted'[q] = posted[q] /\ quit'[q] = quit[q]
        /\ wakeMask'[q] = wakeMask[q] /\ changedMask'[q] = changedMask[q]
    BY <1>1, <1>12 DEF TypeInv, TypeOK
  <2>4. \A r \in Results : /\ y[r].sender = q <=> res[r].sender = q
                           /\ y[r].receiver = q <=> res[r].receiver = q
                           /\ y[r].receiver = q => (y[r].msg <=> res[r].msg)
                           /\ y[r].callback = res[r].callback
    BY <1>2, <1>12, NullAssumption
  <2>5. Hold(q, sendResult'[q], C[q], recvResult'[q], now[q], y)
    BY <2>1, <2>2, <2>3, <2>4 DEF ListsOf, Hold
  <2>6. Destroyed(queue'[q], sendResult'[q], C[q], recvResult'[q], now[q])
    BY <2>1, <2>2, <2>3 DEF ListsOf, Destroyed
  <2> QED
    BY <2>1, <2>2, <2>3, <2>5, <2>6 DEF QueueStep, BitsOf, Aside
<1>13. AnswerStep(R, y, "denied", C, now, cleared)
  BY <1>1, <1>4, <1>5, <1>6, <1>7, <1>8, <1>9, <1>10, <1>11, <1>12 DEF AnswerStep
<1> QED
  BY <1>13

\* queue_cleanup_window answers the results of the messages for the window.
LEMMA CleanupStep ==
  ASSUME TypeInv, ListsInv, ResultsInv, BitsExact, NEW t \in Threads, CleanupWindow(t)
  PROVE  \E R, y, C, now, cleared : AnswerStep(R, y, "denied", C, now, cleared)
<1> DEFINE gone == {r \in Results : \E i \in DOMAIN sent[t] :
                                      sent[t][i].win /\ sent[t][i].result = r}
           R == {r \in gone : res[r].sender # NoQueue}
           left == Kept(sent[t], {i \in DOMAIN sent[t] : ~sent[t][i].win})
           leftPosted == Kept(posted[t], {i \in DOMAIN posted[t] : posted[t][i] # "window"})
           lost == (IF left = sent[t] THEN {} ELSE SentCleared(left))
                   \cup (IF leftPosted = posted[t] THEN {}
                         ELSE PostsCleared(leftPosted, quit[t]))
           now == [sent EXCEPT ![t] = left]
           cleared == [NothingCleared EXCEPT ![t] = lost]
           y == [r \in Results |-> IF r \in gone THEN TakenBack(res[r]) ELSE res[r]]
<1>1. /\ posted' = [posted EXCEPT ![t] = leftPosted]
      /\ res' = [r \in Results |->
                   IF r \in R THEN Answered(TakenBack(res[r]), "denied")
                   ELSE IF r \in gone THEN Released(TakenBack(res[r])) ELSE res[r]]
      /\ callbackResult' = [q \in Threads |-> callbackResult[q] \ Callbacks(R, q)]
      /\ AnswerQueues(R, now, cleared)
      /\ UNCHANGED <<queue, handle, quit, sendResult, recvResult,
                     wakeMask, changedMask, calls, pc, sends>>
      /\ queue[t] = "live" /\ pc[t] = "app"
  BY DEF CleanupWindow, InApp
<1>2. /\ sent[t] \in Seq(Messages) /\ posted[t] \in Seq(Posts) /\ Distinct(sent[t])
      /\ NoResult \notin Results
  BY ListsForm, NullAssumption DEF ListsOf, Hold, TypeInv, TypeOK
<1>3. /\ left \in Seq(Messages) /\ Distinct(left) /\ (left # <<>> => sent[t] # <<>>)
      /\ \A r \in Results : r \in ResultsIn(left) <=> r \in ResultsIn(sent[t]) /\ r \notin gone
  <2>1. PICK list \in Seq(Messages) : list = sent[t]
    BY <1>2
  <2>2. Distinct(list)
    BY <1>2, <2>1
  <2>3. PICK P \in SUBSET DOMAIN list : P = {i \in DOMAIN list : ~list[i].win}
    OBVIOUS
  <2>4. left = Kept(list, P)
    BY <2>1, <2>3
  <2>5. LET l == Kept(list, P)
        IN  /\ l \in Seq(Messages) /\ Distinct(l)
            /\ ResultsIn(l) = {list[i].result : i \in P} \ {NoResult}
            /\ l # <<>> => list # <<>>
    BY <2>2, KeptMessages
  <2>6. ASSUME NEW r \in Results
        PROVE  r \in {list[i].result : i \in P} <=> r \in ResultsIn(list) /\ r \notin gone
    BY <1>2, <2>1, <2>2, <2>3 DEF ResultsIn, Distinct
  <2> QED
    BY <1>2, <2>1, <2>4, <2>5, <2>6
<1>4. leftPosted \in Seq(Posts) /\ (leftPosted # <<>> => posted[t] # <<>>)
  <2>1. PICK list \in Seq(Posts) : list = posted[t]
    BY <1>2
  <2>2. PICK P \in SUBSET DOMAIN list : P = {i \in DOMAIN list : list[i] # "window"}
    OBVIOUS
  <2>3. leftPosted = Kept(list, P)
    BY <2>1, <2>2
  <2>4. /\ Kept(list, P) \in Seq(Posts)
        /\ \A k \in DOMAIN Kept(list, P) : \E i \in P : Kept(list, P)[k] = list[i]
    BY KeptFacts
  <2>5. ASSUME Kept(list, P) # <<>> PROVE DOMAIN list # {}
    <3>1. 1 \in DOMAIN Kept(list, P)
      BY <2>4, <2>5, PopFacts
    <3> QED
      BY <2>4, <3>1
  <2> QED
    BY <2>1, <2>3, <2>4, <2>5, EmptySeq
<1>5. ASSUME NEW r \in gone
      PROVE  /\ r \in Results /\ res[r].receiver = t /\ res[r].msg /\ ~res[r].replied
             /\ res[r].sender # NoQueue => r \in R
  <2>1. r \in ResultsIn(sent[t])
    BY <1>2 DEF ResultsIn
  <2>2. res[r].receiver = t /\ res[r].msg
    BY <2>1 DEF ListsInv
  <2> QED
    BY <2>2 DEF ResultsInv, ResultInv
<1>6. R \subseteq gone /\ gone \subseteq Results
  OBVIOUS
<1>7. /\ leftPosted = posted[t] => (POSTMESSAGE \notin lost)
      /\ leftPosted # posted[t] =>
           (POSTMESSAGE \in lost <=> leftPosted = <<>> /\ ~quit[t])
      /\ left = sent[t] => SENDMESSAGE \notin lost
      /\ left # sent[t] => (SENDMESSAGE \in lost <=> left = <<>>)
      /\ SMRESULT \notin lost
  BY BitNames DEF SentCleared, PostsCleared
<1> HIDE DEF lost, R, gone, left, leftPosted
<1>8. ASSUME NEW r \in Results
      PROVE  /\ y[r] \in ResultType /\ CutOf(y[r], res[r]) /\ y[r].sender = res[r].sender
             /\ r \in gone => y[r] = TakenBack(res[r]) /\ ~y[r].msg /\ y[r].receiver = NoQueue
             /\ r \notin gone => y[r] = res[r]
  <2>1. res[r] \in ResultType /\ ResultInv(res[r])
    BY DEF TypeInv, TypeOK, ResultsInv
  <2>2. y[r] = IF r \in gone THEN TakenBack(res[r]) ELSE res[r]
    OBVIOUS
  <2>3. LET z == TakenBack(res[r])
        IN  /\ z \in ResultType /\ ~z.msg /\ z.receiver = NoQueue /\ z.sender = res[r].sender
            /\ z.replied = res[r].replied /\ z.callback = res[r].callback
            /\ z.timeout = res[r].timeout /\ z.answer = res[r].answer
    BY <2>1, TakenBackIs
  <2> QED
    BY <2>1, <2>2, <2>3 DEF CutOf, ResultInv
<1>9. y \in [Results -> ResultType]
  BY <1>8
<1> HIDE DEF y
<1>10. res' = [r \in Results |-> IF r \in R THEN Answered(y[r], "denied") ELSE Released(y[r])]
  <2>1. \A r \in Results : (IF r \in R THEN Answered(y[r], "denied") ELSE Released(y[r])) =
          IF r \in R THEN Answered(TakenBack(res[r]), "denied")
          ELSE IF r \in gone THEN Released(TakenBack(res[r])) ELSE res[r]
    BY <1>6, <1>8, ReleasedSame
  <2> QED
    BY <1>1, <2>1
<1>11. \A r \in R : y[r].sender = res[r].sender /\ ~y[r].msg /\ ~res[r].replied
  BY <1>5, <1>6, <1>8
<1>12. /\ now \in [Threads -> Seq(Messages)] /\ now[t] = left /\ cleared[t] = lost
       /\ \A q \in Threads : q # t => now[q] = sent[q] /\ cleared[q] = {}
  BY <1>3 DEF TypeInv, TypeOK, NothingCleared
<1> HIDE DEF now, cleared
<1>13. ASSUME NEW q \in Threads
       PROVE  QueueStep(q, R, y, callbackResult, now, cleared)
  <2>1. ListsOf(q) /\ BitsOf(q)
    BY ListsForm, BitsForm
  <2>2. ASSUME NEW r \in Results
        PROVE  y[r].receiver = q /\ ~y[r].msg <=> res[r].receiver = q /\ ~res[r].msg
    BY <1>5, <1>8, NullAssumption
  <2>3. ASSUME NEW r \in Results
        PROVE  y[r].receiver = q /\ y[r].msg <=> res[r].receiver = q /\ res[r].msg /\ r \notin gone
    BY <1>5, <1>8
  <2>4. ASSUME NEW r \in Results
        PROVE  r \in ResultsIn(now[q]) <=> y[r].receiver = q /\ y[r].msg
    <3>1. CASE q = t
      BY <1>3, <1>12, <2>1, <2>3, <3>1 DEF ListsOf, Hold
    <3>2. CASE q # t
      BY <1>5, <1>12, <2>1, <2>3, <3>2 DEF ListsOf, Hold
    <3> QED
      BY <3>1, <3>2
  <2>5. Distinct(now[q])
    BY <1>3, <1>12, <2>1 DEF ListsOf, Hold
  <2>6. \A r \in Results : y[r].sender = res[r].sender /\ y[r].callback = res[r].callback
    BY <1>8 DEF CutOf
  <2>7. Hold(q, sendResult'[q], callbackResult[q], recvResult'[q], now[q], y)
    BY <1>1, <2>1, <2>2, <2>4, <2>5, <2>6 DEF ListsOf, Hold
  <2>8. Destroyed(queue'[q], sendResult'[q], callbackResult[q], recvResult'[q], now[q])
    BY <1>1, <1>3, <1>12, <2>1 DEF ListsOf, Destroyed
  <2>9. SENDMESSAGE \in wakeBits[q] \ cleared[q] <=> now[q] # <<>>
    BY <1>3, <1>7, <1>12, <2>1 DEF BitsOf
  <2>10. q # t => posted'[q] = posted[q]
    BY <1>1 DEF TypeInv, TypeOK
  <2>11. posted'[t] = leftPosted
    BY <1>1 DEF TypeInv, TypeOK
  <2>12. POSTMESSAGE \in wakeBits[q] \ cleared[q] <=> posted'[q] # <<>> \/ quit'[q]
    BY <1>1, <1>4, <1>7, <1>12, <2>1, <2>10, <2>11 DEF BitsOf
  <2>13. SMRESULT \notin cleared[q]
    BY <1>7, <1>12
  <2> QED
    BY <1>1, <1>12, <2>7, <2>8, <2>9, <2>10, <2>12, <2>13 DEF QueueStep
<1>14. /\ R \in SUBSET Results /\ "denied" \in Replies
       /\ callbackResult \in [Threads -> SUBSET Results]
  BY <1>6 DEF TypeInv, TypeOK, Replies
<1>15. AnswerStep(R, y, "denied", callbackResult, now, cleared)
  BY <1>1, <1>8, <1>9, <1>10, <1>11, <1>12, <1>13, <1>14 DEF AnswerStep
<1> QED
  BY <1>15

-----------------------------------------------------------------------------
(***************************************************************************)
(* The calls a thread is in, and their results.                            *)
(***************************************************************************)
LEMMA ConsFacts ==
  ASSUME NEW S, NEW q \in Seq(S), NEW c \in S
  PROVE  <<c>> \o q # <<>> /\ Head(<<c>> \o q) = c /\ Tail(<<c>> \o q) = q
<1>1. PICK r \in Seq(S) : r = <<c>> \o q
  BY PushFacts
<1>2. /\ r # <<>> /\ Len(q) \in Nat /\ DOMAIN q = 1..Len(q) /\ DOMAIN r = 1..(Len(q) + 1)
      /\ r[1] = c /\ \A i \in 1..Len(q) : r[i + 1] = q[i]
      /\ Head(r) = c
  BY <1>1, PushFacts
<1>3. /\ Tail(r) \in Seq(S) /\ Len(r) \in Nat \ {0} /\ DOMAIN r = 1..Len(r)
      /\ DOMAIN Tail(r) = 1..(Len(r) - 1) /\ \A i \in 1..(Len(r) - 1) : Tail(r)[i] = r[i + 1]
  BY <1>2, PopFacts
<1>4. Len(r) = Len(q) + 1
  <2>1. Len(r) \in 1..(Len(q) + 1) /\ Len(q) + 1 \in 1..Len(r)
    BY <1>2, <1>3
  <2> QED
    BY <1>2, <1>3, <2>1
<1>5. PICK w \in Seq(S) : w = Tail(r)
  BY <1>3
<1>6. Len(w) = Len(q) /\ \A i \in 1..Len(w) : w[i] = q[i]
  <2>1. DOMAIN w = 1..Len(q) /\ DOMAIN w = 1..Len(w) /\ Len(w) \in Nat
    BY <1>2, <1>3, <1>4, <1>5
  <2>2. Len(w) = Len(q)
    <3>1. Len(w) # 0 => Len(w) \in 1..Len(q)
      BY <2>1
    <3>2. Len(q) # 0 => Len(q) \in 1..Len(w)
      BY <1>2, <2>1
    <3> QED
      BY <1>2, <2>1, <3>1, <3>2
  <2> QED
    BY <1>2, <1>3, <1>4, <1>5, <2>2
<1>7. w = q
  BY <1>6, SeqEqual
<1> QED
  BY <1>1, <1>2, <1>5, <1>7

\* Intervals that start at 1 and are equal end at the same number.
LEMMA IntervalLength ==
  ASSUME NEW m \in Nat, NEW n \in Nat, 1..m = 1..n
  PROVE  m = n
<1>1. m # 0 => m \in 1..n
  OBVIOUS
<1>2. n # 0 => n \in 1..m
  OBVIOUS
<1> QED
  BY <1>1, <1>2

\* The fields of a call of the client.
LEMMA CallFields ==
  ASSUME NEW c \in Calls
  PROVE  /\ c.result \in Results \cup {NoResult} /\ c.flag \in BOOLEAN
         /\ c.kind \in {"send", "proc", "callback", "get"} /\ c.filter \in {"all", "some"}
BY DEF Calls

\* A call in the list of those that a thread is in.
LEMMA CallAt ==
  ASSUME NEW cs \in Seq(Calls), NEW i \in DOMAIN cs
  PROVE  /\ cs[i] \in Calls /\ cs[i].result \in Results \cup {NoResult}
         /\ Len(cs) \in Nat /\ DOMAIN cs = 1..Len(cs) /\ i \in 1..Len(cs)
<1>1. cs[i] \in Calls /\ DOMAIN cs = 1..Len(cs) /\ Len(cs) \in Nat
  OBVIOUS
<1> QED
  BY <1>1, CallFields

\* The results of the calls before c are those after it with that of c, if c is of the kind.
LEMMA ResultsOfPush ==
  ASSUME NEW cs \in Seq(Calls), NEW c \in Calls, NEW kind
  PROVE  /\ c.kind = kind /\ c.result # NoResult =>
              ResultsOf(<<c>> \o cs, kind) = <<c.result>> \o ResultsOf(cs, kind)
         /\ ~(c.kind = kind /\ c.result # NoResult) =>
              ResultsOf(<<c>> \o cs, kind) = ResultsOf(cs, kind)
<1> DEFINE S == Results \cup {NoResult}
           all == <<c>> \o cs
           of(list) == [i \in DOMAIN list |-> list[i].result]
           P == {i \in DOMAIN cs : cs[i].kind = kind /\ cs[i].result # NoResult}
           A == {i \in DOMAIN all : all[i].kind = kind /\ all[i].result # NoResult}
           Q == {i + 1 : i \in P}
<1>1. /\ all \in Seq(Calls) /\ Len(cs) \in Nat /\ DOMAIN cs = 1..Len(cs)
      /\ DOMAIN all = 1..(Len(cs) + 1)
      /\ all[1] = c /\ \A i \in 1..Len(cs) : all[i + 1] = cs[i]
  BY PushFacts
<1> HIDE DEF all
<1>2. A = IF c.kind = kind /\ c.result # NoResult THEN {1} \cup Q ELSE Q
  <2>1. \A i \in DOMAIN all : i = 1 \/ (i - 1 \in 1..Len(cs) /\ i = (i - 1) + 1)
    BY <1>1
  <2>2. \A i \in 1..Len(cs) : i + 1 \in DOMAIN all /\ i + 1 # 1
    BY <1>1
  <2>3. \A i \in DOMAIN all : i # 1 => (i \in A <=> i - 1 \in P)
    BY <1>1, <2>1
  <2>4. 1 \in A <=> c.kind = kind /\ c.result # NoResult
    BY <1>1
  <2>5. \A i \in DOMAIN all : i # 1 => (i - 1 \in P <=> i \in Q)
    BY <1>1, <2>1
  <2>6. Q \subseteq DOMAIN all /\ 1 \notin Q /\ A \subseteq DOMAIN all /\ 1 \in DOMAIN all
    BY <1>1, <2>2
  <2> QED
    BY <2>3, <2>4, <2>5, <2>6
<1>3. of(cs) \in Seq(S) /\ c.result \in S /\ of(all) \in Seq(S)
  <2>1. \A i \in 1..Len(cs) : cs[i].result \in S
    BY <1>1, CallAt
  <2>2. \A i \in 1..(Len(cs) + 1) : all[i].result \in S
    BY <1>1, CallAt
  <2>3. Len(cs) + 1 \in Nat
    BY <1>1
  <2>4. of(cs) = [i \in 1..Len(cs) |-> cs[i].result]
    BY <1>1
  <2>5. of(all) = [i \in 1..(Len(cs) + 1) |-> all[i].result]
    BY <1>1
  <2>6. c.result \in S
    BY CallFields
  <2> HIDE DEF S
  <2> QED
    BY <1>1, <2>1, <2>2, <2>3, <2>4, <2>5, <2>6
<1>4. of(all) = <<c.result>> \o of(cs)
  <2>1. PICK a \in Seq(S), b \in Seq(S), d \in S : a = of(all) /\ b = of(cs) /\ d = c.result
    BY <1>3
  <2> HIDE DEF S
  <2>2. PICK w \in Seq(S) : w = <<d>> \o b
    BY PushFacts
  <2>3. /\ Len(b) \in Nat /\ DOMAIN b = 1..Len(b) /\ DOMAIN w = 1..(Len(b) + 1)
        /\ w[1] = d /\ \A i \in 1..Len(b) : w[i + 1] = b[i]
    BY <2>2, PushFacts
  <2>4. /\ DOMAIN b = 1..Len(cs) /\ \A i \in 1..Len(cs) : b[i] = cs[i].result
        /\ DOMAIN a = 1..(Len(cs) + 1) /\ \A i \in 1..(Len(cs) + 1) : a[i] = all[i].result
    BY <1>1, <2>1
  <2>5. DOMAIN w = DOMAIN a
    BY <1>1, <2>3, <2>4
  <2>6. ASSUME NEW i \in DOMAIN a PROVE w[i] = a[i]
    <3>1. CASE i = 1
      BY <1>1, <2>1, <2>3, <2>4, <2>6, <3>1
    <3>2. CASE i # 1
      <4>1. i - 1 \in 1..Len(cs) /\ i = (i - 1) + 1
        BY <1>1, <2>4, <3>2
      <4> QED
        BY <1>1, <2>3, <2>4, <4>1
    <3> QED
      BY <3>1, <3>2
  <2>7. w = a
    <3>1. DOMAIN w = 1..Len(w) /\ DOMAIN a = 1..Len(a) /\ Len(w) \in Nat /\ Len(a) \in Nat
      OBVIOUS
    <3>2. Len(w) = Len(a)
      BY <2>5, <3>1, IntervalLength
    <3>3. \A i \in 1..Len(w) : w[i] = a[i]
      BY <2>5, <2>6, <3>1
    <3> QED
      BY <3>2, <3>3, SeqEqual
  <2> QED
    BY <2>1, <2>2, <2>7
<1>5. /\ ResultsOf(all, kind) = Kept(of(all), A)
      /\ ResultsOf(cs, kind) = Kept(of(cs), P)
  BY DEF ResultsOf
<1>6. P \in SUBSET DOMAIN of(cs)
  OBVIOUS
<1>7. PICK b \in Seq(S), d \in S : b = of(cs) /\ d = c.result
  BY <1>3
<1>8. PICK M \in SUBSET DOMAIN b : M = P
  BY <1>6, <1>7
<1> HIDE DEF S, A, P, of
<1>9. /\ Kept(<<d>> \o b, Q) = Kept(b, M)
      /\ Kept(<<d>> \o b, {1} \cup Q) = <<d>> \o Kept(b, M)
  <2>1. /\ Kept(<<d>> \o b, Shifted(M)) = Kept(b, M)
        /\ Kept(<<d>> \o b, FirstAnd(M)) = <<d>> \o Kept(b, M)
    BY KeptShift
  <2>2. Q = Shifted(M)
    BY <1>8 DEF Shifted
  <2> QED
    BY <2>1, <2>2 DEF FirstAnd
<1> QED
  BY <1>2, <1>4, <1>5, <1>7, <1>8, <1>9 DEF all

\* No calls, no results.
LEMMA ResultsOfNone == ASSUME NEW kind PROVE ResultsOf(<<>>, kind) = <<>>
<1> DEFINE list == [i \in DOMAIN <<>> |-> <<>>[i].result]
<1>1. DOMAIN <<>> = {}
  BY EmptySeq
<1>2. ResultsOf(<<>>, kind) = Kept(list, {})
  BY <1>1 DEF ResultsOf
<1>3. Cardinality({}) = 0
  BY FS_EmptySet
<1>4. Kept(list, {}) = [n \in 1..0 |-> list[CHOOSE i \in {} : Rank({}, i) = n]]
  BY <1>3 DEF Kept
<1>5. Kept(list, {}) = <<>>
  <2> HIDE DEF list
  <2>1. 1..0 = {}
    OBVIOUS
  <2> QED
    BY <1>4, <2>1
<1> QED
  BY <1>2, <1>5

\* The results of the innermost call and of those it is in.
LEMMA ResultsOfPop ==
  ASSUME NEW cs \in Seq(Calls), cs # <<>>, NEW kind
  PROVE  /\ Head(cs) \in Calls /\ Tail(cs) \in Seq(Calls)
         /\ Head(cs).kind = kind /\ Head(cs).result # NoResult =>
              ResultsOf(cs, kind) = <<Head(cs).result>> \o ResultsOf(Tail(cs), kind)
         /\ ~(Head(cs).kind = kind /\ Head(cs).result # NoResult) =>
              ResultsOf(cs, kind) = ResultsOf(Tail(cs), kind)
<1>1. Head(cs) \in Calls /\ Tail(cs) \in Seq(Calls) /\ cs = <<Head(cs)>> \o Tail(cs)
  BY PopFacts
<1>2. PICK c \in Calls, rest \in Seq(Calls) : c = Head(cs) /\ rest = Tail(cs)
  BY <1>1
<1>3. /\ c.kind = kind /\ c.result # NoResult =>
           ResultsOf(<<c>> \o rest, kind) = <<c.result>> \o ResultsOf(rest, kind)
      /\ ~(c.kind = kind /\ c.result # NoResult) =>
           ResultsOf(<<c>> \o rest, kind) = ResultsOf(rest, kind)
  BY ResultsOfPush
<1> QED
  BY <1>1, <1>2, <1>3

\* The results of calls of one kind; there are some if a call has one.
LEMMA ResultsOfType ==
  ASSUME NEW cs \in Seq(Calls), NEW kind
  PROVE  /\ ResultsOf(cs, kind) \in Seq(Results)
         /\ \A i \in DOMAIN cs : cs[i].kind = kind /\ cs[i].result # NoResult => ResultsOf(cs, kind) # <<>>
<1> DEFINE S == Results \cup {NoResult}
           list == [i \in DOMAIN cs |-> cs[i].result]
           P == {i \in DOMAIN cs : cs[i].kind = kind /\ cs[i].result # NoResult}
           kept == Kept(list, P)
<1>1. ResultsOf(cs, kind) = kept
  BY DEF ResultsOf
<1>2. list \in Seq(S)
  <2>1. DOMAIN cs = 1..Len(cs) /\ Len(cs) \in Nat
    OBVIOUS
  <2>2. \A i \in 1..Len(cs) : cs[i].result \in S
    BY <2>1, CallAt
  <2>3. list = [i \in 1..Len(cs) |-> cs[i].result]
    BY <2>1
  <2> HIDE DEF S
  <2> QED
    BY <2>1, <2>2, <2>3
<1>3. P \in SUBSET DOMAIN list /\ \A i \in P : list[i] \in Results
  BY CallAt
<1>a. PICK b \in Seq(S) : b = list
  BY <1>2
<1>b. PICK M \in SUBSET DOMAIN b : M = P
  BY <1>3, <1>a
<1>4. b = list /\ M = P
  BY <1>a, <1>b
<1> HIDE DEF S, list
<1>5. /\ Kept(b, M) \in Seq(S)
      /\ \A k \in DOMAIN Kept(b, M) : \E i \in M : Kept(b, M)[k] = b[i]
      /\ \A i \in M : \E k \in DOMAIN Kept(b, M) : Kept(b, M)[k] = b[i]
  BY KeptFacts
<1>6. PICK w \in Seq(S) : w = kept
  BY <1>4, <1>5
<1>7. \A k \in DOMAIN w : w[k] \in Results
  BY <1>3, <1>4, <1>5, <1>6
<1>8. w \in Seq(Results)
  <2>1. Len(w) \in Nat /\ DOMAIN w = 1..Len(w) /\ w = [k \in 1..Len(w) |-> w[k]]
    OBVIOUS
  <2>2. [k \in 1..Len(w) |-> w[k]] \in Seq(Results)
    BY <1>7, <2>1
  <2> QED
    BY <2>1, <2>2
<1>9. ASSUME NEW i \in P PROVE kept # <<>>
  <2>1. DOMAIN w # {}
    BY <1>4, <1>5, <1>6
  <2> QED
    BY <1>6, <2>1, EmptySeq
<1> QED
  BY <1>1, <1>6, <1>8, <1>9

\* The flags of calls have no part in this.
LEMMA ResultsOfFlags ==
  ASSUME NEW cs, NEW ds, NEW kind, DOMAIN cs = DOMAIN ds,
         \A i \in DOMAIN cs : cs[i].kind = ds[i].kind /\ cs[i].result = ds[i].result
  PROVE  ResultsOf(cs, kind) = ResultsOf(ds, kind)
<1>1. [i \in DOMAIN cs |-> cs[i].result] = [i \in DOMAIN ds |-> ds[i].result]
  OBVIOUS
<1>2. {i \in DOMAIN cs : cs[i].kind = kind /\ cs[i].result # NoResult} =
      {i \in DOMAIN ds : ds[i].kind = kind /\ ds[i].result # NoResult}
  OBVIOUS
<1> QED
  BY <1>1, <1>2 DEF ResultsOf

-----------------------------------------------------------------------------
\* The calls of a thread by themselves, and with what it does next.
CallList(cs) ==
  \A i \in DOMAIN cs :
    /\ cs[i].kind \in Runs => i + 1 \in DOMAIN cs /\ cs[i + 1].kind \in Waits
    /\ cs[i].kind \in Waits /\ i + 1 \in DOMAIN cs => cs[i + 1].kind \in Runs
    /\ cs[i].kind = "send" => cs[i].result # NoResult
CallsGood(state, at, cs) ==
  /\ state # "live" <=> at = "dead"
  /\ at = "dead" => cs = <<>>
  /\ at \in {"mask", "wait", "peek", "retrieve"} => cs # <<>> /\ Head(cs).kind \in Waits
  /\ at = "retrieve" => Head(cs).kind = "send"
  /\ at = "app" /\ cs # <<>> => Head(cs).kind \in Runs
  /\ CallList(cs)
StackGood(state, sr, rr, cs) ==
  state = "live" => sr = ResultsOf(cs, "send") /\ rr = ResultsOf(cs, "proc")

\* CallsInv and StacksMatch, thread by thread.
LEMMA CallsForm == /\ CallsInv <=> \A t \in Threads : CallsGood(queue[t], pc[t], calls[t])
                   /\ StacksMatch <=> \A t \in Threads :
                        StackGood(queue[t], sendResult[t], recvResult[t], calls[t])
<1>1. CallsInv <=> \A t \in Threads : CallsGood(queue[t], pc[t], calls[t])
  BY DEF CallsInv, CallsGood, CallList, Top
<1>2. StacksMatch <=> \A t \in Threads :
                        StackGood(queue[t], sendResult[t], recvResult[t], calls[t])
  BY DEF StacksMatch, StackGood
<1> QED
  BY <1>1, <1>2

\* The same of the next state.
LEMMA CallsFormNext ==
  (/\ CallsInv <=> \A t \in Threads : CallsGood(queue[t], pc[t], calls[t])
   /\ StacksMatch <=> \A t \in Threads :
        StackGood(queue[t], sendResult[t], recvResult[t], calls[t]))'
BY CallsForm, PTL

\* A thread makes a call.
LEMMA PushCall ==
  ASSUME NEW cs \in Seq(Calls), CallList(cs), NEW c \in Calls,
         \/ c.kind \in Waits /\ (cs = <<>> \/ Head(cs).kind \in Runs)
         \/ c.kind \in Runs /\ cs # <<>> /\ Head(cs).kind \in Waits,
         c.kind = "send" => c.result # NoResult
  PROVE  CallList(<<c>> \o cs) /\ <<c>> \o cs \in Seq(Calls) /\ <<c>> \o cs # <<>> /\ Head(<<c>> \o cs) = c
<1>a. /\ <<c>> \o cs \in Seq(Calls) /\ <<c>> \o cs # <<>>
      /\ Len(cs) \in Nat /\ DOMAIN cs = 1..Len(cs) /\ DOMAIN (<<c>> \o cs) = 1..(Len(cs) + 1)
      /\ (<<c>> \o cs)[1] = c /\ \A i \in 1..Len(cs) : (<<c>> \o cs)[i + 1] = cs[i]
      /\ Head(<<c>> \o cs) = c
  BY PushFacts
<1>1. PICK all \in Seq(Calls) :
        /\ all = <<c>> \o cs /\ all # <<>> /\ Head(all) = c
        /\ Len(cs) \in Nat /\ DOMAIN cs = 1..Len(cs)
        /\ DOMAIN all = 1..(Len(cs) + 1)
        /\ all[1] = c /\ \A i \in 1..Len(cs) : all[i + 1] = cs[i]
  BY <1>a
<1>2. /\ cs = <<>> <=> Len(cs) = 0
      /\ cs # <<>> => Head(cs) = cs[1]
  BY EmptySeq
<1>3. c.kind \in Runs => c.kind \notin Waits
  BY DEF Runs, Waits
<1>4. ASSUME NEW i \in DOMAIN all
      PROVE  /\ all[i].kind \in Runs => i + 1 \in DOMAIN all /\ all[i + 1].kind \in Waits
             /\ all[i].kind \in Waits /\ i + 1 \in DOMAIN all => all[i + 1].kind \in Runs
             /\ all[i].kind = "send" => all[i].result # NoResult
  <2>1. CASE i = 1
    <3>1. 2 \in DOMAIN all <=> Len(cs) # 0
      BY <1>1
    <3>2. Len(cs) # 0 => all[2] = cs[1]
      <4>1. Len(cs) # 0 => 1 \in 1..Len(cs) /\ 1 + 1 = 2
        BY <1>1
      <4> QED
        BY <1>1, <4>1
    <3> QED
      BY <1>1, <1>2, <1>3, <2>1, <3>1, <3>2
  <2>2. CASE i # 1
    <3>1. PICK j \in DOMAIN cs : i = j + 1 /\ all[i] = cs[j]
      <4>1. i - 1 \in 1..Len(cs) /\ i = (i - 1) + 1
        BY <1>1, <2>2
      <4> QED
        BY <1>1, <4>1
    <3>2. i + 1 \in DOMAIN all <=> j + 1 \in DOMAIN cs
      BY <1>1, <3>1
    <3>3. j + 1 \in DOMAIN cs => all[i + 1] = cs[j + 1]
      BY <1>1, <3>1
    <3> QED
      BY <3>1, <3>2, <3>3 DEF CallList
  <2> QED
    BY <2>1, <2>2
<1>5. CallList(all)
  BY <1>4 DEF CallList
<1> QED
  BY <1>1, <1>5

\* The innermost call returns.
LEMMA PopCall ==
  ASSUME NEW cs \in Seq(Calls), cs # <<>>, CallList(cs)
  PROVE  /\ Tail(cs) \in Seq(Calls) /\ CallList(Tail(cs)) /\ Head(cs) \in Calls
         /\ Head(cs).kind \in Runs => Tail(cs) # <<>> /\ Head(Tail(cs)).kind \in Waits
         /\ Head(cs).kind \in Waits /\ Tail(cs) # <<>> => Head(Tail(cs)).kind \in Runs
         /\ Head(cs).kind = "send" => Head(cs).result # NoResult
<1>1. PICK rest \in Seq(Calls) :
        /\ rest = Tail(cs) /\ Head(cs) = cs[1] /\ Head(cs) \in Calls /\ 1 \in DOMAIN cs
        /\ Len(cs) \in Nat \ {0} /\ DOMAIN cs = 1..Len(cs)
        /\ DOMAIN rest = 1..(Len(cs) - 1) /\ \A i \in 1..(Len(cs) - 1) : rest[i] = cs[i + 1]
  BY PopFacts
<1>2. rest # <<>> <=> 2 \in DOMAIN cs
  <2>1. rest # <<>> <=> 1 \in DOMAIN rest
    BY EmptySeq
  <2> QED
    BY <1>1, <2>1
<1>3. rest # <<>> => Head(rest) = cs[2]
  <2>1. rest # <<>> => Head(rest) = rest[1]
    BY EmptySeq
  <2>2. 2 \in DOMAIN cs => 1 \in 1..(Len(cs) - 1) /\ 1 + 1 = 2
    BY <1>1
  <2> QED
    BY <1>1, <1>2, <2>1, <2>2
<1>4. ASSUME NEW j \in DOMAIN rest
      PROVE  /\ rest[j].kind \in Runs => j + 1 \in DOMAIN rest /\ rest[j + 1].kind \in Waits
             /\ rest[j].kind \in Waits /\ j + 1 \in DOMAIN rest => rest[j + 1].kind \in Runs
             /\ rest[j].kind = "send" => rest[j].result # NoResult
  <2>1. PICK i \in DOMAIN cs : i = j + 1 /\ rest[j] = cs[i]
    BY <1>1
  <2>2. i + 1 \in DOMAIN cs <=> j + 1 \in DOMAIN rest
    BY <1>1, <2>1
  <2>3. j + 1 \in DOMAIN rest => rest[j + 1] = cs[i + 1]
    BY <1>1, <2>1
  <2> QED
    BY <2>1, <2>2, <2>3 DEF CallList
<1>5. CallList(rest)
  BY <1>4 DEF CallList
<1>6. /\ cs[1].kind \in Runs => 2 \in DOMAIN cs /\ cs[2].kind \in Waits
      /\ cs[1].kind \in Waits /\ 2 \in DOMAIN cs => cs[2].kind \in Runs
      /\ cs[1].kind = "send" => cs[1].result # NoResult
  <2>1. 1 + 1 = 2
    OBVIOUS
  <2> QED
    BY <1>1, <2>1 DEF CallList
<1> QED
  BY <1>1, <1>2, <1>3, <1>5, <1>6

\* A thread may be in no call.
LEMMA NoCalls == CallList(<<>>)
<1>1. DOMAIN <<>> = {}
  BY EmptySeq
<1> QED
  BY <1>1 DEF CallList

\* A step that answers results keeps their types.
LEMMA AnswerTypes ==
  ASSUME TypeInv, ResultsInv, NEW R, NEW y, NEW a, NEW C, NEW now, NEW cleared,
         AnswerStep(R, y, a, C, now, cleared)
  PROVE  /\ sent' \in [Threads -> Seq(Messages)]
         /\ wakeBits' \in [Threads -> SUBSET Bits] /\ changedBits' \in [Threads -> SUBSET Bits]
         /\ res' \in [Results -> ResultType] /\ callbackResult' \in [Threads -> SUBSET Results]
<1>1. /\ R \in SUBSET Results /\ now \in [Threads -> Seq(Messages)] /\ AnswerQueues(R, now, cleared)
      /\ res' = [r \in Results |-> IF r \in R THEN Answered(y[r], a) ELSE Released(y[r])]
      /\ callbackResult' = [q \in Threads |-> C[q] \ Callbacks(R, q)]
      /\ C \in [Threads -> SUBSET Results]
  BY DEF AnswerStep
<1>2. /\ sent' \in [Threads -> Seq(Messages)]
      /\ wakeBits' \in [Threads -> SUBSET Bits] /\ changedBits' \in [Threads -> SUBSET Bits]
  BY <1>1, AnswerQueuesTypes
<1>3. \A r \in Results : res'[r] \in ResultType
  BY AnswerElement
<1>4. res' \in [Results -> ResultType]
  BY <1>1, <1>3
<1> QED
  BY <1>1, <1>2, <1>4

\* So such a step keeps the invariant, if the calls still match.
LEMMA AnswerKeeps ==
  ASSUME IInv, NEW R, NEW y, NEW a, NEW C, NEW now, NEW cleared,
         AnswerStep(R, y, a, C, now, cleared), load' = load,
         queue' \in [Threads -> {"live", "orphan", "none"}],
         handle' \in [Threads -> BOOLEAN], posted' \in [Threads -> Seq(Posts)],
         quit' \in [Threads -> BOOLEAN], sendResult' \in [Threads -> Seq(Results)],
         recvResult' \in [Threads -> Seq(Results)],
         wakeMask' \in [Threads -> SUBSET Bits], changedMask' \in [Threads -> SUBSET Bits],
         calls' \in [Threads -> Seq(Calls)],
         pc' \in [Threads -> {"app", "mask", "wait", "peek", "retrieve", "dead"}],
         sends' = sends,
         \A t \in Threads :
           /\ CallsGood(queue'[t], pc'[t], calls'[t])
           /\ StackGood(queue'[t], sendResult'[t], recvResult'[t], calls'[t])
  PROVE  IInv'
<1>1. TypeInv /\ ListsInv /\ ResultsInv /\ BitsExact /\ AnswerInv /\ MaskInv /\ TypeOK /\ load \in Workloads
  BY DEF IInv, TypeInv
<1>2. TypeOK'
  BY <1>1, AnswerTypes DEF TypeOK
<1>3. ListsInv' /\ ResultsInv'
  BY <1>1, AnswerLists
<1>4. BitsExact' /\ AnswerInv' /\ MaskInv'
  BY <1>1, AnswerBitsExact
<1>5. CallsInv' /\ StacksMatch'
  BY CallsFormNext
<1>6. (load \in Workloads)'
  BY <1>1
<1> QED
  BY <1>2, <1>3, <1>4, <1>5, <1>6 DEF IInv

-----------------------------------------------------------------------------
(***************************************************************************)
(* Every action keeps the invariant.  First those that answer.             *)
(***************************************************************************)
LEMMA IInvFacts ==
  ASSUME IInv
  PROVE  /\ TypeInv /\ TypeOK /\ load \in Workloads /\ ListsInv /\ ResultsInv
         /\ BitsExact /\ AnswerInv /\ MaskInv /\ CallsInv /\ StacksMatch
         /\ \A t \in Threads : /\ CallsGood(queue[t], pc[t], calls[t])
                               /\ StackGood(queue[t], sendResult[t], recvResult[t], calls[t])
                               /\ ListsOf(t) /\ BitsOf(t) /\ AnswerOf(t) /\ MaskOf(t)
<1>1. /\ TypeInv /\ TypeOK /\ load \in Workloads /\ ListsInv /\ ResultsInv
      /\ BitsExact /\ AnswerInv /\ MaskInv /\ CallsInv /\ StacksMatch
  BY DEF IInv, TypeInv
<1>2. \A t \in Threads : /\ CallsGood(queue[t], pc[t], calls[t])
                         /\ StackGood(queue[t], sendResult[t], recvResult[t], calls[t])
  BY <1>1, CallsForm
<1>3. \A t \in Threads : ListsOf(t)
  BY <1>1, ListsForm
<1>4. \A t \in Threads : BitsOf(t) /\ AnswerOf(t) /\ MaskOf(t)
  BY <1>1, BitsForm
<1> QED
  BY <1>1, <1>2, <1>3, <1>4

\* A step that leaves the lists, bits and results alone.
LEMMA QuietKeeps ==
  ASSUME IInv, UNCHANGED <<queueVars, wakeBits, changedBits, res, load>>,
         \A t \in Threads : queue'[t] = "none" => queue[t] = "none",
         queue' \in [Threads -> {"live", "orphan", "none"}],
         handle' \in [Threads -> BOOLEAN],
         wakeMask' \in [Threads -> SUBSET Bits], changedMask' \in [Threads -> SUBSET Bits],
         calls' \in [Threads -> Seq(Calls)],
         pc' \in [Threads -> {"app", "mask", "wait", "peek", "retrieve", "dead"}],
         sends' = sends,
         \A t \in Threads :
           /\ CallsGood(queue'[t], pc'[t], calls'[t])
           /\ StackGood(queue'[t], sendResult[t], recvResult[t], calls'[t])
           /\ pc'[t] = "retrieve" => SMRESULT \in wakeBits[t]
           /\ MaskOf(t)'
  PROVE  IInv'
<1> USE DEF queueVars
<1>1. TypeOK'
  BY IInvFacts DEF TypeOK
<1>2. ListsInv'
  <2>1. \A q \in Threads : ListsOf(q)'
    <3> SUFFICES ASSUME NEW q \in Threads PROVE ListsOf(q)'
      OBVIOUS
    <3>1. ListsOf(q)
      BY IInvFacts
    <3> QED
      BY <3>1 DEF ListsOf, Destroyed
  <2> QED
    BY <2>1, ListsFormNext
<1>3. ResultsInv'
  <2>1. ResultsInv
    BY IInvFacts
  <2> QED
    BY <2>1 DEF ResultsInv, ResultInv
<1>4. BitsExact' /\ AnswerInv' /\ MaskInv'
  <2>1. \A q \in Threads : BitsOf(q)' /\ AnswerOf(q)'
    <3> SUFFICES ASSUME NEW q \in Threads PROVE BitsOf(q)' /\ AnswerOf(q)'
      OBVIOUS
    <3>1. BitsOf(q) /\ AnswerOf(q)
      BY IInvFacts
    <3>2. BitsOf(q)'
      BY <3>1 DEF BitsOf
    <3>3. AnswerOf(q)'
      BY <3>1 DEF AnswerOf, SomeReplied
    <3> QED
      BY <3>2, <3>3
  <2> QED
    BY <2>1, BitsFormNext
<1>5. CallsInv' /\ StacksMatch'
  <2>1. \A t \in Threads : StackGood(queue'[t], sendResult'[t], recvResult'[t], calls'[t])
    OBVIOUS
  <2> QED
    BY <2>1, CallsFormNext
<1>6. (load \in Workloads)'
  BY IInvFacts
<1> QED
  BY <1>1, <1>2, <1>3, <1>4, <1>5, <1>6 DEF IInv

\* The request reply_message.
LEMMA ReplyMessageKeeps ==
  ASSUME IInv, NEW t \in Threads, ReplyMessage(t), load' = load
  PROVE  IInv'
<1>1. /\ queue[t] = "live" /\ pc[t] = "app" /\ Reply(t, FALSE)
      /\ UNCHANGED <<queue, handle, pc, sends>>
  BY DEF ReplyMessage, InApp
<1>2. PICK i \in DOMAIN calls[t] :
        /\ calls[t][i].kind = "proc" /\ calls[t][i].result # NoResult
        /\ calls' = [calls EXCEPT ![t][i].flag = TRUE]
  BY DEF ReplyMessage
<1>3. TypeOK
  BY IInvFacts
<1>4. calls[t] \in Seq(Calls)
  BY <1>3 DEF TypeOK
<1> DEFINE cs == calls[t]
           ds == [cs EXCEPT ![i].flag = TRUE]
<1>5. /\ ds \in Seq(Calls) /\ DOMAIN ds = DOMAIN cs
      /\ \A j \in DOMAIN cs : ds[j].kind = cs[j].kind /\ ds[j].result = cs[j].result
  <2>1. cs[i] \in Calls /\ i \in 1..Len(cs) /\ DOMAIN cs = 1..Len(cs) /\ Len(cs) \in Nat
    BY <1>4, CallAt
  <2> DEFINE c == [cs[i] EXCEPT !.flag = TRUE]
  <2>2. c \in Calls /\ c.kind = cs[i].kind /\ c.result = cs[i].result
    BY <2>1 DEF Calls
  <2>3. ds = [cs EXCEPT ![i] = c]
    OBVIOUS
  <2> HIDE DEF c, ds
  <2>4. ds \in Seq(Calls)
    BY <1>4, <2>1, <2>2, <2>3
  <2>5. DOMAIN ds = DOMAIN cs /\ ds[i] = c /\ \A j \in DOMAIN cs : j # i => ds[j] = cs[j]
    BY <1>4, <2>1, <2>3
  <2> QED
    BY <2>2, <2>4, <2>5
<1>6. calls' = [calls EXCEPT ![t] = ds]
  BY <1>2, <1>3 DEF TypeOK
<1> HIDE DEF ds
<1>7. calls' \in [Threads -> Seq(Calls)] /\ calls'[t] = ds /\ \A q \in Threads : q # t => calls'[q] = calls[q]
  BY <1>3, <1>5, <1>6 DEF TypeOK
<1>8. recvResult[t] # <<>>
  <2>1. StackGood(queue[t], sendResult[t], recvResult[t], calls[t])
    BY IInvFacts
  <2>2. ResultsOf(cs, "proc") # <<>>
    BY <1>2, <1>4, ResultsOfType
  <2> QED
    BY <1>1, <2>1, <2>2 DEF StackGood
<1>9. \A q \in Threads : Aside(q)
  BY <1>1, <1>7 DEF Aside
<1>10. PICK R, y, C, now, cleared : AnswerStep(R, y, "reply", C, now, cleared)
  <2>1. TypeInv /\ ListsInv /\ ResultsInv /\ BitsExact /\ FALSE \in BOOLEAN /\ queue' = queue
    BY <1>1, IInvFacts
  <2> QED
    BY <1>1, <1>8, <1>9, <2>1, ReplyStep
<1>11. UNCHANGED <<posted, quit, sendResult, recvResult, wakeMask, changedMask>>
  <2>1. recvResult' = [recvResult EXCEPT ![t] = recvResult[t]] /\ UNCHANGED <<posted, quit, sendResult, wakeMask, changedMask>>
    BY <1>1, <1>8 DEF Reply
  <2> QED
    BY <1>3, <2>1 DEF TypeOK
<1>12. ASSUME NEW q \in Threads
       PROVE  /\ CallsGood(queue'[q], pc'[q], calls'[q])
              /\ StackGood(queue'[q], sendResult'[q], recvResult'[q], calls'[q])
  <2>1. /\ CallsGood(queue[q], pc[q], calls[q])
        /\ StackGood(queue[q], sendResult[q], recvResult[q], calls[q])
    BY IInvFacts
  <2>2. CASE q # t
    BY <1>1, <1>7, <1>11, <2>1, <2>2
  <2>3. CASE q = t
    <3>1. CallList(cs) /\ Head(cs).kind \in Runs /\ cs # <<>>
      BY <1>1, <1>2, <2>1, <2>3, EmptySeq DEF CallsGood
    <3>2. CallList(ds)
      BY <1>5, <3>1 DEF CallList
    <3>3. ds # <<>> /\ Head(ds) = ds[1] /\ Head(cs) = cs[1] /\ 1 \in DOMAIN cs
      BY <1>4, <1>5, <3>1, EmptySeq, PopFacts
    <3>4. CallsGood(queue[t], pc[t], ds)
      BY <1>1, <1>5, <2>1, <2>3, <3>1, <3>2, <3>3 DEF CallsGood
    <3>5. ResultsOf(ds, "send") = ResultsOf(cs, "send") /\ ResultsOf(ds, "proc") = ResultsOf(cs, "proc")
      BY <1>5, ResultsOfFlags
    <3> QED
      BY <1>1, <1>7, <1>11, <2>1, <2>3, <3>4, <3>5 DEF StackGood
  <2> QED
    BY <2>2, <2>3
<1> QED
  BY <1>1, <1>3, <1>7, <1>10, <1>11, <1>12, AnswerKeeps DEF TypeOK

\* A window procedure returns, and call_window_proc replies.
LEMMA ProcReturnsKeeps ==
  ASSUME IInv, NEW t \in Threads, ProcReturns(t), load' = load
  PROVE  IInv'
<1>1. /\ queue[t] = "live" /\ pc[t] = "app" /\ calls[t] # <<>>
      /\ IF Top(t).kind = "proc" /\ Top(t).result # NoResult THEN Reply(t, TRUE)
         ELSE UNCHANGED <<queueVars, bitVars, res>>
      /\ calls' = [calls EXCEPT ![t] = Tail(calls[t])]
      /\ pc' = [pc EXCEPT ![t] = "peek"]
      /\ UNCHANGED <<queue, handle, sends>>
  BY DEF ProcReturns, InApp
<1>2. TypeOK
  BY IInvFacts
<1>3. calls[t] \in Seq(Calls) /\ CallsGood(queue[t], pc[t], calls[t])
  BY <1>2, IInvFacts DEF TypeOK
<1> DEFINE cs == calls[t]
           rest == Tail(cs)
<1>4. /\ rest \in Seq(Calls) /\ CallList(rest) /\ Head(cs) \in Calls /\ Head(cs).kind \in Runs
      /\ rest # <<>> /\ Head(rest).kind \in Waits
  <2>1. CallList(cs) /\ Head(cs).kind \in Runs
    BY <1>1, <1>3 DEF CallsGood
  <2> QED
    BY <1>1, <1>3, <2>1, PopCall
<1>5. /\ calls' \in [Threads -> Seq(Calls)] /\ calls'[t] = rest /\ pc'[t] = "peek"
      /\ \A q \in Threads : q # t => calls'[q] = calls[q] /\ pc'[q] = pc[q]
      /\ pc' \in [Threads -> {"app", "mask", "wait", "peek", "retrieve", "dead"}]
  BY <1>1, <1>2, <1>4 DEF TypeOK
<1>6. \A q \in Threads : CallsGood(queue'[q], pc'[q], calls'[q])
  <2>1. \A q \in Threads : CallsGood(queue[q], pc[q], calls[q])
    BY IInvFacts
  <2>2. CallsGood(queue[t], "peek", rest)
    BY <1>1, <1>4 DEF CallsGood
  <2> QED
    BY <1>1, <1>5, <2>1, <2>2
<1>7. /\ Head(cs).kind # "send"
      /\ ResultsOf(cs, "send") = ResultsOf(rest, "send")
      /\ Head(cs).kind = "proc" /\ Head(cs).result # NoResult =>
           ResultsOf(cs, "proc") = <<Head(cs).result>> \o ResultsOf(rest, "proc")
      /\ ~(Head(cs).kind = "proc" /\ Head(cs).result # NoResult) =>
           ResultsOf(cs, "proc") = ResultsOf(rest, "proc")
  <2>1. Head(cs).kind # "send"
    BY <1>4 DEF Runs
  <2> QED
    BY <1>1, <1>3, <2>1, ResultsOfPop
<1>8. /\ StackGood(queue[t], sendResult[t], recvResult[t], cs)
      /\ \A q \in Threads : StackGood(queue[q], sendResult[q], recvResult[q], calls[q])
  BY IInvFacts
<1>9. CASE Top(t).kind = "proc" /\ Top(t).result # NoResult
  <2>1. Reply(t, TRUE) /\ Head(cs).kind = "proc" /\ Head(cs).result # NoResult
    BY <1>1, <1>9 DEF Top
  <2>2. /\ recvResult[t] = <<Head(cs).result>> \o ResultsOf(rest, "proc")
        /\ sendResult[t] = ResultsOf(cs, "send")
    BY <1>1, <1>7, <1>8, <2>1 DEF StackGood
  <2>3. ResultsOf(rest, "proc") \in Seq(Results) /\ Head(cs).result \in Results
    BY <1>4, <2>1, ResultsOfType, CallFields
  <2>4. recvResult[t] # <<>> /\ Tail(recvResult[t]) = ResultsOf(rest, "proc")
    <3>1. PICK s \in Seq(Results), r \in Results : s = ResultsOf(rest, "proc") /\ r = Head(cs).result
      BY <2>3
    <3>2. <<r>> \o s # <<>> /\ Tail(<<r>> \o s) = s
      BY ConsFacts
    <3> QED
      BY <2>2, <3>1, <3>2
  <2>5. /\ recvResult' = [recvResult EXCEPT ![t] = Tail(recvResult[t])]
        /\ UNCHANGED <<posted, quit, sendResult, wakeMask, changedMask>>
    BY <2>1, <2>4 DEF Reply
  <2>6. \A q \in Threads : Aside(q)
    BY <1>5 DEF Aside
  <2>7. PICK R, y, C, now, cleared : AnswerStep(R, y, "reply", C, now, cleared)
    <3>1. TypeInv /\ ListsInv /\ ResultsInv /\ BitsExact /\ TRUE \in BOOLEAN /\ queue' = queue
      BY <1>1, IInvFacts
    <3> QED
      BY <2>1, <2>4, <2>6, <3>1, ReplyStep
  <2>8. /\ recvResult' \in [Threads -> Seq(Results)] /\ recvResult'[t] = ResultsOf(rest, "proc")
        /\ \A q \in Threads : q # t => recvResult'[q] = recvResult[q]
    BY <1>2, <2>3, <2>4, <2>5 DEF TypeOK
  <2>9. \A q \in Threads : StackGood(queue'[q], sendResult'[q], recvResult'[q], calls'[q])
    BY <1>1, <1>5, <1>7, <1>8, <2>2, <2>5, <2>8 DEF StackGood
  <2> QED
    BY <1>1, <1>2, <1>5, <1>6, <2>5, <2>7, <2>8, <2>9, AnswerKeeps DEF TypeOK
<1>10. CASE ~(Top(t).kind = "proc" /\ Top(t).result # NoResult)
  <2>1. UNCHANGED <<queueVars, bitVars, res>> /\ ~(Head(cs).kind = "proc" /\ Head(cs).result # NoResult)
    BY <1>1, <1>10 DEF Top
  <2>2. \A q \in Threads : StackGood(queue'[q], sendResult[q], recvResult[q], calls'[q])
    BY <1>1, <1>5, <1>7, <1>8, <2>1 DEF StackGood
  <2>3. ASSUME NEW q \in Threads
        PROVE  (pc'[q] = "retrieve" => SMRESULT \in wakeBits[q]) /\ MaskOf(q)'
    <3>1. AnswerOf(q) /\ MaskOf(q)
      BY IInvFacts
    <3>2. CASE q = t
      BY <1>5, <3>2 DEF MaskOf
    <3>3. CASE q # t
      BY <1>5, <2>1, <3>1, <3>3 DEF MaskOf, AnswerOf, bitVars, queueVars, Top
    <3> QED
      BY <3>2, <3>3
  <2>4. UNCHANGED <<queueVars, wakeBits, changedBits, res, load>> /\ UNCHANGED <<wakeMask, changedMask>>
    BY <2>1 DEF bitVars
  <2> QED
    BY <1>1, <1>2, <1>5, <1>6, <2>2, <2>3, <2>4, QuietKeeps DEF TypeOK
<1> QED
  BY <1>9, <1>10

\* Timeouts and windows leave the calls alone.
LEMMA TimeoutKeeps ==
  ASSUME IInv, NEW r \in Results, ResultTimeout(r), load' = load
  PROVE  IInv'
<1>1. UNCHANGED <<queue, handle, posted, quit, sendResult, callbackResult, recvResult,
                  wakeMask, changedMask, calls, pc, sends>>
  BY DEF ResultTimeout
<1>2. TypeInv /\ ListsInv /\ ResultsInv /\ BitsExact /\ TypeOK
  BY IInvFacts
<1>3. PICK R, y, C, now, cleared : AnswerStep(R, y, "timeout", C, now, cleared)
  BY <1>2, TimeoutStep
<1>4. \A t \in Threads : /\ CallsGood(queue'[t], pc'[t], calls'[t])
                         /\ StackGood(queue'[t], sendResult'[t], recvResult'[t], calls'[t])
  BY <1>1, IInvFacts
<1> QED
  BY <1>1, <1>2, <1>3, <1>4, AnswerKeeps DEF TypeOK

\* A window is destroyed: queue_cleanup_window.
LEMMA CleanupWindowKeeps ==
  ASSUME IInv, NEW t \in Threads, CleanupWindow(t), load' = load
  PROVE  IInv'
<1>1. UNCHANGED <<queue, handle, quit, sendResult, recvResult,
                  wakeMask, changedMask, calls, pc, sends>>
  BY DEF CleanupWindow
<1>2. TypeInv /\ ListsInv /\ ResultsInv /\ BitsExact /\ TypeOK
  BY IInvFacts
<1>3. PICK R, y, C, now, cleared : AnswerStep(R, y, "denied", C, now, cleared)
  BY <1>2, CleanupStep
<1>4. \A q \in Threads : /\ CallsGood(queue'[q], pc'[q], calls'[q])
                         /\ StackGood(queue'[q], sendResult'[q], recvResult'[q], calls'[q])
  BY <1>1, IInvFacts
<1>5. posted' \in [Threads -> Seq(Posts)]
  <2> DEFINE P == {i \in DOMAIN posted[t] : posted[t][i] # "window"}
  <2>1. posted' = [posted EXCEPT ![t] = Kept(posted[t], P)]
    BY DEF CleanupWindow
  <2>2. PICK list \in Seq(Posts) : list = posted[t]
    BY <1>2 DEF TypeOK
  <2>3. PICK M \in SUBSET DOMAIN list : M = P
    BY <2>2
  <2>4. Kept(list, M) \in Seq(Posts)
    BY KeptFacts
  <2> HIDE DEF P
  <2> QED
    BY <1>2, <2>1, <2>2, <2>3, <2>4 DEF TypeOK
<1> QED
  BY <1>1, <1>2, <1>3, <1>4, <1>5, AnswerKeeps DEF TypeOK

\* A queue that is destroyed.
LEMMA DestroyKeeps ==
  ASSUME IInv, NEW t \in Threads, Destroy(t), load' = load,
         queue' = [queue EXCEPT ![t] = "none"], handle' \in [Threads -> BOOLEAN],
         calls' = [calls EXCEPT ![t] = <<>>], pc' = [pc EXCEPT ![t] = "dead"], sends' = sends
  PROVE  IInv'
<1>1. TypeInv /\ ListsInv /\ ResultsInv /\ BitsExact /\ TypeOK
  BY IInvFacts
<1>2. /\ sendResult' = [sendResult EXCEPT ![t] = <<>>]
      /\ recvResult' = [recvResult EXCEPT ![t] = <<>>]
      /\ posted' = [posted EXCEPT ![t] = <<>>]
      /\ quit' = [quit EXCEPT ![t] = FALSE]
      /\ wakeMask' = [wakeMask EXCEPT ![t] = {}]
      /\ changedMask' = [changedMask EXCEPT ![t] = {}]
  BY DEF Destroy
<1>3. <<>> \in Seq(Calls) /\ <<>> \in Seq(Results) /\ <<>> \in Seq(Posts)
  BY EmptySeq
<1>4. /\ queue' \in [Threads -> {"live", "orphan", "none"}]
      /\ calls' \in [Threads -> Seq(Calls)]
      /\ pc' \in [Threads -> {"app", "mask", "wait", "peek", "retrieve", "dead"}]
      /\ queue'[t] = "none" /\ pc'[t] = "dead" /\ calls'[t] = <<>>
      /\ \A q \in Threads : q # t => /\ queue'[q] = queue[q] /\ pc'[q] = pc[q]
                                     /\ calls'[q] = calls[q]
  BY <1>1, <1>3 DEF TypeOK
<1>5. /\ sendResult' \in [Threads -> Seq(Results)] /\ recvResult' \in [Threads -> Seq(Results)]
      /\ posted' \in [Threads -> Seq(Posts)] /\ quit' \in [Threads -> BOOLEAN]
      /\ wakeMask' \in [Threads -> SUBSET Bits] /\ changedMask' \in [Threads -> SUBSET Bits]
      /\ \A q \in Threads : q # t => sendResult'[q] = sendResult[q] /\ recvResult'[q] = recvResult[q]
  BY <1>1, <1>2, <1>3 DEF TypeOK
<1>6. \A q \in Threads : Aside(q)
  BY <1>4 DEF Aside
<1>7. PICK R, y, C, now, cleared : AnswerStep(R, y, "denied", C, now, cleared)
  BY <1>1, <1>4, <1>6, DestroyStep
<1>8. ASSUME NEW q \in Threads
      PROVE  /\ CallsGood(queue'[q], pc'[q], calls'[q])
             /\ StackGood(queue'[q], sendResult'[q], recvResult'[q], calls'[q])
  <2>1. CASE q = t
    BY <1>4, <2>1, NoCalls DEF CallsGood, StackGood
  <2>2. CASE q # t
    <3>1. /\ CallsGood(queue[q], pc[q], calls[q])
          /\ StackGood(queue[q], sendResult[q], recvResult[q], calls[q])
      BY IInvFacts
    <3> QED
      BY <1>4, <1>5, <2>2, <3>1
  <2> QED
    BY <2>1, <2>2
<1> QED
  BY <1>4, <1>5, <1>7, <1>8, AnswerKeeps

\* A thread exits.
LEMMA ThreadExitKeeps ==
  ASSUME IInv, NEW t \in Threads, ThreadExit(t), load' = load
  PROVE  IInv'
<1>1. TypeOK
  BY IInvFacts
<1> QED
  BY <1>1, DestroyKeeps DEF ThreadExit, TypeOK

\* A thread is killed.
LEMMA ThreadKilledKeeps ==
  ASSUME IInv, NEW t \in Threads, ThreadKilled(t), load' = load
  PROVE  IInv'
<1>1. TypeOK
  BY IInvFacts
<1>2. CASE handle[t]
  <2>1. /\ calls' = [calls EXCEPT ![t] = <<>>] /\ pc' = [pc EXCEPT ![t] = "dead"]
        /\ queue' = [queue EXCEPT ![t] = "orphan"] /\ queue[t] = "live"
        /\ UNCHANGED <<queueVars, bitVars, res, handle, sends>>
    BY <1>2 DEF ThreadKilled
  <2>2. <<>> \in Seq(Calls)
    BY EmptySeq
  <2>3. /\ queue' \in [Threads -> {"live", "orphan", "none"}]
        /\ calls' \in [Threads -> Seq(Calls)]
        /\ pc' \in [Threads -> {"app", "mask", "wait", "peek", "retrieve", "dead"}]
        /\ queue'[t] = "orphan" /\ pc'[t] = "dead" /\ calls'[t] = <<>>
        /\ \A q \in Threads : q # t => /\ queue'[q] = queue[q] /\ pc'[q] = pc[q]
                                       /\ calls'[q] = calls[q]
    BY <1>1, <2>1, <2>2 DEF TypeOK
  <2>4. UNCHANGED <<queueVars, wakeBits, changedBits, res, load>> /\ UNCHANGED <<wakeMask, changedMask>>
    BY <2>1 DEF bitVars
  <2>5. ASSUME NEW q \in Threads
        PROVE  /\ CallsGood(queue'[q], pc'[q], calls'[q])
               /\ StackGood(queue'[q], sendResult[q], recvResult[q], calls'[q])
               /\ pc'[q] = "retrieve" => SMRESULT \in wakeBits[q]
               /\ MaskOf(q)'
    <3>1. /\ CallsGood(queue[q], pc[q], calls[q])
          /\ StackGood(queue[q], sendResult[q], recvResult[q], calls[q])
          /\ AnswerOf(q) /\ MaskOf(q)
      BY IInvFacts
    <3>2. CASE q = t
      BY <2>3, <3>2, NoCalls DEF CallsGood, StackGood, MaskOf
    <3>3. CASE q # t
      <4>1. MaskOf(q)'
        BY <2>3, <2>4, <3>1, <3>3 DEF MaskOf, queueVars, Top
      <4>2. pc'[q] = "retrieve" => SMRESULT \in wakeBits[q]
        BY <2>3, <3>1, <3>3 DEF AnswerOf
      <4> QED
        BY <2>3, <3>1, <3>3, <4>1, <4>2
    <3> QED
      BY <3>2, <3>3
  <2> QED
    BY <1>1, <2>1, <2>3, <2>4, <2>5, QuietKeeps DEF TypeOK
<1>3. CASE ~handle[t]
  BY <1>1, <1>3, DestroyKeeps DEF ThreadKilled, TypeOK
<1> QED
  BY <1>2, <1>3

\* The last handle of a thread's queue is closed.
LEMMA HandlesClosedKeeps ==
  ASSUME IInv, NEW t \in Threads, HandlesClosed(t), load' = load
  PROVE  IInv'
<1>1. TypeOK /\ CallsGood(queue[t], pc[t], calls[t])
  BY IInvFacts
<1>2. queue[t] = "orphan" /\ UNCHANGED <<calls, pc, sends>>
  BY DEF HandlesClosed
<1>3. pc[t] = "dead" /\ calls[t] = <<>>
  BY <1>1, <1>2 DEF CallsGood
<1>4. calls' = [calls EXCEPT ![t] = <<>>] /\ pc' = [pc EXCEPT ![t] = "dead"]
  BY <1>1, <1>2, <1>3 DEF TypeOK
<1> QED
  BY <1>1, <1>2, <1>4, DestroyKeeps DEF HandlesClosed, TypeOK

-----------------------------------------------------------------------------
(***************************************************************************)
(* Waiting, posting and looking for messages.                              *)
(***************************************************************************)
LEMMA GetMessageKeeps ==
  ASSUME IInv, NEW t \in Threads, NEW get, GetMessage(t, get), load' = load
  PROVE  IInv'
<1> DEFINE c == Call("get", NoResult, get # "PeekMessage", IF get = "GetSome" THEN "some" ELSE "all")
           cs == calls[t]
<1>1. /\ queue[t] = "live" /\ pc[t] = "app"
      /\ calls' = [calls EXCEPT ![t] = <<c>> \o cs] /\ pc' = [pc EXCEPT ![t] = "peek"]
      /\ handle' = [handle EXCEPT ![t] = handle[t] \/ get # "PeekMessage"]
      /\ UNCHANGED <<queue, queueVars, bitVars, res, sends>>
  BY DEF GetMessage, CanCall, InApp
<1>2. TypeOK /\ cs \in Seq(Calls) /\ CallsGood(queue[t], pc[t], cs)
  BY IInvFacts DEF TypeOK
<1>3. c \in Calls /\ c.kind = "get" /\ c.result = NoResult
  <2>1. (get # "PeekMessage") \in BOOLEAN /\ (IF get = "GetSome" THEN "some" ELSE "all") \in {"all", "some"}
    OBVIOUS
  <2> QED
    BY <2>1 DEF Call, Calls
<1> HIDE DEF c
<1>4. /\ CallList(<<c>> \o cs) /\ <<c>> \o cs \in Seq(Calls) /\ <<c>> \o cs # <<>> /\ Head(<<c>> \o cs) = c
  <2>1. CallList(cs) /\ (cs = <<>> \/ Head(cs).kind \in Runs)
    BY <1>1, <1>2 DEF CallsGood
  <2>2. c.kind \in Waits /\ (c.kind = "send" => c.result # NoResult)
    BY <1>3 DEF Waits
  <2> QED
    BY <1>2, <1>3, <2>1, <2>2, PushCall
<1>5. ResultsOf(<<c>> \o cs, "send") = ResultsOf(cs, "send") /\ ResultsOf(<<c>> \o cs, "proc") = ResultsOf(cs, "proc")
  BY <1>2, <1>3, ResultsOfPush
<1>6. /\ calls' \in [Threads -> Seq(Calls)] /\ calls'[t] = <<c>> \o cs /\ pc'[t] = "peek"
      /\ \A q \in Threads : q # t => calls'[q] = calls[q] /\ pc'[q] = pc[q]
      /\ pc' \in [Threads -> {"app", "mask", "wait", "peek", "retrieve", "dead"}]
      /\ handle' \in [Threads -> BOOLEAN]
  <2>1. (handle[t] \/ get # "PeekMessage") \in BOOLEAN
    BY <1>2 DEF TypeOK
  <2> QED
    BY <1>1, <1>2, <1>4, <2>1 DEF TypeOK
<1>7. UNCHANGED <<queueVars, wakeBits, changedBits, res, load>> /\ UNCHANGED <<wakeMask, changedMask, queue>>
  BY <1>1 DEF bitVars
<1>8. ASSUME NEW q \in Threads
      PROVE  /\ CallsGood(queue'[q], pc'[q], calls'[q])
             /\ StackGood(queue'[q], sendResult[q], recvResult[q], calls'[q])
             /\ pc'[q] = "retrieve" => SMRESULT \in wakeBits[q]
             /\ MaskOf(q)'
  <2>1. /\ CallsGood(queue[q], pc[q], calls[q])
        /\ StackGood(queue[q], sendResult[q], recvResult[q], calls[q])
        /\ AnswerOf(q) /\ MaskOf(q)
    BY IInvFacts
  <2>2. CASE q = t
    <3>1. CallsGood(queue[t], "peek", <<c>> \o cs)
      BY <1>1, <1>3, <1>4 DEF CallsGood, Waits
    <3>2. StackGood(queue[t], sendResult[t], recvResult[t], <<c>> \o cs)
      BY <1>5, <2>1, <2>2 DEF StackGood
    <3>3. MaskOf(t)'
      BY <1>6 DEF MaskOf
    <3> QED
      BY <1>6, <1>7, <2>2, <3>1, <3>2, <3>3
  <2>3. CASE q # t
    <3>1. MaskOf(q)'
      BY <1>6, <1>7, <2>1, <2>3 DEF MaskOf, queueVars, Top
    <3>2. pc'[q] = "retrieve" => SMRESULT \in wakeBits[q]
      BY <1>6, <2>1, <2>3 DEF AnswerOf
    <3> QED
      BY <1>6, <1>7, <2>1, <2>3, <3>1, <3>2
  <2> QED
    BY <2>2, <2>3
<1> QED
  BY <1>1, <1>2, <1>6, <1>7, <1>8, QuietKeeps DEF TypeOK

\* A thread moves on in the loop it is in.
LEMMA LoopKeeps ==
  ASSUME IInv, NEW t \in Threads, NEW at \in {"mask", "wait", "peek", "retrieve"},
         pc[t] \in {"mask", "wait", "peek"}, pc' = [pc EXCEPT ![t] = at],
         UNCHANGED <<queue, handle, queueVars, wakeBits, changedBits, res, calls, sends, load>>,
         wakeMask' \in [Threads -> SUBSET Bits], changedMask' \in [Threads -> SUBSET Bits],
         \A q \in Threads : q # t => wakeMask'[q] = wakeMask[q] /\ changedMask'[q] = changedMask[q],
         at = "retrieve" => Top(t).kind = "send" /\ SMRESULT \in wakeBits[t],
         at = "wait" => wakeMask'[t] = WakeMask(Top(t)) /\ changedMask'[t] = ChangedMask(Top(t)),
         at \in {"mask", "wait"} => Top(t).kind # "get" \/ pc[t] = "mask"
  PROVE  IInv'
<1>1. TypeOK
  BY IInvFacts
<1>2. /\ pc' \in [Threads -> {"app", "mask", "wait", "peek", "retrieve", "dead"}] /\ pc'[t] = at
      /\ \A q \in Threads : q # t => pc'[q] = pc[q]
  BY <1>1 DEF TypeOK
<1>3. ASSUME NEW q \in Threads
      PROVE  /\ CallsGood(queue'[q], pc'[q], calls'[q])
             /\ StackGood(queue'[q], sendResult[q], recvResult[q], calls'[q])
             /\ pc'[q] = "retrieve" => SMRESULT \in wakeBits[q]
             /\ MaskOf(q)'
  <2>1. /\ CallsGood(queue[q], pc[q], calls[q])
        /\ StackGood(queue[q], sendResult[q], recvResult[q], calls[q])
        /\ AnswerOf(q) /\ MaskOf(q)
    BY IInvFacts
  <2>2. Top(q)' = Top(q) /\ Top(q) = Head(calls[q])
    BY DEF Top
  <2>3. CASE q = t
    <3>1. CallsGood(queue[t], at, calls[t])
      BY <2>1, <2>2, <2>3 DEF CallsGood
    <3>2. MaskOf(t)'
      BY <1>2, <2>1, <2>2, <2>3 DEF MaskOf, queueVars
    <3> QED
      BY <1>2, <2>1, <2>3, <3>1, <3>2
  <2>4. CASE q # t
    <3>1. MaskOf(q)'
      BY <1>2, <2>1, <2>2, <2>4 DEF MaskOf, queueVars
    <3>2. pc'[q] = "retrieve" => SMRESULT \in wakeBits[q]
      BY <1>2, <2>1, <2>4 DEF AnswerOf
    <3> QED
      BY <1>2, <2>1, <2>4, <3>1, <3>2
  <2> QED
    BY <2>3, <2>4
<1> QED
  BY <1>1, <1>2, <1>3, QuietKeeps DEF TypeOK

\* The request set_queue_mask, which decides whether the thread waits.
LEMMA SetQueueMaskKeeps ==
  ASSUME IInv, NEW t \in Threads, SetQueueMask(t), load' = load
  PROVE  IInv'
<1> DEFINE wake == WakeMask(Top(t))
           changed == ChangedMask(Top(t))
           signaled == (wakeBits[t] \cap wake) \cup (changedBits[t] \cap changed) # {}
<1>1. /\ pc[t] = "mask"
      /\ wakeMask' = [wakeMask EXCEPT ![t] = IF signaled THEN {} ELSE wake]
      /\ changedMask' = [changedMask EXCEPT ![t] = IF signaled THEN {} ELSE changed]
      /\ pc' = [pc EXCEPT ![t] = AfterMask(t)]
      /\ UNCHANGED <<queue, handle, queueVars, wakeBits, changedBits, res, calls, sends>>
  BY DEF SetQueueMask
<1>2. TypeOK /\ BitsOf(t) /\ CallsGood(queue[t], pc[t], calls[t])
  BY IInvFacts
<1>3. wake \in SUBSET Bits /\ changed \in SUBSET Bits
  BY BitNames DEF WakeMask, ChangedMask
<1>4. Top(t).kind \in {"send", "get"} /\ changedBits[t] \subseteq wakeBits[t]
  BY <1>1, <1>2 DEF CallsGood, Waits, Top, BitsOf
<1>5. /\ AfterMask(t) \in {"wait", "peek", "retrieve"}
      /\ AfterMask(t) = "retrieve" => Top(t).kind = "send" /\ SMRESULT \in wakeBits[t]
  BY <1>4 DEF AfterMask
<1>6. AfterMask(t) = "wait" => ~signaled
  BY <1>4 DEF AfterMask, WakeMask, ChangedMask
<1> HIDE DEF wake, changed, signaled
<1>7. /\ wakeMask' \in [Threads -> SUBSET Bits] /\ changedMask' \in [Threads -> SUBSET Bits]
      /\ \A q \in Threads : q # t => wakeMask'[q] = wakeMask[q] /\ changedMask'[q] = changedMask[q]
      /\ ~signaled => wakeMask'[t] = wake /\ changedMask'[t] = changed
  BY <1>1, <1>2, <1>3 DEF TypeOK
<1>8. AfterMask(t) = "wait" => wakeMask'[t] = WakeMask(Top(t)) /\ changedMask'[t] = ChangedMask(Top(t))
  BY <1>6, <1>7 DEF wake, changed
<1>9. PICK at \in {"mask", "wait", "peek", "retrieve"} : at = AfterMask(t)
  BY <1>5
<1> QED
  BY <1>1, <1>5, <1>7, <1>8, <1>9, LoopKeeps

\* The wait for the queue ends.
LEMMA WakeKeeps ==
  ASSUME IInv, NEW t \in Threads, Wake(t), load' = load
  PROVE  IInv'
<1>1. TypeOK
  BY IInvFacts
<1>2. /\ pc[t] = "wait"
      /\ wakeMask' = [wakeMask EXCEPT ![t] = {}]
      /\ changedMask' = [changedMask EXCEPT ![t] = {}]
      /\ pc' = [pc EXCEPT ![t] = IF Top(t).kind = "get" THEN "peek" ELSE "mask"]
      /\ UNCHANGED <<queue, handle, queueVars, wakeBits, changedBits, res, calls, sends>>
  BY DEF Wake
<1>3. /\ wakeMask' \in [Threads -> SUBSET Bits] /\ changedMask' \in [Threads -> SUBSET Bits]
      /\ \A q \in Threads : q # t => wakeMask'[q] = wakeMask[q] /\ changedMask'[q] = changedMask[q]
  BY <1>1, <1>2 DEF TypeOK
<1>4. PICK at \in {"mask", "wait", "peek", "retrieve"} : at = IF Top(t).kind = "get" THEN "peek" ELSE "mask"
  OBVIOUS
<1> QED
  BY <1>2, <1>3, <1>4, LoopKeeps

\* PeekMessage finds no sent message, and the wait for the answer goes on.
LEMMA NothingSentKeeps ==
  ASSUME IInv, NEW t \in Threads, NothingSent(t), load' = load
  PROVE  IInv'
<1>1. TypeOK
  BY IInvFacts
<1>2. /\ pc[t] = "peek" /\ Top(t).kind = "send" /\ pc' = [pc EXCEPT ![t] = "mask"]
      /\ UNCHANGED <<queue, handle, queueVars, wakeBits, changedBits, res, calls, sends, wakeMask, changedMask>>
  BY DEF NothingSent, bitVars
<1>3. PICK at \in {"mask", "wait", "peek", "retrieve"} : at = "mask"
  OBVIOUS
<1> QED
  BY <1>1, <1>2, <1>3, LoopKeeps DEF TypeOK

\* A step that changes posted messages and bits, and leaves what was sent alone.
LEMMA PostedKeeps ==
  ASSUME IInv, UNCHANGED <<queue, sent, sendResult, callbackResult, recvResult, res, sends, load>>,
         handle' \in [Threads -> BOOLEAN],
         posted' \in [Threads -> Seq(Posts)], quit' \in [Threads -> BOOLEAN],
         wakeBits' \in [Threads -> SUBSET Bits], changedBits' \in [Threads -> SUBSET Bits],
         wakeMask' \in [Threads -> SUBSET Bits], changedMask' \in [Threads -> SUBSET Bits],
         calls' \in [Threads -> Seq(Calls)],
         pc' \in [Threads -> {"app", "mask", "wait", "peek", "retrieve", "dead"}],
         \A t \in Threads :
           /\ CallsGood(queue[t], pc'[t], calls'[t])
           /\ StackGood(queue[t], sendResult[t], recvResult[t], calls'[t])
           /\ pc'[t] = "retrieve" => pc[t] = "retrieve"
           /\ wakeBits'[t] \ PostBits = wakeBits[t] \ PostBits
           /\ POSTMESSAGE \in wakeBits'[t] <=> posted'[t] # <<>> \/ quit'[t]
           /\ changedBits'[t] \subseteq wakeBits'[t]
           /\ MaskOf(t)'
  PROVE  IInv'
<1>1. TypeOK'
  BY IInvFacts DEF TypeOK
<1>2. ListsInv'
  <2>1. \A q \in Threads : ListsOf(q)'
    <3> SUFFICES ASSUME NEW q \in Threads PROVE ListsOf(q)'
      OBVIOUS
    <3>1. ListsOf(q)
      BY IInvFacts
    <3> QED
      BY <3>1 DEF ListsOf
  <2> QED
    BY <2>1, ListsFormNext
<1>3. ResultsInv'
  <2>1. ResultsInv
    BY IInvFacts
  <2> QED
    BY <2>1 DEF ResultsInv, ResultInv
<1>4. BitsExact' /\ AnswerInv' /\ MaskInv'
  <2>1. \A q \in Threads : BitsOf(q)' /\ AnswerOf(q)'
    <3> SUFFICES ASSUME NEW q \in Threads PROVE BitsOf(q)' /\ AnswerOf(q)'
      OBVIOUS
    <3>1. BitsOf(q) /\ AnswerOf(q)
      BY IInvFacts
    <3>2. /\ SENDMESSAGE \in wakeBits'[q] <=> SENDMESSAGE \in wakeBits[q]
          /\ SMRESULT \in wakeBits'[q] <=> SMRESULT \in wakeBits[q]
      BY BitNames
    <3>3. BitsOf(q)'
      BY <3>1, <3>2 DEF BitsOf
    <3>4. AnswerOf(q)'
      BY <3>1, <3>2 DEF AnswerOf, SomeReplied
    <3> QED
      BY <3>3, <3>4
  <2> QED
    BY <2>1, BitsFormNext
<1>5. CallsInv' /\ StacksMatch'
  <2>1. \A t \in Threads : /\ CallsGood(queue'[t], pc'[t], calls'[t])
                           /\ StackGood(queue'[t], sendResult'[t], recvResult'[t], calls'[t])
    OBVIOUS
  <2> QED
    BY <2>1, CallsFormNext
<1>6. (load \in Workloads)'
  BY IInvFacts
<1> QED
  BY <1>1, <1>2, <1>3, <1>4, <1>5, <1>6 DEF IInv

\* A message or the quit message is posted to a queue.
LEMMA PostKeeps ==
  ASSUME IInv, NEW u \in Threads, SetBits(u, PostBits),
         UNCHANGED <<queue, handle, sent, sendResult, callbackResult, recvResult,
                     wakeMask, changedMask, res, calls, pc, sends, load>>,
         posted' \in [Threads -> Seq(Posts)], quit' \in [Threads -> BOOLEAN],
         posted'[u] # <<>> \/ quit'[u],
         \A q \in Threads : q # u => posted'[q] = posted[q] /\ quit'[q] = quit[q]
  PROVE  IInv'
<1>1. TypeOK
  BY IInvFacts
<1>2. /\ wakeBits' = [wakeBits EXCEPT ![u] = wakeBits[u] \cup PostBits]
      /\ changedBits' = [changedBits EXCEPT ![u] = changedBits[u] \cup PostBits]
  BY DEF SetBits
<1>3. /\ wakeBits' \in [Threads -> SUBSET Bits] /\ changedBits' \in [Threads -> SUBSET Bits]
      /\ wakeBits'[u] = wakeBits[u] \cup PostBits /\ changedBits'[u] = changedBits[u] \cup PostBits
      /\ \A q \in Threads : q # u => wakeBits'[q] = wakeBits[q] /\ changedBits'[q] = changedBits[q]
  BY <1>1, <1>2, BitNames DEF TypeOK
<1>4. ASSUME NEW q \in Threads
      PROVE  /\ CallsGood(queue[q], pc'[q], calls'[q])
             /\ StackGood(queue[q], sendResult[q], recvResult[q], calls'[q])
             /\ pc'[q] = "retrieve" => pc[q] = "retrieve"
             /\ wakeBits'[q] \ PostBits = wakeBits[q] \ PostBits
             /\ POSTMESSAGE \in wakeBits'[q] <=> posted'[q] # <<>> \/ quit'[q]
             /\ changedBits'[q] \subseteq wakeBits'[q]
             /\ MaskOf(q)'
  <2>1. /\ CallsGood(queue[q], pc[q], calls[q]) /\ BitsOf(q) /\ MaskOf(q)
        /\ StackGood(queue[q], sendResult[q], recvResult[q], calls[q])
    BY IInvFacts
  <2>2. Top(q)' = Top(q)
    BY DEF Top
  <2>3. MaskOf(q)'
    <3>1. CASE q = u
      BY <1>3, <2>1, <2>2, <3>1, BitNames DEF MaskOf
    <3>2. CASE q # u
      BY <1>3, <2>1, <2>2, <3>2 DEF MaskOf
    <3> QED
      BY <3>1, <3>2
  <2>4. /\ wakeBits'[q] \ PostBits = wakeBits[q] \ PostBits
        /\ changedBits'[q] \subseteq wakeBits'[q]
    BY <1>3, <2>1 DEF BitsOf
  <2>5. POSTMESSAGE \in wakeBits'[q] <=> posted'[q] # <<>> \/ quit'[q]
    <3>1. CASE q = u
      BY <1>3, <3>1, BitNames
    <3>2. CASE q # u
      BY <1>3, <2>1, <3>2 DEF BitsOf
    <3> QED
      BY <3>1, <3>2
  <2> QED
    BY <2>1, <2>3, <2>4, <2>5
<1> QED
  BY <1>1, <1>3, <1>4, PostedKeeps DEF TypeOK

\* A message is posted.
LEMMA PostMessageKeeps ==
  ASSUME IInv, NEW t \in Threads, NEW u \in Threads, NEW p \in Posts, PostMessage(t, u, p), load' = load
  PROVE  IInv'
<1>1. TypeOK
  BY IInvFacts
<1>2. /\ posted' = [posted EXCEPT ![u] = Append(posted[u], p)] /\ SetBits(u, PostBits)
      /\ UNCHANGED <<queue, handle, sent, quit, sendResult, callbackResult, recvResult,
                     wakeMask, changedMask, res, calls, pc, sends>>
  BY DEF PostMessage
<1>3. Append(posted[u], p) \in Seq(Posts) /\ Append(posted[u], p) # <<>>
  <2>1. PICK list \in Seq(Posts) : list = posted[u]
    BY <1>1 DEF TypeOK
  <2>2. /\ Append(list, p) \in Seq(Posts) /\ Len(list) \in Nat /\ Len(Append(list, p)) = Len(list) + 1
    BY AppendSet
  <2> QED
    BY <2>1, <2>2, EmptySeq
<1>4. /\ posted' \in [Threads -> Seq(Posts)] /\ posted'[u] # <<>>
      /\ \A q \in Threads : q # u => posted'[q] = posted[q]
  BY <1>1, <1>2, <1>3 DEF TypeOK
<1>5. quit' \in [Threads -> BOOLEAN]
  BY <1>1, <1>2 DEF TypeOK
<1> QED
  BY <1>2, <1>4, <1>5, PostKeeps

\* The request post_quit_message.
LEMMA PostQuitKeeps ==
  ASSUME IInv, NEW t \in Threads, PostQuit(t), load' = load
  PROVE  IInv'
<1>1. TypeOK
  BY IInvFacts
<1>2. /\ quit' = [quit EXCEPT ![t] = TRUE] /\ SetBits(t, PostBits)
      /\ UNCHANGED <<queue, handle, sent, posted, sendResult, callbackResult, recvResult,
                     wakeMask, changedMask, res, calls, pc, sends>>
  BY DEF PostQuit
<1>3. /\ quit' \in [Threads -> BOOLEAN] /\ quit'[t] /\ posted' \in [Threads -> Seq(Posts)]
      /\ \A q \in Threads : q # t => quit'[q] = quit[q]
  BY <1>1, <1>2 DEF TypeOK
<1> QED
  BY <1>2, <1>3, PostKeeps

\* The first posted message that the filter lets through.
LEMMA FirstMatch ==
  ASSUME NEW list \in Seq(Posts), NEW filter, \E i \in DOMAIN list : Matches(list[i], filter)
  PROVE  (CHOOSE i \in DOMAIN list : /\ Matches(list[i], filter)
                                     /\ \A j \in 1..(i - 1) : ~Matches(list[j], filter)) \in DOMAIN list
<1> DEFINE T == {i \in DOMAIN list : Matches(list[i], filter)}
<1>1. T \in SUBSET Nat /\ T # {}
  OBVIOUS
<1>2. PICK i \in T : \A j \in T : i <= j
  BY <1>1, LeastNatural
<1>3. \A j \in 1..(i - 1) : ~Matches(list[j], filter)
  <2> SUFFICES ASSUME NEW j \in 1..(i - 1), Matches(list[j], filter) PROVE FALSE
    OBVIOUS
  <2>1. i \in 1..Len(list) /\ Len(list) \in Nat /\ DOMAIN list = 1..Len(list)
    OBVIOUS
  <2>2. j \in T
    BY <2>1
  <2>3. i <= j /\ j <= i - 1 /\ i \in Nat /\ j \in Nat
    BY <1>2, <2>1, <2>2
  <2> QED
    BY <2>3
<1> QED
  BY <1>2, <1>3

\* get_message takes a posted message or the quit message.
LEMMA ReceivePostedKeeps ==
  ASSUME IInv, NEW t \in Threads, ReceivePosted(t), load' = load
  PROVE  IInv'
<1> DEFINE c == Top(t)
           found == \E i \in DOMAIN posted[t] : Matches(posted[t][i], c.filter)
           first == CHOOSE i \in DOMAIN posted[t] :
                      /\ Matches(posted[t][i], c.filter)
                      /\ \A j \in 1..(i - 1) : ~Matches(posted[t][j], c.filter)
           postedNow == IF found /\ c.flag THEN RemoveAt(posted[t], first) ELSE posted[t]
           quitNow == quit[t] /\ (found \/ ~c.flag)
           taken == c.flag /\ (found \/ quit[t])
           cleared == IF taken THEN PostsCleared(postedNow, quitNow) ELSE {}
           returns == found \/ quit[t] \/ ~c.flag
           changedNow == (IF c.filter = "all" THEN {} ELSE changedBits[t] \cap {ALLPOSTMESSAGE}) \ cleared
           cs == calls[t]
           rest == Tail(cs)
<1>1. /\ pc[t] = "peek" /\ Top(t).kind = "get"
      /\ posted' = [posted EXCEPT ![t] = postedNow]
      /\ quit' = [quit EXCEPT ![t] = quitNow]
      /\ wakeBits' = [wakeBits EXCEPT ![t] = wakeBits[t] \ cleared]
      /\ changedBits' = [changedBits EXCEPT ![t] = changedNow]
      /\ calls' = [calls EXCEPT ![t] = IF returns THEN rest ELSE cs]
      /\ pc' = [pc EXCEPT ![t] = IF returns THEN "app" ELSE "mask"]
      /\ UNCHANGED <<queue, handle, sent, sendResult, callbackResult, recvResult,
                     wakeMask, changedMask, res, sends>>
  BY DEF ReceivePosted
<1>2. /\ TypeOK /\ BitsOf(t) /\ CallsGood(queue[t], pc[t], cs)
      /\ posted[t] \in Seq(Posts) /\ cs \in Seq(Calls) /\ quit[t] \in BOOLEAN
      /\ wakeBits[t] \in SUBSET Bits /\ changedBits[t] \in SUBSET Bits
  BY IInvFacts DEF TypeOK
<1>3. /\ c = Head(cs) /\ cs # <<>> /\ CallList(cs) /\ queue[t] = "live"
  BY <1>1, <1>2 DEF CallsGood, Top
<1>4. /\ rest \in Seq(Calls) /\ CallList(rest) /\ c \in Calls
      /\ rest # <<>> => Head(rest).kind \in Runs
  BY <1>1, <1>2, <1>3, PopCall DEF Waits
<1>5. c.flag \in BOOLEAN
  BY <1>4, CallFields
<1>6. postedNow \in Seq(Posts) /\ (postedNow # <<>> => posted[t] # <<>>)
  <2>1. CASE found /\ c.flag
    <3>1. PICK list \in Seq(Posts) : list = posted[t]
      BY <1>2
    <3>2. first \in DOMAIN list
      BY <2>1, <3>1, FirstMatch
    <3>3. PICK i \in DOMAIN list : i = first
      BY <3>2
    <3>4. RemoveAt(list, i) \in Seq(Posts) /\ list # <<>>
      BY RemoveAtFacts, EmptySeq
    <3> QED
      BY <2>1, <3>1, <3>3, <3>4
  <2>2. CASE ~(found /\ c.flag)
    BY <1>2, <2>2
  <2> QED
    BY <2>1, <2>2
<1>7. found => posted[t] # <<>>
  BY <1>2, EmptySeq
<1>8. cleared \subseteq PostBits
  BY DEF PostsCleared
<1>9. ~taken => postedNow = posted[t] /\ quitNow = quit[t]
  BY <1>2, <1>5
<1>10. POSTMESSAGE \in wakeBits[t] \ cleared <=> postedNow # <<>> \/ quitNow
  <2>1. CASE taken
    <3>1. POSTMESSAGE \in wakeBits[t]
      BY <1>2, <1>7, <2>1 DEF BitsOf
    <3>2. POSTMESSAGE \in cleared <=> postedNow = <<>> /\ ~quitNow
      BY <2>1, BitNames DEF PostsCleared
    <3> QED
      BY <3>1, <3>2
  <2>2. CASE ~taken
    BY <1>2, <1>9, <2>2 DEF BitsOf
  <2> QED
    BY <2>1, <2>2
<1>11. ~returns => ~found /\ ~quit[t] /\ postedNow = posted[t] /\ ~quitNow
  BY <1>9
<1>12. changedNow \subseteq wakeBits[t] \ cleared /\ POSTMESSAGE \notin changedNow
       /\ quitNow \in BOOLEAN
  BY <1>2, BitNames DEF BitsOf
<1> DEFINE after == IF returns THEN rest ELSE cs
           at == IF returns THEN "app" ELSE "mask"
<1>13. CallsGood(queue[t], at, after)
  BY <1>1, <1>2, <1>3, <1>4 DEF CallsGood
<1>14. ResultsOf(after, "send") = ResultsOf(cs, "send") /\ ResultsOf(after, "proc") = ResultsOf(cs, "proc")
  <2>1. ResultsOf(rest, "send") = ResultsOf(cs, "send") /\ ResultsOf(rest, "proc") = ResultsOf(cs, "proc")
    BY <1>1, <1>2, <1>3, ResultsOfPop
  <2> QED
    BY <2>1
<1>15. after \in Seq(Calls) /\ at \in {"app", "mask"} /\ (at = "mask" => ~returns /\ after = cs)
  BY <1>2, <1>4
<1>16. ~found => \A i \in DOMAIN posted[t] : ~Matches(posted[t][i], c.filter)
  OBVIOUS
<1>17. returns \/ (~found /\ ~quit[t] /\ postedNow = posted[t] /\ ~quitNow)
  BY <1>11
<1>18. \/ at = "app"
       \/ at = "mask" /\ after = cs /\ NoMatch(postedNow, quitNow, c.filter)
  BY <1>15, <1>16, <1>17 DEF NoMatch
<1> HIDE DEF c, found, first, postedNow, quitNow, taken, cleared, returns, changedNow, after, at
<1>19. /\ posted' = [posted EXCEPT ![t] = postedNow] /\ quit' = [quit EXCEPT ![t] = quitNow]
       /\ wakeBits' = [wakeBits EXCEPT ![t] = wakeBits[t] \ cleared]
       /\ changedBits' = [changedBits EXCEPT ![t] = changedNow]
       /\ calls' = [calls EXCEPT ![t] = after] /\ pc' = [pc EXCEPT ![t] = at]
  BY <1>1 DEF after, at
<1>20. /\ posted' \in [Threads -> Seq(Posts)] /\ quit' \in [Threads -> BOOLEAN]
       /\ wakeBits' \in [Threads -> SUBSET Bits] /\ changedBits' \in [Threads -> SUBSET Bits]
       /\ calls' \in [Threads -> Seq(Calls)]
       /\ pc' \in [Threads -> {"app", "mask", "wait", "peek", "retrieve", "dead"}]
       /\ posted'[t] = postedNow /\ (quit'[t] = quitNow) /\ wakeBits'[t] = wakeBits[t] \ cleared
       /\ changedBits'[t] = changedNow /\ calls'[t] = after /\ pc'[t] = at
       /\ \A q \in Threads : q # t =>
            /\ posted'[q] = posted[q] /\ quit'[q] = quit[q] /\ wakeBits'[q] = wakeBits[q]
            /\ changedBits'[q] = changedBits[q] /\ calls'[q] = calls[q] /\ pc'[q] = pc[q]
  BY <1>2, <1>6, <1>12, <1>15, <1>19 DEF TypeOK
<1>21. ASSUME NEW q \in Threads
       PROVE  /\ CallsGood(queue[q], pc'[q], calls'[q])
              /\ StackGood(queue[q], sendResult[q], recvResult[q], calls'[q])
              /\ pc'[q] = "retrieve" => pc[q] = "retrieve"
              /\ wakeBits'[q] \ PostBits = wakeBits[q] \ PostBits
              /\ POSTMESSAGE \in wakeBits'[q] <=> posted'[q] # <<>> \/ quit'[q]
              /\ changedBits'[q] \subseteq wakeBits'[q]
              /\ MaskOf(q)'
  <2>1. /\ CallsGood(queue[q], pc[q], calls[q]) /\ BitsOf(q) /\ MaskOf(q)
        /\ StackGood(queue[q], sendResult[q], recvResult[q], calls[q])
    BY IInvFacts
  <2>2. CASE q = t
    <3>1. CallsGood(queue[t], pc'[t], calls'[t])
      BY <1>13, <1>20
    <3>2. StackGood(queue[t], sendResult[t], recvResult[t], calls'[t])
      BY <1>14, <1>20, <2>1, <2>2 DEF StackGood
    <3>3. /\ wakeBits'[t] \ PostBits = wakeBits[t] \ PostBits
          /\ changedBits'[t] \subseteq wakeBits'[t]
          /\ POSTMESSAGE \in wakeBits'[t] <=> posted'[t] # <<>> \/ quit'[t]
      BY <1>8, <1>10, <1>12, <1>20
    <3>4. pc'[t] # "retrieve" /\ pc'[t] # "wait"
      BY <1>15, <1>20
    <3>5. MaskOf(t)'
      <4>1. pc'[t] = "mask" => NoMatch(posted'[t], quit'[t], Top(t)'.filter)
        <5>1. pc'[t] = "mask" => after = cs /\ NoMatch(postedNow, quitNow, c.filter)
          BY <1>18, <1>20
        <5>2. after = cs => Top(t)' = c
          BY <1>3, <1>20 DEF Top
        <5> QED
          BY <1>20, <5>1, <5>2 DEF NoMatch
      <4> QED
        BY <3>4, <4>1 DEF MaskOf
    <3> QED
      BY <2>2, <3>1, <3>2, <3>3, <3>4, <3>5
  <2>3. CASE q # t
    <3>1. MaskOf(q)'
      <4>1. Top(q)' = Top(q)
        BY <1>20, <2>3 DEF Top
      <4> QED
        BY <1>1, <1>20, <2>1, <2>3, <4>1 DEF MaskOf
    <3>2. /\ POSTMESSAGE \in wakeBits[q] <=> posted[q] # <<>> \/ quit[q]
          /\ changedBits[q] \subseteq wakeBits[q]
      BY <2>1 DEF BitsOf
    <3> QED
      BY <1>20, <2>1, <2>3, <3>1, <3>2
  <2> QED
    BY <2>2, <2>3
<1> QED
  BY <1>1, <1>2, <1>20, <1>21, PostedKeeps DEF TypeOK

-----------------------------------------------------------------------------
(***************************************************************************)
(* Sending.                                                                *)
(***************************************************************************)
\* A message goes to the end of the list of a queue.
LEMMA AppendMessage ==
  ASSUME NEW list \in Seq(Messages), Distinct(list), NEW m \in Messages,
         m.type # "callback_result", m.result \notin ResultsIn(list)
  PROVE  /\ Append(list, m) \in Seq(Messages) /\ Append(list, m) # <<>> /\ Distinct(Append(list, m))
         /\ \A r \in Results : r \in ResultsIn(Append(list, m)) <=> r \in ResultsIn(list) \/ r = m.result
<1>1. PICK new \in Seq(Messages) :
        /\ new = Append(list, m) /\ Len(list) \in Nat /\ Len(new) = Len(list) + 1
        /\ \A j \in 1..Len(list) : new[j] = list[j]
        /\ new[Len(list) + 1] = m
  BY AppendSet
<1>2. /\ DOMAIN list = 1..Len(list) /\ DOMAIN new = 1..(Len(list) + 1)
      /\ \A i \in DOMAIN new : i \in DOMAIN list \/ i = Len(list) + 1
      /\ Len(list) + 1 \in DOMAIN new /\ Len(list) + 1 \notin DOMAIN list
  BY <1>1
<1>3. new # <<>>
  BY <1>2, EmptySeq
<1>4. \A i \in DOMAIN list : list[i].result = m.result => m.result = NoResult
  BY DEF ResultsIn
<1>5. Distinct(new)
  <2>1. ASSUME NEW i \in DOMAIN new, NEW j \in DOMAIN new,
               new[i].result = new[j].result, new[i].result # NoResult
        PROVE  i = j
    BY <1>1, <1>2, <1>4, <2>1 DEF Distinct
  <2>2. ASSUME NEW i \in DOMAIN new, new[i].type = "callback_result" PROVE new[i].result = NoResult
    BY <1>1, <1>2, <2>2 DEF Distinct
  <2> QED
    BY <2>1, <2>2 DEF Distinct
<1>6. ASSUME NEW r \in Results PROVE r \in ResultsIn(new) <=> r \in ResultsIn(list) \/ r = m.result
  <2>1. r # NoResult
    BY NullAssumption
  <2> QED
    BY <1>1, <1>2, <2>1 DEF ResultsIn
<1> QED
  BY <1>1, <1>3, <1>5, <1>6

\* A result that is not in use is in no list.
LEMMA FreshResult ==
  ASSUME TypeInv, ListsInv, NEW r \in Results, ~InUse(r), NEW q \in Threads
  PROVE  /\ r \notin ToSet(sendResult[q]) /\ r \notin callbackResult[q]
         /\ r \notin ToSet(recvResult[q]) /\ r \notin ResultsIn(sent[q])
<1>1. q # NoQueue /\ res[r].sender = NoQueue /\ res[r].receiver = NoQueue
  BY NullAssumption DEF InUse
<1> QED
  BY <1>1 DEF ListsInv

\* t sends m to u: m has no result, or a new one that goes to a list of t.
SendStep(t, u, m) ==
  /\ load' = load /\ queue[t] = "live" /\ queue[u] = "live" /\ sends < load.sends
  /\ m \in Messages /\ m.type # "callback_result"
  /\ sent' = [sent EXCEPT ![u] = Append(sent[u], m)]
  /\ wakeBits' = [wakeBits EXCEPT ![u] = wakeBits[u] \cup {SENDMESSAGE}]
  /\ changedBits' = [changedBits EXCEPT ![u] = changedBits[u] \cup {SENDMESSAGE}]
  /\ sends' = sends + 1
  /\ UNCHANGED <<queue, posted, quit, recvResult, wakeMask, changedMask>>
  /\ m.result \in Results => /\ ~InUse(m.result) /\ ResultInv(res'[m.result])
                             /\ res'[m.result].sender = t /\ res'[m.result].receiver = u
                             /\ res'[m.result].msg
  /\ \A r \in Results : r # m.result => res'[r] = res[r]
  /\ \A q \in Threads : q # t =>
       /\ sendResult'[q] = sendResult[q] /\ callbackResult'[q] = callbackResult[q]
       /\ calls'[q] = calls[q] /\ pc'[q] = pc[q]
  /\ res' \in [Results -> ResultType] /\ handle' \in [Threads -> BOOLEAN]
  /\ sendResult' \in [Threads -> Seq(Results)] /\ callbackResult' \in [Threads -> SUBSET Results]
  /\ calls' \in [Threads -> Seq(Calls)]
  /\ pc' \in [Threads -> {"app", "mask", "wait", "peek", "retrieve", "dead"}]
  /\ \/ sendResult'[t] = sendResult[t]
     \/ m.result \in Results /\ sendResult'[t] = <<m.result>> \o sendResult[t]
  /\ IsInjective(sendResult'[t])
  /\ \A r \in Results : /\ r \in ToSet(sendResult'[t]) <=> res'[r].sender = t /\ ~res'[r].callback
                        /\ r \in callbackResult'[t] <=> res'[r].sender = t /\ res'[r].callback
  /\ \/ calls'[t] = calls[t] /\ pc'[t] = pc[t]
     \/ pc'[t] = "mask" /\ Head(calls'[t]).kind # "get"
  /\ CallsGood(queue[t], pc'[t], calls'[t])
  /\ StackGood(queue[t], sendResult'[t], recvResult[t], calls'[t])

\* A message is put into its receiver's list, with or without a result.
LEMMA DeliverKeeps ==
  ASSUME IInv, NEW t \in Threads, NEW u \in Threads, NEW m, SendStep(t, u, m)
  PROVE  IInv'
<1> USE DEF SendStep
<1>1. TypeInv /\ TypeOK /\ load \in Workloads /\ ListsInv /\ ResultsInv
  BY IInvFacts
<1>2. /\ sent' = [sent EXCEPT ![u] = Append(sent[u], m)]
      /\ wakeBits' = [wakeBits EXCEPT ![u] = wakeBits[u] \cup {SENDMESSAGE}]
      /\ changedBits' = [changedBits EXCEPT ![u] = changedBits[u] \cup {SENDMESSAGE}]
      /\ sends' = sends + 1
      /\ UNCHANGED <<queue, posted, quit, recvResult, wakeMask, changedMask>>
  OBVIOUS
<1>3. sent[u] \in Seq(Messages) /\ Distinct(sent[u])
  BY <1>1 DEF TypeOK, ListsInv, Distinct
<1>4. m.result \in Results \cup {NoResult}
  BY DEF Messages
<1>5. \A q \in Threads :
        /\ m.result \notin ToSet(sendResult[q]) /\ m.result \notin ToSet(recvResult[q])
        /\ m.result \notin ResultsIn(sent[q]) /\ m.result \notin callbackResult[q]
  <2> SUFFICES ASSUME NEW q \in Threads
               PROVE  /\ m.result \notin ToSet(sendResult[q]) /\ m.result \notin ToSet(recvResult[q])
                      /\ m.result \notin ResultsIn(sent[q]) /\ m.result \notin callbackResult[q]
    OBVIOUS
  <2>1. CASE m.result \in Results
    BY <1>1, <2>1, FreshResult
  <2>2. CASE m.result = NoResult
    <3>1. sendResult[q] \in Seq(Results) /\ recvResult[q] \in Seq(Results) /\ callbackResult[q] \in SUBSET Results
      BY <1>1 DEF TypeOK
    <3>2. ToSet(sendResult[q]) \subseteq Results /\ ToSet(recvResult[q]) \subseteq Results
      BY <3>1 DEF ToSet
    <3>3. m.result \notin Results
      BY <2>2, NullAssumption
    <3> QED
      BY <2>2, <3>1, <3>2, <3>3 DEF ResultsIn
  <2> QED
    BY <1>4, <2>1, <2>2
<1>6. /\ Append(sent[u], m) \in Seq(Messages) /\ Append(sent[u], m) # <<>> /\ Distinct(Append(sent[u], m))
      /\ \A r \in Results : r \in ResultsIn(Append(sent[u], m)) <=> r \in ResultsIn(sent[u]) \/ r = m.result
  <2>1. m.result \notin ResultsIn(sent[u])
    BY <1>5
  <2> QED
    BY <1>3, <2>1, AppendMessage
<1>7. /\ sent' \in [Threads -> Seq(Messages)] /\ sent'[u] = Append(sent[u], m)
      /\ wakeBits' \in [Threads -> SUBSET Bits] /\ wakeBits'[u] = wakeBits[u] \cup {SENDMESSAGE}
      /\ changedBits' \in [Threads -> SUBSET Bits] /\ changedBits'[u] = changedBits[u] \cup {SENDMESSAGE}
      /\ \A q \in Threads : q # u => /\ sent'[q] = sent[q] /\ wakeBits'[q] = wakeBits[q]
                                     /\ changedBits'[q] = changedBits[q]
  <2>1. SENDMESSAGE \in Bits
    BY BitNames
  <2> QED
    BY <1>1, <1>2, <1>6, <2>1 DEF TypeOK
<1>8. sends' \in 0..load'.sends
  <2>1. load.sends \in Nat
    BY <1>1, WorkloadAssumption
  <2>2. sends \in 0..load.sends
    BY <1>1 DEF TypeOK
  <2> QED
    BY <1>2, <2>1, <2>2
<1>9. TypeOK'
  BY <1>1, <1>2, <1>7, <1>8 DEF TypeOK
<1>10. ResultsInv'
  <2>1. \A r \in Results : ResultInv(res'[r])
    BY <1>1 DEF ResultsInv
  <2>2. \A r \in Results : ResultInv(res[r])'
    BY <2>1 DEF ResultInv
  <2> QED
    BY <2>2 DEF ResultsInv
<1>11. ListsInv'
  <2>1. ASSUME NEW q \in Threads PROVE ListsOf(q)'
    <3>1. ListsOf(q)
      BY IInvFacts
    <3>a. ASSUME NEW r \in Results, r # m.result PROVE res'[r] = res[r]
      BY <3>a
    <3>b. ASSUME NEW r \in Results, r = m.result
          PROVE  /\ res'[r].sender = t /\ res'[r].receiver = u /\ res'[r].msg
                 /\ r \notin ToSet(sendResult[q]) /\ r \notin ToSet(recvResult[q])
                 /\ r \notin ResultsIn(sent[q]) /\ r \notin callbackResult[q]
      BY <1>5, <3>b
    <3>c. ASSUME NEW r \in Results
          PROVE  /\ r \in ToSet(recvResult[q]) <=> res[r].receiver = q /\ ~res[r].msg
                 /\ r \in ResultsIn(sent[q]) <=> res[r].receiver = q /\ res[r].msg
      BY <3>1 DEF ListsOf, Hold
    <3>2. /\ IsInjective(sendResult'[q])
          /\ \A r \in Results : /\ r \in ToSet(sendResult'[q]) <=> res'[r].sender = q /\ ~res'[r].callback
                                /\ r \in callbackResult'[q] <=> res'[r].sender = q /\ res'[r].callback
      <4>0. /\ IsInjective(sendResult'[t])
            /\ \A r \in Results : /\ r \in ToSet(sendResult'[t]) <=> res'[r].sender = t /\ ~res'[r].callback
                                  /\ r \in callbackResult'[t] <=> res'[r].sender = t /\ res'[r].callback
        OBVIOUS
      <4>1. CASE q = t
        BY <4>0, <4>1
      <4>2. CASE q # t
        <5>1. /\ sendResult'[q] = sendResult[q] /\ callbackResult'[q] = callbackResult[q]
              /\ IsInjective(sendResult[q])
          BY <3>1, <4>2 DEF ListsOf, Hold
        <5>2. ASSUME NEW r \in Results
              PROVE  /\ r \in ToSet(sendResult[q]) <=> res'[r].sender = q /\ ~res'[r].callback
                     /\ r \in callbackResult[q] <=> res'[r].sender = q /\ res'[r].callback
          <6>1. CASE r = m.result
            BY <3>b, <4>2, <6>1
          <6>2. CASE r # m.result
            BY <3>1, <3>a, <6>2 DEF ListsOf, Hold
          <6> QED
            BY <6>1, <6>2
        <5> QED
          BY <5>1, <5>2
      <4> QED
        BY <4>1, <4>2
    <3>3. /\ IsInjective(recvResult'[q])
          /\ \A r \in Results : r \in ToSet(recvResult'[q]) <=> res'[r].receiver = q /\ ~res'[r].msg
      <4>1. recvResult'[q] = recvResult[q] /\ IsInjective(recvResult[q])
        BY <1>2, <3>1 DEF ListsOf, Hold
      <4>2. ASSUME NEW r \in Results
            PROVE  r \in ToSet(recvResult[q]) <=> res'[r].receiver = q /\ ~res'[r].msg
        <5>1. CASE r = m.result
          BY <3>b, <5>1
        <5>2. CASE r # m.result
          BY <3>a, <3>c, <5>2
        <5> QED
          BY <5>1, <5>2
      <4> QED
        BY <4>1, <4>2
    <3>4. /\ Distinct(sent'[q])
          /\ \A r \in Results : r \in ResultsIn(sent'[q]) <=> res'[r].receiver = q /\ res'[r].msg
      <4>0. Distinct(sent[q])
        BY <3>1 DEF ListsOf, Hold
      <4>1. /\ Distinct(sent'[q])
            /\ \A r \in Results : r \in ResultsIn(sent'[q]) <=>
                                   r \in ResultsIn(sent[q]) \/ (q = u /\ r = m.result)
        BY <1>6, <1>7, <4>0
      <4>2. ASSUME NEW r \in Results
            PROVE  r \in ResultsIn(sent'[q]) <=> res'[r].receiver = q /\ res'[r].msg
        <5>1. CASE r = m.result
          BY <3>b, <4>1, <5>1
        <5>2. CASE r # m.result
          BY <3>a, <3>c, <4>1, <5>2
        <5> QED
          BY <5>1, <5>2
      <4> QED
        BY <4>1, <4>2
    <3>5. Hold(q, sendResult'[q], callbackResult'[q], recvResult'[q], sent'[q], res')
      BY <3>2, <3>3, <3>4 DEF Hold
    <3>6. Destroyed(queue'[q], sendResult'[q], callbackResult'[q], recvResult'[q], sent'[q])
      BY <1>2, <1>7, <3>1 DEF ListsOf, Destroyed
    <3> QED
      BY <3>5, <3>6 DEF ListsOf
  <2> QED
    BY <2>1, ListsFormNext
<1>12. ASSUME NEW q \in Threads PROVE BitsOf(q)' /\ AnswerOf(q)' /\ MaskOf(q)'
  <2>1. BitsOf(q) /\ AnswerOf(q) /\ MaskOf(q) /\ ListsOf(q)
    BY IInvFacts
  <2>2. sendResult[q] \in Seq(Results)
    BY <1>1 DEF TypeOK
  <2>3. \A i \in DOMAIN sendResult[q] :
          sendResult[q][i] \in Results /\ res'[sendResult[q][i]] = res[sendResult[q][i]]
    <3>1. \A i \in DOMAIN sendResult[q] : sendResult[q][i] \in Results /\ sendResult[q][i] # m.result
      BY <1>5, <2>2 DEF ToSet
    <3> QED
      BY <3>1
  <2>4. \/ sendResult'[q] = sendResult[q]
        \/ m.result \in Results /\ sendResult'[q] = <<m.result>> \o sendResult[q]
    OBVIOUS
  <2>5. /\ sendResult'[q] # <<>> /\ res'[Head(sendResult'[q])].replied =>
             sendResult[q] # <<>> /\ res[Head(sendResult[q])].replied
        /\ sendResult'[q] = <<>> => sendResult[q] = <<>>
        /\ SomeReplied(sendResult[q], res) => SomeReplied(sendResult'[q], res')
    <3>1. CASE sendResult'[q] = sendResult[q]
      <4>1. sendResult[q] # <<>> => 1 \in DOMAIN sendResult[q] /\ Head(sendResult[q]) = sendResult[q][1]
        BY <2>2, PopFacts
      <4> QED
        BY <2>3, <3>1, <4>1 DEF SomeReplied
    <3>2. CASE m.result \in Results /\ sendResult'[q] = <<m.result>> \o sendResult[q]
      <4>1. PICK list \in Seq(Results), r \in Results : list = sendResult[q] /\ r = m.result
        BY <2>2, <3>2
      <4>2. /\ <<r>> \o list # <<>> /\ Head(<<r>> \o list) = r
            /\ Len(list) \in Nat /\ DOMAIN list = 1..Len(list) /\ DOMAIN (<<r>> \o list) = 1..(Len(list) + 1)
            /\ \A i \in 1..Len(list) : (<<r>> \o list)[i + 1] = list[i]
        BY PushFacts
      <4>3. ~res'[r].replied
        BY <3>2, <4>1 DEF ResultInv
      <4>4. SomeReplied(list, res) => SomeReplied(<<r>> \o list, res')
        <5> SUFFICES ASSUME NEW i \in DOMAIN list, res[list[i]].replied
                     PROVE  SomeReplied(<<r>> \o list, res')
          BY DEF SomeReplied
        <5>1. i + 1 \in DOMAIN (<<r>> \o list) /\ (<<r>> \o list)[i + 1] = list[i]
          BY <4>2
        <5>2. res'[list[i]].replied
          BY <2>3, <4>1
        <5> QED
          BY <5>1, <5>2 DEF SomeReplied
      <4> QED
        BY <3>2, <4>1, <4>2, <4>3, <4>4
    <3> QED
      BY <2>4, <3>1, <3>2
  <2>6. /\ SMRESULT \in wakeBits'[q] <=> SMRESULT \in wakeBits[q]
        /\ POSTMESSAGE \in wakeBits'[q] <=> POSTMESSAGE \in wakeBits[q]
        /\ POSTMESSAGE \in changedBits'[q] <=> POSTMESSAGE \in changedBits[q]
        /\ SENDMESSAGE \in wakeBits'[q] <=> sent'[q] # <<>>
        /\ changedBits'[q] \subseteq wakeBits'[q]
    <3>1. CASE q = u
      BY <1>6, <1>7, <2>1, <3>1, BitNames DEF BitsOf
    <3>2. CASE q # u
      BY <1>7, <2>1, <3>2 DEF BitsOf
    <3> QED
      BY <3>1, <3>2
  <2>7. BitsOf(q)'
    BY <1>2, <2>1, <2>5, <2>6 DEF BitsOf
  <2>8. \/ calls'[q] = calls[q] /\ pc'[q] = pc[q]
        \/ pc'[q] = "mask" /\ Head(calls'[q]).kind # "get"
    OBVIOUS
  <2>9. AnswerOf(q)'
    BY <2>1, <2>5, <2>6, <2>8 DEF AnswerOf, SomeReplied
  <2>10. MaskOf(q)'
    <3>1. CASE calls'[q] = calls[q] /\ pc'[q] = pc[q]
      <4>1. Top(q)' = Top(q)
        BY <3>1 DEF Top
      <4> QED
        BY <1>2, <2>1, <2>6, <3>1, <4>1 DEF MaskOf
    <3>2. CASE pc'[q] = "mask" /\ Head(calls'[q]).kind # "get"
      BY <3>2 DEF MaskOf, Top
    <3> QED
      BY <2>8, <3>1, <3>2
  <2> QED
    BY <2>7, <2>9, <2>10
<1>13. BitsExact' /\ AnswerInv' /\ MaskInv'
  BY <1>12, BitsFormNext
<1>14. CallsInv' /\ StacksMatch'
  <2>1. ASSUME NEW q \in Threads
        PROVE  /\ CallsGood(queue'[q], pc'[q], calls'[q])
               /\ StackGood(queue'[q], sendResult'[q], recvResult'[q], calls'[q])
    <3>1. /\ CallsGood(queue[q], pc[q], calls[q])
          /\ StackGood(queue[q], sendResult[q], recvResult[q], calls[q])
      BY IInvFacts
    <3>2. CASE q = t
      BY <1>2, <3>2
    <3>3. CASE q # t
      BY <1>2, <3>1, <3>3
    <3> QED
      BY <3>2, <3>3
  <2> QED
    BY <2>1, CallsFormNext
<1>15. (load \in Workloads)'
  BY <1>1
<1> QED
  BY <1>9, <1>10, <1>11, <1>13, <1>14, <1>15 DEF IInv

\* alloc_message_result, field by field.
LEMMA ResultOfIs ==
  ASSUME NEW s \in Threads, NEW u \in Threads, NEW callback \in BOOLEAN, NEW timeout \in BOOLEAN,
         timeout => ~callback
  PROVE  /\ ResultOf(TRUE, s, u, callback, timeout) \in ResultType
         /\ ResultInv(ResultOf(TRUE, s, u, callback, timeout))
         /\ ResultOf(TRUE, s, u, callback, timeout).msg
         /\ ResultOf(TRUE, s, u, callback, timeout).sender = s
         /\ ResultOf(TRUE, s, u, callback, timeout).receiver = u
         /\ ResultOf(TRUE, s, u, callback, timeout).callback = callback
BY NullAssumption DEF ResultOf, ResultType, ResultInv

\* The type and the fields of a message.
LEMMA MessageIs ==
  ASSUME NEW type \in {"send", "notify", "callback", "callback_result"},
         NEW r \in Results \cup {NoResult}, NEW win \in BOOLEAN
  PROVE  /\ Message(type, r, win) \in Messages
         /\ Message(type, r, win).type = type /\ Message(type, r, win).result = r
BY DEF Message, Messages

\* alloc_message_result finds a result that nobody uses.
LEMMA NewResultFacts ==
  ASSUME CanAlloc
  PROVE  NewResult \in Results /\ ~InUse(NewResult)
BY DEF CanAlloc, NewResult

\* SendNotifyMessage.
LEMMA SendNotifyKeeps ==
  ASSUME IInv, NEW t \in Threads, NEW u \in Threads, NEW win \in BOOLEAN, SendNotify(t, u, win), load' = load
  PROVE  IInv'
<1>1. /\ queue[t] = "live" /\ queue[u] = "live" /\ sends < load.sends
      /\ sent' = [sent EXCEPT ![u] = Append(sent[u], Message("notify", NoResult, win))]
      /\ wakeBits' = [wakeBits EXCEPT ![u] = wakeBits[u] \cup {SENDMESSAGE}]
      /\ changedBits' = [changedBits EXCEPT ![u] = changedBits[u] \cup {SENDMESSAGE}]
      /\ sends' = sends + 1
      /\ UNCHANGED <<queue, posted, quit, recvResult, wakeMask, changedMask>>
      /\ UNCHANGED <<handle, sendResult, callbackResult, res, calls, pc>>
  BY DEF SendNotify, CanCall, InApp, Deliver, SetBits
<1>2. PICK m \in Messages : m = Message("notify", NoResult, win) /\ m.type = "notify" /\ m.result = NoResult
  BY MessageIs
<1>3. m.result \notin Results
  BY <1>2, NullAssumption
<1>4. TypeOK
  BY IInvFacts
<1>5. /\ res' \in [Results -> ResultType] /\ handle' \in [Threads -> BOOLEAN]
      /\ sendResult' \in [Threads -> Seq(Results)] /\ callbackResult' \in [Threads -> SUBSET Results]
      /\ calls' \in [Threads -> Seq(Calls)]
      /\ pc' \in [Threads -> {"app", "mask", "wait", "peek", "retrieve", "dead"}]
  BY <1>1, <1>4 DEF TypeOK
<1>6. /\ IsInjective(sendResult'[t])
      /\ \A r \in Results : /\ r \in ToSet(sendResult'[t]) <=> res'[r].sender = t /\ ~res'[r].callback
                            /\ r \in callbackResult'[t] <=> res'[r].sender = t /\ res'[r].callback
  <2>1. ListsOf(t)
    BY IInvFacts
  <2> QED
    BY <1>1, <2>1 DEF ListsOf, Hold
<1>7. /\ CallsGood(queue[t], pc'[t], calls'[t])
      /\ StackGood(queue[t], sendResult'[t], recvResult[t], calls'[t])
  <2>1. /\ CallsGood(queue[t], pc[t], calls[t])
        /\ StackGood(queue[t], sendResult[t], recvResult[t], calls[t])
    BY IInvFacts
  <2> QED
    BY <1>1, <2>1
<1>8. SendStep(t, u, m)
  BY <1>1, <1>2, <1>3, <1>5, <1>6, <1>7 DEF SendStep
<1> QED
  BY <1>8, DeliverKeeps

\* SendMessageCallback.
LEMMA SendCallbackKeeps ==
  ASSUME IInv, NEW t \in Threads, NEW u \in Threads, NEW win \in BOOLEAN, SendCallback(t, u, win), load' = load
  PROVE  IInv'
<1> DEFINE r == NewResult
           x == ResultOf(TRUE, t, u, TRUE, FALSE)
<1>1. /\ queue[t] = "live" /\ queue[u] = "live" /\ sends < load.sends /\ CanAlloc
      /\ res' = [res EXCEPT ![r] = x]
      /\ callbackResult' = [callbackResult EXCEPT ![t] = callbackResult[t] \cup {r}]
      /\ sent' = [sent EXCEPT ![u] = Append(sent[u], Message("callback", r, win))]
      /\ wakeBits' = [wakeBits EXCEPT ![u] = wakeBits[u] \cup {SENDMESSAGE}]
      /\ changedBits' = [changedBits EXCEPT ![u] = changedBits[u] \cup {SENDMESSAGE}]
      /\ sends' = sends + 1
      /\ UNCHANGED <<queue, posted, quit, recvResult, wakeMask, changedMask>>
      /\ UNCHANGED <<handle, sendResult, calls, pc>>
  BY DEF SendCallback, CanCall, InApp, Deliver, SetBits
<1>2. r \in Results /\ ~InUse(r)
  BY <1>1, NewResultFacts
<1>3. /\ x \in ResultType /\ ResultInv(x) /\ x.msg /\ x.sender = t /\ x.receiver = u /\ x.callback
  BY ResultOfIs
<1> HIDE DEF r, x
<1>4. PICK m \in Messages : m = Message("callback", r, win) /\ m.type = "callback" /\ m.result = r
  BY <1>2, MessageIs
<1>5. TypeOK
  BY IInvFacts
<1>6. /\ res' \in [Results -> ResultType] /\ handle' \in [Threads -> BOOLEAN]
      /\ sendResult' \in [Threads -> Seq(Results)] /\ callbackResult' \in [Threads -> SUBSET Results]
      /\ calls' \in [Threads -> Seq(Calls)]
      /\ pc' \in [Threads -> {"app", "mask", "wait", "peek", "retrieve", "dead"}]
      /\ res'[r] = x /\ \A k \in Results : k # r => res'[k] = res[k]
      /\ callbackResult'[t] = callbackResult[t] \cup {r}
      /\ \A q \in Threads : q # t => callbackResult'[q] = callbackResult[q]
  BY <1>1, <1>2, <1>3, <1>5 DEF TypeOK
<1>7. /\ IsInjective(sendResult'[t])
      /\ \A k \in Results : /\ k \in ToSet(sendResult'[t]) <=> res'[k].sender = t /\ ~res'[k].callback
                            /\ k \in callbackResult'[t] <=> res'[k].sender = t /\ res'[k].callback
  <2>1. ListsOf(t)
    BY IInvFacts
  <2>2. r \notin ToSet(sendResult[t])
    BY <1>2, IInvFacts, FreshResult
  <2> QED
    BY <1>1, <1>3, <1>6, <2>1, <2>2 DEF ListsOf, Hold
<1>8. /\ CallsGood(queue[t], pc'[t], calls'[t])
      /\ StackGood(queue[t], sendResult'[t], recvResult[t], calls'[t])
  <2>1. /\ CallsGood(queue[t], pc[t], calls[t])
        /\ StackGood(queue[t], sendResult[t], recvResult[t], calls[t])
    BY IInvFacts
  <2> QED
    BY <1>1, <2>1
<1>9. /\ ~InUse(m.result) /\ ResultInv(res'[m.result])
      /\ res'[m.result].sender = t /\ res'[m.result].receiver = u /\ res'[m.result].msg
      /\ \A k \in Results : k # m.result => res'[k] = res[k]
  BY <1>2, <1>3, <1>4, <1>6
<1>10. SendStep(t, u, m)
  BY <1>1, <1>4, <1>6, <1>7, <1>8, <1>9 DEF SendStep
<1> QED
  BY <1>10, DeliverKeeps

\* SendMessage and SendMessageTimeout.
LEMMA SendMessageKeeps ==
  ASSUME IInv, NEW t \in Threads, NEW u \in Threads, NEW timeout \in BOOLEAN, NEW block \in BOOLEAN,
         NEW win \in BOOLEAN, SendMessage(t, u, timeout, block, win), load' = load
  PROVE  IInv'
<1> DEFINE r == NewResult
           x == ResultOf(TRUE, t, u, FALSE, timeout)
           c == Call("send", r, block, "all")
           cs == calls[t]
<1>1. /\ queue[t] = "live" /\ pc[t] = "app" /\ queue[u] = "live" /\ sends < load.sends /\ CanAlloc
      /\ res' = [res EXCEPT ![r] = x]
      /\ sendResult' = [sendResult EXCEPT ![t] = <<r>> \o sendResult[t]]
      /\ sent' = [sent EXCEPT ![u] = Append(sent[u], Message("send", r, win))]
      /\ wakeBits' = [wakeBits EXCEPT ![u] = wakeBits[u] \cup {SENDMESSAGE}]
      /\ changedBits' = [changedBits EXCEPT ![u] = changedBits[u] \cup {SENDMESSAGE}]
      /\ sends' = sends + 1
      /\ UNCHANGED <<queue, posted, quit, recvResult, wakeMask, changedMask>>
      /\ calls' = [calls EXCEPT ![t] = <<c>> \o cs]
      /\ pc' = [pc EXCEPT ![t] = "mask"]
      /\ handle' = [handle EXCEPT ![t] = TRUE]
      /\ UNCHANGED callbackResult
  BY DEF SendMessage, CanCall, InApp, Deliver, SetBits
<1>2. r \in Results /\ ~InUse(r)
  BY <1>1, NewResultFacts
<1>3. /\ x \in ResultType /\ ResultInv(x) /\ x.msg /\ x.sender = t /\ x.receiver = u /\ ~x.callback
  BY NullAssumption DEF ResultOf, ResultType, ResultInv
<1> HIDE DEF r, x
<1>4. PICK m \in Messages : m = Message("send", r, win) /\ m.type = "send" /\ m.result = r
  BY <1>2, MessageIs
<1>5. TypeOK /\ cs \in Seq(Calls) /\ CallsGood(queue[t], pc[t], cs) /\ ListsOf(t)
      /\ StackGood(queue[t], sendResult[t], recvResult[t], cs) /\ sendResult[t] \in Seq(Results)
  BY IInvFacts DEF TypeOK
<1>6. c \in Calls /\ c.kind = "send" /\ c.result = r /\ r # NoResult
  BY <1>2, NullAssumption DEF Call, Calls
<1> HIDE DEF c
<1>7. /\ CallList(<<c>> \o cs) /\ <<c>> \o cs \in Seq(Calls) /\ <<c>> \o cs # <<>> /\ Head(<<c>> \o cs) = c
  <2>1. CallList(cs) /\ (cs = <<>> \/ Head(cs).kind \in Runs)
    BY <1>1, <1>5 DEF CallsGood
  <2>2. c.kind \in Waits /\ (c.kind = "send" => c.result # NoResult)
    BY <1>6 DEF Waits
  <2> QED
    BY <1>5, <1>6, <2>1, <2>2, PushCall
<1>8. /\ ResultsOf(<<c>> \o cs, "send") = <<r>> \o ResultsOf(cs, "send")
      /\ ResultsOf(<<c>> \o cs, "proc") = ResultsOf(cs, "proc")
  BY <1>5, <1>6, ResultsOfPush
<1>9. r \notin ToSet(sendResult[t]) /\ r \notin callbackResult[t]
  BY <1>2, IInvFacts, FreshResult
<1>10. /\ <<r>> \o sendResult[t] \in Seq(Results) /\ IsInjective(<<r>> \o sendResult[t])
       /\ ToSet(<<r>> \o sendResult[t]) = ToSet(sendResult[t]) \cup {r}
  <2>1. IsInjective(sendResult[t])
    BY <1>5 DEF ListsOf, Hold
  <2> QED
    BY <1>2, <1>5, <1>9, <2>1, PrependSet
<1>11. /\ res' \in [Results -> ResultType] /\ handle' \in [Threads -> BOOLEAN]
       /\ sendResult' \in [Threads -> Seq(Results)] /\ callbackResult' \in [Threads -> SUBSET Results]
       /\ calls' \in [Threads -> Seq(Calls)]
       /\ pc' \in [Threads -> {"app", "mask", "wait", "peek", "retrieve", "dead"}]
       /\ res'[r] = x /\ \A k \in Results : k # r => res'[k] = res[k]
       /\ sendResult'[t] = <<r>> \o sendResult[t] /\ calls'[t] = <<c>> \o cs /\ pc'[t] = "mask"
       /\ \A q \in Threads : q # t => /\ sendResult'[q] = sendResult[q] /\ calls'[q] = calls[q]
                                      /\ pc'[q] = pc[q]
  BY <1>1, <1>2, <1>3, <1>5, <1>7, <1>10 DEF TypeOK
<1>12. /\ IsInjective(sendResult'[t])
       /\ \A k \in Results : /\ k \in ToSet(sendResult'[t]) <=> res'[k].sender = t /\ ~res'[k].callback
                             /\ k \in callbackResult'[t] <=> res'[k].sender = t /\ res'[k].callback
  BY <1>1, <1>3, <1>5, <1>9, <1>10, <1>11 DEF ListsOf, Hold
<1>13. /\ CallsGood(queue[t], pc'[t], calls'[t])
       /\ StackGood(queue[t], sendResult'[t], recvResult[t], calls'[t])
  <2>1. CallsGood(queue[t], "mask", <<c>> \o cs)
    BY <1>1, <1>6, <1>7 DEF CallsGood, Waits
  <2>2. StackGood(queue[t], <<r>> \o sendResult[t], recvResult[t], <<c>> \o cs)
    BY <1>1, <1>5, <1>8 DEF StackGood
  <2> QED
    BY <1>11, <2>1, <2>2
<1>14. /\ ~InUse(m.result) /\ ResultInv(res'[m.result])
       /\ res'[m.result].sender = t /\ res'[m.result].receiver = u /\ res'[m.result].msg
       /\ \A k \in Results : k # m.result => res'[k] = res[k]
       /\ m.result \in Results /\ sendResult'[t] = <<m.result>> \o sendResult[t]
  BY <1>2, <1>3, <1>4, <1>11
<1>15. pc'[t] = "mask" /\ Head(calls'[t]).kind # "get" /\ UNCHANGED callbackResult
  BY <1>1, <1>6, <1>7, <1>11
<1>16. SendStep(t, u, m)
  BY <1>1, <1>4, <1>11, <1>12, <1>13, <1>14, <1>15 DEF SendStep
<1> QED
  BY <1>16, DeliverKeeps

-----------------------------------------------------------------------------
(***************************************************************************)
(* Receiving a message that was sent, and the answer to one.               *)
(***************************************************************************)
\* t takes something from one of its lists, and goes on with the program.
TakeStep(t) ==
  /\ UNCHANGED <<queue, handle, posted, quit, callbackResult, wakeMask, changedMask, sends, load>>
  /\ \A q \in Threads : q # t =>
       /\ sendResult'[q] = sendResult[q] /\ recvResult'[q] = recvResult[q] /\ sent'[q] = sent[q]
       /\ wakeBits'[q] = wakeBits[q] /\ changedBits'[q] = changedBits[q]
       /\ calls'[q] = calls[q] /\ pc'[q] = pc[q]
  /\ sent' \in [Threads -> Seq(Messages)]
  /\ sendResult' \in [Threads -> Seq(Results)] /\ recvResult' \in [Threads -> Seq(Results)]
  /\ wakeBits' \in [Threads -> SUBSET Bits] /\ changedBits' \in [Threads -> SUBSET Bits]
  /\ res' \in [Results -> ResultType] /\ calls' \in [Threads -> Seq(Calls)]
  /\ pc' \in [Threads -> {"app", "mask", "wait", "peek", "retrieve", "dead"}]
  /\ pc'[t] = "app" /\ queue[t] = "live"
  /\ \A r \in Results : ResultInv(res'[r])
  /\ \A q \in Threads : Hold(q, sendResult'[q], callbackResult[q], recvResult'[q], sent'[q], res')
  /\ \A q \in Threads, r \in Results : q # t /\ res[r].sender = q => res'[r].replied = res[r].replied
  /\ SENDMESSAGE \in wakeBits'[t] <=> sent'[t] # <<>>
  /\ POSTMESSAGE \in wakeBits'[t] <=> POSTMESSAGE \in wakeBits[t]
  /\ sendResult'[t] # <<>> /\ res'[Head(sendResult'[t])].replied => SMRESULT \in wakeBits'[t]
  /\ SMRESULT \in wakeBits'[t] => SomeReplied(sendResult'[t], res')
  /\ changedBits'[t] \subseteq wakeBits'[t]
  /\ CallsGood(queue[t], pc'[t], calls'[t])
  /\ StackGood(queue[t], sendResult'[t], recvResult'[t], calls'[t])

\* A thread that takes a message or an answer from its lists keeps the invariant.
LEMMA TakeKeeps ==
  ASSUME IInv, NEW t \in Threads, TakeStep(t)
  PROVE  IInv'
<1>1. TypeInv /\ TypeOK /\ load \in Workloads /\ ListsInv /\ ResultsInv
  BY IInvFacts
<1>2. TypeOK'
  BY <1>1 DEF TypeOK, TakeStep
<1>3. ResultsInv'
  <2>1. \A r \in Results : ResultInv(res'[r])
    BY DEF TakeStep
  <2>2. \A r \in Results : ResultInv(res[r])'
    BY <2>1 DEF ResultInv
  <2> QED
    BY <2>2 DEF ResultsInv
<1>4. ListsInv'
  <2>1. ASSUME NEW q \in Threads PROVE ListsOf(q)'
    <3>1. ListsOf(q)
      BY IInvFacts
    <3>2. Hold(q, sendResult'[q], callbackResult'[q], recvResult'[q], sent'[q], res')
      BY DEF TakeStep
    <3>3. Destroyed(queue'[q], sendResult'[q], callbackResult'[q], recvResult'[q], sent'[q])
      BY <3>1 DEF ListsOf, Destroyed, TakeStep
    <3> QED
      BY <3>2, <3>3 DEF ListsOf
  <2> QED
    BY <2>1, ListsFormNext
<1>5. ASSUME NEW q \in Threads PROVE BitsOf(q)' /\ AnswerOf(q)' /\ MaskOf(q)'
  <2>1. BitsOf(q) /\ AnswerOf(q) /\ MaskOf(q)
    BY IInvFacts
  <2>2. CASE q = t
    <3>1. /\ SENDMESSAGE \in wakeBits'[t] <=> sent'[t] # <<>>
          /\ POSTMESSAGE \in wakeBits'[t] <=> POSTMESSAGE \in wakeBits[t]
          /\ sendResult'[t] # <<>> /\ res'[Head(sendResult'[t])].replied => SMRESULT \in wakeBits'[t]
          /\ SMRESULT \in wakeBits'[t] => SomeReplied(sendResult'[t], res')
          /\ changedBits'[t] \subseteq wakeBits'[t]
          /\ pc'[t] = "app" /\ UNCHANGED <<posted, quit>>
      BY DEF TakeStep
    <3>2. sendResult'[t] = <<>> => ~SomeReplied(sendResult'[t], res')
      BY EmptySeq DEF SomeReplied
    <3>3. BitsOf(t)'
      BY <2>1, <2>2, <3>1, <3>2 DEF BitsOf
    <3>4. AnswerOf(t)' /\ MaskOf(t)'
      BY <3>1 DEF AnswerOf, MaskOf, SomeReplied
    <3> QED
      BY <2>2, <3>3, <3>4
  <2>3. CASE q # t
    <3>1. /\ sendResult'[q] = sendResult[q] /\ recvResult'[q] = recvResult[q] /\ sent'[q] = sent[q]
          /\ wakeBits'[q] = wakeBits[q] /\ changedBits'[q] = changedBits[q]
          /\ calls'[q] = calls[q] /\ pc'[q] = pc[q]
          /\ UNCHANGED <<posted, quit, wakeMask, changedMask>>
      BY <2>3 DEF TakeStep
    <3>2. ASSUME NEW i \in DOMAIN sendResult[q]
          PROVE  res'[sendResult[q][i]].replied = res[sendResult[q][i]].replied
      <4>1. sendResult[q] \in Seq(Results)
        BY <1>1 DEF TypeOK
      <4>2. sendResult[q][i] \in Results /\ sendResult[q][i] \in ToSet(sendResult[q])
        BY <4>1 DEF ToSet
      <4>3. res[sendResult[q][i]].sender = q
        BY <1>1, <4>2 DEF ListsInv
      <4> QED
        BY <2>3, <4>2, <4>3 DEF TakeStep
    <3>3. sendResult[q] # <<>> => 1 \in DOMAIN sendResult[q] /\ Head(sendResult[q]) = sendResult[q][1]
      <4>1. sendResult[q] \in Seq(Results)
        BY <1>1 DEF TypeOK
      <4> QED
        BY <4>1, PopFacts
    <3>4. BitsOf(q)'
      BY <2>1, <3>1, <3>2, <3>3 DEF BitsOf
    <3>5. AnswerOf(q)'
      BY <2>1, <3>1, <3>2 DEF AnswerOf, SomeReplied
    <3>6. MaskOf(q)'
      <4>1. Top(q)' = Top(q)
        BY <3>1 DEF Top
      <4> QED
        BY <2>1, <3>1, <4>1 DEF MaskOf
    <3> QED
      BY <3>4, <3>5, <3>6
  <2> QED
    BY <2>2, <2>3
<1>6. BitsExact' /\ AnswerInv' /\ MaskInv'
  BY <1>5, BitsFormNext
<1>7. CallsInv' /\ StacksMatch'
  <2>1. ASSUME NEW q \in Threads
        PROVE  /\ CallsGood(queue'[q], pc'[q], calls'[q])
               /\ StackGood(queue'[q], sendResult'[q], recvResult'[q], calls'[q])
    <3>1. /\ CallsGood(queue[q], pc[q], calls[q])
          /\ StackGood(queue[q], sendResult[q], recvResult[q], calls[q])
      BY IInvFacts
    <3>2. CASE q = t
      BY <3>2 DEF TakeStep
    <3>3. CASE q # t
      BY <3>1, <3>3 DEF TakeStep
    <3> QED
      BY <3>2, <3>3
  <2> QED
    BY <2>1, CallsFormNext
<1>8. (load \in Workloads)'
  BY <1>1 DEF TakeStep
<1> QED
  BY <1>2, <1>3, <1>4, <1>6, <1>7, <1>8 DEF IInv

\* When an answer is retrieved, the last message sent is that of the innermost call.
LEMMA RetrieveFacts ==
  ASSUME IInv, NEW t \in Threads, pc[t] = "retrieve"
  PROVE  /\ queue[t] = "live" /\ calls[t] \in Seq(Calls) /\ calls[t] # <<>>
         /\ Head(calls[t]).kind = "send" /\ sendResult[t] \in Seq(Results) /\ sendResult[t] # <<>>
         /\ Tail(sendResult[t]) = ResultsOf(Tail(calls[t]), "send")
         /\ ResultsOf(calls[t], "proc") = ResultsOf(Tail(calls[t]), "proc")
         /\ Tail(calls[t]) \in Seq(Calls) /\ CallList(Tail(calls[t]))
         /\ Tail(calls[t]) # <<>> => Head(Tail(calls[t])).kind \in Runs
<1>1. /\ CallsGood(queue[t], pc[t], calls[t]) /\ TypeOK
      /\ StackGood(queue[t], sendResult[t], recvResult[t], calls[t])
  BY IInvFacts
<1>2. calls[t] \in Seq(Calls) /\ sendResult[t] \in Seq(Results)
  BY <1>1 DEF TypeOK
<1>3. calls[t] # <<>> /\ Head(calls[t]).kind = "send" /\ CallList(calls[t]) /\ queue[t] = "live"
  BY <1>1 DEF CallsGood
<1>4. /\ Tail(calls[t]) \in Seq(Calls) /\ CallList(Tail(calls[t])) /\ Head(calls[t]) \in Calls
      /\ Tail(calls[t]) # <<>> => Head(Tail(calls[t])).kind \in Runs
      /\ Head(calls[t]).result # NoResult
  BY <1>2, <1>3, PopCall DEF Waits
<1>5. /\ ResultsOf(calls[t], "send") = <<Head(calls[t]).result>> \o ResultsOf(Tail(calls[t]), "send")
      /\ ResultsOf(calls[t], "proc") = ResultsOf(Tail(calls[t]), "proc")
  BY <1>2, <1>3, <1>4, ResultsOfPop
<1>6. ResultsOf(Tail(calls[t]), "send") \in Seq(Results) /\ Head(calls[t]).result \in Results
  BY <1>4, ResultsOfType, CallFields
<1>7. sendResult[t] = ResultsOf(calls[t], "send")
  BY <1>1, <1>3 DEF StackGood
<1>8. sendResult[t] # <<>> /\ Tail(sendResult[t]) = ResultsOf(Tail(calls[t]), "send")
  <2>1. PICK s \in Seq(Results), r \in Results :
          s = ResultsOf(Tail(calls[t]), "send") /\ r = Head(calls[t]).result
    BY <1>6
  <2>2. <<r>> \o s # <<>> /\ Tail(<<r>> \o s) = s
    BY ConsFacts
  <2> QED
    BY <1>5, <1>7, <2>1, <2>2
<1> QED
  BY <1>2, <1>3, <1>4, <1>5, <1>8

\* The request get_message_reply.
LEMMA RetrieveReplyKeeps ==
  ASSUME IInv, NEW t \in Threads, RetrieveReply(t), load' = load
  PROVE  IInv'
<1> DEFINE r == Head(sendResult[t])
           rest == Tail(sendResult[t])
           x == [res[r] EXCEPT !.sender = NoQueue]
           clear == IF rest = <<>> \/ ~res[Head(rest)].replied THEN {SMRESULT} ELSE {}
           cs == calls[t]
<1>1. /\ pc[t] = "retrieve"
      /\ pc' = [pc EXCEPT ![t] = "app"] /\ calls' = [calls EXCEPT ![t] = Tail(cs)]
      /\ UNCHANGED <<queue, handle, sent, posted, quit, callbackResult, recvResult,
                     wakeMask, changedMask, sends>>
  BY DEF RetrieveReply
<1>2. /\ queue[t] = "live" /\ cs \in Seq(Calls) /\ cs # <<>>
      /\ Head(cs).kind = "send" /\ sendResult[t] \in Seq(Results) /\ sendResult[t] # <<>>
      /\ rest = ResultsOf(Tail(cs), "send")
      /\ ResultsOf(cs, "proc") = ResultsOf(Tail(cs), "proc")
      /\ Tail(cs) \in Seq(Calls) /\ CallList(Tail(cs))
      /\ Tail(cs) # <<>> => Head(Tail(cs)).kind \in Runs
  BY <1>1, RetrieveFacts
<1>3. /\ sendResult' = [sendResult EXCEPT ![t] = rest]
      /\ res' = [res EXCEPT ![r] = Released(x)]
      /\ wakeBits' = [wakeBits EXCEPT ![t] = wakeBits[t] \ clear]
      /\ changedBits' = [changedBits EXCEPT ![t] = changedBits[t] \ clear]
  BY <1>2 DEF RetrieveReply, ClearBits
<1>4. /\ TypeOK /\ ListsOf(t) /\ BitsOf(t) /\ AnswerOf(t) /\ ResultsInv
      /\ StackGood(queue[t], sendResult[t], recvResult[t], cs)
      /\ \A q \in Threads : ListsOf(q)
  BY IInvFacts
<1>5. IsInjective(sendResult[t])
  BY <1>4 DEF ListsOf, Hold
<1>6. /\ r \in Results /\ r \in ToSet(sendResult[t])
      /\ rest \in Seq(Results) /\ IsInjective(rest) /\ ToSet(rest) = ToSet(sendResult[t]) \ {r}
  BY <1>2, <1>5, PopSet
<1>7. /\ res[r] \in ResultType /\ ResultInv(res[r]) /\ res[r].sender = t /\ ~res[r].callback
  BY <1>4, <1>6 DEF TypeOK, ResultsInv, ListsOf, Hold
<1>8. /\ x \in ResultType /\ x.msg = res[r].msg /\ x.sender = NoQueue /\ x.receiver = res[r].receiver
      /\ x.replied = res[r].replied /\ x.callback = res[r].callback
      /\ x.timeout = res[r].timeout /\ x.answer = res[r].answer
  BY <1>7 DEF ResultType
<1>9. Head(rest) \in ToSet(rest) \/ rest = <<>>
  BY <1>6, PopSet
<1> HIDE DEF r, rest, x
<1>10. PICK z \in ResultType :
         z = Released(x) /\ z = IF x.receiver = NoQueue THEN FreeResult ELSE x
  BY <1>8, ReleasedIs
<1>11. /\ FreeResult.sender = NoQueue /\ FreeResult.receiver = NoQueue /\ ~FreeResult.msg
       /\ ~FreeResult.replied /\ ~FreeResult.callback /\ ~FreeResult.timeout
       /\ FreeResult.answer = "none"
  BY DEF FreeResult
<1>12. /\ ResultInv(z) /\ z.sender = NoQueue /\ z.receiver = res[r].receiver
       /\ z.msg = res[r].msg
  BY <1>7, <1>8, <1>10, <1>11 DEF ResultInv, ResultType
<1>13. /\ res' \in [Results -> ResultType] /\ res'[r] = z
       /\ \A k \in Results : k # r => res'[k] = res[k]
       /\ sendResult' \in [Threads -> Seq(Results)] /\ sendResult'[t] = rest
       /\ wakeBits' \in [Threads -> SUBSET Bits] /\ wakeBits'[t] = wakeBits[t] \ clear
       /\ changedBits' \in [Threads -> SUBSET Bits] /\ changedBits'[t] = changedBits[t] \ clear
       /\ calls' \in [Threads -> Seq(Calls)] /\ calls'[t] = Tail(cs)
       /\ pc' \in [Threads -> {"app", "mask", "wait", "peek", "retrieve", "dead"}] /\ pc'[t] = "app"
       /\ \A q \in Threads : q # t =>
            /\ sendResult'[q] = sendResult[q]
            /\ wakeBits'[q] = wakeBits[q] /\ changedBits'[q] = changedBits[q]
            /\ calls'[q] = calls[q] /\ pc'[q] = pc[q]
  BY <1>1, <1>2, <1>3, <1>4, <1>6, <1>10 DEF TypeOK
<1>14. \A k \in Results : ResultInv(res'[k])
  BY <1>4, <1>12, <1>13 DEF ResultsInv
<1>15. ASSUME NEW q \in Threads
       PROVE  Hold(q, sendResult'[q], callbackResult[q], recvResult'[q], sent'[q], res')
  <2>1. Hold(q, sendResult[q], callbackResult[q], recvResult[q], sent[q], res) /\ q # NoQueue
    BY <1>4, NullAssumption DEF ListsOf
  <2>2. /\ IsInjective(sendResult'[q])
        /\ \A k \in Results : k \in ToSet(sendResult'[q]) <=> k \in ToSet(sendResult[q]) /\ k # r
    <3>1. CASE q = t
      BY <1>6, <1>13, <3>1
    <3>2. CASE q # t
      <4>1. r \notin ToSet(sendResult[q])
        BY <1>6, <1>7, <2>1, <3>2 DEF Hold
      <4> QED
        BY <1>13, <2>1, <3>2, <4>1 DEF Hold
    <3> QED
      BY <3>1, <3>2
  <2>3. ASSUME NEW k \in Results
        PROVE  /\ k \in ToSet(sendResult'[q]) <=> res'[k].sender = q /\ ~res'[k].callback
               /\ k \in callbackResult[q] <=> res'[k].sender = q /\ res'[k].callback
               /\ k \in ToSet(recvResult[q]) <=> res'[k].receiver = q /\ ~res'[k].msg
               /\ k \in ResultsIn(sent[q]) <=> res'[k].receiver = q /\ res'[k].msg
    <3>1. /\ k \in ToSet(sendResult[q]) <=> res[k].sender = q /\ ~res[k].callback
          /\ k \in callbackResult[q] <=> res[k].sender = q /\ res[k].callback
          /\ k \in ToSet(recvResult[q]) <=> res[k].receiver = q /\ ~res[k].msg
          /\ k \in ResultsIn(sent[q]) <=> res[k].receiver = q /\ res[k].msg
      BY <2>1 DEF Hold
    <3>2. CASE k = r
      BY <1>7, <1>12, <1>13, <2>1, <2>2, <3>1, <3>2
    <3>3. CASE k # r
      BY <1>13, <2>2, <3>1, <3>3
    <3> QED
      BY <3>2, <3>3
  <2> QED
    BY <1>1, <2>1, <2>2, <2>3 DEF Hold
<1>16. \A q \in Threads, k \in Results : q # t /\ res[k].sender = q => res'[k].replied = res[k].replied
  BY <1>7, <1>13
<1>17. /\ SENDMESSAGE \in wakeBits'[t] <=> sent'[t] # <<>>
       /\ POSTMESSAGE \in wakeBits'[t] <=> POSTMESSAGE \in wakeBits[t]
       /\ changedBits'[t] \subseteq wakeBits'[t]
  BY <1>1, <1>4, <1>13, BitNames DEF BitsOf
<1>18. /\ rest # <<>> => Head(rest) \in Results /\ res'[Head(rest)] = res[Head(rest)]
                          /\ 1 \in DOMAIN rest /\ rest[1] = Head(rest)
  <2>1. rest # <<>> => Head(rest) \in Results /\ 1 \in DOMAIN rest /\ rest[1] = Head(rest)
    BY <1>6, PopFacts
  <2>2. rest # <<>> => Head(rest) # r
    BY <1>6, <1>9
  <2> QED
    BY <1>13, <2>1, <2>2
<1>19. SMRESULT \in wakeBits'[t] <=> rest # <<>> /\ res[Head(rest)].replied
  <2>1. SMRESULT \in wakeBits[t]
    BY <1>1, <1>4 DEF AnswerOf
  <2> QED
    BY <1>13, <2>1
<1>20. /\ sendResult'[t] # <<>> /\ res'[Head(sendResult'[t])].replied => SMRESULT \in wakeBits'[t]
       /\ SMRESULT \in wakeBits'[t] => SomeReplied(sendResult'[t], res')
  BY <1>13, <1>18, <1>19 DEF SomeReplied
<1>21. /\ CallsGood(queue[t], pc'[t], calls'[t])
       /\ StackGood(queue[t], sendResult'[t], recvResult'[t], calls'[t])
  BY <1>1, <1>2, <1>4, <1>13 DEF CallsGood, StackGood
<1>22. TakeStep(t)
  <2>1. sent' \in [Threads -> Seq(Messages)] /\ recvResult' \in [Threads -> Seq(Results)]
    BY <1>1, <1>4 DEF TypeOK
  <2> QED
    BY <1>1, <1>2, <1>13, <1>14, <1>15, <1>16, <1>17, <1>20, <1>21, <2>1 DEF TakeStep
<1> QED
  BY <1>22, TakeKeeps

\* The first message of a list is taken.
LEMMA TakeMessage ==
  ASSUME NEW list \in Seq(Messages), list # <<>>, Distinct(list)
  PROVE  /\ Head(list) \in Messages /\ Tail(list) \in Seq(Messages) /\ Distinct(Tail(list))
         /\ Head(list).result # NoResult =>
              Head(list).type # "callback_result" /\ Head(list).result \in ResultsIn(list)
         /\ \A r \in Results :
              r \in ResultsIn(Tail(list)) <=> r \in ResultsIn(list) /\ r # Head(list).result
<1>1. PICK rest \in Seq(Messages) :
        /\ rest = Tail(list) /\ Head(list) = list[1] /\ Head(list) \in Messages /\ 1 \in DOMAIN list
        /\ Len(list) \in Nat \ {0} /\ DOMAIN list = 1..Len(list)
        /\ DOMAIN rest = 1..(Len(list) - 1) /\ \A i \in 1..(Len(list) - 1) : rest[i] = list[i + 1]
  BY PopFacts
<1>2. ASSUME NEW i \in DOMAIN rest
      PROVE  i + 1 \in DOMAIN list /\ rest[i] = list[i + 1] /\ i + 1 # 1 /\ i \in Nat
  BY <1>1
<1>3. ASSUME NEW i \in DOMAIN list, i # 1 PROVE \E j \in DOMAIN rest : rest[j] = list[i]
  <2>1. i - 1 \in DOMAIN rest /\ i = (i - 1) + 1
    BY <1>1, <1>3
  <2> QED
    BY <1>1, <2>1
<1>4. Distinct(rest)
  <2>1. ASSUME NEW i \in DOMAIN rest, NEW j \in DOMAIN rest,
               rest[i].result = rest[j].result, rest[i].result # NoResult
        PROVE  i = j
    <3>1. i + 1 = j + 1
      BY <1>2, <2>1 DEF Distinct
    <3> QED
      BY <1>2, <3>1
  <2>2. ASSUME NEW i \in DOMAIN rest, rest[i].type = "callback_result" PROVE rest[i].result = NoResult
    BY <1>2, <2>2 DEF Distinct
  <2> QED
    BY <2>1, <2>2 DEF Distinct
<1>5. ASSUME NEW r \in Results
      PROVE  r \in ResultsIn(rest) <=> r \in ResultsIn(list) /\ r # Head(list).result
  <2>0. r # NoResult
    BY NullAssumption
  <2>1. ASSUME NEW i \in DOMAIN rest, rest[i].result = r
        PROVE  r \in ResultsIn(list) /\ r # Head(list).result
    <3>1. i + 1 \in DOMAIN list /\ list[i + 1].result = r /\ i + 1 # 1
      BY <1>2, <2>1
    <3> QED
      BY <1>1, <2>0, <3>1 DEF ResultsIn, Distinct
  <2>2. ASSUME NEW i \in DOMAIN list, list[i].result = r, r # Head(list).result
        PROVE  \E j \in DOMAIN rest : rest[j].result = r
    BY <1>1, <1>3, <2>2
  <2> QED
    BY <2>0, <2>1, <2>2 DEF ResultsIn
<1>6. Head(list).result # NoResult =>
        Head(list).type # "callback_result" /\ Head(list).result \in ResultsIn(list)
  BY <1>1 DEF Distinct, ResultsIn
<1> QED
  BY <1>1, <1>4, <1>5, <1>6

\* get_message takes a sent message.
LEMMA ReceiveSentKeeps ==
  ASSUME IInv, NEW t \in Threads, ReceiveSent(t), load' = load
  PROVE  IInv'
<1> DEFINE m == Head(sent[t])
           rest == Tail(sent[t])
           c == Call(IF m.type = "callback_result" THEN "callback" ELSE "proc", m.result, FALSE, "all")
           clear == SentCleared(rest)
           cs == calls[t]
           rs == IF m.result = NoResult THEN res ELSE [res EXCEPT ![m.result].msg = FALSE]
           rr == IF m.result = NoResult THEN recvResult[t] ELSE <<m.result>> \o recvResult[t]
<1>1. TypeOK /\ ListsOf(t) /\ BitsOf(t) /\ AnswerOf(t) /\ ResultsInv /\ \A q \in Threads : ListsOf(q)
  BY IInvFacts
<1>2. /\ pc[t] = "peek" /\ sent[t] # <<>>
      /\ sent' = [sent EXCEPT ![t] = rest]
      /\ wakeBits' = [wakeBits EXCEPT ![t] = wakeBits[t] \ clear]
      /\ changedBits' = [changedBits EXCEPT ![t] = changedBits[t] \ clear]
      /\ calls' = [calls EXCEPT ![t] = <<c>> \o cs] /\ pc' = [pc EXCEPT ![t] = "app"]
      /\ UNCHANGED <<queue, handle, posted, quit, sendResult, callbackResult,
                     wakeMask, changedMask, sends>>
  BY DEF ReceiveSent, ClearBits
<1>3. res' = rs /\ recvResult' = [recvResult EXCEPT ![t] = rr]
  <2>1. recvResult = [recvResult EXCEPT ![t] = recvResult[t]]
    BY <1>1 DEF TypeOK
  <2> QED
    BY <2>1 DEF ReceiveSent
<1>4. sent[t] \in Seq(Messages) /\ Distinct(sent[t]) /\ cs \in Seq(Calls) /\ recvResult[t] \in Seq(Results)
  BY <1>1 DEF TypeOK, ListsOf, Hold
<1>5. /\ m \in Messages /\ rest \in Seq(Messages) /\ Distinct(rest)
      /\ m.result # NoResult => m.type # "callback_result" /\ m.result \in ResultsIn(sent[t])
      /\ \A r \in Results : r \in ResultsIn(rest) <=> r \in ResultsIn(sent[t]) /\ r # m.result
  BY <1>2, <1>4, TakeMessage
<1>6. m.result \in Results \cup {NoResult}
  BY <1>5 DEF Messages
<1>7. c \in Calls /\ c.kind \in Runs /\ c.kind # "send" /\ c.result = m.result
      /\ (m.result # NoResult => c.kind = "proc")
  <2>1. PICK k \in {"callback", "proc"} : k = IF m.type = "callback_result" THEN "callback" ELSE "proc"
    OBVIOUS
  <2>2. c = Call(k, m.result, FALSE, "all")
    BY <2>1
  <2>3. m.result # NoResult => k = "proc"
    BY <1>5, <2>1
  <2> HIDE DEF c, m
  <2> QED
    BY <1>6, <2>2, <2>3 DEF Call, Calls, Runs
<1>8. m.result \in Results =>
        /\ res[m.result].receiver = t /\ res[m.result].msg
        /\ m.result \notin ToSet(recvResult[t]) /\ res[m.result] \in ResultType
  <2>1. m.result \in Results => m.result # NoResult /\ m.result \in ResultsIn(sent[t])
    BY <1>5, NullAssumption
  <2> QED
    BY <1>1, <2>1 DEF ListsOf, Hold, TypeOK
<1> HIDE DEF m, rest, c, rs, rr
<1>9. /\ rs \in [Results -> ResultType]
      /\ \A k \in Results : /\ rs[k].sender = res[k].sender /\ rs[k].receiver = res[k].receiver
                            /\ rs[k].replied = res[k].replied /\ rs[k].callback = res[k].callback
                            /\ rs[k].timeout = res[k].timeout /\ rs[k].answer = res[k].answer
                            /\ rs[k].msg <=> res[k].msg /\ k # m.result
  <2>1. res \in [Results -> ResultType]
    BY <1>1 DEF TypeOK
  <2>2. CASE m.result = NoResult
    <3>1. \A k \in Results : k # m.result /\ res[k].msg \in BOOLEAN
      BY <2>1, <2>2, NullAssumption DEF ResultType
    <3> QED
      BY <2>1, <2>2, <3>1 DEF rs
  <2>3. CASE m.result \in Results
    <3>1. m.result # NoResult
      BY <2>3, NullAssumption
    <3>2. PICK y : y = [res[m.result] EXCEPT !.msg = FALSE]
      OBVIOUS
    <3>3. /\ y \in ResultType /\ ~y.msg /\ y.sender = res[m.result].sender
          /\ y.receiver = res[m.result].receiver
          /\ y.replied = res[m.result].replied /\ y.callback = res[m.result].callback
          /\ y.timeout = res[m.result].timeout /\ y.answer = res[m.result].answer
      BY <1>8, <2>3, <3>2 DEF ResultType
    <3>4. rs = [res EXCEPT ![m.result] = y]
      BY <3>1, <3>2 DEF rs
    <3>5. rs \in [Results -> ResultType] /\ rs[m.result] = y /\ \A k \in Results : k # m.result => rs[k] = res[k]
      BY <2>1, <2>3, <3>3, <3>4
    <3>6. \A k \in Results : res[k].msg \in BOOLEAN
      BY <2>1 DEF ResultType
    <3> QED
      BY <3>3, <3>5, <3>6
  <2> QED
    BY <1>6, <2>2, <2>3
<1>10. /\ rr \in Seq(Results) /\ IsInjective(rr)
       /\ \A k \in Results : k \in ToSet(rr) <=> k \in ToSet(recvResult[t]) \/ k = m.result
  <2>0. IsInjective(recvResult[t])
    BY <1>1 DEF ListsOf, Hold
  <2>1. CASE m.result = NoResult
    <3>1. \A k \in Results : k # m.result
      BY <2>1, NullAssumption
    <3> QED
      BY <1>4, <2>0, <2>1, <3>1 DEF rr
  <2>2. CASE m.result \in Results
    <3>1. rr = <<m.result>> \o recvResult[t]
      BY <2>2, NullAssumption DEF rr
    <3>2. m.result \notin ToSet(recvResult[t])
      BY <1>8, <2>2
    <3>3. /\ <<m.result>> \o recvResult[t] \in Seq(Results)
          /\ ToSet(<<m.result>> \o recvResult[t]) = ToSet(recvResult[t]) \cup {m.result}
          /\ IsInjective(<<m.result>> \o recvResult[t])
      BY <1>4, <2>0, <2>2, <3>2, PrependSet
    <3> QED
      BY <3>1, <3>3
  <2> QED
    BY <1>6, <2>1, <2>2
<1>11. /\ CallList(<<c>> \o cs) /\ <<c>> \o cs \in Seq(Calls) /\ <<c>> \o cs # <<>> /\ Head(<<c>> \o cs) = c
       /\ queue[t] = "live"
  <2>1. CallsGood(queue[t], pc[t], cs)
    BY IInvFacts
  <2>2. CallList(cs) /\ cs # <<>> /\ Head(cs).kind \in Waits /\ queue[t] = "live"
    BY <1>2, <2>1 DEF CallsGood
  <2>3. c.kind = "send" => c.result # NoResult
    BY <1>7
  <2> QED
    BY <1>4, <1>7, <2>2, <2>3, PushCall
<1>12. /\ ResultsOf(<<c>> \o cs, "send") = ResultsOf(cs, "send")
       /\ m.result # NoResult => ResultsOf(<<c>> \o cs, "proc") = <<m.result>> \o ResultsOf(cs, "proc")
       /\ m.result = NoResult => ResultsOf(<<c>> \o cs, "proc") = ResultsOf(cs, "proc")
  BY <1>4, <1>7, ResultsOfPush
<1>13. /\ res' \in [Results -> ResultType] /\ res' = rs
       /\ sent' \in [Threads -> Seq(Messages)] /\ sent'[t] = rest
       /\ recvResult' \in [Threads -> Seq(Results)] /\ recvResult'[t] = rr
       /\ wakeBits' \in [Threads -> SUBSET Bits] /\ wakeBits'[t] = wakeBits[t] \ clear
       /\ changedBits' \in [Threads -> SUBSET Bits] /\ changedBits'[t] = changedBits[t] \ clear
       /\ calls' \in [Threads -> Seq(Calls)] /\ calls'[t] = <<c>> \o cs
       /\ pc' \in [Threads -> {"app", "mask", "wait", "peek", "retrieve", "dead"}] /\ pc'[t] = "app"
       /\ \A q \in Threads : q # t =>
            /\ sent'[q] = sent[q] /\ recvResult'[q] = recvResult[q]
            /\ wakeBits'[q] = wakeBits[q] /\ changedBits'[q] = changedBits[q]
            /\ calls'[q] = calls[q] /\ pc'[q] = pc[q]
  BY <1>1, <1>2, <1>3, <1>5, <1>9, <1>10, <1>11 DEF TypeOK
<1>14. ASSUME NEW k \in Results PROVE ResultInv(res'[k])
  <2>1. ResultInv(res[k]) /\ (k = m.result => res[k].receiver = t)
    BY <1>1, <1>8 DEF ResultsInv
  <2>2. CASE k # m.result
    <3>1. res'[k] = res[k]
      BY <1>3, <2>2, <1>1 DEF rs, TypeOK
    <3> QED
      BY <2>1, <3>1
  <2>3. CASE k = m.result
    <3>1. t # NoQueue
      BY NullAssumption
    <3> QED
      BY <1>9, <1>13, <2>1, <2>3, <3>1 DEF ResultInv
  <2> QED
    BY <2>2, <2>3
<1>15. ASSUME NEW q \in Threads
       PROVE  Hold(q, sendResult'[q], callbackResult[q], recvResult'[q], sent'[q], res')
  <2>1. Hold(q, sendResult[q], callbackResult[q], recvResult[q], sent[q], res)
    BY <1>1 DEF ListsOf
  <2>2. IsInjective(recvResult'[q]) /\ Distinct(sent'[q]) /\ IsInjective(sendResult[q])
    BY <1>5, <1>10, <1>13, <2>1 DEF Hold
  <2>3. ASSUME NEW k \in Results
        PROVE  /\ k \in ToSet(sendResult[q]) <=> res'[k].sender = q /\ ~res'[k].callback
               /\ k \in callbackResult[q] <=> res'[k].sender = q /\ res'[k].callback
               /\ k \in ToSet(recvResult'[q]) <=> res'[k].receiver = q /\ ~res'[k].msg
               /\ k \in ResultsIn(sent'[q]) <=> res'[k].receiver = q /\ res'[k].msg
    <3>1. /\ k \in ToSet(sendResult[q]) <=> res[k].sender = q /\ ~res[k].callback
          /\ k \in callbackResult[q] <=> res[k].sender = q /\ res[k].callback
          /\ k \in ToSet(recvResult[q]) <=> res[k].receiver = q /\ ~res[k].msg
          /\ k \in ResultsIn(sent[q]) <=> res[k].receiver = q /\ res[k].msg
      BY <2>1 DEF Hold
    <3>2. k = m.result => res[k].receiver = t /\ res[k].msg
      BY <1>8
    <3>3. /\ k \in ToSet(recvResult'[q]) <=> k \in ToSet(recvResult[q]) \/ (q = t /\ k = m.result)
          /\ k \in ResultsIn(sent'[q]) <=> k \in ResultsIn(sent[q]) /\ ~(q = t /\ k = m.result)
      BY <1>5, <1>10, <1>13
    <3> QED
      BY <1>9, <1>13, <3>1, <3>2, <3>3
  <2> QED
    BY <1>2, <2>2, <2>3 DEF Hold
<1>16. \A q \in Threads, k \in Results : q # t /\ res[k].sender = q => res'[k].replied = res[k].replied
  BY <1>9, <1>13
<1>17. /\ SENDMESSAGE \in wakeBits'[t] <=> sent'[t] # <<>>
       /\ POSTMESSAGE \in wakeBits'[t] <=> POSTMESSAGE \in wakeBits[t]
       /\ SMRESULT \in wakeBits'[t] <=> SMRESULT \in wakeBits[t]
       /\ changedBits'[t] \subseteq wakeBits'[t]
  BY <1>1, <1>2, <1>13, BitNames DEF BitsOf, SentCleared
<1>18. /\ sendResult'[t] # <<>> /\ res'[Head(sendResult'[t])].replied => SMRESULT \in wakeBits'[t]
       /\ SMRESULT \in wakeBits'[t] => SomeReplied(sendResult'[t], res')
  <2>1. sendResult[t] \in Seq(Results) /\ sendResult' = sendResult
    BY <1>1, <1>2 DEF TypeOK
  <2>2. sendResult[t] # <<>> => Head(sendResult[t]) \in Results
    BY <2>1, PopFacts
  <2>3. \A i \in DOMAIN sendResult[t] : sendResult[t][i] \in Results
    BY <2>1
  <2> QED
    BY <1>1, <1>9, <1>13, <1>17, <2>1, <2>2, <2>3 DEF BitsOf, AnswerOf, SomeReplied
<1>19. CallsGood(queue[t], pc'[t], calls'[t])
  BY <1>7, <1>11, <1>13 DEF CallsGood
<1>20. StackGood(queue[t], sendResult'[t], recvResult'[t], calls'[t])
  <2>1. StackGood(queue[t], sendResult[t], recvResult[t], cs)
    BY IInvFacts
  <2> QED
    BY <1>2, <1>12, <1>13, <2>1 DEF StackGood, rr
<1>21. TakeStep(t)
  <2>1. sendResult' \in [Threads -> Seq(Results)]
    BY <1>1, <1>2 DEF TypeOK
  <2> QED
    BY <1>2, <1>11, <1>13, <1>14, <1>15, <1>16, <1>17, <1>18, <1>19, <1>20, <2>1 DEF TakeStep
<1> QED
  BY <1>21, TakeKeeps

-----------------------------------------------------------------------------
(***************************************************************************)
(* The invariant holds, and what follows from it.                          *)
(***************************************************************************)
LEMMA IInvInit == Init => IInv
<1> SUFFICES ASSUME Init PROVE IInv
  OBVIOUS
<1> USE DEF Init
<1>1. load \in Workloads
  OBVIOUS
<1>2. TypeOK
  <2>1. FreeResult \in ResultType
    BY DEF FreeResult, ResultType
  <2>2. <<>> \in Seq(Messages) /\ <<>> \in Seq(Posts) /\ <<>> \in Seq(Results) /\ <<>> \in Seq(Calls)
    BY EmptySeq
  <2>3. sends \in 0..load.sends
    BY <1>1, WorkloadAssumption
  <2> QED
    BY <2>1, <2>2, <2>3 DEF TypeOK
<1>3. /\ FreeResult.sender = NoQueue /\ FreeResult.receiver = NoQueue /\ ~FreeResult.msg
      /\ ~FreeResult.replied /\ ~FreeResult.callback /\ ~FreeResult.timeout
      /\ FreeResult.answer = "none"
  BY DEF FreeResult
<1>4. ListsInv
  <2>1. ASSUME NEW q \in Threads PROVE ListsOf(q)
    <3>1. q # NoQueue
      BY NullAssumption
    <3>2. /\ queue[q] = "live" /\ sendResult[q] = <<>> /\ callbackResult[q] = {}
          /\ recvResult[q] = <<>> /\ sent[q] = <<>>
      OBVIOUS
    <3>3. \A r \in Results : res[r].sender # q /\ res[r].receiver # q
      BY <1>3, <3>1
    <3> QED
      BY <3>2, <3>3, HoldNothing DEF ListsOf, Hold, Destroyed
  <2> QED
    BY <2>1, ListsForm
<1>5. ResultsInv
  BY <1>3 DEF ResultsInv, ResultInv
<1>6. CallsInv /\ StacksMatch
  <2>1. ASSUME NEW t \in Threads
        PROVE  /\ CallsGood(queue[t], pc[t], calls[t])
               /\ StackGood(queue[t], sendResult[t], recvResult[t], calls[t])
    <3>1. /\ queue[t] = "live" /\ sendResult[t] = <<>> /\ recvResult[t] = <<>>
          /\ calls[t] = <<>> /\ pc[t] = "app"
      OBVIOUS
    <3>2. CallsGood(queue[t], pc[t], calls[t])
      BY <3>1, NoCalls DEF CallsGood
    <3>3. StackGood(queue[t], sendResult[t], recvResult[t], calls[t])
      BY <3>1, ResultsOfNone DEF StackGood
    <3> QED
      BY <3>2, <3>3
  <2> QED
    BY <2>1, CallsForm
<1>7. BitsExact /\ AnswerInv /\ MaskInv
  <2>1. ASSUME NEW q \in Threads PROVE BitsOf(q) /\ AnswerOf(q) /\ MaskOf(q)
    <3>1. /\ sent[q] = <<>> /\ posted[q] = <<>> /\ ~quit[q] /\ sendResult[q] = <<>>
          /\ wakeBits[q] = {} /\ changedBits[q] = {} /\ pc[q] = "app"
      OBVIOUS
    <3> QED
      BY <3>1 DEF BitsOf, AnswerOf, MaskOf
  <2> QED
    BY <2>1, BitsForm
<1> QED
  BY <1>1, <1>2, <1>4, <1>5, <1>6, <1>7 DEF IInv

\* The invariant is inductive.
LEMMA IInvStep == IInv /\ [Next]_vars => IInv'
<1> SUFFICES ASSUME IInv, [Next]_vars PROVE IInv'
  OBVIOUS
<1>1. CASE UNCHANGED vars
  <2>1. /\ UNCHANGED <<queueVars, wakeBits, changedBits, res, load>>
        /\ UNCHANGED <<queue, handle, wakeMask, changedMask, calls, pc, sends>>
    BY <1>1 DEF vars, runVars, bitVars
  <2>2. TypeOK
    BY IInvFacts
  <2>3. ASSUME NEW t \in Threads
        PROVE  /\ CallsGood(queue'[t], pc'[t], calls'[t])
               /\ StackGood(queue'[t], sendResult[t], recvResult[t], calls'[t])
               /\ pc'[t] = "retrieve" => SMRESULT \in wakeBits[t]
               /\ MaskOf(t)'
    <3>1. /\ CallsGood(queue[t], pc[t], calls[t])
          /\ StackGood(queue[t], sendResult[t], recvResult[t], calls[t])
          /\ AnswerOf(t) /\ MaskOf(t)
      BY IInvFacts
    <3>2. MaskOf(t)'
      BY <2>1, <3>1 DEF MaskOf, queueVars, Top
    <3>3. pc'[t] = "retrieve" => SMRESULT \in wakeBits[t]
      BY <2>1, <3>1 DEF AnswerOf
    <3> QED
      BY <2>1, <3>1, <3>2, <3>3
  <2> QED
    BY <2>1, <2>2, <2>3, QuietKeeps DEF TypeOK
<1>2. CASE Next
  <2>1. load' = load /\ load \in Workloads
    BY <1>2, IInvFacts DEF Next
  <2>2. load.timeouts \subseteq BOOLEAN /\ load.blocking \subseteq BOOLEAN /\ load.windows \subseteq BOOLEAN
    BY <2>1, WorkloadAssumption
  <2>3. ASSUME NEW t \in Threads, NEW u \in Threads, NEW win \in load.windows,
               NEW timeout \in load.timeouts, NEW block \in load.blocking,
               SendMessage(t, u, timeout, block, win)
        PROVE  IInv'
    <3>1. win \in BOOLEAN /\ timeout \in BOOLEAN /\ block \in BOOLEAN
      BY <2>2
    <3> QED
      BY <2>1, <2>3, <3>1, SendMessageKeeps
  <2>4. ASSUME NEW t \in Threads, NEW u \in Threads, NEW win \in load.windows, SendCallback(t, u, win)
        PROVE  IInv'
    <3>1. win \in BOOLEAN
      BY <2>2
    <3> QED
      BY <2>1, <2>4, <3>1, SendCallbackKeeps
  <2>5. ASSUME NEW t \in Threads, NEW u \in Threads, NEW win \in load.windows, SendNotify(t, u, win)
        PROVE  IInv'
    <3>1. win \in BOOLEAN
      BY <2>2
    <3> QED
      BY <2>1, <2>5, <3>1, SendNotifyKeeps
  <2>6. ASSUME NEW t \in Threads, NEW u \in Threads, NEW p \in Posts, PostMessage(t, u, p)
        PROVE  IInv'
    BY <2>1, <2>6, PostMessageKeeps
  <2>7. ASSUME NEW t \in Threads, NEW get \in load.gets, GetMessage(t, get)
        PROVE  IInv'
    BY <2>1, <2>7, GetMessageKeeps
  <2>8. ASSUME NEW t \in Threads, Client(t)
        PROVE  IInv'
    <3>1. CASE SetQueueMask(t)
      BY <2>1, <3>1, SetQueueMaskKeeps
    <3>2. CASE Wake(t)
      BY <2>1, <3>2, WakeKeeps
    <3>3. CASE RetrieveReply(t)
      BY <2>1, <3>3, RetrieveReplyKeeps
    <3>4. CASE ReceiveSent(t)
      BY <2>1, <3>4, ReceiveSentKeeps
    <3>5. CASE NothingSent(t)
      BY <2>1, <3>5, NothingSentKeeps
    <3>6. CASE ReceivePosted(t)
      BY <2>1, <3>6, ReceivePostedKeeps
    <3>7. CASE ProcReturns(t)
      BY <2>1, <3>7, ProcReturnsKeeps
    <3> QED
      BY <2>8, <3>1, <3>2, <3>3, <3>4, <3>5, <3>6, <3>7 DEF Client
  <2>9. ASSUME NEW t \in Threads, PostQuit(t) PROVE IInv'
    BY <2>1, <2>9, PostQuitKeeps
  <2>10. ASSUME NEW t \in Threads, ReplyMessage(t) PROVE IInv'
    BY <2>1, <2>10, ReplyMessageKeeps
  <2>11. ASSUME NEW t \in Threads, CleanupWindow(t) PROVE IInv'
    BY <2>1, <2>11, CleanupWindowKeeps
  <2>12. ASSUME NEW t \in Threads, ThreadExit(t) PROVE IInv'
    BY <2>1, <2>12, ThreadExitKeeps
  <2>13. ASSUME NEW t \in Threads, ThreadKilled(t) PROVE IInv'
    BY <2>1, <2>13, ThreadKilledKeeps
  <2>14. ASSUME NEW t \in Threads, HandlesClosed(t) PROVE IInv'
    BY <2>1, <2>14, HandlesClosedKeeps
  <2>15. ASSUME NEW r \in Results, ResultTimeout(r) PROVE IInv'
    BY <2>1, <2>15, TimeoutKeeps
  <2> QED
    BY <1>2, <2>3, <2>4, <2>5, <2>6, <2>7, <2>8, <2>9, <2>10, <2>11, <2>12, <2>13, <2>14, <2>15 DEF Next
<1> QED
  BY <1>1, <1>2

\* The inductive invariant of the messages holds in every reachable state.
THEOREM IInvHolds == Spec => []IInv
<1>1. Init => IInv
  BY IInvInit
<1>2. IInv /\ [Next]_vars => IInv'
  BY IInvStep
<1> QED
  BY <1>1, <1>2, PTL DEF Spec

\* The variables keep their types; no more than the workload's messages are sent.
THEOREM TypeOKHolds == Spec => []TypeOK
<1>1. IInv => TypeOK
  BY DEF IInv
<1> QED
  BY <1>1, IInvHolds, PTL

\* queue.c loses no result and uses none after it was freed: the lists of a queue hold
\* exactly the results that name it, whatever reply_message, result_timeout, free_message
\* and cleanup_results do in any order.
THEOREM ResultsOwnedHolds == Spec => []ResultsOwned
<1>1. IInv => ResultsOwned
  <2> SUFFICES ASSUME IInv PROVE ResultsOwned
    OBVIOUS
  <2>1. TypeOK /\ ResultsInv /\ \A q \in Threads : ListsOf(q)
    BY IInvFacts
  <2>2. ASSUME NEW q \in Threads
        PROVE  /\ IsInjective(sendResult[q]) /\ IsInjective(recvResult[q])
               /\ ToSet(sendResult[q]) \cap callbackResult[q] = {}
               /\ ToSet(sendResult[q]) \cup callbackResult[q] = {r \in Results : res[r].sender = q}
               /\ ToSet(recvResult[q]) = {r \in Results : res[r].receiver = q /\ ~res[r].msg}
               /\ ResultsIn(sent[q]) = {r \in Results : res[r].receiver = q /\ res[r].msg}
               /\ queue[q] = "none" => sent[q] = <<>>
    <3>1. Hold(q, sendResult[q], callbackResult[q], recvResult[q], sent[q], res)
      BY <2>1 DEF ListsOf
    <3>2. /\ sendResult[q] \in Seq(Results) /\ recvResult[q] \in Seq(Results)
          /\ callbackResult[q] \in SUBSET Results /\ sent[q] \in Seq(Messages)
      BY <2>1 DEF TypeOK
    <3>3. ToSet(sendResult[q]) \subseteq Results /\ ToSet(recvResult[q]) \subseteq Results
      BY <3>2 DEF ToSet
    <3>4. ResultsIn(sent[q]) \subseteq Results
      <4>1. \A i \in DOMAIN sent[q] : sent[q][i].result \in Results \cup {NoResult}
        <5>1. \A i \in DOMAIN sent[q] : sent[q][i] \in Messages
          BY <3>2
        <5> QED
          BY <5>1 DEF Messages
      <4> QED
        BY <4>1 DEF ResultsIn
    <3>5. \A r \in Results : res[r].callback \in BOOLEAN
      BY <2>1 DEF TypeOK, ResultType
    <3>6. IsInjective(sendResult[q]) /\ IsInjective(recvResult[q])
      BY <3>1 DEF Hold
    <3>7. \A r \in Results :
            /\ r \in ToSet(sendResult[q]) <=> res[r].sender = q /\ ~res[r].callback
            /\ r \in callbackResult[q] <=> res[r].sender = q /\ res[r].callback
            /\ r \in ToSet(recvResult[q]) <=> res[r].receiver = q /\ ~res[r].msg
            /\ r \in ResultsIn(sent[q]) <=> res[r].receiver = q /\ res[r].msg
      BY <3>1 DEF Hold
    <3>8. queue[q] = "none" => sent[q] = <<>>
      BY <2>1 DEF ListsOf, Destroyed
    <3>9. /\ ToSet(sendResult[q]) \cap callbackResult[q] = {}
          /\ ToSet(sendResult[q]) \cup callbackResult[q] = {r \in Results : res[r].sender = q}
      BY <3>2, <3>3, <3>5, <3>7
    <3>10. /\ ToSet(recvResult[q]) = {r \in Results : res[r].receiver = q /\ ~res[r].msg}
           /\ ResultsIn(sent[q]) = {r \in Results : res[r].receiver = q /\ res[r].msg}
      BY <3>3, <3>4, <3>7
    <3> QED
      BY <3>6, <3>8, <3>9, <3>10
  <2>3. ASSUME NEW r \in Results
        PROVE  /\ InUse(r) \/ res[r] = FreeResult
               /\ res[r].timeout => ~res[r].replied
               /\ res[r].msg => ~res[r].replied /\ res[r].receiver # NoQueue
    <3>1. ResultInv(res[r])
      BY <2>1 DEF ResultsInv
    <3> QED
      BY <3>1 DEF ResultInv, InUse
  <2> QED
    BY <2>2, <2>3 DEF ResultsOwned
<1> QED
  BY <1>1, IInvHolds, PTL

\* Answers go to the message they are for: reply_message and get_message_reply, which never
\* name a message, always work on that of the innermost call.
THEOREM StacksMatchHolds == Spec => []StacksMatch
<1>1. IInv => StacksMatch
  BY DEF IInv
<1> QED
  BY <1>1, IInvHolds, PTL

\* The bits that set_queue_bits and clear_queue_bits keep say what is in the lists.
THEOREM BitsExactHolds == Spec => []BitsExact
<1>1. IInv => BitsExact
  BY DEF IInv
<1> QED
  BY <1>1, IInvHolds, PTL

\* No thread sleeps on its queue while the answer, the message or the quit message it waits
\* for is there.
THEOREM NoLostWakeHolds == Spec => []NoLostWake
<1>1. IInv => NoLostWake
  <2> SUFFICES ASSUME IInv, NEW t \in Threads, pc[t] = "wait", ~Signaled(t)
               PROVE  LET c == Top(t)
                      IN  IF c.kind = "send"
                          THEN ~res[c.result].replied /\ (c.flag \/ sent[t] = <<>>)
                          ELSE /\ sent[t] = <<>> /\ ~quit[t]
                               /\ \A i \in DOMAIN posted[t] : ~Matches(posted[t][i], c.filter)
    BY DEF NoLostWake
  <2>1. /\ CallsGood(queue[t], pc[t], calls[t]) /\ BitsOf(t) /\ MaskOf(t) /\ TypeOK
        /\ StackGood(queue[t], sendResult[t], recvResult[t], calls[t])
    BY IInvFacts
  <2>2. /\ calls[t] \in Seq(Calls) /\ calls[t] # <<>> /\ CallList(calls[t]) /\ queue[t] = "live"
        /\ Top(t) = Head(calls[t]) /\ Top(t).kind \in {"send", "get"}
    BY <2>1 DEF CallsGood, Waits, Top, TypeOK
  <2>3. wakeMask[t] = WakeMask(Top(t)) /\ changedMask[t] = ChangedMask(Top(t))
    BY <2>1 DEF MaskOf
  <2>4. CASE Top(t).kind = "send"
    <3>1. SMRESULT \notin wakeBits[t] /\ (Top(t).flag \/ SENDMESSAGE \notin wakeBits[t])
      BY <2>3, <2>4 DEF Signaled, WakeMask
    <3>2. Head(calls[t]).result # NoResult /\ Head(calls[t]) \in Calls /\ Tail(calls[t]) \in Seq(Calls)
      BY <2>2, <2>4, PopCall
    <3>3. sendResult[t] = <<Top(t).result>> \o ResultsOf(Tail(calls[t]), "send")
      <4>1. ResultsOf(calls[t], "send") = <<Head(calls[t]).result>> \o ResultsOf(Tail(calls[t]), "send")
        BY <2>2, <2>4, <3>2, ResultsOfPop
      <4> QED
        BY <2>1, <2>2, <4>1 DEF StackGood
    <3>4. sendResult[t] # <<>> /\ Head(sendResult[t]) = Top(t).result
      <4>1. ResultsOf(Tail(calls[t]), "send") \in Seq(Results) /\ Top(t).result \in Results
        BY <2>2, <3>2, ResultsOfType, CallFields
      <4>2. PICK s \in Seq(Results), r \in Results :
              s = ResultsOf(Tail(calls[t]), "send") /\ r = Top(t).result
        BY <4>1
      <4>3. <<r>> \o s # <<>> /\ Head(<<r>> \o s) = r
        BY ConsFacts
      <4> QED
        BY <3>3, <4>2, <4>3
    <3> QED
      BY <2>1, <2>4, <3>1, <3>4 DEF BitsOf
  <2>5. CASE Top(t).kind = "get"
    <3>1. SENDMESSAGE \notin wakeBits[t] /\ POSTMESSAGE \notin changedBits[t]
      BY <2>3, <2>5 DEF Signaled, WakeMask, ChangedMask
    <3>2. NoMatch(posted[t], quit[t], Top(t).filter)
      BY <2>1, <2>5, <3>1 DEF MaskOf
    <3>3. sent[t] = <<>>
      BY <2>1, <3>1 DEF BitsOf
    <3> QED
      BY <2>5, <3>2, <3>3 DEF NoMatch
  <2> QED
    BY <2>2, <2>4, <2>5
<1> QED
  BY <1>1, IInvHolds, PTL

-----------------------------------------------------------------------------
(***************************************************************************)
(* The answers a sender sees are those SendReply promises.                 *)
(***************************************************************************)
View(list, rs) == [i \in DOMAIN list |-> rs[list[i]].answer]
Seen == [t \in Threads |-> View(sendResult[t], res)]

\* What a stack of results looks like to SendReply.
LEMMA ViewIs ==
  ASSUME NEW list \in Seq(Results), NEW rs \in [Results -> ResultType]
  PROVE  /\ View(list, rs) \in Seq(Replies \cup {"none"}) /\ DOMAIN View(list, rs) = DOMAIN list
         /\ View(list, rs) = <<>> <=> list = <<>>
         /\ \A i \in DOMAIN list : View(list, rs)[i] = rs[list[i]].answer /\ list[i] \in ToSet(list)
                                   /\ list[i] \in Results
<1> DEFINE v == View(list, rs)
<1>1. DOMAIN list = 1..Len(list) /\ Len(list) \in Nat /\ \A i \in DOMAIN list : list[i] \in Results
  OBVIOUS
<1>2. \A i \in DOMAIN list : rs[list[i]].answer \in Replies \cup {"none"}
  BY <1>1 DEF ResultType, Replies
<1>3. DOMAIN v = DOMAIN list /\ \A i \in DOMAIN list : v[i] = rs[list[i]].answer
  BY DEF View
<1>4. v \in [1..Len(list) -> Replies \cup {"none"}]
  BY <1>1, <1>2 DEF View
<1>5. v \in Seq(Replies \cup {"none"}) /\ Len(v) = Len(list)
  BY <1>1, <1>4
<1>6. v = <<>> <=> list = <<>>
  <2>1. v = <<>> <=> Len(v) = 0
    BY <1>5, EmptySeq
  <2>2. list = <<>> <=> Len(list) = 0
    BY EmptySeq
  <2> QED
    BY <1>5, <2>1, <2>2
<1>7. \A i \in DOMAIN list : list[i] \in ToSet(list)
  BY DEF ToSet
<1> HIDE DEF v
<1> QED
  BY <1>1, <1>3, <1>5, <1>6, <1>7 DEF v

\* The questions that SendReply sees, and the results that they stand for.
LEMMA SeenFacts ==
  ASSUME IInv
  PROVE  \A q \in Threads :
           /\ sendResult[q] \in Seq(Results)
           /\ Seen[q] \in Seq(Replies \cup {"none"}) /\ DOMAIN Seen[q] = DOMAIN sendResult[q]
           /\ Seen[q] = <<>> <=> sendResult[q] = <<>>
           /\ \A i \in DOMAIN sendResult[q] :
                /\ sendResult[q][i] \in Results /\ sendResult[q][i] \in ToSet(sendResult[q])
                /\ res[sendResult[q][i]].sender = q
                /\ Seen[q][i] = res[sendResult[q][i]].answer
                /\ Seen[q][i] = "none" <=> ~res[sendResult[q][i]].replied
<1> SUFFICES ASSUME NEW q \in Threads
             PROVE  /\ sendResult[q] \in Seq(Results)
                    /\ Seen[q] \in Seq(Replies \cup {"none"}) /\ DOMAIN Seen[q] = DOMAIN sendResult[q]
                    /\ Seen[q] = <<>> <=> sendResult[q] = <<>>
                    /\ \A i \in DOMAIN sendResult[q] :
                         /\ sendResult[q][i] \in Results /\ sendResult[q][i] \in ToSet(sendResult[q])
                         /\ res[sendResult[q][i]].sender = q
                         /\ Seen[q][i] = res[sendResult[q][i]].answer
                         /\ Seen[q][i] = "none" <=> ~res[sendResult[q][i]].replied
  OBVIOUS
<1>1. TypeOK /\ ListsOf(q) /\ ResultsInv
  BY IInvFacts
<1>2. sendResult[q] \in Seq(Results) /\ res \in [Results -> ResultType]
  BY <1>1 DEF TypeOK
<1>3. Seen[q] = View(sendResult[q], res)
  BY DEF Seen
<1>4. /\ Seen[q] \in Seq(Replies \cup {"none"}) /\ DOMAIN Seen[q] = DOMAIN sendResult[q]
      /\ Seen[q] = <<>> <=> sendResult[q] = <<>>
      /\ \A i \in DOMAIN sendResult[q] :
           /\ Seen[q][i] = res[sendResult[q][i]].answer
           /\ sendResult[q][i] \in ToSet(sendResult[q]) /\ sendResult[q][i] \in Results
  BY <1>2, <1>3, ViewIs
<1>5. \A r \in Results : /\ r \in ToSet(sendResult[q]) => res[r].sender = q
                         /\ res[r].replied <=> res[r].answer # "none"
  BY <1>1 DEF ListsOf, Hold, ResultsInv, ResultInv
<1> QED
  BY <1>2, <1>4, <1>5

\* What two results look like to a sender.
LEMMA SameView ==
  ASSUME NEW list, NEW rs, NEW ss, \A i \in DOMAIN list : rs[list[i]].answer = ss[list[i]].answer
  PROVE  View(list, rs) = View(list, ss)
BY DEF View

\* A step that gives no answer to a question is a stutter of SendReply.
LEMMA SeenSame ==
  ASSUME IInv, sendResult' = sendResult,
         \A q \in Threads : \A i \in DOMAIN sendResult[q] :
           res'[sendResult[q][i]].answer = res[sendResult[q][i]].answer
  PROVE  Seen' = Seen
<1>1. \A q \in Threads : View(sendResult[q], res') = View(sendResult[q], res)
  BY SameView
<1> QED
  BY <1>1 DEF Seen

\* A set of questions that have no answer yet.
LEMMA PendingIs ==
  ASSUME NEW S, \A p \in S : \E t \in Threads : \E i \in DOMAIN Seen[t] : p = <<t, i>> /\ Seen[t][i] = "none"
  PROVE  S \in SentMessages!PendingSets
<1> DEFINE P(t) == {<<t, i>> : i \in {j \in DOMAIN Seen[t] : Seen[t][j] = "none"}}
<1>1. SentMessages!PendingSets = SUBSET UNION {P(t) : t \in Threads}
  BY DEF SentMessages!PendingSets, Seen, View
<1>2. ASSUME NEW p \in S PROVE p \in UNION {P(t) : t \in Threads}
  <2>1. PICK t \in Threads : \E i \in DOMAIN Seen[t] : p = <<t, i>> /\ Seen[t][i] = "none"
    OBVIOUS
  <2>2. p \in P(t)
    BY <2>1
  <2> HIDE DEF P
  <2> QED
    BY <2>2
<1> HIDE DEF P
<1> QED
  BY <1>1, <1>2

Answering(S, a) ==
  [t \in Threads |-> [i \in DOMAIN Seen[t] |-> IF <<t, i>> \in S THEN a ELSE Seen[t][i]]]

\* SendReply's Given, written with positions of the refinement.
LEMMA GivenIs ==
  ASSUME NEW S, NEW a
  PROVE  SentMessages!Given(S, a) = Answering(S, a)
BY DEF SentMessages!Given, Answering, Seen, View

\* Answers are given once: a step that answers results gives them to senders who had none.
LEMMA AnswerSeen ==
  ASSUME IInv, NEW R, NEW y, NEW a, NEW C, NEW now, NEW cleared,
         AnswerStep(R, y, a, C, now, cleared)
  PROVE  \E S \in SentMessages!PendingSets : \A q \in Threads :
           sendResult'[q] = sendResult[q] => Seen'[q] = Answering(S, a)[q]
<1> DEFINE S == UNION {{<<q, i>> : i \in {j \in DOMAIN sendResult[q] :
                                            sendResult'[q] = sendResult[q] /\ sendResult[q][j] \in R}} :
                       q \in Threads}
<1>1. TypeInv /\ ResultsInv
  BY IInvFacts
<1>2. \A r \in R : ~res[r].replied
  BY DEF AnswerStep
<1>3. ASSUME NEW q \in Threads, NEW i \in DOMAIN sendResult[q], sendResult'[q] = sendResult[q]
      PROVE  <<q, i>> \in S <=> sendResult[q][i] \in R
  BY <1>3
<1>4. S \in SentMessages!PendingSets
  <2>1. ASSUME NEW p \in S
        PROVE  \E t \in Threads : \E i \in DOMAIN Seen[t] : p = <<t, i>> /\ Seen[t][i] = "none"
    <3>1. PICK q \in Threads : \E i \in DOMAIN sendResult[q] : p = <<q, i>> /\ sendResult[q][i] \in R
      OBVIOUS
    <3>2. PICK i \in DOMAIN sendResult[q] : p = <<q, i>> /\ sendResult[q][i] \in R
      BY <3>1
    <3>3. i \in DOMAIN Seen[q] /\ (Seen[q][i] = "none" <=> ~res[sendResult[q][i]].replied)
      BY SeenFacts
    <3>4. Seen[q][i] = "none"
      BY <1>2, <3>2, <3>3
    <3> QED
      BY <3>2, <3>3, <3>4
  <2> HIDE DEF S
  <2> QED
    BY <2>1, PendingIs
<1> HIDE DEF S
<1>5. ASSUME NEW q \in Threads, sendResult'[q] = sendResult[q]
      PROVE  Seen'[q] = Answering(S, a)[q]
  <2>1. Seen'[q] = [i \in DOMAIN sendResult[q] |-> res'[sendResult[q][i]].answer]
    BY <1>5 DEF Seen, View
  <2>2. Answering(S, a)[q] = [i \in DOMAIN sendResult[q] |-> IF <<q, i>> \in S THEN a ELSE Seen[q][i]]
    BY SeenFacts DEF Answering
  <2>3. ASSUME NEW i \in DOMAIN sendResult[q]
        PROVE  res'[sendResult[q][i]].answer = IF <<q, i>> \in S THEN a ELSE Seen[q][i]
    <3>1. PICK r \in Results : r = sendResult[q][i] /\ r \in ToSet(sendResult[q]) /\ Seen[q][i] = res[r].answer
      BY SeenFacts
    <3>2. Hold(q, sendResult'[q], C[q], recvResult'[q], now[q], y)
      BY DEF AnswerStep, QueueStep
    <3>3. y[r].sender = q /\ ~y[r].callback
      BY <1>5, <3>1, <3>2 DEF Hold
    <3>4. res'[r].answer = IF r \in R THEN a ELSE res[r].answer
      BY <1>1, <3>3, AnswerElement
    <3>5. <<q, i>> \in S <=> r \in R
      BY <1>3, <1>5, <3>1
    <3> QED
      BY <3>1, <3>4, <3>5
  <2> QED
    BY <2>1, <2>2, <2>3
<1> QED
  BY <1>4, <1>5

\* Giving answers is a step Answer.
LEMMA AnswerImplements ==
  ASSUME IInv, NEW a \in Replies, UNCHANGED sendResult,
         \E R, y, C, now, cleared : AnswerStep(R, y, a, C, now, cleared)
  PROVE  SentMessages!Answer
<1>1. PICK S \in SentMessages!PendingSets : \A q \in Threads :
        sendResult'[q] = sendResult[q] => Seen'[q] = Answering(S, a)[q]
  BY AnswerSeen
<1>2. Seen' = Answering(S, a)
  BY <1>1 DEF Seen, Answering
<1>3. Seen' = SentMessages!Given(S, a)
  BY <1>2, GivenIs
<1>4. a \in SentMessages!Answers
  BY DEF SentMessages!Answers, Replies
<1>5. SentMessages!Answer <=> \E U \in SentMessages!PendingSets, b \in SentMessages!Answers :
                                Seen' = SentMessages!Given(U, b)
  BY DEF SentMessages!Answer, Seen, View
<1> QED
  BY <1>3, <1>4, <1>5

\* A reply is a step Answer, or a stutter when nobody waits for it.
LEMMA ReplyImplements ==
  ASSUME IInv, NEW t \in Threads, NEW remove \in BOOLEAN, Reply(t, remove), queue' = queue,
         \A q \in Threads : Aside(q)
  PROVE  SentMessages!Answer \/ Seen' = Seen
<1>1. CASE recvResult[t] = <<>>
  BY <1>1, SeenSame DEF Reply, queueVars
<1>2. CASE recvResult[t] # <<>>
  <2>1. UNCHANGED sendResult
    BY <1>2 DEF Reply
  <2>2. TypeInv /\ ListsInv /\ ResultsInv /\ BitsExact
    BY IInvFacts
  <2>3. \E R, y, C, now, cleared : AnswerStep(R, y, "reply", C, now, cleared)
    BY <1>2, <2>2, ReplyStep
  <2>4. "reply" \in Replies
    BY DEF Replies
  <2> QED
    BY <2>1, <2>3, <2>4, AnswerImplements
<1> QED
  BY <1>1, <1>2

\* The end of a queue is a step Die.
LEMMA DestroyImplements ==
  ASSUME IInv, NEW t \in Threads, Destroy(t), queue' = [queue EXCEPT ![t] = "none"],
         pc'[t] = "dead", \A q \in Threads : Aside(q)
  PROVE  SentMessages!Die(t)
<1>1. TypeInv /\ TypeOK /\ ListsInv /\ ResultsInv /\ BitsExact
  BY IInvFacts
<1>2. \A q \in Threads : q # t => queue'[q] = queue[q]
  BY <1>1 DEF TypeOK
<1>3. PICK R, y, C, now, cleared : AnswerStep(R, y, "denied", C, now, cleared)
  BY <1>1, <1>2, DestroyStep
<1>4. PICK S \in SentMessages!PendingSets : \A q \in Threads :
        sendResult'[q] = sendResult[q] => Seen'[q] = Answering(S, "denied")[q]
  BY <1>3, AnswerSeen
<1>5. sendResult' = [sendResult EXCEPT ![t] = <<>>]
  BY DEF Destroy
<1>6. sendResult'[t] = <<>> /\ \A q \in Threads : q # t => sendResult'[q] = sendResult[q]
  BY <1>1, <1>5 DEF TypeOK
<1>7. Seen'[t] = <<>>
  <2>1. View(<<>>, res) = <<>>
    BY <1>1, EmptySeq, ViewIs DEF TypeOK
  <2>2. View(<<>>, res') = View(<<>>, res)
    BY SameView
  <2> QED
    BY <1>6, <2>1, <2>2 DEF Seen
<1>8. Seen' = [Answering(S, "denied") EXCEPT ![t] = <<>>]
  <2>1. \A q \in Threads : q # t => Seen'[q] = Answering(S, "denied")[q]
    BY <1>4, <1>6
  <2>2. \E f \in [Threads -> {View(sendResult'[q], res') : q \in Threads}] : Seen' = f
    BY DEF Seen
  <2> QED
    BY <1>7, <2>1 DEF Seen, Answering
<1>9. Seen' = [SentMessages!Given(S, "denied") EXCEPT ![t] = <<>>]
  BY <1>8, GivenIs
<1>10. SentMessages!Die(t) <=> \E U \in SentMessages!PendingSets :
                                 Seen' = [SentMessages!Given(U, "denied") EXCEPT ![t] = <<>>]
  BY DEF SentMessages!Die, Seen, View
<1> QED
  BY <1>9, <1>10

\* A message that is sent with a result is a step Send.
LEMMA SendImplements ==
  ASSUME IInv, NEW t \in Threads, NEW u \in Threads, NEW timeout \in BOOLEAN, NEW block \in BOOLEAN,
         NEW win \in BOOLEAN, SendMessage(t, u, timeout, block, win)
  PROVE  SentMessages!Send(t)
<1> DEFINE r == NewResult
           x == ResultOf(TRUE, t, u, FALSE, timeout)
           s == sendResult[t]
<1>1. /\ CanAlloc /\ res' = [res EXCEPT ![r] = x]
      /\ sendResult' = [sendResult EXCEPT ![t] = <<r>> \o sendResult[t]]
  BY DEF SendMessage
<1>2. r \in Results /\ ~InUse(r) /\ x.answer = "none" /\ x \in ResultType
  BY <1>1, NewResultFacts, NullAssumption DEF ResultOf, ResultType
<1> HIDE DEF r, x
<1>3. TypeOK
  BY IInvFacts
<1>4. /\ res'[r] = x /\ \A k \in Results : k # r => res'[k] = res[k]
      /\ sendResult'[t] = <<r>> \o s /\ \A q \in Threads : q # t => sendResult'[q] = sendResult[q]
      /\ res' \in [Results -> ResultType]
  BY <1>1, <1>2, <1>3 DEF TypeOK
<1>5. \A q \in Threads : View(sendResult[q], res') = Seen[q]
  <2> SUFFICES ASSUME NEW q \in Threads PROVE View(sendResult[q], res') = Seen[q]
    OBVIOUS
  <2>1. ASSUME NEW i \in DOMAIN sendResult[q]
        PROVE  res'[sendResult[q][i]].answer = res[sendResult[q][i]].answer
    <3>1. sendResult[q][i] \in Results /\ res[sendResult[q][i]].sender = q
      BY SeenFacts
    <3>2. sendResult[q][i] # r
      BY <1>2, <3>1, NullAssumption DEF InUse
    <3> QED
      BY <1>4, <3>1, <3>2
  <2>2. View(sendResult[q], res') = View(sendResult[q], res)
    BY <2>1, SameView
  <2> QED
    BY <2>2 DEF Seen
<1>6. View(<<r>> \o s, res') = <<"none">> \o Seen[t]
  <2>1. /\ s \in Seq(Results) /\ Seen[t] \in Seq(Replies \cup {"none"}) /\ DOMAIN Seen[t] = DOMAIN s
        /\ "none" \in Replies \cup {"none"}
    BY SeenFacts
  <2> DEFINE l == <<r>> \o s
             v == <<"none">> \o Seen[t]
  <2>2. /\ DOMAIN l = 1..(Len(s) + 1) /\ DOMAIN s = 1..Len(s) /\ Len(s) \in Nat /\ l \in Seq(Results)
        /\ l[1] = r /\ \A i \in 1..Len(s) : l[i + 1] = s[i]
    BY <1>2, <2>1, PushFacts
  <2>3. /\ DOMAIN v = 1..(Len(Seen[t]) + 1) /\ DOMAIN Seen[t] = 1..Len(Seen[t]) /\ Len(Seen[t]) \in Nat
        /\ v \in Seq(Replies \cup {"none"})
        /\ v[1] = "none" /\ \A i \in 1..Len(Seen[t]) : v[i + 1] = Seen[t][i]
    BY <2>1, PushFacts
  <2> HIDE DEF l, v
  <2>4. Len(Seen[t]) = Len(s)
    BY <2>1, <2>2, <2>3
  <2>5. ASSUME NEW i \in DOMAIN l PROVE res'[l[i]].answer = v[i]
    <3>1. CASE i = 1
      BY <1>2, <1>4, <2>2, <2>3, <3>1
    <3>2. CASE i # 1
      <4>1. PICK j \in 1..Len(s) : i = j + 1
        <5>1. i \in Nat /\ i - 1 \in 1..Len(s) /\ i = (i - 1) + 1
          BY <2>2, <3>2
        <5> QED
          BY <5>1
      <4>2. l[i] = s[j] /\ v[i] = Seen[t][j]
        BY <2>2, <2>3, <2>4, <4>1
      <4>3. Seen[t][j] = res'[s[j]].answer
        BY <1>5, <2>2, <4>1 DEF View
      <4> QED
        BY <4>2, <4>3
    <3> QED
      BY <3>1, <3>2
  <2>6. View(l, res') = [i \in DOMAIN l |-> v[i]]
    BY <2>5 DEF View
  <2>7. v = [i \in DOMAIN l |-> v[i]]
    BY <2>2, <2>3, <2>4
  <2> QED
    BY <2>6, <2>7 DEF l, v
<1>7. Seen' = [Seen EXCEPT ![t] = <<"none">> \o Seen[t]]
  <2>1. \A q \in Threads : Seen'[q] = IF q = t THEN <<"none">> \o Seen[t] ELSE Seen[q]
    BY <1>4, <1>5, <1>6 DEF Seen
  <2> QED
    BY <2>1 DEF Seen
<1> QED
  BY <1>7 DEF SentMessages!Send, Seen, View

\* The request get_message_reply is a step GiveUp.
LEMMA RetrieveImplements ==
  ASSUME IInv, NEW t \in Threads, RetrieveReply(t)
  PROVE  SentMessages!GiveUp(t)
<1> DEFINE r == Head(sendResult[t])
           rest == Tail(sendResult[t])
           x == [res[r] EXCEPT !.sender = NoQueue]
<1>1. pc[t] = "retrieve" /\ sendResult[t] \in Seq(Results) /\ sendResult[t] # <<>>
  BY RetrieveFacts DEF RetrieveReply
<1>2. /\ sendResult' = [sendResult EXCEPT ![t] = rest]
      /\ res' = [res EXCEPT ![r] = Released(x)]
  BY <1>1 DEF RetrieveReply
<1>3. TypeOK /\ ListsOf(t) /\ AnswerOf(t)
  BY IInvFacts
<1>4. IsInjective(sendResult[t])
  BY <1>3 DEF ListsOf, Hold
<1>5. /\ r \in Results /\ r \in ToSet(sendResult[t])
      /\ rest \in Seq(Results) /\ ToSet(rest) = ToSet(sendResult[t]) \ {r}
  BY <1>1, <1>4, PopSet
<1>6. res[r].sender = t
  BY <1>3, <1>5 DEF ListsOf, Hold
<1> HIDE DEF r, rest, x
<1>7. /\ \A k \in Results : k # r => res'[k] = res[k]
      /\ sendResult'[t] = rest /\ \A q \in Threads : q # t => sendResult'[q] = sendResult[q]
  BY <1>2, <1>3, <1>5 DEF TypeOK
<1>8. \A q \in Threads : q # t => Seen'[q] = Seen[q]
  <2> SUFFICES ASSUME NEW q \in Threads, q # t PROVE Seen'[q] = Seen[q]
    OBVIOUS
  <2>1. ASSUME NEW i \in DOMAIN sendResult[q]
        PROVE  res'[sendResult[q][i]].answer = res[sendResult[q][i]].answer
    <3>1. sendResult[q][i] \in Results /\ res[sendResult[q][i]].sender = q
      BY SeenFacts
    <3> QED
      BY <1>6, <1>7, <3>1
  <2>2. View(sendResult[q], res') = View(sendResult[q], res)
    BY <2>1, SameView
  <2> QED
    BY <1>7, <2>2 DEF Seen
<1>9. /\ Seen[t] \in Seq(Replies \cup {"none"}) /\ DOMAIN Seen[t] = DOMAIN sendResult[t]
      /\ Seen[t] # <<>>
  BY <1>1, SeenFacts
<1>10. Seen'[t] = Tail(Seen[t])
  <2> DEFINE s == sendResult[t]
             v == Tail(Seen[t])
  <2>1. /\ Len(s) \in Nat \ {0} /\ DOMAIN s = 1..Len(s)
        /\ DOMAIN rest = 1..(Len(s) - 1) /\ \A i \in 1..(Len(s) - 1) : rest[i] = s[i + 1]
    BY <1>1, PopFacts DEF rest
  <2>2. /\ Len(Seen[t]) \in Nat \ {0} /\ DOMAIN Seen[t] = 1..Len(Seen[t])
        /\ DOMAIN v = 1..(Len(Seen[t]) - 1) /\ \A i \in 1..(Len(Seen[t]) - 1) : v[i] = Seen[t][i + 1]
        /\ v \in Seq(Replies \cup {"none"})
    BY <1>9, PopFacts
  <2> HIDE DEF s, v
  <2>3. Len(Seen[t]) = Len(s) /\ DOMAIN v = DOMAIN rest
    BY <1>9, <2>1, <2>2 DEF s
  <2>4. ASSUME NEW i \in DOMAIN rest PROVE res'[rest[i]].answer = v[i]
    <3>1. i + 1 \in DOMAIN s /\ rest[i] = s[i + 1] /\ v[i] = Seen[t][i + 1]
      BY <2>1, <2>2, <2>3
    <3>2. Seen[t][i + 1] = res[s[i + 1]].answer /\ s[i + 1] \in Results
      BY <3>1, SeenFacts DEF s
    <3>3. rest[i] \in ToSet(rest)
      BY DEF ToSet
    <3>4. rest[i] # r
      BY <1>5, <3>3
    <3> QED
      BY <1>7, <3>1, <3>2, <3>4
  <2>5. Seen'[t] = [i \in DOMAIN rest |-> v[i]]
    BY <1>7, <2>4 DEF Seen, View
  <2>6. v = [i \in DOMAIN rest |-> v[i]]
    BY <2>2, <2>3
  <2> QED
    BY <2>5, <2>6 DEF v
<1>11. \E i \in DOMAIN Seen[t] : Seen[t][i] # "none"
  <2>1. SomeReplied(sendResult[t], res)
    BY <1>1, <1>3 DEF AnswerOf
  <2>2. PICK i \in DOMAIN sendResult[t] : res[sendResult[t][i]].replied
    BY <2>1 DEF SomeReplied
  <2> QED
    BY <1>9, <2>2, SeenFacts
<1>12. Seen' = [Seen EXCEPT ![t] = Tail(Seen[t])]
  <2>1. \A q \in Threads : Seen'[q] = IF q = t THEN Tail(Seen[t]) ELSE Seen[q]
    BY <1>8, <1>10
  <2> HIDE DEF rest
  <2> QED
    BY <2>1 DEF Seen
<1> QED
  BY <1>9, <1>11, <1>12 DEF SentMessages!GiveUp, Seen, View

\* A message is received: its result stays what it is but for the list it is in.
LEMMA ReceiveImplements ==
  ASSUME IInv, NEW t \in Threads, ReceiveSent(t)
  PROVE  Seen' = Seen
<1>1. sendResult' = sendResult /\ TypeOK
  BY IInvFacts DEF ReceiveSent
<1>2. res' = res \/ \E r : res' = [res EXCEPT ![r].msg = FALSE]
  BY DEF ReceiveSent
<1>3. ASSUME NEW k \in Results PROVE res'[k].answer = res[k].answer
  <2>1. CASE res' = res
    BY <2>1
  <2>2. CASE res' # res
    <3>1. PICK r : res' = [res EXCEPT ![r].msg = FALSE]
      BY <1>2, <2>2
    <3>2. res'[k] = IF k = r THEN [res[k] EXCEPT !.msg = FALSE] ELSE res[k]
      BY <1>1, <3>1 DEF TypeOK
    <3>3. res[k] \in ResultType
      BY <1>1 DEF TypeOK
    <3> QED
      BY <3>2, <3>3 DEF ResultType
  <2> QED
    BY <2>1, <2>2
<1>4. \A q \in Threads : \A i \in DOMAIN sendResult[q] : sendResult[q][i] \in Results
  BY SeenFacts
<1> QED
  BY <1>1, <1>3, <1>4, SeenSame

\* A message with a callback is a stutter: nobody waits for it.
LEMMA CallbackImplements ==
  ASSUME IInv, NEW t \in Threads, NEW u \in Threads, NEW win, SendCallback(t, u, win)
  PROVE  Seen' = Seen
<1>1. /\ CanAlloc /\ sendResult' = sendResult
      /\ res' = [res EXCEPT ![NewResult] = ResultOf(TRUE, t, u, TRUE, FALSE)]
  BY DEF SendCallback
<1>2. NewResult \in Results /\ ~InUse(NewResult) /\ TypeOK
  BY <1>1, NewResultFacts, IInvFacts
<1>3. ASSUME NEW q \in Threads, NEW i \in DOMAIN sendResult[q]
      PROVE  res'[sendResult[q][i]].answer = res[sendResult[q][i]].answer
  <2>1. sendResult[q][i] \in Results /\ res[sendResult[q][i]].sender = q
    BY SeenFacts
  <2>2. sendResult[q][i] # NewResult
    BY <1>2, <2>1, NullAssumption DEF InUse
  <2> QED
    BY <1>1, <1>2, <2>1, <2>2 DEF TypeOK
<1> QED
  BY <1>1, <1>3, SeenSame

\* Every step is one of SendReply or a stutter.
LEMMA StepImplements == IInv /\ [Next]_vars => [SentMessages!Next]_Seen
<1> SUFFICES ASSUME IInv, [Next]_vars PROVE SentMessages!Next \/ Seen' = Seen
  OBVIOUS
<1>1. TypeOK
  BY IInvFacts
<1>2. ASSUME UNCHANGED <<sendResult, res>> PROVE Seen' = Seen
  BY <1>2, SeenSame
<1>3. CASE UNCHANGED vars
  BY <1>2, <1>3 DEF vars, runVars, queueVars
<1>4. CASE Next
  <2>1. load.timeouts \subseteq BOOLEAN /\ load.blocking \subseteq BOOLEAN /\ load.windows \subseteq BOOLEAN
    BY IInvFacts, WorkloadAssumption
  <2>2. ASSUME NEW t \in Threads, NEW u \in Threads, NEW win \in load.windows,
               NEW timeout \in load.timeouts, NEW block \in load.blocking,
               SendMessage(t, u, timeout, block, win)
        PROVE  SentMessages!Send(t)
    <3>1. win \in BOOLEAN /\ timeout \in BOOLEAN /\ block \in BOOLEAN
      BY <2>1
    <3> QED
      BY <2>2, <3>1, SendImplements
  <2>3. ASSUME NEW t \in Threads, NEW u \in Threads, NEW win \in load.windows, SendCallback(t, u, win)
        PROVE  Seen' = Seen
    BY <2>3, CallbackImplements
  <2>4. ASSUME NEW t \in Threads, NEW u \in Threads, NEW win \in load.windows, SendNotify(t, u, win)
        PROVE  Seen' = Seen
    BY <1>2, <2>4 DEF SendNotify
  <2>5. ASSUME NEW t \in Threads, NEW u \in Threads, NEW p \in Posts, PostMessage(t, u, p)
        PROVE  Seen' = Seen
    BY <1>2, <2>5 DEF PostMessage
  <2>6. ASSUME NEW t \in Threads, NEW get \in load.gets, GetMessage(t, get)
        PROVE  Seen' = Seen
    BY <1>2, <2>6 DEF GetMessage, queueVars
  <2>7. ASSUME NEW t \in Threads, ProcReturns(t)
        PROVE  SentMessages!Answer \/ Seen' = Seen
    <3>1. CASE Reply(t, TRUE)
      <4>1. /\ queue' = queue /\ calls' = [calls EXCEPT ![t] = Tail(calls[t])]
            /\ pc' = [pc EXCEPT ![t] = "peek"]
        BY <2>7 DEF ProcReturns
      <4>2. \A q \in Threads : Aside(q)
        BY <1>1, <4>1 DEF TypeOK, Aside
      <4> QED
        BY <3>1, <4>1, <4>2, ReplyImplements
    <3>2. CASE ~Reply(t, TRUE)
      BY <1>2, <2>7, <3>2 DEF ProcReturns, queueVars
    <3> QED
      BY <3>1, <3>2
  <2>8. ASSUME NEW t \in Threads, ReplyMessage(t)
        PROVE  SentMessages!Answer \/ Seen' = Seen
    <3>1. queue' = queue /\ pc' = pc /\ pc[t] = "app" /\ Reply(t, FALSE)
      BY <2>8 DEF ReplyMessage, InApp
    <3>2. PICK i \in DOMAIN calls[t] : calls' = [calls EXCEPT ![t][i].flag = TRUE]
      BY <2>8 DEF ReplyMessage
    <3>3. \A q \in Threads : q # t => calls'[q] = calls[q]
      BY <1>1, <3>2 DEF TypeOK
    <3>4. \A q \in Threads : Aside(q)
      BY <3>1, <3>3 DEF Aside
    <3> QED
      BY <3>1, <3>4, ReplyImplements
  <2>9. ASSUME NEW t \in Threads, Client(t)
        PROVE  SentMessages!Answer \/ SentMessages!GiveUp(t) \/ Seen' = Seen
    <3>1. CASE SetQueueMask(t) \/ Wake(t) \/ NothingSent(t)
      BY <1>2, <3>1 DEF SetQueueMask, Wake, NothingSent, queueVars
    <3>2. CASE ReceivePosted(t)
      BY <1>2, <3>2 DEF ReceivePosted
    <3> QED
      BY <2>7, <2>9, <3>1, <3>2, RetrieveImplements, ReceiveImplements DEF Client
  <2>10. ASSUME NEW t \in Threads, PostQuit(t) PROVE Seen' = Seen
    BY <1>2, <2>10 DEF PostQuit
  <2>11. ASSUME NEW t \in Threads, CleanupWindow(t) PROVE SentMessages!Answer
    <3>1. TypeInv /\ ListsInv /\ ResultsInv /\ BitsExact /\ "denied" \in Replies
      BY IInvFacts DEF Replies
    <3>2. \E R, y, C, now, cleared : AnswerStep(R, y, "denied", C, now, cleared)
      BY <2>11, <3>1, CleanupStep
    <3>3. UNCHANGED sendResult
      BY <2>11 DEF CleanupWindow
    <3> QED
      BY <3>1, <3>2, <3>3, AnswerImplements
  <2>12. ASSUME NEW r \in Results, ResultTimeout(r) PROVE SentMessages!Answer
    <3>1. TypeInv /\ ListsInv /\ ResultsInv /\ BitsExact /\ "timeout" \in Replies
      BY IInvFacts DEF Replies
    <3>2. \E R, y, C, now, cleared : AnswerStep(R, y, "timeout", C, now, cleared)
      BY <2>12, <3>1, TimeoutStep
    <3>3. UNCHANGED sendResult
      BY <2>12 DEF ResultTimeout
    <3> QED
      BY <3>1, <3>2, <3>3, AnswerImplements
  <2>13. ASSUME NEW t \in Threads, Destroy(t), queue' = [queue EXCEPT ![t] = "none"],
                pc' = [pc EXCEPT ![t] = "dead"],
                calls' = [calls EXCEPT ![t] = <<>>]
         PROVE  SentMessages!Die(t)
    <3>1. pc'[t] = "dead" /\ \A q \in Threads : Aside(q)
      BY <1>1, <2>13 DEF TypeOK, Aside
    <3> QED
      BY <2>13, <3>1, DestroyImplements
  <2>14. ASSUME NEW t \in Threads, ThreadExit(t) PROVE SentMessages!Die(t)
    BY <2>13, <2>14 DEF ThreadExit
  <2>15. ASSUME NEW t \in Threads, ThreadKilled(t) PROVE SentMessages!Die(t) \/ Seen' = Seen
    BY <1>2, <2>13, <2>15 DEF ThreadKilled, queueVars
  <2>16. ASSUME NEW t \in Threads, HandlesClosed(t) PROVE SentMessages!Die(t)
    <3>1. /\ queue[t] = "orphan" /\ queue' = [queue EXCEPT ![t] = "none"]
          /\ Destroy(t) /\ UNCHANGED <<calls, pc>>
      BY <2>16 DEF HandlesClosed
    <3>2. CallsGood(queue[t], pc[t], calls[t])
      BY IInvFacts
    <3>3. pc[t] = "dead"
      BY <3>1, <3>2 DEF CallsGood
    <3>4. pc'[t] = "dead" /\ \A q \in Threads : Aside(q)
      BY <3>1, <3>3 DEF Aside
    <3> QED
      BY <3>1, <3>4, DestroyImplements
  <2> QED
    BY <1>4, <2>2, <2>3, <2>4, <2>5, <2>6, <2>8, <2>9, <2>10, <2>11, <2>12, <2>14, <2>15, <2>16
       DEF Next, SentMessages!Next
<1> QED
  BY <1>3, <1>4

\* What senders see is what SendReply promises: the server's queues, the clocks, windows and
\* threads that go away (queue.c) give every message that is waited for its answer once,
\* answers stay until the sender collects them, innermost first (get_message_reply), and a
\* sender comes back without one only if a message below was answered.
THEOREM ImplementsSendReply == Spec => SendReplySpec
<1>1. Init => SentMessages!Init
  <2> SUFFICES ASSUME Init PROVE SentMessages!Init
    OBVIOUS
  <2>1. IInv
    BY IInvInit
  <2>2. \A q \in Threads : sendResult[q] = <<>>
    BY DEF Init
  <2>3. \A q \in Threads : Seen[q] = <<>>
    BY <2>1, <2>2, SeenFacts
  <2>4. Seen = [q \in Threads |-> <<>>]
    BY <2>3 DEF Seen
  <2> QED
    BY <2>4 DEF SentMessages!Init, Seen, View
<1>2. IInv /\ [Next]_vars => [SentMessages!Next]_Seen
  BY StepImplements
<1> QED
  BY <1>1, <1>2, IInvHolds, PTL DEF Spec, SendReplySpec, SentMessages!Spec, Seen, View
=============================================================================
