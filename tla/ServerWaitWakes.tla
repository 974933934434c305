-------------------------- MODULE ServerWaitWakes ---------------------------
(***************************************************************************)
(* Theorems about wake_up and wake_thread of ServerWait: the server        *)
(* follows no freed pointer as long as no process crashes, and no wake-up  *)
(* is lost in the workloads of which that is true.                         *)
(***************************************************************************)
EXTENDS ServerWaitProofs

-----------------------------------------------------------------------------
(***************************************************************************)
(* As long as no process crashes, the server follows no freed pointer.     *)
(***************************************************************************)
\* The server's calls, in a list of frames, with these queues and these dead threads.
Nested(s, q, d) ==
  \A k \in DOMAIN s :
    /\ s[k].op # "wake_failed"
    /\ s[k].op = "wake_thread" => k = Len(s)
    /\ s[k].op = "wake_up" =>
         IF k = Len(s) THEN s[k].next \in {Start, End} \cup Range(q[s[k].x])
         ELSE /\ k + 1 = Len(s) /\ s[Len(s)].op = "wake_thread"
              /\ \/ s[k].next = End
                 \/ s[k].next \in Range(q[s[k].x]) /\ s[k].next.thread # s[Len(s)].x
    /\ s[k].op \notin {"wake_thread", "wake_up"} => k = 1
    /\ s[k].op = "select" => s[k].x \notin d

\* The invariant in this form, before and after a step.
LEMMA NestedForm ==
  /\ CallsInv /\ CursorInv <=> Nested(stack, queue, dead)
  /\ (CallsInv /\ CursorInv)' <=> Nested(stack', queue', dead')
<1>1. ASSUME CallsInv, CursorInv PROVE Nested(stack, queue, dead)
  BY <1>1 DEF CallsInv, CursorInv, Nested, Top
<1>2. ASSUME Nested(stack, queue, dead) PROVE CallsInv /\ CursorInv
  BY <1>2 DEF CallsInv, CursorInv, Nested, Top
<1>3. ASSUME CallsInv', CursorInv' PROVE Nested(stack', queue', dead')
  BY <1>3 DEF CallsInv, CursorInv, Nested, Top
<1>4. ASSUME Nested(stack', queue', dead') PROVE (CallsInv /\ CursorInv)'
  BY <1>4 DEF CallsInv, CursorInv, Nested, Top
<1> QED
  BY <1>1, <1>2, <1>3, <1>4

\* The loop over a wait queue that has not begun.
Begins(f) == f.op = "wake_up" /\ f.next = Start

\* A function that calls wake_up or wake_thread, or a loop that begins, or wake_thread.
Outer(f, d) ==
  f.op \notin {"wake_thread", "wake_up", "wake_failed"} /\ (f.op = "select" => f.x \notin d)
Inner(f) == Begins(f) \/ f.op = "wake_thread"

\* The stacks that requests, timers and the ends of functions leave.
LEMMA NestedFew ==
  ASSUME NEW q, NEW d
  PROVE  /\ Nested(<<>>, q, d)
         /\ \A f : Outer(f, d) \/ Inner(f) => Nested(<<f>>, q, d)
         /\ \A f, g : Outer(f, d) /\ Inner(g) => Nested(<<f, g>>, q, d)
<1>1. Nested(<<>>, q, d)
  BY DEF Nested
<1>2. ASSUME NEW f, Outer(f, d) \/ Inner(f) PROVE Nested(<<f>>, q, d)
  <2>1. PICK s : s = <<f>> /\ Len(s) = 1 /\ DOMAIN s = {1} /\ s[1] = f
    <3>1. Len(<<f>>) = 1 /\ <<f>>[1] = f
      OBVIOUS
    <3>2. DOMAIN <<f>> = {1}
      OBVIOUS
    <3> QED
      BY <3>1, <3>2
  <2>2. Nested(s, q, d)
    BY <1>2, <2>1 DEF Nested, Outer, Inner, Begins
  <2> QED
    BY <2>1, <2>2
<1>3. ASSUME NEW f, NEW g, Outer(f, d), Inner(g) PROVE Nested(<<f, g>>, q, d)
  <2>1. PICK s : s = <<f, g>> /\ Len(s) = 2 /\ DOMAIN s = {1, 2} /\ s[1] = f /\ s[2] = g
    <3>1. Len(<<f, g>>) = 2 /\ <<f, g>>[1] = f /\ <<f, g>>[2] = g
      OBVIOUS
    <3>2. DOMAIN <<f, g>> = {1, 2}
      OBVIOUS
    <3> QED
      BY <3>1, <3>2
  <2>2. Nested(s, q, d)
    BY <1>3, <2>1 DEF Nested, Outer, Inner, Begins
  <2> QED
    BY <2>1, <2>2
<1> QED
  BY <1>1, <1>2, <1>3

\* A function other than wake_up and wake_thread is alone on the stack when it goes on.
LEMMA Alone ==
  ASSUME TypeInv, Nested(stack, queue, dead), stack # <<>>, Top(stack).op \notin {"wake_thread", "wake_up"}
  PROVE  \E f \in ServerFrames(dead) :
           stack = <<f>> /\ Top(stack) = f /\ Len(stack) = 1 /\ Pop(stack) = <<>> /\ Outer(f, dead)
<1>1. PICK n \in Nat \ {0}, f \in ServerFrames(dead) :
        /\ n = Len(stack) /\ DOMAIN stack = 1..n /\ f = Top(stack) /\ f = stack[n] /\ stack \in Seq(ServerFrames(dead))
        /\ Pop(stack) \in Seq(ServerFrames(dead)) /\ Len(Pop(stack)) = n - 1
  <2>1. stack \in Seq(ServerFrames(dead))
    BY DEF TypeInv
  <2> QED
    BY <2>1, TopPop
<1>2. n = 1 /\ Outer(f, dead)
  BY <1>1 DEF Nested, Outer
<1>3. stack = <<f>>
  BY <1>1, <1>2
<1>4. Pop(stack) = <<>>
  BY <1>1, <1>2, NotEmpty
<1> QED
  BY <1>1, <1>2, <1>3, <1>4

\* A call returns.
LEMMA PopNested ==
  ASSUME NEW S, NEW s \in Seq(S), s # <<>>, NEW q, NEW d, Nested(s, q, d)
  PROVE  Nested(Pop(s), q, d)
<1>1. PICK n \in Nat \ {0}, r \in Seq(S) :
        /\ n = Len(s) /\ DOMAIN s = 1..n /\ r = Pop(s) /\ Len(r) = n - 1 /\ DOMAIN r = 1..(n - 1)
        /\ \A i \in 1..(n - 1) : r[i] = s[i]
  <2> DEFINE r == Pop(s)
  <2>1. /\ Len(s) \in Nat \ {0} /\ r \in Seq(S) /\ Len(r) = Len(s) - 1
        /\ DOMAIN s = 1..Len(s) /\ DOMAIN r = 1..(Len(s) - 1) /\ \A i \in 1..(Len(s) - 1) : r[i] = s[i]
    BY TopPop
  <2> HIDE DEF r
  <2>2. PICK t \in Seq(S) : t = r
    BY <2>1
  <2>3. PICK n \in Nat \ {0} : n = Len(s)
    BY <2>1
  <2>4. t = Pop(s)
    BY <2>2 DEF r
  <2> QED
    BY <2>1, <2>2, <2>3, <2>4
<1>2. Nested(r, q, d)
  <2>1. /\ \A k \in 1..(n - 1) : k \in 1..n /\ k # n
        /\ \A k \in 1..(n - 1) : k + 1 = n => k = Len(r)
    BY <1>1
  <2>2. ASSUME NEW k \in 1..(n - 1)
        PROVE  /\ r[k].op \notin {"wake_failed", "wake_thread"}
               /\ r[k].op = "wake_up" => k = Len(r) /\ r[k].next \in {Start, End} \cup Range(q[r[k].x])
               /\ r[k].op # "wake_up" => k = 1
               /\ r[k].op = "select" => r[k].x \notin d
    BY <1>1, <2>1 DEF Nested
  <2> QED
    BY <1>1, <2>2 DEF Nested
<1> QED
  BY <1>1, <1>2

\* The innermost frame changes its counter.
LEMMA EqualNested ==
  ASSUME NEW S, NEW s \in Seq(S), s # <<>>, NEW q, NEW d, Nested(s, q, d),
         NEW f \in S, f.op = Top(s).op, f.x = Top(s).x, f.next = Top(s).next
  PROVE  Nested([s EXCEPT ![Len(s)] = f], q, d)
<1> DEFINE r == [s EXCEPT ![Len(s)] = f]
<1>1. PICK n \in Nat \ {0} : n = Len(s) /\ DOMAIN s = 1..n /\ Top(s) = s[n]
  BY TopPop
<1>2. /\ Len(r) = n /\ DOMAIN r = 1..n /\ r[n] = f
      /\ \A i \in 1..n : r[i] = IF i = n THEN f ELSE s[i]
  BY <1>1, ReplaceTop
<1> HIDE DEF r
<1>3. \A i \in 1..n : r[i].op = s[i].op /\ r[i].x = s[i].x /\ r[i].next = s[i].next
  BY <1>1, <1>2
<1>4. n \in 1..n
  OBVIOUS
<1>5. Nested(r, q, d)
  BY <1>1, <1>2, <1>3, <1>4 DEF Nested
<1> QED
  BY <1>5 DEF r

\* The queues lose entries of the thread that is woken.
LEMMA LessNested ==
  ASSUME NEW d, NEW s \in Seq(ServerFrames(d)), s # <<>>, Top(s).op = "wake_thread", NEW q, NEW p, Nested(s, q, d),
         \A o \in Objects : \A e \in Range(q[o]) : e.thread # Top(s).x => e \in Range(p[o])
  PROVE  Nested(s, p, d)
<1>1. PICK n \in Nat \ {0} : n = Len(s) /\ DOMAIN s = 1..n /\ Top(s) = s[n]
  BY TopPop
<1>2. ASSUME NEW k \in 1..n, s[k].op = "wake_up" PROVE s[k].x \in Objects
  <2>1. s[k] \in ServerFrames(d)
    BY <1>1
  <2> QED
    BY <1>2, <2>1, FrameTypes
<1> QED
  BY <1>1, <1>2 DEF Nested

\* wake_up goes through one round.
LEMMA RoundNested ==
  ASSUME NEW S, NEW s \in Seq(S), s # <<>>, Top(s).op = "wake_up", NEW q, NEW d, Nested(s, q, d),
         NEW f \in S, NEW g \in S, f.op = "wake_up", g.op = "wake_thread",
         f.next = End \/ (f.next \in Range(q[f.x]) /\ f.next.thread # g.x)
  PROVE  Nested(Pop(s) \o <<f, g>>, q, d)
<1> DEFINE r == Pop(s) \o <<f, g>>
<1>1. PICK n \in Nat \ {0} : n = Len(s) /\ DOMAIN s = 1..n /\ Top(s) = s[n]
  BY TopPop
<1>2. /\ r \in Seq(S) /\ DOMAIN r = 1..(n + 1) /\ r[n] = f /\ r[n + 1] = g
      /\ \A k \in 1..(n - 1) : r[k] = s[k]
  BY <1>1, ChangeCallPlaces
<1> HIDE DEF r
<1>3. Len(r) = n + 1
  BY <1>2, LenProperties
<1>4. /\ \A k \in 1..(n + 1) : k \in 1..(n - 1) \/ k = n \/ k = n + 1
      /\ \A k \in 1..(n - 1) : k \in 1..n /\ k # n /\ n \in 1..n
  OBVIOUS
<1>5. ASSUME NEW k \in 1..(n - 1) PROVE s[k].op \notin {"wake_failed", "wake_thread", "wake_up"} /\ k = 1 /\ (s[k].op = "select" => s[k].x \notin d)
  BY <1>1, <1>4 DEF Nested
<1>6. Nested(r, q, d)
  BY <1>2, <1>3, <1>4, <1>5 DEF Nested
<1> QED
  BY <1>6 DEF r

\* wake_thread returns, and perhaps wake_up after it.
LEMMA AfterWakeNested ==
  ASSUME TypeInv, stack # <<>>, Nested(stack, queue, dead), NEW count \in Nat
  PROVE  Nested(AfterWake(count), queue, dead)
<1>1. PICK p \in Seq(ServerFrames(dead)) : p = Pop(stack) /\ Nested(p, queue, dead) /\ stack \in Seq(ServerFrames(dead))
  <2> DEFINE r == Pop(stack)
  <2>1. stack \in Seq(ServerFrames(dead))
    BY DEF TypeInv
  <2>2. r \in Seq(ServerFrames(dead)) /\ Nested(r, queue, dead) /\ r = Pop(stack)
    BY <2>1, TopPop, PopNested
  <2> HIDE DEF r
  <2> QED
    BY <2>1, <2>2
<1>2. CASE AfterWake(count) = p
  BY <1>1, <1>2
<1>3. CASE p # <<>> /\ AfterWake(count) = Pop(p)
  BY <1>1, <1>3, PopNested
<1>4. ASSUME p # <<>>, NEW m \in Nat, AfterWake(count) = [p EXCEPT ![Len(p)] = [Top(p) EXCEPT !.n = m]]
      PROVE  Nested(AfterWake(count), queue, dead)
  <2>1. PICK f \in ServerFrames(dead) :
          f = [Top(p) EXCEPT !.n = m] /\ f.op = Top(p).op /\ f.x = Top(p).x /\ f.next = Top(p).next
    <3>1. PICK g \in ServerFrames(dead) : g = Top(p)
      BY <1>1, <1>4, TopPop
    <3>2. [g EXCEPT !.n = m] \in ServerFrames(dead)
      BY FrameTypes
    <3>3. LET h == [g EXCEPT !.n = m] IN h.op = g.op /\ h.x = g.x /\ h.next = g.next
      OBVIOUS
    <3> QED
      BY <3>1, <3>2, <3>3
  <2>2. AfterWake(count) = [p EXCEPT ![Len(p)] = f]
    BY <1>4, <2>1
  <2>3. Nested([p EXCEPT ![Len(p)] = f], queue, dead)
    BY <1>1, <1>4, <2>1, EqualNested
  <2> QED
    BY <2>2, <2>3
<1> QED
  BY <1>1, <1>2, <1>3, <1>4, AfterWakeFacts

\* A thread waits for an object with at most one entry: the handler's waits, which are
\* the inner ones, are for no objects, and a wait names no object twice.
LEMMA OnceQueued ==
  ASSUME TypeInv, SelectInv, ClientInv, WaitInv, NEW o \in Objects,
         NEW e \in Range(queue[o]), NEW f \in Range(queue[o]), e.thread = f.thread
  PROVE  e = f
<1>0. /\ queue[o] \in Seq(Entries) /\ waits \in [Threads -> Seq(WaitRecords)] /\ client \in [Threads -> Seq(ClientFrames)]
      /\ e.thread \in Threads
  BY QueueTypes DEF TypeInv
<1>1. PICK t \in Threads, w \in Seq(WaitRecords), c \in Seq(ClientFrames) :
        t = e.thread /\ t = f.thread /\ w = waits[t] /\ c = client[t]
  BY <1>0
<1>2. Entry(o, e) /\ Entry(o, f)
  BY DEF WaitInv, QueueInv
<1>3. e \in Entries /\ f \in Entries
  <2>1. PICK q \in Seq(Entries) : q = queue[o]
    BY <1>0
  <2>2. \A i \in DOMAIN q : q[i] \in Entries
    OBVIOUS
  <2> QED
    BY <2>1, <2>2 DEF Range
<1>4. ASSUME NEW l \in DOMAIN w, NEW i \in DOMAIN w[l].objs PROVE l = 1
  <2>1. CASE Selecting(t)
    <3>1. Len(w) <= 1 /\ DOMAIN w = 1..Len(w) /\ Len(w) \in Nat
      BY <1>1, <2>1 DEF SelectInv
    <3> QED
      BY <1>4, <3>1
  <2>2. CASE ~Selecting(t) /\ l # 1
    <3>1. Fits(w, c)
      BY <1>1, <2>2 DEF WaitInv, ReplyInv
    <3>2. l \in Nat \ {0} /\ 1 \in 1..(l - 1) /\ 1 \in DOMAIN w
      BY <1>4, <2>2
    <3>3. PICK m \in Nat \ {0}, n \in Nat \ {0} :
            m = w[1].cookie /\ n = w[l].cookie /\ n \in DOMAIN c /\ w[l].objs = c[n].args.objs /\ m < n
      <4>1. /\ w[1].cookie \in DOMAIN c /\ w[l].cookie \in DOMAIN c /\ w[1].cookie < w[l].cookie
            /\ w[l].objs = c[w[l].cookie].args.objs
        BY <3>1, <3>2 DEF Fits, AtRead
      <4>2. DOMAIN c \subseteq Nat \ {0}
        OBVIOUS
      <4> QED
        BY <4>1, <4>2
    <3>4. n # 1 /\ c[n] \in ClientFrames
      BY <3>3
    <3>5. c[n].kind = "suspend"
      BY <1>1, <3>3, <3>4, KindFacts DEF ClientInv, ClientShape
    <3>6. c[n].args = SuspendArgs
      BY <1>1, <3>3, <3>5 DEF ClientInv, ClientShape
    <3>7. w[l].objs = <<>>
      BY <3>3, <3>6 DEF SuspendArgs
    <3> QED
      BY <1>4, <3>7
  <2> QED
    BY <2>1, <2>2
<1>5. PICK s : s = w[1].objs /\ IsInjective(s)
  <2>1. w # <<>>
    BY <1>1, <1>2 DEF Entry
  <2>2. w[1] \in WaitRecords
    BY <2>1
  <2> QED
    BY <2>2 DEF WaitRecords
<1>6. e.level = 1 /\ f.level = 1 /\ e.idx \in DOMAIN s /\ f.idx \in DOMAIN s /\ s[e.idx] = s[f.idx]
  BY <1>1, <1>2, <1>4, <1>5 DEF Entry
<1>7. e.idx = f.idx
  BY <1>5, <1>6 DEF IsInjective
<1> QED
  BY <1>1, <1>3, <1>6, <1>7 DEF Entries

\* wake_up finds its cursor in the queue.
LEMMA WakeUpNested ==
  ASSUME TypeInv, SelectInv, ClientInv, WaitInv, Nested(stack, queue, dead), WakeUp
  PROVE  Nested(stack', queue, dead) /\ ~corrupt'
<1>1. PICK f \in ServerFrames(dead) :
        /\ f = Top(stack) /\ f = stack[Len(stack)] /\ f.op = "wake_up" /\ f.x \in Objects
        /\ stack \in Seq(ServerFrames(dead)) /\ stack # <<>> /\ Len(stack) \in DOMAIN stack /\ ~corrupt
  <2>1. stack \in Seq(ServerFrames(dead)) /\ stack # <<>> /\ Top(stack).op = "wake_up" /\ ~corrupt
    BY DEF TypeInv, WakeUp
  <2>2. /\ Top(stack) \in ServerFrames(dead) /\ Top(stack) = stack[Len(stack)] /\ Len(stack) \in DOMAIN stack
    BY <2>1, TopPop
  <2> QED
    BY <2>1, <2>2, FrameTypes
<1>2. PICK q \in Seq(Entries) : q = queue[f.x] /\ DOMAIN q = 1..Len(q) /\ Len(q) \in Nat
  BY <1>1 DEF TypeInv
<1>3. f.next \in {Start, End} \cup Range(q)
  BY <1>1, <1>2 DEF Nested
<1>4. PICK cursor : cursor = IF f.next # Start THEN f.next ELSE IF q = <<>> THEN End ELSE q[1]
  OBVIOUS
<1>5. cursor \in {End} \cup Range(q)
  BY <1>2, <1>3, <1>4 DEF Range
<1>6. \/ cursor = End /\ stack' = Pop(stack) /\ corrupt' = corrupt
      \/ cursor # End /\ cursor \notin Range(q)
      \/ \E i \in DOMAIN q :
           /\ stack' = Pop(stack) \o <<[f EXCEPT !.next = IF i = Len(q) THEN End ELSE q[i + 1]],
                                       CallWakeThread(q[i].thread)>>
           /\ corrupt' = corrupt
  BY <1>1, <1>2, <1>4 DEF WakeUp
<1>7. ASSUME NEW i \in DOMAIN q,
             stack' = Pop(stack) \o <<[f EXCEPT !.next = IF i = Len(q) THEN End ELSE q[i + 1]],
                                      CallWakeThread(q[i].thread)>>
      PROVE  Nested(stack', queue, dead)
  <2>1. PICK n \in Entries \cup {End} :
          /\ n = IF i = Len(q) THEN End ELSE q[i + 1]
          /\ n = End \/ (n \in Range(q) /\ n.thread # q[i].thread)
    <3>1. CASE i = Len(q)
      BY <3>1
    <3>2. CASE i # Len(q)
      <4>1. i + 1 \in DOMAIN q /\ i + 1 # i
        BY <1>2, <3>2
      <4>2. q[i] \in Range(q) /\ q[i + 1] \in Range(q) /\ q[i + 1] \in Entries
        BY <4>1 DEF Range
      <4>3. IsInjective(q)
        BY <1>1, <1>2 DEF WaitInv, QueueInv
      <4>4. q[i + 1] # q[i]
        BY <4>1, <4>3 DEF IsInjective
      <4>5. q[i + 1].thread # q[i].thread
        BY <1>1, <1>2, <4>2, <4>4, OnceQueued
      <4> QED
        BY <3>2, <4>2, <4>5
    <3> QED
      BY <3>1, <3>2
  <2>2. PICK h \in ServerFrames(dead) : h = [f EXCEPT !.next = n] /\ h.op = "wake_up" /\ h.x = f.x /\ h.next = n
    <3>1. [f EXCEPT !.next = n] \in ServerFrames(dead)
      BY <1>1, FrameTypes
    <3>2. f.op = "wake_up" /\ DOMAIN f = {"op", "x", "n", "next"}
      BY <1>1 DEF ServerFrames
    <3> QED
      BY <3>1, <3>2
  <2>3. PICK g \in ServerFrames(dead) : g = CallWakeThread(q[i].thread) /\ g.op = "wake_thread" /\ g.x = q[i].thread
    <3>0. \A e \in Entries : e.thread \in Threads
      BY DEF Entries
    <3>1. q[i].thread \in Threads
      BY <3>0
    <3>2. CallWakeThread(q[i].thread) \in ServerFrames(dead)
      BY <3>1, FrameTypes
    <3> QED
      BY <3>2 DEF CallWakeThread, Frame
  <2>4. h.next = End \/ (h.next \in Range(queue[h.x]) /\ h.next.thread # g.x)
    BY <1>2, <2>1, <2>2, <2>3
  <2>5. Nested(Pop(stack) \o <<h, g>>, queue, dead)
    BY <1>1, <2>2, <2>3, <2>4, RoundNested
  <2> QED
    BY <1>7, <2>1, <2>2, <2>3, <2>5
<1>8. Nested(Pop(stack), queue, dead)
  BY <1>1, PopNested
<1>9. cursor = End \/ cursor \in Range(q)
  BY <1>5
<1>10. Nested(stack', queue, dead)
  BY <1>6, <1>7, <1>8, <1>9
<1>11. ~corrupt'
  BY <1>1, <1>6, <1>9
<1> QED
  BY <1>10, <1>11

\* A client that is gone is being killed: only a thread that exits goes without its process.
GoneInv == \A t \in gone \ dead : stack = <<CallKill(t)>> /\ waits[t] = <<>>

\* The calls that a function begins, returns to or changes, when it is alone.
LEMMA AloneSteps ==
  ASSUME NEW S, NEW f \in S, NEW g \in S
  PROVE  /\ <<>> \o <<>> = <<>> /\ <<>> \o <<g>> = <<g>>
         /\ [<<f>> EXCEPT ![1] = g] = <<g>> /\ <<f>> \o <<>> = <<f>> /\ <<f>> \o <<g>> = <<f, g>>
<1>1. <<f>> \o <<>> = <<f>> /\ <<f>> \o <<g>> = <<f, g>>
  BY PairSeq
<1>2. <<>> \o <<>> = <<>>
  <2>1. <<>> \in Seq(S)
    BY EmptySeq
  <2> QED
    BY <2>1
<1>3. <<>> \o <<g>> = <<g>>
  <2>1. <<>> \in Seq(S) /\ <<g>> \in Seq(S)
    BY EmptySeq
  <2>2. Len(<<>> \o <<g>>) = 1 /\ (<<>> \o <<g>>)[1] = g
    BY <2>1
  <2>3. <<>> \o <<g>> \in Seq(S)
    BY <2>1
  <2> QED
    BY <2>1, <2>2, <2>3
<1>4. [<<f>> EXCEPT ![1] = g] = <<g>>
  OBVIOUS
<1> QED
  BY <1>1, <1>2, <1>3, <1>4

\* wake_thread: the client is there, and the queues lose entries of its thread only.
LEMMA WakeThreadNested ==
  ASSUME TypeInv, DeadInv, GoneInv, Nested(stack, queue, dead), WakeThread
  PROVE  Nested(stack', queue', dead') /\ ~corrupt'
<1>1. PICK f \in ServerFrames(dead) :
        /\ f = Top(stack) /\ f.op = "wake_thread" /\ f.x \in Threads /\ f.n \in Nat
        /\ stack \in Seq(ServerFrames(dead)) /\ stack # <<>> /\ ~corrupt
  <2>1. stack \in Seq(ServerFrames(dead)) /\ stack # <<>> /\ Top(stack).op = "wake_thread" /\ ~corrupt
    BY DEF TypeInv, WakeThread
  <2>2. Top(stack) \in ServerFrames(dead)
    BY <2>1, TopPop
  <2>3. Top(stack).op \in ThreadOps
    BY <2>1 DEF ThreadOps
  <2> QED
    BY <2>1, <2>2, <2>3, FrameTypes
<1>2. PICK t \in Threads : t = f.x
  BY <1>1
<1>3. waits[t] # <<>> /\ dead' = dead /\ queue' = Unqueued(t, Len(waits[t])) /\ corrupt' = corrupt
  BY <1>1, <1>2 DEF WakeThread, Wakeable, Acquire, Satisfied, objVars, EndWait
<1>4. t \notin gone
  BY <1>3 DEF DeadInv, GoneInv
<1>5. stack' = [stack EXCEPT ![Len(stack)].n = f.n + 1]
  BY <1>1, <1>2, <1>4, TopPop DEF WakeThread
<1>6. PICK g \in ServerFrames(dead) : g = [f EXCEPT !.n = f.n + 1] /\ g.op = f.op /\ g.x = f.x /\ g.next = f.next
  <2>1. f.n + 1 \in Nat
    BY <1>1
  <2>2. [f EXCEPT !.n = f.n + 1] \in ServerFrames(dead)
    BY <2>1, FrameTypes
  <2>3. LET h == [f EXCEPT !.n = f.n + 1] IN h.op = f.op /\ h.x = f.x /\ h.next = f.next
    OBVIOUS
  <2> QED
    BY <2>2, <2>3
<1>7. f.n + 1 \in Nat
  BY <1>1
<1>8. stack' = [stack EXCEPT ![Len(stack)] = g]
  BY <1>1, <1>5, <1>6, <1>7, StackTypes
<1>9. /\ stack' \in Seq(ServerFrames(dead)) /\ stack' # <<>> /\ Top(stack') = g
      /\ Nested(stack', queue, dead)
  <2> DEFINE r == [stack EXCEPT ![Len(stack)] = g]
  <2>1. r \in Seq(ServerFrames(dead)) /\ r # <<>> /\ Top(r) = g
    BY <1>1, ReplaceTop
  <2>2. g.op = Top(stack).op /\ g.x = Top(stack).x /\ g.next = Top(stack).next
    BY <1>1, <1>6
  <2>3. Nested(r, queue, dead)
    BY <1>1, <2>2, EqualNested
  <2> QED
    BY <1>8, <2>1, <2>3
<1>10. \A o \in Objects : \A e \in Range(queue[o]) : e.thread # Top(stack').x => e \in Range(queue'[o])
  <2>1. queue \in [Objects -> Seq(Entries)]
    BY DEF TypeInv
  <2>2. \A o \in Objects : Range(queue'[o]) = {e \in Range(queue[o]) : e.thread # t \/ e.level # Len(waits[t])}
    BY <1>3, <2>1, UnqueuedFacts
  <2> QED
    BY <1>2, <1>6, <1>9, <2>2
<1>11. Nested(stack', queue', dead)
  BY <1>1, <1>6, <1>9, <1>10, LessNested
<1> QED
  BY <1>1, <1>3, <1>11

\* The other functions of the server, which run alone or call wake_up.
LEMMA FunctionNested ==
  ASSUME TypeInv, GoneInv, Nested(stack, queue, dead),
         Kill \/ Abandon \/ Cleanup \/ PulseReset \/ SelectRest \/ TimerSignals
  PROVE  Nested(stack', queue', dead') /\ ~corrupt'
<1>1. /\ stack # <<>> /\ ~corrupt
      /\ Top(stack).op \in {"kill", "abandon", "cleanup", "reset", "select", "expire"}
  BY DEF Kill, Abandon, Cleanup, PulseReset, SelectRest, TimerSignals
<1>2. PICK f \in ServerFrames(dead) :
        stack = <<f>> /\ Top(stack) = f /\ Len(stack) = 1 /\ Pop(stack) = <<>> /\ Outer(f, dead)
  BY <1>1, Alone
<1>3. \A o : Inner(CallWakeUp(o, 0))
  BY DEF Inner, Begins, CallWakeUp, Frame
<1>4. /\ Nested(<<>>, queue', dead') /\ \A o : Nested(<<CallWakeUp(o, 0)>>, queue', dead')
      /\ \A g : Outer(g, dead') => Nested(<<g>>, queue', dead')
      /\ \A g, o : Outer(g, dead') => Nested(<<g, CallWakeUp(o, 0)>>, queue', dead')
  BY <1>3, NestedFew
<1>5. /\ \A g : <<>> \o <<>> = <<>> /\ <<>> \o <<g>> = <<g>>
      /\ \A g, h : [<<h>> EXCEPT ![1] = g] = <<g>> /\ <<h>> \o <<>> = <<h>> /\ <<h>> \o <<g>> = <<h, g>>
  <2>1. ASSUME NEW g, NEW h
        PROVE  /\ <<>> \o <<>> = <<>> /\ <<>> \o <<g>> = <<g>>
               /\ [<<h>> EXCEPT ![1] = g] = <<g>> /\ <<h>> \o <<>> = <<h>> /\ <<h>> \o <<g>> = <<h, g>>
    <3>1. g \in {g, h} /\ h \in {g, h}
      OBVIOUS
    <3> QED
      BY <3>1, AloneSteps
  <2> QED
    BY <2>1
<1>6. ASSUME NEW op, op \in {"abandon", "cleanup"}
      PROVE  /\ Outer([f EXCEPT !.op = op], dead')
             /\ [stack EXCEPT ![Len(stack)].op = op] = <<[f EXCEPT !.op = op]>>
  <2>1. [f EXCEPT !.op = op].op = op
    BY DEF ServerFrames
  <2>2. [stack EXCEPT ![Len(stack)].op = op] = [<<f>> EXCEPT ![1] = [f EXCEPT !.op = op]]
    BY <1>2
  <2> QED
    BY <1>5, <1>6, <2>1, <2>2 DEF Outer
<1>7. CASE Kill
  <2>1. CASE f.x \in dead
    BY <1>1, <1>2, <1>4, <1>7, <2>1 DEF Kill
  <2>2. CASE f.x \notin dead
    <3>1. ~(waits[f.x] # <<>> /\ f.x \in gone)
      BY <2>2 DEF GoneInv
    <3>2. PICK g : g = [f EXCEPT !.op = "abandon"] /\ Outer(g, dead') /\ [stack EXCEPT ![Len(stack)].op = "abandon"] = <<g>>
      BY <1>6
    <3>3. stack' = <<g>> \o <<>> /\ corrupt' = corrupt
      BY <1>2, <1>7, <2>2, <3>1, <3>2 DEF Kill
    <3>4. stack' = <<g>>
      BY <1>5, <3>3
    <3> QED
      BY <1>1, <1>4, <3>2, <3>3, <3>4
  <2> QED
    BY <2>1, <2>2
<1>8. CASE Abandon
  <2>1. dead' = dead /\ corrupt' = corrupt
    BY <1>8 DEF Abandon
  <2>2. PICK g : g = [f EXCEPT !.op = "cleanup"] /\ Outer(g, dead') /\ [stack EXCEPT ![Len(stack)].op = "cleanup"] = <<g>>
    BY <1>6
  <2>3. PICK o : stack' = <<f>> \o <<CallWakeUp(o, 0)>> \/ stack' = <<g>> \o <<CallWakeUp(o, 0)>>
    BY <1>2, <1>8, <2>2 DEF Abandon
  <2>4. PICK c : c = CallWakeUp(o, 0)
    OBVIOUS
  <2>5. stack' = <<f, c>> \/ stack' = <<g, c>>
    BY <1>5, <2>3, <2>4
  <2>6. Outer(f, dead')
    BY <1>2, <2>1
  <2>7. Nested(<<f, c>>, queue', dead') /\ Nested(<<g, c>>, queue', dead')
    BY <1>4, <2>2, <2>4, <2>6
  <2> QED
    BY <1>1, <2>1, <2>5, <2>7
<1>9. CASE Cleanup
  <2>1. corrupt' = corrupt /\ (stack' = <<>> \o <<>> \/ \E p : stack' = <<>> \o <<CallWakeUp(p, 0)>>)
    BY <1>2, <1>9 DEF Cleanup
  <2> QED
    BY <1>1, <1>4, <1>5, <2>1
<1>10. CASE PulseReset
  BY <1>1, <1>2, <1>4, <1>10 DEF PulseReset
<1>11. CASE SelectRest
  <2>1. f.op = "select" /\ f.x \notin dead
    BY <1>2, <1>11 DEF SelectRest, Outer
  <2>2. stack' = <<>> /\ corrupt' = corrupt
    BY <1>2, <1>11, <2>1 DEF SelectRest
  <2> QED
    BY <1>1, <1>4, <2>2
<1>12. CASE TimerSignals
  <2>1. corrupt' = corrupt /\ \E r : stack' = <<>> \o <<CallWakeUp(r, 0)>>
    BY <1>2, <1>12 DEF TimerSignals
  <2> QED
    BY <1>1, <1>4, <1>5, <2>1
<1> QED
  BY <1>7, <1>8, <1>9, <1>10, <1>11, <1>12

\* The server's steps inside a request.
LEMMA ServerNested ==
  ASSUME TypeInv, SelectInv, DeadInv, ClientInv, WaitInv, GoneInv, Nested(stack, queue, dead), ServerActions
  PROVE  Nested(stack', queue', dead') /\ ~corrupt'
<1>1. CASE WakeUp
  <2>1. queue' = queue /\ dead' = dead
    BY <1>1 DEF WakeUp, objVars, waitVars
  <2> QED
    BY <1>1, <2>1, WakeUpNested
<1>2. CASE WakeThread
  BY <1>2, WakeThreadNested
<1>3. CASE WakeThreadEnd
  <2>1. stack # <<>> /\ ~corrupt /\ queue' = queue /\ dead' = dead /\ corrupt' = corrupt /\ stack' = AfterWake(Top(stack).n)
    BY <1>3 DEF WakeThreadEnd, objVars, waitVars
  <2>2. Top(stack).n \in Nat
    <3>1. Top(stack) \in ServerFrames(dead)
      BY <2>1, StackTypes DEF TypeInv
    <3> QED
      BY <3>1, FrameTypes
  <2> QED
    BY <2>1, <2>2, AfterWakeNested
<1> QED
  BY <1>1, <1>2, <1>3, FunctionNested DEF ServerActions

\* The calls that requests and timeouts begin.
LEMMA BegunNested ==
  ASSUME NEW q, NEW d
  PROVE  /\ Nested(<<>>, q, d)
         /\ \A o, n : Nested(SignalCalls(o, n), q, d)
         /\ \A v, u, o : Nested(QueueCalls(v, u, o), q, d)
         /\ \A x : Nested(<<CallKill(x)>>, q, d) /\ Nested(<<CallWakeThread(x)>>, q, d)
         /\ \A f : Outer(f, d) => Nested(<<f>>, q, d)
         /\ \A f, o, n : Outer(f, d) => Nested(<<f>> \o SignalCalls(o, n), q, d)
         /\ \A f, v, u, o : Outer(f, d) => Nested(<<f>> \o QueueCalls(v, u, o), q, d)
<1>1. /\ Nested(<<>>, q, d) /\ \A f : Outer(f, d) \/ Inner(f) => Nested(<<f>>, q, d)
      /\ \A f, g : Outer(f, d) /\ Inner(g) => Nested(<<f, g>>, q, d)
  BY NestedFew
<1>2. /\ \A x : Outer(CallKill(x), d) /\ Inner(CallWakeThread(x))
      /\ \A o, n : Inner(CallWakeUp(o, n))
  BY DEF Outer, Inner, Begins, CallKill, CallWakeThread, CallWakeUp, Frame
<1>3. ASSUME NEW o, NEW n PROVE SignalCalls(o, n) = <<>> \/ \E g : Inner(g) /\ SignalCalls(o, n) = <<g>>
  <2>1. SignalCalls(o, n) = <<>> \/ \E k : SignalCalls(o, n) = <<CallWakeUp(o, k)>>
    BY DEF SignalCalls
  <2> QED
    BY <1>2, <2>1
<1>4. ASSUME NEW v, NEW u, NEW o PROVE QueueCalls(v, u, o) = <<>> \/ \E g : Inner(g) /\ QueueCalls(v, u, o) = <<g>>
  BY <1>2 DEF QueueCalls
<1>5. ASSUME NEW c, c = <<>> \/ \E g : Inner(g) /\ c = <<g>>
      PROVE  Nested(c, q, d) /\ \A f : Outer(f, d) => Nested(<<f>> \o c, q, d)
  <2>1. CASE c = <<>>
    <3>1. \A f : <<f>> \o c = <<f>>
      BY <2>1, PairSeq
    <3> QED
      BY <1>1, <2>1, <3>1
  <2>2. ASSUME NEW g, Inner(g), c = <<g>> PROVE Nested(c, q, d) /\ \A f : Outer(f, d) => Nested(<<f>> \o c, q, d)
    <3>1. \A f : <<f>> \o c = <<f, g>>
      BY <2>2, PairSeq
    <3> QED
      BY <1>1, <2>2, <3>1
  <2> QED
    BY <1>5, <2>1, <2>2
<1>6. \A o, n : Nested(SignalCalls(o, n), q, d) /\ \A f : Outer(f, d) => Nested(<<f>> \o SignalCalls(o, n), q, d)
  BY <1>3, <1>5
<1>7. \A v, u, o : /\ Nested(QueueCalls(v, u, o), q, d)
                   /\ \A f : Outer(f, d) => Nested(<<f>> \o QueueCalls(v, u, o), q, d)
  BY <1>4, <1>5
<1> QED
  BY <1>1, <1>2, <1>6, <1>7

\* The requests, and the timeouts of the main loop.
LEMMA RequestNested ==
  ASSUME TypeInv, ~corrupt, Nested(stack, queue, dead),
         \/ \E t \in Threads : ClientActions(t) \/ RequestActions(t) \/ OtherActions(t)
         \/ \E r \in Timers : TimerExpires(r)
  PROVE  Nested(stack', queue', dead') /\ ~corrupt'
<1>1. CASE \E t \in Threads : ClientActions(t)
  <2>1. stack' = <<>> /\ corrupt' = corrupt
    BY <1>1 DEF ClientActions, SelectAgain, ReadReply, GetApc, LeaveSuspend, ClientDies, TakeSignal, SetContext, Idle
  <2> QED
    BY <2>1, BegunNested
<1>2. ASSUME NEW t \in Threads, OtherActions(t) PROVE Nested(stack', queue', dead') /\ ~corrupt'
  <2>1. corrupt' = corrupt /\ (stack' = <<>> \/ stack' = <<CallWakeThread(t)>> \/ stack' = <<CallKill(t)>>)
    BY <1>2 DEF OtherActions, TimePasses, ThreadTimeout, PollHup, Idle
  <2> QED
    BY <2>1, BegunNested
<1>3. ASSUME NEW r \in Timers, TimerExpires(r) PROVE Nested(stack', queue', dead') /\ ~corrupt'
  <2>1. Outer(Frame("expire", r, 0, End), dead')
    BY DEF Outer, Frame
  <2>2. /\ corrupt' = corrupt
        /\ \/ \E u : stack' = <<Frame("expire", r, 0, End)>> \o QueueCalls(user_apc, u, r)
           \/ stack' = <<Frame("expire", r, 0, End)>>
    BY <1>3 DEF TimerExpires
  <2> QED
    BY <2>1, <2>2, BegunNested
<1>4. ASSUME NEW t \in Threads, RequestActions(t) PROVE Nested(stack', queue', dead') /\ ~corrupt'
  <2>1. CASE \E o \in Objects, a \in WaitArgs : SelectSignal(t, o, a)
    <3>1. PICK o \in Objects, a \in WaitArgs : SelectSignal(t, o, a)
      BY <2>1
    <3>2. dead' = dead /\ t \notin dead /\ corrupt' = corrupt
      BY <3>1 DEF SelectSignal, Runs, Signal, mutex_signal, release_semaphore, set_event
    <3>3. Outer(Frame("select", t, 0, End), dead')
      BY <3>2 DEF Outer, Frame
    <3>4. stack' = <<Frame("select", t, 0, End)>> \o SignalCalls(o, 1)
      BY <3>1 DEF SelectSignal
    <3> QED
      BY <3>2, <3>3, <3>4, BegunNested
  <2>2. CASE \E o \in Objects, n \in Nat \ {0} : SignalObject(t, o, n)
    <3>1. corrupt' = corrupt /\ \E o, n : stack' = SignalCalls(o, n)
      BY <2>2 DEF SignalObject
    <3> QED
      BY <3>1, BegunNested
  <2>3. CASE \E e \in Events : PulseEvent(t, e)
    <3>1. PICK e : corrupt' = corrupt /\ stack' = <<Frame("reset", e, 0, End)>> \o SignalCalls(e, 1)
      BY <2>3 DEF PulseEvent
    <3>2. Outer(Frame("reset", e, 0, End), dead')
      BY DEF Outer, Frame
    <3> QED
      BY <3>1, <3>2, BegunNested
  <2>4. CASE \E u \in Threads : TerminateThread(t, u) \/ ResumeThread(t, u) \/ ExitThread(t)
    <3>1. corrupt' = corrupt /\ (stack' = <<>> \/ \E u : stack' = <<CallKill(u)>> \/ stack' = <<CallWakeThread(u)>>)
      BY <2>4 DEF TerminateThread, ResumeThread, ExitThread
    <3> QED
      BY <3>1, BegunNested
  <2>5. CASE \E u \in Threads, system \in BOOLEAN : QueueApc(t, u, system)
    <3>1. corrupt' = corrupt /\ \E q, u : stack' = QueueCalls(q, u, NoOwner)
      BY <2>5 DEF QueueApc
    <3> QED
      BY <3>1, BegunNested
  <2>6. ASSUME \/ \E a \in WaitArgs : Select(t, a)
               \/ \E e \in Events : ResetEvent(t, e)
               \/ \E r \in Timers : CancelTimer(t, r) \/ \E period, apc \in BOOLEAN : SetTimer(t, r, period, apc)
               \/ \E u \in Threads : SuspendThread(t, u)
        PROVE  Nested(stack', queue', dead') /\ ~corrupt'
    <3>1. stack' = <<>> /\ corrupt' = corrupt
      BY <2>6 DEF Select, ResetEvent, CancelTimer, SetTimer, SuspendThread, Idle
    <3> QED
      BY <3>1, BegunNested
  <2> QED
    BY <1>4, <2>1, <2>2, <2>3, <2>4, <2>5, <2>6 DEF RequestActions
<1> QED
  BY <1>1, <1>2, <1>3, <1>4

\* Who goes: a thread that exits, a client told that it was killed, or one whose thread is dead.
LEMMA GoneSteps ==
  ASSUME TypeInv, WaitInv, Next, ~load.crashes
  PROVE  \/ gone' = gone
         \/ Idle /\ \E t \in Threads : gone' = gone \cup {t} /\ (t \in dead \/ ExitThread(t))
<1>1. CASE ServerActions
  BY <1>1 DEF ServerActions, WakeUp, WakeThread, WakeThreadEnd, Kill, Abandon, Cleanup, PulseReset, SelectRest,
              TimerSignals, clientVars
<1>2. ASSUME NEW t \in Threads, ReadReply(t), gone' = gone \cup {t}, t \notin gone, t \notin dead PROVE FALSE
  <2>1. /\ Idle /\ pipe[t] # <<>> /\ pipe[t] \in Seq(Replies) /\ client[t] \in Seq(ClientFrames)
        /\ (Head(pipe[t]).cookie = Null \/ gone' = gone)
    BY <1>2 DEF ReadReply, TypeInv
  <2>2. Head(pipe[t]).cookie = Null
    BY <1>2, <2>1
  <2>3. 1 \in DOMAIN pipe[t] /\ Head(pipe[t]) = pipe[t][1]
    BY <2>1, EmptySeq
  <2>4. Holds(pipe[t], 0)
    BY <2>2, <2>3 DEF Holds, Null
  <2>5. Answered(waits[t], pipe[t], client[t])
    BY <1>2 DEF WaitInv, ReplyInv
  <2>6. AtRead(client[t], 0)
    BY <2>4, <2>5 DEF Answered
  <2>7. 0 \notin DOMAIN client[t]
    BY <2>1
  <2> QED
    BY <2>6, <2>7 DEF AtRead
<1>3. ASSUME NEW t \in Threads, ClientActions(t)
      PROVE  gone' = gone \/ (Idle /\ gone' = gone \cup {t} /\ t \in dead)
  <2>1. CASE ReadReply(t)
    <3>1. Idle /\ t \notin gone /\ (gone' = gone \cup {t} \/ gone' = gone)
      BY <2>1 DEF ReadReply
    <3> QED
      BY <1>2, <2>1, <3>1
  <2>2. CASE ClientDies(t)
    BY <2>2 DEF ClientDies
  <2>3. CASE SelectAgain(t) \/ GetApc(t) \/ LeaveSuspend(t) \/ TakeSignal(t) \/ SetContext(t)
    BY <2>3 DEF SelectAgain, GetApc, LeaveSuspend, TakeSignal, SetContext
  <2> QED
    BY <1>3, <2>1, <2>2, <2>3 DEF ClientActions
<1>4. ASSUME NEW t \in Threads, RequestActions(t)
      PROVE  gone' = gone \/ (Idle /\ gone' = gone \cup {t} /\ ExitThread(t))
  <2>1. CASE ExitThread(t)
    BY <2>1 DEF ExitThread
  <2>2. CASE ~ExitThread(t)
    BY <1>4, <2>2 DEF RequestActions, Select, SelectSignal, SignalObject, PulseEvent, ResetEvent, CancelTimer,
              SetTimer, TerminateThread, SuspendThread, ResumeThread, QueueApc, clientVars
  <2> QED
    BY <2>1, <2>2
<1>5. ASSUME NEW t \in Threads, OtherActions(t) PROVE gone' = gone
  BY <1>5 DEF OtherActions, TimePasses, ThreadTimeout, PollHup, clientVars
<1>6. ASSUME NEW r \in Timers, TimerExpires(r) PROVE gone' = gone
  BY <1>6 DEF TimerExpires, clientVars
<1> QED
  BY <1>1, <1>3, <1>4, <1>5, <1>6, NextActions

\* A client that is gone is killed by the step that follows, as the server is not idle.
LEMMA GoneStep ==
  ASSUME TypeInv, WaitInv, GoneInv, Next, ~load.crashes
  PROVE  GoneInv'
<1>1. dead \subseteq dead'
  <2>1. CASE Kill
    BY <2>1 DEF Kill
  <2>2. CASE ~Kill
    BY <2>2, DeadStep DEF DeadSteps
  <2> QED
    BY <2>1, <2>2
<1>2. CASE gone \subseteq dead /\ gone' = gone
  BY <1>1, <1>2 DEF GoneInv
<1>3. ASSUME NEW t \in gone \ dead PROVE GoneInv'
  <2>1. t \in Threads /\ stack = <<CallKill(t)>> /\ waits[t] = <<>>
    BY <1>3 DEF GoneInv, TypeInv
  <2>2. stack # <<>> /\ Top(stack) = CallKill(t) /\ CallKill(t).op = "kill" /\ CallKill(t).x = t
    BY <2>1 DEF Top, CallKill, Frame
  <2>3. ~Idle
    BY <2>2 DEF Idle
  <2>4. gone' = gone
    BY <2>3, GoneSteps
  <2>5. CASE Kill
    <3>1. dead' = dead \cup {t}
      BY <1>3, <2>2, <2>5 DEF Kill
    <3>2. \A u \in gone \ dead : u = t
      <4>1. ASSUME NEW u \in gone \ dead PROVE u = t
        <5>1. stack = <<CallKill(u)>> /\ CallKill(u).x = u
          BY DEF GoneInv, CallKill, Frame
        <5> QED
          BY <2>1, <2>2, <5>1
      <4> QED
        BY <4>1
    <3> QED
      BY <2>4, <3>1, <3>2 DEF GoneInv
  <2>6. CASE ~Kill
    <3>1. ~ServerActions
      <4>1. Top(stack).op = "kill"
        BY <2>2
      <4>2. /\ ~WakeUp /\ ~WakeThread /\ ~WakeThreadEnd /\ ~Abandon /\ ~Cleanup
            /\ ~PulseReset /\ ~SelectRest /\ ~TimerSignals
        BY <4>1 DEF WakeUp, WakeThread, WakeThreadEnd, Abandon, Cleanup, PulseReset, SelectRest, TimerSignals
      <4> QED
        BY <2>6, <4>2 DEF ServerActions
    <3>2. \A u \in Threads : ~ClientActions(u) /\ ~RequestActions(u) /\ ~OtherActions(u)
      <4>1. ASSUME NEW u \in Threads PROVE ~ClientActions(u)
        BY <2>3 DEF ClientActions, SelectAgain, ReadReply, GetApc, LeaveSuspend, ClientDies, TakeSignal, SetContext
      <4>2. ASSUME NEW u \in Threads PROVE ~RequestActions(u)
        BY <2>3 DEF RequestActions, Select, SelectSignal, SignalObject, PulseEvent, ResetEvent, CancelTimer, SetTimer,
              ExitThread, TerminateThread, SuspendThread, ResumeThread, QueueApc
      <4>3. ASSUME NEW u \in Threads PROVE ~OtherActions(u)
        BY <2>3 DEF OtherActions, TimePasses, ThreadTimeout, PollHup
      <4> QED
        BY <4>1, <4>2, <4>3
    <3>3. \A r \in Timers : ~TimerExpires(r)
      BY <2>3 DEF TimerExpires
    <3> QED
      BY <3>1, <3>2, <3>3, NextActions
  <2> QED
    BY <2>5, <2>6
<1>4. ASSUME gone \subseteq dead, NEW t \in Threads, Idle, gone' = gone \cup {t}, ExitThread(t) PROVE GoneInv'
  <2>1. stack' = <<CallKill(t)>> /\ waits' = waits /\ dead' = dead /\ client[t] = <<>>
    BY <1>4 DEF ExitThread, waitVars, objVars, Runs
  <2>2. waits[t] = <<>>
    <3>1. Fits(waits[t], client[t])
      BY <1>4, IdleSelecting DEF WaitInv, ReplyInv
    <3>2. \A n : ~AtRead(client[t], n)
      BY <2>1 DEF AtRead
    <3>3. waits[t] \in Seq(WaitRecords)
      BY DEF TypeInv
    <3>4. waits[t] # <<>> => 1 \in DOMAIN waits[t]
      BY <3>3, EmptySeq
    <3> QED
      BY <3>1, <3>2, <3>4 DEF Fits
  <2> QED
    BY <1>4, <2>1, <2>2 DEF GoneInv
<1>5. ASSUME gone \subseteq dead, NEW t \in dead, gone' = gone \cup {t} PROVE GoneInv'
  BY <1>1, <1>5 DEF GoneInv
<1> QED
  BY <1>2, <1>3, <1>4, <1>5, GoneSteps

\* Without crashes a step of the server corrupts nothing and keeps its calls nested.
LEMMA CrashInvStep ==
  ASSUME TypeInv, SelectInv, DeadInv, ClientInv, WaitInv, CrashInv, [Next]_vars
  PROVE  CrashInv'
<1>1. CASE UNCHANGED vars
  <2>1. UNCHANGED <<load, corrupt, stack, queue, gone, dead, waits>>
    BY <1>1 DEF vars, runVars, objVars, waitVars, clientVars
  <2>2. CrashInv' <=> CrashInv
    BY <2>1 DEF CrashInv, CallsInv, CursorInv, Top
  <2> QED
    BY <2>2
<1>2. ASSUME Next, ~load.crashes PROVE ~corrupt' /\ CallsInv' /\ CursorInv' /\ GoneInv'
  <2>1. ~corrupt /\ Nested(stack, queue, dead) /\ GoneInv
    BY <1>2, NestedForm DEF CrashInv, GoneInv
  <2>2. Nested(stack', queue', dead') /\ ~corrupt'
    BY <1>2, <2>1, NextActions, ServerNested, RequestNested
  <2> QED
    BY <1>2, <2>1, <2>2, NestedForm, GoneStep
<1>3. ASSUME Next PROVE load' = load
  BY <1>3, NextActions
<1> QED
  BY <1>1, <1>2, <1>3 DEF CrashInv, GoneInv

\* In every run without crashes the server's calls are nested as the code expects: no
\* wake_thread finds its client gone, so that kill_thread never runs inside the loop of
\* wake_up, and the cursor of the loop stays on an entry that is queued.
THEOREM CrashHolds == Spec => []CrashInv
<1>1. Init => CrashInv
  BY DEF Init, ObjInit, CrashInv, CallsInv, CursorInv
<1>2. TypeInv /\ SelectInv /\ DeadInv /\ ClientInv /\ WaitInv /\ CrashInv /\ [Next]_vars => CrashInv'
  BY CrashInvStep
<1> QED
  BY <1>1, <1>2, TypesHold, DeadHolds, ClientHolds, WaitHolds, PTL DEF Spec

\* LIST_FOR_EACH_SAFE in wake_up never follows an entry that was freed while it woke the
\* one before, and select_on never uses a current thread that was killed meanwhile, as long
\* as no process dies unnoticed: whatever nests in send_thread_wakeup needs a dead client.
THEOREM SafeWithoutCrashesHolds == Spec => []SafeWithoutCrashes
<1>1. TypeInv /\ CrashInv => SafeWithoutCrashes
  BY DEF CrashInv, SafeWithoutCrashes, TypeInv
<1> QED
  BY <1>1, TypesHold, CrashHolds, PTL

-----------------------------------------------------------------------------
(***************************************************************************)
(* No wake-up is lost by the workloads that Plain describes.               *)
(***************************************************************************)
\* The step ends no wait of the thread, but maybe that of one object.
Unchanged(u) ==
  /\ waits'[u] = waits[u] /\ (suspend'[u] = 0 => suspend[u] = 0)
  /\ system_apc[u] = <<>> => system_apc'[u] = <<>>
  /\ user_apc[u] = <<>> => user_apc'[u] = <<>>
Calmer(u) == Unchanged(u) /\ \A p \in Objects : Signaled(p, u)' => Signaled(p, u)
Rises(u, o) == Unchanged(u) /\ \A p \in Objects : Signaled(p, u)' => Signaled(p, u) \/ p = o

\* The innermost wait of a thread: its type.
LEMMA TopWait ==
  ASSUME TypeInv, NEW u \in Threads, waits[u] # <<>>
  PROVE  /\ Top(waits[u]) \in WaitRecords
         /\ Top(waits[u]).objs \in Seq(Objects)
         /\ \A i \in DOMAIN Top(waits[u]).objs : Top(waits[u]).objs[i] \in Objects
         /\ Len(waits[u]) \in DOMAIN waits[u] /\ Top(waits[u]) = waits[u][Len(waits[u])]
         /\ DOMAIN waits[u] = 1..Len(waits[u]) /\ Len(waits[u]) \in Nat \ {0}
         /\ suspend[u] \in Nat
<1>1. waits[u] \in Seq(WaitRecords) /\ suspend[u] \in Nat  BY DEF TypeInv
<1> HIDE DEF WaitRecords
<1>2. /\ Len(waits[u]) \in Nat \ {0} /\ Top(waits[u]) \in WaitRecords /\ Top(waits[u]) = waits[u][Len(waits[u])]
      /\ Len(waits[u]) \in DOMAIN waits[u] /\ DOMAIN waits[u] = 1..Len(waits[u])
  BY <1>1, TopPop
<1>3. Top(waits[u]).objs \in Seq(Objects)  BY <1>2 DEF WaitRecords
<1> QED  BY <1>1, <1>2, <1>3

\* A thread that waits although its wait is over was in that case before the step.
LEMMA CalmerMissed ==
  ASSUME TypeInv, NEW u \in Threads, Calmer(u), Missed(u)'
  PROVE  Missed(u) /\ \A o : Only(u, o) => Only(u, o)'
<1> DEFINE w == Top(waits[u])
<1>1. waits'[u] = waits[u] /\ waits[u] # <<>> /\ suspend[u] = 0  BY DEF Missed, Calmer, Unchanged
<1>2. \A i \in DOMAIN w.objs : w.objs[i] \in Objects  BY <1>1, TopWait
<1>3. SignaledAt(u, Top(waits[u]))' \subseteq SignaledAt(u, w)  BY <1>1, <1>2 DEF SignaledAt, Calmer
<1>4. SignaledAt(u, w) \subseteq DOMAIN w.objs  BY DEF SignaledAt
<1>5. Ready(u, Top(waits[u]))' => Ready(u, w)  BY <1>1, <1>3, <1>4 DEF Ready
<1>6. Pressing(u)' => Pressing(u)  BY <1>1 DEF Pressing, Interrupted, Calmer, Unchanged
<1>7. Missed(u)  BY <1>1, <1>5, <1>6 DEF Missed
<1>8. ASSUME NEW o, Only(u, o) PROVE Only(u, o)'  BY <1>1, <1>3, <1>6, <1>8 DEF Only
<1> QED  BY <1>7, <1>8

\* If it was not it waits for the object that is signaled.
LEMMA RisesMissed ==
  ASSUME TypeInv, NEW u \in Threads, NEW o, Rises(u, o), Missed(u)', ~Missed(u)
  PROVE  o \in Range(Top(waits[u]).objs) /\ Only(u, o)'
<1> DEFINE w == Top(waits[u])
<1>1. waits'[u] = waits[u] /\ waits[u] # <<>> /\ suspend[u] = 0  BY DEF Missed, Rises, Unchanged
<1>2. \A i \in DOMAIN w.objs : w.objs[i] \in Objects  BY <1>1, TopWait
<1>3. \A i \in SignaledAt(u, Top(waits[u]))' : i \in SignaledAt(u, w) \/ w.objs[i] = o
  BY <1>1, <1>2 DEF SignaledAt, Rises
<1>4. SignaledAt(u, w) \subseteq DOMAIN w.objs /\ SignaledAt(u, Top(waits[u]))' \subseteq DOMAIN w.objs
  BY <1>1 DEF SignaledAt
<1>5. ~Pressing(u) /\ ~Ready(u, w)  BY <1>1 DEF Missed
<1>6. ~Pressing(u)'  BY <1>1, <1>5 DEF Pressing, Interrupted, Rises, Unchanged
<1>7. Ready(u, Top(waits[u]))'  BY <1>6 DEF Missed
<1>8. CASE w.all
  <2>1. SignaledAt(u, Top(waits[u]))' = DOMAIN w.objs  BY <1>1, <1>7, <1>8 DEF Ready
  <2>2. PICK i \in DOMAIN w.objs : i \notin SignaledAt(u, w)  BY <1>4, <1>5, <1>8 DEF Ready
  <2>3. o \in Range(w.objs)  BY <1>3, <2>1, <2>2 DEF Range
  <2> QED  BY <1>1, <1>6, <1>8, <2>3 DEF Only
<1>9. CASE ~w.all
  <2>1. SignaledAt(u, w) = {} /\ SignaledAt(u, Top(waits[u]))' # {}  BY <1>1, <1>5, <1>7, <1>9 DEF Ready
  <2>2. PICK i \in DOMAIN w.objs : i \in SignaledAt(u, Top(waits[u]))'  BY <1>4, <2>1
  <2>3. o \in Range(w.objs)  BY <1>3, <2>1, <2>2 DEF Range
  <2> QED  BY <1>1, <1>3, <1>6, <2>1, <2>3 DEF Only
<1> QED  BY <1>8, <1>9

\* A thread that waits for an object is in its wait queue.
LEMMA AheadStart ==
  ASSUME NEW q, NEW v \in [Threads -> Seq(WaitRecords)], QueuesFit(q, v),
         NEW u \in Threads, v[u] # <<>>, NEW o \in Range(Top(v[u]).objs)
  PROVE  Ahead(Start, q[o], u)
<1>1. v[u] \in Seq(WaitRecords)  OBVIOUS
<1> HIDE DEF WaitRecords
<1>2. Len(v[u]) \in DOMAIN v[u] /\ Top(v[u]) = v[u][Len(v[u])]  BY <1>1, TopPop
<1>3. PICK i \in DOMAIN v[u][Len(v[u])].objs : o = v[u][Len(v[u])].objs[i]  BY <1>2 DEF Range
<1>4. [thread |-> u, level |-> Len(v[u]), idx |-> i] \in Range(q[o])  BY <1>2, <1>3 DEF QueuesFit
<1>5. PICK j \in DOMAIN q[o] : q[o][j] = [thread |-> u, level |-> Len(v[u]), idx |-> i]
  BY <1>4 DEF Range
<1>6. q[o][j].thread = u  BY <1>5
<1> QED  BY <1>5, <1>6 DEF Ahead

\* Acquiring objects signals nothing, for no thread.
LEMMA AcquireCalm ==
  ASSUME TypeInv, NEW t \in Threads, NEW w \in WaitRecords, Acquire(t, w), NEW u \in Threads, NEW p \in Objects,
         Signaled(p, u)'
  PROVE  Signaled(p, u)
<1>1. CASE CheckWait(t, w) \notin {"object", "abandoned"}
  <2>1. UNCHANGED objVars  BY <1>1 DEF Acquire
  <2> QED  BY <2>1 DEF objVars, Signaled, mutex_signaled, semaphore_signaled, event_signaled, timer_signaled,
              thread_signaled, process_signaled
<1>2. CASE CheckWait(t, w) \in {"object", "abandoned"}
  <2> DEFINE k == Taken(t, w)
  <2>1. Satisfied(t, k)  BY <1>2 DEF Acquire
  <2>2. suspend[t] \in Nat  BY DEF TypeInv
  <2>3. Ready(t, w)  BY <1>2, <2>2, CheckWaitReady
  <2>4. \A o \in Objects : k[o] \in {0, 1} /\ (k[o] = 1 => Signaled(o, t))  BY <2>3, TakenFacts
  <2> HIDE DEF k
  <2>5. ASSUME NEW m \in Mutexes, mcount'[m] = 0 \/ owner'[m] = u PROVE mcount[m] = 0 \/ owner[m] = u
    <3>1. m \in Objects /\ mcount[m] \in Nat  BY DEF Objects, TypeInv, ObjTypeOK
    <3>2. k[m] \in {0, 1} /\ mcount'[m] = mcount[m] + k[m]
      BY <2>1, <2>4, <3>1 DEF Satisfied, mutex_satisfied
    <3>3. owner'[m] # owner[m] => mcount[m] = 0  BY <2>1 DEF Satisfied, mutex_satisfied
    <3> QED  BY <2>5, <3>1, <3>2, <3>3
  <2>6. ASSUME NEW s \in Semaphores, scount'[s] > 0 PROVE scount[s] > 0
    <3>1. s \in Objects /\ scount[s] \in Nat  BY DEF Objects, TypeInv, ObjTypeOK
    <3>2. k[s] \in {0, 1} /\ scount'[s] = scount[s] - k[s]
      BY <2>1, <2>4, <3>1 DEF Satisfied, semaphore_satisfied
    <3> QED  BY <2>6, <3>1, <3>2
  <2>7. signaled' \subseteq signaled /\ dead' = dead /\ removed' = removed  BY <2>1 DEF Satisfied
  <2> QED  BY <2>5, <2>6, <2>7 DEF Signaled, mutex_signaled, semaphore_signaled, event_signaled, timer_signaled,
              thread_signaled, process_signaled
<1> QED  BY <1>1, <1>2

\* Releasing a mutex signals that mutex alone.
LEMMA ReleasedRise ==
  ASSUME TypeInv, NEW m \in Mutexes, Released(m), UNCHANGED <<scount, signaled, dead, removed>>,
         NEW u \in Threads, NEW p \in Objects, Signaled(p, u)'
  PROVE  Signaled(p, u) \/ p = m
<1>1. mcount' = [mcount EXCEPT ![m] = 0] /\ owner' = [owner EXCEPT ![m] = NoThread]  BY DEF Released
<1>2. mcount \in [Mutexes -> Nat] /\ owner \in [Mutexes -> Threads \cup {NoThread}]  BY DEF TypeInv, ObjTypeOK
<1>3. \A n \in Mutexes : n # m => mcount'[n] = mcount[n] /\ owner'[n] = owner[n]  BY <1>1, <1>2
<1> QED  BY <1>3 DEF Signaled, mutex_signaled, semaphore_signaled, event_signaled, timer_signaled,
              thread_signaled, process_signaled

\* Signaling an object signals that object alone; when no wake_up follows it does not even
\* that; and a wake_up for n threads follows n signals.
LEMMA SignalRise ==
  ASSUME TypeInv, NEW t \in Threads, NEW o \in Objects, NEW n \in Nat \ {0}, CanSignal(t, o, n), Signal(o, n)
  PROVE  /\ \A u \in Threads, p \in Objects : Signaled(p, u)' => Signaled(p, u) \/ p = o
         /\ \/ /\ SignalCalls(o, n) = <<>>
               /\ \A u \in Threads, p \in Objects : Signaled(p, u)' => Signaled(p, u)
            \/ \E k \in Nat : /\ SignalCalls(o, n) = <<CallWakeUp(o, k)>>
                              /\ k > 0 => o \in Counted /\ Left(o)' = k
<1> USE DEF Signaled, mutex_signaled, semaphore_signaled, event_signaled, timer_signaled,
              thread_signaled, process_signaled
<1>1. CASE o \in Mutexes
  <2>1. o \notin Semaphores /\ o \notin Events  BY <1>1, KindAssumption
  <2>2. mutex_signal(o) /\ mcount[o] \in Nat /\ mcount \in [Mutexes -> Nat]
    BY <1>1, <2>1 DEF Signal, TypeInv, ObjTypeOK
  <2>3. UNCHANGED <<scount, signaled, dead, removed>>  BY <2>2 DEF mutex_signal
  <2>4. CASE mcount[o] = 1
    <3>1. Released(o)  BY <2>2, <2>4 DEF mutex_signal
    <3>2. \A u \in Threads, p \in Objects : Signaled(p, u)' => Signaled(p, u) \/ p = o
      BY <1>1, <2>3, <3>1, ReleasedRise
    <3>3. SignalCalls(o, n) = <<CallWakeUp(o, 0)>>  BY <1>1, <2>1, <2>4 DEF SignalCalls
    <3> QED  BY <3>2, <3>3
  <2>5. CASE mcount[o] > 1
    <3>1. mcount' = [mcount EXCEPT ![o] = mcount[o] - 1] /\ owner' = owner  BY <2>2, <2>5 DEF mutex_signal
    <3>2. \A m \in Mutexes : mcount'[m] = 0 => mcount[m] = 0  BY <1>1, <2>2, <2>5, <3>1
    <3>3. \A u \in Threads, p \in Objects : Signaled(p, u)' => Signaled(p, u)  BY <2>3, <3>1, <3>2
    <3>4. SignalCalls(o, n) = <<>>  BY <1>1, <2>1, <2>5 DEF SignalCalls
    <3> QED  BY <3>3, <3>4
  <2> QED  BY <2>2, <2>4, <2>5 DEF mutex_signal
<1>2. CASE o \in Semaphores
  <2>1. o \notin Mutexes /\ o \notin Events  BY <1>2, KindAssumption
  <2>2. release_semaphore(o, n) /\ scount[o] \in Nat /\ scount \in [Semaphores -> Nat]
    BY <1>2, <2>1 DEF Signal, TypeInv, ObjTypeOK
  <2>3. /\ scount' = [scount EXCEPT ![o] = scount[o] + n]
        /\ UNCHANGED <<mcount, owner, signaled, dead, removed>>
    BY <2>2 DEF release_semaphore
  <2>4. \A s \in Semaphores : s # o => scount'[s] = scount[s]  BY <2>2, <2>3
  <2>5. \A u \in Threads, p \in Objects : Signaled(p, u)' => Signaled(p, u) \/ p = o  BY <2>3, <2>4
  <2>6. CASE scount[o] = 0
    <3>1. SignalCalls(o, n) = <<CallWakeUp(o, n)>>  BY <1>2, <2>1, <2>6 DEF SignalCalls
    <3>2. scount'[o] = n  BY <1>2, <2>2, <2>3, <2>6
    <3>3. Left(o)' = n /\ o \in Counted  BY <1>2, <3>2 DEF Left, Counted
    <3> QED  BY <2>5, <3>1, <3>3
  <2>7. CASE scount[o] # 0
    <3>1. SignalCalls(o, n) = <<>>  BY <1>2, <2>1, <2>7 DEF SignalCalls
    <3>2. scount[o] > 0  BY <2>2, <2>7
    <3>3. \A u \in Threads, p \in Objects : Signaled(p, u)' => Signaled(p, u)  BY <1>2, <2>5, <3>2
    <3> QED  BY <2>5, <3>1, <3>3
  <2> QED  BY <2>6, <2>7
<1>3. CASE o \in Events
  <2>1. o \notin Mutexes /\ o \notin Semaphores  BY <1>3, KindAssumption
  <2>2. signaled' = signaled \cup {o} /\ UNCHANGED <<mcount, owner, scount, dead, removed>>
    BY <2>1 DEF Signal, set_event
  <2>3. \A u \in Threads, p \in Objects : Signaled(p, u)' => Signaled(p, u) \/ p = o  BY <2>2
  <2>4. SignalCalls(o, n) = <<CallWakeUp(o, IF o \in Manual THEN 0 ELSE 1)>>  BY <2>1 DEF SignalCalls
  <2>5. Left(o)' = 1  BY <2>1, <2>2 DEF Left
  <2>6. o \notin Manual => o \in Counted  BY <1>3 DEF Counted
  <2> QED  BY <2>3, <2>4, <2>5, <2>6
<1> QED  BY <1>1, <1>2, <1>3 DEF CanSignal

\* A wait that ends with an object takes a signal of it.
LEMMA AcquireLeft ==
  ASSUME TypeInv, NEW t \in Threads, NEW w \in WaitRecords, Acquire(t, w), suspend[t] = 0, Ready(t, w),
         NEW o \in Counted, o \in Range(w.objs), w.all \/ \A i \in SignaledAt(t, w) : w.objs[i] = o
  PROVE  Left(o)' = Left(o) - 1
<1> DEFINE k == Taken(t, w)
<1>1. Satisfied(t, k)  BY DEF Acquire, CheckWait
<1>2. o \in Objects  BY DEF Counted, Objects
<1>3. \A p \in Objects : k[p] \in {0, 1} /\ (k[p] = 1 => Signaled(p, t))  BY TakenFacts
<1>4. w.objs \in Seq(Objects)  BY DEF WaitRecords
<1>5. k[o] = 1
  <2>1. CASE w.all
    <3> DEFINE P == {i \in DOMAIN w.objs : w.objs[i] = o}
    <3>1. k[o] = Cardinality(P)  BY <1>2, <2>1 DEF Taken
    <3>2. PICK i \in DOMAIN w.objs : w.objs[i] = o  BY DEF Range
    <3>3. P = {i}  BY <3>2 DEF WaitRecords, IsInjective
    <3> QED  BY <3>1, <3>3, FS_Singleton
  <2>2. CASE ~w.all
    <3>1. SignaledAt(t, w) # {}  BY <2>2 DEF Ready
    <3>2. SignaledAt(t, w) \in SUBSET Nat  BY <1>4 DEF SignaledAt
    <3>3. PICK i \in SignaledAt(t, w) : \A j \in SignaledAt(t, w) : i <= j  BY <3>1, <3>2, LeastNatural
    <3>4. w.objs[i] = o  BY <2>2, <3>3
    <3> QED  BY <1>2, <2>2, <3>3, <3>4 DEF Taken
  <2> QED  BY <2>1, <2>2
<1> HIDE DEF k
<1>6. Signaled(o, t)  BY <1>2, <1>3, <1>5
<1>7. CASE o \in Semaphores
  <2>1. scount'[o] = scount[o] - k[o]  BY <1>1, <1>7 DEF Satisfied, semaphore_satisfied
  <2> QED  BY <1>5, <1>7, <2>1 DEF Left
<1>8. CASE o \in Events \ Manual
  <2>1. o \notin Mutexes \cup Semaphores \cup Timers \cup Threads \cup Processes  BY <1>8, KindAssumption
  <2>2. o \in signaled  BY <1>6, <2>1 DEF Signaled, event_signaled
  <2>3. o \notin signaled'  BY <1>1, <1>5, <1>8 DEF Satisfied, event_satisfied
  <2> QED  BY <2>1, <2>2, <2>3 DEF Left
<1> QED  BY <1>7, <1>8 DEF Counted

\* The entries that stay keep their order.
LEMMA RankOrder ==
  ASSUME NEW n \in Nat, NEW P \in SUBSET (1..n), NEW i \in P, NEW j \in P, i <= j
  PROVE  Rank(P, i) <= Rank(P, j)
<1> DEFINE A == {k \in P : k <= i}
           B == {k \in P : k <= j}
<1>1. IsFiniteSet(1..n)  BY FS_Interval
<1>2. IsFiniteSet(B)  BY <1>1, FS_Subset
<1>3. i \in 1..n /\ j \in 1..n /\ \A k \in P : k \in 1..n  OBVIOUS
<1>4. A \subseteq B
  <2>1. \A k \in P : k <= i => k <= j  BY <1>3
  <2> QED  BY <2>1
<1>5. Cardinality(A) <= Cardinality(B)  BY <1>2, <1>4, FS_Subset
<1> QED  BY <1>5 DEF Rank

\* What a loop still visits it visits also when entries of others are removed.
LEMMA AheadKept ==
  ASSUME NEW S, NEW q \in Seq(S), NEW P \in SUBSET DOMAIN q, NEW next, NEW u, Ahead(next, q, u),
         \A i \in DOMAIN q : q[i].thread = u \/ q[i] = next => i \in P
  PROVE  Ahead(next, Kept(q, P), u)
<1>1. Len(q) \in Nat /\ DOMAIN q = 1..Len(q)  OBVIOUS
<1>2. /\ DOMAIN Kept(q, P) = 1..Cardinality(P) /\ Cardinality(P) \in Nat
      /\ \A i \in P : Rank(P, i) \in 1..Cardinality(P) /\ Kept(q, P)[Rank(P, i)] = q[i]
  BY KeptAt
<1>3. PICK j \in DOMAIN q : q[j].thread = u /\ (next = Start \/ \E i \in 1..j : q[i] = next)
  BY DEF Ahead
<1>4. j \in P /\ Rank(P, j) \in DOMAIN Kept(q, P) /\ Kept(q, P)[Rank(P, j)].thread = u  BY <1>2, <1>3
<1>5. CASE next = Start  BY <1>4, <1>5 DEF Ahead
<1>6. ASSUME NEW i \in 1..j, q[i] = next PROVE Ahead(next, Kept(q, P), u)
  <2>1. i \in DOMAIN q /\ i \in P /\ i <= j  BY <1>1, <1>3, <1>6
  <2>2. Rank(P, i) <= Rank(P, j)  BY <1>1, <1>4, <2>1, RankOrder
  <2>3. Rank(P, i) \in 1..Rank(P, j) /\ Kept(q, P)[Rank(P, i)] = next  BY <1>2, <1>4, <1>6, <2>1, <2>2
  <2> QED  BY <1>4, <2>3 DEF Ahead
<1> QED  BY <1>3, <1>5, <1>6

\* What end_wait of another thread takes from a queue leaves the loop's way as it is.
LEMMA AheadUnqueued ==
  ASSUME TypeInv, NEW t, NEW level, NEW o \in Objects, NEW next, next.thread # t, NEW u, u # t,
         Ahead(next, queue[o], u)
  PROVE  Ahead(next, Unqueued(t, level)[o], u)
<1> DEFINE P == {i \in DOMAIN queue[o] : queue[o][i].thread # t \/ queue[o][i].level # level}
<1>1. queue[o] \in Seq(Entries)  BY DEF TypeInv
<1>2. P \in SUBSET DOMAIN queue[o]  OBVIOUS
<1>3. \A i \in DOMAIN queue[o] : queue[o][i].thread = u \/ queue[o][i] = next => i \in P  OBVIOUS
<1> HIDE DEF P
<1>4. Ahead(next, Kept(queue[o], P), u)  BY <1>1, <1>2, <1>3, AheadKept
<1> QED  BY <1>4 DEF Unqueued, P

\* What the earlier invariants say of workloads in which no process crashes.
LEMMA PlainFacts ==
  ASSUME TypeInv, CrashInv, Plain
  PROVE  ~load.crashes /\ ~corrupt /\ Nested(stack, queue, dead) /\ GoneInv
<1>1. ~load.crashes  BY DEF Plain
<1> QED  BY <1>1, NestedForm DEF CrashInv, GoneInv

\* No object changes: neither does what is signaled.
LEMMA SameSignals ==
  ASSUME UNCHANGED objVars, NEW u, NEW p
  PROVE  Signaled(p, u)' <=> Signaled(p, u)
BY DEF objVars, Signaled, mutex_signaled, semaphore_signaled, event_signaled, timer_signaled,
       thread_signaled, process_signaled

\* Events and timers that are reset: nothing becomes signaled.
LEMMA FewerSignals ==
  ASSUME UNCHANGED <<mcount, owner, scount, dead, removed>>, signaled' \subseteq signaled, NEW u, NEW p,
         Signaled(p, u)'
  PROVE  Signaled(p, u)
BY DEF Signaled, mutex_signaled, semaphore_signaled, event_signaled, timer_signaled,
       thread_signaled, process_signaled

\* What BudgetInv says of one frame.
Counting(k, o, n) == stack[k].op = "wake_up" /\ stack[k].x = o /\ stack[k].n = n /\ n > 0
Budget(k, o, n) ==
  /\ o \in Counted
  /\ k < Len(stack) /\ ~Woken(stack, k) => \E e \in Range(queue[o]) : e.thread = Top(stack).x
  /\ Woken(stack, k) => waits[Top(stack).x] = <<>> /\ Exact(o, n - 1)
  /\ ~Woken(stack, k) => Exact(o, n)

\* BudgetInv, for each count that a wake_up on the stack may have.
LEMMA BudgetForm ==
  BudgetInv <=> \A k \in DOMAIN stack : \A o, n : Counting(k, o, n) => Budget(k, o, n)
<1>1. ASSUME BudgetInv, NEW k \in DOMAIN stack, NEW o, NEW n, Counting(k, o, n) PROVE Budget(k, o, n)
  <2>1. stack[k].op = "wake_up" /\ stack[k].x = o /\ stack[k].n = n /\ n > 0  BY <1>1 DEF Counting
  <2> QED  BY <1>1, <2>1 DEF BudgetInv, Budget
<1>2. ASSUME \A k \in DOMAIN stack : \A o, n : Counting(k, o, n) => Budget(k, o, n)
      PROVE  BudgetInv
  <2> SUFFICES ASSUME NEW k \in DOMAIN stack, stack[k].op = "wake_up", stack[k].n > 0
               PROVE  /\ stack[k].x \in Counted
                      /\ k < Len(stack) /\ ~Woken(stack, k) =>
                           \E e \in Range(queue[stack[k].x]) : e.thread = Top(stack).x
                      /\ Woken(stack, k) => waits[Top(stack).x] = <<>>
                      /\ Exact(stack[k].x, IF Woken(stack, k) THEN stack[k].n - 1 ELSE stack[k].n)
    BY DEF BudgetInv
  <2>1. Counting(k, stack[k].x, stack[k].n)  BY DEF Counting
  <2>2. Budget(k, stack[k].x, stack[k].n)  BY <1>2, <2>1
  <2> QED  BY <2>2 DEF Budget
<1> QED  BY <1>1, <1>2

\* The same of the next state.
LEMMA BudgetFormNext ==
  (BudgetInv <=> \A k \in DOMAIN stack : \A o, n : Counting(k, o, n) => Budget(k, o, n))'
BY BudgetForm, PTL

\* No wake_up on the stack counts: nothing is to be said of the signals left.
LEMMA NoCount ==
  ASSUME \A k \in DOMAIN stack' : stack'[k].op = "wake_up" => ~(stack'[k].n > 0)
  PROVE  BudgetInv'
BY DEF BudgetInv

\* A step that ends no wait misses nobody if nobody was missed.
LEMMA NobodyMissed ==
  ASSUME TypeInv, \A u \in Threads : Calmer(u) /\ ~Missed(u)
  PROVE  \A u \in Threads : ~Missed(u)'
BY CalmerMissed

\* Nobody is missed: nobody has to be looked at.
LEMMA NobodyCovered ==
  ASSUME \A u \in Threads : ~Missed(u)'
  PROVE  Covers'
BY DEF Covers

\* Functions that look at no wait run when no thread waits in vain.
LEMMA IdleMissed ==
  ASSUME Covers, stack = <<>> \/ \E f : stack = <<f>> /\ f.op \in {"kill", "cleanup", "reset", "expire"}
  PROVE  \A u \in Threads : ~Missed(u)
<1> SUFFICES ASSUME NEW u \in Threads, Missed(u) PROVE FALSE  OBVIOUS
<1>1. PICK k \in DOMAIN stack : Comes(stack[k], queue, waits[u], u)  BY DEF Covers
<1>2. PICK f : stack = <<f>> /\ f.op \in {"kill", "cleanup", "reset", "expire"}  BY <1>1
<1>3. stack[k] = f  BY <1>1, <1>2
<1> QED  BY <1>1, <1>2, <1>3 DEF Comes

\* A step between two requests that ends no wait.
LEMMA QuietStep ==
  ASSUME TypeInv, Covers, Idle, stack' = stack, \A u \in Threads : Calmer(u)
  PROVE  Covers' /\ BudgetInv'
<1>1. stack = <<>> /\ stack' = <<>>  BY DEF Idle
<1>2. \A u \in Threads : ~Missed(u)'  BY <1>1, IdleMissed, NobodyMissed
<1>3. DOMAIN stack' = {}  BY <1>1
<1> QED  BY <1>2, <1>3, NobodyCovered, NoCount

\* The steps of clients but for waits.
LEMMA ClientCalm ==
  ASSUME TypeInv, NEW t \in Threads,
         ReadReply(t) \/ GetApc(t) \/ LeaveSuspend(t) \/ ClientDies(t) \/ TakeSignal(t) \/ SetContext(t)
  PROVE  Idle /\ stack' = stack /\ \A u \in Threads : Calmer(u)
<1>1. UNCHANGED <<objVars, waits, suspend, stack>> /\ Idle
  BY DEF ReadReply, GetApc, LeaveSuspend, ClientDies, TakeSignal, SetContext, waitVars
<1>2. \A u, p : Signaled(p, u)' <=> Signaled(p, u)  BY <1>1, SameSignals
<1>3. \A u \in Threads : /\ system_apc[u] = <<>> => system_apc'[u] = <<>>
                         /\ user_apc[u] = <<>> => user_apc'[u] = <<>>
  <2>1. CASE UNCHANGED apcVars  BY <2>1 DEF apcVars
  <2>2. CASE GetApc(t)
    <3>1. system_apc \in [Threads -> Seq({NoOwner})] /\ user_apc \in [Threads -> Seq(Timers \cup {NoOwner})]
      BY DEF TypeInv
    <3> QED  BY <2>2, <3>1 DEF GetApc, apcVars
  <2> QED  BY <2>1, <2>2 DEF ReadReply, LeaveSuspend, ClientDies, TakeSignal, SetContext
<1> QED  BY <1>1, <1>2, <1>3 DEF Calmer, Unchanged

\* No APC can be cancelled in an empty queue.
LEMMA CancelledEmpty ==
  ASSUME NEW o
  PROVE  Cancelled(<<>>, o) = <<>>
<1>1. <<>> \in Seq({o}) /\ DOMAIN <<>> = {}  BY EmptySeq
<1>2. \/ Cancelled(<<>>, o) = <<>>
      \/ \E i \in DOMAIN <<>> : <<>>[i] = o /\ Cancelled(<<>>, o) = RemoveAt(<<>>, i)
  BY <1>1, CancelledFacts
<1> QED  BY <1>1, <1>2

\* Requests that signal nothing.
LEMMA RequestCalm ==
  ASSUME TypeInv, NEW t \in Threads,
         \/ \E e \in Events : ResetEvent(t, e)
         \/ \E r \in Timers : CancelTimer(t, r) \/ \E period, apc \in BOOLEAN : SetTimer(t, r, period, apc)
         \/ \E u \in Threads : SuspendThread(t, u)
  PROVE  Idle /\ stack' = stack /\ \A u \in Threads : Calmer(u)
<1>1. CASE \E u \in Threads : SuspendThread(t, u)
  <2>1. PICK v \in Threads : SuspendThread(t, v)  BY <1>1
  <2>2. UNCHANGED <<objVars, waits, system_apc, user_apc, stack>> /\ Idle  BY <2>1 DEF SuspendThread, waitVars, apcVars
  <2>3. \A u \in Threads : suspend'[u] = 0 => suspend[u] = 0
    <3>1. suspend \in [Threads -> 0..MaxSuspend]  BY DEF TypeInv
    <3>2. suspend' = [suspend EXCEPT ![v] = suspend[v] + 1]  BY <2>1 DEF SuspendThread
    <3> QED  BY <3>1, <3>2
  <2>4. \A u, p : Signaled(p, u)' <=> Signaled(p, u)  BY <2>2, SameSignals
  <2> QED  BY <2>2, <2>3, <2>4 DEF Calmer, Unchanged
<1>2. CASE \E e \in Events : ResetEvent(t, e)
  <2>1. /\ UNCHANGED <<waits, suspend, system_apc, user_apc, stack>> /\ Idle
        /\ UNCHANGED <<mcount, owner, scount, dead, removed>> /\ signaled' \subseteq signaled
    BY <1>2 DEF ResetEvent, waitVars, apcVars
  <2>2. \A u, p : Signaled(p, u)' => Signaled(p, u)  BY <2>1, FewerSignals
  <2> QED  BY <2>1, <2>2 DEF Calmer, Unchanged
<1>3. ASSUME NEW r \in Timers, CancelTimer(t, r) \/ \E period, apc \in BOOLEAN : SetTimer(t, r, period, apc)
      PROVE  Idle /\ stack' = stack /\ \A u \in Threads : Calmer(u)
  <2>1. /\ UNCHANGED <<waits, suspend, system_apc, stack>> /\ Idle /\ CancelApc(r)
        /\ UNCHANGED <<mcount, owner, scount, dead, removed>> /\ signaled' \subseteq signaled
    BY <1>3 DEF CancelTimer, SetTimer, waitVars, objVars
  <2>2. \A u, p : Signaled(p, u)' => Signaled(p, u)  BY <2>1, FewerSignals
  <2>3. \A u \in Threads : user_apc[u] = <<>> => user_apc'[u] = <<>>
    <3>1. user_apc \in [Threads -> Seq(Timers \cup {NoOwner})]  BY DEF TypeInv
    <3>2. user_apc' = user_apc \/ user_apc' = [user_apc EXCEPT ![apc_thread[r]] = Cancelled(user_apc[apc_thread[r]], r)]
      BY <2>1 DEF CancelApc
    <3> QED  BY <3>1, <3>2, CancelledEmpty
  <2> QED  BY <2>1, <2>2, <2>3 DEF Calmer, Unchanged
<1> QED  BY <1>1, <1>2, <1>3

\* A wait that check_wait lets go on is not missed.
LEMMA LetGoOn ==
  ASSUME TypeInv, NEW t \in Threads, NEW w, CheckWait(t, w) = "none", UNCHANGED <<objVars, suspend, apcVars>>,
         Top(waits'[t]).objs = w.objs, Top(waits'[t]).all = w.all, Top(waits'[t]).when = w.when,
         Top(waits'[t]).intr = w.intr, Top(waits'[t]).alertable = w.alertable
  PROVE  ~Missed(t)'
<1> DEFINE x == Top(waits'[t])
<1>1. suspend[t] \in Nat /\ suspend' = suspend  BY DEF TypeInv
<1>2. suspend[t] # 0 \/ (~Ready(t, w) /\ ~Interrupted(t, w) /\ w.when # "past")
  BY <1>1 DEF CheckWait, Interrupted
<1>3. \A p : Signaled(p, t)' <=> Signaled(p, t)  BY SameSignals
<1>4. SignaledAt(t, Top(waits[t]))' = SignaledAt(t, w)  BY <1>3 DEF SignaledAt
<1>5. Ready(t, Top(waits[t]))' <=> Ready(t, w)  BY <1>4 DEF Ready
<1>6. Pressing(t)' => Interrupted(t, w) \/ w.when = "past"  BY DEF Pressing, Interrupted, apcVars
<1> QED  BY <1>1, <1>2, <1>5, <1>6 DEF Missed

\* The request select: the thread waits only if nothing ends its wait.
LEMMA DoSelectMissed ==
  ASSUME TypeInv, \A u \in Threads : ~Missed(u), NEW t \in Threads,
         NEW q \in Seq(ClientFrames), q # <<>>, DoSelect(t, q), UNCHANGED <<suspend, apcVars>>
  PROVE  \A u \in Threads : ~Missed(u)'
<1> DEFINE w == NewWait(Top(q).args)
<1> HIDE DEF ClientFrames
<1>1. Top(q) \in ClientFrames /\ Len(q) \in Nat  BY TopPop
<1>2. w \in WaitRecords  BY <1>1, ClientFrameTypes, NewWaitTypes
<1> HIDE DEF w
<1>3. Acquire(t, w)  BY DEF DoSelect, w
<1>4. \A u \in Threads, p \in Objects : Signaled(p, u)' => Signaled(p, u)  BY <1>2, <1>3, AcquireCalm
<1>5. waits \in [Threads -> Seq(WaitRecords)]  BY DEF TypeInv
<1>6. \A u \in Threads : waits'[u] = waits[u] => ~Missed(u)'
  BY <1>4, CalmerMissed DEF Calmer, Unchanged, apcVars
<1>7. CASE CheckWait(t, w) # "none"
  <2>1. waits' = waits  BY <1>7 DEF DoSelect, w, waitVars
  <2> QED  BY <1>6, <2>1
<1>8. CASE CheckWait(t, w) = "none"
  <2> DEFINE x == [w EXCEPT !.user = w.when # "never", !.cookie = Len(q)]
  <2>1. waits' = [waits EXCEPT ![t] = Append(waits[t], x)]  BY <1>8 DEF DoSelect, w, waitVars
  <2>2. /\ x.objs = w.objs /\ x.all = w.all /\ x.when = w.when /\ x.intr = w.intr /\ x.alertable = w.alertable
        /\ x \in WaitRecords
    BY <1>1, <1>2 DEF WaitRecords
  <2> HIDE DEF x
  <2>3. waits'[t] = Append(waits[t], x) /\ waits[t] \in Seq(WaitRecords)  BY <1>5, <2>1
  <2> HIDE DEF WaitRecords
  <2>4. Top(waits'[t]) = x  BY <2>2, <2>3 DEF Top
  <2>5. UNCHANGED objVars  BY <1>3, <1>8 DEF Acquire
  <2>6. ~Missed(t)'  BY <1>8, <2>2, <2>4, <2>5, LetGoOn
  <2>7. \A u \in Threads \ {t} : waits'[u] = waits[u]  BY <1>5, <2>1
  <2> QED  BY <1>6, <2>6, <2>7
<1> QED  BY <1>7, <1>8

\* A timeout that the server has set a timer for, or ignores, ends no wait yet.
LEMMA TimePassesMissed ==
  ASSUME TypeInv, PlainInv, \A u \in Threads : ~Missed(u), NEW t \in Threads, NEW level \in DOMAIN waits[t],
         TimePasses(t, level)
  PROVE  \A u \in Threads : ~Missed(u)'
<1> DEFINE w == waits[t]
           x == [w[level] EXCEPT !.when = "past"]
<1>1. waits \in [Threads -> Seq(WaitRecords)] /\ w \in Seq(WaitRecords)  BY DEF TypeInv
<1>2. /\ waits' = [waits EXCEPT ![t][level].when = "past"] /\ w[level].when = "future" /\ Idle
      /\ UNCHANGED <<objVars, suspend, apcVars>>
  BY DEF TimePasses
<1>3. w[level] \in WaitRecords  BY <1>1, WaitTypes
<1>4. /\ x \in WaitRecords /\ x.objs = w[level].objs /\ x.all = w[level].all /\ x.user = w[level].user
      /\ x.intr = w[level].intr /\ x.alertable = w[level].alertable
  BY <1>3 DEF WaitRecords
<1>5. waits' = [waits EXCEPT ![t] = [w EXCEPT ![level] = x]]  BY <1>1, <1>2
<1> HIDE DEF x
<1> HIDE DEF WaitRecords
<1>6. waits'[t] = [w EXCEPT ![level] = x] /\ Len(waits'[t]) = Len(w) /\ level \in 1..Len(w) /\ Len(w) \in Nat
  BY <1>1, <1>4, <1>5
<1>7. \A u, p : Signaled(p, u)' <=> Signaled(p, u)  BY <1>2, SameSignals
<1>8. \A u \in Threads : waits'[u] = waits[u] => ~Missed(u)'
  BY <1>2, <1>7, CalmerMissed DEF Calmer, Unchanged, apcVars
<1>9. level = 1 /\ w[level].user
  <2>1. ~Selecting(t)  BY <1>2, IdleSelecting
  <2> QED  BY <1>2, <2>1 DEF PlainInv, WaitsPlain
<1>10. ~Missed(t)'
  <2>1. CASE Len(w) > 1
    <3>1. Top(waits'[t]) = Top(w)  BY <1>6, <1>9, <2>1 DEF Top
    <3>2. SignaledAt(t, Top(waits[t]))' = SignaledAt(t, Top(w))  BY <1>7, <3>1 DEF SignaledAt
    <3>3. Ready(t, Top(waits[t]))' <=> Ready(t, Top(w))  BY <3>1, <3>2 DEF Ready
    <3>4. Pressing(t)' => Pressing(t)  BY <1>2, <1>6, <2>1, <3>1 DEF Pressing, Interrupted, apcVars
    <3>5. waits'[t] # <<>> => waits[t] # <<>>  BY <1>6, <2>1
    <3> QED  BY <1>2, <3>3, <3>4, <3>5 DEF Missed
  <2>2. CASE Len(w) = 1
    <3>1. Top(waits'[t]) = x /\ Top(w) = w[level] /\ w # <<>>  BY <1>6, <1>9, <2>2 DEF Top
    <3>2. SignaledAt(t, Top(waits[t]))' = SignaledAt(t, Top(w))  BY <1>4, <1>7, <3>1 DEF SignaledAt
    <3>3. Ready(t, Top(waits[t]))' <=> Ready(t, Top(w))  BY <1>4, <3>1, <3>2 DEF Ready
    <3>4. Pressing(t)' => Pressing(t)  BY <1>2, <1>4, <1>6, <1>9, <2>2, <3>1 DEF Pressing, Interrupted, apcVars
    <3> QED  BY <1>2, <3>1, <3>3, <3>4 DEF Missed
  <2>3. Len(w) \in Nat /\ Len(w) >= 1
    <3>1. Len(w) \in Nat /\ level \in 1..Len(w)  BY <1>6
    <3> QED  BY <3>1, <1>9
  <2>4. \A n \in Nat : n >= 1 => n > 1 \/ n = 1  OBVIOUS
  <2> QED  BY <2>1, <2>2, <2>3, <2>4
<1>11. \A u \in Threads \ {t} : waits'[u] = waits[u]  BY <1>1, <1>5
<1> QED  BY <1>8, <1>10, <1>11

\* A call of wake_thread or kill_thread, or of nothing, leaves no wake_up with a count.
LEMMA NoCountCalls ==
  ASSUME \/ stack' = <<>>
         \/ \E f : stack' = <<f>> /\ (f.op = "wake_up" => f.n = 0)
         \/ \E f, g : stack' = <<f, g>> /\ f.op # "wake_up" /\ (g.op = "wake_up" => g.n = 0)
  PROVE  BudgetInv'
<1>1. \A k \in DOMAIN stack' : stack'[k].op = "wake_up" => ~(stack'[k].n > 0)
  <2>1. CASE stack' = <<>>  BY <2>1
  <2>2. ASSUME NEW f, stack' = <<f>>, f.op = "wake_up" => f.n = 0
        PROVE  \A k \in DOMAIN stack' : stack'[k].op = "wake_up" => ~(stack'[k].n > 0)
    <3>1. \A k \in DOMAIN stack' : stack'[k] = f  BY <2>2
    <3> QED  BY <2>2, <3>1
  <2>3. ASSUME NEW f, NEW g, stack' = <<f, g>>, f.op # "wake_up", g.op = "wake_up" => g.n = 0
        PROVE  \A k \in DOMAIN stack' : stack'[k].op = "wake_up" => ~(stack'[k].n > 0)
    <3>1. \A k \in DOMAIN stack' : stack'[k] = f \/ stack'[k] = g  BY <2>3
    <3> QED  BY <2>3, <3>1
  <2> QED  BY <2>1, <2>2, <2>3
<1> QED  BY <1>1, NoCount

\* The fields of the calls that the server makes.
LEMMA CallFacts ==
  /\ \A t : CallWakeThread(t).op = "wake_thread" /\ CallWakeThread(t).x = t /\ CallWakeThread(t).n = 0
  /\ \A t : CallKill(t).op = "kill" /\ CallKill(t).x = t
  /\ \A o, n : CallWakeUp(o, n).op = "wake_up" /\ CallWakeUp(o, n).x = o /\ CallWakeUp(o, n).n = n
               /\ CallWakeUp(o, n).next = Start
  /\ \A op, x, n, c : Frame(op, x, n, c).op = op /\ Frame(op, x, n, c).x = x /\ Frame(op, x, n, c).n = n
                      /\ Frame(op, x, n, c).next = c
BY DEF CallWakeThread, CallKill, CallWakeUp, Frame

\* Only the thread that wake_thread is called for may have got a reason to stop waiting.
LEMMA WakeThreadCovers ==
  ASSUME NEW t, \A u \in Threads : u # t => ~Missed(u)', \E k \in DOMAIN stack' : stack'[k] = CallWakeThread(t)
  PROVE  Covers'
<1>1. PICK k \in DOMAIN stack' : stack'[k] = CallWakeThread(t)  OBVIOUS
<1>2. Comes(stack'[k], queue', waits'[t], t)  BY <1>1, CallFacts DEF Comes
<1>3. \A u \in Threads : Missed(u)' => u = t  OBVIOUS
<1> QED  BY <1>1, <1>2, <1>3 DEF Covers

\* thread_timeout
LEMMA ThreadTimeoutMissed ==
  ASSUME TypeInv, DeadInv, GoneInv, \A u \in Threads : ~Missed(u), NEW t \in Threads, NEW level \in DOMAIN waits[t],
         ThreadTimeout(t, level)
  PROVE  Covers' /\ BudgetInv'
<1> DEFINE w == waits[t]
<1>1. waits \in [Threads -> Seq(WaitRecords)] /\ w \in Seq(WaitRecords)  BY DEF TypeInv
<1>2. Idle /\ UNCHANGED <<objVars, suspend, apcVars>>  BY DEF ThreadTimeout
<1>3. \A u, p : Signaled(p, u)' <=> Signaled(p, u)  BY <1>2, SameSignals
<1>4. \A u \in Threads : waits'[u] = waits[u] => ~Missed(u)'
  BY <1>2, <1>3, CalmerMissed DEF Calmer, Unchanged, apcVars
<1>5. CASE /\ level < Len(waits[t]) \/ suspend[t] > 0
           /\ waits' = [waits EXCEPT ![t][level].user = FALSE]
           /\ UNCHANGED <<queue, stack, pipe>>
  <2> DEFINE x == [w[level] EXCEPT !.user = FALSE]
  <2>1. w[level] \in WaitRecords  BY <1>1, WaitTypes
  <2>2. x \in WaitRecords  BY <2>1 DEF WaitRecords
  <2>3. waits' = [waits EXCEPT ![t] = [w EXCEPT ![level] = x]]  BY <1>1, <1>5
  <2> HIDE DEF x
  <2> HIDE DEF WaitRecords
  <2>4. waits'[t] = [w EXCEPT ![level] = x] /\ Len(waits'[t]) = Len(w) /\ level \in 1..Len(w) /\ Len(w) \in Nat
    BY <1>1, <2>2, <2>3
  <2>5. ~Missed(t)'
    <3>1. CASE suspend[t] > 0
      <4>1. suspend'[t] # 0  BY <1>2, <3>1
      <4> QED  BY <4>1 DEF Missed
    <3>2. CASE level < Len(waits[t])
      <4>1. Top(waits'[t]) = Top(w) /\ Len(w) > 1  BY <2>4, <3>2 DEF Top
      <4>2. SignaledAt(t, Top(waits[t]))' = SignaledAt(t, Top(w))  BY <1>3, <4>1 DEF SignaledAt
      <4>3. Ready(t, Top(waits[t]))' <=> Ready(t, Top(w))  BY <4>1, <4>2 DEF Ready
      <4>4. Pressing(t)' => Pressing(t)  BY <1>2, <2>4, <4>1 DEF Pressing, Interrupted, apcVars
      <4>5. waits[t] # <<>>  BY <4>1
      <4> QED  BY <1>2, <4>3, <4>4, <4>5 DEF Missed
    <3> QED  BY <1>5, <3>1, <3>2
  <2>6. \A u \in Threads \ {t} : waits'[u] = waits[u]  BY <1>1, <2>3
  <2>7. \A u \in Threads : ~Missed(u)'  BY <1>4, <2>5, <2>6
  <2>8. stack' = <<>>  BY <1>2, <1>5 DEF Idle
  <2> QED  BY <2>7, <2>8, NobodyCovered, NoCountCalls
<1>6. CASE ~(/\ level < Len(waits[t]) \/ suspend[t] > 0
             /\ waits' = [waits EXCEPT ![t][level].user = FALSE]
             /\ UNCHANGED <<queue, stack, pipe>>)
  <2>1. /\ waits' = [waits EXCEPT ![t] = Pop(waits[t])]
        /\ \/ t \notin gone /\ stack' = <<CallWakeThread(t)>>
           \/ t \in gone
    BY <1>6 DEF ThreadTimeout, EndWait
  <2>2. t \notin gone
    <3>1. waits[t] # <<>>  BY <1>1
    <3> QED  BY <3>1 DEF GoneInv, DeadInv
  <2>3. \A u \in Threads : u # t => ~Missed(u)'  BY <1>1, <1>4, <2>1
  <2>4. 1 \in DOMAIN stack' /\ stack'[1] = CallWakeThread(t)  BY <2>1, <2>2
  <2>5. CallWakeThread(t).op # "wake_up"  BY CallFacts
  <2> QED  BY <2>1, <2>2, <2>3, <2>4, <2>5, WakeThreadCovers, NoCountCalls
<1> QED  BY <1>5, <1>6

\* The requests, and the events of the main loop, that only kill a thread.
LEMMA KillCalls ==
  ASSUME TypeInv, \A u \in Threads : ~Missed(u), NEW t \in Threads,
         ExitThread(t) \/ PollHup(t) \/ \E u \in Threads : TerminateThread(t, u)
  PROVE  Covers' /\ BudgetInv'
<1>1. UNCHANGED <<objVars, waits, suspend, apcVars>>
  BY DEF ExitThread, PollHup, TerminateThread, waitVars
<1>2. \A u, p : Signaled(p, u)' <=> Signaled(p, u)  BY <1>1, SameSignals
<1>3. \A u \in Threads : ~Missed(u)'  BY <1>1, <1>2, CalmerMissed DEF Calmer, Unchanged, apcVars
<1>4. \E u : stack' = <<CallKill(u)>>  BY DEF ExitThread, PollHup, TerminateThread
<1>5. \A u : CallKill(u).op # "wake_up"  BY CallFacts
<1> QED  BY <1>3, <1>4, <1>5, NobodyCovered, NoCountCalls

\* resume_thread
LEMMA ResumeMissed ==
  ASSUME TypeInv, \A u \in Threads : ~Missed(u), NEW t \in Threads, NEW v \in Threads, ResumeThread(t, v)
  PROVE  Covers' /\ BudgetInv'
<1>1. UNCHANGED <<objVars, waits, apcVars>> /\ suspend' = [suspend EXCEPT ![v] = suspend[v] - 1]
  BY DEF ResumeThread, waitVars
<1>2. \A u, p : Signaled(p, u)' <=> Signaled(p, u)  BY <1>1, SameSignals
<1>3. suspend \in [Threads -> 0..MaxSuspend]  BY DEF TypeInv
<1>4. \A u \in Threads : u # v => ~Missed(u)'
  BY <1>1, <1>2, <1>3, CalmerMissed DEF Calmer, Unchanged, apcVars
<1>5. \A u : CallWakeThread(u).op # "wake_up"  BY CallFacts
<1>6. CASE suspend[v] = 1
  <2>1. stack' = <<CallWakeThread(v)>>  BY <1>6 DEF ResumeThread
  <2>2. 1 \in DOMAIN stack' /\ stack'[1] = CallWakeThread(v)  BY <2>1
  <2> QED  BY <1>4, <1>5, <2>1, <2>2, WakeThreadCovers, NoCountCalls
<1>7. CASE suspend[v] # 1
  <2>1. stack' = <<>>  BY <1>7 DEF ResumeThread
  <2>2. suspend'[v] # 0  BY <1>1, <1>3, <1>7
  <2>3. ~Missed(v)'  BY <2>2 DEF Missed
  <2> QED  BY <1>4, <2>1, <2>3, NobodyCovered, NoCountCalls
<1> QED  BY <1>6, <1>7

\* When an APC is queued and wake_thread is not called, one was queued before.
LEMMA QueueCallsFacts ==
  ASSUME NEW S, NEW q, NEW u, q[u] \in Seq(S), NEW o
  PROVE  \/ QueueCalls(q, u, o) = <<CallWakeThread(u)>>
         \/ QueueCalls(q, u, o) = <<>> /\ q[u] # <<>>
BY CancelledEmpty DEF QueueCalls

\* thread_queue_apc
LEMMA QueueApcMissed ==
  ASSUME TypeInv, \A u \in Threads : ~Missed(u), NEW t \in Threads, NEW v \in Threads, NEW system \in BOOLEAN,
         QueueApc(t, v, system)
  PROVE  Covers' /\ BudgetInv'
<1>1. UNCHANGED <<objVars, waits, suspend>>  BY DEF QueueApc, waitVars
<1>2. \A u, p : Signaled(p, u)' <=> Signaled(p, u)  BY <1>1, SameSignals
<1>3. system_apc \in [Threads -> Seq({NoOwner})] /\ user_apc \in [Threads -> Seq(Timers \cup {NoOwner})]
  BY DEF TypeInv
<1>4. \A u : CallWakeThread(u).op # "wake_up"  BY CallFacts
<1>5. \A u \in Threads : u # v => system_apc'[u] = system_apc[u] /\ user_apc'[u] = user_apc[u]
  BY <1>3 DEF QueueApc, QueueUserApc
<1>6. \A u \in Threads : u # v => ~Missed(u)'
  BY <1>1, <1>2, <1>5, CalmerMissed DEF Calmer, Unchanged
<1>7. CASE stack' = <<CallWakeThread(v)>>
  <2>1. 1 \in DOMAIN stack' /\ stack'[1] = CallWakeThread(v)  BY <1>7
  <2> QED  BY <1>4, <1>6, <1>7, <2>1, WakeThreadCovers, NoCountCalls
<1>8. CASE stack' # <<CallWakeThread(v)>>
  <2> DEFINE q == IF system THEN system_apc ELSE user_apc
  <2>1. q[v] \in Seq(Timers \cup {NoOwner})
    <3>1. Seq({NoOwner}) \subseteq Seq(Timers \cup {NoOwner})  OBVIOUS
    <3> QED  BY <1>3, <3>1
  <2>2. stack' = QueueCalls(q, v, NoOwner)  BY DEF QueueApc
  <2>3. stack' = <<>> /\ q[v] # <<>>  BY <1>8, <2>1, <2>2, QueueCallsFacts
  <2>4. /\ system_apc[v] = <<>> => system_apc'[v] = <<>>
        /\ user_apc[v] = <<>> => user_apc'[v] = <<>>
    BY <2>3 DEF QueueApc, QueueUserApc
  <2>5. ~Missed(v)'  BY <1>1, <1>2, <2>4, CalmerMissed DEF Calmer, Unchanged
  <2> QED  BY <1>6, <2>3, <2>5, NobodyCovered, NoCountCalls
<1> QED  BY <1>7, <1>8

\* timer_callback, up to the APC
LEMMA TimerExpiresMissed ==
  ASSUME TypeInv, \A u \in Threads : ~Missed(u), NEW r \in Timers, TimerExpires(r)
  PROVE  Covers' /\ BudgetInv'
<1> DEFINE f == Frame("expire", r, 0, End)
<1>0. PICK v : v = apc_thread[r]  OBVIOUS
<1>1. UNCHANGED <<objVars, waits, suspend>>  BY DEF TimerExpires, waitVars
<1>2. \A u, p : Signaled(p, u)' <=> Signaled(p, u)  BY <1>1, SameSignals
<1>3. user_apc \in [Threads -> Seq(Timers \cup {NoOwner})]  BY DEF TypeInv
<1>4. (\A u : CallWakeThread(u).op # "wake_up") /\ f.op # "wake_up"  BY CallFacts
<1>5. \A u \in Threads : system_apc'[u] = system_apc[u] /\ (u # v => user_apc'[u] = user_apc[u])
  BY <1>0, <1>3 DEF TimerExpires, QueueUserApc, apcVars
<1>6. \A u \in Threads : u # v => ~Missed(u)'
  BY <1>1, <1>2, <1>5, CalmerMissed DEF Calmer, Unchanged
<1>7. CASE v \in Threads \ dead /\ stack' = <<f>> \o QueueCalls(user_apc, v, r) /\ QueueUserApc(v, r)
  <2>1. user_apc[v] \in Seq(Timers \cup {NoOwner})  BY <1>3, <1>7
  <2>2. CASE QueueCalls(user_apc, v, r) = <<CallWakeThread(v)>>
    <3>1. stack' = <<f, CallWakeThread(v)>>  BY <1>7, <2>2, PairSeq
    <3> HIDE DEF f
    <3>2. 2 \in DOMAIN stack' /\ stack'[2] = CallWakeThread(v)  BY <3>1
    <3> QED  BY <1>4, <1>6, <3>1, <3>2, WakeThreadCovers, NoCountCalls
  <2>3. CASE QueueCalls(user_apc, v, r) = <<>> /\ user_apc[v] # <<>>
    <3>1. stack' = <<f>>  BY <1>7, <2>3, PairSeq
    <3>2. v \in Threads /\ Calmer(v)  BY <1>1, <1>2, <1>5, <1>7, <2>3 DEF Calmer, Unchanged
    <3>3. ~Missed(v)'  BY <3>2, CalmerMissed
    <3> HIDE DEF f
    <3> QED  BY <1>4, <1>6, <3>1, <3>3, NobodyCovered, NoCountCalls
  <2> QED  BY <2>1, <2>2, <2>3, QueueCallsFacts
<1>8. CASE stack' = <<f>> /\ UNCHANGED apcVars
  <2>1. \A u \in Threads : ~Missed(u)'
    BY <1>1, <1>2, <1>8, CalmerMissed DEF Calmer, Unchanged, apcVars
  <2> HIDE DEF f
  <2> QED  BY <1>4, <1>8, <2>1, NobodyCovered, NoCountCalls
<1> QED  BY <1>0, <1>7, <1>8 DEF TimerExpires

\* Why a thread waits in vain at the moment when an object is signaled: its request select
\* goes on later, or it waits for this object.
Called(u, o) ==
  \/ Selecting(u)' /\ \E j \in DOMAIN stack' : stack'[j].op = "select" /\ stack'[j].x = u
  \/ o \in Range(Top(waits'[u]).objs) /\ Only(u, o)'

\* wake_up begins with whoever waits for the object ahead of it, and as many signals left
\* as it is to wake threads.
LEMMA WakeUpCalled ==
  ASSUME TypeInv', QueueInv', NEW o, NEW k \in Nat, NEW m \in DOMAIN stack', m = Len(stack'),
         stack'[m] = CallWakeUp(o, k), \A j \in DOMAIN stack' : j # m => stack'[j].op # "wake_up",
         k > 0 => o \in Counted /\ Left(o)' = k,
         \A u \in Threads : Missed(u)' => Called(u, o)
  PROVE  Covers' /\ BudgetInv'
<1>1. QueuesFit(queue', waits') /\ waits' \in [Threads -> Seq(WaitRecords)]  BY QueueForm DEF TypeInv
<1>2. /\ stack'[m].op = "wake_up" /\ stack'[m].x = o /\ stack'[m].n = k /\ stack'[m].next = Start
  BY CallFacts
<1>3. Covers'
  <2> SUFFICES ASSUME NEW u \in Threads, Missed(u)'
               PROVE  \E j \in DOMAIN stack' : Comes(stack'[j], queue', waits'[u], u)
    BY DEF Covers
  <2>1. CASE \E j \in DOMAIN stack' : stack'[j].op = "select" /\ stack'[j].x = u  BY <2>1 DEF Comes
  <2>2. CASE o \in Range(Top(waits'[u]).objs)
    <3>1. waits'[u] # <<>>  BY DEF Missed
    <3>2. Ahead(Start, queue'[o], u)  BY <1>1, <2>2, <3>1, AheadStart
    <3>3. Comes(stack'[m], queue', waits'[u], u)  BY <1>2, <3>2 DEF Comes
    <3> QED  BY <3>3
  <2> QED  BY <2>1, <2>2 DEF Called
<1>4. BudgetInv'
  <2> SUFFICES ASSUME NEW j \in DOMAIN stack', NEW p, NEW n, Counting(j, p, n)' PROVE Budget(j, p, n)'
    BY BudgetFormNext
  <2>1. j = m /\ p = o /\ n = k /\ k > 0  BY <1>2 DEF Counting
  <2>2. stack' \in Seq(ServerFrames(dead'))  BY DEF TypeInv
  <2>3. Len(stack') \in Nat  BY <2>2, LenProperties
  <2>4. ~(j < Len(stack'))  BY <2>1, <2>3
  <2>5. \A u \in Threads : Missed(u)' /\ ~Selecting(u)' => Left(o)' = k /\ Only(u, o)'  BY <2>1 DEF Called
  <2>6. Exact(o, k)'  BY <2>5 DEF Exact
  <2> QED  BY <2>1, <2>4, <2>6 DEF Budget, Woken
<1> QED  BY <1>3, <1>4

\* release_mutex, release_semaphore and set_event
LEMMA SignalObjectMissed ==
  ASSUME TypeInv, TypeInv', QueueInv', \A u \in Threads : ~Missed(u), NEW t \in Threads,
         NEW o \in Objects, NEW n \in Nat \ {0}, SignalObject(t, o, n)
  PROVE  Covers' /\ BudgetInv'
<1>1. UNCHANGED <<waits, suspend, apcVars>> /\ CanSignal(t, o, n) /\ Signal(o, n) /\ stack' = SignalCalls(o, n)
  BY DEF SignalObject, waitVars
<1>2. \A u \in Threads, p \in Objects : Signaled(p, u)' => Signaled(p, u) \/ p = o  BY <1>1, SignalRise
<1>3. CASE SignalCalls(o, n) = <<>> /\ \A u \in Threads, p \in Objects : Signaled(p, u)' => Signaled(p, u)
  <2>1. \A u \in Threads : ~Missed(u)'  BY <1>1, <1>3, CalmerMissed DEF Calmer, Unchanged, apcVars
  <2> QED  BY <1>1, <1>3, <2>1, NobodyCovered, NoCountCalls
<1>4. ASSUME NEW k \in Nat, SignalCalls(o, n) = <<CallWakeUp(o, k)>>, k > 0 => o \in Counted /\ Left(o)' = k
      PROVE  Covers' /\ BudgetInv'
  <2>1. \A u \in Threads : Rises(u, o)  BY <1>1, <1>2 DEF Rises, Unchanged, apcVars
  <2>2. \A u \in Threads : Missed(u)' => Called(u, o)  BY <1>1, <2>1, RisesMissed DEF Called
  <2>3. /\ 1 \in DOMAIN stack' /\ Len(stack') = 1 /\ stack'[1] = CallWakeUp(o, k)
        /\ \A j \in DOMAIN stack' : j # 1 => stack'[j].op # "wake_up"
    BY <1>1, <1>4
  <2> QED  BY <1>4, <2>2, <2>3, WakeUpCalled
<1> QED  BY <1>1, <1>3, <1>4, SignalRise

\* pulse_event, up to the end of wake_up
LEMMA PulseEventMissed ==
  ASSUME TypeInv, TypeInv', QueueInv', \A u \in Threads : ~Missed(u), NEW t \in Threads, NEW o \in Events,
         PulseEvent(t, o)
  PROVE  Covers' /\ BudgetInv'
<1>1. PICK f : f = Frame("reset", o, 0, End)  OBVIOUS
<1>2. f.op = "reset"  BY <1>1, CallFacts
<1>3. UNCHANGED <<waits, suspend, apcVars>> /\ Signal(o, 1) /\ stack' = <<f>> \o SignalCalls(o, 1)
  BY <1>1 DEF PulseEvent, waitVars
<1>4. CanSignal(t, o, 1) /\ o \in Objects  BY DEF CanSignal, Objects
<1>5. \A u \in Threads, p \in Objects : Signaled(p, u)' => Signaled(p, u) \/ p = o  BY <1>3, <1>4, SignalRise
<1>6. CASE SignalCalls(o, 1) = <<>> /\ \A u \in Threads, p \in Objects : Signaled(p, u)' => Signaled(p, u)
  <2>1. \A u \in Threads : ~Missed(u)'  BY <1>3, <1>6, CalmerMissed DEF Calmer, Unchanged, apcVars
  <2>2. stack' = <<f>>  BY <1>3, <1>6, PairSeq
  <2> QED  BY <1>2, <2>1, <2>2, NobodyCovered, NoCountCalls
<1>7. ASSUME NEW k \in Nat, SignalCalls(o, 1) = <<CallWakeUp(o, k)>>, k > 0 => o \in Counted /\ Left(o)' = k
      PROVE  Covers' /\ BudgetInv'
  <2>1. \A u \in Threads : Rises(u, o)  BY <1>3, <1>5 DEF Rises, Unchanged, apcVars
  <2>2. \A u \in Threads : Missed(u)' => Called(u, o)  BY <1>3, <2>1, RisesMissed DEF Called
  <2>3. stack' = <<f, CallWakeUp(o, k)>>  BY <1>3, <1>7, PairSeq
  <2>4. /\ 2 \in DOMAIN stack' /\ Len(stack') = 2 /\ stack'[2] = CallWakeUp(o, k)
        /\ \A j \in DOMAIN stack' : j # 2 => stack'[j].op # "wake_up"
    BY <1>2, <2>3
  <2> QED  BY <1>7, <2>2, <2>4, WakeUpCalled
<1> QED  BY <1>3, <1>4, <1>6, <1>7, SignalRise

\* select with an object to signal, up to the end of wake_up: the thread itself already
\* waits, but select_on looks at its wait later.
LEMMA SelectSignalMissed ==
  ASSUME TypeInv, TypeInv', QueueInv', \A u \in Threads : ~Missed(u), NEW t \in Threads, NEW o \in Objects,
         NEW a \in WaitArgs, SelectSignal(t, o, a)
  PROVE  Covers' /\ BudgetInv'
<1>1. PICK f : f = Frame("select", t, 0, End)  OBVIOUS
<1>2. f.op = "select" /\ f.x = t  BY <1>1, CallFacts
<1>3. /\ UNCHANGED <<suspend, apcVars>> /\ CanSignal(t, o, 1) /\ Signal(o, 1)
      /\ stack' = <<f>> \o SignalCalls(o, 1) /\ waits' = [waits EXCEPT ![t] = <<NewWait(a)>>]
  BY <1>1 DEF SelectSignal
<1>4. waits \in [Threads -> Seq(WaitRecords)]  BY DEF TypeInv
<1>5. \A u \in Threads : u # t => waits'[u] = waits[u]  BY <1>3, <1>4
<1>6. Selecting(t)'  BY SignalSelecting
<1>7. \A u \in Threads, p \in Objects : Signaled(p, u)' => Signaled(p, u) \/ p = o  BY <1>3, SignalRise
<1>8. CASE SignalCalls(o, 1) = <<>> /\ \A u \in Threads, p \in Objects : Signaled(p, u)' => Signaled(p, u)
  <2>1. \A u \in Threads : u # t => ~Missed(u)'  BY <1>3, <1>5, <1>8, CalmerMissed DEF Calmer, Unchanged, apcVars
  <2>2. stack' = <<f>>  BY <1>3, <1>8, PairSeq
  <2>3. 1 \in DOMAIN stack' /\ Comes(stack'[1], queue', waits'[t], t)  BY <1>2, <2>2 DEF Comes
  <2>4. Covers'
    <3>1. \A u \in Threads : Missed(u)' => u = t  BY <2>1
    <3> QED  BY <2>3, <3>1 DEF Covers
  <2> QED  BY <1>2, <2>2, <2>4, NoCountCalls
<1>9. ASSUME NEW k \in Nat, SignalCalls(o, 1) = <<CallWakeUp(o, k)>>, k > 0 => o \in Counted /\ Left(o)' = k
      PROVE  Covers' /\ BudgetInv'
  <2>1. \A u \in Threads : u # t => Rises(u, o)  BY <1>3, <1>5, <1>7 DEF Rises, Unchanged, apcVars
  <2>2. stack' = <<f, CallWakeUp(o, k)>>  BY <1>3, <1>9, PairSeq
  <2>3. /\ 2 \in DOMAIN stack' /\ Len(stack') = 2 /\ stack'[2] = CallWakeUp(o, k)
        /\ 1 \in DOMAIN stack' /\ stack'[1] = f
        /\ \A j \in DOMAIN stack' : j # 2 => stack'[j].op # "wake_up"
    BY <1>2, <2>2
  <2>4. \A u \in Threads : u # t /\ Missed(u)' => Called(u, o)  BY <1>5, <2>1, RisesMissed DEF Called
  <2>5. Called(t, o)  BY <1>2, <1>6, <2>3 DEF Called
  <2>6. \A u \in Threads : Missed(u)' => Called(u, o)  BY <2>4, <2>5
  <2> QED  BY <1>9, <2>3, <2>6, WakeUpCalled
<1> QED  BY <1>3, <1>8, <1>9, SignalRise

\* wake_up without a limit begins with whoever waits for the object ahead of it.
LEMMA WakeAllCalled ==
  ASSUME TypeInv', QueueInv', NEW o, NEW m \in DOMAIN stack', stack'[m] = CallWakeUp(o, 0),
         NEW u \in Threads, Missed(u)', o \in Range(Top(waits'[u]).objs)
  PROVE  \E j \in DOMAIN stack' : Comes(stack'[j], queue', waits'[u], u)
<1>1. QueuesFit(queue', waits') /\ waits' \in [Threads -> Seq(WaitRecords)]  BY QueueForm DEF TypeInv
<1>2. stack'[m].op = "wake_up" /\ stack'[m].x = o /\ stack'[m].next = Start  BY CallFacts
<1>3. waits'[u] # <<>>  BY DEF Missed
<1>4. Ahead(Start, queue'[o], u)  BY <1>1, <1>3, AheadStart
<1> QED  BY <1>2, <1>4 DEF Comes

\* kill_thread
LEMMA KillMissed ==
  ASSUME TypeInv, GoneInv, Nested(stack, queue, dead), Covers, Kill
  PROVE  Covers' /\ BudgetInv'
<1>1. PICK f \in ServerFrames(dead) : stack = <<f>> /\ Top(stack) = f /\ Len(stack) = 1 /\ Pop(stack) = <<>>
  BY Alone DEF Kill
<1>2. f.op = "kill" /\ f.x \in Threads
  <2>1. Top(stack).op = "kill" /\ stack # <<>>  BY DEF Kill
  <2> QED  BY <1>1, <2>1, FrameThread DEF ThreadOps
<1>3. \A u \in Threads : ~Missed(u)  BY <1>1, <1>2, IdleMissed
<1>4. PICK t \in Threads : t = f.x  BY <1>2
<1>5. UNCHANGED <<mcount, owner, scount, signaled, removed, suspend, apcVars>>  BY DEF Kill
<1>6. CASE t \in dead
  <2>1. stack' = <<>> /\ UNCHANGED <<dead, waits>>  BY <1>1, <1>4, <1>6 DEF Kill, waitVars
  <2>2. \A u, p : Signaled(p, u)' => Signaled(p, u)  BY <1>5, <2>1, FewerSignals
  <2>3. \A u \in Threads : ~Missed(u)'  BY <1>3, <1>5, <2>1, <2>2, CalmerMissed DEF Calmer, Unchanged, apcVars
  <2> QED  BY <2>1, <2>3, NobodyCovered, NoCountCalls
<1>7. CASE t \notin dead
  <2>1. dead' = dead \cup {t} /\ waits' = [waits EXCEPT ![t] = <<>>]  BY <1>1, <1>4, <1>7 DEF Kill
  <2>2. waits[t] # <<>> => t \notin gone  BY <1>7 DEF GoneInv
  <2>3. stack' = [stack EXCEPT ![Len(stack)].op = "abandon"] \o <<>>  BY <1>1, <1>4, <1>7, <2>2 DEF Kill
  <2>4. PICK g : g = [f EXCEPT !.op = "abandon"]  OBVIOUS
  <2>5. g.op = "abandon" /\ g.x = t
    <3>1. f \in [op : {"wake_thread", "wake_failed", "kill", "select"}, x : Threads, n : Nat, next : {End}]
      BY <1>2 DEF ServerFrames
    <3> QED  BY <1>4, <2>4, <3>1
  <2>6. stack' = <<g>>  BY <1>1, <2>3, <2>4, PairSeq
  <2>7. waits \in [Threads -> Seq(WaitRecords)]  BY DEF TypeInv
  <2>8. \A u \in Threads, p \in Objects : Signaled(p, u)' => Signaled(p, u) \/ p = t
    BY <1>5, <2>1 DEF Signaled, mutex_signaled, semaphore_signaled, event_signaled, timer_signaled,
       thread_signaled, process_signaled
  <2>9. \A u \in Threads : u # t => Rises(u, t) /\ waits'[u] = waits[u]
    BY <1>5, <2>1, <2>7, <2>8 DEF Rises, Unchanged, apcVars
  <2>10. ~Missed(t)'  BY <2>1, <2>7 DEF Missed
  <2>11. ASSUME NEW u \in Threads, Missed(u)' PROVE \E j \in DOMAIN stack' : Comes(stack'[j], queue', waits'[u], u)
    <3>1. u # t  BY <2>10, <2>11
    <3>2. t \in Range(Top(waits'[u]).objs)  BY <1>3, <2>9, <2>11, <3>1, RisesMissed
    <3>3. 1 \in DOMAIN stack' /\ stack'[1] = g  BY <2>6
    <3> QED  BY <2>5, <3>2, <3>3 DEF Comes
  <2>12. Covers'  BY <2>11 DEF Covers
  <2> QED  BY <2>5, <2>6, <2>12, NoCountCalls
<1> QED  BY <1>6, <1>7

\* abandon_mutexes
LEMMA AbandonMissed ==
  ASSUME TypeInv, TypeInv', QueueInv', Nested(stack, queue, dead), Covers, Abandon
  PROVE  Covers' /\ BudgetInv'
<1>1. PICK f \in ServerFrames(dead) : stack = <<f>> /\ Top(stack) = f /\ Len(stack) = 1 /\ Pop(stack) = <<>>
  BY Alone DEF Abandon
<1>2. f.op = "abandon" /\ f.x \in Threads
  <2>1. Top(stack).op = "abandon" /\ stack # <<>>  BY DEF Abandon
  <2> QED  BY <1>1, <2>1, FrameThread DEF ThreadOps
<1>3. PICK t \in Threads : t = f.x  BY <1>2
<1>4. UNCHANGED <<waits, suspend, apcVars, scount, signaled, dead, removed>>  BY DEF Abandon, waitVars
<1>5. ASSUME NEW u \in Threads, Missed(u) PROVE t \in Range(Top(waits[u]).objs)
  <2>1. PICK k \in DOMAIN stack : Comes(stack[k], queue, waits[u], u)  BY <1>5 DEF Covers
  <2>2. stack[k] = f  BY <1>1, <2>1
  <2> QED  BY <1>2, <1>3, <2>1, <2>2 DEF Comes
<1>6. ASSUME NEW m \in mutex_list[t], Released(m), stack' = stack \o <<CallWakeUp(m, 0)>>
      PROVE  Covers' /\ BudgetInv'
  <2>1. m \in Mutexes  BY DEF TypeInv, ObjTypeOK
  <2>2. \A u \in Threads, p \in Objects : Signaled(p, u)' => Signaled(p, u) \/ p = m
    BY <1>4, <1>6, <2>1, ReleasedRise
  <2>3. \A u \in Threads : Rises(u, m)  BY <1>4, <2>2 DEF Rises, Unchanged, apcVars
  <2>4. stack' = <<f, CallWakeUp(m, 0)>>  BY <1>1, <1>6, PairSeq
  <2>5. 1 \in DOMAIN stack' /\ stack'[1] = f /\ 2 \in DOMAIN stack' /\ stack'[2] = CallWakeUp(m, 0)  BY <2>4
  <2>6. ASSUME NEW u \in Threads, Missed(u)' PROVE \E j \in DOMAIN stack' : Comes(stack'[j], queue', waits'[u], u)
    <3>1. CASE Missed(u)
      <4>1. t \in Range(Top(waits'[u]).objs)  BY <1>4, <1>5, <3>1
      <4> QED  BY <1>2, <1>3, <2>5, <4>1 DEF Comes
    <3>2. CASE ~Missed(u)
      <4>1. m \in Range(Top(waits'[u]).objs)  BY <1>4, <2>3, <2>6, <3>2, RisesMissed
      <4> QED  BY <2>5, <2>6, <4>1, WakeAllCalled
    <3> QED  BY <3>1, <3>2
  <2>7. Covers'  BY <2>6 DEF Covers
  <2>8. CallWakeUp(m, 0).n = 0  BY CallFacts
  <2> QED  BY <1>2, <2>4, <2>7, <2>8, NoCountCalls
<1>7. CASE /\ stack' = [stack EXCEPT ![Len(stack)].op = "cleanup"] \o <<CallWakeUp(t, 0)>>
           /\ UNCHANGED <<mcount, owner, abandoned, mutex_list>>
  <2>1. PICK g : g = [f EXCEPT !.op = "cleanup"]  OBVIOUS
  <2>2. g.op = "cleanup"
    <3>1. f \in [op : {"abandon", "cleanup"}, x : Threads \cap dead, n : Nat, next : {End}]
      BY <1>2 DEF ServerFrames
    <3> QED  BY <2>1, <3>1
  <2>3. stack' = <<g, CallWakeUp(t, 0)>>  BY <1>1, <1>7, <2>1, PairSeq
  <2>4. 2 \in DOMAIN stack' /\ stack'[2] = CallWakeUp(t, 0)  BY <2>3
  <2>5. \A u, p : Signaled(p, u)' => Signaled(p, u)  BY <1>4, <1>7, FewerSignals
  <2>6. \A u \in Threads : Calmer(u)  BY <1>4, <2>5 DEF Calmer, Unchanged, apcVars
  <2>7. ASSUME NEW u \in Threads, Missed(u)' PROVE \E j \in DOMAIN stack' : Comes(stack'[j], queue', waits'[u], u)
    <3>1. t \in Range(Top(waits'[u]).objs)  BY <1>4, <1>5, <2>6, <2>7, CalmerMissed
    <3> QED  BY <2>4, <2>7, <3>1, WakeAllCalled
  <2>8. Covers'  BY <2>7 DEF Covers
  <2>9. CallWakeUp(t, 0).n = 0  BY CallFacts
  <2> QED  BY <2>2, <2>3, <2>8, <2>9, NoCountCalls
<1> QED  BY <1>1, <1>3, <1>6, <1>7 DEF Abandon

\* cleanup_thread and remove_process_thread
LEMMA CleanupMissed ==
  ASSUME TypeInv, TypeInv', QueueInv', Nested(stack, queue, dead), Covers, Cleanup
  PROVE  Covers' /\ BudgetInv'
<1>1. PICK f \in ServerFrames(dead) : stack = <<f>> /\ Top(stack) = f /\ Len(stack) = 1 /\ Pop(stack) = <<>>
  BY Alone DEF Cleanup
<1>2. f.op = "cleanup" /\ f.x \in Threads
  <2>1. Top(stack).op = "cleanup" /\ stack # <<>>  BY DEF Cleanup
  <2> QED  BY <1>1, <2>1, FrameThread DEF ThreadOps
<1>3. PICK t \in Threads : t = f.x  BY <1>2
<1>4. PICK p0 \in Processes : p0 = ProcessOf[t]  BY ObjectAssumption
<1>5. /\ UNCHANGED <<mcount, owner, scount, signaled, dead, waits, suspend>> /\ removed' = removed \cup {t}
      /\ system_apc' = [system_apc EXCEPT ![t] = <<>>] /\ user_apc' = [user_apc EXCEPT ![t] = <<>>]
      /\ stack' = Pop(stack) \o IF \E u \in Threads \ removed' : ProcessOf[u] = p0
                                THEN <<>> ELSE <<CallWakeUp(p0, 0)>>
  BY <1>1, <1>3, <1>4 DEF Cleanup, waitVars
<1>6. \A u \in Threads : ~Missed(u)  BY <1>1, <1>2, IdleMissed
<1>7. \A u \in Threads, p \in Objects : Signaled(p, u)' => Signaled(p, u) \/ p = p0
  BY <1>4, <1>5 DEF Signaled, mutex_signaled, semaphore_signaled, event_signaled, timer_signaled,
       thread_signaled, process_signaled
<1>8. system_apc \in [Threads -> Seq({NoOwner})] /\ user_apc \in [Threads -> Seq(Timers \cup {NoOwner})]
  BY DEF TypeInv
<1>9. \A u \in Threads : Unchanged(u)  BY <1>5, <1>8 DEF Unchanged
<1>10. CASE \E u \in Threads \ removed' : ProcessOf[u] = p0
  <2>1. \A u : ~Signaled(p0, u)'
    <3>1. p0 \notin Threads \cup Mutexes \cup Semaphores \cup Events \cup Timers  BY KindAssumption
    <3> QED  BY <1>10, <3>1 DEF Signaled, process_signaled
  <2>2. \A u \in Threads : Calmer(u)  BY <1>7, <1>9, <2>1 DEF Calmer
  <2>3. \A u \in Threads : ~Missed(u)'  BY <1>6, <2>2, CalmerMissed
  <2>4. stack' = <<>>  BY <1>1, <1>5, <1>10, AloneSteps
  <2> QED  BY <2>3, <2>4, NobodyCovered, NoCountCalls
<1>11. CASE ~\E u \in Threads \ removed' : ProcessOf[u] = p0
  <2>1. stack' = <<CallWakeUp(p0, 0)>>  BY <1>1, <1>5, <1>11, AloneSteps
  <2>2. 1 \in DOMAIN stack' /\ stack'[1] = CallWakeUp(p0, 0) /\ CallWakeUp(p0, 0).n = 0  BY <2>1, CallFacts
  <2>3. ASSUME NEW u \in Threads, Missed(u)' PROVE \E j \in DOMAIN stack' : Comes(stack'[j], queue', waits'[u], u)
    <3>1. Rises(u, p0)  BY <1>7, <1>9 DEF Rises
    <3>2. p0 \in Range(Top(waits'[u]).objs)  BY <1>5, <1>6, <2>3, <3>1, RisesMissed
    <3> QED  BY <2>2, <2>3, <3>2, WakeAllCalled
  <2>4. Covers'  BY <2>3 DEF Covers
  <2> QED  BY <2>1, <2>2, <2>4, NoCountCalls
<1> QED  BY <1>10, <1>11

\* The rest of timer_callback.
LEMMA TimerSignalsMissed ==
  ASSUME TypeInv, TypeInv', QueueInv', Nested(stack, queue, dead), Covers, TimerSignals
  PROVE  Covers' /\ BudgetInv'
<1>1. PICK f \in ServerFrames(dead) : stack = <<f>> /\ Top(stack) = f /\ Len(stack) = 1 /\ Pop(stack) = <<>>
  BY Alone DEF TimerSignals
<1>2. f.op = "expire"  BY <1>1 DEF TimerSignals
<1>3. PICK r : r = f.x  OBVIOUS
<1>4. /\ UNCHANGED <<mcount, owner, scount, dead, removed, waits, suspend, apcVars>>
      /\ signaled' = signaled \cup {r} /\ stack' = Pop(stack) \o <<CallWakeUp(r, 0)>>
  BY <1>1, <1>3 DEF TimerSignals, waitVars
<1>5. \A u \in Threads : ~Missed(u)  BY <1>1, <1>2, IdleMissed
<1>6. \A u \in Threads, p \in Objects : Signaled(p, u)' => Signaled(p, u) \/ p = r
  BY <1>4 DEF Signaled, mutex_signaled, semaphore_signaled, event_signaled, timer_signaled,
       thread_signaled, process_signaled
<1>7. stack' = <<CallWakeUp(r, 0)>>  BY <1>1, <1>4, AloneSteps
<1>8. 1 \in DOMAIN stack' /\ stack'[1] = CallWakeUp(r, 0) /\ CallWakeUp(r, 0).n = 0  BY <1>7, CallFacts
<1>9. ASSUME NEW u \in Threads, Missed(u)' PROVE \E j \in DOMAIN stack' : Comes(stack'[j], queue', waits'[u], u)
  <2>1. Rises(u, r)  BY <1>4, <1>6 DEF Rises, Unchanged, apcVars
  <2>2. r \in Range(Top(waits'[u]).objs)  BY <1>4, <1>5, <1>9, <2>1, RisesMissed
  <2> QED  BY <1>8, <1>9, <2>2, WakeAllCalled
<1>10. Covers'  BY <1>9 DEF Covers
<1> QED  BY <1>7, <1>8, <1>10, NoCountCalls

\* The end of pulse_event.
LEMMA PulseResetMissed ==
  ASSUME TypeInv, Nested(stack, queue, dead), Covers, PulseReset
  PROVE  Covers' /\ BudgetInv'
<1>1. PICK f \in ServerFrames(dead) : stack = <<f>> /\ Top(stack) = f /\ Len(stack) = 1 /\ Pop(stack) = <<>>
  BY Alone DEF PulseReset
<1>2. f.op = "reset"  BY <1>1 DEF PulseReset
<1>3. \A u \in Threads : ~Missed(u)  BY <1>1, <1>2, IdleMissed
<1>4. /\ UNCHANGED <<mcount, owner, scount, dead, removed, waits, suspend, apcVars>>
      /\ signaled' \subseteq signaled /\ stack' = <<>>
  BY <1>1 DEF PulseReset, waitVars
<1>5. \A u, p : Signaled(p, u)' => Signaled(p, u)  BY <1>4, FewerSignals
<1>6. \A u \in Threads : ~Missed(u)'  BY <1>3, <1>4, <1>5, CalmerMissed DEF Calmer, Unchanged, apcVars
<1> QED  BY <1>4, <1>6, NobodyCovered, NoCountCalls

\* The rest of select_on.
LEMMA SelectRestMissed ==
  ASSUME TypeInv, SelectInv, Nested(stack, queue, dead), Covers, SelectRest
  PROVE  Covers' /\ BudgetInv'
<1>1. PICK f \in ServerFrames(dead) : /\ stack = <<f>> /\ Top(stack) = f /\ Len(stack) = 1 /\ Pop(stack) = <<>>
                                      /\ Outer(f, dead)
  BY Alone DEF SelectRest
<1>2. f.op = "select" /\ f.x \in Threads /\ f.x \notin dead
  <2>1. Top(stack).op = "select" /\ stack # <<>>  BY DEF SelectRest
  <2> QED  BY <1>1, <2>1, FrameThread DEF ThreadOps, Outer
<1>3. PICK t \in Threads : t = f.x  BY <1>2
<1>4. UNCHANGED <<suspend, apcVars>> /\ stack' = <<>>  BY <1>1 DEF SelectRest
<1>5. ASSUME NEW u \in Threads, u # t PROVE ~Missed(u)
  <2> SUFFICES ASSUME Missed(u) PROVE FALSE  OBVIOUS
  <2>1. PICK k \in DOMAIN stack : Comes(stack[k], queue, waits[u], u)  BY DEF Covers
  <2>2. stack[k] = f  BY <1>1, <2>1
  <2> QED  BY <1>2, <1>3, <1>5, <2>1, <2>2 DEF Comes
<1>6. Selecting(t)  BY <1>1, <1>2, <1>3 DEF Selecting
<1>7. waits \in [Threads -> Seq(WaitRecords)] /\ waits[t] \in Seq(WaitRecords) /\ Len(waits[t]) <= 1
  BY <1>6 DEF TypeInv, SelectInv
<1> SUFFICES \A u \in Threads : ~Missed(u)'  BY <1>4, NobodyCovered, NoCountCalls
<1> DEFINE w == Top(waits[t])
<1>8. CASE waits[t] = <<>> /\ UNCHANGED <<objVars, waits>>
  <2>1. \A u, p : Signaled(p, u)' <=> Signaled(p, u)  BY <1>8, SameSignals
  <2>2. ~Missed(t)  BY <1>8 DEF Missed
  <2>3. \A u \in Threads : ~Missed(u)  BY <1>5, <2>2
  <2> QED  BY <1>4, <1>8, <2>1, <2>3, CalmerMissed DEF Calmer, Unchanged, apcVars
<1>9. CASE waits[t] # <<>> /\ Acquire(t, w) /\ EndWait(t)
  <2>1. w \in WaitRecords  BY <1>9, TopWait
  <2>2. \A u \in Threads, p \in Objects : Signaled(p, u)' => Signaled(p, u)  BY <1>9, <2>1, AcquireCalm
  <2>3. waits'[t] = Pop(waits[t]) /\ \A u \in Threads : u # t => waits'[u] = waits[u]
    BY <1>7, <1>9 DEF EndWait
  <2> HIDE DEF WaitRecords
  <2>4. Pop(waits[t]) = <<>>
    <3>1. Len(waits[t]) \in Nat \ {0} /\ Pop(waits[t]) \in Seq(WaitRecords) /\ Len(Pop(waits[t])) = Len(waits[t]) - 1
      BY <1>7, <1>9, TopPop
    <3>2. Len(Pop(waits[t])) = 0  BY <1>7, <3>1
    <3> QED  BY <3>1, <3>2, NotEmpty
  <2>5. ~Missed(t)'  BY <2>3, <2>4 DEF Missed
  <2>6. \A u \in Threads : u # t => ~Missed(u)'
    BY <1>4, <1>5, <2>2, <2>3, CalmerMissed DEF Calmer, Unchanged, apcVars
  <2> QED  BY <2>5, <2>6
<1>10. CASE /\ waits[t] # <<>> /\ CheckWait(t, w) = "none" /\ UNCHANGED objVars
            /\ waits' = [waits EXCEPT ![t][1].user = w.when # "never", ![t][1].cookie = 1]
  <2>1. w \in WaitRecords /\ Len(waits[t]) \in Nat \ {0}  BY <1>10, TopWait
  <2>0. \A n \in Nat \ {0} : n <= 1 => n = 1  OBVIOUS
  <2>2. Len(waits[t]) = 1 /\ w = waits[t][1]
    <3>1. Len(waits[t]) = 1  BY <1>7, <2>0, <2>1
    <3> QED  BY <3>1 DEF Top
  <2> DEFINE x == [w EXCEPT !.user = w.when # "never", !.cookie = 1]
  <2>3. /\ x.objs = w.objs /\ x.all = w.all /\ x.when = w.when /\ x.intr = w.intr /\ x.alertable = w.alertable
        /\ x \in WaitRecords
    BY <2>1 DEF WaitRecords
  <2>4. waits'[t] = [waits[t] EXCEPT ![1] = x]
    BY <1>7, <1>10, <2>1, <2>2
  <2>5. \A u \in Threads : u # t => waits'[u] = waits[u]  BY <1>7, <1>10
  <2> HIDE DEF x, w, WaitRecords
  <2>6. Len(waits'[t]) = 1 /\ waits'[t][1] = x  BY <1>7, <2>2, <2>3, <2>4
  <2>7. Top(waits'[t]) = x  BY <2>6 DEF Top
  <2>8. UNCHANGED <<objVars, suspend, apcVars>>  BY <1>4, <1>10
  <2>9. ~Missed(t)'  BY <1>10, <2>3, <2>7, <2>8, LetGoOn
  <2>10. \A u, p : Signaled(p, u)' <=> Signaled(p, u)  BY <1>10, SameSignals
  <2>11. \A u \in Threads : u # t => ~Missed(u)'
    BY <1>4, <1>5, <2>5, <2>10, CalmerMissed DEF Calmer, Unchanged, apcVars
  <2> QED  BY <2>9, <2>11
<1> QED  BY <1>1, <1>2, <1>3, <1>8, <1>9, <1>10 DEF SelectRest, waitVars

\* check_wait ends the wait of a thread that is missed.
LEMMA MissedWakeable ==
  ASSUME NEW t, suspend[t] \in Nat, Missed(t)
  PROVE  Wakeable(t)
<1> DEFINE w == Top(waits[t])
<1>1. waits[t] # <<>> /\ suspend[t] = 0 /\ (Ready(t, w) \/ Pressing(t))  BY DEF Missed
<1>2. CASE Ready(t, w)
  <2>1. CheckWait(t, w) \in {"object", "abandoned"}  BY <1>1, <1>2 DEF CheckWait
  <2> QED  BY <1>1, <2>1 DEF Wakeable
<1>3. CASE ~Ready(t, w)
  <2>1. Interrupted(t, w) \/ w.when = "past"  BY <1>1, <1>3 DEF Pressing
  <2>2. CheckWait(t, w) \in {"apc", "timeout"}  BY <1>1, <1>3, <2>1 DEF CheckWait, Interrupted
  <2> QED  BY <1>1, <2>2 DEF Wakeable
<1> QED  BY <1>2, <1>3

\* An object that a signal is left of is signaled, for every thread, and only then.
LEMMA LeftSignaled ==
  ASSUME TypeInv, NEW o \in Counted, NEW u
  PROVE  Left(o) \in Nat /\ (Signaled(o, u) <=> Left(o) > 0)
<1>1. CASE o \in Semaphores
  <2>1. o \notin Mutexes \cup Events \cup Timers \cup Threads \cup Processes  BY <1>1, KindAssumption
  <2>2. scount[o] \in Nat  BY <1>1 DEF TypeInv, ObjTypeOK
  <2> QED  BY <1>1, <2>1, <2>2 DEF Left, Signaled, semaphore_signaled
<1>2. CASE o \in Events \ Manual
  <2>1. o \notin Mutexes \cup Semaphores \cup Timers \cup Threads \cup Processes  BY <1>2, KindAssumption
  <2> QED  BY <1>2, <2>1 DEF Left, Signaled, event_signaled
<1> QED  BY <1>1, <1>2 DEF Counted

\* A thread that waits in vain for this object alone: a signal is left.
LEMMA SomethingLeft ==
  ASSUME TypeInv, NEW u \in Threads, NEW o \in Counted, Missed(u), Only(u, o)
  PROVE  Left(o) > 0
<1> DEFINE w == Top(waits[u])
<1>1. Ready(u, w) /\ o \in Range(w.objs) /\ (~w.all => \A i \in SignaledAt(u, w) : w.objs[i] = o)
  BY DEF Missed, Only
<1>2. PICK i \in DOMAIN w.objs : w.objs[i] = o  BY <1>1 DEF Range
<1>3. \E j \in SignaledAt(u, w) : w.objs[j] = o
  <2>1. CASE w.all  BY <1>1, <1>2, <2>1 DEF Ready
  <2>2. CASE ~w.all  BY <1>1, <2>2 DEF Ready
  <2> QED  BY <2>1, <2>2
<1>4. Signaled(o, u)  BY <1>3 DEF SignaledAt
<1> QED  BY <1>4, LeftSignaled

\* A step that ends no wait and takes no signal leaves the count of a wake_up exact.
LEMMA ExactSame ==
  ASSUME TypeInv, NEW o, NEW n, Exact(o, n), Left(o)' = Left(o),
         \A u \in Threads : Calmer(u), \A u \in Threads : Selecting(u) => Selecting(u)'
  PROVE  Exact(o, n)'
<1> SUFFICES ASSUME NEW u \in Threads, Missed(u)', ~Selecting(u)'
             PROVE  Left(o)' = n /\ Only(u, o)'
  BY DEF Exact
<1>1. Missed(u) /\ ~Selecting(u) /\ (Only(u, o) => Only(u, o)')  BY CalmerMissed
<1>2. Left(o) = n /\ Only(u, o)  BY <1>1 DEF Exact
<1> QED  BY <1>1, <1>2

\* What the nesting of the calls says of a wake_up on the stack.
LEMMA WakeUpPlace ==
  ASSUME TypeInv, Nested(stack, queue, dead), NEW k \in DOMAIN stack, stack[k].op = "wake_up"
  PROVE  /\ Len(stack) \in Nat /\ DOMAIN stack = 1..Len(stack) /\ stack[k].x \in Objects
         /\ k = Len(stack) \/ (k + 1 = Len(stack) /\ Top(stack).op = "wake_thread")
         /\ k = Len(stack) => stack[k].next \in {Start, End} \cup Range(queue[stack[k].x])
         /\ k < Len(stack) => \/ stack[k].next = End
                              \/ /\ stack[k].next \in Range(queue[stack[k].x])
                                 /\ stack[k].next.thread # Top(stack).x
<1>1. stack \in Seq(ServerFrames(dead))  BY DEF TypeInv
<1>2. Len(stack) \in Nat /\ DOMAIN stack = 1..Len(stack) /\ stack[k] \in ServerFrames(dead)  BY <1>1
<1>3. stack[k].x \in Objects  BY <1>2, FrameTypes
<1>4. k \in 1..Len(stack)  BY <1>2
<1>5. IF k = Len(stack) THEN stack[k].next \in {Start, End} \cup Range(queue[stack[k].x])
      ELSE /\ k + 1 = Len(stack) /\ stack[Len(stack)].op = "wake_thread"
           /\ \/ stack[k].next = End
              \/ stack[k].next \in Range(queue[stack[k].x]) /\ stack[k].next.thread # stack[Len(stack)].x
  BY DEF Nested
<1> QED  BY <1>2, <1>3, <1>4, <1>5 DEF Top

\* The loop comes to an entry now, or later when it is another's.
LEMMA RoundAhead ==
  ASSUME NEW q \in Seq(Entries), IsInjective(q), NEW next \in {Start} \cup Range(q), NEW u, Ahead(next, q, u),
         NEW i \in DOMAIN q, next # Start => q[i] = next, next = Start => q[i] = q[1]
  PROVE  q[i].thread = u \/ (i # Len(q) /\ Ahead(q[i + 1], q, u))
<1>1. Len(q) \in Nat /\ DOMAIN q = 1..Len(q)  OBVIOUS
<1>2. PICK j \in DOMAIN q : q[j].thread = u /\ (next = Start \/ \E l \in 1..j : q[l] = next)
  BY DEF Ahead
<1>3. \A k, l \in DOMAIN q : q[k] = q[l] => k = l  BY DEF IsInjective
<1>4. i <= j
  <2>1. CASE next = Start
    <3>1. 1 \in DOMAIN q  BY <1>1
    <3>2. i = 1  BY <1>3, <2>1, <3>1
    <3> QED  BY <1>1, <1>2, <3>2
  <2>2. CASE next # Start
    <3>1. PICK l \in 1..j : q[l] = next  BY <1>2, <2>2
    <3>2. l \in DOMAIN q  BY <1>1, <1>2, <3>1
    <3>3. l = i  BY <1>3, <2>2, <3>1, <3>2
    <3> QED  BY <1>1, <1>2, <3>1, <3>3
  <2> QED  BY <2>1, <2>2
<1>5. CASE i = j  BY <1>2, <1>5
<1>6. CASE i # j
  <2>1. i + 1 \in 1..j /\ i # Len(q)  BY <1>1, <1>2, <1>4, <1>6
  <2> QED  BY <1>2, <2>1 DEF Ahead
<1> QED  BY <1>5, <1>6

\* One round of wake_up.
LEMMA WakeUpMissed ==
  ASSUME TypeInv, WaitInv, Nested(stack, queue, dead), Covers, BudgetInv, WakeUp,
         \A u \in Threads : Selecting(u) => Selecting(u)'
  PROVE  Covers' /\ BudgetInv'
<1> DEFINE L == Len(stack)
           q == queue[stack[L].x]
<1>1. stack # <<>> /\ Top(stack).op = "wake_up" /\ UNCHANGED <<objVars, queue, waits, suspend, apcVars>>
  BY DEF WakeUp, waitVars
<1>2. stack \in Seq(ServerFrames(dead))  BY DEF TypeInv
<1> HIDE DEF ServerFrames
<1>3. /\ L \in Nat \ {0} /\ L \in DOMAIN stack /\ DOMAIN stack = 1..L /\ Top(stack) = stack[L]
      /\ stack[L] \in ServerFrames(dead)
      /\ DOMAIN Pop(stack) = 1..(L - 1) /\ \A k \in 1..(L - 1) : Pop(stack)[k] = stack[k]
  BY <1>1, <1>2, TopPop
<1>4. PICK f \in ServerFrames(dead) : f = stack[L] /\ f.op = "wake_up"  BY <1>1, <1>3
<1>5. f.x \in Objects /\ f.next \in {Start, End} \cup Range(q)  BY <1>1, <1>3, <1>4, WakeUpPlace
<1>6. q \in Seq(Entries) /\ IsInjective(q)
  BY <1>4, <1>5, QueueForm DEF TypeInv, WaitInv, QueueInv
<1>7. \A k \in DOMAIN stack : k # L => stack[k].op # "wake_up"
  <2> SUFFICES ASSUME NEW k \in DOMAIN stack, k # L, stack[k].op = "wake_up" PROVE FALSE  OBVIOUS
  <2>1. Top(stack).op = "wake_thread"  BY WakeUpPlace
  <2> QED  BY <1>1, <2>1
<1>8. \A u \in Threads : Calmer(u)
  <2>1. \A u, p : Signaled(p, u)' <=> Signaled(p, u)  BY <1>1, SameSignals
  <2> QED  BY <1>1, <2>1 DEF Calmer, Unchanged, apcVars
<1>9. \A u \in Threads : Missed(u)' => Missed(u)  BY <1>8, CalmerMissed
<1>10. \A g, u : Comes(g, queue', waits'[u], u) <=> Comes(g, queue, waits[u], u)  BY <1>1
<1>11. \A i \in DOMAIN q : q[i].thread \in Threads /\ q[i] # Start /\ q[i] # End
  <2>1. \A e \in Entries : e.thread \in Threads  BY DEF Entries
  <2>2. \A i \in DOMAIN q : q[i] \in Entries  BY <1>6
  <2> QED  BY <2>1, <2>2, ObjectAssumption DEF Start, End
<1>12. CASE /\ (f.next # Start /\ f.next = End) \/ (f.next = Start /\ q = <<>>)
            /\ stack' = Pop(stack)
  <2>1. \A u \in Threads : ~Ahead(f.next, q, u)
    <3>1. CASE q = <<>>  BY <3>1 DEF Ahead
    <3>2. CASE f.next = End /\ f.next # Start
      <4> SUFFICES ASSUME NEW u \in Threads, Ahead(f.next, q, u) PROVE FALSE  OBVIOUS
      <4>1. PICK j \in DOMAIN q : \E i \in 1..j : q[i] = f.next  BY <3>2 DEF Ahead
      <4>2. PICK i \in 1..j : q[i] = End  BY <3>2, <4>1
      <4>3. i \in DOMAIN q  BY <1>6, <4>1, <4>2
      <4> QED  BY <1>11, <4>2, <4>3
    <3> QED  BY <1>12, <3>1, <3>2
  <2>2. ASSUME NEW u \in Threads, Missed(u)' PROVE \E k \in DOMAIN stack' : Comes(stack'[k], queue', waits'[u], u)
    <3>1. PICK k \in DOMAIN stack : Comes(stack[k], queue, waits[u], u)  BY <1>9, <2>2 DEF Covers
    <3>2. k # L  BY <1>4, <2>1, <3>1 DEF Comes
    <3>3. k \in DOMAIN stack' /\ stack'[k] = stack[k]  BY <1>3, <1>12, <3>2
    <3> QED  BY <1>10, <3>1, <3>3
  <2>3. \A k \in DOMAIN stack' : stack'[k].op # "wake_up"  BY <1>3, <1>7, <1>12
  <2>4. Covers'  BY <2>2 DEF Covers
  <2> QED  BY <2>3, <2>4, NoCount
<1>13. ASSUME NEW i \in DOMAIN q, f.next # Start => q[i] = f.next, f.next = Start => q[i] = q[1], f.next # End,
              NEW c, c = IF i = Len(q) THEN End ELSE q[i + 1],
              stack' = Pop(stack) \o <<[f EXCEPT !.next = c], CallWakeThread(q[i].thread)>>
       PROVE  Covers' /\ BudgetInv'
  <2>1. c \in Entries \cup {End}
    <3>1. i # Len(q) => i + 1 \in DOMAIN q  BY <1>6
    <3> QED  BY <1>6, <1>13, <3>1
  <2>2. PICK g : g = [f EXCEPT !.next = c]  OBVIOUS
  <2>3. g \in ServerFrames(dead)  BY <1>4, <2>1, <2>2, FrameTypes
  <2>4. g.op = "wake_up" /\ g.x = f.x /\ g.n = f.n /\ g.next = c
    <3>1. f \in [op : {"wake_up"}, x : Objects, n : Nat, next : Entries \cup {Start, End}]
      BY <1>4 DEF ServerFrames
    <3> QED  BY <2>2, <3>1
  <2>5. PICK v \in Threads : v = q[i].thread  BY <1>11
  <2>6. CallWakeThread(v) \in ServerFrames(dead)  BY FrameTypes
  <2>7. /\ stack' \in Seq(ServerFrames(dead)) /\ DOMAIN stack' = 1..(L + 1) /\ stack'[L] = g
        /\ stack'[L + 1] = CallWakeThread(v) /\ \A k \in 1..(L - 1) : stack'[k] = stack[k]
    <3>1. PICK h \in ServerFrames(dead) : h = CallWakeThread(v)  BY <2>6
    <3>2. stack' = Pop(stack) \o <<g, h>>  BY <1>13, <2>2, <2>5, <3>1
    <3> QED  BY <1>1, <1>2, <1>3, <2>3, <3>1, <3>2, ChangeCallPlaces
  <2>8. Len(stack') = L + 1  BY <1>3, <2>7
  <2>9. ASSUME NEW u \in Threads, Missed(u)' PROVE \E k \in DOMAIN stack' : Comes(stack'[k], queue', waits'[u], u)
    <3>1. PICK k \in DOMAIN stack : Comes(stack[k], queue, waits[u], u)  BY <1>9, <2>9 DEF Covers
    <3>2. CASE k # L
      <4>1. k \in DOMAIN stack' /\ stack'[k] = stack[k]  BY <1>3, <2>7, <3>2
      <4> QED  BY <1>10, <3>1, <4>1
    <3>3. CASE k = L
      <4>1. Ahead(f.next, q, u)  BY <1>4, <3>1, <3>3 DEF Comes
      <4>2. v = u \/ (i # Len(q) /\ Ahead(q[i + 1], q, u))
        BY <1>5, <1>6, <1>13, <2>5, <4>1, RoundAhead
      <4>3. CASE v = u
        <5>1. Comes(stack'[L + 1], queue', waits'[u], u)  BY <2>7, <4>3, CallFacts DEF Comes
        <5> QED  BY <1>3, <2>7, <5>1
      <4>4. CASE i # Len(q) /\ Ahead(q[i + 1], q, u)
        <5>1. Comes(stack'[L], queue', waits'[u], u)  BY <1>1, <1>4, <1>13, <2>4, <2>7, <4>4 DEF Comes
        <5> QED  BY <1>3, <2>7, <5>1
      <4> QED  BY <4>2, <4>3, <4>4
    <3> QED  BY <3>2, <3>3
  <2>10. BudgetInv'
    <3> SUFFICES ASSUME NEW k \in DOMAIN stack', NEW o, NEW n, Counting(k, o, n)' PROVE Budget(k, o, n)'
      BY BudgetFormNext
    <3>1. stack'[k].op = "wake_up" /\ stack'[k].x = o /\ stack'[k].n = n /\ n > 0  BY DEF Counting
    <3>2. k = L
      <4>1. k # L + 1  BY <2>7, <3>1, CallFacts
      <4>2. k \in 1..(L - 1) => k \in DOMAIN stack /\ k # L  BY <1>3
      <4>3. k \notin 1..(L - 1)  BY <1>7, <2>7, <3>1, <4>2
      <4> QED  BY <1>3, <2>7, <4>1, <4>3
    <3>3. o = f.x /\ n = f.n  BY <2>4, <2>7, <3>1, <3>2
    <3>4. Counting(L, o, n)  BY <1>4, <3>1, <3>3 DEF Counting
    <3>5. Budget(L, o, n)  BY <1>3, <3>4, BudgetForm
    <3>6. ~Woken(stack, L)  BY <1>3 DEF Woken
    <3>7. o \in Counted /\ Exact(o, n)  BY <3>5, <3>6 DEF Budget
    <3>8. Left(o)' = Left(o)  BY <1>1 DEF Left, objVars
    <3>9. Exact(o, n)'  BY <1>8, <3>7, <3>8, ExactSame
    <3>10. ~Woken(stack', L) /\ Top(stack').x = v
      <4>1. Top(stack') = CallWakeThread(v)  BY <2>7, <2>8 DEF Top
      <4> QED  BY <2>7, <2>8, <4>1, CallFacts DEF Woken
    <3>11. \E e \in Range(queue'[o]) : e.thread = v  BY <1>1, <1>4, <2>5, <3>3 DEF Range
    <3> QED  BY <3>2, <3>7, <3>9, <3>10, <3>11 DEF Budget, Woken
  <2>11. Covers'  BY <2>9 DEF Covers
  <2> QED  BY <2>10, <2>11
<1>14. /\ f.next = Start => (q = <<>> \/ (1 \in DOMAIN q /\ q[1] # Start /\ q[1] # End))
       /\ f.next \notin {Start, End} => \E i \in DOMAIN q : q[i] = f.next
  BY <1>5, <1>6, <1>11 DEF Range
<1>15. CASE f.next = Start
  <2>0. f.next # End /\ (q # <<>> => 1 \in DOMAIN q /\ q[1] # End)  BY <1>14, <1>15 DEF Start, End
  <2>1. \/ q = <<>> /\ stack' = Pop(stack)
        \/ q # <<>> /\ q[1] \notin Range(q)
        \/ q # <<>> /\ \E i \in DOMAIN q : q[1] = q[i] /\
             stack' = Pop(stack) \o <<[f EXCEPT !.next = IF i = Len(q) THEN End ELSE q[i + 1]],
                                     CallWakeThread(q[i].thread)>>
    <3>1. CASE q = <<>>  BY <1>1, <1>3, <1>4, <1>6, <1>15, <3>1 DEF WakeUp, Range
    <3>2. CASE q # <<>>  BY <1>1, <1>3, <1>4, <1>15, <2>0, <3>2 DEF WakeUp
    <3> QED  BY <3>1, <3>2
  <2>2. f.next # End  BY <1>15 DEF Start, End
  <2>3. CASE q = <<>> /\ stack' = Pop(stack)  BY <1>12, <1>15, <2>3
  <2>4. CASE q # <<>>
    <3>1. PICK i \in DOMAIN q :
             /\ q[1] = q[i]
             /\ stack' = Pop(stack) \o <<[f EXCEPT !.next = IF i = Len(q) THEN End ELSE q[i + 1]],
                                         CallWakeThread(q[i].thread)>>
      BY <2>0, <2>1, <2>4 DEF Range
    <3> QED  BY <1>13, <1>15, <2>2, <3>1
  <2> QED  BY <2>1, <2>3, <2>4
<1>16. CASE f.next # Start
  <2>1. \/ f.next = End /\ stack' = Pop(stack)
        \/ f.next # End /\ f.next \notin Range(q)
        \/ f.next # End /\ \E i \in DOMAIN q : f.next = q[i] /\
             stack' = Pop(stack) \o <<[f EXCEPT !.next = IF i = Len(q) THEN End ELSE q[i + 1]],
                                     CallWakeThread(q[i].thread)>>
    BY <1>1, <1>3, <1>4, <1>11, <1>16 DEF WakeUp
  <2>2. CASE f.next = End /\ stack' = Pop(stack)  BY <1>12, <1>16, <2>2
  <2>3. CASE f.next # End
    <3>1. PICK i \in DOMAIN q :
             /\ f.next = q[i]
             /\ stack' = Pop(stack) \o <<[f EXCEPT !.next = IF i = Len(q) THEN End ELSE q[i + 1]],
                                         CallWakeThread(q[i].thread)>>
      BY <1>5, <1>16, <2>1, <2>3
    <3> QED  BY <1>13, <1>16, <2>3, <3>1
  <2> QED  BY <2>1, <2>2, <2>3
<1> QED  BY <1>15, <1>16

\* How wake_thread returns: alone, with the wake_up that has woken all it was to wake, or to
\* one that has a thread less to wake.
LEMMA AfterWakeCases ==
  ASSUME TypeInv, stack # <<>>, NEW count \in Nat
  PROVE  \/ /\ AfterWake(count) = Pop(stack)
            /\ \/ Pop(stack) = <<>> \/ Top(Pop(stack)).op # "wake_up"
               \/ count = 0 \/ Top(Pop(stack)).n = 0
         \/ /\ count > 0 /\ Pop(stack) # <<>> /\ Top(Pop(stack)).op = "wake_up" /\ Top(Pop(stack)).n = 1
            /\ AfterWake(count) = Pop(Pop(stack))
         \/ /\ count > 0 /\ Pop(stack) # <<>> /\ Top(Pop(stack)).op = "wake_up" /\ Top(Pop(stack)).n \in Nat \ {0}
            /\ \E g \in ServerFrames(dead) :
                 /\ AfterWake(count) = [Pop(stack) EXCEPT ![Len(Pop(stack))] = g]
                 /\ g.op = "wake_up" /\ g.x = Top(Pop(stack)).x /\ g.next = Top(Pop(stack)).next
                 /\ g.n = Top(Pop(stack)).n - 1
<1>0. stack \in Seq(ServerFrames(dead))  BY DEF TypeInv
<1> HIDE DEF ServerFrames
<1>1. PICK p \in Seq(ServerFrames(dead)) : p = Pop(stack)  BY <1>0, TopPop
<1>2. CASE p = <<>> \/ Top(p).op # "wake_up" \/ count = 0 \/ Top(p).n = 0  BY <1>1, <1>2 DEF AfterWake
<1>3. CASE ~(p = <<>> \/ Top(p).op # "wake_up" \/ count = 0 \/ Top(p).n = 0)
  <2>1. PICK h \in ServerFrames(dead) : h = Top(p) /\ h = p[Len(p)]  BY <1>1, <1>3, TopPop
  <2>2. h.n \in Nat \ {0} /\ count > 0 /\ h.op = "wake_up"  BY <1>3, <2>1, FrameTypes
  <2>3. CASE h.n = 1
    <3>1. AfterWake(count) = Pop(p)  BY <1>1, <1>3, <2>1, <2>3 DEF AfterWake
    <3> QED  BY <1>1, <1>3, <2>1, <2>2, <2>3, <3>1
  <2>4. CASE h.n # 1
    <3>1. PICK m \in Nat : m = h.n - 1  BY <2>2
    <3>2. PICK g \in ServerFrames(dead) : g = [h EXCEPT !.n = m]  BY <3>1, FrameTypes
    <3>3. g.op = h.op /\ g.x = h.x /\ g.next = h.next /\ g.n = m
      <4>1. h \in [op : {"wake_up"}, x : Objects, n : Nat, next : Entries \cup {Start, End}]
        BY <2>2 DEF ServerFrames
      <4> QED  BY <3>2, <4>1
    <3>4. AfterWake(count) = [p EXCEPT ![Len(p)].n = p[Len(p)].n - 1]
      BY <1>1, <1>3, <2>1, <2>4 DEF AfterWake
    <3>5. AfterWake(count) = [p EXCEPT ![Len(p)] = g]  BY <2>1, <3>1, <3>2, <3>4
    <3> QED  BY <1>1, <1>3, <2>1, <2>2, <3>1, <3>3, <3>5
  <2> QED  BY <2>3, <2>4
<1> QED  BY <1>2, <1>3

\* wake_thread returns and its thread still waits: it has to.
LEMMA WakeThreadEndMissed ==
  ASSUME TypeInv, Nested(stack, queue, dead), Covers, BudgetInv, WakeThreadEnd,
         \A u \in Threads : Selecting(u) => Selecting(u)'
  PROVE  Covers' /\ BudgetInv'
<1>0. stack \in Seq(ServerFrames(dead)) /\ stack # <<>>  BY DEF TypeInv, WakeThreadEnd
<1> HIDE DEF ServerFrames
<1>1. PICK L \in Nat \ {0} : /\ L = Len(stack) /\ L \in DOMAIN stack /\ DOMAIN stack = 1..L /\ Top(stack) = stack[L]
                             /\ stack[L] \in ServerFrames(dead)
  BY <1>0, TopPop
<1>2. PICK p \in Seq(ServerFrames(dead)) :
        p = Pop(stack) /\ Len(p) = L - 1 /\ DOMAIN p = 1..(L - 1) /\ \A k \in 1..(L - 1) : p[k] = stack[k]
  BY <1>0, <1>1, TopPop
<1>3. stack[L].op = "wake_thread" /\ ~Wakeable(stack[L].x) /\ stack' = AfterWake(stack[L].n)
      /\ UNCHANGED <<objVars, queue, waits, suspend, apcVars>>
  BY <1>1 DEF WakeThreadEnd, Nested, waitVars
<1>4. stack[L].x \in Threads /\ stack[L].n \in Nat  BY <1>1, <1>3, FrameTypes DEF ThreadOps
<1>5. ~Missed(stack[L].x)
  <2>1. suspend[stack[L].x] \in Nat  BY <1>4 DEF TypeInv
  <2> QED  BY <1>3, <2>1, MissedWakeable
<1>6. \A u \in Threads : Calmer(u)
  <2>1. \A u, o : Signaled(o, u)' <=> Signaled(o, u)  BY <1>3, SameSignals
  <2> QED  BY <1>3, <2>1 DEF Calmer, Unchanged, apcVars
<1>7. ASSUME NEW u \in Threads, Missed(u)'
      PROVE  Missed(u) /\ \E k \in 1..(L - 1) : Comes(stack[k], queue', waits'[u], u)
  <2>1. Missed(u)  BY <1>6, <1>7, CalmerMissed
  <2>2. PICK k \in DOMAIN stack : Comes(stack[k], queue, waits[u], u)  BY <2>1 DEF Covers
  <2>3. k # L  BY <1>3, <1>5, <2>1, <2>2 DEF Comes
  <2>4. k \in 1..(L - 1)  BY <1>1, <2>2, <2>3
  <2> QED  BY <1>3, <2>1, <2>2, <2>4
<1>8. \A o : Left(o)' = Left(o)  BY <1>3 DEF Left, objVars
<1>9. \A k \in 1..(L - 1) : stack[k].op = "wake_up" => k + 1 = L
  <2> SUFFICES ASSUME NEW k \in 1..(L - 1), stack[k].op = "wake_up" PROVE k + 1 = L  OBVIOUS
  <2>1. k \in DOMAIN stack /\ k # L  BY <1>1
  <2> QED  BY <1>1, <2>1, WakeUpPlace
<1>10. CASE /\ AfterWake(stack[L].n) = p
            /\ p = <<>> \/ Top(p).op # "wake_up" \/ stack[L].n = 0 \/ Top(p).n = 0
  <2>1. stack' = p  BY <1>3, <1>10
  <2>2. Covers'  BY <1>2, <1>7, <2>1 DEF Covers
  <2>3. BudgetInv'
    <3> SUFFICES ASSUME NEW k \in DOMAIN stack', NEW o, NEW n, Counting(k, o, n)' PROVE Budget(k, o, n)'
      BY BudgetFormNext
    <3>1. k \in 1..(L - 1) /\ stack'[k] = stack[k] /\ stack'[k].op = "wake_up" /\ stack'[k].n = n /\ n > 0
      BY <1>2, <2>1 DEF Counting
    <3>2. k + 1 = L /\ k \in DOMAIN stack  BY <1>1, <1>9, <3>1
    <3>3. stack[L].n = 0
      <4>1. p # <<>> /\ Top(p) = p[L - 1] /\ k = L - 1  BY <1>1, <1>2, <3>1, <3>2 DEF Top
      <4> QED  BY <1>2, <1>10, <3>1, <4>1
    <3>4. Counting(k, o, n) /\ ~Woken(stack, k)  BY <1>1, <3>1, <3>3 DEF Counting, Woken
    <3>5. o \in Counted /\ Exact(o, n)  BY <3>2, <3>4, BudgetForm DEF Budget
    <3>6. Exact(o, n)'  BY <1>6, <1>8, <3>5, ExactSame
    <3>7. ~(k < Len(stack'))  BY <1>1, <1>2, <2>1, <3>2
    <3> QED  BY <3>5, <3>6, <3>7 DEF Budget, Woken
  <2> QED  BY <2>2, <2>3
<1>11. ASSUME p # <<>>, stack[L].n > 0, Top(p).op = "wake_up", Top(p).n \in Nat \ {0}
       PROVE  /\ L - 1 \in 1..(L - 1) /\ L - 1 \in DOMAIN stack /\ Top(p) = stack[L - 1]
              /\ stack[L - 1].x \in Counted /\ Exact(stack[L - 1].x, stack[L - 1].n - 1)
  <2>1. L - 1 \in 1..(L - 1) /\ Top(p) = p[L - 1]  BY <1>1, <1>2, <1>11, EmptySeq DEF Top
  <2>2. L - 1 \in DOMAIN stack /\ Top(p) = stack[L - 1]  BY <1>1, <1>2, <2>1
  <2>3. Woken(stack, L - 1)  BY <1>1, <1>11 DEF Woken
  <2>4. Counting(L - 1, stack[L - 1].x, stack[L - 1].n)  BY <1>11, <2>2 DEF Counting
  <2> QED  BY <2>1, <2>2, <2>3, <2>4, BudgetForm DEF Budget
<1>12. CASE /\ stack[L].n > 0 /\ p # <<>> /\ Top(p).op = "wake_up" /\ Top(p).n = 1
            /\ AfterWake(stack[L].n) = Pop(p)
  <2>1. PICK o : o = stack[L - 1].x  OBVIOUS
  <2>2. /\ L - 1 \in 1..(L - 1) /\ stack[L - 1].op = "wake_up" /\ o \in Counted /\ Exact(o, 0)
    BY <1>11, <1>12, <2>1
  <2>3. DOMAIN stack' = 1..(L - 2) /\ \A k \in 1..(L - 2) : stack'[k] = stack[k]
    BY <1>1, <1>2, <1>3, <1>12, TopPop
  <2>4. ASSUME NEW u \in Threads, Missed(u)' PROVE \E k \in DOMAIN stack' : Comes(stack'[k], queue', waits'[u], u)
    <3>1. Missed(u)  BY <1>7, <2>4
    <3>2. Selecting(u)
      <4> SUFFICES ASSUME ~Selecting(u) PROVE FALSE  OBVIOUS
      <4>1. Left(o) = 0 /\ Only(u, o)  BY <2>2, <3>1 DEF Exact
      <4> QED  BY <2>2, <3>1, <4>1, SomethingLeft
    <3>3. 1 # L /\ 1 # L - 1  BY <1>3, <2>2, <3>2 DEF Selecting
    <3>4. 1 \in 1..(L - 2)  BY <1>1, <2>2, <3>3
    <3>5. Comes(stack'[1], queue', waits'[u], u)  BY <2>3, <3>2, <3>4 DEF Selecting, Comes
    <3> QED  BY <2>3, <3>4, <3>5
  <2>5. \A k \in DOMAIN stack' : stack'[k].op # "wake_up"  BY <1>1, <1>9, <2>3
  <2>6. Covers'  BY <2>4 DEF Covers
  <2> QED  BY <2>5, <2>6, NoCount
<1>13. ASSUME stack[L].n > 0, p # <<>>, Top(p).op = "wake_up", Top(p).n \in Nat \ {0},
              NEW g \in ServerFrames(dead), AfterWake(stack[L].n) = [p EXCEPT ![Len(p)] = g],
              g.op = "wake_up", g.x = Top(p).x, g.next = Top(p).next, g.n = Top(p).n - 1
       PROVE  Covers' /\ BudgetInv'
  <2>1. PICK o : o = stack[L - 1].x  OBVIOUS
  <2>2. /\ L - 1 \in 1..(L - 1) /\ o \in Counted /\ Exact(o, stack[L - 1].n - 1)
        /\ g.x = o /\ g.next = stack[L - 1].next /\ g.n = stack[L - 1].n - 1 /\ stack[L - 1].op = "wake_up"
    BY <1>11, <1>13, <2>1
  <2>3. /\ DOMAIN stack' = 1..(L - 1) /\ stack'[L - 1] = g /\ Len(stack') = L - 1
        /\ \A k \in 1..(L - 1) : k # L - 1 => stack'[k] = stack[k]
    <3>1. stack' = [p EXCEPT ![L - 1] = g]  BY <1>2, <1>3, <1>13
    <3>2. stack' \in Seq(ServerFrames(dead)) /\ Len(stack') = Len(p)  BY <1>2, <2>2, <3>1
    <3> QED  BY <1>2, <2>2, <3>1, <3>2
  <2>4. ASSUME NEW u \in Threads, Missed(u)' PROVE \E k \in DOMAIN stack' : Comes(stack'[k], queue', waits'[u], u)
    <3>1. PICK k \in 1..(L - 1) : Comes(stack[k], queue', waits'[u], u)  BY <1>7, <2>4
    <3>2. CASE k # L - 1  BY <2>3, <3>1, <3>2
    <3>3. CASE k = L - 1
      <4>1. Comes(g, queue', waits'[u], u)  BY <1>13, <2>1, <2>2, <3>1, <3>3 DEF Comes
      <4> QED  BY <2>2, <2>3, <4>1
    <3> QED  BY <3>2, <3>3
  <2>5. BudgetInv'
    <3> SUFFICES ASSUME NEW k \in DOMAIN stack', NEW c, NEW n, Counting(k, c, n)' PROVE Budget(k, c, n)'
      BY BudgetFormNext
    <3>1. stack'[k].op = "wake_up" /\ stack'[k].x = c /\ stack'[k].n = n  BY DEF Counting
    <3>2. k = L - 1  BY <1>1, <1>9, <2>3, <3>1
    <3>3. c = o /\ n = stack[L - 1].n - 1  BY <2>2, <2>3, <3>1, <3>2
    <3>4. Exact(c, n)  BY <2>2, <3>3
    <3>5. Exact(c, n)'  BY <1>6, <1>8, <3>4, ExactSame
    <3>6. ~(k < Len(stack'))  BY <1>1, <2>3, <3>2
    <3> QED  BY <2>2, <3>3, <3>5, <3>6 DEF Budget, Woken
  <2>6. Covers'  BY <2>4 DEF Covers
  <2> QED  BY <2>5, <2>6
<1>14. \/ /\ AfterWake(stack[L].n) = p
          /\ p = <<>> \/ Top(p).op # "wake_up" \/ stack[L].n = 0 \/ Top(p).n = 0
       \/ /\ stack[L].n > 0 /\ p # <<>> /\ Top(p).op = "wake_up" /\ Top(p).n = 1
          /\ AfterWake(stack[L].n) = Pop(p)
       \/ /\ stack[L].n > 0 /\ p # <<>> /\ Top(p).op = "wake_up" /\ Top(p).n \in Nat \ {0}
          /\ \E g \in ServerFrames(dead) :
               /\ AfterWake(stack[L].n) = [p EXCEPT ![Len(p)] = g]
               /\ g.op = "wake_up" /\ g.x = Top(p).x /\ g.next = Top(p).next
               /\ g.n = Top(p).n - 1
  BY <1>0, <1>2, <1>4, AfterWakeCases
<1> QED  BY <1>10, <1>12, <1>13, <1>14

\* wake_thread has satisfied the wait: who waits for the object of a wake_up that counts has
\* one signal less to come, and the thread waits no more.
LEMMA WakeThreadMissed ==
  ASSUME TypeInv, SelectInv, DeadInv, GoneInv, QueueInv, PlainInv, Nested(stack, queue, dead), Covers, BudgetInv,
         WakeThread
  PROVE  Covers' /\ BudgetInv'
<1>0. stack \in Seq(ServerFrames(dead)) /\ stack # <<>>  BY DEF TypeInv, WakeThread
<1> HIDE DEF ServerFrames
<1>1. PICK L \in Nat \ {0} : /\ L = Len(stack) /\ L \in DOMAIN stack /\ DOMAIN stack = 1..L /\ Top(stack) = stack[L]
                             /\ stack[L] \in ServerFrames(dead)
  BY <1>0, TopPop
<1>2. stack[L].op = "wake_thread" /\ Wakeable(stack[L].x) /\ UNCHANGED <<suspend, apcVars>>
  BY <1>1 DEF WakeThread
<1>3. PICK t \in Threads : t = stack[L].x  BY <1>1, <1>2, FrameTypes DEF ThreadOps
<1>4. waits[t] # <<>> /\ suspend[t] = 0
  <2>1. suspend[t] \in Nat  BY DEF TypeInv
  <2> QED  BY <1>2, <1>3, <2>1 DEF Wakeable, CheckWait
<1>5. PICK w \in WaitRecords :
        /\ w = Top(waits[t]) /\ w = waits[t][Len(waits[t])] /\ w.objs \in Seq(Objects)
        /\ Len(waits[t]) \in DOMAIN waits[t] /\ DOMAIN waits[t] = 1..Len(waits[t]) /\ Len(waits[t]) \in Nat \ {0}
  BY <1>4, TopWait
<1>6. t \notin gone  BY <1>2, <1>3, <1>4, CallFacts DEF GoneInv, DeadInv
<1>7. /\ Acquire(t, w) /\ EndWait(t) /\ stack' = [stack EXCEPT ![L].n = stack[L].n + 1]
  BY <1>1, <1>3, <1>5, <1>6 DEF WakeThread
<1>8. /\ DOMAIN stack' = 1..L /\ Len(stack') = L /\ stack'[L].op = "wake_thread" /\ stack'[L].x = t
      /\ stack'[L].n > 0 /\ \A k \in 1..L : k # L => stack'[k] = stack[k]
  <2>1. PICK m \in Nat : m = stack[L].n + 1 /\ m > 0  BY <1>1, FrameTypes
  <2>2. PICK g \in ServerFrames(dead) : g = [stack[L] EXCEPT !.n = m]  BY <1>1, <2>1, FrameTypes
  <2>3. stack' = [stack EXCEPT ![L] = g]  BY <1>7, <2>1, <2>2
  <2>4. DOMAIN stack' = 1..L /\ Len(stack') = L /\ stack'[L] = g /\ \A k \in 1..L : k # L => stack'[k] = stack[k]
    BY <1>0, <1>1, <2>3
  <2>5. g.op = stack[L].op /\ g.x = stack[L].x /\ g.n = m
    <3>1. stack[L] \in [op : ThreadOps, x : Threads, n : Nat, next : {End}]
      BY <1>1, <1>2 DEF ServerFrames, ThreadOps
    <3> QED  BY <2>2, <3>1
  <2> QED  BY <1>2, <1>3, <2>1, <2>4, <2>5
<1>9. waits' = [waits EXCEPT ![t] = Pop(waits[t])] /\ queue' = Unqueued(t, Len(waits[t]))  BY <1>7 DEF EndWait
<1>10. \A u \in Threads : u # t => waits'[u] = waits[u]  BY <1>9 DEF TypeInv
<1>11. ASSUME NEW u \in Threads, u # t PROVE Calmer(u)
  <2>1. \A p \in Objects : Signaled(p, u)' => Signaled(p, u)  BY <1>7, AcquireCalm
  <2> QED  BY <1>2, <1>10, <1>11, <2>1 DEF Calmer, Unchanged, apcVars
<1>12. ASSUME NEW u \in Threads, Missed(u)' PROVE \E k \in DOMAIN stack' : Comes(stack'[k], queue', waits'[u], u)
  <2>1. CASE u = t
    <3>1. Comes(stack'[L], queue', waits'[u], u)  BY <1>8, <2>1 DEF Comes
    <3> QED  BY <1>8, <3>1
  <2>2. CASE u # t
    <3>1. Missed(u)  BY <1>11, <1>12, <2>2, CalmerMissed
    <3>2. PICK k \in DOMAIN stack : Comes(stack[k], queue, waits[u], u)  BY <3>1 DEF Covers
    <3>3. k # L  BY <1>2, <1>3, <2>2, <3>2 DEF Comes
    <3>4. k \in DOMAIN stack' /\ stack'[k] = stack[k]  BY <1>1, <1>8, <3>3
    <3>5. CASE stack[k].op # "wake_up"
      <4>1. Comes(stack[k], queue', waits'[u], u)  BY <1>10, <2>2, <3>2, <3>5 DEF Comes
      <4> QED  BY <3>4, <4>1
    <3>6. CASE stack[k].op = "wake_up"
      <4>1. Ahead(stack[k].next, queue[stack[k].x], u)  BY <3>2, <3>6 DEF Comes
      <4>2. stack[k].x \in Objects /\ stack[k].next.thread # t
        <5>1. stack[k].next = End \/ stack[k].next.thread # t  BY <1>1, <1>3, <3>3, <3>6, WakeUpPlace
        <5> QED  BY <3>6, <5>1, WakeUpPlace, ObjectAssumption DEF End
      <4>3. Ahead(stack[k].next, queue'[stack[k].x], u)  BY <1>9, <2>2, <4>1, <4>2, AheadUnqueued
      <4>4. Comes(stack[k], queue', waits'[u], u)  BY <3>6, <4>3 DEF Comes
      <4> QED  BY <3>4, <4>4
    <3> QED  BY <3>5, <3>6
  <2> QED  BY <2>1, <2>2
<1>13. BudgetInv'
  <2> SUFFICES ASSUME NEW k \in DOMAIN stack', NEW o, NEW n, Counting(k, o, n)' PROVE Budget(k, o, n)'
    BY BudgetFormNext
  <2>1. stack'[k].op = "wake_up" /\ stack'[k].x = o /\ stack'[k].n = n /\ n > 0  BY DEF Counting
  <2>2. k \in DOMAIN stack /\ k # L /\ stack'[k] = stack[k]  BY <1>1, <1>8, <2>1
  <2>3. k + 1 = L /\ k < L  BY <1>1, <2>1, <2>2, WakeUpPlace
  <2>4. Counting(k, o, n)  BY <2>1, <2>2 DEF Counting
  <2>5. Budget(k, o, n)  BY <2>2, <2>4, BudgetForm
  <2>6. ~Woken(stack, k)  BY <1>1, <1>3, <1>4, <2>5 DEF Budget
  <2>7. o \in Counted /\ Exact(o, n) /\ \E e \in Range(queue[o]) : e.thread = t
    BY <1>1, <1>3, <2>3, <2>5, <2>6 DEF Budget
  <2>8. o \in Objects  BY <2>7 DEF Counted, Objects
  <2>9. PICK e \in Range(queue[o]) : e.thread = t /\ Entry(o, e)  BY <2>7, <2>8 DEF QueueInv
  <2>10. WaitsPlain(waits[t], Selecting(t))  BY DEF PlainInv
  <2>11. 1 \in DOMAIN waits[t] /\ o \in Range(waits[t][1].objs)
    <3>1. e.level \in DOMAIN waits[t] /\ e.idx \in DOMAIN waits[t][e.level].objs /\ waits[t][e.level].objs[e.idx] = o
      BY <2>9 DEF Entry
    <3>2. e.level = 1  BY <2>10, <3>1 DEF WaitsPlain
    <3> QED  BY <3>1, <3>2 DEF Range
  <2>12. Selecting(t) => Len(waits[t]) = 1
    <3>1. Selecting(t) => Len(waits[t]) <= 1  BY DEF SelectInv
    <3>2. \A m \in Nat \ {0} : m <= 1 => m = 1  OBVIOUS
    <3> QED  BY <1>5, <3>1, <3>2
  <2>13. ASSUME Missed(t), ~Selecting(t) PROVE Only(t, o) /\ Left(o) = n  BY <2>7, <2>13 DEF Exact
  <2>14. Len(waits[t]) = 1
    <3> SUFFICES ASSUME Len(waits[t]) # 1 PROVE FALSE  OBVIOUS
    <3>1. w.when = "past"  BY <1>5, <2>10 DEF WaitsPlain
    <3>2. Pressing(t)  BY <1>5, <3>1 DEF Pressing
    <3>3. Missed(t)  BY <1>4, <3>2 DEF Missed
    <3> QED  BY <2>12, <2>13, <3>2, <3>3 DEF Only
  <2>15. w = waits[t][1] /\ o \in Range(w.objs)  BY <1>5, <2>11, <2>14
  <2>16. waits'[t] = <<>>
    <3>1. waits[t] \in Seq(WaitRecords)  BY DEF TypeInv
    <3> HIDE DEF WaitRecords
    <3>2. Pop(waits[t]) \in Seq(WaitRecords) /\ Len(Pop(waits[t])) = 0  BY <1>4, <2>14, <3>1, TopPop
    <3>3. Pop(waits[t]) = <<>>  BY <3>2, EmptySeq
    <3> QED  BY <1>9, <3>3 DEF TypeInv
  <2>17. ASSUME NEW u \in Threads, Missed(u)', ~Selecting(u)' PROVE Left(o)' = n - 1 /\ Only(u, o)'
    <3>1. u # t  BY <2>16, <2>17 DEF Missed
    <3>2. Missed(u) /\ (Only(u, o) => Only(u, o)')  BY <1>11, <2>17, <3>1, CalmerMissed
    <3>3. ~Selecting(u)
      <4>1. 1 \in 1..L /\ 1 # L  BY <1>1, <2>2, <2>3
      <4>2. stack'[1] = stack[1] /\ stack' # <<>>  BY <1>8, <4>1
      <4> QED  BY <2>17, <4>2 DEF Selecting
    <3>4. Left(o) = n /\ Only(u, o)  BY <2>7, <3>2, <3>3 DEF Exact
    <3>5. Signaled(o, t)  BY <2>1, <2>7, <3>4, LeftSignaled
    <3>6. PICK i \in DOMAIN w.objs : w.objs[i] = o /\ i \in SignaledAt(t, w)
      BY <2>15, <3>5 DEF Range, SignaledAt
    <3>7. Selecting(t) => Len(w.objs) = 1  BY <2>10, <2>11, <2>15 DEF WaitsPlain
    <3>8. Selecting(t) => \A j \in DOMAIN w.objs : j = i  BY <1>5, <3>7
    <3>9. SignaledAt(t, w) \subseteq DOMAIN w.objs  BY DEF SignaledAt
    <3>10. Ready(t, w)
      <4> SUFFICES ASSUME ~Ready(t, w) PROVE FALSE  OBVIOUS
      <4>1. w.all /\ ~Selecting(t)  BY <3>6, <3>8, <3>9 DEF Ready
      <4>2. w.when = "never"  BY <2>7, <2>10, <2>11, <2>15, <4>1 DEF WaitsPlain
      <4>3. CheckWait(t, w) # "none"  BY <1>2, <1>3, <1>5 DEF Wakeable
      <4>4. Pressing(t)  BY <1>4, <1>5, <4>2, <4>3 DEF CheckWait, Pressing, Interrupted
      <4>5. Missed(t)  BY <1>4, <4>4 DEF Missed
      <4> QED  BY <2>13, <4>1, <4>4, <4>5 DEF Only
    <3>11. w.all \/ \A j \in SignaledAt(t, w) : w.objs[j] = o
      <4>1. CASE Selecting(t)  BY <3>6, <3>8, <3>9, <4>1
      <4>2. CASE ~Selecting(t)
        <5>1. Missed(t)  BY <1>4, <1>5, <3>10 DEF Missed
        <5> QED  BY <1>5, <2>13, <4>2, <5>1 DEF Only
      <4> QED  BY <4>1, <4>2
    <3>12. Left(o)' = Left(o) - 1  BY <1>4, <1>7, <2>7, <2>15, <3>10, <3>11, AcquireLeft
    <3> QED  BY <3>2, <3>4, <3>12
  <2>18. Woken(stack', k)  BY <1>8, <2>3 DEF Woken
  <2>19. Top(stack').x = t  BY <1>8 DEF Top
  <2>20. Exact(o, n - 1)'  BY <2>17 DEF Exact
  <2> QED  BY <2>7, <2>16, <2>18, <2>19, <2>20 DEF Budget, Woken
<1>14. Covers'  BY <1>12 DEF Covers
<1> QED  BY <1>13, <1>14

\* The waits of these frames are among those ones, with the same arguments.
Within(c, d) ==
  \A i \in DOMAIN d : d[i].kind = "wait" => i \in DOMAIN c /\ c[i].kind = "wait" /\ c[i].args = d[i].args

\* Frames with no new wait are as plain as before.
LEMMA WithinPlain ==
  ASSUME NEW c, NEW d, Within(c, d), FramesPlain(c)
  PROVE  FramesPlain(d)
BY DEF Within, FramesPlain

\* What the client does to its frames in and after a wait.
LEMMA FramesWithin ==
  ASSUME NEW c \in Seq(ClientFrames), c # <<>>
  PROVE  /\ Within(c, c) /\ Within(c, Pop(c)) /\ Within(c, Reading(c)) /\ \A r : Within(c, Returned(c, r))
         /\ Within(c, [c EXCEPT ![Len(c)].at = "call"])
         /\ \A s \in Seq(Replies) : Within(c, [c EXCEPT ![Len(c)].stolen = s])
<1> HIDE DEF ClientFrames
<1>1. Len(c) \in DOMAIN c /\ Top(c) = c[Len(c)] /\ DOMAIN c = 1..Len(c) /\ Len(c) \in Nat  BY TopPop
<1>2. Within(c, Pop(c))
  <2>1. DOMAIN Pop(c) = 1..(Len(c) - 1) /\ \A i \in 1..(Len(c) - 1) : Pop(c)[i] = c[i]  BY TopPop
  <2>2. 1..(Len(c) - 1) \subseteq DOMAIN c  BY <1>1
  <2> QED  BY <2>1, <2>2 DEF Within
<1>3. ASSUME NEW x, x.kind = Top(c).kind, x.args = Top(c).args PROVE Within(c, [c EXCEPT ![Len(c)] = x])
  BY <1>1, <1>3 DEF Within
<1>4. Within(c, Reading(c))
  <2>1. PICK x \in ClientFrames : Reading(c) = [c EXCEPT ![Len(c)] = x] /\ x.kind = Top(c).kind /\ x.args = Top(c).args
    BY ReadingFacts
  <2> QED  BY <1>3, <2>1
<1>5. ASSUME NEW r PROVE Within(c, Returned(c, r))
  <2>1. CASE Returned(c, r) = Pop(c)  BY <1>2, <2>1
  <2>2. CASE Returned(c, r) # Pop(c)
    <3>1. PICK x \in ClientFrames : /\ Returned(c, r) = [c EXCEPT ![Len(c)] = x]
                                    /\ x.kind = Top(c).kind /\ x.args = Top(c).args
      BY <2>2, ReturnedFacts
    <3> QED  BY <1>3, <3>1
  <2> QED  BY <2>1, <2>2
<1>6. Within(c, [c EXCEPT ![Len(c)].at = "call"])
  <2>1. PICK e : e = [c EXCEPT ![Len(c)].at = "call"]  OBVIOUS
  <2>2. DOMAIN e = DOMAIN c /\ \A i \in DOMAIN c : e[i].kind = c[i].kind /\ e[i].args = c[i].args
    BY <2>1, PlaceFacts
  <2>3. Within(c, e)  BY <2>2 DEF Within
  <2> QED  BY <2>1, <2>3
<1>7. ASSUME NEW s \in Seq(Replies) PROVE Within(c, [c EXCEPT ![Len(c)].stolen = s])
  <2>1. PICK e : e = [c EXCEPT ![Len(c)].stolen = s]  OBVIOUS
  <2>2. DOMAIN e = DOMAIN c /\ \A i \in DOMAIN c : e[i].kind = c[i].kind /\ e[i].args = c[i].args
    BY <2>1, StolenFacts
  <2>3. Within(c, e)  BY <2>2 DEF Within
  <2> QED  BY <2>1, <2>3
<1> QED  BY <1>2, <1>4, <1>5, <1>6, <1>7 DEF Within

\* The steps of the client between two waits keep its waits simple.
LEMMA HandlerFrames ==
  ASSUME TypeInv, NEW t \in Threads, FramesPlain(client[t]),
         GetApc(t) \/ LeaveSuspend(t) \/ TakeSignal(t) \/ SetContext(t) \/ ReadReply(t) \/ ClientDies(t)
  PROVE  FramesPlain(client'[t]) /\ \A u \in Threads : u # t => client'[u] = client[u]
<1>0. client \in [Threads -> Seq(ClientFrames)]  BY DEF TypeInv
<1>1. PICK c \in Seq(ClientFrames) : c = client[t]  BY <1>0
<1> HIDE DEF ClientFrames
<1>2. ASSUME NEW d, FramesPlain(d), client' = [client EXCEPT ![t] = d]
      PROVE  FramesPlain(client'[t]) /\ \A u \in Threads : u # t => client'[u] = client[u]
  BY <1>0, <1>2
<1>3. CASE UNCHANGED client  BY <1>3
<1>4. CASE TakeSignal(t)
  <2>1. client' = [client EXCEPT ![t] = Append(c, HandlerFrame)]
    BY <1>0, <1>1, <1>4 DEF TakeSignal, HandlerFrame
  <2>2. Within(c, Append(c, HandlerFrame))
    <3>1. PICK e : e = Append(c, HandlerFrame)  OBVIOUS
    <3>2. /\ DOMAIN e = 1..(Len(c) + 1) /\ \A i \in 1..Len(c) : e[i] = c[i]
          /\ e[Len(c) + 1].kind = "suspend" /\ Len(c) \in Nat
      BY <3>1, HandlerFacts
    <3>3. \A i \in 1..(Len(c) + 1) : i = Len(c) + 1 \/ i \in 1..Len(c)  BY <3>2
    <3>4. DOMAIN c = 1..Len(c)  OBVIOUS
    <3>5. Within(c, e)  BY <3>2, <3>3, <3>4 DEF Within
    <3> QED  BY <3>1, <3>5
  <2> QED  BY <1>1, <1>2, <2>1, <2>2, WithinPlain
<1>5. CASE SetContext(t)
  <2>1. c # <<>> /\ client' = [client EXCEPT ![t] = [c EXCEPT ![Len(c)].at = "call"]]
    BY <1>0, <1>1, <1>5 DEF SetContext, ClientAt
  <2>2. PICK e : e = [c EXCEPT ![Len(c)].at = "call"]  OBVIOUS
  <2>3. Within(c, e)  BY <2>1, <2>2, FramesWithin
  <2>4. FramesPlain(e)  BY <1>1, <2>3, WithinPlain
  <2> QED  BY <1>2, <2>1, <2>2, <2>4
<1>6. CASE LeaveSuspend(t)
  <2>1. c # <<>> /\ client' = [client EXCEPT ![t] = Pop(c)]  BY <1>0, <1>1, <1>6 DEF LeaveSuspend, ClientAt
  <2> QED  BY <1>1, <1>2, <2>1, FramesWithin, WithinPlain
<1>7. CASE GetApc(t)
  <2>1. c # <<>>  BY <1>1, <1>7 DEF GetApc, ClientAt
  <2>2. \/ client' = client \/ client' = [client EXCEPT ![t] = Pop(c)]
        \/ client' = [client EXCEPT ![t] = [c EXCEPT ![Len(c)].at = "call"]]
    BY <1>0, <1>1, <1>7 DEF GetApc
  <2>3. PICK e : e = [c EXCEPT ![Len(c)].at = "call"]  OBVIOUS
  <2>4. Within(c, e) /\ Within(c, Pop(c))  BY <2>1, <2>3, FramesWithin
  <2>5. FramesPlain(e) /\ FramesPlain(Pop(c))  BY <1>1, <2>4, WithinPlain
  <2> QED  BY <1>2, <1>3, <2>2, <2>3, <2>5
<1>8. CASE ClientDies(t)  BY <1>3, <1>8 DEF ClientDies
<1>9. CASE ReadReply(t)
  <2>1. c # <<>> /\ pipe[t] # <<>> /\ pipe[t] \in Seq(Replies)  BY <1>1, <1>9 DEF ReadReply, ClientAt, TypeInv
  <2>2. Head(pipe[t]) \in Replies  BY <2>1, HeadTailProperties
  <2>3. Len(c) \in DOMAIN c /\ c[Len(c)] \in ClientFrames  BY <2>1, TopPop
  <2>4. c[Len(c)].stolen \in Seq(Replies)  BY <2>3, ClientFrameTypes
  <2>5. PICK s \in Seq(Replies) : s = <<Head(pipe[t])>> \o c[Len(c)].stolen
    <3>1. PICK h \in Replies, v \in Seq(Replies) : h = Head(pipe[t]) /\ v = c[Len(c)].stolen  BY <2>2, <2>4
    <3> HIDE DEF Replies
    <3>2. <<h>> \in Seq(Replies)  OBVIOUS
    <3>3. <<h>> \o v \in Seq(Replies)  BY <3>2
    <3> QED  BY <3>1, <3>3
  <2>6. PICK none \in Seq(Replies) : none = <<>>  BY EmptySeq
  <2>7. PICK e \in Seq(ClientFrames) : e = [c EXCEPT ![Len(c)].stolen = none] /\ e # <<>>
    BY <2>1, <2>6, StolenFacts
  <2>8. \/ UNCHANGED client
        \/ \E r : client' = [client EXCEPT ![t] = Returned(e, r)]
        \/ client' = [client EXCEPT ![t] = [c EXCEPT ![Len(c)].stolen = s]]
    BY <1>0, <1>1, <1>9, <2>5, <2>6, <2>7 DEF ReadReply
  <2>9. FramesPlain(e)
    <3>1. Within(c, e)  BY <2>1, <2>6, <2>7, FramesWithin
    <3> QED  BY <1>1, <3>1, WithinPlain
  <2>10. \A r : FramesPlain(Returned(e, r))  BY <2>7, <2>9, FramesWithin, WithinPlain
  <2>11. PICK d : d = [c EXCEPT ![Len(c)].stolen = s]  OBVIOUS
  <2>12. Within(c, d)  BY <2>1, <2>5, <2>11, FramesWithin
  <2>13. FramesPlain(d)  BY <1>1, <2>12, WithinPlain
  <2> QED  BY <1>2, <1>3, <2>8, <2>10, <2>11, <2>13
<1> QED  BY <1>4, <1>5, <1>6, <1>7, <1>8, <1>9

\* A step that changes the waits and the frames of one thread.
LEMMA OnePlain ==
  ASSUME PlainInv, NEW t \in Threads, FramesPlain(client'[t]), WaitsPlain(waits'[t], Selecting(t)'),
         \A u \in Threads : u # t => /\ waits'[u] = waits[u] /\ client'[u] = client[u]
                                     /\ Selecting(u)' <=> Selecting(u)
  PROVE  PlainInv'
<1> SUFFICES ASSUME NEW u \in Threads PROVE FramesPlain(client'[u]) /\ WaitsPlain(waits'[u], Selecting(u)')
  BY DEF PlainInv, FramesPlain, WaitsPlain
<1>1. CASE u = t  BY <1>1
<1>2. CASE u # t
  <2>1. FramesPlain(client[u]) /\ WaitsPlain(waits[u], Selecting(u))  BY DEF PlainInv
  <2>2. client'[u] = client[u] /\ waits'[u] = waits[u] /\ (Selecting(u)' <=> Selecting(u))  BY <1>2
  <2>3. FramesPlain(client'[u])  BY <2>1, <2>2
  <2>4. WaitsPlain(waits'[u], Selecting(u)')  BY <2>1, <2>2 DEF WaitsPlain
  <2> QED  BY <2>3, <2>4
<1> QED  BY <1>1, <1>2

\* A step that changes neither.
LEMMA PlainKept ==
  ASSUME PlainInv, UNCHANGED <<waits, client>>, \A u \in Threads : Selecting(u)' <=> Selecting(u)
  PROVE  PlainInv'
<1> SUFFICES ASSUME NEW u \in Threads PROVE FramesPlain(client'[u]) /\ WaitsPlain(waits'[u], Selecting(u)')
  BY DEF PlainInv, FramesPlain, WaitsPlain
<1>1. FramesPlain(client[u]) /\ WaitsPlain(waits[u], Selecting(u))  BY DEF PlainInv
<1>2. Selecting(u)' <=> Selecting(u)  OBVIOUS
<1>3. WaitsPlain(waits'[u], Selecting(u)')  BY <1>1, <1>2 DEF WaitsPlain
<1> QED  BY <1>1, <1>3

\* Waits that end leave plain ones.
LEMMA PopPlain ==
  ASSUME NEW v \in Seq(WaitRecords), v # <<>>, NEW selecting, WaitsPlain(v, selecting)
  PROVE  WaitsPlain(Pop(v), selecting)
<1> HIDE DEF WaitRecords
<1>1. DOMAIN Pop(v) = 1..(Len(v) - 1) /\ \A i \in 1..(Len(v) - 1) : Pop(v)[i] = v[i]  BY TopPop
<1>2. DOMAIN v = 1..Len(v) /\ Len(v) \in Nat  OBVIOUS
<1>3. 1..(Len(v) - 1) \subseteq DOMAIN v  BY <1>2
<1> QED  BY <1>1, <1>3 DEF WaitsPlain

\* Only a request select that signals begins one that goes on.
LEMMA NoSelect ==
  ASSUME CallsOnly(stack')
  PROVE  \A u : ~Selecting(u)'
BY DEF CallsOnly, Selecting

\* Inside a request only select_on changes which thread selects.
LEMMA SelectingSame ==
  ASSUME TypeInv, TypeInv', Next, ServerActions, ~SelectRest
  PROVE  \A u : Selecting(u)' <=> Selecting(u)
<1>1. StackStep(stack')  BY ServerStack
<1>2. stack' \in Seq(ServerFrames(dead'))  BY DEF TypeInv
<1>3. ASSUME NEW u, Selecting(u)' PROVE Selecting(u)
  <2>1. stack' # <<>> /\ stack'[1].op = "select" /\ stack'[1].x = u  BY <1>3 DEF Selecting
  <2>2. 1 \in DOMAIN stack'  BY <1>2, <2>1
  <2>3. 1 \in DOMAIN stack /\ stack[1].op = "select" /\ stack[1].x = u
    BY <1>1, <2>1, <2>2 DEF StackStep, Changes, Callees
  <2> QED  BY <2>3 DEF Selecting
<1> QED  BY <1>3, SelectingSteps

\* A new wait of the application is simple, and one of the handler's waits for nothing.
LEMMA DoSelectPlain ==
  ASSUME TypeInv, PlainInv, Idle, stack' = stack, NEW t \in Threads, NEW q \in Seq(ClientFrames), q # <<>>,
         FramesPlain(q), Shaped(q), Fits(waits[t], q), Top(q).at # "read", DoSelect(t, q)
  PROVE  PlainInv'
<1>1. client \in [Threads -> Seq(ClientFrames)] /\ waits \in [Threads -> Seq(WaitRecords)]  BY DEF TypeInv
<1>2. PICK w \in Seq(WaitRecords) : w = waits[t]  BY <1>1
<1>3. PICK f \in ClientFrames : f = Top(q) /\ f = q[Len(q)]  BY TopPop
<1>4. Len(q) \in Nat \ {0} /\ DOMAIN q = 1..Len(q) /\ Len(q) \in DOMAIN q  BY TopPop
<1>5. \A u : ~Selecting(u) /\ ~Selecting(u)'  BY DEF Idle, Selecting
<1> DEFINE r == CheckWait(t, NewWait(f.args))
           x == [NewWait(f.args) EXCEPT !.user = f.args.timeout # "never", !.cookie = Len(q)]
<1>6. \/ \E n : client' = [client EXCEPT ![t] = Returned(q, n)] /\ UNCHANGED waits
      \/ client' = [client EXCEPT ![t] = Reading(q)] /\ waits' = [waits EXCEPT ![t] = Append(w, x)]
  <2>1. NewWait(f.args).when = f.args.timeout  BY DEF NewWait
  <2> QED  BY <1>2, <1>3, <2>1 DEF DoSelect, waitVars
<1>7. /\ x.objs = f.args.objs /\ x.all = f.args.all /\ x.when = f.args.timeout
      /\ x.user = (f.args.timeout # "never")
  BY DEF NewWait
<1> HIDE DEF x
<1>8. \A n : FramesPlain(Returned(q, n))  BY FramesWithin, WithinPlain
<1>9. FramesPlain(Reading(q))  BY FramesWithin, WithinPlain
<1>10. WaitsPlain(w, FALSE)  BY <1>2, <1>5 DEF PlainInv, WaitsPlain
<1>11. f.kind = "wait" => Simple(f.args)  BY <1>3, <1>4 DEF FramesPlain
<1>12. f.kind # "wait" => f.args = SuspendArgs  BY <1>3, <1>4, KindFacts DEF Shaped
<1>13. w # <<>> => f.kind # "wait"
  <2> SUFFICES ASSUME w # <<>>, f.kind = "wait" PROVE FALSE  OBVIOUS
  <2>1. Len(q) = 1  BY <1>3, <1>4 DEF Shaped
  <2>2. AtRead(q, w[1].cookie)
    <3>1. 1 \in DOMAIN w  OBVIOUS
    <3> QED  BY <1>2, <3>1 DEF Fits
  <2>3. w[1].cookie \in DOMAIN q /\ q[w[1].cookie].at = "read"  BY <2>2 DEF AtRead
  <2>4. w[1].cookie = 1  BY <1>4, <2>1, <2>3
  <2> QED  BY <1>3, <2>1, <2>3, <2>4
<1>14. WaitsPlain(Append(w, x), FALSE)
  <2>1. Len(w) \in Nat /\ DOMAIN w = 1..Len(w)  OBVIOUS
  <2>2. DOMAIN Append(w, x) = 1..(Len(w) + 1) /\ Append(w, x)[Len(w) + 1] = x
        /\ \A i \in 1..Len(w) : Append(w, x)[i] = w[i]
    OBVIOUS
  <2> SUFFICES ASSUME NEW l \in 1..(Len(w) + 1), NEW z, z = Append(w, x)[l]
               PROVE  /\ l = 1 \/ (z.objs = <<>> /\ ~z.all /\ z.when = "past")
                      /\ z.all /\ z.when # "never" => Range(z.objs) \cap Counted = {}
                      /\ z.when = "future" => z.user
    BY <2>2 DEF WaitsPlain
  <2>3. CASE l \in 1..Len(w)  BY <1>10, <2>1, <2>2, <2>3 DEF WaitsPlain
  <2>4. CASE l = Len(w) + 1
    <3>1. z = x  BY <2>2, <2>4
    <3>2. z.when = "future" => z.user  BY <1>7, <3>1
    <3>3. f.kind # "wait" => z.objs = <<>> /\ ~z.all /\ z.when = "past"  BY <1>7, <1>12, <3>1 DEF SuspendArgs
    <3>4. f.kind = "wait" => l = 1
      <4>1. f.kind = "wait" => w = <<>>  BY <1>13
      <4> QED  BY <2>4, <4>1
    <3>5. f.kind = "wait" => (z.all /\ z.when # "never" => Range(z.objs) \cap Counted = {})
      BY <1>7, <1>11, <3>1 DEF Simple
    <3> QED  BY <3>2, <3>3, <3>4, <3>5
  <2>5. l \in 1..Len(w) \/ l = Len(w) + 1  BY <2>1
  <2> QED  BY <2>3, <2>4, <2>5
<1>15. CASE \E n : client' = [client EXCEPT ![t] = Returned(q, n)] /\ UNCHANGED waits
  <2>1. PICK n : client' = [client EXCEPT ![t] = Returned(q, n)] /\ UNCHANGED waits  BY <1>15
  <2>2. client'[t] = Returned(q, n) /\ \A u \in Threads : u # t => client'[u] = client[u]  BY <1>1, <2>1
  <2>3. FramesPlain(client'[t])  BY <1>8, <2>2
  <2>4. WaitsPlain(waits'[t], Selecting(t)')  BY <1>2, <1>5, <1>10, <2>1 DEF WaitsPlain
  <2> QED  BY <1>5, <2>1, <2>2, <2>3, <2>4, OnePlain
<1>16. CASE client' = [client EXCEPT ![t] = Reading(q)] /\ waits' = [waits EXCEPT ![t] = Append(w, x)]
  <2>1. /\ client'[t] = Reading(q) /\ waits'[t] = Append(w, x)
        /\ \A u \in Threads : u # t => client'[u] = client[u] /\ waits'[u] = waits[u]
    BY <1>1, <1>16
  <2>2. FramesPlain(client'[t])  BY <1>9, <2>1
  <2>3. WaitsPlain(waits'[t], Selecting(t)')
    <3>1. ~Selecting(t)'  BY <1>5
    <3> QED  BY <1>14, <2>1, <3>1 DEF WaitsPlain
  <2> QED  BY <1>5, <2>1, <2>2, <2>3, OnePlain
<1> QED  BY <1>6, <1>15, <1>16

\* The requests of the applications of a plain workload.
PlainCalls(t) ==
  \/ \E o \in Objects, n \in Nat \ {0} : SignalObject(t, o, n)
  \/ \E e \in Events : PulseEvent(t, e) \/ ResetEvent(t, e)
  \/ \E r \in Timers : CancelTimer(t, r) \/ \E period, apc \in BOOLEAN : SetTimer(t, r, period, apc)
  \/ ExitThread(t)
  \/ \E u \in Threads :
       \/ TerminateThread(t, u) \/ SuspendThread(t, u) \/ ResumeThread(t, u)
       \/ \E system \in BOOLEAN : QueueApc(t, u, system)
PlainRequests(t) ==
  \/ \E a \in WaitArgs : Simple(a) /\ Select(t, a)
  \/ \E o \in Objects, a \in WaitArgs : Simple(a) /\ Len(a.objs) = 1 /\ SelectSignal(t, o, a)
  \/ PlainCalls(t)

\* What a plain workload may do.
LEMMA PlainActions ==
  ASSUME TypeInv, Plain, Next
  PROVE  \/ ServerActions
         \/ \E t \in Threads : ClientActions(t) \/ PlainRequests(t) \/ OtherActions(t)
         \/ \E r \in Timers : TimerExpires(r)
<1>1. /\ load.threads \subseteq Threads /\ load.waits \subseteq WaitArgs
      /\ load.signalWaits \subseteq Objects \X WaitArgs /\ ReleaseCounts \subseteq Nat \ {0}
  BY ServerAssumption DEF TypeInv
<1>2. Mutexes \subseteq Objects /\ Semaphores \subseteq Objects /\ Events \subseteq Objects
  BY DEF Objects
<1>3. ASSUME NEW t \in Threads, Application(t) PROVE PlainRequests(t)
  <2>1. ASSUME NEW sw \in load.signalWaits, SelectSignal(t, sw[1], sw[2]) PROVE PlainRequests(t)
    <3>1. sw[1] \in Objects /\ sw[2] \in WaitArgs /\ Simple(sw[2]) /\ Len(sw[2].objs) = 1  BY <1>1 DEF Plain
    <3> QED  BY <2>1, <3>1 DEF PlainRequests
  <2>2. ASSUME NEW s \in Semaphores, NEW n \in ReleaseCounts, ReleaseSemaphore(t, s, n) PROVE PlainRequests(t)
    BY <1>1, <1>2, <2>2 DEF PlainRequests, PlainCalls, ReleaseSemaphore
  <2>3. ASSUME NEW m \in Mutexes, ReleaseMutex(t, m) PROVE PlainRequests(t)
    BY <1>2, <2>3 DEF PlainRequests, PlainCalls, ReleaseMutex
  <2>4. ASSUME NEW e \in Events, SetEvent(t, e) PROVE PlainRequests(t)
    BY <1>2, <2>4 DEF PlainRequests, PlainCalls, SetEvent
  <2>5. ASSUME NEW a \in load.waits, Select(t, a) PROVE PlainRequests(t)
    BY <1>1, <2>5 DEF PlainRequests, Plain
  <2>6. ASSUME NEW u \in load.threads,
               \/ TerminateThread(t, u) \/ SuspendThread(t, u) \/ ResumeThread(t, u)
               \/ \E system \in BOOLEAN : QueueApc(t, u, system)
        PROVE  PlainRequests(t)
    BY <1>1, <2>6 DEF PlainRequests, PlainCalls
  <2>7. ASSUME ExitThread(t) \/ (\E e \in Events : PulseEvent(t, e) \/ ResetEvent(t, e))
               \/ \E r \in Timers : CancelTimer(t, r) \/ \E period, apc \in BOOLEAN : SetTimer(t, r, period, apc)
        PROVE  PlainRequests(t)
    BY <2>7 DEF PlainRequests, PlainCalls
  <2> QED  BY <1>3, <2>1, <2>2, <2>3, <2>4, <2>5, <2>6, <2>7 DEF Application
<1>4. ASSUME NEW t \in Threads, ClientStep(t) \/ Timeout(t) \/ PollHup(t)
      PROVE  ClientActions(t) \/ OtherActions(t)
  BY <1>4 DEF ClientStep, Timeout, ClientActions, OtherActions
<1>5. ServerStep => ServerActions  BY DEF ServerStep, ServerActions
<1>6. \A p : ~Crash(p)  BY DEF Crash, Plain
<1> QED  BY <1>3, <1>4, <1>5, <1>6 DEF Next

\* What the requests other than select change.
LEMMA CallsPlain ==
  ASSUME TypeInv, PlainInv, NEW t \in Threads, PlainCalls(t)
  PROVE  PlainInv'
<1>1. UNCHANGED <<waits, client>> /\ Idle
  BY DEF PlainCalls, SignalObject, PulseEvent, ResetEvent, CancelTimer, SetTimer, ExitThread, TerminateThread,
         SuspendThread, ResumeThread, QueueApc, waitVars, clientVars
<1>2. CallsOnly(stack')
  <2>1. CASE \E o \in Objects, n \in Nat \ {0} : SignalObject(t, o, n)
    BY <2>1, CallsOnlyFacts DEF SignalObject
  <2>2. CASE \E e \in Events : PulseEvent(t, e)
    BY <2>2, CallsOnlyFacts DEF PulseEvent
  <2>3. CASE \E u \in Threads : TerminateThread(t, u) \/ ResumeThread(t, u) \/ ExitThread(t)
    BY <2>3, CallsOnlyFacts DEF TerminateThread, ResumeThread, ExitThread
  <2>4. CASE \E u \in Threads, system \in BOOLEAN : QueueApc(t, u, system)
    <3>1. PICK q, u : stack' = QueueCalls(q, u, NoOwner)  BY <2>4 DEF QueueApc
    <3>2. CallsOnly(QueueCalls(q, u, NoOwner))  BY CallsOnlyFacts
    <3> QED  BY <3>1, <3>2
  <2>5. CASE stack' = <<>>  BY <2>5, CallsOnlyFacts
  <2>6. ASSUME NEW e \in Events, ResetEvent(t, e) PROVE stack' = <<>>  BY <2>6 DEF ResetEvent, Idle
  <2>7. ASSUME NEW r \in Timers, CancelTimer(t, r) \/ \E period, apc \in BOOLEAN : SetTimer(t, r, period, apc)
        PROVE  stack' = <<>>
    BY <2>7 DEF CancelTimer, SetTimer, Idle
  <2>8. ASSUME NEW u \in Threads, SuspendThread(t, u) PROVE stack' = <<>>  BY <2>8 DEF SuspendThread, Idle
  <2> QED  BY <2>1, <2>2, <2>3, <2>4, <2>5, <2>6, <2>7, <2>8 DEF PlainCalls
<1>3. \A u \in Threads : Selecting(u)' <=> Selecting(u)  BY <1>1, <1>2, NoSelect DEF Idle, Selecting
<1> QED  BY <1>1, <1>3, PlainKept

\* The select requests.
LEMMA SelectPlain ==
  ASSUME TypeInv, ClientInv, WaitInv, PlainInv, NEW t \in Threads,
         \/ SelectAgain(t)
         \/ \E a \in WaitArgs : Simple(a) /\ Select(t, a)
         \/ \E o \in Objects, a \in WaitArgs : Simple(a) /\ Len(a.objs) = 1 /\ SelectSignal(t, o, a)
  PROVE  PlainInv'
<1>1. client \in [Threads -> Seq(ClientFrames)] /\ waits \in [Threads -> Seq(WaitRecords)]  BY DEF TypeInv
<1>2. Idle  BY DEF SelectAgain, Select, SelectSignal
<1>3. \A u : ~Selecting(u)  BY <1>2 DEF Idle, Selecting
<1>4. Fits(waits[t], client[t]) /\ Shaped(client[t]) /\ FramesPlain(client[t])
  BY <1>3, ClientForm DEF WaitInv, ReplyInv, PlainInv
<1>5. CASE SelectAgain(t)
  <2>1. PICK c \in Seq(ClientFrames) : c = client[t]  BY <1>1
  <2>2. c # <<>> /\ Top(c).at = "call" /\ DoSelect(t, c) /\ stack' = stack
    BY <1>5, <2>1 DEF SelectAgain, ClientAt
  <2> QED  BY <1>2, <1>4, <2>1, <2>2, DoSelectPlain
<1>6. ASSUME NEW a \in WaitArgs PROVE
        \E f \in ClientFrames : f = Call("wait", a) /\ f.kind = "wait" /\ f.args = a /\ f.at = "call" /\ f.stolen = <<>>
  BY ClientFrameTypes DEF Call
<1>7. ASSUME NEW a \in WaitArgs, Simple(a), Select(t, a) PROVE PlainInv'
  <2>1. PICK f \in ClientFrames : f = Call("wait", a) /\ f.kind = "wait" /\ f.args = a /\ f.at = "call" /\ f.stolen = <<>>
    BY <1>6
  <2>2. PICK q \in Seq(ClientFrames) : q = <<f>>
    <3>1. <<f>> \in Seq(ClientFrames)  OBVIOUS
    <3> QED  BY <3>1
  <2>3. DoSelect(t, q) /\ stack' = stack /\ client[t] = <<>>  BY <1>7, <2>1, <2>2 DEF Select, Runs
  <2>4. q # <<>> /\ FramesPlain(q) /\ Shaped(q) /\ Top(q).at # "read"
    BY <1>7, <2>1, <2>2 DEF FramesPlain, Shaped, Top
  <2>5. Fits(waits[t], q)
    <3>1. \A l \in DOMAIN waits[t] : AtRead(client[t], waits[t][l].cookie)  BY <1>4 DEF Fits
    <3>2. \A n : ~AtRead(<<>>, n)
      <4>1. \A n : AtRead(<<>>, n) => n \in DOMAIN <<>>  BY DEF AtRead
      <4>2. DOMAIN <<>> = {}  BY EmptySeq
      <4> QED  BY <4>1, <4>2
    <3>3. DOMAIN waits[t] = {}  BY <2>3, <3>1, <3>2
    <3> QED  BY <3>3 DEF Fits
  <2> QED  BY <1>2, <2>3, <2>4, <2>5, DoSelectPlain
<1>8. ASSUME NEW o \in Objects, NEW a \in WaitArgs, Simple(a), Len(a.objs) = 1, SelectSignal(t, o, a) PROVE PlainInv'
  <2>1. PICK f \in ClientFrames : f = Call("wait", a) /\ f.kind = "wait" /\ f.args = a  BY <1>6
  <2>2. /\ waits' = [waits EXCEPT ![t] = <<NewWait(a)>>] /\ client' = [client EXCEPT ![t] = <<f>>]
        /\ stack' = <<Frame("select", t, 0, End)>> \o SignalCalls(o, 1)
    BY <1>8, <2>1 DEF SelectSignal
  <2>3. /\ waits'[t] = <<NewWait(a)>> /\ client'[t] = <<f>>
        /\ \A u \in Threads : u # t => waits'[u] = waits[u] /\ client'[u] = client[u]
    BY <1>1, <2>2
  <2>4. FramesPlain(client'[t])  BY <1>8, <2>1, <2>3 DEF FramesPlain
  <2>5. stack' # <<>> /\ stack'[1].op = "select" /\ stack'[1].x = t
    <3>1. SignalCalls(o, 1) = <<>> \/ \E k : SignalCalls(o, 1) = <<CallWakeUp(o, k)>>  BY DEF SignalCalls
    <3>2. PICK g : g = Frame("select", t, 0, End)  OBVIOUS
    <3>3. g.op = "select" /\ g.x = t  BY <3>2, CallFacts
    <3>4. CASE SignalCalls(o, 1) = <<>>
      <4>1. g \in {g} /\ stack' = <<g>> \o <<>>  BY <2>2, <3>2, <3>4
      <4>2. <<g>> \o <<>> = <<g>>  BY <4>1, AloneSteps
      <4>3. stack' = <<g>>  BY <4>1, <4>2
      <4> QED  BY <3>3, <4>3
    <3>5. ASSUME NEW h, SignalCalls(o, 1) = <<h>> PROVE stack' # <<>> /\ stack'[1].op = "select" /\ stack'[1].x = t
      <4>1. g \in {g, h} /\ h \in {g, h} /\ stack' = <<g>> \o <<h>>  BY <2>2, <3>2, <3>5
      <4>2. <<g>> \o <<h>> = <<g, h>>  BY <4>1, AloneSteps
      <4>3. stack' = <<g, h>>  BY <4>1, <4>2
      <4> QED  BY <3>3, <4>3
    <3> QED  BY <3>1, <3>4, <3>5
  <2>6. Selecting(t)' /\ \A u \in Threads : u # t => ~Selecting(u)'  BY <2>5 DEF Selecting
  <2>7. WaitsPlain(waits'[t], Selecting(t)')
    <3>1. NewWait(a).objs = a.objs /\ NewWait(a).all = a.all /\ NewWait(a).when = a.timeout  BY DEF NewWait
    <3>2. DOMAIN waits'[t] = {1} /\ waits'[t][1] = NewWait(a)  BY <2>3
    <3> QED  BY <1>8, <2>6, <3>1, <3>2 DEF WaitsPlain, Simple
  <2>8. \A u \in Threads : u # t => waits'[u] = waits[u] /\ client'[u] = client[u] /\ (Selecting(u)' <=> Selecting(u))
    BY <1>3, <2>3, <2>6
  <2> QED  BY <2>4, <2>7, <2>8, OnePlain
<1> QED  BY <1>5, <1>7, <1>8

\* A wait whose time is over stays plain.
LEMMA PastPlain ==
  ASSUME NEW v \in Seq(WaitRecords), NEW l \in DOMAIN v, NEW x \in WaitRecords, x.objs = v[l].objs, x.all = v[l].all,
         v[l].when # "never", x.when = "past", NEW selecting, WaitsPlain(v, selecting)
  PROVE  WaitsPlain([v EXCEPT ![l] = x], selecting)
<1> HIDE DEF WaitRecords
<1>1. PICK e : e = [v EXCEPT ![l] = x]  OBVIOUS
<1>2. DOMAIN e = DOMAIN v /\ e[l] = x /\ \A i \in DOMAIN v : i # l => e[i] = v[i]  BY <1>1
<1>3. WaitsPlain(e, selecting)
  <2> SUFFICES ASSUME NEW i \in DOMAIN v
               PROVE  /\ i = 1 \/ (e[i].objs = <<>> /\ ~e[i].all /\ e[i].when = "past")
                      /\ e[i].all /\ e[i].when # "never" => Range(e[i].objs) \cap Counted = {}
                      /\ e[i].when = "future" => e[i].user \/ selecting
                      /\ selecting => Len(e[i].objs) = 1
    BY <1>2 DEF WaitsPlain
  <2>1. CASE i = l  BY <1>2, <2>1 DEF WaitsPlain
  <2>2. CASE i # l  BY <1>2, <2>2 DEF WaitsPlain
  <2> QED  BY <2>1, <2>2
<1> QED  BY <1>1, <1>3

\* The steps of timeouts, timers and closed connections.
LEMMA OtherPlain ==
  ASSUME TypeInv, PlainInv, (\E t \in Threads : OtherActions(t)) \/ \E r \in Timers : TimerExpires(r)
  PROVE  PlainInv'
<1>1. waits \in [Threads -> Seq(WaitRecords)]  BY DEF TypeInv
<1>2. Idle /\ UNCHANGED client
  BY DEF OtherActions, TimePasses, ThreadTimeout, PollHup, TimerExpires, clientVars
<1>3. CallsOnly(stack')
  <2>1. ASSUME NEW t \in Threads, OtherActions(t) PROVE CallsOnly(stack')
    <3>1. CASE stack' = <<>> \/ stack' = <<CallWakeThread(t)>> \/ stack' = <<CallKill(t)>>
      BY <3>1, CallsOnlyFacts
    <3> QED  BY <2>1, <3>1 DEF OtherActions, TimePasses, ThreadTimeout, PollHup, Idle
  <2>2. CASE \E r \in Timers : TimerExpires(r)  BY <2>2, CallsOnlyFacts DEF TimerExpires
  <2> QED  BY <2>1, <2>2
<1>4. \A u \in Threads : ~Selecting(u) /\ ~Selecting(u)'  BY <1>2, <1>3, NoSelect DEF Idle, Selecting
<1>5. ASSUME NEW t \in Threads, NEW v, waits' = [waits EXCEPT ![t] = v], WaitsPlain(v, FALSE) PROVE PlainInv'
  <2>1. waits'[t] = v /\ \A u \in Threads : u # t => waits'[u] = waits[u]  BY <1>1, <1>5
  <2>2. FramesPlain(client'[t])  BY <1>2 DEF PlainInv
  <2>3. WaitsPlain(waits'[t], Selecting(t)')  BY <1>4, <1>5, <2>1 DEF WaitsPlain
  <2> QED  BY <1>2, <1>4, <2>1, <2>2, <2>3, OnePlain
<1>6. \A t \in Threads : WaitsPlain(waits[t], FALSE)  BY <1>4 DEF PlainInv, WaitsPlain
<1>7. CASE UNCHANGED waits  BY <1>2, <1>4, <1>7, PlainKept
<1>8. ASSUME NEW t \in Threads, NEW l \in DOMAIN waits[t], TimePasses(t, l) PROVE PlainInv'
  <2>1. PICK v \in Seq(WaitRecords) : v = waits[t]  BY <1>1
  <2>2. PICK w \in WaitRecords : w = v[l]
    <3>1. v[l] \in WaitRecords  BY <1>1, <2>1, WaitTypes
    <3> QED  BY <3>1
  <2>3. PICK x \in WaitRecords : x = [w EXCEPT !.when = "past"] /\ x.objs = w.objs /\ x.all = w.all /\ x.when = "past"
    <3>1. [w EXCEPT !.when = "past"] \in WaitRecords  BY DEF WaitRecords
    <3>2. LET x == [w EXCEPT !.when = "past"] IN x.objs = w.objs /\ x.all = w.all /\ x.when = "past"
      BY DEF WaitRecords
    <3> QED  BY <3>1, <3>2
  <2>4. w.when = "future" /\ waits' = [waits EXCEPT ![t] = [v EXCEPT ![l] = x]]
    BY <1>1, <1>8, <2>1, <2>2, <2>3 DEF TimePasses
  <2>5. WaitsPlain([v EXCEPT ![l] = x], FALSE)
    <3>1. WaitsPlain(v, FALSE) /\ l \in DOMAIN v /\ v[l].when # "never" /\ x.objs = v[l].objs /\ x.all = v[l].all
      BY <1>6, <2>1, <2>2, <2>3, <2>4
    <3> QED  BY <2>3, <3>1, PastPlain
  <2> QED  BY <1>5, <2>4, <2>5
<1>9. ASSUME NEW t \in Threads, NEW l \in DOMAIN waits[t], ThreadTimeout(t, l) PROVE PlainInv'
  <2>1. PICK v \in Seq(WaitRecords) : v = waits[t]  BY <1>1
  <2>2. PICK w \in WaitRecords : w = v[l]
    <3>1. v[l] \in WaitRecords  BY <1>1, <2>1, WaitTypes
    <3> QED  BY <3>1
  <2>3. w.when = "past"  BY <1>9, <2>1, <2>2 DEF ThreadTimeout
  <2>4. CASE waits' = [waits EXCEPT ![t][l].user = FALSE]
    <3>1. PICK x \in WaitRecords : x = [w EXCEPT !.user = FALSE] /\ x.objs = w.objs /\ x.all = w.all /\ x.when = w.when
      <4>1. [w EXCEPT !.user = FALSE] \in WaitRecords  BY DEF WaitRecords
      <4>2. LET x == [w EXCEPT !.user = FALSE] IN x.objs = w.objs /\ x.all = w.all /\ x.when = w.when
        BY DEF WaitRecords
      <4> QED  BY <4>1, <4>2
    <3>2. waits' = [waits EXCEPT ![t] = [v EXCEPT ![l] = x]]  BY <1>1, <2>1, <2>2, <2>4, <3>1
    <3>3. WaitsPlain([v EXCEPT ![l] = x], FALSE)
      <4>1. WaitsPlain(v, FALSE) /\ l \in DOMAIN v /\ v[l].when # "never" /\ x.objs = v[l].objs /\ x.all = v[l].all
            /\ x.when = "past"
        BY <1>6, <2>1, <2>2, <2>3, <3>1
      <4> QED  BY <4>1, PastPlain
    <3> QED  BY <1>5, <3>2, <3>3
  <2>5. CASE EndWait(t)
    <3>1. waits' = [waits EXCEPT ![t] = Pop(v)]  BY <2>1, <2>5 DEF EndWait
    <3>2. v # <<>> /\ WaitsPlain(v, FALSE)
      <4>1. l \in DOMAIN v /\ DOMAIN <<>> = {}  BY <2>1, EmptySeq
      <4> QED  BY <1>6, <2>1, <4>1
    <3>3. WaitsPlain(Pop(v), FALSE)  BY <3>2, PopPlain
    <3> QED  BY <1>5, <3>1, <3>3
  <2> QED  BY <1>9, <2>4, <2>5 DEF ThreadTimeout
<1>10. ASSUME NEW t \in Threads, PollHup(t) PROVE UNCHANGED waits  BY <1>10 DEF PollHup, waitVars
<1>11. ASSUME NEW r \in Timers, TimerExpires(r) PROVE UNCHANGED waits  BY <1>11 DEF TimerExpires, waitVars
<1> QED  BY <1>7, <1>8, <1>9, <1>10, <1>11 DEF OtherActions

\* The steps of the server inside a request.
LEMMA ServerPlain ==
  ASSUME TypeInv, TypeInv', SelectInv, PlainInv, Next, ServerActions, ~SelectRest
  PROVE  PlainInv'
<1>1. waits \in [Threads -> Seq(WaitRecords)] /\ stack \in Seq(ServerFrames(dead))  BY DEF TypeInv
<1>2. UNCHANGED client
  BY DEF ServerActions, WakeUp, WakeThread, WakeThreadEnd, Kill, Abandon, Cleanup, PulseReset, TimerSignals, clientVars
<1>3. \A u \in Threads : Selecting(u)' <=> Selecting(u)  BY SelectingSame
<1>4. ASSUME NEW t \in Threads, NEW v, waits' = [waits EXCEPT ![t] = v], WaitsPlain(v, Selecting(t)) PROVE PlainInv'
  <2>1. waits'[t] = v /\ \A u \in Threads : u # t => waits'[u] = waits[u]  BY <1>1, <1>4
  <2>2. FramesPlain(client'[t])  BY <1>2 DEF PlainInv
  <2>3. WaitsPlain(waits'[t], Selecting(t)')  BY <1>3, <1>4, <2>1 DEF WaitsPlain
  <2> QED  BY <1>2, <1>3, <2>1, <2>2, <2>3, OnePlain
<1>5. CASE UNCHANGED waits  BY <1>2, <1>3, <1>5, PlainKept
<1>6. CASE WakeThread
  <2> HIDE DEF ServerFrames
  <2>1. stack # <<>> /\ Top(stack) \in ServerFrames(dead) /\ Top(stack).op = "wake_thread"
    BY <1>1, <1>6, TopPop DEF WakeThread
  <2>2. PICK t \in Threads : t = Top(stack).x  BY <2>1, FrameTypes DEF ThreadOps
  <2>3. PICK v \in Seq(WaitRecords) : v = waits[t]  BY <1>1
  <2>4. waits' = [waits EXCEPT ![t] = Pop(v)] /\ v # <<>>
    BY <1>6, <2>2, <2>3 DEF WakeThread, EndWait, Wakeable
  <2>5. WaitsPlain(v, Selecting(t))  BY <2>3 DEF PlainInv
  <2>6. WaitsPlain(Pop(v), Selecting(t))  BY <2>4, <2>5, PopPlain
  <2> QED  BY <1>4, <2>4, <2>6
<1>7. CASE Kill
  <2> HIDE DEF ServerFrames
  <2>1. stack # <<>> /\ Top(stack) \in ServerFrames(dead) /\ Top(stack).op = "kill"
    BY <1>1, <1>7, TopPop DEF Kill
  <2>2. PICK t \in Threads : t = Top(stack).x  BY <2>1, FrameTypes DEF ThreadOps
  <2>3. UNCHANGED waits \/ waits' = [waits EXCEPT ![t] = <<>>]  BY <1>7, <2>2 DEF Kill, waitVars
  <2>4. WaitsPlain(<<>>, Selecting(t))
    <3>1. DOMAIN <<>> = {}  BY EmptySeq
    <3> QED  BY <3>1 DEF WaitsPlain
  <2> QED  BY <1>4, <1>5, <2>3, <2>4
<1> QED
  BY <1>5, <1>6, <1>7 DEF ServerActions, WakeUp, WakeThreadEnd, Abandon, Cleanup, PulseReset, TimerSignals, waitVars

\* The rest of select_on keeps the waits plain: the wait that goes on is the application's,
\* and has its timeout.
LEMMA SelectRestPlain ==
  ASSUME TypeInv, SelectInv, Nested(stack, queue, dead), PlainInv, SelectRest
  PROVE  PlainInv'
<1>1. PICK f \in ServerFrames(dead) : /\ stack = <<f>> /\ Top(stack) = f /\ Len(stack) = 1 /\ Pop(stack) = <<>>
                                      /\ Outer(f, dead)
  BY Alone DEF SelectRest
<1>2. f.op = "select" /\ f.x \in Threads /\ f.x \notin dead
  <2>1. Top(stack).op = "select" /\ stack # <<>>  BY DEF SelectRest
  <2> QED  BY <1>1, <2>1, FrameThread DEF ThreadOps, Outer
<1>3. PICK t \in Threads : t = f.x  BY <1>2
<1>4. stack' = <<>>  BY <1>1 DEF SelectRest
<1>5. \A u : ~Selecting(u)'  BY <1>4 DEF Selecting
<1>6. Selecting(t) /\ \A u : u # t => ~Selecting(u)  BY <1>1, <1>2, <1>3 DEF Selecting
<1>7. /\ waits \in [Threads -> Seq(WaitRecords)] /\ waits[t] \in Seq(WaitRecords) /\ Len(waits[t]) <= 1
      /\ client \in [Threads -> Seq(ClientFrames)] /\ Len(client[t]) = 1
  BY <1>6 DEF TypeInv, SelectInv
<1>8. PICK c \in Seq(ClientFrames) : c = client[t]  BY <1>7
<1>9. c # <<>>
  <2>1. Len(c) = 1  BY <1>7, <1>8
  <2> HIDE DEF ClientFrames
  <2>2. c = <<>> <=> Len(c) = 0  BY NotEmpty, Zenon
  <2>3. 0 # 1  OBVIOUS
  <2> QED  BY <2>1, <2>2, <2>3
<1>10. /\ FramesPlain(Reading(c)) /\ \A r : FramesPlain(Returned(c, r))
  <2>1. FramesPlain(c)  BY <1>8 DEF PlainInv
  <2> QED  BY <1>8, <1>9, <2>1, FramesWithin, WithinPlain
<1> DEFINE w == Top(waits[t])
<1>11. /\ FramesPlain(client'[t])
       /\ \A u \in Threads : u # t => client'[u] = client[u]
  <2> HIDE DEF ClientFrames
  <2>1. client' = [client EXCEPT ![t] = Reading(c)] \/ \E r : client' = [client EXCEPT ![t] = Returned(c, r)]
    BY <1>1, <1>2, <1>3, <1>7, <1>8 DEF SelectRest
  <2> QED  BY <1>7, <1>8, <1>10, <2>1
<1>12. WaitsPlain(waits[t], TRUE)  BY <1>6 DEF PlainInv, WaitsPlain
<1>13. WaitsPlain(waits[t], FALSE) \/ \E l \in DOMAIN waits[t] : waits[t][l].when = "future"
  BY <1>12 DEF WaitsPlain
<1> SUFFICES WaitsPlain(waits'[t], FALSE) /\ \A u \in Threads : u # t => waits'[u] = waits[u]
  <2>1. WaitsPlain(waits'[t], Selecting(t)')  BY <1>5 DEF WaitsPlain
  <2> QED  BY <1>5, <1>6, <1>11, <2>1, OnePlain
<1>14. CASE waits[t] = <<>> /\ UNCHANGED waits
  <2>1. DOMAIN waits'[t] = {}  BY <1>14, EmptySeq
  <2> QED  BY <1>14, <2>1 DEF WaitsPlain
<1>15. CASE waits[t] # <<>> /\ EndWait(t)
  <2>3. waits'[t] = Pop(waits[t]) /\ \A u \in Threads : u # t => waits'[u] = waits[u]
    BY <1>7, <1>15 DEF EndWait
  <2> HIDE DEF WaitRecords
  <2>4. Pop(waits[t]) = <<>>
    <3>1. Len(waits[t]) \in Nat \ {0} /\ Pop(waits[t]) \in Seq(WaitRecords) /\ Len(Pop(waits[t])) = Len(waits[t]) - 1
      BY <1>7, <1>15, TopPop
    <3>2. Len(Pop(waits[t])) = 0  BY <1>7, <3>1
    <3> QED  BY <3>1, <3>2, NotEmpty
  <2>5. DOMAIN waits'[t] = {}  BY <2>3, <2>4, EmptySeq
  <2> QED  BY <2>3, <2>5 DEF WaitsPlain
<1>16. CASE /\ waits[t] # <<>>
            /\ waits' = [waits EXCEPT ![t][1].user = w.when # "never", ![t][1].cookie = 1]
  <2>1. w \in WaitRecords /\ Len(waits[t]) \in Nat \ {0}  BY <1>16, TopWait
  <2>0. \A n \in Nat \ {0} : n <= 1 => n = 1  OBVIOUS
  <2>2. Len(waits[t]) = 1 /\ w = waits[t][1]
    <3>1. Len(waits[t]) = 1  BY <1>7, <2>0, <2>1
    <3> QED  BY <3>1 DEF Top
  <2> DEFINE x == [w EXCEPT !.user = w.when # "never", !.cookie = 1]
  <2>3. /\ x.objs = w.objs /\ x.all = w.all /\ x.when = w.when /\ x.user = (w.when # "never")
        /\ x \in WaitRecords
    BY <2>1 DEF WaitRecords
  <2>4. waits'[t] = [waits[t] EXCEPT ![1] = x]
    BY <1>7, <1>16, <2>1, <2>2
  <2>5. \A u \in Threads : u # t => waits'[u] = waits[u]  BY <1>7, <1>16
  <2> HIDE DEF x, w, WaitRecords
  <2>6. DOMAIN waits'[t] = 1..1 /\ waits'[t][1] = x /\ DOMAIN waits[t] = 1..1
    BY <1>7, <2>2, <2>3, <2>4
  <2>7. w.all /\ w.when # "never" => Range(w.objs) \cap Counted = {}
    BY <1>12, <2>2, <2>6 DEF WaitsPlain
  <2>8. \A l \in DOMAIN waits'[t] : l = 1 /\ waits'[t][l] = x  BY <2>6
  <2>9. x.when = "future" => x.user  BY <2>3
  <2>10. x.all /\ x.when # "never" => Range(x.objs) \cap Counted = {}  BY <2>3, <2>7
  <2>11. WaitsPlain(waits'[t], FALSE)  BY <2>8, <2>9, <2>10 DEF WaitsPlain
  <2> QED  BY <2>5, <2>11
<1> QED  BY <1>1, <1>2, <1>3, <1>14, <1>15, <1>16 DEF SelectRest, waitVars

\* Every step of a plain workload keeps the waits plain.
LEMMA PlainStep ==
  ASSUME TypeInv, TypeInv', SelectInv, ClientInv, WaitInv, CrashInv, PlainInv, Plain, Next
  PROVE  PlainInv'
<1>1. Nested(stack, queue, dead)  BY PlainFacts
<1>2. CASE ServerActions
  <2>1. CASE SelectRest  BY <1>1, <2>1, SelectRestPlain
  <2>2. CASE ~SelectRest  BY <1>2, <2>2, ServerPlain
  <2> QED  BY <2>1, <2>2
<1>3. ASSUME NEW t \in Threads, ClientActions(t) PROVE PlainInv'
  <2>1. CASE SelectAgain(t)  BY <2>1, SelectPlain
  <2>2. CASE ReadReply(t) \/ GetApc(t) \/ LeaveSuspend(t) \/ ClientDies(t) \/ TakeSignal(t) \/ SetContext(t)
    <3>1. Idle /\ stack' = stack /\ \A u \in Threads : Calmer(u)  BY <2>2, ClientCalm
    <3>2. \A u : Selecting(u)' <=> Selecting(u)  BY <3>1 DEF Selecting
    <3>3. \A u \in Threads : waits'[u] = waits[u]  BY <3>1 DEF Calmer, Unchanged
    <3>4. FramesPlain(client[t]) /\ WaitsPlain(waits[t], Selecting(t))  BY DEF PlainInv
    <3>5. FramesPlain(client'[t]) /\ \A u \in Threads : u # t => client'[u] = client[u]
      BY <2>2, <3>4, HandlerFrames
    <3>6. WaitsPlain(waits'[t], Selecting(t)')  BY <3>2, <3>3, <3>4 DEF WaitsPlain
    <3>7. \A u \in Threads : u # t => /\ waits'[u] = waits[u] /\ client'[u] = client[u]
                                      /\ Selecting(u)' <=> Selecting(u)
      BY <3>2, <3>3, <3>5
    <3> QED  BY <3>5, <3>6, <3>7, OnePlain
  <2> QED  BY <1>3, <2>1, <2>2 DEF ClientActions
<1>4. ASSUME NEW t \in Threads, PlainRequests(t) PROVE PlainInv'
  <2>1. CASE \/ \E a \in WaitArgs : Simple(a) /\ Select(t, a)
             \/ \E o \in Objects, a \in WaitArgs : Simple(a) /\ Len(a.objs) = 1 /\ SelectSignal(t, o, a)
    BY <2>1, SelectPlain
  <2>2. CASE PlainCalls(t)  BY <2>2, CallsPlain
  <2> QED  BY <1>4, <2>1, <2>2 DEF PlainRequests
<1>5. ASSUME NEW t \in Threads, OtherActions(t) PROVE PlainInv'  BY <1>5, OtherPlain
<1>6. ASSUME NEW r \in Timers, TimerExpires(r) PROVE PlainInv'  BY <1>6, OtherPlain
<1> QED  BY <1>2, <1>3, <1>4, <1>5, <1>6, PlainActions

\* The steps between two requests.
LEMMA IdleCovers ==
  ASSUME TypeInv, TypeInv', SelectInv, ClientInv, DeadInv, GoneInv, QueueInv', PlainInv, Covers, stack = <<>>,
         NEW t \in Threads, ClientActions(t) \/ PlainRequests(t) \/ OtherActions(t)
  PROVE  Covers' /\ BudgetInv'
<1>1. \A u \in Threads : ~Missed(u)  BY IdleMissed
<1>2. ASSUME stack' = stack, \A u \in Threads : ~Missed(u)' PROVE Covers' /\ BudgetInv'
  BY <1>2, NobodyCovered, NoCountCalls
<1>3. ASSUME NEW q \in Seq(ClientFrames), q # <<>>, DoSelect(t, q), UNCHANGED <<suspend, apcVars>>, stack' = stack
      PROVE  Covers' /\ BudgetInv'
  <2>1. \A u \in Threads : ~Missed(u)'  BY <1>1, <1>3, DoSelectMissed
  <2> QED  BY <1>2, <1>3, <2>1
<1>4. ASSUME Idle /\ stack' = stack /\ \A u \in Threads : Calmer(u) PROVE Covers' /\ BudgetInv'
  BY <1>4, QuietStep
<1>5. CASE ReadReply(t) \/ GetApc(t) \/ LeaveSuspend(t) \/ ClientDies(t) \/ TakeSignal(t) \/ SetContext(t)
  BY <1>4, <1>5, ClientCalm
<1>6. CASE SelectAgain(t)
  <2>1. client[t] \in Seq(ClientFrames)  BY DEF TypeInv
  <2>2. client[t] # <<>> /\ DoSelect(t, client[t]) /\ UNCHANGED <<suspend, apcVars>> /\ stack' = stack
    BY <1>6 DEF SelectAgain, ClientAt
  <2> QED  BY <1>3, <2>1, <2>2
<1>7. ASSUME NEW a \in WaitArgs, Select(t, a) PROVE Covers' /\ BudgetInv'
  <2>1. PICK x \in ClientFrames : x = Call("wait", a)  BY ClientFrameTypes
  <2>2. PICK q \in Seq(ClientFrames) : q = <<x>> /\ q # <<>>
    <3> HIDE DEF ClientFrames
    <3>1. <<x>> \in Seq(ClientFrames) /\ <<x>> # <<>>  OBVIOUS
    <3> QED  BY <3>1
  <2>3. DoSelect(t, q) /\ UNCHANGED <<suspend, apcVars>> /\ stack' = stack
    BY <1>7, <2>1, <2>2 DEF Select
  <2> QED  BY <1>3, <2>2, <2>3
<1>8. ASSUME NEW o \in Objects, NEW a \in WaitArgs, SelectSignal(t, o, a) PROVE Covers' /\ BudgetInv'
  BY <1>1, <1>8, SelectSignalMissed
<1>9. CASE PlainCalls(t)
  <2>1. ASSUME NEW o \in Objects, NEW n \in Nat \ {0}, SignalObject(t, o, n) PROVE Covers' /\ BudgetInv'
    BY <1>1, <2>1, SignalObjectMissed
  <2>2. ASSUME NEW e \in Events, PulseEvent(t, e) PROVE Covers' /\ BudgetInv'  BY <1>1, <2>2, PulseEventMissed
  <2>3. CASE \/ \E e \in Events : ResetEvent(t, e)
             \/ \E r \in Timers : CancelTimer(t, r) \/ \E period, apc \in BOOLEAN : SetTimer(t, r, period, apc)
             \/ \E u \in Threads : SuspendThread(t, u)
    BY <1>4, <2>3, RequestCalm
  <2>4. CASE ExitThread(t) \/ \E u \in Threads : TerminateThread(t, u)  BY <1>1, <2>4, KillCalls
  <2>5. ASSUME NEW u \in Threads, ResumeThread(t, u) PROVE Covers' /\ BudgetInv'  BY <1>1, <2>5, ResumeMissed
  <2>6. ASSUME NEW u \in Threads, NEW system \in BOOLEAN, QueueApc(t, u, system) PROVE Covers' /\ BudgetInv'
    BY <1>1, <2>6, QueueApcMissed
  <2> QED  BY <1>9, <2>1, <2>2, <2>3, <2>4, <2>5, <2>6 DEF PlainCalls
<1>10. ASSUME NEW level \in DOMAIN waits[t], TimePasses(t, level) PROVE Covers' /\ BudgetInv'
  <2>1. \A u \in Threads : ~Missed(u)'  BY <1>1, <1>10, TimePassesMissed
  <2>2. stack' = stack  BY <1>10 DEF TimePasses
  <2> QED  BY <1>2, <2>1, <2>2
<1>11. ASSUME NEW level \in DOMAIN waits[t], ThreadTimeout(t, level) PROVE Covers' /\ BudgetInv'
  BY <1>1, <1>11, ThreadTimeoutMissed
<1>12. CASE PollHup(t)  BY <1>1, <1>12, KillCalls
<1> QED  BY <1>5, <1>6, <1>7, <1>8, <1>9, <1>10, <1>11, <1>12 DEF ClientActions, PlainRequests, OtherActions

\* The steps of the server inside a request.
LEMMA ServerCovers ==
  ASSUME TypeInv, TypeInv', SelectInv, DeadInv, GoneInv, WaitInv, QueueInv', PlainInv, Nested(stack, queue, dead),
         Covers, BudgetInv, Next, ServerActions
  PROVE  Covers' /\ BudgetInv'
<1>1. ~SelectRest => \A u \in Threads : Selecting(u) => Selecting(u)'  BY SelectingSteps
<1>2. QueueInv  BY DEF WaitInv
<1>3. CASE WakeUp
  <2>1. ~SelectRest
    <3>1. Top(stack).op = "wake_up"  BY <1>3 DEF WakeUp
    <3> QED  BY <3>1 DEF SelectRest
  <2> QED  BY <1>1, <1>3, <2>1, WakeUpMissed
<1>4. CASE WakeThread  BY <1>2, <1>4, WakeThreadMissed
<1>5. CASE WakeThreadEnd
  <2>1. ~SelectRest
    <3>1. Top(stack).op \in {"wake_thread", "wake_failed"}  BY <1>5 DEF WakeThreadEnd
    <3> QED  BY <3>1 DEF SelectRest
  <2> QED  BY <1>1, <1>5, <2>1, WakeThreadEndMissed
<1>6. CASE Kill  BY <1>6, KillMissed
<1>7. CASE Abandon  BY <1>7, AbandonMissed
<1>8. CASE Cleanup  BY <1>8, CleanupMissed
<1>9. CASE PulseReset  BY <1>9, PulseResetMissed
<1>10. CASE SelectRest  BY <1>10, SelectRestMissed
<1>11. CASE TimerSignals  BY <1>11, TimerSignalsMissed
<1> QED  BY <1>3, <1>4, <1>5, <1>6, <1>7, <1>8, <1>9, <1>10, <1>11 DEF ServerActions

\* A step that changes nothing.
LEMMA NothingWakes ==
  ASSUME TypeInv, PlainInv, Covers, BudgetInv, UNCHANGED vars
  PROVE  PlainInv' /\ Covers' /\ BudgetInv'
<1>1. UNCHANGED <<objVars, queue, waits, suspend, system_apc, user_apc, stack, client>>
  BY DEF vars, runVars, waitVars, apcVars, clientVars
<1>2. \A u : Selecting(u)' <=> Selecting(u)  BY <1>1 DEF Selecting
<1>3. PlainInv'  BY <1>1, <1>2, PlainKept
<1>4. \A u \in Threads : Calmer(u)
  <2>1. \A u, p : Signaled(p, u)' <=> Signaled(p, u)  BY <1>1, SameSignals
  <2> QED  BY <1>1, <2>1 DEF Calmer, Unchanged
<1>5. Covers'
  <2> SUFFICES ASSUME NEW u \in Threads, Missed(u)'
               PROVE  \E k \in DOMAIN stack' : Comes(stack'[k], queue', waits'[u], u)
    BY DEF Covers, Comes, Ahead
  <2>1. Missed(u)  BY <1>4, CalmerMissed
  <2> QED  BY <1>1, <2>1 DEF Covers
<1>6. \A o : Left(o)' = Left(o)  BY <1>1 DEF Left, objVars
<1>7. \A o, n : Exact(o, n) => Exact(o, n)'  BY <1>2, <1>4, <1>6, ExactSame
<1>8. BudgetInv'
  <2> SUFFICES ASSUME NEW k \in DOMAIN stack', NEW o, NEW n, Counting(k, o, n)' PROVE Budget(k, o, n)'
    BY BudgetFormNext
  <2>1. Counting(k, o, n)  BY <1>1 DEF Counting
  <2>2. Budget(k, o, n)  BY <1>1, <2>1, BudgetForm
  <2>3. Woken(stack', k) <=> Woken(stack, k)  BY <1>1
  <2> QED  BY <1>1, <1>7, <2>2, <2>3 DEF Budget
<1> QED  BY <1>3, <1>5, <1>8

\* WakeInv is inductive, with the invariants of the types, dead threads, clients, replies and crashes.
LEMMA WakeStep ==
  ASSUME TypeInv, TypeInv', SelectInv, DeadInv, ClientInv, WaitInv, CrashInv, WakeInv, [Next]_vars
  PROVE  WakeInv'
<1> SUFFICES ASSUME Plain' PROVE PlainInv' /\ Covers' /\ BudgetInv'  BY DEF WakeInv
<1>1. load' = load
  <2>1. CASE Next  BY <2>1, NextActions
  <2>2. CASE UNCHANGED vars  BY <2>2 DEF vars
  <2> QED  BY <2>1, <2>2
<1>2. Plain  BY <1>1 DEF Plain
<1>3. PlainInv /\ Covers /\ BudgetInv  BY <1>2 DEF WakeInv
<1>4. CASE UNCHANGED vars  BY <1>3, <1>4, NothingWakes
<1>5. CASE Next
  <2>1. Nested(stack, queue, dead) /\ GoneInv  BY <1>2, PlainFacts
  <2>2. PlainInv'  BY <1>2, <1>3, <1>5, PlainStep
  <2>3. QueueInv'
    <3>1. WaitInv'  BY <1>5, WaitInvStep
    <3> QED  BY <3>1 DEF WaitInv
  <2>4. CASE ServerActions  BY <1>3, <1>5, <2>1, <2>2, <2>3, <2>4, ServerCovers
  <2>5. ASSUME NEW t \in Threads, ClientActions(t) \/ PlainRequests(t) \/ OtherActions(t)
        PROVE  Covers' /\ BudgetInv'
    <3>1. stack = <<>>
      BY <2>5 DEF ClientActions, SelectAgain, ReadReply, GetApc, LeaveSuspend, ClientDies, TakeSignal, SetContext,
                  PlainRequests, Select, SelectSignal, PlainCalls, SignalObject, PulseEvent, ResetEvent, CancelTimer,
                  SetTimer, ExitThread, TerminateThread, SuspendThread, ResumeThread, QueueApc, OtherActions,
                  TimePasses, ThreadTimeout, PollHup, Idle
    <3> QED  BY <1>3, <2>1, <2>3, <2>5, <3>1, IdleCovers
  <2>6. ASSUME NEW r \in Timers, TimerExpires(r) PROVE Covers' /\ BudgetInv'
    <3>1. stack = <<>>  BY <2>6 DEF TimerExpires, Idle
    <3>2. \A u \in Threads : ~Missed(u)  BY <1>3, <3>1, IdleMissed
    <3> QED  BY <2>6, <3>2, TimerExpiresMissed
  <2>7. Covers' /\ BudgetInv'  BY <1>2, <1>5, <2>4, <2>5, <2>6, PlainActions
  <2> QED  BY <2>2, <2>7
<1> QED  BY <1>4, <1>5

\* At first nobody waits.
LEMMA InitWake == Init => WakeInv
<1> SUFFICES ASSUME Init PROVE PlainInv /\ Covers /\ BudgetInv  BY DEF WakeInv
<1>1. stack = <<>> /\ \A t \in Threads : waits[t] = <<>> /\ client[t] = <<>>  BY DEF Init
<1>2. DOMAIN <<>> = {}  BY EmptySeq
<1>3. PlainInv  BY <1>1, <1>2 DEF PlainInv, FramesPlain, WaitsPlain
<1>4. Covers  BY <1>1 DEF Covers, Missed
<1>5. BudgetInv  BY <1>1, <1>2 DEF BudgetInv
<1> QED  BY <1>3, <1>4, <1>5

\* In a plain workload every thread that waits although its wait is over is about to be
\* looked at, and every wake_up that gives away signals has as many left as it is to give.
THEOREM WakeHolds == Spec => []WakeInv
<1>1. TypeInv /\ SelectInv /\ DeadInv /\ ClientInv /\ WaitInv /\ CrashInv /\ WakeInv /\ [Next]_vars => WakeInv'
  <2>1. TypeInv /\ SelectInv /\ [Next]_vars => TypeInv'  BY TypeStep
  <2> QED  BY <2>1, WakeStep
<1> QED  BY <1>1, InitWake, TypesHold, DeadHolds, ClientHolds, WaitHolds, CrashHolds, PTL DEF Spec

\* No wake-up is lost, for the workloads in which the server is right: no process crashes,
\* no wait for all has a timeout and a counted object, signal and wait waits for one object.
THEOREM NoMissedWakeHolds == Spec => [](Plain => NoMissedWake)
<1>1. TypeInv /\ WakeInv /\ Plain => NoMissedWake
  <2> SUFFICES ASSUME TypeInv, WakeInv, Plain, Idle, NEW t \in Threads, waits[t] # <<>>
               PROVE  \/ CheckWait(t, Top(waits[t])) = "none"
                      \/ CheckWait(t, Top(waits[t])) = "timeout" /\ Top(waits[t]).user
    BY DEF NoMissedWake
  <2> DEFINE w == Top(waits[t])
  <2>1. ~Missed(t)
    <3>1. Covers /\ stack = <<>>  BY DEF WakeInv, Idle
    <3> QED  BY <3>1, IdleMissed
  <2>2. suspend[t] \in Nat  BY DEF TypeInv
  <2>3. CASE suspend[t] # 0  BY <2>2, <2>3 DEF CheckWait
  <2>4. CASE suspend[t] = 0
    <3>1. ~Ready(t, w) /\ ~Pressing(t)  BY <2>1, <2>4 DEF Missed
    <3>2. ~Interrupted(t, w) /\ (w.when = "past" => w.user)  BY <3>1 DEF Pressing
    <3> QED  BY <2>4, <3>1, <3>2 DEF CheckWait, Interrupted
  <2> QED  BY <2>3, <2>4
<1> QED  BY <1>1, WakeHolds, TypesHold, PTL
=============================================================================
