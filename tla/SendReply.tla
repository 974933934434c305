------------------------------ MODULE SendReply ------------------------------
(***************************************************************************)
(* What SendMessage promises.  A thread waits for the answers to a stack   *)
(* of messages, the last one sent first.  An answer is given once and      *)
(* stays.  A thread comes back from a message that was answered; the code  *)
(* also lets it come back without an answer, when a message below in the   *)
(* stack was answered before (GiveUp).                                     *)
(***************************************************************************)
EXTENDS Naturals, Sequences

CONSTANT Threads

VARIABLE waits   \* the answer to each message a thread waits for, "none" before there is one

Answers == {"reply", "timeout", "denied"}

Init == waits = [t \in Threads |-> <<>>]

\* The messages in S are answered; they were not before.
Given(S, answer) ==
  [t \in Threads |-> [i \in DOMAIN waits[t] |-> IF <<t, i>> \in S THEN answer ELSE waits[t][i]]]
PendingSets == SUBSET UNION {{<<t, i>> : i \in {j \in DOMAIN waits[t] : waits[t][j] = "none"}} :
                             t \in Threads}

Send(t) == waits' = [waits EXCEPT ![t] = <<"none">> \o @]

Answer == \E S \in PendingSets, answer \in Answers : waits' = Given(S, answer)

Return(t) ==
  /\ waits[t] # <<>> /\ Head(waits[t]) # "none"
  /\ waits' = [waits EXCEPT ![t] = Tail(@)]

GiveUp(t) ==
  /\ waits[t] # <<>> /\ \E i \in DOMAIN waits[t] : waits[t][i] # "none"
  /\ waits' = [waits EXCEPT ![t] = Tail(@)]

\* A thread goes away, and with it the threads it should have answered are told.
Die(t) == \E S \in PendingSets : waits' = [Given(S, "denied") EXCEPT ![t] = <<>>]

Next == Answer \/ \E t \in Threads : Send(t) \/ Return(t) \/ GiveUp(t) \/ Die(t)

Spec == Init /\ [][Next]_waits
==============================================================================
