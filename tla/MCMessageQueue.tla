--------------------------- MODULE MCMessageQueue ---------------------------
(***************************************************************************)
(* MessageQueue for TLC: what the programs do.                             *)
(***************************************************************************)
EXTENDS MessageQueue

CONSTANT t1

\* Threads that send to each other and receive, without shutting messages out.
CooperativeLoad ==
  [kinds |-> {"send", "notify", "callback"}, timeouts |-> BOOLEAN, windows |-> {TRUE},
   blocking |-> {FALSE}, gets |-> {"GetMessage", "PeekMessage"}, modal |-> FALSE,
   posted |-> {}, ops |-> {"early", "window", "exit"}, sends |-> 3]
\* Posted and quit messages between the sent ones, and filters.
PostLoad ==
  [kinds |-> {"send", "notify"}, timeouts |-> {TRUE}, windows |-> BOOLEAN,
   blocking |-> {TRUE}, gets |-> {"GetMessage", "GetSome", "PeekMessage"}, modal |-> TRUE,
   posted |-> {t1}, ops |-> {"window", "exit"}, sends |-> 1]
\* Threads that are killed, shut messages out or wait for messages in window procedures.
KillLoad ==
  [kinds |-> {"send", "callback"}, timeouts |-> {TRUE}, windows |-> BOOLEAN,
   blocking |-> {TRUE}, gets |-> {"GetMessage"}, modal |-> TRUE,
   posted |-> {}, ops |-> {"early", "window", "exit", "kill"}, sends |-> 2]
AllLoads == {CooperativeLoad, PostLoad, KillLoad}

\* Messages with and without a timeout, sent from window procedures.
NestedLoads ==
  {[kinds |-> {"send"}, timeouts |-> BOOLEAN, windows |-> {FALSE}, blocking |-> {FALSE},
    gets |-> {"GetMessage"}, modal |-> FALSE, posted |-> {}, ops |-> {"early"}, sends |-> 3]}
=============================================================================
