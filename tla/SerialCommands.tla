--------------------------- MODULE SerialCommands ---------------------------
(***************************************************************************)
(* The command side of the orchestration engine as its callers see it: one *)
(* log of events, to which a command adds its whole batch at once, at most  *)
(* once, and only if the log so far permits it.                             *)
(*                                                                         *)
(* What a command asks for is reduced to kinds that differ in what they    *)
(* require of their thread: creating it, archiving it, starting a turn with *)
(* a message in it, and the server's records that the delivery of a message *)
(* failed and may be repeated, or succeeded.                                *)
(***************************************************************************)
EXTENDS Naturals, Sequences

CONSTANTS Commands,   \* command ids
          Threads,
          Messages,   \* ids of user messages
          KindOf,     \* what each command asks for
          ThreadOf,   \* the thread it is addressed to
          MessageOf   \* the message a turn start or a delivery record is about

\* The events a command of each kind appends, in order.
EventTypes ==
  [create  |-> <<"created">>,
   archive |-> <<"archived">>,
   start   |-> <<"message", "intent">>,
   failed  |-> <<"failed">>,
   deliver |-> <<"delivered">>]

ASSUME CommandsAssumption ==
  /\ KindOf \in [Commands -> DOMAIN EventTypes]
  /\ ThreadOf \in [Commands -> Threads]
  /\ MessageOf \in [Commands -> Messages]

Batch(c) ==
  [i \in DOMAIN EventTypes[KindOf[c]] |->
     [cmd |-> c, type |-> EventTypes[KindOf[c]][i]]]

VARIABLE log   \* every event ever appended, in sequence order

\* The events at the positions S say this of thread t.
Says(S, t, type) ==
  \E s \in S : log[s].type = type /\ ThreadOf[log[s].cmd] = t

\* decideOrchestrationCommand over a read model that has seen the events S.
Permits(S, c) ==
  LET t == ThreadOf[c] IN
  CASE KindOf[c] = "create"  -> ~Says(S, t, "created")
    [] KindOf[c] = "archive" -> Says(S, t, "created") /\ ~Says(S, t, "archived")
    [] OTHER                 -> Says(S, t, "created")

\* The events of a type in S about the message of command c in its thread.
About(S, c, type) ==
  {s \in S : /\ log[s].type = type
             /\ ThreadOf[log[s].cmd] = ThreadOf[c]
             /\ MessageOf[log[s].cmd] = MessageOf[c]}

\* Wrong: an old failure frees the message for ever.
MessageUsedUnlessFailed(S, c) ==
  /\ KindOf[c] = "start"
  /\ About(S, c, "message") # {}
  /\ \/ About(S, c, "failed") = {}
     \/ \E d \in About(S, c, "delivered") : \A f \in About(S, c, "failed") : f < d

\* The message of a turn start is bound in its thread by the events S. A failure
\* recorded after the message was last sent frees it, until a delivery is recorded.
MessageUsed(S, c) ==
  LET sent     == About(S, c, "message")
      failures == {f \in About(S, c, "failed") : \A s \in sent : s < f}
  IN
  /\ KindOf[c] = "start"
  /\ sent # {}
  /\ failures = {} \/ \E d \in About(S, c, "delivered") : \A f \in failures : f < d

AppliedIn(c) == {s \in DOMAIN log : log[s].cmd = c}

Apply(c) ==
  /\ AppliedIn(c) = {}
  /\ Permits(DOMAIN log, c)
  /\ ~MessageUsed(DOMAIN log, c)
  /\ log' = log \o Batch(c)

SerialInit == log = <<>>
SerialNext == \E c \in Commands : Apply(c)
SerialSpec == SerialInit /\ [][SerialNext]_log

=============================================================================
