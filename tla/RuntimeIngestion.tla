--------------------------- MODULE RuntimeIngestion ---------------------------
(***************************************************************************)
(* How a backend turns the provider's event stream into the transcript of  *)
(* a turn.  Assistant text is coalesced in memory and dispatched in larger *)
(* pieces, the journal cursor is written now and then, and a backend that  *)
(* starts replays an overlap of the journal.  Command ids are made of the  *)
(* event's id, so that the engine's receipts drop what a replay sends      *)
(* again.  Two backends may run side by side while one replaces the other. *)
(* A failed event is logged and skipped.                                   *)
(*                                                                         *)
(* An event is its position in the journal, which is also its cursor, and  *)
(* the piece of text it carries; what the provider has yet to say is what  *)
(* no backend has been delivered yet.  One turn of one thread; the engine  *)
(* is what OrchestrationEngine guarantees: a command id is applied once.   *)
(***************************************************************************)
EXTENDS Naturals, FiniteSets, Enumeration, SequencesExt

CONSTANTS Items,        \* assistant messages of the turn
          NoItem,
          Backends,
          Scripts,      \* what the provider may say
          BufferLimit,  \* pieces the coalescer holds at most
          Overlap,      \* events replayed by a backend that starts
          IdleHealth,   \* whether the daemon may report that no session is alive
          Faults, MaxFaults

EventType ==
  [type : {"delta"}, item : Items, ends : BOOLEAN]
  \cup [type : {"item"}, item : Items, text : {"none", "same", "more"}]
  \cup [type : {"completed", "aborted"}]

ASSUME IngestionAssumption ==
  /\ NoItem \notin Items
  /\ Scripts \subseteq Seq(EventType)
  /\ BufferLimit \in Nat /\ Overlap \in Nat /\ IdleHealth \in BOOLEAN
  /\ Faults \subseteq {"sql", "crash", "redelivery"}
  /\ MaxFaults \in Nat

\* What adapters send of a turn. Its end comes last (a terminal notification closes the
\* turn's stream); an item is completed once and says nothing afterwards (completionEmitted
\* in ClaudeAdapter.ts:5258); and one that was interrupted by another item's text and then
\* resumed is not completed with more text than it streamed.
Orderly(turn) ==
  LET Text(i)    == turn[i].type = "delta"
      Same(i, k) == turn[i].item = turn[k].item IN
  /\ turn # <<>>
  /\ \A i \in DOMAIN turn : turn[i].type \in {"completed", "aborted"} => i = Len(turn)
  /\ \A i, k \in DOMAIN turn :
       i < k /\ turn[i].type = "item" /\ turn[k].type \in {"delta", "item"} => ~Same(i, k)
  /\ \A i, j, k, e \in DOMAIN turn :
       /\ i < j /\ j < k /\ k < e
       /\ Text(i) /\ Text(j) /\ Text(k) /\ turn[e].type = "item"
       /\ ~Same(i, j) /\ Same(i, k) /\ Same(i, e)
       => turn[e].text # "more"

ASSUME TurnAssumption == \A turn \in Scripts : Orderly(turn)

VARIABLES
  journal,     \* the events of the turn in the daemon's journal
  streaming,   \* the setting enableAssistantStreaming
  messages,    \* the assistant messages of the projection
  receipts,    \* ids of the commands the engine has accepted
  settled,     \* the turn is terminal
  durable,     \* the cursor in projection_state
  up, start,   \* per backend: whether it runs, and where its stream began
  next,        \* the event its stream delivers next
  worker,      \* the event it processes, what is left to do for it, and
               \* loadedThreadDetail: the messages as they were when it read them
  buffer,      \* bufferedAssistantTextByMessageId
  begun,       \* streamedAssistantMessageIds
  observed,    \* assistantStreamCommitmentsByMessageId
  active,      \* the item of the open segment
  remembered,  \* turnMessageIdsByTurnKey
  processed,   \* processedRuntimeEventIds
  cursor,      \* the cursor recorded for diagnostics
  persisted,   \* lastPersistedProviderDaemonCursor
  torn,        \* history: an event failed, or a process began inside an item
  faults

store == <<messages, receipts, settled, durable>>
text == <<buffer, begun, observed, active, remembered>>
process == <<up, start, next, processed, cursor, persisted>>
script == <<journal, streaming>>
vars == <<script, store, process, worker, text, torn, faults>>

Absent == [present |-> FALSE, text |-> <<>>, streaming |-> FALSE]
Larger(a, b) == IF a < b THEN b ELSE a
PerItem(x) == [m \in Items |-> x]
PerBackend(x) == [b \in Backends |-> x]
Idle == [event |-> 0, todo |-> <<>>, seen |-> PerItem(Absent)]

\* The text of an item according to the first n events.
Carries(i, m) ==
  /\ journal[i].type \in {"delta", "item"} /\ journal[i].item = m
  /\ journal[i].type = "item" => journal[i].text = "more"
Said(m, n) == InOrder({i \in 1..n : Carries(i, m)})

\* The detail of a completed item.
Detail(e) ==
  IF journal[e].type = "item" /\ journal[e].text # "none"
  THEN Said(journal[e].item, e) ELSE <<>>

Init ==
  /\ journal \in Scripts /\ streaming \in BOOLEAN
  /\ messages = PerItem(Absent) /\ receipts = {} /\ settled = FALSE /\ durable = 0
  /\ up = PerBackend(FALSE) /\ start = PerBackend(0) /\ next = PerBackend(1)
  /\ worker = PerBackend(Idle)
  /\ buffer = PerBackend(PerItem(<<>>)) /\ begun = PerBackend(PerItem(FALSE))
  /\ observed = PerBackend(PerItem(<<>>)) /\ active = PerBackend(NoItem)
  /\ remembered = PerBackend({}) /\ processed = PerBackend({})
  /\ cursor = PerBackend(0) /\ persisted = PerBackend(0)
  /\ torn = FALSE /\ faults = 0

Fault(kind) ==
  /\ kind \in Faults
  /\ faults < MaxFaults
  /\ faults' = faults + 1

-----------------------------------------------------------------------------
(* The life of a backend *)

\* An item has text at or before s that is not closed by then.
InsideItem(s) ==
  \E i \in 1..s :
    /\ journal[i].type = "delta"
    /\ \A j \in i..s : journal[j].type = "item" => journal[j].item # journal[i].item
    /\ \A j \in i..s : journal[j].type \notin {"completed", "aborted"}

\* A backend replays the overlap before the durable cursor, or nothing of it when the
\* daemon reports that no session is alive.
Boot(b) ==
  /\ ~up[b]
  /\ up' = [up EXCEPT ![b] = TRUE]
  /\ \/ /\ start' = [start EXCEPT ![b] = IF durable < Overlap THEN 0 ELSE durable - Overlap]
        /\ torn' = (torn \/ InsideItem(start'[b]))
     \/ /\ IdleHealth
        /\ start' = [start EXCEPT ![b] = durable]
        /\ torn' = (torn \/ InsideItem(durable))
  /\ next' = [next EXCEPT ![b] = start'[b] + 1]
  /\ persisted' = [persisted EXCEPT ![b] = durable]
  /\ UNCHANGED <<script, store, processed, cursor, worker, text, faults>>

\* A crash, or an orderly stop, which forces the cursor out first.
Crash(b) ==
  /\ up[b] /\ Fault("crash")
  /\ durable' \in {durable, IF cursor[b] > persisted[b] THEN Larger(durable, cursor[b])
                            ELSE durable}
  /\ up' = [up EXCEPT ![b] = FALSE]
  /\ worker' = [worker EXCEPT ![b] = Idle]
  /\ buffer' = [buffer EXCEPT ![b] = PerItem(<<>>)]
  /\ begun' = [begun EXCEPT ![b] = PerItem(FALSE)]
  /\ observed' = [observed EXCEPT ![b] = PerItem(<<>>)]
  /\ active' = [active EXCEPT ![b] = NoItem]
  /\ remembered' = [remembered EXCEPT ![b] = {}]
  /\ processed' = [processed EXCEPT ![b] = {}]
  /\ start' = [start EXCEPT ![b] = 0] /\ next' = [next EXCEPT ![b] = 1]
  /\ cursor' = [cursor EXCEPT ![b] = 0] /\ persisted' = [persisted EXCEPT ![b] = 0]
  /\ UNCHANGED <<script, messages, receipts, settled, torn>>

\* Wrong: the cursor is written over the stored one.
Overwrites(b) ==
  /\ up[b] /\ worker[b] = Idle
  /\ cursor[b] > persisted[b]
  /\ durable' = cursor[b]
  /\ persisted' = [persisted EXCEPT ![b] = cursor[b]]
  /\ UNCHANGED <<script, messages, receipts, settled, up, start, next, processed, cursor,
                 worker, text, torn, faults>>

\* persistProviderDaemonCursor: one upsert that keeps the larger value.
Checkpoint(b) ==
  /\ up[b] /\ worker[b] = Idle
  /\ cursor[b] > persisted[b]
  /\ durable' = Larger(durable, cursor[b])
  /\ persisted' = [persisted EXCEPT ![b] = durable']
  /\ UNCHANGED <<script, messages, receipts, settled, up, start, next, processed, cursor,
                 worker, text, torn, faults>>

-----------------------------------------------------------------------------
(* An event is taken from the stream, and what it asks for is done step by step *)

Op(name, m) == [op |-> name, item |-> m]
Each(name, S) == LET s == SetToSeq(S) IN [i \in DOMAIN s |-> Op(name, s[i])]
Finalize(m) == <<Op("tail", m), Op("complete", m)>>

FinalizeAll(S) ==
  LET s == SetToSeq(S) IN
  [k \in 1..2 * Cardinality(S) |-> IF k % 2 = 1 THEN Op("tail", s[(k + 1) \div 2])
                                   ELSE Op("complete", s[k \div 2])]

\* Wrong: the turn is settled before the coalescer is flushed.
SettlesFirst(b) ==
  <<Op("settle", NoItem)>> \o Each("flush", remembered[b]) \o <<Op("load", NoItem)>>
  \o FinalizeAll(remembered[b])

\* The coalesced text goes out before the session command closes the messages.
EndTurn(b) ==
  Each("flush", remembered[b]) \o <<Op("settle", NoItem), Op("load", NoItem)>>
  \o FinalizeAll(remembered[b])

\* What processRuntimeEvent does for event e, in order.
Plan(b, e) ==
  CASE journal[e].type = "delta" ->
         (IF active[b] \in {NoItem, journal[e].item} THEN <<>>
          ELSE <<Op("load", NoItem)>> \o Finalize(active[b]))
         \o <<Op("append", journal[e].item)>>
    [] journal[e].type = "item" -> <<Op("load", NoItem)>> \o Finalize(journal[e].item)
    [] journal[e].type = "completed" -> EndTurn(b)
    [] journal[e].type = "aborted" -> <<Op("settle", NoItem)>>

\* The stream delivers the next event, or, from the buffer of a connection that
\* broke, one that is processed already and only moves the cursor. (One that failed
\* is not delivered again: it might open a second segment of its item.)
Take(b, e) ==
  /\ up[b] /\ worker[b] = Idle
  /\ \/ e = next[b] /\ UNCHANGED faults
     \/ e \in processed[b] /\ Fault("redelivery")
  /\ next' = [next EXCEPT ![b] = Larger(next[b], e + 1)]
  /\ worker' = [worker EXCEPT ![b] =
       [event |-> e, todo |-> IF e \in processed[b] THEN <<>> ELSE Plan(b, e),
        seen |-> worker[b].seen]]
  /\ UNCHANGED <<script, store, up, start, processed, cursor, persisted, text, torn>>

Doing(b, op) ==
  /\ worker[b].todo # <<>>
  /\ Head(worker[b].todo).op = op

ItemOf(b) == Head(worker[b].todo).item

\* The worker goes on with its event: with what is left to do and what it has read.
GoesOn(b, todo, seen) ==
  worker' = [worker EXCEPT ![b] = [event |-> worker[b].event, todo |-> todo, seen |-> seen]]

Done(b) == GoesOn(b, Tail(worker[b].todo), worker[b].seen)

\* Wrong: the id is made by the process that sends the command.
CommandIdOfProcess(b) == <<b, worker[b].event, Head(worker[b].todo).op, ItemOf(b)>>

\* The event's id and the tag of the operation make the command's id.
CommandId(b) == <<worker[b].event, Head(worker[b].todo).op, ItemOf(b)>>

\* The engine applies a command whose id it has not seen; the projection of a message.
Dispatch(b, message) ==
  IF CommandId(b) \in receipts THEN UNCHANGED <<messages, receipts>>
  ELSE /\ messages' = [messages EXCEPT ![ItemOf(b)] = message]
       /\ receipts' = receipts \cup {CommandId(b)}

WithDelta(m, piece) ==
  LET old == messages[m] IN
  [present   |-> TRUE,
   text      |-> IF settled /\ old.present /\ ~old.streaming /\ old.text # <<>>
                 THEN old.text ELSE old.text \o piece,
   streaming |-> ~settled]

\* Wrong: the terminal marker replaces the text even when it has none.
CompletedWith(m, final) == [present |-> TRUE, text |-> final, streaming |-> FALSE]

Completed(m, final) ==
  [present   |-> TRUE,
   text      |-> IF final = <<>> THEN messages[m].text ELSE final,
   streaming |-> FALSE]

DispatchDelta(b, piece) ==
  IF piece = <<>> THEN UNCHANGED <<messages, receipts>>
  ELSE Dispatch(b, WithDelta(ItemOf(b), piece))

\* Wrong: what goes out is what was coalesced, without the piece that made it go.
ChunkWithoutLast(b, m, e) ==
  IF streaming /\ ~begun[b][m] THEN <<e>>
  ELSE IF Len(buffer[b][m]) >= BufferLimit \/ (streaming /\ journal[e].ends)
       THEN buffer[b][m]
  ELSE <<>>

\* What goes out when event e adds to an item: at once for the first piece of a
\* stream, later when a sentence or line ends or the coalescer is full.
Chunk(b, m, e) ==
  LET all == Append(buffer[b][m], e) IN
  IF streaming /\ ~begun[b][m] THEN <<e>>
  ELSE IF Len(all) > BufferLimit \/ (streaming /\ journal[e].ends) THEN all
  ELSE <<>>

Coalesce(b, m, e) ==
  /\ buffer' = [buffer EXCEPT ![b][m] = IF Chunk(b, m, e) = <<>> THEN Append(@, e) ELSE <<>>]
  /\ begun' = [begun EXCEPT ![b][m] = @ \/ streaming]
  /\ active' = [active EXCEPT ![b] = m]
  /\ remembered' = [remembered EXCEPT ![b] = @ \cup {m}]

\* The stream is recorded only after the dispatch has succeeded.
AppendText(b) ==
  LET m == ItemOf(b)
      e == worker[b].event IN
  /\ Doing(b, "append")
  /\ Coalesce(b, m, e)
  /\ DispatchDelta(b, Chunk(b, m, e))
  /\ observed' = [observed EXCEPT ![b][m] = Append(@, e)]
  /\ Done(b)
  /\ UNCHANGED <<script, settled, durable, process, torn, faults>>

TakeBuffer(b, m) == buffer' = [buffer EXCEPT ![b][m] = <<>>]

Flush(b) ==
  LET m == ItemOf(b) IN
  /\ Doing(b, "flush")
  /\ TakeBuffer(b, m)
  /\ DispatchDelta(b, buffer[b][m])
  /\ Done(b)
  /\ UNCHANGED <<script, settled, durable, process, begun, observed, active,
                 remembered, torn, faults>>

\* The session command that ends the turn closes its messages.
CloseMessages ==
  /\ settled' = TRUE
  /\ messages' = [m \in Items |-> [messages[m] EXCEPT !.streaming = FALSE]]

\* An aborted turn forgets its text.
Settle(b) ==
  /\ Doing(b, "settle")
  /\ CloseMessages
  /\ IF journal[worker[b].event].type = "completed" THEN UNCHANGED text
     ELSE /\ buffer' = [buffer EXCEPT ![b] = [m \in Items |->
                          IF m \in remembered[b] THEN <<>> ELSE @[m]]]
          /\ begun' = [begun EXCEPT ![b] = [m \in Items |-> @[m] /\ m \notin remembered[b]]]
          /\ observed' = [observed EXCEPT ![b] = [m \in Items |->
                            IF m \in remembered[b] THEN <<>> ELSE @[m]]]
          /\ active' = [active EXCEPT ![b] = NoItem]
          /\ remembered' = [remembered EXCEPT ![b] = {}]
  /\ Done(b)
  /\ UNCHANGED <<script, receipts, durable, process, torn, faults>>

\* A completion without text of a message that is already there is redundant; any
\* other is remembered until it is done.
Redundant(b) ==
  LET e == worker[b].event IN
  /\ Detail(e) = <<>>
  /\ active[b] # journal[e].item /\ messages[journal[e].item].present

Load(b) ==
  LET item == journal[worker[b].event].type = "item" IN
  /\ Doing(b, "load")
  /\ GoesOn(b, IF item /\ Redundant(b) THEN <<>> ELSE Tail(worker[b].todo), messages)
  /\ remembered' = [remembered EXCEPT ![b] =
       IF item /\ ~Redundant(b) THEN @ \cup {journal[worker[b].event].item} ELSE @]
  /\ UNCHANGED <<script, store, process, buffer, begun, observed, active, torn, faults>>

\* completedAssistantTextDelta: the buffered tail, with what the detail adds to the
\* text seen when this process has not observed the stream.
TailText(b, m) ==
  LET detail == Detail(worker[b].event)
      known  == worker[b].seen[m].text \o buffer[b][m] IN
  IF observed[b][m] = <<>> /\ detail # <<>> /\ IsPrefix(known, detail)
  THEN buffer[b][m] \o SubSeq(detail, Len(known) + 1, Len(detail))
  ELSE buffer[b][m]

\* The detail, if the stream observed so far is a prefix of it.
Canonical(b, m) ==
  IF IsPrefix(observed[b][m], Detail(worker[b].event)) THEN Detail(worker[b].event) ELSE <<>>

\* A message that has been sent text is there.
Shown(b, m) ==
  [worker[b].seen EXCEPT ![m] =
     [worker[b].seen[m] EXCEPT !.present =
        worker[b].seen[m].present \/ TailText(b, m) # <<>>]]

WriteTail(b) ==
  LET m == ItemOf(b) IN
  /\ Doing(b, "tail")
  /\ TakeBuffer(b, m)
  /\ DispatchDelta(b, TailText(b, m))
  /\ GoesOn(b, Tail(worker[b].todo), Shown(b, m))
  /\ UNCHANGED <<script, settled, durable, process, begun, observed, active, remembered,
                 torn, faults>>

\* Nothing is completed of which nothing is known.
Completes(b, m) == worker[b].seen[m].present \/ Canonical(b, m) # <<>>

Complete(b) ==
  LET m == ItemOf(b) IN
  /\ Doing(b, "complete")
  /\ IF Completes(b, m) THEN Dispatch(b, Completed(m, Canonical(b, m)))
     ELSE UNCHANGED <<messages, receipts>>
  /\ buffer' = [buffer EXCEPT ![b][m] = <<>>]
  /\ begun' = [begun EXCEPT ![b][m] = FALSE]
  /\ observed' = [observed EXCEPT ![b][m] = <<>>]
  /\ remembered' = [remembered EXCEPT ![b] =
       IF journal[worker[b].event].type = "completed" THEN @ ELSE @ \ {m}]
  /\ Done(b)
  /\ UNCHANGED <<script, settled, durable, process, active, torn, faults>>

\* What a failing dispatch has changed before it: the text left the coalescer.
FailsAfter(b) ==
  LET m == ItemOf(b)
      e == worker[b].event IN
  \/ /\ Doing(b, "append") /\ Chunk(b, m, e) # <<>>
     /\ Coalesce(b, m, e)
  \/ /\ \/ Doing(b, "flush") /\ buffer[b][m] # <<>>
        \/ Doing(b, "tail") /\ TailText(b, m) # <<>>
     /\ TakeBuffer(b, m)
     /\ UNCHANGED <<begun, active, remembered>>
  \/ /\ \/ Doing(b, "settle") \/ Doing(b, "load")
        \/ Doing(b, "complete") /\ Completes(b, m)
     /\ UNCHANGED <<buffer, begun, active, remembered>>

\* processInputSafely: a read or a dispatch failed. The worker logs a warning and
\* takes the next event; the rest of this one is not done, and it is neither
\* remembered as processed nor recorded as progress.
Fails(b) ==
  /\ worker[b].todo # <<>>
  /\ Fault("sql")
  /\ FailsAfter(b)
  /\ worker' = [worker EXCEPT ![b] = Idle]
  /\ torn' = TRUE
  /\ UNCHANGED <<script, store, process, observed>>

\* The event is processed, and its cursor is progress. The segment and the messages
\* of the turn are forgotten, if it was not a replay.
Finish(b) ==
  LET e    == worker[b].event
      type == IF e \in processed[b] THEN "replay" ELSE journal[e].type IN
  /\ e # 0 /\ worker[b].todo = <<>>
  /\ processed' = [processed EXCEPT ![b] = @ \cup {e}]
  /\ cursor' = [cursor EXCEPT ![b] = Larger(@, e)]
  /\ active' = [active EXCEPT ![b] =
       IF type = "completed" \/ (type = "item" /\ @ = journal[e].item) THEN NoItem ELSE @]
  /\ remembered' = [remembered EXCEPT ![b] = IF type = "completed" THEN {} ELSE @]
  /\ worker' = [worker EXCEPT ![b] = Idle]
  /\ UNCHANGED <<script, store, up, start, next, persisted, buffer, begun, observed,
                 torn, faults>>

-----------------------------------------------------------------------------

\* The worker goes on with its event.
Step(b) ==
  \/ AppendText(b) \/ Flush(b) \/ Settle(b) \/ Load(b) \/ WriteTail(b) \/ Complete(b)
  \/ Finish(b)

Next ==
  \E b \in Backends :
       \/ Boot(b) \/ Crash(b) \/ Checkpoint(b)
       \/ \E e \in 1..Len(journal) : Take(b, e)
       \/ Step(b) \/ Fails(b)

Spec == Init /\ [][Next]_vars

-----------------------------------------------------------------------------
(* Properties *)

\* Whatever a crash cuts off and a replay sends again, a message shows a beginning of
\* what the provider has said: no piece twice, none left out, none out of order.
TranscriptIsPrefix ==
  ~torn => \A m \in Items : IsPrefix(messages[m].text, Said(m, Len(journal)))

TurnCompleted == journal[Len(journal)].type = "completed"
AtRest(b) == up[b] /\ worker[b] = Idle /\ next[b] > Len(journal)

\* When a backend has taken a completed turn to its end, the transcript holds all of
\* it, and no message is left streaming.
WholeAtRest ==
  \A b \in Backends : ~torn /\ TurnCompleted /\ AtRest(b) =>
    \A m \in Items : messages[m].text = Said(m, Len(journal)) /\ ~messages[m].streaming

\* The cursor recorded for diagnostics never outruns the text: every piece the process
\* was given up to it is in the transcript or in the coalescer.
CursorIsProgress ==
  ~torn /\ journal[Len(journal)].type # "aborted" =>
    \A b \in Backends : \A e \in (start[b] + 1)..cursor[b] :
      journal[e].type = "delta" =>
        LET m == journal[e].item IN
        \E i \in DOMAIN (messages[m].text \o buffer[b][m]) :
          (messages[m].text \o buffer[b][m])[i] = e

\* The checkpoint of the journal never goes back, not even when two backends write it.
CursorMonotone == [][durable' >= durable]_durable

\* What a message has shown is never taken back: a later text has every piece of it.
NothingTakenBack ==
  [][\A m \in Items : ToSet(messages[m].text) \subseteq ToSet(messages'[m].text)]_messages

\* Replays collapse: once a backend has taken a completed turn to its end, no piece of
\* the provider's text is in a message twice.
NoDeltaTwice ==
  \A b \in Backends : TurnCompleted /\ AtRest(b) =>
    \A m \in Items : IsInjective(messages[m].text)

=============================================================================
