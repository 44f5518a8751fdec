-------------------------- MODULE ConversationRewind --------------------------
(***************************************************************************)
(* The rewind of a conversation to an earlier checkpoint: the files are    *)
(* restored from git by the backend, the provider's history is cut by the  *)
(* daemon and the transcript by the orchestration engine, three stores     *)
(* that no transaction spans.  CheckpointReactor.ts coordinates them over  *)
(* three calls to the daemon (ProviderService.ts) and one durable row      *)
(* (ConversationRewinds.ts) that fences the provider and the ingestion of  *)
(* its events while the rewind is under way.                               *)
(*                                                                         *)
(* One thread of a provider with prepared rewinds ("claudeAgent").  Turns  *)
(* are numbered in the order they start; a history is a sequence of turns. *)
(* The daemon's command ledger executes a call at most once however often  *)
(* it is sent (module CommandLedger), so that a call is executed, and its  *)
(* answer arrives or is lost.                                              *)
(***************************************************************************)
EXTENDS Naturals, Sequences, Functions

CONSTANTS Ops,          \* requested rewinds
          TargetOf,     \* the turn count each asks for
          InitialTurns, \* turns the conversation starts with
          MaxTurns,     \* bounds the turns that ever start
          MaxControls,  \* bounds the user's prompts and rewind requests
          MaxLate,      \* bounds the events a provider sends after its turn's end
          MaxFaults     \* bounds failures, lost answers and crashes

ASSUME BoundsAssumption ==
  /\ InitialTurns \in Nat /\ MaxTurns \in Nat /\ InitialTurns <= MaxTurns
  /\ MaxControls \in Nat /\ MaxLate \in Nat /\ MaxFaults \in Nat
ASSUME OpsAssumption == TargetOf \in [Ops -> Nat]

None == "none"
Mixed == <<0>>   \* the workspace after a restore that failed half-way: no history
NoQuery == [runtime |-> 0, turns |-> <<>>, running |-> FALSE]

VARIABLES
  \* SQLite, shared by backend and daemon
  controls,    \* sequence of the thread's latest explicit control
  row,         \* provider_conversation_rewinds: the thread's reservation
  binding,     \* provider_session_runtime: live runtime id, history of the cursor
  projected,   \* turns of the projected conversation
  shown,       \* turns of which anything is projected
  applied,     \* provider events whose commands have receipts
  completed,   \* rewinds recorded by thread.reverted
  \* git
  files,       \* history the workspace corresponds to
  recovery,    \* history captured under the private recovery ref, if it exists
  \* the daemon
  session,     \* the provider's live query
  emitted,     \* its events before the daemon's fence
  call,        \* each rewind's call to the daemon
  \* the backend
  pc,          \* where the reactor is with each rewind
  expected,    \* sequence of each rewind's request
  counted,     \* turns the reactor saw in the projection when it began
  prompts,     \* prompts the command reactor has not delivered yet
  journal,     \* published events, in order
  received,    \* how many of them the backend's process has received
  handled,     \* how many its ingestion worker has taken
  ingesting,   \* the event the worker is at, if any
  \* bounds and history
  turns,       \* turns started so far
  runtimes,    \* runtimes started so far
  discarded,   \* turns removed by thread.reverted
  late, faults

durable == <<controls, row, binding, projected, shown, applied, completed, discarded>>
git == <<files, recovery>>
ingestion == <<journal, received, handled, ingesting>>
daemon == <<session, emitted, call>>
reactor == <<pc, expected, counted, prompts>>
bounds == <<turns, runtimes, late, faults>>

vars == <<durable, git, ingestion, daemon, reactor, bounds>>

Prefix(h, n) == SubSeq(h, 1, n)

NoCall == [method |-> None, at |-> None]
NoRow == [op |-> None, phase |-> None, runtime |-> 0, expected |-> 0, candidate |-> <<>>]

Settled == {"done", "failed", "lost"}

\* Wrong: a rewind is over once the provider's history is cut.
PendingUntilCommit == row.phase \in {"preparing", "prepared"}

\* isPendingConversationRewind
Pending == row.phase \in {"preparing", "prepared", "committed"}

\* A call that is between two awaits holds the thread's lifecycle lock.
Locked == \E op \in Ops : call[op].at \in {"reserved", "retired"}

Fault == faults < MaxFaults /\ faults' = faults + 1

Init ==
  LET h == [n \in 1..InitialTurns |-> n]
  IN /\ controls = 0 /\ row = NoRow
     /\ binding = [runtime |-> 1, turns |-> h]
     /\ projected = h /\ shown = Range(h) /\ applied = {} /\ completed = {}
     /\ files = h /\ recovery = {}
     /\ session = [runtime |-> 1, turns |-> h, running |-> FALSE]
     /\ emitted = <<>> /\ call = [op \in Ops |-> NoCall]
     /\ pc = [op \in Ops |-> "unasked"] /\ expected = [op \in Ops |-> 0]
     /\ counted = [op \in Ops |-> 0] /\ prompts = 0
     /\ journal = <<>> /\ received = 0 /\ handled = 0 /\ ingesting = {}
     /\ turns = InitialTurns /\ runtimes = 1 /\ discarded = {} /\ late = 0 /\ faults = 0

-----------------------------------------------------------------------------
(* Turns *)

\* thread.turn-start-requested: an explicit control, and a prompt to deliver.
Prompt ==
  /\ controls < MaxControls /\ prompts = 0
  /\ controls' = controls + 1
  /\ prompts' = 1
  /\ UNCHANGED <<row, binding, projected, shown, applied, completed, discarded,
                 git, ingestion, daemon, pc, expected, counted, bounds>>

\* Wrong: the reservation is not looked at.
StartsAnyway ==
  /\ prompts = 1 /\ turns < MaxTurns /\ session # NoQuery /\ ~session.running
  /\ prompts' = 0 /\ turns' = turns + 1
  /\ session' = [session EXCEPT !.running = TRUE]
  /\ UNCHANGED <<durable, git, ingestion, emitted, call, pc, expected, counted,
                 runtimes, late, faults>>

\* sendTurn under the lifecycle lock: a query that is gone is started again from the
\* cursor, under a runtime id of its own.
StartTurn ==
  /\ prompts = 1 /\ turns < MaxTurns
  /\ ~Locked /\ ~Pending
  /\ prompts' = 0 /\ turns' = turns + 1
  /\ \/ /\ session # NoQuery /\ ~session.running
        /\ session' = [session EXCEPT !.running = TRUE]
        /\ UNCHANGED <<binding, runtimes>>
     \/ /\ session = NoQuery
        /\ runtimes' = runtimes + 1
        /\ session' = [runtime |-> runtimes', turns |-> binding.turns, running |-> TRUE]
        /\ binding' = [binding EXCEPT !.runtime = runtimes']
  /\ UNCHANGED <<controls, row, projected, shown, applied, completed, discarded, git,
                 ingestion, emitted, call, pc, expected, counted, late, faults>>

\* assertNoRewind: the prompt fails while a rewind is reserved.
RefuseTurn ==
  /\ prompts = 1 /\ ~Locked /\ Pending
  /\ prompts' = 0
  /\ UNCHANGED <<durable, git, ingestion, daemon, pc, expected, counted, bounds>>

\* What the live query says of a turn.
Event(turn, type) == [runtime |-> session.runtime, turn |-> turn, type |-> type]

\* The turn has edited the workspace and grown the native transcript.
FinishTurn ==
  /\ session # NoQuery /\ session.running
  /\ session' = [session EXCEPT !.running = FALSE, !.turns = Append(@, turns)]
  /\ binding' = [binding EXCEPT !.turns = Append(@, turns)]
  /\ files' = Append(files, turns)
  /\ emitted' = Append(emitted, Event(turns, "done"))
  /\ UNCHANGED <<controls, row, projected, shown, applied, completed, discarded,
                 recovery, ingestion, call, reactor, bounds>>

\* A background task of a finished turn speaks.
EmitLate(t) ==
  /\ late < MaxLate
  /\ session # NoQuery /\ t \in Range(session.turns)
  /\ late' = late + 1
  /\ emitted' = Append(emitted, Event(t, "late"))
  /\ UNCHANGED <<durable, git, ingestion, session, call, reactor, turns, runtimes, faults>>

-----------------------------------------------------------------------------
(* The fence of provider events *)

\* classifyEvent: what the reservation says of an event.
Admission(e) ==
  LET current == e.runtime = binding.runtime
      original == e.runtime = row.runtime
  IN CASE row.phase = None -> "accepted"
       [] row.phase = "preparing" -> IF current /\ original THEN "accepted" ELSE "pending"
       [] row.phase = "refused" -> IF current THEN "accepted" ELSE "retired"
       [] row.phase \in {"prepared", "committed"} -> IF original THEN "retired" ELSE "pending"
       [] row.phase \in {"aborted", "finished"} ->
            IF current /\ ~original THEN "accepted" ELSE "retired"

\* processRuntimeEvent of the daemon, under the lifecycle lock.
Publish ==
  /\ emitted # <<>> /\ ~Locked
  /\ emitted' = Tail(emitted)
  /\ journal' = IF Admission(Head(emitted)) = "accepted"
                THEN Append(journal, Head(emitted)) ELSE journal
  /\ UNCHANGED <<durable, git, received, handled, ingesting, session, call, reactor, bounds>>

Receive ==
  /\ received < Len(journal) /\ received' = received + 1
  /\ UNCHANGED <<durable, git, journal, handled, ingesting, daemon, reactor, bounds>>

\* processRuntimeEventOnce: the second fence, when the worker takes the event.
Admit ==
  /\ handled < received /\ ingesting = {}
  /\ handled' = handled + 1
  /\ LET e == journal[handled']
     IN ingesting' = IF Admission(e) = "accepted" THEN {e} ELSE {}
  /\ UNCHANGED <<durable, git, journal, received, daemon, reactor, bounds>>

\* Its commands are dispatched; receipts collapse a repetition.
Project ==
  \E e \in ingesting :
    /\ ingesting' = {}
    /\ applied' = applied \cup {e}
    /\ IF e \in applied THEN UNCHANGED <<shown, projected>>
       ELSE /\ shown' = shown \cup {e.turn}
            /\ projected' = IF e.type = "done" THEN Append(projected, e.turn) ELSE projected
    /\ UNCHANGED <<controls, row, binding, completed, discarded, git, journal, received,
                   handled, daemon, reactor, bounds>>

-----------------------------------------------------------------------------
(* The calls, executed by the daemon under the lifecycle lock *)

Sent(op, method) == call[op] = [method |-> method, at |-> "sent"]

Answered(op, answer) == [method |-> call[op].method, at |-> answer]
Answers(op, answer) == call' = [call EXCEPT ![op] = Answered(op, answer)]

\* Nothing of the row changes.
Replies(op, answer) ==
  /\ Answers(op, answer)
  /\ UNCHANGED <<durable, git, ingestion, session, emitted, reactor, bounds>>

\* The exact owner and the latest control are compared, and the row is written.
CanReserve(op) ==
  /\ session # NoQuery /\ ~session.running
  /\ session.runtime = binding.runtime
  /\ controls = expected[op]

PrepareRefused(op) ==
  /\ Sent(op, "prepare") /\ ~Locked
  /\ IF Pending THEN Replies(op, "unknown") ELSE ~CanReserve(op) /\ Replies(op, "refused")

Reserve(op) ==
  /\ Sent(op, "prepare") /\ ~Locked /\ ~Pending /\ CanReserve(op)
  /\ row' = [op |-> op, phase |-> "preparing", runtime |-> session.runtime,
             expected |-> expected[op], candidate |-> <<>>]
  /\ Answers(op, "reserved")
  /\ UNCHANGED <<controls, binding, projected, shown, applied, completed, discarded, git,
                 ingestion, session, emitted, reactor, bounds>>

\* prepareRollbackThread validates before it touches the query. The turn counts of the
\* transcript and of the projection must agree, as they do not while an event of the
\* last turn is under way or was lost.
RefusePreparing(op) ==
  /\ call[op].at = "reserved"
  /\ row' = [row EXCEPT !.phase = "refused"]
  /\ Answers(op, "refused")
  /\ UNCHANGED <<controls, binding, projected, shown, applied, completed, discarded, git,
                 ingestion, session, emitted, reactor, bounds>>

\* Wrong: the query lives on beside its candidate.
ForksBeside(op) ==
  /\ call[op].at = "reserved"
  /\ Len(session.turns) = counted[op]
  /\ Answers(op, "retired")
  /\ UNCHANGED <<durable, git, ingestion, session, emitted, reactor, bounds>>

\* The idle query is retired for good, then the candidate is forked from its transcript.
Retire(op) ==
  /\ call[op].at = "reserved"
  /\ session # NoQuery /\ ~session.running
  /\ Len(session.turns) = counted[op]
  /\ session' = NoQuery
  /\ Answers(op, "retired")
  /\ UNCHANGED <<durable, git, ingestion, emitted, reactor, bounds>>

MarkPrepared(op) ==
  /\ call[op].at = "retired"
  /\ row' = [row EXCEPT !.phase = "prepared", !.candidate = Prefix(binding.turns, TargetOf[op])]
  /\ Answers(op, "ok")
  /\ UNCHANGED <<controls, binding, projected, shown, applied, completed, discarded, git,
                 ingestion, session, emitted, reactor, bounds>>

\* The exit is not observed in time, the fork fails, or a statement does.
PrepareUncertain(op) ==
  /\ call[op].at \in {"reserved", "retired"} /\ Fault
  /\ session' \in {session, NoQuery}
  /\ Answers(op, "unknown")
  /\ UNCHANGED <<durable, git, ingestion, emitted, reactor, turns, runtimes, late>>

\* One transaction: the latest control is compared again, and the cursor moves.
Commit(op) ==
  /\ Sent(op, "commit") /\ ~Locked
  /\ row.op = op /\ row.phase = "prepared" /\ controls = row.expected
  /\ row' = [row EXCEPT !.phase = "committed"]
  /\ binding' = [runtime |-> 0, turns |-> row.candidate]
  /\ Answers(op, "ok")
  /\ UNCHANGED <<controls, projected, shown, applied, completed, discarded, git,
                 ingestion, session, emitted, reactor, bounds>>

CommitRefused(op) ==
  /\ Sent(op, "commit") /\ ~Locked
  /\ row.op # op \/ (row.phase = "prepared" /\ controls # row.expected)
  /\ Replies(op, "refused")

\* A statement fails: nothing is known of the cursor.
CommitFails(op) ==
  /\ Sent(op, "commit") /\ ~Locked /\ Fault
  /\ Answers(op, "unknown")
  /\ UNCHANGED <<durable, git, ingestion, session, emitted, reactor, turns, runtimes, late>>

\* "committed" needs the accepted receipt and the event of thread.revert.complete.
CanFinish(op) ==
  /\ row.op = op
  /\ \/ call[op].method = "abort" /\ row.phase = "prepared"
     \/ call[op].method = "finish" /\ row.phase = "committed" /\ op \in completed

Finish(op) ==
  /\ Sent(op, "abort") \/ Sent(op, "finish")
  /\ ~Locked /\ CanFinish(op)
  /\ row' = [row EXCEPT !.phase = IF call[op].method = "abort" THEN "aborted" ELSE "finished"]
  /\ Answers(op, "ok")
  /\ UNCHANGED <<controls, binding, projected, shown, applied, completed, discarded, git,
                 ingestion, session, emitted, reactor, bounds>>

FinishFails(op) ==
  /\ Sent(op, "abort") \/ Sent(op, "finish")
  /\ ~Locked /\ Fault
  /\ Answers(op, "unknown")
  /\ UNCHANGED <<durable, git, ingestion, session, emitted, reactor, turns, runtimes, late>>

\* A row survives the daemon, the lock and what it had in memory do not.
DaemonCrash ==
  /\ session = NoQuery \/ ~session.running   \* recovery of running turns is not modelled
  /\ Fault
  /\ session' = NoQuery /\ emitted' = <<>>
  /\ call' = [op \in Ops |-> IF call[op].at \in {"reserved", "retired"}
                             THEN Answered(op, "unknown") ELSE call[op]]
  /\ UNCHANGED <<durable, git, ingestion, reactor, turns, runtimes, late>>

-----------------------------------------------------------------------------
(* The reactor, one rewind at a time *)

Goes(op, step) == pc' = [pc EXCEPT ![op] = step]

\* The reactor moves on and calls the daemon.
Calls(op, step, method) ==
  /\ Goes(op, step)
  /\ call' = [call EXCEPT ![op] = [method |-> method, at |-> "sent"]]

\* thread.checkpoint-revert-requested.
Request(op) ==
  /\ pc[op] = "unasked" /\ controls < MaxControls
  /\ controls' = controls + 1
  /\ expected' = [expected EXCEPT ![op] = controls']
  /\ Goes(op, "queued")
  /\ UNCHANGED <<row, binding, projected, shown, applied, completed, discarded, git,
                 ingestion, daemon, counted, prompts, bounds>>

Idle == \A op \in Ops : pc[op] \in {"unasked", "queued"} \cup Settled

\* The first request of those waiting is taken. A recovery ref is evidence of a rewind
\* nobody has resolved; a target that is not behind the projection removes nothing.
Take(op) ==
  /\ pc[op] = "queued" /\ Idle
  /\ \A other \in Ops : pc[other] = "queued" => expected[op] <= expected[other]

Begin(op) ==
  /\ Take(op)
  /\ recovery = {} /\ TargetOf[op] < Len(projected)
  /\ counted' = [counted EXCEPT ![op] = Len(projected)]
  /\ Calls(op, "preparing", "prepare")
  /\ UNCHANGED <<durable, git, ingestion, session, emitted, expected, prompts, bounds>>

Decline(op) ==
  /\ Take(op)
  /\ recovery # {} \/ TargetOf[op] >= Len(projected)
  /\ Goes(op, "failed")
  /\ UNCHANGED <<durable, git, ingestion, daemon, expected, counted, prompts, bounds>>

Moves(op, from, to) ==
  /\ pc[op] = from /\ Goes(op, to)
  /\ UNCHANGED <<durable, ingestion, daemon, expected, counted, prompts, turns, runtimes, late>>

Knows(op, step, answer) == pc[op] = step /\ call[op].at = answer

\* The fence is durable and the query retired; what the worker still holds is drained.
Prepared(op) ==
  /\ Knows(op, "preparing", "ok") /\ Moves(op, "preparing", "draining")
  /\ UNCHANGED <<git, faults>>

\* Wrong: the reactor does not wait for the worker.
SkipsDrain(op) == Moves(op, "draining", "capturing") /\ UNCHANGED <<git, faults>>

Drained(op) ==
  /\ handled = received /\ ingesting = {}
  /\ Moves(op, "draining", "capturing") /\ UNCHANGED <<git, faults>>

\* Wrong: it waits without a limit.
WaitsForever(op) == FALSE /\ UNCHANGED vars

DrainTimesOut(op) == Moves(op, "draining", "failed") /\ UNCHANGED <<git, faults>>

Capture(op) ==
  /\ Moves(op, "capturing", "restoring")
  /\ recovery' = {files}
  /\ UNCHANGED <<files, faults>>

\* Nothing was touched: the reservation is released without a restore.
CaptureFails(op) ==
  /\ pc[op] = "capturing" /\ Fault
  /\ Calls(op, "aborting", "abort")
  /\ UNCHANGED <<durable, git, ingestion, session, emitted, expected, counted, prompts,
                 turns, runtimes, late>>

Restore(op) ==
  /\ pc[op] = "restoring"
  /\ files' = Prefix(projected, TargetOf[op])
  /\ Calls(op, "committing", "commit")
  /\ UNCHANGED <<durable, recovery, ingestion, session, emitted, expected, counted,
                 prompts, bounds>>

RestoreFails(op) ==
  /\ Moves(op, "restoring", "compensating") /\ Fault
  /\ files' \in {files, Mixed, Prefix(projected, TargetOf[op])}
  /\ UNCHANGED recovery

\* Only a definite refusal of the commit lets the files go back.
CommitRefusedSeen(op) ==
  /\ Knows(op, "committing", "refused") /\ Moves(op, "committing", "compensating")
  /\ UNCHANGED <<git, faults>>

Compensate(op) ==
  /\ pc[op] = "compensating"
  /\ files' \in recovery
  /\ Calls(op, "aborting", "abort")
  /\ UNCHANGED <<durable, recovery, ingestion, session, emitted, expected, counted,
                 prompts, bounds>>

CompensateFails(op) ==
  /\ Moves(op, "compensating", "failed") /\ Fault
  /\ files' \in {files, Mixed} \cup recovery
  /\ UNCHANGED recovery

\* The ref is deleted once the daemon has released the reservation, or stays if that
\* deletion fails, which is ignored.
Aborted(op) ==
  /\ Knows(op, "aborting", "ok") /\ Moves(op, "aborting", "failed")
  /\ \/ recovery' = {} /\ UNCHANGED faults
     \/ UNCHANGED recovery /\ Fault
  /\ UNCHANGED files

Committed(op) ==
  /\ Knows(op, "committing", "ok") /\ Moves(op, "committing", "completing")
  /\ UNCHANGED <<git, faults>>

\* thread.revert.complete: under the writer lock the latest control is compared once
\* more, and the projection drops the removed turns.
Complete(op) ==
  /\ pc[op] = "completing" /\ controls = expected[op]
  /\ controls' = controls + 1
  /\ completed' = completed \cup {op}
  /\ LET kept == Prefix(projected, TargetOf[op])
     IN /\ projected' = kept
        /\ shown' = shown \cap Range(kept)
        /\ discarded' = discarded \cup (Range(projected) \ Range(kept))
  /\ \/ Calls(op, "finishing", "finish") /\ UNCHANGED faults
     \/ Goes(op, "failed") /\ Fault /\ UNCHANGED call   \* committed, reported as failed
  /\ UNCHANGED <<row, binding, applied, git, ingestion, session, emitted, expected,
                 counted, prompts, turns, runtimes, late>>

\* Superseded, or a failed statement: files and reservation stay as they are.
CompleteFails(op) ==
  /\ Moves(op, "completing", "failed")
  /\ \/ controls # expected[op] /\ UNCHANGED faults
     \/ Fault
  /\ UNCHANGED git

Finished(op) ==
  /\ Knows(op, "finishing", "ok") /\ Moves(op, "finishing", "cleaning")
  /\ UNCHANGED <<git, faults>>

\* The recovery ref goes last; a failure before it leaves the ref.
CleanUp(op) ==
  /\ Moves(op, "cleaning", "done")
  /\ recovery' = {} /\ UNCHANGED <<files, faults>>

CleanUpFails(op) ==
  /\ Moves(op, "cleaning", "failed") /\ Fault /\ UNCHANGED git

\* An unknown or refused phase ends the rewind where it stands.
GivesUp(op) ==
  /\ \/ pc[op] \in {"preparing", "aborting", "finishing"} /\ call[op].at \in {"unknown", "refused"}
     \/ pc[op] = "committing" /\ call[op].at = "unknown"
  /\ Goes(op, "failed")
  /\ UNCHANGED <<durable, git, ingestion, daemon, expected, counted, prompts, bounds>>

\* Wrong: a lost answer is taken for a refusal.
TakesForRefused(op) ==
  /\ Moves(op, "committing", "compensating") /\ Fault /\ UNCHANGED git

\* No answer arrives, whether the daemon has executed the call, is at it, or has yet to
\* receive it.
LoseAnswer(op) ==
  /\ pc[op] \in {"preparing", "committing", "aborting", "finishing"}
  /\ Fault
  /\ Goes(op, "failed")
  /\ UNCHANGED <<durable, git, ingestion, daemon, expected, counted, prompts, turns,
                 runtimes, late>>

\* The backend dies and starts again. Requests and prompts come from a live stream and
\* are not repeated; events are replayed from some way before the first one that was not
\* recorded as processed.
BackendCrash ==
  /\ Fault
  /\ pc' = [op \in Ops |-> IF pc[op] \in Settled \cup {"unasked"} THEN pc[op] ELSE "lost"]
  /\ prompts' = 0
  /\ handled' \in 0..(IF ingesting = {} THEN handled ELSE handled - 1)
  /\ received' = handled' /\ ingesting' = {}
  /\ UNCHANGED <<durable, git, journal, daemon, expected, counted, turns, runtimes, late>>

-----------------------------------------------------------------------------

ReactorStep(op) ==
  \/ Begin(op) \/ Decline(op) \/ Prepared(op) \/ Drained(op) \/ DrainTimesOut(op)
  \/ Capture(op) \/ CaptureFails(op) \/ Restore(op) \/ RestoreFails(op)
  \/ CommitRefusedSeen(op) \/ Compensate(op) \/ CompensateFails(op) \/ Aborted(op)
  \/ Committed(op) \/ Complete(op) \/ CompleteFails(op) \/ Finished(op)
  \/ CleanUp(op) \/ CleanUpFails(op) \/ GivesUp(op) \/ LoseAnswer(op)

CallStep(op) ==
  \/ PrepareRefused(op) \/ Reserve(op) \/ RefusePreparing(op) \/ Retire(op)
  \/ MarkPrepared(op) \/ PrepareUncertain(op)
  \/ Commit(op) \/ CommitRefused(op) \/ CommitFails(op) \/ Finish(op) \/ FinishFails(op)

Next ==
  \/ Prompt \/ StartTurn \/ RefuseTurn \/ FinishTurn
  \/ \E t \in 1..MaxTurns : EmitLate(t)
  \/ Publish \/ Receive \/ Admit \/ Project
  \/ \E op \in Ops : Request(op) \/ ReactorStep(op) \/ CallStep(op)
  \/ DaemonCrash \/ BackendCrash

Spec == Init /\ [][Next]_vars

\* A fiber whose await settled goes on, a call that was sent is executed, and the
\* ingestion worker takes what it is given.
Fairness ==
  /\ \A op \in Ops : WF_vars(ReactorStep(op)) /\ WF_vars(CallStep(op))
  /\ WF_vars(Project)

FairSpec == Spec /\ Fairness

-----------------------------------------------------------------------------
(* Properties *)

Histories == Seq(1..MaxTurns)

\* As long as the workspace is anywhere else than the provider's history, the recovery
\* ref holds the workspace of that history, and some original is kept until the
\* reservation of a committed rewind is released.
OriginalKept ==
  /\ files # binding.turns => recovery = {binding.turns}
  /\ row.phase = "committed" => recovery # {}

\* The reservation outlives the provider's commit until the transcript is cut too: no
\* turn that the provider forgot is in the conversation when it takes turns again.
TranscriptFollows == ~Pending => Range(projected) \subseteq Range(binding.turns)

\* Nothing a provider said in a removed turn comes back after the transcript was cut,
\* however late it is published, received or ingested.
NothingResurrected == shown \cap discarded = {}

\* A live query continues the history of the durable cursor, never a history that a
\* rewind has cut.
QueryOnCursor == session # NoQuery => session.turns = binding.turns

\* The rewind implements the guarded history.  So the workspace is at the history the
\* provider continues from whenever the conversation takes turns: no failure, crash, lost
\* answer or newer control splits them.
Guarded == INSTANCE GuardedHistory WITH history <- binding.turns, files <- files,
                                        open <- ~Pending
RefinesHistory == Guarded!Spec

\* A rewind that was requested is done, fails, or is lost with its process.
RequestsSettle == \A op \in Ops : pc[op] = "queued" ~> pc[op] \in Settled

=============================================================================
