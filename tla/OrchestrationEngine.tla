------------------------- MODULE OrchestrationEngine -------------------------
(***************************************************************************)
(* The orchestration engine: one worker takes envelopes from a queue,      *)
(* decides commands on a read model held in memory, appends their events,  *)
(* projections and receipt in one transaction, then publishes.  Callers    *)
(* may send a command again with its id; a hard delete passes through the   *)
(* same queue twice, and the process may die between any two steps.        *)
(*                                                                         *)
(* An event is its sequence number, an index of log: the key is            *)
(* AUTOINCREMENT and a rolled back transaction returns it.                 *)
(***************************************************************************)
EXTENDS SerialCommands, Enumeration, SequencesExt

CONSTANTS Resends,     \* commands whose caller may dispatch them a second time
          Deletable,   \* threads somebody may hard-delete
          Projectors, NewProjectors,  \* those an older version did not have
          ReadLimit,   \* events readFromSequence returns when not told otherwise
          Faults,      \* kinds of fault that may happen
          MaxFaults

ASSUME EngineAssumption ==
  /\ Resends \subseteq Commands
  /\ Deletable \subseteq Threads
  /\ NewProjectors \subseteq Projectors /\ NewProjectors # Projectors
  /\ ReadLimit \in Nat \ {0}
  /\ Faults \subseteq {"sql", "uncertain", "reconcile", "crash"}
  /\ MaxFaults \in Nat

VARIABLES
  events,      \* the rows of orchestration_events
  receipts,    \* orchestration_command_receipts
  tombstones,  \* hard_deleted_threads
  installed,   \* projectors the running or last version has
  projected,   \* last_applied_sequence of each projector
  rows,        \* events whose effect a projector's tables hold
  up,          \* the process runs
  model,       \* commandReadModel: snapshotSequence, and the events it reflects
  retiring,    \* hardDeleteRetiringThreadIds
  queue,       \* commandQueue
  worker,      \* where the worker stands, and its command
  published,   \* what eventPubSub has carried since the process started
  reply,       \* what each dispatch was told
  deletion,    \* where the hard delete of a thread stands
  started,     \* history: sequence at which the process started
  purged,      \* history: threads whose rows were deleted
  diverged,    \* history: a reconciliation failed with events to reconcile
  faults

durable == <<log, events, receipts, tombstones, installed, projected, rows, purged>>
vars == <<durable, up, model, retiring, queue, worker, published, reply, deletion,
          started, diverged, faults>>

Dispatches == {<<c, 1>> : c \in Commands} \cup {<<c, 2>> : c \in Resends}

NoReceipt == [status |-> "none", seq |-> 0]
Idle == [pc |-> "idle"]
EmptyModel == [seq |-> 0, events |-> {}]

Command(d) == [kind |-> "command", dispatch |-> d]
Retirement(t) == [kind |-> "retire", thread |-> t]
Purging(t) == [kind |-> "purge", thread |-> t]

OfThread(S, t) == {s \in S : ThreadOf[log[s].cmd] = t}
LastSequence == Len(log)

\* The first ReadLimit events after a sequence, and the last of those.
ReadFrom(seq) ==
  {s \in events : s > seq /\ Cardinality({r \in events : r > seq /\ r < s}) < ReadLimit}
LastOf(S, otherwise) == IF S = {} THEN otherwise ELSE CHOOSE m \in S : \A s \in S : s <= m

Init ==
  /\ SerialInit
  /\ events = {} /\ tombstones = {} /\ purged = {}
  /\ receipts = [c \in Commands |-> NoReceipt]
  /\ installed = Projectors \ NewProjectors
  /\ projected = [p \in Projectors |-> 0] /\ rows = [p \in Projectors |-> {}]
  /\ up = TRUE /\ model = EmptyModel /\ retiring = {} /\ queue = <<>> /\ worker = Idle
  /\ published = <<>> /\ started = 0 /\ diverged = FALSE /\ faults = 0
  /\ reply = [d \in Dispatches |-> "unsent"]
  /\ deletion = [t \in Deletable |-> "none"]

Fault(kind) ==
  /\ kind \in Faults
  /\ faults < MaxFaults
  /\ faults' = faults + 1

-----------------------------------------------------------------------------
(* Callers *)

Dispatch(d) ==
  /\ up /\ reply[d] = "unsent"
  /\ d[2] = 2 => reply[<<d[1], 1>>] # "unsent"
  /\ queue' = Append(queue, Command(d))
  /\ reply' = [reply EXCEPT ![d] = "waiting"]
  /\ UNCHANGED <<durable, up, model, retiring, worker, published, deletion, started,
                 diverged, faults>>

\* The daemon quiesces the thread first; if it shares the database, its own purge
\* installs the tombstone before the engine has heard of the deletion.
BeginDelete(t) ==
  /\ up /\ deletion[t] = "none"
  /\ tombstones' \in {tombstones, tombstones \cup {t}}
  /\ deletion' = [deletion EXCEPT ![t] = "quiesced"]
  /\ UNCHANGED <<log, events, receipts, installed, projected, rows, purged, up, model,
                 retiring, queue, worker, published, reply, started, diverged, faults>>

RequestRetire(t) ==
  /\ deletion[t] = "quiesced"
  /\ queue' = Append(queue, Retirement(t))
  /\ deletion' = [deletion EXCEPT ![t] = "retiring"]
  /\ UNCHANGED <<durable, up, model, retiring, worker, published, reply, started,
                 diverged, faults>>

\* Checkpoint refs, attachments and the standalone workspace go in between.
RequestPurge(t) ==
  /\ deletion[t] = "retired"
  /\ queue' = Append(queue, Purging(t))
  /\ deletion' = [deletion EXCEPT ![t] = "purging"]
  /\ UNCHANGED <<durable, up, model, retiring, worker, published, reply, started,
                 diverged, faults>>

-----------------------------------------------------------------------------
(* The worker: commands *)

\* The worker takes the command of dispatch d; tests come in the code's order.
Takes(d) ==
  /\ up /\ worker = Idle /\ queue # <<>>
  /\ d \in Dispatches /\ Head(queue) = Command(d)
  /\ queue' = Tail(queue)

NotRetired(c) == ThreadOf[c] \notin retiring

\* Wrong: any stored receipt is taken for an acceptance.
AnswersAccepted(d) ==
  /\ Takes(d) /\ NotRetired(d[1])
  /\ receipts[d[1]].status # "none"
  /\ reply' = [reply EXCEPT ![d] = "accepted"]
  /\ UNCHANGED <<durable, up, model, retiring, worker, published, deletion, started,
                 diverged, faults>>

\* A receipt answers for the command. A stored rejection is told as such.
AnswerFromReceipt(d) ==
  /\ Takes(d) /\ NotRetired(d[1])
  /\ receipts[d[1]].status # "none"
  /\ reply' = [reply EXCEPT ![d] = receipts[d[1]].status]
  /\ UNCHANGED <<durable, up, model, retiring, worker, published, deletion, started,
                 diverged, faults>>

\* Wrong: the decider is not asked.
RefusedWithoutDeciding(c) ==
  \/ ~NotRetired(c)
  \/ receipts[c] = NoReceipt /\ MessageUsed(events, c)

\* The thread is retired, the message is taken, or the decider refuses.
Refused(c) ==
  \/ ~NotRetired(c)
  \/ /\ receipts[c] = NoReceipt
     /\ MessageUsed(events, c) \/ ~Permits(model.events, c)

Refuse(d) ==
  /\ Takes(d) /\ Refused(d[1])
  /\ worker' = [pc |-> "failed", dispatch |-> d, invariant |-> TRUE]
  /\ UNCHANGED <<durable, up, model, retiring, published, reply, deletion, started,
                 diverged, faults>>

\* Wrong: no receipt is looked for.
AdmitsAgain(d) ==
  /\ Takes(d) /\ NotRetired(d[1])
  /\ ~Refused(d[1])
  /\ worker' = [pc |-> "committing", dispatch |-> d]
  /\ UNCHANGED <<durable, up, model, retiring, published, reply, deletion, started,
                 diverged, faults>>

Admit(d) ==
  /\ Takes(d) /\ NotRetired(d[1])
  /\ receipts[d[1]] = NoReceipt
  /\ ~Refused(d[1])
  /\ worker' = [pc |-> "committing", dispatch |-> d]
  /\ UNCHANGED <<durable, up, model, retiring, published, reply, deletion, started,
                 diverged, faults>>

Appended(c) == (LastSequence + 1)..(LastSequence + Len(Batch(c)))

\* Wrong: the receipt is not part of the transaction.
PersistsWithoutReceipt(c) ==
  LET last == LastSequence + Len(Batch(c)) IN
  /\ worker.pc = "committing"
  /\ ThreadOf[c] \notin tombstones
  /\ log' = log \o Batch(c)
  /\ events' = events \cup Appended(c)
  /\ projected' = [p \in Projectors |-> IF p \in installed THEN last ELSE projected[p]]
  /\ rows' = [p \in Projectors |->
                IF p \in installed THEN rows[p] \cup Appended(c) ELSE rows[p]]
  /\ UNCHANGED <<receipts, tombstones, installed, purged>>

\* The transaction: every event with its projections, then the receipt.
Persist(c) ==
  LET last == LastSequence + Len(Batch(c)) IN
  /\ worker.pc = "committing"
  /\ ThreadOf[c] \notin tombstones
  /\ log' = log \o Batch(c)
  /\ events' = events \cup Appended(c)
  /\ projected' = [p \in Projectors |-> IF p \in installed THEN last ELSE projected[p]]
  /\ rows' = [p \in Projectors |->
                IF p \in installed THEN rows[p] \cup Appended(c) ELSE rows[p]]
  /\ receipts' = [receipts EXCEPT ![c] = [status |-> "accepted", seq |-> last]]
  /\ UNCHANGED <<tombstones, installed, purged>>

Failing == [pc |-> "failed", dispatch |-> worker.dispatch, invariant |-> FALSE]

Commit ==
  /\ Persist(worker.dispatch[1])
  /\ worker' = [worker EXCEPT !.pc = "committed"]
  /\ UNCHANGED <<up, model, retiring, queue, published, reply, deletion, started,
                 diverged, faults>>

\* The commit is durable and is reported as failed.
CommitUncertain ==
  /\ Persist(worker.dispatch[1])
  /\ Fault("uncertain")
  /\ worker' = Failing
  /\ UNCHANGED <<up, model, retiring, queue, published, reply, deletion, started, diverged>>

\* A statement failed, or a tombstone's trigger aborted it: all is rolled back.
RollBack ==
  /\ worker.pc = "committing"
  /\ \/ /\ ThreadOf[worker.dispatch[1]] \in tombstones
        /\ UNCHANGED faults
     \/ Fault("sql")
  /\ worker' = Failing
  /\ UNCHANGED <<durable, up, model, retiring, queue, published, reply, deletion, started,
                 diverged>>

Reflect(S) ==
  /\ model' = [seq |-> LastOf(S, model.seq), events |-> model.events \cup S]
  /\ published' = published \o InOrder(S)

\* The read model takes over what the transaction computed and the events go out.
Finish ==
  LET d == worker.dispatch
      seq == receipts[d[1]].seq IN
  /\ worker.pc = "committed"
  /\ Reflect((seq - Len(Batch(d[1])) + 1)..seq)
  /\ reply' = [reply EXCEPT ![d] = "accepted"]
  /\ worker' = Idle
  /\ UNCHANGED <<durable, up, retiring, queue, deletion, started, diverged, faults>>

\* After a failure: whatever the store holds beyond the read model is taken in.
AfterFailure ==
  IF worker.invariant
  THEN worker' = [worker EXCEPT !.pc = "rejecting"] /\ UNCHANGED reply
  ELSE worker' = Idle /\ reply' = [reply EXCEPT ![worker.dispatch] = "failed"]

\* Wrong: the read model takes the events over, and nobody hears of them.
ReconcilesSilently ==
  /\ worker.pc = "failed"
  /\ model' = [seq |-> LastOf(ReadFrom(model.seq), model.seq),
               events |-> model.events \cup ReadFrom(model.seq)]
  /\ AfterFailure
  /\ UNCHANGED <<durable, up, retiring, queue, published, deletion, started, diverged,
                 faults>>

\* Wrong: a failed dispatch leaves the read model as it was.
LeavesModelBehind ==
  /\ worker.pc = "failed"
  /\ AfterFailure
  /\ UNCHANGED <<durable, up, model, retiring, queue, published, deletion, started,
                 diverged, faults>>

Reconcile ==
  /\ worker.pc = "failed"
  /\ Reflect(ReadFrom(model.seq))
  /\ AfterFailure
  /\ UNCHANGED <<durable, up, retiring, queue, deletion, started, diverged, faults>>

\* Reading or projecting them failed: a warning, and the read model stays behind.
ReconcileFails ==
  /\ worker.pc = "failed"
  /\ ReadFrom(model.seq) # {}
  /\ Fault("reconcile")
  /\ diverged' = TRUE
  /\ AfterFailure
  /\ UNCHANGED <<durable, up, model, retiring, queue, published, deletion, started>>

\* Wrong: the rejection is recorded and nobody is told.
RecordsOnly ==
  LET c == worker.dispatch[1] IN
  /\ worker.pc = "rejecting"
  /\ receipts' = IF ThreadOf[c] \in tombstones THEN receipts
                 ELSE [receipts EXCEPT ![c] = [status |-> "rejected", seq |-> model.seq]]
  /\ worker' = Idle
  /\ UNCHANGED <<log, events, tombstones, installed, projected, rows, purged, up, model,
                 retiring, queue, published, reply, deletion, started, diverged, faults>>

\* A rejection is recorded unless the upsert fails, which is ignored.
RecordRejection ==
  LET c == worker.dispatch[1] IN
  /\ worker.pc = "rejecting"
  /\ \/ /\ ThreadOf[c] \notin tombstones
        /\ receipts' = [receipts EXCEPT ![c] = [status |-> "rejected", seq |-> model.seq]]
        /\ UNCHANGED faults
     \/ ThreadOf[c] \in tombstones /\ UNCHANGED <<receipts, faults>>
     \/ Fault("sql") /\ UNCHANGED receipts
  /\ reply' = [reply EXCEPT ![worker.dispatch] = "rejected"]
  /\ worker' = Idle
  /\ UNCHANGED <<log, events, tombstones, installed, projected, rows, purged, up, model,
                 retiring, queue, published, deletion, started, diverged>>

-----------------------------------------------------------------------------
(* The worker: hard deletion *)

TakesEnvelope(envelope) ==
  /\ up /\ worker = Idle /\ queue # <<>>
  /\ Head(queue) = envelope
  /\ queue' = Tail(queue)

\* Wrong: the thread is retired in memory alone.
RetiresInMemory(t) ==
  /\ TakesEnvelope(Retirement(t))
  /\ retiring' = retiring \cup {t}
  /\ model' = [model EXCEPT !.events = @ \ OfThread(@, t)]
  /\ deletion' = [deletion EXCEPT ![t] = "retired"]
  /\ UNCHANGED <<durable, up, worker, published, reply, started, diverged, faults>>

Retire(t) ==
  /\ TakesEnvelope(Retirement(t))
  /\ tombstones' = tombstones \cup {t}
  /\ retiring' = retiring \cup {t}
  /\ model' = [model EXCEPT !.events = @ \ OfThread(@, t)]
  /\ deletion' = [deletion EXCEPT ![t] = "retired"]
  /\ UNCHANGED <<log, events, receipts, installed, projected, rows, purged, up, worker,
                 published, reply, started, diverged, faults>>

\* Wrong: the receipts of the thread's commands stay.
PurgesEventsOnly(t) ==
  /\ TakesEnvelope(Purging(t))
  /\ events' = events \ OfThread(events, t)
  /\ rows' = [p \in Projectors |-> rows[p] \ OfThread(rows[p], t)]
  /\ tombstones' = tombstones \cup {t}
  /\ retiring' = retiring \ {t}
  /\ purged' = purged \cup {t}
  /\ deletion' = [deletion EXCEPT ![t] = "deleted"]
  /\ UNCHANGED <<log, receipts, installed, projected, up, model, worker, published, reply,
                 started, diverged, faults>>

Purge(t) ==
  /\ TakesEnvelope(Purging(t))
  /\ events' = events \ OfThread(events, t)
  /\ rows' = [p \in Projectors |-> rows[p] \ OfThread(rows[p], t)]
  /\ receipts' = [c \in Commands |-> IF ThreadOf[c] = t THEN NoReceipt ELSE receipts[c]]
  /\ tombstones' = tombstones \cup {t}
  /\ retiring' = retiring \ {t}
  /\ purged' = purged \cup {t}
  /\ deletion' = [deletion EXCEPT ![t] = "deleted"]
  /\ UNCHANGED <<log, installed, projected, up, model, worker, published, reply, started,
                 diverged, faults>>

\* Either envelope may fail; the caller is told and may delete the thread again.
DeletionFails(t) ==
  /\ TakesEnvelope(Retirement(t)) \/ TakesEnvelope(Purging(t))
  /\ Fault("sql")
  /\ deletion' = [deletion EXCEPT ![t] = "none"]
  /\ UNCHANGED <<durable, up, model, retiring, worker, published, reply, started, diverged>>

-----------------------------------------------------------------------------
(* Crash and startup *)

Crash ==
  /\ up /\ Fault("crash")
  /\ up' = FALSE
  /\ queue' = <<>> /\ worker' = Idle
  /\ reply' = [d \in Dispatches |-> IF reply[d] = "waiting" THEN "lost" ELSE reply[d]]
  /\ deletion' = [t \in Deletable |-> IF deletion[t] = "deleted" THEN "deleted" ELSE "none"]
  /\ model' = EmptyModel /\ retiring' = {} /\ published' = <<>>
  /\ UNCHANGED <<durable, started, diverged>>

\* The tables the command read model and the retirement set are loaded from.
ThreadRows == CHOOSE p \in Projectors \ NewProjectors : TRUE

\* Wrong: the read model is loaded before the projectors have caught up.
LoadsBeforeProjecting ==
  /\ ~up
  /\ installed' \in {installed, Projectors}
  /\ UNCHANGED <<projected, rows>>
  /\ retiring' = {t \in tombstones : Says(rows[ThreadRows], t, "created")}
  /\ model' = [seq |-> projected[ThreadRows],
               events |-> {s \in rows[ThreadRows] : ThreadOf[log[s].cmd] \notin retiring'}]
  /\ up' = TRUE /\ started' = LastSequence /\ diverged' = FALSE
  /\ UNCHANGED <<log, events, receipts, tombstones, purged, queue, worker, published,
                 reply, deletion, faults>>

\* Every projector resumes at its cursor, then the read model is loaded. The new
\* process may be a newer version with projectors that have no cursor yet. Startup
\* fails if a projector would have to write rows of a thread with a tombstone.
Boot ==
  /\ ~up
  /\ installed' \in {installed, Projectors}
  /\ \A p \in installed', t \in tombstones : OfThread(ReadFrom(projected[p]), t) = {}
  /\ projected' = [p \in Projectors |->
                     IF p \in installed' THEN LastOf(ReadFrom(projected[p]), projected[p])
                     ELSE projected[p]]
  /\ rows' = [p \in Projectors |->
                IF p \in installed' THEN rows[p] \cup ReadFrom(projected[p]) ELSE rows[p]]
  /\ retiring' = {t \in tombstones : Says(rows'[ThreadRows], t, "created")}
  /\ model' = [seq |-> CHOOSE n \in {projected'[p] : p \in installed'} :
                          \A p \in installed' : n <= projected'[p],
               events |-> {s \in rows'[ThreadRows] : ThreadOf[log[s].cmd] \notin retiring'}]
  /\ up' = TRUE /\ started' = LastSequence /\ diverged' = FALSE
  /\ UNCHANGED <<log, events, receipts, tombstones, purged, queue, worker, published,
                 reply, deletion, faults>>

-----------------------------------------------------------------------------

ProcessCommand ==
  \/ \E d \in Dispatches : AnswerFromReceipt(d) \/ Refuse(d) \/ Admit(d)
  \/ Commit \/ CommitUncertain \/ RollBack
  \/ Finish \/ Reconcile \/ ReconcileFails \/ RecordRejection

ProcessDeletion == \E t \in Deletable : Retire(t) \/ Purge(t) \/ DeletionFails(t)

Next ==
  \/ \E d \in Dispatches : Dispatch(d)
  \/ \E t \in Deletable : BeginDelete(t) \/ RequestRetire(t) \/ RequestPurge(t)
  \/ ProcessCommand \/ ProcessDeletion
  \/ Crash \/ Boot

Spec == Init /\ [][Next]_vars

\* The worker is a fiber that nothing holds back, and so is a hard delete between
\* its envelopes; a process that died is started again.
Fairness ==
  /\ WF_vars(ProcessCommand \/ ProcessDeletion)
  /\ \A t \in Deletable : WF_vars(RequestRetire(t) \/ RequestPurge(t))
  /\ WF_vars(Boot)

FairSpec == Spec /\ Fairness

-----------------------------------------------------------------------------
(* Properties *)

Sequences == 1..LastSequence

\* Every variable has the shape the code gives it.
TypeOK ==
  /\ log \in Seq(UNION {Range(Batch(c)) : c \in Commands})
  /\ events \subseteq Sequences /\ tombstones \subseteq Threads /\ purged \subseteq Threads
  /\ receipts \in [Commands -> [status : {"none", "accepted", "rejected"},
                                seq : 0..LastSequence]]
  /\ installed \subseteq Projectors
  /\ projected \in [Projectors -> 0..LastSequence]
  /\ rows \in [Projectors -> SUBSET Sequences]
  /\ up \in BOOLEAN /\ diverged \in BOOLEAN /\ faults \in 0..MaxFaults
  /\ model.seq \in 0..LastSequence /\ model.events \subseteq Sequences
  /\ retiring \subseteq tombstones /\ started \in 0..LastSequence
  /\ queue \in Seq([kind : {"command"}, dispatch : Dispatches]
                   \cup [kind : {"retire", "purge"}, thread : Deletable])
  /\ \/ worker = Idle
     \/ worker \in [pc : {"committing", "committed"}, dispatch : Dispatches]
     \/ worker \in [pc : {"failed", "rejecting"}, dispatch : Dispatches, invariant : BOOLEAN]
  /\ published \in Seq(Sequences)
  /\ reply \in [Dispatches -> {"unsent", "waiting", "accepted", "rejected", "failed", "lost"}]
  /\ deletion \in [Deletable -> {"none", "quiesced", "retiring", "retired", "purging",
                                 "deleted"}]

\* However often a command is sent, over crashes, lost replies and commits that
\* were reported as failed, its events are appended all together and once.
CommandOnce ==
  \A c \in Commands :
    \/ AppliedIn(c) = {}
    \/ \E s \in Sequences : AppliedIn(c) = s..(s + Len(Batch(c)) - 1)

\* A message id enters a thread again only after a failed delivery that is newer than
\* every earlier time and that no successful one followed, whichever commands carry
\* it and however stale the read model they were decided on.
MessageOnce ==
  \A i, j \in Sequences :
    /\ i < j
    /\ log[j].type = "message"
    /\ i \in About(Sequences, log[j].cmd, "message")
    => \E k \in About(Sequences, log[j].cmd, "failed") :
         /\ i < k /\ k < j
         /\ \A d \in About(Sequences, log[j].cmd, "delivered") : ~(k < d /\ d < j)

\* A receipt tells what the log holds: an accepted one names the last event of its
\* command, a rejected command left no event, and an appended one is never without
\* its receipt until its thread is purged.
ReceiptsTellTheLog ==
  \A c \in Commands :
    /\ receipts[c].status = "accepted" => LastOf(AppliedIn(c), 0) = receipts[c].seq
    /\ receipts[c].status = "rejected" => AppliedIn(c) = {}
    /\ AppliedIn(c) # {} /\ ThreadOf[c] \notin purged => receipts[c].status = "accepted"

\* Whoever was told that a command was accepted finds its events appended.
AcceptedIsDurable ==
  \A d \in Dispatches : reply[d] = "accepted" => AppliedIn(d[1]) # {}

\* Between commands the read model reflects exactly the stored events of threads
\* that are not being deleted, and no stored event lies beyond its sequence, as long
\* as no reconciliation failed.
ModelFollowsLog ==
  up /\ worker = Idle /\ ~diverged =>
    /\ \A s \in events : s <= model.seq
    /\ model.events = {s \in events : ThreadOf[log[s].cmd] \notin retiring}

\* In the life of a process no event is announced twice or out of order; and between
\* commands every event appended since it started has been announced, as long as no
\* reconciliation failed.
PublishedAll ==
  /\ \A i, j \in DOMAIN published : i < j => published[i] < published[j]
  /\ up /\ worker = Idle /\ ~diverged => {s \in Sequences : s > started} \subseteq Range(published)

\* Every projector has applied every stored event once the process is up.
ProjectionsComplete ==
  up => \A p \in installed : rows[p] = events

\* Nothing of a purged thread is in the database, and nothing comes back.
PurgedStaysPurged ==
  \A t \in purged :
    /\ OfThread(events, t) = {}
    /\ \A p \in Projectors : OfThread(rows[p], t) = {}
    /\ \A c \in Commands : ThreadOf[c] = t => receipts[c] = NoReceipt

\* The engine is a serial command processor: each append is one command's whole
\* batch, permitted by the log as it stands.
SerialLog == SerialSpec

\* A dispatch that reached the queue is answered, unless the process dies first.
DispatchesSettle ==
  \A d \in Dispatches : (reply[d] = "waiting") ~> (reply[d] # "waiting")

=============================================================================
