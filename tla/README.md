# Verification of the Cafe Code provider control plane

This directory holds TLA+ models of the parts of `cafeai/cafe-code` in which the
order of concurrent steps, crashes and retries decides whether the program is
right, the TLC configurations that check them on small instances, and proofs that
the TLA+ proof system checks for every value of the constants.

`PROJECT.json` relates every definition to the source lines it models, lists the
runs with their properties, a mutant of the code for every property, the theorems
and the hazards.

## 1. The system

Cafe Code runs coding agents (Codex, Claude, OpenCode, Grok, Axiom) for a desktop
window and for browsers. Three long-lived processes matter:

- the **provider daemon** (`apps/server/src/providerDaemon`) owns the agent
  processes and survives restarts of everything else;
- the **backend** (`apps/server/src`) owns the conversation store: an event log,
  its projections and the reactors that turn commands into provider calls;
- the **desktop shell** (`apps/desktop`) starts both, and the **web client**
  (`apps/web`) shows the projections over a web socket.

| Part | State it keeps | Operations | Talks to |
|---|---|---|---|
| Event journal, `EventJournal.ts` | SQLite rows by cursor; listener set; retention countdown | publish, subscribe with a replay boundary, page replay, prune, maintenance | stream handlers (callbacks), adapters |
| Event stream handler, `ProviderDaemonServer.ts:1220` | per connection: `active`, boundary, live queue, cursor | subscribe, replay, live loop, cleanup | journal, socket |
| Backend event bridge, `RemoteProviderService.ts:822`, `providerDaemonHttp.ts:181` | event cursor, buffered lines | reconnect, read a line, accept a record | daemon, ingestion |
| Command ledger, `CommandLedger.ts` | receipts and their thread index, tombstones | `runOnce`, startup cleanup | RPC route, purge |
| Stable retry, `RemoteProviderService.ts:385` | one call's attempts | send, retry the same bytes, give up | RPC route |
| Thread purge, `ProviderDaemonThreadPurge.ts` | tombstones, receipts, journal rows of a thread | install tombstone, refuse while commands are pending, delete | ledger, journal, provider service |
| Supervisor bridge, `ProviderDaemonServer.ts:1532` | bridge cursor | publish a page to the journal, persist the cursor | journal, supervisors |
| Runtime ingestion, `ProviderRuntimeIngestion.ts` | durable cursor, per-thread message state | overlap replay, apply an event, settle messages | bridge, engine |
| Orchestration engine, `OrchestrationEngine.ts` | command queue, read model, event store, receipts | dispatch, decide, append, project, reconcile | projections, subscribers |
| Command reactor, steering | steer intents | start, steer, interrupt, recover | provider service |
| Rewind, `CheckpointReactor.ts:1005`, `ProviderService.ts:3760`, `ConversationRewinds.ts` | one reservation per thread, a private recovery ref in git, the coordinator's position | prepare, capture, restore, commit, complete, finish, abort; fence of turns and events | daemon ledger, Claude adapter, engine, ingestion, git |
| Scheduled follow-ups, `scheduledFollowups/`, `ProviderCommandReactor.ts:6640` | schedules, occurrences, the chat's controls | save, claim, submit, admit, attempt, acknowledge, reconcile, recover | engine, command reactor, provider |
| Subscriptions, web sockets | per-client queues and sequences | snapshot, stream, backpressure | engine, client |
| Web client transport and store | socket state, last sequence | reconnect, recover from a gap | backend |
| Desktop backend manager, updater | child process, restart timer, update state | start, restart with delay, stop, install | backend |

The rest (adapters, authentication, git wrappers, rendering, packaging) is listed
in `PROJECT.json` with the reason it is left out.

### What is hard, and what makes each part correct

- **Hand-off of events.** A stream must join replay of the journal to live
  notification while rows are committed, pruned and purged, with a bounded queue,
  a socket that blocks, and connections that break at any point. Correct means:
  a record is passed over only if the journal no longer holds it; records arrive
  in order; nothing that retains memory outlives its connection; everything that
  stays in the journal arrives.
- **Commands.** A mutation of an agent's conversation must happen at most once
  although its response can be lost, the same bytes are sent again while the first
  fiber may still run, the daemon may die between executing and recording, an id
  may be reused for another body, and the thread may be deleted meanwhile. Correct
  means also that what the caller is told is true: success, definite refusal or
  "unknown".
- **Hard delete.** The purge of a thread spans tombstone, runtime fence, receipts
  and journal, any step of which can fail and be repeated. Correct means that
  nothing of the thread comes back.
- **The command worker.** The engine decides on a read model in memory, appends in
  a transaction that may fail, or commit and be reported as failed, and then
  publishes; callers send the same command again, a hard delete passes through the
  same queue twice, and a new version starts on an old database. Correct means: a
  command is appended whole, once, and on a log that permits it; receipts and
  answers are true; the read model, the projections and the subscribers follow the
  log; a purged thread stays purged.
- **The transcript.** Text arrives in small pieces, is coalesced in memory and sent in
  larger commands; the cursor that says where a restart begins is written now and then,
  perhaps by two processes; a restart replays an overlap, and receipts must recognise
  what it sends again. Correct means: a message shows a beginning of what the provider
  said, in the end all of it, and cursors do not claim what was not done.
- **Rewind.** Files, provider history and transcript are three stores that no transaction
  spans, in two processes, each of which can die between any two steps, while the user goes
  on typing and the provider's events of a removed turn are still on their way. Correct
  means: the conversation takes turns only when the three agree; until then the original
  files can be had back; nothing of a removed turn returns.
- **Unattended prompts.** An occurrence of a schedule costs money and runs without anybody
  looking. The owner may stop it until it is sent, the backend may die, and the answer that
  it was sent may be lost. Correct means: it is sent at most once, never after the owner
  took it back, within the owner's limits, one at a time, and its outcome is told truly.
- **Not modelled yet**: a durable cursor beside a journal (supervisor bridge), steer intents,
  a client that must notice a gap in sequences (subscriptions), timers racing exits (desktop).

## 2. Plan

Order, most important first. The first six are written.

1. `ProviderEventStream`, `OrderedFeed`, their runs and `ProviderEventStreamProofs`.
2. `CommandLedger`, its runs and `CommandLedgerProofs`.
3. `OrchestrationEngine`, `SerialCommands`, their runs and `OrchestrationEngineProofs`.
4. `RuntimeIngestion`, its runs and `RuntimeIngestionProofs`.
5. `ConversationRewind`, `GuardedHistory`, their run, `ConversationRewindProofs` and
   `RewindHistoryProofs`. It stands on 2, 3 and 4: a call is executed at most once, a command is applied once, an event
   of the provider is ingested or replayed.
6. `ScheduledFollowups`, `OneShotGrants`, their runs and `ScheduledFollowupsProofs`, with what
   the command reactor does to a chat's session.

Left, in this order:

- `SupervisorBridge`, which has the two cursors of the ingestion between two processes, and the
  segments after a pause and aborted turns in the ingestion;
- `SteerIntents`: the ledger of steers and its recovery over restarts;
- `ThreadHardDelete`: engine, daemon purge and reactor composed, with crashes;
- `ThreadSubscription` and `ClientTransport`: gap detection and flow control;
- `BackendManager`, `UpdateMachine`, `DrainableWorker`, `KeyedCoalescingWorker`.

## 3. ProviderEventStream

One module for the journal, the handlers and the backend, because its properties
only exist across them. A record is its cursor; what it contains does not matter.

| State | Code |
|---|---|
| `rows`, `nextCursor` | the journal table and its AUTOINCREMENT key |
| `listeners`, `publisher`, `notified` | the listener `Set` and the position of the publication lane in its loop |
| `eventsSincePrune`, `prunePc`, `pruneBoundary` | the retention countdown and, for the publication lane and the startup maintenance, the query it stands at |
| `phase`, `active`, `boundary`, `queue`, `cursor` | one invocation of `handleProviderDaemonEventStream`: the await it stands at and its locals |
| `searchCursor`, `pageEnd`, `page` | the locals of `replayPageThrough` and the page being written |
| `wire`, `reader`, `eventCursor` | lines written and not accepted, the state of the reader, the cursor the next subscription starts after |
| `accepted`, `faults` | history and the fault budget |

Every await is a step boundary: `CaptureBoundary`, `Subscribed`, `ProbePage`,
`ReadPage`, `WriteReplay` and `WriteLive` are the stretches between the awaits of
one handler; `Commit`, `Notify` and `FinishPublish` those of `publish`, which calls
one listener after the other and can be interleaved with anything;
`PruneProbe` and `PruneDelete` are the two statements of a prune. `NoticeClose` is
the close hook, `BreakStream` the connection's loss, which keeps any prefix of the
buffered lines: the reader of a broken connection goes on draining them beside the
reader of the next one. `DaemonCrash` forgets everything but the committed rows.
`WriteAfterClose` is in the model because the inner live loop does not look at
`active`: after a yield it may write to a destroyed response and wait for a drain
that never comes. The models show that this handler has released its listener, so
that what is left of it is one suspended promise.

Choices a reader should know:

- a publication whose event id is already in the journal changes nothing and is a
  stuttering step; quarantined rows are rows that left the journal;
- a failed insert likewise leaves no trace, and the AUTOINCREMENT key it may have
  skipped only leaves a gap, as removal does;
- the queue's byte budget is a second limit of the same kind as its record limit;
- removal of rows is any removal: a purge takes an arbitrary set of rows.

**Runs.** `event_stream` uses two connection slots (the old and the new stream:
the code runs one bridge, but its broken reader may still drain), three records,
capacity two and every other limit one, so that pages, queue and socket fill up
after one record, retention removes the first row when the third is committed,
and every page can be emptied between its two queries; one fault. It checks the
types, `NoSilentGap` and `NoDormantListener`.
`event_stream_live` has one slot, three records and two faults. It checks
`EventuallyDelivered`, and that the model implements `OrderedFeed`: a log that
grows at its end and may lose entries, and a consumer that takes an entry only
when it has taken all older ones the log still holds. In that abstract feed an
entry that has left the log may arrive at any time, and does in the model: an old
reader's buffer can hold a record that was purged meanwhile. For any number of
slots the refinement is proved (`HandoffImplementsFeed`).

**Fairness.** The publication fiber, the prunes, a handler whose await settled and
the reader are event-loop tasks and are weakly fair. `OpenStream` is weakly fair
because `retryRemoteProviderEventStream` retries without a limit. A dead socket is
noticed on both ends because Node emits `close` for it. Publishing and faults are
not fair, and the number of faults is bounded, which stands for "connections
eventually stay up long enough".

**Proofs** (`ProviderEventStreamProofs`). For every number of connections, every
limit and every bound. The inductive invariant `IInv` is `NoSilentGap` with what
carries it along the pipeline, per connection: the queue is in journal order
(`QueueOrdered`); a record above the captured boundary is written, queued or about
to be announced (`QueueComplete`); replay has passed over nothing the journal holds
(`ReplayComplete`); what the handler has passed was accepted or is on the wire
(`StreamComplete`); and whatever is held below a record on the wire goes ahead of
it (`WireComplete`). `NoSilentGap` alone is not inductive: it says nothing of a
cursor the handler has already moved. `IInv` is preserved by removing rows, which
is why purge, retention and maintenance need no argument of their own.

## 4. CommandLedger

| State | Code |
|---|---|
| `receipt` | the command rows, by command id: the body's hash, status and the stored answer |
| `tombstones`, `purged` | retired threads, and those whose purge transaction committed |
| `pc`, `envelope` of an attempt | the fiber that serves one HTTP request in `runOnce` and the answer it holds |
| `call`, `result` | the backend's side: a call, its attempts, what its caller was told |
| `started`, `applied`, `claimed` | history: which attempts entered the executor and changed the provider |

An attempt is a pair of a call and a number; `Calls`, `Ids`, `Bodies`, `Threads`
and the functions between them are constants, so that an id can be shared by two
bodies and a body can touch two threads. The steps of `runOnce` are its SQL
statements; the triggers of migration 071 are guards of `InsertReceipt` and
`StoreOutcome`. A quiesce is a command like others whose execution is fence,
tombstone and purge, each its own step. `Restart` is the daemon's crash and startup
cleanup; `ResponseLost` a reset after which `Retry` sends the same bytes while the
first fiber goes on.

**Runs.** `command_ledger`: a rewind phase with its retry, a fork that uses the same
command id for another body touching two threads, and the hard delete of their
thread, with one fault (a reset, a crash or a failed statement). One fault is
enough for a second attempt and for every pair of an attempt and a crash point; the run
also checks that every call ends (`CallsSettle`).
`command_ledger_refusals` checks what the comment at `RemoteProviderService.ts:430`
says of every tag in the list below it, and finds it violated: see Findings.

**Fairness.** A request's fiber, the backend's response handling and its retry are
weakly fair: both run to an answer or an error in the code. Faults are bounded.

**Proofs** (`CommandLedgerProofs`). `LedgerInv` is inductive: `TypeOK`; the fiber and
call histories; that a purged thread is tombstoned; and `Covered`, the central
one: while an executed attempt's thread is not retired, the receipt of its id is
there, so a second insert conflicts. From it `ExecutedAtMostOnce` and
`NoReceiptAfterPurge`. The three theorems about answers assume `StableIds`: an id is
used by one body only. The code makes ids from random UUIDs or from the rewind's
stable id and phase, so this holds of the program; without it an unbound method can
be told the outcome of another body, which `SuccessIsCertified` in the run's
instance allows only for methods the code does not bind.

## 5. OrchestrationEngine

`SerialCommands` is the engine as its callers see it: one log, to which a command
adds its whole batch at once, at most once, and only if the log so far permits it.
`OrchestrationEngine` extends it, so that what a command needs (`Permits`,
`MessageUsed`) and appends (`Batch`) is written once; the abstract specification
applies both to the whole log, the engine `Permits` to its read model.

| State | Code |
|---|---|
| `log`, `events` | every event ever appended, and the rows of `orchestration_events` that are left |
| `receipts`, `tombstones` | `orchestration_command_receipts`, `hard_deleted_threads` |
| `installed`, `projected`, `rows` | the projectors of the running version, their `last_applied_sequence`, and the events their tables reflect |
| `model` | `commandReadModel`: its `snapshotSequence` and the events it reflects |
| `retiring`, `queue`, `worker` | `hardDeleteRetiringThreadIds`, `commandQueue`, the await `processEnvelope` stands at |
| `published` | what `eventPubSub` carried in this process |
| `reply`, `deletion` | the deferred of each dispatch; where a hard delete stands between its envelopes |
| `started`, `purged`, `diverged` | history: the sequence at startup, the threads purged, a reconciliation that failed |

The worker takes one envelope at a time, so its steps are the awaits of
`processEnvelope`: `AnswerFromReceipt`, `Refuse` and `Admit` are the way from the
queue to the transaction, `Commit` the transaction, `Finish` what follows it, and
`Reconcile` and `RecordRejection` the failure path in its two durable steps.
`Retire` and `Purge` are the two envelopes of a hard delete, with the work of other
services (`BeginDelete`, `RequestPurge`) between them.

Choices a reader should know:

- What a command asks for is reduced to five kinds: those that need a thread not to
  exist, to exist, and to exist and not be archived; a turn start, which also needs
  its message not to be bound; and the server's records that a delivery failed (which
  frees the message) or succeeded (which binds it again).
- An event is its sequence number. The table's key is AUTOINCREMENT, deletions do not
  return numbers, and a rolled back transaction does.
- A transaction can fail before it commits (`RollBack`), because of a fault or of a
  tombstone's trigger, or commit and be reported as failed (`CommitUncertain`), the
  case the code's reconciliation is written for.
- `Boot` is one step: nothing else runs before it ends. It is disabled when a
  projector that lags would write rows of a thread with a tombstone whose purge is not
  done: the triggers abort that, and the process does not start.
- The daemon, when it shares the database, may install a tombstone before the engine
  has heard of the deletion; `BeginDelete` allows both.
- The read model leaves out a retired thread, as `processEnvelope` does, and a failed
  reconciliation leaves it behind until the next one or the next command: the
  properties that compare it with the log say so with `diverged`.

**Runs.** All commands are about one thread and one message, which is what makes them
depend on each other. `ReadLimit` stands for the default limit of 1000 events of
`readFromSequence`.
`engine` has a creation, two turn starts, an archiving, one of them sent twice,
a hard delete, and two faults of any kind; two faults give a failed commit followed by
a failed reconciliation or a crash.
`engine_serial` has two turn starts and the two delivery records of one message, a
hard delete, one fault, and a newer version that starts with a projector the older
one did not have, on a log that one read returns whole. It checks that the engine
implements `SerialCommands` except where a reconciliation has failed: with one, a
command may be decided on a read model that lags; that a message is not bound twice
even then, since that test reads the store and not the model; and that every
projector has seen the whole log when the server takes commands.
`engine_replay_limit` starts the newer version on a log that is longer than one read,
and finds `ProjectionsComplete` violated: see Findings.
`engine` also checks that every dispatch is answered unless the process dies
(`DispatchesSettle`).
Deadlock is not checked: when all commands have been sent the engine rests.

**Fairness.** The worker is one fiber that loops over the queue and every step of it is
an effect that returns; the steps of a deletion between its envelopes likewise. A dead
backend is started again by the desktop shell (`Boot`). Callers and faults are not fair.

**Proofs** (`OrchestrationEngineProofs`). `EngineInv` is inductive. `ReceiptHistory`
relates receipts to the log; alone it is not preserved, since between admission and
commit nothing but the worker knows that the command has no receipt (`WorkerHistory`),
and between purge and the next command nothing but the tombstone keeps the thread's
commands, whose receipts are gone, from being appended again (`Fenced`, and the
trigger, which is a guard of `Persist`). Assumed are only `CommandsAssumption` and
`EngineAssumption`: the constants have their types. Six results more stand on it:

- `MessageInv` adds what `MessageOnce` rests on. The worker found its message free in the
  rows that are left (`FoundFree`), which says something of the whole log because only a
  purge removes rows, and then all those of a thread (`Kept`).
- `Caught`: every projector is at the end of the log. A transaction moves them together,
  and a start finds them there, as long as no version adds a projector
  (`NewProjectors = {}`).
- `ModelInv` relates the read model to the store. Between commands the model is the stored
  events of the threads that are not being retired, up to its sequence, which is the end
  of the log; between commit and `Finish`, or a failed commit and `Reconcile`, what it
  misses is exactly one batch (`TailOf`), that of a command whose thread is not being
  retired (`Attended`); a purge finds its thread out of the model (`Leaving`). It needs
  `Unlimited`: no new projector, and a read of at least two events, the longest batch.
- `ShapeInv` gives `TypeOK`: sequence numbers are positions in the log, and what has been
  announced is in order and not newer than the read model (`Announced`), so that the batch
  which a commit or a reconciliation announces next is later than all of it. It needs no
  assumption, and gives the order half of `PublishedAll` too (`EventsGoOutInOrder`).
- `Heard` gives the other half, that no event of this process is left out, commits that were
  reported as failed included: what is not newer than the read model has been announced. A
  reconciliation must then read all that the model misses, which needs `ModelInv` and so
  `Unlimited` (`EverythingIsPublished`).
- `Decided` adds that what the model permitted at admission it still permits at commit, so
  that every commit is a step of `SerialCommands`. It needs reconciliations not to fail.

The assumptions are not an artefact of the proof. Startup takes the lowest cursor of the
projectors for the sequence of the read model, so that a new projector whose replay stopped
at the limit leaves a sequence behind the log, from which a reconciliation then reads too
little: the finding of `engine_replay_limit` reaches the read model too. `engine` satisfies
`Unlimited`; `engine_serial` checks what the theorems leave out, a new projector on a log
that one read returns whole.

## 6. RuntimeIngestion

One module for the assistant text of one turn, from the journal to the projected
messages. The engine below it is reduced to what `OrchestrationEngine` promises: a
command id is applied once. The feed above it is what `OrderedFeed` promises: events in
order from where a subscription starts, with redelivery after a broken connection.

| State | Code |
|---|---|
| `journal` | what the provider says in the turn, stored by the daemon at the latest when a backend is given it; an event is its cursor, and its cursor is the piece of text it carries |
| `streaming` | the setting `enableAssistantStreaming` |
| `messages`, `settled`, `receipts` | the projected messages, the terminal turn, the engine's receipts |
| `durable` | the row of `projection_state` with the ingestion cursor |
| `up`, `start`, `next` | a backend process and its position in the stream |
| `worker` | the event in `processRuntimeEvent`, the steps left to do for it, and the `loadedThreadDetail` of that call |
| `buffer`, `begun`, `observed` | `bufferedAssistantTextByMessageId`, `streamedAssistantMessageIds`, the commitments in `assistantStreamCommitmentsByMessageId` |
| `active`, `remembered` | the open segment and `turnMessageIdsByTurnKey` |
| `processed`, `cursor`, `persisted` | `processedRuntimeEventIds`, the recorded (and pending) cursor, `lastPersistedProviderDaemonCursor` |
| `torn`, `faults` | history: an event has failed, or a process has begun inside an unfinished message; the fault budget |

`Take` starts an event and writes down, with `Plan`, what `processRuntimeEvent` will do
for it; each step of the plan is one await (a read of the thread, a dispatch) and an
action, so that a crash, a failure or the other backend can come between any two of them.
`Finish` marks the event processed and records its cursor. `Checkpoint` may happen
between events whenever there is progress, which covers both the count and the work-turn
rule of the code. A `Crash` may force the cursor out first, as the finalizer does.

Choices a reader should know:

- A text is the sequence of the events that carried its pieces, so that a missing, a
  doubled and a misplaced piece can be told apart. The commitment, a hash of the text, is
  the text; `BufferLimit` stands for both limits of the coalescer, and `ends` for a piece
  that closes a line or sentence. Pieces consist of more than white space.
- `Boot` reads the cursor and asks for the daemon's health in one step. When no session
  is alive the stream begins at the saved cursor without an overlap; what the turn still
  holds was then said while no backend was there.
- A turn has one channel and no pauses, so that an item is one segment. A reconnect
  delivers again what was processed, not an event that failed: that could open a second
  segment. The duplicate-snapshot rule of Codex backfills, changes of the setting in a
  turn and eviction from the caches are left out.
- Three properties hold only unless the text is `torn`: they say what the design
  promises when no event fails and no process begins inside a message. The torn cases
  are those of `NothingTakenBack`, which holds in all of them, and of the Findings.

**Runs.** The scripts (`MCRuntimeIngestion`) are the turns that take different ways
through the code: text in lines, two messages that alternate, no item events, item events
without text, with the same text and with more, a message said at once, an abort.
`ingestion` lets two backends overlap over all of them, with an overlap of three events
that begins sometimes before, sometimes inside a message, and one of a crash, a failed
event or a redelivery; one crash gives three lives of a process over one journal. A
coalescer of one piece is full at the second one. `ingestion_window` finds a violation,
with one crash of one backend and streaming switched on (`StreamedSpec`), and is described under
Findings.
Deadlock is not checked: a finished turn rests. Liveness is not stated here: the worker
is a fiber over finite plans, and what it is given is `EventuallyDelivered`.

**What is assumed of a turn.** `TurnAssumption`: a script is `Orderly`. Its end comes last,
since a terminal notification closes the turn's stream; an item is completed once and says
nothing afterwards (`completionEmitted` in `ClaudeAdapter.ts:5258`, and `assistantTextBlocks`
forgets the block); and an item that another one's text interrupted and that then went on is
not completed with more text than it streamed, which no adapter does, as the blocks of a
message are streamed one after the other. TLC shows what happens otherwise: of the turn
"delta m1, delta m2, delta m1, item m1 with more" the first piece of `m1` is closed by `m2`,
the commitment starts anew, and the text of the item does not begin with what it has observed,
so that its last piece is lost.

**Proofs** (`RuntimeIngestionProofs`). For any number of backends, any orderly turns, any
limit of the coalescer, overlap and number of faults:

- `CursorMonotone`, from `CursorInv`: every cursor is a position in the journal, and no
  process takes more for saved than is saved.
- `NothingTakenBack`, from `Pieces`, whatever fails and wherever a process begins. What could
  take text back is a completion, which replaces it. `MessagesOK` and `MemoryOK`: a message, a
  coalescer and a commitment hold only pieces of the item's own text (`All`); `WorkOK`: a
  worker does for its event only what the event asks for (`Asked`), and so completes a message
  with other text only at its own item event. What that text is, is `Said`, which
  has every piece by then, because an item is completed once and says nothing afterwards.
  `DeltaGrows` and `CompletedGrows` are the two ways a message changes.
- `TranscriptIsPrefix`, `WholeAtRest` and `CursorIsProgress`, from `Transcript`, of turns that
  are not torn. What makes replays harmless is that a process which replays an event computes
  the same piece of text for it as the process that sent it first, so that the receipt of the
  one stands for the other's; this the invariant has to say of processes that started at
  different events, at every await of every event. It does so by what the journal alone
  determines: `St`, what the stream of an item has shown after an event; `Schedule`, the
  events whose text goes out at once or overflows the coalescer; `Pd`, what is coalesced by
  then. `ScheduleExists` shows that every turn has such a schedule.
  - `Told` is what the store tells. A receipt belongs to a command its event needs
    (`Legit`); it comes after those of all earlier events (`Prior`); a message shows exactly
    the pieces that some receipt stands for (`TextsTold`, `Covered`); a settled turn has all
    its receipts; and the saved cursor covers only events that have theirs (`Passed`).
  - `Following(b)` is where a backend stands: what lies before it is out, whoever sent it
    (`Positioned`), and its memory is what the journal gives for its position, between events
    (`Resting`) and after each step of a plan (`InDelta`, `InItem`, `InCompleted`,
    `InAborted`). The last reads what a backend has done and has yet to do, since a worker
    forgets text before it dispatches it: either it is still held or it has its receipt.
  - A process starts either with nothing open, or inside an item and then the turn is torn
    (`OutsideItems`, `Begins`). A step of one backend keeps what the others need because
    receipts only grow (`Monotone`, `FollowingKept`).
  - `CoveredIs` then gives the prefix: what is covered has no gaps. `RestIsWhole` and
    `CursorFollows` give the other two: what is needed up to a position has its receipts, and
    what has no receipt is still in the coalescer.

  Nothing is assumed but `IngestionAssumption` and `TurnAssumption`.

## 7. ConversationRewind

One conversation of a provider whose rewinds are prepared (Claude), and several requested
rewinds of it. Turns are numbered as they start and a history is a sequence of them, so that
files, provider history and transcript can be compared.

| State | Code |
|---|---|
| `controls` | the thread's latest explicit control (migration 077) |
| `row` | `provider_conversation_rewinds`: phase, operation, runtime, expected control, candidate |
| `binding` | `provider_session_runtime`: the live runtime id and the history behind the resume cursor |
| `projected`, `shown`, `applied`, `completed` | the projected turns, the turns anything is shown of, the receipts of ingested events, the rewinds recorded in the log |
| `files`, `recovery` | the history the workspace is at, and the one under the private recovery ref |
| `session`, `emitted`, `call` | the daemon's live query, its events before the fence, each rewind's call |
| `pc`, `expected`, `counted` | where `handleRevertRequested` stands, and its locals |
| `prompts`, `journal`, `received`, `handled`, `ingesting` | a prompt not delivered yet; the events published, in order; how many of them the backend received, how many its worker took, and the one it is at |
| `discarded`, `late`, `faults`, `turns`, `runtimes` | history and bounds |

`handleRevertRequested` is cut at its awaits: `Begin` (prepare), `Prepared`, `Drained` or
`DrainTimesOut`, `Capture`, `Restore`, `Committed`, `Complete`, `Finished`, `CleanUp`, and on
the failing side `RestoreFails`, `CommitRefusedSeen`, `Compensate`, `CompensateFails`,
`Aborted`, `GivesUp`. The daemon's side of a call is cut likewise: `Reserve`, `Retire`,
`MarkPrepared`, `Commit`, `Finish`, with the refusals and failures of each; while a call is
between two of these it holds the thread's lifecycle lock (`Locked`), and turns and events
wait. `Admission` is `classifyEvent`, applied when the daemon publishes an event and again
when the backend's worker takes it. Events keep their order (section 3); a backend that starts
again takes them from any earlier position, which covers the overlap of a replay.
`DaemonCrash` and `BackendCrash` may come anywhere, and so may the loss of an answer
(`LoseAnswer`), before or after the call was executed.

Choices a reader should know:

- The daemon's ledger executes a call at most once however often it is sent (section 4), so a
  call is sent once here and its answer arrives or does not.
- The refusals of `prepareRollbackThread` that depend on the provider's transcript, its process
  tree or its settings are one free choice (`RefusePreparing`).
- A failed restore or compensation leaves the workspace at the old history, at the target, or
  at neither (`Mixed`). Deleting the recovery ref may fail and is ignored, as in the code.
- The daemon does not crash while a turn runs: what startup does with such a turn is the
  recovery of the command reactor, which is not modelled here.
- A rewind whose answer is lost leaves its reservation, and nothing in the code resolves it
  later: the conversation refuses prompts from then on. The code means this ("fails closed"),
  so that no liveness is claimed of the conversation itself.
- Left out: the single call that rewinds the other providers, which has no phases and no
  fence; the capture of checkpoints; hard delete during a rewind; edits of the workspace by
  others; two backends.

**Run.** `rewind` has a conversation of two turns that may get a third, one rewind to the
first turn and one to the beginning, three controls, one event that a background task sends
late, and one failure, lost answer or crash. Two rewinds are needed for the second to meet
what the first left (a recovery ref, a reservation, an older runtime); a late event for the
fences; a third control for the prompt that supersedes a rewind; one fault already reaches
every pair of a step and a failure of it. `OriginalKept`, `TranscriptFollows`,
`NothingResurrected` and `QueryOnCursor` are safety. `RefinesHistory`: the
model implements `GuardedHistory`, in which a conversation is closed, its files go anywhere,
its history is cut only to where the files are, and it is opened only when both agree.
`RequestsSettle`: a request is done, fails, or is lost with its process. Deadlock is not
checked: a conversation rests.

**Fairness.** The reactor's fiber, a call that the daemon has received, and the event the
ingestion worker is at are weakly fair; each of them waits only with a timeout. Users, the
provider and faults are not.

**Proofs.** The five safety properties, the refinement among them, for all sets of requests,
targets and bounds. Three layers of one inductive invariant, the last two in one module:

- `ConversationRewindProofs`, `QueryOnCursor`. `LockInv`: the lifecycle lock has one holder, and
  the row is that holder's and "preparing" as long as it is held; a retired or prepared
  conversation has no query, which is why moving the cursor in `Commit` cannot leave a query
  behind on the old history. `Protocol`: the answer a request reads tells the row's phase, and
  no older request acts on a newer one's row. `Runtimes`: the fence never opens again for a
  runtime it has closed.
- `RewindHistoryProofs`, `TranscriptFollows` and `NothingResurrected`. `Pipe`: the ends of turns
  arrive in order, and one that may still be applied is in the provider's history and newer
  than the transcript. `Quiescent`: once the files are moved no event is under way. `Counts`: a
  preparation that may be granted counted no turn that is not projected, so that the
  transcript is the provider's history once the daemon finds as many turns as were counted;
  the step from equal length to equality is the lemma `SameHistory` (as many turns, each of
  them in the other, both increasing). `Follows` then
  says where the transcript stands in each phase, and `Discards` that what was said in a
  removed turn belongs to a runtime the fence has closed.
- The end of `RewindHistoryProofs`, `OriginalKept` and `RefinesHistory`. `Files` says in each phase where the
  workspace and the recovery ref may be. The mapping of steps: `FinishTurn` is `Turn`, `Reserve`
  closes, `Restore` and `Compensate`, failed or not, touch, `Commit` cuts, an abort, a refusal or `Finish`
  opens, and every other step stutters.

`RequestsSettle` stays with TLC.

## 8. ScheduledFollowups

One chat with its schedules, from the owner's approval to the provider's turn.

| State | Code |
|---|---|
| `schedules` | `scheduled_followups`: state, revision, `next_run_at`, `run_count` |
| `runs` | `scheduled_followup_runs`, with the receipt of its command and the turn row that holds its message |
| `controls` | the chat's latest explicit control |
| `session`, `pending` | the projected session and the pending turn start |
| `tick`, `queue`, `reactor`, `prompts` | where the scheduler and the command reactor's worker stand, its queue, and the owner's prompts that fibers of their own are sending |
| `native` | the provider's turn, and how much of it the backend has ingested |
| `backend`, `sent`, `disturbances` | up, down or starting; history and the bound |

The scheduler runs one request or one tick at a time, but its dispatch is an await in which
the engine, the reactor, the provider and the owner's commands go on: `Submit` saves the
exact command, `Admit` is the engine's transaction, `Rejected` what the scheduler does with
a refusal, `Reconcile` the sweep over admitted occurrences. `Begin`, `Prepare`, `Send`,
`SendFailed` and `Acknowledge` are `processScheduledFollowUpStart` at its awaits. `Prompt`,
`Steer`, `Interrupt` and `Stop` are the owner's controls, with the effect of the database
triggers in the same step, and `Started`, `PromptSent`, `Steered`, `SteerSent`,
`Interrupted`, `Stopped` what the worker makes of them. `TurnStarted` and `TurnCompleted`
are the ingestion of the provider's events. `Crash`, `Boot` and `Recover` are the backend's
death and start; the provider outlives it.

Choices a reader should know:

- A schedule is "active", "off" (waits for approval, review or resumption, or is complete) or
  "deleted"; a run that failed, was interrupted or ended in an error is "failed".
- There is no clock. A date is reached whenever it suits; an end date and the five minutes
  after which an attempt counts as unknown are free choices.
- What makes a chat unfit (settings, permissions, a provider that is gone) is a refusal that
  is always possible, so that it is not state. So is the answer that the chat is busy, which an
  open approval, a question or the row of the latest turn may give as well; `Busy` is what
  certainly gives it. That a running session whose turn's row is closed counts as idle needs
  no case: the events that close the row set the session in the same command, and the model
  has no such session.
- `NextDates`: a schedule may be at its end date after any occurrence, and a single date that
  the owner's "run now" comes before stays.
- Disturbances are an edit of a schedule, a control of the owner and a crash, each at most
  once and `MaxDisturbances` in all. A single one of each is enough to come between any two
  steps; several edits in a row differ from one only in the revision.
- Left out: two backends, turns that the provider starts itself, the redelivery of steers at
  startup, start-up reads that fail, notifications and the parsing of reports, an edit that
  changes a limit. With such edits `LimitKept` would be about the limit at the time of each
  attempt, which the same transaction reads (`authorization.ts:156`).

**Runs.** `followups` has a recurring schedule that allows one attempt and a single date that
allows two, two occurrences and two disturbances; so the limit is reached, two schedules
compete for the chat, and an edit meets a crash. It checks the types, `OneAdmitted`,
`LimitKept`, `OutcomesAreFinal`, `RefinesGrants` and `AdmittedIsSettled`.
`OneShotGrants`, which the model implements, is what the owner is promised: an occurrence is
a permission that is granted once, can be taken back until it is spent, and pays for one
submission. `followups_unacknowledged` checks what the documentation says of a lost
acknowledgement and finds it violated: see Findings. Deadlock is not checked: when all
occurrences are claimed the chat rests.

**Fairness.** The reactor's worker is one fiber over its queue, a backend that died is started
again by the desktop shell and runs its startup, and the engine answers the scheduler: weak
fairness. `Reconcile` is strongly fair because each tick, 15 seconds after the last, looks at
every admitted occurrence before it submits another one, while the scheduler's lock lets the
step be disabled in between. The owner, the provider and the end of a turn are not fair.

**Proofs** (`ScheduledFollowupsProofs`). All five safety properties of the run, for every set
of schedules, every limit and every bound. `RowsInv` is inductive: types; one admitted
occurrence; `run_count` is the number of attempts, and within the limit; and what relates an
admitted occurrence to its intent, its attempt and the steps of tick and worker that hold it.
The step lemma `StepKinds` keeps the proof short: every step but four is *tame*, that is, rows
only move on, and a schedule becomes active only at a new revision, and so can revoke
permissions but not make or spend one. The four are the claim, the admission, the attempt
and the hand-over, and the refinement treats each of them on its own. Assumed are
`SchedulesAssumption` and `BoundsAssumption`: constants have their types and limits are positive.

## 9. Findings

**A refusal that is not definitive.** `DEFINITIVE_REWIND_REFUSALS` contains
`ProviderDaemonThreadRetired`, and its comment says that such a refusal was made before
the mutation boundary. It was, for the attempt that got it; the previous attempt of the
same phase may have been applied with its response lost, and `runOnce` looks at
tombstones before it looks at the receipt. The caller then treats an applied phase as
rejected. The thread is being deleted at that point, which limits the effect.

**Bootstrap stops after 1000 events.** At startup `bootstrapProjector`
(`ProjectionPipeline.ts`) reads the events after its projector's cursor
with `readFromSequence` and no limit, which returns at most 1000 events. A projector
that is new, or more than 1000 events behind, is left behind without an error, while
`ProjectionPipeline.test.ts` expects bootstrap to apply all of them. Live projection then
moves its cursor to the end of the log, and the events between are never applied. Until
then the lagging cursor is also the `snapshotSequence` of the read model, so that the
first failing command publishes up to 1000 old events again.

**A piece of text twice.** (`ingestion_window`, with streaming switched on) A delta's command
id names the event at which the coalescer flushed, and a new process flushes the first delta
it sees of a message at once. In the run the first process sends piece 1, coalesces 2 and 3,
writes both as the tail of the item event, and dies with the cursor at 3. Its successor is given
event 3 first, takes it for the first of the message, and dispatches it under the id of event 3,
which has no receipt: the message shows 1, 2, 3, 3. The completion cannot repair it,
because the stream the new process observed does not begin the item's text. The replayed
1000 events are those of all threads, so a message need not be long for this.

With streaming switched off (not part of the run) it takes a message that was longer than
the coalescer holds, 24000 characters: what went out when it was full, and is replayed, is
coalesced anew and appended by the item's tail. With either setting, text that was only
in memory and lies before the overlap is lost: with streaming off a whole message up to that
limit, with streaming on what was said since the last flush (a line, a sentence or 48 characters).

**An occurrence that is never settled.** (`followups_unacknowledged`) When the provider takes
a scheduled prompt and the acknowledgement is lost, the failure path of
`processScheduledFollowUpStart` releases the chat, and with it goes the pending turn start.
That row alone ties the turn which the provider then announces to the occurrence's message, so
the reconciliation, which looks a turn up by its message, does not find it. The turn ends, the
occurrence stays "unknown" for ever, its schedule can neither be resumed nor saved, and the
other schedules of the chat find it busy.

Met while modelling, without a run:

- `processInputSafely` turns a failed event into a warning, and the next event's cursor
  covers it, while the comment there says that the cursor never outruns the conversation.
  `CursorIsProgress` says so of turns in which no event failed.
- The replay is skipped when no session is alive (`RemoteProviderService.ts:760`). A session
  that ended while the backend was down is not alive, and its coalesced text below the saved
  cursor is lost when the item carries no text, as with the Grok and Axiom adapters.
- A crash after a scheduled occurrence was admitted and before its attempt: startup may set
  the session ready and so delete the pending turn start of the occurrence that the same
  startup then resumes. Its turn cannot be found by its message either.
- An owner who edits or pauses a schedule between the admission of an occurrence and the
  reactor's look at it leaves the chat "starting": the early return at
  `ProviderCommandReactor.ts:6698` does not release the session, whereas the later refusals do.
- A steer that becomes the next turn sets the session ready before its message is sent
  (`ProviderCommandReactor.ts:4690`); a scheduled occurrence may be admitted in between and
  its pending start is then bound to the owner's turn.
- An edit while an attempt is in flight, followed by a lost acknowledgement, leaves an unknown
  occurrence beside a schedule that is active at its new revision, whereas `save` refuses to
  enable a schedule that has one.

## 10. What rests on what

- Proved for all constants: the theorems listed in `PROJECT.json`. They cover the safety
  properties of the hand-off, the command ledger, the rewind and the follow-ups, with the
  refinements of `OrderedFeed`, `GuardedHistory` and `OneShotGrants`; of the engine all,
  four of them under assumptions that section 5 gives, the refinement of
  `SerialCommands` among these; and of the ingestion all, for orderly turns.
- How inductions are done: the library's induction theorems take an operator, which the
  installed provers cannot instantiate. `EnumerationProofs` proves the least-number principle
  for sets of numbers from the well-foundedness of `<` instead (`LeastNumber`, `Induction`), and with it
  what listing a set in order (`Enumeration!InOrder`) gives: `InOrderIs`, `InOrderUnion`.
  What the engine announces and what the ingestion takes for an item's text are such lists.
- Model-checked only: liveness (`EventuallyDelivered`, `CallsSettle`, `DispatchesSettle`,
  `RequestsSettle`, `AdmittedIsSettled`): temporal reasoning under fairness is beyond the
  prover. Every safety invariant that a passing run checks is the subject of a theorem.
- Bounds: `MaxCursor` (records published), `MaxFaults`, `MaxTurns`, `MaxControls`, `MaxLate`,
  `MaxRuns`, `MaxDisturbances`; two attempts per ledger call, which is the code's own limit,
  and two dispatches per engine command. The theorems hold for every value of the named ones.
- Constants carry named assumptions (`LimitsAssumption`, `CommandsAssumption`,
  `EngineAssumption` and the like), which TLC evaluates in the runs.

**Not modelled.** `components` in `PROJECT.json` gives the reason for every part. By lines
most of the repository is of four kinds: generated protocol schemas; adapters that translate
the wire formats of five vendors; the web client's components and styling; and services that
forward a request to git, the file system or a desktop API. They have little state that
outlives a call and few orders of steps to get wrong, so that the share of the lines which
the models cover is small by design. What is left to model of the stateful rest is the plan's
second list.

## 11. Running

    tlc -workers 2 -config MCProviderEventStream.cfg MCProviderEventStream
    tlc -workers 2 -config MCCommandLedger.cfg MCCommandLedger
    tlc -workers 2 -config MCOrchestrationEngine.cfg MCOrchestrationEngine
    tlc -workers 2 -config MCRuntimeIngestion.cfg MCRuntimeIngestion
    tlc -workers 2 -config MCConversationRewind.cfg MCConversationRewind
    tlc -workers 2 -config MCScheduledFollowups.cfg MCScheduledFollowups
    tlapm CommandLedgerProofs.tla
    tlapm ProviderEventStreamProofs.tla
    tlapm OrchestrationEngineProofs.tla
    tlapm RuntimeIngestionProofs.tla
    tlapm ConversationRewindProofs.tla
    tlapm RewindHistoryProofs.tla
    tlapm EnumerationProofs.tla
    tlapm ScheduledFollowupsProofs.tla
