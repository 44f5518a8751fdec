-------------------------- MODULE ScheduledFollowups --------------------------
(***************************************************************************)
(* Scheduled follow-ups: prompts that the owner of a chat approves once    *)
(* and that the backend submits, unattended, when they come due.  Four     *)
(* actors work on the rows of one SQLite database:                         *)
(*                                                                         *)
(*   the owner, who saves, pauses, resumes, deletes and runs schedules,    *)
(*     and who writes to, stops and interrupts the chat;                   *)
(*   the scheduler's tick (scheduledFollowups/service.ts), which claims    *)
(*     due occurrences, submits them as commands and settles them;         *)
(*   the orchestration engine, which admits the command and the occurrence *)
(*     in one transaction (scheduledFollowups/authorization.ts);           *)
(*   the command reactor (ProviderCommandReactor.ts), which prepares the   *)
(*     provider, spends the occurrence in a second transaction and sends.  *)
(*                                                                         *)
(* One chat with several schedules, one backend that crashes and restarts  *)
(* beside a provider that outlives it.  Occurrences are numbered in the    *)
(* order they are claimed.  What makes a chat unfit for a run (archived,   *)
(* other account or permissions, provider gone, an approval pending), and  *)
(* what the clock says of a schedule's dates, is a choice wherever the     *)
(* code looks.  A schedule that is not active, because it waits for the    *)
(* owner's approval, review or resumption or is complete, is "off".        *)
(***************************************************************************)
EXTENDS Integers, Sequences, FiniteSets, SequencesExt

CONSTANTS Schedules,
          Recurring,   \* those that are not for a single date
          Limit,       \* the number of attempted runs each allows
          MaxRuns,     \* bounds the occurrences claimed
          MaxDisturbances \* bounds the disturbances: an edit of a schedule, a control of
                          \* the owner in the chat, a crash; at most one of each

Runs == 1..MaxRuns
Human == 0     \* the author of a turn that is no occurrence
Nobody == -1

ASSUME SchedulesAssumption ==
  Recurring \subseteq Schedules /\ Limit \in [Schedules -> Nat \ {0}]
ASSUME BoundsAssumption ==
  MaxRuns \in Nat /\ MaxDisturbances \in Nat

VARIABLES
  schedules,  \* scheduled_followups
  runs,       \* scheduled_followup_runs, with the receipt of each one's command
  controls,   \* sequence of the chat's latest explicit control
  session,    \* projected session: "idle" stands for ready, interrupted, error, stopped
  pending,    \* whose message the pending turn start holds
  tick,       \* the occurrence the tick is submitting, and how far
  queue,      \* intents waiting in the reactor's worker
  reactor,    \* the occurrence the worker is at, and how far
  prompts,    \* intents of the owner's prompts that fibers of their own are sending
  native,     \* the provider's turn
  backend,    \* "up", "down" or "starting"
  sent,       \* occurrences the provider took
  disturbances

rows == <<schedules, runs, controls, session, pending>>
memory == <<tick, queue, reactor, prompts>>
vars == <<rows, memory, native, backend, sent, disturbances>>

Final == {"completed", "failed", "skipped"}   \* failed, or interrupted
Admitted == {"dispatching", "running", "unknown"}
Unfinished == Admitted \cup {"waiting"}
Outcomes == {"completed", "failed"}

NoRun == [schedule |-> "none", revision |-> 0, state |-> "none", attempted |-> FALSE,
          intent |-> 0, receipt |-> "none", turn |-> "none"]
NoTurn == [of |-> Nobody, row |-> Nobody, stage |-> "none", live |-> FALSE]
Turn(of) == [of |-> of, row |-> Nobody, stage |-> "started", live |-> TRUE]
Idle == [at |-> "idle", run |-> Nobody]

Init ==
  /\ schedules = [s \in Schedules |->
       [state |-> "active", revision |-> 1, next |-> "date", count |-> 0]]
  /\ runs = [r \in Runs |-> NoRun] /\ controls = 0
  /\ session = "idle" /\ pending = Nobody
  /\ tick = Idle /\ queue = <<>> /\ reactor = Idle /\ prompts = {}
  /\ native = NoTurn /\ backend = "up" /\ sent = {} /\ disturbances = {}

Of(s) == {r \in Runs : runs[r].state # "none" /\ runs[r].schedule = s}
ScheduleOf(r) == schedules[runs[r].schedule]
HasUnfinished(s) == \E r \in Of(s) : runs[r].state \in Unfinished

\* Wrong: one attempt too many.
ExhaustedLate(s) == schedules[s].count > Limit[s]

Exhausted(s) == schedules[s].count >= Limit[s]

\* The occurrence's permission stands: its schedule is active at the revision it was
\* minted for.
Stands(r) == ScheduleOf(r).state = "active" /\ ScheduleOf(r).revision = runs[r].revision

\* The scheduler's service runs one request or one tick at a time (its mutex).
ServiceFree == backend = "up" /\ tick = Idle

-----------------------------------------------------------------------------
(* The owner's requests *)

\* invalidateUnattempted, and the same statement in trg_scheduled_followups_stop.
Invalidated(rs) ==
  [r \in Runs |->
    IF r \in rs /\ runs[r].state \in {"waiting", "dispatching"} /\ ~runs[r].attempted
    THEN [runs[r] EXCEPT !.state = "skipped"] ELSE runs[r]]

\* An update of one row, or of one schedule.
Moved(r, state) == [runs EXCEPT ![r] = [@ EXCEPT !.state = state]]
Received(r, receipt) == [runs EXCEPT ![r] = [@ EXCEPT !.receipt = receipt]]
Changed(s, state, next) == [schedules EXCEPT ![s] = [@ EXCEPT !.state = state, !.next = next]]
Revised(s, state, next) ==
  [schedules[s] EXCEPT !.state = state, !.revision = @ + 1, !.next = next]

Disturbance(kind) ==
  /\ kind \notin disturbances /\ Cardinality(disturbances) < MaxDisturbances
  /\ disturbances' = disturbances \cup {kind}

Edit(s, state, next) ==
  /\ Disturbance("edit")
  /\ schedules' = [schedules EXCEPT ![s] = Revised(s, state, next)]
  /\ runs' = Invalidated(Of(s))
  /\ UNCHANGED <<controls, session, pending, memory, native, backend, sent>>

HasUnknown(s) == \E r \in Of(s) : runs[r].state = "unknown"

\* save: an owner's edit enables the schedule, an agent's waits for approval.
Save(s, source) ==
  /\ ServiceFree /\ schedules[s].state # "deleted"
  /\ source = "owner" => ~HasUnknown(s)
  /\ IF source = "owner" THEN Edit(s, "active", "date") ELSE Edit(s, "off", "none")

\* setStatus
SetStatus(s, state) ==
  /\ ServiceFree /\ schedules[s].state # "deleted"
  /\ state = "active" => ~Exhausted(s) /\ ~HasUnknown(s)
  /\ Edit(s, state, IF state = "active" THEN "date" ELSE "none")

\* nextAt: a date is left unless the schedule ends first; a single one only when the owner
\* runs the schedule by hand before it.
NextDates(s, manual) ==
  CASE s \in Recurring -> {"date", "none"}
    [] s \notin Recurring /\ manual -> {schedules[s].next, "none"}
    [] OTHER -> {"none"}

\* claim: mints an occurrence of an active schedule that has none unfinished.
Claim(s, manual) ==
  /\ ServiceFree
  /\ schedules[s].state = "active" /\ (manual \/ schedules[s].next = "date")
  /\ ~Exhausted(s) /\ ~HasUnfinished(s)
  /\ \E next \in NextDates(s, manual) : schedules' = Changed(s, "active", next)
  /\ \E r \in Runs :
       /\ runs[r].state = "none" /\ \A q \in 1..(r - 1) : runs[q].state # "none"
       /\ runs' = [runs EXCEPT ![r] = [NoRun EXCEPT
                     !.schedule = s, !.revision = schedules[s].revision, !.state = "waiting"]]
  /\ UNCHANGED <<controls, session, pending, memory, native, backend, sent, disturbances>>

RunNow(s) == Claim(s, TRUE)

Intent(kind, of) == [kind |-> kind, of |-> of]

\* An explicit control of the owner in the chat, delivered to the reactor's worker.
Control(kind) ==
  /\ backend = "up" /\ Disturbance("control")
  /\ controls' = controls + 1
  /\ queue' = Append(queue, Intent(kind, controls'))
  /\ UNCHANGED <<tick, reactor, prompts, backend, sent>>

\* thread.turn.start of an idle chat
Prompt ==
  /\ session = "idle" /\ Control("start")
  /\ session' = "starting" /\ pending' = Human
  /\ UNCHANGED <<schedules, runs, native>>

\* thread.turn.start of a chat that is starting or running: a steer.
Steer ==
  /\ session # "idle" /\ Control("steer")
  /\ UNCHANGED <<schedules, runs, session, pending, native>>

\* trg_scheduled_followups_stop
Fence ==
  schedules' = [s \in Schedules |->
    IF schedules[s].state = "active"
    THEN Revised(s, "off", "none") ELSE schedules[s]]

\* thread.session-stop-requested
Stop ==
  /\ Control("stop") /\ Fence /\ runs' = Invalidated(Runs)
  /\ UNCHANGED <<session, pending, native>>

\* Wrong: a word of the provider's for the outcome.
ClosedRaw(rs, outcome) ==
  IF native.row \in Runs /\ rs[native.row].turn = "running"
  THEN [rs EXCEPT ![native.row] = [@ EXCEPT !.turn = "aborted"]] ELSE rs

\* A turn's row gets an outcome once.
Closed(rs, outcome) ==
  IF native.row \in Runs /\ rs[native.row].turn = "running"
  THEN [rs EXCEPT ![native.row] = [@ EXCEPT !.turn = outcome]] ELSE rs

\* thread.turn-interrupt-requested: the projections close the turn they know of at once.
Interrupt ==
  /\ Control("interrupt") /\ Fence
  /\ IF session = "running"
     THEN /\ session' = "idle"
          /\ runs' = Closed(Invalidated(Runs), "failed")
          /\ native' = [native EXCEPT !.stage = "closed"]
     ELSE UNCHANGED <<session, native>> /\ runs' = Invalidated(Runs)
  /\ UNCHANGED pending

-----------------------------------------------------------------------------
(* The tick *)

\* A schedule without a next date or at its limit is complete.
Complete(s) ==
  /\ ServiceFree /\ schedules[s].state = "active" /\ ~HasUnfinished(s)
  /\ schedules[s].next = "none" \/ Exhausted(s)
  /\ schedules' = Changed(s, "off", "none")
  /\ UNCHANGED <<runs, controls, session, pending, memory, native, backend, sent, disturbances>>

\* The schedule of r leaves "active", if it still is at r's revision.
Retired(r) ==
  IF Stands(r) THEN Changed(runs[r].schedule, "off", "none") ELSE schedules

\* attention: a waiting occurrence fails and its schedule asks for the owner.
Attention(r) ==
  /\ runs' = IF runs[r].state = "waiting" THEN Moved(r, "failed") ELSE runs
  /\ schedules' = Retired(r)

\* submit: retire an occurrence that outlived its limits, leave a busy chat alone, or
\* save the exact command before it is dispatched.
Submit(r) ==
  /\ ServiceFree /\ runs[r].state = "waiting" /\ Stands(r)
  /\ LET s == runs[r].schedule
     IN \/ \* at its limit, or past its end date
           /\ runs' = Moved(r, "skipped")
           /\ schedules' = Retired(r)
           /\ UNCHANGED tick
        \/ /\ ~Exhausted(s) /\ Attention(r)
           /\ UNCHANGED tick
        \/ /\ ~Exhausted(s) /\ session = "idle"
           /\ tick' = [at |-> "dispatch", run |-> r]
           /\ UNCHANGED <<schedules, runs>>
  /\ UNCHANGED <<controls, session, pending, queue, reactor, prompts, native, backend, sent, disturbances>>

\* Wrong: other occurrences are forgotten, as a crash makes the chat look idle.
BusySession(r) == session # "idle" \/ pending # Nobody

\* verifyScheduledFollowUpAdmission: other work of the chat that the occurrence waits for.
\* (A running session whose turn's row is closed counts as idle in the code.  One command
\* closes both, so that there is no such session here.)
Busy(r) ==
  \/ \E other \in Runs \ {r} : runs[other].state \in Admitted
  \/ session # "idle"
  \/ pending # Nobody

\* The engine at the command of r: one transaction admits the occurrence, appends the
\* event and writes the receipt.  A rejection has a receipt too; a failed transaction none.
Admit(r) ==
  /\ backend = "up" /\ tick = [at |-> "dispatch", run |-> r]
  /\ \/ /\ runs[r].receipt \in {"busy", "refused"}
        /\ tick' = [at |-> "rejected", run |-> r] /\ UNCHANGED <<rows, queue>>
     \/ /\ runs[r].receipt = "none"
        /\ tick' = Idle /\ UNCHANGED <<rows, queue>>
     \/ /\ runs[r].receipt = "none" /\ runs[r].state = "waiting" /\ Stands(r) /\ ~Busy(r)
        /\ controls' = controls + 1
        /\ runs' = [runs EXCEPT ![r] = [@ EXCEPT
             !.state = "dispatching", !.intent = controls', !.receipt = "accepted"]]
        /\ session' = "starting" /\ pending' = r
        /\ queue' = Append(queue, Intent("scheduled", r))
        /\ tick' = Idle /\ UNCHANGED schedules
     \/ \* Busy, or an approval, a question or the latest turn's row is open
        /\ runs[r].receipt = "none"
        /\ runs[r].state = "waiting" /\ Stands(r)
        /\ runs' = Received(r, "busy")
        /\ tick' = [at |-> "rejected", run |-> r]
        /\ UNCHANGED <<schedules, controls, session, pending, queue>>
     \/ /\ runs[r].receipt = "none"   \* revoked, or the chat's settings are others
        /\ runs' = Received(r, "refused")
        /\ tick' = [at |-> "rejected", run |-> r]
        /\ UNCHANGED <<schedules, controls, session, pending, queue>>
  /\ UNCHANGED <<reactor, prompts, native, backend, sent, disturbances>>

\* submit, after a rejection: only a busy chat lets the occurrence have a new command.
Rejected(r) ==
  /\ backend = "up" /\ tick = [at |-> "rejected", run |-> r]
  /\ tick' = Idle
  /\ IF runs[r].receipt = "busy"
     THEN /\ runs' = IF runs[r].state = "waiting" /\ ~runs[r].attempted
                     THEN Received(r, "none") ELSE runs
          /\ UNCHANGED schedules
     ELSE Attention(r)
  /\ UNCHANGED <<controls, session, pending, queue, reactor, prompts, native, backend, sent, disturbances>>

\* reconcile: an admitted occurrence takes the state of the turn whose row holds its
\* message; an attempt that has none after five minutes is unknown.
Reconcile(r) ==
  /\ ServiceFree /\ runs[r].state \in Admitted
  /\ \/ /\ runs[r].turn = "running" /\ runs[r].state # "running"
        /\ runs' = Moved(r, "running") /\ UNCHANGED schedules
     \/ /\ runs[r].turn \in Outcomes
        /\ LET s == runs[r].schedule
           IN /\ runs' = Moved(r, runs[r].turn)
              /\ IF runs[r].turn = "failed" THEN schedules' = Retired(r)
                 ELSE \/ schedules' = IF Exhausted(s) \/ schedules[s].next = "none"
                                      THEN Retired(r) ELSE schedules
                      \/ \* the answer reports that the goal is met
                         /\ controls = runs[r].intent
                         /\ schedules' = Retired(r)
     \/ /\ runs[r].turn = "none" /\ runs[r].attempted
        /\ runs' = IF runs[r].state = "dispatching" THEN Moved(r, "unknown") ELSE runs
        /\ schedules' = Retired(r)
        /\ <<runs', schedules'>> # <<runs, schedules>>
  /\ UNCHANGED <<controls, session, pending, memory, native, backend, sent, disturbances>>

-----------------------------------------------------------------------------
(* The reactor's worker *)

\* Wrong: what the owner did in the chat is not looked at.
AuthorizedBySchedule(r) ==
  /\ runs[r].state = "dispatching" /\ ~runs[r].attempted /\ Stands(r)
  /\ ~Exhausted(runs[r].schedule)

\* isScheduledFollowUpAuthorized: the permission stands, and nothing the owner did in the
\* chat is later than the intent.  Other settings, an approval pending or a limit reached
\* refuse as well.
Authorized(r) ==
  /\ runs[r].state = "dispatching" /\ ~runs[r].attempted /\ Stands(r)
  /\ ~Exhausted(runs[r].schedule) /\ controls = runs[r].intent

\* setThreadSessionErrorOnTurnStartFailure: the chat is idle again, unless a later control
\* or a turn owns it.
Released(intent) ==
  IF controls = intent /\ session = "starting"
  THEN session' = "idle" /\ pending' = Nobody
  ELSE UNCHANGED <<session, pending>>

\* Wrong: a late failure overwrites what the turn's row has told.
SettlesAnyState(r, state) ==
  /\ IF state = "unknown" \/ ~runs[r].attempted
     THEN /\ runs' = Moved(r, state)
          /\ schedules' = IF state = "skipped" THEN schedules ELSE Retired(r)
     ELSE UNCHANGED <<runs, schedules>>
  /\ Released(runs[r].intent)
  /\ UNCHANGED native

\* settle
Settle(r, state) ==
  /\ IF runs[r].state = "dispatching" /\ (state = "unknown" \/ ~runs[r].attempted)
     THEN /\ runs' = Moved(r, state)
          /\ schedules' = IF state = "skipped" THEN schedules ELSE Retired(r)
     ELSE UNCHANGED <<runs, schedules>>
  /\ Released(runs[r].intent)
  /\ UNCHANGED native

Working == backend = "up" /\ reactor = Idle /\ queue # <<>>
Take(kind) == Working /\ Head(queue).kind = kind /\ queue' = Tail(queue)
WorkerFrame == UNCHANGED <<controls, tick, prompts, backend, disturbances>>

\* processScheduledFollowUpStart, up to the provider's preparation.
Begin(r) ==
  /\ Take("scheduled") /\ Head(queue).of = r
  /\ \/ /\ runs[r].state # "dispatching"
        /\ UNCHANGED <<schedules, runs, session, pending, native, reactor>>
     \/ /\ runs[r].state = "dispatching" /\ ~runs[r].attempted
        /\ Settle(r, "skipped") /\ UNCHANGED reactor
     \/ /\ Authorized(r) /\ reactor' = [at |-> "preparing", run |-> r]
        /\ UNCHANGED <<schedules, runs, session, pending, native>>
  /\ UNCHANGED sent /\ WorkerFrame

\* Preparation fails or finds the provider at work; or verifyScheduledFollowUpDispatch
\* spends the occurrence, and counts it, in the transaction that checks it again.
Prepare(r) ==
  /\ backend = "up" /\ reactor = [at |-> "preparing", run |-> r]
  /\ \/ /\ \E state \in {"skipped", "failed"} : Settle(r, state)
        /\ reactor' = Idle
     \/ /\ Authorized(r) /\ ~native.live
        /\ runs' = [runs EXCEPT ![r] = [@ EXCEPT !.attempted = TRUE]]
        /\ schedules' = [schedules EXCEPT
             ![runs[r].schedule] = [@ EXCEPT !.count = ScheduleOf(r).count + 1]]
        /\ reactor' = [at |-> "sending", run |-> r]
        /\ UNCHANGED <<session, pending, native>>
  /\ UNCHANGED <<queue, sent>> /\ WorkerFrame

\* A provider turn starts once the events of the last one are ingested.
ProviderFree == native.stage \in {"none", "closed"} /\ ~native.live

\* sendTurn: taken and acknowledged, taken and not acknowledged, or not taken.
Send(r) ==
  /\ backend = "up" /\ reactor = [at |-> "sending", run |-> r]
  /\ \/ /\ ProviderFree /\ native' = Turn(r) /\ sent' = sent \cup {r}
        /\ reactor' = [at |-> "accepted", run |-> r]
        /\ UNCHANGED <<schedules, runs, session, pending>>
     \/ /\ ProviderFree /\ native' = Turn(r) /\ sent' = sent \cup {r}
        /\ reactor' = [at |-> "failed", run |-> r]
        /\ UNCHANGED <<schedules, runs, session, pending>>
     \/ /\ reactor' = [at |-> "failed", run |-> r]
        /\ UNCHANGED <<schedules, runs, session, pending, native, sent>>
  /\ UNCHANGED queue /\ WorkerFrame

SendFailed(r) ==
  /\ backend = "up" /\ reactor = [at |-> "failed", run |-> r]
  /\ Settle(r, "unknown") /\ reactor' = Idle
  /\ UNCHANGED <<queue, sent>> /\ WorkerFrame

\* The first session-set that names the running turn gives its row the message of the
\* pending start, if there still is one.
Bound(rs) == IF pending \in Runs THEN [rs EXCEPT ![pending] = [@ EXCEPT !.turn = "running"]] ELSE rs

Announced(rs) ==
  /\ session' = "running" /\ pending' = Nobody
  /\ native' = [native EXCEPT !.stage = "announced", !.row = pending]
  /\ runs' = Bound(rs)

\* The acknowledgement: the occurrence runs, and its turn is announced unless the chat
\* moved on or the turn is known already.
Acknowledge(r) ==
  /\ backend = "up" /\ reactor = [at |-> "accepted", run |-> r] /\ reactor' = Idle
  /\ LET rs == IF runs[r].state \in {"dispatching", "unknown"}
               THEN Moved(r, "running") ELSE runs
     IN IF controls = runs[r].intent /\ native.of = r /\ native.stage = "started"
        THEN Announced(rs)
        ELSE runs' = rs /\ UNCHANGED <<session, pending, native>>
  /\ UNCHANGED <<schedules, queue, sent>> /\ WorkerFrame

\* A prompt of the owner is sent in a fiber of its own, unless its preparation fails.
Started ==
  /\ Take("start")
  /\ \/ prompts' = prompts \cup {Head(queue).of} /\ UNCHANGED <<session, pending>>
     \/ Released(Head(queue).of) /\ UNCHANGED prompts
  /\ UNCHANGED <<schedules, runs, controls, tick, reactor, native, backend, sent, disturbances>>

\* The prompt starts a turn, joins one, or fails; whatever the chat has come to meanwhile.
PromptSent(intent) ==
  /\ intent \in prompts /\ prompts' = prompts \ {intent}
  /\ \/ ProviderFree /\ native' = Turn(Human) /\ UNCHANGED <<session, pending>>
     \/ native.live /\ UNCHANGED <<native, session, pending>>
     \/ Released(intent) /\ UNCHANGED native
  /\ UNCHANGED <<schedules, runs, controls, tick, queue, reactor, backend, sent, disturbances>>

\* A steer joins the live turn or is kept for the owner; or, in a chat that nothing moved
\* since, it is the next turn: the session is set ready before the message is sent.
Steered ==
  /\ Take("steer")
  /\ \/ UNCHANGED <<session, pending, reactor>>
     \/ /\ controls = Head(queue).of /\ ~native.live
        /\ session' = "idle" /\ pending' = Nobody
        /\ reactor' = [at |-> "steering", run |-> Human]
  /\ UNCHANGED <<schedules, runs, native, sent>> /\ WorkerFrame

\* retrySteerAsNextTurn: its acknowledgement announces the turn at once.
SteerSent ==
  /\ backend = "up" /\ reactor.at = "steering" /\ reactor' = Idle
  /\ \/ /\ ProviderFree /\ session' = "running" /\ pending' = Nobody
        /\ native' = [Turn(Human) EXCEPT !.stage = "announced", !.row = pending]
        /\ runs' = Bound(runs)
     \/ UNCHANGED <<session, pending, native, runs>>
  /\ UNCHANGED <<schedules, queue, sent>> /\ WorkerFrame

Interrupted ==
  /\ Take("interrupt")
  /\ native' = [native EXCEPT !.live = FALSE]
  /\ UNCHANGED <<schedules, runs, session, pending, reactor, sent>> /\ WorkerFrame

Stopped ==
  /\ Take("stop")
  /\ native' = NoTurn /\ session' = "idle" /\ pending' = Nobody
  /\ runs' = Closed(runs, "failed")
  /\ UNCHANGED <<schedules, reactor, sent>> /\ WorkerFrame

-----------------------------------------------------------------------------
(* The provider, its events, time and crashes *)

TurnEnds ==
  /\ native.live /\ native' = [native EXCEPT !.live = FALSE]
  /\ UNCHANGED <<rows, memory, backend, sent, disturbances>>

\* turn.started, ingested
TurnStarted ==
  /\ backend # "down" /\ native.stage = "started" /\ Announced(runs)
  /\ UNCHANGED <<schedules, controls, memory, backend, sent, disturbances>>

\* turn.completed, ingested: it settles the session and the row of the turn they name.
TurnCompleted ==
  /\ backend # "down" /\ native.stage \in {"announced", "closed"} /\ ~native.live
  /\ native' = NoTurn
  /\ IF native.stage = "announced"
     THEN /\ \E outcome \in Outcomes : runs' = Closed(runs, outcome)
          /\ session' = "idle" /\ pending' = Nobody
     ELSE UNCHANGED <<runs, session, pending>>
  /\ UNCHANGED <<schedules, controls, memory, backend, sent, disturbances>>

Crash ==
  /\ backend # "down" /\ backend' = "down" /\ Disturbance("crash")
  /\ tick' = Idle /\ queue' = <<>> /\ reactor' = Idle /\ prompts' = {}
  /\ UNCHANGED <<rows, native, sent>>

Boot ==
  /\ backend = "down" /\ backend' = "starting"
  /\ UNCHANGED <<rows, memory, native, sent, disturbances>>

\* Wrong: startup does not look for them.
NoneUnattempted == {}

Unattempted == {r \in Runs : runs[r].state = "dispatching" /\ ~runs[r].attempted}

\* In the order of their intents.
Resumed ==
  LET earlier(a, b) == runs[a].intent < runs[b].intent
      intents == SetToSortSeq(Unattempted, earlier)
  IN [i \in 1..Len(intents) |-> Intent("scheduled", intents[i])]

\* The reactor's start: recoverInterruptedProviderWorkOnStartup, if the provider's sessions
\* can be listed, and recoverUnattemptedScheduledFollowUpsOnStartup.
Recover ==
  /\ backend = "starting" /\ backend' = "up"
  /\ queue' = Resumed
  /\ \/ UNCHANGED <<runs, session, pending, native>>
     \/ /\ session = "starting" /\ ~native.live
        /\ session' = "idle" /\ pending' = Nobody /\ UNCHANGED <<runs, native>>
     \/ /\ session = "running" /\ ~native.live
        /\ session' = "idle" /\ pending' = Nobody
        /\ runs' = Closed(runs, "failed")
        /\ native' = IF native.stage = "announced" THEN [native EXCEPT !.stage = "closed"]
                                                  ELSE native
  /\ UNCHANGED <<schedules, controls, tick, reactor, prompts, sent, disturbances>>

-----------------------------------------------------------------------------
Owner ==
  \/ \E s \in Schedules :
       \/ \E source \in {"owner", "agent"} : Save(s, source)
       \/ \E state \in {"active", "off", "deleted"} : SetStatus(s, state)
       \/ RunNow(s)
  \/ Prompt \/ Steer \/ Stop \/ Interrupt

Tick ==
  \/ \E s \in Schedules : Claim(s, FALSE) \/ Complete(s)
  \/ \E r \in Runs : Submit(r) \/ Reconcile(r) \/ Rejected(r)

Worker ==
  \/ Started \/ Steered \/ SteerSent \/ Interrupted \/ Stopped
  \/ \E r \in Runs : Begin(r) \/ Prepare(r) \/ Send(r) \/ SendFailed(r) \/ Acknowledge(r)

Step ==
  \/ Owner \/ Tick \/ Worker
  \/ \E r \in Runs : Admit(r)
  \/ \E intent \in prompts : PromptSent(intent)
  \/ TurnEnds \/ TurnStarted \/ TurnCompleted
  \/ Crash \/ Boot \/ Recover

Spec == Init /\ [][Step]_vars

\* The engine and the reactor's worker serve their queues, and a backend that died is started
\* again.  Every tick of the scheduler, 15 seconds apart, looks at every unsettled occurrence
\* before it submits others.  Nothing makes the owner act, the provider answer or a turn end.
FairSpec ==
  /\ Spec
  /\ WF_vars(Boot \/ Recover \/ Worker)
  /\ WF_vars(\E r \in Runs : Admit(r) \/ Rejected(r))
  /\ SF_vars(\E r \in Runs : Reconcile(r))

-----------------------------------------------------------------------------
(* Properties *)

Authors == Runs \cup {Human, Nobody}
States == Final \cup Unfinished \cup {"none"}

ScheduleRow ==
  [state : {"active", "off", "deleted"}, revision : Nat, next : {"none", "date"}, count : Nat]

RunRow ==
  [schedule : Schedules \cup {"none"}, revision : Nat, state : States, attempted : BOOLEAN,
   intent : Nat, receipt : {"none", "accepted", "busy", "refused"},
   turn : Outcomes \cup {"none", "running"}]

TypeOK ==
  /\ schedules \in [Schedules -> ScheduleRow] /\ runs \in [Runs -> RunRow]
  /\ controls \in Nat /\ sent \subseteq Runs
  /\ session \in {"idle", "starting", "running"} /\ pending \in Authors
  /\ tick \in [at : {"idle", "dispatch", "rejected"}, run : Authors]
  /\ reactor \in [at : {"idle", "preparing", "sending", "accepted", "failed", "steering"},
                  run : Authors]
  /\ native \in [of : Authors, row : Authors, live : BOOLEAN,
                 stage : {"none", "started", "announced", "closed"}]
  /\ backend \in {"up", "down", "starting"} /\ disturbances \subseteq {"edit", "control", "crash"}

\* One admitted scheduled turn per chat: while the outcome of one occurrence is open, in
\* flight, running or unknown, no other of any schedule is admitted
\* (docs/scheduled-followups.md, "Operational limits").
OneAdmitted ==
  \A r, q \in Runs : runs[r].state \in Admitted /\ runs[q].state \in Admitted => r = q

\* The owner's limit of attempted runs holds across edits, lost answers and crashes, and
\* the counter it is checked against is that of the attempts made.
LimitKept ==
  \A s \in Schedules :
    LET attempts == Cardinality({r \in Of(s) : runs[r].attempted})
    IN attempts <= Limit[s] /\ schedules[s].count = attempts

\* Settled occurrences stay as they are, whichever acknowledgement, failure or sweep comes
\* late (settle, reconcile and the acknowledgement guard their updates).
OutcomesAreFinal ==
  [][\A r \in Runs : runs[r].state \in Final => runs'[r].state = runs[r].state]_vars

\* An occurrence is a permission granted once, revocable until it is spent, spent once.
\* What the history calls skipped was revoked: stopping, editing and expiring never hide
\* a paid submission.
Grant(r) ==
  CASE runs[r].state = "none" -> "none"
    [] runs[r].state = "skipped" -> "revoked"
    [] runs[r].attempted /\ runs[r].state \notin {"none", "skipped"} -> "spent"
    [] /\ runs[r].state \in {"waiting", "dispatching"} /\ Stands(r)
       /\ ~runs[r].attempted
       /\ runs[r].state = "dispatching" => controls = runs[r].intent -> "granted"
    [] OTHER -> "revoked"

Grants == INSTANCE OneShotGrants WITH grant <- [r \in Runs |-> Grant(r)], submitted <- sent

RefinesGrants == Grants!Spec

\* An admitted occurrence does not rest where the backend can know better: it does not stay
\* "dispatching", and once the turn that holds its message has ended it is settled; whatever
\* became of its schedule, of the acknowledgement and of the backend meanwhile.
Known(r) ==
  runs[r].state # "dispatching" /\ (runs[r].turn \in Outcomes => runs[r].state \in Final)
AdmittedIsSettled == []<>(\A r \in Runs : Known(r))

\* "Keep reconciling the same exact identity" (service.ts, reconcile): an occurrence that the
\* provider took is settled once the provider has no turn left, acknowledged or not.  The
\* code does not keep this when the acknowledgement is lost.
TakenIsSettled == \A r \in Runs : (r \in sent /\ native = NoTurn) ~> runs[r].state \in Final

=============================================================================
