--------------------------- MODULE CommandLedger ---------------------------
(***************************************************************************)
(* Mutating RPCs from a backend to the provider daemon.                    *)
(*                                                                         *)
(*  - RemoteProviderService.ts builds the command id and the body once,    *)
(*    sends the request, and sends the same bytes once more when the       *)
(*    connection is reset before a response.                               *)
(*  - The daemon runs every request it receives in a fiber of its own      *)
(*    through providerDaemon/CommandLedger.ts, runOnce: look for a         *)
(*    tombstone, look for a receipt, insert a running receipt, execute,    *)
(*    store the outcome.  A fiber goes on when its client is gone.         *)
(*  - A quiesceThreadForHardDelete request fences the thread in memory     *)
(*    (ProviderService.ts), installs its tombstone and purges its receipts *)
(*    (ProviderDaemonThreadPurge.ts) while other fibers are under way.     *)
(*                                                                         *)
(* A request is an id and a body; a body names threads (two for a fork,    *)
(* none for a runtime restart).  Requests that are not mutating, or lack a *)
(* command id, never reach the ledger and are left out, as are legacy rows *)
(* without a typed thread identity.                                        *)
(***************************************************************************)
EXTENDS Naturals, FiniteSets

CONSTANTS
  Calls,      \* calls the backend makes
  Ids,        \* command ids
  Bodies,     \* canonical request bodies (method and payload)
  Threads,    \* threads
  IdOf,       \* the command id of a call
  BodyOf,     \* the body of a call
  ThreadsOf,  \* the threads a body names
  Bound,      \* bodies of IDENTITY_BOUND_MUTATING_METHODS
  Quiesce,    \* bodies of quiesceThreadForHardDelete
  MaxFaults   \* bound: resets, timeouts, crashes and storage failures

ASSUME RequestsAssumption ==
  /\ IdOf \in [Calls -> Ids]
  /\ BodyOf \in [Calls -> Bodies]
  /\ ThreadsOf \in [Bodies -> SUBSET Threads]
  /\ Bound \subseteq Bodies
  /\ Quiesce \subseteq Bodies \ Bound
  /\ \A q \in Quiesce : \E t \in Threads : ThreadsOf[q] = {t}
ASSUME BoundsAssumption == MaxFaults \in Nat

VARIABLES
  (* SQLite, survives a crash of the daemon *)
  receipt,    \* provider_daemon_commands: one row or None per command id
  tombstones, \* hard_deleted_threads
  (* memory of the daemon *)
  pc,         \* position of a request's fiber in runOnce
  envelope,   \* response of a fiber
  fenced,     \* hardDeleteRetiredThreadIds of ProviderService
  (* the backend *)
  call,       \* "idle", "first" or "second" attempt under way, "settled"
  result,     \* what the caller was told
  (* bookkeeping *)
  started,    \* history: attempts that inserted a receipt
  applied,    \* history: attempts whose execution changed the provider
  purged,     \* history: threads whose purge has committed
  faults

vars == <<receipt, tombstones, pc, envelope, fenced, call, result,
          started, applied, purged, faults>>
historyVars == <<started, applied, purged>>

Attempts == Calls \X {1, 2}
IdOfA(a) == IdOf[a[1]]
BodyOfA(a) == BodyOf[a[1]]
ThreadsOfA(a) == ThreadsOf[BodyOfA(a)]

None == [status |-> "none"]

\* Envelopes.  "ok" succeeded; "refused" is a typed refusal given before the
\* mutation boundary; "error" is any other failure of the execution.
Outcomes == {"ok", "refused", "error"}
Envelopes == Outcomes \cup {"abandoned", "retired", "mismatch", "running", "persistence"}
Receipts == [status : {"running", "completed", "failed"}, body : Bodies,
             answer : Outcomes \cup {"abandoned", "pending"}]

Receipt(a) == receipt[IdOfA(a)]
Retired(a) == ThreadsOfA(a) \cap tombstones # {}

-----------------------------------------------------------------------------
Init ==
  /\ receipt = [i \in Ids |-> None]
  /\ tombstones = {}
  /\ pc = [a \in Attempts |-> "unsent"]
  /\ envelope = [a \in Attempts |-> "none"]
  /\ fenced = {}
  /\ call = [k \in Calls |-> "idle"]
  /\ result = [k \in Calls |-> "none"]
  /\ started = {} /\ applied = {} /\ purged = {}
  /\ faults = 0

Fault == faults < MaxFaults /\ faults' = faults + 1

Goto(a, label) == pc' = [pc EXCEPT ![a] = label]

\* The fiber answers and ends.
Respond(a, e) ==
  /\ envelope' = [envelope EXCEPT ![a] = e]
  /\ pc' = [pc EXCEPT ![a] = "done"]

-----------------------------------------------------------------------------
(* runOnce *)

\* hasRetiredThread before anything else: only a repeated quiesce still runs,
\* without a receipt.
CheckRetired(a) ==
  /\ pc[a] = "check"
  /\ CASE ~Retired(a) -> Goto(a, "read") /\ UNCHANGED envelope
       [] Retired(a) /\ BodyOfA(a) \in Quiesce ->
            Goto(a, "quiesce") /\ UNCHANGED envelope
       [] OTHER -> Respond(a, "retired")
  /\ UNCHANGED <<receipt, tombstones, fenced, call, result, historyVars, faults>>

\* Wrong: only the request is looked at, not the method of the receipt.
CertifiesOneWay(r, body) == body \in Bound => r.body = body

\* A receipt certifies one exact request when either side is identity bound.
Certifies(r, body) ==
  (body \in Bound \/ r.body \in Bound) => r.body = body

\* readCommand and the answer an existing receipt gives.
ReadReceipt(a) ==
  LET r == Receipt(a) IN
  /\ pc[a] = "read"
  /\ CASE r = None -> Goto(a, "insert") /\ UNCHANGED envelope
       [] r # None /\ ~Certifies(r, BodyOfA(a)) -> Respond(a, "mismatch")
       [] r # None /\ Certifies(r, BodyOfA(a)) ->
            Respond(a, IF r.status = "running" THEN "running" ELSE r.answer)
  /\ UNCHANGED <<receipt, tombstones, fenced, call, result, historyVars, faults>>

\* readCommand or hasRetiredThread itself fails.
ReadFails(a) ==
  /\ pc[a] \in {"check", "read", "recheck"}
  /\ Fault
  /\ Respond(a, "persistence")
  /\ UNCHANGED <<receipt, tombstones, fenced, call, result, historyVars>>

\* Wrong: INSERT OR REPLACE, the late duplicate takes the row over.
InsertReplaces(a) ==
  /\ pc[a] = "insert"
  /\ ~Retired(a)
  /\ receipt' = [receipt EXCEPT ![IdOfA(a)] =
                   [status |-> "running", body |-> BodyOfA(a), answer |-> "pending"]]
  /\ started' = started \cup {a}
  /\ Goto(a, IF BodyOfA(a) \in Quiesce THEN "quiesce" ELSE "execute")
  /\ UNCHANGED <<tombstones, envelope, fenced, call, result, applied, purged, faults>>

\* Wrong: no tombstone trigger on the table, only the look before it.
InsertUnguarded(a) ==
  /\ pc[a] = "insert"
  /\ Receipt(a) = None
  /\ receipt' = [receipt EXCEPT ![IdOfA(a)] =
                   [status |-> "running", body |-> BodyOfA(a), answer |-> "pending"]]
  /\ started' = started \cup {a}
  /\ Goto(a, IF BodyOfA(a) \in Quiesce THEN "quiesce" ELSE "execute")
  /\ UNCHANGED <<tombstones, envelope, fenced, call, result, applied, purged, faults>>

\* The running receipt and its thread identity, in one transaction.
InsertReceipt(a) ==
  /\ pc[a] = "insert"
  /\ Receipt(a) = None /\ ~Retired(a)
  /\ receipt' = [receipt EXCEPT ![IdOfA(a)] =
                   [status |-> "running", body |-> BodyOfA(a), answer |-> "pending"]]
  /\ started' = started \cup {a}
  /\ Goto(a, IF BodyOfA(a) \in Quiesce THEN "quiesce" ELSE "execute")
  /\ UNCHANGED <<tombstones, envelope, fenced, call, result, applied, purged, faults>>

\* Wrong: a failed insert is retried for as long as it fails.
InsertFailsRetries(a) ==
  /\ pc[a] = "insert"
  /\ IF Receipt(a) = None /\ ~Retired(a) THEN Fault ELSE UNCHANGED faults
  /\ UNCHANGED <<receipt, tombstones, pc, envelope, fenced, call, result, historyVars>>

\* The transaction fails: another fiber's row, the tombstone trigger, or storage.
InsertFails(a) ==
  /\ pc[a] = "insert"
  /\ IF Receipt(a) = None /\ ~Retired(a) THEN Fault ELSE UNCHANGED faults
  /\ Goto(a, "recheck")
  /\ UNCHANGED <<receipt, tombstones, envelope, fenced, call, result, historyVars>>

\* hasRetiredThread again, to tell a tombstone from a failure.
RecheckRetired(a) ==
  /\ pc[a] = "recheck"
  /\ Respond(a, IF Retired(a) THEN "retired" ELSE "persistence")
  /\ UNCHANGED <<receipt, tombstones, fenced, call, result, historyVars, faults>>

\* The provider does the work under the thread's lifecycle lock, unless the
\* thread was fenced meanwhile.  An error may come before or after the change.
Execute(a) ==
  /\ pc[a] = "execute"
  /\ \E outcome \in Outcomes, changes \in BOOLEAN :
       /\ outcome = "ok" => changes
       /\ outcome = "refused" => ~changes
       /\ ThreadsOfA(a) \cap fenced # {} => outcome = "refused"
       /\ envelope' = [envelope EXCEPT ![a] = outcome]
       /\ applied' = IF changes THEN applied \cup {a} ELSE applied
  /\ Goto(a, "store")
  /\ UNCHANGED <<receipt, tombstones, fenced, call, result, started, purged, faults>>

\* quiesceThreadForHardDelete, step by step: fence in memory ...
FenceRuntime(a) ==
  /\ pc[a] = "quiesce"
  /\ fenced' = fenced \cup ThreadsOfA(a)
  /\ Goto(a, "tombstone")
  /\ UNCHANGED <<receipt, tombstones, envelope, call, result, historyVars, faults>>

\* ... install the tombstone ...
InstallTombstone(a) ==
  /\ pc[a] = "tombstone"
  /\ tombstones' = tombstones \cup ThreadsOfA(a)
  /\ Goto(a, "purge")
  /\ UNCHANGED <<receipt, envelope, fenced, call, result, historyVars, faults>>

AfterQuiesce(a) == IF a \in started THEN "store" ELSE "done"

\* ... and delete the rows of the thread, this request's own receipt included.
PurgeReceipts(a) ==
  /\ pc[a] = "purge"
  /\ receipt' = [i \in Ids |->
       IF receipt[i] # None /\ ThreadsOf[receipt[i].body] \cap ThreadsOfA(a) # {} THEN None
       ELSE receipt[i]]
  /\ purged' = purged \cup ThreadsOfA(a)
  /\ envelope' = [envelope EXCEPT ![a] = "ok"]
  /\ Goto(a, AfterQuiesce(a))
  /\ UNCHANGED <<tombstones, fenced, call, result, started, applied, faults>>

\* One of the three steps fails; what was done before it stays.
QuiesceFails(a) ==
  /\ pc[a] \in {"quiesce", "tombstone", "purge"}
  /\ Fault
  /\ envelope' = [envelope EXCEPT ![a] = "error"]
  /\ fenced' = fenced \cup ThreadsOfA(a)
  /\ Goto(a, AfterQuiesce(a))
  /\ UNCHANGED <<receipt, tombstones, call, result, historyVars>>

\* Wrong: the outcome is stored whether or not the row is still there.
StoreOutcomeBlindly(a) ==
  /\ pc[a] = "store"
  /\ receipt' = [receipt EXCEPT ![IdOfA(a)].status =
                   IF envelope[a] = "ok" THEN "completed" ELSE "failed"]
  /\ Goto(a, "done")
  /\ UNCHANGED <<tombstones, envelope, fenced, call, result, historyVars, faults>>

\* UPDATE the receipt; it updates nothing when the row was purged.
StoreOutcome(a) ==
  /\ pc[a] = "store"
  /\ receipt' = IF Receipt(a) = None THEN receipt
                ELSE [receipt EXCEPT ![IdOfA(a)].status =
                        IF envelope[a] = "ok" THEN "completed" ELSE "failed",
                                     ![IdOfA(a)].answer = envelope[a]]
  /\ Goto(a, "done")
  /\ UNCHANGED <<tombstones, envelope, fenced, call, result, historyVars, faults>>

\* The outcome cannot be stored: the receipt stays running.
StoreFails(a) ==
  /\ pc[a] = "store"
  /\ Fault
  /\ Respond(a, "persistence")
  /\ UNCHANGED <<receipt, tombstones, fenced, call, result, historyVars>>

\* Wrong: an interrupted command is recorded as refused.
RestartRefuses ==
  /\ Fault
  /\ pc' = [a \in Attempts |-> IF pc[a] = "unsent" THEN "unsent" ELSE "dead"]
  /\ fenced' = {}
  /\ receipt' = [i \in Ids |->
       IF receipt[i].status = "running"
         THEN [status |-> "failed", body |-> receipt[i].body, answer |-> "refused"]
         ELSE receipt[i]]
  /\ UNCHANGED <<tombstones, envelope, call, result, historyVars>>

\* Wrong: the startup update has no WHERE status = 'running'.
RestartAbandonsAll ==
  /\ Fault
  /\ pc' = [a \in Attempts |-> IF pc[a] = "unsent" THEN "unsent" ELSE "dead"]
  /\ fenced' = {}
  /\ receipt' = [i \in Ids |->
       IF receipt[i] # None
         THEN [status |-> "failed", body |-> receipt[i].body, answer |-> "abandoned"]
         ELSE None]
  /\ UNCHANGED <<tombstones, envelope, call, result, historyVars>>

\* The daemon dies and starts again: its fibers are gone, and the receipts of
\* what was running are marked failed.
Restart ==
  /\ Fault
  /\ pc' = [a \in Attempts |-> IF pc[a] = "unsent" THEN "unsent" ELSE "dead"]
  /\ fenced' = {}
  /\ receipt' = [i \in Ids |->
       IF receipt[i].status = "running"
         THEN [status |-> "failed", body |-> receipt[i].body, answer |-> "abandoned"]
         ELSE receipt[i]]
  /\ UNCHANGED <<tombstones, envelope, call, result, historyVars>>

-----------------------------------------------------------------------------
(* The backend *)

AttemptOf(k) == IF call[k] = "first" THEN <<k, 1>> ELSE <<k, 2>>

Send(k) ==
  /\ call[k] = "idle"
  /\ call' = [call EXCEPT ![k] = "first"]
  /\ Goto(<<k, 1>>, "check")
  /\ UNCHANGED <<receipt, tombstones, envelope, fenced, result, historyVars, faults>>

Receive(k) ==
  /\ call[k] \in {"first", "second"}
  /\ pc[AttemptOf(k)] = "done"
  /\ call' = [call EXCEPT ![k] = "settled"]
  /\ result' = [result EXCEPT ![k] = envelope[AttemptOf(k)]]
  /\ UNCHANGED <<receipt, tombstones, pc, envelope, fenced, historyVars, faults>>

\* A dead daemon loses the response for free; a live connection is a fault.
ResponseLost(k) ==
  /\ call[k] \in {"first", "second"}
  /\ IF pc[AttemptOf(k)] = "dead" THEN UNCHANGED faults ELSE Fault

\* ECONNRESET or EPIPE on the first attempt: the same bytes once more.
Retry(k) ==
  /\ call[k] = "first"
  /\ ResponseLost(k)
  /\ call' = [call EXCEPT ![k] = "second"]
  /\ Goto(<<k, 2>>, "check")
  /\ UNCHANGED <<receipt, tombstones, envelope, fenced, result, historyVars>>

\* Any other transport failure, or a second one: the outcome stays unknown.
GiveUp(k) ==
  /\ ResponseLost(k)
  /\ call' = [call EXCEPT ![k] = "settled"]
  /\ result' = [result EXCEPT ![k] = "unknown"]
  /\ UNCHANGED <<receipt, tombstones, pc, envelope, fenced, historyVars>>

-----------------------------------------------------------------------------
FiberStep(a) ==
  \/ CheckRetired(a) \/ ReadReceipt(a) \/ ReadFails(a)
  \/ InsertReceipt(a) \/ InsertFails(a)
  \/ RecheckRetired(a) \/ Execute(a) \/ FenceRuntime(a) \/ InstallTombstone(a)
  \/ PurgeReceipts(a) \/ QuiesceFails(a) \/ StoreOutcome(a) \/ StoreFails(a)

CallStep(k) == Send(k) \/ Receive(k) \/ Retry(k) \/ GiveUp(k)

Next ==
  \/ \E a \in Attempts : FiberStep(a)
  \/ \E k \in Calls : CallStep(k)
  \/ Restart

Spec == Init /\ [][Next]_vars

\* A fiber runs to its end and the backend notices a response or a dead daemon;
\* nothing obliges it to make a call.
Fairness ==
  /\ \A a \in Attempts : WF_vars(FiberStep(a))
  /\ \A k \in Calls :
       /\ WF_vars(Receive(k))
       /\ WF_vars(pc[AttemptOf(k)] = "dead" /\ (Retry(k) \/ GiveUp(k)))

FairSpec == Spec /\ Fairness

-----------------------------------------------------------------------------
(* Properties *)

Labels == {"unsent", "check", "read", "insert", "recheck", "execute", "quiesce",
           "tombstone", "purge", "store", "done", "dead"}

TypeOK ==
  /\ receipt \in [Ids -> Receipts \cup {None}]
  /\ tombstones \subseteq Threads /\ fenced \subseteq Threads /\ purged \subseteq Threads
  /\ pc \in [Attempts -> Labels]
  /\ envelope \in [Attempts -> Envelopes \cup {"none"}]
  /\ call \in [Calls -> {"idle", "first", "second", "settled"}]
  /\ result \in [Calls -> Envelopes \cup {"none", "unknown"}]
  /\ started \subseteq Attempts /\ applied \subseteq started
  /\ faults \in 0..MaxFaults

\* Of all the attempts that carry one command id for the same threads, concurrent
\* duplicates, retries after a reset and calls repeated after a restart or a
\* purge included, at most one is ever executed ("lets the daemon CommandLedger
\* return that existing result instead of performing the mutation twice",
\* RemoteProviderService.ts:391-392).
AtMostOnce ==
  \A a, b \in started :
    IdOfA(a) = IdOfA(b) /\ ThreadsOfA(a) = ThreadsOfA(b) => a = b

\* A caller told of success can trust it: an attempt with its id was applied,
\* for an identity-bound method one with exactly its body
\* (CommandLedger.ts:515-519).  A quiesce changes the ledger itself instead.
SuccessIsCertified ==
  \A k \in Calls : result[k] = "ok" /\ BodyOf[k] \notin Quiesce =>
    \E a \in applied :
      /\ IdOfA(a) = IdOf[k]
      /\ BodyOf[k] \in Bound \/ BodyOfA(a) \in Bound => BodyOfA(a) = BodyOf[k]

\* A caller told that its request was refused before the mutation boundary can
\* compensate: no attempt of that call changed the provider.
RefusalIsDefinite ==
  \A k \in Calls : result[k] = "refused" => \A a \in applied : a[1] # k

\* Once the purge of a thread committed, no receipt with its prompts comes back,
\* however late a duplicate inserts or a fiber stores its outcome.
PurgedStaysPurged ==
  \A i \in Ids : receipt[i] # None => ThreadsOf[receipt[i].body] \cap purged = {}

\* A settled receipt keeps its answer until its thread is purged: every later
\* duplicate of the command is told the same.
ReceiptsAreFinal ==
  [][\A i \in Ids : receipt[i].status \in {"completed", "failed"} =>
       receipt'[i] = receipt[i] \/ receipt'[i] = None]_vars

\* Every call ends.
CallsSettle == \A k \in Calls : call[k] # "idle" ~> call[k] = "settled"

\* What RemoteProviderService.ts:430-432 says of every tag in
\* DEFINITIVE_REWIND_REFUSALS, ProviderDaemonThreadRetired among them: the
\* request "was rejected before its mutation boundary".
DefinitiveRefusals ==
  \A k \in Calls : result[k] \in {"refused", "retired"} => \A a \in applied : a[1] # k

=============================================================================
