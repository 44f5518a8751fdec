------------------------ MODULE CommandLedgerProofs ------------------------
(***************************************************************************)
(* Proofs about CommandLedger, for every set of calls, ids, bodies and     *)
(* threads and any number of faults.                                       *)
(***************************************************************************)
EXTENDS CommandLedger, TLAPS

Early == {"unsent", "check", "read", "insert", "recheck"}

\* A receipt is pending exactly while it is running.
PendingWhileRunning ==
  \A i \in Ids : receipt[i] # None =>
    (receipt[i].status = "running" <=> receipt[i].answer = "pending")

\* Where a fiber stands tells what it has done.
FiberHistory ==
  \A a \in Attempts :
    /\ pc[a] \in Early => a \notin started
    /\ pc[a] \in {"execute", "store"} => a \in started
    /\ pc[a] = "execute" => a \notin applied
    /\ pc[a] = "store" => envelope[a] \in Outcomes
    /\ pc[a] = "purge" => ThreadsOfA(a) \subseteq tombstones

\* An attempt nobody sent has not begun.
CallHistory ==
  \A k \in Calls :
    /\ call[k] = "idle" => pc[<<k, 1>>] = "unsent"
    /\ call[k] \in {"idle", "first"} => pc[<<k, 2>>] = "unsent"

\* Purged threads are fenced for good.
PurgedAreFenced == purged \subseteq tombstones

\* What began still has its receipt, or nothing for its threads can begin again.
Covered(a) ==
  Retired(a) \/ (Receipt(a) # None /\ Receipt(a).body = BodyOfA(a))

LedgerInv ==
  /\ TypeOK
  /\ PendingWhileRunning /\ FiberHistory /\ CallHistory
  /\ PurgedAreFenced /\ PurgedStaysPurged
  /\ \A a \in started : Covered(a)
  /\ AtMostOnce

-----------------------------------------------------------------------------
\* The client makes a command id for one request: calls that share it name the
\* same threads, and all or none of them are hard deletes.
StableIds ==
  \A k, l \in Calls : IdOf[k] = IdOf[l] =>
    /\ ThreadsOf[BodyOf[k]] = ThreadsOf[BodyOf[l]]
    /\ BodyOf[k] \in Quiesce <=> BodyOf[l] \in Quiesce

\* The receipt of a fiber that began and is still at work has no answer yet.
Working == {"execute", "store", "quiesce", "tombstone", "purge"}
UnansweredWhileWorking ==
  \A a \in started : pc[a] \in Working /\ Receipt(a) # None =>
    Receipt(a).status = "running"

\* The one attempt with id i that began was refused.
RefusedBy(i) ==
  \E b \in started : IdOfA(b) = i /\ b \notin applied /\ pc[b] # "execute"

RefusalsHaveOrigin ==
  /\ \A i \in Ids : receipt[i] # None /\ receipt[i].answer = "refused" => RefusedBy(i)
  /\ \A a \in Attempts : envelope[a] = "refused" => RefusedBy(IdOfA(a))
  /\ \A k \in Calls : result[k] = "refused" => RefusedBy(IdOf[k])

\* Every receipt was inserted for an attempt with its id and body, and only a
\* hard delete runs the quiesce steps.
ReceiptsHaveOrigin ==
  /\ \A i \in Ids : receipt[i] # None =>
       \E b \in started : IdOfA(b) = i /\ BodyOfA(b) = receipt[i].body
  /\ \A a \in Attempts :
       pc[a] \in {"quiesce", "tombstone", "purge"} => BodyOfA(a) \in Quiesce

\* Success with id i for this body: a hard delete, or an attempt that was
\* applied and that the body may answer for.
SucceededFor(i, body) ==
  body \in Quiesce \/ \E b \in applied : IdOfA(b) = i /\ Certifies([body |-> BodyOfA(b)], body)

SuccessesHaveOrigin ==
  /\ \A i \in Ids : receipt[i] # None /\ receipt[i].answer = "ok" =>
       receipt[i].body \in Quiesce
       \/ \E b \in applied : IdOfA(b) = i /\ BodyOfA(b) = receipt[i].body
  /\ \A a \in Attempts : pc[a] = "store" /\ envelope[a] = "ok" =>
       BodyOfA(a) \in Quiesce \/ a \in applied
  /\ \A a \in Attempts : envelope[a] = "ok" => SucceededFor(IdOfA(a), BodyOfA(a))
  /\ \A k \in Calls : result[k] = "ok" => SucceededFor(IdOf[k], BodyOf[k])

AnswerInv ==
  LedgerInv /\ UnansweredWhileWorking /\ RefusalsHaveOrigin
  /\ ReceiptsHaveOrigin /\ SuccessesHaveOrigin

-----------------------------------------------------------------------------
\* An attempt's id, body and threads are in range.
LEMMA AttemptTypes ==
  ASSUME NEW a \in Attempts
  PROVE  /\ a = <<a[1], a[2]>> /\ a[1] \in Calls /\ a[2] \in {1, 2}
         /\ IdOfA(a) \in Ids /\ BodyOfA(a) \in Bodies /\ ThreadsOfA(a) \subseteq Threads
  BY RequestsAssumption DEF Attempts, IdOfA, BodyOfA, ThreadsOfA

\* The initial state satisfies the invariant.
LEMMA InitLedgerInv == Init => LedgerInv
  BY AttemptTypes, BoundsAssumption
     DEF Init, LedgerInv, TypeOK, PendingWhileRunning, FiberHistory, CallHistory, PurgedAreFenced,
         PurgedStaysPurged, AtMostOnce, None, Receipts, Labels, Attempts, Early

\* A step that leaves receipts, tombstones and the history of starts and purges
\* alone keeps every part of the invariant that is about them.
LEMMA QuietStep ==
  ASSUME LedgerInv, UNCHANGED <<receipt, tombstones, started, purged>>,
         TypeOK', FiberHistory', CallHistory'
  PROVE  LedgerInv'
  BY DEF LedgerInv, PendingWhileRunning, PurgedAreFenced, PurgedStaysPurged, Covered, Retired,
         Receipt, AtMostOnce

\* A fiber that moves was sent, so the calls' view of unsent attempts stays.
LEMMA UnsentStays ==
  ASSUME LedgerInv, NEW a \in Attempts, pc[a] # "unsent", UNCHANGED call,
         NEW label, pc' = [pc EXCEPT ![a] = label]
  PROVE  CallHistory'
<1> SUFFICES ASSUME NEW k \in Calls
             PROVE  /\ call[k] = "idle" => pc'[<<k, 1>>] = "unsent"
                    /\ call[k] \in {"idle", "first"} => pc'[<<k, 2>>] = "unsent"
  BY DEF CallHistory
<1>1. <<k, 1>> \in Attempts /\ <<k, 2>> \in Attempts
  BY DEF Attempts
<1> QED
  BY <1>1 DEF LedgerInv, TypeOK, CallHistory

\* The steps of a fiber that only move it, or only fence the runtime.
LEMMA FiberQuietSteps ==
  ASSUME LedgerInv, NEW a \in Attempts,
         CheckRetired(a) \/ ReadFails(a) \/ InsertFails(a)
         \/ RecheckRetired(a) \/ FenceRuntime(a) \/ StoreFails(a)
  PROVE  LedgerInv'
<1>1. TypeOK'
  BY AttemptTypes, BoundsAssumption
     DEF LedgerInv, TypeOK, CheckRetired, ReadFails, InsertFails, RecheckRetired, FenceRuntime,
         StoreFails, Goto, Respond, Fault, Labels, Envelopes, Outcomes, historyVars
<1>2. FiberHistory'
  BY AttemptTypes
     DEF LedgerInv, TypeOK, FiberHistory, CheckRetired, ReadFails, InsertFails, RecheckRetired,
         FenceRuntime, StoreFails, Goto, Respond, historyVars, Early, Outcomes
<1>3. CallHistory'
  BY UnsentStays
     DEF CheckRetired, ReadFails, InsertFails, RecheckRetired, FenceRuntime, StoreFails, Goto, Respond
<1> QED
  BY <1>1, <1>2, <1>3, QuietStep
     DEF CheckRetired, ReadFails, InsertFails, RecheckRetired, FenceRuntime, StoreFails, historyVars

\* Answering from an existing receipt keeps the invariant.
LEMMA ReadReceiptStep ==
  ASSUME LedgerInv, NEW a \in Attempts, ReadReceipt(a)
  PROVE  LedgerInv'
<1>1. TypeOK'
  <2>1. Receipt(a) # None /\ Receipt(a).status # "running" => Receipt(a).answer \in Envelopes
    BY AttemptTypes DEF LedgerInv, TypeOK, PendingWhileRunning, Receipt, Receipts, Outcomes, Envelopes
  <2> QED
    BY <2>1, AttemptTypes
       DEF LedgerInv, TypeOK, ReadReceipt, Goto, Respond, Labels, Envelopes, Outcomes, historyVars
<1>2. FiberHistory'
  <2>1. PICK label \in {"insert", "done"} : pc' = [pc EXCEPT ![a] = label]
    BY DEF ReadReceipt, Goto, Respond
  <2>2. \A b \in Attempts : b # a => envelope'[b] = envelope[b]
    BY DEF LedgerInv, TypeOK, ReadReceipt, Respond
  <2> QED
    BY <2>1, <2>2 DEF LedgerInv, TypeOK, FiberHistory, ReadReceipt, historyVars, Early
<1>3. CallHistory'
  BY UnsentStays DEF ReadReceipt, Goto, Respond
<1> QED
  BY <1>1, <1>2, <1>3, QuietStep DEF ReadReceipt, historyVars

\* Executing keeps the invariant: the fiber's receipt stays as it is.
LEMMA ExecuteStep ==
  ASSUME LedgerInv, NEW a \in Attempts, Execute(a)
  PROVE  LedgerInv'
<1>1. TypeOK'
  BY AttemptTypes
     DEF LedgerInv, TypeOK, FiberHistory, Execute, Goto, Labels, Envelopes, Outcomes
<1>2. FiberHistory'
  BY AttemptTypes DEF LedgerInv, TypeOK, FiberHistory, Execute, Goto, Early, Outcomes
<1>3. CallHistory'
  BY UnsentStays DEF Execute, Goto
<1> QED
  BY <1>1, <1>2, <1>3, QuietStep DEF Execute

\* A failed quiesce keeps the invariant.
LEMMA QuiesceFailsStep ==
  ASSUME LedgerInv, NEW a \in Attempts, QuiesceFails(a)
  PROVE  LedgerInv'
<1>1. TypeOK'
  BY AttemptTypes, BoundsAssumption
     DEF LedgerInv, TypeOK, QuiesceFails, AfterQuiesce, Goto, Fault, Labels, Envelopes, Outcomes,
         historyVars
<1>2. FiberHistory'
  BY AttemptTypes
     DEF LedgerInv, TypeOK, FiberHistory, QuiesceFails, AfterQuiesce, Goto, Early, Outcomes, historyVars
<1>3. CallHistory'
  BY UnsentStays DEF QuiesceFails, Goto
<1> QED
  BY <1>1, <1>2, <1>3, QuietStep DEF QuiesceFails, historyVars

\* Inserting a receipt keeps the invariant: no attempt of its id can have
\* started for threads that are not retired, since the row would be there.
LEMMA InsertReceiptStep ==
  ASSUME LedgerInv, NEW a \in Attempts, InsertReceipt(a)
  PROVE  LedgerInv'
<1> DEFINE row == [status |-> "running", body |-> BodyOfA(a), answer |-> "pending"]
<1>1. /\ row \in Receipts /\ row # None
      /\ receipt' = [receipt EXCEPT ![IdOfA(a)] = row]
      /\ Receipt(a) = None /\ ~Retired(a)
      /\ started' = started \cup {a}
      /\ UNCHANGED <<tombstones, purged, applied>>
  <2>1. row.status # None.status
    BY DEF None
  <2> QED
    BY <2>1, AttemptTypes DEF InsertReceipt, Receipts
<1> HIDE DEF row
<1>2. TypeOK'
  BY <1>1, AttemptTypes DEF LedgerInv, TypeOK, InsertReceipt, Goto, Labels
<1>3. PendingWhileRunning'
  <2>1. row.status = "running" /\ row.answer = "pending"
    BY DEF row
  <2> QED
    BY <1>1, <2>1, AttemptTypes DEF LedgerInv, TypeOK, PendingWhileRunning
<1>4. FiberHistory'
  <2>1. a \notin applied
    BY DEF LedgerInv, TypeOK, FiberHistory, InsertReceipt, Early
  <2> QED
    BY <1>1, <2>1, AttemptTypes DEF LedgerInv, TypeOK, FiberHistory, InsertReceipt, Goto, Early
<1>5. CallHistory'
  BY UnsentStays DEF InsertReceipt, Goto
<1>6. PurgedAreFenced'
  BY <1>1 DEF LedgerInv, PurgedAreFenced
<1>7. PurgedStaysPurged'
  <2>1. row.body = BodyOfA(a)
    BY DEF row
  <2> QED
    BY <1>1, <2>1, AttemptTypes
       DEF LedgerInv, TypeOK, PurgedAreFenced, PurgedStaysPurged, Retired, ThreadsOfA
<1>8. (\A b \in started : Covered(b))'
  <2> SUFFICES ASSUME NEW b \in started'
               PROVE  Covered(b)'
    OBVIOUS
  <2>1. CASE b = a
    <3>1. Receipt(b)' = row /\ row.body = BodyOfA(b)
      BY <1>1, <2>1, AttemptTypes DEF LedgerInv, TypeOK, Receipt, row
    <3> QED
      BY <1>1, <3>1 DEF Covered
  <2>2. CASE b # a
    <3>1. b \in started /\ b \in Attempts /\ Covered(b)
      BY <1>1, <2>2 DEF LedgerInv, TypeOK
    <3>2. CASE IdOfA(b) = IdOfA(a)
      BY <1>1, <3>1, <3>2 DEF Covered, Retired, Receipt
    <3>3. CASE IdOfA(b) # IdOfA(a)
      BY <1>1, <3>1, <3>3, AttemptTypes DEF Covered, Retired, Receipt, LedgerInv, TypeOK
    <3> QED
      BY <3>2, <3>3
  <2> QED
    BY <2>1, <2>2
<1>9. AtMostOnce'
  <2>1. \A b \in started : IdOfA(b) = IdOfA(a) /\ ThreadsOfA(b) = ThreadsOfA(a) => FALSE
    BY <1>1 DEF LedgerInv, Covered, Retired, Receipt
  <2> QED
    BY <1>1, <2>1 DEF LedgerInv, AtMostOnce
<1> QED
  BY <1>2, <1>3, <1>4, <1>5, <1>6, <1>7, <1>8, <1>9 DEF LedgerInv

\* A new tombstone only weakens what is demanded of receipts.
LEMMA InstallTombstoneStep ==
  ASSUME LedgerInv, NEW a \in Attempts, InstallTombstone(a)
  PROVE  LedgerInv'
<1>1. TypeOK'
  BY AttemptTypes DEF LedgerInv, TypeOK, InstallTombstone, Goto, Labels, historyVars
<1>2. FiberHistory'
  BY DEF LedgerInv, TypeOK, FiberHistory, InstallTombstone, Goto, Early, historyVars, ThreadsOfA,
         BodyOfA
<1>3. CallHistory'
  BY UnsentStays DEF InstallTombstone, Goto
<1>4. PurgedAreFenced'
  BY DEF LedgerInv, PurgedAreFenced, InstallTombstone, historyVars
<1>5. (\A b \in started : Covered(b))'
  BY DEF LedgerInv, Covered, Retired, Receipt, InstallTombstone, historyVars
<1> QED
  BY <1>1, <1>2, <1>3, <1>4, <1>5
     DEF LedgerInv, InstallTombstone, historyVars, PendingWhileRunning, PurgedStaysPurged, AtMostOnce

\* The purge removes receipts of retired threads only, and none still pending.
LEMMA PurgeReceiptsStep ==
  ASSUME LedgerInv, NEW a \in Attempts, PurgeReceipts(a)
  PROVE  LedgerInv'
<1>1. /\ \A i \in Ids : receipt'[i] = receipt[i] \/ receipt'[i] = None
      /\ \A i \in Ids : receipt[i] # None /\ receipt'[i] = None
                           => ThreadsOf[receipt[i].body] \cap ThreadsOfA(a) # {}
      /\ \A i \in Ids : receipt'[i] # None => ThreadsOf[receipt[i].body] \cap ThreadsOfA(a) = {}
      /\ purged' = purged \cup ThreadsOfA(a)
      /\ ThreadsOfA(a) \subseteq tombstones
      /\ UNCHANGED <<tombstones, started>>
  BY DEF PurgeReceipts, LedgerInv, FiberHistory
<1>2. TypeOK'
  BY AttemptTypes
     DEF LedgerInv, TypeOK, PurgeReceipts, AfterQuiesce, Goto, Labels, Envelopes, Outcomes
<1>3. PendingWhileRunning'
  BY <1>1 DEF LedgerInv, PendingWhileRunning
<1>4. FiberHistory'
  BY DEF LedgerInv, TypeOK, FiberHistory, PurgeReceipts, AfterQuiesce, Goto, Early, Outcomes
<1>5. CallHistory'
  BY UnsentStays DEF PurgeReceipts, Goto
<1>6. PurgedAreFenced'
  BY <1>1 DEF LedgerInv, PurgedAreFenced
<1>7. PurgedStaysPurged'
  BY <1>1 DEF LedgerInv, PurgedStaysPurged
<1>8. (\A b \in started : Covered(b))'
  <2> SUFFICES ASSUME NEW b \in started, ~Retired(b)
               PROVE  Receipt(b)' # None /\ Receipt(b).body' = BodyOfA(b)
    BY <1>1 DEF Covered, Retired
  <2>1. Receipt(b) # None /\ Receipt(b).body = BodyOfA(b) /\ IdOfA(b) \in Ids
    BY AttemptTypes DEF LedgerInv, TypeOK, Covered
  <2>2. receipt'[IdOfA(b)] # None
    BY <1>1, <2>1 DEF Retired, Receipt, ThreadsOfA
  <2> QED
    BY <1>1, <2>1, <2>2 DEF Receipt
<1>9. AtMostOnce'
  BY <1>1 DEF LedgerInv, AtMostOnce
<1> QED
  BY <1>2, <1>3, <1>4, <1>5, <1>6, <1>7, <1>8, <1>9 DEF LedgerInv

\* What StoreOutcome writes, field by field.
LEMMA StoredReceipt ==
  ASSUME LedgerInv, NEW a \in Attempts, StoreOutcome(a), Receipt(a) # None
  PROVE  /\ receipt' = [receipt EXCEPT ![IdOfA(a)] = receipt'[IdOfA(a)]]
         /\ receipt'[IdOfA(a)] \in Receipts
         /\ receipt'[IdOfA(a)].status \in {"completed", "failed"}
         /\ receipt'[IdOfA(a)].body = Receipt(a).body
         /\ receipt'[IdOfA(a)].answer = envelope[a]
         /\ envelope[a] \in Outcomes
<1>1. Receipt(a) \in Receipts /\ IdOfA(a) \in Ids /\ envelope[a] \in Outcomes
  BY AttemptTypes DEF LedgerInv, TypeOK, Receipt, FiberHistory, StoreOutcome
<1>2. PICK status \in {"completed", "failed"} :
        receipt' = [receipt EXCEPT ![IdOfA(a)].status = status,
                                   ![IdOfA(a)].answer = envelope[a]]
  BY DEF StoreOutcome
<1>3. receipt'[IdOfA(a)] = [[Receipt(a) EXCEPT !.status = status] EXCEPT !.answer = envelope[a]]
  BY <1>1, <1>2 DEF LedgerInv, TypeOK, Receipt
<1>4. receipt'[IdOfA(a)] \in Receipts
      /\ receipt'[IdOfA(a)].status = status
      /\ receipt'[IdOfA(a)].body = Receipt(a).body
      /\ receipt'[IdOfA(a)].answer = envelope[a]
  BY <1>1, <1>3 DEF Receipts, Outcomes
<1>5. receipt' = [receipt EXCEPT ![IdOfA(a)] = receipt'[IdOfA(a)]]
  BY <1>1, <1>2 DEF LedgerInv, TypeOK
<1> QED
  BY <1>1, <1>2, <1>4, <1>5

\* Storing an outcome keeps the invariant: the row is still the fiber's own.
LEMMA StoreOutcomeStep ==
  ASSUME LedgerInv, NEW a \in Attempts, StoreOutcome(a)
  PROVE  LedgerInv'
<1>1. FiberHistory' /\ CallHistory'
  BY UnsentStays DEF LedgerInv, TypeOK, FiberHistory, StoreOutcome, Goto, Early, historyVars, Outcomes
<1>2. CASE Receipt(a) = None
  <2>1. TypeOK' /\ UNCHANGED <<receipt, tombstones, started, purged>>
    BY <1>2 DEF LedgerInv, TypeOK, StoreOutcome, Goto, Labels, historyVars
  <2> QED
    BY <1>1, <2>1, QuietStep
<1>3. CASE Receipt(a) # None
  <2>1. \A i \in Ids : \/ receipt'[i] = receipt[i]
                         \/ /\ i = IdOfA(a) /\ receipt'[i] \in Receipts
                            /\ receipt[i] # None /\ receipt'[i].body = receipt[i].body
                            /\ receipt'[i].status # "running" /\ receipt'[i].answer # "pending"
    BY <1>3, StoredReceipt, AttemptTypes DEF LedgerInv, TypeOK, Receipt, Outcomes
  <2>2. \A r \in Receipts : r # None
    BY DEF Receipts, None
  <2>3. TypeOK'
    <3>1. receipt' \in [Ids -> Receipts \cup {None}]
      <4> DEFINE row == receipt'[IdOfA(a)]
      <4>1. receipt' = [receipt EXCEPT ![IdOfA(a)] = row] /\ row \in Receipts
        BY <1>3, StoredReceipt
      <4> HIDE DEF row
      <4> QED
        BY <4>1 DEF LedgerInv, TypeOK
    <3> QED
      BY <3>1 DEF LedgerInv, TypeOK, StoreOutcome, Goto, Labels, historyVars
  <2>4. PendingWhileRunning' /\ PurgedStaysPurged'
    BY <2>1 DEF LedgerInv, PendingWhileRunning, PurgedStaysPurged, StoreOutcome, historyVars
  <2>5. (\A b \in started : Covered(b))'
    BY <2>1, <2>2, AttemptTypes
       DEF LedgerInv, TypeOK, Covered, Retired, Receipt, StoreOutcome, historyVars
  <2>6. PurgedAreFenced' /\ AtMostOnce'
    BY DEF LedgerInv, PurgedAreFenced, AtMostOnce, StoreOutcome, historyVars
  <2> QED
    BY <1>1, <2>3, <2>4, <2>5, <2>6 DEF LedgerInv
<1> QED
  BY <1>2, <1>3

\* A crash and the startup cleanup keep the invariant: every fiber is gone.
LEMMA RestartStep ==
  ASSUME LedgerInv, Restart
  PROVE  LedgerInv'
<1>1. \A r \in Receipts : r # None
  BY DEF Receipts, None
<1>2. \A i \in Ids : receipt[i] = None => receipt'[i] = None
  BY DEF Restart, None
<1>3. ASSUME NEW i \in Ids, receipt[i] # None
      PROVE  /\ receipt'[i] \in Receipts /\ receipt'[i].body = receipt[i].body
             /\ receipt'[i].status # "running" /\ receipt'[i].answer # "pending"
  <2>1. receipt[i] \in Receipts
    BY <1>3 DEF LedgerInv, TypeOK
  <2>2. CASE receipt[i].status = "running"
    <3>1. receipt'[i] = [status |-> "failed", body |-> receipt[i].body, answer |-> "abandoned"]
      BY <2>2 DEF Restart
    <3> QED
      BY <2>1, <3>1 DEF Receipts
  <2>3. CASE receipt[i].status # "running"
    <3>1. receipt'[i] = receipt[i]
      BY <2>3 DEF Restart
    <3> QED
      BY <1>3, <2>1, <2>3, <3>1 DEF LedgerInv, PendingWhileRunning
  <2> QED
    BY <2>2, <2>3
<1>4. TypeOK'
  <2>1. \A i \in Ids : receipt'[i] \in Receipts \cup {None}
    BY <1>2, <1>3
  <2>2. receipt' \in [Ids -> Receipts \cup {None}]
    <3>1. \E f : receipt' = [i \in Ids |-> f[i]]
      <4> WITNESS [i \in Ids |-> receipt'[i]]
      <4> QED
        BY DEF Restart
    <3> QED
      BY <2>1, <3>1
  <2>3. pc' \in [Attempts -> Labels]
    BY DEF Restart, Labels
  <2>4. faults' \in 0..MaxFaults
    BY BoundsAssumption DEF LedgerInv, TypeOK, Restart, Fault
  <2>5. fenced' = {} /\ UNCHANGED <<tombstones, envelope, call, result, started, applied, purged>>
    BY DEF Restart, historyVars
  <2> QED
    BY <2>2, <2>3, <2>4, <2>5 DEF LedgerInv, TypeOK
<1>5. PendingWhileRunning'
  BY <1>2, <1>3 DEF LedgerInv, PendingWhileRunning
<1>6. PurgedStaysPurged'
  <2>1. UNCHANGED purged
    BY DEF Restart, historyVars
  <2> QED
    BY <1>2, <1>3, <2>1 DEF LedgerInv, PurgedStaysPurged
<1>7. FiberHistory'
  BY DEF LedgerInv, TypeOK, FiberHistory, Restart, Early, historyVars
<1>8. CallHistory'
  BY DEF LedgerInv, TypeOK, CallHistory, Restart, Attempts
<1>9. (\A b \in started : Covered(b))'
  <2>1. UNCHANGED <<tombstones, started>>
    BY DEF Restart, historyVars
  <2>2. \A b \in started : IdOfA(b) \in Ids /\ Covered(b)
    BY AttemptTypes DEF LedgerInv, TypeOK
  <2> QED
    BY <1>1, <1>3, <2>1, <2>2 DEF Covered, Retired, Receipt
<1>10. PurgedAreFenced' /\ AtMostOnce'
  BY DEF LedgerInv, PurgedAreFenced, AtMostOnce, Restart, historyVars
<1> QED
  BY <1>4, <1>5, <1>6, <1>7, <1>8, <1>9, <1>10 DEF LedgerInv

\* The backend's own steps keep the invariant: they never reuse an attempt.
LEMMA CallSteps ==
  ASSUME LedgerInv, NEW k \in Calls, CallStep(k)
  PROVE  LedgerInv'
<1>0. <<k, 1>> \in Attempts /\ <<k, 2>> \in Attempts /\ AttemptOf(k) \in Attempts
  BY DEF Attempts, AttemptOf
<1>1. CASE Send(k) \/ Retry(k)
  <2>1. PICK n \in {1, 2} : /\ pc' = [pc EXCEPT ![<<k, n>>] = "check"]
                            /\ pc[<<k, n>>] = "unsent"
                            /\ UNCHANGED <<receipt, tombstones, envelope, fenced, result,
                                            started, applied, purged>>
    BY <1>1 DEF Send, Retry, Goto, LedgerInv, CallHistory, historyVars
  <2>2. TypeOK'
    BY <1>0, <1>1, <2>1, BoundsAssumption
       DEF LedgerInv, TypeOK, Send, Retry, ResponseLost, Fault, Labels
  <2>3. FiberHistory'
    BY <1>0, <2>1 DEF LedgerInv, TypeOK, FiberHistory, Early, ThreadsOfA, BodyOfA
  <2>4. CallHistory'
    <3> SUFFICES ASSUME NEW l \in Calls
                 PROVE  /\ call'[l] = "idle" => pc'[<<l, 1>>] = "unsent"
                        /\ call'[l] \in {"idle", "first"} => pc'[<<l, 2>>] = "unsent"
      BY DEF CallHistory
    <3>1. <<l, 1>> \in Attempts /\ <<l, 2>> \in Attempts
      BY DEF Attempts
    <3>2. CASE l = k
      BY <1>0, <1>1, <3>2 DEF LedgerInv, TypeOK, CallHistory, Send, Retry, Goto
    <3>3. CASE l # k
      <4>1. call'[l] = call[l]
        BY <1>1, <3>3 DEF LedgerInv, TypeOK, Send, Retry
      <4>2. pc'[<<l, 1>>] = pc[<<l, 1>>] /\ pc'[<<l, 2>>] = pc[<<l, 2>>]
        BY <2>1, <3>1, <3>3 DEF LedgerInv, TypeOK
      <4> QED
        BY <4>1, <4>2 DEF LedgerInv, CallHistory
    <3> QED
      BY <3>2, <3>3
  <2> QED
    BY <2>1, <2>2, <2>3, <2>4, QuietStep
<1>2. CASE Receive(k) \/ GiveUp(k)
  <2>1. TypeOK'
    BY <1>0, <1>2, BoundsAssumption
       DEF LedgerInv, TypeOK, Receive, GiveUp, ResponseLost, Fault, historyVars
  <2>2. FiberHistory'
    BY <1>2 DEF LedgerInv, FiberHistory, Receive, GiveUp, historyVars, ThreadsOfA, BodyOfA
  <2>3. CallHistory'
    BY <1>2 DEF LedgerInv, TypeOK, CallHistory, Receive, GiveUp
  <2> QED
    BY <1>2, <2>1, <2>2, <2>3, QuietStep DEF Receive, GiveUp, historyVars
<1> QED
  BY <1>1, <1>2 DEF CallStep

\* Every step keeps the invariant: one lemma per action above.
LEMMA NextLedgerInv == LedgerInv /\ [Next]_vars => LedgerInv'
<1> SUFFICES ASSUME LedgerInv, [Next]_vars
             PROVE  LedgerInv'
  OBVIOUS
<1>1. ASSUME NEW a \in Attempts, FiberStep(a)
      PROVE  LedgerInv'
  BY <1>1, FiberQuietSteps, ReadReceiptStep, InsertReceiptStep, ExecuteStep, InstallTombstoneStep,
     PurgeReceiptsStep, QuiesceFailsStep, StoreOutcomeStep DEF FiberStep
<1>2. CASE UNCHANGED vars
  BY <1>2, QuietStep
     DEF vars, LedgerInv, TypeOK, FiberHistory, CallHistory, ThreadsOfA, BodyOfA
<1> QED
  BY <1>1, <1>2, CallSteps, RestartStep DEF Next

\* The ledger invariant holds in every reachable state (CommandLedger.ts:485).
THEOREM LedgerInvariance == Spec => []LedgerInv
  BY InitLedgerInv, NextLedgerInv, PTL DEF Spec

\* The type invariant, for every set of requests.
THEOREM TypeCorrect == Spec => []TypeOK
  BY LedgerInvariance, PTL DEF LedgerInv

\* However often a command is duplicated, retried or repeated after a crash or
\* a purge, one attempt at most is executed (runOnce, CommandLedger.ts:485).
THEOREM ExecutedAtMostOnce == Spec => []AtMostOnce
  BY LedgerInvariance, PTL DEF LedgerInv

\* A purged thread never gets a receipt again (ProviderDaemonThreadPurge.ts).
THEOREM NoReceiptAfterPurge == Spec => []PurgedStaysPurged
  BY LedgerInvariance, PTL DEF LedgerInv

-----------------------------------------------------------------------------
(* What the callers are told, when ids are stable *)

\* Two attempts that began under one id are the same attempt.
LEMMA OneStarted ==
  ASSUME LedgerInv, StableIds, NEW a \in started, NEW b \in started, IdOfA(a) = IdOfA(b)
  PROVE  a = b
<1>1. a \in Attempts /\ b \in Attempts
  BY DEF LedgerInv, TypeOK
<1>2. ThreadsOfA(a) = ThreadsOfA(b)
  BY <1>1, AttemptTypes DEF StableIds, IdOfA, ThreadsOfA, BodyOfA
<1> QED
  BY <1>2 DEF LedgerInv, AtMostOnce

\* The initial state satisfies the invariant about answers.
LEMMA InitAnswerInv == Init => AnswerInv
<1> SUFFICES ASSUME Init
             PROVE  AnswerInv
  OBVIOUS
<1>1. UnansweredWhileWorking /\ ReceiptsHaveOrigin
  BY AttemptTypes DEF Init, UnansweredWhileWorking, ReceiptsHaveOrigin
<1>2. RefusalsHaveOrigin /\ SuccessesHaveOrigin
  BY AttemptTypes DEF Init, RefusalsHaveOrigin, SuccessesHaveOrigin, Attempts
<1> QED
  BY <1>1, <1>2, InitLedgerInv DEF AnswerInv

\* What every step does to the history: starts and applications are only added,
\* and an attempt past its execution never comes back to it.
LEMMA HistoryGrows ==
  ASSUME LedgerInv, [Next]_vars
  PROVE  /\ started \subseteq started' /\ applied \subseteq applied'
         /\ \A b \in started : b \notin applied /\ pc[b] # "execute" =>
              b \notin applied' /\ pc'[b] # "execute"
<1>1. ASSUME NEW a \in Attempts, InsertReceipt(a)
      PROVE  /\ started \subseteq started' /\ UNCHANGED applied
             /\ \A b \in started : pc'[b] = pc[b]
  BY <1>1 DEF InsertReceipt, Goto, LedgerInv, FiberHistory, Early, TypeOK
<1>2. ASSUME NEW a \in Attempts, Execute(a)
      PROVE  /\ started \subseteq started' /\ applied \subseteq applied' /\ pc[a] = "execute"
             /\ \A b \in started : b # a => (b \in applied <=> b \in applied') /\ pc'[b] = pc[b]
  BY <1>2 DEF Execute, Goto, LedgerInv, TypeOK
<1>3. ASSUME NEW a \in Attempts,
             CheckRetired(a) \/ ReadReceipt(a) \/ ReadFails(a) \/ InsertFails(a) \/ RecheckRetired(a)
             \/ FenceRuntime(a) \/ InstallTombstone(a) \/ PurgeReceipts(a) \/ QuiesceFails(a)
             \/ StoreOutcome(a) \/ StoreFails(a)
      PROVE  /\ UNCHANGED <<started, applied>>
             /\ \A b \in started : pc[b] # "execute" => pc'[b] # "execute"
  <2>1. UNCHANGED <<started, applied>>
    BY <1>3 DEF CheckRetired, ReadReceipt, ReadFails, InsertFails, RecheckRetired, FenceRuntime,
                InstallTombstone, PurgeReceipts, QuiesceFails, StoreOutcome, StoreFails, historyVars
  <2>2. PICK label : label # "execute" /\ pc' = [pc EXCEPT ![a] = label]
    BY <1>3 DEF CheckRetired, ReadReceipt, ReadFails, InsertFails, RecheckRetired, FenceRuntime,
                InstallTombstone, PurgeReceipts, QuiesceFails, StoreOutcome, StoreFails,
                Goto, Respond, AfterQuiesce
  <2> QED
    BY <2>1, <2>2 DEF LedgerInv, TypeOK
<1>4. ASSUME NEW k \in Calls, CallStep(k)
      PROVE  /\ UNCHANGED <<started, applied>>
             /\ \A b \in started : pc[b] # "execute" => pc'[b] # "execute"
  BY <1>4 DEF CallStep, Send, Receive, Retry, GiveUp, Goto, historyVars, LedgerInv, TypeOK
<1>5. CASE Restart
  BY <1>5 DEF Restart, historyVars, LedgerInv, TypeOK
<1>6. CASE UNCHANGED vars
  BY <1>6 DEF vars
<1> QED
  BY <1>1, <1>2, <1>3, <1>4, <1>5, <1>6 DEF Next, FiberStep

\* A refusal once justified by the history stays justified.
LEMMA RefusedByStays ==
  ASSUME LedgerInv, [Next]_vars, NEW i, RefusedBy(i)
  PROVE  RefusedBy(i)'
  BY HistoryGrows DEF RefusedBy

\* A success once justified by the history stays justified.
LEMMA SucceededForStays ==
  ASSUME LedgerInv, [Next]_vars, NEW i, NEW body, SucceededFor(i, body)
  PROVE  SucceededFor(i, body)'
  BY HistoryGrows DEF SucceededFor

\* The three ways a receipt that is there after a step differs from before.
Inserted(i) ==
  /\ receipt[i] = None /\ receipt'[i].status = "running" /\ receipt'[i].answer = "pending"
  /\ \E a \in started' : IdOfA(a) = i /\ BodyOfA(a) = receipt'[i].body

Stored(i) ==
  /\ receipt[i] # None /\ receipt'[i].body = receipt[i].body
  /\ \E a \in started : /\ pc[a] = "store" /\ pc'[a] = "done"
                        /\ IdOfA(a) = i /\ receipt'[i].answer = envelope[a]

Abandoned(i) ==
  /\ receipt[i] # None /\ receipt'[i].body = receipt[i].body
  /\ receipt[i].status = "running" /\ receipt'[i].answer = "abandoned"
  /\ \A a \in Attempts : pc'[a] \in {"unsent", "dead"}

\* What can become of a receipt in one step.
LEMMA ReceiptChanges ==
  ASSUME LedgerInv, [Next]_vars, NEW i \in Ids, receipt'[i] # None, receipt'[i] # receipt[i]
  PROVE  Inserted(i) \/ Stored(i) \/ Abandoned(i)
<1>1. ASSUME NEW a \in Attempts, InsertReceipt(a)
      PROVE  Inserted(i)
  <2>1. i = IdOfA(a)
    BY <1>1 DEF InsertReceipt, LedgerInv, TypeOK
  <2>2. receipt'[i] = [status |-> "running", body |-> BodyOfA(a), answer |-> "pending"]
    BY <1>1, <2>1 DEF InsertReceipt, LedgerInv, TypeOK
  <2>3. receipt[i] = None /\ a \in started'
    BY <1>1, <2>1 DEF InsertReceipt, Receipt
  <2> QED
    BY <2>1, <2>2, <2>3 DEF Inserted
<1>2. ASSUME NEW a \in Attempts, StoreOutcome(a)
      PROVE  Stored(i)
  <2>1. Receipt(a) # None
    BY <1>2 DEF StoreOutcome
  <2>2. /\ i = IdOfA(a) /\ receipt'[i].body = receipt[i].body /\ receipt'[i].answer = envelope[a]
    BY <1>2, <2>1, StoredReceipt, AttemptTypes DEF LedgerInv, TypeOK, Receipt
  <2>3. a \in started /\ pc[a] = "store" /\ pc'[a] = "done"
    BY <1>2 DEF StoreOutcome, Goto, LedgerInv, TypeOK, FiberHistory
  <2> QED
    BY <2>1, <2>2, <2>3 DEF Stored, Receipt
<1>3. CASE Restart
  <2>1. receipt[i].status = "running"
    BY <1>3 DEF Restart
  <2>2. receipt'[i] = [status |-> "failed", body |-> receipt[i].body, answer |-> "abandoned"]
    BY <1>3, <2>1 DEF Restart
  <2>3. receipt[i] # None
    BY <2>1 DEF None
  <2>4. \A a \in Attempts : pc'[a] \in {"unsent", "dead"}
    BY <1>3 DEF Restart
  <2> QED
    BY <2>1, <2>2, <2>3, <2>4 DEF Abandoned
<1>4. ASSUME NEW a \in Attempts, PurgeReceipts(a)
      PROVE  FALSE
  BY <1>4 DEF PurgeReceipts
<1>5. ASSUME NEW a \in Attempts,
             CheckRetired(a) \/ ReadReceipt(a) \/ ReadFails(a) \/ InsertFails(a) \/ RecheckRetired(a)
             \/ Execute(a) \/ FenceRuntime(a) \/ InstallTombstone(a) \/ QuiesceFails(a) \/ StoreFails(a)
      PROVE  FALSE
  BY <1>5 DEF CheckRetired, ReadReceipt, ReadFails, InsertFails, RecheckRetired, Execute, FenceRuntime,
              InstallTombstone, QuiesceFails, StoreFails
<1>6. ASSUME NEW k \in Calls, CallStep(k)
      PROVE  FALSE
  BY <1>6 DEF CallStep, Send, Receive, Retry, GiveUp
<1>7. CASE UNCHANGED vars
  BY <1>7 DEF vars
<1> QED
  BY <1>1, <1>2, <1>3, <1>4, <1>5, <1>6, <1>7 DEF Next, FiberStep

\* An answer a fiber newly holds comes from a receipt, its execution, or a fixed
\* refusal of the ledger.
LEMMA EnvelopeChanges ==
  ASSUME LedgerInv, [Next]_vars, NEW a \in Attempts, envelope'[a] # envelope[a]
  PROVE  \/ /\ Receipt(a) # None /\ Certifies(Receipt(a), BodyOfA(a))
            /\ envelope'[a] = Receipt(a).answer /\ pc'[a] = "done"
         \/ /\ pc[a] = "execute" /\ pc'[a] = "store"
            /\ envelope'[a] = "ok" => a \in applied'
            /\ envelope'[a] = "refused" => UNCHANGED applied
         \/ pc[a] \in {"quiesce", "tombstone", "purge"} /\ envelope'[a] \in {"ok", "error"}
         \/ pc'[a] = "done" /\ envelope'[a] \in {"retired", "mismatch", "running", "persistence"}
<1>1. ASSUME NEW b \in Attempts, ReadReceipt(b)
      PROVE  \/ /\ Receipt(a) # None /\ Certifies(Receipt(a), BodyOfA(a))
                /\ envelope'[a] = Receipt(a).answer /\ pc'[a] = "done"
             \/ pc'[a] = "done" /\ envelope'[a] \in {"mismatch", "running"}
  <2>1. a = b
    BY <1>1 DEF ReadReceipt, Respond, LedgerInv, TypeOK
  <2> QED
    BY <1>1, <2>1 DEF ReadReceipt, Respond, LedgerInv, TypeOK
<1>2. ASSUME NEW b \in Attempts, Execute(b)
      PROVE  /\ pc[a] = "execute" /\ pc'[a] = "store"
             /\ envelope'[a] = "ok" => a \in applied'
             /\ envelope'[a] = "refused" => UNCHANGED applied
  BY <1>2 DEF Execute, Goto, LedgerInv, TypeOK
<1>3. ASSUME NEW b \in Attempts, PurgeReceipts(b) \/ QuiesceFails(b)
      PROVE  pc[a] \in {"quiesce", "tombstone", "purge"} /\ envelope'[a] \in {"ok", "error"}
  BY <1>3 DEF PurgeReceipts, QuiesceFails, LedgerInv, TypeOK
<1>4. ASSUME NEW b \in Attempts,
             CheckRetired(b) \/ ReadFails(b) \/ RecheckRetired(b) \/ StoreFails(b)
      PROVE  pc'[a] = "done" /\ envelope'[a] \in {"retired", "persistence"}
  BY <1>4 DEF CheckRetired, ReadFails, RecheckRetired, StoreFails, Respond, LedgerInv, TypeOK
<1>5. ASSUME NEW b \in Attempts,
             InsertReceipt(b) \/ InsertFails(b) \/ FenceRuntime(b) \/ InstallTombstone(b)
             \/ StoreOutcome(b)
      PROVE  FALSE
  BY <1>5 DEF InsertReceipt, InsertFails, FenceRuntime, InstallTombstone, StoreOutcome
<1>6. ASSUME NEW k \in Calls, CallStep(k)
      PROVE  FALSE
  BY <1>6 DEF CallStep, Send, Receive, Retry, GiveUp
<1>7. CASE Restart \/ UNCHANGED vars
  BY <1>7 DEF Restart, vars
<1> QED
  BY <1>1, <1>2, <1>3, <1>4, <1>5, <1>6, <1>7 DEF Next, FiberStep

\* A caller is only ever told what a fiber answered, or nothing.
LEMMA ResultChanges ==
  ASSUME LedgerInv, [Next]_vars, NEW k \in Calls, result'[k] # result[k]
  PROVE  \/ result'[k] = "unknown"
         \/ \E a \in Attempts : a[1] = k /\ result'[k] = envelope[a]
<1>1. AttemptOf(k) \in Attempts /\ AttemptOf(k)[1] = k
  BY DEF Attempts, AttemptOf
<1>2. ASSUME NEW a \in Attempts, FiberStep(a)
      PROVE  UNCHANGED result
  BY <1>2 DEF FiberStep, CheckRetired, ReadReceipt, ReadFails, InsertReceipt, InsertFails,
              RecheckRetired, Execute, FenceRuntime, InstallTombstone, PurgeReceipts, QuiesceFails,
              StoreOutcome, StoreFails
<1>3. ASSUME NEW l \in Calls, CallStep(l)
      PROVE  result'[k] = "unknown" \/ result'[k] = envelope[AttemptOf(k)]
  BY <1>3 DEF CallStep, Send, Receive, Retry, GiveUp, LedgerInv, TypeOK
<1>4. Restart \/ UNCHANGED vars => UNCHANGED result
  BY DEF Restart, vars
<1> QED
  BY <1>1, <1>2, <1>3, <1>4 DEF Next

\* Where a fiber can get to in one step.
LEMMA PcChanges ==
  ASSUME LedgerInv, [Next]_vars, NEW a \in started, pc'[a] \in Working
  PROVE  pc[a] \in Working
<1>1. ASSUME NEW b \in Attempts, FiberStep(b)
      PROVE  pc[a] \in Working
  BY <1>1 DEF FiberStep, CheckRetired, ReadReceipt, ReadFails, InsertReceipt, InsertFails,
              RecheckRetired, Execute, FenceRuntime, InstallTombstone, PurgeReceipts, QuiesceFails,
              StoreOutcome, StoreFails, Goto, Respond, AfterQuiesce, Working, LedgerInv, TypeOK,
              FiberHistory, Early
<1>2. ASSUME NEW k \in Calls, CallStep(k)
      PROVE  pc[a] \in Working
  BY <1>2 DEF CallStep, Send, Receive, Retry, GiveUp, Goto, Working, LedgerInv, TypeOK
<1>3. Restart \/ UNCHANGED vars => pc[a] \in Working
  BY DEF Restart, vars, Working, LedgerInv, TypeOK
<1> QED
  BY <1>1, <1>2, <1>3 DEF Next

\* An attempt starts only by inserting its own receipt.
LEMMA NewlyStarted ==
  ASSUME LedgerInv, [Next]_vars, NEW a \in started', a \notin started
  PROVE  a \in Attempts /\ receipt'[IdOfA(a)].status = "running"
<1>1. ASSUME NEW b \in Attempts, InsertReceipt(b)
      PROVE  a \in Attempts /\ receipt'[IdOfA(a)].status = "running"
  <2>1. a = b /\ IdOfA(a) \in Ids
    BY <1>1, AttemptTypes DEF InsertReceipt
  <2>2. receipt'[IdOfA(a)] = [status |-> "running", body |-> BodyOfA(a), answer |-> "pending"]
    BY <1>1, <2>1 DEF InsertReceipt, LedgerInv, TypeOK
  <2> QED
    BY <2>1, <2>2
<1>2. ASSUME NEW b \in Attempts, FiberStep(b), ~InsertReceipt(b)
      PROVE  FALSE
  BY <1>2 DEF FiberStep, CheckRetired, ReadReceipt, ReadFails, InsertFails,
              RecheckRetired, Execute, FenceRuntime, InstallTombstone, PurgeReceipts, QuiesceFails,
              StoreOutcome, StoreFails, historyVars
<1>3. ASSUME NEW k \in Calls, CallStep(k)
      PROVE  FALSE
  BY <1>3 DEF CallStep, Send, Receive, Retry, GiveUp, historyVars
<1>4. Restart \/ UNCHANGED vars => FALSE
  BY DEF Restart, vars, historyVars
<1> QED
  BY <1>1, <1>2, <1>3, <1>4 DEF Next

\* Every step keeps UnansweredWhileWorking.
LEMMA NextUnanswered ==
  ASSUME AnswerInv, StableIds, [Next]_vars
  PROVE  UnansweredWhileWorking'
<1> SUFFICES ASSUME NEW a \in started', pc'[a] \in Working, receipt'[IdOfA(a)] # None
             PROVE  receipt'[IdOfA(a)].status = "running"
  BY DEF UnansweredWhileWorking, Receipt
<1> USE DEF AnswerInv
<1>1. CASE a \notin started
  BY <1>1, NewlyStarted
<1>2. CASE a \in started
  <2> DEFINE i == IdOfA(a)
  <2>1. i \in Ids /\ pc[a] \in Working /\ a \in Attempts
    BY <1>2, PcChanges, AttemptTypes DEF LedgerInv, TypeOK
  <2>2. CASE receipt'[i] = receipt[i]
    BY <1>2, <2>1, <2>2 DEF UnansweredWhileWorking, Receipt
  <2>3. CASE Inserted(i)
    BY <2>3 DEF Inserted
  <2>4. CASE Stored(i)
    <3>1. PICK b \in started : pc'[b] = "done" /\ IdOfA(b) = i
      BY <2>4 DEF Stored
    <3>2. a = b
      BY <1>2, <3>1, OneStarted
    <3> QED
      BY <3>1, <3>2 DEF Working
  <2>5. CASE Abandoned(i)
    BY <2>1, <2>5 DEF Abandoned, Working
  <2> QED
    BY <2>1, <2>2, <2>3, <2>4, <2>5, ReceiptChanges
<1> QED
  BY <1>1, <1>2

\* Every step keeps RefusalsHaveOrigin.
LEMMA NextRefusals ==
  ASSUME AnswerInv, [Next]_vars
  PROVE  RefusalsHaveOrigin'
<1> USE DEF AnswerInv
<1>1. ASSUME NEW i \in Ids, receipt'[i] # None, receipt'[i].answer = "refused"
      PROVE  RefusedBy(i)'
  <2>1. RefusedBy(i)
    <3>1. CASE receipt'[i] = receipt[i]
      BY <1>1, <3>1 DEF RefusalsHaveOrigin
    <3>2. CASE Inserted(i) \/ Abandoned(i)
      BY <1>1, <3>2 DEF Inserted, Abandoned
    <3>3. CASE Stored(i)
      BY <1>1, <3>3 DEF Stored, RefusalsHaveOrigin, LedgerInv, TypeOK
    <3> QED
      BY <1>1, <3>1, <3>2, <3>3, ReceiptChanges
  <2> QED
    BY <2>1, RefusedByStays
<1>2. ASSUME NEW a \in Attempts, envelope'[a] = "refused"
      PROVE  RefusedBy(IdOfA(a))'
  <2>1. CASE envelope[a] = "refused"
    BY <2>1, RefusedByStays DEF RefusalsHaveOrigin
  <2>2. CASE Receipt(a) # None /\ Receipt(a).answer = "refused"
    BY <2>2, AttemptTypes, RefusedByStays DEF RefusalsHaveOrigin, Receipt
  <2>3. CASE pc[a] = "execute" /\ pc'[a] = "store" /\ UNCHANGED applied
    <3>1. a \in started' /\ a \notin applied'
      BY <2>3, HistoryGrows DEF LedgerInv, FiberHistory
    <3> QED
      BY <2>3, <3>1 DEF RefusedBy
  <2> QED
    BY <1>2, <2>1, <2>2, <2>3, EnvelopeChanges
<1>3. ASSUME NEW k \in Calls, result'[k] = "refused"
      PROVE  RefusedBy(IdOf[k])'
  <2>1. RefusedBy(IdOf[k])
    BY <1>3, ResultChanges DEF RefusalsHaveOrigin, IdOfA
  <2> QED
    BY <2>1, RefusedByStays
<1> QED
  BY <1>1, <1>2, <1>3 DEF RefusalsHaveOrigin

\* Every step keeps ReceiptsHaveOrigin.
LEMMA NextOrigins ==
  ASSUME AnswerInv, [Next]_vars
  PROVE  ReceiptsHaveOrigin'
<1> USE DEF AnswerInv
<1>1. ASSUME NEW i \in Ids, receipt'[i] # None
      PROVE  \E b \in started' : IdOfA(b) = i /\ BodyOfA(b) = receipt'[i].body
  <2>1. CASE receipt'[i] = receipt[i] \/ Stored(i) \/ Abandoned(i)
    BY <1>1, <2>1, HistoryGrows DEF ReceiptsHaveOrigin, Stored, Abandoned
  <2>2. CASE Inserted(i)
    BY <2>2 DEF Inserted
  <2> QED
    BY <1>1, <2>1, <2>2, ReceiptChanges
<1>2. ASSUME NEW a \in Attempts, pc'[a] \in {"quiesce", "tombstone", "purge"}
      PROVE  BodyOfA(a) \in Quiesce
  <2>1. ASSUME NEW b \in Attempts, FiberStep(b)
        PROVE  BodyOfA(a) \in Quiesce
    BY <1>2, <2>1
       DEF FiberStep, CheckRetired, ReadReceipt, ReadFails, InsertReceipt, InsertFails,
           RecheckRetired, Execute, FenceRuntime, InstallTombstone, PurgeReceipts, QuiesceFails,
           StoreOutcome, StoreFails, Goto, Respond, AfterQuiesce, LedgerInv, TypeOK,
           ReceiptsHaveOrigin
  <2>2. ASSUME NEW k \in Calls, CallStep(k)
        PROVE  BodyOfA(a) \in Quiesce
    BY <1>2, <2>2 DEF CallStep, Send, Receive, Retry, GiveUp, Goto, LedgerInv, TypeOK,
                      ReceiptsHaveOrigin
  <2>3. Restart \/ UNCHANGED vars => BodyOfA(a) \in Quiesce
    BY <1>2 DEF Restart, vars, LedgerInv, TypeOK, ReceiptsHaveOrigin
  <2> QED
    BY <2>1, <2>2, <2>3 DEF Next
<1> QED
  BY <1>1, <1>2 DEF ReceiptsHaveOrigin, BodyOfA

\* A fiber gets to the store of its outcome from its execution only.
LEMMA MovesToStore ==
  ASSUME LedgerInv, [Next]_vars, NEW a \in Attempts, pc'[a] = "store", pc[a] # "store"
  PROVE  \/ pc[a] \in {"quiesce", "tombstone", "purge"}
         \/ envelope'[a] = "ok" => a \in applied'
<1>1. ASSUME NEW b \in Attempts, Execute(b)
      PROVE  envelope'[a] = "ok" => a \in applied'
  BY <1>1 DEF Execute, Goto, LedgerInv, TypeOK
<1>2. ASSUME NEW b \in Attempts, FiberStep(b), ~Execute(b)
      PROVE  pc[a] \in {"quiesce", "tombstone", "purge"}
  BY <1>2 DEF FiberStep, CheckRetired, ReadReceipt, ReadFails, InsertReceipt, InsertFails,
              RecheckRetired, FenceRuntime, InstallTombstone, PurgeReceipts, QuiesceFails,
              StoreOutcome, StoreFails, Goto, Respond, AfterQuiesce, LedgerInv, TypeOK
<1>3. ASSUME NEW k \in Calls, CallStep(k)
      PROVE  FALSE
  BY <1>3 DEF CallStep, Send, Receive, Retry, GiveUp, Goto, LedgerInv, TypeOK
<1>4. Restart \/ UNCHANGED vars => FALSE
  BY DEF Restart, vars, LedgerInv, TypeOK
<1> QED
  BY <1>1, <1>2, <1>3, <1>4 DEF Next

\* Every step keeps SuccessesHaveOrigin.
LEMMA NextSuccesses ==
  ASSUME AnswerInv, StableIds, [Next]_vars
  PROVE  SuccessesHaveOrigin'
<1> USE DEF AnswerInv
<1>1. ASSUME NEW i \in Ids, receipt'[i] # None, receipt'[i].answer = "ok"
      PROVE  receipt'[i].body \in Quiesce
             \/ \E b \in applied' : IdOfA(b) = i /\ BodyOfA(b) = receipt'[i].body
  <2>1. CASE receipt'[i] = receipt[i]
    BY <1>1, <2>1, HistoryGrows DEF SuccessesHaveOrigin
  <2>2. CASE Inserted(i) \/ Abandoned(i)
    BY <1>1, <2>2 DEF Inserted, Abandoned
  <2>3. CASE Stored(i)
    <3>1. PICK a \in started : pc[a] = "store" /\ IdOfA(a) = i /\ envelope[a] = "ok"
      BY <1>1, <2>3 DEF Stored
    <3>2. PICK b \in started : IdOfA(b) = i /\ BodyOfA(b) = receipt'[i].body
      BY <2>3 DEF Stored, ReceiptsHaveOrigin
    <3>3. a = b
      BY <3>1, <3>2, OneStarted
    <3>4. BodyOfA(a) \in Quiesce \/ a \in applied'
      BY <3>1, HistoryGrows DEF SuccessesHaveOrigin, LedgerInv, TypeOK
    <3> QED
      BY <3>1, <3>2, <3>3, <3>4
  <2> QED
    BY <1>1, <2>1, <2>2, <2>3, ReceiptChanges
<1>2. ASSUME NEW a \in Attempts, pc'[a] = "store", envelope'[a] = "ok"
      PROVE  BodyOfA(a) \in Quiesce \/ a \in applied'
  <2>1. CASE pc[a] = "store"
    <3>1. envelope'[a] = envelope[a]
      BY <1>2, <2>1, EnvelopeChanges
    <3> QED
      BY <1>2, <2>1, <3>1, HistoryGrows DEF SuccessesHaveOrigin
  <2>2. CASE pc[a] # "store"
    BY <1>2, <2>2, MovesToStore DEF ReceiptsHaveOrigin
  <2> QED
    BY <2>1, <2>2
<1>3. ASSUME NEW a \in Attempts, envelope'[a] = "ok"
      PROVE  SucceededFor(IdOfA(a), BodyOfA(a))'
  <2>1. CASE envelope[a] = "ok"
    BY <2>1, SucceededForStays DEF SuccessesHaveOrigin
  <2>2. CASE Receipt(a) # None /\ Certifies(Receipt(a), BodyOfA(a)) /\ Receipt(a).answer = "ok"
    <3>1. IdOfA(a) \in Ids /\ a[1] \in Calls
      BY AttemptTypes
    <3>2. CASE Receipt(a).body \in Quiesce
      <4>1. PICK b \in started : IdOfA(b) = IdOfA(a) /\ BodyOfA(b) \in Quiesce
        BY <2>2, <3>1, <3>2 DEF ReceiptsHaveOrigin, Receipt
      <4>2. b[1] \in Calls
        BY <4>1, AttemptTypes DEF LedgerInv, TypeOK
      <4>3. BodyOfA(a) \in Quiesce
        BY <3>1, <4>1, <4>2 DEF StableIds, IdOfA, BodyOfA
      <4> QED
        BY <4>3 DEF SucceededFor, BodyOfA
    <3>3. CASE Receipt(a).body \notin Quiesce
      <4>1. PICK b \in applied : IdOfA(b) = IdOfA(a) /\ BodyOfA(b) = Receipt(a).body
        BY <2>2, <3>1, <3>3 DEF SuccessesHaveOrigin, Receipt
      <4>2. Certifies([body |-> BodyOfA(b)], BodyOfA(a))
        BY <2>2, <4>1 DEF Certifies
      <4> QED
        BY <4>1, <4>2, SucceededForStays DEF SucceededFor
    <3> QED
      BY <3>2, <3>3
  <2>3. CASE a \in applied'
    <3>1. Certifies([body |-> BodyOfA(a)], BodyOfA(a))
      BY DEF Certifies
    <3> QED
      BY <2>3, <3>1 DEF SucceededFor
  <2>4. CASE pc[a] \in {"quiesce", "tombstone", "purge"}
    BY <2>4 DEF ReceiptsHaveOrigin, SucceededFor
  <2> QED
    BY <1>3, <2>1, <2>2, <2>3, <2>4, EnvelopeChanges
<1>4. ASSUME NEW k \in Calls, result'[k] = "ok"
      PROVE  SucceededFor(IdOf[k], BodyOf[k])'
  <2>1. SucceededFor(IdOf[k], BodyOf[k])
    BY <1>4, ResultChanges DEF SuccessesHaveOrigin, IdOfA, BodyOfA
  <2> QED
    BY <2>1, SucceededForStays
<1> QED
  BY <1>1, <1>2, <1>3, <1>4 DEF SuccessesHaveOrigin

\* With stable ids the invariant about answers holds in every reachable state.
LEMMA AnswerInvariance == StableIds /\ Spec => [](StableIds /\ AnswerInv)
<1>1. StableIds /\ Init => StableIds /\ AnswerInv
  BY InitAnswerInv
<1>2. StableIds /\ AnswerInv /\ [Next]_vars => (StableIds /\ AnswerInv)'
  <2>1. StableIds => StableIds'
    BY DEF StableIds
  <2> QED
    BY <2>1, NextLedgerInv, NextUnanswered, NextRefusals, NextOrigins, NextSuccesses DEF AnswerInv
<1> QED
  BY <1>1, <1>2, PTL DEF Spec

\* A caller told of a refusal before the mutation boundary can compensate: none
\* of its attempts changed the provider (RemoteProviderService.ts:430).
THEOREM RefusalsAreDefinite == StableIds /\ Spec => []RefusalIsDefinite
<1>1. AnswerInv /\ StableIds => RefusalIsDefinite
  <2> SUFFICES ASSUME AnswerInv, StableIds, NEW k \in Calls, result[k] = "refused",
                      NEW a \in applied, a[1] = k
               PROVE  FALSE
    BY DEF RefusalIsDefinite
  <2>1. PICK b \in started : IdOfA(b) = IdOf[k] /\ b \notin applied
    BY DEF AnswerInv, RefusalsHaveOrigin, RefusedBy
  <2>2. a \in started /\ IdOfA(a) = IdOfA(b)
    BY <2>1 DEF AnswerInv, LedgerInv, TypeOK, IdOfA
  <2> QED
    BY <2>1, <2>2, OneStarted DEF AnswerInv
<1> QED
  BY <1>1, AnswerInvariance, PTL

\* A caller told of success holds the receipt of an attempt that was applied,
\* of exactly its body when the method is identity bound (CommandLedger.ts:515).
THEOREM SuccessesAreCertified == StableIds /\ Spec => []SuccessIsCertified
<1>1. AnswerInv => SuccessIsCertified
  BY DEF AnswerInv, SuccessesHaveOrigin, SucceededFor, SuccessIsCertified, Certifies
<1> QED
  BY <1>1, AnswerInvariance, PTL

\* A settled receipt keeps its answer until its thread is purged, so that every
\* later duplicate is told the same (runOnce, CommandLedger.ts:541).
THEOREM SettledReceiptsKeepTheirAnswer == StableIds /\ Spec => ReceiptsAreFinal
<1>1. AnswerInv /\ StableIds /\ [Next]_vars =>
        [\A i \in Ids : receipt[i].status \in {"completed", "failed"} =>
           receipt'[i] = receipt[i] \/ receipt'[i] = None]_vars
  <2> SUFFICES ASSUME AnswerInv, StableIds, [Next]_vars, NEW i \in Ids,
                      receipt[i].status \in {"completed", "failed"},
                      receipt'[i] # receipt[i], receipt'[i] # None
               PROVE  FALSE
    OBVIOUS
  <2>1. CASE Inserted(i)
    BY <2>1 DEF Inserted, None
  <2>2. CASE Stored(i)
    <3>1. PICK a \in started : pc[a] = "store" /\ IdOfA(a) = i
      BY <2>2 DEF Stored
    <3> QED
      BY <2>2, <3>1 DEF Stored, AnswerInv, UnansweredWhileWorking, Working, Receipt
  <2>3. CASE Abandoned(i)
    BY <2>3 DEF Abandoned
  <2> QED
    BY <2>1, <2>2, <2>3, ReceiptChanges DEF AnswerInv
<1> QED
  BY <1>1, AnswerInvariance, PTL DEF Spec, ReceiptsAreFinal

=============================================================================
