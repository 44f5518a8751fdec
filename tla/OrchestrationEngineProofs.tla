--------------------- MODULE OrchestrationEngineProofs ---------------------
(***************************************************************************)
(* Proofs about OrchestrationEngine, for every set of commands, threads    *)
(* and projectors, every read limit and any number of faults.              *)
(* The later parts assume that no version of the server adds a projector,  *)
(* and the last ones that a read is long enough for every batch: what goes *)
(* wrong otherwise is a finding of the project.                            *)
(***************************************************************************)
EXTENDS OrchestrationEngine, EnumerationProofs

Types == {"created", "archived", "message", "intent", "failed", "delivered"}
Entries == [cmd : Commands, type : Types]

\* The rows of the store are entries of the log, and every projector holds stored
\* events only.
Stored ==
  /\ log \in Seq(Entries)
  /\ events \subseteq 1..Len(log)
  /\ rows \in [Projectors -> SUBSET events]

\* What is retired or purged has its tombstone.
Fenced == retiring \subseteq tombstones /\ purged \subseteq tombstones

WorkerOK ==
  \/ worker = Idle
  \/ worker \in [pc : {"committing", "committed"}, dispatch : Dispatches]
  \/ worker \in [pc : {"failed", "rejecting"}, dispatch : Dispatches, invariant : BOOLEAN]

\* The worker appends, or records as rejected, only what has no receipt.
Refusing == worker.pc = "rejecting" \/ (worker.pc = "failed" /\ worker.invariant)
WorkerHistory ==
  worker # Idle =>
    LET c == worker.dispatch[1] IN
    /\ worker.pc = "committing" => receipts[c] = NoReceipt
    /\ worker.pc = "committed" => AppliedIn(c) # {}
    /\ Refusing /\ ThreadOf[c] \notin tombstones => receipts[c] = NoReceipt

Interval(c) == \E s \in 1..Len(log) : AppliedIn(c) = s..(s + Len(Batch(c)) - 1)

\* What a receipt says of its command, the interval included that CommandOnce is about.
ReceiptHistory ==
  /\ DOMAIN receipts = Commands
  /\ \A c \in Commands :
       /\ AppliedIn(c) # {} => Interval(c)
       /\ receipts[c].status = "accepted" =>
            /\ AppliedIn(c) # {}
            /\ receipts[c].seq \in AppliedIn(c)
            /\ \A s \in AppliedIn(c) : s <= receipts[c].seq
       /\ receipts[c].status = "rejected" => AppliedIn(c) = {}
       /\ AppliedIn(c) # {} /\ ThreadOf[c] \notin purged => receipts[c].status = "accepted"

Told ==
  /\ DOMAIN reply = Dispatches
  /\ AcceptedIsDurable

EngineInv ==
  /\ Stored /\ Fenced /\ WorkerOK /\ WorkerHistory /\ ReceiptHistory /\ Told
  /\ PurgedStaysPurged

-----------------------------------------------------------------------------
(* Batches *)

\* One-entry and two-entry sequences.
LEMMA OneEntry == ASSUME NEW S, NEW x \in S PROVE <<x>> \in Seq(S) /\ Len(<<x>>) = 1
OBVIOUS

LEMMA TwoEntries ==
  ASSUME NEW S, NEW x \in S, NEW y \in S
  PROVE  <<x, y>> \in Seq(S) /\ Len(<<x, y>>) = 2
OBVIOUS

\* A command appends one or two entries, all with its id.
LEMMA BatchType ==
  ASSUME CommandsAssumption, NEW c \in Commands
  PROVE  /\ Batch(c) \in Seq(Entries)
         /\ Len(Batch(c)) \in {1, 2}
         /\ \A i \in 1..Len(Batch(c)) : Batch(c)[i].cmd = c
<1>1. PICK T : T = EventTypes[KindOf[c]]
  OBVIOUS
<1>2. T \in Seq(Types) /\ Len(T) \in {1, 2}
  <2>1. KindOf[c] \in {"create", "archive", "start", "failed", "deliver"}
    BY DEF CommandsAssumption, EventTypes
  <2>2. /\ EventTypes["create"] = <<"created">> /\ EventTypes["archive"] = <<"archived">>
        /\ EventTypes["start"] = <<"message", "intent">>
        /\ EventTypes["failed"] = <<"failed">> /\ EventTypes["deliver"] = <<"delivered">>
    BY DEF EventTypes
  <2>4. T \in {<<"created">>, <<"archived">>, <<"message", "intent">>, <<"failed">>,
               <<"delivered">>}
    BY <1>1, <2>1, <2>2
  <2>5. CASE T = <<"message", "intent">>
    BY <2>5, TwoEntries DEF Types
  <2>6. CASE T = <<"created">>
    BY <2>6, OneEntry DEF Types
  <2>7. CASE T = <<"archived">>
    BY <2>7, OneEntry DEF Types
  <2>8. CASE T = <<"failed">>
    BY <2>8, OneEntry DEF Types
  <2>9. CASE T = <<"delivered">>
    BY <2>9, OneEntry DEF Types
  <2> QED
    BY <2>4, <2>5, <2>6, <2>7, <2>8, <2>9
<1>3. PICK n \in {1, 2} : Len(T) = n /\ DOMAIN T = 1..n
  BY <1>2
<1>4. Batch(c) = [i \in 1..n |-> [cmd |-> c, type |-> T[i]]]
  BY <1>1, <1>3 DEF Batch
<1>5. \A i \in 1..n : [cmd |-> c, type |-> T[i]] \in Entries
  BY <1>2, <1>3 DEF Entries
<1>6. Batch(c) \in [1..n -> Entries]
  BY <1>4, <1>5
<1>7. Batch(c) \in Seq(Entries) /\ Len(Batch(c)) = n
  BY <1>4, <1>6
<1> QED
  BY <1>3, <1>4, <1>7

\* Appending a batch keeps what the log held and puts the command behind it.
LEMMA AppendBatch ==
  ASSUME CommandsAssumption, NEW c \in Commands, NEW L \in Seq(Entries)
  PROVE  /\ L \o Batch(c) \in Seq(Entries)
         /\ Len(L \o Batch(c)) = Len(L) + Len(Batch(c))
         /\ \A s \in 1..Len(L) : (L \o Batch(c))[s] = L[s]
         /\ \A s \in (Len(L) + 1)..(Len(L) + Len(Batch(c))) : (L \o Batch(c))[s].cmd = c
<1> DEFINE B == Batch(c)
<1>1. B \in Seq(Entries) /\ Len(B) \in Nat /\ \A i \in 1..Len(B) : B[i].cmd = c
  BY BatchType
<1> HIDE DEF B
<1>2. Len(L) \in Nat
  OBVIOUS
<1>3. Len(L \o B) = Len(L) + Len(B) /\ L \o B \in Seq(Entries)
  BY <1>1
<1>4. \A s \in 1..Len(L) : (L \o B)[s] = L[s]
  BY <1>1
<1>5. ASSUME NEW s \in (Len(L) + 1)..(Len(L) + Len(B))
      PROVE  (L \o B)[s].cmd = c
  <2>1. s - Len(L) \in 1..Len(B)
    BY <1>1, <1>2
  <2>2. (L \o B)[s] = B[s - Len(L)]
    BY <1>1, <1>2
  <2> QED
    BY <1>1, <2>1, <2>2
<1> QED
  BY <1>3, <1>4, <1>5 DEF B

-----------------------------------------------------------------------------
(* The transaction *)

\* The positions a batch of b entries takes behind n others.
LEMMA Positions ==
  ASSUME NEW n \in Nat, NEW b \in {1, 2}
  PROVE  /\ n + b \in (n + 1)..(n + b)
         /\ \A s \in (n + 1)..(n + b) : s <= n + b
         /\ n + 1 \in 1..(n + b)
         /\ (n + 1)..(n + b) = (n + 1)..((n + 1) + b - 1)
         /\ 1..n \subseteq 1..(n + b) /\ (n + 1)..(n + b) \subseteq 1..(n + b)
OBVIOUS

\* A dispatch carries a command.
LEMMA DispatchType == ASSUME EngineAssumption, NEW d \in Dispatches PROVE d[1] \in Commands
BY DEF EngineAssumption, Dispatches

\* What appending a batch does to the positions each command occupies.
LEMMA AppliedAfter ==
  ASSUME CommandsAssumption, log \in Seq(Entries), NEW c \in Commands,
         log' = log \o Batch(c)
  PROVE  /\ AppliedIn(c)' = AppliedIn(c) \cup Appended(c)
         /\ \A k \in Commands : k # c => AppliedIn(k)' = AppliedIn(k)
<1>1. /\ log' \in Seq(Entries) /\ Len(log') = Len(log) + Len(Batch(c))
      /\ \A s \in 1..Len(log) : log'[s] = log[s]
      /\ \A s \in (Len(log) + 1)..(Len(log) + Len(Batch(c))) : log'[s].cmd = c
  BY AppendBatch
<1>2. Len(log) \in Nat /\ Len(Batch(c)) \in Nat
  BY BatchType
<1>3. DOMAIN log = 1..Len(log) /\ DOMAIN log' = 1..(Len(log) + Len(Batch(c)))
  BY <1>1
<1>4. DOMAIN log' = DOMAIN log \cup Appended(c)
  BY <1>2, <1>3 DEF Appended, LastSequence
<1>5. \A s \in DOMAIN log : log'[s] = log[s]
  BY <1>1, <1>3
<1>6. \A s \in Appended(c) : log'[s].cmd = c
  BY <1>1 DEF Appended, LastSequence
<1>7. AppliedIn(c)' = AppliedIn(c) \cup Appended(c)
  BY <1>4, <1>5, <1>6 DEF AppliedIn
<1>8. ASSUME NEW k \in Commands, k # c PROVE AppliedIn(k)' = AppliedIn(k)
  BY <1>4, <1>5, <1>6, <1>8 DEF AppliedIn
<1> QED
  BY <1>7, <1>8

\* A command without receipt whose thread is not purged has left nothing in the log.
LEMMA NothingApplied ==
  ASSUME ReceiptHistory, NEW c \in Commands, receipts[c] = NoReceipt, ThreadOf[c] \notin purged
  PROVE  AppliedIn(c) = {}
BY DEF ReceiptHistory, NoReceipt

\* The transaction of a command without receipt keeps every part of the invariant that
\* is about the database.
LEMMA PersistKeepsStore ==
  ASSUME CommandsAssumption, EngineInv, NEW c \in Commands, Persist(c),
         receipts[c] = NoReceipt
  PROVE  /\ Stored' /\ ReceiptHistory' /\ PurgedStaysPurged'
         /\ AppliedIn(c)' # {}
         /\ \A k \in Commands : AppliedIn(k) # {} => AppliedIn(k)' # {}
         /\ \A k \in Commands : k # c => receipts'[k] = receipts[k]
<1> DEFINE n == Len(log)
           b == Len(Batch(c))
<1>1. /\ log' = log \o Batch(c)
      /\ events' = events \cup Appended(c)
      /\ rows' = [p \in Projectors |->
                    IF p \in installed THEN rows[p] \cup Appended(c) ELSE rows[p]]
      /\ receipts' = [receipts EXCEPT ![c] = [status |-> "accepted", seq |-> n + b]]
      /\ purged' = purged /\ tombstones' = tombstones
      /\ ThreadOf[c] \notin tombstones
  BY DEF Persist, LastSequence
<1>2. /\ log' \in Seq(Entries) /\ Len(log') = n + b
      /\ \A s \in 1..n : log'[s] = log[s]
      /\ \A s \in (n + 1)..(n + b) : log'[s].cmd = c
  BY <1>1, AppendBatch DEF EngineInv, Stored
<1>3. n \in Nat /\ b \in {1, 2}
  BY BatchType DEF EngineInv, Stored
<1>4. Appended(c) = (n + 1)..(n + b)
  BY DEF Appended, LastSequence
<1>5. AppliedIn(c) = {}
  BY <1>1, NothingApplied DEF EngineInv, Fenced
<1>6. /\ AppliedIn(c)' = (n + 1)..(n + b)
      /\ \A k \in Commands : k # c => AppliedIn(k)' = AppliedIn(k)
  BY <1>1, <1>4, <1>5, AppliedAfter DEF EngineInv, Stored
<1>7. Stored'
  <2>1. events' \subseteq 1..Len(log')
    <3>1. events \subseteq 1..n /\ 1..n \subseteq 1..(n + b) /\ Appended(c) \subseteq 1..(n + b)
      BY <1>3, <1>4, Positions DEF EngineInv, Stored
    <3> QED
      BY <1>1, <1>2, <3>1
  <2>2. rows' \in [Projectors -> SUBSET events']
    BY <1>1 DEF EngineInv, Stored
  <2> QED
    BY <1>2, <2>1, <2>2 DEF Stored
<1>8. n + b \in (n + 1)..(n + b) /\ \A s \in (n + 1)..(n + b) : s <= n + b
  BY <1>3, Positions
<1>9. receipts'[c] = [status |-> "accepted", seq |-> n + b] /\ DOMAIN receipts' = Commands
      /\ \A k \in Commands : k # c => receipts'[k] = receipts[k]
  BY <1>1 DEF EngineInv, ReceiptHistory
<1>10. Interval(c)'
  <2>1. n + 1 \in 1..(n + b) /\ (n + 1)..(n + b) = (n + 1)..((n + 1) + b - 1)
    BY <1>3, Positions
  <2> QED
    BY <1>2, <1>6, <2>1 DEF Interval
<1>11. \A k \in Commands : k # c /\ Interval(k) => Interval(k)'
  <2>1. 1..n \subseteq 1..(n + b)
    BY <1>3, Positions
  <2> QED
    BY <1>2, <1>6, <2>1 DEF Interval
<1>12. ReceiptHistory'
  <2>1. ASSUME NEW k \in Commands
        PROVE  /\ AppliedIn(k)' # {} => Interval(k)'
               /\ receipts'[k].status = "accepted" =>
                    /\ AppliedIn(k)' # {}
                    /\ receipts'[k].seq \in AppliedIn(k)'
                    /\ \A s \in AppliedIn(k)' : s <= receipts'[k].seq
               /\ receipts'[k].status = "rejected" => AppliedIn(k)' = {}
               /\ AppliedIn(k)' # {} /\ ThreadOf[k] \notin purged' =>
                    receipts'[k].status = "accepted"
    <3>1. CASE k = c
      <4>1. receipts'[c].status = "accepted" /\ receipts'[c].seq = n + b
        BY <1>9
      <4> QED
        BY <3>1, <1>6, <1>8, <1>10, <4>1
    <3>2. CASE k # c
      BY <3>2, <1>1, <1>6, <1>9, <1>11 DEF EngineInv, ReceiptHistory
    <3> QED
      BY <3>1, <3>2
  <2> QED
    BY <1>9, <2>1 DEF ReceiptHistory
<1>13. PurgedStaysPurged'
  <2> SUFFICES ASSUME NEW t \in purged'
               PROVE  /\ OfThread(events, t)' = {}
                      /\ \A p \in Projectors : OfThread(rows[p], t)' = {}
                      /\ \A k \in Commands : ThreadOf[k] = t => receipts'[k] = NoReceipt
    BY DEF PurgedStaysPurged
  <2>1. ThreadOf[c] # t /\ t \in purged
    BY <1>1 DEF EngineInv, Fenced
  <2>2. \A s \in events' : ThreadOf[log'[s].cmd] # t
    BY <1>1, <1>2, <1>4, <2>1 DEF EngineInv, Stored, PurgedStaysPurged, OfThread
  <2>3. \A p \in Projectors : rows'[p] \subseteq events'
    BY <1>7 DEF Stored
  <2>4. \A k \in Commands : ThreadOf[k] = t => receipts'[k] = NoReceipt
    BY <1>9, <2>1 DEF EngineInv, PurgedStaysPurged
  <2> QED
    BY <2>2, <2>3, <2>4 DEF OfThread
<1> QED
  BY <1>6, <1>7, <1>8, <1>9, <1>12, <1>13

-----------------------------------------------------------------------------
(* Steps that leave the log and the receipts alone *)

\* Whatever else a step does, the parts about the database stay as they are while it
\* only adds tombstones.
LEMMA StoreUntouched ==
  ASSUME EngineInv, UNCHANGED <<log, events, receipts, rows, purged>>,
         tombstones \subseteq tombstones', retiring' \subseteq tombstones'
  PROVE  /\ Stored' /\ Fenced' /\ ReceiptHistory' /\ PurgedStaysPurged'
         /\ worker' \in {worker, Idle} => WorkerOK' /\ WorkerHistory'
<1>1. \A k : AppliedIn(k)' = AppliedIn(k) /\ Interval(k)' = Interval(k)
  BY DEF AppliedIn, Interval
<1>2. Stored' /\ Fenced'
  BY DEF EngineInv, Stored, Fenced
<1>3. ReceiptHistory'
  BY <1>1 DEF EngineInv, ReceiptHistory
<1>4. PurgedStaysPurged'
  BY DEF EngineInv, PurgedStaysPurged, OfThread
<1>5. worker' \in {worker, Idle} => WorkerOK' /\ WorkerHistory'
  BY <1>1 DEF EngineInv, WorkerOK, WorkerHistory, Refusing
<1> QED
  BY <1>2, <1>3, <1>4, <1>5

\* Nobody is told of an acceptance whose events are not in the log.
LEMMA StillTold ==
  ASSUME EngineInv, DOMAIN reply' = DOMAIN reply,
         \A d \in Dispatches : AppliedIn(d[1]) # {} => AppliedIn(d[1])' # {},
         \A d \in Dispatches : reply'[d] = "accepted" =>
           reply[d] = "accepted" \/ AppliedIn(d[1])' # {}
  PROVE  Told'
BY DEF EngineInv, Told, AcceptedIsDurable

\* A step that moves at most the queue, a deletion or the process.
LEMMA QuietStep ==
  ASSUME EngineInv, UNCHANGED <<log, events, receipts, rows, purged>>,
         tombstones \subseteq tombstones', retiring' \subseteq tombstones',
         worker' \in {worker, Idle}, DOMAIN reply' = DOMAIN reply,
         \A d \in Dispatches : reply'[d] = "accepted" => reply[d] = "accepted"
  PROVE  EngineInv'
<1>1. \A k : AppliedIn(k)' = AppliedIn(k)
  BY DEF AppliedIn
<1>2. Told'
  BY <1>1, StillTold
<1> QED
  BY <1>2, StoreUntouched DEF EngineInv

\* What the worker does with a command it refuses, admits or answers for.
LEMMA TakingSteps ==
  ASSUME CommandsAssumption, EngineAssumption, EngineInv, NEW d \in Dispatches,
         AnswerFromReceipt(d) \/ Refuse(d) \/ Admit(d)
  PROVE  EngineInv'
<1>1. /\ UNCHANGED <<log, events, receipts, rows, purged, tombstones, retiring>>
      /\ worker = Idle
  BY DEF AnswerFromReceipt, Refuse, Admit, Takes, durable
<1>2. \A k : AppliedIn(k)' = AppliedIn(k)
  BY <1>1 DEF AppliedIn
<1>3. d[1] \in Commands
  BY DispatchType
<1>4. Stored' /\ Fenced' /\ ReceiptHistory' /\ PurgedStaysPurged'
  BY <1>1, StoreUntouched DEF EngineInv, Fenced
<1>5. CASE AnswerFromReceipt(d)
  <2>1. reply' = [reply EXCEPT ![d] = receipts[d[1]].status] /\ worker' = worker
    BY <1>5 DEF AnswerFromReceipt
  <2>2. Told'
    BY <1>2, <1>3, <2>1, StillTold DEF EngineInv, Told, ReceiptHistory
  <2> QED
    BY <1>1, <1>4, <2>1, <2>2, StoreUntouched DEF EngineInv, Fenced
<1>6. CASE Refuse(d)
  <2>1. worker' = [pc |-> "failed", dispatch |-> d, invariant |-> TRUE] /\ reply' = reply
        /\ Refused(d[1])
    BY <1>6 DEF Refuse
  <2>2. WorkerOK'
    BY <2>1 DEF WorkerOK
  <2>3. ThreadOf[d[1]] \in tombstones \/ receipts[d[1]] = NoReceipt
    BY <2>1 DEF Refused, NotRetired, EngineInv, Fenced
  <2>4. WorkerHistory'
    BY <1>1, <2>1, <2>3 DEF WorkerHistory, Refusing, NoReceipt
  <2>5. Told'
    BY <1>2, <2>1, StillTold
  <2> QED
    BY <1>4, <2>2, <2>4, <2>5 DEF EngineInv
<1>7. CASE Admit(d)
  <2>1. worker' = [pc |-> "committing", dispatch |-> d] /\ reply' = reply
        /\ receipts[d[1]] = NoReceipt
    BY <1>7 DEF Admit
  <2>2. WorkerOK'
    BY <2>1 DEF WorkerOK
  <2>3. WorkerHistory'
    BY <1>1, <2>1 DEF WorkerHistory, Refusing, NoReceipt
  <2>4. Told'
    BY <1>2, <2>1, StillTold
  <2> QED
    BY <1>4, <2>2, <2>3, <2>4 DEF EngineInv
<1> QED
  BY <1>5, <1>6, <1>7

\* A worker that is not idle works for a dispatch.
LEMMA AtWork ==
  ASSUME EngineAssumption, WorkerOK
  PROVE  /\ worker.pc \in {"committing", "committed"} =>
              /\ worker # Idle /\ worker.dispatch \in Dispatches
              /\ worker.dispatch[1] \in Commands
         /\ worker.pc \in {"failed", "rejecting"} =>
              /\ worker # Idle /\ worker.dispatch \in Dispatches /\ worker.invariant \in BOOLEAN
              /\ worker.dispatch[1] \in Commands
<1>1. worker.pc \in {"committing", "committed", "failed", "rejecting"} => worker # Idle
  BY DEF Idle
<1>2. worker.pc \in {"committing", "committed", "failed", "rejecting"} =>
        worker.dispatch \in Dispatches
  BY <1>1 DEF WorkerOK
<1>3. worker.pc \in {"failed", "rejecting"} => worker.invariant \in BOOLEAN
  BY <1>1 DEF WorkerOK
<1> QED
  BY <1>1, <1>2, <1>3, DispatchType

\* The transaction commits, is reported as failed, or is rolled back.
LEMMA TransactionSteps ==
  ASSUME CommandsAssumption, EngineAssumption, EngineInv, Commit \/ CommitUncertain \/ RollBack
  PROVE  EngineInv'
<1>1. worker.pc = "committing"
  BY DEF Commit, CommitUncertain, RollBack, Persist
<1>2. worker # Idle /\ worker.dispatch \in Dispatches
  BY <1>1, AtWork DEF EngineInv
<1>9. PICK c \in Commands : c = worker.dispatch[1]
  BY <1>1, AtWork DEF EngineInv
<1>3. receipts[c] = NoReceipt
  BY <1>9, <1>1, <1>2 DEF EngineInv, WorkerHistory
<1>4. reply' = reply /\ retiring' = retiring
  BY DEF Commit, CommitUncertain, RollBack
<1>5. CASE Commit \/ CommitUncertain
  <2>1. Persist(c)
    BY <1>9, <1>5 DEF Commit, CommitUncertain
  <2>2. tombstones' = tombstones /\ purged' = purged
    BY <2>1 DEF Persist
  <2>3. /\ Stored' /\ ReceiptHistory' /\ PurgedStaysPurged' /\ AppliedIn(c)' # {}
        /\ \A k \in Commands : AppliedIn(k) # {} => AppliedIn(k)' # {}
    BY <1>3, <2>1, PersistKeepsStore
  <2>4. Fenced'
    BY <1>4, <2>2 DEF EngineInv, Fenced
  <2>5. Told'
    BY <1>4, <2>3, StillTold, DispatchType
  <2>6. WorkerOK' /\ WorkerHistory'
    <3>1. CASE Commit
      <4>1. worker' = [worker EXCEPT !.pc = "committed"]
        BY <3>1 DEF Commit
      <4>2. worker \in [pc : {"committing", "committed"}, dispatch : Dispatches]
        BY <1>1, <1>2 DEF EngineInv, WorkerOK
      <4>3. worker'.pc = "committed" /\ worker'.dispatch = worker.dispatch
            /\ worker' \in [pc : {"committing", "committed"}, dispatch : Dispatches]
        BY <4>1, <4>2
      <4> QED
        BY <1>9, <2>3, <4>3 DEF WorkerOK, WorkerHistory, Refusing
    <3>2. CASE CommitUncertain
      <4>1. worker' = Failing
        BY <3>2 DEF CommitUncertain
      <4> QED
        BY <1>2, <4>1 DEF WorkerOK, WorkerHistory, Refusing, Failing
    <3> QED
      BY <1>5, <3>1, <3>2
  <2> QED
    BY <2>3, <2>4, <2>5, <2>6 DEF EngineInv
<1>6. CASE RollBack
  <2>1. /\ UNCHANGED <<log, events, receipts, rows, purged, tombstones>>
        /\ worker' = Failing
    BY <1>6 DEF RollBack, durable
  <2>2. WorkerOK' /\ WorkerHistory'
    BY <1>2, <2>1 DEF WorkerOK, WorkerHistory, Refusing, Failing
  <2>3. Told'
    <3>1. \A k : AppliedIn(k)' = AppliedIn(k)
      BY <2>1 DEF AppliedIn
    <3> QED
      BY <1>4, <3>1, StillTold
  <2> QED
    BY <1>4, <2>1, <2>2, <2>3, StoreUntouched DEF EngineInv, Fenced
<1> QED
  BY <1>5, <1>6

\* The dispatch ends, or its failure is dealt with.
LEMMA AnsweringSteps ==
  ASSUME CommandsAssumption, EngineAssumption, EngineInv, Finish \/ Reconcile \/ ReconcileFails
  PROVE  EngineInv'
<1>1. UNCHANGED <<log, events, receipts, rows, purged, tombstones, retiring>>
  BY DEF Finish, Reconcile, ReconcileFails, durable
<1>2. \A k : AppliedIn(k)' = AppliedIn(k)
  BY <1>1 DEF AppliedIn
<1>3. Stored' /\ Fenced' /\ ReceiptHistory' /\ PurgedStaysPurged'
  BY <1>1, StoreUntouched DEF EngineInv, Fenced
<1>4. CASE Finish
  <2>1. worker.pc = "committed" /\ worker' = Idle
        /\ reply' = [reply EXCEPT ![worker.dispatch] = "accepted"]
    BY <1>4 DEF Finish
  <2>2. AppliedIn(worker.dispatch[1]) # {}
    BY <2>1, AtWork DEF EngineInv, WorkerHistory
  <2>3. Told'
    BY <1>2, <2>1, <2>2, StillTold DEF EngineInv, Told
  <2>4. WorkerOK' /\ WorkerHistory'
    BY <2>1 DEF WorkerOK, WorkerHistory
  <2> QED
    BY <1>3, <2>3, <2>4 DEF EngineInv
<1>5. CASE Reconcile \/ ReconcileFails
  <2>1. worker.pc = "failed" /\ AfterFailure
    BY <1>5 DEF Reconcile, ReconcileFails
  <2>2. worker # Idle /\ worker.invariant \in BOOLEAN
    BY <2>1, AtWork DEF EngineInv
  <2>3. CASE worker.invariant
    <3>1. worker' = [worker EXCEPT !.pc = "rejecting"] /\ reply' = reply
      BY <2>1, <2>3 DEF AfterFailure
    <3>2. worker \in [pc : {"failed", "rejecting"}, dispatch : Dispatches, invariant : BOOLEAN]
      BY <2>1, <2>2 DEF EngineInv, WorkerOK
    <3>3. /\ worker' \in [pc : {"failed", "rejecting"}, dispatch : Dispatches,
                          invariant : BOOLEAN]
          /\ worker'.pc = "rejecting" /\ worker'.dispatch = worker.dispatch
      BY <3>1, <3>2
    <3>4. ThreadOf[worker.dispatch[1]] \notin tombstones =>
            receipts[worker.dispatch[1]] = NoReceipt
      BY <2>1, <2>2, <2>3 DEF EngineInv, WorkerHistory, Refusing
    <3>5. WorkerOK' /\ WorkerHistory'
      BY <1>1, <3>3, <3>4 DEF WorkerOK, WorkerHistory, Refusing
    <3>6. Told'
      BY <1>2, <3>1, StillTold
    <3> QED
      BY <1>3, <3>5, <3>6 DEF EngineInv
  <2>4. CASE ~worker.invariant
    <3>1. worker' = Idle /\ reply' = [reply EXCEPT ![worker.dispatch] = "failed"]
      BY <2>1, <2>4 DEF AfterFailure
    <3>2. Told'
      BY <1>2, <3>1, StillTold DEF EngineInv, Told
    <3>3. WorkerOK' /\ WorkerHistory'
      BY <3>1 DEF WorkerOK, WorkerHistory
    <3> QED
      BY <1>3, <3>2, <3>3 DEF EngineInv
  <2> QED
    BY <2>2, <2>3, <2>4
<1> QED
  BY <1>4, <1>5

-----------------------------------------------------------------------------
(* Rejections, deletions and startup *)

\* A rejection is recorded only where the log holds nothing of its command.
LEMMA RejectionStep ==
  ASSUME CommandsAssumption, EngineAssumption, EngineInv, RecordRejection
  PROVE  EngineInv'
<1>1. worker.pc = "rejecting" /\ worker' = Idle
      /\ reply' = [reply EXCEPT ![worker.dispatch] = "rejected"]
      /\ UNCHANGED <<log, events, rows, purged, tombstones, retiring>>
  BY DEF RecordRejection
<1>2. worker # Idle
  BY <1>1, AtWork DEF EngineInv
<1>3. PICK c \in Commands : c = worker.dispatch[1]
  BY <1>1, AtWork DEF EngineInv
<1>4. \A k : AppliedIn(k)' = AppliedIn(k) /\ Interval(k)' = Interval(k)
  BY <1>1 DEF AppliedIn, Interval
<1>5. Stored' /\ Fenced' /\ WorkerOK' /\ WorkerHistory'
  BY <1>1 DEF EngineInv, Stored, Fenced, WorkerOK, WorkerHistory
<1>6. Told'
  BY <1>1, <1>4, StillTold DEF EngineInv, Told
<1>7. CASE receipts' = receipts
  BY <1>1, <1>4, <1>5, <1>6, <1>7, StoreUntouched DEF EngineInv, Fenced
<1>8. CASE /\ ThreadOf[c] \notin tombstones
           /\ receipts' = [receipts EXCEPT ![c] = [status |-> "rejected", seq |-> model.seq]]
  <2>1. receipts[c] = NoReceipt
    BY <1>1, <1>2, <1>3, <1>8 DEF EngineInv, WorkerHistory, Refusing
  <2>2. AppliedIn(c) = {} /\ ThreadOf[c] \notin purged
    BY <1>8, <2>1, NothingApplied DEF EngineInv, Fenced
  <2>3. /\ DOMAIN receipts' = Commands /\ receipts'[c].status = "rejected"
        /\ \A k \in Commands : k # c => receipts'[k] = receipts[k]
    BY <1>8 DEF EngineInv, ReceiptHistory
  <2>4. ReceiptHistory'
    BY <1>1, <1>4, <2>2, <2>3 DEF EngineInv, ReceiptHistory
  <2>5. PurgedStaysPurged'
    BY <1>1, <2>2, <2>3 DEF EngineInv, PurgedStaysPurged, OfThread
  <2> QED
    BY <1>5, <1>6, <2>4, <2>5 DEF EngineInv
<1> QED
  BY <1>3, <1>7, <1>8 DEF RecordRejection

\* Retiring a thread leaves its rows, purging it leaves none.
LEMMA DeletionSteps ==
  ASSUME EngineInv, NEW t \in Deletable, EngineAssumption,
         Retire(t) \/ Purge(t) \/ DeletionFails(t)
  PROVE  EngineInv'
<1>1. worker' = worker /\ reply' = reply /\ log' = log
  BY DEF Retire, Purge, DeletionFails, durable
<1>2. CASE Retire(t)
  <2>1. UNCHANGED <<events, receipts, rows, purged>>
    BY <1>2 DEF Retire
  <2>2. tombstones' = tombstones \cup {t} /\ retiring' = retiring \cup {t}
    BY <1>2 DEF Retire
  <2>3. retiring' \subseteq tombstones'
    BY <2>2 DEF EngineInv, Fenced
  <2> QED
    BY <1>1, <2>1, <2>2, <2>3, QuietStep
<1>3. CASE DeletionFails(t)
  <2>1. UNCHANGED <<events, receipts, rows, purged, tombstones, retiring>>
    BY <1>3 DEF DeletionFails, durable
  <2> QED
    BY <1>1, <2>1, QuietStep DEF EngineInv, Fenced
<1>4. CASE Purge(t)
  <2>1. /\ events' = events \ OfThread(events, t)
        /\ rows' = [p \in Projectors |-> rows[p] \ OfThread(rows[p], t)]
        /\ receipts' = [k \in Commands |->
                          IF ThreadOf[k] = t THEN NoReceipt ELSE receipts[k]]
        /\ tombstones' = tombstones \cup {t} /\ retiring' = retiring \ {t}
        /\ purged' = purged \cup {t}
        /\ worker = Idle
    BY <1>4 DEF Purge, TakesEnvelope
  <2>2. \A k : AppliedIn(k)' = AppliedIn(k) /\ Interval(k)' = Interval(k)
    BY <1>1 DEF AppliedIn, Interval
  <2>3. Stored'
    <3>1. ASSUME NEW p \in Projectors PROVE rows'[p] \subseteq events'
      BY <2>1 DEF EngineInv, Stored, OfThread
    <3>2. events' \subseteq 1..Len(log')
      BY <1>1, <2>1 DEF EngineInv, Stored
    <3>3. rows' \in [Projectors -> SUBSET events']
      BY <2>1, <3>1
    <3> QED
      BY <1>1, <3>2, <3>3 DEF EngineInv, Stored
  <2>4. Fenced'
    BY <2>1 DEF EngineInv, Fenced
  <2>5. WorkerOK' /\ WorkerHistory'
    BY <1>1, <2>1 DEF WorkerOK, WorkerHistory
  <2>6. ReceiptHistory'
    BY <2>1, <2>2 DEF EngineInv, ReceiptHistory, NoReceipt
  <2>7. Told'
    BY <1>1, <2>2, StillTold
  <2>8. PurgedStaysPurged'
    <3> SUFFICES ASSUME NEW u \in purged'
                 PROVE  /\ OfThread(events, u)' = {}
                        /\ \A p \in Projectors : OfThread(rows[p], u)' = {}
                        /\ \A k \in Commands : ThreadOf[k] = u => receipts'[k] = NoReceipt
      BY DEF PurgedStaysPurged
    <3>1. u = t \/ u \in purged
      BY <2>1
    <3>2. OfThread(events, u)' = {}
      BY <1>1, <2>1, <3>1 DEF EngineInv, PurgedStaysPurged, OfThread
    <3>3. \A p \in Projectors : OfThread(rows[p], u)' = {}
      BY <1>1, <2>3, <3>2 DEF Stored, OfThread
    <3>4. \A k \in Commands : ThreadOf[k] = u => receipts'[k] = NoReceipt
      BY <2>1, <3>1 DEF EngineInv, PurgedStaysPurged
    <3> QED
      BY <3>2, <3>3, <3>4
  <2> QED
    BY <2>3, <2>4, <2>5, <2>6, <2>7, <2>8 DEF EngineInv
<1> QED
  BY <1>2, <1>3, <1>4

\* Startup gives a projector stored events only.
LEMMA BootStep == ASSUME EngineInv, Boot PROVE EngineInv'
<1>1. /\ UNCHANGED <<log, events, receipts, tombstones, purged, worker, reply>>
      /\ rows' = [p \in Projectors |->
                    IF p \in installed' THEN rows[p] \cup ReadFrom(projected[p]) ELSE rows[p]]
  BY DEF Boot
<1>2. retiring' \subseteq tombstones
  BY DEF Boot
<1>3. \A k : AppliedIn(k)' = AppliedIn(k) /\ Interval(k)' = Interval(k)
  BY <1>1 DEF AppliedIn, Interval
<1>4. Stored'
  <2>1. \A p \in Projectors : ReadFrom(projected[p]) \subseteq events
    BY DEF ReadFrom
  <2>2. rows' \in [Projectors -> SUBSET events]
    BY <1>1, <2>1 DEF EngineInv, Stored
  <2> QED
    BY <1>1, <2>2 DEF EngineInv, Stored
<1>5. Fenced'
  BY <1>1, <1>2 DEF EngineInv, Fenced
<1>6. WorkerOK' /\ WorkerHistory'
  BY <1>1, <1>3 DEF EngineInv, WorkerOK, WorkerHistory, Refusing
<1>7. ReceiptHistory'
  BY <1>1, <1>3 DEF EngineInv, ReceiptHistory
<1>8. Told'
  BY <1>1, <1>3, StillTold
<1>9. PurgedStaysPurged'
  <2>1. \A t \in purged : OfThread(events, t)' = {}
    BY <1>1 DEF EngineInv, PurgedStaysPurged, OfThread
  <2>2. \A t \in purged, p \in Projectors : OfThread(rows[p], t)' = {}
    BY <1>4, <2>1 DEF Stored, OfThread
  <2> QED
    BY <1>1, <2>1, <2>2 DEF EngineInv, PurgedStaysPurged
<1> QED
  BY <1>4, <1>5, <1>6, <1>7, <1>8, <1>9 DEF EngineInv

-----------------------------------------------------------------------------
(* The invariant and what follows from it *)

LEMMA InitEngineInv == ASSUME CommandsAssumption, Init PROVE EngineInv
<1>1. log = <<>> /\ events = {} /\ tombstones = {} /\ purged = {} /\ retiring = {}
      /\ receipts = [c \in Commands |-> NoReceipt]
      /\ rows = [p \in Projectors |-> {}] /\ worker = Idle
      /\ reply = [d \in Dispatches |-> "unsent"]
  BY DEF Init, SerialInit
<1>2. \A c : AppliedIn(c) = {}
  <2>1. DOMAIN log = {}
    BY <1>1
  <2> QED
    BY <2>1 DEF AppliedIn
<1>3. Stored
  <2>1. log \in Seq(Entries)
    BY <1>1
  <2> QED
    BY <1>1, <2>1 DEF Stored
<1>4. Fenced /\ WorkerOK /\ WorkerHistory
  BY <1>1 DEF Fenced, WorkerOK, WorkerHistory
<1>5. ReceiptHistory
  BY <1>1, <1>2 DEF ReceiptHistory, NoReceipt
<1>6. Told
  BY <1>1 DEF Told, AcceptedIsDurable
<1>7. PurgedStaysPurged
  BY <1>1 DEF PurgedStaysPurged
<1> QED
  BY <1>3, <1>4, <1>5, <1>6, <1>7 DEF EngineInv

LEMMA NextEngineInv ==
  ASSUME CommandsAssumption, EngineAssumption, EngineInv, [Next]_vars
  PROVE  EngineInv'
<1>1. ASSUME NEW d \in Dispatches, Dispatch(d) PROVE EngineInv'
  <2>1. /\ UNCHANGED <<log, events, receipts, rows, purged, tombstones, retiring, worker>>
        /\ reply' = [reply EXCEPT ![d] = "waiting"]
    BY <1>1 DEF Dispatch, durable
  <2> QED
    BY <2>1, QuietStep DEF EngineInv, Fenced, Told
<1>2. ASSUME NEW t \in Deletable, BeginDelete(t) \/ RequestRetire(t) \/ RequestPurge(t)
      PROVE  EngineInv'
  <2>1. UNCHANGED <<log, events, receipts, rows, purged, retiring, worker, reply>>
    BY <1>2 DEF BeginDelete, RequestRetire, RequestPurge, durable
  <2>2. tombstones \subseteq tombstones'
    BY <1>2 DEF BeginDelete, RequestRetire, RequestPurge, durable
  <2> QED
    BY <2>1, <2>2, QuietStep DEF EngineInv, Fenced
<1>3. CASE ProcessCommand
  BY <1>3, TakingSteps, TransactionSteps, AnsweringSteps, RejectionStep DEF ProcessCommand
<1>4. CASE ProcessDeletion
  BY <1>4, DeletionSteps DEF ProcessDeletion
<1>5. CASE Crash
  <2>1. UNCHANGED <<log, events, receipts, rows, purged, tombstones>>
        /\ retiring' = {} /\ worker' = Idle
        /\ reply' = [d \in Dispatches |-> IF reply[d] = "waiting" THEN "lost" ELSE reply[d]]
    BY <1>5 DEF Crash, durable
  <2> QED
    BY <2>1, QuietStep DEF EngineInv, Told
<1>6. CASE Boot
  BY <1>6, BootStep
<1>7. CASE UNCHANGED vars
  <2>1. UNCHANGED <<log, events, receipts, rows, purged, tombstones, retiring, worker, reply>>
    BY <1>7 DEF vars, durable
  <2> QED
    BY <2>1, QuietStep DEF EngineInv, Fenced
<1> QED
  BY <1>1, <1>2, <1>3, <1>4, <1>5, <1>6, <1>7 DEF Next

LEMMA EngineInvariance == Spec => []EngineInv
<1>1. Init => EngineInv
  BY InitEngineInv, CommandsAssumption
<1>2. EngineInv /\ [Next]_vars => EngineInv'
  BY NextEngineInv, CommandsAssumption, EngineAssumption
<1> QED
  BY <1>1, <1>2, PTL DEF Spec

\* However often a command is sent, its events are appended together and once
\* (processEnvelope, OrchestrationEngine.ts:493).
THEOREM CommandsAreAppendedOnce == Spec => []CommandOnce
<1>1. EngineInv => CommandOnce
  <2>1. ASSUME EngineInv, NEW c \in Commands, AppliedIn(c) # {}
        PROVE  \E s \in Sequences : AppliedIn(c) = s..(s + Len(Batch(c)) - 1)
    BY <2>1 DEF EngineInv, ReceiptHistory, Interval, Sequences, LastSequence
  <2> QED
    BY <2>1 DEF CommandOnce
<1> QED
  BY <1>1, EngineInvariance, PTL

\* A stored receipt tells what became of its command (OrchestrationEngine.ts:897, 1003).
THEOREM ReceiptsAreTrue == Spec => []ReceiptsTellTheLog
<1>1. EngineInv => ReceiptsTellTheLog
  <2> SUFFICES ASSUME EngineInv, NEW c \in Commands
               PROVE  /\ receipts[c].status = "accepted" =>
                           LastOf(AppliedIn(c), 0) = receipts[c].seq
                      /\ receipts[c].status = "rejected" => AppliedIn(c) = {}
                      /\ AppliedIn(c) # {} /\ ThreadOf[c] \notin purged =>
                           receipts[c].status = "accepted"
    BY DEF ReceiptsTellTheLog
  <2>1. ASSUME receipts[c].status = "accepted"
        PROVE  LastOf(AppliedIn(c), 0) = receipts[c].seq
    <3> DEFINE A == AppliedIn(c)
               top == receipts[c].seq
    <3>1. A # {} /\ top \in A /\ \A s \in A : s <= top
      BY <2>1 DEF EngineInv, ReceiptHistory
    <3>2. A \subseteq Nat
      <4>1. log \in Seq(Entries)
        BY DEF EngineInv, Stored
      <4>2. DOMAIN log \subseteq Nat
        BY <4>1
      <4> QED
        BY <4>2 DEF AppliedIn
    <3>3. LastOf(A, 0) = CHOOSE m \in A : \A s \in A : s <= m
      BY <3>1 DEF LastOf
    <3> HIDE DEF A, top
    <3>4. PICK m : m = CHOOSE x \in A : \A s \in A : s <= x
      OBVIOUS
    <3>5. m \in A /\ \A s \in A : s <= m
      BY <3>1, <3>4
    <3>6. m <= top /\ top <= m /\ m \in Nat /\ top \in Nat
      BY <3>1, <3>2, <3>5
    <3>7. m = top
      BY <3>6
    <3> QED
      BY <3>3, <3>4, <3>7 DEF A, top
  <2> QED
    BY <2>1 DEF EngineInv, ReceiptHistory
<1> QED
  BY <1>1, EngineInvariance, PTL

\* Whoever was told of an acceptance finds the events appended, after a crash too
\* (OrchestrationEngine.ts:971).
THEOREM AcceptancesAreDurable == Spec => []AcceptedIsDurable
<1>1. EngineInv => AcceptedIsDurable
  BY DEF EngineInv, Told
<1> QED
  BY <1>1, EngineInvariance, PTL

\* Nothing of a hard-deleted thread comes back into the database
\* (threadHardDelete.ts:144, migration 065).
THEOREM PurgedThreadsStayPurged == Spec => []PurgedStaysPurged
<1>1. EngineInv => PurgedStaysPurged
  BY DEF EngineInv
<1> QED
  BY <1>1, EngineInvariance, PTL

-----------------------------------------------------------------------------
(* Messages *)

\* Only a purge takes an event out of the store.
Kept == \A s \in 1..Len(log) : s \in events \/ ThreadOf[log[s].cmd] \in purged

\* Among the recorded failures of a message one is the last.
HasLast(S) == S = {} \/ \E m \in S : \A s \in S : s <= m
Ended == \A c \in Commands : HasLast(About(Sequences, c, "failed"))

\* The command that is being committed found its message free in the store.
FoundFree == worker.pc = "committing" => ~MessageUsed(events, worker.dispatch[1])

MessageInv == Kept /\ Ended /\ FoundFree /\ MessageOnce

\* Only a turn start says that a message was sent, and it says so first.
LEMMA MessageEntry ==
  ASSUME CommandsAssumption, NEW c \in Commands, NEW i \in 1..Len(Batch(c)),
         Batch(c)[i].type = "message"
  PROVE  KindOf[c] = "start" /\ i = 1
<1>1. KindOf[c] \in {"create", "archive", "start", "failed", "deliver"}
  BY DEF CommandsAssumption, EventTypes
<1>2. /\ EventTypes["create"] = <<"created">> /\ EventTypes["archive"] = <<"archived">>
      /\ EventTypes["start"] = <<"message", "intent">>
      /\ EventTypes["failed"] = <<"failed">> /\ EventTypes["deliver"] = <<"delivered">>
  BY DEF EventTypes
<1>3. PICK T : T = EventTypes[KindOf[c]]
  OBVIOUS
<1>4. T \in Seq(Types) /\ Len(T) \in {1, 2}
  <2>1. T \in {<<"created">>, <<"archived">>, <<"message", "intent">>, <<"failed">>,
               <<"delivered">>}
    BY <1>1, <1>2, <1>3
  <2>2. CASE T = <<"message", "intent">>
    BY <2>2, TwoEntries DEF Types
  <2>3. CASE T = <<"created">>
    BY <2>3, OneEntry DEF Types
  <2>4. CASE T = <<"archived">>
    BY <2>4, OneEntry DEF Types
  <2>5. CASE T = <<"failed">>
    BY <2>5, OneEntry DEF Types
  <2>6. CASE T = <<"delivered">>
    BY <2>6, OneEntry DEF Types
  <2>7. QED
    BY <2>1, <2>2, <2>3, <2>4, <2>5, <2>6
<1>5. PICK n \in {1, 2} : Len(T) = n /\ DOMAIN T = 1..n
  BY <1>4
<1>6. Batch(c) = [j \in 1..n |-> [cmd |-> c, type |-> T[j]]]
  BY <1>3, <1>5 DEF Batch
<1>7. Len(Batch(c)) = n
  <2>1. Batch(c) \in [1..n -> [cmd : {c}, type : Types]]
    BY <1>4, <1>5, <1>6
  <2>2. QED
    BY <1>5, <2>1
<1>8. i \in 1..n /\ T[i] = "message"
  BY <1>6, <1>7
<1>9. T = EventTypes["start"] /\ KindOf[c] = "start"
  BY <1>1, <1>2, <1>3, <1>5, <1>8
<1>10. QED
  BY <1>2, <1>5, <1>8, <1>9

\* What appending a batch does to what the log says of a message.
LEMMA AboutAfter ==
  ASSUME CommandsAssumption, log \in Seq(Entries), NEW c \in Commands,
         log' = log \o Batch(c)
  PROVE  /\ Len(log) \in Nat /\ Len(Batch(c)) \in {1, 2}
         /\ Len(log') = Len(log) + Len(Batch(c)) /\ log' \in Seq(Entries)
         /\ \A s \in 1..Len(log) : log'[s] = log[s]
         /\ \A s \in (Len(log) + 1)..(Len(log) + Len(Batch(c))) :
              log'[s].cmd = c /\ (log'[s].type = "message" =>
                                    KindOf[c] = "start" /\ s = Len(log) + 1)
<1>1. /\ log' \in Seq(Entries) /\ Len(log') = Len(log) + Len(Batch(c))
      /\ \A s \in 1..Len(log) : log'[s] = log[s]
      /\ \A s \in (Len(log) + 1)..(Len(log) + Len(Batch(c))) : log'[s].cmd = c
  BY AppendBatch
<1>2. Len(log) \in Nat /\ Len(Batch(c)) \in {1, 2} /\ Batch(c) \in Seq(Entries)
  BY BatchType
<1>3. ASSUME NEW s \in (Len(log) + 1)..(Len(log) + Len(Batch(c))), log'[s].type = "message"
      PROVE  KindOf[c] = "start" /\ s = Len(log) + 1
  <2>1. s - Len(log) \in 1..Len(Batch(c)) /\ log'[s] = Batch(c)[s - Len(log)]
    BY <1>2
  <2>2. KindOf[c] = "start" /\ s - Len(log) = 1
    BY <1>3, <2>1, MessageEntry
  <2>3. QED
    BY <1>2, <2>2
<1>4. QED
  BY <1>1, <1>2, <1>3

\* A message that a turn start may carry again has a last failure that is newer than
\* every time it was sent and than every delivery.
LEMMA FreedBy ==
  ASSUME NEW S, S \subseteq Nat, NEW c, ~MessageUsed(S, c), KindOf[c] = "start",
         About(S, c, "message") # {}, HasLast(About(S, c, "failed"))
  PROVE  \E k \in About(S, c, "failed") :
           /\ \A s \in About(S, c, "message") : s < k
           /\ \A d \in About(S, c, "delivered") : ~(k < d)
<1> DEFINE F == About(S, c, "failed")
           M == About(S, c, "message")
           D == About(S, c, "delivered")
<1>1. F \subseteq Nat /\ M \subseteq Nat /\ D \subseteq Nat
  BY DEF About
<1>2. /\ {f \in F : \A s \in M : s < f} # {}
      /\ \A d \in D : \E f \in {g \in F : \A s \in M : s < g} : ~(f < d)
  BY DEF MessageUsed
<1> HIDE DEF F, M, D
<1>3. PICK k \in F : \A f \in F : f <= k
  BY <1>2 DEF HasLast, F
<1>4. \A s \in M : s < k
  <2>1. PICK f \in F : \A s \in M : s < f
    BY <1>2
  <2>2. f <= k /\ f \in Nat /\ k \in Nat
    BY <1>1, <1>3
  <2>3. QED
    BY <1>1, <2>1, <2>2
<1>5. \A d \in D : ~(k < d)
  BY <1>1, <1>2, <1>3
<1>6. QED
  BY <1>3, <1>4, <1>5 DEF F, M, D

\* The store holds all of a thread that was not purged.
LEMMA WholeThread ==
  ASSUME EngineInv, Kept, NEW c \in Commands, ThreadOf[c] \notin purged, NEW type
  PROVE  About(events, c, type) = About(1..Len(log), c, type)
BY DEF EngineInv, Stored, Kept, About

\* A batch adds to what is known of a message and takes nothing away.
LEMMA AboutGrows ==
  ASSUME CommandsAssumption, log \in Seq(Entries), NEW c \in Commands,
         log' = log \o Batch(c), NEW k \in Commands, NEW type
  PROVE  /\ About(Sequences, k, type) \subseteq About(Sequences, k, type)'
         /\ \A s \in About(Sequences, k, type)' :
              \/ s \in About(Sequences, k, type)
              \/ s \in (Len(log) + 1)..(Len(log) + Len(Batch(c)))
         /\ \A s \in 1..Len(log) :
              s \in About(Sequences, k, type)' => s \in About(Sequences, k, type)
<1>1. /\ Len(log) \in Nat /\ Len(Batch(c)) \in {1, 2}
      /\ Len(log') = Len(log) + Len(Batch(c))
      /\ \A s \in 1..Len(log) : log'[s] = log[s]
  BY AboutAfter
<1>2. QED
  BY <1>1 DEF About, Sequences, LastSequence

\* A number above all earlier ones is the last.
LEMMA LastGrows ==
  ASSUME NEW n \in Nat, NEW b \in {1, 2}, NEW S, NEW T, S \subseteq 1..n, HasLast(S),
         S \subseteq T, \A t \in T : t \in S \/ t \in (n + 1)..(n + b)
  PROVE  HasLast(T)
<1>1. CASE n + 2 \in T /\ b = 2
  BY <1>1 DEF HasLast
<1>2. CASE n + 1 \in T /\ ~(n + 2 \in T /\ b = 2)
  BY <1>2 DEF HasLast
<1>3. CASE n + 1 \notin T /\ ~(n + 2 \in T /\ b = 2)
  <2>1. \A t \in (n + 1)..(n + b) : t = n + 1 \/ (t = n + 2 /\ b = 2)
    OBVIOUS
  <2>2. \A t \in T : t \in S
    BY <1>3, <2>1
  <2>3. T = S
    BY <2>2
  <2>4. QED
    BY <2>3
<1>4. QED
  BY <1>1, <1>2, <1>3

\* A transaction keeps them if its command found the message free.
LEMMA MessagePersist ==
  ASSUME CommandsAssumption, EngineInv, MessageInv, NEW c \in Commands, Persist(c),
         ~MessageUsed(events, c)
  PROVE  Kept' /\ Ended' /\ MessageOnce'
<1>1. /\ log' = log \o Batch(c) /\ events' = events \cup Appended(c)
      /\ purged' = purged /\ ThreadOf[c] \notin purged /\ log \in Seq(Entries)
  BY DEF Persist, EngineInv, Fenced, Stored
<1>2. /\ Len(log) \in Nat /\ Len(Batch(c)) \in {1, 2}
      /\ Len(log') = Len(log) + Len(Batch(c)) /\ log' \in Seq(Entries)
      /\ \A s \in 1..Len(log) : log'[s] = log[s]
      /\ \A s \in (Len(log) + 1)..(Len(log) + Len(Batch(c))) :
           log'[s].cmd = c /\ (log'[s].type = "message" =>
                                 KindOf[c] = "start" /\ s = Len(log) + 1)
  BY <1>1, AboutAfter
<1>3. Kept'
  BY <1>1, <1>2 DEF MessageInv, Kept, Appended, LastSequence
<1>4. Ended'
  <2> SUFFICES ASSUME NEW k \in Commands PROVE HasLast(About(Sequences, k, "failed")')
    BY DEF Ended, HasLast
  <2>1. HasLast(About(Sequences, k, "failed")) /\ About(Sequences, k, "failed") \subseteq 1..Len(log)
    BY DEF MessageInv, Ended, About, Sequences, LastSequence
  <2>2. QED
    BY <1>1, <1>2, <2>1, AboutGrows, LastGrows
<1>5. MessageOnce'
  <2>1. ASSUME NEW i \in 1..Len(log'), NEW j \in 1..Len(log'), i < j,
               log'[j].type = "message", NEW q \in Commands, q = log'[j].cmd,
               i \in About(Sequences, q, "message")'
        PROVE  \E k \in About(Sequences, q, "failed")' :
                 /\ i < k /\ k < j
                 /\ \A d \in About(Sequences, q, "delivered")' : ~(k < d /\ d < j)
    <3>1. \A d \in About(Sequences, q, "delivered")' : d \in Nat
      BY <1>2 DEF About, Sequences, LastSequence
    <3>2. CASE j \in 1..Len(log)
      <4>1. log'[j] = log[j] /\ i \in 1..Len(log)
        BY <1>2, <2>1, <3>2
      <4>2. i \in About(Sequences, q, "message")
        BY <1>1, <2>1, <4>1, AboutGrows
      <4>3. PICK k \in About(Sequences, q, "failed") :
              /\ i < k /\ k < j
              /\ \A d \in About(Sequences, q, "delivered") : ~(k < d /\ d < j)
        <5>1. i \in Sequences /\ j \in Sequences /\ log[j].type = "message" /\ q = log[j].cmd
          BY <2>1, <3>2, <4>1 DEF Sequences, LastSequence
        <5>2. MessageOnce
          BY DEF MessageInv
        <5>3. i \in About(Sequences, log[j].cmd, "message")
          BY <4>2, <5>1
        <5>4. \E k \in About(Sequences, log[j].cmd, "failed") :
                /\ i < k /\ k < j
                /\ \A d \in About(Sequences, log[j].cmd, "delivered") : ~(k < d /\ d < j)
          BY ONLY <2>1, <5>1, <5>2, <5>3 DEF MessageOnce
        <5>5. QED
          BY ONLY <5>1, <5>4
      <4>4. k \in About(Sequences, q, "failed")'
        BY <1>1, AboutGrows
      <4>5. \A d \in (Len(log) + 1)..(Len(log) + Len(Batch(c))) : d > j
        BY <1>2, <3>2
      <4>6. \A d \in About(Sequences, q, "delivered")' :
              d \in About(Sequences, q, "delivered") \/ d > j
        BY <1>1, <4>5, AboutGrows
      <4>7. QED
        BY <3>1, <3>2, <4>3, <4>4, <4>6
    <3>3. CASE j \notin 1..Len(log)
      <4>1. q = c /\ KindOf[c] = "start" /\ j = Len(log) + 1 /\ i \in 1..Len(log)
        BY <1>2, <2>1, <3>3
      <4>2. i \in About(Sequences, c, "message") /\ Sequences = 1..Len(log)
        BY <1>1, <2>1, <4>1, AboutGrows DEF Sequences, LastSequence
      <4>3. \A type : About(events, c, type) = About(Sequences, c, type)
        BY <1>1, <4>2, WholeThread DEF MessageInv
      <4>4. /\ HasLast(About(events, c, "failed")) /\ About(events, c, "message") # {}
            /\ events \subseteq Nat
        BY <1>2, <4>2, <4>3 DEF MessageInv, Ended, EngineInv, Stored
      <4>5. PICK k \in About(events, c, "failed") :
              /\ \A s \in About(events, c, "message") : s < k
              /\ \A d \in About(events, c, "delivered") : ~(k < d)
        BY <4>1, <4>4, FreedBy
      <4>6. /\ k \in About(Sequences, c, "failed") /\ i < k
            /\ \A d \in About(Sequences, c, "delivered") : ~(k < d)
        BY <4>2, <4>3, <4>5
      <4>7. k \in 1..Len(log)
        BY <4>2, <4>6 DEF About
      <4>8. k \in About(Sequences, c, "failed")'
        BY <1>1, <4>6, AboutGrows
      <4>9. \A d \in (Len(log) + 1)..(Len(log) + Len(Batch(c))) : d >= j
        BY <1>2, <4>1
      <4>10. \A d \in About(Sequences, c, "delivered")' :
              d \in About(Sequences, c, "delivered") \/ d >= j
        BY <1>1, <4>9, AboutGrows
      <4>11. \A d \in About(Sequences, q, "delivered")' : ~(k < d /\ d < j)
        BY <1>2, <3>1, <4>1, <4>6, <4>10
      <4>12. k < j
        BY <1>2, <4>1, <4>7
      <4>13. QED
        BY <4>1, <4>6, <4>8, <4>11, <4>12
    <3>4. QED
      BY <3>2, <3>3
  <2>2. \A j \in 1..Len(log') : log'[j].cmd \in Commands
    <3>1. \A j \in 1..Len(log') : log'[j] \in Entries
      BY <1>2
    <3>2. QED
      BY <3>1 DEF Entries
  <2>3. QED
    BY <2>1, <2>2 DEF MessageOnce, Sequences, LastSequence
<1>6. QED
  BY <1>3, <1>4, <1>5

\* Steps that append nothing.
LEMMA MessageQuiet ==
  ASSUME MessageInv, UNCHANGED <<log, events, purged>>,
         worker'.pc = "committing" => worker' = worker
  PROVE  MessageInv'
<1>2. Kept' /\ Ended' /\ MessageOnce'
  BY DEF MessageInv, Kept, Ended, MessageOnce, About, Sequences, LastSequence
<1>3. FoundFree'
  BY DEF MessageInv, FoundFree, MessageUsed, About
<1>4. QED
  BY <1>2, <1>3 DEF MessageInv

LEMMA MessageKept ==
  ASSUME CommandsAssumption, EngineAssumption, EngineInv, MessageInv, [Next]_vars
  PROVE  MessageInv'
<1>1. ASSUME NEW d \in Dispatches, Admit(d) PROVE MessageInv'
  <2>1. /\ UNCHANGED <<log, events, purged>> /\ worker' = [pc |-> "committing", dispatch |-> d]
        /\ ~MessageUsed(events, d[1])
    BY <1>1 DEF Admit, Refused, durable
  <2>2. Kept' /\ Ended' /\ MessageOnce'
    BY <2>1 DEF MessageInv, Kept, Ended, MessageOnce, About, Sequences, LastSequence
  <2>3. FoundFree'
    BY <2>1 DEF FoundFree, MessageUsed, About
  <2>4. QED
    BY <2>2, <2>3 DEF MessageInv
<1>2. CASE Commit \/ CommitUncertain
  <2>1. worker.pc = "committing" /\ Persist(worker.dispatch[1]) /\ worker.dispatch[1] \in Commands
    BY <1>2, AtWork DEF Commit, CommitUncertain, Persist, EngineInv
  <2>2. Kept' /\ Ended' /\ MessageOnce'
    BY <2>1, MessagePersist DEF MessageInv, FoundFree
  <2>3. worker'.pc # "committing"
    <3>1. CASE Commit
      <4>1. worker \in [pc : {"committing", "committed"}, dispatch : Dispatches]
        BY <2>1, AtWork DEF EngineInv, WorkerOK
      <4>2. worker' = [worker EXCEPT !.pc = "committed"]
        BY <3>1 DEF Commit
      <4>3. QED
        BY <4>1, <4>2
    <3>2. CASE CommitUncertain
      BY <3>2 DEF CommitUncertain, Failing
    <3>3. QED
      BY <1>2, <3>1, <3>2
  <2>4. QED
    BY <2>2, <2>3 DEF MessageInv, FoundFree
<1>3. ASSUME NEW t \in Deletable, Purge(t) PROVE MessageInv'
  <2>1. /\ events' = events \ OfThread(events, t) /\ purged' = purged \cup {t}
        /\ log' = log /\ worker' = Idle
    BY <1>3 DEF Purge, TakesEnvelope
  <2>2. Kept'
    BY <2>1 DEF MessageInv, Kept, OfThread
  <2>3. Ended' /\ MessageOnce'
    BY <2>1 DEF MessageInv, Ended, MessageOnce, About, Sequences, LastSequence
  <2>4. FoundFree'
    BY <2>1 DEF FoundFree, Idle
  <2>5. QED
    BY <2>2, <2>3, <2>4 DEF MessageInv
<1>4. ASSUME NEW d \in Dispatches, Dispatch(d) \/ AnswerFromReceipt(d) \/ Refuse(d)
      PROVE  MessageInv'
  <2>1. UNCHANGED <<log, events, purged>> /\ (worker' = worker \/ worker'.pc # "committing")
    BY <1>4 DEF Dispatch, AnswerFromReceipt, Refuse, durable
  <2>2. QED
    BY <2>1, MessageQuiet
<1>5. CASE RollBack \/ Finish \/ Reconcile \/ ReconcileFails \/ RecordRejection
  <2>1. UNCHANGED <<log, events, purged>>
    BY <1>5 DEF RollBack, Finish, Reconcile, ReconcileFails, RecordRejection, durable
  <2>2. worker'.pc # "committing"
    <3>1. CASE Reconcile \/ ReconcileFails
      <4>1. worker.pc = "failed" /\ AfterFailure
        BY <3>1 DEF Reconcile, ReconcileFails
      <4>2. worker \in [pc : {"failed", "rejecting"}, dispatch : Dispatches, invariant : BOOLEAN]
        BY <4>1, AtWork DEF EngineInv, WorkerOK
      <4>3. worker' = [worker EXCEPT !.pc = "rejecting"] \/ worker' = Idle
        BY <4>1 DEF AfterFailure
      <4>4. QED
        BY <4>2, <4>3 DEF Idle
    <3>2. QED
      BY <1>5, <3>1 DEF RollBack, Failing, Finish, RecordRejection, Idle
  <2>3. QED
    BY <2>1, <2>2, MessageQuiet
<1>6. ASSUME NEW t \in Deletable,
             BeginDelete(t) \/ RequestRetire(t) \/ RequestPurge(t) \/ Retire(t) \/ DeletionFails(t)
      PROVE  MessageInv'
  <2>1. UNCHANGED <<log, events, purged, worker>>
    BY <1>6 DEF BeginDelete, RequestRetire, RequestPurge, Retire, DeletionFails, durable
  <2>2. QED
    BY <2>1, MessageQuiet
<1>7. CASE Crash \/ Boot \/ UNCHANGED vars
  <2>1. UNCHANGED <<log, events, purged>> /\ (worker' = worker \/ worker'.pc # "committing")
    BY <1>7 DEF Crash, Boot, durable, vars, Idle
  <2>2. QED
    BY <2>1, MessageQuiet
<1>8. QED
  BY <1>1, <1>2, <1>3, <1>4, <1>5, <1>6, <1>7 DEF Next, ProcessCommand, ProcessDeletion

LEMMA MessageInvariance == Spec => []MessageInv
<1>1. Init => MessageInv
  <2>1. ASSUME Init PROVE MessageInv
    <3>1. log = <<>> /\ worker = Idle /\ Sequences = {}
      BY <2>1 DEF Init, SerialInit, Sequences, LastSequence
    <3>2. Kept /\ Ended /\ MessageOnce
      BY <3>1 DEF Kept, Ended, HasLast, About, MessageOnce, Sequences, LastSequence
    <3>3. QED
      BY <3>1, <3>2 DEF MessageInv, FoundFree, Idle
  <2>2. QED
    BY <2>1
<1>2. EngineInv /\ MessageInv /\ [Next]_vars => MessageInv'
  BY MessageKept, CommandsAssumption, EngineAssumption
<1>3. QED
  BY <1>1, <1>2, EngineInvariance, PTL DEF Spec

\* A message enters a thread again only after a failed delivery that no successful one
\* followed, whichever commands carry it (OrchestrationEngine.ts:537).
THEOREM MessagesAreSentOnce == Spec => []MessageOnce
<1>1. MessageInv => MessageOnce
  BY DEF MessageInv
<1>2. QED
  BY <1>1, MessageInvariance, PTL

-----------------------------------------------------------------------------
(* Projections, while no version of the server adds a projector *)

\* Every projector has seen the whole log.
Caught ==
  /\ installed = Projectors
  /\ \A p \in Projectors : rows[p] = events /\ projected[p] = Len(log)

\* Nothing is read beyond the end of the log.
LEMMA NothingBeyond ==
  ASSUME EngineInv, NEW seq \in Nat, seq >= Len(log) PROVE ReadFrom(seq) = {}
<1>1. Len(log) \in Nat /\ events \subseteq 1..Len(log)
  BY DEF EngineInv, Stored
<1>2. \A s \in events : ~(s > seq)
  BY <1>1
<1>3. QED
  BY <1>2 DEF ReadFrom

\* What is read once the projectors have caught up.
LEMMA BootReads ==
  ASSUME EngineInv, Caught, NEW p \in Projectors PROVE ReadFrom(projected[p]) = {}
<1>1. Len(log) \in Nat
  BY DEF EngineInv, Stored
<1>2. projected[p] = Len(log)
  BY DEF Caught
<1>3. QED
  BY <1>1, <1>2, NothingBeyond

LEMMA BootLeaves ==
  ASSUME EngineInv, Caught, NewProjectors = {}, Boot
  PROVE  /\ installed' = Projectors
         /\ \A p \in Projectors : rows'[p] = events /\ projected'[p] = Len(log)
         /\ UNCHANGED <<log, events>>
<1>1. /\ installed' = Projectors
      /\ projected' = [p \in Projectors |->
                         IF p \in installed' THEN LastOf(ReadFrom(projected[p]), projected[p])
                         ELSE projected[p]]
      /\ rows' = [p \in Projectors |->
                    IF p \in installed' THEN rows[p] \cup ReadFrom(projected[p]) ELSE rows[p]]
      /\ UNCHANGED <<log, events>>
  BY DEF Boot, Caught
<1>2. \A p \in Projectors : ReadFrom(projected[p]) = {}
  BY BootReads
<1>3. \A p \in Projectors : rows'[p] = rows[p] /\ projected'[p] = projected[p]
  BY <1>1, <1>2 DEF LastOf
<1>4. QED
  BY <1>1, <1>3 DEF Caught

LEMMA CaughtKept ==
  ASSUME CommandsAssumption, EngineAssumption, NewProjectors = {}, EngineInv, Caught, [Next]_vars
  PROVE  Caught'
<1>1. CASE UNCHANGED <<log, events, installed, projected, rows>>
  BY <1>1 DEF Caught
<1>2. CASE Commit \/ CommitUncertain
  <2>1. worker.pc = "committing" /\ Persist(worker.dispatch[1]) /\ worker.dispatch[1] \in Commands
    BY <1>2, AtWork DEF Commit, CommitUncertain, Persist, EngineInv
  <2>2. PICK c \in Commands : c = worker.dispatch[1]
    BY <2>1
  <2>3. /\ events' = events \cup Appended(c) /\ log' = log \o Batch(c) /\ installed' = installed
        /\ projected' = [p \in Projectors |->
                           IF p \in installed THEN LastSequence + Len(Batch(c)) ELSE projected[p]]
        /\ rows' = [p \in Projectors |->
                      IF p \in installed THEN rows[p] \cup Appended(c) ELSE rows[p]]
    BY <2>1, <2>2 DEF Persist
  <2>4. Len(log') = Len(log) + Len(Batch(c))
    BY <2>3, AboutAfter DEF EngineInv, Stored
  <2>5. QED
    BY <2>3, <2>4 DEF Caught, LastSequence
<1>3. ASSUME NEW t \in Deletable, Purge(t) PROVE Caught'
  BY <1>3 DEF Purge, Caught, OfThread
<1>4. CASE Boot
  BY <1>4, BootLeaves DEF Caught
<1>5. ASSUME NEW d \in Dispatches,
             Dispatch(d) \/ AnswerFromReceipt(d) \/ Refuse(d) \/ Admit(d)
      PROVE  Caught'
  BY <1>1, <1>5 DEF Dispatch, AnswerFromReceipt, Refuse, Admit, durable
<1>6. CASE RollBack \/ Finish \/ Reconcile \/ ReconcileFails \/ RecordRejection
  BY <1>1, <1>6 DEF RollBack, Finish, Reconcile, ReconcileFails, RecordRejection, durable
<1>7. ASSUME NEW t \in Deletable,
             BeginDelete(t) \/ RequestRetire(t) \/ RequestPurge(t) \/ Retire(t) \/ DeletionFails(t)
      PROVE  Caught'
  BY <1>1, <1>7 DEF BeginDelete, RequestRetire, RequestPurge, Retire, DeletionFails, durable
<1>8. CASE Crash \/ UNCHANGED vars
  BY <1>1, <1>8 DEF Crash, durable, vars
<1>9. QED
  BY <1>2, <1>3, <1>4, <1>5, <1>6, <1>7, <1>8 DEF Next, ProcessCommand, ProcessDeletion

LEMMA InitCaught ==
  ASSUME NewProjectors = {}, Init PROVE Caught
<1>1. log = <<>> /\ events = {} /\ installed = Projectors
      /\ projected = [p \in Projectors |-> 0] /\ rows = [p \in Projectors |-> {}]
  BY DEF Init, SerialInit
<1>2. Len(log) = 0
  BY <1>1
<1>3. QED
  BY <1>1, <1>2 DEF Caught

\* As long as no version adds a projector, every projector has applied every stored event
\* once the process is up (ProjectionPipeline.ts:2803, 2823); the read that stops at a limit
\* can hurt new projectors only.
THEOREM ProjectionsStayComplete ==
  ASSUME NewProjectors = {} PROVE Spec => []ProjectionsComplete
<1>1. Init => Caught
  BY InitCaught
<1>2. EngineInv /\ Caught /\ [Next]_vars => Caught'
  BY CaughtKept, CommandsAssumption, EngineAssumption
<1>3. Caught => ProjectionsComplete
  BY DEF Caught, ProjectionsComplete
<1>4. QED
  BY <1>1, <1>2, <1>3, EngineInvariance, PTL DEF Spec

-----------------------------------------------------------------------------
(* The read model, while no version adds a projector *)

\* The limit of a read does not cut a batch.
Unlimited == NewProjectors = {} /\ ReadLimit >= 2

IsModel(m) == m = [seq |-> m.seq, events |-> m.events]

Envelopes == [kind : {"command"}, dispatch : Dispatches]
             \cup [kind : {"retire", "purge"}, thread : Deletable]

\* A process that is down has no worker, no queue and no deletion under way.
Alive ==
  /\ deletion \in [Deletable -> {"none", "quiesced", "retiring", "retired", "purging", "deleted"}]
  /\ ~up => /\ worker = Idle /\ queue = <<>>
            /\ \A t \in Deletable : deletion[t] \in {"none", "deleted"}

\* A thread whose rows are about to be purged is retired, or has no rows left.
LeavingIn(q) == {t \in Deletable : \E i \in 1..Len(q) : q[i].kind = "purge" /\ q[i].thread = t}
Leaving ==
  /\ queue \in Seq(Envelopes) /\ LeavingIn(queue) \subseteq retiring \cup purged
  /\ \A t \in Deletable : deletion[t] \in {"retired", "purging"} => t \in retiring \cup purged

\* The worker does not append to a thread that is being retired.
Appending ==
  worker.pc \in {"committing", "committed"} \/ (worker.pc = "failed" /\ ~worker.invariant)
Attended == Appending => NotRetired(worker.dispatch[1])

\* What the read model reflects up to a sequence.
Visible(seq) == {s \in events : s <= seq /\ ThreadOf[log[s].cmd] \notin retiring}

\* The batch of command c is all that is newer than the read model.
TailOf(c) ==
  /\ model.seq + Len(Batch(c)) = Len(log)
  /\ \A s \in (model.seq + 1)..Len(log) : s \in events /\ log[s].cmd = c

Reflected ==
  up /\ ~diverged =>
    /\ model.seq \in Nat /\ model.events = Visible(model.seq)
    /\ worker.pc = "committed" =>
         TailOf(worker.dispatch[1]) /\ receipts[worker.dispatch[1]].seq = Len(log)
    /\ worker.pc # "committed" =>
         \/ model.seq = Len(log)
         \/ worker.pc = "failed" /\ ~worker.invariant /\ TailOf(worker.dispatch[1])

ModelInv == Caught /\ IsModel(model) /\ Alive /\ Leaving /\ Attended /\ Reflected

\* The last of an interval that is not empty.
LEMMA LastOfInterval ==
  ASSUME NEW n \in Nat, NEW b \in {1, 2}, NEW x PROVE LastOf((n + 1)..(n + b), x) = n + b
<1> DEFINE S == (n + 1)..(n + b)
<1>1. n + b \in S /\ S \subseteq Nat /\ \A s \in S : s <= n + b
  OBVIOUS
<1>2. S # {}
  BY <1>1
<1>3. LastOf(S, x) = CHOOSE m \in S : \A s \in S : s <= m
  BY <1>2 DEF LastOf
<1> HIDE DEF S
<1>4. PICK m : m = CHOOSE y \in S : \A s \in S : s <= y
  OBVIOUS
<1>5. m \in S /\ \A s \in S : s <= m
  BY <1>1, <1>4
<1>6. m = n + b
  BY <1>1, <1>5
<1>7. QED
  BY <1>3, <1>4, <1>6 DEF S

\* A read takes in a whole batch.
LEMMA ReadTail ==
  ASSUME CommandsAssumption, EngineAssumption, Unlimited, EngineInv, model.seq \in Nat,
         NEW c \in Commands, TailOf(c)
  PROVE  /\ ReadFrom(model.seq) = (model.seq + 1)..Len(log)
         /\ LastOf((model.seq + 1)..Len(log), model.seq) = Len(log)
<1>1. PICK n \in Nat : n = model.seq
  OBVIOUS
<1>2. PICK b \in {1, 2} : b = Len(Batch(c)) /\ Len(log) = n + b
  BY <1>1, BatchType DEF TailOf
<1>3. events \subseteq 1..(n + b) /\ \A s \in (n + 1)..(n + b) : s \in events
  BY <1>1, <1>2 DEF EngineInv, Stored, TailOf
<1>4. ASSUME NEW s \in (n + 1)..(n + b)
      PROVE  Cardinality({r \in events : r > n /\ r < s}) < ReadLimit
  <2> DEFINE R == {r \in events : r > n /\ r < s}
  <2>1. R \subseteq {n + 1}
    <3>1. \A r \in 1..(n + b) : r > n /\ r < s => r = n + 1
      OBVIOUS
    <3>2. QED
      BY <1>3, <3>1
  <2>2. R = {} \/ R = {n + 1}
    BY <2>1
  <2>3. Cardinality({}) = 0 /\ Cardinality({n + 1}) = 1
    BY FS_EmptySet, FS_Singleton
  <2>4. Cardinality(R) \in {0, 1}
    BY <2>2, <2>3
  <2> HIDE DEF R
  <2>5. Cardinality(R) < ReadLimit
    BY <2>4 DEF EngineAssumption, Unlimited
  <2>6. QED
    BY <2>5 DEF R
<1>5. \A s \in events : s > n <=> s \in (n + 1)..(n + b)
  BY <1>3
<1>6. ReadFrom(n) = (n + 1)..(n + b)
  BY <1>3, <1>4, <1>5 DEF ReadFrom
<1>7. LastOf((n + 1)..(n + b), n) = n + b
  BY LastOfInterval
<1>8. QED
  BY <1>1, <1>2, <1>6, <1>7

\* The read model takes the newest batch over.
LEMMA ReflectTail ==
  ASSUME CommandsAssumption, EngineInv, model.seq \in Nat, model.events = Visible(model.seq),
         NEW c \in Commands, TailOf(c), NotRetired(c),
         LastOf((model.seq + 1)..Len(log), model.seq) = Len(log),
         Reflect((model.seq + 1)..Len(log)), UNCHANGED <<log, events, retiring>>
  PROVE  /\ IsModel(model') /\ model'.seq = Len(log') /\ Len(log') \in Nat
         /\ model'.events = Visible(model.seq)'
<1>1. model' = [seq |-> Len(log), events |-> model.events \cup (model.seq + 1)..Len(log)]
  BY DEF Reflect
<1>2. model'.seq = Len(log) /\ model'.events = model.events \cup (model.seq + 1)..Len(log)
      /\ IsModel(model')
  BY <1>1 DEF IsModel
<1>3. Len(log) \in Nat /\ events \subseteq 1..Len(log)
  BY DEF EngineInv, Stored
<1>4. Visible(model.seq)' = {s \in events : s <= Len(log) /\ ThreadOf[log[s].cmd] \notin retiring}
  BY <1>2 DEF Visible
<1>5. \A s \in (model.seq + 1)..Len(log) : s \in events /\ ThreadOf[log[s].cmd] \notin retiring
  BY DEF TailOf, NotRetired
<1>6. \A s \in events : s <= Len(log) /\ (s <= model.seq \/ s \in (model.seq + 1)..Len(log))
  BY <1>3
<1>7. model.seq <= Len(log)
  <2>1. Len(Batch(c)) \in Nat
    BY BatchType
  <2>2. QED
    BY <1>3, <2>1 DEF TailOf
<1>8. model'.events = Visible(model.seq)'
  BY <1>2, <1>4, <1>5, <1>6 DEF Visible
<1>9. QED
  BY <1>2, <1>3, <1>8

\* Steps that leave the store, the read model and the worker alone.
LEMMA ModelSteady ==
  ASSUME Reflected, UNCHANGED <<log, events, retiring, model, up, diverged, receipts, worker>>
  PROVE  Reflected'
BY DEF Reflected, Visible, TailOf

\* The worker takes a command or is done with one that appended nothing.
LEMMA ModelTakes ==
  ASSUME Reflected, worker.pc \in {"idle", "committing", "rejecting"},
         worker'.pc # "committed", UNCHANGED <<log, events, retiring, model, up, diverged>>
  PROVE  Reflected'
BY DEF Reflected, Visible, TailOf

\* A transaction leaves the read model one batch behind.
LEMMA ModelCommits ==
  ASSUME CommandsAssumption, EngineInv, Reflected, worker.pc = "committing",
         NEW c \in Commands, Persist(c), UNCHANGED <<retiring, model, up, diverged>>,
         worker'.pc = "committed" \/ (worker'.pc = "failed" /\ ~worker'.invariant),
         worker'.dispatch[1] = c
  PROVE  Reflected'
<1> SUFFICES ASSUME up, ~diverged PROVE Reflected'
  BY DEF Reflected
<1>1. model.seq = Len(log) /\ model.seq \in Nat /\ model.events = Visible(model.seq)
  BY DEF Reflected
<1>2. /\ log' = log \o Batch(c) /\ events' = events \cup Appended(c) /\ log \in Seq(Entries)
      /\ receipts' = [receipts EXCEPT ![c] = [status |-> "accepted",
                                              seq |-> LastSequence + Len(Batch(c))]]
      /\ events \subseteq 1..Len(log)
  BY DEF Persist, EngineInv, Stored
<1>3. /\ Len(log) \in Nat /\ Len(Batch(c)) \in {1, 2}
      /\ Len(log') = Len(log) + Len(Batch(c))
      /\ \A s \in 1..Len(log) : log'[s] = log[s]
      /\ \A s \in (Len(log) + 1)..(Len(log) + Len(Batch(c))) : log'[s].cmd = c
  BY <1>2, AboutAfter
<1>4. TailOf(c)'
  BY <1>1, <1>2, <1>3 DEF TailOf, Appended, LastSequence
<1>5. receipts'[c].seq = Len(log')
  BY <1>2, <1>3 DEF EngineInv, ReceiptHistory, LastSequence
<1>6. model'.events = Visible(model.seq)'
  <2>1. \A s \in Appended(c) : ~(s <= Len(log))
    BY <1>3 DEF Appended, LastSequence
  <2>2. Visible(model.seq)' = {s \in events' : s <= Len(log) /\ ThreadOf[log'[s].cmd] \notin retiring}
    BY <1>1 DEF Visible
  <2>3. \A s \in events : log'[s] = log[s]
    BY <1>2, <1>3
  <2>4. QED
    BY <1>1, <1>2, <2>1, <2>2, <2>3 DEF Visible
<1>7. QED
  BY <1>1, <1>4, <1>5, <1>6 DEF Reflected

\* The dispatch is answered and the read model takes over its batch.
LEMMA ModelFinishes ==
  ASSUME CommandsAssumption, EngineAssumption, Unlimited, EngineInv, Reflected, Attended, Finish
  PROVE  Reflected' /\ IsModel(model')
<1>1. worker.pc = "committed" /\ worker'.pc = "idle"
      /\ UNCHANGED <<log, events, receipts, retiring, up, diverged>>
  BY DEF Finish, durable, Idle
<1>2. PICK c \in Commands : c = worker.dispatch[1]
  BY <1>1, AtWork DEF EngineInv
<1>3. NotRetired(c)
  BY <1>1, <1>2 DEF Attended, Appending
<1>4. Reflect((receipts[c].seq - Len(Batch(c)) + 1)..receipts[c].seq)
  BY <1>2 DEF Finish
<1>5. IsModel(model')
  BY <1>4 DEF Reflect, IsModel
<1>6. ASSUME up, ~diverged PROVE Reflected'
  <2>1. /\ model.seq \in Nat /\ model.events = Visible(model.seq) /\ TailOf(c)
        /\ receipts[c].seq = Len(log)
    BY <1>1, <1>2, <1>6 DEF Reflected
  <2>2. Len(Batch(c)) \in Nat /\ Len(log) = model.seq + Len(Batch(c))
    BY <2>1, BatchType DEF TailOf
  <2>3. receipts[c].seq - Len(Batch(c)) + 1 = model.seq + 1
    BY <2>1, <2>2
  <2>4. Reflect((model.seq + 1)..Len(log))
    BY <1>4, <2>1, <2>3
  <2>5. LastOf((model.seq + 1)..Len(log), model.seq) = Len(log)
    BY <2>1, ReadTail
  <2>6. model'.seq = Len(log') /\ Len(log') \in Nat /\ model'.events = Visible(model.seq)'
    BY <1>1, <1>3, <2>1, <2>4, <2>5, ReflectTail
  <2>7. QED
    BY <1>1, <2>6 DEF Reflected
<1>7. QED
  BY <1>1, <1>5, <1>6 DEF Reflected

\* After a failure the read model takes over what the store holds.
LEMMA ModelReconciles ==
  ASSUME CommandsAssumption, EngineAssumption, Unlimited, EngineInv, Reflected, Attended,
         Reconcile
  PROVE  Reflected' /\ IsModel(model')
<1>1. /\ worker.pc = "failed" /\ Reflect(ReadFrom(model.seq)) /\ AfterFailure
      /\ UNCHANGED <<log, events, receipts, retiring, up, diverged>>
  BY DEF Reconcile, durable
<1>2. IsModel(model')
  BY <1>1 DEF Reflect, IsModel
<1>3. worker'.pc \in {"idle", "rejecting"}
  <2>1. worker \in [pc : {"failed", "rejecting"}, dispatch : Dispatches, invariant : BOOLEAN]
    BY <1>1, AtWork DEF EngineInv, WorkerOK
  <2>2. worker' = [worker EXCEPT !.pc = "rejecting"] \/ worker' = Idle
    BY <1>1 DEF AfterFailure
  <2>3. QED
    BY <2>1, <2>2 DEF Idle
<1>4. ASSUME up, ~diverged PROVE Reflected'
  <2>1. model.seq \in Nat /\ model.events = Visible(model.seq)
    BY <1>4 DEF Reflected
  <2>2. CASE model.seq = Len(log)
    <3>1. ReadFrom(model.seq) = {}
      BY <2>1, <2>2, NothingBeyond
    <3>2. model'.seq = model.seq /\ model'.events = model.events
      BY <1>1, <3>1 DEF Reflect, LastOf
    <3>3. QED
      BY <1>1, <1>3, <2>1, <2>2, <3>2 DEF Reflected, Visible
  <2>3. CASE ~worker.invariant /\ TailOf(worker.dispatch[1])
    <3>1. PICK c \in Commands : c = worker.dispatch[1]
      BY <1>1, AtWork DEF EngineInv
    <3>2. NotRetired(c)
      BY <1>1, <2>3, <3>1 DEF Attended, Appending
    <3>3. /\ ReadFrom(model.seq) = (model.seq + 1)..Len(log)
          /\ LastOf((model.seq + 1)..Len(log), model.seq) = Len(log)
      BY <2>1, <2>3, <3>1, ReadTail
    <3>4. model'.seq = Len(log') /\ Len(log') \in Nat /\ model'.events = Visible(model.seq)'
      BY <1>1, <2>1, <2>3, <3>1, <3>2, <3>3, ReflectTail
    <3>5. QED
      BY <1>3, <3>4 DEF Reflected
  <2>4. QED
    BY <1>1, <1>4, <2>2, <2>3 DEF Reflected
<1>5. QED
  BY <1>1, <1>2, <1>4 DEF Reflected

\* The events of a read model can be replaced.
LEMMA EventsExcept ==
  ASSUME NEW m, IsModel(m), NEW E, NEW x, x = [m EXCEPT !.events = @ \ E]
  PROVE  IsModel(x) /\ x.seq = m.seq /\ x.events = m.events \ E
<1>1. m \in [seq : {m.seq}, events : {m.events}]
  BY DEF IsModel
<1>2. x \in [seq : {m.seq}, events : {m.events \ E}]
  BY <1>1
<1>3. QED
  BY <1>2 DEF IsModel

\* A thread is retired: the read model forgets it.
LEMMA ModelRetires ==
  ASSUME Reflected, IsModel(model), NEW t \in Deletable, Retire(t)
  PROVE  Reflected' /\ IsModel(model')
<1>1. /\ worker = Idle /\ worker' = Idle /\ retiring' = retiring \cup {t}
      /\ model' = [model EXCEPT !.events = @ \ OfThread(model.events, t)]
      /\ UNCHANGED <<log, events, receipts, up, diverged>>
  BY DEF Retire, TakesEnvelope
<1>2. /\ IsModel(model') /\ model'.seq = model.seq
      /\ model'.events = model.events \ OfThread(model.events, t)
  BY <1>1, EventsExcept
<1>3. ASSUME up, ~diverged PROVE Reflected'
  <2>1. /\ model.seq \in Nat /\ model.events = Visible(model.seq) /\ model.seq = Len(log)
    BY <1>1, <1>3 DEF Reflected, Idle
  <2>2. model'.events = Visible(model.seq)'
    BY <1>1, <1>2, <2>1 DEF Visible, OfThread
  <2>3. QED
    BY <1>1, <1>2, <2>1, <2>2 DEF Reflected, Idle
<1>4. QED
  BY <1>1, <1>2, <1>3 DEF Reflected

\* Its rows are purged, of which the read model holds none.
LEMMA ModelPurges ==
  ASSUME EngineInv, Reflected, IsModel(model), NEW t \in Deletable, t \in retiring \cup purged,
         Purge(t)
  PROVE  Reflected'
<1>1. /\ worker = Idle /\ worker' = Idle /\ retiring' = retiring \ {t}
      /\ events' = events \ OfThread(events, t)
      /\ UNCHANGED <<log, model, up, diverged>>
  BY DEF Purge, TakesEnvelope
<1>2. \A s \in events : ThreadOf[log[s].cmd] = t => t \in retiring
  BY DEF EngineInv, PurgedStaysPurged, OfThread
<1>3. Visible(model.seq)' = Visible(model.seq)
  BY <1>1, <1>2 DEF Visible, OfThread
<1>4. QED
  BY <1>1, <1>3 DEF Reflected, Idle

\* Startup loads everything.
LEMMA ModelBoots ==
  ASSUME EngineAssumption, NewProjectors = {}, EngineInv, Caught, Alive, Boot
  PROVE  Reflected' /\ IsModel(model')
<1>1. /\ installed' = Projectors
      /\ \A p \in Projectors : rows'[p] = events /\ projected'[p] = Len(log)
      /\ UNCHANGED <<log, events>>
  BY BootLeaves
<1>2. Len(log) \in Nat /\ events \subseteq 1..Len(log)
  BY DEF EngineInv, Stored
<1>3. worker' = Idle
  BY DEF Boot, Alive
<1>4. ThreadRows \in Projectors
  BY DEF ThreadRows, EngineAssumption
<1>5. model' = [seq |-> CHOOSE n \in {projected'[p] : p \in installed'} :
                          \A p \in installed' : n <= projected'[p],
                events |-> {s \in rows'[ThreadRows] : ThreadOf[log[s].cmd] \notin retiring'}]
  BY DEF Boot
<1>6. {projected'[p] : p \in installed'} = {Len(log)}
  BY <1>1, <1>4
<1>7. (CHOOSE n \in {projected'[p] : p \in installed'} :
          \A p \in installed' : n <= projected'[p]) = Len(log)
  BY <1>1, <1>2, <1>6
<1>8. /\ IsModel(model') /\ model'.seq = Len(log)
      /\ model'.events = {s \in events : ThreadOf[log[s].cmd] \notin retiring'}
  BY <1>1, <1>4, <1>5, <1>7 DEF IsModel
<1>9. model'.events = Visible(model.seq)'
  <2>1. \A s \in events : s <= Len(log)
    BY <1>2
  <2>2. QED
    BY <1>1, <1>8, <2>1 DEF Visible
<1>10. QED
  BY <1>1, <1>2, <1>3, <1>8, <1>9 DEF Reflected, Idle

\* A process that is down does nothing.
LEMMA AliveKept == ASSUME Alive, [Next]_vars PROVE Alive'
<1>1. ASSUME NEW d \in Dispatches, Dispatch(d) \/ AnswerFromReceipt(d) \/ Refuse(d) \/ Admit(d)
      PROVE  Alive'
  BY <1>1 DEF Dispatch, AnswerFromReceipt, Refuse, Admit, Takes, Alive
<1>2. ASSUME NEW t \in Deletable, BeginDelete(t) \/ RequestRetire(t) \/ RequestPurge(t)
      PROVE  Alive'
  BY <1>2 DEF BeginDelete, RequestRetire, RequestPurge, Alive
<1>3. ASSUME NEW t \in Deletable, Retire(t) \/ Purge(t) \/ DeletionFails(t) PROVE Alive'
  <2>1. /\ up /\ up' = up
        /\ \E v \in {"none", "retired", "deleted"} : deletion' = [deletion EXCEPT ![t] = v]
    BY <1>3 DEF Retire, Purge, DeletionFails, TakesEnvelope
  <2>2. QED
    BY <2>1 DEF Alive
<1>4. CASE Commit \/ CommitUncertain \/ RollBack \/ Finish \/ Reconcile \/ ReconcileFails
           \/ RecordRejection
  <2>1. worker.pc # "idle"
    BY <1>4 DEF Commit, CommitUncertain, Persist, RollBack, Finish, Reconcile, ReconcileFails,
                RecordRejection
  <2>2. up
    BY <2>1 DEF Alive, Idle
  <2>3. up' = up /\ deletion' = deletion
    BY <1>4 DEF Commit, CommitUncertain, RollBack, Finish, Reconcile, ReconcileFails,
                RecordRejection
  <2>4. QED
    BY <2>2, <2>3 DEF Alive
<1>5. CASE Crash
  BY <1>5 DEF Crash, Alive
<1>6. CASE Boot \/ UNCHANGED vars
  BY <1>6 DEF Boot, vars, Alive
<1>7. QED
  BY <1>1, <1>2, <1>3, <1>4, <1>5, <1>6 DEF Next, ProcessCommand, ProcessDeletion

\* What the worker appends to is not retired while it is busy.
LEMMA AttendedKept ==
  ASSUME EngineAssumption, EngineInv, Alive, Attended, [Next]_vars PROVE Attended'
<1>1. ASSUME NEW d \in Dispatches, Admit(d) PROVE Attended'
  BY <1>1 DEF Admit, Attended, NotRetired
<1>2. ASSUME NEW d \in Dispatches, Refuse(d) PROVE Attended'
  BY <1>2 DEF Refuse, Attended, Appending
<1>3. ASSUME NEW d \in Dispatches, Dispatch(d) \/ AnswerFromReceipt(d) PROVE Attended'
  BY <1>3 DEF Dispatch, AnswerFromReceipt, Attended, Appending, NotRetired
<1>4. CASE Commit \/ CommitUncertain \/ RollBack
  <2>1. worker.pc = "committing" /\ retiring' = retiring
    BY <1>4 DEF Commit, CommitUncertain, RollBack, Persist
  <2>2. worker \in [pc : {"committing", "committed"}, dispatch : Dispatches]
    BY <2>1, AtWork DEF EngineInv, WorkerOK
  <2>3. worker' = [worker EXCEPT !.pc = "committed"] \/ worker' = Failing
    BY <1>4 DEF Commit, CommitUncertain, RollBack
  <2>4. worker'.dispatch = worker.dispatch
    BY <2>2, <2>3 DEF Failing
  <2>5. QED
    BY <2>1, <2>4 DEF Attended, Appending, NotRetired
<1>5. CASE Finish \/ RecordRejection
  BY <1>5 DEF Finish, RecordRejection, Attended, Appending, Idle
<1>6. CASE Reconcile \/ ReconcileFails
  <2>1. worker.pc = "failed" /\ AfterFailure
    BY <1>6 DEF Reconcile, ReconcileFails
  <2>2. worker \in [pc : {"failed", "rejecting"}, dispatch : Dispatches, invariant : BOOLEAN]
    BY <2>1, AtWork DEF EngineInv, WorkerOK
  <2>3. worker' = [worker EXCEPT !.pc = "rejecting"] \/ worker' = Idle
    BY <2>1 DEF AfterFailure
  <2>4. worker'.pc \in {"rejecting", "idle"}
    BY <2>2, <2>3 DEF Idle
  <2>5. QED
    BY <2>4 DEF Attended, Appending
<1>7. ASSUME NEW t \in Deletable, Retire(t) \/ Purge(t) \/ DeletionFails(t) PROVE Attended'
  BY <1>7 DEF Retire, Purge, DeletionFails, TakesEnvelope, Attended, Appending, Idle
<1>8. ASSUME NEW t \in Deletable, BeginDelete(t) \/ RequestRetire(t) \/ RequestPurge(t)
      PROVE  Attended'
  BY <1>8 DEF BeginDelete, RequestRetire, RequestPurge, Attended, Appending, NotRetired
<1>9. CASE Crash
  BY <1>9 DEF Crash, Attended, Appending, Idle
<1>10. CASE UNCHANGED vars
  BY <1>10 DEF vars, Attended, Appending, NotRetired
<1>11. CASE Boot
  BY <1>11 DEF Boot, Alive, Attended, Appending, Idle
<1>12. QED
  BY <1>1, <1>2, <1>3, <1>4, <1>5, <1>6, <1>7, <1>8, <1>9, <1>10, <1>11
     DEF Next, ProcessCommand, ProcessDeletion

\* An envelope that is added to a queue, or taken from it.
LEMMA QueueAppend ==
  ASSUME NEW q \in Seq(Envelopes), NEW e \in Envelopes
  PROVE  /\ Append(q, e) \in Seq(Envelopes)
         /\ \A t \in LeavingIn(Append(q, e)) :
              t \in LeavingIn(q) \/ (e.kind = "purge" /\ e.thread = t)
<1> DEFINE r == Append(q, e)
<1>1. r \in Seq(Envelopes) /\ Len(r) = Len(q) + 1 /\ r[Len(q) + 1] = e
      /\ \A i \in 1..Len(q) : r[i] = q[i]
  OBVIOUS
<1>2. \A i \in 1..Len(r) : i \in 1..Len(q) \/ i = Len(q) + 1
  BY <1>1
<1> HIDE DEF r
<1>3. QED
  BY <1>1, <1>2 DEF LeavingIn, r

LEMMA QueueTail ==
  ASSUME NEW q \in Seq(Envelopes), q # <<>>
  PROVE  /\ Tail(q) \in Seq(Envelopes) /\ LeavingIn(Tail(q)) \subseteq LeavingIn(q)
<1> DEFINE r == Tail(q)
<1>1. r \in Seq(Envelopes) /\ Len(r) = Len(q) - 1 /\ Len(q) \in Nat
      /\ \A i \in 1..Len(r) : r[i] = q[i + 1]
  OBVIOUS
<1>2. \A i \in 1..Len(r) : i + 1 \in 1..Len(q)
  BY <1>1
<1> HIDE DEF r
<1>3. QED
  BY <1>1, <1>2 DEF LeavingIn, r

\* A thread stays retired until it is purged, as long as the process lives.
LEMMA LeavingKept ==
  ASSUME EngineAssumption, Alive, Leaving, [Next]_vars PROVE Leaving'
<1> DEFINE Same == retiring \cup purged \subseteq retiring' \cup purged'
<1>0. /\ queue \in Seq(Envelopes) /\ LeavingIn(queue) \subseteq retiring \cup purged
      /\ \A t \in Deletable : deletion[t] \in {"retired", "purging"} => t \in retiring \cup purged
      /\ \A t \in Deletable : deletion' = [deletion EXCEPT ![t] = deletion'[t]] =>
           \A u \in Deletable : u # t => deletion'[u] = deletion[u]
  BY DEF Leaving, Alive
<1>1. ASSUME Same, \/ queue' = queue
                   \/ queue # <<>> /\ queue' = Tail(queue)
                   \/ \E d \in Dispatches : queue' = Append(queue, Command(d)),
             \A t \in Deletable : deletion'[t] \in {"retired", "purging"} =>
                deletion[t] \in {"retired", "purging"} \/ t \in retiring' \cup purged'
      PROVE  Leaving'
  <2>1. \A d \in Dispatches : Command(d) \in Envelopes /\ Command(d).kind # "purge"
    BY DEF Command, Envelopes
  <2>2. queue' \in Seq(Envelopes) /\ LeavingIn(queue') \subseteq LeavingIn(queue)
    <3>1. CASE queue' = queue
      BY <1>0, <3>1
    <3>2. CASE queue # <<>> /\ queue' = Tail(queue)
      BY <1>0, <3>2, QueueTail
    <3>3. ASSUME NEW d \in Dispatches, queue' = Append(queue, Command(d))
          PROVE  queue' \in Seq(Envelopes) /\ LeavingIn(queue') \subseteq LeavingIn(queue)
      BY <1>0, <2>1, <3>3, QueueAppend
    <3>4. QED
      BY <1>1, <3>1, <3>2, <3>3
  <2>3. QED
    BY <1>0, <1>1, <2>2 DEF Leaving, LeavingIn
<1>2. ASSUME NEW d \in Dispatches, Dispatch(d) \/ AnswerFromReceipt(d) \/ Refuse(d) \/ Admit(d)
      PROVE  Leaving'
  BY <1>1, <1>2 DEF Dispatch, AnswerFromReceipt, Refuse, Admit, Takes, durable
<1>3. ASSUME NEW t \in Deletable, BeginDelete(t) PROVE Leaving'
  <2>1. /\ UNCHANGED <<queue, retiring, purged>>
        /\ \A u \in Deletable : deletion'[u] \in {deletion[u], "quiesced"}
    BY <1>3 DEF BeginDelete, Alive
  <2>2. QED
    BY <1>1, <2>1
<1>4. ASSUME NEW t \in Deletable, RequestRetire(t) PROVE Leaving'
  <2>1. /\ UNCHANGED <<retiring, purged>> /\ queue' = Append(queue, Retirement(t))
        /\ \A u \in Deletable : deletion'[u] \in {deletion[u], "retiring"}
    BY <1>4 DEF RequestRetire, durable, Alive
  <2>2. Retirement(t) \in Envelopes /\ Retirement(t).kind = "retire"
    BY DEF Retirement, Envelopes
  <2>3. queue' \in Seq(Envelopes) /\ LeavingIn(queue') \subseteq LeavingIn(queue)
    BY <1>0, <2>1, <2>2, QueueAppend
  <2>4. QED
    BY <1>0, <2>1, <2>3 DEF Leaving, LeavingIn
<1>5. ASSUME NEW t \in Deletable, RequestPurge(t) PROVE Leaving'
  <2>1. /\ UNCHANGED <<retiring, purged>> /\ queue' = Append(queue, Purging(t))
        /\ deletion[t] = "retired" /\ \A u \in Deletable : u # t => deletion'[u] = deletion[u]
    BY <1>5 DEF RequestPurge, durable, Alive
  <2>2. Purging(t) \in Envelopes /\ Purging(t).thread = t
    BY DEF Purging, Envelopes
  <2>3. queue' \in Seq(Envelopes)
        /\ \A u \in LeavingIn(queue') : u \in LeavingIn(queue) \/ u = t
    BY <1>0, <2>1, <2>2, QueueAppend
  <2>4. QED
    BY <1>0, <2>1, <2>3 DEF Leaving, LeavingIn
<1>6. ASSUME NEW t \in Deletable, Retire(t) \/ Purge(t) \/ DeletionFails(t) PROVE Leaving'
  <2>1. /\ queue # <<>> /\ queue' = Tail(queue) /\ Same
        /\ \/ t \in retiring' \/ deletion'[t] \in {"deleted", "none"}
        /\ \A u \in Deletable : u # t => deletion'[u] = deletion[u]
    BY <1>6 DEF Retire, Purge, DeletionFails, TakesEnvelope, durable, Alive
  <2>2. QED
    BY <1>1, <2>1
<1>7. CASE Commit \/ CommitUncertain \/ RollBack \/ Finish \/ Reconcile \/ ReconcileFails
           \/ RecordRejection
  <2>1. UNCHANGED <<queue, retiring, purged, deletion>>
    BY <1>7 DEF Commit, CommitUncertain, Persist, RollBack, Finish, Reconcile, ReconcileFails,
                RecordRejection, durable
  <2>2. QED
    BY <1>1, <2>1
<1>8. CASE Crash \/ Boot
  <2>1. /\ queue' = <<>> /\ \A t \in Deletable : deletion'[t] \in {"none", "deleted"}
    BY <1>8 DEF Crash, Boot, Alive
  <2>2. queue' \in Seq(Envelopes) /\ LeavingIn(queue') = {}
    <3>1. Len(queue') = 0 /\ queue' \in Seq(Envelopes)
      BY <2>1
    <3>2. QED
      BY <3>1 DEF LeavingIn
  <2>3. QED
    BY <2>1, <2>2 DEF Leaving, LeavingIn
<1>9. CASE UNCHANGED vars
  BY <1>1, <1>9 DEF vars, durable
<1>10. QED
  BY <1>2, <1>3, <1>4, <1>5, <1>6, <1>7, <1>8, <1>9 DEF Next, ProcessCommand, ProcessDeletion

LEMMA ModelKept ==
  ASSUME CommandsAssumption, EngineAssumption, Unlimited, EngineInv, ModelInv, [Next]_vars
  PROVE  ModelInv'
<1>1. Caught' /\ Alive' /\ Leaving' /\ Attended'
  BY CaughtKept, AliveKept, LeavingKept, AttendedKept DEF ModelInv, Unlimited
<1> SUFFICES Reflected' /\ IsModel(model')
  BY <1>1 DEF ModelInv
<1> USE DEF ModelInv
<1>2. ASSUME NEW d \in Dispatches, Dispatch(d) \/ AnswerFromReceipt(d)
      PROVE  Reflected' /\ IsModel(model')
  <2>1. UNCHANGED <<log, events, retiring, model, up, diverged, receipts, worker>>
    BY <1>2 DEF Dispatch, AnswerFromReceipt, durable
  <2>2. QED
    BY <2>1, ModelSteady
<1>3. ASSUME NEW d \in Dispatches, Refuse(d) \/ Admit(d)
      PROVE  Reflected' /\ IsModel(model')
  <2>1. UNCHANGED <<log, events, retiring, model, up, diverged>> /\ worker.pc = "idle"
        /\ worker'.pc # "committed"
    BY <1>3 DEF Refuse, Admit, Takes, durable, Idle
  <2>2. QED
    BY <2>1, ModelTakes
<1>4. ASSUME NEW t \in Deletable,
             BeginDelete(t) \/ RequestRetire(t) \/ RequestPurge(t) \/ DeletionFails(t)
      PROVE  Reflected' /\ IsModel(model')
  <2>1. UNCHANGED <<log, events, retiring, model, up, diverged, receipts, worker>>
    BY <1>4 DEF BeginDelete, RequestRetire, RequestPurge, DeletionFails, durable
  <2>2. QED
    BY <2>1, ModelSteady
<1>5. CASE Commit \/ CommitUncertain
  <2>1. worker.pc = "committing" /\ UNCHANGED <<retiring, model, up, diverged>>
        /\ Persist(worker.dispatch[1])
    BY <1>5 DEF Commit, CommitUncertain, Persist
  <2>2. PICK c \in Commands : c = worker.dispatch[1]
    BY <2>1, AtWork DEF EngineInv
  <2>3. /\ worker'.pc = "committed" \/ (worker'.pc = "failed" /\ ~worker'.invariant)
        /\ worker'.dispatch = worker.dispatch
    <3>1. CASE Commit
      <4>1. worker \in [pc : {"committing", "committed"}, dispatch : Dispatches]
        BY <2>1, AtWork DEF EngineInv, WorkerOK
      <4>2. worker' = [worker EXCEPT !.pc = "committed"]
        BY <3>1 DEF Commit
      <4>3. QED
        BY <4>1, <4>2
    <3>2. CASE CommitUncertain
      BY <3>2 DEF CommitUncertain, Failing
    <3>3. QED
      BY <1>5, <3>1, <3>2
  <2>4. QED
    BY <2>1, <2>2, <2>3, ModelCommits
<1>6. CASE RollBack \/ RecordRejection
  <2>1. UNCHANGED <<log, events, retiring, model, up, diverged>>
        /\ worker.pc \in {"committing", "rejecting"} /\ worker'.pc # "committed"
    BY <1>6 DEF RollBack, RecordRejection, durable, Failing, Idle
  <2>2. QED
    BY <2>1, ModelTakes
<1>7. CASE Finish
  BY <1>7, ModelFinishes
<1>8. CASE Reconcile
  BY <1>8, ModelReconciles
<1>9. CASE ReconcileFails
  BY <1>9 DEF ReconcileFails, Reflected
<1>10. ASSUME NEW t \in Deletable, Retire(t) PROVE Reflected' /\ IsModel(model')
  BY <1>10, ModelRetires
<1>11. ASSUME NEW t \in Deletable, Purge(t) PROVE Reflected' /\ IsModel(model')
  <2>1. queue # <<>> /\ queue[1].kind = "purge" /\ queue[1].thread = t /\ queue \in Seq(Envelopes)
    BY <1>11 DEF Purge, TakesEnvelope, Purging, Leaving
  <2>2. t \in LeavingIn(queue)
    BY <2>1 DEF LeavingIn
  <2>3. t \in retiring \cup purged
    BY <2>2 DEF Leaving
  <2>4. model' = model
    BY <1>11 DEF Purge
  <2>5. QED
    BY <1>11, <2>3, <2>4, ModelPurges
<1>12. CASE Crash
  BY <1>12 DEF Crash, Reflected, IsModel, EmptyModel
<1>13. CASE Boot
  BY <1>13, ModelBoots DEF Unlimited
<1>14. CASE UNCHANGED vars
  BY <1>14, ModelSteady DEF vars, durable
<1>15. QED
  BY <1>2, <1>3, <1>4, <1>5, <1>6, <1>7, <1>8, <1>9, <1>10, <1>11, <1>12, <1>13, <1>14
     DEF Next, ProcessCommand, ProcessDeletion

LEMMA InitModel == ASSUME NewProjectors = {}, Init PROVE ModelInv
<1>1. /\ log = <<>> /\ events = {} /\ worker = Idle /\ queue = <<>> /\ model = EmptyModel /\ up
      /\ deletion = [t \in Deletable |-> "none"] /\ retiring = {}
  BY DEF Init, SerialInit
<1>2. Len(log) = 0 /\ Len(queue) = 0 /\ queue \in Seq(Envelopes)
  BY <1>1
<1>3. Leaving
  BY <1>1, <1>2 DEF Leaving, LeavingIn
<1>4. model.seq = 0 /\ model.events = {} /\ IsModel(model)
  BY <1>1 DEF EmptyModel, IsModel
<1>5. Reflected
  BY <1>1, <1>2, <1>4 DEF Reflected, Visible, Idle
<1>6. QED
  BY <1>1, <1>3, <1>4, <1>5, InitCaught DEF ModelInv, Alive, Attended, Appending, Idle

LEMMA ModelInvariance == ASSUME Unlimited PROVE Spec => []ModelInv
<1>1. Init => ModelInv
  BY InitModel DEF Unlimited
<1>2. EngineInv /\ ModelInv /\ [Next]_vars => ModelInv'
  BY ModelKept, CommandsAssumption, EngineAssumption
<1>3. QED
  BY <1>1, <1>2, EngineInvariance, PTL DEF Spec

\* Between commands the read model reflects the store, unless a reconciliation failed
\* (OrchestrationEngine.ts:966, 990): as long as no version adds a projector, whose stale
\* cursor startup would take for the sequence of the read model.
THEOREM ModelAlwaysFollows == ASSUME Unlimited PROVE Spec => []ModelFollowsLog
<1>1. EngineInv /\ ModelInv => ModelFollowsLog
  <2> SUFFICES ASSUME EngineInv, ModelInv, up, worker = Idle, ~diverged
               PROVE  /\ \A s \in events : s <= model.seq
                      /\ model.events = {s \in events : ThreadOf[log[s].cmd] \notin retiring}
    BY DEF ModelFollowsLog
  <2>1. model.seq = Len(log) /\ model.events = Visible(model.seq)
    BY DEF ModelInv, Reflected, Idle
  <2>2. \A s \in events : s <= Len(log)
    BY DEF EngineInv, Stored
  <2>3. QED
    BY <2>1, <2>2 DEF Visible
<1>2. QED
  BY <1>1, EngineInvariance, ModelInvariance, PTL

-----------------------------------------------------------------------------
(* The serial command processor *)

\* The decider has permitted what is being committed.
Decided ==
  /\ ~diverged
  /\ worker.pc = "committing" => Permits(model.events, worker.dispatch[1])

LEMMA DecidedKept ==
  ASSUME EngineAssumption, "reconcile" \notin Faults, EngineInv, Alive, Decided, [Next]_vars
  PROVE  Decided'
<1>1. ASSUME UNCHANGED <<log, model, diverged>>, worker' = worker PROVE Decided'
  BY <1>1 DEF Decided, Permits, Says
<1>2. ASSUME diverged' = FALSE, worker'.pc # "committing" PROVE Decided'
  BY <1>2 DEF Decided
<1>3. ASSUME NEW d \in Dispatches, Admit(d) PROVE Decided'
  <2>1. /\ UNCHANGED <<log, model, diverged>> /\ worker' = [pc |-> "committing", dispatch |-> d]
        /\ Permits(model.events, d[1])
    BY <1>3 DEF Admit, Refused, durable
  <2>2. QED
    BY <2>1 DEF Decided, Permits, Says
<1>4. ASSUME NEW d \in Dispatches, Dispatch(d) \/ AnswerFromReceipt(d) PROVE Decided'
  BY <1>1, <1>4 DEF Dispatch, AnswerFromReceipt, durable
<1>5. ASSUME NEW d \in Dispatches, Refuse(d) PROVE Decided'
  BY <1>2, <1>5 DEF Refuse, Decided
<1>6. ASSUME NEW t \in Deletable,
             BeginDelete(t) \/ RequestRetire(t) \/ RequestPurge(t) \/ DeletionFails(t)
      PROVE  Decided'
  BY <1>1, <1>6 DEF BeginDelete, RequestRetire, RequestPurge, DeletionFails, durable
<1>7. ASSUME NEW t \in Deletable, Retire(t) \/ Purge(t) PROVE Decided'
  BY <1>2, <1>7 DEF Retire, Purge, TakesEnvelope, Decided, Idle
<1>8. CASE Commit \/ CommitUncertain \/ RollBack \/ Finish \/ Reconcile \/ RecordRejection
  <2>1. worker'.pc # "committing"
    <3>1. CASE Commit
      <4>1. worker.pc = "committing"
        BY <3>1 DEF Commit, Persist
      <4>2. worker \in [pc : {"committing", "committed"}, dispatch : Dispatches]
        BY <4>1, AtWork DEF EngineInv, WorkerOK
      <4>3. worker' = [worker EXCEPT !.pc = "committed"]
        BY <3>1 DEF Commit
      <4>4. QED
        BY <4>2, <4>3
    <3>2. CASE Reconcile
      <4>1. worker.pc = "failed" /\ AfterFailure
        BY <3>2 DEF Reconcile
      <4>2. worker \in [pc : {"failed", "rejecting"}, dispatch : Dispatches, invariant : BOOLEAN]
        BY <4>1, AtWork DEF EngineInv, WorkerOK
      <4>3. worker' = [worker EXCEPT !.pc = "rejecting"] \/ worker' = Idle
        BY <4>1 DEF AfterFailure
      <4>4. QED
        BY <4>2, <4>3 DEF Idle
    <3>3. QED
      BY <1>8, <3>1, <3>2 DEF CommitUncertain, RollBack, Failing, Finish, RecordRejection, Idle
  <2>2. diverged' = FALSE
    BY <1>8 DEF Commit, CommitUncertain, RollBack, Finish, Reconcile, RecordRejection, Decided
  <2>3. QED
    BY <1>2, <2>1, <2>2
<1>9. CASE ReconcileFails
  BY <1>9 DEF ReconcileFails, Fault
<1>10. CASE Crash \/ Boot
  BY <1>2, <1>10 DEF Crash, Boot, Alive, Decided, Idle
<1>11. CASE UNCHANGED vars
  BY <1>1, <1>11 DEF vars, durable
<1>12. QED
  BY <1>3, <1>4, <1>5, <1>6, <1>7, <1>8, <1>9, <1>10, <1>11 DEF Next, ProcessCommand, ProcessDeletion

\* The log says the same of a thread that is neither purged nor retiring as the read model
\* between commands.
LEMMA SaysSame ==
  ASSUME EngineInv, Kept, NEW c \in Commands, ThreadOf[c] \notin purged, ThreadOf[c] \notin retiring,
         model.seq = Len(log), model.events = Visible(model.seq), NEW type
  PROVE  Says(model.events, ThreadOf[c], type) = Says(DOMAIN log, ThreadOf[c], type)
<1>1. DOMAIN log = 1..Len(log) /\ events \subseteq 1..Len(log) /\ Len(log) \in Nat
  BY DEF EngineInv, Stored
<1>2. \A s \in DOMAIN log : ThreadOf[log[s].cmd] = ThreadOf[c] => s \in model.events
  BY <1>1 DEF Kept, Visible
<1>3. model.events \subseteq DOMAIN log
  BY <1>1 DEF Visible
<1>4. QED
  BY <1>2, <1>3 DEF Says

\* A transaction is a step of the serial command processor.
LEMMA PersistApplies ==
  ASSUME CommandsAssumption, EngineInv, MessageInv, ModelInv, Decided, Alive,
         worker.pc = "committing", NEW c \in Commands, c = worker.dispatch[1], Persist(c)
  PROVE  Apply(c)
<1>1. /\ ThreadOf[c] \notin tombstones /\ ThreadOf[c] \notin purged /\ ThreadOf[c] \notin retiring
      /\ log' = log \o Batch(c)
  BY DEF Persist, EngineInv, Fenced
<1>2. worker # Idle /\ up
  BY DEF Idle, Alive
<1>3. receipts[c] = NoReceipt
  BY <1>2 DEF EngineInv, WorkerHistory
<1>4. AppliedIn(c) = {}
  BY <1>1, <1>3, NothingApplied DEF EngineInv
<1>5. model.seq = Len(log) /\ model.events = Visible(model.seq)
  BY <1>2 DEF ModelInv, Reflected, Decided
<1>6. \A type : Says(model.events, ThreadOf[c], type) = Says(DOMAIN log, ThreadOf[c], type)
  BY <1>1, <1>5, SaysSame DEF MessageInv
<1>7. Permits(DOMAIN log, c)
  BY <1>6 DEF Decided, Permits
<1>8. \A type : About(events, c, type) = About(DOMAIN log, c, type)
  <2>1. DOMAIN log = 1..Len(log)
    BY DEF EngineInv, Stored
  <2>2. QED
    BY <1>1, <2>1, WholeThread DEF MessageInv
<1>9. ~MessageUsed(DOMAIN log, c)
  BY <1>8 DEF MessageInv, FoundFree, MessageUsed
<1>10. QED
  BY <1>1, <1>4, <1>7, <1>9 DEF Apply

\* The engine implements the serial command processor (OrchestrationEngine.ts:748, 897), as
\* long as no version adds a projector and reconciliation does not fail: each append is one
\* command's whole batch, permitted by the log as it stands.
THEOREM EngineIsSerial ==
  ASSUME Unlimited, "reconcile" \notin Faults PROVE Spec => SerialLog
<1>1. Init => Decided /\ log = <<>>
  BY DEF Init, SerialInit, Decided, Idle
<1>2. EngineInv /\ ModelInv /\ Decided /\ [Next]_vars => Decided'
  BY DecidedKept, EngineAssumption DEF ModelInv
<1>3. Spec => []Decided
  BY <1>1, <1>2, EngineInvariance, ModelInvariance, PTL DEF Spec
<1>4. EngineInv /\ MessageInv /\ ModelInv /\ Decided /\ [Next]_vars => [SerialNext]_log
  <2> SUFFICES ASSUME EngineInv, MessageInv, ModelInv, Decided, [Next]_vars, log' # log
               PROVE  SerialNext
    OBVIOUS
  <2>1. Commit \/ CommitUncertain
    <3>1. ASSUME NEW d \in Dispatches,
                 Dispatch(d) \/ AnswerFromReceipt(d) \/ Refuse(d) \/ Admit(d) PROVE log' = log
      BY <3>1 DEF Dispatch, AnswerFromReceipt, Refuse, Admit, durable
    <3>2. ASSUME NEW t \in Deletable, \/ BeginDelete(t) \/ RequestRetire(t) \/ RequestPurge(t)
                                      \/ Retire(t) \/ Purge(t) \/ DeletionFails(t)
          PROVE  log' = log
      BY <3>2 DEF BeginDelete, RequestRetire, RequestPurge, Retire, Purge, DeletionFails, durable
    <3>3. CASE RollBack \/ Finish \/ Reconcile \/ ReconcileFails \/ RecordRejection
      BY <3>3 DEF RollBack, Finish, Reconcile, ReconcileFails, RecordRejection, durable
    <3>4. CASE Crash \/ Boot \/ UNCHANGED vars
      BY <3>4 DEF Crash, Boot, vars, durable
    <3>5. QED
      BY <3>1, <3>2, <3>3, <3>4 DEF Next, ProcessCommand, ProcessDeletion
  <2>2. worker.pc = "committing" /\ Persist(worker.dispatch[1]) /\ worker.dispatch[1] \in Commands
    <3>1. worker.pc = "committing" /\ Persist(worker.dispatch[1])
      BY <2>1 DEF Commit, CommitUncertain, Persist
    <3>2. worker.dispatch[1] \in Commands
      BY <3>1, AtWork, EngineAssumption, CommandsAssumption DEF EngineInv
    <3>3. QED
      BY <3>1, <3>2
  <2>3. Apply(worker.dispatch[1])
    BY <2>2, PersistApplies, CommandsAssumption DEF ModelInv
  <2>4. QED
    BY <2>2, <2>3 DEF SerialNext
<1>5. Init => SerialInit
  BY DEF Init
<1>6. Spec => []MessageInv
  BY MessageInvariance
<1>7. QED
  BY <1>3, <1>4, <1>5, <1>6, EngineInvariance, ModelInvariance, PTL DEF Spec, SerialLog, SerialSpec


-----------------------------------------------------------------------------
(* The shape of the state *)

Statuses == {"none", "accepted", "rejected"}
Replies == {"unsent", "waiting", "accepted", "rejected", "failed", "lost"}
Appendable == UNION {Range(Batch(c)) : c \in Commands}

\* Sequence numbers are positions in the log, or 0.
StoreShape ==
  /\ log \in Seq(Appendable)
  /\ tombstones \subseteq Threads /\ purged \subseteq Threads
  /\ receipts \in [Commands -> [status : Statuses, seq : 0..Len(log)]]
  /\ installed \subseteq Projectors /\ Projectors \ NewProjectors \subseteq installed
  /\ projected \in [Projectors -> 0..Len(log)]

ModelShape ==
  /\ IsModel(model) /\ model.seq \in 0..Len(log) /\ model.events \subseteq 1..Len(log)

ProcessShape ==
  /\ up \in BOOLEAN /\ diverged \in BOOLEAN /\ faults \in 0..MaxFaults
  /\ started \in 0..Len(log) /\ ModelShape
  /\ reply \in [Dispatches -> Replies]

\* What has been announced is in order and not newer than the read model, and what the
\* worker has committed is.
Announced ==
  /\ published \in Seq(1..Len(log)) /\ Increasing(published)
  /\ \A i \in 1..Len(published) : published[i] <= model.seq
  /\ ~up => published = <<>>
  /\ worker.pc = "committed" =>
       LET c == worker.dispatch[1] IN
       receipts[c].seq = Len(log) /\ model.seq + Len(Batch(c)) <= Len(log)

ShapeInv == StoreShape /\ ProcessShape /\ Announced /\ Alive /\ Leaving

-----------------------------------------------------------------------------
\* The last of a set of positions, and the positions a read returns.
LEMMA LastOfPositions ==
  ASSUME NEW n \in Nat, NEW S, S \subseteq 1..n, NEW x
  PROVE  /\ S = {} => LastOf(S, x) = x
         /\ S # {} => LastOf(S, x) \in S /\ \A s \in S : s <= LastOf(S, x)
<1>1. S # {} => \E m \in S : \A s \in S : s <= m
  <2>1. S \subseteq 0..n
    OBVIOUS
  <2>2. QED
    BY <2>1, GreatestNumber
<1>2. QED
  BY <1>1 DEF LastOf

LEMMA ReadIsStored ==
  ASSUME Stored, NEW seq PROVE ReadFrom(seq) \subseteq 1..Len(log) /\ \A s \in ReadFrom(seq) : s > seq
BY DEF Stored, ReadFrom

\* A sequence of elements of a set.
LEMMA SeqOfSet ==
  ASSUME NEW s \in Seq(Nat), NEW T, \A i \in 1..Len(s) : s[i] \in T PROVE s \in Seq(T)
<1>1. Len(s) \in Nat /\ s \in [1..Len(s) -> T]
  OBVIOUS
<1>2. QED
  BY <1>1

\* Announcing stored events that are newer than the read model.
LEMMA Announcing ==
  ASSUME Stored, ProcessShape, Announced, NEW S, S \subseteq 1..Len(log),
         \A s \in S : s > model.seq, Reflect(S), UNCHANGED log
  PROVE  /\ published' \in Seq(1..Len(log')) /\ Increasing(published')
         /\ \A i \in 1..Len(published') : published'[i] <= model'.seq
         /\ IsModel(model') /\ model'.seq \in 0..Len(log') /\ model'.events \subseteq 1..Len(log')
         /\ model.seq <= model'.seq
         /\ {published'[i] : i \in 1..Len(published')}
              = {published[i] : i \in 1..Len(published)} \cup S
<1> DEFINE P == {published[i] : i \in 1..Len(published)}
           n == Len(log)
           top == LastOf(S, model.seq)
<1>1. n \in Nat /\ model.seq \in 0..n /\ model.events \subseteq 1..n
      /\ published \in Seq(1..n) /\ Increasing(published)
      /\ \A i \in 1..Len(published) : published[i] <= model.seq
  BY DEF Stored, ProcessShape, ModelShape, Announced
<1>2. model' = [seq |-> top, events |-> model.events \cup S]
      /\ published' = published \o InOrder(S)
  BY DEF Reflect
<1>3. top \in 0..n /\ model.seq <= top /\ \A s \in S : s <= top
  <2> HIDE DEF n
  <2>1. S \subseteq 1..n
    BY DEF n
  <2>4. /\ S = {} => top = model.seq
        /\ S # {} => top \in S /\ \A s \in S : s <= top
    BY <1>1, <2>1, LastOfPositions
  <2>5. PICK q : q = model.seq
    OBVIOUS
  <2> HIDE DEF top
  <2>6. n \in Nat /\ q \in 0..n /\ \A s \in S : s \in 1..n /\ s > q
    BY <1>1, <2>1, <2>5
  <2>2. CASE S = {}
    BY <2>2, <2>4, <2>5, <2>6
  <2>3. CASE S # {}
    <3>1. top \in S /\ \A s \in S : s <= top
      BY <2>3, <2>4
    <3>2. top \in 1..n /\ top > q
      BY <2>6, <3>1
    <3>3. QED
      BY <2>5, <2>6, <3>1, <3>2
  <2>7. QED
    BY <2>2, <2>3
<1> HIDE DEF top
<1>4. S \subseteq Nat /\ IsFiniteSet(S)
  <2>1. S \in SUBSET (1..n)
    OBVIOUS
  <2>3. IsFiniteSet(1..n)
    BY <1>1, FS_Interval
  <2>2. IsFiniteSet(S)
    BY <2>1, <2>3, FS_Subset
  <2>4. QED
    BY <2>2
<1>5. Enumerates(InOrder(S), S)
  BY <1>4, InOrderEnumerates
<1>6. published \in Seq(Nat)
  BY <1>1
<1>7. Enumerates(published, P)
  BY <1>1, <1>6 DEF Enumerates
<1>8. \A x \in P, y \in S : x < y
  <2>1. \A x \in P : x \in Nat /\ x <= model.seq
    BY <1>1
  <2>2. QED
    BY <1>1, <2>1
<1>9. Enumerates(published', P \cup S)
  <2> HIDE DEF P
  <2>1. Enumerates(published \o InOrder(S), P \cup S)
    BY <1>5, <1>7, <1>8, EnumeratesBoth
  <2>2. QED
    BY <1>2, <2>1
<1>10. P \cup S \subseteq 1..n /\ \A x \in P \cup S : x <= top
  <2>1. \A x \in P : x \in 1..n /\ x <= model.seq
    BY <1>1
  <2>2. PICK q \in 0..n : q = model.seq
    BY <1>1
  <2> HIDE DEF P, n
  <2>3. \A x \in P : x \in Nat /\ x <= q /\ q <= top
    BY <1>1, <1>3, <2>1, <2>2
  <2>4. \A x \in S : x \in 1..n /\ x <= top
    BY <1>3 DEF n
  <2>5. \A x \in P : x \in 1..n /\ x <= top
    BY <1>1, <1>3, <2>1, <2>2, <2>3 DEF n
  <2>6. QED
    BY <2>4, <2>5
<1> HIDE DEF P, n
<1>11. /\ published' \in Seq(Nat) /\ Increasing(published')
       /\ P \cup S = {published'[i] : i \in 1..Len(published')}
  BY <1>9 DEF Enumerates
<1>12. /\ published' \in Seq(1..n)
       /\ \A i \in 1..Len(published') : published'[i] <= top
  <2>1. \A i \in 1..Len(published') : published'[i] \in 1..n /\ published'[i] <= top
    BY <1>10, <1>11
  <2>2. published' \in Seq(1..n)
    BY <1>11, <2>1, SeqOfSet
  <2>3. QED
    BY <2>1, <2>2
<1>13. model'.seq = top /\ model'.events = model.events \cup S /\ IsModel(model')
  BY <1>2 DEF IsModel
<1>14. QED
  BY <1>1, <1>3, <1>11, <1>12, <1>13 DEF P, n

-----------------------------------------------------------------------------
\* A batch consists of entries, whatever it is typed by.
LEMMA AppendTyped ==
  ASSUME CommandsAssumption, NEW c \in Commands, NEW L \in Seq(Appendable)
  PROVE  L \o Batch(c) \in Seq(Appendable)
<1> DEFINE B == Batch(c)
<1>1. B \in Seq(Entries)
  BY BatchType
<1>2. Range(B) \subseteq Appendable
  BY DEF Appendable
<1> HIDE DEF B
<1>3. \A i \in 1..Len(B) : B[i] \in Appendable
  BY <1>1, <1>2 DEF Range
<1>4. Len(B) \in Nat /\ B \in [1..Len(B) -> Appendable]
  BY <1>1, <1>3
<1>5. B \in Seq(Appendable)
  BY <1>4
<1>6. QED
  BY <1>5 DEF B

\* The length of the log grows with a transaction.
LEMMA LogGrows ==
  ASSUME CommandsAssumption, Stored, NEW c \in Commands, log' = log \o Batch(c)
  PROVE  /\ Len(log) \in Nat /\ Len(Batch(c)) \in {1, 2} /\ Len(log') = Len(log) + Len(Batch(c))
         /\ Len(log') \in Nat /\ 0..Len(log) \subseteq 0..Len(log')
         /\ 1..Len(log) \subseteq 1..Len(log') /\ Len(log') \in 0..Len(log')
<1>1. Len(log') = Len(log) + Len(Batch(c)) /\ Len(log) \in Nat
  BY AppendBatch DEF Stored
<1>2. Len(Batch(c)) \in {1, 2}
  BY BatchType
<1>3. PICK n \in Nat : n = Len(log)
  BY <1>1
<1>4. PICK b \in {1, 2} : b = Len(Batch(c))
  BY <1>2
<1>5. Len(log') = n + b
  BY <1>1, <1>3, <1>4
<1>6. n + b \in Nat /\ 0..n \subseteq 0..(n + b) /\ 1..n \subseteq 1..(n + b) /\ n + b \in 0..(n + b)
  OBVIOUS
<1>7. QED
  BY <1>3, <1>4, <1>5, <1>6

LEMMA StoreShapePersists ==
  ASSUME CommandsAssumption, Stored, StoreShape, NEW c \in Commands, Persist(c)
  PROVE  StoreShape'
<1> DEFINE last == LastSequence + Len(Batch(c))
<1>1. /\ log' = log \o Batch(c)
      /\ projected' = [p \in Projectors |-> IF p \in installed THEN last ELSE projected[p]]
      /\ receipts' = [receipts EXCEPT ![c] = [status |-> "accepted", seq |-> last]]
      /\ UNCHANGED <<tombstones, installed, purged>>
  BY DEF Persist
<1>2. last = Len(log') /\ 0..Len(log) \subseteq 0..Len(log') /\ Len(log') \in 0..Len(log')
  BY <1>1, LogGrows DEF LastSequence
<1> HIDE DEF last
<1>3. log' \in Seq(Appendable)
  BY <1>1, AppendTyped DEF StoreShape
<1>4. receipts' \in [Commands -> [status : Statuses, seq : 0..Len(log')]]
  <2> DEFINE r == [status |-> "accepted", seq |-> last]
  <2>1. r \in [status : Statuses, seq : 0..Len(log')]
    BY <1>2 DEF Statuses
  <2>2. \A k \in Commands : receipts[k] \in [status : Statuses, seq : 0..Len(log')]
    BY <1>2 DEF StoreShape
  <2> HIDE DEF r
  <2>3. receipts' = [receipts EXCEPT ![c] = r] /\ DOMAIN receipts = Commands
    BY <1>1 DEF StoreShape, r
  <2>4. QED
    BY <2>1, <2>2, <2>3 DEF StoreShape
<1>5. projected' \in [Projectors -> 0..Len(log')]
  <2>1. \A p \in Projectors : projected[p] \in 0..Len(log')
    BY <1>2 DEF StoreShape
  <2>2. QED
    BY <1>1, <1>2, <2>1
<1>6. QED
  BY <1>1, <1>3, <1>4, <1>5 DEF StoreShape

\* What a projector reads at startup ends within the log.
LEMMA BootCursors ==
  ASSUME Stored, StoreShape, Boot
  PROVE  /\ projected' \in [Projectors -> 0..Len(log)]
         /\ installed' \subseteq Projectors /\ Projectors \ NewProjectors \subseteq installed'
<1>1. /\ installed' \in {installed, Projectors}
      /\ projected' = [p \in Projectors |->
                         IF p \in installed' THEN LastOf(ReadFrom(projected[p]), projected[p])
                         ELSE projected[p]]
  BY DEF Boot
<1>2. PICK n \in Nat : n = Len(log)
  BY DEF Stored
<1>3. ASSUME NEW p \in Projectors
      PROVE  LastOf(ReadFrom(projected[p]), projected[p]) \in 0..n
  <2>1. projected[p] \in 0..n
    BY <1>2 DEF StoreShape
  <2>2. ReadFrom(projected[p]) \subseteq 1..n
    BY <1>2, ReadIsStored
  <2>3. QED
    BY <2>1, <2>2, LastOfPositions
<1>4. \A p \in Projectors : projected[p] \in 0..n
  BY <1>2 DEF StoreShape
<1>5. projected' \in [Projectors -> 0..n]
  BY <1>1, <1>3, <1>4
<1>6. QED
  BY <1>1, <1>2, <1>5 DEF StoreShape

LEMMA StoreShapeKept ==
  ASSUME CommandsAssumption, EngineAssumption, EngineInv, StoreShape, ProcessShape, [Next]_vars
  PROVE  StoreShape'
<1>1. ASSUME UNCHANGED <<log, receipts, installed, projected, purged>>, tombstones' \subseteq Threads
      PROVE  StoreShape'
  BY <1>1 DEF StoreShape
<1>2. CASE Commit \/ CommitUncertain
  <2>1. worker.pc = "committing" /\ Persist(worker.dispatch[1])
    BY <1>2 DEF Commit, CommitUncertain, Persist
  <2>2. worker.dispatch[1] \in Commands
    BY <2>1, AtWork DEF EngineInv
  <2>3. QED
    BY <2>1, <2>2, StoreShapePersists DEF EngineInv
<1>3. CASE RecordRejection
  <2>1. worker.pc = "rejecting"
    BY <1>3 DEF RecordRejection
  <2>2. PICK c \in Commands : c = worker.dispatch[1]
    BY <2>1, AtWork DEF EngineInv
  <2>3. /\ UNCHANGED <<log, installed, projected, purged, tombstones>>
        /\ receipts' = receipts
           \/ receipts' = [receipts EXCEPT ![c] = [status |-> "rejected", seq |-> model.seq]]
    BY <1>3, <2>2 DEF RecordRejection
  <2>4. [status |-> "rejected", seq |-> model.seq] \in [status : Statuses, seq : 0..Len(log)]
    BY DEF ProcessShape, ModelShape, Statuses
  <2>5. receipts' \in [Commands -> [status : Statuses, seq : 0..Len(log)]]
    <3> DEFINE r == [status |-> "rejected", seq |-> model.seq]
    <3>1. r \in [status : Statuses, seq : 0..Len(log)]
      BY <2>4
    <3>2. receipts' = receipts \/ receipts' = [receipts EXCEPT ![c] = r]
      BY <2>3
    <3> HIDE DEF r
    <3>3. QED
      BY <3>1, <3>2 DEF StoreShape
  <2>6. QED
    BY <2>3, <2>5 DEF StoreShape
<1>4. ASSUME NEW t \in Deletable, Purge(t) PROVE StoreShape'
  <2>1. /\ UNCHANGED <<log, installed, projected>> /\ t \in Threads
        /\ receipts' = [c \in Commands |-> IF ThreadOf[c] = t THEN NoReceipt ELSE receipts[c]]
        /\ tombstones' = tombstones \cup {t} /\ purged' = purged \cup {t}
    BY <1>4 DEF Purge, EngineAssumption
  <2>2. NoReceipt \in [status : Statuses, seq : 0..Len(log)]
    <3>1. 0 \in 0..Len(log)
      BY DEF EngineInv, Stored
    <3>2. QED
      BY <3>1 DEF NoReceipt, Statuses
  <2>3. receipts' \in [Commands -> [status : Statuses, seq : 0..Len(log)]]
    BY <2>1, <2>2 DEF StoreShape
  <2>4. QED
    BY <2>1, <2>3 DEF StoreShape
<1>5. CASE Boot
  <2>1. UNCHANGED <<log, receipts, tombstones, purged>>
    BY <1>5 DEF Boot
  <2>2. QED
    BY <1>5, <2>1, BootCursors DEF StoreShape, EngineInv
<1>6. ASSUME NEW d \in Dispatches,
             Dispatch(d) \/ AnswerFromReceipt(d) \/ Refuse(d) \/ Admit(d)
      PROVE  StoreShape'
  BY <1>1, <1>6 DEF Dispatch, AnswerFromReceipt, Refuse, Admit, durable, StoreShape
<1>7. CASE RollBack \/ Finish \/ Reconcile \/ ReconcileFails
  BY <1>1, <1>7 DEF RollBack, Finish, Reconcile, ReconcileFails, durable, StoreShape
<1>8. ASSUME NEW t \in Deletable,
             BeginDelete(t) \/ RequestRetire(t) \/ RequestPurge(t) \/ Retire(t) \/ DeletionFails(t)
      PROVE  StoreShape'
  BY <1>1, <1>8 DEF BeginDelete, RequestRetire, RequestPurge, Retire, DeletionFails, durable,
                    StoreShape, EngineAssumption
<1>9. CASE Crash \/ UNCHANGED vars
  BY <1>1, <1>9 DEF Crash, durable, vars, StoreShape
<1>10. QED
  BY <1>2, <1>3, <1>4, <1>5, <1>6, <1>7, <1>8, <1>9 DEF Next, ProcessCommand, ProcessDeletion

\* The faults are counted.
LEMMA FaultsCounted ==
  ASSUME EngineAssumption, faults \in 0..MaxFaults, [Next]_vars PROVE faults' \in 0..MaxFaults
<1>1. ASSUME NEW kind, Fault(kind) PROVE faults' \in 0..MaxFaults
  BY <1>1 DEF Fault, EngineAssumption
<1>2. ASSUME NEW d \in Dispatches, Dispatch(d) \/ AnswerFromReceipt(d) \/ Refuse(d) \/ Admit(d)
      PROVE  faults' = faults
  BY <1>2 DEF Dispatch, AnswerFromReceipt, Refuse, Admit
<1>3. ASSUME NEW t \in Deletable,
             BeginDelete(t) \/ RequestRetire(t) \/ RequestPurge(t) \/ Retire(t) \/ Purge(t)
      PROVE  faults' = faults
  BY <1>3 DEF BeginDelete, RequestRetire, RequestPurge, Retire, Purge
<1>4. CASE Commit \/ Finish \/ Reconcile \/ Boot \/ UNCHANGED vars
  BY <1>4 DEF Commit, Finish, Reconcile, Boot, vars
<1>5. CASE CommitUncertain \/ RollBack \/ ReconcileFails \/ RecordRejection \/ Crash
  BY <1>1, <1>5 DEF CommitUncertain, RollBack, ReconcileFails, RecordRejection, Crash
<1>6. ASSUME NEW t \in Deletable, DeletionFails(t) PROVE faults' \in 0..MaxFaults
  BY <1>1, <1>6 DEF DeletionFails
<1>7. QED
  BY <1>2, <1>3, <1>4, <1>5, <1>6 DEF Next, ProcessCommand, ProcessDeletion

LEMMA ReconcileAnnounces ==
  ASSUME Stored, ProcessShape, Announced, Reconcile
  PROVE  /\ ModelShape' /\ model.seq <= model'.seq
         /\ published' \in Seq(1..Len(log')) /\ Increasing(published')
         /\ \A i \in 1..Len(published') : published'[i] <= model'.seq
         /\ {published'[i] : i \in 1..Len(published')}
              = {published[i] : i \in 1..Len(published)} \cup ReadFrom(model.seq)
<1>1. Reflect(ReadFrom(model.seq)) /\ UNCHANGED log
  BY DEF Reconcile, durable
<1>2. ReadFrom(model.seq) \subseteq 1..Len(log) /\ \A s \in ReadFrom(model.seq) : s > model.seq
  BY ReadIsStored
<1>3. QED
  BY <1>1, <1>2, Announcing DEF ModelShape

LEMMA FinishAnnounces ==
  ASSUME CommandsAssumption, EngineAssumption, EngineInv, ProcessShape, Announced, Finish
  PROVE  /\ ModelShape' /\ model.seq <= model'.seq
         /\ published' \in Seq(1..Len(log')) /\ Increasing(published')
         /\ \A i \in 1..Len(published') : published'[i] <= model'.seq
         /\ {published'[i] : i \in 1..Len(published')}
              = {published[i] : i \in 1..Len(published)}
                \cup (Len(log) - Len(Batch(worker.dispatch[1])) + 1)..Len(log)
<1> DEFINE c == worker.dispatch[1]
           S == (Len(log) - Len(Batch(c)) + 1)..Len(log)
<1>1. worker.pc = "committed" /\ UNCHANGED log
  BY DEF Finish, durable
<1>2. c \in Commands
  BY <1>1, AtWork DEF EngineInv
<1>3. receipts[c].seq = Len(log) /\ model.seq + Len(Batch(c)) <= Len(log)
  BY <1>1 DEF Announced
<1>4. Reflect(S)
  BY <1>3 DEF Finish
<1>5. PICK b \in {1, 2} : b = Len(Batch(c))
  BY <1>2, BatchType
<1>6. PICK n \in Nat : n = Len(log)
  BY DEF EngineInv, Stored
<1>7. PICK q \in 0..n : q = model.seq /\ q + b <= n
  BY <1>3, <1>5, <1>6 DEF ProcessShape, ModelShape
<1>8. S \subseteq 1..Len(log) /\ \A s \in S : s > model.seq
  <2>1. (n - b + 1)..n \subseteq 1..n /\ \A s \in (n - b + 1)..n : s > q
    BY <1>7
  <2>2. QED
    BY <1>5, <1>6, <1>7, <2>1
<1> HIDE DEF S
<1>9. QED
  BY <1>1, <1>4, <1>8, Announcing DEF ModelShape, EngineInv, S

\* Startup takes a cursor of a projector for the sequence of the read model.
LEMMA BootLoads ==
  ASSUME EngineAssumption, EngineInv, StoreShape, Boot
  PROVE  ModelShape'
<1>1. /\ projected' \in [Projectors -> 0..Len(log)]
      /\ installed' \subseteq Projectors /\ Projectors \ NewProjectors \subseteq installed'
  BY BootCursors DEF EngineInv
<1>2. ThreadRows \in Projectors /\ ThreadRows \in installed'
  <2>1. \E p \in Projectors \ NewProjectors : TRUE
    BY DEF EngineAssumption
  <2>2. ThreadRows \in Projectors \ NewProjectors
    BY <2>1 DEF ThreadRows
  <2>3. QED
    BY <1>1, <2>2
<1> DEFINE C == {projected'[p] : p \in installed'}
           low == CHOOSE n \in C : \A p \in installed' : n <= projected'[p]
           E == {s \in rows'[ThreadRows] : ThreadOf[log[s].cmd] \notin retiring'}
<1>3. model' = [seq |-> low, events |-> E] /\ UNCHANGED log
  BY DEF Boot
<1>4. Len(log) \in Nat
  BY DEF EngineInv, Stored
<1>5. low \in 0..Len(log)
  <2>1. C \subseteq 0..Len(log) /\ projected'[ThreadRows] \in C
    BY <1>1, <1>2
  <2>2. C \subseteq Nat /\ C # {}
    BY <1>4, <2>1
  <2>3. PICK n \in C : \A y \in C : n <= y
    <3> HIDE DEF C
    <3>1. QED
      BY <2>2, LeastNumber
  <2>4. \A p \in installed' : n <= projected'[p]
    BY <2>3
  <2>5. low \in C
    <3> HIDE DEF C
    <3>1. QED
      BY <2>3, <2>4
  <2>6. QED
    BY <2>1, <2>5
<1>6. E \subseteq 1..Len(log)
  <2>1. rows' = [p \in Projectors |->
                   IF p \in installed' THEN rows[p] \cup ReadFrom(projected[p]) ELSE rows[p]]
    BY DEF Boot
  <2>2. \A p \in Projectors : ReadFrom(projected[p]) \subseteq 1..Len(log) /\ rows[p] \subseteq 1..Len(log)
    BY ReadIsStored DEF EngineInv, Stored
  <2>3. QED
    BY <1>2, <2>1, <2>2
<1> HIDE DEF low, E
<1>7. model'.seq = low /\ model'.events = E /\ IsModel(model')
  BY <1>3 DEF IsModel
<1>8. QED
  BY <1>3, <1>5, <1>6, <1>7 DEF ModelShape

\* Every reply is one the code gives.
LEMMA RepliesKept ==
  ASSUME EngineAssumption, EngineInv, StoreShape, reply \in [Dispatches -> Replies], [Next]_vars
  PROVE  reply' \in [Dispatches -> Replies]
<1>1. ASSUME NEW d \in Dispatches, NEW r \in Replies, reply' = [reply EXCEPT ![d] = r]
      PROVE  reply' \in [Dispatches -> Replies]
  BY <1>1
<1>2. ASSUME NEW d \in Dispatches, Dispatch(d) PROVE reply' = [reply EXCEPT ![d] = "waiting"]
  BY <1>2 DEF Dispatch
<1>3. ASSUME NEW d \in Dispatches, AnswerFromReceipt(d)
      PROVE  \E r \in Replies : reply' = [reply EXCEPT ![d] = r]
  <2>1. d[1] \in Commands /\ receipts[d[1]].status # "none"
    BY <1>3, DispatchType DEF AnswerFromReceipt
  <2>2. receipts[d[1]].status \in Statuses
    BY <2>1 DEF StoreShape
  <2>3. receipts[d[1]].status \in Replies
    BY <2>1, <2>2 DEF Statuses, Replies
  <2>4. QED
    BY <1>3, <2>3 DEF AnswerFromReceipt
<1>4. ASSUME NEW d \in Dispatches, Refuse(d) \/ Admit(d) PROVE reply' = reply
  BY <1>4 DEF Refuse, Admit
<1>5. CASE Finish
  <2>1. worker.pc = "committed" /\ reply' = [reply EXCEPT ![worker.dispatch] = "accepted"]
    BY <1>5 DEF Finish
  <2>2. worker.dispatch \in Dispatches
    BY <2>1, AtWork DEF EngineInv
  <2>3. QED
    BY <1>1, <2>1, <2>2 DEF Replies
<1>6. CASE Reconcile \/ ReconcileFails
  <2>1. worker.pc = "failed" /\ (reply' = reply \/ reply' = [reply EXCEPT ![worker.dispatch] = "failed"])
    BY <1>6 DEF Reconcile, ReconcileFails, AfterFailure
  <2>2. worker.dispatch \in Dispatches
    BY <2>1, AtWork DEF EngineInv
  <2>3. QED
    BY <1>1, <2>1, <2>2 DEF Replies
<1>7. CASE RecordRejection
  <2>1. worker.pc = "rejecting" /\ reply' = [reply EXCEPT ![worker.dispatch] = "rejected"]
    BY <1>7 DEF RecordRejection
  <2>2. worker.dispatch \in Dispatches
    BY <2>1, AtWork DEF EngineInv
  <2>3. QED
    BY <1>1, <2>1, <2>2 DEF Replies
<1>8. CASE Crash
  BY <1>8 DEF Crash, Replies
<1>9. CASE Commit \/ CommitUncertain \/ RollBack \/ Boot \/ UNCHANGED vars
  BY <1>9 DEF Commit, CommitUncertain, RollBack, Boot, vars
<1>10. ASSUME NEW t \in Deletable,
              BeginDelete(t) \/ RequestRetire(t) \/ RequestPurge(t) \/ Retire(t) \/ Purge(t)
                \/ DeletionFails(t)
       PROVE  reply' = reply
  BY <1>10 DEF BeginDelete, RequestRetire, RequestPurge, Retire, Purge, DeletionFails
<1>11. "waiting" \in Replies
  BY DEF Replies
<1>12. QED
  BY <1>1, <1>2, <1>3, <1>4, <1>5, <1>6, <1>7, <1>8, <1>9, <1>10, <1>11
     DEF Next, ProcessCommand, ProcessDeletion

LEMMA ProcessShapeKept ==
  ASSUME CommandsAssumption, EngineAssumption, EngineInv, StoreShape, ProcessShape, Announced,
         [Next]_vars
  PROVE  ProcessShape'
<1>1. faults' \in 0..MaxFaults /\ reply' \in [Dispatches -> Replies]
  BY FaultsCounted, RepliesKept DEF ProcessShape
<1>2. ASSUME up' \in BOOLEAN, diverged' \in BOOLEAN, started' = started, log' = log, ModelShape'
      PROVE  ProcessShape'
  BY <1>1, <1>2 DEF ProcessShape
<1>3. ASSUME UNCHANGED <<log, started, model>>, up' \in BOOLEAN, diverged' \in BOOLEAN
      PROVE  ProcessShape'
  BY <1>2, <1>3 DEF ProcessShape, ModelShape
<1>4. CASE Commit \/ CommitUncertain
  <2>1. worker.pc = "committing" /\ Persist(worker.dispatch[1])
        /\ UNCHANGED <<up, diverged, started, model>>
    BY <1>4 DEF Commit, CommitUncertain, Persist
  <2>2. PICK c \in Commands : c = worker.dispatch[1]
    BY <2>1, AtWork DEF EngineInv
  <2>3. 0..Len(log) \subseteq 0..Len(log') /\ 1..Len(log) \subseteq 1..Len(log')
    BY <2>1, <2>2, LogGrows DEF Persist, EngineInv
  <2>4. QED
    BY <1>1, <2>1, <2>3 DEF ProcessShape, ModelShape
<1>5. CASE Finish
  <2>1. UNCHANGED <<log, up, diverged, started>>
    BY <1>5 DEF Finish, durable
  <2>2. QED
    BY <1>2, <1>5, <2>1, FinishAnnounces DEF ProcessShape
<1>6. CASE Reconcile
  <2>1. UNCHANGED <<log, up, diverged, started>>
    BY <1>6 DEF Reconcile, durable
  <2>2. QED
    BY <1>2, <1>6, <2>1, ReconcileAnnounces DEF ProcessShape, EngineInv
<1>7. CASE Boot
  <2>1. up' = TRUE /\ diverged' = FALSE /\ started' = Len(log) /\ log' = log /\ Len(log) \in Nat
    BY <1>7 DEF Boot, LastSequence, EngineInv, Stored
  <2>2. ModelShape'
    BY <1>7, BootLoads
  <2>3. started' \in 0..Len(log')
    BY <2>1
  <2>4. QED
    BY <1>1, <2>1, <2>2, <2>3 DEF ProcessShape
<1>8. CASE Crash
  <2>1. UNCHANGED <<log, started, diverged>> /\ up' = FALSE /\ model' = EmptyModel
        /\ Len(log) \in Nat
    BY <1>8 DEF Crash, durable, EngineInv, Stored
  <2>2. ModelShape'
    BY <2>1 DEF ModelShape, EmptyModel, IsModel
  <2>3. QED
    BY <1>2, <2>1, <2>2 DEF ProcessShape
<1>9. ASSUME NEW t \in Deletable, Retire(t) PROVE ProcessShape'
  <2>1. /\ UNCHANGED <<log, up, started, diverged>>
        /\ model' = [model EXCEPT !.events = @ \ OfThread(model.events, t)]
    BY <1>9 DEF Retire
  <2>2. /\ IsModel(model') /\ model'.seq = model.seq
        /\ model'.events = model.events \ OfThread(model.events, t)
    BY <2>1, EventsExcept DEF ProcessShape, ModelShape
  <2>3. QED
    BY <1>2, <2>1, <2>2 DEF ProcessShape, ModelShape
<1>10. ASSUME NEW d \in Dispatches,
              Dispatch(d) \/ AnswerFromReceipt(d) \/ Refuse(d) \/ Admit(d)
       PROVE  ProcessShape'
  BY <1>3, <1>10 DEF Dispatch, AnswerFromReceipt, Refuse, Admit, durable, ProcessShape
<1>11. CASE RollBack \/ ReconcileFails \/ RecordRejection \/ UNCHANGED vars
  BY <1>3, <1>11 DEF RollBack, ReconcileFails, RecordRejection, durable, vars, ProcessShape
<1>12. ASSUME NEW t \in Deletable,
              BeginDelete(t) \/ RequestRetire(t) \/ RequestPurge(t) \/ Purge(t) \/ DeletionFails(t)
       PROVE  ProcessShape'
  BY <1>3, <1>12 DEF BeginDelete, RequestRetire, RequestPurge, Purge, DeletionFails, durable,
                     ProcessShape
<1>13. QED
  BY <1>4, <1>5, <1>6, <1>7, <1>8, <1>9, <1>10, <1>11, <1>12
     DEF Next, ProcessCommand, ProcessDeletion

LEMMA AnnouncedKept ==
  ASSUME CommandsAssumption, EngineAssumption, EngineInv, ProcessShape, Announced, Alive,
         [Next]_vars
  PROVE  Announced'
<1>1. ASSUME UNCHANGED <<log, published, model, up>>, worker'.pc # "committed" PROVE Announced'
  BY <1>1 DEF Announced
<1>2. ASSUME UNCHANGED <<log, published, model, up, worker, receipts>> PROVE Announced'
  BY <1>2 DEF Announced
<1>3. CASE Commit \/ CommitUncertain
  <2>1. worker.pc = "committing" /\ Persist(worker.dispatch[1])
        /\ UNCHANGED <<up, published, model>>
    BY <1>3 DEF Commit, CommitUncertain, Persist
  <2>2. PICK c \in Commands : c = worker.dispatch[1]
    BY <2>1, AtWork DEF EngineInv
  <2>3. /\ log' = log \o Batch(c)
        /\ receipts' = [receipts EXCEPT ![c] = [status |-> "accepted",
                                                seq |-> Len(log) + Len(Batch(c))]]
    BY <2>1, <2>2 DEF Persist, LastSequence
  <2>4. /\ Len(log') = Len(log) + Len(Batch(c)) /\ 1..Len(log) \subseteq 1..Len(log')
        /\ Len(log) \in Nat /\ Len(Batch(c)) \in {1, 2}
    BY <2>3, LogGrows DEF EngineInv
  <2>5. receipts'[c].seq = Len(log') /\ model.seq + Len(Batch(c)) <= Len(log')
    BY <2>3, <2>4 DEF EngineInv, ReceiptHistory, ProcessShape, ModelShape
  <2>6. worker'.dispatch = worker.dispatch
    <3>1. CASE Commit
      <4>1. worker \in [pc : {"committing", "committed"}, dispatch : Dispatches]
        BY <2>1, AtWork DEF EngineInv, WorkerOK
      <4>2. QED
        BY <3>1, <4>1 DEF Commit
    <3>2. CASE CommitUncertain
      BY <3>2 DEF CommitUncertain, Failing
    <3>3. QED
      BY <1>3, <3>1, <3>2
  <2>7. published' \in Seq(1..Len(log'))
    <3>1. published \in Seq(1..Len(log))
      BY DEF Announced
    <3>2. PICK T : T = 1..Len(log')
      OBVIOUS
    <3>3. published \in Seq(Nat) /\ \A i \in 1..Len(published) : published[i] \in T
      BY <2>4, <3>1, <3>2
    <3>4. QED
      BY <2>1, <3>2, <3>3, SeqOfSet
  <2>8. QED
    BY <2>1, <2>2, <2>5, <2>6, <2>7 DEF Announced
<1>4. CASE Finish
  <2>1. worker' = Idle /\ up' = up /\ worker.pc = "committed"
    BY <1>4 DEF Finish
  <2>2. up
    BY <2>1 DEF Alive, Idle
  <2>3. QED
    BY <1>4, <2>1, <2>2, FinishAnnounces DEF Announced, Idle
<1>5. CASE Reconcile
  <2>1. worker.pc = "failed" /\ up' = up /\ AfterFailure
    BY <1>5 DEF Reconcile
  <2>2. up
    BY <2>1 DEF Alive, Idle
  <2>3. worker'.pc # "committed"
    <3>1. worker \in [pc : {"failed", "rejecting"}, dispatch : Dispatches, invariant : BOOLEAN]
      BY <2>1, AtWork DEF EngineInv, WorkerOK
    <3>2. worker' = [worker EXCEPT !.pc = "rejecting"] \/ worker' = Idle
      BY <2>1 DEF AfterFailure
    <3>3. QED
      BY <3>1, <3>2 DEF Idle
  <2>4. QED
    BY <1>5, <2>1, <2>2, <2>3, ReconcileAnnounces DEF Announced, EngineInv
<1>6. CASE ReconcileFails
  <2>1. worker.pc = "failed" /\ AfterFailure /\ UNCHANGED <<log, published, model, up>>
    BY <1>6 DEF ReconcileFails, durable
  <2>2. worker'.pc # "committed"
    <3>1. worker \in [pc : {"failed", "rejecting"}, dispatch : Dispatches, invariant : BOOLEAN]
      BY <2>1, AtWork DEF EngineInv, WorkerOK
    <3>2. worker' = [worker EXCEPT !.pc = "rejecting"] \/ worker' = Idle
      BY <2>1 DEF AfterFailure
    <3>3. QED
      BY <3>1, <3>2 DEF Idle
  <2>3. QED
    BY <1>1, <2>1, <2>2
<1>7. CASE RollBack \/ RecordRejection
  BY <1>1, <1>7 DEF RollBack, RecordRejection, Failing, Idle, durable
<1>8. CASE Crash
  <2>1. published' = <<>> /\ worker' = Idle /\ log' = log
    BY <1>8 DEF Crash, durable
  <2>2. published' \in Seq(1..Len(log')) /\ Len(published') = 0
    BY <2>1
  <2>3. QED
    BY <2>1, <2>2 DEF Announced, Increasing, Idle
<1>9. CASE Boot
  <2>1. ~up /\ UNCHANGED <<published, worker, log>>
    BY <1>9 DEF Boot
  <2>2. published' = <<>> /\ worker' = Idle
    BY <2>1 DEF Announced, Alive
  <2>3. published' \in Seq(1..Len(log')) /\ Len(published') = 0
    BY <2>2
  <2>4. QED
    BY <2>2, <2>3 DEF Announced, Increasing, Idle
<1>10. ASSUME NEW d \in Dispatches, Dispatch(d) \/ AnswerFromReceipt(d) PROVE Announced'
  BY <1>2, <1>10 DEF Dispatch, AnswerFromReceipt, durable
<1>11. ASSUME NEW d \in Dispatches, Refuse(d) \/ Admit(d) PROVE Announced'
  BY <1>1, <1>11 DEF Refuse, Admit, durable
<1>12. ASSUME NEW t \in Deletable,
              BeginDelete(t) \/ RequestRetire(t) \/ RequestPurge(t) \/ DeletionFails(t)
       PROVE  Announced'
  BY <1>2, <1>12 DEF BeginDelete, RequestRetire, RequestPurge, DeletionFails, durable
<1>13. ASSUME NEW t \in Deletable, Purge(t) PROVE Announced'
  BY <1>1, <1>13 DEF Purge, TakesEnvelope, Idle
<1>14. ASSUME NEW t \in Deletable, Retire(t) PROVE Announced'
  <2>1. /\ worker' = Idle /\ UNCHANGED <<log, published, up>>
        /\ model' = [model EXCEPT !.events = @ \ OfThread(model.events, t)]
    BY <1>14 DEF Retire, TakesEnvelope
  <2>2. model'.seq = model.seq
    BY <2>1, EventsExcept DEF ProcessShape, ModelShape
  <2>3. QED
    BY <2>1, <2>2 DEF Announced, Idle
<1>15. CASE UNCHANGED vars
  BY <1>2, <1>15 DEF vars, durable
<1>16. QED
  BY <1>3, <1>4, <1>5, <1>6, <1>7, <1>8, <1>9, <1>10, <1>11, <1>12, <1>13, <1>14, <1>15
     DEF Next, ProcessCommand, ProcessDeletion

LEMMA InitShape == ASSUME EngineAssumption, Init PROVE ShapeInv
<1>1. /\ log = <<>> /\ tombstones = {} /\ purged = {} /\ receipts = [c \in Commands |-> NoReceipt]
      /\ installed = Projectors \ NewProjectors /\ projected = [p \in Projectors |-> 0]
      /\ up = TRUE /\ diverged = FALSE /\ faults = 0 /\ started = 0 /\ model = EmptyModel
      /\ reply = [d \in Dispatches |-> "unsent"] /\ published = <<>> /\ worker = Idle
      /\ queue = <<>> /\ deletion = [t \in Deletable |-> "none"] /\ retiring = {}
  BY DEF Init, SerialInit
<1>2. Len(log) = 0 /\ log \in Seq(Appendable) /\ published \in Seq(1..Len(log))
      /\ Len(published) = 0 /\ queue \in Seq(Envelopes) /\ Len(queue) = 0
  BY <1>1
<1>3. StoreShape
  BY <1>1, <1>2 DEF StoreShape, NoReceipt, Statuses
<1>4. ModelShape
  BY <1>1, <1>2 DEF ModelShape, EmptyModel, IsModel
<1>5. ProcessShape
  <2>1. faults \in 0..MaxFaults /\ started \in 0..Len(log)
    BY <1>1, <1>2 DEF EngineAssumption
  <2>2. reply \in [Dispatches -> Replies]
    BY <1>1 DEF Replies
  <2>3. QED
    BY <1>1, <1>4, <2>1, <2>2 DEF ProcessShape
<1>6. Announced
  BY <1>1, <1>2 DEF Announced, Increasing, Idle
<1>7. Alive /\ Leaving
  BY <1>1, <1>2 DEF Alive, Leaving, LeavingIn
<1>8. QED
  BY <1>3, <1>5, <1>6, <1>7 DEF ShapeInv

LEMMA ShapeInvariance == Spec => []ShapeInv
<1>1. Init => ShapeInv
  BY InitShape, EngineAssumption
<1>2. EngineInv /\ ShapeInv /\ [Next]_vars => ShapeInv'
  BY StoreShapeKept, ProcessShapeKept, AnnouncedKept, AliveKept, LeavingKept,
     CommandsAssumption, EngineAssumption DEF ShapeInv
<1>3. QED
  BY <1>1, <1>2, EngineInvariance, PTL DEF Spec

\* Every variable has the shape the code gives it (OrchestrationEngine.ts:180).
THEOREM TypesAreKept == Spec => []TypeOK
<1>1. EngineInv /\ ShapeInv => TypeOK
  <2> SUFFICES ASSUME EngineInv, ShapeInv PROVE TypeOK
    OBVIOUS
  <2>1. published \in Seq(Sequences)
    BY DEF ShapeInv, Announced, Sequences, LastSequence
  <2>2. /\ log \in Seq(UNION {Range(Batch(c)) : c \in Commands})
        /\ tombstones \subseteq Threads /\ purged \subseteq Threads
        /\ receipts \in [Commands -> [status : {"none", "accepted", "rejected"},
                                      seq : 0..LastSequence]]
        /\ installed \subseteq Projectors /\ projected \in [Projectors -> 0..LastSequence]
    BY DEF ShapeInv, StoreShape, Appendable, Statuses, LastSequence
  <2>3. /\ up \in BOOLEAN /\ diverged \in BOOLEAN /\ faults \in 0..MaxFaults
        /\ model.seq \in 0..LastSequence /\ model.events \subseteq Sequences
        /\ started \in 0..LastSequence
        /\ reply \in [Dispatches -> {"unsent", "waiting", "accepted", "rejected", "failed", "lost"}]
    BY DEF ShapeInv, ProcessShape, ModelShape, Replies, Sequences, LastSequence
  <2>4. events \subseteq Sequences /\ rows \in [Projectors -> SUBSET Sequences]
        /\ retiring \subseteq tombstones
    BY DEF EngineInv, Stored, Fenced, Sequences, LastSequence
  <2>5. /\ queue \in Seq([kind : {"command"}, dispatch : Dispatches]
                           \cup [kind : {"retire", "purge"}, thread : Deletable])
        /\ deletion \in [Deletable -> {"none", "quiesced", "retiring", "retired", "purging",
                                       "deleted"}]
    BY DEF ShapeInv, Alive, Leaving, Envelopes
  <2>6. WorkerOK
    BY DEF EngineInv
  <2>7. QED
    BY <2>1, <2>2, <2>3, <2>4, <2>5, <2>6 DEF TypeOK, WorkerOK
<1>2. QED
  BY <1>1, EngineInvariance, ShapeInvariance, PTL

-----------------------------------------------------------------------------
(* What is announced *)

\* The order half of PublishedAll needs no assumption on versions or reads.
InOrderOnce == \A i, j \in DOMAIN published : i < j => published[i] < published[j]

\* In the life of a process no event is announced twice or out of order, whatever fails
\* and however late the read model is (OrchestrationEngine.ts:897, 966).
THEOREM EventsGoOutInOrder == Spec => []InOrderOnce
<1>1. ShapeInv => InOrderOnce
  <2>1. published \in Seq(1..Len(log)) => DOMAIN published = 1..Len(published)
    OBVIOUS
  <2>2. QED
    BY <2>1 DEF ShapeInv, Announced, Increasing, InOrderOnce
<1>2. QED
  BY <1>1, ShapeInvariance, PTL

\* What is newer than the process and not newer than the read model has been announced.
Heard ==
  up /\ ~diverged =>
    \A s \in 1..Len(log) : s > started /\ s <= model.seq =>
      \E i \in 1..Len(published) : published[i] = s

\* The read model takes the rest of the log over, and announces it.
LEMMA HeardAfter ==
  ASSUME Stored, ModelShape, Heard, up, ~diverged, UNCHANGED <<log, started>>,
         NEW S, \A s \in 1..Len(log) : s > model.seq => s \in S,
         {published'[i] : i \in 1..Len(published')}
           = {published[i] : i \in 1..Len(published)} \cup S
  PROVE  Heard'
<1> SUFFICES ASSUME NEW s \in 1..Len(log), s > started PROVE \E i \in 1..Len(published') : published'[i] = s
  BY DEF Heard
<1>1. s <= model.seq \/ s > model.seq
  BY DEF Stored, ModelShape
<1>2. s \in {published[i] : i \in 1..Len(published)} \cup S
  BY <1>1 DEF Heard
<1>3. QED
  BY <1>2

LEMMA HeardKept ==
  ASSUME CommandsAssumption, EngineAssumption, Unlimited, EngineInv, ShapeInv, ModelInv, Heard,
         [Next]_vars
  PROVE  Heard'
<1>1. ASSUME UNCHANGED <<log, published, model, up, started, diverged>> PROVE Heard'
  BY <1>1 DEF Heard
<1>2. CASE Commit \/ CommitUncertain
  <2>1. worker.pc = "committing" /\ Persist(worker.dispatch[1])
        /\ UNCHANGED <<up, published, model, started, diverged>>
    BY <1>2 DEF Commit, CommitUncertain, Persist
  <2>2. worker.dispatch[1] \in Commands
    BY <2>1, AtWork DEF EngineInv
  <2>3. Len(log) \in Nat /\ Len(log') \in Nat /\ model.seq \in 0..Len(log)
    BY <2>1, <2>2, LogGrows DEF Persist, EngineInv, ShapeInv, ProcessShape, ModelShape
  <2>4. \A s \in 1..Len(log') : s <= model.seq => s \in 1..Len(log)
    BY <2>3
  <2>5. QED
    BY <2>1, <2>4 DEF Heard
<1>3. CASE Finish
  <2>1. worker.pc = "committed" /\ UNCHANGED <<log, started, up, diverged>>
    BY <1>3 DEF Finish, durable
  <2> SUFFICES ASSUME up, ~diverged PROVE Heard'
    BY <2>1 DEF Heard
  <2>2. PICK c \in Commands : c = worker.dispatch[1]
    BY <2>1, AtWork DEF EngineInv
  <2>3. model.seq + Len(Batch(c)) = Len(log)
    BY <2>1, <2>2 DEF ModelInv, Reflected, TailOf
  <2>4. PICK b \in {1, 2} : b = Len(Batch(c))
    BY BatchType
  <2>5. \A s \in 1..Len(log) : s > model.seq => s \in (Len(log) - b + 1)..Len(log)
    BY <2>3, <2>4 DEF EngineInv, Stored, ShapeInv, ProcessShape, ModelShape
  <2>6. {published'[i] : i \in 1..Len(published')}
          = {published[i] : i \in 1..Len(published)} \cup (Len(log) - b + 1)..Len(log)
    BY <1>3, <2>2, <2>4, FinishAnnounces DEF ShapeInv
  <2>7. QED
    BY <2>1, <2>5, <2>6, HeardAfter DEF EngineInv, ShapeInv, ProcessShape
<1>4. CASE Reconcile
  <2>1. worker.pc = "failed" /\ UNCHANGED <<log, started, up, diverged>>
    BY <1>4 DEF Reconcile, durable
  <2> SUFFICES ASSUME up, ~diverged PROVE Heard'
    BY <2>1 DEF Heard
  <2>2. PICK c \in Commands : c = worker.dispatch[1]
    BY <2>1, AtWork DEF EngineInv
  <2>3. model.seq = Len(log) \/ TailOf(c)
    BY <2>1, <2>2 DEF ModelInv, Reflected
  <2>4. \A s \in 1..Len(log) : s > model.seq => s \in ReadFrom(model.seq)
    <3>1. Len(log) \in Nat /\ model.seq \in Nat
      BY DEF EngineInv, Stored, ShapeInv, ProcessShape, ModelShape
    <3>2. CASE model.seq = Len(log)
      BY <3>1, <3>2
    <3>3. CASE TailOf(c)
      <4>1. ReadFrom(model.seq) = (model.seq + 1)..Len(log)
        BY <3>1, <3>3, ReadTail
      <4>2. QED
        BY <3>1, <4>1
    <3>4. QED
      BY <2>3, <3>2, <3>3
  <2>5. {published'[i] : i \in 1..Len(published')}
          = {published[i] : i \in 1..Len(published)} \cup ReadFrom(model.seq)
    BY <1>4, ReconcileAnnounces DEF ShapeInv, EngineInv
  <2>6. QED
    BY <2>1, <2>4, <2>5, HeardAfter DEF EngineInv, ShapeInv, ProcessShape
<1>5. CASE ReconcileFails \/ Crash
  BY <1>5 DEF ReconcileFails, Crash, Heard
<1>6. CASE Boot
  <2>1. started' = Len(log) /\ log' = log /\ Len(log) \in Nat
    BY <1>6 DEF Boot, LastSequence, EngineInv, Stored
  <2>2. \A s \in 1..Len(log) : ~(s > Len(log))
    BY <2>1
  <2>3. QED
    BY <2>1, <2>2 DEF Heard
<1>7. ASSUME NEW d \in Dispatches,
             Dispatch(d) \/ AnswerFromReceipt(d) \/ Refuse(d) \/ Admit(d)
      PROVE  Heard'
  BY <1>1, <1>7 DEF Dispatch, AnswerFromReceipt, Refuse, Admit, durable
<1>8. CASE RollBack \/ RecordRejection
  BY <1>1, <1>8 DEF RollBack, RecordRejection, durable
<1>9. ASSUME NEW t \in Deletable,
             BeginDelete(t) \/ RequestRetire(t) \/ RequestPurge(t) \/ Purge(t) \/ DeletionFails(t)
      PROVE  Heard'
  BY <1>1, <1>9 DEF BeginDelete, RequestRetire, RequestPurge, Purge, DeletionFails, durable
<1>10. ASSUME NEW t \in Deletable, Retire(t) PROVE Heard'
  <2>1. /\ UNCHANGED <<log, published, up, started, diverged>>
        /\ model' = [model EXCEPT !.events = @ \ OfThread(model.events, t)]
    BY <1>10 DEF Retire
  <2>2. model'.seq = model.seq
    BY <2>1, EventsExcept DEF ShapeInv, ProcessShape, ModelShape
  <2>3. QED
    BY <2>1, <2>2 DEF Heard
<1>11. CASE UNCHANGED vars
  BY <1>1, <1>11 DEF vars, durable
<1>12. QED
  BY <1>2, <1>3, <1>4, <1>5, <1>6, <1>7, <1>8, <1>9, <1>10, <1>11
     DEF Next, ProcessCommand, ProcessDeletion

\* Every event appended while a process runs is announced to its clients once and in order,
\* commits that were reported as failed included, unless a reconciliation failed
\* (OrchestrationEngine.ts:897, 966, 990): as long as no version adds a projector.
THEOREM EverythingIsPublished == ASSUME Unlimited PROVE Spec => []PublishedAll
<1>1. Init => Heard
  <2> SUFFICES ASSUME Init PROVE Heard
    OBVIOUS
  <2>1. Len(log) = 0
    BY DEF Init, SerialInit
  <2>2. QED
    BY <2>1 DEF Heard
<1>2. EngineInv /\ ShapeInv /\ ModelInv /\ Heard /\ [Next]_vars => Heard'
  BY HeardKept, CommandsAssumption, EngineAssumption
<1>3. EngineInv /\ ShapeInv /\ ModelInv /\ Heard => PublishedAll
  <2> SUFFICES ASSUME EngineInv, ShapeInv, ModelInv, Heard PROVE PublishedAll
    OBVIOUS
  <2>1. published \in Seq(1..Len(log)) /\ Increasing(published)
    BY DEF ShapeInv, Announced
  <2>2. DOMAIN published = 1..Len(published)
    BY <2>1
  <2>3. \A i, j \in DOMAIN published : i < j => published[i] < published[j]
    BY <2>1, <2>2 DEF Increasing
  <2>4. ASSUME up, worker = Idle, ~diverged, NEW s \in 1..Len(log), s > started
        PROVE  \E i \in 1..Len(published) : published[i] = s
    <3>1. model.seq = Len(log) /\ s <= Len(log)
      BY <2>4 DEF ModelInv, Reflected, Idle
    <3>2. QED
      BY <2>4, <3>1 DEF Heard
  <2>5. QED
    BY <2>2, <2>3, <2>4 DEF PublishedAll, Sequences, LastSequence, Range
<1>4. QED
  BY <1>1, <1>2, <1>3, EngineInvariance, ShapeInvariance, ModelInvariance, PTL DEF Spec
=============================================================================
