------------------------ MODULE ProviderEventStream ------------------------
(***************************************************************************)
(* The durable hand-off of provider runtime events from the provider       *)
(* daemon to a backend:                                                    *)
(*                                                                         *)
(*  - providerDaemon/EventJournal.ts: one ordered lane publishes into the  *)
(*    SQLite journal, then notifies the in-process listeners one by one,   *)
(*    then prunes; retention and hard delete remove rows concurrently.     *)
(*  - providerDaemon/ProviderDaemonServer.ts, handleProviderDaemonEvent-   *)
(*    Stream: one handler per HTTP connection subscribes, captures a       *)
(*    replay boundary, replays pages up to it and then writes live records *)
(*    from a bounded queue.                                                *)
(*  - providerDaemonHttp.ts and RemoteProviderService.ts: the backend      *)
(*    reads lines, advances its cursor after accepting one, and reconnects *)
(*    after its cursor; the reader of a broken connection goes on draining *)
(*    the lines it had already buffered.                                   *)
(*                                                                         *)
(* A record is its cursor.  Bodies, encoding, byte budgets, authentication *)
(* and diagnostics are abstracted away.                                    *)
(***************************************************************************)
EXTENDS Naturals, Sequences, FiniteSets

CONSTANTS
  Conns,           \* connection slots (a slot is reused once both ends left it)
  Capacity,        \* rows the journal retains (50 000 in the daemon)
  PruneInterval,   \* publications between two prunes
  PruneBatch,      \* rows one DELETE removes (10 000)
  PageLimit,       \* records of a replay page
  QueueLimit,      \* daemonWriterMaxRecords, the bound of a live queue
  WireCapacity,    \* records a socket takes before the writer awaits "drain"
  MaxCursor,       \* bound: records published in a behaviour
  MaxFaults        \* bound: lost connections, daemon crashes, failed snapshots, purges

ASSUME ConnsAssumption == IsFiniteSet(Conns)
ASSUME LimitsAssumption ==
  /\ Capacity \in Nat \ {0}
  /\ PruneInterval \in Nat \ {0}
  /\ PruneBatch \in Nat \ {0}
  /\ PageLimit \in Nat \ {0}
  /\ QueueLimit \in Nat \ {0}
  /\ WireCapacity \in Nat \ {0}
ASSUME BoundsAssumption == MaxCursor \in Nat /\ MaxFaults \in Nat

Pruners == {"publish", "maintenance"}

VARIABLES
  (* the journal (SQLite, survives a crash of the daemon) *)
  rows,            \* cursors of the retained rows
  nextCursor,      \* the AUTOINCREMENT key of the next row
  (* the journal (memory of the daemon) *)
  listeners,       \* connections whose callback is in the listener Set
  publisher,       \* "idle" or "notifying": position in publish
  notified,        \* listeners already called for the row just committed
  eventsSincePrune,
  prunePc,         \* per pruner: "idle", "due" (boundary not read) or "delete"
  pruneBoundary,   \* per pruner: oldestRetainedCursor it read
  (* one handler per connection (memory of the daemon) *)
  phase,           \* the await the handler stands at, see Phases
  active,          \* FALSE once cleanup ran
  boundary,        \* replayBoundaryCursor
  queue,           \* liveQueue
  cursor,          \* last cursor written
  searchCursor,    \* local of replayPageThrough
  pageEnd,         \* local of replayPageThrough
  page,            \* rest of the page being written
  (* the backend *)
  wire,            \* lines written and not yet accepted
  reader,          \* "none", "open" or "broken" (settled, still draining)
  eventCursor,     \* cursor the next subscription starts after
  (* bookkeeping *)
  accepted,        \* history: cursors the bridge has published downstream
  faults           \* faults so far

journalVars == <<rows, nextCursor>>
pruneVars   == <<eventsSincePrune, prunePc, pruneBoundary>>
publishVars == <<publisher, notified>>
pagingVars  == <<searchCursor, pageEnd, page>>
backendVars == <<reader, eventCursor, accepted>>
vars == <<rows, nextCursor, listeners, publisher, notified, eventsSincePrune,
          prunePc, pruneBoundary, phase, active, boundary, queue, cursor,
          searchCursor, pageEnd, page, wire, reader, eventCursor, accepted, faults>>

(* "snapshot": listener added, MAX(cursor) being read; "captured": read, not
   yet returned to the handler; "probe"/"read": the two queries of
   replayPageThrough; "page": writing a replay page; "live": writing from the
   queue; "hung": awaiting a drain that a destroyed response never emits. *)
Phases == {"closed", "snapshot", "captured", "probe", "read", "page", "live", "hung"}

Cursors == 1..MaxCursor
Positions == 0..MaxCursor

-----------------------------------------------------------------------------
(* Helpers *)

\* L is the result of ORDER BY cursor ASC LIMIT n over S.
IsFirst(L, S, n) ==
  /\ L \subseteq S
  /\ \A l \in L, s \in S \ L : l < s
  /\ Cardinality(L) = IF Cardinality(S) < n THEN Cardinality(S) ELSE n

\* m is the largest member of S (0 when there is none).
IsNewest(m, S) == m \in S \cup {0} /\ \A s \in S : s <= m

RowsBetween(low, high) == {r \in rows : low < r /\ r <= high}

\* cleanup can unsubscribe only after the subscription returned its disposer.
HoldsDisposer(c) == phase[c] \notin {"snapshot", "captured"}

\* cleanup: idempotent, never removes a listener whose disposer is in flight.
AfterCleanup(c) ==
  /\ active' = [active EXCEPT ![c] = FALSE]
  /\ listeners' = IF HoldsDisposer(c) THEN listeners \ {c} ELSE listeners

\* The locals of a handler that subscribes after position k, or returned (k = 0).
ResetHandler(c, k) ==
  /\ boundary' = [boundary EXCEPT ![c] = 0]
  /\ queue' = [queue EXCEPT ![c] = <<>>]
  /\ cursor' = [cursor EXCEPT ![c] = k]
  /\ searchCursor' = [searchCursor EXCEPT ![c] = 0]
  /\ pageEnd' = [pageEnd EXCEPT ![c] = 0]
  /\ page' = [page EXCEPT ![c] = {}]

\* The handler returns; its finally block runs cleanup.
Close(c) ==
  /\ phase' = [phase EXCEPT ![c] = "closed"]
  /\ active' = [active EXCEPT ![c] = FALSE]
  /\ listeners' = listeners \ {c}
  /\ ResetHandler(c, 0)

\* A record is written; on a socket the backend left it is lost.
Write(c, k) ==
  /\ cursor' = [cursor EXCEPT ![c] = k]
  /\ wire' = IF reader[c] = "open" THEN [wire EXCEPT ![c] = Append(@, k)] ELSE wire

\* Backpressure: a full socket makes the writer await "drain".
SocketHasRoom(c) == reader[c] = "open" => Len(wire[c]) < WireCapacity

-----------------------------------------------------------------------------
Init ==
  /\ rows = {}
  /\ nextCursor = 1
  /\ listeners = {}
  /\ publisher = "idle"
  /\ notified = {}
  /\ eventsSincePrune = 0
  /\ prunePc = [p \in Pruners |-> IF p = "maintenance" THEN "due" ELSE "idle"]
  /\ pruneBoundary = [p \in Pruners |-> 0]
  /\ phase = [c \in Conns |-> "closed"]
  /\ active = [c \in Conns |-> FALSE]
  /\ boundary = [c \in Conns |-> 0]
  /\ queue = [c \in Conns |-> <<>>]
  /\ cursor = [c \in Conns |-> 0]
  /\ searchCursor = [c \in Conns |-> 0]
  /\ pageEnd = [c \in Conns |-> 0]
  /\ page = [c \in Conns |-> {}]
  /\ wire = [c \in Conns |-> <<>>]
  /\ reader = [c \in Conns |-> "none"]
  /\ eventCursor = 0
  /\ accepted = {}
  /\ faults = 0

-----------------------------------------------------------------------------
(* The publication lane of the daemon *)

\* publish, up to the commit: the row and its thread identity in one transaction.
Commit ==
  /\ publisher = "idle"
  /\ prunePc["publish"] = "idle"
  /\ nextCursor <= MaxCursor
  /\ rows' = rows \cup {nextCursor}
  /\ nextCursor' = nextCursor + 1
  /\ publisher' = "notifying"
  /\ UNCHANGED <<listeners, notified, pruneVars, phase, active, boundary, queue, cursor,
                 pagingVars, wire, backendVars, faults>>

Published == nextCursor - 1

\* Wrong: a record that finds the queue full is dropped.
NotifyDrops(c) ==
  LET overlap == phase[c] \notin {"snapshot", "captured"} /\ Published <= boundary[c]
      enqueue == active[c] /\ ~overlap /\ Len(queue[c]) < QueueLimit
  IN
  /\ publisher = "notifying"
  /\ c \in listeners \ notified
  /\ notified' = notified \cup {c}
  /\ queue' = IF enqueue THEN [queue EXCEPT ![c] = Append(@, Published)] ELSE queue
  /\ UNCHANGED <<journalVars, listeners, publisher, pruneVars, phase, active, boundary,
                 cursor, pagingVars, wire, backendVars, faults>>

\* enqueueLive, called by publish for one listener.  A queue at its limit
\* disconnects the lagging reader instead of dropping the record.
Notify(c) ==
  LET overlap  == phase[c] \notin {"snapshot", "captured"} /\ Published <= boundary[c]
      overflow == active[c] /\ ~overlap /\ Len(queue[c]) >= QueueLimit
      enqueue  == active[c] /\ ~overlap /\ Len(queue[c]) < QueueLimit
  IN
  /\ publisher = "notifying"
  /\ c \in listeners \ notified
  /\ notified' = notified \cup {c}
  /\ IF overflow THEN AfterCleanup(c) ELSE UNCHANGED <<active, listeners>>
  /\ queue' = IF enqueue THEN [queue EXCEPT ![c] = Append(@, Published)] ELSE queue
  /\ UNCHANGED <<journalVars, publisher, pruneVars, phase, boundary, cursor,
                 pagingVars, wire, backendVars, faults>>

\* The end of the listener loop and the retention countdown.
FinishPublish ==
  LET due == eventsSincePrune + 1 >= PruneInterval IN
  /\ publisher = "notifying"
  /\ listeners \subseteq notified
  /\ publisher' = "idle"
  /\ notified' = {}
  /\ eventsSincePrune' = IF due THEN 0 ELSE eventsSincePrune + 1
  /\ prunePc' = IF due THEN [prunePc EXCEPT !["publish"] = "due"] ELSE prunePc
  /\ UNCHANGED <<journalVars, listeners, pruneBoundary, phase, active, boundary, queue, cursor, pagingVars, wire, backendVars, faults>>

-----------------------------------------------------------------------------
(* Rows disappear: retention and hard delete *)

\* pruneToCapacity, first query: the cursor of the Capacity-th newest row.
PruneProbe(p) ==
  /\ prunePc[p] = "due"
  /\ IF Cardinality(rows) < Capacity
       THEN /\ prunePc' = [prunePc EXCEPT ![p] = "idle"]
            /\ UNCHANGED pruneBoundary
       ELSE /\ prunePc' = [prunePc EXCEPT ![p] = "delete"]
            /\ \E r \in rows :
                 /\ Cardinality({s \in rows : s >= r}) = Capacity
                 /\ pruneBoundary' = [pruneBoundary EXCEPT ![p] = r]
  /\ UNCHANGED <<journalVars, listeners, publishVars, eventsSincePrune, phase,
                 active, boundary, queue, cursor, pagingVars, wire, backendVars, faults>>

\* pruneToCapacity, one DELETE batch below the boundary read earlier.
PruneDelete(p) ==
  /\ prunePc[p] = "delete"
  /\ \E doomed \in SUBSET rows :
       /\ IsFirst(doomed, {r \in rows : r < pruneBoundary[p]}, PruneBatch)
       /\ rows' = rows \ doomed
       /\ IF Cardinality(doomed) < PruneBatch
            THEN /\ prunePc' = [prunePc EXCEPT ![p] = "idle"]
                 /\ pruneBoundary' = [pruneBoundary EXCEPT ![p] = 0]
            ELSE UNCHANGED <<prunePc, pruneBoundary>>
  /\ UNCHANGED <<nextCursor, listeners, publishVars, eventsSincePrune, phase, active, boundary, queue, cursor, pagingVars, wire,
                 backendVars, faults>>

\* A failing query ends the prune; it is logged and waits for the next one.
PruneFails(p) ==
  /\ prunePc[p] # "idle"
  /\ faults < MaxFaults
  /\ faults' = faults + 1
  /\ prunePc' = [prunePc EXCEPT ![p] = "idle"]
  /\ pruneBoundary' = [pruneBoundary EXCEPT ![p] = 0]
  /\ UNCHANGED <<journalVars, listeners, publishVars, eventsSincePrune, phase, active,
                 boundary, queue, cursor, pagingVars, wire, backendVars>>

\* purgeProviderDaemonThreadPersistence: the rows of one hard-deleted thread
\* (any rows) go in one transaction, after the startup maintenance.
PurgeThread(S) ==
  /\ prunePc["maintenance"] = "idle"
  /\ S # {} /\ S \subseteq rows
  /\ faults < MaxFaults
  /\ faults' = faults + 1
  /\ rows' = rows \ S
  /\ UNCHANGED <<nextCursor, listeners, publishVars, pruneVars, phase, active,
                 boundary, queue, cursor, pagingVars, wire, backendVars>>

-----------------------------------------------------------------------------
(* The stream handler *)

\* The backend (re)connects after its cursor; the handler adds its listener
\* before it asks for the boundary.
OpenStream(c) ==
  /\ \A d \in Conns : reader[d] # "open"
  /\ phase[c] \in {"closed", "hung"} /\ reader[c] = "none"
  /\ reader' = [reader EXCEPT ![c] = "open"]
  /\ phase' = [phase EXCEPT ![c] = "snapshot"]
  /\ active' = [active EXCEPT ![c] = TRUE]
  /\ listeners' = listeners \cup {c}
  /\ notified' = notified \ {c}
  /\ ResetHandler(c, eventCursor)
  /\ UNCHANGED <<journalVars, publisher, pruneVars, wire, eventCursor, accepted, faults>>

\* subscribeWithReplayBoundary: the SQL snapshot of MAX(cursor).
CaptureBoundary(c) ==
  /\ phase[c] = "snapshot"
  /\ phase' = [phase EXCEPT ![c] = "captured"]
  /\ \E m \in Positions : /\ IsNewest(m, rows)
                          /\ boundary' = [boundary EXCEPT ![c] = m]
  /\ UNCHANGED <<journalVars, listeners, publishVars, pruneVars, active, queue,
                 cursor, pagingVars, wire, backendVars, faults>>

\* The snapshot fails: the listener is removed and the handler's catch closes.
SnapshotFails(c) ==
  /\ phase[c] = "snapshot"
  /\ faults < MaxFaults
  /\ faults' = faults + 1
  /\ Close(c)
  /\ UNCHANGED <<journalVars, publishVars, pruneVars, wire, backendVars>>

\* Wrong: the handler returns without releasing the late listener.
SubscribedTooLateLeaks(c) ==
  /\ phase[c] = "captured" /\ ~active[c]
  /\ phase' = [phase EXCEPT ![c] = "closed"]
  /\ ResetHandler(c, 0)
  /\ UNCHANGED <<journalVars, listeners, publishVars, pruneVars, active, wire, backendVars,
                 faults>>

\* The subscription returns after the connection was cleaned up: the
\* late-arriving listener is released explicitly.
SubscribedTooLate(c) ==
  /\ phase[c] = "captured" /\ ~active[c]
  /\ Close(c)
  /\ UNCHANGED <<journalVars, publishVars, pruneVars, wire, backendVars, faults>>

\* The subscription returns: drop the queued records replay will cover.  They
\* are the first ones, the queue being in journal order.
Subscribed(c) ==
  /\ phase[c] = "captured" /\ active[c]
  /\ \E covered \in 0..Len(queue[c]) :
       /\ \A i \in 1..Len(queue[c]) : i <= covered <=> queue[c][i] <= boundary[c]
       /\ queue' = [queue EXCEPT ![c] = SubSeq(@, covered + 1, Len(@))]
  /\ searchCursor' = [searchCursor EXCEPT ![c] = cursor[c]]
  /\ phase' = [phase EXCEPT ![c] = "probe"]
  /\ UNCHANGED <<journalVars, listeners, publishVars, pruneVars, active, boundary,
                 cursor, pageEnd, page, wire, backendVars, faults>>

\* replayPageThrough, first query: which cursors make the page.  No cursor up
\* to the boundary ends the replay.
ProbePage(c) ==
  /\ phase[c] = "probe" /\ active[c]
  /\ IF RowsBetween(searchCursor[c], boundary[c]) = {}
       THEN /\ phase' = [phase EXCEPT ![c] = "live"]
            /\ searchCursor' = [searchCursor EXCEPT ![c] = 0]
            /\ UNCHANGED pageEnd
       ELSE /\ \E probed \in SUBSET rows, last \in Cursors :
                 /\ IsFirst(probed, RowsBetween(searchCursor[c], boundary[c]), PageLimit)
                 /\ IsNewest(last, probed)
                 /\ pageEnd' = [pageEnd EXCEPT ![c] = last]
            /\ phase' = [phase EXCEPT ![c] = "read"]
            /\ UNCHANGED searchCursor
  /\ UNCHANGED <<journalVars, listeners, publishVars, pruneVars, active, boundary,
                 queue, cursor, page, wire, backendVars, faults>>

\* Wrong: a page emptied between the two queries is taken for the end of replay.
ReadPageEndsEarly(c) ==
  LET found == RowsBetween(searchCursor[c], pageEnd[c]) IN
  /\ phase[c] = "read"
  /\ page' = [page EXCEPT ![c] = found]
  /\ phase' = [phase EXCEPT ![c] = IF found = {} THEN "live" ELSE "page"]
  /\ searchCursor' = [searchCursor EXCEPT ![c] = 0]
  /\ pageEnd' = [pageEnd EXCEPT ![c] = 0]
  /\ UNCHANGED <<journalVars, listeners, publishVars, pruneVars, active, boundary,
                 queue, cursor, wire, backendVars, faults>>

\* replayPageThrough, second query: the bodies still there.  An emptied page
\* moves the search past the probed range and probes again.
ReadPage(c) ==
  LET found == RowsBetween(searchCursor[c], pageEnd[c]) IN
  /\ phase[c] = "read"
  /\ IF found = {}
       THEN /\ searchCursor' = [searchCursor EXCEPT ![c] = pageEnd[c]]
            /\ phase' = [phase EXCEPT ![c] = "probe"]
            /\ UNCHANGED page
       ELSE /\ page' = [page EXCEPT ![c] = found]
            /\ phase' = [phase EXCEPT ![c] = "page"]
            /\ searchCursor' = [searchCursor EXCEPT ![c] = 0]
  /\ pageEnd' = [pageEnd EXCEPT ![c] = 0]
  /\ UNCHANGED <<journalVars, listeners, publishVars, pruneVars, active, boundary,
                 queue, cursor, wire, backendVars, faults>>

\* Wrong: the replay loop does not await "drain".
WriteReplayAhead(c) ==
  /\ phase[c] = "page" /\ active[c]
  /\ \E k \in page[c] :
       /\ \A other \in page[c] : k <= other
       /\ page' = [page EXCEPT ![c] = @ \ {k}]
       /\ IF k <= cursor[c] THEN UNCHANGED <<wire, cursor>> ELSE Write(c, k)
  /\ UNCHANGED <<journalVars, listeners, publishVars, pruneVars, phase, active,
                 boundary, queue, searchCursor, pageEnd, backendVars, faults>>

\* One record of the page, the oldest left, is written once the socket takes it.
WriteReplay(c) ==
  /\ phase[c] = "page" /\ active[c]
  /\ SocketHasRoom(c)
  /\ \E k \in page[c] :
       /\ \A other \in page[c] : k <= other
       /\ page' = [page EXCEPT ![c] = @ \ {k}]
       /\ IF k <= cursor[c] THEN UNCHANGED <<wire, cursor>> ELSE Write(c, k)
  /\ UNCHANGED <<journalVars, listeners, publishVars, pruneVars, phase, active,
                 boundary, queue, searchCursor, pageEnd, backendVars, faults>>

\* The page is written: ask for the next one after the last cursor written.
FinishPage(c) ==
  /\ phase[c] = "page" /\ active[c]
  /\ page[c] = {}
  /\ searchCursor' = [searchCursor EXCEPT ![c] = cursor[c]]
  /\ phase' = [phase EXCEPT ![c] = "probe"]
  /\ UNCHANGED <<journalVars, listeners, publishVars, pruneVars, active, boundary,
                 queue, cursor, pageEnd, page, wire, backendVars, faults>>

\* The live loop takes the oldest queued record; replay may have covered it.
WriteLive(c) ==
  LET k == Head(queue[c]) IN
  /\ phase[c] = "live" /\ active[c]
  /\ queue[c] # <<>>
  /\ SocketHasRoom(c)
  /\ queue' = [queue EXCEPT ![c] = Tail(@)]
  /\ IF k <= cursor[c] THEN UNCHANGED <<wire, cursor>> ELSE Write(c, k)
  /\ UNCHANGED <<journalVars, listeners, publishVars, pruneVars, phase, active,
                 boundary, pagingVars, backendVars, faults>>

\* The handler notices cleanup at a check of `active`, or its pending drain is
\* rejected by the close event.
LeaveInactive(c) ==
  /\ phase[c] \in {"probe", "page", "live"} /\ ~active[c]
  /\ Close(c)
  /\ UNCHANGED <<journalVars, publishVars, pruneVars, wire, backendVars, faults>>

\* The inner live loop does not look at `active`: after a cooperative yield it
\* shifts on, and a record written to a destroyed response waits for a drain
\* that never comes.
WriteAfterClose(c) ==
  /\ phase[c] = "live" /\ ~active[c]
  /\ queue[c] # <<>>
  /\ queue' = [queue EXCEPT ![c] = Tail(@)]
  /\ phase' = IF Head(queue[c]) <= cursor[c] THEN phase
              ELSE [phase EXCEPT ![c] = "hung"]
  /\ UNCHANGED <<journalVars, listeners, publishVars, pruneVars, active, boundary,
                 cursor, pagingVars, wire, backendVars, faults>>

-----------------------------------------------------------------------------
(* The backend and the network *)

\* onRecord: publish downstream, then advance the cursor (it never regresses).
Accept(c) ==
  LET k == Head(wire[c]) IN
  /\ wire[c] # <<>>
  /\ reader[c] # "none"
  /\ wire' = [wire EXCEPT ![c] = Tail(@)]
  /\ accepted' = accepted \cup {k}
  /\ eventCursor' = IF k > eventCursor THEN k ELSE eventCursor
  /\ UNCHANGED <<journalVars, listeners, publishVars, pruneVars, phase, active,
                 boundary, queue, cursor, pagingVars, reader, faults>>

\* The response fails or ends under the reader.  The lines not yet buffered are
\* lost; a reader busy with earlier ones drains what it has.
BreakStream(c) ==
  /\ reader[c] = "open"
  /\ IF active[c] THEN faults < MaxFaults /\ faults' = faults + 1 ELSE UNCHANGED faults
  /\ reader' = [reader EXCEPT ![c] = "broken"]
  /\ \E kept \in 0..Len(wire[c]) : wire' = [wire EXCEPT ![c] = SubSeq(@, 1, kept)]
  /\ UNCHANGED <<journalVars, listeners, publishVars, pruneVars, phase, active,
                 boundary, queue, cursor, pagingVars, eventCursor, accepted>>

\* The old reader's buffer is empty (and the daemon's end is gone): forget it.
DropReader(c) ==
  /\ reader[c] = "broken"
  /\ wire[c] = <<>>
  /\ ~active[c]
  /\ reader' = [reader EXCEPT ![c] = "none"]
  /\ UNCHANGED <<journalVars, listeners, publishVars, pruneVars, phase, active,
                 boundary, queue, cursor, pagingVars, wire, eventCursor, accepted, faults>>

\* request "aborted" / response "close" reach the daemon.
NoticeClose(c) ==
  /\ active[c] /\ reader[c] = "broken"
  /\ AfterCleanup(c)
  /\ UNCHANGED <<journalVars, publishVars, pruneVars, phase, boundary, queue, cursor,
                 pagingVars, wire, backendVars, faults>>

\* The daemon dies and is restarted: only the committed rows survive.
DaemonCrash ==
  /\ faults < MaxFaults
  /\ faults' = faults + 1
  /\ listeners' = {}
  /\ publisher' = "idle"
  /\ notified' = {}
  /\ eventsSincePrune' = 0
  /\ prunePc' = [p \in Pruners |-> IF p = "maintenance" THEN "due" ELSE "idle"]
  /\ phase' = [c \in Conns |-> "closed"]
  /\ active' = [c \in Conns |-> FALSE]
  /\ boundary' = [c \in Conns |-> 0]
  /\ queue' = [c \in Conns |-> <<>>]
  /\ cursor' = [c \in Conns |-> 0]
  /\ searchCursor' = [c \in Conns |-> 0]
  /\ pageEnd' = [c \in Conns |-> 0]
  /\ page' = [c \in Conns |-> {}]
  /\ pruneBoundary' = [p \in Pruners |-> 0]
  /\ UNCHANGED <<journalVars, wire, backendVars>>

-----------------------------------------------------------------------------
PruneStep(p) == PruneProbe(p) \/ PruneDelete(p)

HandlerStep(c) ==
  \/ CaptureBoundary(c) \/ SubscribedTooLate(c) \/ Subscribed(c)
  \/ ProbePage(c) \/ ReadPage(c) \/ WriteReplay(c) \/ FinishPage(c)
  \/ WriteLive(c) \/ LeaveInactive(c) \/ WriteAfterClose(c)

ReaderStep(c) == Accept(c) \/ DropReader(c)

ConnectionLost(c) == BreakStream(c) \/ NoticeClose(c)

Next ==
  \/ Commit
  \/ FinishPublish
  \/ \E p \in Pruners : PruneStep(p) \/ PruneFails(p)
  \/ \E S \in SUBSET rows : PurgeThread(S)
  \/ \E c \in Conns : \/ Notify(c) \/ OpenStream(c) \/ HandlerStep(c)
                      \/ SnapshotFails(c) \/ ReaderStep(c) \/ ConnectionLost(c)
  \/ DaemonCrash

Spec == Init /\ [][Next]_vars

\* What the runtime keeps doing: the publication fiber and the maintenance run
\* to their end, a handler whose await settled continues, the socket drains,
\* a dead socket is noticed at both ends, and the subscription is retried
\* forever.  Publishing itself is not required.
Fairness ==
  /\ WF_vars(FinishPublish)
  /\ \A p \in Pruners : WF_vars(PruneStep(p))
  /\ \A c \in Conns : /\ WF_vars(Notify(c))
                      /\ WF_vars(HandlerStep(c))
                      /\ WF_vars(ReaderStep(c))
                      /\ WF_vars(NoticeClose(c))
                      /\ WF_vars(~active[c] /\ BreakStream(c))
  /\ WF_vars(\E c \in Conns : OpenStream(c))

FairSpec == Spec /\ Fairness

-----------------------------------------------------------------------------
(* Properties *)

\* Every variable keeps its range; in particular every queue keeps its bound.
TypeOK ==
  /\ rows \subseteq Cursors /\ nextCursor \in 1..(MaxCursor + 1)
  /\ listeners \subseteq Conns /\ notified \subseteq Conns
  /\ publisher \in {"idle", "notifying"}
  /\ eventsSincePrune \in 0..(PruneInterval - 1)
  /\ prunePc \in [Pruners -> {"idle", "due", "delete"}]
  /\ pruneBoundary \in [Pruners -> Positions]
  /\ phase \in [Conns -> Phases] /\ active \in [Conns -> BOOLEAN]
  /\ boundary \in [Conns -> Positions] /\ cursor \in [Conns -> Positions]
  /\ searchCursor \in [Conns -> Positions] /\ pageEnd \in [Conns -> Positions]
  /\ page \in [Conns -> SUBSET Cursors] /\ queue \in [Conns -> Seq(Cursors)]
  /\ wire \in [Conns -> Seq(Cursors)]
  /\ reader \in [Conns -> {"none", "open", "broken"}]
  /\ eventCursor \in Positions /\ accepted \subseteq Cursors /\ faults \in 0..MaxFaults
  /\ \A c \in Conns : Len(queue[c]) <= QueueLimit /\ Len(wire[c]) <= WireCapacity

\* A retained record at or below the backend's cursor was accepted: whatever
\* the hand-off from replay to live, the reconnects and the crashes do, the
\* cursor never jumps over a record the journal still holds ("Advancing first
\* can permanently skip a record after a crash", RemoteProviderService.ts:967).
NoSilentGap == \A r \in rows : r <= eventCursor => r \in accepted

\* A handler that returned, or that hangs on a dead response, has no listener
\* left: early reconnects cannot accumulate dormant callbacks
\* (ProviderDaemonServer.ts:1338-1346).
NoDormantListener ==
  \A c \in listeners : phase[c] \notin {"closed", "hung"}

\* Every committed record is eventually accepted, unless retention or hard
\* delete removed it first.
EventuallyDelivered ==
  \A r \in Cursors : r \in rows ~> (r \in accepted \/ r \notin rows)

Feed == INSTANCE OrderedFeed WITH rows <- rows, nextCursor <- nextCursor,
                                  accepted <- accepted, MaxCursor <- MaxCursor

\* The hand-off implements the abstract feed: every step appends, removes or
\* delivers one record in order, or is invisible to the consumer.
RefinesFeed == Feed!Spec

=============================================================================
