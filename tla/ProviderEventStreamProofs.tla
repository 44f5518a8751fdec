--------------------- MODULE ProviderEventStreamProofs ---------------------
(***************************************************************************)
(* Proofs about ProviderEventStream, for every number of connections and   *)
(* every value of the limits.                                              *)
(***************************************************************************)
EXTENDS ProviderEventStream, TLAPS

Elems(q) == {q[i] : i \in 1..Len(q)}

\* c will still be told of the record just committed.
NotYetTold(c) == publisher = "notifying" /\ c \in listeners \ notified

\* Every position anybody holds is one the journal has handed out.
PositionsBounded(c) ==
  /\ boundary[c] <= Published /\ cursor[c] <= Published
  /\ searchCursor[c] <= Published /\ pageEnd[c] <= Published
  /\ \A k \in page[c] : k <= Published
  /\ \A i \in 1..Len(wire[c]) : wire[c][i] <= Published

Bounded ==
  /\ rows \subseteq 1..Published
  /\ publisher = "notifying" => Published >= 1
  /\ eventCursor <= Published
  /\ \A k \in accepted : k <= eventCursor
  /\ \A c \in Conns : PositionsBounded(c)

\* The lifecycle of a listener: in the Set while its handler is active, and
\* out of it once the handler was cleaned up with its disposer in hand.
ListenerLifecycle ==
  /\ publisher = "idle" => notified = {}
  /\ \A c \in Conns :
       /\ active[c] => c \in listeners /\ phase[c] \notin {"closed", "hung"}
       /\ c \in listeners => active[c] \/ ~HoldsDisposer(c)

\* The live queue is in journal order, ahead of what is still to be announced.
QueueOrdered(c) ==
  /\ \A i, j \in 1..Len(queue[c]) : i < j => queue[c][i] < queue[c][j]
  /\ \A i \in 1..Len(queue[c]) :
       /\ queue[c][i] <= Published
       /\ NotYetTold(c) => queue[c][i] < Published

\* After the boundary was captured, whatever replay will not cover is queued or
\* about to be.
QueueComplete(c) ==
  active[c] /\ phase[c] # "snapshot" =>
    \A r \in rows : r > boundary[c] /\ r > cursor[c] =>
       r \in Elems(queue[c]) \/ (NotYetTold(c) /\ r = Published)

\* Replay has passed over nothing the journal holds.
ReplayComplete(c) ==
  /\ phase[c] \in {"probe", "read"} =>
       \A r \in rows : cursor[c] < r => searchCursor[c] < r
  /\ phase[c] = "page" =>
       \A r \in rows, k \in page[c] : cursor[c] < r /\ r < k => r \in page[c]
  /\ phase[c] = "live" =>
       \A r \in rows : cursor[c] < r => boundary[c] < r

\* What an open stream has passed was accepted or is on its way.
StreamComplete(c) ==
  reader[c] = "open" =>
    \A r \in rows : r <= cursor[c] => r \in accepted \/ r \in Elems(wire[c])

\* Whatever the journal holds below a record on its way goes ahead of it.
WireComplete(c) ==
  \A i \in 1..Len(wire[c]) : \A r \in rows :
    r < wire[c][i] => r \in accepted \/ \E j \in 1..(i - 1) : wire[c][j] = r

ConnInv(c) ==
  QueueOrdered(c) /\ QueueComplete(c) /\ ReplayComplete(c) /\ StreamComplete(c) /\ WireComplete(c)

IInv ==
  /\ TypeOK
  /\ Bounded
  /\ ListenerLifecycle
  /\ NoSilentGap
  /\ \A c \in Conns : ConnInv(c)

\* The three kinds of steps: the journal's own, a connection's, a crash.
JournalStep ==
  \/ Commit \/ FinishPublish
  \/ \E p \in Pruners : PruneStep(p) \/ PruneFails(p)
  \/ \E S \in SUBSET rows : PurgeThread(S)

ConnectionStep(c) ==
  \/ Notify(c) \/ OpenStream(c) \/ HandlerStep(c)
  \/ SnapshotFails(c) \/ ReaderStep(c) \/ ConnectionLost(c)

\* A step leaves connection d alone.
Untouched(d) ==
  /\ phase'[d] = phase[d] /\ active'[d] = active[d] /\ boundary'[d] = boundary[d]
  /\ queue'[d] = queue[d] /\ cursor'[d] = cursor[d] /\ searchCursor'[d] = searchCursor[d]
  /\ pageEnd'[d] = pageEnd[d] /\ page'[d] = page[d] /\ wire'[d] = wire[d]
  /\ reader'[d] = reader[d] /\ (d \in listeners' <=> d \in listeners)

-----------------------------------------------------------------------------
(* Sequences and their elements *)

LEMMA ElemsAppend ==
  ASSUME NEW S, NEW q \in Seq(S), NEW k \in S
  PROVE  Elems(Append(q, k)) = Elems(q) \cup {k}
<1>1. ASSUME NEW x \in Elems(Append(q, k)) PROVE x \in Elems(q) \cup {k}
  BY <1>1 DEF Elems
<1>2. ASSUME NEW x \in Elems(q) PROVE x \in Elems(Append(q, k))
  <2>1. PICK i \in 1..Len(q) : q[i] = x
    BY DEF Elems
  <2>2. i \in 1..Len(Append(q, k)) /\ Append(q, k)[i] = x
    BY <2>1
  <2> QED
    BY <2>2 DEF Elems
<1>3. k \in Elems(Append(q, k))
  <2>1. Len(q) + 1 \in 1..Len(Append(q, k)) /\ Append(q, k)[Len(q) + 1] = k
    OBVIOUS
  <2> QED
    BY <2>1 DEF Elems
<1> QED
  BY <1>1, <1>2, <1>3

LEMMA ElemsTail ==
  ASSUME NEW S, NEW q \in Seq(S), q # <<>>
  PROVE  /\ Elems(q) = {Head(q)} \cup Elems(Tail(q))
         /\ Tail(q) \in Seq(S) /\ Len(Tail(q)) = Len(q) - 1 /\ Head(q) = q[1] /\ Head(q) \in S
         /\ \A i \in 1..Len(Tail(q)) : i + 1 \in 1..Len(q) /\ Tail(q)[i] = q[i + 1]
<1>1. /\ Tail(q) \in Seq(S) /\ Len(Tail(q)) = Len(q) - 1 /\ Head(q) = q[1] /\ Len(q) >= 1
      /\ \A i \in 1..Len(Tail(q)) : i + 1 \in 1..Len(q) /\ Tail(q)[i] = q[i + 1]
  OBVIOUS
<1>2. ASSUME NEW x \in Elems(q) PROVE x \in {Head(q)} \cup Elems(Tail(q))
  <2>1. PICK i \in 1..Len(q) : q[i] = x
    BY DEF Elems
  <2>2. CASE i = 1
    BY <1>1, <2>1, <2>2
  <2>3. CASE i # 1
    <3>1. i - 1 \in 1..Len(Tail(q)) /\ Tail(q)[i - 1] = x
      BY <1>1, <2>1, <2>3
    <3> QED
      BY <3>1 DEF Elems
  <2> QED
    BY <2>2, <2>3
<1>3. ASSUME NEW x \in Elems(Tail(q)) PROVE x \in Elems(q)
  BY <1>1 DEF Elems
<1>4. Head(q) \in Elems(q) /\ Head(q) \in S
  BY <1>1 DEF Elems
<1> QED
  BY <1>1, <1>2, <1>3, <1>4

\* What is left of a sequence without its first n elements.
LEMMA DropFirst ==
  ASSUME NEW S, NEW q \in Seq(S), NEW n \in 0..Len(q)
  PROVE  LET rest == SubSeq(q, n + 1, Len(q)) IN
         /\ Len(rest) = Len(q) - n /\ Len(rest) \in Nat
         /\ \A i \in 1..Len(rest) : i + n \in 1..Len(q) /\ rest[i] = q[i + n]
<1> DEFINE rest == SubSeq(q, n + 1, Len(q))
<1>1. Len(rest) = Len(q) - n /\ Len(rest) \in Nat
  OBVIOUS
<1>2. ASSUME NEW i \in 1..Len(rest) PROVE i + n \in 1..Len(q) /\ rest[i] = q[i + n]
  <2>1. i + n \in 1..Len(q)
    BY <1>1
  <2>2. rest[i] = q[n + 1 + i - 1]
    BY <1>1
  <2>3. n + 1 + i - 1 = i + n
    OBVIOUS
  <2> QED
    BY <2>1, <2>2, <2>3
<1> QED
  BY <1>1, <1>2

-----------------------------------------------------------------------------
(* Types *)

\* A step that only closes a handler, or only runs cleanup, keeps the types of
\* what it changes.
LEMMA CloseTypes ==
  ASSUME TypeOK, NEW c \in Conns, Close(c)
  PROVE  /\ listeners' \subseteq Conns /\ phase' \in [Conns -> Phases]
         /\ active' \in [Conns -> BOOLEAN]
         /\ boundary' \in [Conns -> Positions] /\ cursor' \in [Conns -> Positions]
         /\ searchCursor' \in [Conns -> Positions] /\ pageEnd' \in [Conns -> Positions]
         /\ page' \in [Conns -> SUBSET Cursors] /\ queue' \in [Conns -> Seq(Cursors)]
         /\ \A d \in Conns : Len(queue'[d]) <= QueueLimit
<1>1. 0 \in Positions /\ <<>> \in Seq(Cursors) /\ Len(<<>>) <= QueueLimit
  BY LimitsAssumption, BoundsAssumption DEF Positions, Cursors
<1>2. QueueLimit \in Nat
  BY LimitsAssumption
<1> QED
  BY <1>1, <1>2 DEF TypeOK, Close, ResetHandler, Phases

\* Every cursor is a position, and so is 0.
LEMMA CursorsArePositions == Cursors \subseteq Positions /\ 0 \in Positions
  BY BoundsAssumption DEF Cursors, Positions

\* The journal's own steps keep the types.
LEMMA JournalTypes ==
  ASSUME TypeOK,
         JournalStep
  PROVE  TypeOK'
<1>1. CASE Commit
  <2>1. nextCursor \in Cursors /\ nextCursor + 1 \in 1..(MaxCursor + 1)
    BY <1>1, BoundsAssumption DEF TypeOK, Commit, Cursors
  <2>2. rows' \subseteq Cursors /\ nextCursor' \in 1..(MaxCursor + 1)
        /\ publisher' \in {"idle", "notifying"}
    BY <1>1, <2>1 DEF TypeOK, Commit
  <2> QED
    BY <1>1, <2>2 DEF TypeOK, Commit, pruneVars, pagingVars, backendVars
<1>2. CASE FinishPublish
  <2>1. eventsSincePrune' \in 0..(PruneInterval - 1)
    BY <1>2, LimitsAssumption DEF TypeOK, FinishPublish
  <2>2. prunePc' \in [Pruners -> {"idle", "due", "delete"}]
    BY <1>2 DEF TypeOK, FinishPublish, Pruners
  <2>3. publisher' \in {"idle", "notifying"} /\ notified' \subseteq Conns
    BY <1>2 DEF FinishPublish
  <2> QED
    BY <1>2, <2>1, <2>2, <2>3 DEF TypeOK, FinishPublish, journalVars, pagingVars, backendVars
<1>3. ASSUME NEW p \in Pruners, PruneProbe(p) PROVE TypeOK'
  <2>1. prunePc' \in [Pruners -> {"idle", "due", "delete"}]
    BY <1>3 DEF TypeOK, PruneProbe
  <2>2. pruneBoundary' \in [Pruners -> Positions]
    <3>1. CASE pruneBoundary' = pruneBoundary
      BY <3>1 DEF TypeOK
    <3>2. CASE \E r \in rows : pruneBoundary' = [pruneBoundary EXCEPT ![p] = r]
      BY <3>2, CursorsArePositions DEF TypeOK
    <3> QED
      BY <1>3, <3>1, <3>2 DEF PruneProbe
  <2> QED
    BY <1>3, <2>1, <2>2 DEF TypeOK, PruneProbe, journalVars, publishVars, pagingVars, backendVars
<1>4. ASSUME NEW p \in Pruners, PruneDelete(p) PROVE TypeOK'
  <2>1. rows' \subseteq Cursors
    BY <1>4 DEF TypeOK, PruneDelete
  <2>2. prunePc' \in [Pruners -> {"idle", "due", "delete"}]
        /\ pruneBoundary' \in [Pruners -> Positions]
    BY <1>4, CursorsArePositions DEF TypeOK, PruneDelete
  <2> QED
    BY <1>4, <2>1, <2>2 DEF TypeOK, PruneDelete, publishVars, pagingVars, backendVars
<1>5. ASSUME NEW p \in Pruners, PruneFails(p) PROVE TypeOK'
  BY <1>5, BoundsAssumption
     DEF TypeOK, PruneFails, journalVars, publishVars, pagingVars, backendVars, Positions
<1>6. ASSUME NEW S \in SUBSET rows, PurgeThread(S) PROVE TypeOK'
  BY <1>6, BoundsAssumption
     DEF TypeOK, PurgeThread, publishVars, pruneVars, pagingVars, backendVars
<1> QED
  BY <1>1, <1>2, <1>3, <1>4, <1>5, <1>6 DEF JournalStep, PruneStep

\* A record is written: the cursor and the wire keep their types, and the wire
\* its bound when the socket had room.
LEMMA WriteTypes ==
  ASSUME TypeOK, NEW c \in Conns, NEW k \in Cursors,
         IF k <= cursor[c] THEN UNCHANGED <<wire, cursor>> ELSE Write(c, k),
         SocketHasRoom(c)
  PROVE  /\ cursor' \in [Conns -> Positions] /\ wire' \in [Conns -> Seq(Cursors)]
         /\ \A d \in Conns : Len(wire'[d]) <= WireCapacity
<1>1. k \in Positions
  BY BoundsAssumption DEF Cursors, Positions
<1>2. cursor' \in [Conns -> Positions]
  BY <1>1 DEF TypeOK, Write
<1>3. CASE wire' = wire
  BY <1>2, <1>3 DEF TypeOK
<1>4. CASE wire' # wire
  <2>1. wire' = [wire EXCEPT ![c] = Append(@, k)] /\ Len(wire[c]) < WireCapacity
    BY <1>4 DEF Write, SocketHasRoom
  <2>2. wire[c] \in Seq(Cursors)
    BY DEF TypeOK
  <2>3. Append(wire[c], k) \in Seq(Cursors) /\ Len(Append(wire[c], k)) <= WireCapacity
    BY <2>1, <2>2, LimitsAssumption
  <2> QED
    BY <1>2, <2>1, <2>3 DEF TypeOK
<1> QED
  BY <1>3, <1>4

\* The steps of one connection keep the types.
LEMMA ConnectionTypes ==
  ASSUME TypeOK, NEW c \in Conns,
         ConnectionStep(c),
         publisher = "notifying" => Published >= 1
  PROVE  TypeOK'
<1>a. /\ 0 \in Positions /\ <<>> \in Seq(Cursors) /\ QueueLimit \in Nat /\ WireCapacity \in Nat
      /\ Len(<<>>) <= QueueLimit /\ queue[c] \in Seq(Cursors) /\ wire[c] \in Seq(Cursors)
  BY LimitsAssumption, BoundsAssumption DEF Positions, TypeOK
<1>1. CASE Notify(c)
  <2>1. Published \in Cursors
    BY <1>1, BoundsAssumption DEF TypeOK, Notify, Published, Cursors
  <2>2. Append(queue[c], Published) \in Seq(Cursors)
        /\ Len(Append(queue[c], Published)) = Len(queue[c]) + 1
    BY <1>a, <2>1
  <2>3. queue' \in [Conns -> Seq(Cursors)] /\ \A d \in Conns : Len(queue'[d]) <= QueueLimit
    <3>1. CASE queue' = queue
      BY <3>1 DEF TypeOK
    <3>2. CASE queue' # queue
      <4>1. queue' = [queue EXCEPT ![c] = Append(@, Published)] /\ Len(queue[c]) < QueueLimit
        BY <1>1, <3>2 DEF Notify
      <4> QED
        BY <1>a, <2>2, <4>1 DEF TypeOK
    <3> QED
      BY <3>1, <3>2
  <2>4. active' \in [Conns -> BOOLEAN] /\ listeners' \subseteq Conns /\ notified' \subseteq Conns
    BY <1>1 DEF TypeOK, Notify, AfterCleanup
  <2> QED
    BY <1>1, <2>3, <2>4 DEF TypeOK, Notify, journalVars, pruneVars, pagingVars, backendVars
<1>2. CASE OpenStream(c)
  BY <1>2, <1>a
     DEF TypeOK, OpenStream, ResetHandler, journalVars, pruneVars, Phases
<1>3. CASE CaptureBoundary(c)
  BY <1>3 DEF TypeOK, CaptureBoundary, journalVars, publishVars, pruneVars, pagingVars, backendVars, Phases
<1>4. CASE SnapshotFails(c)
  BY <1>4, CloseTypes, BoundsAssumption
     DEF TypeOK, SnapshotFails, journalVars, publishVars, pruneVars, backendVars
<1>5. CASE SubscribedTooLate(c)
  BY <1>5, CloseTypes
     DEF TypeOK, SubscribedTooLate, journalVars, publishVars, pruneVars, backendVars
<1>6. CASE Subscribed(c)
  <2>1. PICK covered \in 0..Len(queue[c]) :
          queue' = [queue EXCEPT ![c] = SubSeq(@, covered + 1, Len(@))]
    BY <1>6 DEF Subscribed
  <2>2. /\ SubSeq(queue[c], covered + 1, Len(queue[c])) \in Seq(Cursors)
        /\ Len(SubSeq(queue[c], covered + 1, Len(queue[c]))) <= Len(queue[c])
    BY <1>a, <2>1
  <2>3. queue' \in [Conns -> Seq(Cursors)] /\ \A d \in Conns : Len(queue'[d]) <= QueueLimit
    BY <1>a, <2>1, <2>2 DEF TypeOK
  <2> QED
    BY <1>6, <2>3
       DEF TypeOK, Subscribed, journalVars, publishVars, pruneVars, backendVars, Phases
<1>7. CASE ProbePage(c)
  <2>1. CASE pageEnd' = pageEnd
    BY <1>7, <1>a, <2>1
       DEF TypeOK, ProbePage, journalVars, publishVars, pruneVars, backendVars, Phases
  <2>2. CASE \E last \in Cursors : pageEnd' = [pageEnd EXCEPT ![c] = last]
    <3>1. pageEnd' \in [Conns -> Positions]
      BY <2>2, CursorsArePositions DEF TypeOK
    <3> QED
      BY <1>7, <1>a, <3>1
         DEF TypeOK, ProbePage, journalVars, publishVars, pruneVars, backendVars, Phases
  <2> QED
    BY <1>7, <2>1, <2>2 DEF ProbePage
<1>8. CASE ReadPage(c)
  <2>1. RowsBetween(searchCursor[c], pageEnd[c]) \in SUBSET Cursors
    BY DEF TypeOK, RowsBetween
  <2>2. pageEnd[c] \in Positions
    BY DEF TypeOK
  <2>3. page' \in [Conns -> SUBSET Cursors]
    <3> DEFINE found == RowsBetween(searchCursor[c], pageEnd[c])
    <3>1. found \in SUBSET Cursors
      BY <2>1
    <3>2. page' = page \/ page' = [page EXCEPT ![c] = found]
      BY <1>8 DEF ReadPage
    <3> HIDE DEF found
    <3> QED
      BY <3>1, <3>2 DEF TypeOK
  <2>4. searchCursor' \in [Conns -> Positions] /\ pageEnd' \in [Conns -> Positions]
    BY <1>8, <1>a, <2>2 DEF TypeOK, ReadPage
  <2> QED
    BY <1>8, <2>3, <2>4 DEF TypeOK, ReadPage, journalVars, publishVars, pruneVars, backendVars, Phases
<1>9. CASE WriteReplay(c)
  <2>1. PICK k \in page[c] :
          /\ page' = [page EXCEPT ![c] = @ \ {k}]
          /\ IF k <= cursor[c] THEN UNCHANGED <<wire, cursor>> ELSE Write(c, k)
    BY <1>9 DEF WriteReplay
  <2>2. k \in Cursors
    BY DEF TypeOK
  <2>3. SocketHasRoom(c)
    BY <1>9 DEF WriteReplay
  <2>4. page' \in [Conns -> SUBSET Cursors]
    BY <2>1 DEF TypeOK
  <2> QED
    BY <1>9, <2>1, <2>2, <2>3, <2>4, WriteTypes
       DEF TypeOK, WriteReplay, journalVars, publishVars, pruneVars, backendVars
<1>10. CASE FinishPage(c)
  BY <1>10 DEF TypeOK, FinishPage, journalVars, publishVars, pruneVars, backendVars, Phases
<1>11. CASE WriteLive(c)
  <2>1. queue[c] # <<>> /\ SocketHasRoom(c)
    BY <1>11 DEF WriteLive
  <2>2. Head(queue[c]) \in Cursors /\ Tail(queue[c]) \in Seq(Cursors)
        /\ Len(Tail(queue[c])) <= Len(queue[c])
    BY <1>a, <2>1
  <2>3. queue' \in [Conns -> Seq(Cursors)] /\ \A d \in Conns : Len(queue'[d]) <= QueueLimit
    BY <1>11, <1>a, <2>2 DEF TypeOK, WriteLive
  <2> QED
    BY <1>11, <2>1, <2>2, <2>3, WriteTypes
       DEF TypeOK, WriteLive, journalVars, publishVars, pruneVars, pagingVars, backendVars
<1>12. CASE LeaveInactive(c)
  BY <1>12, CloseTypes DEF TypeOK, LeaveInactive, journalVars, publishVars, pruneVars, backendVars
<1>13. CASE WriteAfterClose(c)
  <2>1. Tail(queue[c]) \in Seq(Cursors) /\ Len(Tail(queue[c])) <= Len(queue[c])
    BY <1>13, <1>a DEF WriteAfterClose
  <2>2. queue' \in [Conns -> Seq(Cursors)] /\ \A d \in Conns : Len(queue'[d]) <= QueueLimit
    BY <1>13, <1>a, <2>1 DEF TypeOK, WriteAfterClose
  <2> QED
    BY <1>13, <2>2
       DEF TypeOK, WriteAfterClose, journalVars, publishVars, pruneVars, pagingVars, backendVars, Phases
<1>14. CASE Accept(c)
  <2>1. Head(wire[c]) \in Cursors /\ Tail(wire[c]) \in Seq(Cursors)
        /\ Len(Tail(wire[c])) <= Len(wire[c])
    BY <1>14, <1>a DEF Accept
  <2>2. Head(wire[c]) \in Positions
    BY <2>1, BoundsAssumption DEF Cursors, Positions
  <2>3. wire' \in [Conns -> Seq(Cursors)] /\ \A d \in Conns : Len(wire'[d]) <= WireCapacity
    BY <1>14, <1>a, <2>1 DEF TypeOK, Accept
  <2> QED
    BY <1>14, <2>1, <2>2, <2>3
       DEF TypeOK, Accept, journalVars, publishVars, pruneVars, pagingVars
<1>15. CASE DropReader(c)
  BY <1>15 DEF TypeOK, DropReader, journalVars, publishVars, pruneVars, pagingVars
<1>16. CASE BreakStream(c)
  <2>1. PICK kept \in 0..Len(wire[c]) : wire' = [wire EXCEPT ![c] = SubSeq(@, 1, kept)]
    BY <1>16 DEF BreakStream
  <2>2. SubSeq(wire[c], 1, kept) \in Seq(Cursors) /\ Len(SubSeq(wire[c], 1, kept)) <= Len(wire[c])
    BY <1>a, <2>1
  <2>3. wire' \in [Conns -> Seq(Cursors)] /\ \A d \in Conns : Len(wire'[d]) <= WireCapacity
    BY <1>a, <2>1, <2>2 DEF TypeOK
  <2>4. faults' \in 0..MaxFaults
    BY <1>16, BoundsAssumption DEF TypeOK, BreakStream
  <2> QED
    BY <1>16, <2>3, <2>4
       DEF TypeOK, BreakStream, journalVars, publishVars, pruneVars, pagingVars
<1>17. CASE NoticeClose(c)
  BY <1>17
     DEF TypeOK, NoticeClose, AfterCleanup, journalVars, publishVars, pruneVars, pagingVars, backendVars
<1> QED
  BY <1>1, <1>2, <1>3, <1>4, <1>5, <1>6, <1>7, <1>8, <1>9, <1>10, <1>11, <1>12, <1>13, <1>14,
     <1>15, <1>16, <1>17 DEF ConnectionStep, HandlerStep, ReaderStep, ConnectionLost

\* A crash of the daemon resets the types' variables to their initial values.
LEMMA CrashTypes ==
  ASSUME TypeOK, DaemonCrash
  PROVE  TypeOK'
<1>1. /\ 0 \in Positions /\ <<>> \in Seq(Cursors) /\ QueueLimit \in Nat /\ Len(<<>>) = 0
      /\ 0 \in 0..(PruneInterval - 1)
  BY LimitsAssumption, BoundsAssumption DEF Positions
<1>2. faults' \in 0..MaxFaults
  BY BoundsAssumption DEF TypeOK, DaemonCrash
<1>3. \A d \in Conns : Len(queue'[d]) <= QueueLimit
  BY <1>1 DEF DaemonCrash
<1> QED
  BY <1>1, <1>2, <1>3 DEF TypeOK, DaemonCrash, journalVars, backendVars, Phases

\* Every step is of one of the three kinds.
LEMMA NextSplit ==
  ASSUME [Next]_vars
  PROVE  JournalStep \/ (\E c \in Conns : ConnectionStep(c)) \/ DaemonCrash \/ UNCHANGED vars
  BY DEF Next, JournalStep, ConnectionStep

\* Every step keeps the types.
LEMMA TypeStep == IInv /\ [Next]_vars => TypeOK'
<1> SUFFICES ASSUME IInv, [Next]_vars PROVE TypeOK'
  OBVIOUS
<1>1. TypeOK /\ (publisher = "notifying" => Published >= 1)
  BY DEF IInv, Bounded
<1>2. CASE UNCHANGED vars
  BY <1>1, <1>2 DEF TypeOK, vars
<1> QED
  BY <1>1, <1>2, NextSplit, JournalTypes, ConnectionTypes, CrashTypes

-----------------------------------------------------------------------------
(* What a step of each kind leaves alone *)

\* The journal's steps touch no connection.
LEMMA JournalEffect ==
  ASSUME JournalStep
  PROVE  /\ \A d \in Conns : Untouched(d)
         /\ UNCHANGED <<listeners, active, phase, eventCursor, accepted>>
         /\ \/ Commit
            \/ rows' \subseteq rows /\ nextCursor' = nextCursor
<1>1. CASE Commit
  BY <1>1 DEF Commit, Untouched, pagingVars, backendVars
<1>2. CASE FinishPublish
  BY <1>2 DEF FinishPublish, Untouched, journalVars, pagingVars, backendVars
<1>3. ASSUME NEW p \in Pruners, PruneProbe(p) \/ PruneDelete(p) \/ PruneFails(p)
      PROVE  /\ \A d \in Conns : Untouched(d)
             /\ UNCHANGED <<listeners, active, phase, eventCursor, accepted>>
             /\ rows' \subseteq rows /\ nextCursor' = nextCursor
  BY <1>3 DEF PruneProbe, PruneDelete, PruneFails, Untouched, journalVars, publishVars,
              pagingVars, backendVars
<1>4. ASSUME NEW S \in SUBSET rows, PurgeThread(S)
      PROVE  /\ \A d \in Conns : Untouched(d)
             /\ UNCHANGED <<listeners, active, phase, eventCursor, accepted>>
             /\ rows' \subseteq rows /\ nextCursor' = nextCursor
  BY <1>4 DEF PurgeThread, Untouched, publishVars, pruneVars, pagingVars, backendVars
<1> QED
  BY <1>1, <1>2, <1>3, <1>4 DEF JournalStep, PruneStep

\* A connection's steps touch neither the journal nor another connection.
LEMMA ConnectionEffect ==
  ASSUME TypeOK, NEW c \in Conns, ConnectionStep(c)
  PROVE  /\ UNCHANGED <<rows, nextCursor, publisher>>
         /\ accepted \subseteq accepted'
         /\ Accept(c) \/ UNCHANGED <<eventCursor, accepted>>
         /\ \A d \in Conns \ {c} : Untouched(d) /\ (d \in notified' <=> d \in notified)
<1> USE DEF journalVars, publishVars, pruneVars, pagingVars, backendVars
<1>1. ASSUME NEW d \in Conns \ {c}, Close(c)
      PROVE  /\ phase'[d] = phase[d] /\ active'[d] = active[d] /\ boundary'[d] = boundary[d]
             /\ queue'[d] = queue[d] /\ cursor'[d] = cursor[d]
             /\ searchCursor'[d] = searchCursor[d] /\ pageEnd'[d] = pageEnd[d]
             /\ page'[d] = page[d] /\ (d \in listeners' <=> d \in listeners)
  BY <1>1 DEF Close, ResetHandler, TypeOK
<1>2. CASE SnapshotFails(c) \/ SubscribedTooLate(c) \/ LeaveInactive(c)
  BY <1>2, <1>1 DEF SnapshotFails, SubscribedTooLate, LeaveInactive, Untouched
<1>3. CASE Notify(c)
  BY <1>3 DEF Notify, AfterCleanup, Untouched, TypeOK
<1>4. CASE OpenStream(c)
  BY <1>4 DEF OpenStream, ResetHandler, Untouched, TypeOK
<1>5. CASE CaptureBoundary(c) \/ Subscribed(c) \/ FinishPage(c)
  BY <1>5 DEF CaptureBoundary, Subscribed, FinishPage, Untouched, TypeOK
<1>6. CASE ProbePage(c)
  BY <1>6 DEF ProbePage, Untouched, TypeOK
<1>7. CASE ReadPage(c)
  BY <1>7 DEF ReadPage, Untouched, TypeOK
<1>8. CASE WriteReplay(c) \/ WriteLive(c)
  BY <1>8 DEF WriteReplay, WriteLive, Write, Untouched, TypeOK
<1>9. CASE WriteAfterClose(c)
  BY <1>9 DEF WriteAfterClose, Untouched, TypeOK
<1>10. CASE Accept(c) \/ BreakStream(c) \/ DropReader(c)
  BY <1>10 DEF Accept, BreakStream, DropReader, Untouched, TypeOK
<1>11. CASE NoticeClose(c)
  BY <1>11 DEF NoticeClose, AfterCleanup, Untouched, TypeOK
<1> QED
  BY <1>2, <1>3, <1>4, <1>5, <1>6, <1>7, <1>8, <1>9, <1>10, <1>11
     DEF ConnectionStep, HandlerStep, ReaderStep, ConnectionLost

-----------------------------------------------------------------------------
(* Positions never run ahead of the journal *)

\* The numbers of the model are natural numbers.
LEMMA Numbers ==
  ASSUME TypeOK
  PROVE  /\ nextCursor \in Nat /\ nextCursor >= 1 /\ Published \in Nat /\ nextCursor = Published + 1
         /\ Cursors \subseteq Nat /\ Positions \subseteq Nat
<1>1. MaxCursor \in Nat
  BY BoundsAssumption
<1>2. nextCursor \in 1..(MaxCursor + 1)
  BY DEF TypeOK
<1> QED
  BY <1>1, <1>2 DEF Published, Cursors, Positions

\* What TypeOK says of one connection.
LEMMA ConnectionValues ==
  ASSUME TypeOK, NEW d \in Conns
  PROVE  /\ boundary[d] \in Nat /\ cursor[d] \in Nat /\ searchCursor[d] \in Nat /\ pageEnd[d] \in Nat
         /\ page[d] \subseteq Cursors /\ queue[d] \in Seq(Cursors) /\ wire[d] \in Seq(Cursors)
<1>1. /\ boundary[d] \in Positions /\ cursor[d] \in Positions /\ searchCursor[d] \in Positions
      /\ pageEnd[d] \in Positions
      /\ page[d] \subseteq Cursors /\ queue[d] \in Seq(Cursors) /\ wire[d] \in Seq(Cursors)
  BY DEF TypeOK
<1> QED
  BY <1>1, Numbers

\* The same after a step.
LEMMA NumbersNext ==
  ASSUME TypeOK'
  PROVE  Published' \in Nat /\ nextCursor' \in Nat
<1>1. \A n \in Nat : n >= 1 => n - 1 \in Nat
  OBVIOUS
<1>2. MaxCursor \in Nat /\ nextCursor' \in 1..(MaxCursor + 1)
  BY BoundsAssumption DEF TypeOK
<1>3. nextCursor' \in Nat /\ nextCursor' >= 1
  BY <1>2
<1> QED
  BY <1>1, <1>3 DEF Published

\* An untouched connection stays bounded while the journal only grows.
LEMMA UntouchedBounded ==
  ASSUME TypeOK, TypeOK', NEW d \in Conns, PositionsBounded(d), Untouched(d),
         Published' >= Published
  PROVE  PositionsBounded(d)'
<1>1. Published \in Nat /\ Published' \in Nat
  BY Numbers, NumbersNext
<1>2. \A m, n, k \in Nat : n >= m /\ k <= m => k <= n
  OBVIOUS
<1>3. /\ boundary[d] \in Nat /\ cursor[d] \in Nat /\ searchCursor[d] \in Nat /\ pageEnd[d] \in Nat
      /\ page[d] \subseteq Cursors /\ wire[d] \in Seq(Cursors) /\ Cursors \subseteq Nat
  BY ConnectionValues, Numbers
<1>4. \A k \in page[d] : k <= Published'
  BY <1>1, <1>2, <1>3 DEF PositionsBounded
<1>5. ASSUME NEW i \in 1..Len(wire[d]) PROVE wire[d][i] <= Published'
  <2>1. wire[d][i] \in Cursors
    BY <1>3
  <2>2. wire[d][i] \in Nat /\ wire[d][i] <= Published
    BY <1>3, <2>1 DEF PositionsBounded
  <2> QED
    BY <1>1, <1>2, <2>2
<1>6. /\ boundary[d] <= Published' /\ cursor[d] <= Published'
      /\ searchCursor[d] <= Published' /\ pageEnd[d] <= Published'
  BY <1>1, <1>2, <1>3 DEF PositionsBounded
<1> QED
  BY <1>4, <1>5, <1>6 DEF PositionsBounded, Untouched

\* A connection's own step keeps its positions bounded.
LEMMA OwnBounded ==
  ASSUME IInv, TypeOK', NEW c \in Conns, ConnectionStep(c)
  PROVE  PositionsBounded(c)'
<1> USE DEF journalVars, publishVars, pruneVars, pagingVars, backendVars
<1>a. TypeOK /\ Bounded /\ PositionsBounded(c) /\ Published' = Published /\ Published \in Nat
      /\ rows \subseteq 1..Published /\ eventCursor <= Published
  <2>1. TypeOK /\ Bounded /\ PositionsBounded(c)
        /\ rows \subseteq 1..Published /\ eventCursor <= Published
    BY DEF IInv, Bounded
  <2>2. nextCursor' = nextCursor
    BY <2>1, ConnectionEffect
  <2> QED
    BY <2>1, <2>2, Numbers DEF Published
<1>b. queue[c] \in Seq(Cursors) /\ wire[c] \in Seq(Cursors) /\ page[c] \subseteq Cursors
      /\ boundary[c] \in Nat /\ cursor[c] \in Nat /\ searchCursor[c] \in Nat /\ pageEnd[c] \in Nat
      /\ Cursors \subseteq Nat
  BY <1>a, ConnectionValues, Numbers
<1>c. ASSUME UNCHANGED <<boundary, cursor, searchCursor, pageEnd, page, wire>>
      PROVE  PositionsBounded(c)'
  BY <1>a, <1>c DEF PositionsBounded
<1>1. CASE Notify(c) \/ NoticeClose(c) \/ DropReader(c) \/ WriteAfterClose(c)
  BY <1>1, <1>c DEF Notify, NoticeClose, DropReader, WriteAfterClose
<1>2. ASSUME Close(c), wire' = wire PROVE PositionsBounded(c)'
  BY <1>2, <1>a DEF Close, ResetHandler, PositionsBounded, TypeOK
<1>3. CASE SnapshotFails(c) \/ SubscribedTooLate(c) \/ LeaveInactive(c)
  BY <1>3, <1>2 DEF SnapshotFails, SubscribedTooLate, LeaveInactive
<1>4. CASE OpenStream(c)
  BY <1>4, <1>a DEF OpenStream, ResetHandler, PositionsBounded, TypeOK
<1>5. CASE CaptureBoundary(c)
  <2>1. PICK m \in Positions : IsNewest(m, rows) /\ boundary' = [boundary EXCEPT ![c] = m]
    BY <1>5 DEF CaptureBoundary
  <2>2. m <= Published
    BY <2>1, <1>a DEF IsNewest
  <2> QED
    BY <1>5, <1>a, <2>1, <2>2 DEF CaptureBoundary, PositionsBounded, TypeOK
<1>6. CASE Subscribed(c) \/ FinishPage(c)
  BY <1>6, <1>a DEF Subscribed, FinishPage, PositionsBounded, TypeOK
<1>7. CASE ProbePage(c)
  <2>1. CASE pageEnd' = pageEnd
    BY <1>7, <1>a, <2>1 DEF ProbePage, PositionsBounded, TypeOK
  <2>2. CASE \E probed \in SUBSET rows, last \in Cursors :
               IsNewest(last, probed) /\ pageEnd' = [pageEnd EXCEPT ![c] = last]
    <3>1. PICK probed \in SUBSET rows, last \in Cursors :
             IsNewest(last, probed) /\ pageEnd' = [pageEnd EXCEPT ![c] = last]
      BY <2>2
    <3>2. last <= Published
      BY <3>1, <1>a DEF IsNewest
    <3>3. pageEnd'[c] <= Published
      BY <3>1, <3>2, <1>a DEF TypeOK
    <3>4. searchCursor'[c] <= Published
      BY <1>7, <1>a DEF ProbePage, PositionsBounded, TypeOK
    <3> QED
      BY <1>7, <1>a, <3>3, <3>4 DEF ProbePage, PositionsBounded
  <2> QED
    BY <1>7, <2>1, <2>2 DEF ProbePage
<1>8. CASE ReadPage(c)
  <2>1. \A k \in RowsBetween(searchCursor[c], pageEnd[c]) : k <= Published
    BY <1>a DEF RowsBetween
  <2>2. page'[c] = page[c] \/ page'[c] = RowsBetween(searchCursor[c], pageEnd[c])
    BY <1>8, <1>a DEF ReadPage, TypeOK
  <2>3. \A k \in page'[c] : k <= Published
    BY <2>1, <2>2, <1>a DEF PositionsBounded
  <2>4. searchCursor'[c] <= Published /\ pageEnd'[c] <= Published
    BY <1>8, <1>a DEF ReadPage, PositionsBounded, TypeOK
  <2> QED
    BY <1>8, <1>a, <2>3, <2>4 DEF ReadPage, PositionsBounded
<1>9. ASSUME NEW k \in Cursors, k <= Published,
             IF k <= cursor[c] THEN UNCHANGED <<wire, cursor>> ELSE Write(c, k)
      PROVE  cursor'[c] <= Published /\ \A i \in 1..Len(wire'[c]) : wire'[c][i] <= Published
  <2>1. CASE wire' = wire
    BY <1>9, <1>a, <2>1 DEF Write, PositionsBounded, TypeOK
  <2>2. CASE wire' # wire
    <3>1. wire'[c] = Append(wire[c], k) /\ cursor'[c] = k
      BY <1>9, <1>a, <2>2 DEF Write, TypeOK
    <3> QED
      BY <1>9, <1>a, <1>b, <3>1 DEF PositionsBounded
  <2> QED
    BY <2>1, <2>2
<1>10. CASE WriteReplay(c)
  <2>1. PICK k \in page[c] :
          /\ page' = [page EXCEPT ![c] = @ \ {k}]
          /\ IF k <= cursor[c] THEN UNCHANGED <<wire, cursor>> ELSE Write(c, k)
    BY <1>10 DEF WriteReplay
  <2>2. k \in Cursors /\ k <= Published /\ \A j \in page'[c] : j <= Published
    BY <1>a, <1>b, <2>1 DEF PositionsBounded, TypeOK
  <2> QED
    BY <1>9, <1>10, <1>a, <2>1, <2>2 DEF WriteReplay, PositionsBounded
<1>11. CASE WriteLive(c)
  <2>1. Head(queue[c]) = queue[c][1] /\ Head(queue[c]) \in Cursors /\ 1 \in 1..Len(queue[c])
    BY <1>11, <1>b DEF WriteLive
  <2>2. Head(queue[c]) <= Published
    BY <2>1 DEF IInv, ConnInv, QueueOrdered
  <2> QED
    BY <1>9, <1>11, <1>a, <2>1, <2>2 DEF WriteLive, PositionsBounded
<1>12. CASE Accept(c)
  <2>1. wire'[c] = Tail(wire[c]) /\ wire[c] # <<>>
    BY <1>12, <1>a DEF Accept, TypeOK
  <2>2. \A i \in 1..Len(wire'[c]) : wire'[c][i] <= Published
    BY <2>1, <1>a, <1>b DEF PositionsBounded
  <2> QED
    BY <1>12, <1>a, <2>2 DEF Accept, PositionsBounded
<1>13. CASE BreakStream(c)
  <2>1. PICK kept \in 0..Len(wire[c]) : wire'[c] = SubSeq(wire[c], 1, kept)
    BY <1>13, <1>a DEF BreakStream, TypeOK
  <2>2. \A i \in 1..Len(wire'[c]) : wire'[c][i] <= Published
    BY <2>1, <1>a, <1>b DEF PositionsBounded
  <2> QED
    BY <1>13, <1>a, <2>2 DEF BreakStream, PositionsBounded
<1> QED
  BY <1>1, <1>3, <1>4, <1>5, <1>6, <1>7, <1>8, <1>10, <1>11, <1>12, <1>13
     DEF ConnectionStep, HandlerStep, ReaderStep, ConnectionLost

\* Every step keeps the positions bounded.
LEMMA BoundedStep == IInv /\ [Next]_vars => Bounded'
<1> SUFFICES ASSUME IInv, [Next]_vars PROVE Bounded'
  OBVIOUS
<1>a. TypeOK /\ TypeOK' /\ Bounded
  BY TypeStep DEF IInv
<1>b. nextCursor \in Nat /\ nextCursor >= 1 /\ eventCursor \in Nat /\ accepted \subseteq Nat
  BY <1>a, Numbers DEF TypeOK
<1>c. Published \in Nat /\ Published' \in Nat /\ \A m, n, k \in Nat : n >= m /\ k <= m => k <= n
  BY <1>a, Numbers, NumbersNext
<1>d. ASSUME Published' >= Published, rows' \subseteq 1..Published',
             publisher' = "notifying" => Published' >= 1,
             UNCHANGED <<eventCursor, accepted>>, \A c \in Conns : PositionsBounded(c)'
      PROVE  Bounded'
  <2>1. eventCursor' <= Published'
    BY <1>a, <1>b, <1>c, <1>d DEF Bounded
  <2> QED
    BY <1>a, <1>d, <2>1 DEF Bounded
<1>1. CASE JournalStep
  <2>1. \A d \in Conns : Untouched(d)
    BY <1>1, JournalEffect
  <2>2. CASE Commit
    <3>1. nextCursor' = nextCursor + 1 /\ rows' = rows \cup {nextCursor}
      BY <2>2 DEF Commit
    <3>2. Published' = nextCursor /\ nextCursor = Published + 1
      BY <1>b, <3>1 DEF Published
    <3>3. rows' \subseteq 1..Published' /\ Published' >= 1 /\ Published' >= Published
      BY <1>a, <1>b, <1>c, <3>1, <3>2 DEF Bounded
    <3>4. \A d \in Conns : PositionsBounded(d)'
      BY <1>a, <2>1, <3>3, UntouchedBounded DEF Bounded
    <3> QED
      BY <1>1, <1>d, <3>3, <3>4, JournalEffect
  <2>3. CASE ~Commit
    <3>1. rows' \subseteq rows /\ nextCursor' = nextCursor
      BY <1>1, <2>3, JournalEffect
    <3>p. Published' = Published /\ Published' >= Published
      BY <1>c, <3>1 DEF Published
    <3>2. \A d \in Conns : PositionsBounded(d)'
      BY <1>a, <2>1, <3>p, UntouchedBounded DEF Bounded
    <3>3. publisher' = "notifying" => publisher = "notifying"
      BY <1>1, <2>3 DEF JournalStep, PruneStep, PruneProbe, PruneDelete, PruneFails, PurgeThread,
                        FinishPublish, publishVars
    <3> QED
      BY <1>1, <1>a, <1>d, <3>1, <3>p, <3>2, <3>3, JournalEffect DEF Bounded
  <2> QED
    BY <2>2, <2>3
<1>2. ASSUME NEW c \in Conns, ConnectionStep(c) PROVE Bounded'
  <2>1. UNCHANGED <<rows, nextCursor, publisher>> /\ \A d \in Conns \ {c} : Untouched(d)
    BY <1>2, <1>a, ConnectionEffect
  <2>p. Published' = Published /\ Published' >= Published
    BY <1>c, <2>1 DEF Published
  <2>2. PositionsBounded(c)'
    BY <1>2, <1>a, OwnBounded
  <2>3. \A d \in Conns : PositionsBounded(d)'
    BY <1>a, <2>1, <2>p, <2>2, UntouchedBounded DEF Bounded
  <2>4. CASE Accept(c)
    <3>1. wire[c] # <<>> /\ wire[c] \in Seq(Cursors) /\ Cursors \subseteq Nat
      BY <1>a, <2>4, ConnectionValues, Numbers DEF Accept
    <3>2. Head(wire[c]) = wire[c][1] /\ 1 \in 1..Len(wire[c]) /\ Head(wire[c]) \in Nat
      <4>1. Head(wire[c]) = wire[c][1] /\ 1 \in 1..Len(wire[c]) /\ Head(wire[c]) \in Cursors
        BY <3>1
      <4> QED
        BY <3>1, <4>1
    <3>3. Head(wire[c]) <= Published
      BY <1>a, <3>2 DEF Bounded, PositionsBounded
    <3>4. /\ accepted' = accepted \cup {Head(wire[c])}
          /\ eventCursor' = IF Head(wire[c]) > eventCursor THEN Head(wire[c]) ELSE eventCursor
      BY <2>4 DEF Accept
    <3>5. eventCursor' <= Published /\ \A k \in accepted' : k <= eventCursor'
      BY <1>a, <1>b, <3>2, <3>3, <3>4 DEF Bounded
    <3> QED
      BY <1>a, <2>1, <2>p, <2>3, <3>5 DEF Bounded
  <2>5. CASE ~Accept(c)
    <3>1. UNCHANGED <<eventCursor, accepted>>
      BY <1>2, <1>a, <2>5, ConnectionEffect
    <3> QED
      BY <1>a, <1>d, <2>1, <2>p, <2>3, <3>1 DEF Bounded
  <2> QED
    BY <2>4, <2>5
<1>3. CASE DaemonCrash
  <2>1. UNCHANGED <<rows, nextCursor, wire, eventCursor, accepted>> /\ publisher' = "idle"
    BY <1>3 DEF DaemonCrash, journalVars, backendVars
  <2>2. ASSUME NEW d \in Conns PROVE PositionsBounded(d)'
    <3>1. boundary'[d] = 0 /\ cursor'[d] = 0 /\ searchCursor'[d] = 0 /\ pageEnd'[d] = 0 /\ page'[d] = {}
      BY <1>3 DEF DaemonCrash
    <3>2. Published' = Published
      BY <2>1 DEF Published
    <3> QED
      BY <1>a, <1>c, <2>1, <3>1, <3>2 DEF Bounded, PositionsBounded
  <2>3. Published' = Published /\ Published' >= Published
    BY <1>c, <2>1 DEF Published
  <2> QED
    BY <1>a, <1>d, <2>1, <2>2, <2>3 DEF Bounded
<1>4. CASE UNCHANGED vars
  BY <1>a, <1>4 DEF Bounded, PositionsBounded, Published, vars
<1> QED
  BY <1>1, <1>2, <1>3, <1>4, NextSplit

-----------------------------------------------------------------------------
(* The lifecycle of a listener *)

\* Every step keeps the lifecycle of the listeners.
LEMMA LifecycleStep == IInv /\ [Next]_vars => ListenerLifecycle'
<1> SUFFICES ASSUME IInv, [Next]_vars PROVE ListenerLifecycle'
  OBVIOUS
<1> USE DEF journalVars, publishVars, pruneVars, pagingVars, backendVars
<1>a. TypeOK /\ ListenerLifecycle
  BY DEF IInv
<1>b. ASSUME UNCHANGED <<active, listeners, phase>>, publisher' = "idle" => notified' = {}
      PROVE  ListenerLifecycle'
  BY <1>a, <1>b DEF ListenerLifecycle, HoldsDisposer
<1>1. CASE JournalStep
  <2>1. CASE Commit \/ FinishPublish
    BY <1>1, <1>b, <2>1, JournalEffect DEF Commit, FinishPublish
  <2>2. CASE ~(Commit \/ FinishPublish)
    <3>1. publisher' = publisher /\ notified' = notified
      BY <1>1, <2>2 DEF JournalStep, PruneStep, PruneProbe, PruneDelete, PruneFails, PurgeThread
    <3> QED
      BY <1>1, <1>a, <1>b, <3>1, JournalEffect DEF ListenerLifecycle
  <2> QED
    BY <2>1, <2>2
<1>2. ASSUME NEW c \in Conns, ConnectionStep(c) PROVE ListenerLifecycle'
  <2>1. /\ publisher' = publisher
        /\ \A d \in Conns \ {c} : Untouched(d) /\ (d \in notified' <=> d \in notified)
    BY <1>2, <1>a, ConnectionEffect
  <2>2. publisher' = "idle" => notified' = {}
    BY <1>2, <1>a, <2>1 DEF ListenerLifecycle, ConnectionStep, Notify, OpenStream, HandlerStep,
          SnapshotFails, ReaderStep, ConnectionLost, CaptureBoundary, SubscribedTooLate, Subscribed,
          ProbePage, ReadPage, WriteReplay, FinishPage, WriteLive, LeaveInactive, WriteAfterClose,
          Accept, DropReader, BreakStream, NoticeClose
  <2> DEFINE Lifecycle ==
        /\ active'[c] => c \in listeners' /\ phase'[c] \notin {"closed", "hung"}
        /\ c \in listeners' => active'[c] \/ phase'[c] \in {"snapshot", "captured"}
  <2>3. ASSUME UNCHANGED <<active, listeners, phase>> PROVE Lifecycle
    BY <1>a, <2>3 DEF ListenerLifecycle, HoldsDisposer
  <2>4. ASSUME \/ WriteReplay(c) \/ WriteLive(c) \/ Accept(c) \/ DropReader(c) \/ BreakStream(c) PROVE Lifecycle
    BY <2>3, <2>4 DEF WriteReplay, WriteLive, Accept, DropReader, BreakStream
  <2>5. ASSUME SnapshotFails(c) \/ SubscribedTooLate(c) \/ LeaveInactive(c) PROVE Lifecycle
    BY <1>a, <2>5 DEF SnapshotFails, SubscribedTooLate, LeaveInactive, Close, TypeOK
  <2>6. ASSUME Notify(c) \/ NoticeClose(c) PROVE Lifecycle
    BY <1>a, <2>6 DEF Notify, NoticeClose, AfterCleanup, HoldsDisposer, ListenerLifecycle, TypeOK
  <2>7. ASSUME OpenStream(c) PROVE Lifecycle
    BY <1>a, <2>7 DEF OpenStream, TypeOK
  <2>8. ASSUME CaptureBoundary(c) \/ Subscribed(c) \/ FinishPage(c) PROVE Lifecycle
    BY <1>a, <2>8
       DEF CaptureBoundary, Subscribed, FinishPage, HoldsDisposer, ListenerLifecycle, TypeOK
  <2>9. ASSUME ProbePage(c) \/ ReadPage(c) PROVE Lifecycle
    BY <1>a, <2>9 DEF ProbePage, ReadPage, HoldsDisposer, ListenerLifecycle, TypeOK
  <2>10. ASSUME WriteAfterClose(c) PROVE Lifecycle
    BY <1>a, <2>10 DEF WriteAfterClose, HoldsDisposer, ListenerLifecycle, TypeOK
  <2>11. Lifecycle
    BY <1>2, <2>4, <2>5, <2>6, <2>7, <2>8, <2>9, <2>10
       DEF ConnectionStep, HandlerStep, ReaderStep, ConnectionLost
  <2>12. \A d \in Conns \ {c} :
           /\ active'[d] => d \in listeners' /\ phase'[d] \notin {"closed", "hung"}
           /\ d \in listeners' => active'[d] \/ phase'[d] \in {"snapshot", "captured"}
    BY <1>a, <2>1 DEF Untouched, ListenerLifecycle, HoldsDisposer
  <2> QED
    BY <2>2, <2>11, <2>12 DEF ListenerLifecycle, HoldsDisposer
<1>3. CASE DaemonCrash
  BY <1>3 DEF DaemonCrash, ListenerLifecycle
<1>4. CASE UNCHANGED vars
  BY <1>4, <1>a, <1>b DEF vars, ListenerLifecycle
<1> QED
  BY <1>1, <1>2, <1>3, <1>4, NextSplit

-----------------------------------------------------------------------------
(* What each connection has passed over, queued and sent *)

\* A step elsewhere, rows that disappear and records accepted meanwhile disturb
\* nothing.
LEMMA UntouchedConn ==
  ASSUME NEW d \in Conns, ConnInv(d), Untouched(d), rows' \subseteq rows,
         accepted \subseteq accepted', Published' = Published, NotYetTold(d)' <=> NotYetTold(d)
  PROVE  ConnInv(d)'
<1> USE DEF Untouched
<1>1. QueueOrdered(d)'
  BY DEF ConnInv, QueueOrdered
<1>2. QueueComplete(d)'
  BY DEF ConnInv, QueueComplete, Elems
<1>3. ReplayComplete(d)'
  BY DEF ConnInv, ReplayComplete
<1>4. StreamComplete(d)'
  BY DEF ConnInv, StreamComplete, Elems
<1>5. WireComplete(d)'
  BY DEF ConnInv, WireComplete
<1> QED
  BY <1>1, <1>2, <1>3, <1>4, <1>5 DEF ConnInv

\* A committed record lies beyond every position, and every active stream is
\* about to be told of it.
LEMMA CommitConn ==
  ASSUME IInv, TypeOK', Commit, NEW d \in Conns
  PROVE  ConnInv(d)'
<1>1. Untouched(d) /\ accepted' = accepted /\ listeners' = listeners /\ notified' = notified
      /\ rows' = rows \cup {nextCursor} /\ publisher' = "notifying" /\ publisher = "idle"
  BY DEF Commit, Untouched, pagingVars, backendVars
<1>2. Published' = nextCursor /\ nextCursor = Published + 1 /\ Published \in Nat
  <2>1. nextCursor \in Nat /\ nextCursor' = nextCursor + 1 /\ nextCursor = Published + 1
        /\ Published \in Nat
    BY Numbers DEF Commit, IInv
  <2> QED
    BY <2>1 DEF Published
<1>3. /\ TypeOK /\ Bounded /\ ConnInv(d) /\ PositionsBounded(d) /\ ~NotYetTold(d)
      /\ rows \subseteq Nat
  <2>1. TypeOK /\ Bounded /\ ConnInv(d) /\ PositionsBounded(d)
    BY DEF IInv, Bounded
  <2> QED
    BY <1>1, <2>1, Numbers DEF NotYetTold, TypeOK
<1>4. /\ boundary[d] \in Nat /\ cursor[d] \in Nat /\ searchCursor[d] \in Nat
      /\ page[d] \subseteq Nat /\ wire[d] \in Seq(Cursors) /\ queue[d] \in Seq(Cursors) /\ Cursors \subseteq Nat
  BY <1>3, ConnectionValues, Numbers
<1>5. nextCursor > boundary[d] /\ nextCursor > cursor[d] /\ nextCursor > searchCursor[d]
      /\ \A k \in page[d] : k < nextCursor
  BY <1>2, <1>3, <1>4 DEF PositionsBounded
<1>6. \A i \in 1..Len(wire[d]) : wire[d][i] \in Nat /\ wire[d][i] < nextCursor
  <2> TAKE i \in 1..Len(wire[d])
  <2>1. wire[d][i] \in Cursors /\ wire[d][i] <= Published
    BY <1>3, <1>4 DEF PositionsBounded
  <2>2. wire[d][i] \in Nat
    BY <1>4, <2>1
  <2>3. \A k, m \in Nat : k <= m => k < m + 1
    OBVIOUS
  <2> QED
    BY <1>2, <2>1, <2>2, <2>3
<1>7. \A i \in 1..Len(queue[d]) : queue[d][i] \in Nat /\ queue[d][i] < nextCursor
  <2> TAKE i \in 1..Len(queue[d])
  <2>1. queue[d][i] \in Cursors /\ queue[d][i] <= Published
    BY <1>3, <1>4 DEF ConnInv, QueueOrdered
  <2>2. queue[d][i] \in Nat
    BY <1>4, <2>1
  <2>3. \A k, m \in Nat : k <= m => k < m + 1
    OBVIOUS
  <2> QED
    BY <1>2, <2>1, <2>2, <2>3
<1>8. QueueOrdered(d)'
  <2>1. \A i \in 1..Len(queue[d]) : queue[d][i] <= nextCursor
    BY <1>2, <1>7
  <2> QED
    BY <1>1, <1>2, <1>3, <1>7, <2>1 DEF Untouched, ConnInv, QueueOrdered
<1>9. QueueComplete(d)'
  <2>1. active[d] => d \in listeners' /\ d \notin notified'
    BY <1>1 DEF IInv, ListenerLifecycle
  <2> QED
    BY <1>1, <1>2, <1>3, <2>1 DEF Untouched, ConnInv, QueueComplete, NotYetTold, Elems
<1>10. ReplayComplete(d)'
  <2>1. \A k \in page[d] : ~(nextCursor < k)
    BY <1>2, <1>4, <1>5
  <2> QED
    BY <1>1, <1>3, <1>5, <2>1 DEF Untouched, ConnInv, ReplayComplete
<1>11. StreamComplete(d)'
  <2>1. ~(nextCursor <= cursor[d])
    BY <1>2, <1>4, <1>5
  <2> QED
    BY <1>1, <1>3, <2>1 DEF Untouched, ConnInv, StreamComplete, Elems
<1>12. WireComplete(d)'
  <2>1. \A i \in 1..Len(wire[d]) : ~(nextCursor < wire[d][i])
    BY <1>2, <1>6
  <2> QED
    BY <1>1, <1>3, <2>1 DEF Untouched, ConnInv, WireComplete
<1> QED
  BY <1>8, <1>9, <1>10, <1>11, <1>12 DEF ConnInv

\* The only record the journal holds beyond the cursor and up to k being k
\* itself, k may be written next.
LEMMA WriteConn ==
  ASSUME IInv, NEW c \in Conns, NEW k \in Cursors, rows' = rows, accepted' = accepted,
         reader' = reader, k > cursor[c], Write(c, k),
         \A r \in rows : cursor[c] < r /\ r <= k => r = k
  PROVE  StreamComplete(c)' /\ WireComplete(c)' /\ cursor'[c] = k
<1>1. TypeOK /\ StreamComplete(c) /\ WireComplete(c) /\ wire[c] \in Seq(Cursors)
  BY DEF IInv, ConnInv, TypeOK
<1>n. rows \subseteq Nat /\ k \in Nat /\ cursor[c] \in Nat
  BY <1>1, Numbers, ConnectionValues DEF TypeOK
<1>2. cursor'[c] = k
  BY <1>1 DEF Write, TypeOK
<1>3. CASE reader[c] = "open"
  <2>1. wire'[c] = Append(wire[c], k)
    BY <1>1, <1>3 DEF Write, TypeOK
  <2>2. Elems(wire'[c]) = Elems(wire[c]) \cup {k}
    BY <1>1, <2>1, ElemsAppend
  <2>3. ASSUME NEW r \in rows, r <= k PROVE r \in accepted \/ r \in Elems(wire[c]) \/ r = k
    <3>1. r <= cursor[c] \/ r = k
      BY <1>n, <2>3
    <3> QED
      BY <1>1, <1>3, <3>1 DEF StreamComplete
  <2>4. StreamComplete(c)'
    BY <1>2, <1>3, <2>2, <2>3 DEF StreamComplete
  <2>5. WireComplete(c)'
    <3> SUFFICES ASSUME NEW i \in 1..Len(wire'[c]), NEW r \in rows, r < wire'[c][i]
                 PROVE  r \in accepted \/ \E j \in 1..(i - 1) : wire'[c][j] = r
      BY DEF WireComplete
    <3>1. Len(wire'[c]) = Len(wire[c]) + 1 /\ Len(wire[c]) \in Nat
          /\ \A j \in 1..Len(wire[c]) : wire'[c][j] = wire[c][j]
      BY <1>1, <2>1
    <3>2. CASE i \in 1..Len(wire[c])
      <4>1. r \in accepted \/ \E j \in 1..(i - 1) : wire[c][j] = r
        BY <1>1, <3>1, <3>2 DEF WireComplete
      <4>2. \A j \in 1..(i - 1) : j \in 1..Len(wire[c])
        BY <3>1, <3>2
      <4> QED
        BY <3>1, <4>1, <4>2
    <3>3. CASE i \notin 1..Len(wire[c])
      <4>1. i = Len(wire[c]) + 1
        BY <3>1, <3>3
      <4>2. wire'[c][i] = k
        BY <1>1, <2>1, <4>1
      <4>3. r < k
        BY <4>2
      <4>4. r \in accepted \/ r \in Elems(wire[c])
        BY <1>n, <2>3, <4>3
      <4>5. i - 1 = Len(wire[c])
        BY <3>1, <4>1
      <4> QED
        BY <3>1, <4>4, <4>5 DEF Elems
    <3> QED
      BY <3>2, <3>3
  <2> QED
    BY <1>2, <2>4, <2>5
<1>4. CASE reader[c] # "open"
  BY <1>1, <1>2, <1>4 DEF Write, StreamComplete, WireComplete
<1> QED
  BY <1>3, <1>4

\* A handler that returns, or starts at a position where nothing is missing,
\* owes nothing.
LEMMA FreshConn ==
  ASSUME IInv, TypeOK', NEW c \in Conns, rows' = rows, accepted' = accepted, wire' = wire,
         queue'[c] = <<>>, phase'[c] \in {"closed", "snapshot"},
         phase'[c] = "closed" => ~active'[c],
         \/ cursor'[c] = 0
         \/ cursor'[c] = eventCursor
  PROVE  ConnInv(c)'
<1>1. TypeOK /\ NoSilentGap /\ WireComplete(c)
  BY DEF IInv, ConnInv
<1>2. QueueOrdered(c)'
  BY DEF QueueOrdered
<1>3. QueueComplete(c)' /\ ReplayComplete(c)'
  BY DEF QueueComplete, ReplayComplete
<1>4. StreamComplete(c)'
  <2>1. \A r \in rows : r \in Nat /\ r >= 1
    BY <1>1, Numbers DEF TypeOK, Cursors
  <2>2. \A r \in rows : r <= cursor'[c] => r \in accepted
    BY <1>1, <2>1 DEF NoSilentGap
  <2> QED
    BY <2>2 DEF StreamComplete
<1>5. WireComplete(c)'
  BY <1>1 DEF WireComplete
<1> QED
  BY <1>2, <1>3, <1>4, <1>5 DEF ConnInv

\* enqueueLive: the record just committed is queued, is one replay covers, or
\* ends the stream.
LEMMA NotifyConn ==
  ASSUME IInv, TypeOK', NEW c \in Conns, Notify(c)
  PROVE  ConnInv(c)'
<1> USE DEF journalVars, pruneVars, pagingVars, backendVars
<1>1. TypeOK /\ ConnInv(c) /\ queue[c] \in Seq(Cursors) /\ Published \in Cursors
  <2>1. TypeOK /\ Bounded /\ publisher = "notifying"
    BY DEF IInv, Notify
  <2>2. Published \in Nat /\ Published >= 1 /\ Published <= MaxCursor
    <3>1. MaxCursor \in Nat /\ nextCursor \in 1..(MaxCursor + 1)
      BY <2>1, BoundsAssumption DEF TypeOK
    <3> QED
      BY <2>1, <3>1 DEF Published, Bounded
  <2> QED
    BY <2>1, <2>2, BoundsAssumption DEF IInv, TypeOK, Cursors
<1>2. /\ UNCHANGED <<rows, nextCursor, phase, boundary, cursor, searchCursor, page, wire, reader, accepted>>
      /\ Published' = Published /\ NotYetTold(c) /\ ~NotYetTold(c)'
  BY DEF Notify, NotYetTold, Published
<1>3. StreamComplete(c)' /\ WireComplete(c)' /\ ReplayComplete(c)'
  BY <1>1, <1>2 DEF ConnInv, StreamComplete, WireComplete, ReplayComplete, Elems
<1>4. CASE queue' = queue
  <2>1. QueueOrdered(c)'
    BY <1>1, <1>2, <1>4 DEF ConnInv, QueueOrdered
  <2>2. QueueComplete(c)'
    <3> SUFFICES ASSUME active'[c], phase[c] # "snapshot"
                 PROVE  \A r \in rows : r > boundary[c] /\ r > cursor[c] => r \in Elems(queue[c])
      BY <1>2, <1>4 DEF QueueComplete, Elems
    <3>1. active[c]
      BY <1>1 DEF Notify, AfterCleanup, TypeOK
    <3>2. phase[c] # "captured" /\ Published <= boundary[c]
      <4>1. ~(active[c] /\ ~(phase[c] \notin {"snapshot", "captured"} /\ Published <= boundary[c])
                 /\ Len(queue[c]) < QueueLimit)
        <5>1. Append(queue[c], Published) # queue[c]
          BY <1>1
        <5> QED
          BY <1>1, <1>4, <5>1 DEF Notify, TypeOK
      <4>2. ~(active[c] /\ ~(phase[c] \notin {"snapshot", "captured"} /\ Published <= boundary[c])
                 /\ Len(queue[c]) >= QueueLimit)
        BY <1>1 DEF Notify, AfterCleanup, TypeOK
      <4>3. Len(queue[c]) < QueueLimit \/ Len(queue[c]) >= QueueLimit
        BY <1>1, LimitsAssumption
      <4> QED
        BY <3>1, <4>1, <4>2, <4>3
    <3>3. \A r \in rows : r > boundary[c] => r # Published
      BY <1>1, <3>2, Numbers, ConnectionValues
    <3> QED
      BY <1>1, <3>1, <3>3 DEF ConnInv, QueueComplete
  <2> QED
    BY <1>3, <2>1, <2>2 DEF ConnInv
<1>5. CASE queue' # queue
  <2>1. queue'[c] = Append(queue[c], Published)
    BY <1>1, <1>5 DEF Notify, TypeOK
  <2>2. Elems(queue'[c]) = Elems(queue[c]) \cup {Published}
    BY <1>1, <2>1, ElemsAppend
  <2>3. QueueComplete(c)'
    <3>1. active'[c] => active[c]
      BY <1>1 DEF Notify, AfterCleanup, TypeOK
    <3> QED
      BY <1>1, <1>2, <2>2, <3>1 DEF ConnInv, QueueComplete
  <2>4. QueueOrdered(c)'
    <3>1. Len(queue'[c]) = Len(queue[c]) + 1 /\ Len(queue[c]) \in Nat
          /\ queue'[c][Len(queue[c]) + 1] = Published
          /\ \A i \in 1..Len(queue[c]) : queue'[c][i] = queue[c][i]
      BY <1>1, <2>1
    <3>2. \A i \in 1..Len(queue[c]) : queue[c][i] < Published /\ queue[c][i] <= Published
      BY <1>1, <1>2 DEF ConnInv, QueueOrdered
    <3>3. \A i \in 1..Len(queue'[c]) : i \in 1..Len(queue[c]) \/ i = Len(queue[c]) + 1
      BY <3>1
    <3>4. \A i, j \in 1..Len(queue'[c]) : i < j => queue'[c][i] < queue'[c][j]
      <4> SUFFICES ASSUME NEW i \in 1..Len(queue'[c]), NEW j \in 1..Len(queue'[c]), i < j
                   PROVE  queue'[c][i] < queue'[c][j]
        OBVIOUS
      <4>1. i \in 1..Len(queue[c])
        BY <3>1
      <4>2. CASE j \in 1..Len(queue[c])
        BY <1>1, <3>1, <4>1, <4>2 DEF ConnInv, QueueOrdered
      <4>3. CASE j = Len(queue[c]) + 1
        BY <3>1, <3>2, <4>1, <4>3
      <4> QED
        BY <3>3, <4>2, <4>3
    <3>5. Published <= Published
      BY <1>1, Numbers
    <3>6. \A i \in 1..Len(queue'[c]) : queue'[c][i] <= Published
      BY <3>1, <3>2, <3>3, <3>5
    <3> QED
      BY <1>2, <3>4, <3>6 DEF QueueOrdered
  <2> QED
    BY <1>3, <2>3, <2>4 DEF ConnInv
<1> QED
  BY <1>4, <1>5

\* The subscription: capturing the boundary empties the promise about the queue,
\* and what replay covers may leave the queue.
LEMMA SubscribeConn ==
  ASSUME IInv, TypeOK', NEW c \in Conns, CaptureBoundary(c) \/ Subscribed(c)
  PROVE  ConnInv(c)'
<1> USE DEF journalVars, publishVars, pruneVars, pagingVars, backendVars
<1>1. TypeOK /\ ConnInv(c) /\ queue[c] \in Seq(Cursors) /\ Len(queue[c]) \in Nat
  BY ConnectionValues DEF IInv
<1>2. /\ UNCHANGED <<rows, nextCursor, active, cursor, page, wire, reader, accepted, listeners,
                     publisher, notified>>
      /\ Published' = Published /\ (NotYetTold(c)' <=> NotYetTold(c))
  BY DEF CaptureBoundary, Subscribed, NotYetTold, Published
<1>3. StreamComplete(c)' /\ WireComplete(c)'
  BY <1>1, <1>2 DEF ConnInv, StreamComplete, WireComplete, Elems
<1>4. CASE CaptureBoundary(c)
  <2>1. QueueOrdered(c)'
    BY <1>1, <1>2, <1>4 DEF CaptureBoundary, ConnInv, QueueOrdered
  <2>2. ReplayComplete(c)'
    BY <1>1, <1>4 DEF CaptureBoundary, ReplayComplete, TypeOK
  <2>3. QueueComplete(c)'
    <3>1. PICK m \in Positions : IsNewest(m, rows) /\ boundary' = [boundary EXCEPT ![c] = m]
      BY <1>4 DEF CaptureBoundary
    <3>2. boundary'[c] = m /\ \A r \in rows : r <= m
      BY <1>1, <3>1 DEF IsNewest, TypeOK
    <3>3. rows \subseteq Nat /\ m \in Nat
      BY <1>1, Numbers DEF TypeOK
    <3>4. \A r \in rows : ~(r > m)
      BY <3>2, <3>3
    <3> QED
      BY <1>2, <3>2, <3>4 DEF QueueComplete
  <2> QED
    BY <1>3, <2>1, <2>2, <2>3 DEF ConnInv
<1>5. CASE Subscribed(c)
  <2>1. PICK n \in 0..Len(queue[c]) :
          /\ \A i \in 1..Len(queue[c]) : i <= n <=> queue[c][i] <= boundary[c]
          /\ queue' = [queue EXCEPT ![c] = SubSeq(@, n + 1, Len(@))]
    BY <1>5 DEF Subscribed
  <2>2. /\ queue'[c] = SubSeq(queue[c], n + 1, Len(queue[c])) /\ boundary' = boundary
        /\ phase[c] = "captured" /\ phase'[c] = "probe" /\ searchCursor'[c] = cursor[c]
    BY <1>1, <1>5, <2>1 DEF Subscribed, TypeOK
  <2>3. /\ Len(queue'[c]) = Len(queue[c]) - n /\ Len(queue'[c]) \in Nat
        /\ \A i \in 1..Len(queue'[c]) : i + n \in 1..Len(queue[c]) /\ queue'[c][i] = queue[c][i + n]
    BY <1>1, <2>1, <2>2, DropFirst
  <2>4. QueueOrdered(c)'
    <3>1. \A i, j \in 1..Len(queue'[c]) : i < j => i + n < j + n
      BY <1>1, <2>1, <2>3
    <3>2. \A i, j \in 1..Len(queue'[c]) : i < j => queue'[c][i] < queue'[c][j]
      BY <1>1, <2>3, <3>1 DEF ConnInv, QueueOrdered
    <3> QED
      BY <1>1, <1>2, <2>3, <3>2 DEF ConnInv, QueueOrdered
  <2>5. QueueComplete(c)'
    <3>1. ASSUME NEW r \in Elems(queue[c]), r > boundary[c] PROVE r \in Elems(queue'[c])
      <4>1. PICK i \in 1..Len(queue[c]) : queue[c][i] = r
        BY DEF Elems
      <4>2. r \in Nat /\ boundary[c] \in Nat
        <5>1. r \in Cursors
          BY <1>1, <4>1
        <5> QED
          BY <1>1, <5>1, Numbers, ConnectionValues
      <4>3. i > n
        BY <2>1, <3>1, <4>1, <4>2
      <4>4. i - n \in 1..Len(queue'[c]) /\ (i - n) + n = i
        BY <1>1, <2>1, <2>3, <4>3
      <4>5. queue'[c][i - n] = r
        BY <2>3, <4>1, <4>4
      <4> QED
        BY <4>4, <4>5 DEF Elems
    <3> QED
      BY <1>1, <1>2, <2>2, <3>1 DEF ConnInv, QueueComplete
  <2>6. ReplayComplete(c)'
    BY <1>2, <2>2 DEF ReplayComplete
  <2> QED
    BY <1>3, <2>4, <2>5, <2>6 DEF ConnInv
<1> QED
  BY <1>4, <1>5

\* replayPageThrough: a search moves past probed cursors only, and ends only when
\* the journal has nothing left up to the boundary.
LEMMA PagingConn ==
  ASSUME IInv, TypeOK', NEW c \in Conns, ProbePage(c) \/ ReadPage(c) \/ FinishPage(c)
  PROVE  ConnInv(c)'
<1> USE DEF journalVars, publishVars, pruneVars, pagingVars, backendVars
<1>1. TypeOK /\ ConnInv(c)
  BY DEF IInv
<1>2. /\ UNCHANGED <<rows, nextCursor, active, boundary, queue, cursor, wire, reader, accepted,
                     listeners, publisher, notified>>
      /\ Published' = Published /\ (NotYetTold(c)' <=> NotYetTold(c))
  BY DEF ProbePage, ReadPage, FinishPage, NotYetTold, Published
<1>n. /\ rows \subseteq Nat /\ boundary[c] \in Nat /\ cursor[c] \in Nat /\ searchCursor[c] \in Nat
      /\ pageEnd[c] \in Nat
  BY <1>1, Numbers, ConnectionValues DEF TypeOK
<1>3. StreamComplete(c)' /\ WireComplete(c)' /\ QueueOrdered(c)'
  BY <1>1, <1>2 DEF ConnInv, StreamComplete, WireComplete, QueueOrdered, Elems
<1>4. QueueComplete(c)'
  <2>1. phase[c] # "snapshot"
    BY DEF ProbePage, ReadPage, FinishPage
  <2> QED
    BY <1>1, <1>2, <2>1 DEF ConnInv, QueueComplete, Elems
<1>5. CASE ProbePage(c)
  <2>1. CASE RowsBetween(searchCursor[c], boundary[c]) = {}
    <3>1. phase'[c] = "live" /\ phase[c] = "probe"
      BY <1>1, <1>5, <2>1 DEF ProbePage, TypeOK
    <3>2. \A r \in rows : searchCursor[c] < r => boundary[c] < r
      BY <1>n, <2>1 DEF RowsBetween
    <3>3. \A r \in rows : cursor[c] < r => boundary[c] < r
      BY <1>1, <3>1, <3>2 DEF ConnInv, ReplayComplete
    <3> QED
      BY <1>2, <1>3, <1>4, <3>1, <3>3 DEF ConnInv, ReplayComplete
  <2>2. CASE RowsBetween(searchCursor[c], boundary[c]) # {}
    <3>1. phase'[c] = "read" /\ phase[c] = "probe" /\ searchCursor' = searchCursor
      BY <1>1, <1>5, <2>2 DEF ProbePage, TypeOK
    <3> QED
      BY <1>1, <1>2, <1>3, <1>4, <3>1 DEF ConnInv, ReplayComplete
  <2> QED
    BY <2>1, <2>2
<1>6. CASE ReadPage(c)
  <2>1. CASE RowsBetween(searchCursor[c], pageEnd[c]) = {}
    <3>1. phase'[c] = "probe" /\ phase[c] = "read" /\ searchCursor'[c] = pageEnd[c]
      BY <1>1, <1>6, <2>1 DEF ReadPage, TypeOK
    <3>2. \A r \in rows : searchCursor[c] < r => pageEnd[c] < r
      BY <1>n, <2>1 DEF RowsBetween
    <3> QED
      BY <1>1, <1>2, <1>3, <1>4, <3>1, <3>2 DEF ConnInv, ReplayComplete
  <2>2. CASE RowsBetween(searchCursor[c], pageEnd[c]) # {}
    <3>1. phase'[c] = "page" /\ phase[c] = "read"
      BY <1>1, <1>6, <2>2 DEF ReadPage, TypeOK
    <3>2. page'[c] = RowsBetween(searchCursor[c], pageEnd[c])
      <4> DEFINE found == RowsBetween(searchCursor[c], pageEnd[c])
      <4>1. page' = [page EXCEPT ![c] = found]
        BY <1>6, <2>2 DEF ReadPage
      <4> HIDE DEF found
      <4>2. page'[c] = found
        BY <1>1, <4>1 DEF TypeOK
      <4> QED
        BY <4>2 DEF found
    <3>3. ASSUME NEW r \in rows, NEW k \in page'[c], cursor[c] < r, r < k PROVE r \in page'[c]
      <4>1. k \in rows /\ k <= pageEnd[c]
        BY <3>2 DEF RowsBetween
      <4>2. searchCursor[c] < r
        BY <1>1, <3>1, <3>3 DEF ConnInv, ReplayComplete
      <4>3. r <= pageEnd[c]
        BY <1>n, <3>3, <4>1
      <4> QED
        BY <3>2, <4>2, <4>3 DEF RowsBetween
    <3> QED
      BY <1>2, <1>3, <1>4, <3>1, <3>3 DEF ConnInv, ReplayComplete
  <2> QED
    BY <2>1, <2>2
<1>7. CASE FinishPage(c)
  <2>1. phase'[c] = "probe" /\ searchCursor'[c] = cursor[c]
    BY <1>1, <1>7 DEF FinishPage, TypeOK
  <2> QED
    BY <1>2, <1>3, <1>4, <2>1 DEF ConnInv, ReplayComplete
<1> QED
  BY <1>5, <1>6, <1>7

\* Replay writes the oldest record of the page: nothing the journal holds lies
\* between the cursor and it.
LEMMA WriteReplayConn ==
  ASSUME IInv, TypeOK', NEW c \in Conns, WriteReplay(c)
  PROVE  ConnInv(c)'
<1> USE DEF journalVars, publishVars, pruneVars, backendVars
<1>1. TypeOK /\ ConnInv(c) /\ rows \subseteq Nat /\ cursor[c] \in Nat /\ page[c] \subseteq Cursors
      /\ Cursors \subseteq Nat /\ boundary[c] \in Nat
  BY Numbers, ConnectionValues DEF IInv, TypeOK
<1>2. /\ UNCHANGED <<rows, nextCursor, active, boundary, queue, phase, reader, accepted, listeners,
                     publisher, notified, searchCursor>>
      /\ Published' = Published /\ (NotYetTold(c)' <=> NotYetTold(c)) /\ phase[c] = "page"
  BY DEF WriteReplay, NotYetTold, Published
<1>3. PICK k \in page[c] :
        /\ \A other \in page[c] : k <= other
        /\ page' = [page EXCEPT ![c] = @ \ {k}]
        /\ IF k <= cursor[c] THEN UNCHANGED <<wire, cursor>> ELSE Write(c, k)
  BY DEF WriteReplay
<1>4. page'[c] = page[c] \ {k} /\ k \in Nat /\ k \in Cursors
  BY <1>1, <1>3 DEF TypeOK
<1>5. QueueOrdered(c)'
  BY <1>1, <1>2 DEF ConnInv, QueueOrdered
<1>6. CASE k <= cursor[c]
  <2>1. wire' = wire /\ cursor' = cursor
    BY <1>3, <1>6
  <2>2. StreamComplete(c)' /\ WireComplete(c)' /\ QueueComplete(c)'
    BY <1>1, <1>2, <2>1 DEF ConnInv, StreamComplete, WireComplete, QueueComplete, Elems
  <2>3. \A r \in rows : cursor[c] < r => r # k
    BY <1>1, <1>4, <1>6
  <2>4. ReplayComplete(c)'
    BY <1>1, <1>2, <1>4, <2>1, <2>3 DEF ConnInv, ReplayComplete
  <2> QED
    BY <1>5, <2>2, <2>4 DEF ConnInv
<1>7. CASE ~(k <= cursor[c])
  <2>1. Write(c, k) /\ k > cursor[c]
    BY <1>1, <1>3, <1>4, <1>7
  <2>2. ASSUME NEW r \in rows, cursor[c] < r, r <= k PROVE r = k
    <3>1. CASE r < k
      <4>1. r \in page[c]
        BY <1>1, <1>2, <2>2, <3>1 DEF ConnInv, ReplayComplete
      <4> QED
        BY <1>1, <1>3, <1>4, <3>1, <4>1
    <3>2. CASE ~(r < k)
      BY <1>1, <1>4, <2>2, <3>2
    <3> QED
      BY <3>1, <3>2
  <2>3. StreamComplete(c)' /\ WireComplete(c)' /\ cursor'[c] = k
    BY <1>2, <1>4, <2>1, <2>2, WriteConn
  <2>4. \A r \in rows : k < r => cursor[c] < r /\ r # k
    BY <1>1, <1>4, <2>1
  <2>5. ReplayComplete(c)'
    BY <1>1, <1>2, <1>4, <2>3, <2>4 DEF ConnInv, ReplayComplete
  <2>6. \A r \in rows : r > k => r > cursor[c]
    BY <1>1, <1>4, <2>1
  <2>7. QueueComplete(c)'
    BY <1>1, <1>2, <2>3, <2>6 DEF ConnInv, QueueComplete, Elems
  <2> QED
    BY <1>5, <2>3, <2>5, <2>7 DEF ConnInv
<1> QED
  BY <1>6, <1>7

\* A queue stays in order, and above any bound it keeps what it held, without
\* its first element.
LEMMA ShiftQueue ==
  ASSUME TypeOK, NEW c \in Conns, QueueOrdered(c), queue[c] # <<>>,
         queue'[c] = Tail(queue[c]), Published' = Published,
         NotYetTold(c)' <=> NotYetTold(c)
  PROVE  /\ QueueOrdered(c)'
         /\ Elems(queue[c]) = {Head(queue[c])} \cup Elems(queue'[c])
         /\ \A r \in Elems(queue[c]) : r \in Nat /\ Head(queue[c]) <= r
         /\ Head(queue[c]) \in Cursors /\ Head(queue[c]) <= Published
         /\ NotYetTold(c) => Head(queue[c]) < Published
<1>1. queue[c] \in Seq(Cursors) /\ Cursors \subseteq Nat
  BY ConnectionValues, Numbers
<1>2. /\ Elems(queue[c]) = {Head(queue[c])} \cup Elems(queue'[c])
      /\ Len(queue'[c]) = Len(queue[c]) - 1 /\ Head(queue[c]) = queue[c][1] /\ Head(queue[c]) \in Cursors
      /\ \A i \in 1..Len(queue'[c]) : i + 1 \in 1..Len(queue[c]) /\ queue'[c][i] = queue[c][i + 1]
  BY <1>1, ElemsTail
<1>3. Len(queue[c]) \in Nat /\ 1 \in 1..Len(queue[c])
  BY <1>1
<1>4. \A i, j \in 1..Len(queue'[c]) : i < j => queue'[c][i] < queue'[c][j]
  <2>1. \A i, j \in 1..Len(queue'[c]) : i < j => i + 1 < j + 1
    BY <1>2, <1>3
  <2> QED
    BY <1>2, <2>1 DEF QueueOrdered
<1>5. QueueOrdered(c)'
  BY <1>2, <1>4 DEF QueueOrdered
<1>6. ASSUME NEW r \in Elems(queue[c]) PROVE r \in Nat /\ Head(queue[c]) <= r
  <2>1. PICK i \in 1..Len(queue[c]) : queue[c][i] = r
    BY DEF Elems
  <2>2. r \in Cursors
    BY <1>1, <2>1
  <2>3. CASE i = 1
    BY <1>1, <1>2, <2>1, <2>2, <2>3
  <2>4. CASE i # 1
    <3>1. 1 < i
      BY <1>3, <2>4
    <3>2. Head(queue[c]) < r
      BY <1>2, <1>3, <2>1, <3>1 DEF QueueOrdered
    <3>3. Head(queue[c]) \in Nat /\ r \in Nat
      BY <1>1, <1>2, <2>2
    <3> QED
      BY <3>2, <3>3
  <2> QED
    BY <2>3, <2>4
<1>7. Head(queue[c]) <= Published /\ (NotYetTold(c) => Head(queue[c]) < Published)
  BY <1>2, <1>3 DEF QueueOrdered
<1> QED
  BY <1>2, <1>5, <1>6, <1>7

\* The live loop: beyond the boundary the queue holds everything, in order.
LEMMA WriteLiveConn ==
  ASSUME IInv, TypeOK', NEW c \in Conns, WriteLive(c) \/ WriteAfterClose(c)
  PROVE  ConnInv(c)'
<1> USE DEF journalVars, publishVars, pruneVars, pagingVars, backendVars
<1> DEFINE k == Head(queue[c])
<1>1. /\ TypeOK /\ ConnInv(c) /\ rows \subseteq Nat /\ cursor[c] \in Nat /\ Cursors \subseteq Nat
      /\ boundary[c] \in Nat /\ Published \in Nat
  BY Numbers, ConnectionValues DEF IInv, TypeOK
<1>2. /\ UNCHANGED <<rows, nextCursor, active, boundary, reader, accepted, listeners,
                     publisher, notified>>
      /\ Published' = Published /\ (NotYetTold(c)' <=> NotYetTold(c)) /\ phase[c] = "live"
      /\ queue[c] # <<>> /\ queue'[c] = Tail(queue[c])
  BY <1>1 DEF WriteLive, WriteAfterClose, NotYetTold, Published, TypeOK
<1>3. /\ QueueOrdered(c)' /\ Elems(queue[c]) = {k} \cup Elems(queue'[c])
      /\ \A r \in Elems(queue[c]) : r \in Nat /\ k <= r
      /\ k \in Cursors /\ k \in Nat /\ k <= Published /\ (NotYetTold(c) => k < Published)
  BY <1>1, <1>2, ShiftQueue DEF ConnInv
<1> HIDE DEF k
<1>4. CASE WriteAfterClose(c)
  <2>1. /\ ~active[c] /\ wire' = wire /\ cursor' = cursor /\ phase'[c] \in {"live", "hung"}
    BY <1>1, <1>4 DEF WriteAfterClose, TypeOK
  <2>2. StreamComplete(c)' /\ WireComplete(c)' /\ QueueComplete(c)' /\ ReplayComplete(c)'
    BY <1>1, <1>2, <2>1
       DEF ConnInv, StreamComplete, WireComplete, QueueComplete, ReplayComplete, Elems
  <2> QED
    BY <1>3, <2>2 DEF ConnInv
<1>5. CASE WriteLive(c) /\ k <= cursor[c]
  <2>1. wire' = wire /\ cursor' = cursor /\ phase' = phase
    BY <1>5 DEF WriteLive, k
  <2>2. StreamComplete(c)' /\ WireComplete(c)' /\ ReplayComplete(c)'
    BY <1>1, <1>2, <2>1 DEF ConnInv, StreamComplete, WireComplete, ReplayComplete, Elems
  <2>3. \A r \in rows : r > cursor[c] => r # k
    BY <1>1, <1>3, <1>5
  <2>4. QueueComplete(c)'
    BY <1>1, <1>2, <1>3, <2>1, <2>3 DEF ConnInv, QueueComplete
  <2> QED
    BY <1>3, <2>2, <2>4 DEF ConnInv
<1>6. CASE WriteLive(c) /\ ~(k <= cursor[c])
  <2>1. Write(c, k) /\ k > cursor[c] /\ phase' = phase /\ active[c]
    BY <1>1, <1>3, <1>6 DEF WriteLive, k
  <2>2. ASSUME NEW r \in rows, cursor[c] < r, r <= k PROVE r = k
    <3>1. boundary[c] < r
      BY <1>1, <1>2, <2>2 DEF ConnInv, ReplayComplete
    <3>2. r > boundary[c] /\ r > cursor[c]
      BY <1>1, <2>2, <3>1
    <3>3. r \in Elems(queue[c]) \/ (NotYetTold(c) /\ r = Published)
      BY <1>1, <1>2, <2>1, <3>2 DEF ConnInv, QueueComplete
    <3> QED
      BY <1>1, <1>3, <2>2, <3>3
  <2>3. StreamComplete(c)' /\ WireComplete(c)' /\ cursor'[c] = k
    BY <1>2, <1>3, <2>1, <2>2, WriteConn
  <2>n. rows \subseteq Nat /\ k \in Nat /\ cursor[c] \in Nat /\ k > cursor[c]
    BY <1>1, <1>3, <2>1
  <2>4. \A r \in rows : k < r => cursor[c] < r /\ r # k
    BY <2>n
  <2>5. ReplayComplete(c)'
    BY <1>1, <1>2, <2>1, <2>3, <2>4 DEF ConnInv, ReplayComplete
  <2>6. \A r \in rows : r > k => r > cursor[c] /\ r # k
    BY <2>n
  <2>7. QueueComplete(c)'
    BY <1>1, <1>2, <1>3, <2>1, <2>3, <2>6 DEF ConnInv, QueueComplete
  <2> QED
    BY <1>3, <2>3, <2>5, <2>7 DEF ConnInv
<1> QED
  BY <1>4, <1>5, <1>6

\* The backend's end: what it takes from the wire it accepts, what it loses was
\* not acknowledged.
LEMMA ReaderConn ==
  ASSUME IInv, TypeOK', NEW c \in Conns, Accept(c) \/ BreakStream(c) \/ DropReader(c)
  PROVE  ConnInv(c)'
<1> USE DEF journalVars, publishVars, pruneVars, pagingVars
<1>1. TypeOK /\ ConnInv(c) /\ wire[c] \in Seq(Cursors) /\ Len(wire[c]) \in Nat
  BY ConnectionValues DEF IInv
<1>2. /\ UNCHANGED <<rows, nextCursor, active, boundary, queue, cursor, searchCursor, page, phase,
                     listeners, publisher, notified>>
      /\ Published' = Published /\ (NotYetTold(c)' <=> NotYetTold(c))
  BY DEF Accept, BreakStream, DropReader, NotYetTold, Published
<1>3. QueueOrdered(c)' /\ QueueComplete(c)' /\ ReplayComplete(c)'
  BY <1>1, <1>2 DEF ConnInv, QueueOrdered, QueueComplete, ReplayComplete, Elems
<1>4. CASE Accept(c)
  <2> DEFINE k == Head(wire[c])
  <2>1. /\ wire[c] # <<>> /\ wire'[c] = Tail(wire[c]) /\ accepted' = accepted \cup {k}
        /\ reader' = reader
    BY <1>1, <1>4 DEF Accept, TypeOK
  <2>2. /\ Elems(wire[c]) = {k} \cup Elems(wire'[c])
        /\ Len(wire'[c]) = Len(wire[c]) - 1 /\ k = wire[c][1]
        /\ \A i \in 1..Len(wire'[c]) : i + 1 \in 1..Len(wire[c]) /\ wire'[c][i] = wire[c][i + 1]
    BY <1>1, <2>1, ElemsTail
  <2> HIDE DEF k
  <2>3. StreamComplete(c)'
    BY <1>1, <1>2, <2>1, <2>2 DEF ConnInv, StreamComplete
  <2>4. WireComplete(c)'
    <3> SUFFICES ASSUME NEW i \in 1..Len(wire'[c]), NEW r \in rows, r < wire'[c][i],
                        r \notin accepted, r # k
                 PROVE  \E j \in 1..(i - 1) : wire'[c][j] = r
      BY <1>2, <2>1 DEF WireComplete
    <3>1. i + 1 \in 1..Len(wire[c]) /\ r < wire[c][i + 1]
      BY <2>2
    <3>2. PICK j \in 1..((i + 1) - 1) : wire[c][j] = r
      BY <1>1, <3>1 DEF ConnInv, WireComplete
    <3>3. j # 1
      BY <2>2, <3>2
    <3>4. j - 1 \in 1..(i - 1) /\ j - 1 \in 1..Len(wire'[c]) /\ (j - 1) + 1 = j
      <4>1. \A m \in Nat : \A a \in 1..m : \A b \in 1..((a + 1) - 1) :
              b # 1 => b - 1 \in 1..(a - 1) /\ b - 1 \in 1..m /\ (b - 1) + 1 = b
        OBVIOUS
      <4>2. \A m \in Nat : m # 0 => m - 1 \in Nat
        OBVIOUS
      <4>3. Len(wire'[c]) \in Nat
        BY <1>1, <2>1, <2>2, <4>2
      <4> QED
        BY <3>2, <3>3, <4>1, <4>3
    <3>5. wire'[c][j - 1] = r
      BY <2>2, <3>2, <3>4
    <3> QED
      BY <3>4, <3>5
  <2> QED
    BY <1>3, <2>3, <2>4 DEF ConnInv
<1>5. CASE BreakStream(c)
  <2>1. PICK kept \in 0..Len(wire[c]) : wire'[c] = SubSeq(wire[c], 1, kept)
    BY <1>1, <1>5 DEF BreakStream, TypeOK
  <2>2. accepted' = accepted /\ reader'[c] = "broken"
    BY <1>1, <1>5 DEF BreakStream, TypeOK
  <2>3. \A i \in 1..Len(wire'[c]) :
          i \in 1..Len(wire[c]) /\ wire'[c][i] = wire[c][i] /\ 1..(i - 1) \subseteq 1..Len(wire'[c])
    BY <1>1, <2>1
  <2>4. WireComplete(c)'
    BY <1>1, <1>2, <2>2, <2>3 DEF ConnInv, WireComplete
  <2> QED
    BY <1>3, <2>2, <2>4 DEF ConnInv, StreamComplete
<1>6. CASE DropReader(c)
  <2>1. accepted' = accepted /\ reader'[c] = "none" /\ wire' = wire
    BY <1>1, <1>6 DEF DropReader, TypeOK
  <2> QED
    BY <1>1, <1>2, <1>3, <2>1 DEF ConnInv, StreamComplete, WireComplete
<1> QED
  BY <1>4, <1>5, <1>6

\* cleanup: an inactive stream owes its queue nothing.
LEMMA NoticeCloseConn ==
  ASSUME IInv, TypeOK', NEW c \in Conns, NoticeClose(c)
  PROVE  ConnInv(c)'
<1> USE DEF journalVars, publishVars, pruneVars, pagingVars, backendVars
<1>1. TypeOK /\ ConnInv(c)
  BY DEF IInv
<1>2. /\ UNCHANGED <<rows, nextCursor, boundary, queue, cursor, searchCursor, page, phase, wire,
                     reader, accepted>>
      /\ Published' = Published /\ (NotYetTold(c)' => NotYetTold(c)) /\ ~active'[c]
  BY <1>1 DEF NoticeClose, AfterCleanup, NotYetTold, Published, TypeOK
<1> QED
  BY <1>1, <1>2
     DEF ConnInv, QueueOrdered, QueueComplete, ReplayComplete, StreamComplete, WireComplete, Elems

\* The steps that start a stream or end a handler.
LEMMA FreshSteps ==
  ASSUME IInv, TypeOK', NEW c \in Conns,
         OpenStream(c) \/ SnapshotFails(c) \/ SubscribedTooLate(c) \/ LeaveInactive(c)
  PROVE  ConnInv(c)'
<1> USE DEF journalVars, publishVars, pruneVars, backendVars
<1>1. TypeOK
  BY DEF IInv
<1>2. CASE OpenStream(c)
  <2>1. /\ rows' = rows /\ accepted' = accepted /\ wire' = wire
        /\ queue'[c] = <<>> /\ phase'[c] = "snapshot" /\ cursor'[c] = eventCursor
    BY <1>1, <1>2 DEF OpenStream, ResetHandler, TypeOK
  <2> QED
    BY <2>1, FreshConn
<1>3. CASE SnapshotFails(c) \/ SubscribedTooLate(c) \/ LeaveInactive(c)
  <2>1. /\ rows' = rows /\ accepted' = accepted /\ wire' = wire
        /\ queue'[c] = <<>> /\ phase'[c] = "closed" /\ cursor'[c] = 0 /\ ~active'[c]
    BY <1>1, <1>3 DEF SnapshotFails, SubscribedTooLate, LeaveInactive, Close, ResetHandler, TypeOK
  <2> QED
    BY <2>1, FreshConn
<1> QED
  BY <1>2, <1>3

\* Every step keeps every connection's invariant.
LEMMA ConnStep ==
  ASSUME IInv, [Next]_vars, NEW d \in Conns
  PROVE  ConnInv(d)'
<1>a. TypeOK /\ TypeOK' /\ ListenerLifecycle /\ ConnInv(d)
  BY TypeStep DEF IInv
<1>1. CASE JournalStep
  <2>1. CASE Commit
    BY <1>a, <2>1, CommitConn
  <2>2. CASE ~Commit
    <3>1. /\ Untouched(d) /\ listeners' = listeners /\ accepted' = accepted
          /\ rows' \subseteq rows /\ nextCursor' = nextCursor
      BY <1>1, <2>2, JournalEffect
    <3>2. NotYetTold(d)' <=> NotYetTold(d)
      <4>1. CASE FinishPublish
        BY <4>1 DEF FinishPublish, NotYetTold
      <4>2. CASE ~FinishPublish
        <5>1. publisher' = publisher /\ notified' = notified
          BY <1>1, <2>2, <4>2
             DEF JournalStep, PruneStep, PruneProbe, PruneDelete, PruneFails, PurgeThread, publishVars
        <5> QED
          BY <3>1, <5>1 DEF NotYetTold
      <4> QED
        BY <4>1, <4>2
    <3>3. Published' = Published
      BY <3>1 DEF Published
    <3> QED
      BY <1>a, <3>1, <3>2, <3>3, UntouchedConn
  <2> QED
    BY <2>1, <2>2
<1>2. ASSUME NEW c \in Conns, ConnectionStep(c) PROVE ConnInv(d)'
  <2>1. /\ UNCHANGED <<rows, nextCursor, publisher>> /\ accepted \subseteq accepted'
        /\ d # c => Untouched(d) /\ (d \in notified' <=> d \in notified)
    BY <1>2, <1>a, ConnectionEffect
  <2>2. CASE d # c
    <3>1. Published' = Published /\ (NotYetTold(d)' <=> NotYetTold(d))
      BY <2>1, <2>2 DEF Published, NotYetTold, Untouched
    <3> QED
      BY <1>a, <2>1, <2>2, <3>1, UntouchedConn
  <2>3. ConnInv(c)'
    BY <1>2, <1>a, NotifyConn, SubscribeConn, PagingConn, WriteReplayConn, WriteLiveConn, ReaderConn,
       NoticeCloseConn, FreshSteps
       DEF ConnectionStep, HandlerStep, ReaderStep, ConnectionLost
  <2> QED
    BY <2>2, <2>3
<1>3. CASE DaemonCrash
  <2>1. /\ rows' = rows /\ accepted' = accepted /\ wire' = wire
        /\ queue'[d] = <<>> /\ phase'[d] = "closed" /\ cursor'[d] = 0 /\ ~active'[d]
    BY <1>3 DEF DaemonCrash, journalVars, backendVars
  <2> QED
    BY <1>a, <2>1, FreshConn
<1>4. CASE UNCHANGED vars
  BY <1>4, <1>a, UntouchedConn DEF vars, Untouched, Published, NotYetTold
<1> QED
  BY <1>1, <1>2, <1>3, <1>4, NextSplit

-----------------------------------------------------------------------------
(* The invariant, and what follows *)

\* The cursor moves only by accepting: whatever the journal holds below the
\* record accepted went ahead of it.
LEMMA GapStep == IInv /\ [Next]_vars => NoSilentGap'
<1> SUFFICES ASSUME IInv, [Next]_vars PROVE NoSilentGap'
  OBVIOUS
<1>a. TypeOK /\ NoSilentGap /\ Bounded /\ eventCursor \in Nat /\ rows \subseteq Nat
      /\ Published \in Nat
  BY Numbers DEF IInv, TypeOK
<1>b. ASSUME rows' \subseteq rows, UNCHANGED <<eventCursor, accepted>> PROVE NoSilentGap'
  BY <1>a, <1>b DEF NoSilentGap
<1>1. CASE JournalStep
  <2>1. CASE Commit
    <3>1. rows' = rows \cup {nextCursor} /\ UNCHANGED <<eventCursor, accepted>>
      BY <2>1 DEF Commit, backendVars
    <3>2. ~(nextCursor <= eventCursor)
      <4>1. nextCursor = Published + 1 /\ eventCursor <= Published
        BY <1>a, Numbers DEF Bounded
      <4> QED
        BY <1>a, <4>1
    <3> QED
      BY <1>a, <3>1, <3>2 DEF NoSilentGap
  <2>2. CASE ~Commit
    BY <1>1, <1>b, <2>2, JournalEffect
  <2> QED
    BY <2>1, <2>2
<1>2. ASSUME NEW c \in Conns, ConnectionStep(c) PROVE NoSilentGap'
  <2>1. rows' = rows /\ (Accept(c) \/ UNCHANGED <<eventCursor, accepted>>)
    BY <1>2, <1>a, ConnectionEffect
  <2>2. CASE Accept(c)
    <3> DEFINE k == Head(wire[c])
    <3>1. wire[c] # <<>> /\ wire[c] \in Seq(Cursors) /\ Cursors \subseteq Nat
      BY <1>a, <2>2, ConnectionValues, Numbers DEF Accept
    <3>2. k = wire[c][1] /\ 1 \in 1..Len(wire[c]) /\ k \in Cursors /\ 1..(1 - 1) = {}
      BY <3>1
    <3>3. accepted' = accepted \cup {k} /\ eventCursor' = IF k > eventCursor THEN k ELSE eventCursor
      BY <2>2 DEF Accept
    <3> HIDE DEF k
    <3>4. WireComplete(c)
      BY DEF IInv, ConnInv
    <3>5. \A r \in rows : r < k => r \in accepted
      BY <3>2, <3>4 DEF WireComplete
    <3>6. k \in Nat
      BY <3>1, <3>2
    <3>7. ASSUME NEW r \in rows, r <= eventCursor' PROVE r \in accepted'
      <4>1. CASE r <= eventCursor
        BY <1>a, <3>3, <4>1 DEF NoSilentGap
      <4>2. CASE ~(r <= eventCursor)
        <5>1. eventCursor' = k
          BY <3>3, <3>7, <4>2
        <5>2. r <= k
          BY <3>7, <5>1
        <5>3. r < k \/ r = k
          BY <1>a, <3>6, <5>2
        <5> QED
          BY <3>3, <3>5, <5>3
      <4> QED
        BY <4>1, <4>2
    <3> QED
      BY <2>1, <3>7 DEF NoSilentGap
  <2> QED
    BY <1>b, <2>1, <2>2
<1>3. CASE DaemonCrash
  BY <1>3, <1>b DEF DaemonCrash, journalVars, backendVars
<1>4. CASE UNCHANGED vars
  BY <1>4, <1>b DEF vars
<1> QED
  BY <1>1, <1>2, <1>3, <1>4, NextSplit

\* The initial state satisfies the invariant.
LEMMA InitIInv == Init => IInv
<1> SUFFICES ASSUME Init PROVE IInv
  OBVIOUS
<1>1. 0 \in Positions /\ <<>> \in Seq(Cursors) /\ QueueLimit \in Nat /\ WireCapacity \in Nat
      /\ 0 \in 0..(PruneInterval - 1) /\ 0 \in 0..MaxFaults /\ 1 \in 1..(MaxCursor + 1) /\ Len(<<>>) = 0
  BY LimitsAssumption, BoundsAssumption DEF Positions
<1>2. TypeOK
  BY <1>1 DEF Init, TypeOK, Phases
<1>3. Published = 0
  BY DEF Init, Published
<1>4. Bounded
  BY <1>1, <1>3 DEF Init, Bounded, PositionsBounded
<1>5. ListenerLifecycle /\ NoSilentGap
  BY DEF Init, ListenerLifecycle, NoSilentGap
<1>6. ASSUME NEW c \in Conns PROVE ConnInv(c)
  BY <1>1 DEF Init, ConnInv, QueueOrdered, QueueComplete, ReplayComplete, StreamComplete, WireComplete
<1> QED
  BY <1>2, <1>4, <1>5, <1>6 DEF IInv

\* Nothing the stream handler, the journal, the backend or the network does
\* breaks the invariant (ProviderDaemonServer.ts:1220, EventJournal.ts:530).
THEOREM StreamInvariance == Spec => []IInv
<1>1. IInv /\ [Next]_vars => IInv'
  <2> SUFFICES ASSUME IInv, [Next]_vars PROVE IInv'
    OBVIOUS
  <2>1. \A c \in Conns : ConnInv(c)'
    BY ConnStep
  <2> QED
    BY <2>1, TypeStep, BoundedStep, LifecycleStep, GapStep DEF IInv
<1> QED
  BY InitIInv, <1>1, PTL DEF Spec

\* The type invariant; in particular no queue outgrows its limit.
THEOREM TypeCorrect == Spec => []TypeOK
<1>1. IInv => TypeOK
  BY DEF IInv
<1> QED
  BY StreamInvariance, <1>1, PTL

\* Whatever the interleaving of publication, retention, purge, replay, overflow,
\* reconnects and crashes, the backend's cursor never jumps over a record the
\* journal still holds (RemoteProviderService.ts:967).
THEOREM CursorSkipsNothing == Spec => []NoSilentGap
<1>1. IInv => NoSilentGap
  BY DEF IInv
<1> QED
  BY StreamInvariance, <1>1, PTL

\* A handler that returned, or hangs on a dead response, left no callback in the
\* journal's listener set (ProviderDaemonServer.ts:1338).
THEOREM ListenersAreReleased == Spec => []NoDormantListener
<1>1. IInv => NoDormantListener
  BY DEF IInv, TypeOK, ListenerLifecycle, NoDormantListener, HoldsDisposer
<1> QED
  BY StreamInvariance, <1>1, PTL

-----------------------------------------------------------------------------
(* The hand-off implements the ordered feed *)

\* Accepting a record is a delivery of the feed, or invisible when it had been
\* accepted from another connection.
LEMMA AcceptDelivers ==
  ASSUME IInv, NEW c \in Conns, Accept(c)
  PROVE  (\E k \in Cursors : Feed!Deliver(k)) \/ UNCHANGED <<rows, nextCursor, accepted>>
<1> DEFINE k == Head(wire[c])
<1>1. /\ TypeOK /\ Bounded /\ NoSilentGap /\ WireComplete(c) /\ PositionsBounded(c)
      /\ Cursors \subseteq Nat /\ eventCursor \in Nat /\ accepted \subseteq Nat /\ Published \in Nat
      /\ wire[c] \in Seq(Cursors) /\ wire[c] # <<>> /\ rows' = rows /\ nextCursor' = nextCursor
      /\ accepted' = accepted \cup {k}
  BY Numbers, ConnectionValues
     DEF IInv, ConnInv, Bounded, TypeOK, Accept, journalVars
<1>2. k = wire[c][1] /\ 1 \in 1..Len(wire[c]) /\ k \in Cursors /\ 1..(1 - 1) = {}
  BY <1>1
<1> HIDE DEF k
<1>3. k <= Published /\ \A r \in rows : r < k => r \in accepted
  BY <1>1, <1>2 DEF PositionsBounded, WireComplete
<1>4. k \in Nat /\ k >= 1 /\ k \in 1..(nextCursor - 1)
  <2>1. k \in Nat /\ k >= 1
    BY <1>2, BoundsAssumption DEF Cursors
  <2> QED
    BY <1>1, <1>3, <2>1 DEF Published
<1>5. CASE k \in accepted
  BY <1>1, <1>5
<1>6. CASE k \notin accepted
  <2>1. ASSUME k \in rows, NEW r \in accepted PROVE r < k
    <3>1. ~(k <= eventCursor)
      BY <1>1, <1>6, <2>1 DEF NoSilentGap
    <3>2. r <= eventCursor /\ r \in Nat
      BY <1>1 DEF Bounded
    <3> QED
      BY <1>1, <1>4, <3>1, <3>2
  <2>2. Feed!Deliver(k)
    BY <1>1, <1>3, <1>4, <1>6, <2>1 DEF Feed!Deliver
  <2> QED
    BY <1>2, <2>2
<1> QED
  BY <1>5, <1>6

\* Whatever the connections do, the backend sees an ordered feed: the journal
\* appends and removes, the bridge takes each record once and in order
\* (EventJournal.ts:756, RemoteProviderService.ts:936).
THEOREM HandoffImplementsFeed == Spec => RefinesFeed
<1>1. Init => Feed!Init
  BY DEF Init, Feed!Init
<1>2. ASSUME IInv, [Next]_vars PROVE [Feed!Next]_(Feed!vars)
  <2> USE DEF Feed!vars
  <2>a. TypeOK
    BY <1>2 DEF IInv
  <2>1. CASE JournalStep
    <3>1. accepted' = accepted
      BY <2>1, JournalEffect
    <3>2. CASE Commit
      BY <3>1, <3>2 DEF Commit, Feed!Append, Feed!Next
    <3>3. CASE ~Commit
      <4>1. rows' \subseteq rows /\ nextCursor' = nextCursor
        BY <2>1, <3>3, JournalEffect
      <4> QED
        BY <3>1, <4>1 DEF Feed!Remove, Feed!Next
    <3> QED
      BY <3>2, <3>3
  <2>2. ASSUME NEW c \in Conns, ConnectionStep(c) PROVE [Feed!Next]_(Feed!vars)
    <3>1. UNCHANGED <<rows, nextCursor>> /\ (Accept(c) \/ accepted' = accepted)
      BY <2>2, <2>a, ConnectionEffect
    <3>2. CASE Accept(c)
      BY <1>2, <3>2, AcceptDelivers DEF Feed!Next, Cursors
    <3> QED
      BY <3>1, <3>2
  <2>3. CASE DaemonCrash
    BY <2>3 DEF DaemonCrash, journalVars, backendVars
  <2>4. CASE UNCHANGED vars
    BY <2>4 DEF vars
  <2> QED
    BY <1>2, <2>1, <2>2, <2>3, <2>4, NextSplit
<1> QED
  BY <1>1, <1>2, StreamInvariance, PTL DEF Spec, RefinesFeed, Feed!Spec

=============================================================================
