------------------------ MODULE RuntimeIngestionProofs ------------------------
(***************************************************************************)
(* The cursors, the pieces of text and the transcript of the ingestion,    *)
(* for any number of backends, any turn, any overlap and any number of     *)
(* faults.                                                                 *)
(***************************************************************************)
EXTENDS RuntimeIngestion, EnumerationProofs

Positions == 0..Len(journal)

\* A worker is a record of its three parts, and its event is a position.
WorkersInv ==
  /\ worker = [b \in Backends |-> worker[b]]
  /\ \A b \in Backends :
       /\ worker[b] = [event |-> worker[b].event, todo |-> worker[b].todo,
                       seen |-> worker[b].seen]
       /\ worker[b].event \in Positions

\* What a backend has done and what it takes for saved are positions in the journal, and
\* the saved cursor covers what any backend takes for saved.
CursorInv ==
  /\ journal \in Scripts
  /\ durable \in Positions
  /\ cursor \in [Backends -> Positions]
  /\ persisted \in [Backends -> 0..durable]
  /\ WorkersInv

-----------------------------------------------------------------------------

\* The larger of two positions is one, and is not below either.
LEMMA LargerIsPosition ==
  ASSUME NEW n \in Nat, NEW a \in 0..n, NEW b \in 0..n
  PROVE  Larger(a, b) \in 0..n /\ Larger(a, b) >= a /\ Larger(a, b) >= b
BY DEF Larger

\* The journal has a length.
LEMMA JournalLength == ASSUME CursorInv PROVE Len(journal) \in Nat
<1>1. journal \in Seq(EventType)
  BY IngestionAssumption DEF CursorInv
<1>2. QED
  BY <1>1

\* A backend starts with cursors at zero.
LEMMA CursorsInit == ASSUME Init PROVE CursorInv
<1>1. Len(journal) \in Nat
  <2>1. journal \in Seq(EventType)
    BY IngestionAssumption DEF Init
  <2>2. QED
    BY <2>1
<1>2. WorkersInv
  BY <1>1 DEF Init, WorkersInv, Positions, PerBackend, Idle
<1>3. QED
  BY <1>1, <1>2 DEF Init, CursorInv, Positions, PerBackend

\* A step of a worker that leaves its event, or turns to another position, keeps it.
LEMMA WorkerKept ==
  ASSUME CursorInv, UNCHANGED journal, NEW b \in Backends, NEW e \in Positions,
         NEW todo, NEW seen,
         worker' = [worker EXCEPT ![b] = [event |-> e, todo |-> todo, seen |-> seen]]
  PROVE  WorkersInv'
<1> DEFINE r == [event |-> e, todo |-> todo, seen |-> seen]
<1>1. r = [event |-> r.event, todo |-> r.todo, seen |-> r.seen] /\ r.event = e
  OBVIOUS
<1> HIDE DEF r
<1>2. worker' = [worker EXCEPT ![b] = r]
  BY DEF r
<1>3. worker' = [x \in Backends |-> IF x = b THEN r ELSE worker[x]]
  BY <1>2 DEF CursorInv, WorkersInv
<1>4. QED
  BY <1>1, <1>3 DEF CursorInv, WorkersInv, Positions

\* A worker that goes on with its event keeps it.
LEMMA GoingOnKeepsWorkers ==
  ASSUME CursorInv, UNCHANGED journal, NEW b \in Backends, NEW todo, NEW seen,
         GoesOn(b, todo, seen)
  PROVE  WorkersInv'
BY WorkerKept DEF CursorInv, WorkersInv, GoesOn

\* What the saved cursor, the progress and the workers rest on.
LEMMA CursorsKept ==
  ASSUME CursorInv, UNCHANGED <<journal, durable, cursor, persisted>>, WorkersInv'
  PROVE  CursorInv'
BY DEF CursorInv, Positions

\* A step of a worker within an event changes no cursor.
LEMMA WorkKeepsCursors ==
  ASSUME CursorInv, NEW b \in Backends,
         AppendText(b) \/ Flush(b) \/ Settle(b) \/ WriteTail(b) \/ Complete(b) \/ Load(b)
  PROVE  CursorInv' /\ durable' = durable
<1>1. UNCHANGED <<journal, durable, cursor, persisted>>
  <2>1. CASE AppendText(b) BY <2>1 DEF AppendText, script, process
  <2>2. CASE Flush(b) BY <2>2 DEF Flush, script, process
  <2>3. CASE Settle(b) BY <2>3 DEF Settle, script, process
  <2>4. CASE WriteTail(b) BY <2>4 DEF WriteTail, script, process
  <2>5. CASE Complete(b) BY <2>5 DEF Complete, script, process
  <2>6. CASE Load(b) BY <2>6 DEF Load, script, process, store
  <2>7. QED
    BY <2>1, <2>2, <2>3, <2>4, <2>5, <2>6
<1>2. WorkersInv'
  <2>1. CASE AppendText(b) BY <1>1, <2>1, GoingOnKeepsWorkers DEF AppendText, Done
  <2>2. CASE Flush(b) BY <1>1, <2>2, GoingOnKeepsWorkers DEF Flush, Done
  <2>3. CASE Settle(b) BY <1>1, <2>3, GoingOnKeepsWorkers DEF Settle, Done
  <2>4. CASE WriteTail(b) BY <1>1, <2>4, GoingOnKeepsWorkers DEF WriteTail
  <2>5. CASE Complete(b) BY <1>1, <2>5, GoingOnKeepsWorkers DEF Complete, Done
  <2>6. CASE Load(b) BY <1>1, <2>6, GoingOnKeepsWorkers DEF Load
  <2>7. QED
    BY <2>1, <2>2, <2>3, <2>4, <2>5, <2>6
<1>3. QED
  BY <1>1, <1>2, CursorsKept

\* The idle worker keeps the shape.
LEMMA IdleKeepsWorkers ==
  ASSUME CursorInv, UNCHANGED journal, NEW b \in Backends,
         worker' = [worker EXCEPT ![b] = Idle]
  PROVE  WorkersInv'
<1>1. 0 \in Positions
  BY JournalLength DEF Positions
<1>2. QED
  BY <1>1, WorkerKept DEF Idle

\* A backend that boots changes no cursor but what it takes for saved.
LEMMA BootKeepsCursors ==
  ASSUME CursorInv, NEW b \in Backends, Boot(b)
  PROVE  CursorInv' /\ durable' = durable
<1>1. /\ UNCHANGED <<journal, durable, cursor, worker>>
      /\ persisted' = [persisted EXCEPT ![b] = durable]
  BY DEF Boot, script, store
<1>2. durable \in 0..durable
  BY JournalLength DEF CursorInv, Positions
<1>3. WorkersInv'
  BY <1>1 DEF CursorInv, WorkersInv, Positions
<1>4. QED
  BY <1>1, <1>2, <1>3 DEF CursorInv, Positions

\* A process that ends may force its cursor out, and begins anew at zero.
LEMMA CrashKeepsCursors ==
  ASSUME CursorInv, NEW b \in Backends, Crash(b)
  PROVE  CursorInv' /\ durable' >= durable
<1> DEFINE n == Len(journal)
<1>1. n \in Nat /\ durable \in 0..n /\ cursor[b] \in 0..n
  BY JournalLength DEF CursorInv, Positions
<1>2. /\ journal' = journal
      /\ worker' = [worker EXCEPT ![b] = Idle]
      /\ cursor' = [cursor EXCEPT ![b] = 0]
      /\ persisted' = [persisted EXCEPT ![b] = 0]
      /\ durable' = durable \/ durable' = Larger(durable, cursor[b])
  BY DEF Crash, script
<1>3. durable' \in 0..n /\ durable' >= durable
  <2> HIDE DEF n
  <2>1. Larger(durable, cursor[b]) \in 0..n /\ Larger(durable, cursor[b]) >= durable
    BY <1>1, LargerIsPosition
  <2>2. QED
    BY <1>1, <1>2, <2>1
<1>4. \A p \in 0..durable : p \in 0..durable'
  BY <1>1, <1>3
<1>5. 0 \in 0..n /\ 0 \in 0..durable'
  BY <1>1, <1>3
<1>6. WorkersInv'
  BY <1>2, IdleKeepsWorkers
<1>7. cursor' \in [Backends -> 0..n] /\ persisted' \in [Backends -> 0..durable']
  BY <1>2, <1>4, <1>5 DEF CursorInv, Positions
<1>8. QED
  BY <1>2, <1>3, <1>6, <1>7 DEF CursorInv, Positions

\* A checkpoint writes the larger of two cursors, and its process takes it for saved.
LEMMA CheckpointKeepsCursors ==
  ASSUME CursorInv, NEW b \in Backends, Checkpoint(b)
  PROVE  CursorInv' /\ durable' >= durable
<1> DEFINE n == Len(journal)
<1>1. n \in Nat /\ durable \in 0..n /\ cursor[b] \in 0..n
  BY JournalLength DEF CursorInv, Positions
<1>2. /\ UNCHANGED <<journal, cursor, worker>>
      /\ durable' = Larger(durable, cursor[b])
      /\ persisted' = [persisted EXCEPT ![b] = durable']
  BY DEF Checkpoint, script
<1>3. durable' \in 0..n /\ durable' >= durable
  <2> HIDE DEF n
  <2>1. QED
    BY <1>1, <1>2, LargerIsPosition
<1>4. \A p \in 0..durable : p \in 0..durable'
  BY <1>1, <1>3
<1>5. durable' \in 0..durable'
  BY <1>1, <1>3
<1>6. WorkersInv'
  BY <1>2 DEF CursorInv, WorkersInv, Positions
<1>7. persisted' \in [Backends -> 0..durable']
  BY <1>2, <1>4, <1>5 DEF CursorInv
<1>8. QED
  BY <1>2, <1>3, <1>6, <1>7 DEF CursorInv, Positions

\* Taking an event changes no cursor, and the worker holds a position.
LEMMA TakeKeepsCursors ==
  ASSUME CursorInv, NEW b \in Backends, NEW e \in 1..Len(journal), Take(b, e)
  PROVE  CursorInv' /\ durable' = durable
<1>1. UNCHANGED <<journal, durable, cursor, persisted>>
  BY DEF Take, script, store
<1>2. e \in Positions
  BY JournalLength DEF Positions
<1>3. WorkersInv'
  BY <1>1, <1>2, WorkerKept DEF Take
<1>4. QED
  BY <1>1, <1>3, CursorsKept

\* A failed event leaves every cursor alone.
LEMMA FailsKeepsCursors ==
  ASSUME CursorInv, NEW b \in Backends, Fails(b)
  PROVE  CursorInv' /\ durable' = durable
<1>1. /\ UNCHANGED <<journal, durable, cursor, persisted>>
      /\ worker' = [worker EXCEPT ![b] = Idle]
  BY DEF Fails, script, store, process
<1>2. QED
  BY <1>1, IdleKeepsWorkers, CursorsKept

\* A finished event becomes progress.
LEMMA FinishKeepsCursors ==
  ASSUME CursorInv, NEW b \in Backends, Finish(b)
  PROVE  CursorInv' /\ durable' = durable
<1> DEFINE n == Len(journal)
           e == worker[b].event
<1>1. n \in Nat /\ e \in 0..n /\ cursor[b] \in 0..n
  BY JournalLength DEF CursorInv, WorkersInv, Positions
<1>2. /\ UNCHANGED <<journal, durable, persisted>>
      /\ worker' = [worker EXCEPT ![b] = Idle]
      /\ cursor' = [cursor EXCEPT ![b] = Larger(@, e)]
  BY DEF Finish, script, store
<1>3. Larger(cursor[b], e) \in 0..n
  <2> HIDE DEF n, e
  <2>1. QED
    BY <1>1, LargerIsPosition
<1>4. cursor' \in [Backends -> 0..n]
  BY <1>2, <1>3 DEF CursorInv, Positions
<1>5. WorkersInv'
  BY <1>2, IdleKeepsWorkers
<1>6. QED
  BY <1>2, <1>4, <1>5 DEF CursorInv, Positions

\* Every step keeps the cursors, and the saved one does not go back.
LEMMA CursorsNext ==
  ASSUME CursorInv, [Next]_vars
  PROVE  CursorInv' /\ durable' >= durable
<1>0. durable \in Nat
  BY JournalLength DEF CursorInv, Positions
<1>1. CASE UNCHANGED vars
  <2>1. UNCHANGED <<journal, durable, cursor, persisted, worker>>
    BY <1>1 DEF vars, script, store, process
  <2>2. QED
    BY <1>0, <2>1 DEF CursorInv, WorkersInv, Positions
<1>2. ASSUME NEW b \in Backends, Boot(b) PROVE CursorInv' /\ durable' >= durable
  BY <1>0, <1>2, BootKeepsCursors
<1>3. ASSUME NEW b \in Backends, Crash(b) PROVE CursorInv' /\ durable' >= durable
  BY <1>3, CrashKeepsCursors
<1>4. ASSUME NEW b \in Backends, Checkpoint(b) PROVE CursorInv' /\ durable' >= durable
  BY <1>4, CheckpointKeepsCursors
<1>5. ASSUME NEW b \in Backends, NEW e \in 1..Len(journal), Take(b, e)
      PROVE  CursorInv' /\ durable' >= durable
  BY <1>0, <1>5, TakeKeepsCursors
<1>6. ASSUME NEW b \in Backends, Step(b) PROVE CursorInv' /\ durable' >= durable
  BY <1>0, <1>6, WorkKeepsCursors, FinishKeepsCursors DEF Step
<1>7. ASSUME NEW b \in Backends, Fails(b) PROVE CursorInv' /\ durable' >= durable
  BY <1>0, <1>7, FailsKeepsCursors
<1>8. QED
  BY <1>1, <1>2, <1>3, <1>4, <1>5, <1>6, <1>7 DEF Next

\* The checkpoint of the journal never goes back, however many backends write it, die
\* and start again in whatever order (persistProviderDaemonCursor).
THEOREM CheckpointNeverGoesBack == Spec => CursorMonotone
<1>1. Init => CursorInv
  BY CursorsInit
<1>2. CursorInv /\ [Next]_vars => CursorInv' /\ [durable' >= durable]_durable
  BY CursorsNext
<1>3. QED
  BY <1>1, <1>2, PTL DEF Spec, CursorMonotone

-----------------------------------------------------------------------------
(* The turn *)

\* The journal is an orderly turn.
LEMMA Turn ==
  ASSUME journal \in Scripts
  PROVE  /\ Len(journal) \in Nat /\ Len(journal) >= 1 /\ DOMAIN journal = 1..Len(journal)
         /\ \A i \in 1..Len(journal) :
              /\ journal[i].type \in {"delta", "item", "completed", "aborted"}
              /\ journal[i].type \in {"delta", "item"} => journal[i].item \in Items
              /\ journal[i].type = "item" => journal[i].text \in {"none", "same", "more"}
         /\ \A i \in 1..Len(journal) :
              journal[i].type \in {"completed", "aborted"} => i = Len(journal)
         /\ \A i, k \in 1..Len(journal) :
              i < k /\ journal[i].type = "item" /\ journal[k].type \in {"delta", "item"}
                => journal[i].item # journal[k].item
<1>1. journal \in Seq(EventType) /\ Orderly(journal)
  BY IngestionAssumption, TurnAssumption
<1>2. Len(journal) \in Nat /\ DOMAIN journal = 1..Len(journal) /\ Len(journal) >= 1
  BY <1>1 DEF Orderly
<1>3. ASSUME NEW i \in 1..Len(journal)
      PROVE  /\ journal[i].type \in {"delta", "item", "completed", "aborted"}
             /\ journal[i].type \in {"delta", "item"} => journal[i].item \in Items
             /\ journal[i].type = "item" => journal[i].text \in {"none", "same", "more"}
  <2>1. journal[i] \in EventType
    BY <1>1, <1>2
  <2>2. QED
    BY <2>1 DEF EventType
<1>4. QED
  BY <1>1, <1>2, <1>3 DEF Orderly

\* What carries the text of an item comes from the journal.
Carried(m, k) == {i \in 1..k : Carries(i, m)}
All(m) == Carried(m, Len(journal))

LEMMA CarriedIs ==
  ASSUME NEW m, NEW k \in Nat
  PROVE  /\ Carried(m, k) \subseteq 1..k /\ Carried(m, k) \subseteq Nat
         /\ IsFiniteSet(Carried(m, k)) /\ Said(m, k) = InOrder(Carried(m, k))
         /\ Said(m, k) \in Seq(Carried(m, k)) /\ ToSet(Said(m, k)) = Carried(m, k)
<1> DEFINE S == Carried(m, k)
<1>1. S \subseteq 1..k /\ S \subseteq Nat
  BY DEF Carried
<1>2. IsFiniteSet(S)
  <2>1. IsFiniteSet(1..k)
    BY FS_Interval
  <2>2. QED
    BY <1>1, <2>1, FS_Subset
<1>3. Said(m, k) = InOrder(S)
  BY DEF Said, Carried
<1> HIDE DEF S
<1>4. /\ InOrder(S) \in Seq(S) /\ DOMAIN InOrder(S) = 1..Cardinality(S)
      /\ \A i \in 1..Cardinality(S) : InOrder(S)[i] \in S
      /\ \A x \in S : RankIn(S, x) \in 1..Cardinality(S) /\ InOrder(S)[RankIn(S, x)] = x
  BY <1>1, <1>2, InOrderIs
<1>5. ToSet(InOrder(S)) = S
  BY <1>4 DEF ToSet
<1>6. QED
  BY <1>1, <1>2, <1>3, <1>4, <1>5 DEF S

\* An item event is the last event of its item.
LEMMA ItemIsLast ==
  ASSUME journal \in Scripts, NEW e \in 1..Len(journal), journal[e].type = "item"
  PROVE  All(journal[e].item) = Carried(journal[e].item, e)
<1> DEFINE n == Len(journal)
           m == journal[e].item
<1>1. /\ n \in Nat /\ e \in 1..n
      /\ \A i, k \in 1..n :
           i < k /\ journal[i].type = "item" /\ journal[k].type \in {"delta", "item"}
             => journal[i].item # journal[k].item
  BY Turn
<1> HIDE DEF n
<1>2. ASSUME NEW i \in 1..n, Carries(i, m) PROVE i \in 1..e
  <2>1. ~(e < i)
    BY <1>1, <1>2 DEF Carries
  <2>2. QED
    BY <1>1, <2>1
<1>3. {i \in 1..n : Carries(i, m)} = {i \in 1..e : Carries(i, m)}
  BY <1>1, <1>2
<1>4. QED
  BY <1>3 DEF All, Carried, n

LEMMA JournalKept ==
  ASSUME journal' = journal, NEW m, NEW k
  PROVE  /\ Carried(m, k)' = Carried(m, k) /\ All(m)' = All(m) /\ Len(journal)' = Len(journal)
         /\ Said(m, k)' = Said(m, k)
<1>1. Carried(m, k)' = Carried(m, k)
  BY DEF Carried, Carries
<1>2. All(m)' = All(m) /\ Said(m, k)' = Said(m, k)
  BY DEF All, Said, Carried, Carries
<1>3. QED
  BY <1>1, <1>2

-----------------------------------------------------------------------------
(* What every piece of text is: always, whatever fails *)

MessageOf(S) == [present : BOOLEAN, text : Seq(S), streaming : BOOLEAN]

MessagesOK ==
  /\ messages \in [Items -> MessageOf(Nat)]
  /\ \A m \in Items : messages[m].text \in Seq(All(m))

\* What an event may ask for.
Asked(e) ==
  {o \in [op : {"append", "flush", "settle", "load", "tail", "complete"},
          item : Items \cup {NoItem}] :
     /\ e \in 1..Len(journal)
     /\ o.op \in {"append", "flush", "tail", "complete"} => o.item \in Items
     /\ o.op = "append" => journal[e].type = "delta" /\ o.item = journal[e].item
     /\ o.op = "flush" => journal[e].type = "completed"
     /\ o.op = "settle" => journal[e].type \in {"completed", "aborted"}
     /\ journal[e].type = "item" /\ o.op # "load" => o.item = journal[e].item
     /\ journal[e].type = "aborted" => o.op = "settle"}

WorkOK ==
  \A b \in Backends :
    /\ worker[b].todo \in Seq(Asked(worker[b].event))
    /\ worker[b].seen \in [Items -> MessageOf(Nat)]
    /\ \A m \in Items : worker[b].seen[m].text \in Seq(All(m))

MemoryOK ==
  /\ buffer \in [Backends -> [Items -> Seq(Nat)]]
  /\ \A b \in Backends, m \in Items : buffer[b][m] \in Seq(All(m))
  /\ begun \in [Backends -> [Items -> BOOLEAN]]
  /\ observed \in [Backends -> [Items -> Seq(Nat)]]
  /\ active \in [Backends -> Items \cup {NoItem}]
  /\ remembered \in [Backends -> SUBSET Items]
  /\ \A b \in Backends : IsFiniteSet(remembered[b])

Pieces ==
  /\ journal \in Scripts /\ streaming \in BOOLEAN /\ settled \in BOOLEAN
  /\ MessagesOK /\ WorkOK /\ MemoryOK

\* What a message has shown stays in it.
Grows == \A m \in Items : ToSet(messages[m].text) \subseteq ToSet(messages'[m].text)

LEMMA PiecesAreNumbers == ASSUME NEW m, journal \in Scripts PROVE All(m) \subseteq Nat
<1>1. Len(journal) \in Nat
  BY Turn
<1>2. QED
  BY <1>1, CarriedIs DEF All

\* Appending keeps the elements.
LEMMA AppendedSet ==
  ASSUME NEW A, NEW s \in Seq(A), NEW t \in Seq(A)
  PROVE  s \o t \in Seq(A) /\ ToSet(s \o t) = ToSet(s) \cup ToSet(t)
<1>1. /\ s \o t \in Seq(A) /\ Len(s) \in Nat /\ Len(t) \in Nat /\ Len(s \o t) = Len(s) + Len(t)
      /\ DOMAIN s = 1..Len(s) /\ DOMAIN t = 1..Len(t) /\ DOMAIN (s \o t) = 1..Len(s \o t)
  OBVIOUS
<1> DEFINE u == s \o t
           k == Len(s)
           l == Len(t)
<1>2. /\ \A i \in 1..k : i \in 1..(k + l) /\ u[i] = s[i]
      /\ \A i \in 1..l : k + i \in 1..(k + l) /\ u[k + i] = t[i]
      /\ \A i \in 1..(k + l) : i \in 1..k \/ (i - k \in 1..l /\ k + (i - k) = i)
  BY <1>1
<1>3. DOMAIN u = 1..(k + l) /\ DOMAIN s = 1..k /\ DOMAIN t = 1..l
  BY <1>1
<1>4. u \in Seq(A)
  BY <1>1
<1> HIDE DEF u, k, l
<1>5. ToSet(u) = ToSet(s) \cup ToSet(t)
  <2>1. ASSUME NEW x \in ToSet(u) PROVE x \in ToSet(s) \cup ToSet(t)
    <3>1. PICK i \in 1..(k + l) : x = u[i]
      BY <1>3 DEF ToSet
    <3>2. CASE i \in 1..k
      BY <1>2, <1>3, <3>1, <3>2 DEF ToSet
    <3>3. CASE i - k \in 1..l /\ k + (i - k) = i
      <4>1. x = t[i - k]
        BY <1>2, <3>1, <3>3
      <4>2. QED
        BY <1>3, <3>3, <4>1 DEF ToSet
    <3>4. QED
      BY <1>2, <3>2, <3>3
  <2>2. ASSUME NEW x \in ToSet(s) PROVE x \in ToSet(u)
    BY <1>2, <1>3, <2>2 DEF ToSet
  <2>3. ASSUME NEW x \in ToSet(t) PROVE x \in ToSet(u)
    <3>1. PICK i \in 1..l : x = t[i]
      BY <1>3 DEF ToSet
    <3>2. QED
      BY <1>2, <1>3, <3>1 DEF ToSet
  <2>4. QED
    BY <2>1, <2>2, <2>3
<1>6. QED
  BY <1>4, <1>5 DEF u

\* A delta, applied or not, adds pieces of the item to its message.
LEMMA DeltaGrows ==
  ASSUME journal \in Scripts, journal' = journal, MessagesOK, NEW b \in Backends,
         NEW m \in Items, m = ItemOf(b), NEW piece \in Seq(All(m)), settled \in BOOLEAN,
         DispatchDelta(b, piece)
  PROVE  MessagesOK' /\ Grows
<1> DEFINE new == WithDelta(m, piece)
<1>1. \A x : All(x)' = All(x)
  BY JournalKept
<1>2. CASE messages' = messages
  BY <1>1, <1>2 DEF MessagesOK, Grows
<1>3. CASE messages' = [messages EXCEPT ![m] = new]
  <2>1. messages[m].text \in Seq(All(m)) /\ messages[m].text \in Seq(Nat)
    BY DEF MessagesOK, MessageOf
  <2>2. piece \in Seq(Nat)
    BY PiecesAreNumbers
  <2>3. /\ messages[m].text \o piece \in Seq(All(m)) /\ messages[m].text \o piece \in Seq(Nat)
        /\ ToSet(messages[m].text) \subseteq ToSet(messages[m].text \o piece)
    BY <2>1, <2>2, AppendedSet
  <2>4. /\ new.text \in {messages[m].text, messages[m].text \o piece}
        /\ new \in [present : BOOLEAN, text : {new.text}, streaming : BOOLEAN]
    BY DEF WithDelta
  <2>5. new \in MessageOf(Nat) /\ new.text \in Seq(All(m))
        /\ ToSet(messages[m].text) \subseteq ToSet(new.text)
    BY <2>1, <2>3, <2>4 DEF MessageOf
  <2> HIDE DEF new
  <2>6. messages' = [x \in Items |-> IF x = m THEN new ELSE messages[x]]
    BY <1>3 DEF MessagesOK
  <2>7. messages' \in [Items -> MessageOf(Nat)]
    BY <2>5, <2>6 DEF MessagesOK
  <2>8. \A x \in Items : messages'[x].text \in Seq(All(x))
                          /\ ToSet(messages[x].text) \subseteq ToSet(messages'[x].text)
    BY <2>5, <2>6 DEF MessagesOK
  <2>9. QED
    BY <1>1, <2>7, <2>8 DEF MessagesOK, Grows
<1>4. QED
  BY <1>2, <1>3 DEF DispatchDelta, Dispatch

-----------------------------------------------------------------------------
(* What an event asks for *)

\* A finite set, listed.
LEMMA Listed ==
  ASSUME NEW S, IsFiniteSet(S)
  PROVE  /\ Cardinality(S) \in Nat /\ SetToSeq(S) \in [1..Cardinality(S) -> S]
         /\ \A y \in S : \E i \in 1..Cardinality(S) : SetToSeq(S)[i] = y
<1> DEFINE n == Cardinality(S)
<1>1. n \in Nat /\ ExistsBijection(1..n, S)
  BY FS_CardinalityType
<1>2. \E f \in [1..n -> S] : IsInjective(f)
  <2>1. PICK f : f \in Bijection(1..n, S)
    BY <1>1 DEF ExistsBijection
  <2>2. QED
    BY <2>1 DEF Bijection, Injection
<1>3. SetToSeq(S) \in [1..n -> S] /\ IsInjective(SetToSeq(S))
  BY <1>2 DEF SetToSeq
<1> DEFINE f == SetToSeq(S)
<1>4. f \in Injection(1..n, S)
  BY <1>3 DEF Injection
<1>5. Cardinality(1..n) = n
  BY <1>1, FS_Interval
<1> HIDE DEF f
<1>6. f \in Surjection(1..n, S)
  BY <1>4, <1>5, FS_Injection
<1>7. QED
  BY <1>1, <1>3, <1>6 DEF Surjection, f

\* The operations of one name, for every item of a set.
LEMMA EachIs ==
  ASSUME NEW S, IsFiniteSet(S), NEW name
  PROVE  /\ Each(name, S) \in Seq({Op(name, y) : y \in S})
         /\ \A y \in S : \E i \in 1..Len(Each(name, S)) : Each(name, S)[i] = Op(name, y)
<1> DEFINE f == SetToSeq(S)
           n == Cardinality(S)
           g == [i \in 1..n |-> Op(name, f[i])]
<1>1. n \in Nat /\ f \in [1..n -> S] /\ \A y \in S : \E i \in 1..n : f[i] = y
  BY Listed
<1>2. Each(name, S) = g
  BY <1>1 DEF Each
<1> HIDE DEF f, n
<1>3. g \in [1..n -> {Op(name, y) : y \in S}] /\ Len(g) = n /\ DOMAIN g = 1..n
  BY <1>1
<1>4. g \in Seq({Op(name, y) : y \in S})
  BY <1>1, <1>3
<1>5. ASSUME NEW y \in S PROVE \E i \in 1..n : g[i] = Op(name, y)
  BY <1>1
<1>6. QED
  BY <1>2, <1>3, <1>4, <1>5

LEMMA FinalizeAllIs ==
  ASSUME NEW S, IsFiniteSet(S)
  PROVE  /\ FinalizeAll(S) \in Seq({Op(o, y) : o \in {"tail", "complete"}, y \in S})
         /\ \A y \in S : \E i \in 1..Len(FinalizeAll(S)) : FinalizeAll(S)[i] = Op("complete", y)
<1> DEFINE f == SetToSeq(S)
           n == Cardinality(S)
           T == {Op(o, y) : o \in {"tail", "complete"}, y \in S}
           g == [k \in 1..2 * n |-> IF k % 2 = 1 THEN Op("tail", f[(k + 1) \div 2])
                                   ELSE Op("complete", f[k \div 2])]
<1>1. n \in Nat /\ f \in [1..n -> S] /\ \A y \in S : \E i \in 1..n : f[i] = y
  BY Listed
<1>2. FinalizeAll(S) = g
  BY DEF FinalizeAll
<1> HIDE DEF f, n
<1>3. ASSUME NEW k \in 1..2 * n PROVE g[k] \in T
  <2>1. CASE k % 2 = 1
    <3>1. (k + 1) \div 2 \in 1..n
      BY <1>1, <2>1
    <3>2. g[k] = Op("tail", f[(k + 1) \div 2]) /\ f[(k + 1) \div 2] \in S
      BY <1>1, <2>1, <3>1
    <3>3. QED
      BY <3>2
  <2>2. CASE k % 2 # 1
    <3>1. k \div 2 \in 1..n
      BY <1>1, <2>2
    <3>2. g[k] = Op("complete", f[k \div 2]) /\ f[k \div 2] \in S
      BY <1>1, <2>2, <3>1
    <3>3. QED
      BY <3>2
  <2>3. QED
    BY <2>1, <2>2
<1>4. g \in Seq(T) /\ Len(g) = 2 * n
  BY <1>1, <1>3
<1>5. ASSUME NEW y \in S PROVE \E i \in 1..2 * n : g[i] = Op("complete", y)
  <2>1. PICK k \in 1..n : f[k] = y
    BY <1>1
  <2>2. 2 * k \in 1..2 * n /\ (2 * k) % 2 # 1 /\ (2 * k) \div 2 = k
    BY <1>1
  <2>3. QED
    BY <2>1, <2>2
<1> HIDE DEF g, T
<1>6. QED
  BY <1>2, <1>4, <1>5 DEF T

\* A sequence goes on where another ends.
LEMMA Joined ==
  ASSUME NEW A, NEW s \in Seq(A), NEW t \in Seq(A)
  PROVE  /\ s \o t \in Seq(A) /\ Len(s) \in Nat /\ Len(t) \in Nat
         /\ Len(s \o t) = Len(s) + Len(t)
         /\ \A i \in 1..Len(s) : i \in 1..Len(s \o t) /\ (s \o t)[i] = s[i]
         /\ \A i \in 1..Len(t) : Len(s) + i \in 1..Len(s \o t) /\ (s \o t)[Len(s) + i] = t[i]
         /\ \A i \in 1..Len(s \o t) :
              i \in 1..Len(s) \/ \E j \in 1..Len(t) : i = Len(s) + j
<1> DEFINE u == s \o t
           k == Len(s)
           l == Len(t)
<1>1. u \in Seq(A) /\ k \in Nat /\ l \in Nat /\ Len(u) = k + l
  OBVIOUS
<1>2. /\ \A i \in 1..k : i \in 1..(k + l) /\ u[i] = s[i]
      /\ \A i \in 1..l : k + i \in 1..(k + l) /\ u[k + i] = t[i]
  BY <1>1
<1> HIDE DEF u, k, l
<1>3. \A i \in 1..(k + l) : i \in 1..k \/ (i - k \in 1..l /\ i = k + (i - k))
  BY <1>1
<1>4. QED
  BY <1>1, <1>2, <1>3 DEF u, k, l

LEMMA InLarger == ASSUME NEW A, NEW B, A \subseteq B, NEW s \in Seq(A) PROVE s \in Seq(B)
OBVIOUS

\* Flushes come first, and the end of the turn before what is done after it.
Ordered(todo) ==
  \A i, j \in 1..Len(todo) :
    i < j /\ todo[j].op \in {"flush", "settle"} => todo[i].op = "flush"

EndOps(S) == {Op(o, y) : o \in {"flush", "tail", "complete"}, y \in S}
               \cup {Op("settle", NoItem), Op("load", NoItem)}

LEMMA EndTurnIs ==
  ASSUME NEW b \in Backends, IsFiniteSet(remembered[b])
  PROVE  /\ EndTurn(b) \in Seq(EndOps(remembered[b])) /\ Ordered(EndTurn(b))
         /\ Op("settle", NoItem) \in ToSet(EndTurn(b))
         /\ \A y \in remembered[b] : /\ Op("flush", y) \in ToSet(EndTurn(b))
                                     /\ Op("complete", y) \in ToSet(EndTurn(b))
<1> DEFINE S == remembered[b]
           F == Each("flush", S)
           M == <<Op("settle", NoItem), Op("load", NoItem)>>
           Z == FinalizeAll(S)
           A == EndOps(S)
           H == F \o M
           E == H \o Z
<1>1. EndTurn(b) = E
  BY DEF EndTurn
<1>2. /\ F \in Seq({Op("flush", y) : y \in S})
      /\ \A y \in S : \E i \in 1..Len(F) : F[i] = Op("flush", y)
  BY EachIs
<1>3. /\ Z \in Seq({Op(o, y) : o \in {"tail", "complete"}, y \in S})
      /\ \A y \in S : \E i \in 1..Len(Z) : Z[i] = Op("complete", y)
  BY FinalizeAllIs
<1>4. F \in Seq(A) /\ M \in Seq(A) /\ Z \in Seq(A)
  <2>1. {Op("flush", y) : y \in S} \subseteq A
    BY DEF EndOps
  <2>2. {Op(o, y) : o \in {"tail", "complete"}, y \in S} \subseteq A
    BY DEF EndOps
  <2>3. M \in Seq(A)
    BY DEF EndOps
  <2> HIDE DEF F, M, Z, A, H, E
  <2>4. F \in Seq(A)
    BY <1>2, <2>1, InLarger
  <2>5. Z \in Seq(A)
    BY <1>3, <2>2, InLarger
  <2>6. QED
    BY <2>3, <2>4, <2>5
<1> HIDE DEF E
<1>5. \A i \in 1..Len(F) : F[i].op = "flush"
  <2> HIDE DEF F
  <2>1. ASSUME NEW i \in 1..Len(F) PROVE F[i].op = "flush"
    <3>1. F[i] \in {Op("flush", y) : y \in S}
      BY <1>2
    <3>2. QED
      BY <3>1 DEF Op
  <2>2. QED
    BY <2>1
<1>6. \A i \in 1..Len(Z) : Z[i].op \in {"tail", "complete"}
  <2> HIDE DEF Z
  <2>1. ASSUME NEW i \in 1..Len(Z) PROVE Z[i].op \in {"tail", "complete"}
    <3>1. Z[i] \in {Op(o, y) : o \in {"tail", "complete"}, y \in S}
      BY <1>3
    <3>2. QED
      BY <3>1 DEF Op
  <2>2. QED
    BY <2>1
<1>7. Len(M) = 2 /\ M[1].op = "settle" /\ M[2].op = "load" /\ M[1] = Op("settle", NoItem)
  BY DEF Op
<1> HIDE DEF F, M, Z, A
<1>8. /\ H \in Seq(A) /\ Len(F) \in Nat /\ Len(H) = Len(F) + 2
      /\ \A i \in 1..Len(F) : i \in 1..Len(H) /\ H[i] = F[i]
      /\ Len(F) + 1 \in 1..Len(H) /\ H[Len(F) + 1] = M[1]
      /\ Len(F) + 2 \in 1..Len(H) /\ H[Len(F) + 2] = M[2]
      /\ \A i \in 1..Len(H) : i \in 1..Len(F) \/ i = Len(F) + 1 \/ i = Len(F) + 2
  <2>1. /\ H \in Seq(A) /\ Len(F) \in Nat /\ Len(M) \in Nat /\ Len(H) = Len(F) + Len(M)
        /\ \A i \in 1..Len(F) : i \in 1..Len(H) /\ H[i] = F[i]
        /\ \A i \in 1..Len(M) : Len(F) + i \in 1..Len(H) /\ H[Len(F) + i] = M[i]
        /\ \A i \in 1..Len(H) : i \in 1..Len(F) \/ \E j \in 1..Len(M) : i = Len(F) + j
    <3> HIDE DEF E
    <3>1. QED
      BY <1>4, Joined
  <2> HIDE DEF H
  <2>2. 1 \in 1..Len(M) /\ 2 \in 1..Len(M) /\ \A j \in 1..Len(M) : j = 1 \/ j = 2
    BY <1>7
  <2>3. QED
    BY <1>7, <2>1, <2>2
<1> HIDE DEF H
<1>9. /\ E \in Seq(A) /\ Len(Z) \in Nat /\ Len(E) = Len(H) + Len(Z)
      /\ \A i \in 1..Len(H) : i \in 1..Len(E) /\ E[i] = H[i]
      /\ \A i \in 1..Len(Z) : Len(H) + i \in 1..Len(E) /\ E[Len(H) + i] = Z[i]
      /\ \A i \in 1..Len(E) : i \in 1..Len(H) \/ \E j \in 1..Len(Z) : i = Len(H) + j
  <2>1. H \in Seq(A) /\ Z \in Seq(A)
    BY <1>4, <1>8
  <2> USE DEF E
  <2>2. QED
    BY ONLY <2>1, Joined
<1>10. DOMAIN E = 1..Len(E)
  BY <1>9
<1>11. Ordered(E)
  <2>1. ASSUME NEW j \in 1..Len(E), E[j].op \in {"flush", "settle"}
        PROVE  j \in 1..Len(F) \/ j = Len(F) + 1
    <3>1. CASE j \in 1..Len(H)
      BY <1>7, <1>8, <1>9, <2>1, <3>1
    <3>2. CASE \E i \in 1..Len(Z) : j = Len(H) + i
      <4>1. PICK i \in 1..Len(Z) : j = Len(H) + i
        BY <3>2
      <4>2. E[j] = Z[i] /\ Z[i].op \in {"tail", "complete"}
        BY <1>6, <1>9, <4>1
      <4>3. QED
        BY <2>1, <4>2
    <3>3. QED
      BY <1>9, <3>1, <3>2
  <2>2. ASSUME NEW i \in 1..Len(F) PROVE E[i].op = "flush"
    <3>1. H[i] = F[i] /\ i \in 1..Len(H)
      BY <1>8
    <3>2. E[i] = F[i] /\ F[i].op = "flush"
      BY <1>5, <1>9, <3>1
    <3>3. QED
      BY <3>2
  <2>3. QED
    BY <1>8, <2>1, <2>2 DEF Ordered
<1>12. Op("settle", NoItem) \in ToSet(E)
  BY <1>7, <1>8, <1>9, <1>10 DEF ToSet
<1>13. ASSUME NEW y \in S PROVE Op("flush", y) \in ToSet(E) /\ Op("complete", y) \in ToSet(E)
  <2>1. PICK i \in 1..Len(F) : F[i] = Op("flush", y)
    BY <1>2
  <2>2. PICK k \in 1..Len(Z) : Z[k] = Op("complete", y)
    BY <1>3
  <2>3. i \in 1..Len(E) /\ E[i] = Op("flush", y)
    BY <1>8, <1>9, <2>1
  <2>4. Len(H) + k \in 1..Len(E) /\ E[Len(H) + k] = Op("complete", y)
    BY <1>9, <2>2
  <2>5. QED
    BY <1>10, <2>3, <2>4 DEF ToSet
<1>14. QED
  BY <1>1, <1>9, <1>11, <1>12, <1>13 DEF A

LEMMA HeadAsked ==
  ASSUME WorkOK, NEW b \in Backends, worker[b].todo # <<>>
  PROVE  /\ Head(worker[b].todo) \in Asked(worker[b].event)
         /\ Tail(worker[b].todo) \in Seq(Asked(worker[b].event))
         /\ worker[b].event \in 1..Len(journal)
<1> DEFINE A == Asked(worker[b].event)
           t == worker[b].todo
<1>1. t \in Seq(A) /\ t # <<>>
  BY DEF WorkOK
<1> HIDE DEF A, t
<1>2. Head(t) \in A /\ Tail(t) \in Seq(A)
  BY <1>1
<1>3. QED
  BY <1>2 DEF A, t, Asked

LEMMA AskedKept == ASSUME journal' = journal, NEW e PROVE Asked(e)' = Asked(e)
BY DEF Asked

\* The plan of an event is made of what it may ask for.
LEMMA PlanAsked ==
  ASSUME Pieces, NEW b \in Backends, NEW e \in 1..Len(journal)
  PROVE  Plan(b, e) \in Seq(Asked(e))
<1> DEFINE A == Asked(e)
<1>0. /\ active[b] \in Items \cup {NoItem} /\ IsFiniteSet(remembered[b])
      /\ remembered[b] \subseteq Items /\ journal \in Scripts
  BY DEF Pieces, MemoryOK
<1>1. /\ journal[e].type \in {"delta", "item", "completed", "aborted"}
      /\ journal[e].type \in {"delta", "item"} => journal[e].item \in Items
  BY <1>0, Turn
<1>2. CASE journal[e].type = "delta"
  <2> DEFINE x == active[b]
             m == journal[e].item
  <2>1. Plan(b, e) = (IF x \in {NoItem, m} THEN <<>> ELSE <<Op("load", NoItem)>> \o Finalize(x))
                        \o <<Op("append", m)>>
    BY <1>2 DEF Plan
  <2>2. /\ Op("append", m) \in A /\ Op("load", NoItem) \in A
        /\ x \notin {NoItem, m} => Op("tail", x) \in A /\ Op("complete", x) \in A
    BY <1>0, <1>1, <1>2 DEF Asked, Op
  <2> HIDE DEF x, m, A
  <2>3. x \notin {NoItem, m} => Finalize(x) \in Seq(A)
    BY <2>2 DEF Finalize
  <2>4. <<Op("append", m)>> \in Seq(A) /\ <<Op("load", NoItem)>> \in Seq(A) /\ <<>> \in Seq(A)
    BY <2>2
  <2>5. x \notin {NoItem, m} => <<Op("load", NoItem)>> \o Finalize(x) \in Seq(A)
    BY <2>3, <2>4, Joined
  <2>6. QED
    BY <2>1, <2>4, <2>5, Joined DEF A
<1>3. CASE journal[e].type = "item"
  <2> DEFINE m == journal[e].item
  <2>1. Plan(b, e) = <<Op("load", NoItem)>> \o Finalize(m)
    BY <1>3 DEF Plan
  <2>2. Op("load", NoItem) \in A /\ Op("tail", m) \in A /\ Op("complete", m) \in A
    BY <1>1, <1>3 DEF Asked, Op
  <2> HIDE DEF m, A
  <2>3. <<Op("load", NoItem)>> \in Seq(A) /\ Finalize(m) \in Seq(A)
    BY <2>2 DEF Finalize
  <2>4. QED
    BY <2>1, <2>3, Joined DEF A
<1>4. CASE journal[e].type = "completed"
  <2>1. Plan(b, e) = EndTurn(b)
    BY <1>4 DEF Plan
  <2>2. EndOps(remembered[b]) \subseteq A
    BY <1>0, <1>4 DEF EndOps, Asked, Op
  <2>3. EndTurn(b) \in Seq(EndOps(remembered[b]))
    BY <1>0, EndTurnIs
  <2>4. QED
    BY <2>1, <2>2, <2>3, InLarger
<1>5. CASE journal[e].type = "aborted"
  <2>1. Plan(b, e) = <<Op("settle", NoItem)>>
    BY <1>5 DEF Plan
  <2>2. Op("settle", NoItem) \in A
    BY <1>5 DEF Asked, Op
  <2>3. QED
    BY <2>1, <2>2
<1>6. QED
  BY <1>1, <1>2, <1>3, <1>4, <1>5

\* A worker that turns to an event, does a part of it or reads keeps its shape.
LEMMA WorkKept ==
  ASSUME CursorInv, WorkOK, journal' = journal, NEW b \in Backends, NEW e, NEW todo, NEW seen,
         todo \in Seq(Asked(e)), seen \in [Items -> MessageOf(Nat)],
         \A m \in Items : seen[m].text \in Seq(All(m)),
         worker' = [worker EXCEPT ![b] = [event |-> e, todo |-> todo, seen |-> seen]]
  PROVE  WorkOK'
<1> DEFINE r == [event |-> e, todo |-> todo, seen |-> seen]
<1>1. r.event = e /\ r.todo = todo /\ r.seen = seen
  OBVIOUS
<1>2. \A m : All(m)' = All(m)
  BY JournalKept
<1>3. \A x : Asked(x)' = Asked(x)
  BY AskedKept
<1>4. worker' = [worker EXCEPT ![b] = r]
  OBVIOUS
<1> HIDE DEF r
<1>5. worker' = [x \in Backends |-> IF x = b THEN r ELSE worker[x]]
  BY <1>4 DEF CursorInv, WorkersInv
<1>6. \A x \in Backends :
        /\ worker'[x].todo \in Seq(Asked(worker'[x].event))
        /\ worker'[x].seen \in [Items -> MessageOf(Nat)]
        /\ \A m \in Items : worker'[x].seen[m].text \in Seq(All(m))
  BY <1>1, <1>5 DEF WorkOK
<1>7. QED
  BY <1>2, <1>3, <1>6 DEF WorkOK

LEMMA DoneKept ==
  ASSUME CursorInv, WorkOK, journal' = journal, NEW b \in Backends, worker[b].todo # <<>>, Done(b)
  PROVE  WorkOK'
<1> DEFINE w == worker[b]
           t == Tail(w.todo)
<1>1. t \in Seq(Asked(w.event))
  BY HeadAsked
<1>2. w.seen \in [Items -> MessageOf(Nat)] /\ \A m \in Items : w.seen[m].text \in Seq(All(m))
  BY DEF WorkOK
<1>3. worker' = [worker EXCEPT ![b] = [event |-> w.event, todo |-> t, seen |-> w.seen]]
  BY DEF Done, GoesOn
<1> HIDE DEF w, t
<1>4. QED
  BY <1>1, <1>2, <1>3, WorkKept

\* What one backend remembers of one item may change within its type.
LEMMA MemoryKept ==
  ASSUME MemoryOK, journal' = journal, NEW b \in Backends, NEW m \in Items,
         NEW s \in Seq(All(m)), s \in Seq(Nat), NEW g \in BOOLEAN, NEW o \in Seq(Nat),
         NEW x \in Items \cup {NoItem}, NEW R \in SUBSET Items, IsFiniteSet(R),
         buffer' = [buffer EXCEPT ![b][m] = s],
         begun' = [begun EXCEPT ![b][m] = g],
         observed' = [observed EXCEPT ![b][m] = o],
         active' = [active EXCEPT ![b] = x],
         remembered' = [remembered EXCEPT ![b] = R]
  PROVE  MemoryOK'
<1>1. \A y : All(y)' = All(y)
  BY JournalKept
<1>2. buffer' \in [Backends -> [Items -> Seq(Nat)]]
      /\ \A c \in Backends, y \in Items : buffer'[c][y] = IF c = b /\ y = m THEN s ELSE buffer[c][y]
  BY DEF MemoryOK
<1>3. \A c \in Backends, y \in Items : buffer'[c][y] \in Seq(All(y))
  BY <1>2 DEF MemoryOK
<1>4. begun' \in [Backends -> [Items -> BOOLEAN]] /\ observed' \in [Backends -> [Items -> Seq(Nat)]]
  BY DEF MemoryOK
<1>5. active' \in [Backends -> Items \cup {NoItem}] /\ remembered' \in [Backends -> SUBSET Items]
  BY DEF MemoryOK
<1>6. \A c \in Backends : IsFiniteSet(remembered'[c])
  BY DEF MemoryOK
<1>7. QED
  BY <1>1, <1>2, <1>3, <1>4, <1>5, <1>6 DEF MemoryOK

LEMMA SameItem ==
  ASSUME NEW T, NEW f \in [Backends -> [Items -> T]], NEW b \in Backends, NEW m \in Items
  PROVE  f = [f EXCEPT ![b][m] = f[b][m]]
OBVIOUS

LEMMA SameBackend ==
  ASSUME NEW T, NEW f \in [Backends -> T], NEW b \in Backends
  PROVE  f = [f EXCEPT ![b] = f[b]]
OBVIOUS

\* The text of a completed item, if the event has one, is of its item.
LEMMA DetailIs ==
  ASSUME journal \in Scripts, NEW e \in 1..Len(journal)
  PROVE  \/ Detail(e) = <<>>
         \/ /\ journal[e].type = "item" /\ journal[e].text # "none"
            /\ Detail(e) = Said(journal[e].item, e) /\ Detail(e) = InOrder(All(journal[e].item))
            /\ Detail(e) \in Seq(All(journal[e].item)) /\ Detail(e) \in Seq(Nat)
            /\ ToSet(Detail(e)) = All(journal[e].item)
<1> SUFFICES ASSUME Detail(e) # <<>>
             PROVE  /\ journal[e].type = "item" /\ journal[e].text # "none"
                    /\ Detail(e) = Said(journal[e].item, e)
                    /\ Detail(e) = InOrder(All(journal[e].item))
                    /\ Detail(e) \in Seq(All(journal[e].item)) /\ Detail(e) \in Seq(Nat)
                    /\ ToSet(Detail(e)) = All(journal[e].item)
  OBVIOUS
<1> DEFINE m == journal[e].item
<1>1. journal[e].type = "item" /\ journal[e].text # "none" /\ Detail(e) = Said(m, e)
  BY DEF Detail
<1>2. e \in Nat
  <2>1. Len(journal) \in Nat
    BY Turn
  <2>2. QED
    BY <2>1
<1>3. All(m) = Carried(m, e)
  BY <1>1, ItemIsLast
<1>4. /\ Said(m, e) = InOrder(Carried(m, e)) /\ Said(m, e) \in Seq(Carried(m, e))
      /\ ToSet(Said(m, e)) = Carried(m, e) /\ Carried(m, e) \subseteq Nat
  BY <1>2, CarriedIs
<1>5. Said(m, e) \in Seq(Nat)
  BY <1>4, InLarger
<1>6. QED
  BY <1>1, <1>3, <1>4, <1>5

\* The suffix of a sequence.
LEMMA SuffixIs ==
  ASSUME NEW A, NEW s \in Seq(A), NEW k \in Nat, k <= Len(s)
  PROVE  SubSeq(s, k + 1, Len(s)) \in Seq(A) /\ Len(SubSeq(s, k + 1, Len(s))) = Len(s) - k
         /\ \A i \in 1..(Len(s) - k) : SubSeq(s, k + 1, Len(s))[i] = s[k + i]
OBVIOUS

LEMMA TailTextIs ==
  ASSUME Pieces, NEW b \in Backends, Doing(b, "tail"), NEW m, m = ItemOf(b)
  PROVE  m \in Items /\ TailText(b, m) \in Seq(All(m))
<1> DEFINE e == worker[b].event
           detail == Detail(e)
           known == worker[b].seen[m].text \o buffer[b][m]
<1>1. Head(worker[b].todo) \in Asked(e) /\ e \in 1..Len(journal)
  BY HeadAsked DEF Doing, Pieces
<1>2. m \in Items /\ (journal[e].type = "item" => m = journal[e].item)
  BY <1>1 DEF Asked, ItemOf, Doing
<1>3. buffer[b][m] \in Seq(All(m)) /\ worker[b].seen[m].text \in Seq(All(m))
  BY <1>2 DEF Pieces, MemoryOK, WorkOK
<1>4. CASE TailText(b, m) = buffer[b][m]
  BY <1>2, <1>3, <1>4
<1>5. CASE detail # <<>> /\ IsPrefix(known, detail)
           /\ TailText(b, m) = buffer[b][m] \o SubSeq(detail, Len(known) + 1, Len(detail))
  <2>1. detail \in Seq(All(m))
    BY <1>1, <1>2, <1>5, DetailIs DEF Pieces
  <2>2. known \in Seq(All(m)) /\ Len(known) \in Nat
    BY <1>3, Joined
  <2>3. Len(known) <= Len(detail)
    BY <1>5 DEF IsPrefix
  <2> HIDE DEF detail, known
  <2>4. SubSeq(detail, Len(known) + 1, Len(detail)) \in Seq(All(m))
    BY <2>1, <2>2, <2>3, SuffixIs
  <2>5. QED
    BY <1>2, <1>3, <1>5, <2>4, Joined
<1>6. QED
  BY <1>4, <1>5 DEF TailText

LEMMA PiecesOf ==
  ASSUME NEW m, journal \in Scripts, NEW s \in Seq(All(m)) PROVE s \in Seq(Nat)
BY PiecesAreNumbers, InLarger

\* A delta of the item.
LEMMA ChunkIs ==
  ASSUME Pieces, NEW b \in Backends, Doing(b, "append"), NEW m, m = ItemOf(b),
         NEW e, e = worker[b].event
  PROVE  /\ m \in Items /\ e \in 1..Len(journal) /\ journal[e].type = "delta"
         /\ journal[e].item = m /\ e \in All(m) /\ e \in Nat
         /\ Chunk(b, m, e) \in Seq(All(m)) /\ Append(buffer[b][m], e) \in Seq(All(m))
<1>1. Head(worker[b].todo) \in Asked(e) /\ e \in 1..Len(journal)
  BY HeadAsked DEF Doing, Pieces
<1>2. m \in Items /\ journal[e].type = "delta" /\ m = journal[e].item
  BY <1>1 DEF Asked, ItemOf, Doing
<1>3. e \in All(m)
  BY <1>1, <1>2 DEF All, Carried, Carries
<1>4. buffer[b][m] \in Seq(All(m))
  BY <1>2 DEF Pieces, MemoryOK
<1> DEFINE A == All(m)
<1>5. e \in Nat
  BY <1>3, PiecesAreNumbers DEF Pieces
<1> HIDE DEF A
<1>6. Append(buffer[b][m], e) \in Seq(A) /\ <<e>> \in Seq(A) /\ <<>> \in Seq(A)
  BY <1>3, <1>4 DEF A
<1>7. Chunk(b, m, e) \in Seq(A)
  BY <1>6 DEF Chunk
<1>8. QED
  BY <1>1, <1>2, <1>3, <1>5, <1>6, <1>7 DEF A

LEMMA AppendTextKeeps ==
  ASSUME CursorInv, Pieces, NEW b \in Backends, AppendText(b) PROVE Pieces' /\ Grows
<1> DEFINE m == ItemOf(b)
           e == worker[b].event
<1>1. /\ Doing(b, "append") /\ Done(b) /\ DispatchDelta(b, Chunk(b, m, e)) /\ Coalesce(b, m, e)
      /\ observed' = [observed EXCEPT ![b][m] = Append(@, e)]
      /\ journal' = journal /\ streaming' = streaming /\ settled' = settled
  BY DEF AppendText, script
<1>2. /\ m \in Items /\ Chunk(b, m, e) \in Seq(All(m)) /\ Append(buffer[b][m], e) \in Seq(All(m))
      /\ e \in Nat
  BY <1>1, ChunkIs
<1>3. MessagesOK' /\ Grows
  <2> HIDE DEF m, e
  <2>1. QED
    BY <1>1, <1>2, DeltaGrows DEF Pieces, m
<1>4. WorkOK'
  BY <1>1, DoneKept DEF Pieces, Doing
<1>5. MemoryOK'
  <2> DEFINE s == IF Chunk(b, m, e) = <<>> THEN Append(buffer[b][m], e) ELSE <<>>
             g == begun[b][m] \/ streaming
             o == Append(observed[b][m], e)
             R == remembered[b] \cup {m}
  <2>1. /\ buffer' = [buffer EXCEPT ![b][m] = s] /\ begun' = [begun EXCEPT ![b][m] = g]
        /\ observed' = [observed EXCEPT ![b][m] = o] /\ active' = [active EXCEPT ![b] = m]
        /\ remembered' = [remembered EXCEPT ![b] = R]
    BY <1>1 DEF Coalesce
  <2>2. s \in Seq(All(m))
    BY <1>2
  <2>3. s \in Seq(Nat)
    BY <2>2, PiecesOf DEF Pieces
  <2>4. g \in BOOLEAN
    BY <1>2 DEF Pieces, MemoryOK
  <2>5. o \in Seq(Nat)
    BY <1>2 DEF Pieces, MemoryOK
  <2>6. R \in SUBSET Items /\ IsFiniteSet(R)
    BY <1>2, FS_AddElement DEF Pieces, MemoryOK
  <2> HIDE DEF s, g, o, R, m, e
  <2>7. QED
    BY <1>1, <1>2, <2>1, <2>2, <2>3, <2>4, <2>5, <2>6, MemoryKept DEF Pieces
<1>6. QED
  BY <1>1, <1>3, <1>4, <1>5 DEF Pieces

\* A step that only empties the coalescer of an item.
LEMMA EmptiedKeeps ==
  ASSUME Pieces, journal' = journal, NEW b \in Backends, NEW m \in Items,
         TakeBuffer(b, m), UNCHANGED <<begun, observed, active, remembered>>
  PROVE  MemoryOK'
<1>1. buffer' = [buffer EXCEPT ![b][m] = <<>>]
  BY DEF TakeBuffer
<1>2. /\ begun' = [begun EXCEPT ![b][m] = begun[b][m]]
      /\ observed' = [observed EXCEPT ![b][m] = observed[b][m]]
      /\ active' = [active EXCEPT ![b] = active[b]]
      /\ remembered' = [remembered EXCEPT ![b] = remembered[b]]
  BY SameItem, SameBackend DEF Pieces, MemoryOK
<1>3. /\ begun[b][m] \in BOOLEAN /\ observed[b][m] \in Seq(Nat)
      /\ active[b] \in Items \cup {NoItem} /\ remembered[b] \in SUBSET Items
      /\ IsFiniteSet(remembered[b]) /\ <<>> \in Seq(All(m)) /\ <<>> \in Seq(Nat)
  BY DEF Pieces, MemoryOK
<1>4. MemoryOK
  BY DEF Pieces
<1> DEFINE g == begun[b][m]
           o == observed[b][m]
           x == active[b]
           R == remembered[b]
<1> HIDE DEF g, o, x, R
<1>5. QED
  BY ONLY <1>1, <1>2, <1>3, <1>4, MemoryKept, journal' = journal, m \in Items, b \in Backends
     DEF g, o, x, R

LEMMA FlushKeeps ==
  ASSUME CursorInv, Pieces, NEW b \in Backends, Flush(b) PROVE Pieces' /\ Grows
<1> DEFINE m == ItemOf(b)
<1>1. /\ Doing(b, "flush") /\ Done(b) /\ DispatchDelta(b, buffer[b][m]) /\ TakeBuffer(b, m)
      /\ UNCHANGED <<begun, observed, active, remembered>>
      /\ journal' = journal /\ streaming' = streaming /\ settled' = settled
  BY DEF Flush, script
<1>2. m \in Items
  BY <1>1, HeadAsked DEF Asked, ItemOf, Doing, Pieces
<1>3. MessagesOK' /\ Grows
  BY <1>1, <1>2, DeltaGrows DEF Pieces, MemoryOK
<1>4. WorkOK'
  BY <1>1, DoneKept DEF Pieces, Doing
<1>5. MemoryOK'
  BY <1>1, <1>2, EmptiedKeeps
<1>6. QED
  BY <1>1, <1>3, <1>4, <1>5 DEF Pieces

LEMMA SeenKept ==
  ASSUME NEW s \in [Items -> MessageOf(Nat)], NEW m \in Items, NEW p \in BOOLEAN,
         \A x \in Items : s[x].text \in Seq(All(x))
  PROVE  LET new == [s EXCEPT ![m] = [s[m] EXCEPT !.present = p]] IN
         /\ new \in [Items -> MessageOf(Nat)]
         /\ \A x \in Items : new[x].text = s[x].text /\ new[x].text \in Seq(All(x))
<1> DEFINE r == [s[m] EXCEPT !.present = p]
           new == [s EXCEPT ![m] = r]
<1>1. r \in MessageOf(Nat) /\ r.text = s[m].text
  BY DEF MessageOf
<1> HIDE DEF r
<1>2. new \in [Items -> MessageOf(Nat)]
  BY <1>1
<1>3. \A x \in Items : new[x].text = s[x].text
  BY <1>1
<1> HIDE DEF new
<1>4. /\ new \in [Items -> MessageOf(Nat)]
      /\ \A x \in Items : new[x].text = s[x].text /\ new[x].text \in Seq(All(x))
  BY <1>2, <1>3
<1>5. QED
  BY <1>4 DEF r, new

LEMMA WriteTailKeeps ==
  ASSUME CursorInv, Pieces, NEW b \in Backends, WriteTail(b) PROVE Pieces' /\ Grows
<1> DEFINE m == ItemOf(b)
           w == worker[b]
           p == w.seen[m].present \/ TailText(b, m) # <<>>
           seen == [w.seen EXCEPT ![m] = [w.seen[m] EXCEPT !.present = p]]
           todo == Tail(w.todo)
<1>1. /\ Doing(b, "tail") /\ DispatchDelta(b, TailText(b, m)) /\ TakeBuffer(b, m)
      /\ UNCHANGED <<begun, observed, active, remembered>>
      /\ journal' = journal /\ streaming' = streaming /\ settled' = settled
  <2> HIDE DEF w, p, seen, todo
  <2>1. UNCHANGED <<script, settled, begun, observed, active, remembered>>
    BY Zenon DEF WriteTail
  <2>2. Doing(b, "tail") /\ DispatchDelta(b, TailText(b, m)) /\ TakeBuffer(b, m)
    BY Zenon DEF WriteTail
  <2>3. QED
    BY <2>1, <2>2 DEF script
<1>0. worker' = [worker EXCEPT ![b] = [event |-> w.event, todo |-> todo, seen |-> seen]]
  BY DEF WriteTail, GoesOn, Shown
<1>2. m \in Items /\ TailText(b, m) \in Seq(All(m))
  BY <1>1, TailTextIs
<1>3. MessagesOK' /\ Grows
  <2> HIDE DEF m, w, p, seen, todo
  <2>1. QED
    BY <1>1, <1>2, DeltaGrows DEF Pieces, m
<1>4. WorkOK'
  <2>2. todo \in Seq(Asked(w.event))
    BY <1>1, HeadAsked DEF Pieces, Doing
  <2>3. w.seen \in [Items -> MessageOf(Nat)] /\ \A x \in Items : w.seen[x].text \in Seq(All(x))
    BY DEF Pieces, WorkOK
  <2>4. p \in BOOLEAN
    BY <1>2, <2>3 DEF MessageOf
  <2>5. seen \in [Items -> MessageOf(Nat)] /\ \A x \in Items : seen[x].text \in Seq(All(x))
    BY <1>2, <2>3, <2>4, SeenKept
  <2> HIDE DEF w, p, seen, todo
  <2>6. QED
    BY <1>0, <1>1, <2>2, <2>5, WorkKept DEF Pieces
<1>5. MemoryOK'
  BY <1>1, <1>2, EmptiedKeeps
<1>6. QED
  BY <1>1, <1>3, <1>4, <1>5 DEF Pieces

\* A completion leaves the text alone or replaces it by all that was said of the item.
LEMMA CompletedGrows ==
  ASSUME Pieces, journal' = journal, NEW b \in Backends, Doing(b, "complete"),
         NEW m, m = ItemOf(b), Dispatch(b, Completed(m, Canonical(b, m)))
  PROVE  MessagesOK' /\ Grows
<1> DEFINE e == worker[b].event
           final == Canonical(b, m)
           new == Completed(m, final)
<1>1. Head(worker[b].todo) \in Asked(e) /\ e \in 1..Len(journal) /\ journal \in Scripts
  BY HeadAsked DEF Doing, Pieces
<1>2. m \in Items /\ (journal[e].type = "item" => m = journal[e].item)
  BY <1>1 DEF Asked, ItemOf, Doing
<1>3. \A x : All(x)' = All(x)
  BY JournalKept
<1>4. MessagesOK /\ messages[m].text \in Seq(All(m)) /\ messages[m].text \in Seq(Nat)
  BY <1>2 DEF MessagesOK, Pieces, MessageOf
<1>5. ToSet(messages[m].text) \subseteq All(m)
  BY <1>4 DEF ToSet
<1>6. \/ final = <<>>
      \/ final \in Seq(All(m)) /\ final \in Seq(Nat) /\ ToSet(final) = All(m)
  BY <1>1, <1>2, DetailIs DEF Canonical
<1>7. /\ new.text = IF final = <<>> THEN messages[m].text ELSE final
      /\ new \in [present : BOOLEAN, text : {new.text}, streaming : BOOLEAN]
  BY DEF Completed
<1> HIDE DEF new, final
<1>8. new \in MessageOf(Nat) /\ new.text \in Seq(All(m))
        /\ ToSet(messages[m].text) \subseteq ToSet(new.text)
  <2>1. new.text \in Seq(Nat) /\ new.text \in Seq(All(m))
        /\ ToSet(messages[m].text) \subseteq ToSet(new.text)
    BY <1>4, <1>5, <1>6, <1>7
  <2>2. QED
    BY <1>7, <2>1 DEF MessageOf
<1>9. CASE messages' = messages
  BY <1>3, <1>4, <1>9 DEF MessagesOK, Grows
<1>10. CASE messages' = [messages EXCEPT ![m] = new]
  <2>1. messages' = [x \in Items |-> IF x = m THEN new ELSE messages[x]]
    BY <1>4, <1>10 DEF MessagesOK
  <2>2. messages' \in [Items -> MessageOf(Nat)]
    BY <1>4, <1>8, <2>1 DEF MessagesOK
  <2>3. \A x \in Items : messages'[x].text \in Seq(All(x))
                          /\ ToSet(messages[x].text) \subseteq ToSet(messages'[x].text)
    BY <1>4, <1>8, <2>1 DEF MessagesOK
  <2>4. QED
    BY <1>3, <2>2, <2>3 DEF MessagesOK, Grows
<1>11. QED
  BY <1>9, <1>10 DEF Dispatch, new, final

LEMMA CompleteKeeps ==
  ASSUME CursorInv, Pieces, NEW b \in Backends, Complete(b) PROVE Pieces' /\ Grows
<1> DEFINE m == ItemOf(b)
           R == IF journal[worker[b].event].type = "completed" THEN remembered[b]
                ELSE remembered[b] \ {m}
<1>1. /\ Doing(b, "complete") /\ Done(b)
      /\ \/ Dispatch(b, Completed(m, Canonical(b, m)))
         \/ messages' = messages
      /\ buffer' = [buffer EXCEPT ![b][m] = <<>>]
      /\ begun' = [begun EXCEPT ![b][m] = FALSE]
      /\ observed' = [observed EXCEPT ![b][m] = <<>>]
      /\ active' = active
      /\ remembered' = [remembered EXCEPT ![b] = R]
      /\ journal' = journal /\ streaming' = streaming /\ settled' = settled
  BY DEF Complete, script
<1>2. m \in Items
  BY <1>1, HeadAsked DEF Asked, ItemOf, Doing, Pieces
<1>3. MessagesOK' /\ Grows
  <2>1. CASE messages' = messages
    <3>1. \A x : All(x)' = All(x)
      BY <1>1, JournalKept
    <3>2. QED
      BY <2>1, <3>1 DEF MessagesOK, Grows, Pieces
  <2>2. CASE Dispatch(b, Completed(m, Canonical(b, m)))
    <3> HIDE DEF m, R
    <3>1. QED
      BY <1>1, <2>2, CompletedGrows DEF m
  <2>3. QED
    BY <1>1, <2>1, <2>2
<1>4. WorkOK'
  BY <1>1, DoneKept DEF Pieces, Doing
<1>5. MemoryOK'
  <2>1. active' = [active EXCEPT ![b] = active[b]] /\ active[b] \in Items \cup {NoItem}
    BY <1>1, SameBackend DEF Pieces, MemoryOK
  <2>2. R \in SUBSET Items /\ IsFiniteSet(R)
    <3>1. remembered[b] \in SUBSET Items /\ IsFiniteSet(remembered[b])
      BY DEF Pieces, MemoryOK
    <3>2. IsFiniteSet(remembered[b] \ {m})
      BY <3>1, FS_Difference
    <3>3. QED
      BY <3>1, <3>2
  <2>3. <<>> \in Seq(All(m)) /\ <<>> \in Seq(Nat) /\ FALSE \in BOOLEAN /\ MemoryOK
    BY DEF Pieces
  <2> HIDE DEF m, R
  <2>4. QED
    BY <1>1, <1>2, <2>1, <2>2, <2>3, MemoryKept
<1>6. QED
  BY <1>1, <1>3, <1>4, <1>5 DEF Pieces

\* The end of the turn takes nothing from a message.
LEMMA ClosingGrows ==
  ASSUME MessagesOK, journal' = journal, CloseMessages
  PROVE  /\ MessagesOK' /\ Grows
         /\ \A m \in Items : messages'[m].text = messages[m].text /\ ~messages'[m].streaming
<1>1. messages' = [m \in Items |-> [messages[m] EXCEPT !.streaming = FALSE]]
  BY DEF CloseMessages
<1>2. ASSUME NEW m \in Items
      PROVE  /\ messages'[m] \in MessageOf(Nat)
             /\ messages'[m].text = messages[m].text /\ ~messages'[m].streaming
  <2>1. messages[m] \in MessageOf(Nat) /\ messages'[m] = [messages[m] EXCEPT !.streaming = FALSE]
    BY <1>1 DEF MessagesOK
  <2>2. QED
    BY <2>1 DEF MessageOf
<1>3. \A x : All(x)' = All(x)
  BY JournalKept
<1>4. messages' \in [Items -> MessageOf(Nat)]
  BY <1>1, <1>2
<1>5. QED
  BY <1>2, <1>3, <1>4 DEF MessagesOK, Grows

LEMMA SettleKeeps ==
  ASSUME CursorInv, Pieces, NEW b \in Backends, Settle(b) PROVE Pieces' /\ Grows
<1> DEFINE R == remembered[b]
<1>1. /\ Doing(b, "settle") /\ Done(b) /\ CloseMessages
      /\ journal' = journal /\ streaming' = streaming /\ settled' = TRUE
  BY DEF Settle, script, CloseMessages
<1>2. MessagesOK' /\ Grows
  BY <1>1, ClosingGrows DEF Pieces
<1>3. WorkOK'
  BY <1>1, DoneKept DEF Pieces, Doing
<1>4. \A x : All(x)' = All(x)
  BY <1>1, JournalKept
<1>5. ASSUME UNCHANGED text PROVE MemoryOK'
  <2>1. UNCHANGED <<buffer, begun, observed, active, remembered>>
    BY <1>5 DEF text
  <2>2. MemoryOK
    BY DEF Pieces
  <2>3. \A c \in Backends, m \in Items : buffer[c][m] \in Seq(All(m)')
    BY <1>4, <2>2 DEF MemoryOK
  <2>4. QED
    BY <2>1, <2>2, <2>3 DEF MemoryOK
<1>6. ASSUME /\ buffer' = [buffer EXCEPT ![b] = [m \in Items |-> IF m \in R THEN <<>> ELSE @[m]]]
             /\ begun' = [begun EXCEPT ![b] = [m \in Items |-> @[m] /\ m \notin R]]
             /\ observed' = [observed EXCEPT ![b] =
                               [m \in Items |-> IF m \in R THEN <<>> ELSE @[m]]]
             /\ active' = [active EXCEPT ![b] = NoItem]
             /\ remembered' = [remembered EXCEPT ![b] = {}]
      PROVE  MemoryOK'
  <2>0. MemoryOK
    BY DEF Pieces
  <2>1. /\ buffer' \in [Backends -> [Items -> Seq(Nat)]]
        /\ begun' \in [Backends -> [Items -> BOOLEAN]]
        /\ observed' \in [Backends -> [Items -> Seq(Nat)]]
        /\ active' \in [Backends -> Items \cup {NoItem}]
        /\ remembered' \in [Backends -> SUBSET Items]
    BY <1>6, <2>0 DEF MemoryOK
  <2>2. ASSUME NEW c \in Backends, NEW m \in Items PROVE buffer'[c][m] \in Seq(All(m))
    <3>1. buffer[c][m] \in Seq(All(m)) /\ (buffer'[c][m] = buffer[c][m] \/ buffer'[c][m] = <<>>)
      BY <1>6, <2>0 DEF MemoryOK
    <3>2. <<>> \in Seq(All(m))
      OBVIOUS
    <3>3. QED
      BY <3>1, <3>2
  <2>3. ASSUME NEW c \in Backends PROVE IsFiniteSet(remembered'[c])
    <3>1. IsFiniteSet(remembered[c]) /\ (remembered'[c] = remembered[c] \/ remembered'[c] = {})
      BY <1>6, <2>0 DEF MemoryOK
    <3>2. QED
      BY <3>1, FS_EmptySet
  <2>4. \A c \in Backends, m \in Items : buffer'[c][m] \in Seq(All(m)')
    BY <1>4, <2>2
  <2>5. QED
    BY <2>1, <2>3, <2>4 DEF MemoryOK
<1>7. MemoryOK'
  <2>1. CASE journal[worker[b].event].type = "completed"
    BY <1>5, <2>1 DEF Settle
  <2>2. CASE journal[worker[b].event].type # "completed"
    <3>1. /\ buffer' = [buffer EXCEPT ![b] = [m \in Items |-> IF m \in R THEN <<>> ELSE @[m]]]
          /\ begun' = [begun EXCEPT ![b] = [m \in Items |-> @[m] /\ m \notin R]]
          /\ observed' = [observed EXCEPT ![b] =
                            [m \in Items |-> IF m \in R THEN <<>> ELSE @[m]]]
          /\ active' = [active EXCEPT ![b] = NoItem]
          /\ remembered' = [remembered EXCEPT ![b] = {}]
      BY <2>2 DEF Settle
    <3>2. QED
      BY <1>6, <3>1
  <2>3. QED
    BY <2>1, <2>2
<1>8. QED
  BY <1>1, <1>2, <1>3, <1>7 DEF Pieces

LEMMA UnchangedKeeps ==
  ASSUME Pieces, UNCHANGED <<journal, streaming, settled, messages>>
  PROVE  /\ Grows /\ MessagesOK'
         /\ UNCHANGED <<buffer, begun, observed, active, remembered>> => MemoryOK'
         /\ worker' = worker => WorkOK'
<1>1. \A x : All(x)' = All(x)
  BY JournalKept
<1>2. \A x : Asked(x)' = Asked(x)
  BY AskedKept
<1>3. MessagesOK /\ MemoryOK /\ WorkOK
  BY DEF Pieces
<1>4. Grows /\ MessagesOK'
  BY <1>1, <1>3 DEF Grows, MessagesOK
<1>5. ASSUME UNCHANGED <<buffer, begun, observed, active, remembered>> PROVE MemoryOK'
  <2>1. \A c \in Backends, m \in Items : buffer[c][m] \in Seq(All(m)')
    BY <1>1, <1>3 DEF MemoryOK
  <2>2. QED
    BY <1>3, <1>5, <2>1 DEF MemoryOK
<1>6. ASSUME worker' = worker PROVE WorkOK'
  <2>1. \A c \in Backends : /\ worker[c].todo \in Seq(Asked(worker[c].event)')
                            /\ \A m \in Items : worker[c].seen[m].text \in Seq(All(m)')
    BY <1>1, <1>2, <1>3, <1>6 DEF WorkOK
  <2>2. QED
    BY <1>3, <1>6, <2>1 DEF WorkOK
<1>7. QED
  BY <1>4, <1>5, <1>6

LEMMA LoadKeeps ==
  ASSUME CursorInv, Pieces, NEW b \in Backends, Load(b) PROVE Pieces' /\ Grows
<1> DEFINE e == worker[b].event
           item == journal[e].type = "item"
           todo == IF item /\ Redundant(b) THEN <<>> ELSE Tail(worker[b].todo)
           R == IF item /\ ~Redundant(b) THEN remembered[b] \cup {journal[e].item}
                ELSE remembered[b]
<1>1. /\ Doing(b, "load")
      /\ UNCHANGED <<messages, settled, journal, streaming, buffer, begun, observed, active>>
  BY DEF Load, script, store
<1>2. worker' = [worker EXCEPT ![b] = [event |-> e, todo |-> todo, seen |-> messages]]
  BY DEF Load, GoesOn
<1>3. remembered' = [remembered EXCEPT ![b] = R]
  BY DEF Load
<1>4. Tail(worker[b].todo) \in Seq(Asked(e)) /\ e \in 1..Len(journal)
  BY <1>1, HeadAsked DEF Doing, Pieces
<1>5. WorkOK'
  <2>1. todo \in Seq(Asked(e))
    <3>1. <<>> \in Seq(Asked(e))
      OBVIOUS
    <3>2. QED
      BY <1>4, <3>1
  <2>2. messages \in [Items -> MessageOf(Nat)] /\ \A m \in Items : messages[m].text \in Seq(All(m))
    BY DEF Pieces, MessagesOK
  <2> HIDE DEF e, todo
  <2>3. QED
    BY <1>1, <1>2, <2>1, <2>2, WorkKept DEF Pieces
<1>6. R \in SUBSET Items /\ IsFiniteSet(R)
  <2>1. remembered[b] \in SUBSET Items /\ IsFiniteSet(remembered[b]) /\ journal \in Scripts
    BY DEF Pieces, MemoryOK
  <2>2. item => journal[e].item \in Items
    BY <1>4, <2>1, Turn
  <2>3. IsFiniteSet(remembered[b] \cup {journal[e].item})
    BY <2>1, FS_AddElement
  <2>4. QED
    BY <2>1, <2>2, <2>3
<1>7. MessagesOK' /\ Grows
  BY <1>1, UnchangedKeeps
<1>8. MemoryOK'
  <2>1. MemoryOK /\ \A x : All(x)' = All(x)
    BY <1>1, JournalKept DEF Pieces
  <2> HIDE DEF R
  <2>2. remembered' \in [Backends -> SUBSET Items] /\ \A c \in Backends : IsFiniteSet(remembered'[c])
    BY <1>3, <1>6, <2>1 DEF MemoryOK
  <2>3. \A c \in Backends, m \in Items : buffer[c][m] \in Seq(All(m)')
    BY <2>1 DEF MemoryOK
  <2>4. QED
    BY <1>1, <2>1, <2>2, <2>3 DEF MemoryOK
<1>9. QED
  BY <1>1, <1>5, <1>7, <1>8 DEF Pieces

LEMMA TakeKeeps ==
  ASSUME CursorInv, Pieces, NEW b \in Backends, NEW e \in 1..Len(journal), Take(b, e)
  PROVE  Pieces' /\ Grows
<1> DEFINE todo == IF e \in processed[b] THEN <<>> ELSE Plan(b, e)
           seen == worker[b].seen
<1>1. UNCHANGED <<messages, settled, journal, streaming, buffer, begun, observed, active,
                  remembered>>
  BY DEF Take, script, store, text
<1>2. worker' = [worker EXCEPT ![b] = [event |-> e, todo |-> todo, seen |-> seen]]
  BY DEF Take
<1>3. todo \in Seq(Asked(e))
  <2>1. <<>> \in Seq(Asked(e))
    OBVIOUS
  <2>2. QED
    BY <2>1, PlanAsked
<1>4. seen \in [Items -> MessageOf(Nat)] /\ \A m \in Items : seen[m].text \in Seq(All(m))
  BY DEF Pieces, WorkOK
<1> HIDE DEF todo, seen
<1>5. WorkOK'
  BY <1>1, <1>2, <1>3, <1>4, WorkKept DEF Pieces
<1>6. QED
  BY <1>1, <1>5, UnchangedKeeps DEF Pieces

\* A worker without an event.
LEMMA IdleKeepsWork ==
  ASSUME CursorInv, Pieces, journal' = journal, NEW b \in Backends,
         worker' = [worker EXCEPT ![b] = Idle]
  PROVE  WorkOK'
<1> DEFINE none == PerItem(Absent)
<1>1. Absent \in MessageOf(Nat) /\ Absent.text = <<>>
  BY DEF Absent, MessageOf
<1>2. none \in [Items -> MessageOf(Nat)] /\ \A m \in Items : none[m].text \in Seq(All(m))
  <2>1. \A m \in Items : none[m] = Absent /\ <<>> \in Seq(All(m))
    BY DEF PerItem
  <2>2. none \in [Items -> MessageOf(Nat)]
    BY <1>1 DEF PerItem
  <2>3. QED
    BY <1>1, <2>1, <2>2
<1> HIDE DEF none
<1>3. <<>> \in Seq(Asked(0))
  OBVIOUS
<1>4. worker' = [worker EXCEPT ![b] = [event |-> 0, todo |-> <<>>, seen |-> none]]
  BY DEF Idle, none
<1>5. QED
  BY <1>2, <1>3, <1>4, WorkKept DEF Pieces

LEMMA FinishKeeps ==
  ASSUME CursorInv, Pieces, NEW b \in Backends, Finish(b) PROVE Pieces' /\ Grows
<1>1. /\ UNCHANGED <<messages, settled, journal, streaming, buffer, begun, observed>>
      /\ worker' = [worker EXCEPT ![b] = Idle]
  BY DEF Finish, script, store
<1>2. \E x \in {NoItem, active[b]} : active' = [active EXCEPT ![b] = x]
  BY DEF Finish
<1>3. \E R \in {{}, remembered[b]} : remembered' = [remembered EXCEPT ![b] = R]
  BY DEF Finish
<1>4. MemoryOK'
  <2>1. MemoryOK /\ \A x : All(x)' = All(x)
    BY <1>1, JournalKept DEF Pieces
  <2>2. active' \in [Backends -> Items \cup {NoItem}]
    BY <1>2, <2>1 DEF MemoryOK
  <2>3. PICK R \in {{}, remembered[b]} : remembered' = [remembered EXCEPT ![b] = R]
    BY <1>3
  <2>4. R \in SUBSET Items /\ IsFiniteSet(R)
    BY <2>1, FS_EmptySet DEF MemoryOK
  <2>5. remembered' \in [Backends -> SUBSET Items] /\ \A c \in Backends : IsFiniteSet(remembered'[c])
    BY <2>1, <2>3, <2>4 DEF MemoryOK
  <2>6. \A c \in Backends, m \in Items : buffer[c][m] \in Seq(All(m)')
    BY <2>1 DEF MemoryOK
  <2>7. QED
    BY <1>1, <2>1, <2>2, <2>5, <2>6 DEF MemoryOK
<1>5. WorkOK'
  BY <1>1, IdleKeepsWork
<1>6. QED
  BY <1>1, <1>4, <1>5, UnchangedKeeps DEF Pieces

LEMMA CrashKeeps ==
  ASSUME CursorInv, Pieces, NEW b \in Backends, Crash(b) PROVE Pieces' /\ Grows
<1>1. /\ UNCHANGED <<messages, settled, journal, streaming>>
      /\ worker' = [worker EXCEPT ![b] = Idle]
      /\ buffer' = [buffer EXCEPT ![b] = PerItem(<<>>)]
      /\ begun' = [begun EXCEPT ![b] = PerItem(FALSE)]
      /\ observed' = [observed EXCEPT ![b] = PerItem(<<>>)]
      /\ active' = [active EXCEPT ![b] = NoItem]
      /\ remembered' = [remembered EXCEPT ![b] = {}]
  BY DEF Crash, script
<1>2. MemoryOK'
  <2>1. MemoryOK /\ \A x : All(x)' = All(x)
    BY <1>1, JournalKept DEF Pieces
  <2>2. /\ PerItem(<<>>) \in [Items -> Seq(Nat)] /\ PerItem(FALSE) \in [Items -> BOOLEAN]
        /\ \A m \in Items : PerItem(<<>>)[m] = <<>>
    BY DEF PerItem
  <2>3. /\ buffer' \in [Backends -> [Items -> Seq(Nat)]]
        /\ begun' \in [Backends -> [Items -> BOOLEAN]]
        /\ observed' \in [Backends -> [Items -> Seq(Nat)]]
        /\ active' \in [Backends -> Items \cup {NoItem}]
        /\ remembered' \in [Backends -> SUBSET Items]
    BY <1>1, <2>1, <2>2 DEF MemoryOK
  <2>4. ASSUME NEW c \in Backends, NEW m \in Items PROVE buffer'[c][m] \in Seq(All(m))
    <3>1. buffer[c][m] \in Seq(All(m)) /\ (buffer'[c][m] = buffer[c][m] \/ buffer'[c][m] = <<>>)
      BY <1>1, <2>1, <2>2 DEF MemoryOK
    <3>2. <<>> \in Seq(All(m))
      OBVIOUS
    <3>3. QED
      BY <3>1, <3>2
  <2>5. ASSUME NEW c \in Backends PROVE IsFiniteSet(remembered'[c])
    <3>1. IsFiniteSet(remembered[c]) /\ (remembered'[c] = remembered[c] \/ remembered'[c] = {})
      BY <1>1, <2>1 DEF MemoryOK
    <3>2. QED
      BY <3>1, FS_EmptySet
  <2>6. \A c \in Backends, m \in Items : buffer'[c][m] \in Seq(All(m)')
    BY <2>1, <2>4
  <2>7. QED
    BY <2>3, <2>5, <2>6 DEF MemoryOK
<1>3. WorkOK'
  BY <1>1, IdleKeepsWork
<1>4. QED
  BY <1>1, <1>2, <1>3, UnchangedKeeps DEF Pieces

LEMMA FailsKeeps ==
  ASSUME CursorInv, Pieces, NEW b \in Backends, Fails(b) PROVE Pieces' /\ Grows
<1> DEFINE m == ItemOf(b)
           e == worker[b].event
<1>1. /\ UNCHANGED <<messages, settled, journal, streaming, observed>>
      /\ worker' = [worker EXCEPT ![b] = Idle] /\ worker[b].todo # <<>> /\ FailsAfter(b)
  BY DEF Fails, script, store
<1>2. ASSUME Doing(b, "append"), Coalesce(b, m, e) PROVE MemoryOK'
  <2> DEFINE s == IF Chunk(b, m, e) = <<>> THEN Append(buffer[b][m], e) ELSE <<>>
             g == begun[b][m] \/ streaming
             o == observed[b][m]
             R == remembered[b] \cup {m}
  <2>1. /\ buffer' = [buffer EXCEPT ![b][m] = s] /\ begun' = [begun EXCEPT ![b][m] = g]
        /\ active' = [active EXCEPT ![b] = m]
        /\ remembered' = [remembered EXCEPT ![b] = R]
    BY <1>2 DEF Coalesce
  <2>2. /\ m \in Items /\ Append(buffer[b][m], e) \in Seq(All(m))
    BY <1>2, ChunkIs
  <2>3. observed' = [observed EXCEPT ![b][m] = o]
    BY <1>1, <2>2, SameItem DEF Pieces, MemoryOK
  <2>4. s \in Seq(All(m))
    BY <2>2
  <2>5. s \in Seq(Nat)
    BY <2>4, PiecesOf DEF Pieces
  <2>6. g \in BOOLEAN /\ o \in Seq(Nat)
    BY <2>2 DEF Pieces, MemoryOK
  <2>7. R \in SUBSET Items /\ IsFiniteSet(R)
    BY <2>2, FS_AddElement DEF Pieces, MemoryOK
  <2> HIDE DEF s, g, o, R, m, e
  <2>8. QED
    BY <1>1, <2>1, <2>2, <2>3, <2>4, <2>5, <2>6, <2>7, MemoryKept DEF Pieces
<1>3. ASSUME Doing(b, "flush") \/ Doing(b, "tail"), TakeBuffer(b, m),
             UNCHANGED <<begun, active, remembered>>
      PROVE  MemoryOK'
  <2>1. m \in Items
    BY <1>3, HeadAsked DEF Asked, ItemOf, Doing, Pieces
  <2>2. QED
    BY <1>1, <1>3, <2>1, EmptiedKeeps
<1>4. ASSUME UNCHANGED <<buffer, begun, active, remembered>> PROVE MemoryOK'
  BY <1>1, <1>4, UnchangedKeeps
<1>5. MemoryOK'
  BY <1>1, <1>2, <1>3, <1>4 DEF FailsAfter
<1>6. WorkOK'
  BY <1>1, IdleKeepsWork
<1>7. QED
  BY <1>1, <1>5, <1>6, UnchangedKeeps DEF Pieces

LEMMA PiecesInit == ASSUME Init PROVE Pieces
<1>1. /\ journal \in Scripts /\ streaming \in BOOLEAN /\ messages = PerItem(Absent)
      /\ settled = FALSE /\ worker = PerBackend(Idle)
      /\ buffer = PerBackend(PerItem(<<>>)) /\ begun = PerBackend(PerItem(FALSE))
      /\ observed = PerBackend(PerItem(<<>>)) /\ active = PerBackend(NoItem)
      /\ remembered = PerBackend({})
  BY DEF Init
<1>2. Absent \in MessageOf(Nat) /\ Absent.text = <<>>
  BY DEF Absent, MessageOf
<1>3. PerItem(Absent) \in [Items -> MessageOf(Nat)]
      /\ \A m \in Items : PerItem(Absent)[m].text = <<>>
  BY <1>2 DEF PerItem
<1>0. \A m : <<>> \in Seq(All(m))
  OBVIOUS
<1>4. MessagesOK
  BY <1>0, <1>1, <1>3 DEF MessagesOK
<1>5. WorkOK
  <2>1. \A b \in Backends : worker[b].todo = <<>> /\ worker[b].seen = PerItem(Absent)
    BY <1>1 DEF PerBackend, Idle
  <2>2. QED
    <3>1. \A b \in Backends : <<>> \in Seq(Asked(worker[b].event))
      OBVIOUS
    <3>2. QED
      BY <1>0, <1>3, <2>1, <3>1 DEF WorkOK
<1>6. MemoryOK
  <2>1. \A b \in Backends : IsFiniteSet(remembered[b])
    BY <1>1, FS_EmptySet DEF PerBackend
  <2>2. \A b \in Backends, m \in Items : buffer[b][m] = <<>>
    BY <1>1 DEF PerBackend, PerItem
  <2>3. QED
    BY <1>1, <2>1, <2>2 DEF MemoryOK, PerBackend, PerItem
<1>7. QED
  BY <1>1, <1>4, <1>5, <1>6 DEF Pieces

LEMMA PiecesNext ==
  ASSUME CursorInv, Pieces, [Next]_vars PROVE Pieces' /\ Grows
<1>1. CASE UNCHANGED vars
  <2>1. UNCHANGED <<journal, streaming, settled, messages, worker, buffer, begun, observed,
                    active, remembered>>
    BY <1>1 DEF vars, script, store, text
  <2>2. QED
    BY <2>1, UnchangedKeeps DEF Pieces
<1>2. ASSUME NEW b \in Backends, Boot(b) \/ Checkpoint(b) PROVE Pieces' /\ Grows
  <2>1. UNCHANGED <<journal, streaming, settled, messages, worker, buffer, begun, observed,
                    active, remembered>>
    BY <1>2 DEF Boot, Checkpoint, script, store, text
  <2>2. QED
    BY <2>1, UnchangedKeeps DEF Pieces
<1>3. ASSUME NEW b \in Backends, Step(b) PROVE Pieces' /\ Grows
  BY <1>3, AppendTextKeeps, FlushKeeps, SettleKeeps, LoadKeeps, WriteTailKeeps, CompleteKeeps,
     FinishKeeps DEF Step
<1>4. QED
  BY <1>1, <1>2, <1>3, CrashKeeps, TakeKeeps, FailsKeeps DEF Next

LEMMA PiecesInvariance == Spec => [](CursorInv /\ Pieces)
<1>1. Init => CursorInv /\ Pieces
  BY CursorsInit, PiecesInit
<1>2. CursorInv /\ Pieces /\ [Next]_vars => CursorInv' /\ Pieces'
  BY CursorsNext, PiecesNext
<1>3. QED
  BY <1>1, <1>2, PTL DEF Spec

\* What a message has shown is never taken back, whatever fails and is replayed: a later
\* text has every piece of it (the projection of thread.message-sent).
THEOREM TextIsNeverTakenBack == Spec => NothingTakenBack
<1>1. CursorInv /\ Pieces /\ [Next]_vars
        => [\A m \in Items : ToSet(messages[m].text) \subseteq ToSet(messages'[m].text)]_messages
  BY PiecesNext DEF Grows
<1>2. QED
  BY <1>1, PiecesInvariance, PTL DEF Spec, NothingTakenBack

-----------------------------------------------------------------------------
(* What every backend does with a turn, whatever the others do *)

IsDelta(t, i, m) == t[i].type = "delta" /\ t[i].item = m

\* The stream of an item ends with its item event, with text of another, or with the turn.
Closes(t, j, m) ==
  \/ t[j].type \in {"completed", "aborted"}
  \/ t[j].type = "item" /\ t[j].item = m
  \/ t[j].type = "delta" /\ t[j].item # m

\* What the stream of an item has shown after event e, and what of it is coalesced when S
\* are the events that send what they find.
Stream(t, m, e) == {i \in 1..e : IsDelta(t, i, m) /\ \A j \in i..e : ~Closes(t, j, m)}
PendingIn(t, S, m, e) == {i \in Stream(t, m, e) : \A j \in i..e : j \notin S}

Sends(t, s, S, e) ==
  /\ t[e].type = "delta"
  /\ \/ s /\ (Stream(t, t[e].item, e - 1) = {} \/ t[e].ends)
     \/ Cardinality(PendingIn(t, S, t[e].item, e - 1) \cup {e}) > BufferLimit

\* The events whose text goes out at once, or makes the coalescer overflow.
IsSchedule(t, s, S) == S \subseteq 1..Len(t) /\ \A e \in 1..Len(t) : e \in S <=> Sends(t, s, S, e)
Schedule(t, s) == CHOOSE S \in SUBSET (1..Len(t)) : IsSchedule(t, s, S)
Pending(t, s, m, e) == PendingIn(t, Schedule(t, s), m, e)

\* What is known of a turn, event by event.
LEMMA TurnOf ==
  ASSUME NEW t \in Scripts
  PROVE  /\ Len(t) \in Nat /\ Len(t) >= 1 /\ DOMAIN t = 1..Len(t)
         /\ \A i \in 1..Len(t) :
              /\ t[i].type \in {"delta", "item", "completed", "aborted"}
              /\ t[i].type \in {"delta", "item"} => t[i].item \in Items
              /\ t[i].type = "item" => t[i].text \in {"none", "same", "more"}
              /\ t[i].type = "delta" => t[i].ends \in BOOLEAN
         /\ \A i \in 1..Len(t) : t[i].type \in {"completed", "aborted"} => i = Len(t)
         /\ \A i, k \in 1..Len(t) :
              i < k /\ t[i].type = "item" /\ t[k].type \in {"delta", "item"}
                => t[i].item # t[k].item
         /\ \A i, j, k, e \in 1..Len(t) :
              /\ i < j /\ j < k /\ k < e
              /\ t[i].type = "delta" /\ t[j].type = "delta" /\ t[k].type = "delta"
              /\ t[e].type = "item" /\ t[i].item # t[j].item
              /\ t[i].item = t[k].item /\ t[i].item = t[e].item
              => t[e].text # "more"
<1>1. t \in Seq(EventType) /\ Orderly(t)
  BY IngestionAssumption, TurnAssumption
<1>2. Len(t) \in Nat /\ DOMAIN t = 1..Len(t) /\ Len(t) >= 1
  BY <1>1 DEF Orderly
<1>3. ASSUME NEW i \in 1..Len(t)
      PROVE  /\ t[i].type \in {"delta", "item", "completed", "aborted"}
             /\ t[i].type \in {"delta", "item"} => t[i].item \in Items
             /\ t[i].type = "item" => t[i].text \in {"none", "same", "more"}
             /\ t[i].type = "delta" => t[i].ends \in BOOLEAN
  <2>1. t[i] \in EventType
    BY <1>1, <1>2
  <2>2. QED
    BY <2>1 DEF EventType
<1>4. \A i \in 1..Len(t) : t[i].type \in {"completed", "aborted"} => i = Len(t)
  BY <1>1, <1>2 DEF Orderly
<1>5. \A i, k \in 1..Len(t) :
        i < k /\ t[i].type = "item" /\ t[k].type \in {"delta", "item"} => t[i].item # t[k].item
  BY <1>1, <1>2 DEF Orderly
<1>7. \A i, j, k, e \in 1..Len(t) :
        /\ i < j /\ j < k /\ k < e
        /\ t[i].type = "delta" /\ t[j].type = "delta" /\ t[k].type = "delta"
        /\ t[e].type = "item" /\ t[i].item # t[j].item
        /\ t[i].item = t[k].item /\ t[i].item = t[e].item
        => t[e].text # "more"
  <2> TAKE i, j, k, e \in 1..Len(t)
  <2> HAVE /\ i < j /\ j < k /\ k < e
           /\ t[i].type = "delta" /\ t[j].type = "delta" /\ t[k].type = "delta"
           /\ t[e].type = "item" /\ t[i].item # t[j].item
           /\ t[i].item = t[k].item /\ t[i].item = t[e].item
  <2>1. QED
    BY <1>1, <1>2, Zenon DEF Orderly
<1>8. \A i \in 1..Len(t) :
        /\ t[i].type \in {"delta", "item", "completed", "aborted"}
        /\ t[i].type \in {"delta", "item"} => t[i].item \in Items
        /\ t[i].type = "item" => t[i].text \in {"none", "same", "more"}
        /\ t[i].type = "delta" => t[i].ends \in BOOLEAN
  BY <1>3
<1>9. QED
  BY ONLY <1>2, <1>4, <1>5, <1>7, <1>8, Zenon

\* A stream is a finite set of events so far.
LEMMA StreamIs ==
  ASSUME NEW t, NEW m, NEW e \in Nat
  PROVE  /\ Stream(t, m, e) \subseteq 1..e /\ Stream(t, m, e) \subseteq Nat
         /\ IsFiniteSet(Stream(t, m, e))
<1>1. Stream(t, m, e) \subseteq 1..e
  BY DEF Stream
<1>2. IsFiniteSet(1..e)
  BY FS_Interval
<1>3. IsFiniteSet(Stream(t, m, e))
  BY <1>1, <1>2, FS_Subset
<1>4. QED
  BY <1>1, <1>3

\* What is coalesced is part of the stream.
LEMMA PendingInIs ==
  ASSUME NEW t, NEW S, NEW m, NEW e \in Nat
  PROVE  /\ PendingIn(t, S, m, e) \subseteq Stream(t, m, e)
         /\ PendingIn(t, S, m, e) \subseteq 1..e /\ PendingIn(t, S, m, e) \subseteq Nat
         /\ IsFiniteSet(PendingIn(t, S, m, e))
<1>1. PendingIn(t, S, m, e) \subseteq Stream(t, m, e)
  BY DEF PendingIn
<1>2. QED
  BY <1>1, StreamIs, FS_Subset

\* One event and the stream of an item.
LEMMA StreamStep ==
  ASSUME NEW t, NEW m, NEW e \in Nat, e >= 1
  PROVE  Stream(t, m, e) = IF Closes(t, e, m) THEN {}
                           ELSE IF IsDelta(t, e, m) THEN Stream(t, m, e - 1) \cup {e}
                           ELSE Stream(t, m, e - 1)
<1>1. ASSUME NEW i \in 1..(e - 1)
      PROVE  (\A j \in i..e : ~Closes(t, j, m))
               <=> (\A j \in i..(e - 1) : ~Closes(t, j, m)) /\ ~Closes(t, e, m)
  <2>1. i..e = (i..(e - 1)) \cup {e}
    OBVIOUS
  <2>2. QED
    BY <2>1
<1>2. e..e = {e} /\ 1..e = (1..(e - 1)) \cup {e}
  OBVIOUS
<1>3. \A i : i \in Stream(t, m, e)
        <=> \/ i \in Stream(t, m, e - 1) /\ ~Closes(t, e, m)
            \/ i = e /\ IsDelta(t, e, m) /\ ~Closes(t, e, m)
  BY <1>1, <1>2 DEF Stream
<1>4. QED
  BY <1>3

\* One event and what is coalesced of an item.
LEMMA PendingInStep ==
  ASSUME NEW t, NEW S, NEW m, NEW e \in Nat, e >= 1
  PROVE  PendingIn(t, S, m, e) =
           IF Closes(t, e, m) \/ e \in S THEN {}
           ELSE IF IsDelta(t, e, m) THEN PendingIn(t, S, m, e - 1) \cup {e}
           ELSE PendingIn(t, S, m, e - 1)
<1>1. ASSUME NEW i \in 1..(e - 1)
      PROVE  (\A j \in i..e : j \notin S) <=> (\A j \in i..(e - 1) : j \notin S) /\ e \notin S
  <2>1. i..e = (i..(e - 1)) \cup {e}
    OBVIOUS
  <2>2. QED
    BY <2>1
<1>2. e..e = {e} /\ Stream(t, m, e - 1) \subseteq 1..(e - 1)
  BY DEF Stream
<1>3. \A i : i \in Stream(t, m, e)
        <=> \/ i \in Stream(t, m, e - 1) /\ ~Closes(t, e, m)
            \/ i = e /\ IsDelta(t, e, m) /\ ~Closes(t, e, m)
  <2>1. e \notin Stream(t, m, e - 1)
    BY <1>2
  <2>2. QED
    BY <2>1, StreamStep
<1>4. \A i : i \in PendingIn(t, S, m, e)
        <=> \/ i \in PendingIn(t, S, m, e - 1) /\ ~Closes(t, e, m) /\ e \notin S
            \/ i = e /\ IsDelta(t, e, m) /\ ~Closes(t, e, m) /\ e \notin S
  BY <1>1, <1>2, <1>3 DEF PendingIn
<1>5. QED
  BY <1>4

\* What is coalesced before an event depends on the earlier ones only.
LEMMA PendingInAgrees ==
  ASSUME NEW t, NEW S, NEW R, NEW m, NEW e \in Nat, \A j \in 1..e : j \in S <=> j \in R
  PROVE  PendingIn(t, S, m, e) = PendingIn(t, R, m, e)
<1>1. Stream(t, m, e) \subseteq 1..e
  BY StreamIs
<1>2. ASSUME NEW i \in Stream(t, m, e)
      PROVE  (\A j \in i..e : j \notin S) <=> (\A j \in i..e : j \notin R)
  <2>1. \A j \in i..e : j \in 1..e
    BY <1>1
  <2>2. QED
    BY <2>1
<1>3. QED
  BY <1>2 DEF PendingIn

\* Whether an event sends depends on the earlier ones only.
LEMMA SendsAgrees ==
  ASSUME NEW t, NEW s, NEW S, NEW R, NEW e \in Nat, e >= 1,
         \A j \in 1..(e - 1) : j \in S <=> j \in R
  PROVE  Sends(t, s, S, e) <=> Sends(t, s, R, e)
<1>1. e - 1 \in Nat
  OBVIOUS
<1>2. PendingIn(t, S, t[e].item, e - 1) = PendingIn(t, R, t[e].item, e - 1)
  BY <1>1, PendingInAgrees
<1>3. QED
  BY <1>2 DEF Sends

\* Every turn has a schedule.
LEMMA ScheduleExists ==
  ASSUME NEW t \in Scripts, NEW s PROVE IsSchedule(t, s, Schedule(t, s))
<1> DEFINE Upto(k, S) == S \subseteq 1..k /\ \A e \in 1..k : e \in S <=> Sends(t, s, S, e)
           T == {k \in Nat : \E S : Upto(k, S)}
<1>1. 0 \in T
  <2>1. Upto(0, {})
    OBVIOUS
  <2> HIDE DEF Upto
  <2>2. \E S : Upto(0, S)
    BY <2>1
  <2>3. QED
    BY <2>2
<1>2. ASSUME NEW k \in Nat, k \in T PROVE k + 1 \in T
  <2>1. PICK S : Upto(k, S)
    BY <1>2
  <2> DEFINE e == k + 1
             R == IF Sends(t, s, S, e) THEN S \cup {e} ELSE S
  <2>2. /\ e \in Nat /\ e >= 1 /\ e - 1 = k /\ 1..e = (1..k) \cup {e} /\ e \notin 1..k
        /\ \A d \in 1..k : d \in Nat /\ d >= 1 /\ \A j \in 1..(d - 1) : j \in 1..k
    OBVIOUS
  <2>3. \A j \in 1..k : j \in S <=> j \in R
    BY <2>2
  <2>4. R \subseteq 1..e /\ (e \in R <=> Sends(t, s, S, e))
    BY <2>1, <2>2
  <2> HIDE DEF R, e
  <2>5. Sends(t, s, S, e) <=> Sends(t, s, R, e)
    BY <2>2, <2>3, SendsAgrees
  <2>6. ASSUME NEW d \in 1..k PROVE d \in R <=> Sends(t, s, R, d)
    <3>1. Sends(t, s, S, d) <=> Sends(t, s, R, d)
      BY <2>2, <2>3, SendsAgrees
    <3>2. QED
      BY <2>1, <2>3, <3>1
  <2>7. Upto(e, R)
    BY <2>2, <2>4, <2>5, <2>6
  <2>8. QED
    BY <2>2, <2>7 DEF e
<1>3. Nat \subseteq T
  <2> HIDE DEF T
  <2>1. QED
    BY <1>1, <1>2, Induction
<1>4. Len(t) \in Nat
  BY TurnOf
<1>5. PICK S : Upto(Len(t), S)
  BY <1>3, <1>4
<1>6. IsSchedule(t, s, S) /\ S \in SUBSET (1..Len(t))
  BY <1>5 DEF IsSchedule
<1>7. QED
  BY <1>6 DEF Schedule

\* What is coalesced in the schedule of the turn.
LEMMA PendingIs ==
  ASSUME NEW t, NEW s, NEW m, NEW e \in Nat
  PROVE  /\ Pending(t, s, m, e) \subseteq Stream(t, m, e) /\ Pending(t, s, m, e) \subseteq 1..e
         /\ Pending(t, s, m, e) \subseteq Nat /\ IsFiniteSet(Pending(t, s, m, e))
BY PendingInIs DEF Pending

\* The events that send, and what is coalesced around an event.
LEMMA ScheduleIs ==
  ASSUME NEW t \in Scripts, NEW s, NEW e \in 1..Len(t)
  PROVE  e \in Schedule(t, s)
           <=> /\ t[e].type = "delta"
               /\ \/ s /\ (Stream(t, t[e].item, e - 1) = {} \/ t[e].ends)
                  \/ Cardinality(Pending(t, s, t[e].item, e - 1) \cup {e}) > BufferLimit
BY ScheduleExists DEF IsSchedule, Sends, Pending

LEMMA PendingStep ==
  ASSUME NEW t, NEW s, NEW m, NEW e \in Nat, e >= 1
  PROVE  Pending(t, s, m, e) =
           IF Closes(t, e, m) \/ e \in Schedule(t, s) THEN {}
           ELSE IF IsDelta(t, e, m) THEN Pending(t, s, m, e - 1) \cup {e}
           ELSE Pending(t, s, m, e - 1)
BY PendingInStep DEF Pending

\* Only one item has an open stream.
LEMMA OneStream ==
  ASSUME NEW t, NEW e \in Nat, NEW m, NEW x, Stream(t, m, e) # {}, Stream(t, x, e) # {}
  PROVE  m = x
<1>1. PICK i \in 1..e : IsDelta(t, i, m) /\ \A j \in i..e : ~Closes(t, j, m)
  BY DEF Stream
<1>2. PICK k \in 1..e : IsDelta(t, k, x) /\ \A j \in k..e : ~Closes(t, j, x)
  BY DEF Stream
<1>3. i \in k..e \/ k \in i..e
  OBVIOUS
<1>4. QED
  BY <1>1, <1>2, <1>3 DEF IsDelta, Closes

\* A stream that its item event completes with more text was never interrupted.
LEMMA WholeStream ==
  ASSUME NEW t \in Scripts, NEW e \in 1..Len(t), NEW m, t[e].type = "item", t[e].item = m,
         t[e].text = "more", Stream(t, m, e - 1) # {},
         NEW i \in 1..(e - 1), t[i].type \in {"delta", "item"}, t[i].item = m
  PROVE  i \in Stream(t, m, e - 1)
<1> DEFINE n == Len(t)
<1>0. n \in Nat
  BY TurnOf
<1>1. /\ \A j \in 1..n : t[j].type \in {"completed", "aborted"} => j = n
      /\ \A j, k \in 1..n : j < k /\ t[j].type = "item" /\ t[k].type \in {"delta", "item"}
                             => t[j].item # t[k].item
  BY TurnOf
<1>2. \A j, k, l, d \in 1..n :
        /\ j < k /\ k < l /\ l < d
        /\ t[j].type = "delta" /\ t[k].type = "delta" /\ t[l].type = "delta"
        /\ t[d].type = "item" /\ t[j].item # t[k].item
        /\ t[j].item = t[l].item /\ t[j].item = t[d].item
        => t[d].text # "more"
  BY TurnOf
<1>3. PICK l \in 1..(e - 1) : IsDelta(t, l, m) /\ \A j \in l..(e - 1) : ~Closes(t, j, m)
  BY DEF Stream
<1> HIDE DEF n
<1>4. /\ e \in 1..n /\ i \in 1..n /\ i < e
      /\ \A j \in 1..(e - 1) : j \in 1..n /\ j < e /\ j # n
  BY <1>0 DEF n
<1>5. t[i].type = "delta"
  BY <1>1, <1>4
<1>6. ASSUME NEW j \in i..(e - 1), Closes(t, j, m) PROVE FALSE
  <2>1. j \in 1..(e - 1) /\ j \in 1..n /\ j # n /\ j < e
    BY <1>0, <1>4
  <2>2. t[j].type = "delta" /\ t[j].item # m
    BY <1>1, <1>4, <1>6, <2>1 DEF Closes
  <2>3. j < l
    BY <1>3, <1>6, <2>1
  <2>4. i < j
    BY <1>5, <2>1, <2>2
  <2>5. l \in 1..n /\ l < e /\ t[l].type = "delta" /\ t[l].item = m
    BY <1>3, <1>4 DEF IsDelta
  <2>6. QED
    BY <1>2, <1>4, <1>5, <2>1, <2>2, <2>3, <2>4, <2>5
<1>7. QED
  BY <1>5, <1>6 DEF Stream, IsDelta

-----------------------------------------------------------------------------
(* What the receipts tell *)

\* What the stream of an item has shown after an event of this turn, and what of it a
\* process that was given every event still coalesces.
St(m, e) == Stream(journal, m, e)
Pd(m, e) == Pending(journal, streaming, m, e)

\* The commands without which the text of an event is not complete.
Needed(e, op, m) ==
  \/ op = "append" /\ e \in Schedule(journal, streaming) /\ journal[e].item = m
  \/ /\ op = "tail" /\ journal[e].type \in {"delta", "item"} /\ Closes(journal, e, m)
     /\ \/ Pd(m, e - 1) # {}
        \/ journal[e].type = "item" /\ journal[e].text = "more" /\ St(m, e - 1) = {}
  \/ op = "flush" /\ journal[e].type = "completed" /\ Pd(m, e - 1) # {}
  \/ op = "complete" /\ journal[e].type = "item" /\ journal[e].item = m /\ journal[e].text = "more"


Ops == {"append", "tail", "flush", "complete"}
\* Everything that an event needs has its receipt, and the turn is settled at its end.
Receipted(e) == \A op \in Ops, m \in Items : Needed(e, op, m) => <<e, op, m>> \in receipts
Passed(e) == Receipted(e) /\ (journal[e].type \in {"completed", "aborted"} => settled)

\* A command was dispatched for an event that needs it, or closes a message.
Legit ==
  \A r \in receipts : \E e \in 1..Len(journal), op \in Ops, m \in Items :
    /\ r = <<e, op, m>>
    /\ Needed(e, op, m) \/ (op = "complete" /\ Closes(journal, e, m))

\* No command of an event is dispatched before all that the earlier events need, and a
\* message is completed last.
Prior ==
  \A e \in 1..Len(journal), op \in Ops, m \in Items : <<e, op, m>> \in receipts =>
    /\ \A d \in 1..(e - 1) : Receipted(d)
    /\ op = "complete" =>
         \A o \in Ops : Needed(e, o, m) => <<e, o, m>> \in receipts

\* The pieces of an item that some receipt stands for.
Covered(m) ==
  {i \in All(m) : \E e \in 1..Len(journal), op \in Ops :
     /\ <<e, op, m>> \in receipts
     /\ i < e \/ (i = e /\ (op = "tail" => St(m, e - 1) = {}))}

\* The receipts tell what a message shows.
TextsTold == \A m \in Items : messages[m].text = InOrder(Covered(m))

SettledTold ==
  settled => /\ \A e \in 1..Len(journal) : Receipted(e)
             /\ \A m \in Items : ~messages[m].streaming

\* What the store tells: the cursor covers only events whose text is out.
Told ==
  /\ Legit /\ Prior /\ TextsTold /\ SettledTold
  /\ \A e \in 1..durable : Passed(e)

-----------------------------------------------------------------------------
(* Where a process stands *)

\* A worker is at an event that it has not processed; up to where its memory reaches.
At(b) == worker[b].event # 0 /\ worker[b].event \notin processed[b]
Reached(b) == IF At(b) THEN worker[b].event - 1 ELSE next[b] - 1

\* Where a backend stands: everything before it is out, whoever sent it.
Positioned(b) ==
  /\ next[b] \in Nat /\ next[b] >= 1 /\ Reached(b) \in 0..Len(journal)
  /\ At(b) => worker[b].event \in 1..Len(journal) /\ next[b] = worker[b].event + 1
  /\ processed[b] \subseteq 1..Reached(b)
  /\ cursor[b] <= Reached(b)
  /\ \A e \in 1..Reached(b) : Passed(e)
  /\ ~up[b] => next[b] = 1 /\ worker[b] = Idle

\* A memory that is what event k leaves.
BufferAt(b, y, k) == buffer[b][y] = InOrder(Pd(y, k))
StreamAt(b, y, k) == observed[b][y] = InOrder(St(y, k))
ActiveAt(b, k) ==
  \/ active[b] = NoItem /\ \A y \in Items : St(y, k) = {}
  \/ active[b] \in Items /\ St(active[b], k) # {}
TextAt(b, k) == \A y \in Items : BufferAt(b, y, k) /\ StreamAt(b, y, k)

\* What a process knows of a message whose stream it has observed.
Remembers(b) ==
  /\ \A y \in Items : begun[b][y] = (streaming /\ observed[b][y] # <<>>)
  /\ \A y \in Items : observed[b][y] # <<>> => y \in remembered[b]

Resting(b) == worker[b].todo = <<>> /\ TextAt(b, next[b] - 1) /\ ActiveAt(b, next[b] - 1)

TailSent(e, y) == Needed(e, "tail", y) => <<e, "tail", y>> \in receipts

\* A worker at text: what is left of its plan and what is in memory by then.
InDelta(b) ==
  LET e == worker[b].event
      m == journal[e].item
      a == active[b]
      todo == worker[b].todo IN
  \/ todo = <<>> /\ TextAt(b, e) /\ a = m /\ Receipted(e)
  \/ /\ todo = <<Op("append", m)>>
     /\ BufferAt(b, m, e - 1) /\ StreamAt(b, m, e - 1)
     /\ \A y \in Items : y # m => /\ buffer[b][y] = <<>> /\ observed[b][y] = <<>>
                                  /\ TailSent(e, y)
  \/ /\ a \in Items /\ a # m /\ St(a, e - 1) # {}
     /\ todo = <<Op("complete", a), Op("append", m)>>
     /\ \A y \in Items : buffer[b][y] = <<>> /\ StreamAt(b, y, e - 1)
     /\ TailSent(e, a)
  \/ /\ a \in Items /\ a # m /\ St(a, e - 1) # {} /\ TextAt(b, e - 1)
     /\ todo \in {<<Op("tail", a), Op("complete", a), Op("append", m)>>,
                  <<Op("load", NoItem), Op("tail", a), Op("complete", a), Op("append", m)>>}

\* What a worker has read of a message whose stream it has not observed.
SeenAt(b, e, m) ==
  St(m, e - 1) = {} =>
    \/ worker[b].seen[m].text = Said(m, e - 1)
    \/ worker[b].seen[m].text = Said(m, e) /\ TailSent(e, m)

\* A worker at an item event.
InItem(b) ==
  LET e == worker[b].event
      m == journal[e].item
      todo == worker[b].todo IN
  /\ ActiveAt(b, e - 1)
  /\ \/ todo = <<>> /\ TextAt(b, e) /\ Receipted(e)
     \/ /\ todo = <<Op("complete", m)>> /\ TailSent(e, m)
        /\ \A y \in Items : BufferAt(b, y, e) /\ StreamAt(b, y, e - 1)
     \/ /\ todo = <<Op("tail", m), Op("complete", m)>> /\ SeenAt(b, e, m)
        /\ TextAt(b, e - 1)
     \/ /\ todo = <<Op("load", NoItem), Op("tail", m), Op("complete", m)>>
        /\ TextAt(b, e - 1)

\* A worker at the end of the turn, whose flushes may come in any order of the items.
InCompleted(b) ==
  LET e == worker[b].event
      todo == worker[b].todo IN
  /\ Ordered(todo)
  /\ Op("settle", NoItem) \in ToSet(todo) \/ settled
  /\ \A y \in Items :
       /\ \/ BufferAt(b, y, e - 1) /\ Op("flush", y) \in ToSet(todo)
          \/ buffer[b][y] = <<>> /\ (Needed(e, "flush", y) => <<e, "flush", y>> \in receipts)
       /\ \/ StreamAt(b, y, e - 1) /\ Op("complete", y) \in ToSet(todo)
          \/ observed[b][y] = <<>>

\* A worker at an abort, which sends nothing.
InAborted(b) ==
  LET e == worker[b].event
      todo == worker[b].todo IN
  \/ todo = <<>> /\ TextAt(b, e) /\ active[b] = NoItem /\ settled
  \/ todo = <<Op("settle", NoItem)>> /\ TextAt(b, e - 1)

InEvent(b) ==
  LET type == journal[worker[b].event].type IN
  /\ type = "delta" => InDelta(b)
  /\ type = "item" => InItem(b)
  /\ type = "completed" => InCompleted(b)
  /\ type = "aborted" => InAborted(b)

\* A backend computes from the journal alone what it coalesces and sends, whenever it was
\* started: this is why its replays collapse on the receipts of the others.
Following(b) ==
  /\ Positioned(b) /\ Remembers(b)
  /\ IF At(b) THEN InEvent(b) ELSE Resting(b)

\* The inductive invariant of a turn that is not torn.
Transcript == ~torn => Told /\ \A b \in Backends : Following(b)

-----------------------------------------------------------------------------
(* What an event does to the streams, and what it needs *)

\* The numbers of the events.
LEMMA EventNumbers ==
  ASSUME journal \in Scripts, NEW e \in 1..Len(journal)
  PROVE  e \in Nat /\ e >= 1 /\ e - 1 \in Nat /\ Len(journal) \in Nat /\ e <= Len(journal)
<1>1. Len(journal) \in Nat
  BY Turn
<1>2. QED
  BY <1>1

\* Before the first event nothing is streamed.
LEMMA NothingYet == ASSUME NEW m PROVE St(m, 0) = {} /\ Pd(m, 0) = {}
<1>1. 1..0 = {}
  OBVIOUS
<1>2. QED
  BY <1>1 DEF St, Pd, Stream, Pending, PendingIn

\* Streams and what is coalesced of them are finite sets of positions.
LEMMA StreamsAre ==
  ASSUME NEW m, NEW k \in Nat
  PROVE  /\ Pd(m, k) \subseteq St(m, k) /\ St(m, k) \subseteq 1..k /\ Pd(m, k) \subseteq 1..k
         /\ St(m, k) \subseteq Nat /\ Pd(m, k) \subseteq Nat
         /\ IsFiniteSet(St(m, k)) /\ IsFiniteSet(Pd(m, k))
BY StreamIs, PendingIs DEF St, Pd

\* Two items never have an open stream at once.
LEMMA OneOpen ==
  ASSUME NEW k \in Nat, NEW m, NEW y, St(m, k) # {}, y # m
  PROVE  St(y, k) = {} /\ Pd(y, k) = {}
BY OneStream, StreamsAre DEF St

\* The type of an event that sends, or that an event closes a stream.
LEMMA DeltaEvent ==
  ASSUME journal \in Scripts, NEW e \in 1..Len(journal), journal[e].type = "delta",
         NEW m, m = journal[e].item
  PROVE  /\ \A y : y # m => St(y, e) = {} /\ Pd(y, e) = {}
         /\ St(m, e) = St(m, e - 1) \cup {e}
         /\ Pd(m, e) = IF e \in Schedule(journal, streaming) THEN {} ELSE Pd(m, e - 1) \cup {e}
         /\ e \in Schedule(journal, streaming)
              <=> \/ streaming /\ (St(m, e - 1) = {} \/ journal[e].ends)
                  \/ Cardinality(Pd(m, e - 1) \cup {e}) > BufferLimit
         /\ \A op, y :
              Needed(e, op, y)
                <=> \/ op = "append" /\ y = m /\ e \in Schedule(journal, streaming)
                    \/ op = "tail" /\ y # m /\ Pd(y, e - 1) # {}
<1>1. e \in Nat /\ e >= 1 /\ e - 1 \in Nat
  BY EventNumbers
<1>2. \A y : Closes(journal, e, y) <=> y # m
  BY DEF Closes
<1>3. \A y : IsDelta(journal, e, y) <=> y = m
  BY DEF IsDelta
<1>4. \A y : y # m => St(y, e) = {} /\ Pd(y, e) = {}
  BY <1>1, <1>2, StreamStep, PendingStep DEF St, Pd
<1>5. St(m, e) = St(m, e - 1) \cup {e}
  BY <1>1, <1>2, <1>3, StreamStep DEF St
<1>6. Pd(m, e) = IF e \in Schedule(journal, streaming) THEN {} ELSE Pd(m, e - 1) \cup {e}
  BY <1>1, <1>2, <1>3, PendingStep DEF Pd
<1>7. e \in Schedule(journal, streaming)
        <=> \/ streaming /\ (St(m, e - 1) = {} \/ journal[e].ends)
            \/ Cardinality(Pd(m, e - 1) \cup {e}) > BufferLimit
  BY ScheduleIs DEF St, Pd
<1>8. ASSUME NEW op, NEW y
      PROVE  Needed(e, op, y)
               <=> \/ op = "append" /\ y = m /\ e \in Schedule(journal, streaming)
                   \/ op = "tail" /\ y # m /\ Pd(y, e - 1) # {}
  BY <1>2 DEF Needed
<1>9. QED
  BY <1>4, <1>5, <1>6, <1>7, <1>8

\* An item event closes the stream of its item and may need its text.
LEMMA ItemEvent ==
  ASSUME journal \in Scripts, NEW e \in 1..Len(journal), journal[e].type = "item",
         NEW m, m = journal[e].item
  PROVE  /\ St(m, e) = {} /\ Pd(m, e) = {}
         /\ \A y : y # m => St(y, e) = St(y, e - 1) /\ Pd(y, e) = Pd(y, e - 1)
         /\ \A op, y :
              Needed(e, op, y)
                <=> \/ /\ op = "tail" /\ y = m
                       /\ Pd(m, e - 1) # {} \/ (journal[e].text = "more" /\ St(m, e - 1) = {})
                    \/ op = "complete" /\ y = m /\ journal[e].text = "more"
<1>1. e \in Nat /\ e >= 1 /\ e - 1 \in Nat
  BY EventNumbers
<1>2. \A y : Closes(journal, e, y) <=> y = m
  BY DEF Closes
<1>3. \A y : ~IsDelta(journal, e, y)
  BY DEF IsDelta
<1>4. e \notin Schedule(journal, streaming)
  BY ScheduleIs
<1>5. St(m, e) = {} /\ Pd(m, e) = {}
  BY <1>1, <1>2, StreamStep, PendingStep DEF St, Pd
<1>6. \A y : y # m => St(y, e) = St(y, e - 1) /\ Pd(y, e) = Pd(y, e - 1)
  BY <1>1, <1>2, <1>3, <1>4, StreamStep, PendingStep DEF St, Pd
<1>7. ASSUME NEW op, NEW y
      PROVE  Needed(e, op, y)
               <=> \/ /\ op = "tail" /\ y = m
                      /\ Pd(m, e - 1) # {} \/ (journal[e].text = "more" /\ St(m, e - 1) = {})
                   \/ op = "complete" /\ y = m /\ journal[e].text = "more"
  BY <1>2, <1>4 DEF Needed
<1>8. QED
  BY <1>5, <1>6, <1>7

\* The end of a turn closes every stream; only a completion sends what is left.
LEMMA EndEvent ==
  ASSUME journal \in Scripts, NEW e \in 1..Len(journal),
         journal[e].type \in {"completed", "aborted"}
  PROVE  /\ e = Len(journal) /\ \A y : St(y, e) = {} /\ Pd(y, e) = {}
         /\ \A op, y : Needed(e, op, y)
                         <=> op = "flush" /\ journal[e].type = "completed" /\ Pd(y, e - 1) # {}
<1>1. e \in Nat /\ e >= 1 /\ e - 1 \in Nat
  BY EventNumbers
<1>2. \A y : Closes(journal, e, y)
  BY DEF Closes
<1>3. e \notin Schedule(journal, streaming)
  BY ScheduleIs
<1>4. \A y : St(y, e) = {} /\ Pd(y, e) = {}
  BY <1>1, <1>2, StreamStep, PendingStep DEF St, Pd
<1>5. ASSUME NEW op, NEW y
      PROVE  Needed(e, op, y)
               <=> op = "flush" /\ journal[e].type = "completed" /\ Pd(y, e - 1) # {}
  BY <1>3 DEF Needed
<1>6. e = Len(journal)
  BY Turn
<1>7. QED
  BY <1>4, <1>5, <1>6

-----------------------------------------------------------------------------
(* What the receipts say about the text *)

\* The streams depend on the script alone.
LEMMA ScriptKept ==
  ASSUME UNCHANGED <<journal, streaming>>, NEW e, NEW m
  PROVE  /\ St(m, e)' = St(m, e) /\ Pd(m, e)' = Pd(m, e)
         /\ \A op : Needed(e, op, m)' <=> Needed(e, op, m)
         /\ Said(m, e)' = Said(m, e) /\ Carried(m, e)' = Carried(m, e) /\ All(m)' = All(m)
<1>1. \A k : St(m, k)' = St(m, k) /\ Pd(m, k)' = Pd(m, k)
  BY DEF St, Pd
<1>2. ASSUME NEW op PROVE Needed(e, op, m)' <=> Needed(e, op, m)
  BY <1>1 DEF Needed
<1>3. QED
  BY <1>1, <1>2, JournalKept

\* What an item has coalesced comes after what else was said of it.
LEMMA PendingIsLast ==
  ASSUME journal \in Scripts, NEW k \in 0..Len(journal), NEW m, NEW i \in Pd(m, k),
         NEW j \in Carried(m, k), j \notin Pd(m, k)
  PROVE  j < i
<1>0. k \in Nat
  <2>1. Len(journal) \in Nat
    BY Turn
  <2>2. QED
    BY <2>1
<1>1. /\ i \in 1..k /\ IsDelta(journal, i, m)
      /\ \A l \in i..k : ~Closes(journal, l, m) /\ l \notin Schedule(journal, streaming)
  BY DEF Pd, Pending, PendingIn, Stream
<1>2. j \in 1..k /\ Carries(j, m)
  BY DEF Carried
<1>3. SUFFICES ASSUME ~(j < i) PROVE FALSE
  BY <1>0, <1>1, <1>2
<1>4. j \in i..k /\ \A l \in j..k : l \in i..k
  BY <1>0, <1>1, <1>2, <1>3
<1>5. IsDelta(journal, j, m)
  BY <1>1, <1>2, <1>4 DEF Carries, IsDelta, Closes
<1>6. j \in Pd(m, k)
  BY <1>1, <1>2, <1>4, <1>5 DEF Pd, Pending, PendingIn, Stream
<1>7. QED
  BY <1>6

\* What was carried, is not coalesced and has its receipts, is covered by one of them.
LEMMA Delivered ==
  ASSUME journal \in Scripts, NEW k \in 0..Len(journal), \A d \in 1..k : Receipted(d),
         k >= 1 => journal[k].type # "aborted", NEW m \in Items,
         NEW i \in Carried(m, k), i \notin Pd(m, k)
  PROVE  \E e \in 1..k, op \in Ops :
           <<e, op, m>> \in receipts /\ (i < e \/ (i = e /\ op # "tail"))
<1> DEFINE n == Len(journal)
           S == Schedule(journal, streaming)
<1>6. \A j \in 1..n : journal[j].type \in {"delta", "item", "completed", "aborted"}
  BY Turn
<1>7. \A j \in 1..n : journal[j].type \in {"completed", "aborted"} => j = n
  BY Turn
<1>8. n \in Nat
  BY Turn
<1> HIDE DEF n
<1>9. k \in Nat /\ 1..k \subseteq 1..n
  BY <1>8 DEF n
<1>0. n \in Nat /\ k \in Nat /\ 1..k \subseteq 1..n
  BY <1>8, <1>9
<1>1. i \in 1..k /\ i \in 1..n /\ Carries(i, m)
  BY <1>0 DEF Carried
<1>2. ASSUME NEW e \in 1..k, NEW op \in Ops, Needed(e, op, m), i < e \/ (i = e /\ op # "tail")
      PROVE  \E d \in 1..k, o \in Ops :
               <<d, o, m>> \in receipts /\ (i < d \/ (i = d /\ o # "tail"))
  BY <1>2 DEF Receipted
<1>3. CASE journal[i].type = "item"
  <2>1. Needed(i, "complete", m)
    BY <1>1, <1>3 DEF Carries, Needed
  <2>2. QED
    BY <1>1, <1>2, <2>1 DEF Ops
<1>4. CASE journal[i].type = "delta"
  <2> DEFINE T == {j \in i..k : Closes(journal, j, m) \/ j \in S}
  <2>1. IsDelta(journal, i, m)
    BY <1>1, <1>4 DEF Carries, IsDelta
  <2>2. T # {} /\ T \subseteq Nat
    <3>1. i..k \subseteq Nat
      BY <1>0, <1>1
    <3>2. ASSUME T = {} PROVE i \in Pd(m, k)
      BY <1>1, <2>1, <3>2 DEF Pd, Pending, PendingIn, Stream
    <3>3. QED
      BY <3>1, <3>2
  <2>3. PICK j \in T : \A l \in T : j <= l
    <3> HIDE DEF T
    <3>1. QED
      BY <2>2, LeastNumber
  <2>4. j \in i..k /\ j \in 1..k /\ j \in 1..n /\ (Closes(journal, j, m) \/ j \in S)
    BY <1>0, <1>1, <2>3
  <2>5. ASSUME NEW l \in i..(j - 1) PROVE ~Closes(journal, l, m) /\ l \notin S
    <3>1. l \in i..k /\ ~(j <= l)
      BY <1>0, <1>1, <2>4
    <3>2. QED
      BY <2>3, <3>1
  <2>6. i < j => i \in Pd(m, j - 1)
    <3>1. i < j => i \in 1..(j - 1)
      BY <1>0, <1>1, <2>4
    <3>2. QED
      BY <2>1, <2>5, <3>1 DEF Pd, Pending, PendingIn, Stream
  <2> HIDE DEF T
  <2>7. i <= j
    BY <1>0, <1>1, <2>4
  <2>8. CASE Closes(journal, j, m)
    <3>1. i < j
      <4>1. i # j
        BY <2>1, <2>8 DEF Closes, IsDelta
      <4>2. QED
        BY <1>0, <1>1, <2>4, <2>7, <4>1
    <3>2. Pd(m, j - 1) # {}
      BY <2>6, <3>1
    <3>3. CASE journal[j].type \in {"delta", "item"}
      <4>1. Needed(j, "tail", m)
        BY <2>8, <3>2, <3>3 DEF Needed
      <4>2. QED
        BY <1>2, <2>4, <3>1, <4>1 DEF Ops
    <3>4. CASE journal[j].type = "completed"
      <4>1. Needed(j, "flush", m)
        BY <3>2, <3>4 DEF Needed
      <4>2. QED
        BY <1>2, <2>4, <3>1, <4>1 DEF Ops
    <3>5. CASE journal[j].type = "aborted"
      <4>1. j = n /\ j = k /\ k >= 1
        BY <1>0, <1>7, <2>4, <3>5
      <4>2. QED
        BY <3>5, <4>1
    <3>6. journal[j].type \in {"delta", "item", "completed", "aborted"}
      BY <1>6, <2>4
    <3>7. QED
      BY <3>3, <3>4, <3>5, <3>6
  <2>9. CASE ~Closes(journal, j, m) /\ j \in S
    <3>1. journal[j].type = "delta"
      BY <2>4, <2>9, ScheduleIs DEF n
    <3>2. journal[j].item = m
      BY <2>9, <3>1 DEF Closes
    <3>3. Needed(j, "append", m)
      BY <2>9, <3>2 DEF Needed
    <3>4. i < j \/ i = j
      BY <1>0, <1>1, <2>4, <2>7
    <3>5. QED
      BY <1>2, <2>4, <3>3, <3>4 DEF Ops
  <2>10. QED
    BY <2>4, <2>8, <2>9
<1>5. QED
  BY <1>1, <1>3, <1>4 DEF Carries

\* The same for all that was carried and is not coalesced.
LEMMA DeliveredIsCovered ==
  ASSUME journal \in Scripts, NEW k \in 0..Len(journal), \A d \in 1..k : Receipted(d),
         k >= 1 => journal[k].type # "aborted", NEW m \in Items
  PROVE  Carried(m, k) \ Pd(m, k) \subseteq Covered(m)
<1>0. Len(journal) \in Nat /\ k \in Nat /\ 1..k \subseteq 1..Len(journal)
  <2>1. Len(journal) \in Nat
    BY Turn
  <2>2. QED
    BY <2>1
<1>1. SUFFICES ASSUME NEW i \in Carried(m, k), i \notin Pd(m, k) PROVE i \in Covered(m)
  OBVIOUS
<1>2. i \in All(m)
  BY <1>0 DEF All, Carried
<1>3. PICK e \in 1..k, op \in Ops :
        <<e, op, m>> \in receipts /\ (i < e \/ (i = e /\ op # "tail"))
  BY <1>1, Delivered, Zenon
<1>4. QED
  BY <1>0, <1>2, <1>3 DEF Covered

\* What is covered of an item is a beginning of all that it says.
LEMMA CoveredIs ==
  ASSUME journal \in Scripts, NEW m
  PROVE  /\ Covered(m) \subseteq All(m) /\ Covered(m) \subseteq Nat /\ IsFiniteSet(Covered(m))
         /\ All(m) \subseteq Nat /\ IsFiniteSet(All(m))
         /\ \A i \in Covered(m), d \in All(m) : d < i => d \in Covered(m)
<1>1. Len(journal) \in Nat
  BY Turn
<1>2. All(m) \subseteq 1..Len(journal) /\ All(m) \subseteq Nat /\ IsFiniteSet(All(m))
  BY <1>1, CarriedIs DEF All
<1>3. Covered(m) \subseteq All(m)
  BY DEF Covered
<1>4. IsFiniteSet(Covered(m))
  BY <1>2, <1>3, FS_Subset
<1>5. ASSUME NEW i \in Covered(m), NEW d \in All(m), d < i PROVE d \in Covered(m)
  <2>1. PICK e \in 1..Len(journal), op \in Ops :
          <<e, op, m>> \in receipts /\ (i < e \/ (i = e /\ (op = "tail" => St(m, e - 1) = {})))
    BY DEF Covered
  <2>2. d < e
    <3>1. d \in Nat /\ i \in Nat /\ e \in Nat /\ i <= e
      BY <1>1, <1>2, <1>3, <2>1
    <3>2. QED
      BY <1>5, <3>1
  <2>3. QED
    BY <2>1, <2>2 DEF Covered
<1>6. QED
  BY <1>2, <1>3, <1>4, <1>5

\* Where a receipt comes from.
LEMMA LegitIs ==
  ASSUME Legit, NEW e, NEW op, NEW m, <<e, op, m>> \in receipts
  PROVE  /\ e \in 1..Len(journal) /\ op \in Ops /\ m \in Items
         /\ Needed(e, op, m) \/ (op = "complete" /\ Closes(journal, e, m))
<1>1. PICK d \in 1..Len(journal), o \in Ops, y \in Items :
        /\ <<e, op, m>> = <<d, o, y>>
        /\ Needed(d, o, y) \/ (o = "complete" /\ Closes(journal, d, y))
  BY DEF Legit
<1>2. e = d /\ op = o /\ m = y
  BY <1>1
<1>3. QED
  BY <1>1, <1>2

\* What is needed at an event is not the piece that the event appends, or the event closes
\* the stream.
LEMMA NeededCloses ==
  ASSUME NEW e, NEW op, NEW m, Needed(e, op, m)
  PROVE  \/ op = "append" /\ e \in Schedule(journal, streaming) /\ journal[e].item = m
         \/ op # "append" /\ Closes(journal, e, m)
BY DEF Needed, Closes

\* An event needs one piece of text of an item.
LEMMA NeededOnce ==
  ASSUME journal \in Scripts, NEW e \in 1..Len(journal), NEW m,
         NEW op, op # "complete", Needed(e, op, m),
         NEW o, o # "complete", Needed(e, o, m)
  PROVE  op = o
<1>1. CASE journal[e].type = "delta"
  <2>1. \A x, y : Needed(e, x, y)
          <=> \/ x = "append" /\ y = journal[e].item /\ e \in Schedule(journal, streaming)
              \/ x = "tail" /\ y # journal[e].item /\ Pd(y, e - 1) # {}
    BY <1>1, DeltaEvent
  <2>2. QED
    BY <2>1
<1>2. CASE journal[e].type = "item"
  <2>1. \A x, y : Needed(e, x, y) => x \in {"tail", "complete"}
    BY <1>2, ItemEvent
  <2>2. QED
    BY <2>1
<1>3. CASE journal[e].type \in {"completed", "aborted"}
  <2>1. \A x, y : Needed(e, x, y) => x = "flush"
    BY <1>3, EndEvent
  <2>2. QED
    BY <2>1
<1>4. journal[e].type \in {"delta", "item", "completed", "aborted"}
  BY Turn
<1>5. QED
  BY <1>1, <1>2, <1>3, <1>4

\* Before the first dispatch of what an event needs, everything is covered that was said
\* before the event and is not coalesced.
LEMMA CoveredBefore ==
  ASSUME journal \in Scripts, Legit, Prior, NEW e \in 1..Len(journal),
         \A d \in 1..(e - 1) : Receipted(d), NEW m \in Items, NEW op \in Ops,
         op # "complete", Needed(e, op, m), <<e, op, m>> \notin receipts
  PROVE  Covered(m) = Carried(m, e - 1) \ Pd(m, e - 1)
<1> DEFINE n == Len(journal)
<1>1. n \in Nat /\ e \in Nat /\ e >= 1 /\ e - 1 \in Nat /\ e <= n
  BY EventNumbers
<1>2. Carried(m, e - 1) \ Pd(m, e - 1) \subseteq Covered(m)
  <2>1. e - 1 \in 0..n
    BY <1>1
  <2>2. e - 1 >= 1 => journal[e - 1].type # "aborted"
    <3>1. e - 1 >= 1 => e - 1 \in 1..n /\ e - 1 # n
      BY <1>1
    <3>2. \A j \in 1..n : journal[j].type \in {"completed", "aborted"} => j = n
      BY Turn
    <3>3. QED
      BY <3>1, <3>2
  <2>3. QED
    BY <2>1, <2>2, DeliveredIsCovered
<1>3. ASSUME NEW i \in Covered(m) PROVE i \in Carried(m, e - 1) /\ i \notin Pd(m, e - 1)
  <2>1. PICK d \in 1..n, o \in Ops :
          /\ i \in 1..n /\ Carries(i, m) /\ <<d, o, m>> \in receipts
          /\ i < d \/ (i = d /\ (o = "tail" => St(m, d - 1) = {}))
    BY <1>3 DEF Covered, All, Carried
  <2>2. Needed(d, o, m) \/ (o = "complete" /\ Closes(journal, d, m))
    BY <2>1, LegitIs
  <2>3. i \in Nat /\ d \in Nat /\ i <= d
    BY <1>1, <2>1
  <2>4. ASSUME e < d PROVE FALSE
    <3>1. e \in 1..(d - 1)
      BY <1>1, <2>3, <2>4
    <3>2. Receipted(e)
      BY <2>1, <3>1 DEF Prior
    <3>3. QED
      BY <3>2 DEF Receipted
  <2>5. ASSUME e = d PROVE FALSE
    <3>1. CASE o = "complete"
      <4>1. <<e, o, m>> \in receipts
        BY <2>1, <2>5
      <4>2. QED
        BY <3>1, <4>1 DEF Prior
    <3>2. CASE o # "complete"
      <4>1. Needed(e, o, m)
        BY <2>2, <2>5, <3>2
      <4>2. o = op
        BY <3>2, <4>1, NeededOnce
      <4>3. QED
        BY <2>1, <2>5, <4>2
    <3>3. QED
      BY <3>1, <3>2
  <2>6. d < e
    BY <1>1, <2>3, <2>4, <2>5
  <2>7. i \in 1..(e - 1)
    BY <1>1, <2>1, <2>3, <2>6
  <2>8. ASSUME i \in Pd(m, e - 1) PROVE FALSE
    <3>1. \A l \in i..(e - 1) : ~Closes(journal, l, m) /\ l \notin Schedule(journal, streaming)
      BY <2>8 DEF Pd, Pending, PendingIn, Stream
    <3>2. d \in i..(e - 1)
      BY <1>1, <2>3, <2>6
    <3>3. QED
      BY <2>2, <3>1, <3>2, NeededCloses
  <2>9. QED
    BY <2>1, <2>7, <2>8 DEF Carried
<1>4. QED
  BY <1>2, <1>3

\* A new receipt.
LEMMA CoveredWith ==
  ASSUME UNCHANGED <<journal, streaming>>, NEW e \in 1..Len(journal), NEW op \in Ops, NEW m,
         receipts' = receipts \cup {<<e, op, m>>}
  PROVE  /\ Covered(m)' = Covered(m) \cup
              {i \in All(m) : i < e \/ (i = e /\ (op = "tail" => St(m, e - 1) = {}))}
         /\ \A y : y # m => Covered(y)' = Covered(y)
<1> DEFINE n == Len(journal)
           Tells(d, o, y, i) == i < d \/ (i = d /\ (o = "tail" => St(y, d - 1) = {}))
<1>1. ASSUME NEW y PROVE All(y)' = All(y) /\ \A k : St(y, k)' = St(y, k)
  BY ScriptKept
<1>2. ASSUME NEW y
      PROVE  Covered(y)' = {i \in All(y) : \E d \in 1..n, o \in Ops :
                              <<d, o, y>> \in receipts' /\ Tells(d, o, y, i)}
  BY <1>1 DEF Covered, Ops
<1>3. ASSUME NEW y
      PROVE  Covered(y) = {i \in All(y) : \E d \in 1..n, o \in Ops :
                              <<d, o, y>> \in receipts /\ Tells(d, o, y, i)}
  BY DEF Covered
<1> HIDE DEF Tells
<1>4. ASSUME NEW d, NEW o, NEW y
      PROVE  <<d, o, y>> \in receipts'
               <=> <<d, o, y>> \in receipts \/ (d = e /\ o = op /\ y = m)
  OBVIOUS
<1>5. ASSUME NEW y, y # m PROVE Covered(y)' = Covered(y)
  BY <1>2, <1>3, <1>4, <1>5
<1>6. Covered(m)' = Covered(m) \cup {i \in All(m) : Tells(e, op, m, i)}
  <2>1. ASSUME NEW i \in All(m)
        PROVE  (\E d \in 1..n, o \in Ops : <<d, o, m>> \in receipts' /\ Tells(d, o, m, i))
                 <=> \/ \E d \in 1..n, o \in Ops : <<d, o, m>> \in receipts /\ Tells(d, o, m, i)
                     \/ Tells(e, op, m, i)
    BY <1>4
  <2>2. QED
    BY <1>2, <1>3, <2>1
<1>7. QED
  BY <1>5, <1>6 DEF Tells

\* What an event adds to the text of an item with its first dispatch.
Added(e, op, m) == Pd(m, e - 1) \cup {i \in All(m) : i = e /\ (op = "tail" => St(m, e - 1) = {})}

\* The first dispatch of text at an event appends what it adds.
LEMMA TextWith ==
  ASSUME journal \in Scripts, UNCHANGED <<journal, streaming>>, Legit, Prior,
         NEW e \in 1..Len(journal), \A d \in 1..(e - 1) : Receipted(d), NEW m \in Items,
         NEW op \in Ops, op # "complete", Needed(e, op, m), <<e, op, m>> \notin receipts,
         receipts' = receipts \cup {<<e, op, m>>}
  PROVE  /\ InOrder(Covered(m))' = InOrder(Covered(m)) \o InOrder(Added(e, op, m))
         /\ \A y : y # m => InOrder(Covered(y))' = InOrder(Covered(y))
<1> DEFINE S == Covered(m)
           C == Added(e, op, m)
           P == Pd(m, e - 1)
<1>1. Len(journal) \in Nat /\ e \in Nat /\ e >= 1 /\ e - 1 \in Nat /\ e <= Len(journal)
      /\ e - 1 \in 0..Len(journal)
  BY EventNumbers
<1>2. S = Carried(m, e - 1) \ P
  BY CoveredBefore
<1>3. P \subseteq Carried(m, e - 1) /\ P \subseteq Nat /\ IsFiniteSet(P)
  <2>1. P \subseteq Nat /\ IsFiniteSet(P)
    BY <1>1, StreamsAre
  <2>2. ASSUME NEW i \in P PROVE i \in Carried(m, e - 1)
    <3>1. i \in 1..(e - 1) /\ IsDelta(journal, i, m)
      BY <2>2 DEF Pd, Pending, PendingIn, Stream
    <3>2. QED
      BY <3>1 DEF Carried, Carries, IsDelta
  <2>3. QED
    BY <2>1, <2>2
<1>4. Carried(m, e - 1) = {i \in All(m) : i < e}
  BY <1>1 DEF Carried, All
<1>5. Covered(m)' = S \cup {i \in All(m) : i < e \/ (i = e /\ (op = "tail" => St(m, e - 1) = {}))}
  BY CoveredWith
<1>6. Covered(m)' = S \cup C
  BY <1>2, <1>3, <1>4, <1>5 DEF Added
<1>7. S \subseteq Nat /\ IsFiniteSet(S) /\ All(m) \subseteq Nat
  BY CoveredIs
<1>8. C \subseteq Nat /\ IsFiniteSet(C)
  <2>1. C = P \/ C = P \cup {e}
    BY DEF Added
  <2>2. IsFiniteSet(P \cup {e})
    BY <1>3, FS_AddElement
  <2>3. QED
    BY <1>1, <1>3, <2>1, <2>2
<1>9. ASSUME NEW x \in S, NEW y \in C PROVE x < y
  <2>1. x \in Carried(m, e - 1) /\ x \notin P
    BY <1>2
  <2>2. CASE y \in P
    BY <1>1, <2>1, <2>2, PendingIsLast
  <2>3. CASE y = e
    BY <1>4, <2>1, <2>3
  <2>4. QED
    BY <2>2, <2>3 DEF Added
<1> HIDE DEF S, C, P
<1>10. InOrder(S \cup C) = InOrder(S) \o InOrder(C)
  BY <1>7, <1>8, <1>9, InOrderUnion
<1>11. InOrder(Covered(m))' = InOrder(S) \o InOrder(C)
  BY <1>6, <1>10
<1>12. \A y : y # m => InOrder(Covered(y))' = InOrder(Covered(y))
  <2>1. \A y : y # m => Covered(y)' = Covered(y)
    BY CoveredWith
  <2>2. QED
    BY <2>1
<1>13. QED
  BY <1>11, <1>12 DEF S, C

-----------------------------------------------------------------------------
(* Beginnings of a text *)

\* A list is empty if there is nothing to list.
LEMMA InOrderNone ==
  ASSUME NEW S, S \subseteq Nat, IsFiniteSet(S) PROVE InOrder(S) = <<>> <=> S = {}
<1>1. ASSUME S # {} PROVE InOrder(S) # <<>>
  <2>1. PICK x : x \in S
    BY <1>1
  <2>2. /\ Len(InOrder(S)) = Cardinality(S) /\ Cardinality(S) \in Nat
        /\ RankIn(S, x) \in 1..Cardinality(S)
    BY <2>1, InOrderIs
  <2>3. Cardinality(S) # 0
    BY <2>2
  <2>4. Len(<<>>) = 0
    OBVIOUS
  <2>5. QED
    BY <2>2, <2>3, <2>4
<1>2. QED
  BY <1>1, InOrderEmpty

\* A later number comes last in the list.
LEMMA InOrderAdd ==
  ASSUME NEW S, S \subseteq Nat, IsFiniteSet(S), NEW e \in Nat, \A x \in S : x < e
  PROVE  /\ InOrder(S \cup {e}) = Append(InOrder(S), e)
         /\ Len(InOrder(S \cup {e})) = Cardinality(S \cup {e})
         /\ S \cup {e} \subseteq Nat /\ IsFiniteSet(S \cup {e})
<1>1. {e} \subseteq Nat /\ IsFiniteSet({e}) /\ \A x \in S, y \in {e} : x < y
  BY FS_Singleton
<1>2. InOrder(S \cup {e}) = InOrder(S) \o InOrder({e})
  BY <1>1, InOrderUnion
<1>3. InOrder(S) \in Seq(Nat)
  BY InOrderIs
<1>4. InOrder(S) \o <<e>> = Append(InOrder(S), e)
  BY <1>3
<1>5. IsFiniteSet(S \cup {e}) /\ S \cup {e} \subseteq Nat
  BY FS_AddElement
<1>6. Len(InOrder(S \cup {e})) = Cardinality(S \cup {e})
  BY <1>5, InOrderIs
<1>7. QED
  BY <1>2, <1>4, <1>5, <1>6, InOrderSingle

\* Prefixes and the rest of a sequence after one.
LEMMA PrefixOf ==
  ASSUME NEW s \in Seq(Nat), NEW t \in Seq(Nat)
  PROVE  /\ IsPrefix(s, s \o t) /\ IsPrefix(s, s) /\ IsPrefix(<<>>, s)
         /\ SubSeq(s, Len(s) + 1, Len(s)) = <<>>
         /\ SubSeq(s \o t, Len(s) + 1, Len(s \o t)) = t
<1>1. /\ s \o t \in Seq(Nat) /\ Len(s) \in Nat /\ Len(t) \in Nat
      /\ Len(s \o t) = Len(s) + Len(t) /\ Len(s) <= Len(s \o t)
  OBVIOUS
<1>2. SubSeq(s, 1, Len(s)) = SubSeq(s \o t, 1, Len(s))
  <2>1. \A i \in 1..Len(s) : (s \o t)[i] = s[i]
    OBVIOUS
  <2>2. QED
    BY <1>1, <2>1
<1>3. IsPrefix(s, s \o t)
  BY <1>1, <1>2 DEF IsPrefix
<1>4. IsPrefix(s, s)
  BY <1>1 DEF IsPrefix
<1>5. IsPrefix(<<>>, s)
  BY <1>1 DEF IsPrefix
<1>6. SubSeq(s, Len(s) + 1, Len(s)) = <<>>
  BY <1>1
<1>7. SubSeq(s \o t, Len(s) + 1, Len(s \o t)) = t
  <2> DEFINE u == SubSeq(s \o t, Len(s) + 1, Len(s \o t))
  <2>1. u \in Seq(Nat) /\ Len(u) = Len(t) /\ DOMAIN u = 1..Len(t) /\ DOMAIN t = 1..Len(t)
    BY <1>1
  <2>2. \A i \in 1..Len(t) : u[i] = (s \o t)[Len(s) + i] /\ (s \o t)[Len(s) + i] = t[i]
    BY <1>1
  <2> HIDE DEF u
  <2>3. u = t
    BY <1>1, <2>1, <2>2, SMTT(30)
  <2>4. QED
    BY <2>3 DEF u
<1>8. QED
  BY <1>3, <1>4, <1>5, <1>6, <1>7

\* A set without gaps is in order a beginning of the whole.
LEMMA Beginning ==
  ASSUME NEW T, T \subseteq Nat, IsFiniteSet(T), NEW S \in SUBSET T,
         \A x \in S, y \in T : y < x => y \in S
  PROVE  IsPrefix(InOrder(S), InOrder(T))
<1> DEFINE R == T \ S
<1>1. S \subseteq Nat /\ R \subseteq Nat /\ T = S \cup R
  OBVIOUS
<1>2. IsFiniteSet(S)
  BY FS_Subset
<1>3. IsFiniteSet(R)
  <2>1. R \subseteq T
    OBVIOUS
  <2> HIDE DEF R
  <2>2. QED
    BY <2>1, FS_Subset
<1>4. \A x \in S, y \in R : x < y
  <2>1. ASSUME NEW x \in S, NEW y \in R PROVE x < y
    <3>1. x \in Nat /\ y \in Nat /\ x # y /\ ~(y < x)
      OBVIOUS
    <3>2. QED
      BY <3>1
  <2>2. QED
    BY <2>1
<1> HIDE DEF R
<1>5. InOrder(T) = InOrder(S) \o InOrder(R)
  BY <1>1, <1>2, <1>3, <1>4, InOrderUnion
<1>6. InOrder(S) \in Seq(Nat) /\ InOrder(R) \in Seq(Nat)
  BY <1>1, <1>2, <1>3, InOrderIs
<1>7. QED
  BY <1>5, <1>6, PrefixOf

-----------------------------------------------------------------------------
(* What other backends do *)

\* The store has gone on, the turn is the same.
Later ==
  /\ UNCHANGED <<journal, streaming>>
  /\ receipts \subseteq receipts' /\ (settled => settled')

\* A command that has its receipt keeps it.
LEMMA Monotone ==
  ASSUME Later, NEW e
  PROVE  /\ Receipted(e) => Receipted(e)'
         /\ Passed(e) => Passed(e)'
         /\ \A y : TailSent(e, y) => TailSent(e, y)'
         /\ Len(journal)' = Len(journal)
<1>1. \A op, m : Needed(e, op, m)' <=> Needed(e, op, m)
  BY ScriptKept DEF Later
<1>2. Receipted(e) => Receipted(e)'
  BY <1>1 DEF Later, Receipted, Ops
<1>3. ASSUME NEW y PROVE TailSent(e, y) => TailSent(e, y)'
  BY <1>1 DEF Later, TailSent
<1>4. Passed(e) => Passed(e)'
  BY <1>2 DEF Passed, Later
<1>5. QED
  BY <1>2, <1>3, <1>4 DEF Later

\* What is in the memory of a backend, and where it stands, is the same.
SameMemory(b) ==
  /\ buffer'[b] = buffer[b] /\ begun'[b] = begun[b] /\ observed'[b] = observed[b]
  /\ active'[b] = active[b] /\ remembered'[b] = remembered[b]

SameProcess(b) ==
  /\ worker'[b] = worker[b] /\ up'[b] = up[b] /\ next'[b] = next[b]
  /\ processed'[b] = processed[b] /\ cursor'[b] = cursor[b]

\* A memory that is the same stands for the same text.
LEMMA MemoryThen ==
  ASSUME Later, NEW b, SameMemory(b)
  PROVE  /\ \A y, k : /\ BufferAt(b, y, k)' <=> BufferAt(b, y, k)
                      /\ StreamAt(b, y, k)' <=> StreamAt(b, y, k)
         /\ \A k : /\ TextAt(b, k)' <=> TextAt(b, k)
                   /\ ActiveAt(b, k)' <=> ActiveAt(b, k)
         /\ Remembers(b)' <=> Remembers(b)
<1>1. ASSUME NEW y, NEW k
      PROVE  /\ BufferAt(b, y, k)' <=> BufferAt(b, y, k)
             /\ StreamAt(b, y, k)' <=> StreamAt(b, y, k)
  <2>1. St(y, k)' = St(y, k) /\ Pd(y, k)' = Pd(y, k)
    BY ScriptKept DEF Later
  <2>2. QED
    BY <2>1 DEF SameMemory, BufferAt, StreamAt
<1>2. ASSUME NEW k PROVE TextAt(b, k)' <=> TextAt(b, k)
  BY <1>1 DEF TextAt
<1>3. ASSUME NEW k PROVE ActiveAt(b, k)' <=> ActiveAt(b, k)
  <2>1. \A y : St(y, k)' = St(y, k)
    BY ScriptKept DEF Later
  <2>2. QED
    BY <2>1 DEF SameMemory, ActiveAt
<1>4. Remembers(b)' <=> Remembers(b)
  BY DEF SameMemory, Remembers, Later
<1>5. QED
  BY <1>1, <1>2, <1>3, <1>4

\* A backend that does nothing stands where it stood, whatever the others do.
LEMMA FollowingKept ==
  ASSUME Later, NEW b, SameMemory(b), SameProcess(b), Following(b)
  PROVE  Following(b)'
<1>0. PICK e : e = worker[b].event
  OBVIOUS
<1>1. /\ \A y, k : /\ St(y, k)' = St(y, k) /\ Pd(y, k)' = Pd(y, k)
                   /\ Said(y, k)' = Said(y, k)
      /\ \A op, y : Needed(e, op, y)' <=> Needed(e, op, y)
  <2>1. ASSUME NEW y, NEW k
        PROVE  /\ St(y, k)' = St(y, k) /\ Pd(y, k)' = Pd(y, k)
               /\ Said(y, k)' = Said(y, k)
    BY ScriptKept DEF Later
  <2>2. ASSUME NEW op, NEW y PROVE Needed(e, op, y)' <=> Needed(e, op, y)
    BY ScriptKept DEF Later
  <2>3. QED
    BY <2>1, <2>2
<1>2. /\ worker'[b] = worker[b] /\ up'[b] = up[b] /\ next'[b] = next[b]
      /\ processed'[b] = processed[b] /\ cursor'[b] = cursor[b]
      /\ buffer'[b] = buffer[b] /\ begun'[b] = begun[b] /\ observed'[b] = observed[b]
      /\ active'[b] = active[b] /\ remembered'[b] = remembered[b]
      /\ journal' = journal /\ streaming' = streaming
  BY DEF SameMemory, SameProcess, Later
<1>3. (At(b)' <=> At(b)) /\ Reached(b)' = Reached(b)
  BY <1>2 DEF At, Reached
<1>4. Positioned(b)'
  <2>1. ASSUME NEW k PROVE Passed(k) => Passed(k)'
    BY Monotone
  <2>2. Positioned(b)
    BY DEF Following
  <2>3. QED
    BY <1>2, <1>3, <2>1, <2>2 DEF Positioned
<1>5. Remembers(b)'
  BY MemoryThen DEF Following
<1>6. /\ \A y, k : /\ BufferAt(b, y, k)' <=> BufferAt(b, y, k)
                   /\ StreamAt(b, y, k)' <=> StreamAt(b, y, k)
      /\ \A k : (TextAt(b, k)' <=> TextAt(b, k)) /\ (ActiveAt(b, k)' <=> ActiveAt(b, k))
  BY MemoryThen
<1>7. /\ Receipted(e) => Receipted(e)'
      /\ \A y : TailSent(e, y) => TailSent(e, y)'
  <2>1. Receipted(e) => Receipted(e)'
    BY Monotone
  <2>2. ASSUME NEW y PROVE TailSent(e, y) => TailSent(e, y)'
    BY Monotone
  <2>3. QED
    BY <2>1, <2>2
<1>8. Resting(b) => Resting(b)'
  BY <1>2, <1>6 DEF Resting
<1>9. InDelta(b) => InDelta(b)'
  BY <1>0, <1>1, <1>2, <1>6, <1>7 DEF InDelta
<1>10. \A y : SeenAt(b, e, y) => SeenAt(b, e, y)'
  BY <1>1, <1>2, <1>7 DEF SeenAt
<1>11. InItem(b) => InItem(b)'
  BY <1>0, <1>2, <1>6, <1>7, <1>10 DEF InItem
<1>12. InCompleted(b) => InCompleted(b)'
  BY <1>0, <1>1, <1>2, <1>6 DEF InCompleted, Later
<1>13. InAborted(b) => InAborted(b)'
  BY <1>2, <1>6 DEF InAborted, Later
<1>14. InEvent(b) => InEvent(b)'
  BY <1>2, <1>9, <1>11, <1>12, <1>13 DEF InEvent
<1>15. QED
  BY <1>3, <1>4, <1>5, <1>8, <1>14 DEF Following

-----------------------------------------------------------------------------
(* What a dispatch leaves of what the receipts tell *)

\* A new receipt of a command that its event needs.
LEMMA LegitWith ==
  ASSUME Legit, Later, NEW e \in 1..Len(journal), NEW op \in Ops, NEW m \in Items,
         Needed(e, op, m) \/ (op = "complete" /\ Closes(journal, e, m)),
         receipts' = receipts \cup {<<e, op, m>>}
  PROVE  Legit'
<1>1. journal' = journal /\ Len(journal)' = Len(journal) /\ Ops' = Ops
  BY DEF Later, Ops
<1>2. ASSUME NEW d, NEW o, NEW y PROVE Needed(d, o, y)' <=> Needed(d, o, y)
  BY ScriptKept DEF Later
<1>3. ASSUME NEW r \in receipts'
      PROVE  \E d \in 1..Len(journal), o \in Ops, y \in Items :
               /\ r = <<d, o, y>>
               /\ Needed(d, o, y) \/ (o = "complete" /\ Closes(journal, d, y))
  <2>1. CASE r \in receipts
    BY <2>1 DEF Legit
  <2>2. CASE r = <<e, op, m>>
    BY <2>2
  <2>3. QED
    BY <1>3, <2>1, <2>2
<1>4. QED
  BY <1>1, <1>2, <1>3 DEF Legit

\* A new receipt comes after those of the events before it.
LEMMA PriorWith ==
  ASSUME Prior, Later, NEW e \in 1..Len(journal), NEW op \in Ops, NEW m \in Items,
         \A d \in 1..(e - 1) : Receipted(d),
         op = "complete" => \A o \in Ops : Needed(e, o, m) => <<e, o, m>> \in receipts',
         receipts' = receipts \cup {<<e, op, m>>}
  PROVE  Prior'
<1>1. Len(journal)' = Len(journal) /\ Ops' = Ops
  BY DEF Later, Ops
<1>2. ASSUME NEW d PROVE Receipted(d) => Receipted(d)'
  BY Monotone
<1>3. ASSUME NEW d, NEW o, NEW y PROVE Needed(d, o, y)' <=> Needed(d, o, y)
  BY ScriptKept DEF Later
<1>4. ASSUME NEW d \in 1..Len(journal), NEW o \in Ops, NEW y \in Items, <<d, o, y>> \in receipts'
      PROVE  /\ \A c \in 1..(d - 1) : Receipted(c)
             /\ o = "complete" => \A x \in Ops : Needed(d, x, y) => <<d, x, y>> \in receipts'
  <2>1. CASE <<d, o, y>> \in receipts
    BY <2>1 DEF Prior
  <2>2. CASE <<d, o, y>> = <<e, op, m>>
    <3>1. d = e /\ o = op /\ y = m
      BY <2>2
    <3>2. QED
      BY <3>1
  <2>3. QED
    BY <1>4, <2>1, <2>2
<1>5. QED
  BY <1>1, <1>2, <1>3, <1>4 DEF Prior

\* The store stays as it is, but for a cursor that covers what is done.
LEMMA ToldKept ==
  ASSUME Told, UNCHANGED <<journal, streaming, messages, receipts, settled>>,
         \A e \in 1..durable' : Passed(e)
  PROVE  Told' /\ Later
<1>1. Later
  BY DEF Later
<1>2. Len(journal)' = Len(journal) /\ Ops' = Ops
  BY DEF Later, Ops
<1>3. ASSUME NEW d, NEW o, NEW y PROVE Needed(d, o, y)' <=> Needed(d, o, y)
  BY ScriptKept
<1>4. ASSUME NEW d PROVE (Receipted(d)' <=> Receipted(d)) /\ (Passed(d)' <=> Passed(d))
  <2>1. Receipted(d)' <=> Receipted(d)
    BY <1>2, <1>3 DEF Receipted
  <2>2. QED
    BY <2>1 DEF Passed
<1>5. Legit'
  BY <1>2, <1>3 DEF Told, Legit
<1>6. Prior'
  BY <1>2, <1>3, <1>4 DEF Told, Prior
<1>7. ASSUME NEW m PROVE Covered(m)' = Covered(m)
  <2>1. All(m)' = All(m) /\ \A k : St(m, k)' = St(m, k)
    BY ScriptKept
  <2>2. QED
    BY <1>2, <2>1 DEF Covered
<1>8. TextsTold'
  BY <1>7 DEF Told, TextsTold
<1>9. SettledTold'
  BY <1>2, <1>4 DEF Told, SettledTold
<1>10. QED
  BY <1>1, <1>4, <1>5, <1>6, <1>8, <1>9 DEF Told

\* A turn is settled when everything has its receipts.
LEMMA ToldSettled ==
  ASSUME Told, UNCHANGED <<journal, streaming, receipts, durable>>, settled' = TRUE,
         \A e \in 1..Len(journal) : Receipted(e),
         \A m \in Items : messages'[m].text = messages[m].text /\ ~messages'[m].streaming
  PROVE  Told' /\ Later
<1>1. Later
  BY DEF Later
<1>2. Len(journal)' = Len(journal) /\ Ops' = Ops
  BY DEF Later, Ops
<1>3. ASSUME NEW d, NEW o, NEW y PROVE Needed(d, o, y)' <=> Needed(d, o, y)
  BY ScriptKept
<1>4. ASSUME NEW d PROVE (Receipted(d)' <=> Receipted(d)) /\ (Passed(d) => Passed(d)')
  <2>1. Receipted(d)' <=> Receipted(d)
    BY <1>2, <1>3 DEF Receipted
  <2>2. QED
    BY <2>1 DEF Passed
<1>5. Legit'
  BY <1>2, <1>3 DEF Told, Legit
<1>6. Prior'
  BY <1>2, <1>3, <1>4 DEF Told, Prior
<1>7. ASSUME NEW m PROVE Covered(m)' = Covered(m)
  <2>1. All(m)' = All(m) /\ \A k : St(m, k)' = St(m, k)
    BY ScriptKept
  <2>2. QED
    BY <1>2, <2>1 DEF Covered
<1>8. TextsTold'
  BY <1>7 DEF Told, TextsTold
<1>9. SettledTold'
  BY <1>2, <1>4 DEF Told, SettledTold
<1>10. QED
  BY <1>1, <1>4, <1>5, <1>6, <1>8, <1>9 DEF Told

\* What an event needs is sent for the first time: the turn is not settled yet.
LEMMA ToldWith ==
  ASSUME journal \in Scripts, Told, MessagesOK, settled \in BOOLEAN,
         UNCHANGED <<journal, streaming, settled, durable>>,
         NEW e \in 1..Len(journal), \A d \in 1..(e - 1) : Receipted(d), NEW m \in Items,
         NEW op \in Ops, op # "complete", Needed(e, op, m), <<e, op, m>> \notin receipts,
         receipts' = receipts \cup {<<e, op, m>>},
         messages' = [messages EXCEPT ![m] = WithDelta(m, InOrder(Added(e, op, m)))]
  PROVE  Told' /\ Later
<1>1. Later
  BY DEF Later
<1>2. Legit /\ Prior /\ TextsTold
  BY DEF Told
<1>3. ~settled
  <2>1. ASSUME settled PROVE FALSE
    <3>1. Receipted(e)
      BY <2>1 DEF Told, SettledTold
    <3>2. QED
      BY <3>1 DEF Receipted
  <2>2. QED
    BY <2>1
<1>4. Legit'
  BY <1>1, <1>2, LegitWith
<1>5. Prior'
  BY <1>1, <1>2, PriorWith
<1>6. TextsTold'
  <2>1. /\ InOrder(Covered(m))' = InOrder(Covered(m)) \o InOrder(Added(e, op, m))
        /\ \A y : y # m => InOrder(Covered(y))' = InOrder(Covered(y))
    BY <1>2, TextWith
  <2>2. WithDelta(m, InOrder(Added(e, op, m))).text = messages[m].text \o InOrder(Added(e, op, m))
    BY <1>3 DEF WithDelta
  <2>3. ASSUME NEW y \in Items PROVE messages'[y].text = InOrder(Covered(y))'
    <3>1. CASE y = m
      <4>1. messages'[m] = WithDelta(m, InOrder(Added(e, op, m)))
        BY DEF MessagesOK
      <4>2. messages[m].text = InOrder(Covered(m))
        BY <1>2 DEF TextsTold
      <4>3. QED
        BY <2>1, <2>2, <3>1, <4>1, <4>2
    <3>2. CASE y # m
      <4>1. messages'[y] = messages[y]
        BY <3>2 DEF MessagesOK
      <4>2. messages[y].text = InOrder(Covered(y))
        BY <1>2 DEF TextsTold
      <4>3. InOrder(Covered(y))' = InOrder(Covered(y))
        BY <2>1, <3>2
      <4>4. QED
        BY <4>1, <4>2, <4>3
    <3>3. QED
      BY <3>1, <3>2
  <2>4. QED
    BY <2>3 DEF TextsTold
<1>7. SettledTold'
  BY <1>3 DEF SettledTold
<1>8. ASSUME NEW d \in 1..durable PROVE Passed(d)'
  <2>1. Passed(d)
    BY DEF Told
  <2>2. Passed(d) => Passed(d)'
    BY <1>1, Monotone
  <2>3. QED
    BY <2>1, <2>2
<1>9. QED
  BY <1>1, <1>4, <1>5, <1>6, <1>7, <1>8 DEF Told

\* Everything before an event that closes a stream is covered once its tail is sent.
LEMMA CoveredAtClose ==
  ASSUME journal \in Scripts, Legit, Prior, NEW e \in 1..Len(journal), NEW m \in Items,
         journal[e].type # "aborted", Closes(journal, e, m),
         \A d \in 1..(e - 1) : Receipted(d),
         \A o \in Ops : o # "complete" /\ Needed(e, o, m) => <<e, o, m>> \in receipts
  PROVE  Carried(m, e - 1) \subseteq Covered(m)
<1>1. e \in Nat /\ e >= 1 /\ e - 1 \in Nat /\ Len(journal) \in Nat /\ e <= Len(journal)
  BY EventNumbers
<1>2. Carried(m, e - 1) \ Pd(m, e - 1) \subseteq Covered(m)
  <2>1. e - 1 \in 0..Len(journal)
    BY <1>1
  <2>2. e - 1 >= 1 => journal[e - 1].type # "aborted"
    <3>1. e - 1 >= 1 => e - 1 \in 1..Len(journal) /\ e - 1 # Len(journal)
      BY <1>1
    <3>2. \A j \in 1..Len(journal) : journal[j].type \in {"completed", "aborted"} => j = Len(journal)
      BY Turn
    <3>3. QED
      BY <3>1, <3>2
  <2>3. QED
    BY <2>1, <2>2, DeliveredIsCovered
<1>3. CASE Pd(m, e - 1) = {}
  BY <1>2, <1>3
<1>4. CASE Pd(m, e - 1) # {}
  <2>1. PICK o \in Ops : o # "complete" /\ Needed(e, o, m)
    <3>1. journal[e].type \in {"delta", "item", "completed", "aborted"}
      BY Turn
    <3>2. CASE journal[e].type \in {"delta", "item"}
      <4>1. Needed(e, "tail", m)
        BY <1>4, <3>2 DEF Needed
      <4>2. QED
        BY <4>1 DEF Ops
    <3>3. CASE journal[e].type = "completed"
      <4>1. Needed(e, "flush", m)
        BY <1>4, <3>3 DEF Needed
      <4>2. QED
        BY <4>1 DEF Ops
    <3>4. QED
      BY <3>1, <3>2, <3>3
  <2>2. <<e, o, m>> \in receipts
    BY <2>1
  <2>3. ASSUME NEW i \in Carried(m, e - 1) PROVE i \in Covered(m)
    <3>1. i \in All(m) /\ i < e
      BY <1>1 DEF Carried, All
    <3>2. QED
      BY <2>2, <3>1 DEF Covered
  <2>4. QED
    BY <2>3
<1>5. QED
  BY <1>3, <1>4

\* A message is completed: the marker has no text to add, or all there is to say.
LEMMA ToldComplete ==
  ASSUME journal \in Scripts, Told, MessagesOK, settled \in BOOLEAN,
         UNCHANGED <<journal, streaming, settled, durable>>,
         NEW e \in 1..Len(journal), \A d \in 1..(e - 1) : Receipted(d), NEW m \in Items,
         journal[e].type # "aborted", Closes(journal, e, m),
         \A o \in Ops : o # "complete" /\ Needed(e, o, m) => <<e, o, m>> \in receipts,
         NEW final,
         \/ final = <<>> /\ ~Carries(e, m)
         \/ final = InOrder(All(m)) /\ final # <<>> /\ journal[e].type = "item"
              /\ journal[e].item = m,
         <<e, "complete", m>> \notin receipts,
         receipts' = receipts \cup {<<e, "complete", m>>},
         messages' = [messages EXCEPT ![m] = Completed(m, final)]
  PROVE  Told' /\ Later
<1>1. Later
  BY DEF Later
<1>2. Legit /\ Prior /\ TextsTold /\ "complete" \in Ops
  BY DEF Told, Ops
<1>0. e \in Nat /\ e >= 1 /\ e - 1 \in Nat /\ Len(journal) \in Nat /\ e <= Len(journal)
  BY EventNumbers
<1>4. Legit'
  BY <1>1, <1>2, LegitWith
<1>5. Prior'
  <2>1. \A o \in Ops : Needed(e, o, m) => <<e, o, m>> \in receipts'
    OBVIOUS
  <2>2. QED
    BY <1>1, <1>2, <2>1, PriorWith
<1>6. /\ Covered(m)' = Covered(m) \cup {i \in All(m) : i <= e}
      /\ \A y : y # m => Covered(y)' = Covered(y)
  <2>1. /\ Covered(m)' = Covered(m) \cup {i \in All(m) : i < e \/ (i = e /\ ("complete" = "tail" => St(m, e - 1) = {}))}
        /\ \A y : y # m => Covered(y)' = Covered(y)
    BY <1>2, CoveredWith
  <2>2. All(m) \subseteq Nat
    BY CoveredIs
  <2>3. \A i \in All(m) : i <= e <=> i < e \/ i = e
    BY <1>0, <2>2
  <2>4. QED
    BY <2>1, <2>3
<1>7. Carried(m, e - 1) \subseteq Covered(m)
  BY <1>2, CoveredAtClose
<1>8. Completed(m, final).text = InOrder(Covered(m)')
  <2>1. CASE final = <<>> /\ ~Carries(e, m)
    <3>1. {i \in All(m) : i <= e} \subseteq Carried(m, e - 1)
      <4>1. ASSUME NEW i \in All(m), i <= e PROVE i \in Carried(m, e - 1)
        <5>1. i \in 1..Len(journal) /\ Carries(i, m)
          BY DEF All, Carried
        <5>2. i # e
          BY <2>1, <5>1
        <5>3. i \in 1..(e - 1)
          BY <1>0, <4>1, <5>1, <5>2
        <5>4. QED
          BY <5>1, <5>3 DEF Carried
      <4>2. QED
        BY <4>1
    <3>2. Covered(m)' = Covered(m)
      BY <1>6, <1>7, <3>1
    <3>3. Completed(m, final).text = messages[m].text
      BY <2>1 DEF Completed
    <3>4. QED
      BY <1>2, <3>2, <3>3 DEF TextsTold
  <2>2. CASE final = InOrder(All(m)) /\ final # <<>> /\ journal[e].type = "item" /\ journal[e].item = m
    <3>1. All(m) = Carried(m, e)
      BY <2>2, ItemIsLast
    <3>2. {i \in All(m) : i <= e} = All(m)
      <4>1. \A i \in Carried(m, e) : i <= e
        BY <1>0 DEF Carried
      <4>2. QED
        BY <3>1, <4>1
    <3>3. Covered(m) \subseteq All(m)
      BY CoveredIs
    <3>4. Covered(m)' = All(m)
      BY <1>6, <3>2, <3>3
    <3>5. Completed(m, final).text = final
      BY <2>2 DEF Completed
    <3>6. QED
      BY <2>2, <3>4, <3>5
  <2>3. QED
    BY <2>1, <2>2
<1>9. ASSUME NEW y \in Items PROVE messages'[y].text = InOrder(Covered(y)')
  <2>1. CASE y = m
    <3>1. messages'[m] = Completed(m, final)
      BY DEF MessagesOK
    <3>2. QED
      BY <1>8, <2>1, <3>1
  <2>2. CASE y # m
    <3>1. messages'[y] = messages[y]
      BY <2>2 DEF MessagesOK
    <3>2. messages[y].text = InOrder(Covered(y))
      BY <1>2 DEF TextsTold
    <3>3. Covered(y)' = Covered(y)
      BY <1>6, <2>2
    <3>4. QED
      BY <3>1, <3>2, <3>3
  <2>3. QED
    BY <2>1, <2>2
<1>10. TextsTold'
  BY <1>9 DEF TextsTold
<1>11. SettledTold'
  <2>1. ASSUME settled
        PROVE  /\ \A d \in 1..Len(journal) : Receipted(d)
               /\ \A y \in Items : ~messages'[y].streaming
    <3>1. /\ \A d \in 1..Len(journal) : Receipted(d)
          /\ \A y \in Items : ~messages[y].streaming
      BY <2>1 DEF Told, SettledTold
    <3>2. Completed(m, final).streaming = FALSE
      BY DEF Completed
    <3>3. ASSUME NEW y \in Items PROVE ~messages'[y].streaming
      <4>1. messages'[y] = IF y = m THEN Completed(m, final) ELSE messages[y]
        BY DEF MessagesOK
      <4>2. QED
        BY <3>1, <3>2, <4>1
    <3>4. QED
      BY <3>1, <3>3
  <2>2. ASSUME NEW d PROVE Receipted(d) => Receipted(d)'
    BY <1>1, Monotone
  <2>3. Len(journal)' = Len(journal)
    OBVIOUS
  <2>4. QED
    BY <2>1, <2>2, <2>3 DEF SettledTold
<1>12. ASSUME NEW d \in 1..durable PROVE Passed(d)'
  <2>1. Passed(d)
    BY DEF Told
  <2>2. Passed(d) => Passed(d)'
    BY <1>1, Monotone
  <2>3. QED
    BY <2>1, <2>2
<1>13. QED
  BY <1>1, <1>4, <1>5, <1>10, <1>11, <1>12 DEF Told

-----------------------------------------------------------------------------
(* The steps of a worker within its event *)

\* The parts of a process have their types.
ProcessOK ==
  /\ up \in [Backends -> BOOLEAN] /\ start \in [Backends -> Nat]
  /\ next \in [Backends -> Nat] /\ processed \in [Backends -> SUBSET Nat]

\* An update for one backend and one item.
LEMMA OneItem ==
  ASSUME NEW T, NEW f \in [Backends -> [Items -> T]], NEW g, NEW b \in Backends,
         NEW m \in Items, NEW v, g = [f EXCEPT ![b][m] = v]
  PROVE  /\ \A c \in Backends : c # b => g[c] = f[c]
         /\ \A y \in Items : g[b][y] = IF y = m THEN v ELSE f[b][y]
OBVIOUS

\* An update for one backend.
LEMMA OneBackend ==
  ASSUME NEW T, NEW f \in [Backends -> T], NEW g, NEW b \in Backends,
         NEW v, g = [f EXCEPT ![b] = v]
  PROVE  g[b] = v /\ \A c \in Backends : c # b => g[c] = f[c]
OBVIOUS

\* A worker that goes on with its event.
LEMMA WorkFrame ==
  ASSUME CursorInv, UNCHANGED process, NEW b \in Backends, NEW todo, NEW seen,
         GoesOn(b, todo, seen)
  PROVE  /\ worker'[b].event = worker[b].event
         /\ worker'[b].todo = todo /\ worker'[b].seen = seen
         /\ \A c \in Backends : c # b => SameProcess(c)
         /\ up' = up /\ next' = next /\ processed' = processed /\ cursor' = cursor
<1>1. worker = [c \in Backends |-> worker[c]]
  BY DEF CursorInv, WorkersInv
<1>2. worker' = [worker EXCEPT ![b] = [event |-> worker[b].event, todo |-> todo, seen |-> seen]]
  BY DEF GoesOn
<1>3. /\ worker'[b] = [event |-> worker[b].event, todo |-> todo, seen |-> seen]
      /\ \A c \in Backends : c # b => worker'[c] = worker[c]
  BY <1>1, <1>2
<1>4. up' = up /\ next' = next /\ processed' = processed /\ cursor' = cursor
  BY DEF process
<1>5. \A c \in Backends : c # b => SameProcess(c)
  BY <1>3, <1>4 DEF SameProcess
<1>6. QED
  BY <1>3, <1>4, <1>5

\* A worker with something to do is at an event whose predecessors have their receipts.
LEMMA Acting ==
  ASSUME journal \in Scripts, NEW b, Following(b), worker[b].todo # <<>>
  PROVE  /\ At(b) /\ InEvent(b) /\ worker[b].event \in 1..Len(journal)
         /\ Reached(b) = worker[b].event - 1
         /\ \A d \in 1..(worker[b].event - 1) : Receipted(d)
<1>1. At(b)
  BY DEF Following, Resting
<1>2. InEvent(b) /\ Positioned(b) /\ Reached(b) = worker[b].event - 1
  BY <1>1 DEF Following, Reached
<1>3. worker[b].event \in 1..Len(journal)
  BY <1>1, <1>2 DEF Positioned
<1>4. \A d \in 1..(worker[b].event - 1) : Receipted(d)
  BY <1>2 DEF Positioned, Passed
<1>5. QED
  BY <1>1, <1>2, <1>3, <1>4

\* A worker that stays at its event stands where the event is left.
LEMMA StillAt ==
  ASSUME Later, NEW b, Following(b), At(b), worker'[b].event = worker[b].event,
         up' = up, next' = next, processed' = processed, cursor' = cursor,
         Remembers(b)', InEvent(b)'
  PROVE  Following(b)'
<1>1. At(b)' /\ Reached(b)' = Reached(b)
  BY DEF At, Reached
<1>2. \A k : Passed(k) => Passed(k)'
  <2>1. ASSUME NEW k PROVE Passed(k) => Passed(k)'
    BY Monotone
  <2>2. QED
    BY <2>1
<1>3. Positioned(b)
  BY DEF Following
<1>4. up[b]
  BY <1>3 DEF Positioned, At, Idle
<1>5. Positioned(b)'
  BY <1>1, <1>2, <1>3, <1>4 DEF Positioned, Later
<1>6. QED
  BY <1>1, <1>5 DEF Following

\* What a memory stands for after a step.
LEMMA TextThen ==
  ASSUME Later, NEW b
  PROVE  /\ \A y, k : /\ BufferAt(b, y, k)' <=> buffer'[b][y] = InOrder(Pd(y, k))
                      /\ StreamAt(b, y, k)' <=> observed'[b][y] = InOrder(St(y, k))
         /\ \A k : TextAt(b, k)' <=> \A y \in Items : /\ buffer'[b][y] = InOrder(Pd(y, k))
                                                      /\ observed'[b][y] = InOrder(St(y, k))
         /\ \A k : ActiveAt(b, k)' <=>
              \/ active'[b] = NoItem /\ \A y \in Items : St(y, k) = {}
              \/ active'[b] \in Items /\ St(active'[b], k) # {}
         /\ Remembers(b)' <=>
              /\ \A y \in Items : begun'[b][y] = (streaming /\ observed'[b][y] # <<>>)
              /\ \A y \in Items : observed'[b][y] # <<>> => y \in remembered'[b]
<1>1. ASSUME NEW y, NEW k
      PROVE  /\ BufferAt(b, y, k)' <=> buffer'[b][y] = InOrder(Pd(y, k))
             /\ StreamAt(b, y, k)' <=> observed'[b][y] = InOrder(St(y, k))
  <2>1. St(y, k)' = St(y, k) /\ Pd(y, k)' = Pd(y, k)
    BY ScriptKept DEF Later
  <2>2. QED
    BY <2>1 DEF BufferAt, StreamAt
<1>2. ASSUME NEW k
      PROVE  TextAt(b, k)' <=> \A y \in Items : /\ buffer'[b][y] = InOrder(Pd(y, k))
                                                /\ observed'[b][y] = InOrder(St(y, k))
  BY <1>1 DEF TextAt
<1>3. ASSUME NEW k
      PROVE  ActiveAt(b, k)' <=>
              \/ active'[b] = NoItem /\ \A y \in Items : St(y, k) = {}
              \/ active'[b] \in Items /\ St(active'[b], k) # {}
  <2>1. \A y : St(y, k)' = St(y, k)
    BY ScriptKept DEF Later
  <2>2. QED
    BY <2>1 DEF ActiveAt
<1>4. Remembers(b)' <=>
              /\ \A y \in Items : begun'[b][y] = (streaming /\ observed'[b][y] # <<>>)
              /\ \A y \in Items : observed'[b][y] # <<>> => y \in remembered'[b]
  BY DEF Remembers, Later
<1>5. QED
  BY <1>1, <1>2, <1>3, <1>4

\* A dispatch of text that an event needs, or of none.
LEMMA Sent ==
  ASSUME Pieces, Told, UNCHANGED <<journal, streaming, settled, durable>>, NEW b \in Backends,
         NEW m \in Items, m = ItemOf(b), NEW e \in 1..Len(journal), e = worker[b].event,
         NEW op \in Ops, op = Head(worker[b].todo).op, op # "complete",
         \A d \in 1..(e - 1) : Receipted(d),
         NEW piece, DispatchDelta(b, piece),
         piece # <<>> => Needed(e, op, m),
         Needed(e, op, m) /\ <<e, op, m>> \notin receipts
           => piece # <<>> /\ piece = InOrder(Added(e, op, m))
  PROVE  /\ Told' /\ Later
         /\ Needed(e, op, m) => <<e, op, m>> \in receipts'
<1>1. journal \in Scripts /\ settled \in BOOLEAN /\ MessagesOK
  BY DEF Pieces
<1>2. CommandId(b) = <<e, op, m>>
  BY DEF CommandId
<1>3. \A d \in 1..durable : Passed(d)
  BY DEF Told
<1>4. CASE messages' = messages /\ receipts' = receipts /\ (Needed(e, op, m) => <<e, op, m>> \in receipts)
  <2>1. Told' /\ Later
    BY <1>3, <1>4, ToldKept
  <2>2. QED
    BY <1>4, <2>1
<1>5. CASE piece # <<>> /\ <<e, op, m>> \notin receipts
  <2>1. /\ messages' = [messages EXCEPT ![m] = WithDelta(m, piece)]
        /\ receipts' = receipts \cup {<<e, op, m>>}
    BY <1>2, <1>5 DEF DispatchDelta, Dispatch
  <2>2. Needed(e, op, m) /\ piece = InOrder(Added(e, op, m))
    BY <1>5
  <2>3. messages' = [messages EXCEPT ![m] = WithDelta(m, InOrder(Added(e, op, m)))]
    BY <2>1, <2>2
  <2>4. Told' /\ Later
    BY <1>1, <1>5, <2>1, <2>2, <2>3, ToldWith
  <2>5. QED
    BY <2>1, <2>4
<1>6. CASE piece = <<>> \/ <<e, op, m>> \in receipts
  <2>1. messages' = messages /\ receipts' = receipts
    BY <1>2, <1>6 DEF DispatchDelta, Dispatch
  <2>2. Needed(e, op, m) => <<e, op, m>> \in receipts
    BY <1>6
  <2>3. QED
    BY <1>4, <2>1, <2>2
<1>7. QED
  BY <1>5, <1>6

\* A step of a backend keeps what the receipts tell and where the backend stands, and
\* leaves the others alone.
Onward(b) ==
  /\ Told' /\ Later /\ Following(b)'
  /\ \A c \in Backends : c # b => SameMemory(c) /\ SameProcess(c)

\* A coalescer or a commitment is empty when its stream has nothing.
LEMMA TextOf ==
  ASSUME Pieces, NEW b \in Backends, NEW m \in Items, NEW k \in Nat
  PROVE  /\ BufferAt(b, m, k) => (buffer[b][m] = <<>> <=> Pd(m, k) = {})
         /\ StreamAt(b, m, k) => (observed[b][m] = <<>> <=> St(m, k) = {})
         /\ InOrder(Pd(m, k)) \in Seq(Nat) /\ InOrder(St(m, k)) \in Seq(Nat)
         /\ Len(InOrder(Pd(m, k))) = Cardinality(Pd(m, k))
BY StreamsAre, InOrderNone, InOrderIs DEF BufferAt, StreamAt

\* One lemma for each step of a worker follows: a piece of text is given to the segment.
LEMMA AppendTextFollows ==
  ASSUME CursorInv, Pieces, Told, NEW b \in Backends, Following(b), AppendText(b)
  PROVE  Onward(b)
<1> DEFINE todo == worker[b].todo
           S == Schedule(journal, streaming)
<1>0. PICK e, m : e = worker[b].event /\ m = ItemOf(b)
  OBVIOUS
<1>1. /\ journal \in Scripts /\ streaming \in BOOLEAN
      /\ Doing(b, "append") /\ Coalesce(b, m, e) /\ DispatchDelta(b, Chunk(b, m, e))
      /\ observed' = [observed EXCEPT ![b][m] = Append(@, e)]
      /\ Done(b)
      /\ UNCHANGED <<journal, streaming, settled, durable>> /\ UNCHANGED process
  BY <1>0 DEF AppendText, script, Pieces
<1>2. m \in Items /\ e \in 1..Len(journal) /\ journal[e].type = "delta" /\ journal[e].item = m
  BY <1>0, <1>1, ChunkIs
<1>3. /\ At(b) /\ InEvent(b) /\ \A d \in 1..(e - 1) : Receipted(d)
  BY <1>0, <1>1, Acting DEF Doing
<1>4. e \in Nat /\ e >= 1 /\ e - 1 \in Nat /\ Len(journal) \in Nat
  BY <1>1, <1>2, EventNumbers
<1>5. InDelta(b) /\ todo # <<>> /\ Head(todo).op = "append"
  BY <1>0, <1>1, <1>2, <1>3 DEF InEvent, Doing
<1>6. /\ todo = <<Op("append", m)>>
      /\ BufferAt(b, m, e - 1) /\ StreamAt(b, m, e - 1)
      /\ \A y \in Items : y # m => /\ buffer[b][y] = <<>> /\ observed[b][y] = <<>>
                                   /\ TailSent(e, y)
  <2>1. \A x : /\ Head(<<Op("complete", x), Op("append", m)>>).op = "complete"
               /\ Head(<<Op("tail", x), Op("complete", x), Op("append", m)>>).op = "tail"
               /\ Head(<<Op("load", NoItem), Op("tail", x), Op("complete", x), Op("append", m)>>).op = "load"
    BY DEF Op
  <2>2. QED
    BY <1>0, <1>2, <1>5, <2>1 DEF InDelta
<1>7. /\ \A y : y # m => St(y, e) = {} /\ Pd(y, e) = {}
      /\ St(m, e) = St(m, e - 1) \cup {e}
      /\ Pd(m, e) = IF e \in S THEN {} ELSE Pd(m, e - 1) \cup {e}
      /\ e \in S <=> \/ streaming /\ (St(m, e - 1) = {} \/ journal[e].ends)
                     \/ Cardinality(Pd(m, e - 1) \cup {e}) > BufferLimit
      /\ \A op, y : Needed(e, op, y)
                      <=> \/ op = "append" /\ y = m /\ e \in S
                          \/ op = "tail" /\ y # m /\ Pd(y, e - 1) # {}
  <2>1. m = journal[e].item /\ journal \in Scripts /\ e \in 1..Len(journal) /\ journal[e].type = "delta"
    BY <1>1, <1>2
  <2>2. /\ \A y : y # m => St(y, e) = {} /\ Pd(y, e) = {}
        /\ St(m, e) = St(m, e - 1) \cup {e}
    BY <2>1, DeltaEvent
  <2>3. Pd(m, e) = IF e \in S THEN {} ELSE Pd(m, e - 1) \cup {e}
    BY <2>1, DeltaEvent
  <2>4. e \in S <=> \/ streaming /\ (St(m, e - 1) = {} \/ journal[e].ends)
                    \/ Cardinality(Pd(m, e - 1) \cup {e}) > BufferLimit
    BY <2>1, DeltaEvent
  <2>5. ASSUME NEW op, NEW y
        PROVE  Needed(e, op, y)
                 <=> \/ op = "append" /\ y = m /\ e \in S
                     \/ op = "tail" /\ y # m /\ Pd(y, e - 1) # {}
    <3>1. \A o, x : Needed(e, o, x)
            <=> \/ o = "append" /\ x = journal[e].item /\ e \in Schedule(journal, streaming)
                \/ o = "tail" /\ x # journal[e].item /\ Pd(x, e - 1) # {}
      BY <2>1, DeltaEvent
    <3>2. QED
      BY <2>1, <3>1
  <2>6. QED
    BY <2>2, <2>3, <2>4, <2>5
<1> HIDE DEF S
<1>8. /\ St(m, e - 1) \subseteq 1..(e - 1) /\ IsFiniteSet(St(m, e - 1)) /\ St(m, e - 1) \subseteq Nat
      /\ Pd(m, e - 1) \subseteq 1..(e - 1) /\ IsFiniteSet(Pd(m, e - 1)) /\ Pd(m, e - 1) \subseteq Nat
      /\ Pd(m, e - 1) \subseteq St(m, e - 1)
  BY <1>4, StreamsAre
<1>9. /\ \A x \in St(m, e - 1) : x < e
      /\ \A x \in Pd(m, e - 1) : x < e
  BY <1>4, <1>8
<1>10. /\ InOrder(St(m, e - 1) \cup {e}) = Append(observed[b][m], e)
       /\ InOrder(Pd(m, e - 1) \cup {e}) = Append(buffer[b][m], e)
       /\ Len(Append(buffer[b][m], e)) = Cardinality(Pd(m, e - 1) \cup {e})
       /\ InOrder(Pd(m, e - 1) \cup {e}) # <<>> /\ InOrder(St(m, e - 1) \cup {e}) # <<>>
  <2>1. /\ InOrder(St(m, e - 1) \cup {e}) = Append(InOrder(St(m, e - 1)), e)
        /\ St(m, e - 1) \cup {e} \subseteq Nat /\ IsFiniteSet(St(m, e - 1) \cup {e})
    BY <1>4, <1>8, <1>9, InOrderAdd
  <2>2. /\ InOrder(Pd(m, e - 1) \cup {e}) = Append(InOrder(Pd(m, e - 1)), e)
        /\ Len(InOrder(Pd(m, e - 1) \cup {e})) = Cardinality(Pd(m, e - 1) \cup {e})
        /\ Pd(m, e - 1) \cup {e} \subseteq Nat /\ IsFiniteSet(Pd(m, e - 1) \cup {e})
    BY <1>4, <1>8, <1>9, InOrderAdd
  <2>3. /\ InOrder(Pd(m, e - 1) \cup {e}) # <<>> /\ InOrder(St(m, e - 1) \cup {e}) # <<>>
    BY <2>1, <2>2, InOrderNone
  <2>4. QED
    BY <1>6, <2>1, <2>2, <2>3 DEF BufferAt, StreamAt
<1>11. begun[b][m] <=> streaming /\ St(m, e - 1) # {}
  <2>1. begun[b][m] = (streaming /\ observed[b][m] # <<>>)
    BY <1>2 DEF Following, Remembers
  <2>2. observed[b][m] = <<>> <=> St(m, e - 1) = {}
    BY <1>2, <1>4, <1>6, TextOf
  <2>3. QED
    BY <2>1, <2>2
<1>12. /\ Chunk(b, m, e) # <<>> <=> e \in S
       /\ e \in S => Chunk(b, m, e) = InOrder(Pd(m, e - 1) \cup {e})
  <2>1. CASE streaming /\ St(m, e - 1) = {}
    <3>1. Chunk(b, m, e) = <<e>>
      BY <1>11, <2>1 DEF Chunk
    <3>2. Pd(m, e - 1) \cup {e} = {e}
      BY <1>8, <2>1
    <3>3. InOrder({e}) = <<e>>
      BY <1>4, InOrderSingle
    <3>4. <<e>> # <<>>
      OBVIOUS
    <3>5. QED
      BY <1>7, <2>1, <3>1, <3>2, <3>3, <3>4
  <2>2. CASE ~(streaming /\ St(m, e - 1) = {})
    <3>1. Chunk(b, m, e) = IF \/ Cardinality(Pd(m, e - 1) \cup {e}) > BufferLimit
                              \/ streaming /\ journal[e].ends
                           THEN InOrder(Pd(m, e - 1) \cup {e}) ELSE <<>>
      BY <1>10, <1>11, <2>2 DEF Chunk
    <3>2. QED
      BY <1>7, <1>10, <2>2, <3>1
  <2>3. QED
    BY <2>1, <2>2
<1>13. e \in S => Added(e, "append", m) = Pd(m, e - 1) \cup {e}
  <2>1. e \in All(m)
    BY <1>2 DEF All, Carried, Carries
  <2>2. QED
    BY <2>1 DEF Added
<1>14. /\ Told' /\ Later /\ (Needed(e, "append", m) => <<e, "append", m>> \in receipts')
  <2>1. "append" \in Ops /\ "append" # "complete" /\ "append" = Head(worker[b].todo).op
    BY <1>5 DEF Ops
  <2>2. Needed(e, "append", m) <=> e \in S
    BY <1>7
  <2>3. Chunk(b, m, e) # <<>> => Needed(e, "append", m)
    BY <1>12, <2>2
  <2>4. Needed(e, "append", m) /\ <<e, "append", m>> \notin receipts
          => Chunk(b, m, e) # <<>> /\ Chunk(b, m, e) = InOrder(Added(e, "append", m))
    BY <1>12, <1>13, <2>2
  <2>5. QED
    BY <1>0, <1>1, <1>2, <1>3, <2>1, <2>3, <2>4, Sent
<1>15. /\ buffer' = [buffer EXCEPT ![b][m] = IF Chunk(b, m, e) = <<>> THEN Append(buffer[b][m], e) ELSE <<>>]
       /\ begun' = [begun EXCEPT ![b][m] = begun[b][m] \/ streaming]
       /\ active' = [active EXCEPT ![b] = m]
       /\ remembered' = [remembered EXCEPT ![b] = remembered[b] \cup {m}]
       /\ observed' = [observed EXCEPT ![b][m] = Append(observed[b][m], e)]
  <2>1. /\ buffer \in [Backends -> [Items -> Seq(Nat)]] /\ begun \in [Backends -> [Items -> BOOLEAN]]
        /\ observed \in [Backends -> [Items -> Seq(Nat)]] /\ remembered \in [Backends -> SUBSET Items]
    BY DEF Pieces, MemoryOK
  <2>2. QED
    BY <1>1, <1>2, <2>1 DEF Coalesce
<1>16. /\ \A c \in Backends : c # b => SameMemory(c)
       /\ \A y \in Items :
            /\ buffer'[b][y] = IF y = m THEN (IF Chunk(b, m, e) = <<>> THEN Append(buffer[b][m], e) ELSE <<>>)
                               ELSE buffer[b][y]
            /\ begun'[b][y] = IF y = m THEN begun[b][m] \/ streaming ELSE begun[b][y]
            /\ observed'[b][y] = IF y = m THEN Append(observed[b][m], e) ELSE observed[b][y]
       /\ active'[b] = m /\ remembered'[b] = remembered[b] \cup {m}
  <2>1. /\ buffer \in [Backends -> [Items -> Seq(Nat)]] /\ begun \in [Backends -> [Items -> BOOLEAN]]
        /\ observed \in [Backends -> [Items -> Seq(Nat)]] /\ remembered \in [Backends -> SUBSET Items]
        /\ active \in [Backends -> Items \cup {NoItem}]
    BY DEF Pieces, MemoryOK
  <2> DEFINE v == IF Chunk(b, m, e) = <<>> THEN Append(buffer[b][m], e) ELSE <<>>
  <2>2. buffer' = [buffer EXCEPT ![b][m] = v]
    BY <1>15
  <2> HIDE DEF v
  <2>3. /\ \A c \in Backends : c # b => buffer'[c] = buffer[c]
        /\ \A y \in Items : buffer'[b][y] = IF y = m THEN v ELSE buffer[b][y]
    BY <1>2, <2>1, <2>2, OneItem
  <2>4. /\ \A c \in Backends : c # b => begun'[c] = begun[c]
        /\ \A y \in Items : begun'[b][y] = IF y = m THEN begun[b][m] \/ streaming ELSE begun[b][y]
    BY <1>2, <1>15, <2>1, OneItem
  <2>5. /\ \A c \in Backends : c # b => observed'[c] = observed[c]
        /\ \A y \in Items : observed'[b][y] = IF y = m THEN Append(observed[b][m], e) ELSE observed[b][y]
    BY <1>2, <1>15, <2>1, OneItem
  <2>6. /\ \A c \in Backends : c # b => active'[c] = active[c] /\ remembered'[c] = remembered[c]
        /\ active'[b] = m /\ remembered'[b] = remembered[b] \cup {m}
    BY <1>15, <2>1
  <2>7. \A c \in Backends : c # b => SameMemory(c)
    BY <2>3, <2>4, <2>5, <2>6 DEF SameMemory
  <2>8. QED
    BY <2>3, <2>4, <2>5, <2>6, <2>7 DEF v
<1>17. /\ worker'[b].event = e /\ worker'[b].todo = <<>>
       /\ \A c \in Backends : c # b => SameProcess(c)
       /\ up' = up /\ next' = next /\ processed' = processed /\ cursor' = cursor
  <2>1. Tail(worker[b].todo) = <<>>
    BY <1>6
  <2>2. QED
    BY <1>0, <1>1, <2>1, WorkFrame DEF Done
<1>18. InOrder({}) = <<>>
  BY InOrderEmpty
<1>19. TextAt(b, e)'
  <2>1. ASSUME NEW y \in Items
        PROVE  buffer'[b][y] = InOrder(Pd(y, e)) /\ observed'[b][y] = InOrder(St(y, e))
    <3>1. CASE y = m
      BY <1>7, <1>10, <1>12, <1>16, <1>18, <3>1
    <3>2. CASE y # m
      BY <1>6, <1>7, <1>16, <1>18, <3>2
    <3>3. QED
      BY <3>1, <3>2
  <2>2. QED
    BY <1>14, <2>1, TextThen
<1>20. Remembers(b)'
  <2>1. Remembers(b)
    BY DEF Following
  <2>2. ASSUME NEW y \in Items
        PROVE  /\ begun'[b][y] = (streaming /\ observed'[b][y] # <<>>)
               /\ observed'[b][y] # <<>> => y \in remembered'[b]
    <3>1. CASE y = m
      <4>1. observed'[b][m] # <<>>
        BY <1>2, <1>10, <1>16
      <4>2. begun[b][m] \in BOOLEAN /\ (begun[b][m] => streaming)
        BY <1>2, <1>11 DEF Pieces, MemoryOK
      <4>3. QED
        BY <1>1, <1>16, <3>1, <4>1, <4>2
    <3>2. CASE y # m
      BY <1>16, <2>1, <3>2 DEF Remembers
    <3>3. QED
      BY <3>1, <3>2
  <2>3. QED
    BY <1>14, <2>2, TextThen
<1>21. Receipted(e)'
  <2>1. ASSUME NEW op, NEW y \in Items, Needed(e, op, y) PROVE <<e, op, y>> \in receipts'
    <3>1. CASE op = "append" /\ y = m
      BY <1>14, <2>1, <3>1
    <3>2. CASE op = "tail" /\ y # m
      <4>1. TailSent(e, y)
        BY <1>6, <3>2
      <4>2. QED
        BY <1>14, <2>1, <3>2, <4>1 DEF TailSent, Later
    <3>3. QED
      BY <1>7, <2>1, <3>1, <3>2
  <2>2. ASSUME NEW op, NEW y PROVE Needed(e, op, y)' <=> Needed(e, op, y)
    BY <1>1, ScriptKept
  <2>3. QED
    BY <2>1, <2>2 DEF Receipted, Ops
<1>22. InDelta(b)'
  BY <1>1, <1>2, <1>16, <1>17, <1>19, <1>21 DEF InDelta
<1>23. InEvent(b)'
  BY <1>1, <1>2, <1>17, <1>22 DEF InEvent
<1>24. Following(b)'
  BY <1>0, <1>3, <1>14, <1>17, <1>20, <1>23, StillAt
<1>25. QED
  BY <1>14, <1>16, <1>17, <1>24 DEF Onward

\* What is left of a plan after its first operation.
LEMMA TodoTail ==
  ASSUME NEW A, NEW s \in Seq(A), s # <<>>
  PROVE  /\ Tail(s) \in Seq(A) /\ Len(s) \in Nat /\ Len(s) >= 1
         /\ \A x : x \in ToSet(s) <=> x = Head(s) \/ x \in ToSet(Tail(s))
         /\ Ordered(s) => Ordered(Tail(s))
         /\ Ordered(s) /\ Head(s).op # "flush" =>
              \A x \in ToSet(Tail(s)) : x.op \notin {"flush", "settle"}
<1>1. /\ Len(s) \in Nat /\ Len(s) >= 1 /\ Tail(s) \in Seq(A) /\ Len(Tail(s)) = Len(s) - 1
      /\ Head(s) = s[1] /\ DOMAIN s = 1..Len(s) /\ DOMAIN Tail(s) = 1..(Len(s) - 1)
      /\ \A i \in 1..(Len(s) - 1) : Tail(s)[i] = s[i + 1] /\ i + 1 \in 1..Len(s)
  OBVIOUS
<1>2. ASSUME NEW x PROVE x \in ToSet(s) <=> x = Head(s) \/ x \in ToSet(Tail(s))
  <2>1. ASSUME x \in ToSet(s), x # Head(s) PROVE x \in ToSet(Tail(s))
    <3>1. PICK i \in 1..Len(s) : x = s[i]
      BY <1>1, <2>1 DEF ToSet
    <3>2. i - 1 \in 1..(Len(s) - 1) /\ (i - 1) + 1 = i
      BY <1>1, <2>1, <3>1
    <3>3. QED
      BY <1>1, <3>1, <3>2 DEF ToSet
  <2>2. ASSUME x \in ToSet(Tail(s)) PROVE x \in ToSet(s)
    <3>1. PICK i \in 1..(Len(s) - 1) : x = Tail(s)[i]
      BY <1>1, <2>2 DEF ToSet
    <3>2. QED
      BY <1>1, <3>1 DEF ToSet
  <2>3. ASSUME x = Head(s) PROVE x \in ToSet(s)
    BY <1>1, <2>3 DEF ToSet
  <2>4. QED
    BY <2>1, <2>2, <2>3
<1>3. ASSUME Ordered(s) PROVE Ordered(Tail(s))
  <2>1. ASSUME NEW i \in 1..(Len(s) - 1), NEW j \in 1..(Len(s) - 1), i < j,
               Tail(s)[j].op \in {"flush", "settle"}
        PROVE  Tail(s)[i].op = "flush"
    <3>1. /\ i + 1 \in 1..Len(s) /\ j + 1 \in 1..Len(s) /\ i + 1 < j + 1
          /\ Tail(s)[i] = s[i + 1] /\ Tail(s)[j] = s[j + 1]
      BY <1>1, <2>1
    <3>2. QED
      BY <1>3, <2>1, <3>1 DEF Ordered
  <2>2. QED
    BY <1>1, <2>1 DEF Ordered
<1>4. ASSUME Ordered(s), Head(s).op # "flush", NEW x \in ToSet(Tail(s))
      PROVE  x.op \notin {"flush", "settle"}
  <2>1. PICK i \in 1..(Len(s) - 1) : x = Tail(s)[i]
    BY <1>1 DEF ToSet
  <2>2. x = s[i + 1] /\ 1 \in 1..Len(s) /\ i + 1 \in 1..Len(s) /\ 1 < i + 1
    BY <1>1, <2>1
  <2>3. QED
    BY <1>1, <1>4, <2>2 DEF Ordered
<1>5. QED
  BY <1>1, <1>2, <1>3, <1>4

\* The coalesced text of an item is taken; nothing else is forgotten.
LEMMA Taken ==
  ASSUME Pieces, Later, NEW b \in Backends, NEW m \in Items, TakeBuffer(b, m),
         UNCHANGED <<begun, observed, active, remembered>>, Remembers(b)
  PROVE  /\ \A c \in Backends : c # b => SameMemory(c)
         /\ buffer'[b][m] = <<>> /\ \A y \in Items : y # m => buffer'[b][y] = buffer[b][y]
         /\ observed'[b] = observed[b] /\ active'[b] = active[b]
         /\ Remembers(b)'
<1>1. buffer \in [Backends -> [Items -> Seq(Nat)]] /\ buffer' = [buffer EXCEPT ![b][m] = <<>>]
  BY DEF Pieces, MemoryOK, TakeBuffer
<1>2. /\ \A c \in Backends : c # b => buffer'[c] = buffer[c]
      /\ \A y \in Items : buffer'[b][y] = IF y = m THEN <<>> ELSE buffer[b][y]
  BY <1>1, OneItem
<1>3. \A c \in Backends : c # b => SameMemory(c)
  BY <1>2 DEF SameMemory
<1>4. Remembers(b)'
  BY DEF Remembers, Later
<1>5. QED
  BY <1>2, <1>3, <1>4

\* The end of the turn needs no more than its flushes.
LEMMA TodoOf ==
  ASSUME Pieces, NEW b \in Backends PROVE worker[b].todo \in Seq(Asked(worker[b].event))
BY DEF Pieces, WorkOK

\* The end of the turn sends what is coalesced.
LEMMA FlushFollows ==
  ASSUME CursorInv, Pieces, Told, NEW b \in Backends, Following(b), Flush(b)
  PROVE  Onward(b)
<1>0. PICK e, m : e = worker[b].event /\ m = ItemOf(b)
  OBVIOUS
<1>1. /\ journal \in Scripts
      /\ Doing(b, "flush") /\ TakeBuffer(b, m) /\ DispatchDelta(b, buffer[b][m])
      /\ Done(b) /\ UNCHANGED <<begun, observed, active, remembered>>
      /\ UNCHANGED <<journal, streaming, settled, durable>> /\ UNCHANGED process
  BY <1>0 DEF Flush, script, Pieces
<1>2. /\ m \in Items /\ e \in 1..Len(journal) /\ journal[e].type = "completed"
      /\ worker[b].todo # <<>> /\ Head(worker[b].todo).op = "flush"
      /\ Head(worker[b].todo) = Op("flush", m)
  <2>1. worker[b].todo # <<>> /\ Head(worker[b].todo).op = "flush"
    BY <1>1 DEF Doing
  <2>2. Head(worker[b].todo) \in Asked(e) /\ e \in 1..Len(journal)
    BY <1>0, <2>1, HeadAsked DEF Pieces
  <2>3. Head(worker[b].todo) = Op("flush", m)
    BY <1>0, <2>1, <2>2 DEF Asked, ItemOf, Op
  <2>4. QED
    BY <1>0, <2>1, <2>2, <2>3 DEF Asked, ItemOf
<1>3. /\ At(b) /\ InEvent(b) /\ \A d \in 1..(e - 1) : Receipted(d)
  BY <1>0, <1>1, <1>2, Acting
<1>4. InCompleted(b)
  BY <1>0, <1>2, <1>3 DEF InEvent
<1>5. e \in Nat /\ e >= 1 /\ e - 1 \in Nat /\ Len(journal) \in Nat
  BY <1>1, <1>2, EventNumbers
<1>6. /\ e = Len(journal)
      /\ Needed(e, "flush", m) <=> Pd(m, e - 1) # {}
  BY <1>1, <1>2, EndEvent
<1>7. /\ buffer[b][m] # <<>> => BufferAt(b, m, e - 1)
      /\ Needed(e, "flush", m) /\ <<e, "flush", m>> \notin receipts => BufferAt(b, m, e - 1)
  BY <1>0, <1>2, <1>4 DEF InCompleted
<1>8. Added(e, "flush", m) = Pd(m, e - 1)
  <2>1. e \notin All(m)
    BY <1>2 DEF All, Carried, Carries
  <2>2. QED
    BY <2>1 DEF Added
<1>9. /\ Told' /\ Later /\ (Needed(e, "flush", m) => <<e, "flush", m>> \in receipts')
  <2>1. "flush" \in Ops /\ "flush" # "complete" /\ "flush" = Head(worker[b].todo).op
    BY <1>2 DEF Ops
  <2>2. BufferAt(b, m, e - 1) => (buffer[b][m] = <<>> <=> Pd(m, e - 1) = {})
    BY <1>2, <1>5, TextOf
  <2>3. buffer[b][m] # <<>> => Needed(e, "flush", m)
    BY <1>6, <1>7, <2>2
  <2>4. Needed(e, "flush", m) /\ <<e, "flush", m>> \notin receipts
          => buffer[b][m] # <<>> /\ buffer[b][m] = InOrder(Added(e, "flush", m))
    BY <1>6, <1>7, <1>8, <2>2 DEF BufferAt
  <2>5. QED
    BY <1>0, <1>1, <1>2, <1>3, <2>1, <2>3, <2>4, Sent
<1>10. /\ \A c \in Backends : c # b => SameMemory(c)
       /\ buffer'[b][m] = <<>> /\ \A y \in Items : y # m => buffer'[b][y] = buffer[b][y]
       /\ observed'[b] = observed[b] /\ Remembers(b)'
  BY <1>1, <1>2, <1>9, Taken DEF Following
<1>11. /\ worker'[b].event = e /\ worker'[b].todo = Tail(worker[b].todo)
       /\ \A c \in Backends : c # b => SameProcess(c)
       /\ up' = up /\ next' = next /\ processed' = processed /\ cursor' = cursor
  BY <1>0, <1>1, WorkFrame DEF Done
<1>12. /\ Ordered(Tail(worker[b].todo))
       /\ \A x : x \in ToSet(worker[b].todo)
                   <=> x = Op("flush", m) \/ x \in ToSet(Tail(worker[b].todo))
  BY <1>2, <1>4, TodoOf, TodoTail DEF InCompleted
<1>13. \A o, y : Op(o, y) = Op("flush", m) <=> o = "flush" /\ y = m
  BY DEF Op
<1>14. ASSUME NEW y \in Items
       PROVE  /\ \/ BufferAt(b, y, e - 1)' /\ Op("flush", y) \in ToSet(Tail(worker[b].todo))
                 \/ buffer'[b][y] = <<>> /\ (Needed(e, "flush", y) => <<e, "flush", y>> \in receipts')
              /\ \/ StreamAt(b, y, e - 1)' /\ Op("complete", y) \in ToSet(Tail(worker[b].todo))
                 \/ observed'[b][y] = <<>>
  <2>1. /\ \/ BufferAt(b, y, e - 1) /\ Op("flush", y) \in ToSet(worker[b].todo)
           \/ buffer[b][y] = <<>> /\ (Needed(e, "flush", y) => <<e, "flush", y>> \in receipts)
        /\ \/ StreamAt(b, y, e - 1) /\ Op("complete", y) \in ToSet(worker[b].todo)
           \/ observed[b][y] = <<>>
    BY <1>0, <1>4 DEF InCompleted
  <2>2. /\ BufferAt(b, y, e - 1)' <=> buffer'[b][y] = InOrder(Pd(y, e - 1))
        /\ StreamAt(b, y, e - 1)' <=> observed'[b][y] = InOrder(St(y, e - 1))
    BY <1>9, TextThen
  <2>3. \/ StreamAt(b, y, e - 1)' /\ Op("complete", y) \in ToSet(Tail(worker[b].todo))
        \/ observed'[b][y] = <<>>
    BY <1>10, <1>12, <1>13, <2>1, <2>2 DEF StreamAt
  <2>4. CASE y = m
    BY <1>9, <1>10, <2>3, <2>4
  <2>5. CASE y # m
    BY <1>9, <1>10, <1>12, <1>13, <2>1, <2>2, <2>3, <2>5 DEF BufferAt, Later
  <2>6. QED
    BY <2>4, <2>5
<1>15. Op("settle", NoItem) \in ToSet(Tail(worker[b].todo)) \/ settled
  BY <1>4, <1>12, <1>13 DEF InCompleted
<1>16. InCompleted(b)'
  <2>1. ASSUME NEW y PROVE Needed(e, "flush", y)' <=> Needed(e, "flush", y)
    BY <1>1, ScriptKept
  <2>2. QED
    BY <1>1, <1>11, <1>12, <1>14, <1>15, <2>1 DEF InCompleted
<1>17. InEvent(b)'
  BY <1>1, <1>2, <1>11, <1>16 DEF InEvent
<1>18. Following(b)'
  BY <1>0, <1>3, <1>9, <1>10, <1>11, <1>17, StillAt
<1>19. QED
  BY <1>9, <1>10, <1>11, <1>18 DEF Onward

\* The turn is settled.
LEMMA SettleFollows ==
  ASSUME CursorInv, Pieces, Told, NEW b \in Backends, Following(b), Settle(b)
  PROVE  Onward(b)
<1>0. PICK e : e = worker[b].event
  OBVIOUS
<1>1. /\ journal \in Scripts /\ settled \in BOOLEAN /\ MessagesOK
      /\ Doing(b, "settle") /\ CloseMessages /\ Done(b)
      /\ UNCHANGED <<journal, streaming, receipts, durable>> /\ UNCHANGED process
      /\ IF journal[e].type = "completed" THEN UNCHANGED text
         ELSE /\ buffer' = [buffer EXCEPT ![b] = [m \in Items |->
                              IF m \in remembered[b] THEN <<>> ELSE @[m]]]
              /\ begun' = [begun EXCEPT ![b] = [m \in Items |-> @[m] /\ m \notin remembered[b]]]
              /\ observed' = [observed EXCEPT ![b] = [m \in Items |->
                                IF m \in remembered[b] THEN <<>> ELSE @[m]]]
              /\ active' = [active EXCEPT ![b] = NoItem]
              /\ remembered' = [remembered EXCEPT ![b] = {}]
  BY <1>0 DEF Settle, script, Pieces
<1>2. /\ e \in 1..Len(journal) /\ journal[e].type \in {"completed", "aborted"}
      /\ worker[b].todo # <<>> /\ Head(worker[b].todo).op = "settle"
      /\ Head(worker[b].todo).item = NoItem \/ journal[e].type = "completed"
  <2>1. worker[b].todo # <<>> /\ Head(worker[b].todo).op = "settle"
    BY <1>1 DEF Doing
  <2>2. Head(worker[b].todo) \in Asked(e) /\ e \in 1..Len(journal)
    BY <1>0, <2>1, HeadAsked DEF Pieces
  <2>3. journal[e].type \in {"completed", "aborted"}
    BY <2>1, <2>2 DEF Asked
  <2>4. CASE journal[e].type = "aborted"
    <3>1. InAborted(b)
      BY <1>0, <1>1, <2>1, <2>4, Acting DEF InEvent
    <3>2. worker[b].todo = <<Op("settle", NoItem)>>
      BY <2>1, <3>1 DEF InAborted
    <3>3. QED
      BY <2>1, <2>2, <2>3, <3>2 DEF Op
  <2>5. QED
    BY <2>1, <2>2, <2>3, <2>4
<1>3. /\ At(b) /\ InEvent(b) /\ \A d \in 1..(e - 1) : Receipted(d)
  BY <1>0, <1>1, <1>2, Acting
<1>5. e \in Nat /\ e >= 1 /\ e - 1 \in Nat /\ Len(journal) \in Nat
  BY <1>1, <1>2, EventNumbers
<1>6. /\ e = Len(journal) /\ \A y : St(y, e) = {} /\ Pd(y, e) = {}
      /\ \A op, y : Needed(e, op, y)
                      <=> op = "flush" /\ journal[e].type = "completed" /\ Pd(y, e - 1) # {}
  BY <1>1, <1>2, EndEvent
<1>7. /\ worker'[b].event = e /\ worker'[b].todo = Tail(worker[b].todo)
      /\ \A c \in Backends : c # b => SameProcess(c)
      /\ up' = up /\ next' = next /\ processed' = processed /\ cursor' = cursor
  BY <1>0, <1>1, WorkFrame DEF Done
<1>8. settled' = TRUE
  BY <1>1 DEF CloseMessages
<1>9. \A m \in Items : messages'[m].text = messages[m].text /\ ~messages'[m].streaming
  BY <1>1, ClosingGrows
<1>10. ASSUME Receipted(e) PROVE Told' /\ Later
  <2>1. \A d \in 1..Len(journal) : Receipted(d)
    <3>1. \A d \in 1..Len(journal) : d \in 1..(e - 1) \/ d = e
      BY <1>5, <1>6
    <3>2. QED
      BY <1>3, <1>10, <3>1
  <2>2. QED
    BY <1>1, <1>8, <1>9, <2>1, ToldSettled
<1>11. CASE journal[e].type = "completed"
  <2>1. InCompleted(b)
    BY <1>0, <1>3, <1>11 DEF InEvent
  <2>2. UNCHANGED <<buffer, begun, observed, active, remembered>>
    BY <1>1, <1>11 DEF text
  <2>3. /\ Ordered(Tail(worker[b].todo))
        /\ \A x : x \in ToSet(worker[b].todo)
                    <=> x = Head(worker[b].todo) \/ x \in ToSet(Tail(worker[b].todo))
        /\ \A x \in ToSet(Tail(worker[b].todo)) : x.op \notin {"flush", "settle"}
    BY <1>2, <2>1, TodoOf, TodoTail DEF InCompleted
  <2>4. ASSUME NEW y PROVE Op("flush", y) \notin ToSet(worker[b].todo)
    <3>1. Op("flush", y).op = "flush"
      BY DEF Op
    <3>2. QED
      BY <1>2, <2>3, <3>1
  <2>5. ASSUME NEW y \in Items
        PROVE  /\ buffer[b][y] = <<>> /\ (Needed(e, "flush", y) => <<e, "flush", y>> \in receipts)
               /\ \/ StreamAt(b, y, e - 1) /\ Op("complete", y) \in ToSet(Tail(worker[b].todo))
                  \/ observed[b][y] = <<>>
    <3>1. /\ \/ BufferAt(b, y, e - 1) /\ Op("flush", y) \in ToSet(worker[b].todo)
             \/ buffer[b][y] = <<>> /\ (Needed(e, "flush", y) => <<e, "flush", y>> \in receipts)
          /\ \/ StreamAt(b, y, e - 1) /\ Op("complete", y) \in ToSet(worker[b].todo)
             \/ observed[b][y] = <<>>
      BY <1>0, <2>1 DEF InCompleted
    <3>2. Op("complete", y) # Head(worker[b].todo)
      BY <1>2 DEF Op
    <3>3. QED
      BY <2>3, <2>4, <3>1, <3>2
  <2>6. Receipted(e)
    BY <1>6, <2>5 DEF Receipted
  <2>7. Told' /\ Later
    BY <1>10, <2>6
  <2>8. \A c \in Backends : SameMemory(c)
    BY <2>2 DEF SameMemory
  <2>9. Remembers(b)'
    BY <2>7, <2>8, MemoryThen DEF Following
  <2>10. InCompleted(b)'
    <3>1. ASSUME NEW y
          PROVE  /\ Needed(e, "flush", y)' <=> Needed(e, "flush", y)
                 /\ StreamAt(b, y, e - 1) => StreamAt(b, y, e - 1)'
      <4>1. Needed(e, "flush", y)' <=> Needed(e, "flush", y)
        BY <1>1, ScriptKept
      <4>2. StreamAt(b, y, e - 1)' <=> observed'[b][y] = InOrder(St(y, e - 1))
        BY <2>7, TextThen
      <4>3. QED
        BY <2>2, <4>1, <4>2 DEF StreamAt
    <3>2. QED
      BY <1>1, <1>7, <1>8, <2>2, <2>3, <2>5, <3>1 DEF InCompleted
  <2>11. InEvent(b)'
    BY <1>1, <1>7, <1>11, <2>10 DEF InEvent
  <2>12. Following(b)'
    BY <1>0, <1>3, <1>7, <2>7, <2>9, <2>11, StillAt
  <2>13. QED
    BY <1>7, <2>7, <2>8, <2>12 DEF Onward
<1>12. CASE journal[e].type = "aborted"
  <2>1. InAborted(b)
    BY <1>0, <1>3, <1>12 DEF InEvent
  <2>2. worker[b].todo = <<Op("settle", NoItem)>> /\ TextAt(b, e - 1)
    BY <1>0, <1>2, <2>1 DEF InAborted
  <2>3. Receipted(e)
    BY <1>6, <1>12 DEF Receipted
  <2>4. Told' /\ Later
    BY <1>10, <2>3
  <2>5. /\ buffer \in [Backends -> [Items -> Seq(Nat)]] /\ begun \in [Backends -> [Items -> BOOLEAN]]
        /\ observed \in [Backends -> [Items -> Seq(Nat)]] /\ remembered \in [Backends -> SUBSET Items]
        /\ active \in [Backends -> Items \cup {NoItem}]
    BY DEF Pieces, MemoryOK
  <2>6. /\ \A c \in Backends : c # b => SameMemory(c)
        /\ \A y \in Items :
             /\ buffer'[b][y] = IF y \in remembered[b] THEN <<>> ELSE buffer[b][y]
             /\ begun'[b][y] = (begun[b][y] /\ y \notin remembered[b])
             /\ observed'[b][y] = IF y \in remembered[b] THEN <<>> ELSE observed[b][y]
        /\ active'[b] = NoItem /\ remembered'[b] = {}
    <3>1. /\ buffer' = [buffer EXCEPT ![b] = [m \in Items |->
                              IF m \in remembered[b] THEN <<>> ELSE buffer[b][m]]]
          /\ begun' = [begun EXCEPT ![b] = [m \in Items |-> begun[b][m] /\ m \notin remembered[b]]]
          /\ observed' = [observed EXCEPT ![b] = [m \in Items |->
                                IF m \in remembered[b] THEN <<>> ELSE observed[b][m]]]
          /\ active' = [active EXCEPT ![b] = NoItem]
          /\ remembered' = [remembered EXCEPT ![b] = {}]
      BY <1>1, <1>12
    <3>2. QED
      BY <2>5, <3>1 DEF SameMemory
  <2>7. ASSUME NEW y \in Items
        PROVE  /\ buffer'[b][y] = <<>> /\ observed'[b][y] = <<>> /\ begun'[b][y] = FALSE
    <3>1. CASE y \in remembered[b]
      BY <2>6, <3>1
    <3>2. CASE y \notin remembered[b]
      <4>1. observed[b][y] = <<>> /\ begun[b][y] = FALSE
        BY <3>2 DEF Following, Remembers
      <4>2. BufferAt(b, y, e - 1) /\ StreamAt(b, y, e - 1)
        BY <2>2 DEF TextAt
      <4>3. St(y, e - 1) = {} /\ Pd(y, e - 1) \subseteq St(y, e - 1)
        BY <1>5, <4>1, <4>2, TextOf, StreamsAre
      <4>4. buffer[b][y] = <<>>
        BY <1>5, <4>2, <4>3, TextOf
      <4>5. QED
        BY <2>6, <3>2, <4>1, <4>4
    <3>3. QED
      BY <3>1, <3>2
  <2>8. TextAt(b, e)'
    <3>1. \A y \in Items : /\ buffer'[b][y] = InOrder(Pd(y, e))
                           /\ observed'[b][y] = InOrder(St(y, e))
      BY <1>6, <2>7, InOrderEmpty
    <3>2. TextAt(b, e)' <=> \A y \in Items : /\ buffer'[b][y] = InOrder(Pd(y, e))
                                             /\ observed'[b][y] = InOrder(St(y, e))
      BY <2>4, TextThen
    <3>3. QED
      BY <3>1, <3>2
  <2>9. Remembers(b)'
    BY <2>4, <2>7, TextThen
  <2>10. worker'[b].todo = <<>>
    BY <1>7, <2>2
  <2>11. InAborted(b)'
    BY <1>7, <1>8, <2>6, <2>8, <2>10 DEF InAborted
  <2>12. InEvent(b)'
    BY <1>1, <1>7, <1>12, <2>11 DEF InEvent
  <2>13. Following(b)'
    BY <1>0, <1>3, <1>7, <2>4, <2>9, <2>12, StillAt
  <2>14. QED
    BY <1>7, <2>4, <2>6, <2>13 DEF Onward
<1>13. QED
  BY <1>2, <1>11, <1>12

\* What is read of a message before its item event, when its stream was not observed.
LEMMA ReadIs ==
  ASSUME journal \in Scripts, Told, NEW e \in 1..Len(journal), journal[e].type = "item",
         NEW m \in Items, m = journal[e].item, \A d \in 1..(e - 1) : Receipted(d),
         St(m, e - 1) = {}
  PROVE  \/ messages[m].text = Said(m, e - 1)
         \/ messages[m].text = Said(m, e) /\ TailSent(e, m)
<1>1. e \in Nat /\ e >= 1 /\ e - 1 \in Nat /\ Len(journal) \in Nat /\ e <= Len(journal)
  BY EventNumbers
<1>2. messages[m].text = InOrder(Covered(m)) /\ Legit /\ Prior
  BY DEF Told, TextsTold
<1>3. Pd(m, e - 1) = {}
  BY <1>1, StreamsAre
<1>4. Carried(m, e - 1) \subseteq Covered(m)
  <2>1. e - 1 \in 0..Len(journal)
    BY <1>1
  <2>2. e - 1 >= 1 => journal[e - 1].type # "aborted"
    <3>1. e - 1 >= 1 => e - 1 \in 1..Len(journal) /\ e - 1 # Len(journal)
      BY <1>1
    <3>2. \A j \in 1..Len(journal) : journal[j].type \in {"completed", "aborted"} => j = Len(journal)
      BY Turn
    <3>3. QED
      BY <3>1, <3>2
  <2>3. Carried(m, e - 1) \ Pd(m, e - 1) \subseteq Covered(m)
    BY <2>1, <2>2, DeliveredIsCovered
  <2>4. QED
    BY <1>3, <2>3
<1>5. Covered(m) \subseteq Carried(m, e)
  <2>1. All(m) = Carried(m, e)
    BY ItemIsLast
  <2>2. QED
    BY <2>1, CoveredIs
<1>6. \A i \in Carried(m, e) : i \in Carried(m, e - 1) \/ i = e
  BY <1>1 DEF Carried
<1>7. Said(m, e) = InOrder(Carried(m, e)) /\ Said(m, e - 1) = InOrder(Carried(m, e - 1))
  BY <1>1, CarriedIs
<1>8. CASE e \notin Covered(m)
  <2>1. Covered(m) = Carried(m, e - 1)
    BY <1>4, <1>5, <1>6, <1>8
  <2>2. QED
    BY <1>2, <1>7, <2>1
<1>9. CASE e \in Covered(m)
  <2>1. Covered(m) = Carried(m, e)
    <3>1. \A i \in Carried(m, e) : i \in Covered(m)
      BY <1>4, <1>6, <1>9
    <3>2. QED
      BY <1>5, <3>1
  <2>2. PICK d \in 1..Len(journal), o \in Ops :
          <<d, o, m>> \in receipts /\ (e < d \/ (e = d /\ (o = "tail" => St(m, d - 1) = {})))
    BY <1>9 DEF Covered
  <2>3. TailSent(e, m)
    <3>0. "tail" \in Ops
      BY DEF Ops
    <3>1. CASE e < d
      <4>1. e \in 1..(d - 1)
        BY <1>1, <3>1
      <4>2. Receipted(e)
        BY <1>2, <2>2, <4>1 DEF Prior
      <4>3. QED
        BY <3>0, <4>2 DEF Receipted, TailSent
    <3>2. CASE e = d /\ o = "complete"
      <4>1. <<e, "complete", m>> \in receipts /\ "complete" \in Ops
        BY <2>2, <3>2
      <4>2. \A x \in Ops : Needed(e, x, m) => <<e, x, m>> \in receipts
        BY <1>2, <4>1 DEF Prior
      <4>3. QED
        BY <3>0, <4>2 DEF TailSent
    <3>3. CASE e = d /\ o # "complete"
      <4>1. Needed(e, o, m)
        BY <1>2, <2>2, <3>3, LegitIs
      <4>2. \A x, y : Needed(e, x, y) => x \in {"tail", "complete"}
        BY ItemEvent
      <4>3. o = "tail"
        BY <3>3, <4>1, <4>2
      <4>4. QED
        BY <2>2, <3>3, <4>3 DEF TailSent
    <3>4. QED
      BY <2>2, <3>1, <3>2, <3>3
  <2>4. QED
    BY <1>2, <1>7, <2>1, <2>3
<1>10. QED
  BY <1>8, <1>9

\* The text of a backend is what it was.
LEMMA TextSame ==
  ASSUME Later, NEW b, UNCHANGED <<buffer, observed, active>>
  PROVE  /\ \A y, k : /\ BufferAt(b, y, k)' <=> BufferAt(b, y, k)
                      /\ StreamAt(b, y, k)' <=> StreamAt(b, y, k)
         /\ \A k : /\ TextAt(b, k)' <=> TextAt(b, k)
                   /\ ActiveAt(b, k)' <=> ActiveAt(b, k)
<1>1. ASSUME NEW y, NEW k
      PROVE  /\ BufferAt(b, y, k)' <=> BufferAt(b, y, k)
             /\ StreamAt(b, y, k)' <=> StreamAt(b, y, k)
  <2>1. St(y, k)' = St(y, k) /\ Pd(y, k)' = Pd(y, k)
    BY ScriptKept DEF Later
  <2>2. QED
    BY <2>1 DEF BufferAt, StreamAt
<1>2. ASSUME NEW k PROVE TextAt(b, k)' <=> TextAt(b, k)
  BY <1>1 DEF TextAt
<1>3. ASSUME NEW k PROVE ActiveAt(b, k)' <=> ActiveAt(b, k)
  <2>1. \A y : St(y, k)' = St(y, k)
    BY ScriptKept DEF Later
  <2>2. QED
    BY <2>1 DEF ActiveAt
<1>4. QED
  BY <1>1, <1>2, <1>3

\* The messages are read, and a redundant detail is dropped.
LEMMA LoadFollows ==
  ASSUME CursorInv, Pieces, Told, NEW b \in Backends, Following(b), Load(b)
  PROVE  Onward(b)
<1>0. PICK e, m : e = worker[b].event /\ m = journal[e].item
  OBVIOUS
<1> DEFINE item == journal[e].type = "item"
           rest == IF item /\ Redundant(b) THEN <<>> ELSE Tail(worker[b].todo)
           R == IF item /\ ~Redundant(b) THEN remembered[b] \cup {m} ELSE remembered[b]
<1>1. /\ journal \in Scripts /\ Doing(b, "load") /\ GoesOn(b, rest, messages)
      /\ UNCHANGED <<journal, streaming, messages, receipts, settled, durable>>
      /\ UNCHANGED <<buffer, begun, observed, active>> /\ UNCHANGED process
  BY <1>0 DEF Load, script, store, Pieces
<1>2. remembered' = [remembered EXCEPT ![b] = R]
  <2>1. remembered \in [Backends -> SUBSET Items]
    BY DEF Pieces, MemoryOK
  <2>2. QED
    BY <1>0, <2>1 DEF Load
<1> HIDE DEF rest, R
<1>3. /\ e \in 1..Len(journal) /\ worker[b].todo # <<>> /\ Head(worker[b].todo).op = "load"
      /\ Head(worker[b].todo) \in Asked(e)
  <2>1. worker[b].todo # <<>> /\ Head(worker[b].todo).op = "load"
    BY <1>1 DEF Doing
  <2>2. QED
    BY <1>0, <2>1, HeadAsked DEF Pieces
<1>4. /\ At(b) /\ InEvent(b) /\ \A d \in 1..(e - 1) : Receipted(d)
  BY <1>0, <1>1, <1>3, Acting
<1>5. e \in Nat /\ e >= 1 /\ e - 1 \in Nat /\ Len(journal) \in Nat
  BY <1>1, <1>3, EventNumbers
<1>6. /\ worker'[b].event = e /\ worker'[b].todo = rest /\ worker'[b].seen = messages
      /\ \A c \in Backends : c # b => SameProcess(c)
      /\ up' = up /\ next' = next /\ processed' = processed /\ cursor' = cursor
  BY <1>0, <1>1, WorkFrame
<1>7. Told' /\ Later
  <2>1. \A d \in 1..durable' : Passed(d)
    BY <1>1 DEF Told
  <2>2. QED
    BY <1>1, <2>1, ToldKept
<1>8. /\ \A c \in Backends : c # b => SameMemory(c)
      /\ remembered'[b] = R /\ remembered[b] \subseteq R
  <2>1. remembered \in [Backends -> SUBSET Items]
    BY DEF Pieces, MemoryOK
  <2>2. remembered[b] \subseteq R
    BY DEF R
  <2>3. QED
    BY <1>1, <1>2, <2>1, <2>2 DEF SameMemory
<1>9. Remembers(b)'
  BY <1>1, <1>8 DEF Following, Remembers
<1>10. /\ \A y, k : /\ BufferAt(b, y, k)' <=> BufferAt(b, y, k)
                    /\ StreamAt(b, y, k)' <=> StreamAt(b, y, k)
       /\ \A k : (TextAt(b, k)' <=> TextAt(b, k)) /\ (ActiveAt(b, k)' <=> ActiveAt(b, k))
  BY <1>1, <1>7, TextSame
<1>11. ASSUME NEW k, NEW y
       PROVE  /\ St(y, k)' = St(y, k) /\ Said(y, k)' = Said(y, k)
              /\ \A op : Needed(k, op, y)' <=> Needed(k, op, y)
              /\ TailSent(k, y) => TailSent(k, y)'
              /\ Receipted(k) => Receipted(k)'
  <2>1. /\ St(y, k)' = St(y, k) /\ Said(y, k)' = Said(y, k)
        /\ \A op : Needed(k, op, y)' <=> Needed(k, op, y)
    BY <1>1, ScriptKept
  <2>2. TailSent(k, y) => TailSent(k, y)'
    BY <1>7, Monotone
  <2>3. Receipted(k) => Receipted(k)'
    BY <1>7, Monotone
  <2>4. QED
    BY <2>1, <2>2, <2>3
<1>12. CASE journal[e].type = "delta"
  <2>1. InDelta(b)
    BY <1>0, <1>4, <1>12 DEF InEvent
  <2>2. PICK a \in Items :
          /\ a = active[b] /\ a # m /\ St(a, e - 1) # {} /\ TextAt(b, e - 1)
          /\ worker[b].todo = <<Op("load", NoItem), Op("tail", a), Op("complete", a), Op("append", m)>>
    <3>1. \A x, y : /\ Head(<<Op("append", x)>>).op = "append"
                    /\ Head(<<Op("complete", x), Op("append", y)>>).op = "complete"
                    /\ Head(<<Op("tail", x), Op("complete", x), Op("append", y)>>).op = "tail"
      BY DEF Op
    <3>2. QED
      BY <1>0, <1>3, <2>1, <3>1 DEF InDelta
  <2>3. rest = <<Op("tail", a), Op("complete", a), Op("append", m)>>
    BY <1>12, <2>2 DEF rest
  <2>4. InDelta(b)'
    BY <1>0, <1>1, <1>6, <1>10, <1>11, <2>2, <2>3 DEF InDelta
  <2>5. InEvent(b)'
    BY <1>1, <1>6, <1>12, <2>4 DEF InEvent
  <2>6. QED
    BY <1>0, <1>4, <1>6, <1>7, <1>8, <1>9, <2>5, StillAt DEF Onward
<1>13. CASE journal[e].type = "completed"
  <2>1. InCompleted(b)
    BY <1>0, <1>4, <1>13 DEF InEvent
  <2>2. rest = Tail(worker[b].todo)
    BY <1>13 DEF rest
  <2>3. /\ Ordered(rest)
        /\ \A x : x \in ToSet(worker[b].todo) <=> x = Head(worker[b].todo) \/ x \in ToSet(rest)
    BY <1>3, <2>1, <2>2, TodoOf, TodoTail DEF InCompleted
  <2>4. \A o, y : o # "load" => Op(o, y) # Head(worker[b].todo)
    BY <1>3 DEF Op
  <2>5. \A o, y : o # "load" => (Op(o, y) \in ToSet(worker[b].todo) <=> Op(o, y) \in ToSet(rest))
    BY <2>3, <2>4
  <2>6. InCompleted(b)'
    BY <1>0, <1>1, <1>6, <1>10, <1>11, <2>1, <2>3, <2>5 DEF InCompleted
  <2>7. InEvent(b)'
    BY <1>1, <1>6, <1>13, <2>6 DEF InEvent
  <2>8. QED
    BY <1>0, <1>4, <1>6, <1>7, <1>8, <1>9, <2>7, StillAt DEF Onward
<1>14. CASE journal[e].type = "item"
  <2>1. InItem(b) /\ m \in Items
    BY <1>0, <1>1, <1>3, <1>4, <1>14, Turn DEF InEvent
  <2>2. /\ ActiveAt(b, e - 1) /\ TextAt(b, e - 1)
        /\ worker[b].todo = <<Op("load", NoItem), Op("tail", m), Op("complete", m)>>
    <3>1. \A x : /\ Head(<<Op("complete", x)>>).op = "complete"
                 /\ Head(<<Op("tail", x), Op("complete", x)>>).op = "tail"
      BY DEF Op
    <3>2. QED
      BY <1>0, <1>3, <2>1, <3>1 DEF InItem
  <2>3. /\ St(m, e) = {} /\ Pd(m, e) = {}
        /\ \A y : y # m => St(y, e) = St(y, e - 1) /\ Pd(y, e) = Pd(y, e - 1)
    <3>1. /\ m = journal[e].item /\ journal \in Scripts /\ e \in 1..Len(journal)
          /\ journal[e].type = "item"
      BY <1>0, <1>1, <1>3, <1>14
    <3>2. St(m, e) = {} /\ Pd(m, e) = {}
      <4>1. Closes(journal, e, m)
        BY <3>1 DEF Closes
      <4>2. QED
        BY <1>5, <4>1, StreamStep, PendingStep DEF St, Pd
    <3>3. ASSUME NEW y, y # m PROVE St(y, e) = St(y, e - 1) /\ Pd(y, e) = Pd(y, e - 1)
      BY <3>1, <3>3, ItemEvent
    <3>4. QED
      BY <3>2, <3>3
  <2>4. CASE Redundant(b)
    <3>1. rest = <<>>
      BY <1>14, <2>4 DEF rest
    <3>2. Detail(e) = <<>> /\ active[b] # m
      BY <1>0, <2>4 DEF Redundant
    <3>3. St(m, e - 1) = {} /\ Pd(m, e - 1) = {}
      <4>1. CASE active[b] = NoItem /\ \A y \in Items : St(y, e - 1) = {}
        BY <1>5, <2>1, <4>1, StreamsAre
      <4>2. CASE active[b] \in Items /\ St(active[b], e - 1) # {}
        BY <1>5, <3>2, <4>2, OneOpen
      <4>3. QED
        BY <2>2, <4>1, <4>2 DEF ActiveAt
    <3>4. journal[e].text # "more"
      <4>1. ASSUME journal[e].text = "more" PROVE FALSE
        <5>1. e \in Carried(m, e)
          BY <1>0, <1>5, <1>14, <4>1 DEF Carried, Carries
        <5>2. Detail(e) = Said(m, e)
          BY <1>0, <1>14, <4>1 DEF Detail
        <5>3. Carried(m, e) \subseteq Nat /\ IsFiniteSet(Carried(m, e)) /\ Said(m, e) = InOrder(Carried(m, e))
          BY <1>5, CarriedIs
        <5>4. QED
          BY <3>2, <5>1, <5>2, <5>3, InOrderNone
      <4>2. QED
        BY <4>1
    <3>5. Receipted(e)
      <4>1. \A op, y : ~Needed(e, op, y)
        BY <1>0, <1>1, <1>3, <1>14, <3>3, <3>4, ItemEvent
      <4>2. QED
        BY <4>1 DEF Receipted
    <3>6. TextAt(b, e)
      <4>1. ASSUME NEW y \in Items PROVE BufferAt(b, y, e) /\ StreamAt(b, y, e)
        <5>1. BufferAt(b, y, e - 1) /\ StreamAt(b, y, e - 1)
          BY <2>2 DEF TextAt
        <5>2. St(y, e) = St(y, e - 1) /\ Pd(y, e) = Pd(y, e - 1)
          BY <2>3, <3>3
        <5>3. QED
          BY <5>1, <5>2 DEF BufferAt, StreamAt
      <4>2. QED
        BY <4>1 DEF TextAt
    <3>7. InItem(b)'
      <4>1. ActiveAt(b, e - 1)' /\ TextAt(b, e)' /\ Receipted(e)'
        BY <1>10, <1>11, <2>2, <3>5, <3>6
      <4>2. QED
        BY <1>1, <1>6, <3>1, <4>1 DEF InItem
    <3>8. InEvent(b)'
      BY <1>1, <1>6, <1>14, <3>7 DEF InEvent
    <3>9. QED
      BY <1>0, <1>4, <1>6, <1>7, <1>8, <1>9, <3>8, StillAt DEF Onward
  <2>5. CASE ~Redundant(b)
    <3>1. rest = <<Op("tail", m), Op("complete", m)>>
      BY <2>2, <2>5 DEF rest
    <3>2. SeenAt(b, e, m)'
      <4>1. St(m, e - 1) = {} =>
              \/ messages[m].text = Said(m, e - 1)
              \/ messages[m].text = Said(m, e) /\ TailSent(e, m)
        BY <1>0, <1>1, <1>3, <1>4, <1>14, <2>1, ReadIs
      <4>2. /\ St(m, e - 1)' = St(m, e - 1) /\ Said(m, e)' = Said(m, e)
            /\ Said(m, e - 1)' = Said(m, e - 1) /\ (TailSent(e, m) => TailSent(e, m)')
        BY <1>11
      <4>3. QED
        BY <1>6, <4>1, <4>2 DEF SeenAt
    <3>3. ActiveAt(b, e - 1)' /\ TextAt(b, e - 1)'
      BY <1>10, <2>2
    <3>4. InItem(b)'
      BY <1>0, <1>1, <1>6, <3>1, <3>2, <3>3 DEF InItem
    <3>5. InEvent(b)'
      BY <1>1, <1>6, <1>14, <3>4 DEF InEvent
    <3>6. QED
      BY <1>0, <1>4, <1>6, <1>7, <1>8, <1>9, <3>5, StillAt DEF Onward
  <2>6. QED
    BY <2>4, <2>5
<1>15. journal[e].type \in {"delta", "item", "completed"}
  <2>1. journal[e].type \in {"delta", "item", "completed", "aborted"}
    BY <1>1, <1>3, Turn
  <2>2. QED
    BY <1>3, <2>1 DEF Asked
<1>16. QED
  BY <1>12, <1>13, <1>14, <1>15

\* Appending one element.
LEMMA AppendIs ==
  ASSUME NEW s \in Seq(Nat), NEW e \in Nat
  PROVE  Append(s, e) = s \o <<e>> /\ <<e>> \in Seq(Nat) /\ Append(s, e) # <<>>
<1>1. s \o <<e>> = Append(s, e)
  OBVIOUS
<1>2. <<e>> \in Seq(Nat)
  OBVIOUS
<1>3. Append(s, e) # <<>>
  OBVIOUS
<1>4. QED
  BY <1>1, <1>2, <1>3

\* The tail that is written at an item event: what is coalesced, or what the detail adds to
\* a text whose stream was not observed.
LEMMA TailAtItem ==
  ASSUME Pieces, NEW b \in Backends, NEW e \in 1..Len(journal), e = worker[b].event,
         journal[e].type = "item", NEW m \in Items, m = journal[e].item,
         BufferAt(b, m, e - 1), StreamAt(b, m, e - 1), SeenAt(b, e, m)
  PROVE  /\ TailText(b, m) # <<>> => Needed(e, "tail", m)
         /\ Needed(e, "tail", m) /\ <<e, "tail", m>> \notin receipts
              => TailText(b, m) # <<>> /\ TailText(b, m) = InOrder(Added(e, "tail", m))
<1>0. journal \in Scripts
  BY DEF Pieces
<1>1. e \in Nat /\ e >= 1 /\ e - 1 \in Nat /\ Len(journal) \in Nat /\ e <= Len(journal)
  BY <1>0, EventNumbers
<1>2. Needed(e, "tail", m)
        <=> Pd(m, e - 1) # {} \/ (journal[e].text = "more" /\ St(m, e - 1) = {})
  BY DEF Needed, Closes
<1>3. /\ buffer[b][m] = <<>> <=> Pd(m, e - 1) = {}
      /\ observed[b][m] = <<>> <=> St(m, e - 1) = {}
      /\ Pd(m, e - 1) \subseteq St(m, e - 1)
      /\ buffer[b][m] = InOrder(Pd(m, e - 1))
  <2>1. /\ buffer[b][m] = <<>> <=> Pd(m, e - 1) = {}
        /\ observed[b][m] = <<>> <=> St(m, e - 1) = {}
    BY <1>1, TextOf
  <2>2. Pd(m, e - 1) \subseteq St(m, e - 1)
    BY <1>1, StreamsAre
  <2>3. QED
    BY <2>1, <2>2 DEF BufferAt
<1>4. CASE St(m, e - 1) # {}
  <2>1. TailText(b, m) = buffer[b][m]
    BY <1>3, <1>4 DEF TailText
  <2>2. Added(e, "tail", m) = Pd(m, e - 1)
    BY <1>4 DEF Added
  <2>3. QED
    BY <1>2, <1>3, <1>4, <2>1, <2>2
<1>5. CASE St(m, e - 1) = {}
  <2> DEFINE seen == worker[b].seen[m].text
  <2>1. Pd(m, e - 1) = {} /\ buffer[b][m] = <<>> /\ observed[b][m] = <<>>
    BY <1>3, <1>5
  <2>2. seen \in Seq(Nat)
    BY DEF Pieces, WorkOK, MessageOf
  <2>3. /\ Said(m, e) = InOrder(Carried(m, e)) /\ Said(m, e - 1) = InOrder(Carried(m, e - 1))
        /\ Carried(m, e - 1) \subseteq 1..(e - 1) /\ IsFiniteSet(Carried(m, e - 1))
        /\ Carried(m, e - 1) \subseteq Nat
        /\ Carried(m, e) \subseteq Nat /\ IsFiniteSet(Carried(m, e))
    BY <1>1, CarriedIs
  <2>4. Said(m, e) \in Seq(Nat) /\ Said(m, e - 1) \in Seq(Nat)
    BY <2>3, InOrderIs
  <2>5. \/ seen = Said(m, e - 1)
        \/ seen = Said(m, e) /\ TailSent(e, m)
    BY <1>0, <1>5 DEF SeenAt
  <2> HIDE DEF seen
  <2>6. TailText(b, m) = IF Detail(e) # <<>> /\ IsPrefix(seen, Detail(e))
                         THEN SubSeq(Detail(e), Len(seen) + 1, Len(Detail(e))) ELSE <<>>
    <3>1. seen \o <<>> = seen
      BY <2>2
    <3>2. Detail(e) \in Seq(Nat)
      <4>1. <<>> \in Seq(Nat)
        OBVIOUS
      <4>2. QED
        BY <1>0, <4>1, DetailIs
    <3>3. <<>> \o SubSeq(Detail(e), Len(seen) + 1, Len(Detail(e))) = SubSeq(Detail(e), Len(seen) + 1, Len(Detail(e)))
      <4>1. SubSeq(Detail(e), Len(seen) + 1, Len(Detail(e))) \in Seq(Nat)
        BY <2>2, <3>2
      <4>2. QED
        BY <4>1
    <3>4. QED
      BY <2>1, <3>1, <3>3 DEF TailText, seen
  <2>7. CASE journal[e].text # "more"
    <3>1. Carried(m, e) = Carried(m, e - 1)
      <4>1. ~Carries(e, m)
        BY <2>7 DEF Carries
      <4>2. \A i \in 1..e : i = e \/ i \in 1..(e - 1)
        BY <1>1
      <4>3. 1..(e - 1) \subseteq 1..e
        BY <1>1
      <4>4. QED
        BY <4>1, <4>2, <4>3 DEF Carried
    <3>2. seen = Said(m, e)
      BY <2>3, <2>5, <3>1
    <3>3. Detail(e) = <<>> \/ Detail(e) = Said(m, e)
      BY DEF Detail
    <3>4. SubSeq(Said(m, e), Len(Said(m, e)) + 1, Len(Said(m, e))) = <<>>
      BY <2>4, PrefixOf
    <3>5. TailText(b, m) = <<>>
      BY <2>6, <3>2, <3>3, <3>4
    <3>6. ~Needed(e, "tail", m)
      BY <1>2, <2>1, <2>7
    <3>7. QED
      BY <3>5, <3>6
  <2>8. CASE journal[e].text = "more"
    <3>1. Carries(e, m) /\ e \in All(m)
      BY <2>8 DEF Carries, All, Carried
    <3>2. Carried(m, e) = Carried(m, e - 1) \cup {e}
      <4>1. \A i \in 1..e : i = e \/ i \in 1..(e - 1)
        BY <1>1
      <4>2. 1..(e - 1) \subseteq 1..e /\ e \in 1..e
        BY <1>1
      <4>3. QED
        BY <3>1, <4>1, <4>2 DEF Carried
    <3>3. \A x \in Carried(m, e - 1) : x < e
      BY <1>1, <2>3
    <3>4. Said(m, e) = Append(Said(m, e - 1), e)
      BY <1>1, <2>3, <3>2, <3>3, InOrderAdd
    <3>5. Said(m, e) = Said(m, e - 1) \o <<e>> /\ <<e>> \in Seq(Nat) /\ Said(m, e) # <<>>
      BY <1>1, <2>4, <3>4, AppendIs
    <3>6. Detail(e) = Said(m, e)
      BY <2>8 DEF Detail
    <3>7. Added(e, "tail", m) = {e}
      BY <1>5, <2>1, <3>1 DEF Added
    <3>8. InOrder(Added(e, "tail", m)) = <<e>> /\ <<e>> # <<>>
      BY <1>1, <3>7, InOrderSingle
    <3>9. Needed(e, "tail", m)
      BY <1>2, <1>5, <2>8
    <3>10. CASE seen = Said(m, e - 1)
      <4>1. /\ IsPrefix(Said(m, e - 1), Said(m, e - 1) \o <<e>>)
            /\ SubSeq(Said(m, e - 1) \o <<e>>, Len(Said(m, e - 1)) + 1, Len(Said(m, e - 1) \o <<e>>)) = <<e>>
        BY <2>4, <3>5, PrefixOf
      <4>2. TailText(b, m) = <<e>>
        BY <2>6, <3>5, <3>6, <3>10, <4>1
      <4>3. QED
        BY <3>8, <3>9, <4>2
    <3>11. CASE seen = Said(m, e) /\ TailSent(e, m)
      <4>1. <<e, "tail", m>> \in receipts
        BY <3>9, <3>11 DEF TailSent
      <4>2. QED
        BY <3>9, <4>1
    <3>12. QED
      BY <2>5, <3>10, <3>11
  <2>9. QED
    BY <2>7, <2>8
<1>6. QED
  BY <1>4, <1>5

\* The tail of a message is written.
LEMMA WriteTailFollows ==
  ASSUME CursorInv, Pieces, Told, NEW b \in Backends, Following(b), WriteTail(b)
  PROVE  Onward(b)
<1>0. PICK e, m, x : e = worker[b].event /\ m = ItemOf(b) /\ x = journal[e].item
  OBVIOUS
<1>1. /\ journal \in Scripts
      /\ Doing(b, "tail") /\ TakeBuffer(b, m) /\ DispatchDelta(b, TailText(b, m))
      /\ GoesOn(b, Tail(worker[b].todo), Shown(b, m))
      /\ UNCHANGED <<begun, observed, active, remembered>>
      /\ UNCHANGED <<journal, streaming, settled, durable>> /\ UNCHANGED process
  BY <1>0 DEF WriteTail, script, Pieces
<1>2. /\ m \in Items /\ e \in 1..Len(journal)
      /\ journal[e].type \in {"delta", "item", "completed"}
      /\ journal[e].type = "item" => m = x
      /\ worker[b].todo # <<>> /\ Head(worker[b].todo) = Op("tail", m)
      /\ Head(worker[b].todo).op = "tail"
  <2>1. worker[b].todo # <<>> /\ Head(worker[b].todo).op = "tail"
    BY <1>1 DEF Doing
  <2>2. Head(worker[b].todo) \in Asked(e) /\ e \in 1..Len(journal)
    BY <1>0, <2>1, HeadAsked DEF Pieces
  <2>3. Head(worker[b].todo) = Op("tail", m)
    BY <1>0, <2>1, <2>2 DEF Asked, ItemOf, Op
  <2>4. journal[e].type \in {"delta", "item", "completed", "aborted"}
    BY <1>1, <2>2, Turn
  <2>5. QED
    BY <1>0, <2>1, <2>2, <2>3, <2>4 DEF Asked, ItemOf
<1>3. /\ At(b) /\ InEvent(b) /\ \A d \in 1..(e - 1) : Receipted(d)
  BY <1>0, <1>1, <1>2, Acting
<1>5. e \in Nat /\ e >= 1 /\ e - 1 \in Nat /\ Len(journal) \in Nat
  BY <1>1, <1>2, EventNumbers
<1>6. /\ worker'[b].event = e /\ worker'[b].todo = Tail(worker[b].todo)
      /\ \A c \in Backends : c # b => SameProcess(c)
      /\ up' = up /\ next' = next /\ processed' = processed /\ cursor' = cursor
  BY <1>0, <1>1, WorkFrame
<1>7. ASSUME TailText(b, m) # <<>> => Needed(e, "tail", m),
             Needed(e, "tail", m) /\ <<e, "tail", m>> \notin receipts
               => TailText(b, m) # <<>> /\ TailText(b, m) = InOrder(Added(e, "tail", m))
      PROVE  /\ Told' /\ Later /\ TailSent(e, m)'
             /\ \A c \in Backends : c # b => SameMemory(c)
             /\ buffer'[b][m] = <<>> /\ \A y \in Items : y # m => buffer'[b][y] = buffer[b][y]
             /\ observed'[b] = observed[b] /\ active'[b] = active[b] /\ Remembers(b)'
  <2>1. "tail" \in Ops /\ "tail" # "complete" /\ "tail" = Head(worker[b].todo).op
    BY <1>2 DEF Ops
  <2>2. Told' /\ Later /\ (Needed(e, "tail", m) => <<e, "tail", m>> \in receipts')
    BY <1>0, <1>1, <1>2, <1>3, <1>7, <2>1, Sent
  <2>3. TailSent(e, m)'
    <3>1. Needed(e, "tail", m)' <=> Needed(e, "tail", m)
      BY <1>1, ScriptKept
    <3>2. QED
      BY <2>2, <3>1 DEF TailSent
  <2>4. /\ \A c \in Backends : c # b => SameMemory(c)
        /\ buffer'[b][m] = <<>> /\ \A y \in Items : y # m => buffer'[b][y] = buffer[b][y]
        /\ observed'[b] = observed[b] /\ active'[b] = active[b] /\ Remembers(b)'
    BY <1>1, <1>2, <2>2, Taken DEF Following
  <2>5. QED
    BY <2>2, <2>3, <2>4
<1>8. CASE journal[e].type = "delta"
  <2>1. InDelta(b)
    BY <1>0, <1>3, <1>8 DEF InEvent
  <2>2. /\ m = active[b] /\ m # x /\ St(m, e - 1) # {} /\ TextAt(b, e - 1)
        /\ worker[b].todo = <<Op("tail", m), Op("complete", m), Op("append", x)>>
    <3>1. \A z : /\ Head(<<Op("append", z)>>).op = "append"
                 /\ Head(<<Op("complete", z), Op("append", x)>>).op = "complete"
                 /\ Head(<<Op("load", NoItem), Op("tail", z), Op("complete", z), Op("append", x)>>).op = "load"
                 /\ Head(<<Op("tail", z), Op("complete", z), Op("append", x)>>) = Op("tail", z)
                 /\ Op("tail", z) = Op("tail", m) => z = m
      BY DEF Op
    <3>2. QED
      BY <1>0, <1>2, <2>1, <3>1 DEF InDelta
  <2>3. Tail(worker[b].todo) = <<Op("complete", m), Op("append", x)>>
    BY <2>2
  <2>4. TailText(b, m) = buffer[b][m]
    <3>1. Detail(e) = <<>>
      BY <1>8 DEF Detail
    <3>2. QED
      BY <1>0, <3>1 DEF TailText
  <2>5. /\ buffer[b][m] = InOrder(Pd(m, e - 1)) /\ (buffer[b][m] = <<>> <=> Pd(m, e - 1) = {})
    <3>1. BufferAt(b, m, e - 1)
      BY <1>2, <2>2 DEF TextAt
    <3>2. QED
      BY <1>2, <1>5, <3>1, TextOf DEF BufferAt
  <2>6. Needed(e, "tail", m) <=> Pd(m, e - 1) # {}
    BY <1>0, <1>8, <2>2 DEF Needed, Closes
  <2>7. Added(e, "tail", m) = Pd(m, e - 1)
    BY <2>2 DEF Added
  <2>8. /\ Told' /\ Later /\ TailSent(e, m)'
        /\ \A c \in Backends : c # b => SameMemory(c)
        /\ buffer'[b][m] = <<>> /\ \A y \in Items : y # m => buffer'[b][y] = buffer[b][y]
        /\ observed'[b] = observed[b] /\ active'[b] = active[b] /\ Remembers(b)'
    BY <1>7, <2>4, <2>5, <2>6, <2>7
  <2>9. ASSUME NEW y \in Items PROVE buffer'[b][y] = <<>> /\ StreamAt(b, y, e - 1)'
    <3>1. BufferAt(b, y, e - 1) /\ StreamAt(b, y, e - 1)
      BY <2>2 DEF TextAt
    <3>2. StreamAt(b, y, e - 1)' <=> observed'[b][y] = InOrder(St(y, e - 1))
      BY <2>8, TextThen
    <3>3. y # m => Pd(y, e - 1) = {}
      BY <1>5, <2>2, OneOpen
    <3>4. y # m => buffer[b][y] = <<>>
      BY <1>5, <3>1, <3>3, TextOf
    <3>5. QED
      BY <2>8, <3>1, <3>2, <3>4 DEF StreamAt
  <2>10. St(m, e - 1)' = St(m, e - 1)
    BY <1>1, ScriptKept
  <2>11. InDelta(b)'
    BY <1>0, <1>1, <1>2, <1>6, <2>2, <2>3, <2>8, <2>9, <2>10 DEF InDelta
  <2>12. InEvent(b)'
    BY <1>1, <1>6, <1>8, <2>11 DEF InEvent
  <2>13. Following(b)'
    BY <1>0, <1>3, <1>6, <2>8, <2>12, StillAt
  <2>14. QED
    BY <1>6, <2>8, <2>13 DEF Onward
<1>9. CASE journal[e].type = "item"
  <2>1. InItem(b) /\ x = m
    BY <1>0, <1>2, <1>3, <1>9 DEF InEvent
  <2>2. /\ ActiveAt(b, e - 1) /\ SeenAt(b, e, m) /\ TextAt(b, e - 1)
        /\ worker[b].todo = <<Op("tail", m), Op("complete", m)>>
    <3>1. \A z : /\ Head(<<Op("complete", z)>>).op = "complete"
                 /\ Head(<<Op("load", NoItem), Op("tail", z), Op("complete", z)>>).op = "load"
      BY DEF Op
    <3>2. QED
      BY <1>0, <1>2, <2>1, <3>1 DEF InItem
  <2>3. Tail(worker[b].todo) = <<Op("complete", m)>>
    BY <2>2
  <2>4. /\ TailText(b, m) # <<>> => Needed(e, "tail", m)
        /\ Needed(e, "tail", m) /\ <<e, "tail", m>> \notin receipts
              => TailText(b, m) # <<>> /\ TailText(b, m) = InOrder(Added(e, "tail", m))
    <3>1. BufferAt(b, m, e - 1) /\ StreamAt(b, m, e - 1)
      BY <1>2, <2>2 DEF TextAt
    <3>2. QED
      BY <1>0, <1>2, <1>9, <2>1, <2>2, <3>1, TailAtItem
  <2>5. /\ Told' /\ Later /\ TailSent(e, m)'
        /\ \A c \in Backends : c # b => SameMemory(c)
        /\ buffer'[b][m] = <<>> /\ \A y \in Items : y # m => buffer'[b][y] = buffer[b][y]
        /\ observed'[b] = observed[b] /\ active'[b] = active[b] /\ Remembers(b)'
    BY <1>7, <2>4
  <2>6. Closes(journal, e, m) /\ ~(\E y : y # m /\ Closes(journal, e, y))
    BY <1>0, <1>9, <2>1 DEF Closes
  <2>7. Pd(m, e) = {}
    BY <1>5, <2>6, PendingStep DEF Pd
  <2>8. \A y : y # m => Pd(y, e) = Pd(y, e - 1)
    <3>1. ASSUME NEW y, y # m PROVE Pd(y, e) = Pd(y, e - 1)
      <4>1. /\ m = journal[e].item /\ journal \in Scripts /\ e \in 1..Len(journal)
            /\ journal[e].type = "item"
        BY <1>0, <1>1, <1>2, <1>9, <2>1
      <4>2. QED
        BY <3>1, <4>1, ItemEvent
    <3>2. QED
      BY <3>1
  <2>9. ASSUME NEW y \in Items PROVE BufferAt(b, y, e)' /\ StreamAt(b, y, e - 1)'
    <3>1. BufferAt(b, y, e - 1) /\ StreamAt(b, y, e - 1)
      BY <2>2 DEF TextAt
    <3>2. /\ StreamAt(b, y, e - 1)' <=> observed'[b][y] = InOrder(St(y, e - 1))
          /\ BufferAt(b, y, e)' <=> buffer'[b][y] = InOrder(Pd(y, e))
      BY <2>5, TextThen
    <3>3. buffer'[b][y] = InOrder(Pd(y, e))
      BY <2>5, <2>7, <2>8, <3>1, InOrderEmpty DEF BufferAt
    <3>4. QED
      BY <2>5, <3>1, <3>2, <3>3 DEF StreamAt
  <2>10. ActiveAt(b, e - 1)'
    <3>1. ActiveAt(b, e - 1)' <=>
              \/ active'[b] = NoItem /\ \A y \in Items : St(y, e - 1) = {}
              \/ active'[b] \in Items /\ St(active'[b], e - 1) # {}
      BY <2>5, TextThen
    <3>2. QED
      BY <2>2, <2>5, <3>1 DEF ActiveAt
  <2>11. InItem(b)'
    BY <1>0, <1>1, <1>6, <2>1, <2>3, <2>5, <2>9, <2>10 DEF InItem
  <2>12. InEvent(b)'
    BY <1>1, <1>6, <1>9, <2>11 DEF InEvent
  <2>13. Following(b)'
    BY <1>0, <1>3, <1>6, <2>5, <2>12, StillAt
  <2>14. QED
    BY <1>6, <2>5, <2>13 DEF Onward
<1>10. CASE journal[e].type = "completed"
  <2>1. InCompleted(b)
    BY <1>0, <1>3, <1>10 DEF InEvent
  <2>2. /\ Ordered(Tail(worker[b].todo))
        /\ \A z : z \in ToSet(worker[b].todo) <=> z = Head(worker[b].todo) \/ z \in ToSet(Tail(worker[b].todo))
        /\ \A z \in ToSet(Tail(worker[b].todo)) : z.op \notin {"flush", "settle"}
    BY <1>2, <2>1, TodoOf, TodoTail DEF InCompleted
  <2>3. ASSUME NEW o, NEW y
        PROVE  /\ o # "tail" => (Op(o, y) \in ToSet(worker[b].todo) <=> Op(o, y) \in ToSet(Tail(worker[b].todo)))
               /\ o \in {"flush", "settle"} => Op(o, y) \notin ToSet(worker[b].todo)
    <3>1. Op(o, y).op = o
      BY DEF Op
    <3>2. QED
      BY <1>2, <2>2, <3>1
  <2>4. ASSUME NEW y \in Items
        PROVE  /\ buffer[b][y] = <<>> /\ (Needed(e, "flush", y) => <<e, "flush", y>> \in receipts)
               /\ \/ StreamAt(b, y, e - 1) /\ Op("complete", y) \in ToSet(Tail(worker[b].todo))
                  \/ observed[b][y] = <<>>
    <3>1. /\ \/ BufferAt(b, y, e - 1) /\ Op("flush", y) \in ToSet(worker[b].todo)
             \/ buffer[b][y] = <<>> /\ (Needed(e, "flush", y) => <<e, "flush", y>> \in receipts)
          /\ \/ StreamAt(b, y, e - 1) /\ Op("complete", y) \in ToSet(worker[b].todo)
             \/ observed[b][y] = <<>>
      BY <1>0, <2>1 DEF InCompleted
    <3>2. QED
      BY <2>3, <3>1
  <2>5. TailText(b, m) = <<>> /\ ~Needed(e, "tail", m)
    <3>1. Detail(e) = <<>>
      BY <1>10 DEF Detail
    <3>2. QED
      BY <1>0, <1>2, <1>10, <2>4, <3>1 DEF TailText, Needed
  <2>6. /\ Told' /\ Later /\ TailSent(e, m)'
        /\ \A c \in Backends : c # b => SameMemory(c)
        /\ buffer'[b][m] = <<>> /\ \A y \in Items : y # m => buffer'[b][y] = buffer[b][y]
        /\ observed'[b] = observed[b] /\ active'[b] = active[b] /\ Remembers(b)'
    BY <1>7, <2>5
  <2>7. InCompleted(b)'
    <3>1. settled
      BY <2>1, <2>3 DEF InCompleted
    <3>2. ASSUME NEW y \in Items
          PROVE  /\ buffer'[b][y] = <<>> /\ (Needed(e, "flush", y)' => <<e, "flush", y>> \in receipts')
                 /\ \/ StreamAt(b, y, e - 1)' /\ Op("complete", y) \in ToSet(Tail(worker[b].todo))
                    \/ observed'[b][y] = <<>>
      <4>1. Needed(e, "flush", y)' <=> Needed(e, "flush", y)
        BY <1>1, ScriptKept
      <4>2. StreamAt(b, y, e - 1)' <=> observed'[b][y] = InOrder(St(y, e - 1))
        BY <2>6, TextThen
      <4>3. QED
        BY <2>4, <2>6, <4>1, <4>2 DEF StreamAt, Later
    <3>3. QED
      BY <1>1, <1>6, <2>2, <3>1, <3>2 DEF InCompleted
  <2>8. InEvent(b)'
    BY <1>1, <1>6, <1>10, <2>7 DEF InEvent
  <2>9. Following(b)'
    BY <1>0, <1>3, <1>6, <2>6, <2>8, StillAt
  <2>10. QED
    BY <1>6, <2>6, <2>9 DEF Onward
<1>11. QED
  BY <1>2, <1>8, <1>9, <1>10

\* The text that a completed item brings: all there is to say, when the stream that was
\* observed is a beginning of it.
LEMMA CanonicalAtItem ==
  ASSUME Pieces, NEW b \in Backends, NEW e \in 1..Len(journal), e = worker[b].event,
         journal[e].type = "item", NEW m \in Items, m = journal[e].item, StreamAt(b, m, e - 1)
  PROVE  /\ \/ Canonical(b, m) = <<>> /\ ~Carries(e, m)
            \/ Canonical(b, m) = InOrder(All(m)) /\ Canonical(b, m) # <<>>
         /\ Needed(e, "complete", m) => Canonical(b, m) # <<>>
<1>0. journal \in Scripts
  BY DEF Pieces
<1>1. e \in Nat /\ e >= 1 /\ e - 1 \in Nat /\ Len(journal) \in Nat /\ e <= Len(journal)
  BY <1>0, EventNumbers
<1>2. All(m) = Carried(m, e)
  BY <1>0, ItemIsLast
<1>3. Said(m, e) = InOrder(All(m)) /\ All(m) \subseteq Nat /\ IsFiniteSet(All(m))
  BY <1>1, <1>2, CarriedIs
<1>4. Detail(e) = IF journal[e].text # "none" THEN InOrder(All(m)) ELSE <<>>
  BY <1>3 DEF Detail
<1>5. Canonical(b, m) = IF IsPrefix(observed[b][m], Detail(e)) THEN Detail(e) ELSE <<>>
  BY DEF Canonical
<1>6. Needed(e, "complete", m) => journal[e].text = "more"
  BY DEF Needed
<1>7. CASE journal[e].text # "more"
  <2>1. ~Carries(e, m)
    BY <1>7 DEF Carries
  <2>2. QED
    BY <1>4, <1>5, <1>6, <1>7, <2>1
<1>8. CASE journal[e].text = "more"
  <2> DEFINE S == St(m, e - 1)
  <2>1. e \in All(m)
    BY <1>8 DEF All, Carried, Carries
  <2>2. InOrder(All(m)) # <<>>
    BY <1>3, <2>1, InOrderNone
  <2>3. S \subseteq All(m)
    <3>1. ASSUME NEW i \in S PROVE i \in All(m)
      <4>1. i \in 1..(e - 1) /\ IsDelta(journal, i, m)
        BY DEF St, Stream
      <4>2. QED
        BY <1>1, <4>1 DEF IsDelta, All, Carried, Carries
    <3>2. QED
      BY <3>1
  <2>4. ASSUME NEW x \in S, NEW y \in All(m), y < x PROVE y \in S
    <3>1. y \in 1..(e - 1) /\ journal[y].type \in {"delta", "item"} /\ journal[y].item = m
      <4>1. y \in 1..Len(journal) /\ Carries(y, m)
        BY DEF All, Carried
      <4>2. x \in 1..(e - 1)
        BY DEF St, Stream
      <4>3. QED
        BY <1>1, <2>4, <4>1, <4>2 DEF Carries
    <3>2. Stream(journal, m, e - 1) # {}
      BY DEF St
    <3>3. QED
      BY <1>0, <1>8, <3>1, <3>2, WholeStream DEF St
  <2> HIDE DEF S
  <2>5. IsPrefix(InOrder(S), InOrder(All(m)))
    BY <1>3, <2>3, <2>4, Beginning
  <2>6. Canonical(b, m) = InOrder(All(m))
    BY <1>4, <1>5, <1>8, <2>5 DEF StreamAt, S
  <2>7. QED
    BY <2>2, <2>6
<1>9. QED
  BY <1>7, <1>8

\* A message is completed, if anything is known of it.
LEMMA Marked ==
  ASSUME Pieces, Told, UNCHANGED <<journal, streaming, settled, durable>>, NEW b \in Backends,
         NEW m \in Items, m = ItemOf(b), NEW e \in 1..Len(journal), e = worker[b].event,
         Head(worker[b].todo).op = "complete", journal[e].type # "aborted",
         Closes(journal, e, m), \A d \in 1..(e - 1) : Receipted(d),
         \A o \in Ops : o # "complete" /\ Needed(e, o, m) => <<e, o, m>> \in receipts,
         \/ Canonical(b, m) = <<>> /\ ~Carries(e, m)
         \/ Canonical(b, m) = InOrder(All(m)) /\ Canonical(b, m) # <<>>
              /\ journal[e].type = "item" /\ journal[e].item = m,
         Needed(e, "complete", m) => Canonical(b, m) # <<>>,
         IF Completes(b, m) THEN Dispatch(b, Completed(m, Canonical(b, m)))
         ELSE UNCHANGED <<messages, receipts>>
  PROVE  /\ Told' /\ Later
         /\ Needed(e, "complete", m) => <<e, "complete", m>> \in receipts'
<1>1. journal \in Scripts /\ settled \in BOOLEAN /\ MessagesOK
  BY DEF Pieces
<1>2. CommandId(b) = <<e, "complete", m>>
  BY DEF CommandId
<1>3. \A d \in 1..durable : Passed(d)
  BY DEF Told
<1>4. messages' = messages /\ receipts' = receipts => Told' /\ Later
  BY <1>3, ToldKept
<1>5. CASE Completes(b, m) /\ <<e, "complete", m>> \notin receipts
  <2>1. /\ messages' = [messages EXCEPT ![m] = Completed(m, Canonical(b, m))]
        /\ receipts' = receipts \cup {<<e, "complete", m>>}
    BY <1>2, <1>5 DEF Dispatch
  <2>2. Told' /\ Later
    <3>1. PICK final : final = Canonical(b, m)
      OBVIOUS
    <3>2. /\ \/ final = <<>> /\ ~Carries(e, m)
             \/ final = InOrder(All(m)) /\ final # <<>> /\ journal[e].type = "item"
                  /\ journal[e].item = m
          /\ messages' = [messages EXCEPT ![m] = Completed(m, final)]
      BY <2>1, <3>1
    <3>3. QED
      BY <1>1, <1>5, <2>1, <3>2, ToldComplete
  <2>3. QED
    BY <2>1, <2>2
<1>6. CASE ~(Completes(b, m) /\ <<e, "complete", m>> \notin receipts)
  <2>1. messages' = messages /\ receipts' = receipts
    BY <1>2, <1>6 DEF Dispatch
  <2>2. Needed(e, "complete", m) => <<e, "complete", m>> \in receipts'
    BY <1>6, <2>1 DEF Completes
  <2>3. QED
    BY <1>4, <2>1, <2>2
<1>7. QED
  BY <1>5, <1>6

\* What is in memory of a message is forgotten when it is done.
LEMMA Forgotten ==
  ASSUME Pieces, Later, NEW b \in Backends, NEW m \in Items, Remembers(b),
         buffer' = [buffer EXCEPT ![b][m] = <<>>],
         begun' = [begun EXCEPT ![b][m] = FALSE],
         observed' = [observed EXCEPT ![b][m] = <<>>],
         active' = active, NEW R, remembered[b] \ {m} \subseteq R,
         remembered' = [remembered EXCEPT ![b] = R]
  PROVE  /\ \A c \in Backends : c # b => SameMemory(c)
         /\ \A y \in Items : /\ buffer'[b][y] = IF y = m THEN <<>> ELSE buffer[b][y]
                             /\ observed'[b][y] = IF y = m THEN <<>> ELSE observed[b][y]
         /\ Remembers(b)'
<1>1. /\ buffer \in [Backends -> [Items -> Seq(Nat)]] /\ begun \in [Backends -> [Items -> BOOLEAN]]
      /\ observed \in [Backends -> [Items -> Seq(Nat)]] /\ remembered \in [Backends -> SUBSET Items]
  BY DEF Pieces, MemoryOK
<1>2. /\ \A c \in Backends : c # b => buffer'[c] = buffer[c]
      /\ \A y \in Items : buffer'[b][y] = IF y = m THEN <<>> ELSE buffer[b][y]
  BY <1>1, OneItem
<1>3. /\ \A c \in Backends : c # b => begun'[c] = begun[c]
      /\ begun'[b][m] = FALSE /\ \A y \in Items : y # m => begun'[b][y] = begun[b][y]
  <2>1. begun'[b] = [begun[b] EXCEPT ![m] = FALSE] /\ \A c \in Backends : c # b => begun'[c] = begun[c]
    BY <1>1
  <2>2. begun[b] \in [Items -> BOOLEAN]
    BY <1>1
  <2>3. begun'[b][m] = FALSE /\ \A y \in Items : y # m => begun'[b][y] = begun[b][y]
    BY <2>1, <2>2, Zenon
  <2>4. QED
    BY <2>1, <2>3
<1>4. /\ \A c \in Backends : c # b => observed'[c] = observed[c]
      /\ \A y \in Items : observed'[b][y] = IF y = m THEN <<>> ELSE observed[b][y]
  BY <1>1, OneItem
<1>5. remembered'[b] = R /\ \A c \in Backends : c # b => remembered'[c] = remembered[c]
  BY <1>1, OneBackend
<1>6. \A c \in Backends : c # b => SameMemory(c)
  BY <1>2, <1>3, <1>4, <1>5 DEF SameMemory
<1>7. ASSUME NEW y \in Items
      PROVE  /\ begun'[b][y] = (streaming /\ observed'[b][y] # <<>>)
             /\ observed'[b][y] # <<>> => y \in remembered'[b]
  <2>1. /\ begun[b][y] = (streaming /\ observed[b][y] # <<>>)
        /\ observed[b][y] # <<>> => y \in remembered[b]
    BY DEF Remembers
  <2>2. CASE y = m
    <3>1. begun'[b][y] = FALSE /\ observed'[b][y] = <<>>
      BY <1>3, <1>4, <2>2
    <3>2. QED
      BY <3>1
  <2>3. CASE y # m
    <3>1. begun'[b][y] = begun[b][y] /\ observed'[b][y] = observed[b][y]
      BY <1>3, <1>4, <2>3
    <3>2. QED
      BY <1>5, <2>1, <2>3, <3>1
  <2>4. QED
    BY <2>2, <2>3
<1>8. Remembers(b)'
  BY <1>7, TextThen
<1>9. QED
  BY <1>2, <1>4, <1>6, <1>8

\* A message is marked as done.
LEMMA CompleteFollows ==
  ASSUME CursorInv, Pieces, Told, NEW b \in Backends, Following(b), Complete(b)
  PROVE  Onward(b)
<1>0. PICK e, m, x : e = worker[b].event /\ m = ItemOf(b) /\ x = journal[e].item
  OBVIOUS
<1>1. /\ journal \in Scripts
      /\ Doing(b, "complete")
      /\ IF Completes(b, m) THEN Dispatch(b, Completed(m, Canonical(b, m)))
         ELSE UNCHANGED <<messages, receipts>>
      /\ Done(b)
      /\ UNCHANGED <<journal, streaming, settled, durable>> /\ UNCHANGED process
  BY <1>0 DEF Complete, script, Pieces
<1>2. PICK R : /\ R = IF journal[e].type = "completed" THEN remembered[b] ELSE remembered[b] \ {m}
               /\ remembered[b] \ {m} \subseteq R
  OBVIOUS
<1>3. /\ buffer' = [buffer EXCEPT ![b][m] = <<>>]
      /\ begun' = [begun EXCEPT ![b][m] = FALSE]
      /\ observed' = [observed EXCEPT ![b][m] = <<>>]
      /\ active' = active
      /\ remembered' = [remembered EXCEPT ![b] = R]
  <2>1. /\ buffer' = [buffer EXCEPT ![b][m] = <<>>]
        /\ begun' = [begun EXCEPT ![b][m] = FALSE]
        /\ observed' = [observed EXCEPT ![b][m] = <<>>]
        /\ active' = active
    BY <1>0 DEF Complete
  <2>2. remembered' = [remembered EXCEPT ![b] =
                         IF journal[e].type = "completed" THEN @ ELSE @ \ {m}]
    BY <1>0 DEF Complete
  <2>3. remembered \in [Backends -> SUBSET Items]
    BY DEF Pieces, MemoryOK
  <2>4. remembered' = [remembered EXCEPT ![b] = R]
    BY <1>2, <2>2, <2>3
  <2>5. QED
    BY <2>1, <2>4
<1>4. /\ m \in Items /\ e \in 1..Len(journal)
      /\ journal[e].type \in {"delta", "item", "completed"}
      /\ journal[e].type = "item" => m = x
      /\ worker[b].todo # <<>> /\ Head(worker[b].todo) = Op("complete", m)
      /\ Head(worker[b].todo).op = "complete"
  <2>1. worker[b].todo # <<>> /\ Head(worker[b].todo).op = "complete"
    BY <1>1 DEF Doing
  <2>2. Head(worker[b].todo) \in Asked(e) /\ e \in 1..Len(journal)
    BY <1>0, <2>1, HeadAsked DEF Pieces
  <2>3. Head(worker[b].todo) = Op("complete", m)
    BY <1>0, <2>1, <2>2 DEF Asked, ItemOf, Op
  <2>4. journal[e].type \in {"delta", "item", "completed", "aborted"}
    BY <1>1, <2>2, Turn
  <2>5. QED
    BY <1>0, <2>1, <2>2, <2>3, <2>4 DEF Asked, ItemOf
<1>5. /\ At(b) /\ InEvent(b) /\ \A d \in 1..(e - 1) : Receipted(d)
  BY <1>0, <1>1, <1>4, Acting
<1>6. e \in Nat /\ e >= 1 /\ e - 1 \in Nat /\ Len(journal) \in Nat
  BY <1>1, <1>4, EventNumbers
<1>7. /\ worker'[b].event = e /\ worker'[b].todo = Tail(worker[b].todo)
      /\ \A c \in Backends : c # b => SameProcess(c)
      /\ up' = up /\ next' = next /\ processed' = processed /\ cursor' = cursor
  BY <1>0, <1>1, WorkFrame DEF Done
<1>8. ASSUME Closes(journal, e, m),
             \A o \in Ops : o # "complete" /\ Needed(e, o, m) => <<e, o, m>> \in receipts,
             \/ Canonical(b, m) = <<>> /\ ~Carries(e, m)
             \/ Canonical(b, m) = InOrder(All(m)) /\ Canonical(b, m) # <<>>
                  /\ journal[e].type = "item" /\ journal[e].item = m,
             Needed(e, "complete", m) => Canonical(b, m) # <<>>
      PROVE  /\ Told' /\ Later
             /\ Needed(e, "complete", m) => <<e, "complete", m>> \in receipts'
             /\ \A c \in Backends : c # b => SameMemory(c)
             /\ \A y \in Items : /\ buffer'[b][y] = IF y = m THEN <<>> ELSE buffer[b][y]
                                 /\ observed'[b][y] = IF y = m THEN <<>> ELSE observed[b][y]
             /\ active' = active /\ Remembers(b)'
  <2>1. journal[e].type # "aborted"
    BY <1>4
  <2>2. /\ Told' /\ Later
        /\ Needed(e, "complete", m) => <<e, "complete", m>> \in receipts'
    BY <1>0, <1>1, <1>4, <1>5, <1>8, <2>1, Marked
  <2>3. Remembers(b)
    BY DEF Following
  <2>4. /\ \A c \in Backends : c # b => SameMemory(c)
        /\ \A y \in Items : /\ buffer'[b][y] = IF y = m THEN <<>> ELSE buffer[b][y]
                            /\ observed'[b][y] = IF y = m THEN <<>> ELSE observed[b][y]
        /\ Remembers(b)'
    BY <1>2, <1>3, <1>4, <2>2, <2>3, Forgotten
  <2>5. QED
    BY <1>3, <2>2, <2>4
<1>9. journal[e].type # "item" => Detail(e) = <<>> /\ Canonical(b, m) = <<>> /\ ~Needed(e, "complete", m)
  BY <1>0 DEF Detail, Canonical, Needed
<1>10. CASE journal[e].type = "delta"
  <2>1. InDelta(b)
    BY <1>0, <1>5, <1>10 DEF InEvent
  <2>2. /\ m = active[b] /\ m # x /\ St(m, e - 1) # {} /\ TailSent(e, m)
        /\ \A y \in Items : buffer[b][y] = <<>> /\ StreamAt(b, y, e - 1)
        /\ worker[b].todo = <<Op("complete", m), Op("append", x)>>
    <3>1. \A z : /\ Head(<<Op("append", z)>>).op = "append"
                 /\ Head(<<Op("load", NoItem), Op("tail", z), Op("complete", z), Op("append", x)>>).op = "load"
                 /\ Head(<<Op("tail", z), Op("complete", z), Op("append", x)>>).op = "tail"
                 /\ Head(<<Op("complete", z), Op("append", x)>>) = Op("complete", z)
                 /\ Op("complete", z) = Op("complete", m) => z = m
      BY DEF Op
    <3>2. QED
      BY <1>0, <1>4, <2>1, <3>1 DEF InDelta
  <2>3. Tail(worker[b].todo) = <<Op("append", x)>>
    BY <2>2
  <2>4. Closes(journal, e, m) /\ ~Carries(e, m)
    BY <1>0, <1>10, <2>2 DEF Closes, Carries
  <2>5. ASSUME NEW o, o # "complete", Needed(e, o, m) PROVE <<e, o, m>> \in receipts
    BY <1>0, <1>10, <2>2, <2>5 DEF Needed, TailSent
  <2>6. /\ Told' /\ Later
        /\ \A c \in Backends : c # b => SameMemory(c)
        /\ \A y \in Items : /\ buffer'[b][y] = IF y = m THEN <<>> ELSE buffer[b][y]
                            /\ observed'[b][y] = IF y = m THEN <<>> ELSE observed[b][y]
        /\ active' = active /\ Remembers(b)'
    BY <1>8, <1>9, <1>10, <2>4, <2>5
  <2>7. ASSUME NEW y \in Items, y # m PROVE St(y, e - 1) = {} /\ Pd(y, e - 1) = {}
    BY <1>6, <2>2, <2>7, OneOpen
  <2>8. x \in Items
    BY <1>0, <1>1, <1>4, <1>10, Turn
  <2>9. BufferAt(b, x, e - 1)' /\ StreamAt(b, x, e - 1)'
    <3>1. /\ BufferAt(b, x, e - 1)' <=> buffer'[b][x] = InOrder(Pd(x, e - 1))
          /\ StreamAt(b, x, e - 1)' <=> observed'[b][x] = InOrder(St(x, e - 1))
      BY <2>6, TextThen
    <3>2. buffer'[b][x] = <<>> /\ Pd(x, e - 1) = {} /\ observed'[b][x] = observed[b][x]
      BY <2>2, <2>6, <2>7, <2>8
    <3>3. StreamAt(b, x, e - 1)
      BY <2>2, <2>8
    <3>4. QED
      BY <3>1, <3>2, <3>3, InOrderEmpty DEF StreamAt
  <2>10. ASSUME NEW y \in Items, y # x
         PROVE  buffer'[b][y] = <<>> /\ observed'[b][y] = <<>> /\ TailSent(e, y)'
    <3>1. TailSent(e, y)
      <4>1. CASE y = m
        BY <2>2, <4>1
      <4>2. CASE y # m
        <5>1. ~Needed(e, "tail", y)
          BY <1>10, <2>7, <4>2 DEF Needed
        <5>2. QED
          BY <5>1 DEF TailSent
      <4>3. QED
        BY <4>1, <4>2
    <3>2. TailSent(e, y)'
      BY <2>6, <3>1, Monotone
    <3>3. buffer'[b][y] = <<>>
      BY <2>2, <2>6
    <3>4. observed'[b][y] = <<>>
      <4>1. CASE y = m
        BY <2>6, <4>1
      <4>2. CASE y # m
        <5>1. StreamAt(b, y, e - 1) /\ St(y, e - 1) = {}
          BY <2>2, <2>7, <4>2
        <5>2. QED
          BY <2>6, <4>2, <5>1, InOrderEmpty DEF StreamAt
      <4>3. QED
        BY <4>1, <4>2
    <3>5. QED
      BY <3>2, <3>3, <3>4
  <2>11. InDelta(b)'
    BY <1>0, <1>1, <1>7, <2>3, <2>9, <2>10 DEF InDelta
  <2>12. InEvent(b)'
    BY <1>1, <1>7, <1>10, <2>11 DEF InEvent
  <2>13. Following(b)'
    BY <1>0, <1>5, <1>7, <2>6, <2>12, StillAt
  <2>14. QED
    BY <1>7, <2>6, <2>13 DEF Onward
<1>11. CASE journal[e].type = "item"
  <2>1. InItem(b) /\ x = m
    BY <1>0, <1>4, <1>5, <1>11 DEF InEvent
  <2>2. /\ ActiveAt(b, e - 1) /\ TailSent(e, m)
        /\ \A y \in Items : BufferAt(b, y, e) /\ StreamAt(b, y, e - 1)
        /\ worker[b].todo = <<Op("complete", m)>>
    <3>1. \A z : /\ Head(<<Op("tail", z), Op("complete", z)>>).op = "tail"
                 /\ Head(<<Op("load", NoItem), Op("tail", z), Op("complete", z)>>).op = "load"
      BY DEF Op
    <3>2. QED
      BY <1>0, <1>4, <2>1, <3>1 DEF InItem
  <2>3. Tail(worker[b].todo) = <<>>
    BY <2>2
  <2>4. /\ m = journal[e].item /\ journal \in Scripts /\ e \in 1..Len(journal)
        /\ journal[e].type = "item"
    BY <1>0, <1>1, <1>4, <1>11, <2>1
  <2>5. St(m, e) = {} /\ Pd(m, e) = {}
    <3>1. Closes(journal, e, m)
      BY <2>4 DEF Closes
    <3>2. QED
      BY <1>6, <3>1, StreamStep, PendingStep DEF St, Pd
  <2>6. ASSUME NEW y, y # m PROVE St(y, e) = St(y, e - 1)
    BY <2>4, <2>6, ItemEvent
  <2>7. ASSUME NEW o, NEW y, Needed(e, o, y)
        PROVE  y = m /\ (o = "tail" \/ o = "complete")
    <3>1. \A q, z : Needed(e, q, z)
            <=> \/ /\ q = "tail" /\ z = journal[e].item
                   /\ \/ Pd(journal[e].item, e - 1) # {}
                      \/ journal[e].text = "more" /\ St(journal[e].item, e - 1) = {}
                \/ q = "complete" /\ z = journal[e].item /\ journal[e].text = "more"
      BY <2>4, ItemEvent
    <3>2. QED
      BY <2>4, <2>7, <3>1
  <2>8. Closes(journal, e, m)
    BY <2>4 DEF Closes
  <2>9. \A o \in Ops : o # "complete" /\ Needed(e, o, m) => <<e, o, m>> \in receipts
    BY <2>2, <2>7 DEF TailSent
  <2>10. /\ \/ Canonical(b, m) = <<>> /\ ~Carries(e, m)
            \/ Canonical(b, m) = InOrder(All(m)) /\ Canonical(b, m) # <<>>
         /\ Needed(e, "complete", m) => Canonical(b, m) # <<>>
    <3>1. StreamAt(b, m, e - 1)
      BY <1>4, <2>2
    <3>2. QED
      BY <1>0, <1>4, <2>4, <3>1, CanonicalAtItem
  <2>11. /\ Told' /\ Later
         /\ Needed(e, "complete", m) => <<e, "complete", m>> \in receipts'
         /\ \A c \in Backends : c # b => SameMemory(c)
         /\ \A y \in Items : /\ buffer'[b][y] = IF y = m THEN <<>> ELSE buffer[b][y]
                             /\ observed'[b][y] = IF y = m THEN <<>> ELSE observed[b][y]
         /\ active' = active /\ Remembers(b)'
    BY <1>8, <2>4, <2>8, <2>9, <2>10
  <2>12. TextAt(b, e)'
    <3>1. ASSUME NEW y \in Items
          PROVE  buffer'[b][y] = InOrder(Pd(y, e)) /\ observed'[b][y] = InOrder(St(y, e))
      <4>1. CASE y = m
        BY <2>5, <2>11, <4>1, InOrderEmpty
      <4>2. CASE y # m
        <5>1. BufferAt(b, y, e) /\ StreamAt(b, y, e - 1)
          BY <2>2
        <5>2. QED
          BY <2>6, <2>11, <4>2, <5>1 DEF BufferAt, StreamAt
      <4>3. QED
        BY <4>1, <4>2
    <3>2. TextAt(b, e)' <=> \A y \in Items : /\ buffer'[b][y] = InOrder(Pd(y, e))
                                             /\ observed'[b][y] = InOrder(St(y, e))
      BY <2>11, TextThen
    <3>3. QED
      BY <3>1, <3>2
  <2>13. Receipted(e)'
    <3>1. ASSUME NEW o, NEW y, Needed(e, o, y) PROVE <<e, o, y>> \in receipts'
      BY <2>2, <2>7, <2>11, <3>1 DEF TailSent, Later
    <3>2. ASSUME NEW o, NEW y PROVE Needed(e, o, y)' <=> Needed(e, o, y)
      BY <1>1, ScriptKept
    <3>3. QED
      BY <3>1, <3>2 DEF Receipted, Ops
  <2>14. ActiveAt(b, e - 1)'
    <3>1. ActiveAt(b, e - 1)' <=>
              \/ active'[b] = NoItem /\ \A y \in Items : St(y, e - 1) = {}
              \/ active'[b] \in Items /\ St(active'[b], e - 1) # {}
      BY <2>11, TextThen
    <3>2. QED
      BY <2>2, <2>11, <3>1 DEF ActiveAt
  <2>15. InItem(b)'
    BY <1>1, <1>7, <2>3, <2>12, <2>13, <2>14 DEF InItem
  <2>16. InEvent(b)'
    BY <1>1, <1>7, <1>11, <2>15 DEF InEvent
  <2>17. Following(b)'
    BY <1>0, <1>5, <1>7, <2>11, <2>16, StillAt
  <2>18. QED
    BY <1>7, <2>11, <2>17 DEF Onward
<1>12. CASE journal[e].type = "completed"
  <2>1. InCompleted(b)
    BY <1>0, <1>5, <1>12 DEF InEvent
  <2>2. /\ Ordered(Tail(worker[b].todo))
        /\ \A z : z \in ToSet(worker[b].todo) <=> z = Head(worker[b].todo) \/ z \in ToSet(Tail(worker[b].todo))
        /\ \A z \in ToSet(Tail(worker[b].todo)) : z.op \notin {"flush", "settle"}
    BY <1>4, <2>1, TodoOf, TodoTail DEF InCompleted
  <2>3. ASSUME NEW y
        PROVE  /\ y # m => (Op("complete", y) \in ToSet(worker[b].todo)
                              <=> Op("complete", y) \in ToSet(Tail(worker[b].todo)))
               /\ Op("flush", y) \notin ToSet(worker[b].todo)
               /\ Op("settle", y) \notin ToSet(worker[b].todo)
    <3>1. /\ Op("flush", y).op = "flush" /\ Op("settle", y).op = "settle"
          /\ Op("complete", y).item = y /\ Op("complete", m).item = m
      BY DEF Op
    <3>2. QED
      BY <1>4, <2>2, <3>1
  <2>4. ASSUME NEW y \in Items
        PROVE  /\ buffer[b][y] = <<>> /\ (Needed(e, "flush", y) => <<e, "flush", y>> \in receipts)
               /\ \/ StreamAt(b, y, e - 1) /\ Op("complete", y) \in ToSet(worker[b].todo)
                  \/ observed[b][y] = <<>>
    <3>1. /\ \/ BufferAt(b, y, e - 1) /\ Op("flush", y) \in ToSet(worker[b].todo)
             \/ buffer[b][y] = <<>> /\ (Needed(e, "flush", y) => <<e, "flush", y>> \in receipts)
          /\ \/ StreamAt(b, y, e - 1) /\ Op("complete", y) \in ToSet(worker[b].todo)
             \/ observed[b][y] = <<>>
      BY <1>0, <2>1 DEF InCompleted
    <3>2. QED
      BY <2>3, <3>1
  <2>5. Closes(journal, e, m) /\ ~Carries(e, m)
    BY <1>12 DEF Closes, Carries
  <2>6. ASSUME NEW o, Needed(e, o, m) PROVE <<e, o, m>> \in receipts
    <3>1. Needed(e, o, m) <=> o = "flush" /\ journal[e].type = "completed" /\ Pd(m, e - 1) # {}
      BY <1>1, <1>4, <1>12, EndEvent
    <3>2. Needed(e, "flush", m) => <<e, "flush", m>> \in receipts
      BY <1>4, <2>4
    <3>3. QED
      BY <2>6, <3>1, <3>2
  <2>7. /\ Told' /\ Later
        /\ \A c \in Backends : c # b => SameMemory(c)
        /\ \A y \in Items : /\ buffer'[b][y] = IF y = m THEN <<>> ELSE buffer[b][y]
                            /\ observed'[b][y] = IF y = m THEN <<>> ELSE observed[b][y]
        /\ active' = active /\ Remembers(b)'
    BY <1>8, <1>9, <1>12, <2>5, <2>6
  <2>8. InCompleted(b)'
    <3>1. settled
      BY <2>1, <2>3 DEF InCompleted
    <3>2. ASSUME NEW y \in Items
          PROVE  /\ buffer'[b][y] = <<>> /\ (Needed(e, "flush", y)' => <<e, "flush", y>> \in receipts')
                 /\ \/ StreamAt(b, y, e - 1)' /\ Op("complete", y) \in ToSet(Tail(worker[b].todo))
                    \/ observed'[b][y] = <<>>
      <4>1. Needed(e, "flush", y)' <=> Needed(e, "flush", y)
        BY <1>1, ScriptKept
      <4>2. StreamAt(b, y, e - 1)' <=> observed'[b][y] = InOrder(St(y, e - 1))
        BY <2>7, TextThen
      <4>3. buffer'[b][y] = <<>> /\ (Needed(e, "flush", y)' => <<e, "flush", y>> \in receipts')
        BY <2>4, <2>7, <4>1 DEF Later
      <4>4. CASE y = m
        BY <2>7, <4>3, <4>4
      <4>5. CASE y # m
        BY <2>3, <2>4, <2>7, <4>2, <4>3, <4>5 DEF StreamAt
      <4>6. QED
        BY <4>4, <4>5
    <3>3. QED
      BY <1>1, <1>7, <2>2, <3>1, <3>2 DEF InCompleted
  <2>9. InEvent(b)'
    BY <1>1, <1>7, <1>12, <2>8 DEF InEvent
  <2>10. Following(b)'
    BY <1>0, <1>5, <1>7, <2>7, <2>9, StillAt
  <2>11. QED
    BY <1>7, <2>7, <2>10 DEF Onward
<1>13. QED
  BY <1>4, <1>10, <1>11, <1>12

\* Two lists with the same elements are the same.
LEMMA SameList ==
  ASSUME NEW A, NEW s \in Seq(A), NEW t \in Seq(A), Len(s) = Len(t),
         \A i \in 1..Len(s) : s[i] = t[i]
  PROVE  s = t
<1>1. s = [i \in 1..Len(s) |-> s[i]] /\ t = [i \in 1..Len(t) |-> t[i]]
  OBVIOUS
<1>2. QED
  BY <1>1

\* The plans of an event.
LEMMA Lists ==
  ASSUME NEW o, NEW p, NEW q, NEW r
  PROVE  /\ <<o>> \o <<p, q>> = <<o, p, q>>
         /\ (<<o>> \o <<p, q>>) \o <<r>> = <<o, p, q, r>>
<1> DEFINE A == {o, p, q, r}
<1>1. /\ <<o>> \in Seq(A) /\ <<p, q>> \in Seq(A) /\ <<r>> \in Seq(A) /\ <<o, p, q>> \in Seq(A)
      /\ <<o, p, q, r>> \in Seq(A)
  OBVIOUS
<1> HIDE DEF A
<1>2. <<o>> \o <<p, q>> = <<o, p, q>>
  <2>1. PICK s : s = <<o>> \o <<p, q>>
    OBVIOUS
  <2>2. s \in Seq(A) /\ Len(s) = 3 /\ s[1] = o /\ s[1 + 1] = p /\ s[1 + 2] = q
    BY <1>1, <2>1, Joined
  <2>3. \A i \in 1..3 : s[i] = <<o, p, q>>[i]
    BY <2>2
  <2>4. QED
    BY <1>1, <2>1, <2>2, <2>3, SameList
<1>3. <<o, p, q>> \o <<r>> = <<o, p, q, r>>
  <2>1. PICK s : s = <<o, p, q>> \o <<r>>
    OBVIOUS
  <2>2. s \in Seq(A) /\ Len(s) = 4 /\ s[1] = o /\ s[2] = p /\ s[3] = q /\ s[3 + 1] = r
    BY <1>1, <2>1, Joined
  <2>3. \A i \in 1..4 : s[i] = <<o, p, q, r>>[i]
    BY <2>2
  <2>4. QED
    BY <1>1, <2>1, <2>2, <2>3, SameList
<1>4. QED
  BY <1>2, <1>3

\* An event that the turn's plan starts with nothing done.
LEMMA PlanFollows ==
  ASSUME Pieces, NEW b \in Backends, NEW e \in 1..Len(journal), Remembers(b),
         TextAt(b, e - 1), ActiveAt(b, e - 1),
         NEW w, w = Plan(b, e)
  PROVE  /\ journal[e].type = "delta" =>
              \/ /\ w = <<Op("append", journal[e].item)>>
                 /\ \A y \in Items : y # journal[e].item =>
                      buffer[b][y] = <<>> /\ observed[b][y] = <<>> /\ Pd(y, e - 1) = {}
              \/ /\ active[b] \in Items /\ active[b] # journal[e].item
                 /\ St(active[b], e - 1) # {}
                 /\ w = <<Op("load", NoItem), Op("tail", active[b]), Op("complete", active[b]),
                          Op("append", journal[e].item)>>
         /\ journal[e].type = "item" =>
              w = <<Op("load", NoItem), Op("tail", journal[e].item),
                    Op("complete", journal[e].item)>>
         /\ journal[e].type = "completed" =>
              /\ Ordered(w) /\ Op("settle", NoItem) \in ToSet(w)
              /\ \A y \in Items :
                   /\ \/ Op("flush", y) \in ToSet(w)
                      \/ buffer[b][y] = <<>> /\ ~Needed(e, "flush", y)
                   /\ Op("complete", y) \in ToSet(w) \/ observed[b][y] = <<>>
         /\ journal[e].type = "aborted" => w = <<Op("settle", NoItem)>>
<1>1. journal \in Scripts /\ IsFiniteSet(remembered[b])
  BY DEF Pieces, MemoryOK
<1>2. e \in Nat /\ e >= 1 /\ e - 1 \in Nat /\ Len(journal) \in Nat
  BY <1>1, EventNumbers
<1>3. ASSUME NEW y \in Items, St(y, e - 1) = {}
      PROVE  buffer[b][y] = <<>> /\ observed[b][y] = <<>> /\ Pd(y, e - 1) = {}
  <2>1. Pd(y, e - 1) = {}
    BY <1>2, <1>3, StreamsAre
  <2>2. BufferAt(b, y, e - 1) /\ StreamAt(b, y, e - 1)
    BY DEF TextAt
  <2>3. QED
    BY <1>2, <1>3, <2>1, <2>2, TextOf
<1>4. CASE journal[e].type = "delta"
  <2>1. PICK m, a : m = journal[e].item /\ a = active[b]
    OBVIOUS
  <2>2. w = (IF a \in {NoItem, m} THEN <<>> ELSE <<Op("load", NoItem)>> \o Finalize(a))
              \o <<Op("append", m)>>
    BY <1>4, <2>1 DEF Plan
  <2>3. CASE a \in {NoItem, m}
    <3>1. w = <<Op("append", m)>>
      BY <2>2, <2>3
    <3>2. ASSUME NEW y \in Items, y # m PROVE St(y, e - 1) = {}
      <4>1. CASE \A z \in Items : St(z, e - 1) = {}
        BY <4>1
      <4>2. CASE a \in Items /\ St(a, e - 1) # {}
        <5>1. a = m
          BY <2>3, <4>2, IngestionAssumption
        <5>2. QED
          BY <1>2, <3>2, <4>2, <5>1, OneOpen
      <4>3. QED
        BY <2>1, <4>1, <4>2 DEF ActiveAt
    <3>3. QED
      BY <1>3, <1>4, <2>1, <3>1, <3>2
  <2>4. CASE a \notin {NoItem, m}
    <3>1. w = <<Op("load", NoItem), Op("tail", a), Op("complete", a), Op("append", m)>>
      <4>1. w = (<<Op("load", NoItem)>> \o <<Op("tail", a), Op("complete", a)>>) \o <<Op("append", m)>>
        BY <2>2, <2>4 DEF Finalize
      <4>2. QED
        BY <4>1, Lists
    <3>2. a \in Items /\ St(a, e - 1) # {}
      BY <2>1, <2>4 DEF ActiveAt
    <3>3. QED
      BY <1>4, <2>1, <2>4, <3>1, <3>2
  <2>5. QED
    BY <2>3, <2>4
<1>5. CASE journal[e].type = "item"
  <2>1. w = <<Op("load", NoItem)>> \o <<Op("tail", journal[e].item), Op("complete", journal[e].item)>>
    BY <1>5 DEF Plan, Finalize
  <2>2. QED
    BY <1>5, <2>1, Lists
<1>6. CASE journal[e].type = "completed"
  <2>1. w = EndTurn(b)
    BY <1>6 DEF Plan
  <2>2. /\ Ordered(w) /\ Op("settle", NoItem) \in ToSet(w)
        /\ \A y \in remembered[b] : Op("flush", y) \in ToSet(w) /\ Op("complete", y) \in ToSet(w)
    BY <1>1, <2>1, EndTurnIs
  <2>3. ASSUME NEW y \in Items, y \notin remembered[b]
        PROVE  buffer[b][y] = <<>> /\ observed[b][y] = <<>> /\ ~Needed(e, "flush", y)
    <3>1. observed[b][y] = <<>>
      BY <2>3 DEF Remembers
    <3>2. StreamAt(b, y, e - 1)
      BY DEF TextAt
    <3>3. St(y, e - 1) = {}
      BY <1>2, <3>1, <3>2, TextOf
    <3>4. buffer[b][y] = <<>> /\ Pd(y, e - 1) = {}
      BY <1>3, <3>3
    <3>5. QED
      BY <3>1, <3>4 DEF Needed
  <2>4. QED
    BY <1>6, <2>2, <2>3
<1>7. CASE journal[e].type = "aborted"
  BY <1>7 DEF Plan
<1>8. journal[e].type \in {"delta", "item", "completed", "aborted"}
  BY <1>1, Turn
<1>9. QED
  BY <1>4, <1>5, <1>6, <1>7, <1>8

\* A worker takes an event: the next one, or one of the overlap.
LEMMA TakeFollows ==
  ASSUME CursorInv, Pieces, ProcessOK, Told, NEW b \in Backends, Following(b),
         NEW e \in 1..Len(journal), Take(b, e)
  PROVE  Onward(b)
<1>1. /\ up[b] /\ worker[b] = Idle /\ (e = next[b] \/ e \in processed[b])
      /\ next' = [next EXCEPT ![b] = Larger(next[b], e + 1)]
      /\ worker' = [worker EXCEPT ![b] =
           [event |-> e, todo |-> IF e \in processed[b] THEN <<>> ELSE Plan(b, e),
            seen |-> worker[b].seen]]
      /\ UNCHANGED <<journal, streaming, messages, receipts, settled, durable>>
      /\ UNCHANGED <<up, processed, cursor>>
      /\ UNCHANGED <<buffer, begun, observed, active, remembered>>
  BY DEF Take, script, store, text
<1>2. journal \in Scripts /\ e \in Nat /\ e >= 1 /\ e - 1 \in Nat /\ Len(journal) \in Nat
  BY EventNumbers DEF CursorInv
<1>3. ~At(b) /\ Reached(b) = next[b] - 1
  BY <1>1 DEF At, Idle, Reached
<1>4. /\ Positioned(b) /\ Remembers(b) /\ TextAt(b, next[b] - 1) /\ ActiveAt(b, next[b] - 1)
      /\ next[b] \in Nat /\ next[b] >= 1 /\ processed[b] \subseteq 1..(next[b] - 1)
  BY <1>3 DEF Following, Resting, Positioned
<1>5. Told' /\ Later
  <2>1. \A d \in 1..durable' : Passed(d)
    BY <1>1 DEF Told
  <2>2. QED
    BY <1>1, <2>1, ToldKept
<1>6. PICK todo : todo = IF e \in processed[b] THEN <<>> ELSE Plan(b, e)
  OBVIOUS
<1>7. /\ worker'[b].event = e /\ worker'[b].todo = todo /\ next'[b] = Larger(next[b], e + 1)
      /\ \A c \in Backends : c # b => SameMemory(c) /\ SameProcess(c)
  <2>1. worker = [c \in Backends |-> worker[c]]
    BY DEF CursorInv, WorkersInv
  <2>2. /\ worker'[b].event = e /\ worker'[b].todo = todo
        /\ \A c \in Backends : c # b => worker'[c] = worker[c]
    BY <1>1, <1>6, <2>1
  <2>3. next'[b] = Larger(next[b], e + 1) /\ \A c \in Backends : c # b => next'[c] = next[c]
    BY <1>1 DEF ProcessOK
  <2>4. QED
    BY <1>1, <2>2, <2>3 DEF SameMemory, SameProcess
<1>8. SameMemory(b)
  BY <1>1 DEF SameMemory
<1>9. Remembers(b)'
  BY <1>4, <1>5, <1>8, MemoryThen
<1>10. \A k : Passed(k) => Passed(k)'
  <2>1. ASSUME NEW k PROVE Passed(k) => Passed(k)'
    BY <1>5, Monotone
  <2>2. QED
    BY <2>1
<1>11. CASE e \in processed[b]
  <2>1. Larger(next[b], e + 1) = next[b]
    BY <1>2, <1>4, <1>11 DEF Larger
  <2>2. next'[b] = next[b] /\ todo = <<>> /\ ~At(b)' /\ Reached(b)' = Reached(b)
    BY <1>1, <1>3, <1>6, <1>7, <1>11, <2>1 DEF At, Reached
  <2>3. Positioned(b)'
    BY <1>1, <1>3, <1>4, <1>10, <2>2 DEF Positioned
  <2>4. Resting(b)'
    <3>1. TextAt(b, next[b] - 1)' /\ ActiveAt(b, next[b] - 1)'
      <4>1. PICK k : k = next[b] - 1
        OBVIOUS
      <4>2. TextAt(b, k)' /\ ActiveAt(b, k)'
        BY <1>4, <1>5, <1>8, <4>1, MemoryThen
      <4>3. next'[b] - 1 = k
        BY <2>2, <4>1
      <4>4. QED
        BY <4>2, <4>3
    <3>2. QED
      BY <1>7, <2>2, <3>1 DEF Resting
  <2>5. Following(b)'
    BY <1>9, <2>2, <2>3, <2>4 DEF Following
  <2>6. QED
    BY <1>5, <1>7, <2>5 DEF Onward
<1>12. CASE e \notin processed[b]
  <2>1. e = next[b] /\ Larger(next[b], e + 1) = e + 1 /\ todo = Plan(b, e)
    BY <1>1, <1>2, <1>6, <1>12 DEF Larger
  <2>2. next'[b] = e + 1 /\ At(b)' /\ Reached(b)' = e - 1 /\ Reached(b) = e - 1
    <3>1. next'[b] = e + 1 /\ worker'[b].event # 0
      BY <1>2, <1>7, <2>1
    <3>2. At(b)'
      BY <1>1, <1>7, <1>12, <3>1 DEF At
    <3>3. QED
      BY <1>3, <1>7, <2>1, <3>1, <3>2 DEF Reached
  <2>3. Positioned(b)'
    <3>1. e - 1 \in 0..Len(journal)
      BY <1>2
    <3>2. QED
      BY <1>1, <1>2, <1>4, <1>7, <1>10, <2>2, <3>1 DEF Positioned
  <2>4. TextAt(b, e - 1) /\ ActiveAt(b, e - 1)
    BY <1>4, <2>1
  <2>5. TextAt(b, e - 1)' /\ ActiveAt(b, e - 1)'
    <3>1. PICK k : k = e - 1
      OBVIOUS
    <3>2. TextAt(b, k)' /\ ActiveAt(b, k)'
      BY <1>5, <1>8, <2>4, <3>1, MemoryThen
    <3>3. QED
      BY <3>1, <3>2
  <2>6. CASE journal[e].type = "delta"
    <3>1. PICK m : m = journal[e].item
      OBVIOUS
    <3>2. m \in Items
      BY <1>2, <2>6, <3>1, Turn
    <3>3. ASSUME todo = <<Op("append", m)>>,
                 \A y \in Items : y # m =>
                    buffer[b][y] = <<>> /\ observed[b][y] = <<>> /\ Pd(y, e - 1) = {}
          PROVE  InEvent(b)'
      <4>1. ASSUME NEW y \in Items, y # m PROVE TailSent(e, y)'
        <5>1. ~Needed(e, "tail", y)
          BY <2>6, <3>3, <4>1 DEF Needed
        <5>2. TailSent(e, y)
          BY <5>1 DEF TailSent
        <5>3. QED
          BY <1>5, <5>2, Monotone
      <4>2. BufferAt(b, m, e - 1)' /\ StreamAt(b, m, e - 1)'
        BY <2>5, <3>2 DEF TextAt
      <4>3. InDelta(b)'
        BY <1>1, <1>7, <3>1, <3>3, <4>1, <4>2 DEF InDelta
      <4>4. QED
        BY <1>1, <1>7, <2>6, <4>3 DEF InEvent
    <3>4. ASSUME active[b] \in Items, active[b] # m, St(active[b], e - 1) # {},
                 todo = <<Op("load", NoItem), Op("tail", active[b]), Op("complete", active[b]),
                           Op("append", m)>>
          PROVE  InEvent(b)'
      <4>1. PICK a : a = active[b]
        OBVIOUS
      <4>2. St(a, e - 1)' = St(a, e - 1)
        BY <1>1, ScriptKept
      <4>3. InDelta(b)'
        BY <1>1, <1>7, <2>5, <3>1, <3>4, <4>1, <4>2 DEF InDelta
      <4>4. QED
        BY <1>1, <1>7, <2>6, <4>3 DEF InEvent
    <3>5. \/ /\ todo = <<Op("append", m)>>
             /\ \A y \in Items : y # m =>
                    buffer[b][y] = <<>> /\ observed[b][y] = <<>> /\ Pd(y, e - 1) = {}
          \/ /\ active[b] \in Items /\ active[b] # m /\ St(active[b], e - 1) # {}
             /\ todo = <<Op("load", NoItem), Op("tail", active[b]), Op("complete", active[b]),
                           Op("append", m)>>
      BY <1>4, <2>1, <2>4, <2>6, <3>1, PlanFollows
    <3>6. InEvent(b)'
      BY <3>3, <3>4, <3>5
    <3>7. QED
      BY <1>5, <1>7, <1>9, <2>2, <2>3, <3>6 DEF Following, Onward
  <2>7. CASE journal[e].type = "item"
    <3>1. PICK m : m = journal[e].item
      OBVIOUS
    <3>2. todo = <<Op("load", NoItem), Op("tail", m), Op("complete", m)>>
      BY <1>4, <2>1, <2>4, <2>7, <3>1, PlanFollows
    <3>3. InItem(b)'
      BY <1>1, <1>7, <2>5, <3>1, <3>2 DEF InItem
    <3>4. InEvent(b)'
      BY <1>1, <1>7, <2>7, <3>3 DEF InEvent
    <3>5. QED
      BY <1>5, <1>7, <1>9, <2>2, <2>3, <3>4 DEF Following, Onward
  <2>8. CASE journal[e].type = "completed"
    <3>1. /\ Ordered(todo) /\ Op("settle", NoItem) \in ToSet(todo)
          /\ \A y \in Items :
               /\ \/ Op("flush", y) \in ToSet(todo)
                  \/ buffer[b][y] = <<>> /\ ~Needed(e, "flush", y)
               /\ Op("complete", y) \in ToSet(todo) \/ observed[b][y] = <<>>
      BY <1>4, <2>1, <2>4, <2>8, PlanFollows
    <3>2. ASSUME NEW y \in Items
          PROVE  /\ \/ BufferAt(b, y, e - 1)' /\ Op("flush", y) \in ToSet(todo)
                    \/ buffer'[b][y] = <<>> /\ (Needed(e, "flush", y)' => <<e, "flush", y>> \in receipts')
                 /\ \/ StreamAt(b, y, e - 1)' /\ Op("complete", y) \in ToSet(todo)
                    \/ observed'[b][y] = <<>>
      <4>1. Needed(e, "flush", y)' <=> Needed(e, "flush", y)
        BY <1>1, ScriptKept
      <4>2. BufferAt(b, y, e - 1)' /\ StreamAt(b, y, e - 1)'
        BY <2>5 DEF TextAt
      <4>3. QED
        BY <1>1, <3>1, <4>1, <4>2
    <3>3. InCompleted(b)'
      BY <1>7, <3>1, <3>2 DEF InCompleted
    <3>4. InEvent(b)'
      BY <1>1, <1>7, <2>8, <3>3 DEF InEvent
    <3>5. QED
      BY <1>5, <1>7, <1>9, <2>2, <2>3, <3>4 DEF Following, Onward
  <2>9. CASE journal[e].type = "aborted"
    <3>1. todo = <<Op("settle", NoItem)>>
      BY <1>4, <2>1, <2>4, <2>9, PlanFollows
    <3>2. InAborted(b)'
      BY <1>7, <2>5, <3>1 DEF InAborted
    <3>3. InEvent(b)'
      BY <1>1, <1>7, <2>9, <3>2 DEF InEvent
    <3>4. QED
      BY <1>5, <1>7, <1>9, <2>2, <2>3, <3>3 DEF Following, Onward
  <2>10. journal[e].type \in {"delta", "item", "completed", "aborted"}
    BY <1>2, Turn
  <2>11. QED
    BY <2>6, <2>7, <2>8, <2>9, <2>10
<1>13. QED
  BY <1>11, <1>12

\* The text in memory once a worker is done with an event that it took to its end.
LEMMA AfterEvent ==
  ASSUME Pieces, NEW b \in Backends, NEW e \in 1..Len(journal), e = worker[b].event,
         Remembers(b), InEvent(b), worker[b].todo = <<>>
  PROVE  /\ TextAt(b, e) /\ Passed(e)
         /\ journal[e].type \in {"completed", "aborted"} => \A y \in Items : observed[b][y] = <<>>
         /\ LET a == IF \/ journal[e].type = "completed"
                        \/ journal[e].type = "item" /\ active[b] = journal[e].item
                     THEN NoItem ELSE active[b] IN
            \/ a = NoItem /\ \A y \in Items : St(y, e) = {}
            \/ a \in Items /\ St(a, e) # {}
<1>1. journal \in Scripts
  BY DEF Pieces
<1>2. e \in Nat /\ e >= 1 /\ e - 1 \in Nat /\ Len(journal) \in Nat
  BY <1>1, EventNumbers
<1>3. \A o : <<o>> # <<>>
  OBVIOUS
<1>4. CASE journal[e].type = "delta"
  <2>1. PICK m : m = journal[e].item
    OBVIOUS
  <2>2. InDelta(b)
    BY <1>4 DEF InEvent
  <2>3. TextAt(b, e) /\ active[b] = m /\ Receipted(e)
    BY <2>1, <2>2 DEF InDelta
  <2>4. m \in Items
    BY <1>1, <1>4, <2>1, Turn
  <2>5. St(m, e) # {}
    <3>1. ~Closes(journal, e, m) /\ IsDelta(journal, e, m)
      BY <1>4, <2>1 DEF Closes, IsDelta
    <3>2. QED
      BY <1>2, <3>1, StreamStep DEF St
  <2>6. QED
    BY <1>4, <2>3, <2>4, <2>5 DEF Passed
<1>5. CASE journal[e].type = "item"
  <2>1. PICK m : m = journal[e].item
    OBVIOUS
  <2>2. InItem(b)
    BY <1>5 DEF InEvent
  <2>3. TextAt(b, e) /\ Receipted(e) /\ ActiveAt(b, e - 1)
    BY <2>2 DEF InItem
  <2>4. \A y : IF y = m THEN St(y, e) = {} ELSE St(y, e) = St(y, e - 1)
    <3>1. ASSUME NEW y PROVE IF y = m THEN St(y, e) = {} ELSE St(y, e) = St(y, e - 1)
      <4>1. (Closes(journal, e, y) <=> y = m) /\ ~IsDelta(journal, e, y)
        BY <1>5, <2>1 DEF Closes, IsDelta
      <4>2. QED
        BY <1>2, <4>1, StreamStep DEF St
    <3>2. QED
      BY <3>1
  <2>5. CASE active[b] = NoItem /\ \A y \in Items : St(y, e - 1) = {}
    <3>1. \A y \in Items : St(y, e) = {}
      BY <2>4, <2>5
    <3>2. QED
      BY <1>5, <2>3, <2>5, <3>1 DEF Passed
  <2>6. CASE active[b] \in Items /\ St(active[b], e - 1) # {} /\ active[b] = m
    <3>1. ASSUME NEW y \in Items PROVE St(y, e) = {}
      <4>1. CASE y = m
        BY <2>4, <4>1
      <4>2. CASE y # m
        BY <1>2, <2>4, <2>6, <4>2, OneOpen
      <4>3. QED
        BY <4>1, <4>2
    <3>2. QED
      BY <1>5, <2>1, <2>3, <2>6, <3>1 DEF Passed
  <2>7. CASE active[b] \in Items /\ St(active[b], e - 1) # {} /\ active[b] # m
    <3>1. St(active[b], e) # {}
      BY <2>4, <2>7
    <3>2. QED
      BY <1>5, <2>1, <2>3, <2>7, <3>1 DEF Passed
  <2>8. QED
    BY <2>3, <2>5, <2>6, <2>7 DEF ActiveAt
<1>6. CASE journal[e].type \in {"completed", "aborted"}
  <2>1. /\ \A y : St(y, e) = {} /\ Pd(y, e) = {}
        /\ \A op, y : Needed(e, op, y)
                        <=> op = "flush" /\ journal[e].type = "completed" /\ Pd(y, e - 1) # {}
    BY <1>1, <1>6, EndEvent
  <2>2. CASE journal[e].type = "completed"
    <3>1. InCompleted(b)
      BY <2>2 DEF InEvent
    <3>2. \A o : o \notin ToSet(<<>>)
      BY DEF ToSet
    <3>3. settled
      BY <3>1, <3>2 DEF InCompleted
    <3>4. ASSUME NEW y \in Items
          PROVE  /\ buffer[b][y] = <<>> /\ observed[b][y] = <<>>
                 /\ Needed(e, "flush", y) => <<e, "flush", y>> \in receipts
      BY <3>1, <3>2 DEF InCompleted
    <3>5. Receipted(e)
      BY <2>1, <3>4 DEF Receipted
    <3>6. TextAt(b, e)
      BY <2>1, <3>4, InOrderEmpty DEF TextAt, BufferAt, StreamAt
    <3>7. QED
      BY <2>1, <2>2, <3>3, <3>4, <3>5, <3>6 DEF Passed
  <2>3. CASE journal[e].type = "aborted"
    <3>1. InAborted(b)
      BY <2>3 DEF InEvent
    <3>2. TextAt(b, e) /\ active[b] = NoItem /\ settled
      BY <3>1, <1>3 DEF InAborted
    <3>3. Receipted(e)
      BY <2>1, <2>3 DEF Receipted
    <3>4. ASSUME NEW y \in Items PROVE observed[b][y] = <<>>
      BY <2>1, <3>2, InOrderEmpty DEF TextAt, StreamAt
    <3>5. QED
      BY <2>1, <2>3, <3>2, <3>3, <3>4 DEF Passed
  <2>4. QED
    BY <1>6, <2>2, <2>3
<1>7. journal[e].type \in {"delta", "item", "completed", "aborted"}
  BY <1>1, Turn
<1>8. QED
  BY <1>4, <1>5, <1>6, <1>7

\* The event is processed.
LEMMA FinishFollows ==
  ASSUME CursorInv, Pieces, ProcessOK, Told, NEW b \in Backends, Following(b), Finish(b)
  PROVE  Onward(b)
<1>0. PICK e, type : e = worker[b].event
                       /\ type = IF e \in processed[b] THEN "replay" ELSE journal[e].type
  OBVIOUS
<1>1. /\ e # 0 /\ worker[b].todo = <<>>
      /\ processed' = [processed EXCEPT ![b] = @ \cup {e}]
      /\ cursor' = [cursor EXCEPT ![b] = Larger(@, e)]
      /\ active' = [active EXCEPT ![b] =
           IF type = "completed" \/ (type = "item" /\ @ = journal[e].item) THEN NoItem ELSE @]
      /\ remembered' = [remembered EXCEPT ![b] = IF type = "completed" THEN {} ELSE @]
      /\ worker' = [worker EXCEPT ![b] = Idle]
      /\ UNCHANGED <<journal, streaming, messages, receipts, settled, durable>>
      /\ UNCHANGED <<up, next>>
      /\ UNCHANGED <<buffer, begun, observed>>
  BY <1>0 DEF Finish, script, store
<1>2. /\ worker'[b] = Idle /\ worker'[b].event = 0 /\ worker'[b].todo = <<>>
      /\ processed'[b] = processed[b] \cup {e}
      /\ cursor'[b] = Larger(cursor[b], e) /\ cursor[b] \in Nat
      /\ active'[b] = (IF type = "completed" \/ (type = "item" /\ active[b] = journal[e].item)
                       THEN NoItem ELSE active[b])
      /\ remembered'[b] = IF type = "completed" THEN {} ELSE remembered[b]
      /\ \A c \in Backends : c # b => SameMemory(c) /\ SameProcess(c)
  <2>1. worker = [c \in Backends |-> worker[c]] /\ Len(journal) \in Nat
        /\ cursor \in [Backends -> Positions]
    BY JournalLength DEF CursorInv, WorkersInv
  <2>2. /\ active \in [Backends -> Items \cup {NoItem}]
        /\ remembered \in [Backends -> SUBSET Items]
    BY DEF Pieces, MemoryOK
  <2>3. /\ worker'[b] = Idle /\ \A c \in Backends : c # b => worker'[c] = worker[c]
    BY <1>1, <2>1
  <2>4. /\ processed'[b] = processed[b] \cup {e}
        /\ \A c \in Backends : c # b => processed'[c] = processed[c]
    BY <1>1 DEF ProcessOK
  <2>5. /\ cursor'[b] = Larger(cursor[b], e)
        /\ \A c \in Backends : c # b => cursor'[c] = cursor[c]
    BY <1>1, <2>1
  <2>6. cursor[b] \in Nat
    BY <2>1 DEF Positions
  <2>7. /\ active'[b] = (IF type = "completed" \/ (type = "item" /\ active[b] = journal[e].item)
                         THEN NoItem ELSE active[b])
        /\ \A c \in Backends : c # b => active'[c] = active[c]
    BY <1>1, <2>2
  <2>8. /\ remembered'[b] = IF type = "completed" THEN {} ELSE remembered[b]
        /\ \A c \in Backends : c # b => remembered'[c] = remembered[c]
    BY <1>1, <2>2
  <2>9. \A c \in Backends : c # b => SameMemory(c) /\ SameProcess(c)
    BY <1>1, <2>3, <2>4, <2>5, <2>7, <2>8 DEF SameMemory, SameProcess
  <2>10. QED
    BY <2>3, <2>4, <2>5, <2>6, <2>7, <2>8, <2>9 DEF Idle
<1>3. Told' /\ Later
  <2>1. \A d \in 1..durable' : Passed(d)
    BY <1>1 DEF Told
  <2>2. QED
    BY <1>1, <2>1, ToldKept
<1>4. \A k : Passed(k) => Passed(k)'
  <2>1. ASSUME NEW k PROVE Passed(k) => Passed(k)'
    BY <1>3, Monotone
  <2>2. QED
    BY <2>1
<1>5. /\ Positioned(b) /\ Remembers(b) /\ ~At(b)' /\ Reached(b)' = next[b] - 1 /\ up[b]
  BY <1>0, <1>1, <1>2 DEF Following, At, Reached, Positioned, Idle
<1>6. journal \in Scripts /\ Len(journal) \in Nat
  BY Turn DEF Pieces
<1>7. CASE e \in processed[b]
  <2>1. /\ ~At(b) /\ Reached(b) = next[b] - 1 /\ type = "replay"
        /\ active'[b] = active[b] /\ remembered'[b] = remembered[b]
    BY <1>0, <1>2, <1>7 DEF At, Reached
  <2>2. SameMemory(b)
    BY <1>1, <2>1 DEF SameMemory
  <2>3. TextAt(b, next[b] - 1) /\ ActiveAt(b, next[b] - 1)
    BY <2>1 DEF Following, Resting
  <2>4. /\ processed'[b] = processed[b] /\ cursor'[b] <= next[b] - 1
        /\ next[b] \in Nat /\ next[b] >= 1 /\ next[b] - 1 \in 0..Len(journal)
        /\ \A d \in 1..(next[b] - 1) : Passed(d)
    <3>1. e \in 1..(next[b] - 1)
      BY <1>5, <1>7, <2>1 DEF Positioned
    <3>2. cursor[b] <= next[b] - 1 /\ next[b] \in Nat /\ next[b] >= 1
          /\ next[b] - 1 \in 0..Len(journal) /\ \A d \in 1..(next[b] - 1) : Passed(d)
      BY <1>5, <2>1 DEF Positioned
    <3>3. QED
      BY <1>2, <1>7, <3>1, <3>2 DEF Larger
  <2>5. Positioned(b)'
    BY <1>1, <1>4, <1>5, <2>1, <2>4 DEF Positioned
  <2>6. Resting(b)'
    <3>1. PICK k : k = next[b] - 1
      OBVIOUS
    <3>2. TextAt(b, k)' /\ ActiveAt(b, k)'
      BY <1>3, <2>2, <2>3, <3>1, MemoryThen
    <3>3. next'[b] - 1 = k
      BY <1>1, <3>1
    <3>4. QED
      BY <1>2, <3>2, <3>3 DEF Resting
  <2>7. Remembers(b)'
    BY <1>3, <1>5, <2>2, MemoryThen
  <2>8. Following(b)'
    BY <1>5, <2>5, <2>6, <2>7 DEF Following
  <2>9. QED
    BY <1>2, <1>3, <2>8 DEF Onward
<1>8. CASE e \notin processed[b]
  <2>1. At(b) /\ Reached(b) = e - 1 /\ type = journal[e].type
    BY <1>0, <1>1, <1>8 DEF At, Reached
  <2>2. InEvent(b) /\ e \in 1..Len(journal) /\ next[b] = e + 1
    BY <1>0, <1>5, <2>1 DEF Following, Positioned
  <2>3. e \in Nat /\ e >= 1 /\ next[b] - 1 = e
    BY <1>6, <2>2
  <2>4. /\ TextAt(b, e) /\ Passed(e)
        /\ journal[e].type \in {"completed", "aborted"} => \A y \in Items : observed[b][y] = <<>>
        /\ \/ active'[b] = NoItem /\ \A y \in Items : St(y, e) = {}
           \/ active'[b] \in Items /\ St(active'[b], e) # {}
    <3>1. PICK a : a = IF \/ journal[e].type = "completed"
                          \/ journal[e].type = "item" /\ active[b] = journal[e].item
                       THEN NoItem ELSE active[b]
      OBVIOUS
    <3>2. active'[b] = a
      BY <1>2, <2>1, <3>1
    <3>3. e = worker[b].event /\ Remembers(b) /\ InEvent(b) /\ worker[b].todo = <<>>
      BY <1>0, <1>1, <1>5, <2>2
    <3>4. /\ TextAt(b, e) /\ Passed(e)
          /\ journal[e].type \in {"completed", "aborted"} => \A y \in Items : observed[b][y] = <<>>
      BY <2>2, <3>3, AfterEvent
    <3>5. \/ a = NoItem /\ \A y \in Items : St(y, e) = {}
          \/ a \in Items /\ St(a, e) # {}
      BY <2>2, <3>1, <3>3, AfterEvent
    <3>6. QED
      BY <3>2, <3>4, <3>5
  <2>5. TextAt(b, e)' /\ ActiveAt(b, e)'
    <3>1. TextAt(b, e)' <=> \A y \in Items : /\ buffer'[b][y] = InOrder(Pd(y, e))
                                             /\ observed'[b][y] = InOrder(St(y, e))
      BY <1>3, TextThen
    <3>2. TextAt(b, e)'
      BY <1>1, <2>4, <3>1 DEF TextAt, BufferAt, StreamAt
    <3>3. ActiveAt(b, e)' <=>
              \/ active'[b] = NoItem /\ \A y \in Items : St(y, e) = {}
              \/ active'[b] \in Items /\ St(active'[b], e) # {}
      BY <1>3, TextThen
    <3>4. QED
      BY <2>4, <3>2, <3>3
  <2>6. Remembers(b)'
    <3>1. \A y \in Items : begun'[b][y] = (streaming /\ observed'[b][y] # <<>>)
      BY <1>1, <1>5 DEF Remembers
    <3>2. ASSUME NEW y \in Items, observed'[b][y] # <<>> PROVE y \in remembered'[b]
      <4>1. observed[b][y] # <<>>
        BY <1>1, <3>2
      <4>2. type # "completed"
        BY <2>1, <2>4, <4>1
      <4>3. y \in remembered[b]
        BY <1>5, <4>1 DEF Remembers
      <4>4. QED
        BY <1>2, <4>2, <4>3
    <3>3. QED
      BY <1>3, <3>1, <3>2, TextThen
  <2>7. Positioned(b)'
    <3>1. \A d \in 1..e : Passed(d)
      <4>1. \A d \in 1..(e - 1) : Passed(d)
        BY <1>5, <2>1 DEF Positioned
      <4>2. \A d \in 1..e : d \in 1..(e - 1) \/ d = e
        BY <2>3
      <4>3. QED
        BY <2>4, <4>1, <4>2
    <3>2. processed'[b] \subseteq 1..e
      <4>1. processed[b] \subseteq 1..(e - 1)
        BY <1>5, <2>1 DEF Positioned
      <4>2. QED
        BY <1>2, <2>3, <4>1
    <3>3. cursor'[b] <= e
      <4>1. cursor[b] <= e - 1
        BY <1>5, <2>1 DEF Positioned
      <4>2. QED
        BY <1>2, <2>3, <4>1 DEF Larger
    <3>4. Reached(b)' = e /\ next'[b] = e + 1
      BY <1>1, <1>5, <2>2, <2>3
    <3>5. e \in 0..Len(journal) /\ e + 1 \in Nat /\ e + 1 >= 1
      BY <1>6, <2>2, <2>3
    <3>6. QED
      BY <1>1, <1>4, <1>5, <3>1, <3>2, <3>3, <3>4, <3>5 DEF Positioned
  <2>8. Resting(b)'
    <3>1. next'[b] - 1 = e
      BY <1>1, <2>3
    <3>2. QED
      BY <1>2, <2>5, <3>1 DEF Resting
  <2>9. Following(b)'
    BY <1>5, <2>6, <2>7, <2>8 DEF Following
  <2>10. QED
    BY <1>2, <1>3, <2>9 DEF Onward
<1>9. QED
  BY <1>7, <1>8

\* A process has nothing in memory before it was given any event.
LEMMA FreshIs ==
  ASSUME Pieces, NEW b \in Backends, TextAt(b, 0), ActiveAt(b, 0)
  PROVE  /\ \A y \in Items : buffer[b][y] = <<>> /\ observed[b][y] = <<>>
         /\ active[b] = NoItem
<1>1. \A y : St(y, 0) = {} /\ Pd(y, 0) = {}
  BY NothingYet
<1>2. active[b] = NoItem
  BY <1>1 DEF ActiveAt
<1>3. QED
  BY <1>1, <1>2, InOrderEmpty DEF TextAt, BufferAt, StreamAt

\* No stream is open where a process begins that is not inside an item.
LEMMA OutsideItems ==
  ASSUME NEW s \in Nat, ~InsideItem(s), NEW y PROVE St(y, s) = {} /\ Pd(y, s) = {}
<1>1. ASSUME NEW i \in St(y, s) PROVE FALSE
  <2>1. i \in 1..s /\ journal[i].type = "delta" /\ journal[i].item = y
        /\ \A j \in i..s : ~Closes(journal, j, y)
    BY DEF St, Stream, IsDelta
  <2>2. \A j \in i..s : /\ journal[j].type = "item" => journal[j].item # journal[i].item
                        /\ journal[j].type \notin {"completed", "aborted"}
    BY <2>1 DEF Closes
  <2>3. InsideItem(s)
    BY <2>1, <2>2 DEF InsideItem
  <2>4. QED
    BY <2>3
<1>2. St(y, s) = {}
  BY <1>1
<1>3. QED
  BY <1>2, StreamsAre

\* Where a process stands that has been given nothing since it began at s.
LEMMA Begins ==
  ASSUME Later, journal \in Scripts, NEW b \in Backends, NEW s \in 0..Len(journal),
         \A y \in Items : St(y, s) = {} /\ Pd(y, s) = {}, \A e \in 1..s : Passed(e),
         worker'[b] = Idle, next'[b] = s + 1, processed'[b] = {}, cursor'[b] = 0,
         ~up'[b] => s = 0,
         \A y \in Items : buffer'[b][y] = <<>> /\ observed'[b][y] = <<>> /\ begun'[b][y] = FALSE,
         active'[b] = NoItem
  PROVE  Following(b)'
<1>1. Len(journal) \in Nat /\ s \in Nat /\ Len(journal)' = Len(journal)
  <2>1. Len(journal) \in Nat
    BY Turn
  <2>2. QED
    BY <2>1 DEF Later
<1>2. ~At(b)' /\ Reached(b)' = s
  BY <1>1 DEF At, Reached, Idle
<1>3. \A e \in 1..s : Passed(e)'
  <2>1. ASSUME NEW e \in 1..s PROVE Passed(e)'
    <3>1. Passed(e)
      OBVIOUS
    <3>2. QED
      BY <3>1, Monotone
  <2>2. QED
    BY <2>1
<1>4. Positioned(b)'
  BY <1>1, <1>2, <1>3 DEF Positioned
<1>5. TextAt(b, s)' /\ ActiveAt(b, s)'
  <2>1. TextAt(b, s)' <=> \A y \in Items : /\ buffer'[b][y] = InOrder(Pd(y, s))
                                           /\ observed'[b][y] = InOrder(St(y, s))
    BY TextThen
  <2>2. ActiveAt(b, s)' <=>
              \/ active'[b] = NoItem /\ \A y \in Items : St(y, s) = {}
              \/ active'[b] \in Items /\ St(active'[b], s) # {}
    BY TextThen
  <2>3. QED
    BY <2>1, <2>2, InOrderEmpty
<1>6. Resting(b)'
  <2>1. next'[b] - 1 = s /\ worker'[b].todo = <<>>
    BY <1>1 DEF Idle
  <2>2. QED
    BY <1>5, <2>1 DEF Resting
<1>7. Remembers(b)'
  BY TextThen
<1>8. QED
  BY <1>2, <1>4, <1>6, <1>7 DEF Following

\* A process begins at the saved cursor or before it.
LEMMA BootFollows ==
  ASSUME CursorInv, Pieces, ProcessOK, Told, NEW b \in Backends, Following(b), Boot(b), ~torn'
  PROVE  Onward(b)
<1>1. /\ ~up[b] /\ up' = [up EXCEPT ![b] = TRUE]
      /\ next' = [next EXCEPT ![b] = start'[b] + 1]
      /\ UNCHANGED <<journal, streaming, messages, receipts, settled, durable>>
      /\ UNCHANGED <<processed, cursor, worker>>
      /\ UNCHANGED <<buffer, begun, observed, active, remembered>>
  BY DEF Boot, script, store, text
<1>2. journal \in Scripts /\ Len(journal) \in Nat /\ durable \in 0..Len(journal)
      /\ cursor \in [Backends -> 0..Len(journal)]
  BY JournalLength DEF CursorInv, Positions
<1>3. PICK s \in 0..durable : s = start'[b] /\ ~InsideItem(s)
  <2>1. CASE /\ start' = [start EXCEPT ![b] = IF durable < Overlap THEN 0 ELSE durable - Overlap]
             /\ torn' = (torn \/ InsideItem(start'[b]))
    <3>1. start'[b] = IF durable < Overlap THEN 0 ELSE durable - Overlap
      BY <2>1 DEF ProcessOK
    <3>2. start'[b] \in 0..durable
      BY <1>2, <3>1, IngestionAssumption
    <3>3. ~InsideItem(start'[b])
      BY <2>1
    <3>4. QED
      BY <3>2, <3>3
  <2>2. CASE start' = [start EXCEPT ![b] = durable] /\ torn' = (torn \/ InsideItem(durable))
    <3>1. start'[b] = durable
      BY <2>2 DEF ProcessOK
    <3>2. ~InsideItem(durable) /\ durable \in 0..durable
      <4>1. ~InsideItem(durable)
        BY <2>2
      <4>2. QED
        BY <1>2, <4>1
    <3>3. QED
      BY <3>1, <3>2
  <2>3. QED
    BY <2>1, <2>2 DEF Boot
<1>4. Told' /\ Later
  <2>1. \A d \in 1..durable' : Passed(d)
    BY <1>1 DEF Told
  <2>2. QED
    BY <1>1, <2>1, ToldKept
<1>5. s \in Nat /\ s \in 0..Len(journal) /\ \A e \in 1..s : e \in 1..durable
  BY <1>2
<1>6. \A e \in 1..s : Passed(e)
  BY <1>5 DEF Told
<1>7. /\ worker[b] = Idle /\ next[b] = 1 /\ ~At(b) /\ Reached(b) = 0
      /\ processed[b] = {} /\ cursor[b] = 0 /\ TextAt(b, 0) /\ ActiveAt(b, 0) /\ Remembers(b)
  <2>1. worker[b] = Idle /\ next[b] = 1 /\ ~At(b) /\ Reached(b) = 0
    BY <1>1 DEF Following, Positioned, At, Reached, Idle
  <2>2. processed[b] \subseteq 1..0 /\ cursor[b] <= 0
    BY <2>1 DEF Following, Positioned
  <2>3. 1..0 = {} /\ next[b] - 1 = 0
    BY <2>1
  <2>4. TextAt(b, 0) /\ ActiveAt(b, 0) /\ Remembers(b)
    BY <2>1, <2>3 DEF Following, Resting
  <2>5. QED
    BY <1>2, <2>1, <2>2, <2>3, <2>4
<1>8. /\ \A y \in Items : buffer[b][y] = <<>> /\ observed[b][y] = <<>> /\ begun[b][y] = FALSE
      /\ active[b] = NoItem
  <2>1. /\ \A y \in Items : buffer[b][y] = <<>> /\ observed[b][y] = <<>>
        /\ active[b] = NoItem
    BY <1>7, FreshIs
  <2>2. \A y \in Items : begun[b][y] = FALSE
    BY <1>7, <2>1 DEF Remembers
  <2>3. QED
    BY <2>1, <2>2
<1>9. /\ next'[b] = s + 1 /\ up'[b]
      /\ \A c \in Backends : c # b => SameMemory(c) /\ SameProcess(c)
  <2>1. next'[b] = s + 1 /\ \A c \in Backends : c # b => next'[c] = next[c]
    BY <1>1, <1>3 DEF ProcessOK
  <2>2. up'[b] /\ \A c \in Backends : c # b => up'[c] = up[c]
    BY <1>1 DEF ProcessOK
  <2>3. QED
    BY <1>1, <2>1, <2>2 DEF SameMemory, SameProcess
<1>10. \A y \in Items : St(y, s) = {} /\ Pd(y, s) = {}
  BY <1>3, <1>5, OutsideItems
<1>11. Following(b)'
  BY <1>1, <1>2, <1>4, <1>5, <1>6, <1>7, <1>8, <1>9, <1>10, Begins
<1>12. QED
  BY <1>4, <1>9, <1>11 DEF Onward

\* A process dies with all that it has in memory.
LEMMA CrashFollows ==
  ASSUME CursorInv, Pieces, ProcessOK, Told, NEW b \in Backends, Following(b), Crash(b)
  PROVE  Onward(b)
<1>1. /\ durable' \in {durable, Larger(durable, cursor[b])}
      /\ UNCHANGED <<journal, streaming, messages, receipts, settled>>
  BY DEF Crash, script
<1>2. /\ up' = [up EXCEPT ![b] = FALSE]
      /\ worker' = [worker EXCEPT ![b] = Idle]
      /\ processed' = [processed EXCEPT ![b] = {}]
      /\ next' = [next EXCEPT ![b] = 1]
      /\ cursor' = [cursor EXCEPT ![b] = 0]
  BY DEF Crash
<1>3. /\ buffer' = [buffer EXCEPT ![b] = PerItem(<<>>)]
      /\ begun' = [begun EXCEPT ![b] = PerItem(FALSE)]
      /\ observed' = [observed EXCEPT ![b] = PerItem(<<>>)]
      /\ active' = [active EXCEPT ![b] = NoItem]
      /\ remembered' = [remembered EXCEPT ![b] = {}]
  BY DEF Crash
<1>4. journal \in Scripts /\ Len(journal) \in Nat /\ durable \in 0..Len(journal)
      /\ cursor \in [Backends -> 0..Len(journal)] /\ worker = [c \in Backends |-> worker[c]]
  BY JournalLength DEF CursorInv, Positions, WorkersInv
<1>5. Told' /\ Later
  <2>1. \A d \in 1..durable' : Passed(d)
    <3>1. cursor[b] <= Reached(b) /\ \A d \in 1..Reached(b) : Passed(d)
      BY DEF Following, Positioned
    <3>2. Reached(b) \in Nat
      BY <1>4 DEF Following, Positioned
    <3>3. \A d \in 1..cursor[b] : d \in 1..Reached(b)
      BY <1>4, <3>1, <3>2
    <3>4. \A d \in 1..durable : Passed(d)
      BY DEF Told
    <3>5. durable' = durable \/ durable' = cursor[b]
      BY <1>1 DEF Larger
    <3>6. QED
      BY <3>1, <3>3, <3>4, <3>5
  <2>2. QED
    BY <1>1, <2>1, ToldKept
<1>6. /\ worker'[b] = Idle /\ next'[b] = 1 /\ processed'[b] = {} /\ cursor'[b] = 0 /\ ~up'[b]
      /\ \A c \in Backends : c # b => SameProcess(c)
  BY <1>2, <1>4 DEF ProcessOK, SameProcess
<1>7. /\ \A y \in Items : buffer'[b][y] = <<>> /\ observed'[b][y] = <<>> /\ begun'[b][y] = FALSE
      /\ active'[b] = NoItem
      /\ \A c \in Backends : c # b => SameMemory(c)
  <2>1. /\ buffer \in [Backends -> [Items -> Seq(Nat)]] /\ begun \in [Backends -> [Items -> BOOLEAN]]
        /\ observed \in [Backends -> [Items -> Seq(Nat)]] /\ remembered \in [Backends -> SUBSET Items]
        /\ active \in [Backends -> Items \cup {NoItem}]
    BY DEF Pieces, MemoryOK
  <2>2. QED
    BY <1>3, <2>1 DEF SameMemory, PerItem
<1>8. \A y \in Items : St(y, 0) = {} /\ Pd(y, 0) = {}
  BY NothingYet
<1>9. Following(b)'
  <2>1. 0 \in 0..Len(journal) /\ 1..0 = {} /\ 0 + 1 = 1
    BY <1>4
  <2>2. PICK s : s = 0
    OBVIOUS
  <2>3. s \in 0..Len(journal) /\ (\A e \in 1..s : Passed(e)) /\ next'[b] = s + 1
        /\ (\A y \in Items : St(y, s) = {} /\ Pd(y, s) = {})
    BY <1>6, <1>8, <2>1, <2>2
  <2>4. QED
    BY <1>4, <1>5, <1>6, <1>7, <2>2, <2>3, Begins
<1>10. QED
  BY <1>5, <1>6, <1>7, <1>9 DEF Onward

\* A process saves how far it is.
LEMMA CheckpointFollows ==
  ASSUME CursorInv, Pieces, ProcessOK, Told, NEW b \in Backends, Following(b), Checkpoint(b)
  PROVE  Onward(b)
<1>1. /\ durable' = Larger(durable, cursor[b])
      /\ UNCHANGED <<journal, streaming, messages, receipts, settled>>
      /\ UNCHANGED <<up, next, processed, cursor, worker>>
      /\ UNCHANGED <<buffer, begun, observed, active, remembered>>
  BY DEF Checkpoint, script, text
<1>2. Told' /\ Later
  <2>1. \A d \in 1..durable' : Passed(d)
    <3>1. cursor[b] <= Reached(b) /\ \A d \in 1..Reached(b) : Passed(d)
      BY DEF Following, Positioned
    <3>2. Len(journal) \in Nat /\ cursor \in [Backends -> 0..Len(journal)]
      BY JournalLength DEF CursorInv, Positions
    <3>3. Reached(b) \in Nat
      BY <3>2 DEF Following, Positioned
    <3>4. \A d \in 1..cursor[b] : d \in 1..Reached(b)
      BY <3>1, <3>2, <3>3
    <3>5. \A d \in 1..durable : Passed(d)
      BY DEF Told
    <3>6. durable' = durable \/ durable' = cursor[b]
      BY <1>1 DEF Larger
    <3>7. QED
      BY <3>1, <3>4, <3>5, <3>6
  <2>2. QED
    BY <1>1, <2>1, ToldKept
<1>3. \A c \in Backends : SameMemory(c) /\ SameProcess(c)
  BY <1>1 DEF SameMemory, SameProcess
<1>4. Following(b)'
  BY <1>2, <1>3, FollowingKept
<1>5. QED
  BY <1>2, <1>3, <1>4 DEF Onward

LEMMA ProcessInit == Init => ProcessOK
BY DEF Init, ProcessOK, PerBackend

LEMMA ProcessNext == CursorInv /\ ProcessOK /\ [Next]_vars => ProcessOK'
<1> SUFFICES ASSUME CursorInv, ProcessOK, [Next]_vars PROVE ProcessOK'
  OBVIOUS
<1>1. Len(journal) \in Nat /\ durable \in Nat
  BY JournalLength DEF CursorInv, Positions
<1>2. /\ up \in [Backends -> BOOLEAN] /\ start \in [Backends -> Nat]
      /\ next \in [Backends -> Nat] /\ processed \in [Backends -> SUBSET Nat]
  BY DEF ProcessOK
<1>3. ASSUME UNCHANGED process PROVE ProcessOK'
  BY <1>3 DEF ProcessOK, process
<1>4. ASSUME NEW b \in Backends, Boot(b) PROVE ProcessOK'
  <2>1. /\ up' = [up EXCEPT ![b] = TRUE] /\ next' = [next EXCEPT ![b] = start'[b] + 1]
        /\ processed' = processed
        /\ \/ start' = [start EXCEPT ![b] = IF durable < Overlap THEN 0 ELSE durable - Overlap]
           \/ start' = [start EXCEPT ![b] = durable]
    BY <1>4 DEF Boot
  <2>2. start' \in [Backends -> Nat]
    <3>1. (IF durable < Overlap THEN 0 ELSE durable - Overlap) \in Nat
      BY <1>1, IngestionAssumption
    <3>2. QED
      BY <1>1, <1>2, <2>1, <3>1
  <2>3. start'[b] + 1 \in Nat
    BY <2>2
  <2>4. QED
    BY <1>2, <2>1, <2>2, <2>3 DEF ProcessOK
<1>5. ASSUME NEW b \in Backends, Crash(b) PROVE ProcessOK'
  <2>1. /\ up' = [up EXCEPT ![b] = FALSE]
        /\ processed' = [processed EXCEPT ![b] = {}]
        /\ start' = [start EXCEPT ![b] = 0] /\ next' = [next EXCEPT ![b] = 1]
    BY <1>5 DEF Crash
  <2>2. QED
    BY <1>2, <2>1 DEF ProcessOK
<1>6. ASSUME NEW b \in Backends, Checkpoint(b) PROVE ProcessOK'
  BY <1>2, <1>6 DEF Checkpoint, ProcessOK
<1>7. ASSUME NEW b \in Backends, NEW e \in 1..Len(journal), Take(b, e) PROVE ProcessOK'
  <2>1. /\ next' = [next EXCEPT ![b] = Larger(next[b], e + 1)]
        /\ UNCHANGED <<up, start, processed>>
    BY <1>7 DEF Take
  <2>2. next[b] \in Nat /\ e + 1 \in Nat
    BY <1>1, <1>2
  <2>3. Larger(next[b], e + 1) \in Nat
    BY <2>2 DEF Larger
  <2>4. QED
    BY <1>2, <2>1, <2>3 DEF ProcessOK
<1>8. ASSUME NEW b \in Backends, Step(b) PROVE ProcessOK'
  <2>1. CASE AppendText(b) \/ Flush(b) \/ Settle(b) \/ Load(b) \/ WriteTail(b) \/ Complete(b)
    BY <1>3, <2>1 DEF AppendText, Flush, Settle, Load, WriteTail, Complete
  <2>2. CASE Finish(b)
    <3>1. /\ processed' = [processed EXCEPT ![b] = processed[b] \cup {worker[b].event}]
          /\ UNCHANGED <<up, start, next>>
      BY <2>2 DEF Finish
    <3>2. worker[b].event \in Nat
      BY <1>1 DEF CursorInv, WorkersInv, Positions
    <3>3. QED
      BY <1>2, <3>1, <3>2 DEF ProcessOK
  <2>3. QED
    BY <1>8, <2>1, <2>2 DEF Step
<1>9. ASSUME NEW b \in Backends, Fails(b) PROVE ProcessOK'
  BY <1>3, <1>9 DEF Fails
<1>10. CASE UNCHANGED vars
  BY <1>3, <1>10 DEF vars, process
<1>11. QED
  BY <1>4, <1>5, <1>6, <1>7, <1>8, <1>9, <1>10 DEF Next

\* The inductive invariant.
LEMMA TranscriptInit == Init => Transcript
<1> SUFFICES ASSUME Init PROVE Told /\ \A b \in Backends : Following(b)
  BY DEF Transcript
<1>1. /\ journal \in Scripts /\ messages = PerItem(Absent) /\ receipts = {} /\ settled = FALSE
      /\ durable = 0
  BY DEF Init
<1>2. Len(journal) \in Nat /\ 1..0 = {}
  <2>1. Len(journal) \in Nat
    BY <1>1, Turn
  <2>2. QED
    BY <2>1
<1>3. Told
  <2>1. Legit /\ Prior /\ SettledTold /\ \A e \in 1..durable : Passed(e)
    BY <1>1, <1>2 DEF Legit, Prior, SettledTold
  <2>2. ASSUME NEW m \in Items PROVE messages[m].text = InOrder(Covered(m))
    <3>1. Covered(m) = {}
      BY <1>1 DEF Covered
    <3>2. messages[m].text = <<>>
      BY <1>1 DEF PerItem, Absent
    <3>3. QED
      BY <3>1, <3>2, InOrderEmpty
  <2>3. QED
    BY <2>1, <2>2 DEF Told, TextsTold
<1>4. ASSUME NEW b \in Backends PROVE Following(b)
  <2>1. /\ ~up[b] /\ next[b] = 1 /\ worker[b] = Idle /\ cursor[b] = 0 /\ processed[b] = {}
        /\ active[b] = NoItem
        /\ \A y \in Items : buffer[b][y] = <<>> /\ observed[b][y] = <<>> /\ begun[b][y] = FALSE
    BY DEF Init, PerBackend, PerItem
  <2>2. ~At(b) /\ Reached(b) = 0 /\ next[b] - 1 = 0 /\ worker[b].todo = <<>>
    BY <2>1 DEF At, Reached, Idle
  <2>3. Positioned(b)
    BY <1>2, <2>1, <2>2 DEF Positioned
  <2>4. Remembers(b)
    BY <2>1 DEF Remembers
  <2>5. TextAt(b, 0) /\ ActiveAt(b, 0)
    BY <2>1, NothingYet, InOrderEmpty DEF TextAt, BufferAt, StreamAt, ActiveAt
  <2>6. QED
    BY <2>2, <2>3, <2>4, <2>5 DEF Following, Resting
<1>5. QED
  BY <1>3, <1>4

LEMMA OthersFollow ==
  ASSUME NEW b \in Backends, \A c \in Backends : Following(c), Onward(b)
  PROVE  Told' /\ \A c \in Backends : Following(c)'
<1>1. Told' /\ Later /\ Following(b)' /\ \A c \in Backends : c # b => SameMemory(c) /\ SameProcess(c)
  BY DEF Onward
<1>2. ASSUME NEW c \in Backends, c # b PROVE Following(c)'
  BY <1>1, <1>2, FollowingKept
<1>3. QED
  BY <1>1, <1>2

LEMMA TranscriptNext ==
  CursorInv /\ Pieces /\ ProcessOK /\ Transcript /\ [Next]_vars => Transcript'
<1> SUFFICES ASSUME CursorInv, Pieces, ProcessOK, Transcript, [Next]_vars, ~torn'
             PROVE  Told' /\ \A c \in Backends : Following(c)'
  BY DEF Transcript
<1>1. ASSUME NEW b \in Backends, Following(b) => Onward(b), ~torn
      PROVE  Told' /\ \A c \in Backends : Following(c)'
  BY <1>1, OthersFollow DEF Transcript
<1>2. ASSUME ~torn PROVE Told /\ \A c \in Backends : Following(c)
  BY <1>2 DEF Transcript
<1>3. ASSUME NEW b \in Backends, Boot(b) PROVE Told' /\ \A c \in Backends : Following(c)'
  <2>1. ~torn
    BY <1>3 DEF Boot
  <2>2. QED
    BY <1>1, <1>2, <1>3, <2>1, BootFollows
<1>4. ASSUME NEW b \in Backends, Crash(b) PROVE Told' /\ \A c \in Backends : Following(c)'
  <2>1. ~torn
    BY <1>4 DEF Crash
  <2>2. QED
    BY <1>1, <1>2, <1>4, <2>1, CrashFollows
<1>5. ASSUME NEW b \in Backends, Checkpoint(b)
      PROVE  Told' /\ \A c \in Backends : Following(c)'
  <2>1. ~torn
    BY <1>5 DEF Checkpoint
  <2>2. QED
    BY <1>1, <1>2, <1>5, <2>1, CheckpointFollows
<1>6. ASSUME NEW b \in Backends, NEW e \in 1..Len(journal), Take(b, e)
      PROVE  Told' /\ \A c \in Backends : Following(c)'
  <2>1. ~torn
    BY <1>6 DEF Take
  <2>2. QED
    BY <1>1, <1>2, <1>6, <2>1, TakeFollows
<1>7. ASSUME NEW b \in Backends, Step(b) PROVE Told' /\ \A c \in Backends : Following(c)'
  <2>1. ~torn
    BY <1>7 DEF Step, AppendText, Flush, Settle, Load, WriteTail, Complete, Finish
  <2>2. Following(b) => Onward(b)
    <3> SUFFICES ASSUME Following(b) PROVE Onward(b)
      OBVIOUS
    <3>0. Told
      BY <1>2, <2>1
    <3>1. CASE AppendText(b)
      BY <3>0, <3>1, AppendTextFollows
    <3>2. CASE Flush(b)
      BY <3>0, <3>2, FlushFollows
    <3>3. CASE Settle(b)
      BY <3>0, <3>3, SettleFollows
    <3>4. CASE Load(b)
      BY <3>0, <3>4, LoadFollows
    <3>5. CASE WriteTail(b)
      BY <3>0, <3>5, WriteTailFollows
    <3>6. CASE Complete(b)
      BY <3>0, <3>6, CompleteFollows
    <3>7. CASE Finish(b)
      BY <3>0, <3>7, FinishFollows
    <3>8. QED
      BY <1>7, <3>1, <3>2, <3>3, <3>4, <3>5, <3>6, <3>7 DEF Step
  <2>3. QED
    BY <1>1, <2>1, <2>2
<1>8. ASSUME NEW b \in Backends, Fails(b) PROVE FALSE
  BY <1>8 DEF Fails
<1>9. CASE UNCHANGED vars
  <2>1. /\ UNCHANGED <<journal, streaming, messages, receipts, settled, durable, torn>>
        /\ UNCHANGED <<up, next, processed, cursor, worker>>
        /\ UNCHANGED <<buffer, begun, observed, active, remembered>>
    BY <1>9 DEF vars, script, store, process, text
  <2>2. Told /\ \A c \in Backends : Following(c)
    BY <1>2, <2>1
  <2>3. \A d \in 1..durable' : Passed(d)
    BY <2>1, <2>2 DEF Told
  <2>4. Told' /\ Later
    BY <2>1, <2>2, <2>3, ToldKept
  <2>5. ASSUME NEW c \in Backends PROVE Following(c)'
    <3>1. SameMemory(c) /\ SameProcess(c) /\ Following(c)
      BY <2>1, <2>2 DEF SameMemory, SameProcess
    <3>2. QED
      BY <2>4, <3>1, FollowingKept
  <2>6. QED
    BY <2>4, <2>5
<1>10. QED
  BY <1>3, <1>4, <1>5, <1>6, <1>7, <1>8, <1>9 DEF Next

LEMMA TranscriptInvariance == Spec => [](CursorInv /\ Pieces /\ ProcessOK /\ Transcript)
<1>1. Init => ProcessOK /\ Transcript
  BY ProcessInit, TranscriptInit
<1>2. CursorInv /\ Pieces /\ ProcessOK /\ Transcript /\ [Next]_vars => ProcessOK' /\ Transcript'
  BY ProcessNext, TranscriptNext
<1>3. QED
  BY <1>1, <1>2, PiecesInvariance, PTL DEF Spec

-----------------------------------------------------------------------------
(* What the transcript shows *)

\* What is covered of an item begins all that it says.
LEMMA TranscriptBegins ==
  ASSUME CursorInv, Transcript PROVE TranscriptIsPrefix
<1> SUFFICES ASSUME ~torn, NEW m \in Items
             PROVE  IsPrefix(messages[m].text, Said(m, Len(journal)))
  BY DEF TranscriptIsPrefix
<1>1. journal \in Scripts /\ Len(journal) \in Nat
  BY JournalLength DEF CursorInv
<1>2. messages[m].text = InOrder(Covered(m))
  BY DEF Transcript, Told, TextsTold
<1>3. Said(m, Len(journal)) = InOrder(All(m))
  BY <1>1, CarriedIs DEF All
<1>4. /\ All(m) \subseteq Nat /\ IsFiniteSet(All(m)) /\ Covered(m) \in SUBSET All(m)
      /\ \A x \in Covered(m), y \in All(m) : y < x => y \in Covered(m)
  BY <1>1, CoveredIs
<1>5. IsPrefix(InOrder(Covered(m)), InOrder(All(m)))
  BY <1>4, Beginning
<1>6. QED
  BY <1>2, <1>3, <1>5

\* After the end of a completed turn everything is covered.
LEMMA RestIsWhole ==
  ASSUME CursorInv, ProcessOK, Transcript PROVE WholeAtRest
<1> SUFFICES ASSUME NEW b \in Backends, ~torn, TurnCompleted, AtRest(b), NEW m \in Items
             PROVE  messages[m].text = Said(m, Len(journal)) /\ ~messages[m].streaming
  BY DEF WholeAtRest
<1> DEFINE n == Len(journal)
<1>1. journal \in Scripts /\ n \in Nat /\ n >= 1 /\ n \in 1..n /\ journal[n].type = "completed"
  <2>1. journal \in Scripts
    BY DEF CursorInv
  <2>2. n \in Nat /\ n >= 1
    BY <2>1, Turn
  <2>3. QED
    BY <2>1, <2>2 DEF TurnCompleted
<1>2. Told /\ Following(b)
  BY DEF Transcript
<1>3. Reached(b) = next[b] - 1 /\ next[b] > n
  BY DEF AtRest, Reached, At, Idle
<1>4. Reached(b) = n
  <2>1. next[b] \in Nat /\ Reached(b) \in 0..n
    BY <1>2 DEF Following, Positioned
  <2>2. QED
    BY <1>1, <1>3, <2>1
<1>5. \A e \in 1..n : Passed(e)
  BY <1>2, <1>4 DEF Following, Positioned
<1>6. settled
  BY <1>1, <1>5 DEF Passed
<1>7. ~messages[m].streaming
  BY <1>2, <1>6 DEF Told, SettledTold
<1>8. Pd(m, n) = {}
  BY <1>1, EndEvent
<1>9. Carried(m, n) \ Pd(m, n) \subseteq Covered(m)
  <2>1. n \in 0..n /\ (n >= 1 => journal[n].type # "aborted") /\ \A d \in 1..n : Receipted(d)
    BY <1>1, <1>5 DEF Passed
  <2> HIDE DEF n
  <2>2. n = Len(journal)
    BY DEF n
  <2>3. QED
    BY <1>1, <2>1, <2>2, DeliveredIsCovered
<1>10. Covered(m) = All(m)
  BY <1>1, <1>8, <1>9, CoveredIs DEF All
<1>11. messages[m].text = InOrder(All(m))
  BY <1>2, <1>10 DEF Told, TextsTold
<1>12. Said(m, n) = InOrder(All(m))
  BY <1>1, CarriedIs DEF All
<1>13. QED
  BY <1>7, <1>11, <1>12

\* What was coalesced before the event at hand is still in memory, or has been sent.
LEMMA HeldOrSent ==
  ASSUME journal \in Scripts, NEW b \in Backends, Following(b), At(b),
         NEW E, E = worker[b].event, journal[E].type # "aborted",
         NEW m \in Items, NEW e \in Pd(m, E - 1)
  PROVE  \/ buffer[b][m] = InOrder(Pd(m, E - 1))
         \/ buffer[b][m] = InOrder(Pd(m, E)) /\ e \in Pd(m, E)
         \/ \E op \in Ops : <<E, op, m>> \in receipts
<1>1. InEvent(b) /\ E \in 1..Len(journal)
  BY DEF Following, Positioned
<1>2. E \in Nat /\ E >= 1 /\ E - 1 \in Nat
  BY <1>1, EventNumbers
<1>3. Pd(m, E - 1) # {} /\ St(m, E - 1) # {}
  BY <1>2, StreamsAre
<1>4. TextAt(b, E - 1) => buffer[b][m] = InOrder(Pd(m, E - 1))
  BY DEF TextAt, BufferAt
<1>5. ASSUME Needed(E, "tail", m) PROVE TailSent(E, m) => \E op \in Ops : <<E, op, m>> \in receipts
  BY <1>5 DEF TailSent, Ops
<1>6. ASSUME NEW op \in Ops, Needed(E, op, m), Receipted(E)
      PROVE  \E o \in Ops : <<E, o, m>> \in receipts
  BY <1>6 DEF Receipted
<1>7. CASE journal[E].type = "delta"
  <2>1. PICK x : x = journal[E].item
    OBVIOUS
  <2>2. InDelta(b)
    BY <1>1, <1>7 DEF InEvent
  <2>3. m # x => Needed(E, "tail", m)
    BY <1>3, <1>7, <2>1 DEF Needed, Closes
  <2>4. CASE worker[b].todo = <<>> /\ TextAt(b, E) /\ Receipted(E)
    <3>1. CASE m # x
      BY <1>6, <2>3, <2>4, <3>1 DEF Ops
    <3>2. CASE m = x /\ E \in Schedule(journal, streaming)
      <4>1. Needed(E, "append", m)
        BY <2>1, <3>2 DEF Needed
      <4>2. QED
        BY <1>6, <2>4, <4>1 DEF Ops
    <3>3. CASE m = x /\ E \notin Schedule(journal, streaming)
      <4>1. ~Closes(journal, E, m) /\ IsDelta(journal, E, m)
        BY <1>7, <2>1, <3>3 DEF Closes, IsDelta
      <4>2. e \in Pd(m, E)
        BY <1>2, <3>3, <4>1, PendingStep DEF Pd
      <4>3. QED
        BY <2>4, <4>2 DEF TextAt, BufferAt
    <3>4. QED
      BY <3>1, <3>2, <3>3
  <2>5. CASE /\ BufferAt(b, x, E - 1)
             /\ \A y \in Items : y # x => TailSent(E, y)
    <3>1. CASE m = x
      BY <2>5, <3>1 DEF BufferAt
    <3>2. CASE m # x
      BY <1>5, <2>3, <2>5, <3>2
    <3>3. QED
      BY <3>1, <3>2
  <2>6. CASE active[b] # x /\ St(active[b], E - 1) # {} /\ TailSent(E, active[b])
    <3>1. m = active[b]
      BY <1>2, <1>3, <2>6, OneOpen
    <3>2. QED
      BY <1>5, <2>3, <2>6, <3>1
  <2>7. CASE TextAt(b, E - 1)
    BY <1>4, <2>7
  <2>8. QED
    BY <2>1, <2>2, <2>4, <2>5, <2>6, <2>7 DEF InDelta
<1>8. CASE journal[E].type = "item"
  <2>1. PICK x : x = journal[E].item
    OBVIOUS
  <2>2. InItem(b)
    BY <1>1, <1>8 DEF InEvent
  <2>3. m = x => Needed(E, "tail", m)
    BY <1>3, <1>8, <2>1 DEF Needed, Closes
  <2>4. m # x => e \in Pd(m, E)
    <3>1. ASSUME m # x PROVE e \in Pd(m, E)
      <4>1. ~Closes(journal, E, m) /\ ~IsDelta(journal, E, m)
        BY <1>8, <2>1, <3>1 DEF Closes, IsDelta
      <4>2. E \notin Schedule(journal, streaming)
        BY <1>1, <1>8, ScheduleIs
      <4>3. QED
        BY <1>2, <4>1, <4>2, PendingStep DEF Pd
    <3>2. QED
      BY <3>1
  <2>5. CASE TextAt(b, E) /\ Receipted(E)
    <3>1. CASE m = x
      BY <1>6, <2>3, <2>5, <3>1 DEF Ops
    <3>2. CASE m # x
      BY <2>4, <2>5, <3>2 DEF TextAt, BufferAt
    <3>3. QED
      BY <3>1, <3>2
  <2>6. CASE TailSent(E, x) /\ \A y \in Items : BufferAt(b, y, E)
    <3>1. CASE m = x
      BY <1>5, <2>3, <2>6, <3>1
    <3>2. CASE m # x
      BY <2>4, <2>6, <3>2 DEF BufferAt
    <3>3. QED
      BY <3>1, <3>2
  <2>7. CASE TextAt(b, E - 1)
    BY <1>4, <2>7
  <2>8. QED
    BY <2>1, <2>2, <2>5, <2>6, <2>7 DEF InItem
<1>9. CASE journal[E].type = "completed"
  <2>1. InCompleted(b)
    BY <1>1, <1>9 DEF InEvent
  <2>2. Needed(E, "flush", m)
    BY <1>3, <1>9 DEF Needed
  <2>3. \/ BufferAt(b, m, E - 1)
        \/ Needed(E, "flush", m) => <<E, "flush", m>> \in receipts
    BY <2>1 DEF InCompleted
  <2>4. QED
    BY <2>2, <2>3 DEF BufferAt, Ops
<1>10. journal[E].type \in {"delta", "item", "completed", "aborted"}
  BY <1>1, Turn
<1>11. QED
  BY <1>7, <1>8, <1>9, <1>10

\* What a list has of a number.
LEMMA Occurs ==
  ASSUME NEW S, S \subseteq Nat, IsFiniteSet(S), NEW e \in S
  PROVE  \E r \in DOMAIN InOrder(S) : InOrder(S)[r] = e
<1>1. PICK r \in 1..Cardinality(S) : InOrder(S)[r] = e
  BY InOrderIs
<1>2. DOMAIN InOrder(S) = 1..Cardinality(S)
  BY InOrderIs
<1>3. QED
  BY <1>1, <1>2

LEMMA InJoined ==
  ASSUME NEW s \in Seq(Nat), NEW t \in Seq(Nat)
  PROVE  /\ \A r \in DOMAIN s : r \in DOMAIN (s \o t) /\ (s \o t)[r] = s[r]
         /\ \A r \in DOMAIN t : /\ Len(s) + r \in DOMAIN (s \o t)
                               /\ (s \o t)[Len(s) + r] = t[r]
<1>1. /\ DOMAIN s = 1..Len(s) /\ DOMAIN t = 1..Len(t)
      /\ \A i \in 1..Len(s) : i \in 1..Len(s \o t) /\ (s \o t)[i] = s[i]
      /\ \A i \in 1..Len(t) : Len(s) + i \in 1..Len(s \o t) /\ (s \o t)[Len(s) + i] = t[i]
  BY Joined
<1>2. DOMAIN (s \o t) = 1..Len(s \o t)
  <2>1. s \o t \in Seq(Nat)
    BY Joined
  <2>2. QED
    BY <2>1
<1>3. QED
  BY <1>1, <1>2

\* What a process was given is covered, or still coalesced.
LEMMA CursorFollows ==
  ASSUME CursorInv, Pieces, ProcessOK, Transcript PROVE CursorIsProgress
<1> SUFFICES ASSUME ~torn, journal[Len(journal)].type # "aborted", NEW b \in Backends,
                    NEW e \in (start[b] + 1)..cursor[b], journal[e].type = "delta"
             PROVE  \E i \in DOMAIN (messages[journal[e].item].text \o buffer[b][journal[e].item]) :
                      (messages[journal[e].item].text \o buffer[b][journal[e].item])[i] = e
  BY DEF CursorIsProgress
<1>0. PICK m, s, t : m = journal[e].item /\ s = messages[m].text /\ t = buffer[b][m]
  OBVIOUS
<1> SUFFICES \E i \in DOMAIN (s \o t) : (s \o t)[i] = e
  BY <1>0
<1> DEFINE n == Len(journal)
<1>1. journal \in Scripts /\ n \in Nat /\ n >= 1
  BY Turn DEF CursorInv
<1>2. Told /\ Following(b)
  BY DEF Transcript
<1>3. PICK k \in 0..n : k = Reached(b) /\ cursor[b] <= k /\ \A d \in 1..k : Passed(d)
  BY <1>2 DEF Following, Positioned
<1>4. e \in 1..k /\ e \in 1..n /\ k \in Nat
  <2>1. cursor[b] \in Nat /\ start[b] \in Nat
    <3>1. cursor[b] \in 0..n
      BY DEF CursorInv, Positions
    <3>2. QED
      BY <1>1, <3>1 DEF ProcessOK
  <2>2. QED
    BY <1>1, <1>3, <2>1
<1>5. \A d \in 1..n : journal[d].type # "aborted"
  BY Turn, <1>1
<1>6. m \in Items
  BY <1>0, <1>1, <1>4, Turn
<1>7. e \in Carried(m, k) /\ e \in All(m)
  BY <1>0, <1>4 DEF All, Carried, Carries
<1>8. s = InOrder(Covered(m)) /\ s \in Seq(Nat) /\ t \in Seq(Nat)
  <2>1. messages[m].text = InOrder(Covered(m))
    BY <1>2, <1>6 DEF Told, TextsTold
  <2>2. messages[m] \in MessageOf(Nat)
    BY <1>6 DEF Pieces, MessagesOK
  <2>3. messages[m].text \in Seq(Nat)
    BY <2>2 DEF MessageOf
  <2>4. buffer[b][m] \in Seq(Nat)
    BY <1>6 DEF Pieces, MemoryOK
  <2>5. QED
    BY <1>0, <2>1, <2>3, <2>4
<1>9. Covered(m) \subseteq Nat /\ IsFiniteSet(Covered(m))
  BY <1>1, CoveredIs
<1>12. /\ \A r \in DOMAIN s : r \in DOMAIN (s \o t) /\ (s \o t)[r] = s[r]
       /\ \A r \in DOMAIN t : Len(s) + r \in DOMAIN (s \o t) /\ (s \o t)[Len(s) + r] = t[r]
  BY <1>8, InJoined
<1>10. CASE e \in Covered(m)
  <2>1. \E r \in DOMAIN s : s[r] = e
    BY <1>8, <1>9, <1>10, Occurs
  <2>2. QED
    BY <1>12, <2>1
<1>11. CASE e \notin Covered(m)
  <2>1. e \in Pd(m, k)
    <3>1. (k >= 1 => journal[k].type # "aborted") /\ \A d \in 1..k : Receipted(d)
      BY <1>3, <1>4, <1>5 DEF Passed
    <3>2. Carried(m, k) \ Pd(m, k) \subseteq Covered(m)
      BY <1>1, <1>6, <3>1, DeliveredIsCovered
    <3>3. QED
      BY <1>7, <1>11, <3>2
  <2>2. ASSUME NEW j \in Nat, e \in Pd(m, j), buffer[b][m] = InOrder(Pd(m, j))
        PROVE  \E i \in DOMAIN (s \o t) : (s \o t)[i] = e
    <3>1. Pd(m, j) \subseteq Nat /\ IsFiniteSet(Pd(m, j))
      BY StreamsAre
    <3>2. \E r \in DOMAIN t : t[r] = e
      BY <1>0, <2>2, <3>1, Occurs
    <3>3. QED
      BY <1>12, <3>2
  <2>3. CASE ~At(b)
    <3>1. k = next[b] - 1 /\ TextAt(b, next[b] - 1)
      BY <1>2, <1>3, <2>3 DEF Following, Resting, Reached
    <3>2. buffer[b][m] = InOrder(Pd(m, k))
      BY <1>6, <3>1 DEF TextAt, BufferAt
    <3>3. QED
      BY <1>4, <2>1, <2>2, <3>2
  <2>4. CASE At(b)
    <3>1. PICK E : E = worker[b].event
      OBVIOUS
    <3>2. E \in 1..n /\ k = E - 1
      BY <1>2, <1>3, <2>4, <3>1 DEF Following, Positioned, Reached
    <3>3. e < E /\ E \in Nat
      BY <1>1, <1>4, <3>2
    <3>4. \A op \in Ops : <<E, op, m>> \notin receipts
      <4>1. ASSUME NEW op \in Ops, <<E, op, m>> \in receipts PROVE e \in Covered(m)
        BY <1>7, <3>2, <3>3, <4>1 DEF Covered
      <4>2. QED
        BY <1>11, <4>1
    <3>5. \/ buffer[b][m] = InOrder(Pd(m, E - 1))
          \/ buffer[b][m] = InOrder(Pd(m, E)) /\ e \in Pd(m, E)
      <4>1. journal[E].type # "aborted" /\ e \in Pd(m, E - 1)
        BY <1>5, <2>1, <3>2
      <4>2. QED
        BY <1>1, <1>2, <1>6, <2>4, <3>1, <3>4, <4>1, HeldOrSent
    <3>6. QED
      BY <1>4, <2>1, <2>2, <3>2, <3>3, <3>5
  <2>5. QED
    BY <2>3, <2>4
<1>13. QED
  BY <1>10, <1>11

\* Through crashes and restarts of any number of backends, replays of the overlap and
\* coalesced pieces sent in larger ones, a message shows a beginning of what the provider
\* has said: the ids of ProviderRuntimeIngestion's commands depend on the event alone, and
\* every process sends the same text with the same event.
THEOREM TranscriptIsABeginning == Spec => []TranscriptIsPrefix
BY TranscriptInvariance, TranscriptBegins, PTL

\* A backend that has taken a completed turn to its end leaves all of its text in the
\* transcript and no message streaming: the item events, the segment that another item's text
\* closes and the end of the turn write out what is coalesced (flushBufferedAssistantText,
\* finalizeAssistantMessage).
THEOREM TheWholeTurnIsShown == Spec => []WholeAtRest
BY TranscriptInvariance, RestIsWhole, PTL

\* The cursor that a process records for an event it has processed never outruns the text:
\* each piece of the turn up to it is in the transcript, or still in the coalescer of that
\* process.
THEOREM ProgressIsText == Spec => []CursorIsProgress
BY TranscriptInvariance, CursorFollows, PTL

=============================================================================
