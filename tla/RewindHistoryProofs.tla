---------------------------- MODULE RewindHistoryProofs ----------------------------
(***************************************************************************)
(* The transcript of a conversation and the provider's history, for every  *)
(* set of rewinds and every bound.  The events of the provider arrive in   *)
(* order but late, are fenced twice and are replayed after a crash; still  *)
(* the transcript holds no turn the provider has forgotten, and nothing    *)
(* said in a removed turn comes back.  An original of the files is kept    *)
(* while they differ, and the rewind implements the guarded history.       *)
(***************************************************************************)
EXTENDS ConversationRewindProofs, SequenceTheorems, FiniteSetTheorems, FunctionTheorems

-----------------------------------------------------------------------------
(* Histories *)

Increasing(s) == \A i, j \in 1..Len(s) : i < j => s[i] < s[j]
Occurs(n, s) == \E i \in 1..Len(s) : s[i] = n
Within(s, t) == \A i \in 1..Len(s) : Occurs(s[i], t)

LEMMA OccursRange ==
  \A s \in Seq(Nat) : \A n : n \in Range(s) <=> Occurs(n, s)
BY LenProperties DEF Range, Occurs

\* What the first turns of a history are.
LEMMA PrefixOf ==
  ASSUME NEW s \in Seq(Nat), NEW n \in Nat, n <= Len(s)
  PROVE  /\ Prefix(s, n) \in Seq(Nat) /\ Len(Prefix(s, n)) = n
         /\ \A i \in 1..n : Prefix(s, n)[i] = s[i]
         /\ Increasing(s) => Increasing(Prefix(s, n))
         /\ Within(Prefix(s, n), s)
<1>1. \A i \in 1..n : s[i] \in Nat
  BY ElementOfSeq, LenProperties
<1>2. /\ SubSeq(s, 1, n) \in Seq(Nat)
      /\ Len(SubSeq(s, 1, n)) = IF 1 <= n THEN n - 1 + 1 ELSE 0
      /\ \A i \in 1..n-1+1 : SubSeq(s, 1, n)[i] = s[1 + i - 1]
  BY <1>1, SubSeqProperties, LenProperties
<1>3. /\ Prefix(s, n) \in Seq(Nat) /\ Len(Prefix(s, n)) = n
      /\ \A i \in 1..n : Prefix(s, n)[i] = s[i]
  BY <1>2 DEF Prefix
<1>4. Len(s) \in Nat /\ \A i \in 1..n : i \in 1..Len(s)
  BY LenProperties
<1>5. Increasing(s) => Increasing(Prefix(s, n))
  <2> SUFFICES ASSUME Increasing(s), NEW i \in 1..Len(Prefix(s, n)), NEW j \in 1..Len(Prefix(s, n)),
                      i < j
               PROVE  Prefix(s, n)[i] < Prefix(s, n)[j]
    BY DEF Increasing
  <2>1. i \in 1..n /\ j \in 1..n
    BY <1>3
  <2>2. s[i] < s[j]
    BY <1>4, <2>1 DEF Increasing
  <2>3. QED
    BY <1>3, <2>1, <2>2
<1>6. Within(Prefix(s, n), s)
  BY <1>3, <1>4 DEF Within, Occurs
<1>7. QED
  BY <1>3, <1>5, <1>6

\* Numbers that grow need room.
LEMMA GrowingFits ==
  ASSUME NEW p \in Nat, NEW q \in Nat, NEW r \in Nat, NEW s \in Nat, p <= q,
         NEW f \in [p..q -> r..s], \A i, j \in p..q : i < j => f[i] < f[j]
  PROVE  q - p <= s - r
<1>1. \A i, j \in p..q : f[i] = f[j] => i = j
  <2> SUFFICES ASSUME NEW i \in p..q, NEW j \in p..q, f[i] = f[j], i # j PROVE FALSE
    OBVIOUS
  <2>1. f[i] \in r..s /\ f[j] \in r..s
    OBVIOUS
  <2>2. i < j \/ j < i
    OBVIOUS
  <2>3. QED
    BY <2>1, <2>2
<1>2. f \in Injection(p..q, r..s)
  BY <1>1, Fun_IsInj
<1>3. IsFiniteSet(r..s) /\ Cardinality(r..s) = IF r > s THEN 0 ELSE s - r + 1
  BY FS_Interval
<1>4. Cardinality(p..q) = IF p > q THEN 0 ELSE q - p + 1
  BY FS_Interval
<1>5. Cardinality(p..q) <= Cardinality(r..s)
  BY <1>2, <1>3, FS_Injection
<1>6. f[p] \in r..s
  OBVIOUS
<1>7. QED
  BY <1>3, <1>4, <1>5, <1>6

\* A transcript that has as many turns as the provider's history, and none that is not in
\* it, is that history.
LEMMA SameHistory ==
  ASSUME NEW s \in Seq(Nat), NEW t \in Seq(Nat), Increasing(s), Increasing(t),
         Within(s, t), Len(t) <= Len(s)
  PROVE  s = t
<1> DEFINE m == Len(s)
           n == Len(t)
           f == [i \in 1..m |-> CHOOSE j \in 1..n : t[j] = s[i]]
<1>1. m \in Nat /\ n \in Nat /\ n <= m
  BY LenProperties
<1>2. \A i \in 1..m : f[i] \in 1..n /\ t[f[i]] = s[i]
  BY DEF Within, Occurs
<1>3. \A i \in 1..m : s[i] \in Nat
  BY ElementOfSeq
<1>4. \A i \in 1..n : t[i] \in Nat
  BY ElementOfSeq
<1>5. \A i, j \in 1..m : i < j => f[i] < f[j]
  <2> SUFFICES ASSUME NEW i \in 1..m, NEW j \in 1..m, i < j, ~(f[i] < f[j]) PROVE FALSE
    OBVIOUS
  <2> HIDE DEF f
  <2>1. s[i] < s[j]
    BY DEF Increasing
  <2>2. f[i] \in 1..n /\ f[j] \in 1..n /\ t[f[i]] < t[f[j]]
    BY <1>2, <2>1
  <2>3. f[j] < f[i] \/ f[j] = f[i]
    BY <1>1, <2>2
  <2>4. t[f[j]] < t[f[i]] \/ t[f[j]] = t[f[i]]
    BY <2>2, <2>3 DEF Increasing
  <2>5. t[f[i]] \in Nat /\ t[f[j]] \in Nat
    BY <1>4, <2>2
  <2>6. \A x, y \in Nat : ~(x < y /\ (y < x \/ y = x))
    OBVIOUS
  <2>7. QED
    BY <2>2, <2>4, <2>5, <2>6, Zenon
<1>6. f \in [1..m -> 1..n]
  BY <1>2
<1> HIDE DEF f, m, n
<1>7. ASSUME NEW i \in 1..m PROVE f[i] = i /\ m = n
  <2>1. f[i] \in 1..n /\ f[i] \in Nat /\ i \in Nat /\ 1 <= i /\ i <= m
    BY <1>1, <1>6
  <2>2. m - i <= n - f[i]
    <3> DEFINE g == [k \in i..m |-> f[k]]
    <3>1. ASSUME NEW k \in i..m PROVE k \in 1..m /\ f[k] \in f[i]..n
      <4>1. k \in 1..m
        BY <1>1, <2>1
      <4>2. f[k] \in 1..n
        BY <1>6, <4>1
      <4>3. k = i \/ f[i] < f[k]
        BY <1>5, <2>1, <4>1
      <4>4. QED
        BY <1>1, <2>1, <4>1, <4>2, <4>3
    <3>2. g \in [i..m -> f[i]..n] /\ \A k, l \in i..m : k < l => g[k] < g[l]
      BY <1>5, <3>1
    <3> HIDE DEF g
    <3>3. QED
      BY <1>1, <2>1, <3>2, GrowingFits
  <2>3. i - 1 <= f[i] - 1
    <3> DEFINE g == [k \in 1..i |-> f[k]]
    <3>1. ASSUME NEW k \in 1..i PROVE k \in 1..m /\ f[k] \in 1..f[i]
      <4>1. k \in 1..m
        BY <1>1, <2>1
      <4>2. f[k] \in 1..n
        BY <1>6, <4>1
      <4>3. k = i \/ f[k] < f[i]
        BY <1>5, <2>1, <4>1
      <4>4. QED
        BY <1>1, <2>1, <4>1, <4>2, <4>3
    <3>2. g \in [1..i -> 1..f[i]] /\ \A k, l \in 1..i : k < l => g[k] < g[l]
      BY <1>5, <3>1
    <3> HIDE DEF g
    <3>3. QED
      BY <1>1, <2>1, <3>2, GrowingFits
  <2>4. QED
    BY <1>1, <2>1, <2>2, <2>3
<1> USE DEF m, n
<1>8. m = n
  <2>1. CASE m = 0
    BY <1>1, <2>1
  <2>2. CASE m # 0
    BY <1>1, <1>7, <2>2
  <2>3. QED
    BY <2>1, <2>2
<1>9. \A i \in 1..m : s[i] = t[i]
  BY <1>2, <1>7
<1>10. QED
  BY <1>8, <1>9, SeqEqual

-----------------------------------------------------------------------------
(* The invariant of the transcript *)

Ev == [runtime : Nat, turn : Nat, type : {"done", "late"}]

Shape ==
  /\ turns \in Nat /\ binding.turns \in Seq(Nat) /\ projected \in Seq(Nat)
  /\ journal \in Seq(Ev) /\ emitted \in Seq(Ev)
  /\ received \in Nat /\ handled \in Nat /\ handled <= received /\ received <= Len(journal)
  /\ \A i \in 1..Len(journal) : journal[i].runtime \in 1..runtimes
  /\ \A i \in 1..Len(emitted) : emitted[i].runtime \in 1..runtimes
  /\ ingesting # {} => handled > 0 /\ ingesting = {journal[handled]}

\* Turns that have ended.
EndedIn(n, t, running) == n \in 1..t /\ (running => n # t)
Ended(n) == EndedIn(n, turns, session.running)

Sorted ==
  /\ Increasing(binding.turns) /\ Increasing(projected) /\ (session.running => turns # 0)
  /\ \A i \in 1..Len(binding.turns) : Ended(binding.turns[i])
  /\ \A i \in 1..Len(projected) : Ended(projected[i])

Done(s) == {i \in 1..Len(s) : s[i].type = "done"}

\* The ends of turns arrive in the order of the turns, and none that may still be applied
\* is older than what the transcript has, or gone from the provider's history.
Waiting(e) == e \notin applied /\ (~Closed(e.runtime) \/ e \in ingesting)
Fits(e) ==
  e.type = "done" /\ Waiting(e) =>
    Occurs(e.turn, binding.turns) /\ \A i \in 1..Len(projected) : projected[i] < e.turn

InOrder ==
  /\ \A i, j \in Done(journal) : i < j => journal[i].turn < journal[j].turn
  /\ \A i, j \in Done(emitted) : i < j => emitted[i].turn < emitted[j].turn
  /\ \A i \in Done(journal), j \in Done(emitted) : journal[i].turn < emitted[j].turn
  /\ \A i \in Done(journal) : Ended(journal[i].turn)
  /\ \A i \in Done(emitted) : Ended(emitted[i].turn)

\* What the worker has gone past was applied or is not admitted any more.
Past(i) ==
  \/ journal[i] \in applied \/ Closed(journal[i].runtime)
  \/ i = handled /\ ingesting = {journal[i]}

Pipe ==
  /\ InOrder
  /\ \A i \in 1..handled : Past(i)
  /\ \A i \in 1..Len(journal) : Fits(journal[i])
  /\ \A i \in 1..Len(emitted) : Fits(emitted[i])

\* Nothing is under way once the files are being moved.
Quiescent ==
  /\ \A op \in Ops :
       pc[op] \in {"capturing", "restoring"} \/ Is(op, "commit", "sent") => ingesting = {}
  /\ row.phase = "committed" => ingesting = {}

\* A preparation that may still be granted has counted no turn that is not projected.
Fresh(op) ==
  \/ Is(op, "prepare", "sent") /\ controls = expected[op]
  \/ Is(op, "prepare", "reserved")

Counts ==
  /\ counted \in [Ops -> Nat]
  /\ \A op \in Ops :
       /\ Fresh(op) => TargetOf[op] < counted[op] /\ counted[op] <= Len(projected)
       /\ Is(op, "prepare", "retired") =>
            projected = binding.turns /\ TargetOf[op] < Len(binding.turns)

Follows ==
  /\ row.phase = "prepared" =>
       /\ row.candidate = Prefix(binding.turns, TargetOf[row.op])
       /\ TargetOf[row.op] < Len(binding.turns)
       /\ projected = binding.turns
  /\ row.phase = "committed" =>
       IF row.op \in completed THEN projected = binding.turns
       ELSE binding.turns = Prefix(projected, TargetOf[row.op])
            /\ TargetOf[row.op] < Len(projected)
  /\ row.phase # "committed" => Within(projected, binding.turns)

Base == Protocol /\ Runtimes
Transcript == Shape /\ Sorted /\ Pipe /\ Quiescent /\ Counts /\ Follows

-----------------------------------------------------------------------------
(* Events and histories *)

\* Steps that move no event and no turn.
Still ==
  /\ UNCHANGED <<projected, applied, journal, received, handled, ingesting, emitted, turns,
                 runtimes>>
  /\ binding'.turns = binding.turns /\ (session'.running => session.running)

LEMMA StillKeeps ==
  ASSUME Shape, Sorted, Pipe, ClosedStays, Still PROVE (Shape /\ Sorted /\ Pipe)'
<1>1. Shape' /\ Sorted'
  BY DEF Shape, Sorted, Ended, EndedIn, Still
<1>2. InOrder'
  BY DEF Pipe, InOrder, Ended, EndedIn, Still, Done
<1>3. ASSUME NEW i \in 1..Len(journal) PROVE Fits(journal[i])'
  BY DEF Pipe, Shape, Fits, Waiting, Still, ClosedStays
<1>4. ASSUME NEW i \in 1..Len(emitted) PROVE Fits(emitted[i])'
  BY DEF Pipe, Shape, Fits, Waiting, Still, ClosedStays
<1>5. ASSUME NEW i \in 1..handled PROVE Past(i)'
  <2>1. i \in 1..Len(journal)
    BY LenProperties DEF Shape
  <2>2. QED
    BY <2>1 DEF Pipe, Shape, Past, Still, ClosedStays
<1>6. QED
  BY <1>1, <1>2, <1>3, <1>4, <1>5 DEF Pipe, Still

LEMMA ReactorStill ==
  ASSUME Base, NEW op \in Ops, ReactorStep(op) \/ Request(op), ~Complete(op) PROVE Still
<1>1. UNCHANGED <<row, binding, session>>
  BY AsideStill DEF Base, Aside
<1>2. CASE \/ Prepared(op) \/ Drained(op) \/ DrainTimesOut(op) \/ Capture(op)
           \/ RestoreFails(op) \/ CommitRefusedSeen(op) \/ CompensateFails(op)
           \/ Aborted(op) \/ Committed(op) \/ CompleteFails(op) \/ Finished(op)
           \/ CleanUp(op) \/ CleanUpFails(op)
  BY <1>1, <1>2 DEF Prepared, Drained, DrainTimesOut, Capture, RestoreFails, CommitRefusedSeen,
              CompensateFails, Aborted, Committed, CompleteFails, Finished, CleanUp,
              CleanUpFails, Moves, Still, durable, ingestion, daemon
<1>3. CASE \/ Begin(op) \/ Decline(op) \/ CaptureFails(op) \/ Restore(op) \/ Compensate(op)
           \/ GivesUp(op) \/ LoseAnswer(op) \/ Request(op)
  BY <1>1, <1>3 DEF Begin, Decline, CaptureFails, Restore, Compensate, GivesUp, LoseAnswer,
              Request, Still, durable, ingestion, daemon, bounds
<1>4. QED
  BY <1>2, <1>3 DEF ReactorStep

LEMMA CallsStill ==
  ASSUME Base, NEW op \in Ops, CallStep(op), ~Commit(op) PROVE Still
<1>1. UNCHANGED binding /\ (session'.running => session.running)
  <2>1. CASE Retire(op) \/ PrepareUncertain(op)
    BY <2>1 DEF Retire, PrepareUncertain, NoQuery, durable
  <2>2. CASE \/ PrepareRefused(op) \/ Reserve(op) \/ RefusePreparing(op) \/ MarkPrepared(op)
             \/ CommitRefused(op) \/ CommitFails(op) \/ Finish(op) \/ FinishFails(op)
    BY <2>2 DEF PrepareRefused, Reserve, RefusePreparing, MarkPrepared, CommitRefused,
                CommitFails, Finish, FinishFails, Replies, durable
  <2>3. QED
    BY <2>1, <2>2 DEF CallStep
<1>2. QED
  BY <1>1 DEF CallStep, PrepareRefused, Reserve, RefusePreparing, MarkPrepared, CommitRefused,
              CommitFails, Finish, FinishFails, Retire, PrepareUncertain, Replies, Still,
              durable, ingestion, bounds

\* A history that a turn is added to.
LEMMA Grown ==
  ASSUME NEW s \in Seq(Nat), NEW n \in Nat
  PROVE  LET t == Append(s, n)
         IN /\ t \in Seq(Nat) /\ Len(t) = Len(s) + 1 /\ Len(s) \in Nat
            /\ \A i \in 1..Len(s) : t[i] = s[i]
            /\ t[Len(s) + 1] = n
            /\ \A i \in 1..Len(t) : i \in 1..Len(s) \/ i = Len(s) + 1
            /\ Increasing(s) /\ (\A i \in 1..Len(s) : s[i] < n) => Increasing(t)
<1> DEFINE t == Append(s, n)
<1>1. /\ t \in Seq(Nat) /\ Len(t) = Len(s) + 1 /\ Len(s) \in Nat
      /\ \A i \in 1..Len(s) : t[i] = s[i]
      /\ t[Len(s) + 1] = n
  BY AppendProperties, LenProperties
<1> HIDE DEF t
<1>2. \A i \in 1..Len(t) : i \in 1..Len(s) \/ i = Len(s) + 1
  BY <1>1
<1>3. ASSUME Increasing(s), \A i \in 1..Len(s) : s[i] < n PROVE Increasing(t)
  <2> SUFFICES ASSUME NEW i \in 1..Len(t), NEW j \in 1..Len(t), i < j PROVE t[i] < t[j]
    BY DEF Increasing
  <2>1. i \in 1..Len(s) /\ (j \in 1..Len(s) \/ j = Len(s) + 1)
    BY <1>1, <1>2
  <2>2. QED
    BY <1>1, <1>3, <2>1 DEF Increasing
<1>4. QED
  BY <1>1, <1>2, <1>3 DEF t

\* A turn that starts leaves the history as it is.
LEMMA StartCursor == ASSUME Base, StartTurn PROVE binding'.turns = binding.turns
<1>1. PICK n : n = runtimes'
  OBVIOUS
<1>2. UNCHANGED binding \/ binding' = [binding EXCEPT !.runtime = n]
  BY <1>1 DEF StartTurn
<1>3. QED
  BY <1>2, OwnerExcept DEF Base, Protocol, LockInv

\* A turn starts, under this runtime or a new one.
LEMMA StartKeeps ==
  ASSUME Base, Shape, Sorted, Pipe, ClosedStays, StartTurn PROVE (Shape /\ Sorted /\ Pipe)'
<1>1. /\ UNCHANGED <<projected, applied, journal, received, handled, ingesting, emitted>>
      /\ turns' = turns + 1 /\ runtimes' \in {runtimes, runtimes + 1}
      /\ \/ UNCHANGED binding \/ binding' = [binding EXCEPT !.runtime = runtimes']
  BY DEF StartTurn, ingestion
<1>2. binding'.turns = binding.turns
  BY StartCursor
<1>3. \A n : Ended(n) => Ended(n)'
  BY <1>1 DEF Ended, EndedIn, Shape
<1>4. Shape' /\ Sorted'
  <2>1. Shape'
    BY <1>1, <1>2 DEF Shape, Base, Runtimes
  <2>2. turns' # 0
    BY <1>1 DEF Shape
  <2>3. QED
    BY <1>1, <1>2, <1>3, <2>1, <2>2 DEF Sorted
<1>5. InOrder'
  BY <1>1, <1>3 DEF Pipe, InOrder, Done
<1>6. ASSUME NEW i \in 1..Len(journal) PROVE Fits(journal[i])'
  BY <1>1, <1>2 DEF Pipe, Shape, Fits, Waiting, ClosedStays
<1>7. ASSUME NEW i \in 1..Len(emitted) PROVE Fits(emitted[i])'
  BY <1>1, <1>2 DEF Pipe, Shape, Fits, Waiting, ClosedStays
<1>8. ASSUME NEW i \in 1..handled PROVE Past(i)'
  <2>1. i \in 1..Len(journal)
    BY LenProperties DEF Shape
  <2>2. QED
    BY <1>1, <2>1 DEF Pipe, Shape, Past, ClosedStays
<1>9. QED
  BY <1>1, <1>4, <1>5, <1>6, <1>7, <1>8 DEF Pipe

\* Events that are added to what was emitted or published.
LEMMA Added ==
  ASSUME NEW s \in Seq(Ev), NEW e \in Ev
  PROVE  LET t == Append(s, e)
         IN /\ t \in Seq(Ev) /\ Len(t) = Len(s) + 1 /\ Len(s) \in Nat
            /\ \A i \in 1..Len(s) : t[i] = s[i]
            /\ t[Len(s) + 1] = e
            /\ \A i \in 1..Len(t) : i \in 1..Len(s) \/ i = Len(s) + 1
BY AppendProperties, LenProperties

LEMMA Emits ==
  ASSUME Base, NEW t \in Nat, NEW type \in {"done", "late"}, session # NoQuery
  PROVE  /\ Event(t, type) \in Ev /\ Event(t, type).runtime \in 1..runtimes
         /\ Event(t, type).turn = t /\ Event(t, type).type = type
BY DEF Event, Ev, Base, Runtimes

LEMMA FinishKeeps ==
  ASSUME Base, Shape, Sorted, Pipe, ClosedStays, FinishTurn PROVE (Shape /\ Sorted /\ Pipe)'
<1> DEFINE e == Event(turns, "done")
<1>1. /\ UNCHANGED <<projected, applied, journal, received, handled, ingesting, turns, runtimes, row>>
      /\ emitted' = Append(emitted, e) /\ session # NoQuery /\ session.running
      /\ binding' = [binding EXCEPT !.turns = Append(@, turns)]
  BY DEF FinishTurn, ingestion, bounds
<1>2. e \in Ev /\ e.runtime \in 1..runtimes /\ e.turn = turns /\ e.type = "done"
  BY <1>1, Emits DEF Shape
<1> HIDE DEF e
<1>3. binding'.turns = Append(binding.turns, turns) /\ binding'.runtime = binding.runtime
  BY <1>1, CursorExcept DEF Base, Protocol, LockInv
<1>4. session'.running = FALSE
  BY GrownQuery DEF Base, Protocol, LockInv
<1>5. /\ \A n : Ended(n) => EndedIn(n, turns', session'.running) /\ n < turns
      /\ EndedIn(turns, turns', session'.running)
  BY <1>1, <1>4 DEF Ended, EndedIn, Shape, Sorted
<1>6. \A r : Closed(r)' = Closed(r)
  BY <1>1, <1>3 DEF Closed
<1>7. /\ binding'.turns \in Seq(Nat) /\ Increasing(binding'.turns)
      /\ Occurs(turns, binding'.turns)
      /\ \A n : Occurs(n, binding.turns) => Occurs(n, binding'.turns)
      /\ \A i \in 1..Len(binding'.turns) : EndedIn(binding'.turns[i], turns', session'.running)
  <2> DEFINE a == binding.turns
             b == Append(a, turns)
  <2>0. a \in Seq(Nat) /\ Increasing(a) /\ \A i \in 1..Len(a) : a[i] < turns
    BY <1>5 DEF Shape, Sorted
  <2>1. /\ b \in Seq(Nat) /\ Len(b) = Len(a) + 1 /\ Len(a) \in Nat
        /\ \A i \in 1..Len(a) : b[i] = a[i]
        /\ b[Len(a) + 1] = turns
        /\ \A i \in 1..Len(b) : i \in 1..Len(a) \/ i = Len(a) + 1
        /\ Increasing(b)
    <3> HIDE DEF a
    <3>1. QED
      BY <2>0, Grown DEF Shape
  <2> HIDE DEF b
  <2>2. Occurs(turns, b) /\ \A n : Occurs(n, a) => Occurs(n, b)
    <3> HIDE DEF a
    <3>1. Len(a) + 1 \in 1..Len(b) /\ \A i \in 1..Len(a) : i \in 1..Len(b)
      BY <2>1
    <3>2. QED
      BY <2>1, <3>1 DEF Occurs
  <2>3. \A i \in 1..Len(b) : EndedIn(b[i], turns', session'.running)
    BY <1>5, <2>1 DEF Sorted
  <2>4. binding'.turns = b
    BY <1>3 DEF b
  <2>5. QED
    BY <2>1, <2>2, <2>3, <2>4
<1>8. /\ emitted' \in Seq(Ev) /\ Len(emitted') = Len(emitted) + 1 /\ Len(emitted) \in Nat
      /\ \A i \in 1..Len(emitted) : emitted'[i] = emitted[i]
      /\ emitted'[Len(emitted) + 1] = e
      /\ \A i \in 1..Len(emitted') : i \in 1..Len(emitted) \/ i = Len(emitted) + 1
  BY <1>1, <1>2, Added DEF Shape
<1>9. Shape'
  BY <1>1, <1>2, <1>7, <1>8 DEF Shape
<1>10. Sorted'
  BY <1>1, <1>4, <1>5, <1>7 DEF Sorted, Ended
<1>11. InOrder'
  <2>1. \A i \in Done(emitted)' : i \in Done(emitted) \/ i = Len(emitted) + 1
    BY <1>8 DEF Done
  <2>2. /\ \A i \in Done(emitted) : emitted'[i] = emitted[i] /\ emitted[i].turn < turns
        /\ \A i \in Done(journal) : journal[i].turn < turns
    BY <1>5, <1>8 DEF Done, Pipe, InOrder
  <2>3. Done(journal)' = Done(journal)
    BY <1>1 DEF Done
  <2>4. ASSUME NEW i \in Done(emitted)', NEW j \in Done(emitted)', i < j
        PROVE  emitted'[i].turn < emitted'[j].turn
    <3>1. i \in Done(emitted)
      BY <1>8, <2>1, <2>4 DEF Done
    <3>2. CASE j \in Done(emitted)
      BY <2>2, <2>4, <3>1, <3>2 DEF Pipe, InOrder
    <3>3. CASE j = Len(emitted) + 1
      BY <1>2, <1>8, <2>2, <3>1, <3>3
    <3>4. QED
      BY <2>1, <3>2, <3>3
  <2>5. ASSUME NEW i \in Done(journal), NEW j \in Done(emitted)'
        PROVE  journal[i].turn < emitted'[j].turn
    BY <1>2, <1>8, <2>1, <2>2 DEF Pipe, InOrder
  <2>6. \A i \in Done(emitted)' : Ended(emitted[i].turn)'
    BY <1>2, <1>5, <1>8, <2>1, <2>2 DEF Pipe, InOrder, Ended
  <2>7. \A i \in Done(journal) : Ended(journal[i].turn)'
    BY <1>1, <1>5 DEF Pipe, InOrder, Ended
  <2>8. QED
    BY <1>1, <2>3, <2>4, <2>5, <2>6, <2>7 DEF InOrder, Pipe
<1>12. \A i \in 1..Len(journal) : Fits(journal[i])'
  BY <1>1, <1>6, <1>7 DEF Pipe, Fits, Waiting
<1>13. ASSUME NEW i \in 1..Len(emitted') PROVE Fits(emitted[i])'
  <2>1. CASE i \in 1..Len(emitted)
    <3>1. emitted'[i] = emitted[i] /\ Fits(emitted[i])
      BY <1>8, <2>1 DEF Pipe
    <3>2. QED
      BY <1>1, <1>6, <1>7, <3>1 DEF Fits, Waiting
  <2>2. CASE i = Len(emitted) + 1
    <3>1. emitted'[i].turn = turns
      BY <1>2, <1>8, <2>2
    <3>2. \A k \in 1..Len(projected') : projected'[k] < turns
      BY <1>1, <1>5 DEF Sorted
    <3>3. QED
      BY <1>7, <3>1, <3>2 DEF Fits
  <2>3. QED
    BY <1>8, <2>1, <2>2
<1>14. \A i \in 1..handled : Past(i)'
  BY <1>1, <1>6 DEF Pipe, Past
<1>15. QED
  BY <1>1, <1>9, <1>10, <1>11, <1>12, <1>13, <1>14 DEF Pipe

\* A late event is no end of a turn.
LEMMA EmitKeeps ==
  ASSUME Base, Shape, Sorted, Pipe, ClosedStays, NEW t \in Nat, EmitLate(t)
  PROVE  (Shape /\ Sorted /\ Pipe)'
<1> DEFINE e == Event(t, "late")
<1>1. /\ UNCHANGED <<projected, applied, journal, received, handled, ingesting, turns, runtimes,
                     row, binding, session>>
      /\ emitted' = Append(emitted, e) /\ session # NoQuery
  BY DEF EmitLate, ingestion, durable
<1>2. e \in Ev /\ e.runtime \in 1..runtimes /\ e.type = "late"
  BY <1>1, Emits
<1> HIDE DEF e
<1>3. /\ emitted' \in Seq(Ev) /\ Len(emitted') = Len(emitted) + 1 /\ Len(emitted) \in Nat
      /\ \A i \in 1..Len(emitted) : emitted'[i] = emitted[i]
      /\ emitted'[Len(emitted) + 1] = e
      /\ \A i \in 1..Len(emitted') : i \in 1..Len(emitted) \/ i = Len(emitted) + 1
  BY <1>1, <1>2, Added DEF Shape
<1>4. Shape' /\ Sorted'
  BY <1>1, <1>2, <1>3 DEF Shape, Sorted, Ended
<1>5. Done(emitted') = Done(emitted) /\ \A i \in Done(emitted) : emitted'[i] = emitted[i]
  BY <1>2, <1>3 DEF Done
<1>6. InOrder'
  BY <1>1, <1>5 DEF InOrder, Pipe, Ended, Done
<1>7. ASSUME NEW i \in 1..Len(emitted') PROVE Fits(emitted[i])'
  <2>1. CASE i \in 1..Len(emitted)
    BY <1>1, <1>3, <2>1 DEF Pipe, Fits, Waiting, Closed
  <2>2. CASE i = Len(emitted) + 1
    BY <1>2, <1>3, <2>2 DEF Fits
  <2>3. QED
    BY <1>3, <2>1, <2>2
<1>8. ASSUME NEW i \in 1..Len(journal) PROVE Fits(journal[i])'
  BY <1>1 DEF Pipe, Fits, Waiting, Closed
<1>9. \A i \in 1..handled : Past(i)'
  BY <1>1 DEF Pipe, Past, Closed
<1>10. QED
  BY <1>1, <1>4, <1>6, <1>7, <1>8, <1>9 DEF Pipe

\* The oldest event is published or dropped.
LEMMA PublishKeeps ==
  ASSUME Base, Shape, Sorted, Pipe, Publish PROVE (Shape /\ Sorted /\ Pipe)'
<1> DEFINE e == Head(emitted)
           n == Len(journal)
<1>1. /\ UNCHANGED <<projected, applied, received, handled, ingesting, turns, runtimes,
                     row, binding, session>>
      /\ emitted # <<>> /\ emitted' = Tail(emitted) /\ journal' \in {journal, Append(journal, e)}
  BY DEF Publish, durable, bounds
<1>2. /\ emitted' \in Seq(Ev) /\ Len(emitted) \in Nat /\ Len(emitted) >= 1
      /\ Len(emitted') = Len(emitted) - 1
      /\ \A i \in 1..Len(emitted') : emitted'[i] = emitted[i + 1] /\ i + 1 \in 1..Len(emitted)
      /\ e = emitted[1] /\ e \in Ev /\ n \in Nat
  BY <1>1, HeadTailProperties, EmptySeq, LenProperties DEF Shape
<1> HIDE DEF e
<1>3. /\ journal' \in Seq(Ev) /\ Len(journal') >= n /\ Len(journal') \in Nat
      /\ \A i \in 1..n : journal'[i] = journal[i]
      /\ \A i \in 1..Len(journal') : i \in 1..n \/ (i = n + 1 /\ journal'[i] = e)
  <2>1. CASE journal' = journal
    BY <1>2, <2>1 DEF Shape
  <2>2. CASE journal' = Append(journal, e)
    BY <1>2, <2>2, Added DEF Shape
  <2>3. QED
    BY <1>1, <2>1, <2>2
<1>4. Shape'
  <2>1. \A i \in 1..Len(journal') : journal'[i].runtime \in 1..runtimes
    <3>1. e.runtime \in 1..runtimes
      BY <1>2 DEF Shape
    <3>2. \A i \in 1..n : journal[i].runtime \in 1..runtimes
      BY DEF Shape
    <3>3. QED
      BY <1>3, <3>1, <3>2
  <2>2. \A i \in 1..Len(emitted') : emitted'[i].runtime \in 1..runtimes
    BY <1>2 DEF Shape
  <2>3. ingesting # {} => handled \in 1..n
    BY <1>2 DEF Shape
  <2>4. QED
    BY <1>1, <1>2, <1>3, <2>1, <2>2, <2>3 DEF Shape
<1>5. Sorted'
  BY <1>1 DEF Sorted, Ended
<1>6. /\ \A i \in Done(journal') : i \in Done(journal) \/ (i = n + 1 /\ 1 \in Done(emitted))
      /\ \A i \in Done(journal') : journal'[i] = IF i \in Done(journal) THEN journal[i] ELSE emitted[1]
      /\ \A i \in Done(emitted') : i + 1 \in Done(emitted) /\ emitted'[i] = emitted[i + 1]
  BY <1>2, <1>3 DEF Done
<1>7. InOrder'
  <2>1. ASSUME NEW i \in Done(journal'), NEW j \in Done(journal'), i < j
        PROVE  journal'[i].turn < journal'[j].turn
    <3>1. i \in Done(journal)
      BY <1>2, <1>3, <1>6, <2>1 DEF Done
    <3>2. QED
      BY <1>6, <2>1, <3>1 DEF Pipe, InOrder
  <2>2. ASSUME NEW i \in Done(emitted'), NEW j \in Done(emitted'), i < j
        PROVE  emitted'[i].turn < emitted'[j].turn
    <3>1. i + 1 < j + 1
      BY <2>2 DEF Done
    <3>2. QED
      BY <1>6, <3>1 DEF Pipe, InOrder
  <2>3. ASSUME NEW i \in Done(journal'), NEW j \in Done(emitted')
        PROVE  journal'[i].turn < emitted'[j].turn
    <3>1. 1 < j + 1
      BY DEF Done
    <3>2. QED
      BY <1>6, <3>1 DEF Pipe, InOrder
  <2>4. \A i \in Done(journal') : Ended(journal[i].turn)'
    BY <1>1, <1>6 DEF Pipe, InOrder, Ended
  <2>5. \A i \in Done(emitted') : Ended(emitted[i].turn)'
    BY <1>1, <1>6 DEF Pipe, InOrder, Ended
  <2>6. QED
    BY <2>1, <2>2, <2>3, <2>4, <2>5 DEF InOrder, Done
<1>8. ASSUME NEW i \in 1..Len(journal') PROVE Fits(journal[i])'
  <2>1. journal'[i] = emitted[1] \/ (i \in 1..n /\ journal'[i] = journal[i])
    BY <1>2, <1>3
  <2>2. QED
    BY <1>1, <1>2, <2>1 DEF Pipe, Fits, Waiting, Closed
<1>9. ASSUME NEW i \in 1..Len(emitted') PROVE Fits(emitted[i])'
  BY <1>1, <1>2 DEF Pipe, Fits, Waiting, Closed
<1>10. ASSUME NEW i \in 1..handled PROVE Past(i)'
  <2>1. journal'[i] = journal[i]
    BY <1>2, <1>3 DEF Shape
  <2>2. QED
    BY <1>1, <2>1 DEF Pipe, Past, Closed
<1>11. QED
  BY <1>1, <1>4, <1>5, <1>7, <1>8, <1>9, <1>10 DEF Pipe

\* The worker takes the next event.
LEMMA AdmitKeeps ==
  ASSUME Base, Shape, Sorted, Pipe, Admit PROVE (Shape /\ Sorted /\ Pipe)'
<1> DEFINE e == journal[handled + 1]
<1>1. /\ UNCHANGED <<projected, applied, journal, received, emitted, turns, runtimes, row,
                     binding, session>>
      /\ ingesting = {} /\ handled < received /\ handled' = handled + 1
      /\ ingesting' = IF Admission(e) = "accepted" THEN {e} ELSE {}
  BY DEF Admit, durable, daemon, bounds
<1>2. /\ handled + 1 \in 1..Len(journal) /\ handled \in Nat
      /\ \A i \in 1..handled' : i \in 1..handled \/ i = handled + 1
  BY <1>1, LenProperties DEF Shape
<1>3. Admission(e) = "accepted" <=> ~Closed(e.runtime)
  BY <1>2, AdmissionOpen DEF Shape, Base
<1> HIDE DEF e
<1>4. Shape' /\ Sorted'
  BY <1>1, <1>2 DEF Shape, Sorted, Ended, e
<1>5. InOrder'
  BY <1>1 DEF Pipe, InOrder, Ended, Done
<1>6. ASSUME NEW x, Waiting(x)' PROVE Waiting(x)
  BY <1>1, <1>3, <1>6 DEF Waiting, Closed
<1>7. ASSUME NEW i \in 1..Len(journal) PROVE Fits(journal[i])'
  BY <1>1, <1>6 DEF Pipe, Fits
<1>8. ASSUME NEW i \in 1..Len(emitted) PROVE Fits(emitted[i])'
  BY <1>1, <1>6 DEF Pipe, Fits
<1>9. ASSUME NEW i \in 1..handled' PROVE Past(i)'
  <2>1. CASE i \in 1..handled
    BY <1>1, <2>1 DEF Pipe, Past, Closed
  <2>2. CASE i = handled + 1
    BY <1>1, <1>3, <2>2 DEF Past, Closed, e
  <2>3. QED
    BY <1>2, <2>1, <2>2
<1>10. QED
  BY <1>1, <1>4, <1>5, <1>7, <1>8, <1>9 DEF Pipe

\* The end of a turn that is applied for the first time is of a turn in the provider's
\* history, later than every turn of the transcript.
LEMMA AppliedFits ==
  ASSUME Shape, Pipe, NEW e \in ingesting, e \notin applied, e.type = "done"
  PROVE  /\ e \in Ev /\ Occurs(e.turn, binding.turns) /\ Ended(e.turn)
         /\ \A i \in 1..Len(projected) : projected[i] < e.turn
<1>1. handled \in 1..Len(journal) /\ e = journal[handled]
  BY LenProperties DEF Shape
<1>2. e \in Ev /\ Fits(e) /\ Waiting(e) /\ handled \in Done(journal)
  BY <1>1, ElementOfSeq DEF Shape, Pipe, Waiting, Done
<1>3. QED
  BY <1>1, <1>2 DEF Fits, Pipe, InOrder

\* Its commands are applied.
LEMMA ProjectKeeps ==
  ASSUME Base, Shape, Sorted, Pipe, Project PROVE (Shape /\ Sorted /\ Pipe)'
<1>1. PICK e \in ingesting :
        /\ UNCHANGED <<journal, received, handled, emitted, turns, runtimes, row, binding, session>>
        /\ ingesting' = {} /\ applied' = applied \cup {e}
        /\ projected' = IF e \notin applied /\ e.type = "done" THEN Append(projected, e.turn)
                        ELSE projected
  BY DEF Project, daemon, bounds
<1>2. /\ handled \in 1..Len(journal) /\ e = journal[handled] /\ ingesting = {e}
      /\ e \in Ev
  BY <1>1, LenProperties, ElementOfSeq DEF Shape
<1>3. \A x : Waiting(x)' => Waiting(x) /\ x # e /\ ~Closed(x.runtime)
  BY <1>1 DEF Waiting, Closed
<1>4. Sorted' /\ projected' \in Seq(Nat)
  <2>1. CASE e \notin applied /\ e.type = "done"
    <3>1. /\ e.turn \in Nat /\ Ended(e.turn) /\ \A i \in 1..Len(projected) : projected[i] < e.turn
      BY <1>2, <2>1, AppliedFits DEF Ev
    <3> DEFINE n == e.turn
               p == Append(projected, n)
    <3> HIDE DEF n
    <3>2. /\ p \in Seq(Nat) /\ Increasing(p)
          /\ \A i \in 1..Len(p) : p[i] = n \/ (i \in 1..Len(projected) /\ p[i] = projected[i])
      BY <3>1, Grown DEF Shape, Sorted, n
    <3> HIDE DEF p
    <3>3. projected' = p
      BY <1>1, <2>1 DEF p, n
    <3>4. \A i \in 1..Len(p) : Ended(p[i])
      BY <3>1, <3>2 DEF Sorted, n
    <3>5. QED
      BY <1>1, <3>2, <3>3, <3>4 DEF Sorted, Ended
  <2>2. CASE ~(e \notin applied /\ e.type = "done")
    BY <1>1, <2>2 DEF Sorted, Ended, Shape
  <2>3. QED
    BY <2>1, <2>2
<1>5. Shape'
  BY <1>1, <1>4 DEF Shape
<1>6. InOrder'
  BY <1>1 DEF Pipe, InOrder, Ended, Done
<1>7. ASSUME NEW x, Fits(x), x.type = "done", Waiting(x)',
             e \notin applied /\ e.type = "done" => e.turn < x.turn
      PROVE  Occurs(x.turn, binding.turns) /\ \A i \in 1..Len(projected') : projected'[i] < x.turn
  <2>1. Occurs(x.turn, binding.turns) /\ \A i \in 1..Len(projected) : projected[i] < x.turn
    BY <1>3, <1>7 DEF Fits
  <2>2. CASE e \notin applied /\ e.type = "done"
    <3> DEFINE n == e.turn
               p == Append(projected, n)
    <3>0. n \in Nat
      BY <1>2 DEF Ev
    <3> HIDE DEF n
    <3>1. \A i \in 1..Len(p) : p[i] = n \/ (i \in 1..Len(projected) /\ p[i] = projected[i])
      BY <3>0, Grown DEF Shape
    <3>2. \A i \in 1..Len(p) : p[i] < x.turn
      BY <1>7, <2>1, <2>2, <3>1 DEF n
    <3>3. QED
      BY <1>1, <2>1, <2>2, <3>2 DEF n
  <2>3. CASE ~(e \notin applied /\ e.type = "done")
    BY <1>1, <2>1, <2>3
  <2>4. QED
    BY <2>2, <2>3
<1>8. ASSUME NEW i \in 1..Len(journal) PROVE Fits(journal[i])'
  <2> SUFFICES ASSUME journal[i].type = "done", Waiting(journal[i])'
               PROVE  /\ Occurs(journal[i].turn, binding.turns)
                      /\ \A k \in 1..Len(projected') : projected'[k] < journal[i].turn
    BY <1>1 DEF Fits
  <2>1. journal[i] \notin applied /\ journal[i] # e /\ ~Closed(journal[i].runtime)
    BY <1>1, <1>3 DEF Waiting
  <2>2. ~(i \in 1..handled)
    BY <1>2, <2>1 DEF Pipe, Past
  <2>3. i \in Done(journal) /\ handled < i
    BY <1>2, <2>2 DEF Done
  <2>4. e.type = "done" => e.turn < journal[i].turn
    BY <1>2, <2>3 DEF Pipe, InOrder, Done
  <2>5. QED
    BY <1>1, <1>7, <2>4 DEF Pipe
<1>9. ASSUME NEW i \in 1..Len(emitted) PROVE Fits(emitted[i])'
  <2> SUFFICES ASSUME emitted[i].type = "done", Waiting(emitted[i])'
               PROVE  /\ Occurs(emitted[i].turn, binding.turns)
                      /\ \A k \in 1..Len(projected') : projected'[k] < emitted[i].turn
    BY <1>1 DEF Fits
  <2>1. e.type = "done" => e.turn < emitted[i].turn
    BY <1>2 DEF Pipe, InOrder, Done
  <2>2. QED
    BY <1>1, <1>7, <2>1 DEF Pipe
<1>10. ASSUME NEW i \in 1..handled PROVE Past(i)'
  BY <1>1, <1>2 DEF Pipe, Past, Closed
<1>11. QED
  BY <1>1, <1>4, <1>5, <1>6, <1>8, <1>9, <1>10 DEF Pipe

\* An event arrives, or either process dies.
LEMMA ArrivalsKeep ==
  ASSUME Base, Shape, Sorted, Pipe, ClosedStays, Receive \/ DaemonCrash \/ BackendCrash
  PROVE  (Shape /\ Sorted /\ Pipe)'
<1>1. /\ UNCHANGED <<projected, applied, journal, turns, runtimes, row, binding>>
      /\ (session'.running => session.running)
      /\ \/ UNCHANGED <<handled, ingesting, emitted>> /\ received' = received + 1
            /\ received < Len(journal)
         \/ UNCHANGED <<handled, ingesting, received>> /\ emitted' = <<>>
         \/ /\ UNCHANGED emitted /\ ingesting' = {} /\ received' = handled'
            /\ handled' \in 0..(IF ingesting = {} THEN handled ELSE handled - 1)
  BY DEF Receive, DaemonCrash, BackendCrash, durable, daemon, bounds, ingestion, NoQuery
<1>2. /\ handled' \in Nat /\ handled' <= handled /\ ingesting' \in {ingesting, {}}
      /\ ingesting' # ingesting => handled' < handled
      /\ handled' <= received' /\ received' <= Len(journal) /\ received' \in Nat
      /\ ingesting' # {} => handled' = handled
  <2> DEFINE n == Len(journal)
  <2>0. /\ n \in Nat /\ handled \in Nat /\ received \in Nat /\ handled <= received /\ received <= n
        /\ ingesting # {} => handled > 0
    BY LenProperties DEF Shape
  <2>1. \/ UNCHANGED <<handled, ingesting>> /\ received' = received + 1 /\ received < n
        \/ UNCHANGED <<handled, ingesting, received>>
        \/ /\ ingesting' = {} /\ received' = handled'
           /\ handled' \in 0..(IF ingesting = {} THEN handled ELSE handled - 1)
    BY <1>1
  <2> HIDE DEF n
  <2>2. /\ handled' \in Nat /\ handled' <= handled /\ ingesting' \in {ingesting, {}}
        /\ ingesting' # ingesting => handled' < handled
        /\ handled' <= received' /\ received' <= n /\ received' \in Nat
        /\ ingesting' # {} => handled' = handled
    BY <2>0, <2>1
  <2>3. QED
    BY <2>2 DEF n
<1>3. Shape' /\ Sorted'
  <2>1. emitted' \in Seq(Ev) /\ \A i \in 1..Len(emitted') : emitted'[i].runtime \in 1..runtimes
    <3>1. CASE emitted' = emitted
      BY <3>1 DEF Shape
    <3>2. CASE emitted' = <<>>
      <4>1. emitted' \in Seq(Ev)
        BY <3>2, EmptySeq
      <4>2. 1..Len(emitted') = {}
        BY <3>2
      <4>3. QED
        BY <4>1, <4>2
    <3>3. QED
      BY <1>1, <3>1, <3>2
  <2>2. Shape'
    BY <1>1, <1>2, <2>1 DEF Shape
  <2>3. \A m : Ended(m) => Ended(m)'
    BY <1>1 DEF Ended, EndedIn
  <2>4. QED
    BY <1>1, <2>2, <2>3 DEF Sorted
<1>4. \A x : Waiting(x)' => Waiting(x)
  BY <1>1, <1>2 DEF Waiting, Closed
<1>5. emitted' = emitted \/ Len(emitted') = 0
  BY <1>1
<1>6. InOrder'
  <2>1. Done(journal)' = Done(journal)
    BY <1>1 DEF Done
  <2>2. (emitted' = emitted /\ Done(emitted)' = Done(emitted)) \/ Done(emitted)' = {}
    BY <1>5 DEF Done
  <2>3. QED
    BY <1>1, <2>1, <2>2 DEF Pipe, InOrder, Ended, EndedIn
<1>7. ASSUME NEW i \in 1..Len(journal) PROVE Fits(journal[i])'
  BY <1>1, <1>4 DEF Pipe, Fits
<1>8. ASSUME NEW i \in 1..Len(emitted') PROVE Fits(emitted[i])'
  BY <1>1, <1>4, <1>5 DEF Pipe, Fits
<1>9. ASSUME NEW i \in 1..handled' PROVE Past(i)'
  <2>1. i \in 1..handled /\ Past(i)
    BY <1>2 DEF Pipe, Shape
  <2>2. CASE ingesting' = ingesting
    BY <1>1, <1>2, <2>1, <2>2 DEF Past, Closed, Shape
  <2>3. CASE ingesting' # ingesting
    BY <1>1, <1>2, <2>1, <2>3 DEF Past, Closed, Shape
  <2>4. QED
    BY <2>2, <2>3
<1>10. QED
  BY <1>1, <1>3, <1>6, <1>7, <1>8, <1>9 DEF Pipe

\* While a rewind is committed no event is admitted and none is under way.
LEMMA NoneWaiting ==
  ASSUME Shape, Runtimes, row.phase = "committed", ingesting = {}
  PROVE  /\ \A i \in 1..Len(journal) : ~Waiting(journal[i]) /\ Closed(journal[i].runtime)
         /\ \A i \in 1..Len(emitted) : ~Waiting(emitted[i])
BY DEF Shape, Runtimes, Waiting, Closed, None

\* The provider's history is cut.
LEMMA CommitKeeps ==
  ASSUME Base, Transcript, Runtimes', NEW op \in Ops, Commit(op)
  PROVE  (Shape /\ Sorted /\ Pipe)'
<1> DEFINE n == TargetOf[op]
           b == Prefix(binding.turns, n)
<1>1. /\ UNCHANGED <<projected, applied, journal, received, handled, ingesting, emitted, turns,
                     runtimes, session>>
      /\ Is(op, "commit", "sent") /\ row.op = op /\ row.phase = "prepared"
      /\ row' = [row EXCEPT !.phase = "committed"]
      /\ binding' = [runtime |-> 0, turns |-> row.candidate]
  BY DEF Commit, Sent, Is, ingestion, bounds
<1>2. row'.phase = "committed" /\ binding'.turns = b /\ ingesting = {} /\ n < Len(binding.turns)
  BY <1>1, PhaseExcept DEF Base, Protocol, LockInv, Transcript, Follows, Quiescent
<1>3. /\ b \in Seq(Nat) /\ Len(b) = n /\ Increasing(b)
      /\ \A i \in 1..n : b[i] = binding.turns[i] /\ i \in 1..Len(binding.turns)
  <2> DEFINE a == binding.turns
  <2>1. n \in Nat /\ a \in Seq(Nat) /\ Len(a) \in Nat /\ n <= Len(a) /\ Increasing(a)
    BY <1>2, OpsAssumption, LenProperties DEF Transcript, Shape, Sorted
  <2> HIDE DEF a, n
  <2>2. /\ Prefix(a, n) \in Seq(Nat) /\ Len(Prefix(a, n)) = n /\ Increasing(Prefix(a, n))
        /\ \A i \in 1..n : Prefix(a, n)[i] = a[i]
    BY <2>1, PrefixOf
  <2>3. \A i \in 1..n : i \in 1..Len(a)
    BY <2>1
  <2>4. QED
    BY <2>2, <2>3 DEF a
<1> HIDE DEF b, n
<1>4. Shape'
  BY <1>1, <1>2, <1>3 DEF Transcript, Shape
<1>5. Sorted'
  BY <1>1, <1>2, <1>3 DEF Transcript, Sorted, Ended
<1>6. /\ \A i \in 1..Len(journal) : ~Waiting(journal[i])' /\ Closed(journal[i].runtime)'
      /\ \A i \in 1..Len(emitted) : ~Waiting(emitted[i])'
  BY <1>1, <1>2, <1>4 DEF Shape, Runtimes, Waiting, Closed, None
<1>7. InOrder'
  BY <1>1 DEF Transcript, Pipe, InOrder, Ended, Done
<1>8. ASSUME NEW i \in 1..handled PROVE Past(i)'
  <2>1. i \in 1..Len(journal)
    BY LenProperties DEF Transcript, Shape
  <2>2. QED
    BY <1>6, <2>1 DEF Past
<1>9. QED
  BY <1>1, <1>4, <1>5, <1>6, <1>7, <1>8 DEF Pipe, Fits

\* The transcript is cut.
LEMMA CompleteKeeps ==
  ASSUME Base, Transcript, NEW op \in Ops, Complete(op)
  PROVE  /\ (Shape /\ Sorted /\ Pipe)'
         /\ row.op = op /\ row.phase = "committed" /\ projected' = binding.turns
         /\ binding.turns = Prefix(projected, TargetOf[op])
<1> DEFINE n == TargetOf[op]
           p == Prefix(projected, n)
<1>1. /\ UNCHANGED <<applied, journal, received, handled, ingesting, emitted, turns,
                     runtimes, session, row, binding>>
      /\ pc[op] = "completing" /\ projected' = p
  BY DEF Complete, ingestion
<1>2. row.op = op /\ row.phase = "committed" /\ ingesting = {} /\ op \notin completed
  BY <1>1 DEF Base, Protocol, Asked, Owns, Is, RowIs, Transcript, Quiescent
<1>3. p = binding.turns
  BY <1>2 DEF Transcript, Follows
<1> HIDE DEF p
<1>4. Shape'
  BY <1>1, <1>3 DEF Transcript, Shape
<1>5. Sorted'
  BY <1>1, <1>3 DEF Transcript, Sorted, Ended
<1>6. /\ \A i \in 1..Len(journal) : ~Waiting(journal[i])
      /\ \A i \in 1..Len(emitted) : ~Waiting(emitted[i])
  BY <1>2, NoneWaiting DEF Transcript, Base
<1>7. /\ \A i \in 1..Len(journal) : ~Waiting(journal[i])'
      /\ \A i \in 1..Len(emitted) : ~Waiting(emitted[i])'
  BY <1>1, <1>6 DEF Waiting, Closed
<1>8. InOrder' /\ \A i \in 1..handled : Past(i)'
  BY <1>1 DEF Transcript, Pipe, InOrder, Ended, Done, Past, Closed
<1>9. QED
  BY <1>1, <1>2, <1>3, <1>4, <1>5, <1>7, <1>8 DEF Pipe, Fits, p

LEMMA EventsKept ==
  ASSUME Base, Transcript, Runtimes', ClosedStays, [Next]_vars PROVE (Shape /\ Sorted /\ Pipe)'
<1>0. Shape /\ Sorted /\ Pipe
  BY DEF Transcript
<1>1. CASE \/ Prompt \/ RefuseTurn \/ UNCHANGED vars
  <2>1. Still
    BY <1>1 DEF Prompt, RefuseTurn, vars, durable, ingestion, daemon, bounds, Still
  <2>2. QED
    BY <1>0, <2>1, StillKeeps
<1>2. CASE StartTurn \/ FinishTurn \/ Publish \/ Admit \/ Project
  BY <1>0, <1>2, StartKeeps, FinishKeeps, PublishKeeps, AdmitKeeps, ProjectKeeps
<1>3. CASE Receive \/ DaemonCrash \/ BackendCrash
  BY <1>0, <1>3, ArrivalsKeep
<1>4. ASSUME NEW t \in 1..MaxTurns, EmitLate(t) PROVE (Shape /\ Sorted /\ Pipe)'
  BY <1>0, <1>4, EmitKeeps
<1>5. ASSUME NEW op \in Ops, Request(op) \/ ReactorStep(op) PROVE (Shape /\ Sorted /\ Pipe)'
  BY <1>0, <1>5, ReactorStill, StillKeeps, CompleteKeeps
<1>6. ASSUME NEW op \in Ops, CallStep(op) PROVE (Shape /\ Sorted /\ Pipe)'
  BY <1>0, <1>6, CallsStill, StillKeeps, CommitKeeps
<1>7. QED
  BY <1>1, <1>2, <1>3, <1>4, <1>5, <1>6 DEF Next

-----------------------------------------------------------------------------
(* What single steps do *)

\* The reactor's steps leave other rewinds alone, and calls are made by these.
LEMMA ReactorOwn ==
  ASSUME Base, NEW op \in Ops, ReactorStep(op) \/ Request(op)
  PROVE  /\ \A q \in Ops : q # op => pc'[q] = pc[q] /\ call'[q] = call[q]
         /\ pc'[op] = "capturing" => Drained(op)
         /\ pc'[op] = "restoring" => Capture(op)
         /\ pc'[op] \in {"draining", "preparing"} => Prepared(op) \/ Begin(op)
         /\ pc'[op] = "compensating" => RestoreFails(op) \/ CommitRefusedSeen(op)
         /\ \/ UNCHANGED call
            \/ Begin(op) /\ Is(op, "prepare", "sent")'
            \/ (CaptureFails(op) \/ Compensate(op)) /\ Is(op, "abort", "sent")'
            \/ Restore(op) /\ Is(op, "commit", "sent")'
            \/ Complete(op) /\ Is(op, "finish", "sent")'
<1>0. pc \in [Ops -> Steps] /\ call \in [Ops -> Call]
  BY DEF Base, Protocol, Line, LockInv
<1>1. CASE \/ Prepared(op) \/ Drained(op) \/ DrainTimesOut(op) \/ Capture(op)
           \/ RestoreFails(op) \/ CommitRefusedSeen(op) \/ CompensateFails(op)
           \/ Aborted(op) \/ Committed(op) \/ CompleteFails(op) \/ Finished(op)
           \/ CleanUp(op) \/ CleanUpFails(op)
  BY <1>0, <1>1 DEF Prepared, Drained, DrainTimesOut, Capture, RestoreFails, CommitRefusedSeen,
     CompensateFails, Aborted, Committed, CompleteFails, Finished, CleanUp, CleanUpFails, Moves,
     Goes, daemon
<1>2. CASE Decline(op) \/ GivesUp(op) \/ LoseAnswer(op) \/ Request(op)
  BY <1>0, <1>2 DEF Decline, GivesUp, LoseAnswer, Request, Goes, daemon
<1>3. CASE Complete(op) /\ Goes(op, "failed") /\ UNCHANGED call
  BY <1>0, <1>3 DEF Goes
<1>4. ASSUME NEW step \in {"preparing", "aborting", "committing", "finishing"},
             NEW method \in {"prepare", "abort", "commit", "finish"}, Calls(op, step, method)
      PROVE  /\ \A q \in Ops : q # op => pc'[q] = pc[q] /\ call'[q] = call[q]
             /\ pc'[op] = step /\ Is(op, method, "sent")'
  BY <1>0, <1>4, CallsAt DEF Calls, Goes, Is
<1>5. CASE Begin(op)
  BY <1>4, <1>5 DEF Begin
<1>6. CASE CaptureFails(op) \/ Compensate(op)
  BY <1>4, <1>6 DEF CaptureFails, Compensate
<1>7. CASE Restore(op)
  BY <1>4, <1>7 DEF Restore
<1>8. CASE Complete(op) /\ Calls(op, "finishing", "finish")
  BY <1>4, <1>8
<1>9. CASE Complete(op)
  BY <1>3, <1>8, <1>9 DEF Complete
<1>10. QED
  BY <1>1, <1>2, <1>5, <1>6, <1>7, <1>9 DEF ReactorStep

\* An executed call is answered, and no other.
LEMMA CallsOwn ==
  ASSUME Base, NEW op \in Ops, CallStep(op)
  PROVE  /\ UNCHANGED <<pc, controls, expected, counted, projected, completed, files, recovery,
                        ingesting, shown, discarded>>
         /\ \A q \in Ops : q # op => call'[q] = call[q]
         /\ call'[op].method = call[op].method /\ call'[op].at # "sent"
         /\ call'[op].at = "reserved" => Reserve(op)
         /\ call'[op].at = "retired" => Retire(op)
<1>0. call \in [Ops -> Call]
  BY DEF Base, Protocol, LockInv
<1>1. UNCHANGED <<pc, controls, expected, counted, projected, completed, files, recovery,
                  ingesting, shown, discarded>>
  <2>1. CASE PrepareRefused(op) \/ CommitRefused(op) \/ CommitFails(op) \/ FinishFails(op)
    BY <2>1 DEF PrepareRefused, CommitRefused, CommitFails, FinishFails, Replies, durable, git,
                ingestion, reactor
  <2>2. CASE Reserve(op) \/ RefusePreparing(op) \/ Retire(op)
    BY <2>2 DEF Reserve, RefusePreparing, Retire, durable, git, ingestion, reactor
  <2>3. CASE MarkPrepared(op) \/ PrepareUncertain(op) \/ Commit(op) \/ Finish(op)
    BY <2>3 DEF MarkPrepared, PrepareUncertain, Commit, Finish, durable, git, ingestion, reactor
  <2>4. QED
    BY <2>1, <2>2, <2>3 DEF CallStep
<1>2. \/ Reserve(op) /\ Answers(op, "reserved")
      \/ Retire(op) /\ Answers(op, "retired")
      \/ \E answer \in {"ok", "refused", "unknown"} : Answers(op, answer)
  BY DEF CallStep, PrepareRefused, Reserve, RefusePreparing, Retire, MarkPrepared,
         PrepareUncertain, Commit, CommitRefused, CommitFails, Finish, FinishFails, Replies
<1>3. CASE Reserve(op) /\ Answers(op, "reserved")
  BY <1>0, <1>1, <1>3, AnswerAt
<1>4. CASE Retire(op) /\ Answers(op, "retired")
  BY <1>0, <1>1, <1>4, AnswerAt
<1>5. ASSUME NEW answer \in {"ok", "refused", "unknown"}, Answers(op, answer)
      PROVE  /\ \A q \in Ops : q # op => call'[q] = call[q]
             /\ call'[op].method = call[op].method
             /\ call'[op].at \notin {"sent", "reserved", "retired"}
  BY <1>0, <1>5, AnswerAt
<1>6. QED
  BY <1>1, <1>2, <1>3, <1>4, <1>5

\* The reservation changes in these steps and no other.
RowGoes(op) ==
  \/ Reserve(op) /\ ~Pending /\ RowIs(op, "preparing")'
  \/ RefusePreparing(op) /\ RowIs(op, "preparing") /\ RowIs(op, "refused")'
  \/ MarkPrepared(op) /\ RowIs(op, "preparing") /\ RowIs(op, "prepared")'
  \/ Commit(op) /\ RowIs(op, "prepared") /\ RowIs(op, "committed")'
       /\ row'.candidate = row.candidate
  \/ Finish(op) /\ CanFinish(op) /\ row.phase \in {"prepared", "committed"}
       /\ row'.op = op /\ row'.phase = IF row.phase = "prepared" THEN "aborted" ELSE "finished"

LEMMA RowGoesOn ==
  ASSUME Base, [Next]_vars PROVE UNCHANGED row \/ \E op \in Ops : RowGoes(op)
<1>0. IsRow(row) /\ \A op \in Ops : Held(op) => RowIs(op, "preparing")
  BY DEF Base, Protocol, LockInv, RowIs
<1>1. CASE \/ UNCHANGED vars \/ Prompt \/ StartTurn \/ RefuseTurn \/ FinishTurn
           \/ \E t \in 1..MaxTurns : EmitLate(t)
           \/ Publish \/ Receive \/ Admit \/ Project \/ DaemonCrash \/ BackendCrash
  BY <1>1 DEF vars, Prompt, StartTurn, RefuseTurn, FinishTurn, EmitLate, Publish, Receive, Admit,
              Project, DaemonCrash, BackendCrash, durable
<1>2. ASSUME NEW op \in Ops, Aside(op) PROVE UNCHANGED row
  BY <1>2, AsideStill DEF Base
<1>3. ASSUME NEW op \in Ops, Retire(op) \/ PrepareUncertain(op) PROVE UNCHANGED row
  BY <1>3 DEF Retire, PrepareUncertain, durable
<1>4. ASSUME NEW op \in Ops, Reserve(op) PROVE RowGoes(op)
  BY <1>4 DEF Reserve, RowGoes, RowIs
<1>5. ASSUME NEW op \in Ops, RefusePreparing(op) PROVE RowGoes(op)
  <2>1. Held(op) /\ row' = [row EXCEPT !.phase = "refused"]
    BY <1>5 DEF RefusePreparing, Held
  <2>2. QED
    BY <1>0, <1>5, <2>1, PhaseExcept DEF RowGoes, RowIs
<1>6. ASSUME NEW op \in Ops, MarkPrepared(op) PROVE RowGoes(op)
  <2>1. Held(op)
    BY <1>6 DEF MarkPrepared, Held
  <2>2. QED
    BY <1>0, <1>6, <2>1, MarkedRow DEF RowGoes, RowIs
<1>7. ASSUME NEW op \in Ops, Commit(op) PROVE RowGoes(op)
  <2>1. RowIs(op, "prepared") /\ row' = [row EXCEPT !.phase = "committed"]
    BY <1>7 DEF Commit, RowIs
  <2>2. QED
    BY <1>0, <1>7, <2>1, PhaseExcept DEF RowGoes, RowIs
<1>8. ASSUME NEW op \in Ops, Finish(op) PROVE RowGoes(op)
  <2> DEFINE phase == IF row.phase = "prepared" THEN "aborted" ELSE "finished"
  <2>1. /\ CanFinish(op) /\ row.op = op /\ row.phase \in {"prepared", "committed"}
        /\ row' = [row EXCEPT !.phase = phase]
    BY <1>8 DEF Finish, CanFinish
  <2> HIDE DEF phase
  <2>2. row'.op = op /\ row'.phase = phase
    BY <1>0, <2>1, PhaseExcept
  <2>3. QED
    BY <1>8, <2>1, <2>2 DEF RowGoes, phase
<1>9. QED
  BY <1>1, <1>2, <1>3, <1>4, <1>5, <1>6, <1>7, <1>8 DEF Next, CallStep, Aside

-----------------------------------------------------------------------------
(* Quiescence *)

\* No event is admitted while a reservation is prepared or committed.
LEMMA AllClosed ==
  ASSUME Runtimes, row.phase \in {"prepared", "committed"}, NEW r \in 1..runtimes
  PROVE  Closed(r)
BY DEF Runtimes, Closed, None

LEMMA QuiescentKept ==
  ASSUME Base, Transcript, [Next]_vars PROVE Quiescent'
<1> DEFINE Near(q) == pc[q] \in {"capturing", "restoring"} \/ Is(q, "commit", "sent")
<1>0. /\ Shape /\ Runtimes
      /\ \A q \in Ops : Near(q) => row.phase = "prepared" /\ ingesting = {}
      /\ row.phase = "committed" => ingesting = {}
  BY DEF Base, Protocol, Asked, Owns, Is, RowIs, Transcript, Quiescent
<1>1. row'.phase = "committed" => ingesting = {}
  <2>1. CASE UNCHANGED row
    BY <1>0, <2>1
  <2>2. ASSUME NEW op \in Ops, RowGoes(op), row'.phase = "committed" PROVE ingesting = {}
    <3>1. Commit(op)
      BY <2>2 DEF RowGoes, RowIs
    <3>2. Is(op, "commit", "sent")
      BY <3>1 DEF Commit, Sent, Is
    <3>3. QED
      BY <1>0, <3>2
  <2>3. QED
    BY <2>1, <2>2, RowGoesOn
<1>2. ASSUME NEW q \in Ops, Near(q)' PROVE ingesting = {}
  <2>1. CASE UNCHANGED <<pc, call>>
    BY <1>0, <1>2, <2>1 DEF Is
  <2>2. CASE \/ UNCHANGED vars \/ Prompt \/ StartTurn \/ RefuseTurn \/ FinishTurn
             \/ \E t \in 1..MaxTurns : EmitLate(t)
             \/ Publish \/ Receive \/ Admit \/ Project
    BY <2>1, <2>2 DEF vars, Prompt, StartTurn, RefuseTurn, FinishTurn, EmitLate, Publish, Receive,
                      Admit, Project, daemon, reactor
  <2>3. CASE BackendCrash
    BY <1>0, <1>2, <2>3 DEF BackendCrash, daemon, Is, Settled
  <2>4. CASE DaemonCrash
    <3>1. /\ UNCHANGED pc
          /\ call'[q] = IF Held(q) THEN Answered(q, "unknown") ELSE call[q]
      BY <2>4 DEF DaemonCrash, reactor, Held
    <3>2. Answered(q, "unknown").at = "unknown"
      BY DEF Answered
    <3>3. QED
      BY <1>0, <1>2, <3>1, <3>2 DEF Is
  <2>5. ASSUME NEW op \in Ops, Request(op) \/ ReactorStep(op) PROVE ingesting = {}
    <3>1. CASE q # op
      BY <1>0, <1>2, <2>5, <3>1, ReactorOwn DEF Is
    <3>2. CASE q = op /\ pc'[op] = "capturing"
      BY <2>5, <3>2, ReactorOwn DEF Drained
    <3>3. CASE q = op /\ pc'[op] = "restoring"
      <4>1. pc[op] = "capturing"
        BY <2>5, <3>3, ReactorOwn DEF Capture, Moves
      <4>2. QED
        BY <1>0, <4>1
    <3>4. CASE q = op /\ Is(op, "commit", "sent")'
      <4>1. UNCHANGED call \/ Restore(op)
        BY <2>5, <3>4, ReactorOwn DEF Is
      <4>2. QED
        BY <1>0, <3>4, <4>1 DEF Restore, Is
    <3>5. QED
      BY <1>2, <3>1, <3>2, <3>3, <3>4
  <2>6. ASSUME NEW op \in Ops, CallStep(op) PROVE ingesting = {}
    BY <1>0, <1>2, <2>6, CallsOwn DEF Is
  <2>7. QED
    BY <2>2, <2>3, <2>4, <2>5, <2>6 DEF Next
<1>3. ingesting' \in {ingesting, {}} \/ Admit
  <2>1. CASE \/ UNCHANGED vars \/ Prompt \/ StartTurn \/ RefuseTurn \/ FinishTurn
             \/ \E t \in 1..MaxTurns : EmitLate(t)
             \/ Publish \/ Receive \/ Project \/ DaemonCrash \/ BackendCrash
    BY <2>1 DEF vars, Prompt, StartTurn, RefuseTurn, FinishTurn, EmitLate, Publish, Receive,
                Project, DaemonCrash, BackendCrash, ingestion
  <2>2. ASSUME NEW op \in Ops, Request(op) \/ ReactorStep(op) PROVE UNCHANGED ingesting
    <3>1. CASE Complete(op)
      BY <3>1 DEF Complete, ingestion
    <3>2. QED
      BY <2>2, <3>1, ReactorStill DEF Still
  <2>3. ASSUME NEW op \in Ops, CallStep(op) PROVE UNCHANGED ingesting
    BY <2>3, CallsOwn
  <2>4. QED
    BY <2>1, <2>2, <2>3 DEF Next
<1>4. ASSUME Admit, row.phase \in {"prepared", "committed"} PROVE ingesting' = {}
  <2> DEFINE e == journal[handled + 1]
  <2>1. /\ handled + 1 \in 1..Len(journal)
        /\ ingesting' = IF Admission(e) = "accepted" THEN {e} ELSE {}
    BY <1>0, <1>4, LenProperties DEF Admit, Shape
  <2>2. e.runtime \in 1..runtimes
    BY <1>0, <2>1 DEF Shape
  <2>3. Admission(e) # "accepted"
    <3> HIDE DEF e
    <3>1. QED
      BY <1>0, <1>4, <2>2, AllClosed, AdmissionOpen
  <2>4. QED
    BY <2>1, <2>3
<1>5. Admit => UNCHANGED <<pc, call, row>>
  BY DEF Admit, durable, daemon, reactor
<1>6. ASSUME NEW q \in Ops, Near(q)' PROVE ingesting' = {}
  BY <1>0, <1>2, <1>3, <1>4, <1>5, <1>6 DEF Is
<1>7. row'.phase = "committed" => ingesting' = {}
  BY <1>1, <1>3, <1>4, <1>5
<1>8. QED
  BY <1>6, <1>7 DEF Quiescent

-----------------------------------------------------------------------------
(* Counts *)

\* A transcript that is the provider's history has room for no end of a turn.
LEMMA FullTranscript ==
  ASSUME Shape, Pipe, Project, projected = binding.turns PROVE UNCHANGED projected
<1>1. PICK e \in ingesting :
        projected' = IF e \notin applied /\ e.type = "done" THEN Append(projected, e.turn)
                     ELSE projected
  BY DEF Project
<1>2. CASE e \notin applied /\ e.type = "done"
  <2>1. /\ e \in Ev /\ Occurs(e.turn, projected)
        /\ \A i \in 1..Len(projected) : projected[i] < e.turn
    BY <1>2, AppliedFits
  <2>2. QED
    BY <2>1 DEF Occurs, Ev
<1>3. QED
  BY <1>1, <1>2

LEMMA CountsKept ==
  ASSUME Base, Transcript, [Next]_vars PROVE Counts'
<1>0. /\ Shape /\ Sorted /\ Pipe /\ Counts /\ Follows /\ Runtimes
      /\ \A q \in Ops : expected[q] <= controls /\ expected[q] \in Nat /\ controls \in Nat
      /\ \A q \in Ops : Held(q) => RowIs(q, "preparing")
      /\ \A q \in Ops : call[q].at = "retired" => session = NoQuery
      /\ TargetOf \in [Ops -> Nat]
  BY OpsAssumption DEF Base, Protocol, Line, LockInv, RowIs, Transcript
<1>1. CASE /\ UNCHANGED <<counted, call, expected, projected>> /\ binding'.turns = binding.turns
           /\ controls' \in {controls, controls + 1}
  BY <1>0, <1>1 DEF Counts, Fresh, Is
<1>2. CASE \/ UNCHANGED vars \/ Prompt \/ RefuseTurn
           \/ \E t \in 1..MaxTurns : EmitLate(t)
           \/ Publish \/ Receive \/ Admit \/ BackendCrash
  BY <1>1, <1>2 DEF vars, Prompt, RefuseTurn, EmitLate, Publish, Receive, Admit, BackendCrash,
                    durable, daemon, reactor
<1>3. CASE StartTurn
  <2>1. binding'.turns = binding.turns
    BY <1>3, StartCursor
  <2>2. QED
    BY <1>1, <1>3, <2>1 DEF StartTurn
<1>4. CASE FinishTurn
  <2>1. UNCHANGED <<controls, counted, call, expected, projected>> /\ session # NoQuery
    BY <1>4 DEF FinishTurn, reactor
  <2>2. \A q \in Ops : call[q].at # "retired"
    BY <1>0, <2>1
  <2>3. QED
    BY <1>0, <2>1, <2>2 DEF Counts, Fresh, Is
<1>5. CASE Project
  <2>1. UNCHANGED <<controls, counted, call, expected, binding>>
    BY <1>5 DEF Project, daemon, reactor
  <2>2. Len(projected') >= Len(projected)
    <3>1. PICK e \in ingesting :
            projected' = IF e \notin applied /\ e.type = "done" THEN Append(projected, e.turn)
                         ELSE projected
      BY <1>5 DEF Project
    <3>2. CASE e \notin applied /\ e.type = "done"
      <4>1. e.turn \in Nat
        BY <1>0, <3>2, AppliedFits DEF Ev
      <4>2. projected \in Seq(Nat) /\ projected' = Append(projected, e.turn)
        BY <1>0, <3>1, <3>2 DEF Shape
      <4>3. Len(projected') = Len(projected) + 1 /\ Len(projected) \in Nat
        BY <4>1, <4>2, AppendProperties, LenProperties
      <4>4. QED
        BY <4>3
    <3>3. CASE ~(e \notin applied /\ e.type = "done")
      BY <1>0, <3>1, <3>3, LenProperties DEF Shape
    <3>4. QED
      BY <3>2, <3>3
  <2>3. projected = binding.turns => projected' = projected
    BY <1>0, <1>5, FullTranscript
  <2> DEFINE n == Len(projected)
             m == Len(projected')
  <2>4. n \in Nat /\ m \in Nat
    <3>1. projected' \in Seq(Nat)
      BY <1>5, ProjectKeeps DEF Shape, Transcript
    <3>2. QED
      BY <1>0, <3>1, LenProperties DEF Shape
  <2>5. \A q \in Ops : Fresh(q)' => TargetOf[q] < counted[q] /\ counted[q] <= n /\ counted[q] \in Nat
    BY <1>0, <2>1 DEF Counts, Fresh, Is
  <2> HIDE DEF n, m
  <2>6. \A q \in Ops : Fresh(q)' => TargetOf[q] < counted[q] /\ counted[q] <= m
    BY <2>2, <2>4, <2>5 DEF n, m
  <2>7. \A q \in Ops : Is(q, "prepare", "retired")' =>
          projected' = binding'.turns /\ TargetOf[q] < Len(binding'.turns)
    BY <1>0, <2>1, <2>3 DEF Counts, Is
  <2>8. QED
    BY <1>0, <2>1, <2>6, <2>7 DEF Counts, m
<1>6. CASE DaemonCrash
  <2>1. UNCHANGED <<controls, counted, expected, projected, binding>>
    BY <1>6 DEF DaemonCrash, durable, reactor
  <2>2. \A q \in Ops : call'[q] = call[q] \/ call'[q].at = "unknown"
    BY <1>6 DEF DaemonCrash, Answered
  <2>3. QED
    BY <1>0, <2>1, <2>2 DEF Counts, Fresh, Is
<1>7. ASSUME NEW op \in Ops, Request(op) PROVE Counts'
  <2>1. /\ UNCHANGED <<counted, projected, binding, call>> /\ controls' = controls + 1
        /\ expected' = [expected EXCEPT ![op] = controls'] /\ pc[op] = "unasked"
    BY <1>7 DEF Request, daemon
  <2>2. Is(op, None, None)
    BY <2>1 DEF Base, Protocol, Asked, Begun
  <2>3. \A q \in Ops : q # op => expected'[q] = expected[q]
    BY <2>1 DEF Base, Protocol, Line
  <2>4. QED
    BY <1>0, <2>1, <2>2, <2>3 DEF Counts, Fresh, Is, None
<1>8. ASSUME NEW op \in Ops, Complete(op) PROVE Counts'
  <2>1. UNCHANGED <<counted, expected>> /\ controls' = controls + 1
        /\ row.phase = "committed"
    BY <1>8, CompleteKeeps DEF Complete
  <2>2. \A q \in Ops : ~Held(q)
    BY <1>0, <2>1 DEF RowIs
  <2>3. /\ \A q \in Ops : q # op => call'[q] = call[q]
        /\ call'[op] = call[op] \/ Is(op, "finish", "sent")'
    BY <1>8, ReactorOwn DEF ReactorStep, Complete, Begin, Take, CaptureFails, Compensate, Restore, Settled
  <2>4. ASSUME NEW q \in Ops PROVE ~Fresh(q)' /\ ~Is(q, "prepare", "retired")'
    <3>1. call'[q] = call[q] \/ Is(q, "finish", "sent")'
      BY <2>3
    <3>2. expected'[q] = expected[q] /\ controls' # expected[q]
      BY <1>0, <2>1
    <3>3. QED
      BY <2>2, <3>1, <3>2 DEF Fresh, Is, Held
  <2>5. QED
    BY <1>0, <2>1, <2>4 DEF Counts
<1>9. ASSUME NEW op \in Ops, Begin(op) PROVE Counts'
  <2>1. /\ UNCHANGED <<controls, expected, projected, binding>>
        /\ TargetOf[op] < Len(projected) /\ counted' = [counted EXCEPT ![op] = Len(projected)]
        /\ Calls(op, "preparing", "prepare")
    BY <1>9 DEF Begin, durable
  <2>2. /\ \A q \in Ops : q # op => call'[q] = call[q]
        /\ Is(op, "prepare", "sent")'
    BY <2>1, CallsAt DEF Base, Protocol, LockInv, Is
  <2>3. Len(projected) \in Nat
    BY <1>0, LenProperties DEF Shape
  <2>4. counted' \in [Ops -> Nat] /\ counted'[op] = Len(projected)
        /\ \A q \in Ops : q # op => counted'[q] = counted[q]
    BY <1>0, <2>1, <2>3 DEF Counts
  <2>5. ASSUME NEW q \in Ops, q # op
        PROVE  /\ Fresh(q)' => Fresh(q)
               /\ Is(q, "prepare", "retired")' => Is(q, "prepare", "retired")
    BY <2>1, <2>2, <2>5 DEF Fresh, Is
  <2>6. /\ TargetOf[op] < counted'[op] /\ counted'[op] <= Len(projected')
        /\ ~Is(op, "prepare", "retired")'
    BY <2>1, <2>2, <2>3, <2>4 DEF Is
  <2>7. QED
    BY <1>0, <2>1, <2>4, <2>5, <2>6 DEF Counts
<1>10. ASSUME NEW op \in Ops, ReactorStep(op), ~Begin(op), ~Complete(op) PROVE Counts'
  <2>1. UNCHANGED <<counted, controls, expected, projected, binding>>
    <3>1. CASE \/ Prepared(op) \/ Drained(op) \/ DrainTimesOut(op) \/ Capture(op)
               \/ RestoreFails(op) \/ CommitRefusedSeen(op) \/ CompensateFails(op)
               \/ Aborted(op) \/ Committed(op) \/ CompleteFails(op) \/ Finished(op)
               \/ CleanUp(op) \/ CleanUpFails(op)
      BY <3>1 DEF Prepared, Drained, DrainTimesOut, Capture, RestoreFails, CommitRefusedSeen,
                  CompensateFails, Aborted, Committed, CompleteFails, Finished, CleanUp,
                  CleanUpFails, Moves, durable
    <3>2. CASE \/ Decline(op) \/ CaptureFails(op) \/ Restore(op) \/ Compensate(op)
               \/ GivesUp(op) \/ LoseAnswer(op)
      BY <3>2 DEF Decline, CaptureFails, Restore, Compensate, GivesUp, LoseAnswer, durable
    <3>3. QED
      BY <1>10, <3>1, <3>2 DEF ReactorStep
  <2>2. /\ \A q \in Ops : q # op => call'[q] = call[q]
        /\ \/ UNCHANGED call \/ Is(op, "abort", "sent")' \/ Is(op, "commit", "sent")'
    BY <1>10, ReactorOwn
  <2>3. QED
    BY <1>0, <2>1, <2>2 DEF Counts, Fresh, Is
<1>11. ASSUME NEW op \in Ops, CallStep(op) PROVE Counts'
  <2>1. /\ UNCHANGED <<controls, expected, counted, projected>>
        /\ \A q \in Ops : q # op => call'[q] = call[q]
        /\ call'[op].method = call[op].method /\ call'[op].at # "sent"
        /\ call'[op].at = "reserved" => Reserve(op)
        /\ call'[op].at = "retired" => Retire(op)
    BY <1>11, CallsOwn
  <2>2. (\E q \in Ops : call'[q].at = "retired") => binding'.turns = binding.turns
    <3>1. CASE Commit(op)
      <4>1. row.phase = "prepared" /\ ~Retire(op)
        BY <1>0, <3>1 DEF Commit, Retire, Sent
      <4>2. \A q \in Ops : ~Held(q)
        BY <1>0, <4>1 DEF RowIs
      <4>3. QED
        BY <2>1, <4>1, <4>2 DEF Held
    <3>2. QED
      BY <1>11, <3>1, CallsStill DEF Still
  <2>3. Fresh(op)' => TargetOf[op] < counted[op] /\ counted[op] <= Len(projected)
    <3>1. ASSUME Fresh(op)' PROVE Fresh(op)
      <4>1. Reserve(op)
        BY <2>1, <3>1 DEF Fresh, Is
      <4>2. QED
        BY <4>1 DEF Reserve, Sent, Fresh, Is, CanReserve
    <3>2. QED
      BY <1>0, <3>1 DEF Counts
  <2>4. Is(op, "prepare", "retired")' =>
          projected = binding.turns /\ TargetOf[op] < Len(binding.turns)
    <3> SUFFICES ASSUME Retire(op) PROVE projected = binding.turns /\ TargetOf[op] < Len(binding.turns)
      BY <2>1 DEF Is
    <3>1. /\ call[op].at = "reserved" /\ session # NoQuery
          /\ Len(session.turns) = counted[op]
      BY DEF Retire
    <3>2. Is(op, "prepare", "reserved") /\ RowIs(op, "preparing")
      BY <1>0, <3>1 DEF Base, Protocol, Asked, Is, Held
    <3>3. Len(binding.turns) = counted[op]
      BY <3>1 DEF Base, Protocol, LockInv, QueryOnCursor
    <3>4. TargetOf[op] < counted[op] /\ counted[op] <= Len(projected)
      BY <1>0, <3>2 DEF Counts, Fresh
    <3>5. Within(projected, binding.turns)
      BY <1>0, <3>2 DEF Follows, RowIs
    <3>6. projected = binding.turns
      <4> DEFINE h == binding.turns
      <4>1. projected \in Seq(Nat) /\ h \in Seq(Nat) /\ Increasing(projected) /\ Increasing(h)
            /\ Within(projected, h) /\ Len(h) <= Len(projected)
        BY <1>0, <3>3, <3>4, <3>5 DEF Shape, Sorted
      <4> HIDE DEF h
      <4>2. QED
        BY <4>1, SameHistory DEF h
    <3>7. QED
      BY <3>3, <3>4, <3>6
  <2>5. QED
    BY <1>0, <2>1, <2>2, <2>3, <2>4 DEF Counts, Fresh, Is
<1>12. QED
  BY <1>2, <1>3, <1>4, <1>5, <1>6, <1>7, <1>8, <1>9, <1>10, <1>11 DEF Next

-----------------------------------------------------------------------------
(* The transcript follows the provider's history *)

LEMMA WithinSame == \A s \in Seq(Nat) : Within(s, s)
BY DEF Within, Occurs

LEMMA FollowsKept ==
  ASSUME Base, Transcript, [Next]_vars PROVE Follows'
<1>0. /\ Shape /\ Sorted /\ Pipe /\ Counts /\ Follows /\ Runtimes
      /\ IsRow(row) /\ \A q \in Ops : Held(q) => RowIs(q, "preparing")
      /\ TargetOf \in [Ops -> Nat]
  BY OpsAssumption DEF Base, Protocol, LockInv, RowIs, Transcript
<1>1. CASE UNCHANGED <<row, projected, completed>> /\ binding'.turns = binding.turns
  BY <1>0, <1>1 DEF Follows
<1>2. CASE \/ UNCHANGED vars \/ Prompt \/ RefuseTurn
           \/ \E t \in 1..MaxTurns : EmitLate(t)
           \/ Publish \/ Receive \/ Admit \/ BackendCrash \/ DaemonCrash
  BY <1>1, <1>2 DEF vars, Prompt, RefuseTurn, EmitLate, Publish, Receive, Admit, BackendCrash,
                    DaemonCrash, durable
<1>3. CASE StartTurn
  <2>1. binding'.turns = binding.turns
    BY <1>3, StartCursor
  <2>2. QED
    BY <1>1, <1>3, <2>1 DEF StartTurn
<1>4. CASE FinishTurn
  <2>1. UNCHANGED <<row, projected>> /\ row.phase \notin {"prepared", "committed"}
        /\ binding' = [binding EXCEPT !.turns = Append(@, turns)]
    BY <1>0, <1>4 DEF FinishTurn, Runtimes
  <2> DEFINE a == binding.turns
             b == Append(a, turns)
  <2>2. binding'.turns = b
    BY <2>1, CursorExcept DEF Base, Protocol, LockInv
  <2>3. a \in Seq(Nat) /\ turns \in Nat
    BY <1>0 DEF Shape
  <2>4. Within(projected, a)
    BY <1>0, <2>1 DEF Follows
  <2> HIDE DEF a
  <2>5. Len(a) \in Nat /\ Len(b) = Len(a) + 1 /\ \A i \in 1..Len(a) : b[i] = a[i]
    BY <2>3, Grown
  <2> HIDE DEF b
  <2>6. Within(projected, b)
    <3>1. \A i \in 1..Len(a) : i \in 1..Len(b) /\ b[i] = a[i]
      BY <2>5
    <3>2. QED
      BY <2>4, <3>1 DEF Within, Occurs
  <2>7. QED
    BY <2>1, <2>2, <2>6 DEF Follows
<1>5. CASE Project
  <2>1. UNCHANGED <<row, completed, binding>>
    BY <1>5 DEF Project
  <2>2. row.phase # "committed"
    BY <1>5 DEF Project, Transcript, Quiescent
  <2>3. Within(projected', binding.turns)
    <3>1. PICK e \in ingesting :
            projected' = IF e \notin applied /\ e.type = "done" THEN Append(projected, e.turn)
                         ELSE projected
      BY <1>5 DEF Project
    <3>2. CASE e \notin applied /\ e.type = "done"
      <4> DEFINE n == e.turn
                 p == Append(projected, n)
      <4>1. n \in Nat /\ Occurs(n, binding.turns)
        BY <1>0, <3>2, AppliedFits DEF Ev
      <4> HIDE DEF n
      <4>2. \A i \in 1..Len(p) : p[i] = n \/ (i \in 1..Len(projected) /\ p[i] = projected[i])
        BY <1>0, <4>1, Grown DEF Shape
      <4> HIDE DEF p
      <4>3. Within(p, binding.turns)
        BY <1>0, <2>2, <4>1, <4>2 DEF Follows, Within
      <4>4. QED
        BY <3>1, <3>2, <4>3 DEF p, n
    <3>3. CASE ~(e \notin applied /\ e.type = "done")
      BY <1>0, <2>2, <3>1, <3>3 DEF Follows
    <3>4. QED
      BY <3>2, <3>3
  <2>4. projected = binding.turns => projected' = projected
    BY <1>0, <1>5, FullTranscript
  <2>5. QED
    BY <1>0, <2>1, <2>2, <2>3, <2>4 DEF Follows
<1>6. ASSUME NEW op \in Ops, Complete(op) PROVE Follows'
  <2>1. /\ UNCHANGED <<row, binding>> /\ completed' = completed \cup {op}
        /\ RowIs(op, "committed") /\ projected' = binding.turns
    BY <1>6, CompleteKeeps DEF Complete, RowIs
  <2>2. QED
    BY <2>1 DEF Follows, RowIs
<1>7. ASSUME NEW op \in Ops, Request(op) \/ ReactorStep(op), ~Complete(op) PROVE Follows'
  <2>1. UNCHANGED <<row, projected>> /\ binding'.turns = binding.turns
    BY <1>7, AsideStill, ReactorStill DEF Base, Aside, Still
  <2>2. UNCHANGED completed
    <3>1. CASE \/ Prepared(op) \/ Drained(op) \/ DrainTimesOut(op) \/ Capture(op)
               \/ RestoreFails(op) \/ CommitRefusedSeen(op) \/ CompensateFails(op)
               \/ Aborted(op) \/ Committed(op) \/ CompleteFails(op) \/ Finished(op)
               \/ CleanUp(op) \/ CleanUpFails(op)
      BY <3>1 DEF Prepared, Drained, DrainTimesOut, Capture, RestoreFails, CommitRefusedSeen,
                  CompensateFails, Aborted, Committed, CompleteFails, Finished, CleanUp,
                  CleanUpFails, Moves, durable
    <3>2. CASE \/ Begin(op) \/ Decline(op) \/ CaptureFails(op) \/ Restore(op) \/ Compensate(op)
               \/ GivesUp(op) \/ LoseAnswer(op) \/ Request(op)
      BY <3>2 DEF Begin, Decline, CaptureFails, Restore, Compensate, GivesUp, LoseAnswer, Request,
                  durable
    <3>3. QED
      BY <1>7, <3>1, <3>2 DEF ReactorStep
  <2>3. QED
    BY <1>1, <2>1, <2>2
<1>8. ASSUME NEW op \in Ops, CallStep(op) PROVE Follows'
  <2>1. UNCHANGED <<projected, completed>>
    BY <1>8, CallsOwn
  <2>2. CASE Commit(op)
    <3>1. /\ RowIs(op, "prepared") /\ RowIs(op, "committed")'
          /\ binding' = [runtime |-> 0, turns |-> row.candidate]
          /\ Is(op, "commit", "sent")
      <4>1. row.op = op /\ row.phase = "prepared" /\ row' = [row EXCEPT !.phase = "committed"]
        BY <2>2 DEF Commit
      <4>2. row'.phase = "committed" /\ row'.op = op
        BY <1>0, <4>1, PhaseExcept
      <4>3. QED
        BY <2>2, <4>1, <4>2 DEF Commit, RowIs, Sent, Is
    <3>2. op \notin completed
      BY <3>1 DEF Base, Protocol, Asked, Is
    <3>3. /\ binding'.turns = Prefix(projected, TargetOf[op])
          /\ TargetOf[op] < Len(projected)
      BY <1>0, <3>1 DEF Follows, RowIs
    <3>4. QED
      BY <2>1, <3>1, <3>2, <3>3 DEF Follows, RowIs
  <2>3. CASE ~Commit(op)
    <3>1. binding'.turns = binding.turns
      BY <1>8, <2>3, CallsStill DEF Still
    <3>2. CASE MarkPrepared(op)
      <4>1. RowIs(op, "preparing") /\ call[op].at = "retired"
        BY <1>0, <3>2 DEF MarkPrepared, Held
      <4>2. projected = binding.turns /\ TargetOf[op] < Len(binding.turns)
        BY <1>0, <4>1 DEF Counts, Is, Base, Protocol, Asked, Held
      <4>3. RowIs(op, "prepared")' /\ row'.candidate = Prefix(binding.turns, TargetOf[op])
        BY <1>0, <3>2, <4>1, MarkedRow DEF RowIs
      <4>4. Within(projected, binding.turns)
        BY <1>0, <4>1 DEF Follows, RowIs
      <4>5. QED
        BY <2>1, <3>1, <4>2, <4>3, <4>4 DEF Follows, RowIs
    <3>3. CASE UNCHANGED row
      BY <1>1, <2>1, <3>1, <3>3
    <3>4. CASE row'.phase \in {"preparing", "refused"} /\ row.phase # "committed"
      BY <1>0, <2>1, <3>1, <3>4 DEF Follows
    <3>5. CASE Finish(op) /\ CanFinish(op) /\ row'.phase \in {"aborted", "finished"}
      <4>1. row.phase = "prepared" \/ (row.phase = "committed" /\ row.op \in completed)
        BY <3>5 DEF CanFinish
      <4>2. projected = binding.turns
        BY <1>0, <4>1 DEF Follows
      <4>3. Within(projected, binding.turns)
        BY <1>0, <4>2, WithinSame DEF Shape
      <4>4. QED
        BY <2>1, <3>1, <3>5, <4>3 DEF Follows
    <3>6. \/ UNCHANGED row \/ MarkPrepared(op)
          \/ row'.phase \in {"preparing", "refused"} /\ row.phase # "committed"
          \/ Finish(op) /\ CanFinish(op) /\ row'.phase \in {"aborted", "finished"}
      <4>1. CASE Reserve(op) \/ RefusePreparing(op)
        <5>1. Reserve(op) => row'.phase = "preparing" /\ row.phase # "committed"
          BY DEF Reserve, Pending
        <5>2. RefusePreparing(op) => Held(op) /\ row' = [row EXCEPT !.phase = "refused"]
          BY DEF RefusePreparing, Held
        <5>3. RefusePreparing(op) => row'.phase = "refused" /\ row.phase # "committed"
          BY <1>0, <5>2, PhaseExcept DEF RowIs
        <5>4. QED
          BY <4>1, <5>1, <5>3
      <4>2. CASE Finish(op)
        <5> DEFINE phase == IF call[op].method = "abort" THEN "aborted" ELSE "finished"
        <5>1. row' = [row EXCEPT !.phase = phase] /\ CanFinish(op)
          BY <4>2 DEF Finish
        <5>2. phase \in {"aborted", "finished"}
          OBVIOUS
        <5> HIDE DEF phase
        <5>3. QED
          BY <1>0, <4>2, <5>1, <5>2, PhaseExcept
      <4>3. CASE \/ PrepareRefused(op) \/ Retire(op) \/ PrepareUncertain(op) \/ CommitRefused(op)
                 \/ CommitFails(op) \/ FinishFails(op)
        BY <4>3 DEF PrepareRefused, Retire, PrepareUncertain, CommitRefused, CommitFails,
                    FinishFails, Replies, durable
      <4>4. QED
        BY <1>8, <2>3, <4>1, <4>2, <4>3 DEF CallStep
    <3>7. QED
      BY <3>2, <3>3, <3>4, <3>5, <3>6
  <2>4. QED
    BY <2>2, <2>3
<1>9. QED
  BY <1>2, <1>3, <1>4, <1>5, <1>6, <1>7, <1>8 DEF Next

-----------------------------------------------------------------------------
(* The invariant holds *)

LEMMA InitTranscript == Init => Transcript
<1> SUFFICES ASSUME Init PROVE Transcript
  OBVIOUS
<1> DEFINE h == [n \in 1..InitialTurns |-> n]
<1>1. h \in Seq(Nat) /\ Len(h) = InitialTurns /\ \A i \in 1..Len(h) : h[i] = i
  BY BoundsAssumption
<1>2. binding = [runtime |-> 1, turns |-> h] /\ projected = h
  BY DEF Init
<1> HIDE DEF h
<1>3. /\ turns = InitialTurns /\ InitialTurns \in Nat /\ emitted = <<>> /\ journal = <<>>
      /\ received = 0 /\ handled = 0 /\ ingesting = {} /\ runtimes = 1
      /\ call = [op \in Ops |-> NoCall] /\ counted = [op \in Ops |-> 0]
      /\ row.phase = None /\ session.running = FALSE
  BY BoundsAssumption DEF Init, NoRow
<1>4. binding.turns = h
  BY <1>2
<1>5. Len(emitted) = 0 /\ Len(journal) = 0 /\ emitted \in Seq(Ev) /\ journal \in Seq(Ev)
  BY <1>3, EmptySeq
<1>6. Shape
  BY <1>1, <1>2, <1>3, <1>4, <1>5 DEF Shape
<1>7. Sorted
  BY <1>1, <1>2, <1>3, <1>4 DEF Sorted, Increasing, Ended, EndedIn
<1>8. Pipe
  BY <1>3, <1>5 DEF Pipe, InOrder, Done
<1>9. Quiescent
  BY <1>3 DEF Quiescent
<1>10. \A op \in Ops : Is(op, None, None)
  BY <1>3 DEF Is, NoCall
<1>11. Counts
  BY <1>3, <1>10 DEF Counts, Fresh, Is, None
<1>12. Follows
  BY <1>1, <1>2, <1>3, <1>4, WithinSame DEF Follows, None
<1>13. QED
  BY <1>6, <1>7, <1>8, <1>9, <1>11, <1>12 DEF Transcript

LEMMA TranscriptKept ==
  ASSUME Base, Transcript, [Next]_vars PROVE (Base /\ Transcript)'
<1>1. Base' /\ ClosedStays
  BY ProtocolKept, RuntimesKept DEF Base
<1>2. (Shape /\ Sorted /\ Pipe)'
  BY <1>1, EventsKept DEF Base
<1>3. QED
  BY <1>1, <1>2, QuiescentKept, CountsKept, FollowsKept DEF Transcript

\* The reservation outlives the provider's commit until the transcript is cut too: no turn
\* that the provider forgot is in the conversation when it takes turns again.
THEOREM TranscriptAlwaysFollows == Spec => []TranscriptFollows
<1>1. Init => Base /\ Transcript
  BY InitProtocol, InitRuntimes, InitTranscript DEF Base
<1>2. Base /\ Transcript /\ [Next]_vars => (Base /\ Transcript)'
  BY TranscriptKept
<1>3. Base /\ Transcript => TranscriptFollows
  <2> SUFFICES ASSUME Base, Transcript, ~Pending, NEW n \in Range(projected)
               PROVE  n \in Range(binding.turns)
    BY DEF TranscriptFollows
  <2>1. Within(projected, binding.turns)
    BY DEF Transcript, Follows, Pending
  <2>2. projected \in Seq(Nat) /\ binding.turns \in Seq(Nat)
    BY DEF Transcript, Shape
  <2>3. Occurs(n, projected)
    BY <2>2, OccursRange
  <2>4. Occurs(n, binding.turns)
    BY <2>1, <2>3 DEF Within, Occurs
  <2>5. QED
    BY <2>2, <2>4, OccursRange
<1>4. QED
  BY <1>1, <1>2, <1>3, PTL DEF Spec

-----------------------------------------------------------------------------
(* Removed turns *)

Gone(e) == e.turn \in discarded => Closed(e.runtime)

\* A removed turn is in no history any more, and what was said in it is not admitted.
Discards ==
  /\ NothingResurrected
  /\ \A i \in 1..Len(binding.turns) : binding.turns[i] \notin discarded
  /\ \A n \in discarded : Ended(n)
  /\ \A i \in 1..Len(journal) : Gone(journal[i])
  /\ \A i \in 1..Len(emitted) : Gone(emitted[i])
  /\ \A e \in ingesting : e.turn \notin discarded

\* Steps that say and remove nothing.
Silent ==
  /\ UNCHANGED <<discarded, shown, journal, runtimes>>
  /\ emitted' \in {emitted, <<>>} /\ ingesting' \in {ingesting, {}}
  /\ binding'.turns = binding.turns
  /\ \A n : Ended(n) => Ended(n)'

LEMMA SilentKeeps == ASSUME Shape, Discards, ClosedStays, Silent PROVE Discards'
<1>1. ASSUME NEW i \in 1..Len(journal) PROVE Gone(journal[i])'
  BY DEF Silent, Discards, Gone, ClosedStays, Shape
<1>2. ASSUME NEW i \in 1..Len(emitted') PROVE Gone(emitted[i])'
  <2>1. CASE emitted' = emitted
    BY <2>1 DEF Silent, Discards, Gone, ClosedStays, Shape
  <2>2. CASE emitted' = <<>>
    BY <2>2
  <2>3. QED
    BY <2>1, <2>2 DEF Silent
<1>3. QED
  BY <1>1, <1>2 DEF Silent, Discards, NothingResurrected

LEMMA StillSilent ==
  ASSUME Still, UNCHANGED <<discarded, shown>> PROVE Silent
BY DEF Still, Silent, Ended, EndedIn

\* An event that is added is of a turn that was not removed.
LEMMA SaidKeeps ==
  ASSUME Base, Shape, Discards, NEW e \in Ev, e.turn \notin discarded,
         UNCHANGED <<discarded, shown, journal, runtimes, row, ingesting>>,
         binding'.runtime = binding.runtime,
         \A i \in 1..Len(binding'.turns) : binding'.turns[i] \notin discarded,
         \A n : Ended(n) => Ended(n)', emitted' = Append(emitted, e)
  PROVE  Discards'
<1>1. /\ \A i \in 1..Len(emitted) : emitted'[i] = emitted[i]
      /\ emitted'[Len(emitted) + 1] = e
      /\ \A i \in 1..Len(emitted') : i \in 1..Len(emitted) \/ i = Len(emitted) + 1
  BY Added DEF Shape
<1>2. \A r : Closed(r)' = Closed(r)
  BY DEF Closed
<1>3. ASSUME NEW i \in 1..Len(emitted') PROVE Gone(emitted[i])'
  BY <1>1, <1>2 DEF Discards, Gone
<1>4. \A i \in 1..Len(journal) : Gone(journal[i])'
  BY <1>2 DEF Discards, Gone
<1>5. QED
  BY <1>3, <1>4 DEF Discards, NothingResurrected

LEMMA CompleteDiscards ==
  ASSUME Base, Transcript, Discards, NEW op \in Ops, Complete(op) PROVE Discards'
<1> DEFINE kept == Prefix(projected, TargetOf[op])
<1>1. /\ shown' = shown \cap Range(kept)
      /\ discarded' = discarded \cup (Range(projected) \ Range(kept))
      /\ UNCHANGED <<binding, row, journal, emitted, ingesting, turns, session>>
  BY DEF Complete, ingestion
<1>2. row.phase = "committed" /\ kept = binding.turns
  BY CompleteKeeps
<1> HIDE DEF kept
<1>3. binding.turns \in Seq(Nat) /\ projected \in Seq(Nat) /\ kept \in Seq(Nat)
  BY <1>2 DEF Transcript, Shape
<1>4. \A i \in 1..Len(kept) : kept[i] \in Range(kept)
  BY <1>3, OccursRange DEF Occurs
<1>5. \A n \in Range(projected) : Ended(n)
  BY <1>3, OccursRange DEF Occurs, Transcript, Sorted
<1>6. \A n \in discarded' : Ended(n)'
  BY <1>1, <1>5 DEF Discards, Ended
<1>7. ingesting = {}
  BY <1>2 DEF Transcript, Quiescent
<1>8. \A r \in 1..runtimes : Closed(r)'
  BY <1>1, <1>2, AllClosed DEF Base, Closed
<1>9. /\ \A i \in 1..Len(journal) : Gone(journal[i])'
      /\ \A i \in 1..Len(emitted) : Gone(emitted[i])'
  BY <1>1, <1>8 DEF Gone, Transcript, Shape
<1>10. \A i \in 1..Len(binding.turns) : binding.turns[i] \notin discarded'
  BY <1>1, <1>2, <1>4 DEF Discards
<1>11. shown' \cap discarded' = {}
  BY <1>1 DEF Discards, NothingResurrected
<1>12. QED
  BY <1>1, <1>6, <1>7, <1>9, <1>10, <1>11 DEF Discards, NothingResurrected

LEMMA DiscardsKept ==
  ASSUME Base, Transcript, Discards, ClosedStays, [Next]_vars PROVE Discards'
<1>0. Shape /\ Sorted /\ Runtimes
  BY DEF Transcript, Base
<1>1. CASE Silent
  BY <1>0, <1>1, SilentKeeps
<1>2. CASE \/ UNCHANGED vars \/ Prompt \/ RefuseTurn \/ Receive \/ BackendCrash \/ DaemonCrash
  <2>1. Silent
    BY <1>2 DEF vars, Prompt, RefuseTurn, Receive, BackendCrash, DaemonCrash, durable, daemon,
                bounds, ingestion, Silent, Ended, EndedIn, NoQuery
  <2>2. QED
    BY <1>1, <2>1
<1>3. CASE StartTurn
  <2>1. /\ UNCHANGED <<discarded, shown, journal, emitted, ingesting>> /\ turns' = turns + 1
    BY <1>3 DEF StartTurn, ingestion
  <2>2. binding'.turns = binding.turns
    BY <1>3, StartCursor
  <2>3. \A n : Ended(n) => Ended(n)'
    BY <1>0, <2>1 DEF Ended, EndedIn, Shape
  <2>4. /\ \A i \in 1..Len(journal) : Gone(journal[i])'
        /\ \A i \in 1..Len(emitted) : Gone(emitted[i])'
    BY <1>0, <2>1 DEF Discards, Gone, ClosedStays, Shape
  <2>5. QED
    BY <2>1, <2>2, <2>3, <2>4 DEF Discards, NothingResurrected
<1>4. CASE FinishTurn
  <2> DEFINE e == Event(turns, "done")
  <2>1. /\ UNCHANGED <<discarded, shown, journal, runtimes, row, ingesting, turns>>
        /\ session # NoQuery /\ session.running /\ emitted' = Append(emitted, e)
        /\ binding' = [binding EXCEPT !.turns = Append(@, turns)]
    BY <1>4 DEF FinishTurn, ingestion, bounds
  <2>2. /\ binding'.turns = Append(binding.turns, turns) /\ binding'.runtime = binding.runtime
        /\ session'.running = FALSE
    <3>1. IsBinding(binding) /\ IsQuery(session)
      BY DEF Base, Protocol, LockInv
    <3>2. binding'.turns = Append(binding.turns, turns) /\ binding'.runtime = binding.runtime
      BY <2>1, <3>1, CursorExcept
    <3>3. session'.running = FALSE
      BY <1>4, <3>1, GrownQuery
    <3>4. QED
      BY <3>2, <3>3
  <2>3. e \in Ev /\ e.turn = turns
    BY <1>0, <2>1, Emits DEF Shape
  <2>4. turns \notin discarded
    BY <2>1 DEF Discards, Ended, EndedIn
  <2>5. \A n : Ended(n) => Ended(n)'
    BY <2>1, <2>2 DEF Ended, EndedIn
  <2>6. \A i \in 1..Len(binding'.turns) : binding'.turns[i] \notin discarded
    <3> DEFINE a == binding.turns
               b == Append(a, turns)
    <3>1. a \in Seq(Nat) /\ turns \in Nat
      BY <1>0 DEF Shape
    <3>2. \A i \in 1..Len(a) : a[i] \notin discarded
      BY DEF Discards
    <3> HIDE DEF a
    <3>3. /\ \A i \in 1..Len(a) : b[i] = a[i]
          /\ b[Len(a) + 1] = turns
          /\ \A i \in 1..Len(b) : i \in 1..Len(a) \/ i = Len(a) + 1
      BY <3>1, Grown
    <3> HIDE DEF b
    <3>4. \A i \in 1..Len(b) : b[i] \notin discarded
      BY <2>4, <3>2, <3>3
    <3>5. QED
      BY <2>2, <3>4 DEF a, b
  <2> HIDE DEF e
  <2>7. QED
    BY <1>0, <2>1, <2>2, <2>3, <2>4, <2>5, <2>6, SaidKeeps
<1>5. ASSUME NEW t \in 1..MaxTurns, EmitLate(t) PROVE Discards'
  <2> DEFINE e == Event(t, "late")
  <2>1. /\ UNCHANGED <<discarded, shown, journal, runtimes, row, ingesting, turns, session, binding>>
        /\ session # NoQuery /\ t \in Range(session.turns) /\ emitted' = Append(emitted, e)
    BY <1>5 DEF EmitLate, durable, ingestion
  <2>2. e \in Ev /\ e.turn = t
    BY <2>1, Emits
  <2>3. t \notin discarded
    <3>1. t \in Range(binding.turns) /\ binding.turns \in Seq(Nat)
      BY <1>0, <2>1 DEF Base, Protocol, LockInv, QueryOnCursor, Shape
    <3>2. QED
      BY <3>1, OccursRange DEF Occurs, Discards
  <2>4. \A n : Ended(n) => Ended(n)'
    BY <2>1 DEF Ended
  <2> HIDE DEF e
  <2>5. \A i \in 1..Len(binding'.turns) : binding'.turns[i] \notin discarded
    BY <2>1 DEF Discards
  <2>6. QED
    BY <1>0, <2>1, <2>2, <2>3, <2>4, <2>5, SaidKeeps
<1>6. CASE Publish
  <2> DEFINE e == Head(emitted)
             n == Len(journal)
  <2>1. /\ UNCHANGED <<discarded, shown, runtimes, row, ingesting, turns, session, binding>>
        /\ emitted # <<>> /\ emitted' = Tail(emitted) /\ journal' \in {journal, Append(journal, e)}
    BY <1>6 DEF Publish, durable, bounds
  <2>2. /\ Len(emitted) \in Nat /\ Len(emitted) >= 1
        /\ \A i \in 1..Len(emitted') : emitted'[i] = emitted[i + 1] /\ i + 1 \in 1..Len(emitted)
        /\ e = emitted[1] /\ e \in Ev
    BY <1>0, <2>1, HeadTailProperties, EmptySeq, LenProperties DEF Shape
  <2>3. Gone(e) /\ \A i \in 1..Len(emitted') : Gone(emitted'[i])
    BY <2>2 DEF Discards
  <2> HIDE DEF e
  <2>4. \A i \in 1..Len(journal') : journal'[i] = e \/ (i \in 1..n /\ journal'[i] = journal[i])
    <3>1. CASE journal' = journal
      BY <3>1
    <3>2. CASE journal' = Append(journal, e)
      BY <1>0, <2>2, <3>2, Added DEF Shape
    <3>3. QED
      BY <2>1, <3>1, <3>2
  <2>5. \A i \in 1..Len(journal') : Gone(journal'[i])
    BY <2>3, <2>4 DEF Discards
  <2>6. /\ \A i \in 1..Len(journal') : Gone(journal[i])'
        /\ \A i \in 1..Len(emitted') : Gone(emitted[i])'
    BY <2>1, <2>3, <2>5 DEF Gone, Closed
  <2>7. QED
    BY <2>1, <2>6 DEF Discards, NothingResurrected, Ended
<1>7. CASE Admit
  <2> DEFINE e == journal[handled + 1]
  <2>1. /\ UNCHANGED <<discarded, shown, journal, emitted, runtimes, row, turns, session, binding>>
        /\ handled < received /\ ingesting' = IF Admission(e) = "accepted" THEN {e} ELSE {}
    BY <1>7 DEF Admit, durable, daemon, bounds
  <2>2. handled + 1 \in 1..Len(journal)
    BY <1>0, <2>1, LenProperties DEF Shape
  <2>3. Gone(e) /\ e.runtime \in 1..runtimes
    BY <1>0, <2>2 DEF Discards, Shape
  <2> HIDE DEF e
  <2>4. Admission(e) = "accepted" => e.turn \notin discarded
    BY <1>0, <2>3, AdmissionOpen DEF Gone
  <2>5. QED
    BY <2>1, <2>4 DEF Discards, NothingResurrected, Gone, Closed, Ended
<1>8. CASE Project
  <2>1. PICK e \in ingesting :
          /\ UNCHANGED <<discarded, journal, emitted, runtimes, row, turns, session, binding>>
          /\ ingesting' = {} /\ shown' \in {shown, shown \cup {e.turn}}
    BY <1>8 DEF Project, daemon, bounds
  <2>2. shown' \cap discarded = {}
    BY <2>1 DEF Discards, NothingResurrected
  <2>3. QED
    BY <2>1, <2>2 DEF Discards, NothingResurrected, Gone, Closed, Ended
<1>9. ASSUME NEW op \in Ops, Request(op) \/ ReactorStep(op), ~Complete(op) PROVE Discards'
  <2>1. Still
    BY <1>9, ReactorStill
  <2>2. UNCHANGED <<discarded, shown>>
    <3>1. CASE \/ Prepared(op) \/ Drained(op) \/ DrainTimesOut(op) \/ Capture(op)
               \/ RestoreFails(op) \/ CommitRefusedSeen(op) \/ CompensateFails(op)
               \/ Aborted(op) \/ Committed(op) \/ CompleteFails(op) \/ Finished(op)
               \/ CleanUp(op) \/ CleanUpFails(op)
      BY <3>1 DEF Prepared, Drained, DrainTimesOut, Capture, RestoreFails, CommitRefusedSeen,
                  CompensateFails, Aborted, Committed, CompleteFails, Finished, CleanUp,
                  CleanUpFails, Moves, durable
    <3>2. CASE \/ Begin(op) \/ Decline(op) \/ CaptureFails(op) \/ Restore(op) \/ Compensate(op)
               \/ GivesUp(op) \/ LoseAnswer(op) \/ Request(op)
      BY <3>2 DEF Begin, Decline, CaptureFails, Restore, Compensate, GivesUp, LoseAnswer, Request,
                  durable
    <3>3. QED
      BY <1>9, <3>1, <3>2 DEF ReactorStep
  <2>3. QED
    BY <1>1, <2>1, <2>2, StillSilent
<1>10. ASSUME NEW op \in Ops, Complete(op) PROVE Discards'
  BY <1>10, CompleteDiscards
<1>11. ASSUME NEW op \in Ops, CallStep(op), ~Commit(op) PROVE Discards'
  BY <1>1, <1>11, CallsStill, CallsOwn, StillSilent
<1>12. ASSUME NEW op \in Ops, Commit(op) PROVE Discards'
  <2>1. /\ UNCHANGED <<discarded, shown, journal, emitted, ingesting, runtimes, turns, session>>
        /\ row.phase = "prepared" /\ row.op = op /\ binding'.turns = row.candidate
    BY <1>12 DEF Commit, ingestion, bounds
  <2> DEFINE a == binding.turns
             n == TargetOf[op]
  <2>2. binding'.turns = Prefix(a, n) /\ n < Len(a)
    BY <2>1 DEF Transcript, Follows
  <2>3. a \in Seq(Nat) /\ n \in Nat /\ Len(a) \in Nat
    BY <1>0, OpsAssumption, LenProperties DEF Shape
  <2>4. \A i \in 1..Len(a) : a[i] \notin discarded
    BY DEF Discards
  <2> HIDE DEF a, n
  <2>5. Len(Prefix(a, n)) = n /\ \A i \in 1..n : Prefix(a, n)[i] = a[i] /\ i \in 1..Len(a)
    BY <2>2, <2>3, PrefixOf
  <2>6. \A i \in 1..Len(binding'.turns) : binding'.turns[i] \notin discarded
    BY <2>2, <2>4, <2>5
  <2>7. /\ \A i \in 1..Len(journal) : Gone(journal[i])'
        /\ \A i \in 1..Len(emitted) : Gone(emitted[i])'
    BY <1>0, <2>1 DEF Discards, Gone, ClosedStays, Shape
  <2>8. QED
    BY <2>1, <2>6, <2>7 DEF Discards, NothingResurrected, Ended
<1>13. QED
  BY <1>2, <1>3, <1>4, <1>5, <1>6, <1>7, <1>8, <1>9, <1>10, <1>11, <1>12 DEF Next

\* Nothing a provider said in a removed turn comes back after the transcript was cut,
\* however late it is published, received or ingested.
THEOREM NothingEverResurrected == Spec => []NothingResurrected
<1> DEFINE I == Base /\ Transcript /\ Discards
<1>1. Init => I
  <2>1. Init => Discards
    BY EmptySeq DEF Init, Discards, NothingResurrected
  <2>2. QED
    BY <2>1, InitProtocol, InitRuntimes, InitTranscript DEF Base
<1>2. I /\ [Next]_vars => I'
  <2>1. Base /\ [Next]_vars => ClosedStays
    BY RuntimesKept DEF Base
  <2>2. QED
    BY <2>1, TranscriptKept, DiscardsKept
<1>3. I => NothingResurrected
  BY DEF Discards
<1>4. QED
  BY <1>1, <1>2, <1>3, PTL DEF Spec

-----------------------------------------------------------------------------
(* Where the files are *)

\* Before a rewind touches the files, and after it has put them back.
Untouched(op) ==
  pc[op] \in {"preparing", "draining", "capturing", "restoring"} \/ Is(op, "abort", "sent")

\* Until its commit is known to have happened.
Touching(op) ==
  \/ pc[op] \in {"restoring", "compensating"}
  \/ Is(op, "commit", "sent") \/ Is(op, "commit", "refused")

Files ==
  /\ OriginalKept /\ (files # binding.turns => row.phase = "prepared")
  /\ \A op \in Ops :
       /\ Untouched(op) => files = binding.turns
       /\ Touching(op) => recovery = {binding.turns}
       /\ Is(op, "commit", "sent") => files = row.candidate

\* A rewind that is that far owns the reservation.
LEMMA OwnsRow ==
  ASSUME Base, NEW op \in Ops,
         Touching(op) \/ Is(op, "abort", "sent") \/ pc[op] \in {"draining", "capturing"}
  PROVE  RowIs(op, "prepared")
BY DEF Base, Protocol, Asked, Owns, Touching, Is

LEMMA OneActive ==
  ASSUME Base, NEW op \in Ops, NEW q \in Ops, Active(op), Active(q) PROVE op = q
<1>1. expected[op] \in Nat /\ expected[q] \in Nat
  BY DEF Base, Protocol, Line
<1>2. QED
  BY <1>1 DEF Base, Protocol, Line, Active

\* Another rewind of which something is known of the files while one is at them.
LEMMA OneOwner ==
  ASSUME Base, NEW op \in Ops, NEW q \in Ops, RowIs(op, "prepared"), Active(op),
         Touching(q) \/ Untouched(q)
  PROVE  op = q
<1>1. CASE Touching(q) \/ Is(q, "abort", "sent")
  BY <1>1, OwnsRow DEF RowIs
<1>2. CASE pc[q] \in {"preparing", "draining", "capturing", "restoring"}
  BY <1>2, OneActive DEF Active, Begun, Settled
<1>3. QED
  BY <1>1, <1>2 DEF Untouched

\* Steps that leave files and histories alone and bring no rewind nearer to them.
LEMMA FilesLeft ==
  ASSUME Files, UNCHANGED <<files, recovery>>, binding'.turns = binding.turns,
         \A q \in Ops : /\ Untouched(q)' => Untouched(q)
                        /\ Touching(q)' => Touching(q)
                        /\ Is(q, "commit", "sent")' =>
                             Is(q, "commit", "sent") /\ row'.candidate = row.candidate,
         files # binding.turns /\ row.phase = "prepared" => row'.phase = "prepared",
         row'.phase = "committed" => row.phase = "committed"
  PROVE  Files'
BY DEF Files, OriginalKept

LEMMA ReactorFiles ==
  ASSUME Base, Transcript, Files, NEW op \in Ops, Request(op) \/ ReactorStep(op)
  PROVE  Files'
<1>0. /\ UNCHANGED row /\ binding'.turns = binding.turns
      /\ \A q \in Ops : q # op => pc'[q] = pc[q] /\ call'[q] = call[q]
      /\ pc \in [Ops -> Steps] /\ call \in [Ops -> Call]
  BY AsideStill, ReactorOwn DEF Base, Aside, Protocol, Line, LockInv
<1>1. \A q \in Ops : q # op => /\ Untouched(q)' = Untouched(q) /\ Touching(q)' = Touching(q)
                               /\ \A m, a : Is(q, m, a)' = Is(q, m, a)
  BY <1>0 DEF Untouched, Touching, Is
<1>2. ASSUME UNCHANGED <<files, recovery>>,
             /\ Untouched(op)' => Untouched(op)
             /\ Touching(op)' => Touching(op)
             /\ Is(op, "commit", "sent")' => Is(op, "commit", "sent")
      PROVE  Files'
  BY <1>0, <1>1, <1>2, FilesLeft
\* Moves that leave the files.
<1>3. CASE \/ Prepared(op) \/ Drained(op) \/ DrainTimesOut(op) \/ CommitRefusedSeen(op)
           \/ Committed(op) \/ CompleteFails(op) \/ Finished(op) \/ CleanUpFails(op)
  <2>1. UNCHANGED <<files, recovery, call>>
    BY <1>3 DEF Prepared, Drained, DrainTimesOut, CommitRefusedSeen, Committed, CompleteFails,
                Finished, CleanUpFails, Moves, git, daemon
  <2>2. \/ pc[op] = "preparing" /\ pc'[op] = "draining"
        \/ pc[op] = "draining" /\ pc'[op] \in {"capturing", "failed"}
        \/ pc'[op] = "compensating" /\ Is(op, "commit", "refused")
        \/ pc'[op] \in {"completing", "failed", "cleaning"}
    BY <1>0, <1>3 DEF Prepared, Drained, DrainTimesOut, CommitRefusedSeen, Committed,
       CompleteFails, Finished, CleanUpFails, Moves, Goes, Knows, Base, Protocol, Asked, Is
  <2>3. QED
    BY <1>2, <2>1, <2>2 DEF Untouched, Touching, Is
<1>4. CASE Decline(op) \/ GivesUp(op) \/ LoseAnswer(op) \/ Request(op)
  <2>1. UNCHANGED <<files, recovery, call>> /\ pc'[op] \in {"failed", "queued"}
    BY <1>0, <1>4 DEF Decline, GivesUp, LoseAnswer, Request, git, daemon, Goes
  <2>2. QED
    BY <1>2, <2>1 DEF Untouched, Touching, Is
<1>5. CASE Begin(op)
  <2>1. UNCHANGED <<files, recovery>> /\ recovery = {}
        /\ pc'[op] = "preparing" /\ Is(op, "prepare", "sent")'
    BY <1>0, <1>5, CallsAt DEF Begin, git, Calls, Goes, Is
  <2>2. files = binding.turns
    BY <2>1 DEF Files, OriginalKept
  <2>3. ~Touching(op)' /\ ~Is(op, "commit", "sent")'
    BY <2>1 DEF Touching, Is
  <2>4. QED
    BY <1>0, <1>1, <2>1, <2>2, <2>3 DEF Files, OriginalKept
<1>6. CASE Complete(op)
  <2>1. /\ UNCHANGED <<files, recovery>> /\ pc'[op] \in {"finishing", "failed"}
        /\ UNCHANGED call \/ Is(op, "finish", "sent")'
    BY <1>0, <1>6, CallsAt DEF Complete, git, Calls, Goes, Is
  <2>2. QED
    BY <1>2, <2>1 DEF Untouched, Touching, Is
<1>7. CASE Aborted(op) \/ CleanUp(op)
  <2>1. /\ UNCHANGED <<files, call>> /\ recovery' \in {recovery, {}}
        /\ row.phase \in {"aborted", "finished"}
        /\ pc'[op] \in {"failed", "done"}
    BY <1>0, <1>7 DEF Aborted, CleanUp, Moves, Goes, Knows, daemon, Base, Protocol, Asked, Owns,
                      Is, RowIs
  <2>2. files = binding.turns
    BY <2>1 DEF Files
  <2>3. \A q \in Ops : ~Touching(q)' /\ ~Is(q, "commit", "sent")'
    <3>1. \A q \in Ops : ~Touching(q)
      BY <2>1, OwnsRow DEF RowIs
    <3>2. QED
      BY <1>1, <2>1, <3>1 DEF Touching, Is
  <2>4. QED
    BY <1>0, <2>1, <2>2, <2>3 DEF Files, OriginalKept
\* The rewind at the files.
<1>8. ASSUME RowIs(op, "prepared"), Active(op), recovery' = {binding.turns},
             /\ Untouched(op)' => files' = binding.turns
             /\ Is(op, "commit", "sent")' => files' = row.candidate
      PROVE  Files'
  <2>1. \A q \in Ops : q # op => ~Untouched(q)' /\ ~Touching(q)' /\ ~Is(q, "commit", "sent")'
    <3>1. \A q \in Ops : q # op => ~Untouched(q) /\ ~Touching(q)
      BY <1>8, OneOwner
    <3>2. QED
      BY <1>1, <3>1 DEF Touching
  <2>2. QED
    BY <1>0, <1>8, <2>1 DEF Files, OriginalKept, RowIs
<1>9. pc[op] \in {"capturing", "restoring", "compensating"} => RowIs(op, "prepared") /\ Active(op)
  BY OwnsRow DEF Touching, Active, Begun, Settled
<1>10. CASE Capture(op)
  <2>1. /\ pc[op] = "capturing" /\ pc'[op] = "restoring" /\ recovery' = {files}
        /\ UNCHANGED <<files, call>>
    BY <1>0, <1>10 DEF Capture, Moves, Goes, daemon
  <2>2. files = binding.turns /\ ~Is(op, "commit", "sent")
    BY <2>1 DEF Files, Untouched, Base, Protocol, Asked, Is
  <2>3. QED
    BY <1>8, <1>9, <2>1, <2>2 DEF Is
<1>11. CASE CaptureFails(op)
  <2>1. /\ pc[op] = "capturing" /\ pc'[op] = "aborting" /\ UNCHANGED <<files, recovery>>
        /\ Is(op, "abort", "sent")'
    BY <1>0, <1>11, CallsAt DEF CaptureFails, git, Calls, Goes, Is
  <2>2. QED
    BY <1>2, <2>1 DEF Untouched, Touching, Is
<1>12. CASE Restore(op)
  <2>1. /\ pc[op] = "restoring" /\ pc'[op] = "committing" /\ UNCHANGED recovery
        /\ files' = Prefix(projected, TargetOf[op]) /\ Is(op, "commit", "sent")'
    BY <1>0, <1>12, CallsAt DEF Restore, Calls, Goes, Is
  <2>2. recovery = {binding.turns}
    BY <2>1 DEF Files, Touching
  <2>3. files' = row.candidate
    BY <1>9, <2>1 DEF Transcript, Follows, RowIs
  <2>4. QED
    BY <1>8, <1>9, <2>1, <2>2, <2>3 DEF Untouched, Is
<1>13. CASE RestoreFails(op) \/ CompensateFails(op)
  <2>1. /\ pc[op] \in {"restoring", "compensating"} /\ pc'[op] \in {"compensating", "failed"}
        /\ UNCHANGED <<recovery, call>>
    BY <1>0, <1>13 DEF RestoreFails, CompensateFails, Moves, Goes, daemon
  <2>2. recovery = {binding.turns}
    BY <2>1 DEF Files, Touching
  <2>3. ~Is(op, "commit", "sent") /\ ~Is(op, "abort", "sent")
    BY <2>1 DEF Base, Protocol, Asked, Is
  <2>4. QED
    BY <1>8, <1>9, <2>1, <2>2, <2>3 DEF Untouched, Is
<1>14. CASE Compensate(op)
  <2>1. /\ pc[op] = "compensating" /\ pc'[op] = "aborting" /\ UNCHANGED recovery
        /\ files' \in recovery /\ Is(op, "abort", "sent")'
    BY <1>0, <1>14, CallsAt DEF Compensate, Calls, Goes, Is
  <2>2. recovery = {binding.turns}
    BY <2>1 DEF Files, Touching
  <2>3. QED
    BY <1>8, <1>9, <2>1, <2>2 DEF Is
<1>15. QED
  BY <1>3, <1>4, <1>5, <1>6, <1>7, <1>10, <1>11, <1>12, <1>13, <1>14 DEF ReactorStep

LEMMA CallsFiles ==
  ASSUME Base, Transcript, Files, NEW op \in Ops, CallStep(op)
  PROVE  Files'
<1>0. /\ UNCHANGED <<pc, files, recovery>>
      /\ \A q \in Ops : q # op => call'[q] = call[q]
      /\ call'[op].method = call[op].method /\ call'[op].at # "sent"
  BY CallsOwn
<1>1. \A q \in Ops : q # op => /\ Untouched(q)' = Untouched(q) /\ Touching(q)' = Touching(q)
                               /\ \A m, a : Is(q, m, a)' = Is(q, m, a)
  BY <1>0 DEF Untouched, Touching, Is
<1>2. Untouched(op)' => Untouched(op)
  BY <1>0 DEF Untouched, Is
<1>3. ~Is(op, "commit", "sent")' /\ ~Is(op, "abort", "sent")'
  BY <1>0 DEF Is
<1>4. CASE Commit(op)
  <2>1. /\ RowIs(op, "prepared") /\ RowIs(op, "committed")' /\ Is(op, "commit", "sent")
        /\ binding'.turns = row.candidate /\ Is(op, "commit", "ok")'
    <3>1. row.op = op /\ row.phase = "prepared" /\ row' = [row EXCEPT !.phase = "committed"]
      BY <1>4 DEF Commit
    <3>2. row'.phase = "committed" /\ row'.op = op
      BY <3>1, PhaseExcept DEF Base, Protocol, LockInv
    <3>3. Is(op, "commit", "sent") /\ Answers(op, "ok") /\ binding'.turns = row.candidate
      BY <1>4 DEF Commit, Sent, Is
    <3>4. Is(op, "commit", "ok")'
      BY <3>3, AnswerAt DEF Base, Protocol, LockInv, Is
    <3>5. QED
      BY <3>1, <3>2, <3>3, <3>4 DEF RowIs
  <2>2. files' = binding'.turns /\ recovery' # {}
    BY <1>0, <2>1 DEF Files, Touching
  <2>3. \A q \in Ops : ~Touching(q)'
    <3>1. \A q \in Ops : q # op => ~Touching(q)
      BY <2>1, OwnsRow DEF RowIs
    <3>2. pc[op] \notin {"restoring", "compensating"}
      BY <2>1 DEF Base, Protocol, Asked, Is
    <3>3. QED
      BY <1>0, <1>1, <2>1, <3>1, <3>2 DEF Touching, Is
  <2>4. QED
    BY <2>1, <2>2, <2>3 DEF Files, OriginalKept, Touching, RowIs
<1>5. ASSUME ~Commit(op) PROVE Files'
  <2>1. binding'.turns = binding.turns
    BY <1>5, CallsStill DEF Still
  <2>2. CASE UNCHANGED row /\ (Is(op, "commit", "refused")' => Is(op, "commit", "sent"))
    <3>1. Touching(op)' => Touching(op)
      BY <1>0, <1>3, <2>2 DEF Touching
    <3>2. QED
      BY <1>0, <1>1, <1>2, <1>3, <2>1, <2>2, <3>1, FilesLeft
  <2>3. CASE PrepareRefused(op) \/ CommitRefused(op) \/ CommitFails(op) \/ FinishFails(op)
    <3>1. UNCHANGED row
      BY <2>3, AsideStill DEF Base, Aside
    <3>2. call[op].at = "sent"
      BY <2>3 DEF PrepareRefused, CommitRefused, CommitFails, FinishFails, Sent
    <3>3. QED
      BY <1>0, <2>2, <3>1, <3>2 DEF Is
  <2>4. CASE Retire(op) \/ PrepareUncertain(op)
    <3>1. UNCHANGED row /\ Held(op)
      BY <2>4 DEF Retire, PrepareUncertain, durable, Held
    <3>2. call[op].method = "prepare"
      BY <3>1 DEF Base, Protocol, Asked
    <3>3. QED
      BY <1>0, <2>2, <3>1, <3>2 DEF Is
  <2>5. CASE Reserve(op) \/ RefusePreparing(op) \/ MarkPrepared(op) \/ Finish(op)
    <3>1. /\ call[op].method \in {"prepare", "abort", "finish"} /\ row'.phase # "committed"
          /\ \/ row.phase # "prepared"
             \/ RowIs(op, "prepared") /\ Is(op, "abort", "sent")
      <4>1. CASE Reserve(op)
        BY <4>1 DEF Reserve, Sent, Pending
      <4>2. CASE RefusePreparing(op) \/ MarkPrepared(op)
        <5>1. Held(op) /\ RowIs(op, "preparing") /\ call[op].method = "prepare"
          BY <4>2 DEF RefusePreparing, MarkPrepared, Held, Base, Protocol, LockInv, Asked, RowIs
        <5>2. row'.phase \in {"refused", "prepared"}
          <6>1. RefusePreparing(op) => row' = [row EXCEPT !.phase = "refused"]
            BY DEF RefusePreparing
          <6>2. ASSUME RefusePreparing(op) PROVE row'.phase = "refused"
            <7>1. IsRow(row) /\ row' = [row EXCEPT !.phase = "refused"]
              BY <6>1, <6>2 DEF Base, Protocol, LockInv
            <7>2. QED
              BY <7>1, PhaseExcept
          <6>3. MarkPrepared(op) => row'.phase = "prepared"
            BY MarkedRow DEF Base, Protocol, LockInv
          <6>4. QED
            BY <4>2, <6>2, <6>3
        <5>3. QED
          BY <5>1, <5>2 DEF RowIs
      <4>3. CASE Finish(op)
        <5> DEFINE phase == IF call[op].method = "abort" THEN "aborted" ELSE "finished"
        <5>1. row' = [row EXCEPT !.phase = phase] /\ CanFinish(op) /\ call[op].at = "sent"
          BY <4>3 DEF Finish, Sent
        <5>2. phase # "committed"
          OBVIOUS
        <5> HIDE DEF phase
        <5>3. row'.phase # "committed"
          BY <5>1, <5>2, PhaseExcept DEF Base, Protocol, LockInv
        <5>4. QED
          BY <5>1, <5>3 DEF CanFinish, RowIs, Is
      <4>4. QED
        BY <2>5, <4>1, <4>2, <4>3
    <3>2. files = binding.turns
      BY <3>1 DEF Files, Untouched
    <3>3. \A q \in Ops : ~Touching(q)
      <4>1. ASSUME NEW q \in Ops, Touching(q) PROVE q = op /\ Is(op, "abort", "sent")
        BY <3>1, <4>1, OwnsRow DEF RowIs
      <4>2. ~Touching(op) \/ ~Is(op, "abort", "sent")
        BY DEF Touching, Base, Protocol, Asked, Is
      <4>3. QED
        BY <4>1, <4>2
    <3>4. \A q \in Ops : ~Touching(q)'
      BY <1>0, <1>1, <3>1, <3>3 DEF Touching, Is
    <3>5. QED
      BY <1>0, <2>1, <3>1, <3>2, <3>4 DEF Files, OriginalKept, Touching
  <2>6. QED
    BY <1>5, <2>3, <2>4, <2>5 DEF CallStep
<1>6. QED
  BY <1>4, <1>5

LEMMA FilesKept ==
  ASSUME Base, Transcript, Files, [Next]_vars PROVE Files'
<1>1. CASE /\ UNCHANGED <<files, recovery, pc, call, row>> /\ binding'.turns = binding.turns
  BY <1>1, FilesLeft DEF Untouched, Touching, Is
<1>2. CASE \/ UNCHANGED vars \/ Prompt \/ RefuseTurn \/ Publish \/ Receive \/ Admit \/ Project
           \/ \E t \in 1..MaxTurns : EmitLate(t)
  BY <1>1, <1>2 DEF vars, Prompt, RefuseTurn, EmitLate, Publish, Receive, Admit, Project, durable,
                    git, daemon, reactor
<1>3. CASE StartTurn
  <2>1. binding'.turns = binding.turns
    BY <1>3, StartCursor DEF Base
  <2>2. QED
    BY <1>1, <1>3, <2>1 DEF StartTurn, git
<1>4. CASE FinishTurn
  <2>1. /\ UNCHANGED <<row, recovery, pc, call>> /\ row.phase \notin {"prepared", "committed"}
        /\ files' = Append(files, turns)
        /\ binding' = [binding EXCEPT !.turns = Append(@, turns)]
    BY <1>4 DEF FinishTurn, reactor, Base, Runtimes
  <2>2. binding'.turns = Append(binding.turns, turns)
    BY <2>1, CursorExcept DEF Base, Protocol, LockInv
  <2>3. files' = binding'.turns
    BY <2>1, <2>2 DEF Files
  <2>4. \A q \in Ops : ~Touching(q)
    BY <2>1, OwnsRow DEF RowIs
  <2>5. \A q \in Ops : ~Touching(q)'
    BY <2>1, <2>4 DEF Touching, Is
  <2>6. QED
    BY <2>1, <2>3, <2>5 DEF Files, OriginalKept, Touching
<1>5. CASE BackendCrash
  <2>1. /\ UNCHANGED <<files, recovery, call, row, binding>>
        /\ \A q \in Ops : pc'[q] = pc[q] \/ pc'[q] = "lost"
    BY <1>5 DEF BackendCrash, durable, git, daemon
  <2>2. QED
    BY <2>1, FilesLeft DEF Untouched, Touching, Is
<1>6. CASE DaemonCrash
  <2>1. /\ UNCHANGED <<files, recovery, pc, row, binding>>
        /\ \A q \in Ops : call'[q] = call[q] \/ call'[q].at = "unknown"
    BY <1>6 DEF DaemonCrash, durable, git, reactor, Answered
  <2>2. QED
    BY <2>1, FilesLeft DEF Untouched, Touching, Is
<1>7. ASSUME NEW op \in Ops, Request(op) \/ ReactorStep(op) PROVE Files'
  BY <1>7, ReactorFiles
<1>8. ASSUME NEW op \in Ops, CallStep(op) PROVE Files'
  BY <1>8, CallsFiles
<1>9. QED
  BY <1>2, <1>3, <1>4, <1>5, <1>6, <1>7, <1>8 DEF Next

LEMMA InitFiles == Init => Files
<1> SUFFICES ASSUME Init PROVE Files
  OBVIOUS
<1>1. /\ files = binding.turns /\ row.phase = None
      /\ \A op \in Ops : Is(op, None, None) /\ pc[op] = "unasked"
  BY DEF Init, NoRow, NoCall, Is
<1>2. QED
  BY <1>1 DEF Files, OriginalKept, Touching, Untouched, Is, None

Whole == Base /\ Transcript /\ Files

LEMMA InitWhole == Init => Whole
BY InitProtocol, InitRuntimes, InitTranscript, InitFiles DEF Whole, Base

LEMMA WholeKept == ASSUME Whole, [Next]_vars PROVE Whole'
BY TranscriptKept, FilesKept DEF Whole

\* As long as the workspace is anywhere else than the provider's history, the recovery ref
\* holds the workspace of that history, and some original is kept until the reservation of
\* a committed rewind is released.
THEOREM OriginalAlwaysKept == Spec => []OriginalKept
<1>1. Init => Whole
  BY InitWhole
<1>2. Whole /\ [Next]_vars => Whole'
  BY WholeKept
<1>3. Whole => OriginalKept
  BY DEF Whole, Files
<1>4. QED
  BY <1>1, <1>2, <1>3, PTL DEF Spec

-----------------------------------------------------------------------------
(* The rewind implements the guarded history *)

LEMMA GrownPrefix ==
  ASSUME NEW s \in Seq(Nat), NEW n \in Nat
  PROVE  /\ Len(Append(s, n)) = Len(s) + 1
         /\ SubSeq(Append(s, n), 1, Len(s)) = s
<1> DEFINE t == Append(s, n)
           m == Len(s)
<1>1. /\ t \in Seq(Nat) /\ Len(t) = m + 1 /\ m \in Nat /\ \A i \in 1..m : t[i] = s[i]
  BY Grown
<1> HIDE DEF t
<1>2. m <= Len(t)
  BY <1>1
<1> HIDE DEF m
<1>3. /\ Prefix(t, m) \in Seq(Nat) /\ Len(Prefix(t, m)) = m
      /\ \A i \in 1..m : Prefix(t, m)[i] = t[i]
  BY <1>1, <1>2, PrefixOf
<1>4. Prefix(t, m) = s
  BY <1>1, <1>3, SeqEqual DEF m
<1>5. QED
  BY <1>1, <1>4 DEF t, m, Prefix

\* The commit cuts the history where the files already are.
LEMMA CommitCuts ==
  ASSUME Whole, NEW op \in Ops, Commit(op) PROVE Guarded!Next
<1>1. /\ RowIs(op, "prepared") /\ Is(op, "commit", "sent") /\ UNCHANGED files
      /\ row' = [row EXCEPT !.phase = "committed"] /\ binding'.turns = row.candidate
  BY DEF Commit, RowIs, Sent, Is, git
<1>2. Pending /\ Pending'
  BY <1>1, PhaseExcept DEF Whole, Base, Protocol, LockInv, RowIs, Pending
<1>3. /\ files = row.candidate /\ row.candidate = Prefix(binding.turns, TargetOf[op])
      /\ TargetOf[op] < Len(binding.turns)
  BY <1>1 DEF Whole, Files, Transcript, Follows, RowIs
<1> DEFINE n == TargetOf[op]
           m == Len(binding.turns)
<1>4. n \in Nat /\ m \in Nat /\ n < m
  BY <1>3, OpsAssumption, LenProperties DEF Whole, Transcript, Shape
<1>5. binding'.turns = SubSeq(binding.turns, 1, n)
  BY <1>1, <1>3 DEF Prefix
<1> HIDE DEF n, m
<1>6. n \in 0..(m - 1)
  BY <1>4
<1>7. Guarded!Cut
  BY <1>1, <1>2, <1>3, <1>5, <1>6 DEF Guarded!Cut, m
<1>8. QED
  BY <1>7 DEF Guarded!Next

LEMMA GuardedStep ==
  ASSUME Whole, [Next]_vars PROVE [Guarded!Next]_(Guarded!vars)
<1>0. /\ Base /\ Transcript /\ Files /\ IsRow(row)
      /\ \A q \in Ops : Held(q) => RowIs(q, "preparing")
  BY DEF Whole, Base, Protocol, LockInv, RowIs
<1>1. CASE UNCHANGED <<files, row>> /\ binding'.turns = binding.turns
  BY <1>1 DEF Guarded!vars, Pending
<1>2. CASE \/ UNCHANGED vars \/ Prompt \/ RefuseTurn \/ Publish \/ Receive \/ Admit \/ Project
           \/ BackendCrash \/ DaemonCrash
           \/ \E t \in 1..MaxTurns : EmitLate(t)
  BY <1>1, <1>2 DEF vars, Prompt, RefuseTurn, EmitLate, Publish, Receive, Admit, Project,
                    BackendCrash, DaemonCrash, durable, git
<1>3. CASE StartTurn
  <2>1. binding'.turns = binding.turns
    BY <1>0, <1>3, StartCursor
  <2>2. QED
    BY <1>1, <1>3, <2>1 DEF StartTurn, git
<1>4. CASE FinishTurn
  <2>1. /\ UNCHANGED row /\ ~Pending /\ files' = Append(files, turns)
        /\ binding' = [binding EXCEPT !.turns = Append(@, turns)]
    BY <1>0, <1>4 DEF FinishTurn, Base, Runtimes
  <2>2. binding'.turns = Append(binding.turns, turns) /\ files = binding.turns
    BY <1>0, <2>1, CursorExcept DEF Base, Protocol, LockInv, Files, Pending
  <2> DEFINE a == binding.turns
             b == Append(a, turns)
  <2>3. a \in Seq(Nat) /\ turns \in Nat
    BY <1>0 DEF Transcript, Shape
  <2> HIDE DEF a
  <2>4. Len(b) = Len(a) + 1 /\ SubSeq(b, 1, Len(a)) = a
    BY <2>3, GrownPrefix
  <2> HIDE DEF b
  <2>5. binding'.turns = b /\ files' = b /\ binding.turns = a
    BY <2>1, <2>2 DEF a, b
  <2>6. ~Pending'
    BY <2>1 DEF Pending
  <2>7. Guarded!Turn
    BY <2>1, <2>4, <2>5, <2>6 DEF Guarded!Turn
  <2>8. QED
    BY <2>7 DEF Guarded!Next
<1>5. ASSUME NEW op \in Ops, Request(op) \/ ReactorStep(op) PROVE [Guarded!Next]_(Guarded!vars)
  <2>1. UNCHANGED row /\ binding'.turns = binding.turns
    BY <1>0, <1>5, AsideStill DEF Base, Aside
  <2>2. CASE Restore(op) \/ RestoreFails(op) \/ Compensate(op) \/ CompensateFails(op)
    <3>1. pc[op] \in {"restoring", "compensating"}
      BY <2>2 DEF Restore, RestoreFails, Compensate, CompensateFails, Moves
    <3>2. Pending
      BY <1>0, <3>1, OwnsRow DEF Touching, RowIs, Pending
    <3>3. Pending'
      BY <2>1, <3>2 DEF Pending
    <3>4. Guarded!Touch
      BY <2>1, <3>2, <3>3 DEF Guarded!Touch
    <3>5. QED
      BY <3>4 DEF Guarded!Next
  <2>3. CASE ~(Restore(op) \/ RestoreFails(op) \/ Compensate(op) \/ CompensateFails(op))
    <3>1. UNCHANGED files
      <4>1. CASE \/ Prepared(op) \/ Drained(op) \/ DrainTimesOut(op) \/ Capture(op)
                 \/ CommitRefusedSeen(op) \/ Aborted(op) \/ Committed(op) \/ CompleteFails(op)
                 \/ Finished(op) \/ CleanUp(op) \/ CleanUpFails(op)
        BY <4>1 DEF Prepared, Drained, DrainTimesOut, Capture, CommitRefusedSeen, Aborted,
                    Committed, CompleteFails, Finished, CleanUp, CleanUpFails, git
      <4>2. CASE \/ Begin(op) \/ Decline(op) \/ CaptureFails(op) \/ Complete(op) \/ GivesUp(op)
                 \/ LoseAnswer(op) \/ Request(op)
        BY <4>2 DEF Begin, Decline, CaptureFails, Complete, GivesUp, LoseAnswer, Request, git
      <4>3. QED
        BY <1>5, <2>3, <4>1, <4>2 DEF ReactorStep
    <3>2. QED
      BY <1>1, <2>1, <3>1
  <2>4. QED
    BY <2>2, <2>3
<1>6. ASSUME NEW op \in Ops, CallStep(op), ~Commit(op) PROVE [Guarded!Next]_(Guarded!vars)
  <2>1. UNCHANGED files /\ binding'.turns = binding.turns
    BY <1>0, <1>6, CallsOwn, CallsStill DEF Still
  <2>2. PICK q \in Ops : UNCHANGED row \/ RowGoes(q)
    BY <1>0, RowGoesOn
  <2>3. CASE UNCHANGED row
    BY <1>1, <2>1, <2>3
  <2>4. CASE ~Pending /\ row'.phase = "preparing"
    <3>1. Pending'
      BY <2>4 DEF Pending
    <3>2. Guarded!Close
      BY <2>1, <2>4, <3>1 DEF Guarded!Close
    <3>3. QED
      BY <3>2 DEF Guarded!Next
  <2>5. CASE row.phase = "preparing" /\ row'.phase = "prepared"
    <3>1. Pending /\ Pending'
      BY <2>5 DEF Pending
    <3>2. Guarded!Touch
      BY <2>1, <3>1 DEF Guarded!Touch
    <3>3. QED
      BY <3>2 DEF Guarded!Next
  <2>6. CASE /\ Pending /\ row'.phase \in {"refused", "aborted", "finished"}
             /\ files = binding.turns
    <3>1. ~Pending'
      BY <2>6 DEF Pending
    <3>2. Guarded!Open
      BY <2>1, <2>6, <3>1 DEF Guarded!Open
    <3>3. QED
      BY <3>2 DEF Guarded!Next
  <2>7. CASE RowGoes(q)
    <3>1. CASE Finish(q) /\ CanFinish(q) /\ row.phase \in {"prepared", "committed"}
               /\ row'.phase = IF row.phase = "prepared" THEN "aborted" ELSE "finished"
      <4>1. row.phase = "prepared" => Is(q, "abort", "sent")
        BY <3>1 DEF Finish, CanFinish, Sent, Is
      <4>2. files = binding.turns
        BY <1>0, <3>1, <4>1 DEF Files, Untouched
      <4>3. QED
        BY <2>6, <3>1, <4>2 DEF Pending
    <3>2. CASE row.phase = "preparing" /\ row'.phase = "refused"
      <4>1. files = binding.turns
        BY <1>0, <3>2 DEF Files
      <4>2. QED
        BY <2>6, <3>2, <4>1 DEF Pending
    <3>3. CASE Commit(q)
      BY <3>3, CommitCuts
    <3>4. QED
      BY <2>4, <2>5, <2>7, <3>1, <3>2, <3>3 DEF RowGoes, RowIs
  <2>8. QED
    BY <2>2, <2>3, <2>7
<1>7. ASSUME NEW op \in Ops, Commit(op) PROVE [Guarded!Next]_(Guarded!vars)
  BY <1>7, CommitCuts
<1>8. QED
  BY <1>2, <1>3, <1>4, <1>5, <1>6, <1>7 DEF Next

\* The rewind implements the guarded history: the workspace is at the history the provider
\* continues from whenever the conversation takes turns, and no failure, crash, lost answer
\* or newer control splits them.
THEOREM RewindRefinesHistory == Spec => RefinesHistory
<1>1. Init => Guarded!Init
  <2> SUFFICES ASSUME Init PROVE Guarded!Init
    OBVIOUS
  <2>1. files = binding.turns /\ ~Pending
    BY DEF Init, NoRow, None, Pending
  <2>2. QED
    BY <2>1 DEF Guarded!Init
<1>2. Init => Whole
  BY InitWhole
<1>3. Whole /\ [Next]_vars => Whole'
  BY WholeKept
<1>4. Whole /\ [Next]_vars => [Guarded!Next]_(Guarded!vars)
  BY GuardedStep
<1>5. QED
  BY <1>1, <1>2, <1>3, <1>4, PTL DEF Spec, RefinesHistory, Guarded!Spec

=============================================================================
