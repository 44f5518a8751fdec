----------------------- MODULE ScheduledFollowupsProofs -----------------------
(***************************************************************************)
(* What holds of scheduled follow-ups for every set of schedules, every    *)
(* limit and every bound.  All steps but four leave what the owner has     *)
(* granted alone or take it back ("tame", below): the claim, the           *)
(* admission, the attempt and the hand-over to the provider are the four,  *)
(* and each of them is looked at on its own.                               *)
(***************************************************************************)
EXTENDS ScheduledFollowups, FiniteSetTheorems, TLAPS

-----------------------------------------------------------------------------
(* Rows *)

Row(schedule, revision, state, attempted, intent, receipt, turn) ==
  [schedule |-> schedule, revision |-> revision, state |-> state, attempted |-> attempted,
   intent |-> intent, receipt |-> receipt, turn |-> turn]

IsRow(w) == w = Row(w.schedule, w.revision, w.state, w.attempted, w.intent, w.receipt, w.turn)

\* An occurrence's row with another state.
LEMMA StateExcept ==
  ASSUME NEW w, IsRow(w), NEW v
  PROVE  [w EXCEPT !.state = v] =
           Row(w.schedule, w.revision, v, w.attempted, w.intent, w.receipt, w.turn)
<1> DEFINE r == [w EXCEPT !.state = v]
<1>1. r \in [schedule : {w.schedule}, revision : {w.revision}, state : {v},
             attempted : {w.attempted}, intent : {w.intent}, receipt : {w.receipt},
             turn : {w.turn}]
  BY DEF IsRow, Row
<1> HIDE DEF r
<1>2. r = Row(w.schedule, w.revision, v, w.attempted, w.intent, w.receipt, w.turn)
  BY <1>1 DEF Row
<1>3. QED
  BY <1>2 DEF r

\* With another receipt of its command.
LEMMA ReceiptExcept ==
  ASSUME NEW w, IsRow(w), NEW v
  PROVE  [w EXCEPT !.receipt = v] =
           Row(w.schedule, w.revision, w.state, w.attempted, w.intent, v, w.turn)
<1> DEFINE r == [w EXCEPT !.receipt = v]
<1>1. r \in [schedule : {w.schedule}, revision : {w.revision}, state : {w.state},
             attempted : {w.attempted}, intent : {w.intent}, receipt : {v}, turn : {w.turn}]
  BY DEF IsRow, Row
<1> HIDE DEF r
<1>2. r = Row(w.schedule, w.revision, w.state, w.attempted, w.intent, v, w.turn)
  BY <1>1 DEF Row
<1>3. QED
  BY <1>2 DEF r

\* With another state of its turn.
LEMMA TurnExcept ==
  ASSUME NEW w, IsRow(w), NEW v
  PROVE  [w EXCEPT !.turn = v] =
           Row(w.schedule, w.revision, w.state, w.attempted, w.intent, w.receipt, v)
<1> DEFINE r == [w EXCEPT !.turn = v]
<1>1. r \in [schedule : {w.schedule}, revision : {w.revision}, state : {w.state},
             attempted : {w.attempted}, intent : {w.intent}, receipt : {w.receipt}, turn : {v}]
  BY DEF IsRow, Row
<1> HIDE DEF r
<1>2. r = Row(w.schedule, w.revision, w.state, w.attempted, w.intent, w.receipt, v)
  BY <1>1 DEF Row
<1>3. QED
  BY <1>2 DEF r

\* Attempted.
LEMMA AttemptedExcept ==
  ASSUME NEW w, IsRow(w), NEW v
  PROVE  [w EXCEPT !.attempted = v] =
           Row(w.schedule, w.revision, w.state, v, w.intent, w.receipt, w.turn)
<1> DEFINE r == [w EXCEPT !.attempted = v]
<1>1. r \in [schedule : {w.schedule}, revision : {w.revision}, state : {w.state},
             attempted : {v}, intent : {w.intent}, receipt : {w.receipt}, turn : {w.turn}]
  BY DEF IsRow, Row
<1> HIDE DEF r
<1>2. r = Row(w.schedule, w.revision, w.state, v, w.intent, w.receipt, w.turn)
  BY <1>1 DEF Row
<1>3. QED
  BY <1>2 DEF r

\* Admitted with an intent.
LEMMA AdmittedExcept ==
  ASSUME NEW w, IsRow(w), NEW v, NEW i, NEW c
  PROVE  [w EXCEPT !.state = v, !.intent = i, !.receipt = c] =
           Row(w.schedule, w.revision, v, w.attempted, i, c, w.turn)
<1> DEFINE r == [w EXCEPT !.state = v, !.intent = i, !.receipt = c]
<1>1. r \in [schedule : {w.schedule}, revision : {w.revision}, state : {v},
             attempted : {w.attempted}, intent : {i}, receipt : {c}, turn : {w.turn}]
  BY DEF IsRow, Row
<1> HIDE DEF r
<1>2. r = Row(w.schedule, w.revision, v, w.attempted, i, c, w.turn)
  BY <1>1 DEF Row
<1>3. QED
  BY <1>2 DEF r

\* A row that is claimed.
LEMMA ClaimedExcept ==
  ASSUME NEW s, NEW n
  PROVE  [NoRun EXCEPT !.schedule = s, !.revision = n, !.state = "waiting"] =
           Row(s, n, "waiting", FALSE, 0, "none", "none")
<1> DEFINE r == [NoRun EXCEPT !.schedule = s, !.revision = n, !.state = "waiting"]
<1>1. r \in [schedule : {s}, revision : {n}, state : {"waiting"}, attempted : {FALSE},
             intent : {0}, receipt : {"none"}, turn : {"none"}]
  BY DEF NoRun
<1> HIDE DEF r
<1>2. r = Row(s, n, "waiting", FALSE, 0, "none", "none")
  BY <1>1 DEF Row
<1>3. QED
  BY <1>2 DEF r

SRow(state, revision, next, count) ==
  [state |-> state, revision |-> revision, next |-> next, count |-> count]

IsSRow(w) == w = SRow(w.state, w.revision, w.next, w.count)

\* A schedule's row with another state and next date.
LEMMA ChangedExcept ==
  ASSUME NEW w, IsSRow(w), NEW v, NEW n
  PROVE  [w EXCEPT !.state = v, !.next = n] = SRow(v, w.revision, n, w.count)
<1> DEFINE r == [w EXCEPT !.state = v, !.next = n]
<1>1. r \in [state : {v}, revision : {w.revision}, next : {n}, count : {w.count}]
  BY DEF IsSRow, SRow
<1> HIDE DEF r
<1>2. r = SRow(v, w.revision, n, w.count)
  BY <1>1 DEF SRow
<1>3. QED
  BY <1>2 DEF r

\* With another revision as well.
LEMMA RevisedRow ==
  ASSUME schedules \in [Schedules -> ScheduleRow], NEW s \in Schedules, NEW v, NEW n
  PROVE  Revised(s, v, n) = SRow(v, schedules[s].revision + 1, n, schedules[s].count)
<1> DEFINE r == Revised(s, v, n)
<1>1. r \in [state : {v}, revision : {schedules[s].revision + 1}, next : {n},
             count : {schedules[s].count}]
  BY DEF Revised, ScheduleRow
<1> HIDE DEF r
<1>2. r = SRow(v, schedules[s].revision + 1, n, schedules[s].count)
  BY <1>1 DEF SRow
<1>3. QED
  BY <1>2 DEF r

\* With another count of attempts.
LEMMA CountExcept ==
  ASSUME NEW w, IsSRow(w), NEW n
  PROVE  [w EXCEPT !.count = n] = SRow(w.state, w.revision, w.next, n)
<1> DEFINE r == [w EXCEPT !.count = n]
<1>1. r \in [state : {w.state}, revision : {w.revision}, next : {w.next}, count : {n}]
  BY DEF IsSRow, SRow
<1> HIDE DEF r
<1>2. r = SRow(w.state, w.revision, w.next, n)
  BY <1>1 DEF SRow
<1>3. QED
  BY <1>2 DEF r

\* A function changed at one argument.
LEMMA ExceptAt ==
  ASSUME NEW D, NEW T, NEW f \in [D -> T], NEW d \in D, NEW v \in T
  PROVE  /\ [f EXCEPT ![d] = v] \in [D -> T]
         /\ [f EXCEPT ![d] = v][d] = v
         /\ \A e \in D : e # d => [f EXCEPT ![d] = v][e] = f[e]
OBVIOUS

-----------------------------------------------------------------------------
(* Tame steps *)

\* A row moves on, or is skipped before its attempt; it is neither claimed nor admitted.
RowMoves(w, v) ==
  /\ v.schedule = w.schedule /\ v.revision = w.revision
  /\ v.attempted = w.attempted /\ v.intent = w.intent
  /\ \/ v.state = w.state
     \/ w.state \in Unfinished /\ v.state \in Final /\ (v.state = "skipped" => ~w.attempted)
     \/ w.state \in Admitted /\ v.state \in {"running", "unknown"}

\* A schedule becomes active only at a new revision.
ScheduleMoves(w, v) ==
  /\ v.count = w.count /\ v.revision >= w.revision
  /\ v.revision = w.revision /\ v.state = "active" => w.state = "active"

RunsTame(f) == f \in [Runs -> RunRow] /\ \A q \in Runs : RowMoves(runs[q], f[q])
SchedulesTame(g) ==
  g \in [Schedules -> ScheduleRow] /\ \A s \in Schedules : ScheduleMoves(schedules[s], g[s])

Rows == runs \in [Runs -> RunRow] /\ schedules \in [Schedules -> ScheduleRow]

LEMMA SameTame == ASSUME Rows PROVE RunsTame(runs) /\ SchedulesTame(schedules)
BY DEF Rows, RunsTame, SchedulesTame, RowMoves, ScheduleMoves, ScheduleRow

\* One row is replaced by one it may move to.
LEMMA OneRowTame ==
  ASSUME NEW f, RunsTame(f), NEW r \in Runs, NEW w, w \in RunRow, RowMoves(runs[r], w)
  PROVE  RunsTame([f EXCEPT ![r] = w])
<1> DEFINE g == [f EXCEPT ![r] = w]
<1>1. /\ g \in [Runs -> RunRow] /\ g[r] = w
      /\ \A q \in Runs : q # r => g[q] = f[q]
  BY ExceptAt DEF RunsTame
<1> HIDE DEF g
<1>2. RunsTame(g)
  BY <1>1 DEF RunsTame
<1>3. QED
  BY <1>2 DEF g

\* The state of a row moves on.
LEMMA MovedTame ==
  ASSUME Rows, NEW r \in Runs, NEW state,
         \/ runs[r].state \in Unfinished /\ state \in Final
            /\ (state = "skipped" => ~runs[r].attempted)
         \/ runs[r].state \in Admitted /\ state \in {"running", "unknown"}
  PROVE  RunsTame(Moved(r, state))
<1> DEFINE w == runs[r]
           x == [w EXCEPT !.state = state]
           y == Row(w.schedule, w.revision, state, w.attempted, w.intent, w.receipt, w.turn)
<1>1. w \in RunRow /\ IsRow(w)
  BY DEF IsRow, Row, RunRow, Rows
<1>2. y \in RunRow /\ RowMoves(runs[r], y)
  BY <1>1 DEF Row, RunRow, RowMoves, Admitted, Final, Unfinished, States
<1>3. Moved(r, state) = [runs EXCEPT ![r] = x]
  BY DEF Moved
<1>4. x = y
  BY <1>1, StateExcept
<1> HIDE DEF x, y
<1>5. RunsTame([runs EXCEPT ![r] = y])
  BY <1>2, SameTame, OneRowTame
<1>6. QED
  BY <1>3, <1>4, <1>5, Zenon

LEMMA ReceivedTame ==
  ASSUME Rows, NEW r \in Runs, NEW receipt \in {"none", "accepted", "busy", "refused"}
  PROVE  RunsTame(Received(r, receipt))
<1> DEFINE w == runs[r]
           x == [w EXCEPT !.receipt = receipt]
           y == Row(w.schedule, w.revision, w.state, w.attempted, w.intent, receipt, w.turn)
<1>1. w \in RunRow /\ IsRow(w)
  BY DEF IsRow, Row, RunRow, Rows
<1>2. y \in RunRow /\ RowMoves(runs[r], y)
  BY <1>1 DEF Row, RunRow, RowMoves
<1>3. Received(r, receipt) = [runs EXCEPT ![r] = x]
  BY DEF Received
<1>4. x = y
  BY <1>1, ReceiptExcept
<1> HIDE DEF x, y
<1>5. RunsTame([runs EXCEPT ![r] = y])
  BY <1>2, SameTame, OneRowTame
<1>6. QED
  BY <1>3, <1>4, <1>5, Zenon

\* What a turn has come to.
LEMMA TurnTame ==
  ASSUME NEW f, RunsTame(f), NEW r \in Runs, NEW turn \in Outcomes \cup {"none", "running"}
  PROVE  RunsTame([f EXCEPT ![r] = [@ EXCEPT !.turn = turn]])
<1> DEFINE w == f[r]
           x == [w EXCEPT !.turn = turn]
           y == Row(w.schedule, w.revision, w.state, w.attempted, w.intent, w.receipt, turn)
<1>1. w \in RunRow /\ IsRow(w) /\ RowMoves(runs[r], w)
  BY DEF IsRow, Row, RunRow, RunsTame
<1>2. y \in RunRow /\ RowMoves(runs[r], y)
  BY <1>1 DEF Row, RunRow, RowMoves
<1>3. [f EXCEPT ![r] = [@ EXCEPT !.turn = turn]] = [f EXCEPT ![r] = x]
  OBVIOUS
<1>4. x = y
  BY <1>1, TurnExcept
<1> HIDE DEF x, y
<1>5. RunsTame([f EXCEPT ![r] = y])
  BY <1>2, OneRowTame
<1>6. QED
  BY <1>3, <1>4, <1>5, Zenon

LEMMA ClosedTame ==
  ASSUME NEW f, RunsTame(f), NEW outcome \in Outcomes
  PROVE  RunsTame(Closed(f, outcome))
BY TurnTame DEF Closed, Outcomes

LEMMA BoundTame ==
  ASSUME NEW f, RunsTame(f) PROVE RunsTame(Bound(f))
BY TurnTame DEF Bound, Outcomes

LEMMA InvalidatedTame ==
  ASSUME Rows, NEW rs PROVE RunsTame(Invalidated(rs))
<1> DEFINE skip(q) == q \in rs /\ runs[q].state \in {"waiting", "dispatching"} /\ ~runs[q].attempted
           x(q) == [runs[q] EXCEPT !.state = "skipped"]
           y(q) == Row(runs[q].schedule, runs[q].revision, "skipped", runs[q].attempted,
                       runs[q].intent, runs[q].receipt, runs[q].turn)
           f == [q \in Runs |-> IF skip(q) THEN y(q) ELSE runs[q]]
<1>1. \A q \in Runs : x(q) = y(q)
  <2> TAKE q \in Runs
  <2> DEFINE w == runs[q]
  <2>1. IsRow(w)
    BY DEF IsRow, Row, RunRow, Rows
  <2> HIDE DEF w
  <2>2. [w EXCEPT !.state = "skipped"] =
          Row(w.schedule, w.revision, "skipped", w.attempted, w.intent, w.receipt, w.turn)
    BY <2>1, StateExcept
  <2>3. QED
    BY <2>2 DEF w
<1>2. Invalidated(rs) = [q \in Runs |-> IF skip(q) THEN x(q) ELSE runs[q]]
  BY DEF Invalidated
<1> HIDE DEF x
<1>3. Invalidated(rs) = f
  BY <1>1, <1>2
<1>4. \A q \in Runs : f[q] \in RunRow /\ RowMoves(runs[q], f[q])
  <2> TAKE q \in Runs
  <2>1. runs[q] \in RunRow
    BY DEF Rows
  <2>2. CASE skip(q)
    <3>1. y(q) \in RunRow /\ RowMoves(runs[q], y(q))
      BY <2>1, <2>2 DEF Row, RunRow, RowMoves, Unfinished, Admitted, Final, States
    <3> HIDE DEF y
    <3>2. QED
      BY <2>2, <3>1
  <2>3. CASE ~skip(q)
    <3> HIDE DEF y, skip
    <3>1. f[q] = runs[q]
      BY <2>3
    <3>2. RowMoves(runs[q], runs[q])
      BY DEF RowMoves
    <3>3. QED
      BY <2>1, <3>1, <3>2
  <2>4. QED
    BY <2>2, <2>3
<1>5. f \in [Runs -> RunRow]
  <2> HIDE DEF y, skip
  <2>1. QED BY <1>4
<1> HIDE DEF f
<1>6. QED
  BY <1>3, <1>4, <1>5 DEF RunsTame

LEMMA OneScheduleTame ==
  ASSUME Rows, NEW s \in Schedules, NEW w, w \in ScheduleRow, ScheduleMoves(schedules[s], w)
  PROVE  SchedulesTame([schedules EXCEPT ![s] = w])
<1> DEFINE g == [schedules EXCEPT ![s] = w]
<1>1. /\ g \in [Schedules -> ScheduleRow] /\ g[s] = w
      /\ \A t \in Schedules : t # s => g[t] = schedules[t]
  BY ExceptAt DEF Rows
<1> HIDE DEF g
<1>2. SchedulesTame(g)
  BY <1>1, SameTame DEF SchedulesTame
<1>3. QED
  BY <1>2 DEF g

LEMMA ChangedTame ==
  ASSUME Rows, NEW s \in Schedules, NEW state \in {"active", "off", "deleted"},
         NEW next \in {"none", "date"}, state = "active" => schedules[s].state = "active"
  PROVE  SchedulesTame(Changed(s, state, next))
<1> DEFINE w == schedules[s]
           x == [w EXCEPT !.state = state, !.next = next]
           y == SRow(state, w.revision, next, w.count)
<1>1. w \in ScheduleRow /\ IsSRow(w)
  BY DEF IsSRow, SRow, ScheduleRow, Rows
<1>2. y \in ScheduleRow /\ ScheduleMoves(schedules[s], y)
  BY <1>1 DEF SRow, ScheduleRow, ScheduleMoves
<1>3. Changed(s, state, next) = [schedules EXCEPT ![s] = x]
  BY DEF Changed
<1>4. x = y
  BY <1>1, ChangedExcept
<1> HIDE DEF x, y
<1>5. SchedulesTame([schedules EXCEPT ![s] = y])
  BY <1>2, OneScheduleTame
<1>6. QED
  BY <1>3, <1>4, <1>5, Zenon

\* The owner's edits: a new revision, in whichever state.
LEMMA RevisedMoves ==
  ASSUME Rows, NEW s \in Schedules, NEW state \in {"active", "off", "deleted"},
         NEW next \in {"none", "date"}
  PROVE  Revised(s, state, next) \in ScheduleRow
         /\ ScheduleMoves(schedules[s], Revised(s, state, next))
<1>1. schedules[s] \in ScheduleRow
  BY DEF Rows
<1>2. Revised(s, state, next) = SRow(state, schedules[s].revision + 1, next, schedules[s].count)
  BY RevisedRow DEF Rows
<1>3. QED
  BY <1>1, <1>2 DEF SRow, ScheduleRow, ScheduleMoves

\* An occurrence that has a schedule.
LEMMA RetiredTame ==
  ASSUME Rows, NEW r \in Runs, runs[r].schedule \in Schedules
  PROVE  SchedulesTame(Retired(r))
BY ChangedTame, SameTame DEF Retired

\* The owner's controls switch every active schedule off.
LEMMA FenceTame ==
  ASSUME Rows, Fence PROVE SchedulesTame(schedules')
<1> DEFINE y(s) == Revised(s, "off", "none")
           g == [s \in Schedules |-> IF schedules[s].state = "active" THEN y(s) ELSE schedules[s]]
<1>1. schedules' = g
  BY DEF Fence
<1>2. \A s \in Schedules : y(s) \in ScheduleRow /\ ScheduleMoves(schedules[s], y(s))
  BY RevisedMoves
<1> HIDE DEF y
<1>3. \A s \in Schedules : g[s] \in ScheduleRow /\ ScheduleMoves(schedules[s], g[s])
  BY <1>2, SameTame DEF SchedulesTame
<1>4. g \in [Schedules -> ScheduleRow]
  BY <1>3
<1> HIDE DEF g
<1>5. QED
  BY <1>1, <1>3, <1>4 DEF SchedulesTame

-----------------------------------------------------------------------------
(* The invariant *)

\* What the rows, the counters and the worker keep to each other.
RowsInv ==
  /\ Rows /\ controls \in Nat /\ sent \subseteq Runs
  /\ \A r \in Runs :
       /\ runs[r].state # "none" =>
            runs[r].schedule \in Schedules /\ runs[r].revision <= ScheduleOf(r).revision
       /\ runs[r].state = "waiting" => ~runs[r].attempted
       /\ runs[r].attempted => runs[r].state \notin {"none", "skipped"}
       /\ runs[r].intent <= controls
       /\ r \in sent => runs[r].attempted
       /\ reactor.at = "sending" /\ reactor.run = r => runs[r].attempted /\ r \notin sent
       /\ tick.at # "idle" /\ tick.run = r => runs[r].state # "none"

\* Steps that neither claim, admit, attempt nor send.
Tame ==
  /\ RunsTame(runs') /\ SchedulesTame(schedules')
  /\ controls' \in {controls, controls + 1} /\ sent' = sent
  /\ reactor' = reactor \/ reactor'.at # "sending"
  /\ \A r \in Runs : tick'.at # "idle" /\ tick'.run = r => runs[r].state # "none"

LEMMA TameKeepsRows ==
  ASSUME RowsInv, Tame PROVE RowsInv'
<1>1. Rows' /\ controls' \in Nat /\ sent' \subseteq Runs
  BY DEF RowsInv, Tame, RunsTame, SchedulesTame, Rows
<1>2. ASSUME NEW r \in Runs
      PROVE  /\ runs'[r].state # "none" =>
                  runs'[r].schedule \in Schedules /\ runs'[r].revision <= ScheduleOf(r)'.revision
             /\ runs'[r].state = "waiting" => ~runs'[r].attempted
             /\ runs'[r].attempted => runs'[r].state \notin {"none", "skipped"}
             /\ runs'[r].intent <= controls'
             /\ r \in sent' => runs'[r].attempted
             /\ reactor'.at = "sending" /\ reactor'.run = r => runs'[r].attempted /\ r \notin sent'
             /\ tick'.at # "idle" /\ tick'.run = r => runs'[r].state # "none"
  <2> DEFINE w == runs[r]
             v == runs'[r]
             s == w.schedule
  <2>1. RowMoves(w, v) /\ w \in RunRow /\ v \in RunRow
    BY DEF Tame, RunsTame, RowsInv, Rows
  <2>2. v.state # "none" => w.state # "none"
    BY <2>1 DEF RowMoves, Unfinished, Admitted, Final
  <2>3. v.state # "none" => s \in Schedules /\ w.revision <= schedules[s].revision
    BY <2>2 DEF RowsInv, ScheduleOf
  <2>4. s \in Schedules => /\ schedules'[s].revision >= schedules[s].revision
                           /\ schedules'[s].revision \in Nat /\ schedules[s].revision \in Nat
    BY DEF Tame, SchedulesTame, ScheduleMoves, RowsInv, Rows, ScheduleRow
  <2>5. w.revision \in Nat /\ v.revision = w.revision /\ v.schedule = s
    BY <2>1 DEF RowMoves, RunRow
  <2>6. v.state # "none" => v.schedule \in Schedules /\ v.revision <= ScheduleOf(r)'.revision
    <3> HIDE DEF s
    <3>1. ScheduleOf(r)' = schedules'[s]
      BY <2>5 DEF ScheduleOf
    <3>2. QED
      BY <2>3, <2>4, <2>5, <3>1
  <2>7. /\ v.state = "waiting" => ~v.attempted
        /\ v.attempted => v.state \notin {"none", "skipped"}
    BY <2>1 DEF RowsInv, RowMoves, Unfinished, Admitted, Final
  <2>8. v.intent <= controls'
    BY <2>1 DEF RowsInv, RowMoves, Tame, RunRow
  <2>9. tick'.at # "idle" /\ tick'.run = r => v.state # "none"
    BY <2>1 DEF Tame, RowMoves, Unfinished, Admitted, Final
  <2>10. QED
    BY <2>1, <2>6, <2>7, <2>8, <2>9 DEF RowsInv, Tame, RowMoves
<1>3. QED
  BY <1>1, <1>2 DEF RowsInv

\* One more is admitted by no tame step, and none is attempted.
LEMMA TameKeepsOneAdmitted ==
  ASSUME RowsInv, Tame, OneAdmitted PROVE OneAdmitted'
<1>1. \A r \in Runs : runs'[r].state \in Admitted => runs[r].state \in Admitted
  BY DEF Tame, RunsTame, RowMoves, Admitted, Final
<1>2. QED
  BY <1>1 DEF OneAdmitted

Attempts(s) == {r \in Of(s) : runs[r].attempted}

LEMMA TameKeepsLimit ==
  ASSUME RowsInv, Tame, LimitKept PROVE LimitKept'
<1>1. ASSUME NEW s \in Schedules PROVE Attempts(s)' = Attempts(s)
  <2>1. \A r \in Runs : /\ runs'[r].state = "none" <=> runs[r].state = "none"
                        /\ runs'[r].schedule = runs[r].schedule
                        /\ runs'[r].attempted = runs[r].attempted
    BY DEF Tame, RunsTame, RowMoves, Unfinished, Admitted, Final
  <2>2. QED
    BY <2>1 DEF Attempts, Of
<1>2. \A s \in Schedules : schedules'[s].count = schedules[s].count
  BY DEF Tame, SchedulesTame, ScheduleMoves
<1>3. \A s \in Schedules : Cardinality(Attempts(s)) <= Limit[s]
                           /\ schedules[s].count = Cardinality(Attempts(s))
  BY DEF LimitKept, Attempts
<1>4. \A s \in Schedules : Cardinality(Attempts(s)') <= Limit[s]
                           /\ schedules'[s].count = Cardinality(Attempts(s)')
  BY <1>1, <1>2, <1>3
<1>5. QED
  BY <1>4 DEF LimitKept, Attempts

-----------------------------------------------------------------------------
(* Which steps are tame *)

\* The tick holds only what was claimed.
LEMMA TickKept ==
  ASSUME RowsInv, tick' = tick \/ tick' = Idle
  PROVE  \A r \in Runs : tick'.at # "idle" /\ tick'.run = r => runs[r].state # "none"
BY DEF RowsInv, Idle

\* The owner's requests other than a run.
LEMMA OwnerTame ==
  ASSUME RowsInv,
         \/ \E s \in Schedules : \E source \in {"owner", "agent"} : Save(s, source)
         \/ \E s \in Schedules : \E state \in {"active", "off", "deleted"} : SetStatus(s, state)
         \/ Prompt \/ Steer \/ Stop \/ Interrupt
  PROVE  Tame
<1>0. Rows /\ RunsTame(runs) /\ SchedulesTame(schedules)
  BY SameTame DEF RowsInv
<1>1. ASSUME NEW s \in Schedules, NEW state \in {"active", "off", "deleted"},
             NEW next \in {"none", "date"}, Edit(s, state, next)
      PROVE  Tame
  <2>1. RunsTame(runs') /\ UNCHANGED <<controls, sent, reactor, tick>>
    BY <1>0, <1>1, InvalidatedTame DEF Edit, memory
  <2>2. schedules' = [schedules EXCEPT ![s] = Revised(s, state, next)]
    BY <1>1 DEF Edit
  <2>3. SchedulesTame(schedules')
    BY <1>0, <2>2, RevisedMoves, OneScheduleTame
  <2>4. QED
    BY <2>1, <2>3, TickKept DEF Tame
<1>2. ASSUME NEW s \in Schedules, NEW source, Save(s, source) PROVE Tame
  BY <1>1, <1>2 DEF Save
<1>3. ASSUME NEW s \in Schedules, NEW state \in {"active", "off", "deleted"}, SetStatus(s, state)
      PROVE  Tame
  BY <1>1, <1>3 DEF SetStatus
<1>4. CASE Prompt \/ Steer
  BY <1>0, <1>4, TickKept DEF Prompt, Steer, Control, Tame
<1>5. CASE Stop
  BY <1>0, <1>5, InvalidatedTame, FenceTame, TickKept DEF Stop, Control, Tame
<1>6. CASE Interrupt
  <2>1. RunsTame(Invalidated(Runs)) /\ RunsTame(Closed(Invalidated(Runs), "failed"))
    BY <1>0, InvalidatedTame, ClosedTame DEF Outcomes
  <2>2. QED
    BY <1>0, <1>6, <2>1, FenceTame, TickKept DEF Interrupt, Control, Tame
<1>7. QED
  BY <1>2, <1>3, <1>4, <1>5, <1>6

\* The tick, except a claim.
LEMMA TickTame ==
  ASSUME RowsInv,
         \/ \E s \in Schedules : Complete(s)
         \/ \E r \in Runs : Submit(r) \/ Rejected(r) \/ Reconcile(r)
  PROVE  Tame
<1>0. Rows /\ RunsTame(runs) /\ SchedulesTame(schedules)
  BY SameTame DEF RowsInv
<1>1. ASSUME NEW s \in Schedules, Complete(s) PROVE Tame
  <2>1. SchedulesTame(Changed(s, "off", "none"))
    BY <1>0, ChangedTame
  <2>2. QED
    BY <1>0, <1>1, <2>1, TickKept DEF Complete, memory, Tame
<1>2. ASSUME NEW r \in Runs, runs[r].state \in Unfinished
      PROVE  SchedulesTame(Retired(r))
  BY <1>0, <1>2, RetiredTame DEF RowsInv, Unfinished, Admitted
<1>3. ASSUME NEW r \in Runs, runs[r].state \in Unfinished, Attention(r)
      PROVE  RunsTame(runs') /\ SchedulesTame(schedules')
  <2>1. runs[r].state = "waiting" => RunsTame(Moved(r, "failed"))
    BY <1>0, MovedTame DEF Unfinished, Final
  <2>2. QED
    BY <1>0, <1>2, <1>3, <2>1 DEF Attention
<1>4. ASSUME NEW r \in Runs, Submit(r) PROVE Tame
  <2>1. runs[r].state \in Unfinished /\ RunsTame(Moved(r, "skipped"))
    BY <1>0, <1>4, MovedTame DEF Submit, RowsInv, Unfinished, Final
  <2>2. /\ UNCHANGED <<controls, reactor, sent>> /\ runs[r].state = "waiting"
        /\ tick' = tick \/ tick' = [at |-> "dispatch", run |-> r]
    BY <1>4 DEF Submit
  <2>3. RunsTame(runs') /\ SchedulesTame(schedules')
    BY <1>0, <1>2, <1>3, <1>4, <2>1 DEF Submit
  <2>4. QED
    BY <2>2, <2>3, TickKept DEF Tame
<1>5. ASSUME NEW r \in Runs, Rejected(r) PROVE Tame
  <2>1. UNCHANGED <<controls, reactor, sent>> /\ tick' = Idle
    BY <1>5 DEF Rejected
  <2>2. RunsTame(Received(r, "none"))
    BY <1>0, ReceivedTame
  <2>3. RunsTame(runs') /\ SchedulesTame(schedules')
    <3>1. CASE runs[r].receipt = "busy"
      BY <1>0, <1>5, <2>2, <3>1 DEF Rejected
    <3>2. CASE runs[r].receipt # "busy" /\ runs[r].state \in Unfinished
      BY <1>3, <1>5, <3>2 DEF Rejected
    <3>3. CASE runs[r].receipt # "busy" /\ runs[r].state \notin Unfinished
      <4>1. Attention(r) /\ runs[r].state # "waiting"
        BY <1>5, <3>3 DEF Rejected, Unfinished
      <4>2. runs' = runs /\ schedules' = Retired(r)
        BY <4>1 DEF Attention
      <4>3. runs[r].state # "none" => SchedulesTame(Retired(r))
        BY <1>0, RetiredTame DEF RowsInv
      <4>4. runs[r].state # "none"
        BY <1>5 DEF Rejected, RowsInv
      <4>5. QED
        BY <1>0, <4>2, <4>3, <4>4
    <3>4. QED
      BY <3>1, <3>2, <3>3
  <2>4. QED
    BY <2>1, <2>3, TickKept DEF Tame
<1>6. ASSUME NEW r \in Runs, Reconcile(r) PROVE Tame
  <2>1. runs[r].state \in Admitted /\ SchedulesTame(Retired(r))
    BY <1>2, <1>6 DEF Reconcile, Unfinished
  <2>2. UNCHANGED <<controls, reactor, sent, tick>>
    BY <1>6 DEF Reconcile, memory
  <2>3. RunsTame(Moved(r, "running")) /\ RunsTame(Moved(r, "unknown"))
    BY <1>0, <2>1, MovedTame
  <2>4. runs[r].turn \in Outcomes => RunsTame(Moved(r, runs[r].turn))
    BY <1>0, <2>1, MovedTame DEF Outcomes, Final, Unfinished
  <2>5. RunsTame(runs') /\ SchedulesTame(schedules')
    BY <1>0, <1>6, <2>1, <2>3, <2>4 DEF Reconcile
  <2>6. QED
    BY <2>2, <2>5, TickKept DEF Tame
<1>7. QED
  BY <1>1, <1>4, <1>5, <1>6

\* What the worker settles was admitted.
LEMMA SettleTame ==
  ASSUME RowsInv, NEW r \in Runs, NEW state \in {"skipped", "failed", "unknown"}, Settle(r, state)
  PROVE  RunsTame(runs') /\ SchedulesTame(schedules')
<1>0. Rows /\ RunsTame(runs) /\ SchedulesTame(schedules)
  BY SameTame DEF RowsInv
<1>1. CASE /\ runs[r].state = "dispatching" /\ (state = "unknown" \/ ~runs[r].attempted)
           /\ runs' = Moved(r, state)
           /\ schedules' = IF state = "skipped" THEN schedules ELSE Retired(r)
  <2>1. RunsTame(Moved(r, state))
    BY <1>0, <1>1, MovedTame DEF Unfinished, Admitted, Final
  <2>2. SchedulesTame(Retired(r))
    BY <1>0, <1>1, RetiredTame DEF RowsInv
  <2>3. QED
    BY <1>0, <1>1, <2>1, <2>2
<1>2. CASE UNCHANGED <<runs, schedules>>
  BY <1>0, <1>2
<1>3. QED
  BY <1>1, <1>2 DEF Settle

\* The reactor's worker, but for the attempt and the hand-over.
LEMMA WorkerTame ==
  ASSUME RowsInv,
         \/ Started \/ Steered \/ SteerSent \/ Interrupted \/ Stopped
         \/ \E intent \in prompts : PromptSent(intent)
         \/ \E r \in Runs : Begin(r) \/ SendFailed(r) \/ Acknowledge(r)
         \/ \E r \in Runs : Prepare(r) /\ reactor' = Idle
  PROVE  Tame
<1>0. Rows /\ RunsTame(runs) /\ SchedulesTame(schedules)
  BY SameTame DEF RowsInv
<1>1. CASE Started \/ \E intent \in prompts : PromptSent(intent)
  <2>1. UNCHANGED <<schedules, runs, controls, tick, reactor, sent>>
    BY <1>1 DEF Started, PromptSent
  <2>2. QED
    BY <1>0, <2>1, TickKept DEF Tame
<1>2. CASE Steered \/ Interrupted
  <2>1. UNCHANGED <<schedules, runs, controls, tick, sent>>
    BY <1>2 DEF Steered, Interrupted, WorkerFrame
  <2>2. reactor' = reactor \/ reactor'.at # "sending"
    BY <1>2 DEF Steered, Interrupted
  <2>3. QED
    BY <1>0, <2>1, <2>2, TickKept DEF Tame
<1>3. CASE SteerSent
  <2>1. UNCHANGED <<schedules, controls, tick, sent>> /\ reactor' = Idle
    BY <1>3 DEF SteerSent, WorkerFrame
  <2>2. RunsTame(runs')
    BY <1>0, <1>3, BoundTame DEF SteerSent
  <2>3. QED
    BY <1>0, <2>1, <2>2, TickKept DEF Tame, Idle
<1>4. CASE Stopped
  <2>1. UNCHANGED <<schedules, controls, tick, sent, reactor>>
    BY <1>4 DEF Stopped, WorkerFrame
  <2>2. RunsTame(runs')
    BY <1>0, <1>4, ClosedTame DEF Stopped, Outcomes
  <2>3. QED
    BY <1>0, <2>1, <2>2, TickKept DEF Tame
<1>5. ASSUME NEW r \in Runs, Begin(r) PROVE Tame
  <2>1. UNCHANGED <<controls, tick, sent>> /\ (reactor' = reactor \/ reactor'.at # "sending")
    BY <1>5 DEF Begin, WorkerFrame
  <2>2. RunsTame(runs') /\ SchedulesTame(schedules')
    BY <1>0, <1>5, SettleTame DEF Begin
  <2>3. QED
    BY <2>1, <2>2, TickKept DEF Tame
<1>6. ASSUME NEW r \in Runs, SendFailed(r) PROVE Tame
  <2>1. UNCHANGED <<controls, tick, sent>> /\ reactor' = Idle
    BY <1>6 DEF SendFailed, WorkerFrame
  <2>2. RunsTame(runs') /\ SchedulesTame(schedules')
    BY <1>6, SettleTame DEF SendFailed
  <2>3. QED
    BY <2>1, <2>2, TickKept DEF Tame, Idle
<1>7. ASSUME NEW r \in Runs, Acknowledge(r) PROVE Tame
  <2>1. UNCHANGED <<schedules, controls, tick, sent>> /\ reactor' = Idle
    BY <1>7 DEF Acknowledge, WorkerFrame
  <2> DEFINE rs == IF runs[r].state \in {"dispatching", "unknown"} THEN Moved(r, "running") ELSE runs
  <2>2. RunsTame(rs)
    BY <1>0, MovedTame DEF Admitted
  <2>3. runs' = rs \/ runs' = Bound(rs)
    BY <1>7 DEF Acknowledge, Announced
  <2> HIDE DEF rs
  <2>4. RunsTame(runs')
    BY <2>2, <2>3, BoundTame
  <2>5. QED
    BY <1>0, <2>1, <2>4, TickKept DEF Tame, Idle
<1>8. ASSUME NEW r \in Runs, Prepare(r), reactor' = Idle PROVE Tame
  <2>1. UNCHANGED <<controls, tick, sent>>
    BY <1>8 DEF Prepare, WorkerFrame
  <2>2. \E state \in {"skipped", "failed"} : Settle(r, state)
    BY <1>8 DEF Prepare, Idle
  <2>3. RunsTame(runs') /\ SchedulesTame(schedules')
    BY <2>2, SettleTame
  <2>4. QED
    BY <1>8, <2>1, <2>3, TickKept DEF Tame, Idle
<1>9. QED
  BY <1>1, <1>2, <1>3, <1>4, <1>5, <1>6, <1>7, <1>8

\* The provider, its events, crashes and restarts.
LEMMA WorldTame ==
  ASSUME RowsInv, TurnEnds \/ TurnStarted \/ TurnCompleted \/ Crash \/ Boot \/ Recover
  PROVE  Tame
<1>0. Rows /\ RunsTame(runs) /\ SchedulesTame(schedules)
  BY SameTame DEF RowsInv
<1>1. UNCHANGED <<schedules, controls, sent>>
  BY DEF TurnEnds, TurnStarted, TurnCompleted, Crash, Boot, Recover, rows
<1>2. UNCHANGED tick \/ tick' = Idle
  BY DEF TurnEnds, TurnStarted, TurnCompleted, Crash, Boot, Recover, memory
<1>3. UNCHANGED reactor \/ reactor'.at # "sending"
  BY DEF TurnEnds, TurnStarted, TurnCompleted, Crash, Boot, Recover, memory, Idle
<1>4. \/ runs' = runs \/ runs' = Bound(runs)
      \/ \E outcome \in Outcomes : runs' = Closed(runs, outcome)
  BY DEF TurnEnds, TurnStarted, TurnCompleted, Crash, Boot, Recover, rows, Announced, Outcomes
<1>5. RunsTame(runs')
  BY <1>0, <1>4, BoundTame, ClosedTame
<1>6. QED
  BY <1>0, <1>1, <1>2, <1>3, <1>5, TickKept DEF Tame

-----------------------------------------------------------------------------
(* The four other steps *)

OthersKept(r) == \A q \in Runs : q # r => runs'[q] = runs[q]

\* A claim of an occurrence of s.
Granting(s, r) ==
  /\ runs' \in [Runs -> RunRow] /\ OthersKept(r) /\ runs[r].state = "none"
  /\ runs'[r] = Row(s, schedules[s].revision, "waiting", FALSE, 0, "none", "none")
  /\ SchedulesTame(schedules') /\ schedules[s].state = "active"
  /\ \A t \in Schedules : /\ schedules'[t].state = schedules[t].state
                           /\ schedules'[t].revision = schedules[t].revision
  /\ UNCHANGED <<controls, tick, reactor, sent>>

\* An admission.
Admission(r) ==
  /\ runs' \in [Runs -> RunRow] /\ OthersKept(r)
  /\ runs[r].state = "waiting" /\ Stands(r) /\ ~Busy(r) /\ controls' = controls + 1
  /\ runs'[r] = Row(runs[r].schedule, runs[r].revision, "dispatching", runs[r].attempted,
                    controls', "accepted", runs[r].turn)
  /\ tick' = Idle /\ UNCHANGED <<schedules, reactor, sent>>

\* The transaction that spends an occurrence.
Spending(r) ==
  /\ runs' \in [Runs -> RunRow] /\ OthersKept(r) /\ Authorized(r)
  /\ runs'[r] = Row(runs[r].schedule, runs[r].revision, "dispatching", TRUE,
                    runs[r].intent, runs[r].receipt, runs[r].turn)
  /\ schedules' = [schedules EXCEPT ![runs[r].schedule] =
       SRow(@.state, @.revision, @.next, @.count + 1)]
  /\ reactor' = [at |-> "sending", run |-> r]
  /\ UNCHANGED <<controls, tick, sent>>

\* The provider takes it.
Handing(r) ==
  /\ reactor = [at |-> "sending", run |-> r] /\ reactor'.at # "sending"
  /\ sent' = sent \cup {r} /\ UNCHANGED <<runs, schedules, controls, tick>>

LEMMA ClaimGrants ==
  ASSUME RowsInv, NEW s \in Schedules, NEW manual \in BOOLEAN, Claim(s, manual)
  PROVE  \E r \in Runs : Granting(s, r)
<1>0. Rows
  BY DEF RowsInv
<1>1. PICK r \in Runs :
        /\ runs[r].state = "none"
        /\ runs' = [runs EXCEPT ![r] = [NoRun EXCEPT
             !.schedule = s, !.revision = schedules[s].revision, !.state = "waiting"]]
  BY DEF Claim
<1> DEFINE x == [NoRun EXCEPT
                   !.schedule = s, !.revision = schedules[s].revision, !.state = "waiting"]
           y == Row(s, schedules[s].revision, "waiting", FALSE, 0, "none", "none")
<1>2. x = y
  BY ClaimedExcept
<1>3. schedules[s] \in ScheduleRow
  BY <1>0 DEF Rows
<1>4. y \in RunRow
  BY <1>3 DEF Row, RunRow, States, Final, Unfinished, Outcomes, ScheduleRow
<1>5. runs' = [runs EXCEPT ![r] = x]
  BY <1>1
<1> HIDE DEF x, y
<1>6. runs' = [runs EXCEPT ![r] = y]
  BY <1>2, <1>5
<1>7. runs' \in [Runs -> RunRow] /\ OthersKept(r) /\ runs'[r] = y
  BY <1>0, <1>4, <1>6 DEF Rows, OthersKept
<1>8. schedules[s].state = "active"
  BY DEF Claim
<1>9. PICK next \in NextDates(s, manual) : schedules' = Changed(s, "active", next)
  BY DEF Claim
<1>10. next \in {"none", "date"}
  BY <1>3 DEF NextDates, ScheduleRow
<1>11. IsSRow(schedules[s])
  BY <1>3 DEF IsSRow, SRow, ScheduleRow
<1>12. SchedulesTame(schedules')
  BY <1>0, <1>8, <1>10, <1>9, ChangedTame
<1>13. \A t \in Schedules : /\ schedules'[t].state = schedules[t].state
                            /\ schedules'[t].revision = schedules[t].revision
  <2> DEFINE w == schedules[s]
             a == [w EXCEPT !.state = "active", !.next = next]
             b == SRow("active", w.revision, next, w.count)
  <2>1. a = b
    BY <1>11, ChangedExcept
  <2>2. schedules' = [schedules EXCEPT ![s] = a]
    BY <1>9 DEF Changed
  <2> HIDE DEF a, b
  <2>3. schedules'[s] = b /\ \A t \in Schedules : t # s => schedules'[t] = schedules[t]
    BY <1>0, <2>1, <2>2 DEF Rows
  <2>4. b.state = w.state /\ b.revision = w.revision
    BY <1>8 DEF b, SRow
  <2>5. QED
    BY <2>3, <2>4
<1>14. UNCHANGED <<controls, tick, reactor, sent>>
  BY DEF Claim, memory
<1>15. QED
  BY <1>1, <1>7, <1>8, <1>12, <1>13, <1>14 DEF Granting, y

LEMMA AdmitTameOrAdmission ==
  ASSUME RowsInv, NEW r \in Runs, Admit(r) PROVE Tame \/ Admission(r)
<1>0. Rows /\ RunsTame(runs) /\ SchedulesTame(schedules)
  BY SameTame DEF RowsInv
<1>1. UNCHANGED <<schedules, reactor, sent>> /\ tick.at # "idle" /\ tick.run = r
      /\ runs[r].state # "none"
  BY DEF Admit, RowsInv, rows
<1> DEFINE w == runs[r]
           x == [w EXCEPT !.state = "dispatching", !.intent = controls', !.receipt = "accepted"]
           y == Row(w.schedule, w.revision, "dispatching", w.attempted, controls', "accepted", w.turn)
<1>2. CASE /\ runs[r].state = "waiting" /\ Stands(r) /\ ~Busy(r) /\ controls' = controls + 1
           /\ runs' = [runs EXCEPT ![r] = x] /\ tick' = Idle
  <2>1. w \in RunRow /\ IsRow(w) /\ controls' \in Nat
    BY <1>0, <1>2 DEF Rows, IsRow, Row, RunRow, RowsInv
  <2>2. x = y
    BY <2>1, AdmittedExcept
  <2>3. y \in RunRow
    BY <2>1 DEF Row, RunRow, States, Unfinished, Admitted
  <2> HIDE DEF x, y
  <2>4. runs' \in [Runs -> RunRow] /\ OthersKept(r) /\ runs'[r] = y
    BY <1>0, <1>2, <2>2, <2>3 DEF Rows, OthersKept
  <2>5. Admission(r)
    BY <1>1, <1>2, <2>4 DEF Admission, y
  <2>6. QED
    BY <2>5
<1>3. CASE /\ \/ runs' = runs \/ runs' = Received(r, "busy") \/ runs' = Received(r, "refused")
           /\ controls' = controls /\ (tick' = Idle \/ tick' = [at |-> "rejected", run |-> r])
  <2>1. RunsTame(runs')
    BY <1>0, <1>3, ReceivedTame
  <2>2. ASSUME NEW q \in Runs, tick'.at # "idle", tick'.run = q PROVE runs[q].state # "none"
    BY <1>1, <1>3, <2>2 DEF Idle
  <2>3. QED
    BY <1>0, <1>1, <1>3, <2>1, <2>2 DEF Tame
<1>4. QED
  BY <1>2, <1>3 DEF Admit, rows

LEMMA PrepareSpends ==
  ASSUME RowsInv, NEW r \in Runs, Prepare(r), reactor' # Idle PROVE Spending(r)
<1>0. Rows
  BY DEF RowsInv
<1> DEFINE w == runs[r]
           x == [w EXCEPT !.attempted = TRUE]
           y == Row(w.schedule, w.revision, w.state, TRUE, w.intent, w.receipt, w.turn)
           s == runs[r].schedule
           v == schedules[s]
           a == [v EXCEPT !.count = ScheduleOf(r).count + 1]
           b == SRow(v.state, v.revision, v.next, v.count + 1)
<1>1. /\ Authorized(r) /\ reactor' = [at |-> "sending", run |-> r]
      /\ UNCHANGED <<controls, tick, sent>>
      /\ runs' = [runs EXCEPT ![r] = x]
      /\ schedules' = [schedules EXCEPT ![s] = a]
  BY DEF Prepare, WorkerFrame
<1>2. w \in RunRow /\ IsRow(w) /\ w.state = "dispatching" /\ s \in Schedules
  BY <1>0, <1>1 DEF Rows, IsRow, Row, RunRow, RowsInv, Authorized
<1>3. x = y /\ y \in RunRow
  BY <1>2, AttemptedExcept DEF Row, RunRow
<1>4. v \in ScheduleRow /\ IsSRow(v)
  BY <1>0, <1>2 DEF Rows, IsSRow, SRow, ScheduleRow
<1>5. a = b
  BY <1>4, CountExcept DEF ScheduleOf
<1> HIDE DEF a, b, x
<1>6. schedules' = [schedules EXCEPT ![s] = b]
  BY <1>1, <1>5
<1>7. runs'[r] = y /\ OthersKept(r) /\ runs' \in [Runs -> RunRow]
  <2> HIDE DEF y
  <2>1. QED BY <1>0, <1>1, <1>3 DEF Rows, OthersKept
<1>8. QED
  BY <1>1, <1>2, <1>6, <1>7 DEF Spending, b

LEMMA SendTameOrHanding ==
  ASSUME RowsInv, NEW r \in Runs, Send(r) PROVE Tame \/ Handing(r)
<1>0. Rows /\ RunsTame(runs) /\ SchedulesTame(schedules)
  BY SameTame DEF RowsInv
<1>1. /\ UNCHANGED <<runs, schedules, controls, tick>> /\ reactor'.at # "sending"
      /\ reactor = [at |-> "sending", run |-> r]
      /\ sent' = sent \/ sent' = sent \cup {r}
  BY DEF Send, WorkerFrame
<1>2. QED
  BY <1>0, <1>1, TickKept DEF Tame, Handing

\* Every step is tame or one of the four.
LEMMA StepKinds ==
  ASSUME RowsInv, [Step]_vars
  PROVE  \/ Tame
         \/ \E s \in Schedules, r \in Runs : Granting(s, r)
         \/ \E r \in Runs : Admission(r) \/ Spending(r) \/ Handing(r)
<1>1. CASE UNCHANGED vars
  <2>1. UNCHANGED <<runs, schedules, controls, tick, reactor, sent>>
    BY <1>1 DEF vars, rows, memory
  <2>2. QED
    BY <2>1, SameTame, TickKept DEF Tame, RowsInv
<1>2. CASE Owner
  <2>1. ASSUME NEW s \in Schedules, RunNow(s) PROVE \E r \in Runs : Granting(s, r)
    BY <2>1, ClaimGrants DEF RunNow
  <2>2. QED
    BY <1>2, <2>1, OwnerTame DEF Owner
<1>3. CASE Tick
  <2>1. ASSUME NEW s \in Schedules, Claim(s, FALSE) PROVE \E r \in Runs : Granting(s, r)
    BY <2>1, ClaimGrants
  <2>2. QED
    BY <1>3, <2>1, TickTame DEF Tick
<1>4. CASE Worker
  <2>1. ASSUME NEW r \in Runs, Prepare(r) PROVE Tame \/ Spending(r)
    BY <2>1, WorkerTame, PrepareSpends
  <2>2. QED
    BY <1>4, <2>1, WorkerTame, SendTameOrHanding DEF Worker
<1>5. CASE \E r \in Runs : Admit(r)
  BY <1>5, AdmitTameOrAdmission
<1>6. CASE \E intent \in prompts : PromptSent(intent)
  BY <1>6, WorkerTame
<1>7. CASE TurnEnds \/ TurnStarted \/ TurnCompleted \/ Crash \/ Boot \/ Recover
  BY <1>7, WorldTame
<1>8. QED
  BY <1>1, <1>2, <1>3, <1>4, <1>5, <1>6, <1>7 DEF Step

-----------------------------------------------------------------------------
(* The invariant is kept *)

\* What RowsInv says of one row.
RowInv(r) ==
  /\ runs[r].state # "none" =>
       runs[r].schedule \in Schedules /\ runs[r].revision <= ScheduleOf(r).revision
  /\ runs[r].state = "waiting" => ~runs[r].attempted
  /\ runs[r].attempted => runs[r].state \notin {"none", "skipped"}
  /\ runs[r].intent <= controls
  /\ r \in sent => runs[r].attempted
  /\ reactor.at = "sending" /\ reactor.run = r => runs[r].attempted /\ r \notin sent
  /\ tick.at # "idle" /\ tick.run = r => runs[r].state # "none"

LEMMA RowsInvIs ==
  RowsInv <=> /\ Rows /\ controls \in Nat /\ sent \subseteq Runs
              /\ \A r \in Runs : RowInv(r)
BY DEF RowsInv, RowInv

\* A row that no step touched, while revisions, controls and the rest only move on.
LEMMA OtherRowKept ==
  ASSUME RowsInv, NEW q \in Runs, runs'[q] = runs[q], Rows',
         controls' \in {controls, controls + 1},
         \A s \in Schedules : schedules'[s].revision >= schedules[s].revision,
         q \in sent' => q \in sent,
         reactor' = reactor \/ reactor'.at # "sending" \/ reactor'.run # q,
         tick' = tick \/ tick' = Idle
  PROVE  RowInv(q)'
<1> DEFINE w == runs[q]
           s == runs[q].schedule
<1>1. RowInv(q) /\ w \in RunRow /\ controls \in Nat
  BY RowsInvIs DEF Rows
<1>2. w.state # "none" => s \in Schedules /\ w.revision <= schedules[s].revision
  BY <1>1 DEF RowInv, ScheduleOf
<1>3. s \in Schedules => /\ schedules'[s].revision \in Nat /\ schedules[s].revision \in Nat
                         /\ schedules'[s].revision >= schedules[s].revision
  BY RowsInvIs DEF Rows, ScheduleRow
<1>4. w.revision \in Nat /\ w.intent \in Nat
  BY <1>1 DEF RunRow
<1>5. w.state # "none" => s \in Schedules /\ w.revision <= schedules'[s].revision
  <2> HIDE DEF w, s
  <2>1. QED BY <1>2, <1>3, <1>4
<1>6. w.intent <= controls'
  BY <1>1, <1>4 DEF RowInv
<1>7. ScheduleOf(q)' = schedules'[s]
  BY DEF ScheduleOf
<1>8. QED
  BY <1>1, <1>5, <1>6, <1>7 DEF RowInv, Idle

LEMMA GrantingKeepsRows ==
  ASSUME RowsInv, NEW s \in Schedules, NEW r \in Runs, Granting(s, r) PROVE RowsInv'
<1>1. Rows' /\ controls' = controls /\ controls \in Nat /\ sent' \subseteq Runs
  BY DEF Granting, RowsInv, Rows, SchedulesTame
<1>2. \A t \in Schedules : schedules'[t].revision >= schedules[t].revision
  BY DEF Granting, SchedulesTame, ScheduleMoves
<1>3. ASSUME NEW q \in Runs, q # r PROVE RowInv(q)'
  BY <1>1, <1>2, <1>3, OtherRowKept DEF Granting, OthersKept
<1>4. RowInv(r)'
  <2>1. /\ runs'[r].schedule = s /\ runs'[r].revision = schedules[s].revision
        /\ runs'[r].state = "waiting" /\ ~runs'[r].attempted /\ runs'[r].intent = 0
    BY DEF Granting, Row
  <2>2. ScheduleOf(r)' = schedules'[s] /\ schedules[s].revision \in Nat
    BY <2>1 DEF ScheduleOf, RowsInv, Rows, ScheduleRow
  <2>3. r \notin sent /\ ~(reactor.at = "sending" /\ reactor.run = r)
    BY DEF Granting, RowsInv
  <2> DEFINE n == schedules[s].revision
             m == ScheduleOf(r)'.revision
  <2>4. runs'[r].revision <= m
    <3>1. runs'[r].revision = n /\ m = n /\ n \in Nat
      BY <2>1, <2>2 DEF Granting
    <3> HIDE DEF n, m
    <3>2. n <= n
      BY <3>1
    <3>3. QED
      BY <3>1, <3>2, Zenon
  <2>5. runs'[r].intent <= controls'
    <3>1. 0 <= controls
      BY <1>1
    <3>2. QED
      BY <1>1, <2>1, <3>1, Zenon
  <2>6. UNCHANGED <<reactor, sent>>
    BY DEF Granting
  <2>7. QED
    BY <2>1, <2>3, <2>4, <2>5, <2>6 DEF RowInv
<1>5. QED
  BY <1>1, <1>3, <1>4, RowsInvIs DEF RowsInv, RowInv

LEMMA AdmissionKeepsRows ==
  ASSUME RowsInv, NEW r \in Runs, Admission(r) PROVE RowsInv'
<1>1. Rows' /\ controls' = controls + 1 /\ controls \in Nat /\ sent' \subseteq Runs
  BY DEF Admission, RowsInv, Rows
<1>2. \A t \in Schedules : schedules'[t].revision >= schedules[t].revision
  BY DEF Admission, RowsInv, Rows, ScheduleRow
<1>3. ASSUME NEW q \in Runs, q # r PROVE RowInv(q)'
  BY <1>1, <1>2, <1>3, OtherRowKept DEF Admission, OthersKept
<1>4. RowInv(r)'
  <2>1. /\ runs'[r].schedule = runs[r].schedule /\ runs'[r].revision = runs[r].revision
        /\ runs'[r].state = "dispatching" /\ runs'[r].attempted = runs[r].attempted
        /\ runs'[r].intent = controls'
    BY DEF Admission, Row
  <2>2. ScheduleOf(r)' = ScheduleOf(r) /\ RowInv(r) /\ runs[r].state = "waiting"
    BY <2>1, RowsInvIs DEF ScheduleOf, Admission
  <2>3. QED
    BY <1>1, <2>1, <2>2 DEF RowInv, Admission, Idle
<1>5. QED
  BY <1>1, <1>3, <1>4 DEF RowsInv, RowInv

LEMMA SpendingKeepsRows ==
  ASSUME RowsInv, NEW r \in Runs, Spending(r)
  PROVE  /\ RowsInv' /\ r \notin sent
         /\ runs[r].schedule \in Schedules
         /\ \A s \in Schedules :
              /\ schedules'[s].state = schedules[s].state
              /\ schedules'[s].revision = schedules[s].revision
              /\ schedules'[s].count = schedules[s].count + IF s = runs[r].schedule THEN 1 ELSE 0
<1> DEFINE s == runs[r].schedule
           v == schedules[s]
           b == SRow(v.state, v.revision, v.next, v.count + 1)
<1>1. s \in Schedules /\ runs[r].state = "dispatching" /\ ~runs[r].attempted
  BY DEF Spending, Authorized, RowsInv
<1>2. v \in ScheduleRow /\ schedules \in [Schedules -> ScheduleRow]
  BY <1>1 DEF RowsInv, Rows
<1>3. b \in ScheduleRow
  BY <1>2 DEF SRow, ScheduleRow
<1>4. b.state = v.state /\ b.revision = v.revision /\ b.count = v.count + 1
  BY DEF SRow
<1>5. schedules' = [schedules EXCEPT ![s] = b]
  BY DEF Spending
<1> HIDE DEF b
<1>6. schedules' \in [Schedules -> ScheduleRow] /\ schedules'[s] = b
      /\ \A t \in Schedules : t # s => schedules'[t] = schedules[t]
  BY <1>1, <1>2, <1>3, <1>5
<1>7. \A t \in Schedules : schedules[t].count \in Nat /\ schedules[t].revision \in Nat
  BY <1>2 DEF ScheduleRow
<1>8. \A t \in Schedules :
        /\ schedules'[t].state = schedules[t].state
        /\ schedules'[t].revision = schedules[t].revision
        /\ schedules'[t].count = schedules[t].count + IF t = s THEN 1 ELSE 0
  BY <1>4, <1>6, <1>7
<1>9. Rows' /\ controls' = controls /\ controls \in Nat /\ sent' \subseteq Runs
  BY <1>6 DEF Spending, RowsInv, Rows
<1>10. r \notin sent
  BY <1>1 DEF RowsInv
<1>11. ASSUME NEW q \in Runs, q # r PROVE RowInv(q)'
  BY <1>7, <1>8, <1>9, <1>11, OtherRowKept DEF Spending, OthersKept
<1>12. RowInv(r)'
  <2>1. /\ runs'[r].schedule = s /\ runs'[r].revision = runs[r].revision
        /\ runs'[r].state = "dispatching" /\ runs'[r].attempted
        /\ runs'[r].intent = runs[r].intent
    BY DEF Spending, Row
  <2>2. ScheduleOf(r)'.revision = ScheduleOf(r).revision /\ RowInv(r)
    BY <1>1, <1>8, <2>1, RowsInvIs DEF ScheduleOf
  <2>3. QED
    BY <1>1, <1>9, <1>10, <2>1, <2>2 DEF RowInv, Spending
<1>13. QED
  BY <1>1, <1>8, <1>9, <1>10, <1>11, <1>12 DEF RowsInv, RowInv

LEMMA HandingKeepsRows ==
  ASSUME RowsInv, NEW r \in Runs, Handing(r) PROVE RowsInv'
BY DEF RowsInv, Handing, Rows, ScheduleOf

\* Only an admission adds to those that are admitted, and it looks at all others.
LEMMA StepKeepsOneAdmitted ==
  ASSUME RowsInv, OneAdmitted, [Step]_vars PROVE OneAdmitted'
<1>1. ASSUME NEW s \in Schedules, NEW r \in Runs, Granting(s, r) PROVE OneAdmitted'
  <2>1. \A q \in Runs : runs'[q].state \in Admitted => runs[q].state \in Admitted
    BY <1>1 DEF Granting, OthersKept, Row, Admitted
  <2>2. QED
    BY <2>1 DEF OneAdmitted
<1>2. ASSUME NEW r \in Runs, Admission(r) PROVE OneAdmitted'
  <2>1. \A q \in Runs : q # r => runs'[q].state \notin Admitted
    BY <1>2 DEF Admission, OthersKept, Busy
  <2>2. QED
    BY <2>1 DEF OneAdmitted
<1>3. ASSUME NEW r \in Runs, Spending(r) PROVE OneAdmitted'
  <2>1. \A q \in Runs : runs'[q].state \in Admitted => runs[q].state \in Admitted
    BY <1>3 DEF Spending, Authorized, OthersKept, Row, Admitted
  <2>2. QED
    BY <2>1 DEF OneAdmitted
<1>4. ASSUME NEW r \in Runs, Handing(r) PROVE OneAdmitted'
  BY <1>4 DEF Handing, OneAdmitted
<1>5. QED
  BY <1>1, <1>2, <1>3, <1>4, StepKinds, TameKeepsOneAdmitted

LEMMA RunsFinite == IsFiniteSet(Runs)
BY FS_Interval, BoundsAssumption DEF Runs

\* Only the transaction that spends an occurrence adds an attempt, below the limit, and it
\* counts it.
LEMMA StepKeepsLimit ==
  ASSUME RowsInv, LimitKept, [Step]_vars PROVE LimitKept'
<1>0. \A s \in Schedules : Cardinality(Attempts(s)) <= Limit[s]
                           /\ schedules[s].count = Cardinality(Attempts(s))
  BY DEF LimitKept, Attempts
<1>1. ASSUME \A s \in Schedules : /\ Attempts(s)' = Attempts(s)
                                  /\ schedules'[s].count = schedules[s].count
      PROVE  LimitKept'
  <2>1. \A s \in Schedules : Cardinality(Attempts(s)') <= Limit[s]
                             /\ schedules'[s].count = Cardinality(Attempts(s)')
    BY <1>0, <1>1
  <2>2. QED
    BY <2>1 DEF LimitKept, Attempts
<1>2. ASSUME NEW s \in Schedules, NEW r \in Runs, Granting(s, r) PROVE LimitKept'
  <2>1. ~runs[r].attempted /\ ~runs'[r].attempted
    BY <1>2 DEF Granting, RowsInv, Row
  <2>2. \A t \in Schedules : Attempts(t)' = Attempts(t)
    BY <1>2, <2>1 DEF Attempts, Of, Granting, OthersKept
  <2>3. \A t \in Schedules : schedules'[t].count = schedules[t].count
    BY <1>2 DEF Granting, SchedulesTame, ScheduleMoves
  <2>4. QED
    BY <1>1, <2>2, <2>3
<1>3. ASSUME NEW r \in Runs, Admission(r) PROVE LimitKept'
  <2>1. /\ runs'[r].schedule = runs[r].schedule /\ runs'[r].attempted = runs[r].attempted
        /\ runs[r].state = "waiting" /\ runs'[r].state = "dispatching"
    BY <1>3 DEF Admission, Row
  <2>2. \A t \in Schedules : Attempts(t)' = Attempts(t)
    BY <1>3, <2>1 DEF Attempts, Of, Admission, OthersKept
  <2>3. schedules' = schedules
    BY <1>3 DEF Admission
  <2>4. QED
    BY <1>1, <2>2, <2>3
<1>4. ASSUME NEW r \in Runs, Handing(r) PROVE LimitKept'
  BY <1>1, <1>4 DEF Handing, Attempts, Of
<1>5. ASSUME NEW r \in Runs, Spending(r) PROVE LimitKept'
  <2> DEFINE s == runs[r].schedule
  <2>1. /\ runs'[r].schedule = s /\ runs'[r].attempted /\ ~runs[r].attempted
        /\ runs[r].state = "dispatching" /\ runs'[r].state = "dispatching"
        /\ ~(schedules[s].count >= Limit[s])
    BY <1>5 DEF Spending, Authorized, Exhausted, Row
  <2>2. /\ s \in Schedules
        /\ \A t \in Schedules :
             schedules'[t].count = schedules[t].count + IF t = s THEN 1 ELSE 0
    BY <1>5, SpendingKeepsRows
  <2>3. \A t \in Schedules : Attempts(t)' = IF t = s THEN Attempts(t) \cup {r} ELSE Attempts(t)
    BY <1>5, <2>1 DEF Attempts, Of, Spending, OthersKept
  <2>4. r \notin Attempts(s) /\ IsFiniteSet(Attempts(s))
    <3>1. Attempts(s) \subseteq Runs
      BY DEF Attempts, Of
    <3>2. QED
      BY <2>1, <3>1, RunsFinite, FS_Subset DEF Attempts
  <2>5. \A t \in Schedules : schedules[t].count \in Nat /\ Limit[t] \in Nat
    BY SchedulesAssumption DEF RowsInv, Rows, ScheduleRow
  <2>6. Cardinality(Attempts(s) \cup {r}) = Cardinality(Attempts(s)) + 1
    BY <2>4, FS_AddElement
  <2>7. ASSUME NEW t \in Schedules
        PROVE  Cardinality(Attempts(t)') <= Limit[t]
               /\ schedules'[t].count = Cardinality(Attempts(t)')
    <3>1. CASE t = s
      <4>1. Cardinality(Attempts(t)') = Cardinality(Attempts(s)) + 1
        BY <2>3, <2>6, <3>1
      <4>2. schedules'[t].count = schedules[s].count + 1
        BY <2>2, <3>1
      <4> DEFINE n == schedules[s].count
                 l == Limit[s]
      <4>3. n \in Nat /\ l \in Nat /\ ~(n >= l)
        BY <2>1, <2>2, <2>5
      <4>4. n = Cardinality(Attempts(s))
        BY <1>0, <2>2
      <4> HIDE DEF n, l
      <4>5. n + 1 <= l
        BY <4>3
      <4>6. QED
        BY <3>1, <4>1, <4>2, <4>4, <4>5 DEF n, l
    <3>2. CASE t # s
      <4>1. Attempts(t)' = Attempts(t)
        BY <2>3, <3>2
      <4>2. schedules'[t].count = schedules[t].count + 0
        BY <2>2, <3>2
      <4>3. schedules'[t].count = schedules[t].count
        BY <2>5, <4>2
      <4>4. QED
        BY <1>0, <4>1, <4>3
    <3>3. QED
      BY <3>1, <3>2
  <2>8. QED
    BY <2>7 DEF LimitKept, Attempts
<1>6. QED
  BY <1>2, <1>3, <1>4, <1>5, StepKinds, TameKeepsLimit

LEMMA StepKeepsRows ==
  ASSUME RowsInv, [Step]_vars PROVE RowsInv'
BY StepKinds, TameKeepsRows, GrantingKeepsRows, AdmissionKeepsRows, SpendingKeepsRows,
   HandingKeepsRows

LEMMA InitRows == Init => RowsInv /\ OneAdmitted /\ LimitKept
<1> SUFFICES ASSUME Init PROVE RowsInv /\ OneAdmitted /\ LimitKept
  OBVIOUS
<1>1. \A r \in Runs : runs[r] = NoRun
  BY DEF Init
<1>2. NoRun \in RunRow
  BY DEF NoRun, RunRow, States, Outcomes
<1>3. runs \in [Runs -> RunRow]
  BY <1>2 DEF Init
<1>4. schedules \in [Schedules -> ScheduleRow] /\ \A s \in Schedules : schedules[s].count = 0
  BY DEF Init, ScheduleRow
<1>5. \A r \in Runs : runs[r].state = "none" /\ ~runs[r].attempted /\ runs[r].intent = 0
  BY <1>1 DEF NoRun
<1>6. RowsInv
  BY <1>3, <1>4, <1>5 DEF RowsInv, Rows, Init, Idle
<1>7. OneAdmitted
  BY <1>5 DEF OneAdmitted, Admitted
<1>8. LimitKept
  <2>1. \A s \in Schedules : Attempts(s) = {}
    BY <1>5 DEF Attempts, Of
  <2>2. Cardinality({}) = 0
    BY FS_EmptySet
  <2>3. \A s \in Schedules : Limit[s] \in Nat
    BY SchedulesAssumption
  <2>4. \A s \in Schedules : Cardinality(Attempts(s)) <= Limit[s]
                             /\ schedules[s].count = Cardinality(Attempts(s))
    BY <1>4, <2>1, <2>2, <2>3
  <2>5. QED
    BY <2>4 DEF LimitKept, Attempts
<1>9. QED
  BY <1>6, <1>7, <1>8

LEMMA RowsInvariant == Spec => []RowsInv
<1>1. Init => RowsInv
  BY InitRows
<1>2. RowsInv /\ [Step]_vars => RowsInv'
  BY StepKeepsRows
<1>3. QED
  BY <1>1, <1>2, PTL DEF Spec

\* One admitted scheduled turn per chat, for every set of schedules.
THEOREM OneAdmittedAlways == Spec => []OneAdmitted
<1>1. Init => OneAdmitted
  BY InitRows
<1>2. RowsInv /\ OneAdmitted /\ [Step]_vars => OneAdmitted'
  BY StepKeepsOneAdmitted
<1>3. QED
  BY <1>1, <1>2, RowsInvariant, PTL DEF Spec

\* No schedule is attempted more often than its owner allowed, whatever the limit, and its
\* counter tells how often it was.
THEOREM LimitKeptAlways == Spec => []LimitKept
<1>1. Init => LimitKept
  BY InitRows
<1>2. RowsInv /\ LimitKept /\ [Step]_vars => LimitKept'
  BY StepKeepsLimit
<1>3. QED
  BY <1>1, <1>2, RowsInvariant, PTL DEF Spec

\* What an occurrence has come to is never rewritten.
THEOREM OutcomesStayFinal == Spec => OutcomesAreFinal
<1> DEFINE Kept == \A r \in Runs : runs[r].state \in Final => runs'[r].state = runs[r].state
<1>1. RowsInv /\ [Step]_vars => Kept
  <2> SUFFICES ASSUME RowsInv, [Step]_vars PROVE Kept
    OBVIOUS
  <2>1. CASE Tame
    BY <2>1 DEF Tame, RunsTame, RowMoves, Unfinished, Admitted, Final
  <2>2. ASSUME NEW s \in Schedules, NEW r \in Runs, Granting(s, r) PROVE Kept
    BY <2>2 DEF Granting, OthersKept, Final
  <2>3. ASSUME NEW r \in Runs, Admission(r) \/ Spending(r) \/ Handing(r) PROVE Kept
    BY <2>3 DEF Admission, Spending, Handing, Authorized, OthersKept, Final
  <2>4. QED
    BY <2>1, <2>2, <2>3, StepKinds
<1>2. QED
  BY <1>1, RowsInvariant, PTL DEF Spec, OutcomesAreFinal

-----------------------------------------------------------------------------
(* Types *)

Turns == [of : Authors, row : Authors, live : BOOLEAN,
          stage : {"none", "started", "announced", "closed"}]
Stages == {"none", "started", "announced", "closed"}

LEMMA TurnTypes ==
  /\ \A w \in Turns : \A stage \in Stages : [w EXCEPT !.stage = stage] \in Turns
  /\ \A w \in Turns : [w EXCEPT !.live = FALSE] \in Turns
  /\ \A w \in Turns : \A stage \in Stages : \A row \in Authors :
       [w EXCEPT !.stage = stage, !.row = row] \in Turns
<1>1. \A w \in Turns : \A stage \in Stages : [w EXCEPT !.stage = stage] \in Turns
  BY DEF Turns, Stages
<1>2. \A w \in Turns : [w EXCEPT !.live = FALSE] \in Turns
  BY DEF Turns
<1>3. \A w \in Turns : \A stage \in Stages : \A row \in Authors :
        [w EXCEPT !.stage = stage, !.row = row] \in Turns
  BY DEF Turns, Stages
<1>4. QED
  BY <1>1, <1>2, <1>3

LEMMA NewTurns ==
  /\ NoTurn \in Turns
  /\ \A of \in Authors : Turn(of) \in Turns
BY DEF NoTurn, Turn, Turns, Authors

\* What TypeOK says beside the rows.
ChatTypes == session \in {"idle", "starting", "running"} /\ pending \in Authors
ActorTypes ==
  /\ tick \in [at : {"idle", "dispatch", "rejected"}, run : Authors]
  /\ reactor \in [at : {"idle", "preparing", "sending", "accepted", "failed", "steering"},
                  run : Authors]
BackendTypes ==
  backend \in {"up", "down", "starting"} /\ disturbances \subseteq {"edit", "control", "crash"}

LEMMA AuthorsAre ==
  Human \in Authors /\ Nobody \in Authors /\ \A r \in Runs : r \in Authors
BY DEF Authors

LEMMA IdleType ==
  /\ Idle \in [at : {"idle", "dispatch", "rejected"}, run : Authors]
  /\ Idle \in [at : {"idle", "preparing", "sending", "accepted", "failed", "steering"},
               run : Authors]
BY AuthorsAre DEF Idle

LEMMA StepKeepsActors ==
  ASSUME ActorTypes, [Step]_vars PROVE ActorTypes'
<1>1. \/ tick' = tick \/ tick' = Idle
      \/ \E r \in Runs : tick' = [at |-> "dispatch", run |-> r]
                         \/ tick' = [at |-> "rejected", run |-> r]
  <2>1. CASE UNCHANGED vars
    BY <2>1 DEF vars, memory
  <2>2. CASE Owner
    BY <2>2 DEF Owner, Save, SetStatus, Edit, RunNow, Claim, Prompt, Steer, Stop, Interrupt,
                Control, memory
  <2>3. CASE Tick
    BY <2>3 DEF Tick, Claim, Complete, Submit, Reconcile, Rejected, memory
  <2>4. CASE Worker
    BY <2>4 DEF Worker, Started, Steered, SteerSent, Interrupted, Stopped, Begin, Prepare,
                Send, SendFailed, Acknowledge, WorkerFrame
  <2>5. CASE \E r \in Runs : Admit(r)
    BY <2>5 DEF Admit
  <2>6. CASE \/ \E intent \in prompts : PromptSent(intent)
             \/ TurnEnds \/ TurnStarted \/ TurnCompleted \/ Crash \/ Boot \/ Recover
    BY <2>6 DEF PromptSent, TurnEnds, TurnStarted, TurnCompleted, Crash, Boot, Recover, memory
  <2>7. QED
    BY <2>1, <2>2, <2>3, <2>4, <2>5, <2>6 DEF Step
<1>2. \/ reactor' = reactor \/ reactor' = Idle
      \/ \E r \in Runs : \E at \in {"preparing", "sending", "accepted", "failed"} :
           reactor' = [at |-> at, run |-> r]
      \/ reactor' = [at |-> "steering", run |-> Human]
  <2>1. CASE UNCHANGED vars
    BY <2>1 DEF vars, memory
  <2>2. CASE Owner
    BY <2>2 DEF Owner, Save, SetStatus, Edit, RunNow, Claim, Prompt, Steer, Stop, Interrupt,
                Control, memory
  <2>3. CASE Tick
    BY <2>3 DEF Tick, Claim, Complete, Submit, Reconcile, Rejected, memory
  <2>4. CASE Worker
    BY <2>4 DEF Worker, Started, Steered, SteerSent, Interrupted, Stopped, Begin, Prepare,
                Send, SendFailed, Acknowledge
  <2>5. CASE \E r \in Runs : Admit(r)
    BY <2>5 DEF Admit
  <2>6. CASE \/ \E intent \in prompts : PromptSent(intent)
             \/ TurnEnds \/ TurnStarted \/ TurnCompleted \/ Crash \/ Boot \/ Recover
    BY <2>6 DEF PromptSent, TurnEnds, TurnStarted, TurnCompleted, Crash, Boot, Recover, memory
  <2>7. QED
    BY <2>1, <2>2, <2>3, <2>4, <2>5, <2>6 DEF Step
<1>3. tick' \in [at : {"idle", "dispatch", "rejected"}, run : Authors]
  BY <1>1, IdleType, AuthorsAre DEF ActorTypes
<1>4. reactor' \in [at : {"idle", "preparing", "sending", "accepted", "failed", "steering"},
                    run : Authors]
  BY <1>2, IdleType, AuthorsAre DEF ActorTypes
<1>5. QED
  BY <1>3, <1>4 DEF ActorTypes

LEMMA StepKeepsBackend ==
  ASSUME BackendTypes, [Step]_vars PROVE BackendTypes'
<1>1. CASE UNCHANGED vars
  BY <1>1 DEF vars, BackendTypes
<1>2. CASE Owner
  BY <1>2 DEF Owner, Save, SetStatus, Edit, RunNow, Claim, Prompt, Steer, Stop, Interrupt,
              Control, Disturbance, BackendTypes
<1>3. CASE Tick
  BY <1>3 DEF Tick, Claim, Complete, Submit, Reconcile, Rejected, BackendTypes
<1>4. CASE Worker
  BY <1>4 DEF Worker, Started, Steered, SteerSent, Interrupted, Stopped, Begin, Prepare,
              Send, SendFailed, Acknowledge, WorkerFrame, BackendTypes
<1>5. CASE \E r \in Runs : Admit(r)
  BY <1>5 DEF Admit, BackendTypes
<1>6. CASE \/ \E intent \in prompts : PromptSent(intent)
           \/ TurnEnds \/ TurnStarted \/ TurnCompleted \/ Crash \/ Boot \/ Recover
  BY <1>6 DEF PromptSent, TurnEnds, TurnStarted, TurnCompleted, Crash, Disturbance, Boot,
              Recover, BackendTypes
<1>7. QED
  BY <1>1, <1>2, <1>3, <1>4, <1>5, <1>6 DEF Step

LEMMA StepKeepsChat ==
  ASSUME ChatTypes, [Step]_vars PROVE ChatTypes'
<1>0. session \in {"idle", "starting", "running"} /\ pending \in Authors
  BY DEF ChatTypes
<1>1. ASSUME UNCHANGED <<session, pending>> PROVE ChatTypes'
  BY <1>1 DEF ChatTypes
<1>2. ASSUME session' \in {"idle", "starting", "running"},
             pending' = Nobody \/ pending' = Human \/ pending' = pending \/ pending' \in Runs
      PROVE  ChatTypes'
  BY <1>0, <1>2, AuthorsAre DEF ChatTypes
<1>3. CASE UNCHANGED vars
  BY <1>1, <1>3 DEF vars, rows
<1>4. CASE Owner
  BY <1>0, <1>2, <1>4 DEF Owner, Save, SetStatus, Edit, RunNow, Claim, Prompt, Steer, Stop,
                          Interrupt
<1>5. CASE Tick
  BY <1>1, <1>5 DEF Tick, Claim, Complete, Submit, Reconcile, Rejected
<1>6. CASE Worker
  BY <1>0, <1>2, <1>6 DEF Worker, Started, Released, Steered, SteerSent, Interrupted, Stopped,
                          Begin, Settle, Prepare, Send, SendFailed, Acknowledge, Announced
<1>7. CASE \E r \in Runs : Admit(r)
  BY <1>0, <1>2, <1>7 DEF Admit, rows
<1>8. CASE \/ \E intent \in prompts : PromptSent(intent)
           \/ TurnEnds \/ TurnStarted \/ TurnCompleted \/ Crash \/ Boot \/ Recover
  BY <1>0, <1>2, <1>8 DEF PromptSent, Released, TurnEnds, TurnStarted, Announced,
                          TurnCompleted, Crash, Boot, Recover, rows
<1>9. QED
  BY <1>3, <1>4, <1>5, <1>6, <1>7, <1>8 DEF Step

LEMMA StepKeepsTurn ==
  ASSUME native \in Turns, ChatTypes, [Step]_vars PROVE native' \in Turns
<1>1. CASE UNCHANGED vars
  BY <1>1 DEF vars
<1>2. CASE Owner
  <2>1. CASE Interrupt
    <3>1. native' = native \/ native' = [native EXCEPT !.stage = "closed"]
      BY <2>1 DEF Interrupt
    <3>2. QED
      BY <3>1, TurnTypes DEF Stages
  <2>2. CASE UNCHANGED native
    BY <2>2
  <2>3. Owner => Interrupt \/ UNCHANGED native
    BY DEF Owner, Save, SetStatus, Edit, RunNow, Claim, Prompt, Steer, Stop
  <2>4. QED
    BY <1>2, <2>1, <2>2, <2>3
<1>3. CASE Tick
  BY <1>3 DEF Tick, Claim, Complete, Submit, Reconcile, Rejected
<1>4. CASE Worker
  <2>1. CASE Started \/ Steered \/ Interrupted \/ Stopped
    <3>1. CASE Interrupted
      <4>1. native' = [native EXCEPT !.live = FALSE]
        BY <3>1 DEF Interrupted
      <4>2. QED
        BY <4>1, TurnTypes
    <3>2. CASE Started \/ Steered \/ Stopped
      BY <3>2, NewTurns DEF Started, Steered, Stopped
    <3>3. QED
      BY <2>1, <3>1, <3>2
  <2>2. CASE SteerSent
    <3>1. [Turn(Human) EXCEPT !.stage = "announced", !.row = pending] \in Turns
      BY TurnTypes, NewTurns, AuthorsAre DEF ChatTypes, Stages
    <3>2. QED
      BY <2>2, <3>1 DEF SteerSent
  <2>3. ASSUME NEW r \in Runs, Begin(r) \/ Prepare(r) \/ Send(r) \/ SendFailed(r)
        PROVE  native' \in Turns
    BY <2>3, NewTurns, AuthorsAre DEF Begin, Prepare, Send, SendFailed, Settle
  <2>4. ASSUME NEW r \in Runs, Acknowledge(r) PROVE native' \in Turns
    BY <2>4, TurnTypes DEF Acknowledge, Announced, ChatTypes, Stages
  <2>5. QED
    BY <1>4, <2>1, <2>2, <2>3, <2>4 DEF Worker
<1>5. CASE \E r \in Runs : Admit(r)
  BY <1>5 DEF Admit
<1>6. CASE \E intent \in prompts : PromptSent(intent)
  BY <1>6, NewTurns, AuthorsAre DEF PromptSent
<1>7. CASE TurnEnds \/ TurnStarted \/ TurnCompleted \/ Crash \/ Boot \/ Recover
  <2>1. CASE TurnEnds
    <3>1. native' = [native EXCEPT !.live = FALSE]
      BY <2>1 DEF TurnEnds
    <3>2. QED
      BY <3>1, TurnTypes DEF Stages
  <2>2. CASE TurnStarted
    <3>1. native' = [native EXCEPT !.stage = "announced", !.row = pending]
      BY <2>2 DEF TurnStarted, Announced
    <3>2. QED
      BY <3>1, TurnTypes DEF ChatTypes, Stages
  <2>3. CASE TurnCompleted \/ Crash \/ Boot
    BY <2>3, NewTurns DEF TurnCompleted, Crash, Boot
  <2>4. CASE Recover
    <3>1. native' = native \/ native' = [native EXCEPT !.stage = "closed"]
      BY <2>4 DEF Recover
    <3>2. QED
      BY <3>1, TurnTypes DEF Stages
  <2>5. QED
    BY <1>7, <2>1, <2>2, <2>3, <2>4
<1>8. QED
  BY <1>1, <1>2, <1>3, <1>4, <1>5, <1>6, <1>7 DEF Step

\* Every variable keeps its type.
THEOREM TypeCorrect == Spec => []TypeOK
<1>1. TypeOK <=> /\ Rows /\ controls \in Nat /\ sent \subseteq Runs
                 /\ ChatTypes /\ ActorTypes /\ native \in Turns /\ BackendTypes
  BY DEF TypeOK, Rows, ChatTypes, ActorTypes, Turns, BackendTypes
<1>2. Init => ChatTypes /\ ActorTypes /\ native \in Turns /\ BackendTypes
  BY IdleType, AuthorsAre, NewTurns DEF Init, ChatTypes, ActorTypes, BackendTypes
<1>3. Init => TypeOK
  BY <1>1, <1>2, InitRows DEF RowsInv
<1>4. RowsInv /\ TypeOK /\ [Step]_vars => TypeOK'
  <2> SUFFICES ASSUME RowsInv, TypeOK, [Step]_vars PROVE TypeOK'
    OBVIOUS
  <2>1. Rows' /\ controls' \in Nat /\ sent' \subseteq Runs
    BY StepKeepsRows DEF RowsInv
  <2>2. ChatTypes' /\ ActorTypes' /\ native' \in Turns /\ BackendTypes'
    BY <1>1, StepKeepsChat, StepKeepsActors, StepKeepsTurn, StepKeepsBackend
  <2>3. QED
    BY <2>1, <2>2 DEF TypeOK, Rows, ChatTypes, ActorTypes, Turns, BackendTypes
<1>5. QED
  BY <1>3, <1>4, RowsInvariant, PTL DEF Spec

-----------------------------------------------------------------------------
(* The grants *)

\* A permission depends on its own row, on its schedule's state and revision, and on the
\* chat's latest control.
LEMMA SameGrant ==
  ASSUME RowsInv, NEW q \in Runs, runs'[q] = runs[q], controls' = controls,
         \A s \in Schedules : /\ schedules'[s].state = schedules[s].state
                              /\ schedules'[s].revision = schedules[s].revision
  PROVE  Grant(q)' = Grant(q)
<1>1. CASE runs[q].state = "none"
  BY <1>1 DEF Grant
<1>2. CASE runs[q].state # "none"
  <2>1. runs[q].schedule \in Schedules
    BY <1>2 DEF RowsInv
  <2>2. Stands(q)' = Stands(q)
    BY <2>1 DEF Stands, ScheduleOf
  <2>3. QED
    BY <2>2 DEF Grant
<1>3. QED
  BY <1>1, <1>2

\* A tame step leaves a permission alone or takes it back.
LEMMA TameRevokes ==
  ASSUME RowsInv, Tame, NEW r \in Runs
  PROVE  Grant(r)' = Grant(r) \/ (Grant(r) = "granted" /\ Grant(r)' = "revoked")
<1> DEFINE w == runs[r]
           v == runs'[r]
           s == runs[r].schedule
<1>1. RowMoves(w, v) /\ RowsInv'
  BY TameKeepsRows DEF Tame, RunsTame
<1>2. CASE w.state = "none"
  <2>1. v.state = "none"
    BY <1>1, <1>2 DEF RowMoves, Unfinished, Admitted
  <2>2. QED
    BY <1>2, <2>1 DEF Grant
<1>3. CASE w.state # "none" /\ w.attempted
  <2>1. v.attempted /\ v.state \notin {"none", "skipped"} /\ w.state # "skipped"
    BY <1>1, <1>3 DEF RowMoves, RowsInv
  <2>2. QED
    BY <1>3, <2>1 DEF Grant
<1>4. CASE w.state # "none" /\ ~w.attempted
  <2>1. ~v.attempted /\ v.state # "none"
    BY <1>1, <1>4 DEF RowMoves, Final
  <2>2. Grant(r) \in {"granted", "revoked"} /\ Grant(r)' \in {"granted", "revoked"}
    BY <1>4, <2>1 DEF Grant
  <2>3. ASSUME Grant(r)' = "granted" PROVE Grant(r) = "granted"
    <3>1. /\ v.state \in {"waiting", "dispatching"} /\ Stands(r)'
          /\ v.state = "dispatching" => controls' = v.intent
      BY <2>1, <2>3 DEF Grant
    <3>2. w.state = v.state /\ v.intent = w.intent
          /\ v.schedule = s /\ v.revision = w.revision
      BY <1>1, <3>1 DEF RowMoves, Final
    <3>3. s \in Schedules /\ w.revision <= schedules[s].revision
      BY <1>4 DEF RowsInv, ScheduleOf
    <3>4. schedules'[s].state = "active" /\ schedules'[s].revision = w.revision
      BY <3>1, <3>2 DEF Stands, ScheduleOf
    <3>5. ScheduleMoves(schedules[s], schedules'[s])
      BY <3>3 DEF Tame, SchedulesTame
    <3>6. schedules[s].revision \in Nat /\ schedules'[s].revision \in Nat /\ w.revision \in Nat
      BY <3>3 DEF RowsInv, Rows, Tame, SchedulesTame, ScheduleRow, RunRow
    <3>7. schedules[s].revision = w.revision
      <4> DEFINE n == schedules[s].revision
                 m == w.revision
                 l == schedules'[s].revision
      <4>1. n \in Nat /\ m \in Nat /\ m <= n /\ l >= n /\ l = m
        BY <3>3, <3>4, <3>5, <3>6 DEF ScheduleMoves
      <4> HIDE DEF n, m, l
      <4>2. n = m
        BY <4>1
      <4>3. QED
        BY <4>2 DEF n, m
    <3>8. Stands(r)
      BY <3>4, <3>5, <3>7 DEF Stands, ScheduleOf, ScheduleMoves
    <3>9. w.state = "dispatching" => controls = w.intent
      <4>1. controls \in Nat /\ w.intent \in Nat /\ w.intent <= controls
        BY DEF RowsInv, Rows, RunRow
      <4> DEFINE i == w.intent
      <4>2. controls' \in {controls, controls + 1} /\ (w.state = "dispatching" => controls' = i)
        BY <3>1, <3>2 DEF Tame
      <4> HIDE DEF i, w
      <4>3. QED
        BY <4>1, <4>2 DEF i
    <3>10. QED
      BY <1>4, <3>1, <3>2, <3>8, <3>9 DEF Grant
  <2>4. QED
    BY <2>2, <2>3
<1>5. QED
  BY <1>2, <1>3, <1>4

GrantMap == [r \in Runs |-> Grant(r)]

LEMMA StepRefines ==
  ASSUME RowsInv, [Step]_vars
  PROVE  [Grants!Next]_(Grants!vars)
<1>1. CASE Tame
  <2> DEFINE rs == {r \in Runs : Grant(r) = "granted" /\ Grant(r)' = "revoked"}
  <2>1. \A r \in Runs : Grant(r)' = IF r \in rs THEN "revoked" ELSE Grant(r)
    BY <1>1, TameRevokes
  <2>2. \A r \in rs : r \in Runs /\ Grant(r) = "granted"
    OBVIOUS
  <2> HIDE DEF rs
  <2>3. GrantMap' = [r \in Runs |-> IF r \in rs THEN "revoked" ELSE GrantMap[r]]
    BY <2>1 DEF GrantMap
  <2>4. (\A r \in rs : GrantMap[r] = "granted") /\ rs \in SUBSET Runs /\ sent' = sent
    BY <1>1, <2>2 DEF GrantMap, Tame
  <2>5. Grants!Revoke(rs)
    BY <2>3, <2>4 DEF Grants!Revoke, GrantMap
  <2>6. QED
    BY <2>4, <2>5 DEF Grants!Next
<1>2. ASSUME NEW s \in Schedules, NEW r \in Runs, Granting(s, r)
      PROVE  Grants!Next
  <2>1. \A q \in Runs : q # r => Grant(q)' = Grant(q)
    BY <1>2, SameGrant DEF Granting, OthersKept
  <2>2. Grant(r) = "none"
    <3>1. runs[r].state = "none"
      BY <1>2 DEF Granting
    <3>2. QED
      BY <3>1 DEF Grant
  <2>3. Grant(r)' = "granted"
    <3>1. /\ runs'[r].schedule = s /\ runs'[r].revision = schedules[s].revision
          /\ runs'[r].state = "waiting" /\ ~runs'[r].attempted
      BY <1>2 DEF Granting, Row
    <3>2. Stands(r)'
      BY <1>2, <3>1 DEF Granting, Stands, ScheduleOf
    <3>3. QED
      BY <3>1, <3>2 DEF Grant
  <2>4. GrantMap[r] = "none" /\ GrantMap' = [GrantMap EXCEPT ![r] = "granted"]
    BY <2>1, <2>2, <2>3 DEF GrantMap
  <2>5. Grants!Grant(r)
    BY <1>2, <2>4 DEF Grants!Grant, GrantMap, Granting
  <2>6. QED
    BY <2>5 DEF Grants!Next
<1>3. ASSUME NEW r \in Runs, Admission(r)
      PROVE  UNCHANGED Grants!vars
  <2>1. ASSUME NEW q \in Runs, q # r PROVE Grant(q)' = Grant(q)
    <3>1. runs'[q] = runs[q] /\ runs[q].state # "dispatching" /\ schedules' = schedules
      BY <1>3, <2>1 DEF Admission, OthersKept, Busy, Admitted
    <3>2. Stands(q)' = Stands(q)
      BY <3>1 DEF Stands, ScheduleOf
    <3>3. QED
      BY <3>1, <3>2 DEF Grant
  <2>2. Grant(r)' = Grant(r)
    <3>1. /\ runs'[r].schedule = runs[r].schedule /\ runs'[r].revision = runs[r].revision
          /\ runs[r].state = "waiting" /\ ~runs[r].attempted /\ ~runs'[r].attempted
          /\ runs'[r].state = "dispatching" /\ runs'[r].intent = controls'
      BY <1>3 DEF Admission, Row, RowsInv
    <3>2. Stands(r)' /\ Stands(r)
      BY <1>3, <3>1 DEF Admission, Stands, ScheduleOf
    <3>3. QED
      BY <3>1, <3>2 DEF Grant
  <2>3. GrantMap' = GrantMap
    BY <2>1, <2>2 DEF GrantMap
  <2>4. QED
    BY <1>3, <2>3 DEF Grants!vars, GrantMap, Admission
<1>4. ASSUME NEW r \in Runs, Spending(r)
      PROVE  Grants!Next
  <2>1. /\ UNCHANGED <<controls, sent>>
        /\ \A s \in Schedules : /\ schedules'[s].state = schedules[s].state
                                /\ schedules'[s].revision = schedules[s].revision
    BY <1>4, SpendingKeepsRows DEF Spending
  <2>2. \A q \in Runs : q # r => Grant(q)' = Grant(q)
    BY <1>4, <2>1, SameGrant DEF Spending, OthersKept
  <2>3. Grant(r) = "granted"
    BY <1>4 DEF Spending, Authorized, Grant
  <2>4. Grant(r)' = "spent"
    BY <1>4 DEF Spending, Row, Grant
  <2>5. GrantMap[r] = "granted" /\ GrantMap' = [GrantMap EXCEPT ![r] = "spent"]
    BY <2>2, <2>3, <2>4 DEF GrantMap
  <2>6. Grants!Spend(r)
    BY <2>1, <2>5 DEF Grants!Spend, GrantMap
  <2>7. QED
    BY <2>6 DEF Grants!Next
<1>5. ASSUME NEW r \in Runs, Handing(r)
      PROVE  Grants!Next
  <2>1. runs[r].attempted /\ r \notin sent /\ runs[r].state \notin {"none", "skipped"}
    BY <1>5 DEF Handing, RowsInv
  <2>2. Grant(r) = "spent"
    BY <2>1 DEF Grant
  <2>3. \A q \in Runs : Grant(q)' = Grant(q)
    BY <1>5, SameGrant DEF Handing
  <2>4. GrantMap[r] = "spent" /\ GrantMap' = GrantMap
    BY <2>2, <2>3 DEF GrantMap
  <2>5. Grants!Submit(r)
    BY <1>5, <2>1, <2>4 DEF Grants!Submit, GrantMap, Handing
  <2>6. QED
    BY <2>5 DEF Grants!Next
<1>6. QED
  BY <1>1, <1>2, <1>3, <1>4, <1>5, StepKinds

\* Every occurrence is a permission granted once, spent only while it stands, and paid for
\* with at most one submission: scheduled follow-ups implement OneShotGrants.
THEOREM RefinesGrantsAlways == Spec => RefinesGrants
<1>1. Init => Grants!Init
  <2> SUFFICES ASSUME Init PROVE Grants!Init
    OBVIOUS
  <2>1. \A r \in Runs : Grant(r) = "none"
    BY DEF Init, NoRun, Grant
  <2>2. QED
    BY <2>1 DEF Init, Grants!Init
<1>2. RowsInv /\ [Step]_vars => [Grants!Next]_(Grants!vars)
  BY StepRefines
<1>3. QED
  BY <1>1, <1>2, RowsInvariant, PTL DEF Spec, RefinesGrants, Grants!Spec

=============================================================================
