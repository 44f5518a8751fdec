------------------------ MODULE ConversationRewindProofs ------------------------
(***************************************************************************)
(* What holds of rewinds for every set of requests, every target and every *)
(* bound: the provider's live query continues the history of the durable   *)
(* cursor and no other, although a rewind holds the daemon's lock only     *)
(* within each of its calls, and any of them may be cut off.  Then what    *)
(* the other theorems about rewinds rest on: the order of the requests,    *)
(* what a call says of the reservation, and which runtimes it fences.      *)
(***************************************************************************)
EXTENDS ConversationRewind, TLAPS

\* Calls that are between two awaits.
Held(op) == call[op].at \in {"reserved", "retired"}

Call == [method : {None, "prepare", "commit", "abort", "finish"},
         at : {None, "sent", "reserved", "retired", "ok", "refused", "unknown"}]

IsRow(w) == w = [op |-> w.op, phase |-> w.phase, runtime |-> w.runtime,
                 expected |-> w.expected, candidate |-> w.candidate]
IsQuery(w) == w = [runtime |-> w.runtime, turns |-> w.turns, running |-> w.running]
IsBinding(w) == w = [runtime |-> w.runtime, turns |-> w.turns]

\* The lock belongs to one call and the reservation, while it is being prepared, to that
\* call's rewind; from its retirement to the release of the reservation there is no query.
LockInv ==
  /\ call \in [Ops -> Call] /\ IsRow(row) /\ IsQuery(session) /\ IsBinding(binding)
  /\ \A op \in Ops :
       /\ Held(op) => row.phase = "preparing" /\ row.op = op
       /\ call[op].at = "retired" => session = NoQuery
  /\ row.phase = "prepared" => session = NoQuery
  /\ QueryOnCursor

-----------------------------------------------------------------------------
(* Updates of records *)

\* The phase of a reservation.
LEMMA PhaseExcept ==
  ASSUME NEW w, IsRow(w), NEW v, NEW x, x = [w EXCEPT !.phase = v]
  PROVE  /\ IsRow(x) /\ x.phase = v
         /\ x.op = w.op /\ x.runtime = w.runtime /\ x.expected = w.expected
         /\ x.candidate = w.candidate
<1>1. x \in [op : {w.op}, phase : {v}, runtime : {w.runtime}, expected : {w.expected},
             candidate : {w.candidate}]
  BY DEF IsRow
<1>2. QED
  BY <1>1 DEF IsRow

\* The reservation of a prepared rewind.
LEMMA MarkedRow ==
  ASSUME IsRow(row), NEW op \in Ops, MarkPrepared(op)
  PROVE  /\ IsRow(row') /\ row'.phase = "prepared"
         /\ row'.candidate = Prefix(binding.turns, TargetOf[op])
         /\ row'.op = row.op /\ row'.runtime = row.runtime /\ row'.expected = row.expected
<1> DEFINE c == Prefix(binding.turns, TargetOf[op])
<1>1. row' = [row EXCEPT !.phase = "prepared", !.candidate = c]
  BY DEF MarkPrepared
<1> HIDE DEF c
<1>2. row' \in [op : {row.op}, phase : {"prepared"}, runtime : {row.runtime},
                expected : {row.expected}, candidate : {c}]
  BY <1>1 DEF IsRow
<1>3. /\ IsRow(row') /\ row'.phase = "prepared" /\ row'.candidate = c
      /\ row'.op = row.op /\ row'.runtime = row.runtime /\ row'.expected = row.expected
  BY <1>2 DEF IsRow
<1>4. QED
  BY <1>3 DEF c

\* A query that starts a turn, and one that ends it.
LEMMA RunningExcept ==
  ASSUME NEW w, IsQuery(w), NEW v, NEW x, x = [w EXCEPT !.running = v]
  PROVE  IsQuery(x) /\ x.turns = w.turns /\ x.runtime = w.runtime /\ x.running = v
<1>1. x \in [runtime : {w.runtime}, turns : {w.turns}, running : {v}]
  BY DEF IsQuery
<1>2. QED
  BY <1>1 DEF IsQuery

LEMMA GrownQuery ==
  ASSUME IsQuery(session), FinishTurn
  PROVE  /\ IsQuery(session') /\ session'.turns = Append(session.turns, turns)
         /\ session'.runtime = session.runtime /\ session'.running = FALSE
<1> DEFINE h == Append(session.turns, turns)
<1>1. session' = [session EXCEPT !.running = FALSE, !.turns = h]
  BY DEF FinishTurn
<1> HIDE DEF h
<1>2. session' \in [runtime : {session.runtime}, turns : {h}, running : {FALSE}]
  BY <1>1 DEF IsQuery
<1>3. /\ IsQuery(session') /\ session'.turns = h
      /\ session'.runtime = session.runtime /\ session'.running = FALSE
  BY <1>2 DEF IsQuery
<1>4. QED
  BY <1>3 DEF h

\* A cursor that grows, and one that another runtime owns.
LEMMA CursorExcept ==
  ASSUME NEW w, IsBinding(w), NEW n, NEW x, x = [w EXCEPT !.turns = Append(@, n)]
  PROVE  IsBinding(x) /\ x.turns = Append(w.turns, n) /\ x.runtime = w.runtime
<1>1. x \in [runtime : {w.runtime}, turns : {Append(w.turns, n)}]
  BY DEF IsBinding
<1>2. QED
  BY <1>1 DEF IsBinding

LEMMA OwnerExcept ==
  ASSUME NEW w, IsBinding(w), NEW n, NEW x, x = [w EXCEPT !.runtime = n]
  PROVE  IsBinding(x) /\ x.turns = w.turns /\ x.runtime = n
<1>1. x \in [runtime : {n}, turns : {w.turns}]
  BY DEF IsBinding
<1>2. QED
  BY <1>1 DEF IsBinding

\* One call is given an answer.
LEMMA AnswerAt ==
  ASSUME call \in [Ops -> Call], NEW op \in Ops,
         NEW answer \in {"reserved", "retired", "ok", "refused", "unknown"}, Answers(op, answer)
  PROVE  /\ call' \in [Ops -> Call]
         /\ call'[op].at = answer /\ call'[op].method = call[op].method
         /\ \A q \in Ops : q # op => call'[q] = call[q]
<1>1. /\ Answered(op, answer) \in Call /\ Answered(op, answer).at = answer
      /\ Answered(op, answer).method = call[op].method
  BY DEF Answered, Call
<1> DEFINE c == Answered(op, answer)
<1>2. call' = [call EXCEPT ![op] = c]
  BY DEF Answers
<1> HIDE DEF c
<1>3. QED
  BY <1>1, <1>2 DEF c

\* One call is made.
LEMMA CallsAt ==
  ASSUME call \in [Ops -> Call], NEW op \in Ops, NEW step,
         NEW method \in {"prepare", "commit", "abort", "finish"}, Calls(op, step, method)
  PROVE  /\ call' \in [Ops -> Call] /\ call'[op].at = "sent" /\ call'[op].method = method
         /\ \A q \in Ops : q # op => call'[q] = call[q]
<1> DEFINE c == [method |-> method, at |-> "sent"]
<1>1. c \in Call /\ c.at = "sent" /\ c.method = method
  BY DEF Call
<1>2. call' = [call EXCEPT ![op] = c]
  BY DEF Calls
<1> HIDE DEF c
<1>3. QED
  BY <1>1, <1>2

-----------------------------------------------------------------------------
(* The invariant is kept *)

\* Steps that touch neither the reservation, the cursor nor the query, and take no lock.
Quiet ==
  /\ UNCHANGED <<row, binding, session>> /\ call' \in [Ops -> Call]
  /\ \A q \in Ops : call'[q] = call[q] \/ call'[q].at \notin {"reserved", "retired"}

LEMMA QuietKeeps == ASSUME LockInv, Quiet PROVE LockInv'
BY DEF LockInv, Quiet, Held, QueryOnCursor

LEMMA ReactorQuiet ==
  ASSUME LockInv, NEW op \in Ops, ReactorStep(op) \/ Request(op) PROVE Quiet
<1>0. call \in [Ops -> Call]
  BY DEF LockInv
<1>1. UNCHANGED <<row, binding, session>>
  <2>1. CASE Begin(op) \/ Decline(op) \/ Complete(op) \/ GivesUp(op) \/ LoseAnswer(op) \/ Request(op)
    BY <2>1 DEF Begin, Decline, Complete, GivesUp, LoseAnswer, Request, durable, daemon
  <2>2. CASE Prepared(op) \/ Drained(op) \/ DrainTimesOut(op) \/ Capture(op) \/ RestoreFails(op)
             \/ CommitRefusedSeen(op) \/ CompensateFails(op) \/ Aborted(op) \/ Committed(op)
             \/ CompleteFails(op) \/ Finished(op) \/ CleanUp(op) \/ CleanUpFails(op)
    BY <2>2 DEF Prepared, Drained, DrainTimesOut, Capture, RestoreFails, CommitRefusedSeen,
                CompensateFails, Aborted, Committed, CompleteFails, Finished, CleanUp,
                CleanUpFails, Moves, durable, daemon
  <2>3. CASE CaptureFails(op) \/ Restore(op) \/ Compensate(op)
    BY <2>3 DEF CaptureFails, Restore, Compensate, durable
  <2>4. QED
    BY <2>1, <2>2, <2>3 DEF ReactorStep
<1>2. \/ call' = call
      \/ \E step, method : /\ method \in {"prepare", "commit", "abort", "finish"}
                           /\ Calls(op, step, method)
  <2>1. CASE Begin(op) \/ CaptureFails(op) \/ Restore(op) \/ Compensate(op)
    BY <2>1 DEF Begin, CaptureFails, Restore, Compensate
  <2>2. CASE Complete(op)
    BY <2>2 DEF Complete
  <2>3. CASE Decline(op) \/ GivesUp(op) \/ LoseAnswer(op) \/ Request(op)
    BY <2>3 DEF Decline, GivesUp, LoseAnswer, Request, daemon
  <2>4. CASE Prepared(op) \/ Drained(op) \/ DrainTimesOut(op) \/ Capture(op) \/ RestoreFails(op)
             \/ CommitRefusedSeen(op) \/ CompensateFails(op) \/ Aborted(op) \/ Committed(op)
             \/ CompleteFails(op) \/ Finished(op) \/ CleanUp(op) \/ CleanUpFails(op)
    BY <2>4 DEF Prepared, Drained, DrainTimesOut, Capture, RestoreFails, CommitRefusedSeen,
                CompensateFails, Aborted, Committed, CompleteFails, Finished, CleanUp,
                CleanUpFails, Moves, daemon
  <2>5. QED
    BY <2>1, <2>2, <2>3, <2>4 DEF ReactorStep
<1>3. call' \in [Ops -> Call] /\ \A q \in Ops : call'[q] = call[q] \/ call'[q].at = "sent"
  BY <1>0, <1>2, CallsAt
<1>4. QED
  BY <1>1, <1>3 DEF Quiet

LEMMA EventsQuiet ==
  ASSUME LockInv,
         \/ Prompt \/ RefuseTurn \/ Project \/ BackendCrash
         \/ \E t \in 1..MaxTurns : EmitLate(t)
         \/ Publish \/ Receive \/ Admit
  PROVE  Quiet
<1>1. UNCHANGED <<row, binding, session, call>>
  BY DEF Prompt, RefuseTurn, Project, BackendCrash, EmitLate, Publish, Receive, Admit,
         durable, daemon
<1>2. QED
  BY <1>1 DEF Quiet, LockInv

LEMMA RepliesQuiet ==
  ASSUME LockInv, NEW op \in Ops,
         PrepareRefused(op) \/ CommitRefused(op) \/ CommitFails(op) \/ FinishFails(op)
  PROVE  Quiet
<1>1. UNCHANGED <<row, binding, session>> /\ \E answer \in {"refused", "unknown"} : Answers(op, answer)
  BY DEF PrepareRefused, CommitRefused, CommitFails, FinishFails, Replies, durable
<1>2. call' \in [Ops -> Call]
      /\ \A q \in Ops : call'[q] = call[q] \/ call'[q].at \in {"refused", "unknown"}
  BY <1>1, AnswerAt DEF LockInv
<1>3. QED
  BY <1>1, <1>2 DEF Quiet

LEMMA TurnsKeep ==
  ASSUME LockInv, StartTurn \/ FinishTurn PROVE LockInv'
<1>1. CASE StartTurn
  <2>1. UNCHANGED <<row, call>> /\ ~Locked /\ ~Pending
    BY <1>1 DEF StartTurn
  <2>2. row.phase # "prepared" /\ \A op \in Ops : call[op].at \notin {"reserved", "retired"}
    BY <2>1 DEF Locked, Pending
  <2>3. IsQuery(session') /\ IsBinding(binding') /\ QueryOnCursor'
    <3>1. CASE session # NoQuery /\ session' = [session EXCEPT !.running = TRUE]
               /\ UNCHANGED binding
      <4>1. IsQuery(session') /\ session'.turns = session.turns
        BY <3>1, RunningExcept DEF LockInv
      <4>2. QED
        BY <3>1, <4>1 DEF LockInv, QueryOnCursor
    <3>2. CASE /\ session' = [runtime |-> runtimes', turns |-> binding.turns, running |-> TRUE]
               /\ binding' = [binding EXCEPT !.runtime = runtimes']
      <4>1. PICK n : n = runtimes'
        OBVIOUS
      <4>2. IsQuery(session') /\ session'.turns = binding.turns
        BY <3>2 DEF IsQuery
      <4>3. binding' = [binding EXCEPT !.runtime = n]
        BY <3>2, <4>1
      <4>4. IsBinding(binding') /\ binding'.turns = binding.turns
        BY <4>3, OwnerExcept DEF LockInv
      <4>5. QED
        BY <4>2, <4>4 DEF QueryOnCursor
    <3>3. QED
      BY <1>1, <3>1, <3>2 DEF StartTurn
  <2>4. QED
    BY <2>1, <2>2, <2>3 DEF LockInv, Held
<1>2. CASE FinishTurn
  <2>1. /\ UNCHANGED <<row, call>> /\ session # NoQuery
        /\ session' = [session EXCEPT !.running = FALSE, !.turns = Append(@, turns)]
        /\ binding' = [binding EXCEPT !.turns = Append(@, turns)]
    BY <1>2 DEF FinishTurn
  <2>2. IsQuery(session') /\ session'.turns = Append(session.turns, turns)
    BY <1>2, GrownQuery DEF LockInv
  <2>3. IsBinding(binding') /\ binding'.turns = Append(binding.turns, turns)
    BY <2>1, CursorExcept DEF LockInv
  <2>4. session.turns = binding.turns
    BY <2>1 DEF LockInv, QueryOnCursor
  <2>5. QueryOnCursor'
    BY <2>2, <2>3, <2>4 DEF QueryOnCursor
  <2>6. row.phase # "prepared" /\ \A op \in Ops : call[op].at # "retired"
    BY <2>1 DEF LockInv
  <2>7. QED
    BY <2>1, <2>2, <2>3, <2>5, <2>6 DEF LockInv, Held
<1>3. QED
  BY <1>1, <1>2

\* The calls that prepare a rewind.
LEMMA PreparingKeeps ==
  ASSUME LockInv, NEW op \in Ops,
         Reserve(op) \/ RefusePreparing(op) \/ Retire(op) \/ MarkPrepared(op) \/ PrepareUncertain(op)
  PROVE  LockInv'
<1>0. call \in [Ops -> Call] /\ IsRow(row) /\ IsQuery(session) /\ IsBinding(binding)
  BY DEF LockInv
<1>1. ASSUME Held(op) PROVE \A q \in Ops : q # op => ~Held(q)
  BY <1>1 DEF LockInv
<1>2. CASE Reserve(op)
  <2>1. /\ row' = [op |-> op, phase |-> "preparing", runtime |-> session.runtime,
                   expected |-> expected[op], candidate |-> <<>>]
        /\ Answers(op, "reserved") /\ UNCHANGED <<session, binding>> /\ ~Locked
    BY <1>2 DEF Reserve
  <2>2. IsRow(row') /\ row'.phase = "preparing" /\ row'.op = op
    BY <2>1 DEF IsRow
  <2>3. /\ call' \in [Ops -> Call] /\ call'[op].at = "reserved"
        /\ \A q \in Ops : q # op => call'[q] = call[q] /\ call[q].at \notin {"reserved", "retired"}
    BY <1>0, <2>1, AnswerAt DEF Locked
  <2>4. QED
    BY <2>1, <2>2, <2>3 DEF LockInv, Held, QueryOnCursor
<1>3. CASE RefusePreparing(op)
  <2>1. /\ row' = [row EXCEPT !.phase = "refused"] /\ Held(op)
        /\ Answers(op, "refused") /\ UNCHANGED <<session, binding>>
    BY <1>3 DEF RefusePreparing, Held
  <2>2. IsRow(row') /\ row'.phase = "refused" /\ row'.op = row.op
    BY <1>0, <2>1, PhaseExcept
  <2>3. /\ call' \in [Ops -> Call] /\ call'[op].at = "refused"
        /\ \A q \in Ops : q # op => call'[q] = call[q] /\ ~Held(q)
    BY <1>0, <1>1, <2>1, AnswerAt
  <2>4. QED
    BY <2>1, <2>2, <2>3 DEF LockInv, Held, QueryOnCursor
<1>4. CASE Retire(op)
  <2>1. /\ session' = NoQuery /\ Answers(op, "retired") /\ Held(op) /\ UNCHANGED <<row, binding>>
    BY <1>4 DEF Retire, Held, durable
  <2>2. /\ call' \in [Ops -> Call] /\ call'[op].at = "retired"
        /\ \A q \in Ops : q # op => call'[q] = call[q] /\ ~Held(q)
    BY <1>0, <1>1, <2>1, AnswerAt
  <2>3. IsQuery(session')
    BY <2>1 DEF IsQuery, NoQuery
  <2>4. QED
    BY <2>1, <2>2, <2>3 DEF LockInv, Held, QueryOnCursor
<1>5. CASE MarkPrepared(op)
  <2>1. /\ row' = [row EXCEPT !.phase = "prepared",
                             !.candidate = Prefix(binding.turns, TargetOf[op])]
        /\ Answers(op, "ok") /\ Held(op) /\ call[op].at = "retired" /\ UNCHANGED <<session, binding>>
    BY <1>5 DEF MarkPrepared, Held
  <2>2. IsRow(row') /\ row'.phase = "prepared"
    BY <1>0, <1>5, MarkedRow
  <2>3. /\ call' \in [Ops -> Call] /\ call'[op].at = "ok"
        /\ \A q \in Ops : q # op => call'[q] = call[q] /\ ~Held(q)
    BY <1>0, <1>1, <2>1, AnswerAt
  <2>4. QED
    BY <2>1, <2>2, <2>3 DEF LockInv, Held, QueryOnCursor
<1>6. CASE PrepareUncertain(op)
  <2>1. /\ session' \in {session, NoQuery} /\ Answers(op, "unknown") /\ UNCHANGED <<row, binding>>
    BY <1>6 DEF PrepareUncertain, durable
  <2>2. /\ call' \in [Ops -> Call] /\ call'[op].at = "unknown"
        /\ \A q \in Ops : q # op => call'[q] = call[q]
    BY <1>0, <2>1, AnswerAt
  <2>3. IsQuery(session')
    BY <1>0, <2>1 DEF IsQuery, NoQuery
  <2>4. QED
    BY <2>1, <2>2, <2>3 DEF LockInv, Held, QueryOnCursor
<1>7. QED
  BY <1>2, <1>3, <1>4, <1>5, <1>6

\* The calls that end one, and the daemon's end.
LEMMA EndingKeeps ==
  ASSUME LockInv, NEW op \in Ops, Commit(op) \/ Finish(op) PROVE LockInv'
<1>0. call \in [Ops -> Call] /\ IsRow(row) /\ ~Locked
  BY DEF LockInv, Commit, Finish
<1>1. /\ Answers(op, "ok") /\ UNCHANGED session
      /\ \E phase \in {"committed", "aborted", "finished"} : row' = [row EXCEPT !.phase = phase]
  BY DEF Commit, Finish
<1>2. IsRow(row') /\ row'.phase \notin {"prepared", "preparing"}
  BY <1>0, <1>1, PhaseExcept
<1>3. /\ call' \in [Ops -> Call] /\ \A q \in Ops : ~Held(q)'
  BY <1>0, <1>1, AnswerAt DEF Held, Locked
<1>4. IsBinding(binding') /\ QueryOnCursor'
  <2>1. CASE Commit(op)
    <3>1. session' = NoQuery
      BY <1>1, <2>1 DEF Commit, LockInv
    <3>2. QED
      BY <2>1, <3>1 DEF Commit, QueryOnCursor, IsBinding
  <2>2. CASE Finish(op)
    BY <1>1, <2>2 DEF Finish, LockInv, QueryOnCursor
  <2>3. QED
    BY <2>1, <2>2
<1>5. QED
  BY <1>1, <1>2, <1>3, <1>4 DEF LockInv, Held

LEMMA CrashKeeps ==
  ASSUME LockInv, DaemonCrash PROVE LockInv'
<1>1. UNCHANGED <<row, binding>> /\ session' = NoQuery
  BY DEF DaemonCrash, durable
<1>2. call' \in [Ops -> Call] /\ \A op \in Ops : ~Held(op)'
  <2>1. \A op \in Ops : Answered(op, "unknown") \in Call /\ Answered(op, "unknown").at = "unknown"
    BY DEF Answered, Call, LockInv
  <2>2. call' = [op \in Ops |-> IF call[op].at \in {"reserved", "retired"}
                                THEN Answered(op, "unknown") ELSE call[op]]
    BY DEF DaemonCrash
  <2>3. QED
    BY <2>1, <2>2 DEF Held, LockInv
<1>3. IsQuery(session')
  BY <1>1 DEF IsQuery, NoQuery
<1>4. QED
  BY <1>1, <1>2, <1>3 DEF LockInv, Held, QueryOnCursor

LEMMA InitLock == Init => LockInv
<1> SUFFICES ASSUME Init PROVE LockInv
  OBVIOUS
<1>1. call \in [Ops -> Call] /\ \A op \in Ops : call[op].at = None
  BY DEF Init, NoCall, Call
<1>2. IsRow(row) /\ row.phase = None /\ IsQuery(session) /\ IsBinding(binding)
      /\ session.turns = binding.turns
  BY DEF Init, NoRow, IsRow, IsQuery, IsBinding
<1>3. QED
  BY <1>1, <1>2 DEF LockInv, Held, None, QueryOnCursor

LEMMA StepKeepsLock == ASSUME LockInv, [Next]_vars PROVE LockInv'
<1>1. CASE UNCHANGED vars
  BY <1>1, QuietKeeps DEF vars, durable, daemon, Quiet, LockInv
<1>2. ASSUME NEW op \in Ops, CallStep(op) PROVE LockInv'
  BY <1>2, RepliesQuiet, QuietKeeps, PreparingKeeps, EndingKeeps DEF CallStep
<1>3. ASSUME NEW op \in Ops, Request(op) \/ ReactorStep(op) PROVE LockInv'
  BY <1>3, ReactorQuiet, QuietKeeps
<1>4. CASE \/ Prompt \/ RefuseTurn \/ Project \/ BackendCrash
           \/ \E t \in 1..MaxTurns : EmitLate(t)
           \/ Publish \/ Receive \/ Admit
  BY <1>4, EventsQuiet, QuietKeeps
<1>5. CASE StartTurn \/ FinishTurn \/ DaemonCrash
  BY <1>5, TurnsKeep, CrashKeeps
<1>6. QED
  BY <1>1, <1>2, <1>3, <1>4, <1>5 DEF Next

\* A live query continues the history of the durable cursor, however calls, turns and
\* crashes interleave.
THEOREM QueryStaysOnCursor == Spec => []QueryOnCursor
<1>1. Init => LockInv
  BY InitLock
<1>2. LockInv /\ [Next]_vars => LockInv'
  BY StepKeepsLock
<1>3. LockInv => QueryOnCursor
  BY DEF LockInv
<1>4. QED
  BY <1>1, <1>2, <1>3, PTL DEF Spec

-----------------------------------------------------------------------------
(* Requests in line *)

Steps == {"unasked", "queued", "preparing", "draining", "capturing", "restoring", "committing",
          "compensating", "aborting", "completing", "finishing", "cleaning"} \cup Settled

Begun(op) == pc[op] \notin {"unasked", "queued"}
Active(op) == Begun(op) /\ pc[op] \notin Settled

\* Requests begin in the order they were made, and an older one cannot be the latest
\* control any more.
Line ==
  /\ controls \in Nat /\ expected \in [Ops -> Nat] /\ pc \in [Ops -> Steps]
  /\ \A op \in Ops : expected[op] <= controls
  /\ \A op, q \in Ops :
       /\ pc[op] = "queued" /\ pc[q] = "queued" /\ op # q => expected[op] # expected[q]
       /\ Begun(op) /\ pc[q] = "queued" => expected[op] < expected[q]
       /\ Active(op) /\ Begun(q) /\ op # q => expected[q] < expected[op]

\* A rewind that is under way goes on or ends.
Advances(op) ==
  /\ Active(op) /\ UNCHANGED expected /\ controls' \in {controls, controls + 1}
  /\ \E to \in Steps \ {"unasked", "queued"} : Goes(op, to)

LEMMA ReactorAdvances ==
  ASSUME NEW op \in Ops, ReactorStep(op)
  PROVE  Advances(op) \/ Begin(op) \/ Decline(op)
<1>1. CASE \/ Prepared(op) \/ Drained(op) \/ DrainTimesOut(op) \/ Capture(op) \/ RestoreFails(op)
           \/ CommitRefusedSeen(op) \/ CompensateFails(op) \/ Aborted(op) \/ Committed(op)
           \/ CompleteFails(op) \/ Finished(op) \/ CleanUp(op) \/ CleanUpFails(op)
  BY <1>1 DEF Prepared, Drained, DrainTimesOut, Capture, RestoreFails, CommitRefusedSeen,
              CompensateFails, Aborted, Committed, CompleteFails, Finished, CleanUp,
              CleanUpFails, Moves, Advances, Active, Begun, Steps, Settled, durable
<1>2. CASE CaptureFails(op) \/ Restore(op) \/ Compensate(op)
  BY <1>2 DEF CaptureFails, Restore, Compensate, Calls, Advances, Active, Begun, Steps, Settled,
              durable
<1>3. CASE Complete(op)
  BY <1>3 DEF Complete, Calls, Advances, Active, Begun, Steps, Settled
<1>4. CASE GivesUp(op) \/ LoseAnswer(op)
  BY <1>4 DEF GivesUp, LoseAnswer, Advances, Active, Begun, Steps, Settled, durable
<1>5. QED
  BY <1>1, <1>2, <1>3, <1>4 DEF ReactorStep

LEMMA LineKept == ASSUME Line, [Next]_vars PROVE Line'
<1>1. CASE UNCHANGED <<pc, expected>> /\ controls' \in {controls, controls + 1}
  BY <1>1 DEF Line, Begun, Active
<1>2. ASSUME NEW op \in Ops, ReactorStep(op) PROVE Line'
  <2>1. CASE Advances(op)
    BY <2>1 DEF Advances, Goes, Line, Begun, Active, Steps, Settled
  <2>2. CASE Begin(op) \/ Decline(op)
    <3>1. /\ Take(op) /\ UNCHANGED <<controls, expected>>
          /\ \E to \in {"preparing", "failed"} : pc' = [pc EXCEPT ![op] = to]
      BY <2>2 DEF Begin, Decline, Calls, Goes, durable
    <3>2. \A q \in Ops : ~Active(q)
      BY <3>1 DEF Take, Idle, Active, Begun, Line, Steps
    <3>3. \A q \in Ops : q # op /\ pc[q] = "queued" => expected[op] < expected[q]
      BY <3>1 DEF Take, Line
    <3>4. QED
      BY <3>1, <3>2, <3>3 DEF Take, Line, Begun, Active, Steps, Settled
  <2>3. QED
    BY <1>2, <2>1, <2>2, ReactorAdvances
<1>3. ASSUME NEW op \in Ops, Request(op) PROVE Line'
  BY <1>3 DEF Request, Goes, Line, Begun, Active, Steps, Settled
<1>4. CASE BackendCrash
  BY <1>4 DEF BackendCrash, durable, Line, Begun, Active, Steps, Settled
<1>5. CASE UNCHANGED vars
  BY <1>1, <1>5 DEF vars, durable, reactor
<1>6. CASE \/ Prompt \/ StartTurn \/ RefuseTurn \/ FinishTurn \/ DaemonCrash
           \/ \E t \in 1..MaxTurns : EmitLate(t)
           \/ Publish \/ Receive \/ Admit \/ Project
  BY <1>1, <1>6 DEF Prompt, StartTurn, RefuseTurn, FinishTurn, DaemonCrash, EmitLate, Publish,
                    Receive, Admit, Project, durable, reactor
<1>7. ASSUME NEW op \in Ops, CallStep(op) PROVE Line'
  BY <1>1, <1>7 DEF CallStep, PrepareRefused, Reserve, RefusePreparing, Retire, MarkPrepared,
                    PrepareUncertain, Commit, CommitRefused, CommitFails, Finish, FinishFails,
                    Replies, durable, reactor
<1>8. QED
  BY <1>2, <1>3, <1>4, <1>5, <1>6, <1>7 DEF Next

-----------------------------------------------------------------------------
(* Calls and the reservation *)

Is(op, method, answer) == call[op].method = method /\ call[op].at = answer
RowIs(op, phase) == row.op = op /\ row.phase = phase

\* What the reactor's step says of its last call.
Asked(op) ==
  /\ ~Begun(op) => Is(op, None, None)
  /\ pc[op] = "preparing" => call[op].method = "prepare"
  /\ pc[op] \in {"draining", "capturing", "restoring"} => Is(op, "prepare", "ok")
  /\ pc[op] = "compensating" => Is(op, "prepare", "ok") \/ Is(op, "commit", "refused")
  /\ pc[op] = "committing" => call[op].method = "commit"
  /\ pc[op] = "completing" => Is(op, "commit", "ok")
  /\ pc[op] \in {"committing", "completing"} => op \notin completed
  /\ pc[op] = "aborting" => call[op].method = "abort"
  /\ pc[op] = "finishing" => call[op].method = "finish"
  /\ pc[op] = "cleaning" => Is(op, "finish", "ok")
  /\ Held(op) => call[op].method = "prepare"
  /\ op \in completed => Is(op, "commit", "ok") \/ call[op].method = "finish"
  /\ call[op].method = "finish" => op \in completed

\* What a call says of the reservation.
Owns(op) ==
  /\ Is(op, "prepare", "ok") => RowIs(op, "prepared")
  /\ call[op].method = "commit" =>
       RowIs(op, IF call[op].at = "ok" THEN "committed" ELSE "prepared")
  /\ call[op].method = "abort" /\ call[op].at # "ok" => RowIs(op, "prepared")
  /\ call[op].method = "finish" /\ call[op].at # "ok" => RowIs(op, "committed")
  /\ pc[op] = "aborting" /\ call[op].at = "ok" => RowIs(op, "aborted")
  /\ pc[op] \in {"finishing", "cleaning"} /\ call[op].at = "ok" => RowIs(op, "finished")

Protocol == LockInv /\ Line /\ \A op \in Ops : Asked(op) /\ Owns(op)

\* A step of one rewind leaves the others alone.
Alone(op) ==
  \A q \in Ops \ {op} : /\ pc'[q] = pc[q] /\ call'[q] = call[q]
                        /\ (q \in completed') = (q \in completed)

LEMMA AloneKeeps ==
  ASSUME Protocol, NEW op \in Ops, Alone(op), UNCHANGED row, Asked(op)', Owns(op)'
  PROVE  \A q \in Ops : Asked(q)' /\ Owns(q)'
<1> SUFFICES ASSUME NEW q \in Ops, q # op PROVE Asked(q)' /\ Owns(q)'
  OBVIOUS
<1>1. QED
  BY DEF Protocol, Alone, Asked, Owns, Is, RowIs, Held, Begun

\* Steps of the reactor that make no call.
LEMMA MovesKeep ==
  ASSUME Protocol, NEW op \in Ops, NEW to \in Steps, Goes(op, to),
         UNCHANGED <<call, row, completed>>, (Asked(op) /\ Owns(op))'
  PROVE  \A q \in Ops : Asked(q)' /\ Owns(q)'
<1>1. Alone(op)
  BY DEF Alone, Protocol, Line, Goes
<1>2. QED
  BY <1>1, AloneKeeps

LEMMA ReactorProtocol ==
  ASSUME Protocol, NEW op \in Ops, ReactorStep(op) \/ Request(op)
  PROVE  \A q \in Ops : Asked(q)' /\ Owns(q)'
<1>0. /\ pc \in [Ops -> Steps] /\ call \in [Ops -> Call] /\ Asked(op) /\ Owns(op)
  BY DEF Protocol, Line, LockInv
<1>1. ASSUME NEW to \in Steps, Goes(op, to), UNCHANGED <<call, row, completed>>,
             Begun(op) => to \notin {"unasked", "queued"}, ~Begun(op) => to \in {"queued", "failed"},
             to \in {"draining", "capturing", "restoring"} => Is(op, "prepare", "ok"),
             to = "compensating" => Is(op, "prepare", "ok") \/ Is(op, "commit", "refused"),
             to = "completing" => Is(op, "commit", "ok") /\ pc[op] = "committing",
             to = "cleaning" => Is(op, "finish", "ok") /\ pc[op] = "finishing",
             to \notin {"preparing", "committing", "aborting", "finishing"}
      PROVE  \A q \in Ops : Asked(q)' /\ Owns(q)'
  <2>1. pc'[op] = to
    BY <1>0, <1>1 DEF Goes
  <2>2. Asked(op)' /\ Owns(op)'
    BY <1>0, <1>1, <2>1 DEF Asked, Owns, Is, RowIs, Held, Begun
  <2>3. QED
    BY <1>1, <2>2, MovesKeep
<1>2. CASE Prepared(op) \/ Drained(op) \/ DrainTimesOut(op) \/ Capture(op) \/ RestoreFails(op)
  BY <1>0, <1>1, <1>2 DEF Prepared, Drained, DrainTimesOut, Capture, RestoreFails, Moves, Knows,
     durable, daemon, Steps, Settled, Begun, Asked, Is
<1>3. CASE CommitRefusedSeen(op) \/ CompensateFails(op) \/ Aborted(op) \/ Committed(op)
  BY <1>0, <1>1, <1>3 DEF CommitRefusedSeen, CompensateFails, Aborted, Committed, Moves, Knows,
     durable, daemon, Steps, Settled, Begun, Asked, Is
<1>4. CASE CompleteFails(op) \/ Finished(op) \/ CleanUp(op) \/ CleanUpFails(op)
  BY <1>0, <1>1, <1>4 DEF CompleteFails, Finished, CleanUp, CleanUpFails, Moves, Knows,
     durable, daemon, Steps, Settled, Begun, Asked, Is
<1>5. CASE GivesUp(op) \/ LoseAnswer(op) \/ Decline(op) \/ Request(op)
  BY <1>0, <1>1, <1>5 DEF GivesUp, LoseAnswer, Decline, Request, Take, durable, daemon, Steps,
     Settled, Begun, Asked, Is
<1>6. ASSUME NEW step \in {"preparing", "committing", "aborting", "finishing"},
             NEW method \in {"prepare", "commit", "abort", "finish"}, Calls(op, step, method),
             UNCHANGED row, \A q \in Ops \ {op} : (q \in completed') = (q \in completed),
             (op \in completed') = (method = "finish"),
             <<step, method>> \in {<<"preparing", "prepare">>, <<"committing", "commit">>,
                                   <<"aborting", "abort">>, <<"finishing", "finish">>},
             method \in {"commit", "abort"} => RowIs(op, "prepared"),
             method = "finish" => RowIs(op, "committed")
      PROVE  \A q \in Ops : Asked(q)' /\ Owns(q)'
  <2>1. /\ pc'[op] = step /\ call'[op].method = method /\ call'[op].at = "sent"
        /\ \A q \in Ops : q # op => call'[q] = call[q] /\ pc'[q] = pc[q]
    BY <1>0, <1>6, CallsAt DEF Calls, Goes
  <2>2. Asked(op)' /\ Owns(op)'
    BY <1>6, <2>1 DEF Asked, Owns, Is, RowIs, Held, Begun, None
  <2>3. QED
    BY <1>6, <2>1, <2>2, AloneKeeps DEF Alone
<1>7. CASE Begin(op)
  BY <1>0, <1>6, <1>7 DEF Begin, Take, durable, Begun, Asked, Is, None
<1>8. CASE CaptureFails(op) \/ Restore(op) \/ Compensate(op)
  BY <1>0, <1>6, <1>8 DEF CaptureFails, Restore, Compensate, durable, Asked, Owns, Is, RowIs
<1>9. CASE Complete(op)
  <2>1. /\ Is(op, "commit", "ok") /\ RowIs(op, "committed") /\ UNCHANGED row
        /\ completed' = completed \cup {op}
    BY <1>0, <1>9 DEF Complete, Asked, Owns, Is
  <2>2. CASE Calls(op, "finishing", "finish")
    BY <1>6, <2>1, <2>2
  <2>3. CASE Goes(op, "failed") /\ UNCHANGED call
    <3>1. pc'[op] = "failed" /\ Alone(op)
      BY <1>0, <2>1, <2>3 DEF Goes, Alone
    <3>2. Asked(op)' /\ Owns(op)'
      BY <1>0, <2>1, <2>3, <3>1 DEF Asked, Owns, Is, RowIs, Held, Begun, None
    <3>3. QED
      BY <2>1, <3>1, <3>2, AloneKeeps
  <2>4. QED
    BY <1>9, <2>2, <2>3 DEF Complete
<1>10. QED
  BY <1>2, <1>3, <1>4, <1>5, <1>7, <1>8, <1>9 DEF ReactorStep

\* One call is answered, and the reservation with it.
LEMMA AnswersKeep ==
  ASSUME Protocol, NEW op \in Ops,
         NEW answer \in {"reserved", "retired", "ok", "refused", "unknown"}, Answers(op, answer),
         UNCHANGED <<pc, completed>>,
         call[op].at # "ok", (Asked(op) /\ Owns(op))',
         \/ UNCHANGED row
         \/ /\ RowIs(op, "preparing") \/ RowIs(op, "prepared") \/ RowIs(op, "committed")
         \/ ~Pending /\ \A q \in Ops \ {op} : ~Active(q)
  PROVE  \A q \in Ops : Asked(q)' /\ Owns(q)'
<1>0. call \in [Ops -> Call]
  BY DEF Protocol, LockInv
<1>1. Alone(op)
  BY <1>0, AnswerAt DEF Alone
<1>2. CASE UNCHANGED row
  BY <1>1, <1>2, AloneKeeps
<1>3. CASE \/ RowIs(op, "preparing") \/ RowIs(op, "prepared") \/ RowIs(op, "committed")
           \/ ~Pending /\ \A q \in Ops \ {op} : ~Active(q)
  <2> SUFFICES ASSUME NEW q \in Ops, q # op PROVE Asked(q)' /\ Owns(q)'
    OBVIOUS
  <2>1. Asked(q)'
    BY <1>1 DEF Protocol, Alone, Asked, Is, Held, Begun
  <2>2. /\ ~Is(q, "prepare", "ok") /\ call[q].method # "commit"
        /\ call[q].method \in {"abort", "finish"} => call[q].at = "ok"
        /\ pc[q] \notin {"aborting", "finishing", "cleaning"} \/ call[q].at # "ok"
    <3>1. Owns(q) /\ Asked(q) /\ (row.op = op \/ ~Pending)
      BY <1>3 DEF Protocol, RowIs
    <3>2. CASE row.op = op /\ row.phase \in {"preparing", "prepared", "committed"}
      BY <3>1, <3>2 DEF Owns, RowIs
    <3>3. CASE ~Pending /\ ~Active(q)
      BY <3>1, <3>3 DEF Owns, RowIs, Pending, Active, Begun, Settled
    <3>4. QED
      BY <1>3, <3>2, <3>3 DEF RowIs
  <2>3. QED
    BY <1>1, <2>1, <2>2 DEF Alone, Owns, Is
<1>4. QED
  BY <1>2, <1>3

LEMMA CallsProtocol ==
  ASSUME Protocol, NEW op \in Ops, CallStep(op)
  PROVE  \A q \in Ops : Asked(q)' /\ Owns(q)'
<1>0. /\ pc \in [Ops -> Steps] /\ call \in [Ops -> Call] /\ Asked(op) /\ Owns(op)
      /\ IsRow(row) /\ (Held(op) => RowIs(op, "preparing"))
  BY DEF Protocol, Line, LockInv, RowIs
<1>1. CASE PrepareRefused(op) \/ CommitRefused(op) \/ CommitFails(op) \/ FinishFails(op)
  <2>1. /\ call[op].at = "sent" /\ call[op].method \in {"prepare", "commit", "abort", "finish"}
        /\ UNCHANGED <<pc, completed, row>>
        /\ \E answer \in {"refused", "unknown"} : Answers(op, answer)
    BY <1>1 DEF PrepareRefused, CommitRefused, CommitFails, FinishFails, Replies, Sent, durable,
                reactor
  <2>2. PICK answer \in {"refused", "unknown"} : Answers(op, answer)
    BY <2>1
  <2>3. call'[op].at = answer /\ call'[op].method = call[op].method
    BY <1>0, <2>2, AnswerAt
  <2>4. (Asked(op) /\ Owns(op))'
    BY <1>0, <2>1, <2>3 DEF Asked, Owns, Is, RowIs, Held, Begun, None
  <2>5. QED
    BY <2>1, <2>2, <2>4, AnswersKeep
<1>2. CASE Reserve(op)
  <2>1. /\ Is(op, "prepare", "sent") /\ ~Pending /\ controls = expected[op]
        /\ UNCHANGED <<pc, completed>> /\ Answers(op, "reserved")
    BY <1>2 DEF Reserve, Sent, Is, CanReserve, reactor
  <2>2. \A q \in Ops \ {op} : ~Active(q)
    BY <1>0, <2>1 DEF Protocol, Line, Asked, Is, None
  <2>3. call'[op].at = "reserved" /\ call'[op].method = "prepare"
    BY <1>0, <2>1, AnswerAt DEF Is
  <2>4. (Asked(op) /\ Owns(op))'
    BY <1>0, <2>1, <2>3 DEF Asked, Owns, Is, RowIs, Held, Begun, None
  <2>5. QED
    BY <2>1, <2>2, <2>4, AnswersKeep DEF Is
<1>3. CASE RefusePreparing(op) \/ Retire(op) \/ MarkPrepared(op) \/ PrepareUncertain(op)
  <2>1. /\ Held(op) /\ RowIs(op, "preparing") /\ UNCHANGED <<pc, completed>>
        /\ \E answer \in {"retired", "ok", "refused", "unknown"} :
             Answers(op, answer) /\ (answer = "ok" => MarkPrepared(op))
    BY <1>0, <1>3 DEF RefusePreparing, Retire, MarkPrepared, PrepareUncertain, Held, durable, reactor
  <2>2. PICK answer \in {"retired", "ok", "refused", "unknown"} :
          Answers(op, answer) /\ (answer = "ok" => MarkPrepared(op))
    BY <2>1
  <2>3. call'[op].at = answer /\ call'[op].method = call[op].method
    BY <1>0, <2>2, AnswerAt
  <2>4. answer = "ok" => RowIs(op, "prepared")'
    BY <1>0, <2>1, <2>2, MarkedRow DEF RowIs
  <2>5. (Asked(op) /\ Owns(op))'
    BY <1>0, <2>1, <2>3, <2>4 DEF Asked, Owns, Is, RowIs, Held, Begun, None
  <2>6. QED
    BY <2>1, <2>2, <2>5, AnswersKeep DEF Held
<1>4. CASE Commit(op) \/ Finish(op)
  <2>1. /\ call[op].at = "sent" /\ UNCHANGED <<pc, completed>> /\ Answers(op, "ok")
        /\ \/ /\ call[op].method = "commit" /\ RowIs(op, "prepared")
              /\ row' = [row EXCEPT !.phase = "committed"]
           \/ /\ call[op].method = "abort" /\ RowIs(op, "prepared")
              /\ row' = [row EXCEPT !.phase = "aborted"]
           \/ /\ call[op].method = "finish" /\ RowIs(op, "committed")
              /\ row' = [row EXCEPT !.phase = "finished"]
    BY <1>4 DEF Commit, Finish, Sent, CanFinish, RowIs, reactor
  <2>2. call'[op].at = "ok" /\ call'[op].method = call[op].method
    BY <1>0, <2>1, AnswerAt
  <2>3. \/ call[op].method = "commit" /\ RowIs(op, "committed")'
        \/ call[op].method = "abort" /\ RowIs(op, "aborted")'
        \/ call[op].method = "finish" /\ RowIs(op, "finished")'
    BY <1>0, <2>1, PhaseExcept DEF RowIs
  <2>4. (Asked(op) /\ Owns(op))'
    BY <1>0, <2>1, <2>2, <2>3 DEF Asked, Owns, Is, RowIs, Held, Begun, None
  <2>5. QED
    BY <2>1, <2>4, AnswersKeep
<1>5. QED
  BY <1>1, <1>2, <1>3, <1>4 DEF CallStep

LEMMA InitProtocol == Init => Protocol
<1> SUFFICES ASSUME Init PROVE Protocol
  OBVIOUS
<1>1. Line
  BY DEF Init, Line, Steps, Begun, Active
<1>2. \A op \in Ops : Asked(op) /\ Owns(op)
  BY DEF Init, Asked, Owns, Is, NoCall, Held, Begun, None
<1>3. QED
  BY <1>1, <1>2, InitLock DEF Protocol

LEMMA ProtocolKept == ASSUME Protocol, [Next]_vars PROVE Protocol'
<1>0. LockInv' /\ Line'
  BY StepKeepsLock, LineKept DEF Protocol
<1>1. CASE UNCHANGED <<pc, call, row, completed>>
  BY <1>0, <1>1 DEF Protocol, Asked, Owns, Is, RowIs, Held, Begun
<1>2. CASE UNCHANGED vars
  BY <1>1, <1>2 DEF vars, durable, daemon, reactor
<1>3. CASE \/ Prompt \/ StartTurn \/ RefuseTurn \/ FinishTurn
           \/ \E t \in 1..MaxTurns : EmitLate(t)
           \/ Publish \/ Receive \/ Admit \/ Project
  BY <1>1, <1>3 DEF Prompt, StartTurn, RefuseTurn, FinishTurn, EmitLate, Publish,
                    Receive, Admit, Project, durable, daemon, reactor
<1>4. ASSUME NEW op \in Ops, Request(op) \/ ReactorStep(op) PROVE Protocol'
  BY <1>0, <1>4, ReactorProtocol DEF Protocol
<1>5. ASSUME NEW op \in Ops, CallStep(op) PROVE Protocol'
  BY <1>0, <1>5, CallsProtocol DEF Protocol
<1>6. CASE BackendCrash
  <2>1. /\ UNCHANGED <<call, row, completed>>
        /\ \A op \in Ops : pc'[op] = pc[op] \/ pc'[op] = "lost"
        /\ \A op \in Ops : pc'[op] \in Settled \cup {"unasked"}
    BY <1>6 DEF BackendCrash, durable, daemon, Settled
  <2>2. ASSUME NEW op \in Ops PROVE Asked(op)' /\ Owns(op)'
    BY <2>1 DEF Protocol, Asked, Owns, Is, RowIs, Held, Begun, Settled
  <2>3. QED
    BY <1>0, <2>2 DEF Protocol
<1>7. CASE DaemonCrash
  <2>1. /\ UNCHANGED <<pc, row, completed>>
        /\ \A op \in Ops : call'[op] = IF Held(op) THEN Answered(op, "unknown") ELSE call[op]
    BY <1>7 DEF DaemonCrash, durable, reactor, Held
  <2>2. ASSUME NEW op \in Ops PROVE Asked(op)' /\ Owns(op)'
    <3>1. CASE ~Held(op)
      BY <2>1, <3>1 DEF Protocol, Asked, Owns, Is, RowIs, Held, Begun
    <3>2. CASE Held(op)
      <4>1. /\ Answered(op, "unknown").method = call[op].method
            /\ Answered(op, "unknown").at = "unknown"
        BY DEF Answered
      <4>2. call[op].method = "prepare" /\ call'[op] = Answered(op, "unknown")
        BY <2>1, <3>2 DEF Protocol, Asked
      <4>3. QED
        BY <2>1, <3>2, <4>1, <4>2 DEF Protocol, Asked, Owns, Is, RowIs, Held, Begun, None
    <3>3. QED
      BY <3>1, <3>2
  <2>3. QED
    BY <1>0, <2>2 DEF Protocol
<1>8. QED
  BY <1>2, <1>3, <1>4, <1>5, <1>6, <1>7 DEF Next

-----------------------------------------------------------------------------
(* Runtimes *)

\* A reservation names the runtime it closes, and no live query has it any more once the
\* reservation is prepared.
Runtimes ==
  /\ runtimes \in Nat /\ binding.runtime \in 0..runtimes /\ row.runtime \in 0..runtimes
  /\ row.phase \in {None, "preparing", "refused", "prepared", "committed", "aborted", "finished"}
  /\ session # NoQuery => session.runtime = binding.runtime /\ binding.runtime # 0
  /\ row.phase \in {"prepared", "committed"} => session = NoQuery
  /\ Pending => session.running = FALSE
  /\ row.phase \in {"preparing", "prepared"} => row.runtime = binding.runtime
  /\ row.phase = "committed" => binding.runtime = 0
  /\ row.phase \in {"aborted", "finished"} =>
       session = NoQuery \/ binding.runtime # row.runtime

\* Steps that leave the reservation, the cursor and the query as they are.
Aside(op) ==
  \/ ReactorStep(op) \/ Request(op) \/ PrepareRefused(op) \/ CommitRefused(op)
  \/ CommitFails(op) \/ FinishFails(op)

LEMMA AsideStill ==
  ASSUME Protocol, NEW op \in Ops, Aside(op) PROVE UNCHANGED <<row, binding, session>>
BY ReactorQuiet, RepliesQuiet DEF Protocol, Aside, Quiet

\* Runtimes whose events are not admitted any more.
Closed(r) ==
  /\ row.phase # None
  /\ \/ r # binding.runtime
     \/ row.phase \in {"prepared", "committed", "aborted", "finished"} /\ r = row.runtime

LEMMA AdmissionOpen ==
  ASSUME Runtimes, NEW e, e.runtime \in 1..runtimes
  PROVE  Admission(e) = "accepted" <=> ~Closed(e.runtime)
BY DEF Runtimes, Admission, Closed, None

\* The fence does not open again for a runtime it has closed.
ClosedStays == \A r \in 1..runtimes : Closed(r) => Closed(r)'

LEMMA RuntimesKept == ASSUME Protocol, Runtimes, [Next]_vars
  PROVE  Runtimes' /\ ClosedStays
<1>0. /\ IsRow(row) /\ IsQuery(session) /\ IsBinding(binding) /\ call \in [Ops -> Call]
      /\ NoQuery.running = FALSE
  BY DEF Protocol, LockInv, NoQuery
<1>1. CASE UNCHANGED <<row, binding, session, runtimes>>
  BY <1>1 DEF Runtimes, Pending, ClosedStays, Closed, None
<1>2. CASE UNCHANGED vars
  BY <1>1, <1>2 DEF vars, durable, daemon, bounds
<1>3. CASE \/ Prompt \/ RefuseTurn \/ Publish \/ Receive \/ Admit \/ Project
           \/ \E t \in 1..MaxTurns : EmitLate(t)
           \/ BackendCrash
  BY <1>1, <1>3 DEF Prompt, RefuseTurn, EmitLate, Publish, Receive, Admit, Project, BackendCrash,
                    durable, daemon, bounds
<1>4. ASSUME NEW op \in Ops, Aside(op) PROVE Runtimes' /\ ClosedStays
  <2>1. UNCHANGED <<row, binding, session>>
    BY <1>4, AsideStill
  <2>2. UNCHANGED runtimes
    <3>1. CASE \/ Prepared(op) \/ Drained(op) \/ DrainTimesOut(op) \/ Capture(op)
               \/ RestoreFails(op) \/ CommitRefusedSeen(op) \/ CompensateFails(op)
               \/ Aborted(op) \/ Committed(op) \/ CompleteFails(op) \/ Finished(op)
               \/ CleanUp(op) \/ CleanUpFails(op)
      BY <3>1 DEF Prepared, Drained, DrainTimesOut, Capture, RestoreFails, CommitRefusedSeen,
                  CompensateFails, Aborted, Committed, CompleteFails, Finished, CleanUp,
                  CleanUpFails, Moves
    <3>2. CASE \/ Begin(op) \/ Decline(op) \/ CaptureFails(op) \/ Restore(op)
               \/ Compensate(op) \/ Complete(op) \/ GivesUp(op) \/ LoseAnswer(op)
               \/ Request(op) \/ PrepareRefused(op) \/ CommitRefused(op)
               \/ CommitFails(op) \/ FinishFails(op)
      BY <3>2 DEF Begin, Decline, CaptureFails, Restore, Compensate, Complete, GivesUp,
                  LoseAnswer, Request, PrepareRefused, CommitRefused, CommitFails, FinishFails,
                  Replies, bounds
    <3>3. QED
      BY <1>4, <3>1, <3>2 DEF Aside, ReactorStep
  <2>3. QED
    BY <1>1, <2>1, <2>2
<1>5. CASE StartTurn
  <2>1. /\ UNCHANGED row /\ ~Pending
        /\ \/ session # NoQuery /\ session' = [session EXCEPT !.running = TRUE]
              /\ UNCHANGED <<binding, runtimes>>
           \/ /\ runtimes' = runtimes + 1
              /\ binding' = [binding EXCEPT !.runtime = runtimes + 1]
              /\ session' = [runtime |-> runtimes + 1, turns |-> binding.turns, running |-> TRUE]
    BY <1>5 DEF StartTurn
  <2>2. \/ session'.runtime = session.runtime /\ session # NoQuery /\ UNCHANGED <<binding, runtimes>>
        \/ /\ runtimes' = runtimes + 1 /\ binding'.runtime = runtimes + 1
           /\ session'.runtime = runtimes + 1
    <3>1. CASE session # NoQuery /\ session' = [session EXCEPT !.running = TRUE]
               /\ UNCHANGED <<binding, runtimes>>
      BY <1>0, <3>1, RunningExcept
    <3>2. CASE /\ runtimes' = runtimes + 1
               /\ binding' = [binding EXCEPT !.runtime = runtimes + 1]
               /\ session' = [runtime |-> runtimes + 1, turns |-> binding.turns, running |-> TRUE]
      <4>1. binding'.runtime = runtimes + 1
        BY <1>0, <3>2, OwnerExcept
      <4>2. QED
        BY <3>2, <4>1
    <3>3. QED
      BY <2>1, <3>1, <3>2
  <2>3. QED
    BY <2>1, <2>2 DEF Runtimes, Pending, ClosedStays, Closed, None
<1>6. CASE FinishTurn
  <2>1. UNCHANGED <<row, runtimes>> /\ session # NoQuery
        /\ binding' = [binding EXCEPT !.turns = Append(@, turns)]
    BY <1>6 DEF FinishTurn, bounds
  <2>2. session'.runtime = session.runtime /\ session'.running = FALSE
    BY <1>0, <1>6, GrownQuery
  <2>3. binding'.runtime = binding.runtime
    BY <1>0, <2>1, CursorExcept
  <2>4. QED
    BY <2>1, <2>2, <2>3 DEF Runtimes, Pending, ClosedStays, Closed, None
<1>7. ASSUME NEW op \in Ops, Reserve(op) PROVE Runtimes' /\ ClosedStays
  <2>1. /\ session # NoQuery /\ session.running = FALSE
        /\ row' = [op |-> op, phase |-> "preparing", runtime |-> session.runtime,
                   expected |-> expected[op], candidate |-> <<>>]
        /\ UNCHANGED <<binding, session, runtimes>>
    BY <1>0, <1>7 DEF Reserve, CanReserve, bounds, IsQuery
  <2>2. row'.phase = "preparing" /\ row'.runtime = session.runtime
    BY <2>1
  <2>3. QED
    BY <2>1, <2>2 DEF Runtimes, Pending, ClosedStays, Closed, None
<1>8. ASSUME NEW op \in Ops, RefusePreparing(op) \/ MarkPrepared(op) \/ Finish(op) PROVE Runtimes' /\ ClosedStays
  <2>1. UNCHANGED <<binding, session, runtimes>>
    BY <1>8 DEF RefusePreparing, MarkPrepared, Finish, bounds
  <2>2. /\ row'.runtime = row.runtime
        /\ \/ row'.phase = "refused" /\ row.phase = "preparing"
           \/ row'.phase = "prepared" /\ row.phase = "preparing" /\ session = NoQuery
           \/ row'.phase \in {"aborted", "finished"} /\ row.phase \in {"prepared", "committed"}
    <3>1. CASE RefusePreparing(op)
      BY <1>0, <3>1, PhaseExcept DEF RefusePreparing, Protocol, LockInv, Held
    <3>2. CASE MarkPrepared(op)
      BY <1>0, <3>2, MarkedRow DEF MarkPrepared, Protocol, LockInv, Held
    <3>3. CASE Finish(op)
      <4>1. /\ row.phase \in {"prepared", "committed"}
            /\ \E phase \in {"aborted", "finished"} : row' = [row EXCEPT !.phase = phase]
        BY <3>3 DEF Finish, CanFinish
      <4>2. QED
        BY <1>0, <4>1, PhaseExcept
    <3>4. QED
      BY <1>8, <3>1, <3>2, <3>3
  <2>3. QED
    BY <2>1, <2>2 DEF Runtimes, Pending, ClosedStays, Closed, None
<1>9. ASSUME NEW op \in Ops, Commit(op) PROVE Runtimes' /\ ClosedStays
  <2>1. /\ row.phase = "prepared" /\ row' = [row EXCEPT !.phase = "committed"]
        /\ binding' = [runtime |-> 0, turns |-> row.candidate]
        /\ UNCHANGED <<session, runtimes>>
    BY <1>9 DEF Commit, bounds
  <2>2. row'.phase = "committed" /\ row'.runtime = row.runtime
    BY <1>0, <2>1, PhaseExcept
  <2>3. QED
    BY <1>0, <2>1, <2>2 DEF Runtimes, Pending, ClosedStays, Closed, None
<1>10. CASE DaemonCrash \/ \E op \in Ops : Retire(op) \/ PrepareUncertain(op)
  <2>1. UNCHANGED <<row, binding, runtimes>> /\ session' \in {session, NoQuery}
    BY <1>10 DEF DaemonCrash, Retire, PrepareUncertain, durable, bounds
  <2>2. QED
    BY <1>0, <2>1 DEF Runtimes, Pending, ClosedStays, Closed, None
<1>11. QED
  BY <1>2, <1>3, <1>4, <1>5, <1>6, <1>7, <1>8, <1>9, <1>10 DEF Next, CallStep, Aside

LEMMA InitRuntimes == Init => Runtimes
BY DEF Init, Runtimes, Pending, NoRow, None, NoQuery

=============================================================================
