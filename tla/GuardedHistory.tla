---------------------------- MODULE GuardedHistory ----------------------------
(***************************************************************************)
(* What a checkpoint rewind promises about a conversation: the workspace   *)
(* and the history the provider continues from move together.  Turns grow  *)
(* both.  A rewind first closes the conversation, may then leave the files *)
(* anywhere, cuts the history only once the files are back at the cut, and *)
(* opens the conversation again only when the two agree.                   *)
(***************************************************************************)
EXTENDS Naturals, Sequences

VARIABLES history,  \* turns the provider continues from
          files,    \* turns whose edits the workspace holds, or a broken mixture
          open      \* whether turns may start

vars == <<history, files, open>>

Init == files = history /\ open = TRUE

Turn ==
  /\ open /\ open'
  /\ Len(history') = Len(history) + 1
  /\ SubSeq(history', 1, Len(history)) = history
  /\ files' = history'

Close == open /\ ~open' /\ UNCHANGED <<history, files>>

Touch == ~open /\ ~open' /\ UNCHANGED history

Cut ==
  /\ ~open /\ ~open'
  /\ \E n \in 0..(Len(history) - 1) : history' = SubSeq(history, 1, n)
  /\ files = history' /\ UNCHANGED files

Open == ~open /\ open' /\ files = history /\ UNCHANGED <<history, files>>

Next == Turn \/ Close \/ Touch \/ Cut \/ Open

Spec == Init /\ [][Next]_vars

=============================================================================
