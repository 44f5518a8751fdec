---------------------------- MODULE OrderedFeed ----------------------------
(***************************************************************************)
(* What the provider event hand-off promises, whatever the connections do: *)
(* a log that grows at its end and may lose entries, and a consumer that   *)
(* takes entries one at a time and never passes over one the log holds.    *)
(***************************************************************************)
EXTENDS Naturals

CONSTANT MaxCursor

VARIABLES rows,        \* entries the log holds
          nextCursor,  \* number of the next entry
          accepted     \* entries the consumer has taken

vars == <<rows, nextCursor, accepted>>

Init == rows = {} /\ nextCursor = 1 /\ accepted = {}

Append ==
  /\ nextCursor <= MaxCursor
  /\ nextCursor' = nextCursor + 1
  /\ rows' = rows \cup {nextCursor}
  /\ UNCHANGED accepted

Remove ==
  /\ rows' \in SUBSET rows /\ rows' # rows
  /\ UNCHANGED <<nextCursor, accepted>>

\* An entry that left the log while under way may still arrive, at any time; an
\* entry the log holds arrives only after all older ones the log holds.
Deliver(k) ==
  /\ k \in (1..(nextCursor - 1)) \ accepted
  /\ accepted' = accepted \cup {k}
  /\ \A r \in rows : r < k => r \in accepted
  /\ k \in rows => \A r \in accepted : r < k
  /\ UNCHANGED <<rows, nextCursor>>

Next == Append \/ Remove \/ \E k \in 1..MaxCursor : Deliver(k)

Spec == Init /\ [][Next]_vars

=============================================================================
