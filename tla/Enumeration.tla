----------------------------- MODULE Enumeration -----------------------------
(***************************************************************************)
(* The elements of a finite set of natural numbers, in order.  An event is *)
(* a number here, and what the code reads ORDER BY sequence, or takes from *)
(* a stream, is a set of events in order.                                  *)
(***************************************************************************)
EXTENDS Naturals, FiniteSets, Sequences

\* How many elements of S come up to x.
RankIn(S, x) == Cardinality({r \in S : r <= x})

InOrder(S) == [k \in 1..Cardinality(S) |-> CHOOSE x \in S : RankIn(S, x) = k]

=============================================================================
