------------------------- MODULE MCScheduledFollowups -------------------------
(* A recurring schedule limited to one attempt, and a single date. *)
EXTENDS ScheduledFollowups

CONSTANTS daily, once

MCLimit == [s \in Schedules |-> IF s = once THEN 2 ELSE 1]

=============================================================================
