----------------------------- MODULE OneShotGrants -----------------------------
(***************************************************************************)
(* What scheduled follow-ups promise their owner: every occurrence is a    *)
(* permission to submit one prompt.  It is granted once; from then on the  *)
(* owner may take it back, and what was taken back stays so; only a        *)
(* permission that still stands is spent, and a spent one pays for at most *)
(* one submission, whatever fails afterwards.                              *)
(***************************************************************************)
CONSTANT Runs

VARIABLES grant,     \* "none", "granted", "revoked" or "spent", of each occurrence
          submitted  \* occurrences submitted to the provider

vars == <<grant, submitted>>

Init == grant = [r \in Runs |-> "none"] /\ submitted = {}

Grant(r) ==
  grant[r] = "none" /\ grant' = [grant EXCEPT ![r] = "granted"] /\ UNCHANGED submitted

Revoke(rs) ==
  /\ \A r \in rs : grant[r] = "granted"
  /\ grant' = [r \in Runs |-> IF r \in rs THEN "revoked" ELSE grant[r]]
  /\ UNCHANGED submitted

Spend(r) ==
  grant[r] = "granted" /\ grant' = [grant EXCEPT ![r] = "spent"] /\ UNCHANGED submitted

Submit(r) ==
  grant[r] = "spent" /\ r \notin submitted /\ submitted' = submitted \cup {r} /\ UNCHANGED grant

Next ==
  \/ \E r \in Runs : Grant(r) \/ Spend(r) \/ Submit(r)
  \/ \E rs \in SUBSET Runs : Revoke(rs)

Spec == Init /\ [][Next]_vars

=============================================================================
