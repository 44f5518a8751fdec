----------------------- MODULE MCProviderEventStream -----------------------
(* Model-checking instance of ProviderEventStream. *)
EXTENDS ProviderEventStream, TLC

\* Connection slots are interchangeable.
ConnSymmetry == Permutations(Conns)

=============================================================================
