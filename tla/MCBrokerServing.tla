-------------------------- MODULE MCBrokerServing --------------------------
(* Model-checking instance of BrokerServing. *)
EXTENDS BrokerServing, TLC

\* No safety property names a request.  Not used for liveness.
Symmetry == Permutations(Queries) \cup Permutations(Reads)
=============================================================================
