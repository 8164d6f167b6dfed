---------------------------- MODULE MCHarvester ----------------------------
(* Model-checking instance of Harvester. *)
EXTENDS Harvester, TLC

MCCatalogs == 0..MaxTime

\* No property names a participant.  Not used for the liveness run.
Symmetry == Permutations(Nodes)
=============================================================================
