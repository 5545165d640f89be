------------------------------ MODULE MCWSHub ------------------------------
(* Symmetry of WSHub's instances, for the runs without liveness.           *)
EXTENDS WSHub, TLC

Symmetry == Permutations(Messages)
=============================================================================
