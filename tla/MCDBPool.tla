----------------------------- MODULE MCDBPool -----------------------------
(* Bounds and symmetry for the model checking of DBPool. *)
EXTENDS DBPool, TLC
CONSTANTS a1, a2, a3, h1, h2, h3, p1, p2, c1, c2, c3

Symmetry == Permutations(Callers) \cup Permutations(Handles)
              \cup Permutations(Pools) \cup Permutations(Conns)
=============================================================================
