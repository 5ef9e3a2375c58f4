------------------------------ MODULE MCContainers ------------------------------
(* Containers small enough for TLC. *)
EXTENDS Packing, TLC

\* malloc may give out any free address, and no field is special.
Symmetry == Permutations(Objects) \cup Permutations(Keys)
=============================================================================
