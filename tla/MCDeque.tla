------------------------------- MODULE MCDeque -------------------------------
(* A deque small enough for TLC. *)
EXTENDS Deque, TLC

\* The deque does not look at what it holds.
ValueSymmetry == Permutations(Values)
=============================================================================
