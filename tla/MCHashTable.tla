----------------------------- MODULE MCHashTable -----------------------------
(* A hash table small enough for TLC. *)
EXTENDS HashTable, TLC

\* Keys differ only by their hash, which is chosen freely; values by nothing.
DataSymmetry == Permutations(Keys) \cup Permutations(Values)
=============================================================================
