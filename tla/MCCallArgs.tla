------------------------------ MODULE MCCallArgs ------------------------------
(* Calls of functions with few parameters, small enough for TLC. *)
EXTENDS CallArgs, SequencesExt

\* Every prototype of up to four parameters that keeps to the order.
AlignedPrototypes == {p \in BoundedSeq(Kinds, 4) : IsAligned(p)}
=============================================================================
