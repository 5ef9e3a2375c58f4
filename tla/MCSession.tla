------------------------------ MODULE MCSession ------------------------------
(* A session small enough for TLC. *)
EXTENDS SessionInv, TLC

\* The application threads run the same code and nothing orders them.
CallerSymmetry == Permutations(Callers)
=============================================================================
