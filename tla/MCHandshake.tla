----------------------------- MODULE MCHandshake -----------------------------
(* A TCP session small enough for TLC. *)
EXTENDS Handshake, TLC
=============================================================================
