------------------------------ MODULE MCMailbox ------------------------------
(* Mailboxes small enough for TLC. *)
EXTENDS Mailbox, TLC

=============================================================================
