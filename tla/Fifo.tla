--------------------------------- MODULE Fifo ---------------------------------
(***************************************************************************)
(* What queue_push and queue_pop promise: a queue of pointers, from which  *)
(* what was pushed first is popped first, and NULL when there is nothing.  *)
(***************************************************************************)
EXTENDS Sequences

CONSTANTS Values, NULL

VARIABLES
  items,    \* what is in the queue
  popped    \* what the last queue_pop returned

vars == <<items, popped>>

Init == items = <<>> /\ popped = NULL

Push(v) == items' = Append(items, v) /\ UNCHANGED popped

Pop ==
  IF items = <<>> THEN popped' = NULL /\ UNCHANGED items
  ELSE popped' = Head(items) /\ items' = Tail(items)

Next == (\E v \in Values : Push(v)) \/ Pop

Spec == Init /\ [][Next]_vars
=============================================================================
