--------------------------------- MODULE Rpc ---------------------------------
(***************************************************************************)
(* What DynamicRPC promises the threads that share a client, with no       *)
(* connection, thread or message in it: a call is carried out or refused   *)
(* by the server at most once, at any time after it was made, even after   *)
(* it has failed at the caller; a call that succeeds was carried out, one  *)
(* answered by a refusal was refused, and one that fails says nothing.     *)
(***************************************************************************)
CONSTANT Requests

VARIABLES
  fate,      \* how each call stands at the caller
  served     \* what the server has done with it

rpcVars == <<fate, served>>

RpcInit ==
  /\ fate = [i \in Requests |-> "unsent"]
  /\ served = [i \in Requests |-> "no"]

Make(i) ==
  /\ fate[i] = "unsent"
  /\ fate' = [fate EXCEPT ![i] = "pending"]
  /\ UNCHANGED served

Serve(i) ==
  /\ fate[i] # "unsent"
  /\ served[i] = "no"
  /\ \E s \in {"ran", "refused"} : served' = [served EXCEPT ![i] = s]
  /\ UNCHANGED fate

Succeed(i) ==
  /\ fate[i] = "pending"
  /\ served[i] = "ran"
  /\ fate' = [fate EXCEPT ![i] = "ok"]
  /\ UNCHANGED served

Refuse(i) ==
  /\ fate[i] = "pending"
  /\ served[i] = "refused"
  /\ fate' = [fate EXCEPT ![i] = "badreply"]
  /\ UNCHANGED served

Fail(i) ==
  /\ fate[i] = "pending"
  /\ fate' = [fate EXCEPT ![i] = "enetwork"]
  /\ UNCHANGED served

RpcNext ==
  \E i \in Requests : Make(i) \/ Serve(i) \/ Succeed(i) \/ Refuse(i) \/ Fail(i)

RpcSpec == RpcInit /\ [][RpcNext]_rpcVars
=============================================================================
