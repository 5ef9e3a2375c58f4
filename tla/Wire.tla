-------------------------------- MODULE Wire --------------------------------
(***************************************************************************)
(* The in-process transport of drpc_protocol.c that joins a drpc_client to *)
(* one connection of a drpc_server: two struct drpc_dqueue_io, each with a *)
(* queue of received messages and a pointer (send) to its peer.            *)
(*                                                                         *)
(* Every drpc_dqueue_* operation is one step.  A queue and its recv_wait   *)
(* semaphore move together, so the semaphore is the length of the queue.   *)
(* A message carries its type and, as a ghost, the number of the request   *)
(* it belongs to; 0 stands for a ping, its answer, or a disconnect.        *)
(***************************************************************************)
EXTENDS Naturals, Sequences

CONSTANT MaxRequests      \* bound: how many numbered requests one run issues

ASSUME WireAssumption == MaxRequests \in Nat

VARIABLES
  toServer,     \* the queue the server end receives from
  toClient,     \* the queue the client end receives from
  clientOpen,   \* the client end has not been closed
  serverOpen    \* the server end has not been closed

wireVars == <<toServer, toClient, clientOpen, serverOpen>>

Requests == 1 .. MaxRequests

\* What an application thread may ask for.
OpType == {"call", "mailbox_recv", "mailbox_send", "servername"}

RequestType == OpType \cup {"ping", "disconnect"}

\* The message types drpc_client_executor may answer a request with.
Replies(type) ==
  CASE type = "call"         -> {"return", "notfound", "bad", "eperm"}
    [] type = "mailbox_recv" -> {"ok", "notfound", "bad"}
    [] type = "mailbox_send" -> {"ok", "notfound", "bad"}
    [] type = "servername"   -> {"servername"}
    [] type = "ping"         -> {"ping"}
    [] OTHER                 -> {}

ReplyType == {"return", "notfound", "bad", "eperm", "ok", "servername", "ping"}

Request == [type : RequestType, id : 0 .. MaxRequests]
Reply   == [type : ReplyType, id : 0 .. MaxRequests]

\* drpc_dqueue_send_message fails when its own end was closed (io_data->send
\* is NULL) or the peer's close cleared that pointer.
CanSendToOpenPeer == serverOpen         \* mutant: its own end is not looked at
CanSend == clientOpen /\ serverOpen

ClientSend(m) == toServer' = IF CanSend THEN Append(toServer, m) ELSE toServer
ServerSend(m) == toClient' = IF CanSend THEN Append(toClient, m) ELSE toClient

\* drpc_dqueue_close frees the closing end's queue and clears the peer's
\* pointer; the messages the peer has already received stay.
ClientClose == clientOpen' = FALSE /\ toClient' = <<>>
ServerClose == serverOpen' = FALSE /\ toServer' = <<>>

WireInit ==
  /\ toServer = <<>>
  /\ toClient = <<>>
  /\ clientOpen = TRUE
  /\ serverOpen = TRUE

WireTypeOK ==
  /\ toServer \in Seq(Request)
  /\ toClient \in Seq(Reply)
  /\ clientOpen \in BOOLEAN
  /\ serverOpen \in BOOLEAN
=============================================================================
