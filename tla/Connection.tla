----------------------------- MODULE Connection -----------------------------
(***************************************************************************)
(* One connection of drpc_server.c: the thread of drpc_handle_client (the  *)
(* reader), which moves messages from the wire into event_queue, and the   *)
(* drpc_client_executor thread, which takes them out and answers them.     *)
(* They share the event queue, the semaphore params->wait and the flag     *)
(* params->already_disconnected, which no lock protects.                   *)
(*                                                                         *)
(* What a registered function or a mailbox does is left out: a request is  *)
(* either served or refused, and gets one of the replies the code has for  *)
(* that outcome.                                                           *)
(***************************************************************************)
EXTENDS Wire

VARIABLES
  should_stop,           \* server->should_stop
  force_disconnect,      \* client->force_disconnect
  reader,                \* where drpc_handle_client is
  event,                 \* the event the reader has received
  event_queue,           \* params->event_queue
  wait,                  \* the value of the semaphore params->wait
  executor,              \* where drpc_client_executor is
  handling,              \* the event the executor has popped
  reply,                 \* the type of the reply the executor is to send
  stop,                  \* the executor's local stop
  already_disconnected,  \* params->already_disconnected, 100 being TRUE
  executed,              \* history: the requests handled, in that order
  served,                \* history: what became of each request
  leftover               \* history: the events the reader found unhandled

connectionVars == <<should_stop, force_disconnect, reader, event, event_queue,
                    wait, executor, handling, reply, stop,
                    already_disconnected, executed, served, leftover>>

\* Also the value of event and handling when their thread holds no event.
DisconnectEvent == [type |-> "disconnect", id |-> 0]

NoReply == "none"

ConnectionInit ==
  /\ should_stop = 0
  /\ force_disconnect = 0
  /\ reader = "loop"
  /\ event = DisconnectEvent
  /\ event_queue = <<>>
  /\ wait = 0
  /\ executor = "loop"
  /\ handling = DisconnectEvent
  /\ reply = NoReply
  /\ stop = 0
  /\ already_disconnected = FALSE
  /\ executed = <<>>
  /\ served = [i \in Requests |-> "no"]
  /\ leftover = <<>>

-----------------------------------------------------------------------------
(* Other threads *)

\* drpc_server_free asks every connection to stop.
ServerStop ==
  /\ should_stop = 0
  /\ should_stop' = 1
  /\ UNCHANGED <<force_disconnect, reader, event, event_queue, wait, executor,
                 handling, reply, stop, already_disconnected, executed, served,
                 leftover, wireVars>>

\* drpc_server_force_disconnect_client.
ForceDisconnect ==
  /\ force_disconnect = 0
  /\ force_disconnect' = 1
  /\ UNCHANGED <<should_stop, reader, event, event_queue, wait, executor,
                 handling, reply, stop, already_disconnected, executed, served,
                 leftover, wireVars>>

-----------------------------------------------------------------------------
(* The reader *)

ReaderLoop ==
  /\ reader = "loop"
  /\ reader' = IF should_stop = 0 /\ force_disconnect = 0
               THEN "recv" ELSE "left"
  /\ UNCHANGED <<should_stop, force_disconnect, event, event_queue, wait,
                 executor, handling, reply, stop, already_disconnected,
                 executed, served, leftover, wireVars>>

ReaderRecv ==
  /\ reader = "recv"
  /\ toServer # <<>>
  /\ event' = Head(toServer)
  /\ toServer' = Tail(toServer)
  /\ reader' = "push"
  /\ UNCHANGED <<should_stop, force_disconnect, event_queue, wait, executor,
                 handling, reply, stop, already_disconnected, executed, served,
                 leftover, toClient, clientOpen, serverOpen>>

\* Mutant: the reader goes on after a receive that timed out.
ReaderTimeoutGoesOn ==
  /\ reader = "recv"
  /\ toServer = <<>>
  /\ reader' = "loop"
  /\ UNCHANGED <<should_stop, force_disconnect, event, event_queue, wait,
                 executor, handling, reply, stop, already_disconnected,
                 executed, served, leftover, wireVars>>

\* Nothing arrives within DRPC_IO_TIMEOUT.
ReaderTimeout ==
  /\ reader = "recv"
  /\ toServer = <<>>
  /\ reader' = "left"
  /\ UNCHANGED <<should_stop, force_disconnect, event, event_queue, wait,
                 executor, handling, reply, stop, already_disconnected,
                 executed, served, leftover, wireVars>>

\* queue_push, then sem_post: the executor may run in between.
ReaderPush ==
  /\ reader \in {"push", "pushD"}
  /\ event_queue' =
       Append(event_queue, IF reader = "push" THEN event ELSE DisconnectEvent)
  /\ reader' = IF reader = "push" THEN "post" ELSE "postD"
  /\ event' = DisconnectEvent
  /\ UNCHANGED <<should_stop, force_disconnect, wait, executor, handling,
                 reply, stop, already_disconnected, executed, served, leftover,
                 wireVars>>

\* Mutant: the event pushed after the loop is not announced.
ReaderPostRequests ==
  /\ reader \in {"post", "postD"}
  /\ wait' = IF reader = "post" THEN wait + 1 ELSE wait
  /\ reader' = IF reader = "post" THEN "loop" ELSE "join"
  /\ UNCHANGED <<should_stop, force_disconnect, event, event_queue, executor,
                 handling, reply, stop, already_disconnected, executed, served,
                 leftover, wireVars>>

ReaderPost ==
  /\ reader \in {"post", "postD"}
  /\ wait' = wait + 1
  /\ reader' = IF reader = "post" THEN "loop" ELSE "join"
  /\ UNCHANGED <<should_stop, force_disconnect, event, event_queue, executor,
                 handling, reply, stop, already_disconnected, executed, served,
                 leftover, wireVars>>

\* Mutant: the executor is joined without being told to stop.
ReaderLeaveSilently ==
  /\ reader = "left"
  /\ reader' = "join"
  /\ UNCHANGED <<should_stop, force_disconnect, event, event_queue, wait,
                 executor, handling, reply, stop, already_disconnected,
                 executed, served, leftover, wireVars>>

\* Out of the loop: unless the executor says it is done, it is told to stop.
ReaderLeave ==
  /\ reader = "left"
  /\ reader' = IF already_disconnected THEN "join" ELSE "pushD"
  /\ UNCHANGED <<should_stop, force_disconnect, event, event_queue, wait,
                 executor, handling, reply, stop, already_disconnected,
                 executed, served, leftover, wireVars>>

\* Mutant: the executor is not joined.
ReaderJoinForgotten ==
  /\ reader = "join"
  /\ leftover' = event_queue
  /\ event_queue' = <<>>
  /\ reader' = "close"
  /\ UNCHANGED <<should_stop, force_disconnect, event, wait, executor,
                 handling, reply, stop, already_disconnected, executed, served,
                 wireVars>>

\* pthread_join, then the queue is emptied, freed, and the thread forgotten.
ReaderJoin ==
  /\ reader = "join"
  /\ executor = "done"
  /\ leftover' = event_queue
  /\ event_queue' = <<>>
  /\ reader' = "close"
  /\ UNCHANGED <<should_stop, force_disconnect, event, wait, executor,
                 handling, reply, stop, already_disconnected, executed, served,
                 wireVars>>

\* The thread's wrapper closes and frees the server's end.
ReaderClose ==
  /\ reader = "close"
  /\ ServerClose
  /\ reader' = "done"
  /\ UNCHANGED <<should_stop, force_disconnect, event, event_queue, wait,
                 executor, handling, reply, stop, already_disconnected,
                 executed, served, leftover, toClient, clientOpen>>

-----------------------------------------------------------------------------
(* The executor *)

\* Mutant: the newest event is taken first.
ExecutorPopNewest ==
  /\ executor = "loop"
  /\ event_queue # <<>>
  /\ handling' = event_queue[Len(event_queue)]
  /\ event_queue' = SubSeq(event_queue, 1, Len(event_queue) - 1)
  /\ executor' = "handle"
  /\ UNCHANGED <<should_stop, force_disconnect, reader, event, wait, reply,
                 stop, already_disconnected, executed, served, leftover,
                 wireVars>>

\* The loop's condition and queue_pop: only the executor takes events out.
ExecutorPop ==
  /\ executor = "loop"
  /\ event_queue # <<>>
  /\ handling' = Head(event_queue)
  /\ event_queue' = Tail(event_queue)
  /\ executor' = "handle"
  /\ UNCHANGED <<should_stop, force_disconnect, reader, event, wait, reply,
                 stop, already_disconnected, executed, served, leftover,
                 wireVars>>

\* Nothing to pop: with stop set the loop ends, else sem_wait.
ExecutorEmpty ==
  /\ executor = "loop"
  /\ event_queue = <<>>
  /\ executor' = IF stop = 0 THEN "wait" ELSE "exit"
  /\ UNCHANGED <<should_stop, force_disconnect, reader, event, event_queue,
                 wait, handling, reply, stop, already_disconnected, executed,
                 served, leftover, wireVars>>

ExecutorWait ==
  /\ executor = "wait"
  /\ wait > 0
  /\ wait' = wait - 1
  /\ executor' = "loop"
  /\ UNCHANGED <<should_stop, force_disconnect, reader, event, event_queue,
                 handling, reply, stop, already_disconnected, executed, served,
                 leftover, wireVars>>

\* A disconnect event ends the executor once the queue is empty.
HandleDisconnect ==
  /\ executor = "handle"
  /\ handling.type = "disconnect"
  /\ already_disconnected' = TRUE
  /\ stop' = 1
  /\ executor' = "loop"
  /\ UNCHANGED <<should_stop, force_disconnect, reader, event, event_queue,
                 wait, handling, reply, executed, served, leftover, wireVars>>

\* The replies that say the request was carried out.
Served == {"return", "ok", "servername", "ping"}

\* Any other event is dealt with and its reply chosen.  A call that is
\* malformed, unknown or given bad arguments also ends the executor;
\* one without the permission, or a refused mailbox request, does not.
HandleRequest ==
  /\ executor = "handle"
  /\ handling.type # "disconnect"
  /\ \E r \in Replies(handling.type) :
       /\ reply' = r
       /\ stop' = IF handling.type = "call" /\ r \in {"bad", "notfound"}
                  THEN 1 ELSE stop
       /\ IF handling.id \in Requests
            THEN /\ executed' = Append(executed, handling.id)
                 /\ served' = [served EXCEPT ![handling.id] =
                                 IF @ # "no" THEN "twice"
                                 ELSE IF r \in Served THEN "ran" ELSE "refused"]
            ELSE UNCHANGED <<executed, served>>
  /\ executor' = "reply"
  /\ UNCHANGED <<should_stop, force_disconnect, reader, event, event_queue,
                 wait, handling, already_disconnected, leftover, wireVars>>

\* drpc_send_message.  Only the answers to a ping and to a name request stop
\* the executor when they cannot be sent.
ExecutorReply ==
  /\ executor = "reply"
  /\ ServerSend([type |-> reply, id |-> handling.id])
  /\ stop' = IF ~CanSend /\ handling.type \in {"ping", "servername"}
             THEN 1 ELSE stop
  /\ executor' = "loop"
  /\ handling' = DisconnectEvent
  /\ reply' = NoReply
  /\ UNCHANGED <<should_stop, force_disconnect, reader, event, event_queue,
                 wait, already_disconnected, executed, served, leftover,
                 toServer, clientOpen, serverOpen>>

ExecutorExit ==
  /\ executor = "exit"
  /\ already_disconnected' = TRUE
  /\ executor' = "done"
  /\ UNCHANGED <<should_stop, force_disconnect, reader, event, event_queue,
                 wait, handling, reply, stop, executed, served, leftover,
                 wireVars>>

-----------------------------------------------------------------------------
ConnectionTypeOK ==
  /\ should_stop \in {0, 1}
  /\ force_disconnect \in {0, 1}
  /\ reader \in {"loop", "recv", "push", "post", "left", "pushD", "postD",
                 "join", "close", "done"}
  /\ event \in Request
  /\ event_queue \in Seq(Request)
  /\ wait \in Nat
  /\ executor \in {"loop", "wait", "handle", "reply", "exit", "done"}
  /\ handling \in Request
  /\ reply \in IF executor = "reply" THEN ReplyType ELSE {NoReply}
  /\ stop \in {0, 1}
  /\ already_disconnected \in BOOLEAN
  /\ executed \in Seq(Requests)
  /\ served \in [Requests -> {"no", "ran", "refused", "twice"}]
  /\ leftover \in Seq(Request)
=============================================================================
