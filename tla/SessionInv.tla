----------------------------- MODULE SessionInv -----------------------------
(***************************************************************************)
(* The inductive invariant behind the session's safety properties.  When   *)
(* replies are not slow, at most one request is alive between a client and *)
(* the executor: on the wire, with the reader, in the event queue, in the  *)
(* executor's hands, or as a reply on its way back; and it is the request  *)
(* of the thread that holds connection_mutex.                              *)
(***************************************************************************)
EXTENDS Session

IsRequest(m) == m.type # "disconnect"

\* No two requests in s (disconnect events may lie beside one).
AtMostOne(s) ==
  \A j, k \in 1 .. Len(s) : IsRequest(s[j]) /\ IsRequest(s[k]) => j = k

HasRequest(s) == \E k \in 1 .. Len(s) : IsRequest(s[k])

\* Where a live request may be.  Behind an executor that is done, or a reader
\* that has left its loop, it is dead: nobody will take it any further.
OnWire      == executor # "done" /\ Reading /\ HasRequest(toServer)
WithReader  == executor # "done" /\ reader = "push" /\ IsRequest(event)
Queued      == executor # "done" /\ HasRequest(event_queue)
InHand      == executor = "reply" \/ (executor = "handle" /\ IsRequest(handling))
Returning   == toClient # <<>>

NoneAlive == ~OnWire /\ ~WithReader /\ ~Queued /\ ~InHand /\ ~Returning

\* m is the request the holder of the mutex waits for, not handled yet.
Awaited(m) ==
  /\ connection_mutex # NoThread
  /\ m.id = cur[connection_mutex]
  /\ m.type = op[connection_mutex]
  /\ m.id \in Requests => served[m.id] = "no"

\* m is the reply the holder waits for, and says what was done.
AwaitedReply(m) ==
  /\ connection_mutex # NoThread
  /\ m.id = cur[connection_mutex]
  /\ m.type \in Replies(op[connection_mutex])
  /\ m.id \in Requests =>
       served[m.id] = IF m.type \in Served THEN "ran" ELSE "refused"

OneAlive ==
  /\ OnWire => ~WithReader /\ ~Queued /\ ~InHand /\ ~Returning
  /\ WithReader => ~Queued /\ ~InHand /\ ~Returning
  /\ Queued => ~InHand /\ ~Returning
  /\ InHand => ~Returning
  /\ OnWire => AtMostOne(toServer)
  /\ Queued => AtMostOne(event_queue)
  /\ Len(toClient) <= 1

AllAwaited(s) ==
  \A k \in 1 .. Len(s) : IsRequest(s[k]) => Awaited(s[k])

AliveIsAwaited ==
  /\ OnWire => AllAwaited(toServer)
  /\ WithReader => Awaited(event)
  /\ Queued => AllAwaited(event_queue)
  /\ executor = "handle" /\ IsRequest(handling) => Awaited(handling)
  /\ executor = "reply" => AwaitedReply([type |-> reply, id |-> handling.id])
  /\ Returning => AwaitedReply(Head(toClient))

\* The holder of the mutex is the thread that awaits a reply.
MutexShape == \A t \in Threads : pc[t] = "recv" <=> connection_mutex = t

\* A caller away from "idle" has a request of its own.
CallerShape ==
  /\ \A t \in Callers : pc[t] \in {"idle", "lock", "recv"}
  /\ \A t \in Callers : pc[t] # "idle" => op[t] \in OpType /\ cur[t] \in Requests
  /\ app # "running" => \A t \in Callers : pc[t] = "idle"

\* The ping thread is the one that closes the client's end.
PingShape ==
  /\ op[Ping] = "ping" /\ cur[Ping] = 0
  /\ pc[Ping] # "idle"
  /\ pc[Ping] \in {"bye", "close"} => client_stop = 1
  /\ client_stop = 1 /\ pc[Ping] # "done" => app # "running"
  /\ pc[Ping] = "done" <=> ~clientOpen

ClientShape == MutexShape /\ CallerShape /\ PingShape

\* Each request belongs to one call, and its history to that request.
Numbering ==
  /\ \A t \in Callers : pc[t] # "idle" =>
       cur[t] < nextId /\ fate[cur[t]] = "pending"
  /\ \A t \in Callers : pc[t] = "lock" => served[cur[t]] = "no"
  /\ \A t, u \in Callers :
       pc[t] # "idle" /\ pc[u] # "idle" /\ cur[t] = cur[u] => t = u
  /\ \A i \in Requests : i >= nextId => fate[i] = "unsent" /\ served[i] = "no"

Answers == ReplyIsMine /\ ServernameAssertion

PairingInv ==
  TypeOK /\ ClientShape /\ Numbering /\ OneAlive /\ AliveIsAwaited /\ Answers

\* What already_disconnected and the executor's way out say.
StopInv ==
  /\ already_disconnected => stop = 1 \/ executor \in {"exit", "done"}
  /\ JoinOnlyStopping

\* The server's end outlives the executor.
CloseInv ==
  /\ reader \in {"close", "done"} => executor = "done"
  /\ serverOpen <=> reader # "done"

\* The event in the executor's hands, the one in the reader's, and the messages
\* the reader may yet receive.
InExecutor == IF executor = "handle" THEN <<handling>> ELSE <<>>
Received == IF reader = "push" THEN <<event>> ELSE <<>>
Incoming == IF Reading THEN toServer ELSE <<>>

\* What the server has not handled yet, in the order in which it is handled.
Line == InExecutor \o (leftover \o (event_queue \o (Received \o Incoming)))

\* Every request sent is among these.
Whole(line, done, all) ==
  Len(done) + Cardinality(Numbered(line)) = Len(all)

\* A disconnect event has no number.
PlainRequest == {m \in Request : m.type = "disconnect" => m.id \notin Requests}

DisconnectsPlain ==
  /\ toServer \in Seq(PlainRequest) /\ event \in PlainRequest
  /\ event_queue \in Seq(PlainRequest) /\ handling \in PlainRequest

\* The requests in the line are the ones sent after those executed, and, until
\* the reader leaves its loop, all of them.
OrderInv ==
  /\ Continues(Line, executed, sent)
  /\ Reading => Whole(Line, executed, sent)
  /\ reader \notin {"close", "done"} => leftover = <<>>
  /\ DisconnectsPlain
=============================================================================
