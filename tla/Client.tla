------------------------------- MODULE Client -------------------------------
(***************************************************************************)
(* drpc_client.c: the application threads that share one struct            *)
(* drpc_client, and its ping thread.  connection_mutex is held from the    *)
(* send of a request to the receipt of its reply, which is all that pairs  *)
(* replies with requests: no message carries an identifier.                *)
(*                                                                         *)
(* Locking and sending are one step: between them a thread changes         *)
(* nothing another thread can see.  The application follows the header's   *)
(* contract and disconnects only when no call is in progress.              *)
(***************************************************************************)
EXTENDS Wire

CONSTANTS
  Callers,      \* application threads
  Ping,         \* the thread running drpc_ping_server
  NoThread,     \* the value of connection_mutex when it is free
  Ops           \* the kinds of request the application makes

ASSUME ClientAssumption ==
  /\ Ping \notin Callers
  /\ NoThread \notin Callers \cup {Ping}
  /\ Ops \subseteq OpType

VARIABLES
  client_stop,       \* client->client_stop
  connection_mutex,  \* the thread that holds client->connection_mutex
  pc,                \* where each thread is
  op,                \* the type of the request each thread is making
  cur,               \* the number of that request
  nextId,            \* the number of the next request
  app,               \* "running", "joining" in drpc_client_disconnect, "freed"
  sent,              \* history: the numbered requests in the order sent
  fate,              \* history: what the call of each request returned
  answer             \* history: the reply each request was given

clientVars == <<client_stop, connection_mutex, pc, op, cur, nextId, app,
                sent, fate, answer>>

Threads == Callers \cup {Ping}

NoAnswer == [type |-> "none", id |-> 0]

Fate == {"unsent", "pending", "ok", "badreply", "enetwork", "abort"}

\* What a client function makes of a reply's type: drpc_client_call_internal
\* tells a refusal apart (262-265), the mailbox functions do not (382-385,
\* 409-412), and drpc_client_get_servername asserts the type (451).
VerdictTrusting(o, type) == "ok"                 \* mutant: any reply will do
Verdict(o, type) ==
  CASE o = "call"       -> IF type = "return" THEN "ok" ELSE "badreply"
    [] o = "servername" -> IF type = "servername" THEN "ok" ELSE "abort"
    [] OTHER            -> IF type = "ok" THEN "ok" ELSE "enetwork"

ClientInit ==
  /\ client_stop = 0
  /\ connection_mutex = NoThread
  /\ pc = [t \in Threads |-> IF t = Ping THEN "check" ELSE "idle"]
  /\ op = [t \in Threads |-> "ping"]
  /\ cur = [t \in Threads |-> 0]
  /\ nextId = 1
  /\ app = "running"
  /\ sent = <<>>
  /\ fate = [i \in Requests |-> "unsent"]
  /\ answer = [i \in Requests |-> NoAnswer]

\* pthread_mutex_lock on connection_mutex goes through.
NoMutex == TRUE                                  \* mutant: nobody locks
MutexFree == connection_mutex = NoThread

\* Thread t unlocks connection_mutex, or never got it, and goes to where.
Release(t, where) ==
  /\ connection_mutex' = NoThread
  /\ pc' = [pc EXCEPT ![t] = where]

\* The call of thread t returns r: its locals are gone.
Return(t, r) ==
  /\ Release(t, "idle")
  /\ fate' = [fate EXCEPT ![cur[t]] = r]
  /\ op' = [op EXCEPT ![t] = "ping"]
  /\ cur' = [cur EXCEPT ![t] = 0]

-----------------------------------------------------------------------------
(* Application threads *)

\* A client function is entered.  Its test of client_stop takes no lock: the
\* client may stop between the test and the send.
CallBegin(t) ==
  /\ app = "running"
  /\ pc[t] = "idle"
  /\ client_stop = 0
  /\ nextId \in Requests
  /\ \E o \in Ops : op' = [op EXCEPT ![t] = o]
  /\ cur' = [cur EXCEPT ![t] = nextId]
  /\ nextId' = nextId + 1
  /\ fate' = [fate EXCEPT ![nextId] = "pending"]
  /\ pc' = [pc EXCEPT ![t] = "lock"]
  /\ UNCHANGED <<client_stop, connection_mutex, app, sent, answer, wireVars>>

\* The request is sent under the mutex; if that fails the call is over.
CallSend(t) ==
  /\ pc[t] = "lock"
  /\ MutexFree
  /\ ClientSend([type |-> op[t], id |-> cur[t]])
  /\ IF CanSend
       THEN /\ connection_mutex' = t
            /\ pc' = [pc EXCEPT ![t] = "recv"]
            /\ sent' = Append(sent, cur[t])
            /\ UNCHANGED <<op, cur, fate>>
       ELSE /\ Return(t, "enetwork")
            /\ UNCHANGED sent
  /\ UNCHANGED <<client_stop, nextId, app, answer,
                 toClient, clientOpen, serverOpen>>

\* The oldest message received is taken for the reply, whatever it answers.
CallRecv(t) ==
  /\ pc[t] = "recv"
  /\ toClient # <<>>
  /\ Return(t, Verdict(op[t], Head(toClient).type))
  /\ answer' = [answer EXCEPT ![cur[t]] = Head(toClient)]
  /\ toClient' = Tail(toClient)
  /\ UNCHANGED <<client_stop, nextId, app, sent,
                 toServer, clientOpen, serverOpen>>

\* Mutant: the receive is tried again for ever.
CallTimeoutRetries(t) ==
  /\ pc[t] = "recv"
  /\ toClient = <<>>
  /\ UNCHANGED <<clientVars, wireVars>>

\* DRPC_IO_TIMEOUT passes: the call gives up, the connection stays in use.
CallTimeout(t) ==
  /\ pc[t] = "recv"
  /\ toClient = <<>>
  /\ Return(t, "enetwork")
  /\ UNCHANGED <<client_stop, nextId, app, sent, answer, wireVars>>

\* drpc_client_disconnect, which frees the client, so that none of its threads
\* may be in a call.  On a client that has stopped it returns at once.
Disconnect ==
  /\ app = "running"
  /\ client_stop = 0
  /\ \A t \in Callers : pc[t] = "idle"
  /\ client_stop' = 1
  /\ app' = "joining"
  /\ UNCHANGED <<connection_mutex, pc, op, cur, nextId, sent, fate, answer,
                 wireVars>>

Joined ==
  /\ app = "joining"
  /\ pc[Ping] = "done"
  /\ app' = "freed"
  /\ UNCHANGED <<client_stop, connection_mutex, pc, op, cur, nextId, sent,
                 fate, answer, wireVars>>

-----------------------------------------------------------------------------
(* The ping thread *)

PingCheck ==
  /\ pc[Ping] = "check"
  /\ pc' = [pc EXCEPT ![Ping] = IF client_stop = 0 THEN "lock" ELSE "bye"]
  /\ UNCHANGED <<client_stop, connection_mutex, op, cur, nextId, app, sent,
                 fate, answer, wireVars>>

\* Mutant: every reason to stop is counted.
GiveUpCounts ==
  /\ client_stop' = client_stop + 1
  /\ ClientClose
  /\ Release(Ping, "done")

\* A ping that cannot be sent or is not answered by a ping stops the client
\* and closes its end, all under the mutex.
GiveUp ==
  /\ client_stop' = 1
  /\ ClientClose
  /\ Release(Ping, "done")

PingSend ==
  /\ pc[Ping] = "lock"
  /\ MutexFree
  /\ ClientSend([type |-> "ping", id |-> 0])
  /\ IF CanSend
       THEN /\ connection_mutex' = Ping
            /\ pc' = [pc EXCEPT ![Ping] = "recv"]
            /\ UNCHANGED <<client_stop, clientOpen, toClient>>
       ELSE GiveUp
  /\ UNCHANGED <<op, cur, nextId, app, sent, fate, answer, serverOpen>>

PingRecv ==
  /\ pc[Ping] = "recv"
  /\ toClient # <<>>
  /\ IF Head(toClient).type = "ping"
       THEN /\ toClient' = Tail(toClient)
            /\ Release(Ping, "sleep")
            /\ UNCHANGED <<client_stop, clientOpen>>
       ELSE GiveUp
  /\ UNCHANGED <<op, cur, nextId, app, sent, fate, answer, toServer,
                 serverOpen>>

PingTimeout ==
  /\ pc[Ping] = "recv"
  /\ toClient = <<>>
  /\ GiveUp
  /\ UNCHANGED <<op, cur, nextId, app, sent, fate, answer, toServer,
                 serverOpen>>

\* sleep(DRPC_IO_TIMEOUT / 2) ends.
PingWake ==
  /\ pc[Ping] = "sleep"
  /\ pc' = [pc EXCEPT ![Ping] = "check"]
  /\ UNCHANGED <<client_stop, connection_mutex, op, cur, nextId, app, sent,
                 fate, answer, wireVars>>

\* client_stop was set: drpc_disconnect is sent, its failure ignored.
PingBye ==
  /\ pc[Ping] = "bye"
  /\ MutexFree
  /\ ClientSend([type |-> "disconnect", id |-> 0])
  /\ pc' = [pc EXCEPT ![Ping] = "close"]
  /\ UNCHANGED <<client_stop, connection_mutex, op, cur, nextId, app, sent,
                 fate, answer, toClient, clientOpen, serverOpen>>

\* The end is closed and freed after the mutex has been released.
PingClose ==
  /\ pc[Ping] = "close"
  /\ ClientClose
  /\ pc' = [pc EXCEPT ![Ping] = "done"]
  /\ UNCHANGED <<client_stop, connection_mutex, op, cur, nextId, app, sent,
                 fate, answer, toServer, serverOpen>>

-----------------------------------------------------------------------------
ClientTypeOK ==
  /\ client_stop \in {0, 1}
  /\ connection_mutex \in Threads \cup {NoThread}
  /\ pc \in [Threads -> {"idle", "lock", "recv", "check", "sleep", "bye",
                         "close", "done"}]
  /\ op \in [Threads -> RequestType]
  /\ cur \in [Threads -> 0 .. MaxRequests]
  /\ nextId \in 1 .. MaxRequests + 1
  /\ app \in {"running", "joining", "freed"}
  /\ sent \in Seq(0 .. MaxRequests)
  /\ fate \in [Requests -> Fate]
  /\ answer \in [Requests -> Reply \cup {NoAnswer}]
=============================================================================
