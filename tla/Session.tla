------------------------------- MODULE Session -------------------------------
(***************************************************************************)
(* A client and its connection over the in-process transport: the system   *)
(* drpc_new_dqueue_client builds.  Every interleaving of the application   *)
(* threads, the ping thread, the reader and the executor is a behaviour.   *)
(*                                                                         *)
(* Time enters as a constant.  With SlowReplies FALSE a request the server *)
(* can still answer is answered within DRPC_IO_TIMEOUT, so a receive times *)
(* out only when nothing can come any more; with SlowReplies TRUE a        *)
(* receive may time out whenever nothing has come yet.                     *)
(***************************************************************************)
EXTENDS Client, Connection, FiniteSets

CONSTANTS
  SlowReplies,    \* a reply may take longer than DRPC_IO_TIMEOUT
  MaxWait         \* bound: the ping thread sleeps on while wait is this high

ASSUME SessionAssumption ==
  /\ SlowReplies \in BOOLEAN
  /\ MaxWait \in Nat

vars == <<wireVars, clientVars, connectionVars>>

Init == WireInit /\ ClientInit /\ ConnectionInit

\* The reader is in the loop of drpc_handle_client.
Reading == reader \in {"loop", "recv", "push", "post"}

\* Something the executor may still answer is on its way to it.
ReplyComing ==
  /\ executor # "done"
  /\ \/ executor \in {"handle", "reply"}
     \/ event_queue # <<>>
     \/ reader = "push"
     \/ Reading /\ toServer # <<>>

\* The ping thread sends something at least every DRPC_IO_TIMEOUT / 2 unless
\* it waits for a reply that will not come.
ClientQuiet == pc[Ping] = "done" \/ executor = "done"

CallStep(t) ==
  \/ CallSend(t)
  \/ CallRecv(t)
  \/ CallTimeout(t) /\ (SlowReplies \/ ~ReplyComing)

PingStep ==
  \/ PingCheck
  \/ PingSend
  \/ PingRecv
  \/ PingTimeout /\ (SlowReplies \/ ~ReplyComing)
  \/ PingWake /\ (wait < MaxWait \/ executor = "done")
  \/ PingBye
  \/ PingClose

ReaderStep ==
  \/ ReaderLoop
  \/ ReaderRecv
  \/ ReaderTimeout /\ (SlowReplies \/ ClientQuiet)
  \/ ReaderPush
  \/ ReaderPost
  \/ ReaderLeave
  \/ ReaderJoin
  \/ ReaderClose

ExecutorStep ==
  \/ ExecutorPop
  \/ ExecutorEmpty
  \/ ExecutorWait
  \/ HandleDisconnect
  \/ HandleRequest
  \/ ExecutorReply
  \/ ExecutorExit

ClientNext ==
  /\ \/ \E t \in Callers : CallBegin(t) \/ CallStep(t)
     \/ PingStep
     \/ Disconnect
     \/ Joined
  /\ UNCHANGED connectionVars

ServerNext ==
  /\ \/ ServerStop
     \/ ForceDisconnect
     \/ ReaderStep
     \/ ExecutorStep
  /\ UNCHANGED clientVars

\* The client's threads are over and so are the connection's.
Terminated ==
  /\ pc[Ping] = "done"
  /\ reader = "done"
  /\ \A t \in Callers : pc[t] = "idle"

Next == ClientNext \/ ServerNext \/ (Terminated /\ UNCHANGED vars)

Spec == Init /\ [][Next]_vars

(***************************************************************************)
(* Each thread keeps running.  A caller waiting for the mutex gets it: the *)
(* ping thread, the only one that comes back for ever, sleeps for seconds  *)
(* with the mutex free.  Nobody has to make calls, disconnect, or stop the *)
(* server.                                                                 *)
(***************************************************************************)
Fairness ==
  /\ \A t \in Callers : SF_vars(CallStep(t) /\ UNCHANGED connectionVars)
  /\ WF_vars(PingStep /\ UNCHANGED connectionVars)
  /\ WF_vars(Joined /\ UNCHANGED connectionVars)
  /\ WF_vars(ReaderStep /\ UNCHANGED clientVars)
  /\ WF_vars(ExecutorStep /\ UNCHANGED clientVars)

FairSpec == Spec /\ Fairness

TypeOK == WireTypeOK /\ ClientTypeOK /\ ConnectionTypeOK

-----------------------------------------------------------------------------
(* Safety *)

\* The reply a call is given is the answer to that call's request, although
\* nothing in a message says so: drpc_client.c pairs them by the mutex alone.
ReplyIsMine ==
  \A i \in Requests : answer[i] # NoAnswer => answer[i].id = i

\* The assertion of drpc_client_get_servername (recv.message_type ==
\* drpc_servername) does not fail.
ServernameAssertion == \A i \in Requests : fate[i] # "abort"

\* Where in s, a sequence of messages, the numbered requests are.
Numbered(s) == {k \in DOMAIN s : s[k].id \in Requests}

\* Of the requests in all, in that order, those in done came first and the
\* numbered ones of line come next.
Continues(line, done, all) ==
  /\ Len(done) <= Len(all)
  /\ \A k \in DOMAIN done : done[k] = all[k]
  /\ \A k \in Numbered(line) :
       LET n == Len(done) + Cardinality({j \in Numbered(line) : j <= k})
       IN  n <= Len(all) /\ line[k].id = all[n]

\* The server handles the requests of a connection in the order they were
\* sent, each at most once and none skipped, through both queues; those it has
\* queued and leaves unhandled at the end are the next ones.
ServedInOrder == Continues(leftover, executed, sent)

\* The executor never sleeps on an event: if one is queued while it waits on
\* an empty semaphore, the reader is about to post.
NoLostWakeup ==
  executor = "wait" /\ wait = 0 /\ event_queue # <<>>
    => reader \in {"post", "postD"}

\* The executor has seen that it must stop, or will see it in the queue.
ExecutorWillStop ==
  \/ stop = 1
  \/ executor \in {"exit", "done"}
  \/ executor = "handle" /\ handling.type = "disconnect"
  \/ \E k \in DOMAIN event_queue : event_queue[k].type = "disconnect"

\* The reader joins only an executor that will stop, whatever it read in
\* already_disconnected, a flag it tests without a lock.
JoinOnlyStopping == reader \in {"postD", "join"} => ExecutorWillStop

\* No end is closed under a thread that uses it: the client's while a reply
\* is awaited, the server's while the executor has an event in hand.
NoCloseInUse ==
  /\ \A t \in Threads : pc[t] = "recv" => clientOpen
  /\ executor # "done" => serverOpen

\* Once the ping thread has said goodbye or given up nothing more is sent,
\* not even by a caller that tested client_stop before it was set.
GoodbyeIsLast ==
  [][pc[Ping] \in {"close", "done"} => Len(toServer') <= Len(toServer)]_vars

-----------------------------------------------------------------------------
(* Liveness *)

\* A call returns, with an answer or an error.
CallReturns == \A t \in Callers : pc[t] # "idle" ~> pc[t] = "idle"

\* Whichever side ends it, the connection is torn down on both: the server
\* is stopped, the client is dropped or disconnects, or the executor stops
\* after a request it rejected; and drpc_client_disconnect comes back from
\* joining the ping thread.
SessionEnds ==
  should_stop = 1 \/ force_disconnect = 1 \/ app = "joining" \/ executor = "done"
    ~> reader = "done" /\ ~clientOpen /\ client_stop = 1 /\ app # "joining"

-----------------------------------------------------------------------------
\* The session implements the remote call Rpc promises.
Abstract == INSTANCE Rpc WITH Requests <- Requests, fate <- fate,
                              served <- served
ImplementsRpc == Abstract!RpcSpec
=============================================================================
