-------------------------------- MODULE Server --------------------------------
(***************************************************************************)
(* The threads of a drpc_server and drpc_server_free, which stops and      *)
(* joins them.  Each connection has a thread that enters its handle in     *)
(* client_threads, serves, takes the handle out again, detaches itself and *)
(* ends.  drpc_server_free walks the body of client_threads, without the   *)
(* table's lock, and joins the threads it finds.                           *)
(*                                                                         *)
(* What a connection does while it serves is the subject of module         *)
(* Session: here it is one state, which every connection leaves in the end *)
(* once should_stop is set (property SessionEnds there).  The table has    *)
(* too few entries to resize.                                              *)
(***************************************************************************)
EXTENDS Naturals, FiniteSets

CONSTANTS
  Local,        \* connections made by drpc_new_dqueue_client
  Remote,       \* connections the TCP acceptor makes
  NULL,         \* an empty slot
  DEAD,         \* a tombstone
  Capacity      \* slots of client_threads; more than there are connections

Connections == Local \cup Remote

ASSUME ServerAssumption ==
  /\ Local \cap Remote = {}
  /\ NULL \notin Connections /\ DEAD \notin Connections /\ NULL # DEAD
  /\ Capacity \in Nat
  /\ IsFiniteSet(Connections) /\ Cardinality(Connections) < Capacity

VARIABLES
  should_stop,      \* server->should_stop
  thread,           \* where each connection's thread is
  client_threads,   \* the body of the table: a connection's handle per slot
  acceptor,         \* where drpc_server_TCP_acceptor is
  freer,            \* where drpc_server_free is
  slot,             \* the i of its loop
  joining,          \* the connection it joins
  faults,           \* connections that used the server, or its table, too late
  early             \* history: those registered when drpc_server_free began

vars == <<should_stop, thread, client_threads, acceptor, freer, slot, joining,
          faults, early>>

Slots == 0 .. Capacity - 1

\* hashtable_destroy(client_threads) is behind us, or even free(server).
TableFreed == freer \in {"accept", "freed"}
ServerFreed == freer = "freed"

Init ==
  /\ should_stop = 0
  /\ thread = [k \in Connections |-> "none"]
  /\ client_threads = [s \in Slots |-> NULL]
  /\ acceptor = IF Remote = {} THEN "done" ELSE "test"
  /\ freer = "no"
  /\ slot = 0
  /\ joining = NULL
  /\ faults = {}
  /\ early = {}

\* Connection k goes on to where; what it does there is a use of something
\* that has been freed if late holds.
Go(k, where, late) ==
  /\ thread' = [thread EXCEPT ![k] = where]
  /\ faults' = IF late THEN faults \cup {k} ELSE faults

-----------------------------------------------------------------------------
(* Connections begin *)

\* drpc_new_dqueue_client; not called once drpc_server_free has been.
NewLocal(k) ==
  /\ k \in Local /\ thread[k] = "none"
  /\ freer = "no"
  /\ Go(k, "start", FALSE)
  /\ UNCHANGED <<should_stop, client_threads, acceptor, freer, slot, joining,
                 early>>

\* The acceptor's loop: the test of should_stop, and a connection that comes.
AcceptorTest ==
  /\ acceptor = "test"
  /\ acceptor' = IF should_stop = 0 THEN "accept" ELSE "done"
  /\ UNCHANGED <<should_stop, thread, client_threads, freer, slot, joining,
                 faults, early>>

Accept(k) ==
  /\ k \in Remote /\ thread[k] = "none"
  /\ acceptor = "accept"
  /\ acceptor' = "test"
  /\ Go(k, "auth", FALSE)
  /\ UNCHANGED <<should_stop, client_threads, freer, slot, joining, early>>

\* accept fails: drpc_server_free has shut the socket down.
AcceptFails ==
  /\ acceptor = "accept"
  /\ freer = "accept"
  /\ acceptor' = "done"
  /\ UNCHANGED <<should_stop, thread, client_threads, freer, slot, joining,
                 faults, early>>

\* drpc_server_client_auth looks the user up; who fails is turned away.
Authenticate(k) ==
  /\ thread[k] = "auth"
  /\ \E where \in {"start", "gone"} : Go(k, where, ServerFreed)
  /\ UNCHANGED <<should_stop, client_threads, acceptor, freer, slot, joining,
                 early>>

\* hashtable_set: the slot depends on the client's random identifier.
AddHandle(k) ==
  /\ thread[k] = "start"
  /\ Go(k, "serve", TableFreed)
  /\ \E s \in Slots :
       /\ client_threads[s] = NULL
       /\ client_threads' = [client_threads EXCEPT ![s] = k]
  /\ UNCHANGED <<should_stop, acceptor, freer, slot, joining, early>>

-----------------------------------------------------------------------------
(* Connections end *)

\* Mutant: only the client can end the connection.
LeaveUnasked(k) ==
  /\ thread[k] = "serve"
  /\ should_stop = 0
  /\ Go(k, "left", ServerFreed)
  /\ UNCHANGED <<should_stop, client_threads, acceptor, freer, slot, joining,
                 early>>

\* The client disconnects, falls silent, or should_stop is seen; the executor
\* is joined.
Leave(k) ==
  /\ thread[k] = "serve"
  /\ Go(k, "left", ServerFreed)
  /\ UNCHANGED <<should_stop, client_threads, acceptor, freer, slot, joining,
                 early>>

\* Mutant: the handle stays in the table.
RemoveHandleLater(k) ==
  /\ thread[k] = "left"
  /\ Go(k, "removed", TableFreed)
  /\ UNCHANGED <<should_stop, client_threads, acceptor, freer, slot, joining,
                 early>>

\* hashtable_remove.
RemoveHandle(k) ==
  /\ thread[k] = "left"
  /\ Go(k, "removed", TableFreed)
  /\ client_threads' =
       [s \in Slots |-> IF client_threads[s] = k THEN DEAD ELSE client_threads[s]]
  /\ UNCHANGED <<should_stop, acceptor, freer, slot, joining, early>>

\* pthread_detach and free(self).
Detach(k) ==
  /\ thread[k] = "removed"
  /\ Go(k, "detached", FALSE)
  /\ UNCHANGED <<should_stop, client_threads, acceptor, freer, slot, joining,
                 early>>

\* drpc_disconnected is told to connection_event_cb, a field of the server;
\* then the thread closes its end and is over.
Disconnected(k) ==
  /\ thread[k] = "detached"
  /\ Go(k, "gone", ServerFreed)
  /\ UNCHANGED <<should_stop, client_threads, acceptor, freer, slot, joining,
                 early>>

-----------------------------------------------------------------------------
(* drpc_server_free *)

FreeBegin ==
  /\ freer = "no"
  /\ should_stop' = 1
  /\ freer' = "scan"
  /\ early' = {k \in Connections : \E s \in Slots : client_threads[s] = k}
  /\ UNCHANGED <<thread, client_threads, acceptor, slot, joining, faults>>

\* The loop's test of slot i, which finds no handle.
ScanNext ==
  /\ freer = "scan"
  /\ slot \in Slots
  /\ client_threads[slot] \in {NULL, DEAD}
  /\ slot' = slot + 1
  /\ UNCHANGED <<should_stop, thread, client_threads, acceptor, freer, joining,
                 faults, early>>

ScanFound ==
  /\ freer = "scan"
  /\ slot \in Slots
  /\ client_threads[slot] \in Connections
  /\ joining' = client_threads[slot]
  /\ freer' = "join"
  /\ UNCHANGED <<should_stop, thread, client_threads, acceptor, slot, faults,
                 early>>

\* pthread_join reads the handle, which may be gone since the test, and waits
\* for the thread.
Join ==
  /\ freer = "join"
  /\ IF client_threads[slot] = joining
       THEN /\ freer' = "wait"
            /\ UNCHANGED <<slot, faults>>
       ELSE /\ freer' = "scan"
            /\ slot' = slot + 1
            /\ faults' = faults \cup {joining}
  /\ UNCHANGED <<should_stop, thread, client_threads, acceptor, joining, early>>

Joined ==
  /\ freer = "wait"
  /\ thread[joining] = "gone"
  /\ freer' = "scan"
  /\ slot' = slot + 1
  /\ UNCHANGED <<should_stop, thread, client_threads, acceptor, joining,
                 faults, early>>

\* Mutant: the loop stops before the last slot.
ScanEndEarly ==
  /\ freer = "scan"
  /\ slot = Capacity - 1
  /\ freer' = "accept"
  /\ UNCHANGED <<should_stop, thread, client_threads, acceptor, slot, joining,
                 faults, early>>

\* The table is destroyed, the listening socket shut down.
ScanEnd ==
  /\ freer = "scan"
  /\ slot = Capacity
  /\ freer' = "accept"
  /\ UNCHANGED <<should_stop, thread, client_threads, acceptor, slot, joining,
                 faults, early>>

\* The acceptor is joined; functions, mailboxes and server are freed.
FreeEnd ==
  /\ freer = "accept"
  /\ acceptor = "done"
  /\ freer' = "freed"
  /\ UNCHANGED <<should_stop, thread, client_threads, acceptor, slot, joining,
                 faults, early>>

-----------------------------------------------------------------------------
ConnectionStep(k) ==
  \/ Authenticate(k) \/ AddHandle(k) \/ Leave(k) \/ RemoveHandle(k)
  \/ Detach(k) \/ Disconnected(k)

AcceptorStep == AcceptorTest \/ AcceptFails

FreerStep == ScanNext \/ ScanFound \/ Join \/ Joined \/ ScanEnd \/ FreeEnd

\* Everything is over.
Terminated ==
  /\ ServerFreed
  /\ \A k \in Connections : thread[k] \in {"none", "gone"}

Next ==
  \/ \E k \in Connections : NewLocal(k) \/ Accept(k) \/ ConnectionStep(k)
  \/ AcceptorStep
  \/ FreeBegin \/ FreerStep
  \/ Terminated /\ UNCHANGED vars

Spec == Init /\ [][Next]_vars

(***************************************************************************)
(* Threads that have something to do get to do it.  That a connection      *)
(* leaves once should_stop is set is what module Session shows.  Nobody    *)
(* has to connect or to call drpc_server_free.                             *)
(***************************************************************************)
FairSpec ==
  /\ Spec
  /\ \A k \in Connections : WF_vars(ConnectionStep(k))
  /\ WF_vars(AcceptorStep)
  /\ WF_vars(FreerStep)

-----------------------------------------------------------------------------
TypeOK ==
  /\ should_stop \in {0, 1}
  /\ thread \in [Connections -> {"none", "auth", "start", "serve", "left",
                                 "removed", "detached", "gone"}]
  /\ client_threads \in [Slots -> Connections \cup {NULL, DEAD}]
  /\ acceptor \in {"test", "accept", "done"}
  /\ freer \in {"no", "scan", "join", "wait", "accept", "freed"}
  /\ slot \in 0 .. Capacity
  /\ joining \in Connections \cup {NULL}
  /\ faults \subseteq Connections
  /\ early \subseteq Connections

\* A handle in client_threads is that of a thread that has not freed it.
HandleLive ==
  \A s \in Slots : client_threads[s] \in Connections =>
    thread[client_threads[s]] \in {"serve", "left"}

\* Of the connections that were registered when drpc_server_free began, none
\* serves any more, or has its handle still to take out, when the table is
\* destroyed, even though table and threads change while the table is walked.
EarlyAreStopped ==
  TableFreed => \A k \in early : thread[k] \in {"removed", "detached", "gone"}

\* drpc_server_free comes back, or some thread has used what was freed and
\* nothing can be said of the program any more.
FreeReturns == freer = "scan" ~> ServerFreed \/ faults # {}
=============================================================================
