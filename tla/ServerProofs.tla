----------------------------- MODULE ServerProofs -----------------------------
(***************************************************************************)
(* The life cycle of a server, and its registry; the two share no state.   *)
(*                                                                         *)
(* drpc_server_free misses no connection that was registered when it       *)
(* began, for any number of connections and slots, although it walks the   *)
(* table without its lock.  The reasons: an entry stays where it is until  *)
(* its own thread makes it a tombstone, a tombstone is not used again, and *)
(* an entry whose thread is still to be joined lies at or behind the slot  *)
(* the walk has come to.                                                   *)
(*                                                                         *)
(* No proxy client is disconnected twice, for any names, addresses and     *)
(* habits of the application, and whatever entries share it, before        *)
(* drpc_server_free and in its loops.  Each entry's client is disconnected *)
(* on its own, if it is not recorded; so it is enough that every client    *)
(* the tables mention is there or is recorded, and that recording is what  *)
(* every disconnection begins with.                                        *)
(***************************************************************************)
EXTENDS Server, Registry, TLAPS

-----------------------------------------------------------------------------
(* Connection threads and drpc_server_free *)

Live == {"serve", "left"}
Stopped == {"removed", "detached", "gone"}

\* The slots at or behind the one the walk is at that hold k's handle.
Ahead(k) == \E s \in Slots : s >= slot /\ client_threads[s] = k

\* The walk has not begun, or every early connection is stopped or ahead.
WalkInv ==
  /\ freer = "no" => slot = 0 /\ early = {}
  /\ freer \in {"scan", "join", "wait"} =>
       \A k \in early : thread[k] \in Stopped \/ (thread[k] \in Live /\ Ahead(k))

\* While a thread is joined its slot holds its handle, or a tombstone.
JoinInv ==
  freer \in {"join", "wait"} =>
    slot \in Slots /\ joining \in Connections
    /\ client_threads[slot] \in {joining, DEAD}

ServerInv == TypeOK /\ HandleLive /\ JoinInv /\ WalkInv /\ EarlyAreStopped

LEMMA SlotArithmetic ==
  /\ Capacity \in Nat
  /\ 0 \in 0 .. Capacity
  /\ \A s \in Slots : s \in Nat /\ s + 1 \in 0 .. Capacity
BY ServerAssumption DEF ServerAssumption, Slots

LEMMA InitServerInv == Init => ServerInv
<1> SUFFICES ASSUME Init PROVE ServerInv
  OBVIOUS
<1>1. TypeOK
  BY SlotArithmetic DEF Init, TypeOK
<1>2. \A s \in Slots : client_threads[s] \notin Connections
  BY ServerAssumption DEF Init, ServerAssumption
<1>3. HandleLive
  BY <1>2 DEF HandleLive
<1>4. JoinInv /\ WalkInv /\ EarlyAreStopped
  BY DEF Init, JoinInv, WalkInv, EarlyAreStopped, TableFreed
<1> QED BY <1>1, <1>3, <1>4 DEF ServerInv

\* A connection that moves on without touching the table, and not from live
\* to something else than live, nor from stopped.
LEMMA MoveKeeps ==
  ASSUME ServerInv, NEW k \in Connections, NEW where, NEW late,
         Go(k, where, late),
         UNCHANGED <<should_stop, client_threads, freer, slot, joining, early>>,
         acceptor' \in {"test", "accept", "done"},
         where \in {"auth", "start", "serve", "left", "detached", "gone"},
         thread[k] \in Live => where \in Live,
         thread[k] \in Stopped => where \in Stopped
  PROVE  ServerInv'
<1> USE DEF ServerInv
<1>1. thread' = [thread EXCEPT ![k] = where] /\ faults' \subseteq faults \cup {k}
  BY DEF Go
<1>2. TypeOK'
  BY <1>1 DEF TypeOK
<1>3. \A j \in Connections : thread'[j] = IF j = k THEN where ELSE thread[j]
  BY <1>1 DEF TypeOK
<1>4. HandleLive'
  BY <1>3 DEF HandleLive, Live
<1>5. JoinInv'
  BY DEF JoinInv
<1>6. \A j \in Connections : /\ thread[j] \in Live => thread'[j] \in Live
                             /\ thread[j] \in Stopped => thread'[j] \in Stopped
  BY <1>3
<1>7. early \subseteq Connections
  BY DEF TypeOK
<1>8. WalkInv'
  BY <1>6, <1>7 DEF WalkInv, Ahead
<1>9. EarlyAreStopped'
  BY <1>6, <1>7 DEF EarlyAreStopped, TableFreed, Stopped
<1> QED BY <1>2, <1>4, <1>5, <1>8, <1>9

LEMMA RegisterKeeps ==
  ASSUME ServerInv, NEW k \in Connections, AddHandle(k)
  PROVE  ServerInv'
<1> USE DEF ServerInv
<1>1. PICK s \in Slots : /\ client_threads[s] = NULL
                         /\ client_threads' = [client_threads EXCEPT ![s] = k]
  BY DEF AddHandle
<1>2. /\ thread[k] = "start"
      /\ thread' = [thread EXCEPT ![k] = "serve"]
      /\ faults' \subseteq faults \cup {k}
      /\ UNCHANGED <<should_stop, acceptor, freer, slot, joining, early>>
  BY DEF AddHandle, Go
<1>3. TypeOK'
  BY <1>1, <1>2 DEF TypeOK
<1>4. \A j \in Connections : thread'[j] = IF j = k THEN "serve" ELSE thread[j]
  BY <1>2 DEF TypeOK
<1>5. \A t \in Slots : client_threads'[t] = IF t = s THEN k ELSE client_threads[t]
  BY <1>1 DEF TypeOK
<1>6. HandleLive'
  BY <1>4, <1>5 DEF HandleLive
<1>7. JoinInv'
  BY <1>1, <1>2, <1>5, ServerAssumption DEF JoinInv, ServerAssumption
<1>8. k \notin early \/ freer = "no"
  BY <1>2 DEF WalkInv, EarlyAreStopped, TableFreed, TypeOK, Live, Stopped
<1>9. early \subseteq Connections
  BY DEF TypeOK
<1>10. \A j \in early : Ahead(j) => Ahead(j)'
  BY <1>1, <1>2, <1>5, <1>9, ServerAssumption DEF Ahead, ServerAssumption
<1>11. WalkInv'
  BY <1>2, <1>4, <1>8, <1>9, <1>10 DEF WalkInv
<1>12. EarlyAreStopped'
  BY <1>2, <1>4, <1>8, <1>9 DEF EarlyAreStopped, TableFreed
<1> QED BY <1>3, <1>6, <1>7, <1>11, <1>12

LEMMA UnregisterKeeps ==
  ASSUME ServerInv, NEW k \in Connections, RemoveHandle(k)
  PROVE  ServerInv'
<1> USE DEF ServerInv
<1>1. /\ client_threads' = [s \in Slots |-> IF client_threads[s] = k THEN DEAD
                                            ELSE client_threads[s]]
      /\ thread' = [thread EXCEPT ![k] = "removed"]
      /\ faults' \subseteq faults \cup {k}
      /\ UNCHANGED <<should_stop, acceptor, freer, slot, joining, early>>
  BY DEF RemoveHandle, Go
<1>2. TypeOK'
  BY <1>1 DEF TypeOK
<1>3. \A j \in Connections : thread'[j] = IF j = k THEN "removed" ELSE thread[j]
  BY <1>1 DEF TypeOK
<1>4. \A s \in Slots : client_threads'[s] =
        IF client_threads[s] = k THEN DEAD ELSE client_threads[s]
  BY <1>1
<1>5. HandleLive'
  BY <1>3, <1>4, ServerAssumption DEF HandleLive, ServerAssumption
<1>6. JoinInv'
  BY <1>1, <1>4 DEF JoinInv
<1>7. early \subseteq Connections
  BY DEF TypeOK
<1>8. \A j \in early \ {k} : Ahead(j) => Ahead(j)'
  BY <1>1, <1>4 DEF Ahead
<1>9. WalkInv'
  BY <1>1, <1>3, <1>7, <1>8 DEF WalkInv, Stopped
<1>10. EarlyAreStopped'
  BY <1>1, <1>3, <1>7 DEF EarlyAreStopped, TableFreed
<1> QED BY <1>2, <1>5, <1>6, <1>9, <1>10

LEMMA FreeBeginKeeps ==
  ASSUME ServerInv, FreeBegin
  PROVE  ServerInv'
<1> USE DEF ServerInv
<1>1. /\ freer = "no" /\ freer' = "scan" /\ should_stop' = 1
      /\ early' = {k \in Connections : \E s \in Slots : client_threads[s] = k}
      /\ UNCHANGED <<thread, client_threads, acceptor, slot, joining, faults>>
  BY DEF FreeBegin
<1>2. TypeOK'
  BY <1>1 DEF TypeOK
<1>3. \A k \in early' : thread[k] \in Live
  BY <1>1 DEF HandleLive, Live
<1>4. \A k \in early' : Ahead(k)'
  BY <1>1, SlotArithmetic DEF Ahead, WalkInv
<1>5. HandleLive' /\ JoinInv' /\ EarlyAreStopped'
  BY <1>1 DEF HandleLive, JoinInv, EarlyAreStopped, TableFreed
<1>6. WalkInv'
  BY <1>1, <1>3, <1>4 DEF WalkInv
<1> QED BY <1>2, <1>5, <1>6

\* A step of the walk that passes a slot in which no live thread's handle is.
LEMMA PassKeeps ==
  ASSUME ServerInv, freer \in {"scan", "join", "wait"}, slot \in Slots,
         client_threads[slot] \notin Connections,
         slot' = slot + 1, freer' = "scan", faults' \subseteq Connections,
         UNCHANGED <<should_stop, thread, client_threads, acceptor, joining, early>>
  PROVE  ServerInv'
<1> USE DEF ServerInv
<1>1. TypeOK'
  BY SlotArithmetic DEF TypeOK
<1>2. HandleLive' /\ JoinInv' /\ EarlyAreStopped'
  BY DEF HandleLive, JoinInv, EarlyAreStopped, TableFreed
<1>3. early \subseteq Connections
  BY DEF TypeOK
<1>4. ASSUME NEW k \in early, Ahead(k) PROVE Ahead(k)'
  <2>1. PICK s \in Slots : s >= slot /\ client_threads[s] = k
    BY <1>4 DEF Ahead
  <2>2. s # slot
    BY <1>3, <2>1
  <2>3. s >= slot + 1
    BY <2>1, <2>2, SlotArithmetic
  <2> QED BY <2>1, <2>3 DEF Ahead
<1>5. WalkInv'
  BY <1>4 DEF WalkInv
<1> QED BY <1>1, <1>2, <1>5

LEMMA FreerKeeps ==
  ASSUME ServerInv, FreerStep
  PROVE  ServerInv'
<1>1. CASE ScanNext
  <2>1. client_threads[slot] \notin Connections
    BY <1>1, ServerAssumption DEF ScanNext, ServerAssumption
  <2> QED BY <1>1, <2>1, PassKeeps DEF ScanNext, ServerInv, TypeOK
<1>2. CASE ScanFound
  <2> USE DEF ServerInv
  <2>1. TypeOK' /\ HandleLive' /\ JoinInv' /\ EarlyAreStopped'
    BY <1>2 DEF ScanFound, TypeOK, HandleLive, JoinInv, EarlyAreStopped, TableFreed
  <2>2. WalkInv'
    BY <1>2 DEF ScanFound, WalkInv, Ahead
  <2> QED BY <2>1, <2>2
<1>3. CASE Join /\ client_threads[slot] = joining
  <2> USE DEF ServerInv
  <2>1. TypeOK' /\ HandleLive' /\ JoinInv' /\ EarlyAreStopped'
    BY <1>3 DEF Join, TypeOK, HandleLive, JoinInv, EarlyAreStopped, TableFreed
  <2>2. WalkInv'
    BY <1>3 DEF Join, WalkInv, Ahead
  <2> QED BY <2>1, <2>2
<1>4. CASE Join /\ client_threads[slot] # joining
  <2>1. client_threads[slot] = DEAD /\ slot \in Slots /\ joining \in Connections
    BY <1>4 DEF Join, ServerInv, JoinInv
  <2>2. client_threads[slot] \notin Connections
    BY <2>1, ServerAssumption DEF ServerAssumption
  <2> QED BY <1>4, <2>1, <2>2, PassKeeps DEF Join, ServerInv, TypeOK
<1>5. CASE Joined
  <2>1. /\ freer = "wait" /\ thread[joining] = "gone"
        /\ slot \in Slots /\ joining \in Connections
        /\ client_threads[slot] \in {joining, DEAD}
    BY <1>5 DEF Joined, ServerInv, JoinInv
  <2>2. client_threads[slot] # joining
    BY <2>1 DEF ServerInv, HandleLive
  <2>3. client_threads[slot] \notin Connections
    BY <2>1, <2>2, ServerAssumption DEF ServerAssumption
  <2> QED BY <1>5, <2>1, <2>3, PassKeeps DEF Joined, ServerInv, TypeOK
<1>6. CASE ScanEnd
  <2> USE DEF ServerInv
  <2>1. \A k : ~Ahead(k)
    BY <1>6, SlotArithmetic DEF ScanEnd, Ahead, Slots
  <2>2. EarlyAreStopped'
    BY <1>6, <2>1 DEF ScanEnd, WalkInv, EarlyAreStopped, Stopped
  <2>3. TypeOK' /\ HandleLive' /\ JoinInv' /\ WalkInv'
    BY <1>6 DEF ScanEnd, TypeOK, HandleLive, JoinInv, WalkInv
  <2> QED BY <2>2, <2>3
<1>7. CASE FreeEnd
  <2> QED BY <1>7 DEF FreeEnd, ServerInv, TypeOK, HandleLive, JoinInv, WalkInv,
                      EarlyAreStopped, TableFreed
<1> QED BY <1>1, <1>2, <1>3, <1>4, <1>5, <1>6, <1>7 DEF FreerStep

\* The acceptor changes nothing the invariant is about.
LEMMA AcceptorKeeps ==
  ASSUME ServerInv, AcceptorStep
  PROVE  ServerInv'
BY DEF AcceptorStep, AcceptorTest, AcceptFails, ServerInv, TypeOK, HandleLive,
       JoinInv, WalkInv, Ahead, EarlyAreStopped, TableFreed

LEMMA ConnectionKeeps ==
  ASSUME ServerInv, NEW k \in Connections,
         NewLocal(k) \/ Accept(k) \/ ConnectionStep(k)
  PROVE  ServerInv'
<1> USE DEF Live, Stopped
<1>0. acceptor \in {"test", "accept", "done"}
  BY DEF ServerInv, TypeOK
<1>1. CASE NewLocal(k)
  BY <1>0, <1>1, MoveKeeps DEF NewLocal
<1>2. CASE Accept(k)
  BY <1>2, MoveKeeps DEF Accept
<1>3. CASE Authenticate(k)
  <2>1. PICK where \in {"start", "gone"} : Go(k, where, ServerFreed)
    BY <1>3 DEF Authenticate
  <2> QED BY <1>0, <1>3, <2>1, MoveKeeps DEF Authenticate
<1>4. CASE AddHandle(k)
  BY <1>4, RegisterKeeps
<1>5. CASE Leave(k)
  BY <1>0, <1>5, MoveKeeps DEF Leave
<1>6. CASE RemoveHandle(k)
  BY <1>6, UnregisterKeeps
<1>7. CASE Detach(k)
  BY <1>0, <1>7, MoveKeeps DEF Detach
<1>8. CASE Disconnected(k)
  BY <1>0, <1>8, MoveKeeps DEF Disconnected
<1> QED BY <1>1, <1>2, <1>3, <1>4, <1>5, <1>6, <1>7, <1>8 DEF ConnectionStep

LEMMA NextServerInv == ServerInv /\ [Next]_vars => ServerInv'
<1> SUFFICES ASSUME ServerInv, [Next]_vars PROVE ServerInv'
  OBVIOUS
<1>1. CASE UNCHANGED vars
  BY <1>1 DEF vars, ServerInv, TypeOK, HandleLive, JoinInv, WalkInv, Ahead,
              EarlyAreStopped, TableFreed
<1>2. CASE \E k \in Connections : NewLocal(k) \/ Accept(k) \/ ConnectionStep(k)
  BY <1>2, ConnectionKeeps
<1>3. CASE AcceptorStep
  BY <1>3, AcceptorKeeps
<1>4. CASE FreeBegin
  BY <1>4, FreeBeginKeeps
<1>5. CASE FreerStep
  BY <1>5, FreerKeeps
<1> QED BY <1>1, <1>2, <1>3, <1>4, <1>5 DEF Next

\* Every variable of the server has its type in every reachable state,
\* whatever the number of connections and the size of the table.
THEOREM ServerTypeCorrect == Spec => []TypeOK
<1>1. ServerInv => TypeOK
  BY DEF ServerInv
<1> QED BY <1>1, InitServerInv, NextServerInv, PTL DEF Spec

\* A handle in client_threads is never one its thread has freed, as long as
\* the table's entry is read in one step.
THEOREM HandlesAreLive == Spec => []HandleLive
<1>1. ServerInv => HandleLive
  BY DEF ServerInv
<1> QED BY <1>1, InitServerInv, NextServerInv, PTL DEF Spec

\* When the table is destroyed every connection that was registered when
\* drpc_server_free began has left it.
THEOREM NoEarlyConnectionMissed == Spec => []EarlyAreStopped
<1>1. ServerInv => EarlyAreStopped
  BY DEF ServerInv
<1> QED BY <1>1, InitServerInv, NextServerInv, PTL DEF Spec

-----------------------------------------------------------------------------
(* Functions, proxied mailboxes and the clients behind them *)

ProxiesType ==
  /\ functions \in [Names -> [proxy : Addresses \cup {Nothing}, freed : BOOLEAN]
                             \cup {Nothing}]
  /\ proxy_mailboxes \in [Kinds -> [Names -> Addresses \cup {Nothing}]]

\* A client the tables mention is at its address, or recorded.
Recorded(a) == a = Nothing \/ a \in occupied \/ a \in proxy_free_sync_ht

FunctionsRecorded ==
  \A n \in Names : functions[n] # Nothing => Recorded(functions[n].proxy)

MailboxesRecorded ==
  \A k \in Kinds, n \in Names : Recorded(proxy_mailboxes[k][n])

RegistryInv ==
  /\ ProxiesType
  /\ FunctionsRecorded
  /\ MailboxesRecorded
  /\ DisconnectedOnce

\* What StillThere keeps of recorded or present clients is present, so that
\* freeing it is no fault.
LEMMA StillThereIsThere ==
  ASSUME NEW A, A \subseteq occupied \cup proxy_free_sync_ht
  PROVE  Wrong(StillThere(A), "client freed twice") = {}
BY DEF Wrong, StillThere

\* Disconnecting keeps every client recorded or present.
LEMMA DisconnectRecords ==
  ASSUME NEW A, DisconnectAll(A)
  PROVE  \A a : Recorded(a) => Recorded(a)'
BY DEF DisconnectAll, Recorded

LEMMA InitRegistryInv == RegistryInit => RegistryInv
BY DEF RegistryInit, RegistryInv, ProxiesType, FunctionsRecorded, MailboxesRecorded,
       DisconnectedOnce, Recorded

\* Registration and removal: one lemma for each action that changes a table
\* or the record.
LEMMA NewClientInv ==
  ASSUME RegistryInv, NEW a \in Addresses, NewClient(a)
  PROVE  RegistryInv'
BY DEF NewClient, RegistryInv, ProxiesType, FunctionsRecorded,
       MailboxesRecorded, DisconnectedOnce, Recorded

LEMMA RegisterInv ==
  ASSUME RegistryInv, NEW n \in Names, NEW p \in Addresses \cup {Nothing},
         Register(n, p)
  PROVE  RegistryInv'
<1>1. functions' = [functions EXCEPT ![n] = [proxy |-> p, freed |-> FALSE]]
  BY DEF Register
<1>2. p \in occupied \cup {Nothing}
  BY DEF Register
<1>3. UNCHANGED <<occupied, proxy_mailboxes, proxy_free_sync_ht, misuses>>
  BY DEF Register
<1>4. ProxiesType'
  BY <1>1, <1>3 DEF RegistryInv, ProxiesType
<1>5. \A m \in Names : functions'[m] =
        IF m = n THEN [proxy |-> p, freed |-> FALSE] ELSE functions[m]
  BY <1>1 DEF RegistryInv, ProxiesType
<1>6. FunctionsRecorded'
  BY <1>2, <1>3, <1>5 DEF RegistryInv, FunctionsRecorded, Recorded
<1>7. MailboxesRecorded' /\ DisconnectedOnce'
  BY <1>3 DEF RegistryInv, MailboxesRecorded, Recorded, DisconnectedOnce
<1> QED BY <1>4, <1>6, <1>7 DEF RegistryInv

LEMMA NewProxyMailboxInv ==
  ASSUME RegistryInv, NEW k \in Kinds, NEW n \in Names, NEW a \in Addresses,
         NewProxyMailbox(k, n, a)
  PROVE  RegistryInv'
<1>1. proxy_mailboxes' = [proxy_mailboxes EXCEPT ![k][n] = a]
  BY DEF NewProxyMailbox
<1>2. a \in occupied
  BY DEF NewProxyMailbox
<1>3. UNCHANGED <<occupied, functions, proxy_free_sync_ht, misuses>>
  BY DEF NewProxyMailbox
<1>4. ProxiesType'
  BY <1>1, <1>3 DEF RegistryInv, ProxiesType
<1>5. \A l \in Kinds, m \in Names : proxy_mailboxes'[l][m] =
        IF l = k /\ m = n THEN a ELSE proxy_mailboxes[l][m]
  BY <1>1 DEF RegistryInv, ProxiesType
<1>6. MailboxesRecorded'
  BY <1>2, <1>3, <1>5 DEF RegistryInv, MailboxesRecorded, Recorded
<1>7. FunctionsRecorded' /\ DisconnectedOnce'
  BY <1>3 DEF RegistryInv, FunctionsRecorded, Recorded, DisconnectedOnce
<1> QED BY <1>4, <1>6, <1>7 DEF RegistryInv

\* Using a function or a mailbox changes nothing but misuses, and is not a
\* disconnection.
LEMMA UseInv ==
  ASSUME RegistryInv,
         NEW n \in Names, NEW k \in Kinds, Call(n) \/ UseMailbox(k, n)
  PROVE  RegistryInv'
<1>1. UNCHANGED <<occupied, functions, proxy_mailboxes, proxy_free_sync_ht>>
  BY DEF Call, UseMailbox
<1>2. misuses' \subseteq misuses \cup {"freed function called", "freed client used"}
  BY DEF Call, UseMailbox, Wrong
<1>3. DisconnectedOnce'
  BY <1>2 DEF RegistryInv, DisconnectedOnce
<1> QED BY <1>1, <1>3 DEF RegistryInv, ProxiesType, FunctionsRecorded,
            MailboxesRecorded, Recorded

\* Freeing a function, for the application or in drpc_server_free's first loop.
LEMMA FnFreeInv ==
  ASSUME RegistryInv, NEW n \in Names, functions[n] # Nothing, FnFree(n),
         UNCHANGED proxy_mailboxes
  PROVE  RegistryInv'
<1> DEFINE P == {functions[n].proxy} \ {Nothing}
<1>1. /\ functions[n] # Nothing
      /\ DisconnectAll(StillThere(P))
      /\ functions' = [functions EXCEPT ![n].freed = TRUE]
      /\ proxy_mailboxes' = proxy_mailboxes
      /\ misuses' = misuses
           \cup (IF functions[n].freed THEN {"function freed twice"} ELSE {})
           \cup Wrong(StillThere(P), "client freed twice")
  BY DEF FnFree
<1>2. functions[n] \in [proxy : Addresses \cup {Nothing}, freed : BOOLEAN]
  BY <1>1 DEF RegistryInv, ProxiesType
<1>3. P \subseteq occupied \cup proxy_free_sync_ht
  BY <1>1 DEF RegistryInv, FunctionsRecorded, Recorded
<1>4. DisconnectedOnce'
  BY <1>1, <1>3, StillThereIsThere DEF RegistryInv, DisconnectedOnce
<1>5. \A m \in Names : functions'[m] =
        IF m = n THEN [functions[n] EXCEPT !.freed = TRUE] ELSE functions[m]
  BY <1>1 DEF RegistryInv, ProxiesType
<1>6. ProxiesType'
  BY <1>1, <1>2 DEF RegistryInv, ProxiesType
<1>7. \A a : Recorded(a) => Recorded(a)'
  BY <1>1, DisconnectRecords
<1>8. \A m \in Names : functions'[m] # Nothing =>
        functions[m] # Nothing /\ functions'[m].proxy = functions[m].proxy
  <2>1. [functions[n] EXCEPT !.freed = TRUE].proxy = functions[n].proxy
    BY <1>2
  <2> QED BY <1>1, <1>5, <2>1
<1>9. FunctionsRecorded' /\ MailboxesRecorded'
  BY <1>1, <1>7, <1>8 DEF RegistryInv, FunctionsRecorded, MailboxesRecorded
<1> QED BY <1>4, <1>6, <1>9 DEF RegistryInv

LEMMA RemoveProxyMailboxInv ==
  ASSUME RegistryInv, NEW k \in Kinds, NEW n \in Names,
         RemoveProxyMailbox(k, n)
  PROVE  RegistryInv'
<1> DEFINE P == {proxy_mailboxes[k][n]}
           A == StillThere(P)
<1>1. /\ proxy_mailboxes[k][n] # Nothing
      /\ DisconnectAll(A)
      /\ misuses' = misuses \cup Wrong(A, "client freed twice")
      /\ proxy_mailboxes' = IF A = {} THEN proxy_mailboxes
                            ELSE [proxy_mailboxes EXCEPT ![k][n] = Nothing]
      /\ functions' = functions
  BY DEF RemoveProxyMailbox
<1>2. P \subseteq occupied \cup proxy_free_sync_ht
  BY <1>1 DEF RegistryInv, MailboxesRecorded, Recorded
<1>3. DisconnectedOnce'
  BY <1>1, <1>2, StillThereIsThere DEF RegistryInv, DisconnectedOnce
<1>4. \A l \in Kinds, m \in Names :
        proxy_mailboxes'[l][m] \in {proxy_mailboxes[l][m], Nothing}
  <2>1. CASE A = {}
    BY <1>1, <2>1
  <2>2. CASE A # {}
    <3>1. proxy_mailboxes' = [proxy_mailboxes EXCEPT ![k][n] = Nothing]
      BY <1>1, <2>2
    <3> HIDE DEF A
    <3> QED BY <3>1 DEF RegistryInv, ProxiesType
  <2> QED BY <2>1, <2>2
<1>5. ProxiesType'
  <2>1. CASE A = {}
    BY <1>1, <2>1 DEF RegistryInv, ProxiesType
  <2>2. CASE A # {}
    <3>1. proxy_mailboxes' = [proxy_mailboxes EXCEPT ![k][n] = Nothing]
      BY <1>1, <2>2
    <3>2. proxy_mailboxes' \in [Kinds -> [Names -> Addresses \cup {Nothing}]]
      BY ONLY RegistryInv, <3>1, k \in Kinds, n \in Names
      DEF RegistryInv, ProxiesType
    <3> QED BY <1>1, <3>2 DEF RegistryInv, ProxiesType
  <2> QED BY <2>1, <2>2
<1>6. \A a : Recorded(a) => Recorded(a)'
  BY <1>1, DisconnectRecords
<1>7. Recorded(Nothing)'
  BY DEF Recorded
<1>8. FunctionsRecorded' /\ MailboxesRecorded'
  <2>1. MailboxesRecorded'
    BY <1>4, <1>6, <1>7 DEF RegistryInv, MailboxesRecorded
  <2>2. FunctionsRecorded'
    BY <1>1, <1>6 DEF RegistryInv, FunctionsRecorded
  <2> QED BY <2>1, <2>2
<1> QED BY <1>3, <1>5, <1>8 DEF RegistryInv

\* An entry of the loops over mailboxes: its client is there, or recorded.
LEMMA FreeProxyMailboxInv ==
  ASSUME RegistryInv, NEW n \in Names, FreeProxyMailbox(n)
  PROVE  RegistryInv'
<1> DEFINE P == {proxy_mailboxes[loop][n]}
<1>1. /\ loop \in Kinds
      /\ proxy_mailboxes[loop][n] # Nothing
      /\ DisconnectAll(StillThere(P))
      /\ misuses' = misuses \cup Wrong(StillThere(P), "client freed twice")
      /\ UNCHANGED <<functions, proxy_mailboxes>>
  BY DEF FreeProxyMailbox
<1>2. P \subseteq occupied \cup proxy_free_sync_ht
  BY <1>1 DEF RegistryInv, MailboxesRecorded, Recorded
<1>3. DisconnectedOnce'
  BY <1>1, <1>2, StillThereIsThere DEF RegistryInv, DisconnectedOnce
<1>4. \A a : Recorded(a) => Recorded(a)'
  BY <1>1, DisconnectRecords
<1>5. FunctionsRecorded' /\ MailboxesRecorded'
  BY <1>1, <1>4 DEF RegistryInv, FunctionsRecorded, MailboxesRecorded
<1>6. ProxiesType'
  BY <1>1 DEF RegistryInv, ProxiesType
<1> QED BY <1>3, <1>5, <1>6 DEF RegistryInv

\* Destroying a table leaves less to be recorded.
LEMMA TableEndInv ==
  ASSUME RegistryInv, FunctionsEnd \/ MailboxesEnd
  PROVE  RegistryInv'
<1>1. UNCHANGED <<occupied, proxy_free_sync_ht, misuses>>
  BY DEF FunctionsEnd, MailboxesEnd
<1>2. /\ functions' \in {functions, [n \in Names |-> Nothing]}
      /\ \/ proxy_mailboxes' = proxy_mailboxes
         \/ /\ loop \in Kinds
            /\ proxy_mailboxes' =
                 [proxy_mailboxes EXCEPT ![loop] = [n \in Names |-> Nothing]]
  BY DEF FunctionsEnd, MailboxesEnd
<1>3. /\ \A n \in Names : functions'[n] \in {functions[n], Nothing}
      /\ functions' \in [Names -> [proxy : Addresses \cup {Nothing}, freed : BOOLEAN]
                                  \cup {Nothing}]
  BY <1>2 DEF RegistryInv, ProxiesType
<1>4. /\ \A k \in Kinds, n \in Names :
           proxy_mailboxes'[k][n] \in {proxy_mailboxes[k][n], Nothing}
      /\ proxy_mailboxes' \in [Kinds -> [Names -> Addresses \cup {Nothing}]]
  <2>1. CASE proxy_mailboxes' = proxy_mailboxes
    BY <2>1 DEF RegistryInv, ProxiesType
  <2>2. CASE /\ loop \in Kinds
             /\ proxy_mailboxes' =
                  [proxy_mailboxes EXCEPT ![loop] = [n \in Names |-> Nothing]]
    BY <2>2 DEF RegistryInv, ProxiesType
  <2> QED BY <1>2, <2>1, <2>2
<1>5. \A a : Recorded(a) => Recorded(a)'
  BY <1>1 DEF Recorded
<1>6. Recorded(Nothing)'
  BY DEF Recorded
<1>7. FunctionsRecorded'
  BY <1>3, <1>5 DEF RegistryInv, FunctionsRecorded
<1>8. MailboxesRecorded'
  BY <1>4, <1>5, <1>6 DEF RegistryInv, MailboxesRecorded
<1> QED BY <1>1, <1>3, <1>4, <1>7, <1>8 DEF RegistryInv, ProxiesType, DisconnectedOnce

LEMMA ServingInv ==
  ASSUME RegistryInv, Serving
  PROVE  RegistryInv'
<1>1. CASE \E a \in Addresses : NewClient(a)
  BY <1>1, NewClientInv
<1>2. CASE \E n \in Names : Call(n)
  BY <1>2, UseInv DEF Kinds
<1>3. CASE \E n \in Names : Unregister(n)
  BY <1>3, FnFreeInv DEF Unregister
<1>4. CASE \E n \in Names, p \in Addresses \cup {Nothing} : Register(n, p)
  BY <1>4, RegisterInv
<1>5. CASE \E k \in Kinds, n \in Names : UseMailbox(k, n)
  BY <1>5, UseInv
<1>6. CASE \E k \in Kinds, n \in Names : RemoveProxyMailbox(k, n)
  BY <1>6, RemoveProxyMailboxInv
<1>7. CASE \E k \in Kinds, n \in Names, a \in Addresses : NewProxyMailbox(k, n, a)
  BY <1>7, NewProxyMailboxInv
<1> QED BY <1>1, <1>2, <1>3, <1>4, <1>5, <1>6, <1>7 DEF Serving

LEMMA FreeingEntriesInv ==
  ASSUME RegistryInv, FreeingEntries
  PROVE  RegistryInv'
<1>1. CASE \E n \in Names : FreeFunction(n)
  BY <1>1, FnFreeInv DEF FreeFunction
<1>2. CASE \E n \in Names : FreeProxyMailbox(n)
  BY <1>2, FreeProxyMailboxInv
<1>3. CASE FunctionsEnd \/ MailboxesEnd
  BY <1>3, TableEndInv
<1> QED BY <1>1, <1>2, <1>3 DEF FreeingEntries

LEMMA NextRegistryInv == RegistryInv /\ [RegistryNext]_registryVars => RegistryInv'
<1> SUFFICES ASSUME RegistryInv, [RegistryNext]_registryVars PROVE RegistryInv'
  OBVIOUS
<1>1. CASE UNCHANGED <<occupied, functions, proxy_mailboxes, proxy_free_sync_ht,
                       misuses>>
  BY <1>1 DEF RegistryInv, ProxiesType, FunctionsRecorded, MailboxesRecorded,
     DisconnectedOnce, Recorded
<1>2. CASE UNCHANGED registryVars
  BY <1>1, <1>2 DEF registryVars
<1>3. CASE FreeEntries
  BY <1>1, <1>3 DEF FreeEntries
<1>4. CASE Step
  BY <1>3, <1>4, ServingInv, FreeingEntriesInv DEF Step
<1> QED BY <1>2, <1>4 DEF RegistryNext

\* The server never disconnects, and with that frees, a proxy client twice,
\* however many functions and mailboxes share it, in whatever order they are
\* removed one by one or drpc_server_free's loops come to them, and whatever
\* addresses are used again.
THEOREM NeverDisconnectedTwice == RegistrySpec => []DisconnectedOnce
<1>1. RegistryInv => DisconnectedOnce
  BY DEF RegistryInv
<1> QED BY <1>1, InitRegistryInv, NextRegistryInv, PTL DEF RegistrySpec

-----------------------------------------------------------------------------
(***************************************************************************)
(* No client is forgotten while no name in use is registered again: every  *)
(* client the server was given stands in a table or has been recorded, and *)
(* drpc_server_free destroys a table when it has recorded what is in it.   *)
(***************************************************************************)
InFunctions(a) == \E n \in Names : InUse(n) /\ functions[n].proxy = a
InMailboxes(a) == \E k \in Kinds, n \in Names : proxy_mailboxes[k][n] = a

Kept ==
  \A a \in entrusted : a \in proxy_free_sync_ht \/ InFunctions(a) \/ InMailboxes(a)

\* What holds at all times of the tables and of the clients they mention.
TablesInv ==
  /\ ProxiesType
  /\ entrusted \subseteq Addresses
  /\ occupied \subseteq Addresses
  /\ Kept

\* An entry that drpc_server_free's loop has passed holds nothing any more that
\* is not recorded: its function is freed, its mailbox's client recorded.
Passing ==
  /\ loop = "none" => passed = {}
  /\ loop = "functions" =>
       \A n \in passed : functions[n] # Nothing => functions[n].freed
  /\ loop \in Kinds =>
       \A n \in passed : proxy_mailboxes[loop][n] \in {Nothing} \cup proxy_free_sync_ht

\* The tables whose loops are behind it are gone.
Emptied ==
  /\ loop \in {"recv", "send", "over"} => \A n \in Names : functions[n] = Nothing
  /\ loop \in {"send", "over"} => \A n \in Names : proxy_mailboxes["recv"][n] = Nothing
  /\ loop = "over" => \A n \in Names : proxy_mailboxes["send"][n] = Nothing

KeptInv == TablesInv /\ passed \subseteq Names /\ Passing /\ Emptied

\* Disconnecting a client that was given takes it out of the history.
LEMMA DisconnectForgets ==
  ASSUME NEW A, DisconnectAll(A)
  PROVE  /\ entrusted' \subseteq entrusted
         /\ occupied' \subseteq occupied
         /\ proxy_free_sync_ht' = proxy_free_sync_ht \cup A
BY DEF DisconnectAll

\* The type of the two tables is preserved, as RegistryInv has it.
LEMMA TablesTyped ==
  ASSUME TablesInv, NEW n \in Names, NEW k \in Kinds, NEW a \in Addresses \cup {Nothing}
  PROVE  /\ [functions EXCEPT ![n] = [proxy |-> a, freed |-> FALSE]]
              \in [Names -> [proxy : Addresses \cup {Nothing}, freed : BOOLEAN]
                            \cup {Nothing}]
         /\ [proxy_mailboxes EXCEPT ![k][n] = a]
              \in [Kinds -> [Names -> Addresses \cup {Nothing}]]
BY DEF TablesInv, ProxiesType

LEMMA InitKeptInv == RegistryInit => KeptInv
BY DEF RegistryInit, KeptInv, TablesInv, ProxiesType, Kept, Passing, Emptied, Kinds

LEMMA RegisterKept ==
  ASSUME Replaces = FALSE, TablesInv,
         NEW n \in Names, NEW p \in Addresses \cup {Nothing}, Register(n, p)
  PROVE  TablesInv'
<1>1. /\ functions' = [functions EXCEPT ![n] = [proxy |-> p, freed |-> FALSE]]
      /\ entrusted' = entrusted \cup ({p} \ {Nothing})
      /\ ~InUse(n)
      /\ UNCHANGED <<occupied, proxy_mailboxes, proxy_free_sync_ht>>
  BY DEF Register
<1>2. ProxiesType'
  BY <1>1, TablesTyped DEF TablesInv, ProxiesType, Kinds
<1>3. /\ functions'[n] = [proxy |-> p, freed |-> FALSE]
      /\ \A m \in Names \ {n} : functions'[m] = functions[m]
  BY <1>1 DEF TablesInv, ProxiesType
<1>4. functions'[n].proxy = p /\ InUse(n)'
  <2>1. [proxy |-> p, freed |-> FALSE] # Nothing
    <3>1. [proxy |-> p, freed |-> FALSE]
            \in [proxy : Addresses \cup {Nothing}, freed : BOOLEAN]
      OBVIOUS
    <3>2. Nothing \notin [proxy : Addresses \cup {Nothing}, freed : BOOLEAN]
      BY RegistryAssumption DEF RegistryAssumption
    <3> QED BY ONLY <3>1, <3>2
  <2>2. functions'[n] # Nothing
    BY <1>3, <2>1
  <2>3. functions'[n].proxy = p /\ functions'[n].freed = FALSE
    BY <1>3
  <2> QED BY <2>2, <2>3 DEF InUse
<1>5. Kept'
  <2> SUFFICES ASSUME NEW a \in entrusted'
               PROVE  a \in proxy_free_sync_ht' \/ InFunctions(a)' \/ InMailboxes(a)'
    BY DEF Kept
  <2>1. CASE a = p
    BY <1>4, <2>1 DEF InFunctions
  <2>2. CASE a \in entrusted
    <3>1. a \in proxy_free_sync_ht \/ InFunctions(a) \/ InMailboxes(a)
      BY <2>2 DEF TablesInv, Kept
    <3>2. InFunctions(a) => InFunctions(a)'
      BY <1>1, <1>3 DEF InFunctions, InUse
    <3> QED BY <1>1, <3>1, <3>2 DEF InMailboxes
  <2> QED BY <1>1, <2>1, <2>2
<1>6. entrusted' \subseteq Addresses
  BY <1>1 DEF TablesInv
<1> QED BY <1>1, <1>2, <1>5, <1>6 DEF TablesInv

LEMMA NewProxyMailboxKept ==
  ASSUME Replaces = FALSE, TablesInv,
         NEW k \in Kinds, NEW n \in Names, NEW b \in Addresses,
         NewProxyMailbox(k, n, b)
  PROVE  TablesInv'
<1>1. /\ proxy_mailboxes[k][n] = Nothing
      /\ proxy_mailboxes' = [proxy_mailboxes EXCEPT ![k][n] = b]
      /\ entrusted' = entrusted \cup {b}
      /\ UNCHANGED <<occupied, functions, proxy_free_sync_ht>>
  BY DEF NewProxyMailbox
<1>2. ProxiesType'
  BY <1>1, TablesTyped DEF TablesInv, ProxiesType
<1>3. \A l \in Kinds, m \in Names : proxy_mailboxes'[l][m] =
        IF l = k /\ m = n THEN b ELSE proxy_mailboxes[l][m]
  BY <1>1 DEF TablesInv, ProxiesType
<1>4. Kept'
  <2> SUFFICES ASSUME NEW a \in entrusted'
               PROVE  a \in proxy_free_sync_ht' \/ InFunctions(a)' \/ InMailboxes(a)'
    BY DEF Kept
  <2>1. CASE a = b
    BY <1>3, <2>1 DEF InMailboxes
  <2>2. CASE a \in entrusted
    <3>1. a # Nothing
      BY <2>2, RegistryAssumption DEF TablesInv, RegistryAssumption
    <3>2. a \in proxy_free_sync_ht \/ InFunctions(a) \/ InMailboxes(a)
      BY <2>2 DEF TablesInv, Kept
    <3>3. InMailboxes(a) => InMailboxes(a)'
      BY <1>1, <1>3, <3>1 DEF InMailboxes
    <3> QED BY <1>1, <3>2, <3>3 DEF InFunctions, InUse
  <2> QED BY <1>1, <2>1, <2>2
<1> QED BY <1>1, <1>2, <1>4 DEF TablesInv

\* A function that is freed mentions only a recorded client.
LEMMA FnFreeKept ==
  ASSUME TablesInv, NEW n \in Names, functions[n] # Nothing, FnFree(n),
         UNCHANGED proxy_mailboxes
  PROVE  TablesInv'
<1> DEFINE P == {functions[n].proxy} \ {Nothing}
<1>1. /\ functions[n] # Nothing
      /\ DisconnectAll(StillThere(P))
      /\ functions' = [functions EXCEPT ![n].freed = TRUE]
      /\ UNCHANGED proxy_mailboxes
  BY DEF FnFree
<1>2. functions[n] \in [proxy : Addresses \cup {Nothing}, freed : BOOLEAN]
  BY <1>1 DEF TablesInv, ProxiesType
<1>3. ProxiesType'
  BY <1>1, <1>2 DEF TablesInv, ProxiesType
<1>4. \A m \in Names \ {n} : functions'[m] = functions[m]
  BY <1>1 DEF TablesInv, ProxiesType
<1>5. P \subseteq proxy_free_sync_ht'
  BY <1>1, DisconnectForgets DEF StillThere
<1>6. proxy_free_sync_ht \subseteq proxy_free_sync_ht' /\ entrusted' \subseteq entrusted
      /\ occupied' \subseteq occupied
  BY <1>1, DisconnectForgets
<1>7. Kept'
  <2> SUFFICES ASSUME NEW a \in entrusted'
               PROVE  a \in proxy_free_sync_ht' \/ InFunctions(a)' \/ InMailboxes(a)'
    BY DEF Kept
  <2>1. a \in proxy_free_sync_ht \/ InFunctions(a) \/ InMailboxes(a)
    BY <1>6 DEF TablesInv, Kept
  <2>2. ASSUME InFunctions(a) PROVE a \in proxy_free_sync_ht' \/ InFunctions(a)'
    <3>1. PICK m \in Names : InUse(m) /\ functions[m].proxy = a
      BY <2>2 DEF InFunctions
    <3>2. CASE m = n /\ a # Nothing
      BY <1>5, <3>1, <3>2
    <3>3. CASE m # n
      BY <1>4, <3>1, <3>3 DEF InFunctions, InUse
    <3>4. a # Nothing
      BY <1>6, RegistryAssumption DEF TablesInv, RegistryAssumption
    <3> QED BY <3>2, <3>3, <3>4
  <2> QED BY <1>1, <1>6, <2>1, <2>2 DEF InMailboxes
<1> QED BY <1>1, <1>3, <1>6, <1>7 DEF TablesInv

LEMMA RemoveProxyMailboxKept ==
  ASSUME TablesInv, NEW k \in Kinds, NEW n \in Names,
         RemoveProxyMailbox(k, n)
  PROVE  TablesInv'
<1> DEFINE P == {proxy_mailboxes[k][n]}
           A == StillThere(P)
<1>1. /\ DisconnectAll(A)
      /\ proxy_mailboxes' = IF A = {} THEN proxy_mailboxes
                            ELSE [proxy_mailboxes EXCEPT ![k][n] = Nothing]
      /\ UNCHANGED functions
  BY DEF RemoveProxyMailbox
<1>2. P \subseteq proxy_free_sync_ht'
  BY <1>1, DisconnectForgets DEF StillThere
<1>3. proxy_free_sync_ht \subseteq proxy_free_sync_ht' /\ entrusted' \subseteq entrusted
      /\ occupied' \subseteq occupied
  BY <1>1, DisconnectForgets
<1>4. proxy_mailboxes' \in {proxy_mailboxes,
                           [proxy_mailboxes EXCEPT ![k][n] = Nothing]}
  BY <1>1
<1>5. ProxiesType'
  BY <1>1, <1>4, TablesTyped DEF TablesInv, ProxiesType
<1>6. \A l \in Kinds, m \in Names :
        (l = k /\ m = n) \/ proxy_mailboxes'[l][m] = proxy_mailboxes[l][m]
  BY ONLY <1>4, TablesInv, k \in Kinds, n \in Names DEF TablesInv, ProxiesType
<1>7. Kept'
  <2> SUFFICES ASSUME NEW a \in entrusted'
               PROVE  a \in proxy_free_sync_ht' \/ InFunctions(a)' \/ InMailboxes(a)'
    BY DEF Kept
  <2>1. a \in proxy_free_sync_ht \/ InFunctions(a) \/ InMailboxes(a)
    BY <1>3 DEF TablesInv, Kept
  <2>2. InMailboxes(a) => a \in proxy_free_sync_ht' \/ InMailboxes(a)'
    BY <1>2, <1>6 DEF InMailboxes
  <2> QED BY <1>1, <1>3, <2>1, <2>2 DEF InFunctions, InUse
<1> QED BY <1>1, <1>3, <1>5, <1>7 DEF TablesInv

\* Uses and new clients change nothing of it.
LEMMA QuietKept ==
  ASSUME TablesInv,
         UNCHANGED <<entrusted, functions, proxy_mailboxes, proxy_free_sync_ht>>,
         occupied' \subseteq Addresses
  PROVE  TablesInv'
BY DEF TablesInv, ProxiesType, Kept, InFunctions, InMailboxes, InUse

LEMMA ServingKept ==
  ASSUME Replaces = FALSE, TablesInv, Serving
  PROVE  TablesInv'
<1>1. CASE \E a \in Addresses : NewClient(a)
  BY <1>1, QuietKept DEF NewClient, TablesInv
<1>2. CASE \E n \in Names : Call(n)
  BY <1>2, QuietKept DEF Call, TablesInv
<1>3. CASE \E n \in Names : Unregister(n)
  BY <1>3, FnFreeKept DEF Unregister
<1>4. CASE \E n \in Names, p \in Addresses \cup {Nothing} : Register(n, p)
  BY <1>4, RegisterKept
<1>5. CASE \E k \in Kinds, n \in Names : UseMailbox(k, n)
  BY <1>5, QuietKept DEF UseMailbox, TablesInv
<1>6. CASE \E k \in Kinds, n \in Names : RemoveProxyMailbox(k, n)
  BY <1>6, RemoveProxyMailboxKept
<1>7. CASE \E k \in Kinds, n \in Names, a \in Addresses : NewProxyMailbox(k, n, a)
  BY <1>7, NewProxyMailboxKept
<1> QED BY <1>1, <1>2, <1>3, <1>4, <1>5, <1>6, <1>7 DEF Serving

-----------------------------------------------------------------------------
(* The loops of drpc_server_free *)

LEMMA FreeFunctionKept ==
  ASSUME KeptInv, NEW n \in Names, FreeFunction(n)
  PROVE  KeptInv'
<1>1. /\ loop = "functions" /\ loop' = loop
      /\ functions[n] # Nothing
      /\ FnFree(n)
      /\ passed' = passed \cup {n}
      /\ UNCHANGED proxy_mailboxes
  BY DEF FreeFunction
<1>2. TablesInv'
  BY <1>1, FnFreeKept DEF KeptInv
<1>3. functions' = [functions EXCEPT ![n].freed = TRUE]
  BY <1>1 DEF FnFree
<1>4. functions[n] \in [proxy : Addresses \cup {Nothing}, freed : BOOLEAN]
  BY <1>1 DEF KeptInv, TablesInv, ProxiesType
<1>5. \A m \in Names :
        functions'[m] = IF m = n THEN [functions[n] EXCEPT !.freed = TRUE]
                        ELSE functions[m]
  BY <1>3 DEF KeptInv, TablesInv, ProxiesType
<1>6. functions'[n].freed
  BY <1>4, <1>5
<1>7. \A m \in passed \cup {n} : functions'[m] # Nothing => functions'[m].freed
  BY <1>1, <1>5, <1>6 DEF KeptInv, Passing
<1>8. Passing' /\ Emptied'
  BY <1>1, <1>7 DEF Passing, Emptied, Kinds
<1> QED BY <1>1, <1>2, <1>8 DEF KeptInv

LEMMA FreeProxyMailboxKept ==
  ASSUME KeptInv, NEW n \in Names, FreeProxyMailbox(n)
  PROVE  KeptInv'
<1>1. /\ loop \in Kinds
      /\ DisconnectAll(StillThere({proxy_mailboxes[loop][n]}))
      /\ passed' = passed \cup {n}
      /\ UNCHANGED <<functions, proxy_mailboxes, loop>>
  BY DEF FreeProxyMailbox
<1>2. /\ entrusted' \subseteq entrusted /\ occupied' \subseteq occupied
      /\ proxy_free_sync_ht \subseteq proxy_free_sync_ht'
      /\ proxy_mailboxes[loop][n] \in proxy_free_sync_ht'
  BY <1>1, DisconnectForgets DEF StillThere
<1>3. TablesInv'
  BY <1>1, <1>2 DEF KeptInv, TablesInv, ProxiesType, Kept, InFunctions, InMailboxes,
     InUse
<1>4. Passing' /\ Emptied'
  BY <1>1, <1>2 DEF KeptInv, Passing, Emptied, Kinds
<1> QED BY <1>1, <1>3, <1>4 DEF KeptInv

\* All entries are passed: what the table mentions is recorded.
LEMMA FunctionsEndKept ==
  ASSUME KeptInv, FunctionsEnd
  PROVE  KeptInv'
<1>1. /\ loop = "functions" /\ loop' = "recv"
      /\ \A n \in Names : functions[n] # Nothing => n \in passed
      /\ passed' = {}
      /\ functions' = [n \in Names |-> Nothing]
      /\ UNCHANGED <<occupied, entrusted, proxy_mailboxes, proxy_free_sync_ht>>
  BY DEF FunctionsEnd
<1>2. \A a : ~InFunctions(a)
  BY <1>1 DEF KeptInv, Passing, InFunctions, InUse
<1>3. Kept'
  BY <1>1, <1>2 DEF KeptInv, TablesInv, Kept, InMailboxes
<1>4. TablesInv'
  BY <1>1, <1>3 DEF KeptInv, TablesInv, ProxiesType
<1>5. Passing' /\ Emptied'
  BY <1>1 DEF Passing, Emptied
<1> QED BY <1>1, <1>4, <1>5 DEF KeptInv

LEMMA MailboxesEndKept ==
  ASSUME KeptInv, MailboxesEnd
  PROVE  KeptInv'
<1>1. /\ loop \in Kinds
      /\ loop' = IF loop = "recv" THEN "send" ELSE "over"
      /\ \A n \in Names : proxy_mailboxes[loop][n] # Nothing => n \in passed
      /\ passed' = {}
      /\ proxy_mailboxes' =
           [proxy_mailboxes EXCEPT ![loop] = [n \in Names |-> Nothing]]
      /\ UNCHANGED <<occupied, entrusted, functions, proxy_free_sync_ht>>
  BY DEF MailboxesEnd
<1>2. /\ proxy_mailboxes' \in [Kinds -> [Names -> Addresses \cup {Nothing}]]
      /\ \A k \in Kinds, n \in Names :
           proxy_mailboxes'[k][n] = IF k = loop THEN Nothing ELSE proxy_mailboxes[k][n]
  BY <1>1 DEF KeptInv, TablesInv, ProxiesType
<1>3. ASSUME NEW a \in entrusted, InMailboxes(a)
      PROVE  a \in proxy_free_sync_ht \/ InMailboxes(a)'
  <2>1. PICK k \in Kinds, n \in Names : proxy_mailboxes[k][n] = a
    BY <1>3 DEF InMailboxes
  <2>2. a # Nothing
    BY RegistryAssumption DEF KeptInv, TablesInv, RegistryAssumption
  <2>3. CASE k = loop
    BY <1>1, <2>1, <2>2, <2>3 DEF KeptInv, Passing
  <2>4. CASE k # loop
    BY <1>2, <2>1, <2>4 DEF InMailboxes
  <2> QED BY <2>3, <2>4
<1>4. Kept'
  BY <1>1, <1>3 DEF KeptInv, TablesInv, Kept, InFunctions, InUse
<1>5. TablesInv'
  BY <1>1, <1>2, <1>4 DEF KeptInv, TablesInv, ProxiesType
<1>6. Passing'
  BY <1>1 DEF Passing
<1>7. Emptied'
  BY <1>1, <1>2 DEF KeptInv, Emptied, Kinds
<1> QED BY <1>1, <1>5, <1>6, <1>7 DEF KeptInv

LEMMA NextKeptInv ==
  ASSUME Replaces = FALSE
  PROVE  KeptInv /\ [RegistryNext]_registryVars => KeptInv'
<1> SUFFICES ASSUME KeptInv, [RegistryNext]_registryVars PROVE KeptInv'
  OBVIOUS
<1>1. CASE UNCHANGED registryVars
  BY <1>1, QuietKept DEF registryVars, KeptInv, TablesInv, Passing, Emptied
<1>2. CASE loop = "none" /\ Serving
  <2>1. TablesInv'
    BY <1>2, ServingKept DEF KeptInv
  <2>2. UNCHANGED <<loop, passed>>
    BY <1>2 DEF Serving, NewClient, Call, Unregister, Register, UseMailbox,
       RemoveProxyMailbox, NewProxyMailbox
  <2> QED BY <1>2, <2>1, <2>2 DEF KeptInv, Passing, Emptied, Kinds
<1>3. CASE FreeEntries
  <2>1. UNCHANGED <<occupied, entrusted, functions, proxy_mailboxes,
                    proxy_free_sync_ht>>
    BY <1>3 DEF FreeEntries
  <2> QED BY <1>3, <2>1, QuietKept DEF FreeEntries, KeptInv, TablesInv, Passing,
             Emptied, Kinds
<1>4. CASE FreeingEntries
  <2>1. CASE \E n \in Names : FreeFunction(n)
    BY <2>1, FreeFunctionKept
  <2>2. CASE \E n \in Names : FreeProxyMailbox(n)
    BY <2>2, FreeProxyMailboxKept
  <2> QED BY <1>4, <2>1, <2>2, FunctionsEndKept, MailboxesEndKept DEF FreeingEntries
<1> QED BY <1>1, <1>2, <1>3, <1>4 DEF RegistryNext, Step

\* While no name in use is registered again, drpc_server_free leaves no proxy
\* client connected that the server was given, unless its address had been
\* recorded for an earlier client.
THEOREM NoClientForgotten ==
  ASSUME Replaces = FALSE
  PROVE  RegistrySpec => []FreedUnlessRecorded
<1>1. KeptInv => FreedUnlessRecorded
  <2> SUFFICES ASSUME KeptInv, loop = "over", NEW a \in entrusted
               PROVE  a \in proxy_free_sync_ht
    BY DEF FreedUnlessRecorded
  <2>1. a # Nothing
    BY RegistryAssumption DEF KeptInv, TablesInv, RegistryAssumption
  <2>2. ~InFunctions(a) /\ ~InMailboxes(a)
    BY <2>1 DEF KeptInv, Emptied, InFunctions, InUse, InMailboxes, Kinds
  <2> QED BY <2>2 DEF KeptInv, TablesInv, Kept
<1> QED BY <1>1, InitKeptInv, NextKeptInv, PTL DEF RegistrySpec
=============================================================================
