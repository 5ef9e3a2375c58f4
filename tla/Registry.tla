------------------------------- MODULE Registry -------------------------------
(***************************************************************************)
(* What a drpc_server holds for its application: the functions it has      *)
(* registered, and the proxy clients, through which functions and          *)
(* mailboxes of other servers are offered.  One proxy client may stand     *)
(* behind any number of functions and mailboxes; the server disconnects    *)
(* it, and frees it with that, when the first of them goes, and remembers  *)
(* its address in proxy_free_sync_ht so as not to do it again.             *)
(*                                                                         *)
(* The tables hold pointers, so a proxy client is named here by its        *)
(* address, which another client may be given once it is free.  The        *)
(* application keeps to the header: it never disconnects a proxy client    *)
(* itself, and does nothing more once it calls drpc_server_free, whose     *)
(* loops over the three tables are the last steps.  They are behind the    *)
(* join of all connections, so that nobody uses the tables meanwhile.      *)
(***************************************************************************)
EXTENDS Naturals, FiniteSets

CONSTANTS
  Names,            \* names of functions and of mailboxes
  Addresses,        \* where proxy clients may be allocated
  Nothing,          \* no address, no function
  Unregisters,      \* the application uses drpc_server_unregister_fn
  Replaces,         \* it may register a name that is in use
  Reuses,           \* malloc may return the address of a disconnected client
  MaxClients        \* bound: proxy clients made in one run

ASSUME RegistryAssumption ==
  /\ Nothing \notin Addresses
  /\ Nothing \notin [proxy : Addresses \cup {Nothing}, freed : BOOLEAN]
  /\ Unregisters \in BOOLEAN
  /\ Replaces \in BOOLEAN
  /\ Reuses \in BOOLEAN
  /\ MaxClients \in Nat

VARIABLES
  occupied,            \* the addresses at which there is a proxy client
  entrusted,           \* history: those whose client the server has been given
  clients,             \* history: how many clients have been made
  functions,           \* server->functions
  proxy_mailboxes,     \* proxy_recv_mailboxes and proxy_send_mailboxes
  proxy_free_sync_ht,  \* the addresses recorded as disconnected
  loop,                \* the table drpc_server_free walks: "none" before,
                       \* "over" when it has returned
  passed,              \* the names whose entries that loop has passed
  misuses              \* history: what was used, or freed, after being freed

registryVars == <<occupied, entrusted, clients, functions, proxy_mailboxes,
                  proxy_free_sync_ht, loop, passed, misuses>>

Kinds == {"recv", "send"}

RegistryInit ==
  /\ occupied = {}
  /\ entrusted = {}
  /\ clients = 0
  /\ functions = [n \in Names |-> Nothing]
  /\ proxy_mailboxes = [k \in Kinds |-> [n \in Names |-> Nothing]]
  /\ proxy_free_sync_ht = {}
  /\ loop = "none"
  /\ passed = {}
  /\ misuses = {}

\* drpc_client_disconnect on the clients at the addresses in A, each of which
\* is recorded first.
DisconnectAll(A) ==
  /\ proxy_free_sync_ht' = proxy_free_sync_ht \cup A
  /\ occupied' = occupied \ A
  /\ entrusted' = entrusted \ A

\* Mutant: whether the client has been disconnected already is not looked up.
StillThereUnchecked(A) == A

\* Of the addresses in A, those the server has not disconnected a client at.
StillThere(A) == A \ proxy_free_sync_ht

\* What freeing a client at each address in A, or using it, does wrong.
Wrong(A, what) == IF A \subseteq occupied THEN {} ELSE {what}

-----------------------------------------------------------------------------
(* Registration *)

\* The application makes a client to be a proxy.
NewClient(a) ==
  /\ clients < MaxClients
  /\ a \notin occupied
  /\ Reuses \/ a \notin proxy_free_sync_ht
  /\ occupied' = occupied \cup {a}
  /\ clients' = clients + 1
  /\ UNCHANGED <<entrusted, functions, proxy_mailboxes,
                 proxy_free_sync_ht, loop, passed, misuses>>

\* Function n is registered, and has not been unregistered.
InUse(n) == functions[n] # Nothing /\ ~functions[n].freed

\* drpc_server_register_fn (proxy is Nothing) and _register_proxy_fn.  A
\* function there was under that name is forgotten.
Register(n, proxy) ==
  /\ proxy \in occupied \cup {Nothing}
  /\ InUse(n) => Replaces
  /\ functions' = [functions EXCEPT ![n] = [proxy |-> proxy, freed |-> FALSE]]
  /\ entrusted' = entrusted \cup ({proxy} \ {Nothing})
  /\ UNCHANGED <<occupied, clients, proxy_mailboxes,
                 proxy_free_sync_ht, loop, passed, misuses>>

\* new_drpc_proxy_recv_mailbox, new_drpc_proxy_send_mailbox.
NewProxyMailbox(k, n, a) ==
  /\ a \in occupied
  /\ proxy_mailboxes[k][n] # Nothing => Replaces
  /\ proxy_mailboxes' = [proxy_mailboxes EXCEPT ![k][n] = a]
  /\ entrusted' = entrusted \cup {a}
  /\ UNCHANGED <<occupied, clients, functions,
                 proxy_free_sync_ht, loop, passed, misuses>>

-----------------------------------------------------------------------------
(* Use, by the executors of the server's connections *)

\* A call of function n.
Call(n) ==
  /\ functions[n] # Nothing
  /\ misuses' = misuses \cup
       IF functions[n].freed THEN {"freed function called"}
       ELSE Wrong({functions[n].proxy} \ {Nothing}, "freed client used")
  /\ UNCHANGED <<occupied, entrusted, clients, functions,
                 proxy_mailboxes, proxy_free_sync_ht, loop, passed>>

\* A request for a mailbox of another server.
UseMailbox(k, n) ==
  /\ proxy_mailboxes[k][n] # Nothing
  /\ misuses' = misuses \cup Wrong({proxy_mailboxes[k][n]}, "freed client used")
  /\ UNCHANGED <<occupied, entrusted, clients, functions,
                 proxy_mailboxes, proxy_free_sync_ht, loop, passed>>

-----------------------------------------------------------------------------
(* Removal *)

\* drpc_fn_free of function n, whose entry in the table stays: with a
\* proxy's callback its client is disconnected.
FnFree(n) ==
  LET A == StillThere({functions[n].proxy} \ {Nothing})
  IN  /\ DisconnectAll(A)
      /\ misuses' = misuses
           \cup (IF functions[n].freed THEN {"function freed twice"} ELSE {})
           \cup Wrong(A, "client freed twice")
      /\ functions' = [functions EXCEPT ![n].freed = TRUE]

\* drpc_server_unregister_fn.
Unregister(n) ==
  /\ Unregisters
  /\ functions[n] # Nothing
  /\ FnFree(n)
  /\ UNCHANGED <<clients, proxy_mailboxes, loop, passed>>

\* drpc_remove_proxy_recv_mailbox, drpc_remove_proxy_send_mailbox.  Nothing is
\* done, not even to the entry, if the client has been disconnected before.
RemoveProxyMailbox(k, n) ==
  /\ proxy_mailboxes[k][n] # Nothing
  /\ LET A == StillThere({proxy_mailboxes[k][n]})
     IN  /\ DisconnectAll(A)
         /\ misuses' = misuses \cup Wrong(A, "client freed twice")
         /\ proxy_mailboxes' = IF A = {} THEN proxy_mailboxes
                               ELSE [proxy_mailboxes EXCEPT ![k][n] = Nothing]
  /\ UNCHANGED <<clients, functions, loop, passed>>

-----------------------------------------------------------------------------
(* The end of drpc_server_free: one loop over each table, in the order its *)
(* slots happen to have, and the table is destroyed                        *)

FreeEntries ==
  /\ loop = "none"
  /\ loop' = "functions"
  /\ UNCHANGED <<occupied, entrusted, clients, functions, proxy_mailboxes,
                 proxy_free_sync_ht, passed, misuses>>

FreeFunction(n) ==
  /\ loop = "functions"
  /\ functions[n] # Nothing /\ n \notin passed
  /\ FnFree(n)
  /\ passed' = passed \cup {n}
  /\ UNCHANGED <<clients, proxy_mailboxes, loop>>

FunctionsEnd ==
  /\ loop = "functions"
  /\ \A n \in Names : functions[n] # Nothing => n \in passed
  /\ loop' = "recv" /\ passed' = {}
  /\ functions' = [n \in Names |-> Nothing]
  /\ UNCHANGED <<occupied, entrusted, clients, proxy_mailboxes,
                 proxy_free_sync_ht, misuses>>

\* Mutant: the client's address is not recorded.
FreeProxyMailboxUnrecorded(n) ==
  /\ loop \in Kinds
  /\ proxy_mailboxes[loop][n] # Nothing /\ n \notin passed
  /\ LET A == StillThere({proxy_mailboxes[loop][n]})
     IN  /\ occupied' = occupied \ A /\ entrusted' = entrusted \ A
         /\ misuses' = misuses \cup Wrong(A, "client freed twice")
  /\ passed' = passed \cup {n}
  /\ UNCHANGED <<clients, functions, proxy_mailboxes, proxy_free_sync_ht, loop>>

\* An entry of the loops over mailboxes: its client is looked up in
\* proxy_free_sync_ht, and if it is not there recorded and disconnected.
FreeProxyMailbox(n) ==
  /\ loop \in Kinds
  /\ proxy_mailboxes[loop][n] # Nothing /\ n \notin passed
  /\ LET A == StillThere({proxy_mailboxes[loop][n]})
     IN  /\ DisconnectAll(A)
         /\ misuses' = misuses \cup Wrong(A, "client freed twice")
  /\ passed' = passed \cup {n}
  /\ UNCHANGED <<clients, functions, proxy_mailboxes, loop>>

\* Mutant: there is no loop over the sender mailboxes.
MailboxesEndEarly ==
  /\ loop = "recv"
  /\ \A n \in Names : proxy_mailboxes["recv"][n] # Nothing => n \in passed
  /\ loop' = "over" /\ passed' = {}
  /\ UNCHANGED <<occupied, entrusted, clients, functions, proxy_mailboxes,
                 proxy_free_sync_ht, misuses>>

MailboxesEnd ==
  /\ loop \in Kinds
  /\ \A n \in Names : proxy_mailboxes[loop][n] # Nothing => n \in passed
  /\ loop' = IF loop = "recv" THEN "send" ELSE "over"
  /\ passed' = {}
  /\ proxy_mailboxes' = [proxy_mailboxes EXCEPT ![loop] = [n \in Names |-> Nothing]]
  /\ UNCHANGED <<occupied, entrusted, clients, functions, proxy_free_sync_ht,
                 misuses>>

-----------------------------------------------------------------------------
\* The server is gone, or the program's behaviour undefined.
Over == loop = "over" \/ misuses # {}

\* What happens before drpc_server_free comes to its loops.
Serving ==
  \/ \E a \in Addresses : NewClient(a)
  \/ \E n \in Names : Call(n) \/ Unregister(n)
  \/ \E n \in Names, p \in Addresses \cup {Nothing} : Register(n, p)
  \/ \E k \in Kinds, n \in Names :
       \/ UseMailbox(k, n)
       \/ RemoveProxyMailbox(k, n)
       \/ \E a \in Addresses : NewProxyMailbox(k, n, a)

FreeingEntries ==
  \/ \E n \in Names : FreeFunction(n) \/ FreeProxyMailbox(n)
  \/ FunctionsEnd \/ MailboxesEnd

Step == (loop = "none" /\ Serving) \/ FreeEntries \/ FreeingEntries

RegistryNext == (~Over /\ Step) \/ (Over /\ UNCHANGED registryVars)

RegistrySpec == RegistryInit /\ [][RegistryNext]_registryVars

-----------------------------------------------------------------------------
RegistryTypeOK ==
  /\ occupied \subseteq Addresses
  /\ entrusted \subseteq occupied
  /\ clients \in 0 .. MaxClients
  /\ functions \in [Names -> [proxy : Addresses \cup {Nothing}, freed : BOOLEAN]
                             \cup {Nothing}]
  /\ proxy_mailboxes \in [Kinds -> [Names -> Addresses \cup {Nothing}]]
  /\ proxy_free_sync_ht \subseteq Addresses
  /\ loop \in {"none", "functions", "over"} \cup Kinds
  /\ passed \subseteq Names

\* No proxy client is disconnected, and with that freed, twice, although
\* functions and mailboxes share it, and each of them disconnects it when it
\* is removed or drpc_server_free comes to it: what keeps them from it is only
\* that each records the address before, and looks it up first.
DisconnectedOnce == "client freed twice" \notin misuses

\* drpc_server_free leaves no client connected that the server was given,
\* unless its address had been recorded before, for a client that was there
\* earlier; provided that no name in use is registered again.
FreedUnlessRecorded == loop = "over" => entrusted \subseteq proxy_free_sync_ht
=============================================================================
