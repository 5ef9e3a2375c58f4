------------------------------- MODULE Mailbox -------------------------------
(***************************************************************************)
(* The mailboxes of drpc_server.c: one receiver mailbox, which clients     *)
(* fill and the server's application empties, and one sender mailbox, the  *)
(* other way round.  Each client's requests are handled by the executor of *)
(* its own connection, so that several executors work on one d_queue.  The *)
(* queue locks each push and each pop, but its length is read without the  *)
(* lock, before a loop of that many pops.  d_queue_copy, which the         *)
(* application calls to look at a mailbox, is such a loop too: it pushes   *)
(* back what it has popped.                                                *)
(*                                                                         *)
(* The mailboxes are either the clients' server's own, or another          *)
(* server's: then each request is forwarded through one drpc_client, whose *)
(* mutex all executors share, and the application is the other server's.   *)
(* A forwarded request that fails does so before it is sent or after it    *)
(* was handled; requests a client gave up on are the subject of module     *)
(* Session.  The mailboxes are not freed: nothing in the code keeps a      *)
(* handler from using a mailbox that is freed.                             *)
(***************************************************************************)
EXTENDS Naturals, SequencesExt

CONSTANTS
  Clients,        \* the clients, each with its connection and executor
  NoClient,       \* the owner of the proxy client's mutex when it is free
  NULL,           \* what queue_pop returns from an empty queue
  MaxMessages,    \* bound: messages made in one run
  MaxBatch,       \* bound: messages in one drpc_client_mailbox_send
  MaxCopies       \* bound: calls of d_queue_copy

ASSUME MailboxAssumption ==
  /\ NoClient \notin Clients
  /\ MaxMessages \in Nat /\ MaxBatch \in Nat /\ MaxCopies \in Nat
  /\ NULL \notin 1 .. MaxMessages

VARIABLES
  proxied,        \* the mailboxes are another server's
  recvBox,        \* the queue of the receiver mailbox
  sendBox,        \* the queue of the sender mailbox
  copier,         \* the d_queue_copy of the application
  rotated,        \* history: the mailboxes others used during a d_queue_copy
  client_stop,    \* proxy_client->client_stop
  proxyMutex,     \* the client whose executor holds its connection_mutex
  gaveUp,         \* history: the messages whose request found client_stop set
  at,             \* where each client's request is
  asks,           \* "recv": drpc_mailbox_recv, "send": drpc_mailbox_send
  left,           \* how many more rounds the loop over the queue has
  hand,           \* the messages of the request or of its reply
  delivered,      \* per client, the queue its receives fill
  taken,          \* what the application has popped from recvBox
  made,           \* history: per message, the client that made it or NoClient
  lost            \* history: the messages that are gone, by what was reported

application == <<copier, taken>>
proxy == <<client_stop, proxyMutex, gaveUp>>
requests == <<at, asks, left, hand, delivered>>
vars == <<proxied, recvBox, sendBox, rotated, application, proxy, requests,
          made, lost>>

Message == 1 .. MaxMessages
Verdicts == {"ok", "failed"}

NotCopying(n) == [box |-> "none", left |-> 0, element |-> <<>>, new |-> <<>>,
                  snapshot |-> <<>>, calls |-> n]

Init ==
  /\ proxied \in BOOLEAN
  /\ recvBox = <<>> /\ sendBox = <<>>
  /\ copier = NotCopying(0)
  /\ rotated = {}
  /\ client_stop = 0
  /\ proxyMutex = NoClient
  /\ gaveUp = {}
  /\ at = [c \in Clients |-> "idle"]
  /\ asks = [c \in Clients |-> "recv"]
  /\ left = [c \in Clients |-> 0]
  /\ hand = [c \in Clients |-> <<>>]
  /\ delivered = [c \in Clients |-> <<>>]
  /\ taken = <<>>
  /\ made = <<>>
  /\ lost = [v \in Verdicts |-> {}]

Lose(verdict, gone) ==
  lost' = [lost EXCEPT ![verdict] = @ \cup (ToSet(gone) \ {NULL})]

-----------------------------------------------------------------------------
(* The application of the server that has the mailboxes *)

\* d_queue_push on the sender mailbox.
AppPush ==
  /\ copier.box = "none"
  /\ Len(made) < MaxMessages
  /\ made' = Append(made, NoClient)
  /\ sendBox' = Append(sendBox, Len(made) + 1)
  /\ UNCHANGED <<proxied, recvBox, rotated, application, proxy, requests, lost>>

\* d_queue_pop on the receiver mailbox, with the type its message has.
AppPop ==
  /\ copier.box = "none"
  /\ recvBox # <<>>
  /\ taken' = Append(taken, Head(recvBox))
  /\ recvBox' = Tail(recvBox)
  /\ UNCHANGED <<proxied, copier, sendBox, rotated, proxy, requests, made,
                 lost>>

Box(b) == IF b = "recv" THEN recvBox ELSE sendBox

\* Mailbox b becomes s.
BoxBecomes(b, s) ==
  /\ recvBox' = IF b = "recv" THEN s ELSE recvBox
  /\ sendBox' = IF b = "send" THEN s ELSE sendBox

\* d_queue_copy counts the messages,
CopyCount(b) ==
  /\ copier.box = "none" /\ Box(b) # <<>>
  /\ copier.calls < MaxCopies
  /\ copier' = [NotCopying(copier.calls + 1) EXCEPT
                  !.box = b, !.left = Len(Box(b)), !.snapshot = Box(b)]
  /\ UNCHANGED <<proxied, recvBox, sendBox, rotated, taken, proxy,
                 requests, made, lost>>

\* and that many times pops one, which it copies (without a message its
\* assertion aborts the program, with all its threads),
CopyPop(b) ==
  /\ copier.box = b /\ copier.left > 0 /\ copier.element = <<>>
  /\ IF Box(b) = <<>>
     THEN /\ copier' = [copier EXCEPT !.box = "aborted", !.snapshot = <<b>>]
          /\ at' = [c \in Clients |-> "aborted"]
          /\ UNCHANGED <<recvBox, sendBox>>
     ELSE /\ copier' = [copier EXCEPT !.element = <<Head(Box(b))>>,
                                      !.new = Append(@, Head(Box(b)))]
          /\ BoxBecomes(b, Tail(Box(b)))
          /\ UNCHANGED at
  /\ UNCHANGED <<proxied, rotated, taken, proxy, asks, left, hand, delivered,
                 made, lost>>

\* Mutant: the loop asks for the length again in every round.
CopyPushRecounts(b) ==
  /\ copier.box = b /\ copier.element # <<>>
  /\ BoxBecomes(b, Box(b) \o copier.element)
  /\ copier' = [copier EXCEPT !.element = <<>>,
                  !.left = Len(Box(b)) + 1 - Len(copier.new)]
  /\ UNCHANGED <<proxied, rotated, taken, proxy, requests, made, lost>>

\* and pushes it back.
CopyPush(b) ==
  /\ copier.box = b /\ copier.element # <<>>
  /\ BoxBecomes(b, Box(b) \o copier.element)
  /\ copier' = [copier EXCEPT !.element = <<>>, !.left = @ - 1]
  /\ UNCHANGED <<proxied, rotated, taken, proxy, requests, made, lost>>

\* The application has its copy, and frees it.
CopyEnd ==
  /\ copier.box \in {"recv", "send"} /\ copier.left = 0
  /\ copier' = NotCopying(copier.calls)
  /\ UNCHANGED <<proxied, recvBox, sendBox, rotated, taken, proxy,
                 requests, made, lost>>

\* The proxy client's ping thread gives up.
ProxyStops ==
  /\ proxied /\ copier.box # "aborted"
  /\ client_stop = 0
  /\ client_stop' = 1
  /\ UNCHANGED <<proxied, recvBox, sendBox, rotated, application, proxyMutex,
                 gaveUp, requests, made, lost>>

-----------------------------------------------------------------------------
(* A client's request, up to its handler *)

\* drpc_client_mailbox_send.
Put(c) ==
  /\ at[c] = "idle"
  /\ \E n \in 1 .. MaxBatch :
       /\ Len(made) + n <= MaxMessages
       /\ hand' = [hand EXCEPT ![c] = [k \in 1 .. n |-> Len(made) + k]]
       /\ made' = made \o [k \in 1 .. n |-> c]
  /\ asks' = [asks EXCEPT ![c] = "recv"]
  /\ at' = [at EXCEPT ![c] = IF proxied THEN "check" ELSE "count"]
  /\ UNCHANGED <<proxied, recvBox, sendBox, rotated, application, proxy, left,
                 delivered, lost>>

\* drpc_client_mailbox_recv.
Get(c) ==
  /\ at[c] = "idle"
  /\ asks' = [asks EXCEPT ![c] = "send"]
  /\ at' = [at EXCEPT ![c] = IF proxied THEN "check" ELSE "count"]
  /\ UNCHANGED <<proxied, recvBox, sendBox, rotated, application, proxy, left,
                 hand, delivered, made, lost>>

\* The request of c ends with verdict; the messages in gone exist no more.
Finish(c, verdict, gone) ==
  /\ at' = [at EXCEPT ![c] = "idle"]
  /\ hand' = [hand EXCEPT ![c] = <<>>]
  /\ Lose(verdict, gone)

-----------------------------------------------------------------------------
(* The proxy *)

\* A proxy client that has stopped is brought back by the fail handler, or
\* the request is refused; without a handler (the application may set and
\* reset it at any time) nothing is done about it.
CheckProxy(c) ==
  /\ at[c] = "check"
  /\ \/ /\ at' = [at EXCEPT ![c] = "call"]
        /\ client_stop' \in {0, client_stop}
        /\ UNCHANGED <<hand, lost>>
     \/ /\ client_stop = 1
        /\ Finish(c, "failed", hand[c])
        /\ UNCHANGED client_stop
  /\ UNCHANGED <<proxied, recvBox, sendBox, rotated, application, proxyMutex,
                 gaveUp, asks, left, delivered, made>>

\* The proxied call tests client_stop without the mutex, and gives up with
\* DRPC_CLIENTSTOPPED.  The switch on its result has no case for that, so that
\* the executor answers drpc_ok.  Messages the request brought are unlinked
\* from it by then, and nobody frees them.
CallTest(c) ==
  /\ at[c] = "call"
  /\ IF client_stop = 1
       THEN /\ at' = [at EXCEPT ![c] = "reply"]
            /\ gaveUp' = gaveUp \cup ToSet(hand[c])
       ELSE /\ at' = [at EXCEPT ![c] = "lock"]
            /\ UNCHANGED gaveUp
  /\ UNCHANGED <<proxied, recvBox, sendBox, rotated, application, client_stop,
                 proxyMutex, asks, left, hand, delivered, made, lost>>

\* Mutant: the call does not lock.
CallProxyUnlocked(c) ==
  /\ at[c] = "lock"
  /\ at' = [at EXCEPT ![c] = "count"]
  /\ UNCHANGED <<proxied, recvBox, sendBox, rotated, application, proxy, asks,
                 left, hand, delivered, made, lost>>

\* It takes the mutex and sends the request.
CallProxy(c) ==
  /\ at[c] = "lock"
  /\ proxyMutex = NoClient
  /\ client_stop = 0
  /\ proxyMutex' = c
  /\ at' = [at EXCEPT ![c] = "count"]
  /\ UNCHANGED <<proxied, recvBox, sendBox, rotated, application, client_stop,
                 gaveUp, asks, left, hand, delivered, made, lost>>

\* The request cannot be sent: the proxy client, or its server, has closed.
CallFails(c) ==
  /\ at[c] = "lock"
  /\ proxyMutex = NoClient
  /\ Finish(c, "failed", hand[c])
  /\ UNCHANGED <<proxied, recvBox, sendBox, rotated, application, proxy, asks,
                 left, delivered, made>>

-----------------------------------------------------------------------------
(* The handlers, in the server that has the mailboxes *)

\* Mutant: the loop over the messages brought, which pops them, asks for the
\* length in every round, and so moves half of them.
CountInEveryRound(c) ==
  /\ at[c] = "count"
  /\ left' = [left EXCEPT ![c] = IF asks[c] = "recv" THEN (Len(hand[c]) + 1) \div 2
                                 ELSE Len(sendBox)]
  /\ at' = [at EXCEPT ![c] = "move"]
  /\ UNCHANGED <<proxied, recvBox, sendBox, rotated, application, proxy, asks,
                 hand, delivered, made, lost>>

\* d_queue_len: of the messages brought, or of the mailbox, without its lock.
Count(c) ==
  /\ at[c] = "count"
  /\ left' = [left EXCEPT ![c] = IF asks[c] = "recv" THEN Len(hand[c])
                                 ELSE Len(sendBox)]
  /\ at' = [at EXCEPT ![c] = "move"]
  /\ UNCHANGED <<proxied, recvBox, sendBox, rotated, application, proxy, asks,
                 hand, delivered, made, lost>>

\* Another thread has used the mailbox the application is copying.
Disturb(b) == rotated' = rotated \cup ({b} \cap {copier.box})

\* Mutant: the messages are taken from the far end of the request's queue.
MovePutBackwards(c) ==
  /\ at[c] = "move" /\ asks[c] = "recv" /\ left[c] > 0
  /\ left' = [left EXCEPT ![c] = @ - 1]
  /\ recvBox' = Append(recvBox, Last(hand[c]))
  /\ hand' = [hand EXCEPT ![c] = Front(@)]
  /\ Disturb("recv")
  /\ UNCHANGED <<proxied, sendBox, application, proxy, at, asks, delivered, made,
                 lost>>

\* One round of drpc_handle_mailbox_recv's loop.
MovePut(c) ==
  /\ at[c] = "move" /\ asks[c] = "recv" /\ left[c] > 0
  /\ left' = [left EXCEPT ![c] = @ - 1]
  /\ recvBox' = Append(recvBox, Head(hand[c]))
  /\ hand' = [hand EXCEPT ![c] = Tail(@)]
  /\ Disturb("recv")
  /\ UNCHANGED <<proxied, sendBox, application, proxy, at, asks, delivered, made,
                 lost>>

\* Mutant: the message is looked at and stays in the mailbox.
MoveGetPeeks(c) ==
  /\ at[c] = "move" /\ asks[c] = "send" /\ left[c] > 0
  /\ left' = [left EXCEPT ![c] = @ - 1]
  /\ sendBox # <<>>
  /\ hand' = [hand EXCEPT ![c] = Append(@, Head(sendBox))]
  /\ Disturb("send")
  /\ UNCHANGED <<proxied, recvBox, sendBox, application, proxy, at, asks,
                 delivered, made, lost>>

\* One round of drpc_handle_mailbox_send's loop: what queue_pop returns is
\* pushed, even if it is NULL because another executor took the last message.
MoveGet(c) ==
  /\ at[c] = "move" /\ asks[c] = "send" /\ left[c] > 0
  /\ left' = [left EXCEPT ![c] = @ - 1]
  /\ IF sendBox = <<>>
       THEN /\ hand' = [hand EXCEPT ![c] = Append(@, NULL)]
            /\ UNCHANGED sendBox
       ELSE /\ hand' = [hand EXCEPT ![c] = Append(@, Head(sendBox))]
            /\ sendBox' = Tail(sendBox)
  /\ Disturb("send")
  /\ UNCHANGED <<proxied, recvBox, application, proxy, at, asks, delivered, made,
                 lost>>

\* Mutant: the proxied call returns without unlocking.
MovedStillLocked(c) ==
  /\ at[c] = "move" /\ left[c] = 0
  /\ at' = [at EXCEPT ![c] = "reply"]
  /\ UNCHANGED <<proxied, recvBox, sendBox, rotated, application, proxy, asks,
                 left, hand, delivered, made, lost>>

\* The loop is over.  A proxied call has its reply and unlocks.
Moved(c) ==
  /\ at[c] = "move" /\ left[c] = 0
  /\ at' = [at EXCEPT ![c] = "reply"]
  /\ proxyMutex' = NoClient
  /\ UNCHANGED <<proxied, recvBox, sendBox, rotated, application, client_stop,
                 gaveUp, asks, left, hand, delivered, made, lost>>

-----------------------------------------------------------------------------
(* The reply *)

\* drpc_ok reaches the client, which moves the messages it asked for to its
\* own queue.  What it sent is with the mailbox, or nowhere any more.
Deliver(c) ==
  /\ at[c] = "reply"
  /\ IF asks[c] = "send"
       THEN /\ delivered' = [delivered EXCEPT ![c] = @ \o hand[c]]
            /\ Finish(c, "ok", <<>>)
       ELSE /\ Finish(c, "ok", hand[c])
            /\ UNCHANGED delivered
  /\ UNCHANGED <<proxied, recvBox, sendBox, rotated, application, proxy, asks,
                 left, made>>

\* The reply is not received, by the client or by the proxied call: whatever
\* it carries is freed with it.
ReplyLost(c) ==
  /\ at[c] = "reply"
  /\ Finish(c, "failed", hand[c])
  /\ UNCHANGED <<proxied, recvBox, sendBox, rotated, application, proxy, asks,
                 left, delivered, made>>

-----------------------------------------------------------------------------
Handling(c) ==
  \/ CheckProxy(c) \/ CallTest(c) \/ CallProxy(c) \/ CallFails(c)
  \/ Count(c) \/ MovePut(c) \/ MoveGet(c) \/ Moved(c)
  \/ Deliver(c) \/ ReplyLost(c)

Application ==
  \/ AppPush \/ AppPop \/ CopyEnd
  \/ \E b \in {"recv", "send"} :
       CopyCount(b) \/ CopyPop(b) \/ CopyPush(b)

Next ==
  \/ Application \/ ProxyStops
  \/ \E c \in Clients : Put(c) \/ Get(c) \/ Handling(c)

Spec == Init /\ [][Next]_vars

(***************************************************************************)
(* Every executor keeps running, and so does whoever holds the proxy       *)
(* client's mutex; a waiting executor gets the mutex in the end, as the    *)
(* requests that compete for it are finitely many at a time and each one's *)
(* client waits for its reply before it makes another.                     *)
(***************************************************************************)
FairSpec == Spec /\ \A c \in Clients : SF_vars(Handling(c))

-----------------------------------------------------------------------------
\* Where messages are: in a mailbox, with the copier or the application, in a
\* client's request or its own queue, or lost.
Places == ({"recv", "send", "element", "taken"} \X {NoClient})
            \cup ({"hand", "delivered"} \X Clients) \cup ({"lost"} \X Verdicts)
Held(p) ==
  CASE p[1] = "recv" -> recvBox
    [] p[1] = "send" -> sendBox
    [] p[1] = "element" -> copier.element
    [] p[1] = "taken" -> taken
    [] p[1] = "hand" -> hand[p[2]]
    [] p[1] = "delivered" -> delivered[p[2]]
    [] p[1] = "lost" -> [m \in lost[p[2]] |-> m]
Spots(m) ==
  UNION {{<<p, k>> : k \in {i \in DOMAIN Held(p) : Held(p)[i] = m}} : p \in Places}

\* Every message made is in exactly one place: no interleaving of handlers,
\* application and failures duplicates one, or drops one without a trace
\* ("it may change order but we should keep content", drpc_queue.c:486).
Conserved ==
  /\ copier.box \in {"none", "recv", "send", "aborted"}
  /\ at \in [Clients -> {"idle", "check", "call", "lock", "count",
                         "move", "reply", "aborted"}]
  /\ \A m \in DOMAIN made : Cardinality(Spots(m)) = 1

\* d_queue holds no NULL, as the comment of the assertion in d_queue_copy
\* says (drpc_queue.c:448), when one thread empties it at a time: a proxy does,
\* through its client's mutex.
NoPhantom ==
  proxied /\ "send" \notin rotated
    => \A c \in Clients : NULL \notin ToSet(delivered[c])

\* A request answered by drpc_ok has lost no message: "All messages sent by
\* client to mailbox mailbox_name will be redirected to server connected via
\* client client" (drpc_server.h:184).  The code does not keep this when the
\* proxy client has stopped.
OkMeansDelivered == lost["ok"] = {}

\* It does in all other cases: what is lost although drpc_ok was answered was
\* brought by a request whose executor found the proxy client stopped.  The
\* loops move all of it, whoever else uses the mailbox, and a reply that is
\* lost with what it carries is noticed.
OkUnlessStopped == lost["ok"] \subseteq gaveUp

\* The messages c made.
From(c) == {m \in DOMAIN made : made[m] = c}

\* Those of messages that are in s are in the order they were made.
Ordered(s, messages) ==
  \A j, k \in DOMAIN s :
    j < k /\ s[j] \in messages /\ s[k] \in messages => s[j] < s[k]

\* The messages of one client reach the application in the order it sent
\* them, however executors interleave, and the application's messages each
\* client in the order they were pushed, unless the mailbox was in use while
\* it was copied.
InOrder ==
  \A c \in Clients :
    /\ "recv" \notin rotated \cup {copier.box} => Ordered(taken \o recvBox, From(c))
    /\ "send" \notin rotated => Ordered(delivered[c] \o hand[c], From(NoClient))

\* The copy of a mailbox only the application empties has the messages there
\* were when it was begun, in their order, whatever clients add meanwhile; and
\* the assertion in d_queue_copy ("IT CANT BE NULL", drpc_queue.c:448) fails
\* only when a client collects messages from the mailbox that is copied.
CopyIsSnapshot ==
  /\ copier.box = "recv" =>
       /\ IsPrefix(copier.new, copier.snapshot)
       /\ Len(copier.new) + copier.left =
            Len(copier.snapshot) + Len(copier.element)
  /\ copier.box = "aborted" => copier.snapshot = <<"send">> /\ "send" \in rotated

\* Every mailbox request is answered: the loops end, and no executor waits for
\* ever for the proxy client's mutex.
Answered ==
  \A c \in Clients : at[c] # "idle" ~> at[c] \in {"idle", "aborted"}
=============================================================================
