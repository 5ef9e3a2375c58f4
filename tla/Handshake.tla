------------------------------ MODULE Handshake ------------------------------
(***************************************************************************)
(* A TCP session over module Tcp: drpc_client_connect and the ping thread  *)
(* of a client, and drpc_server_client_auth, the reader and the executor   *)
(* of the server.  The client sends the user's name and a hash of the      *)
(* password; the server answers drpc_ok with 16 random bytes, from which,  *)
(* and the password, each end makes the key of all later messages.  The    *)
(* application may add the user, or give it another password, at any time. *)
(* What a server does with the other requests is in module Connection; the *)
(* next address that drpc_client_connect tries is another session.         *)
(***************************************************************************)
EXTENDS Tcp

CONSTANTS
  Passwords,
  MaxPings      \* bound: the pings of the session

ASSUME HandshakeAssumption == MaxPings \in Nat

VARIABLES
  passwd,    \* what the client's application gave drpc_client_connect
  users,     \* the user's password in the server's table, or Nothing
  client,    \* where drpc_client_connect is, and then the ping thread
  reader,    \* where drpc_server_client_auth is, and then drpc_handle_client
  user,      \* the entry of users that drpc_server_client_auth has found
  events,    \* params->event_queue
  executor,  \* what drpc_client_executor does, stop and already_disconnected
  messages   \* history: how many messages each end has sent

vars == <<transport, passwd, users, client, reader, user, events, executor,
          messages>>

SessionKey(password) == [xor |-> "encrypt_xor", password |-> password]

\* e calls drpc_send_message.
Send(e, type, data) ==
  /\ SendMessage(e, [type |-> type, data |-> data, number |-> messages[e]])
  /\ messages' = [messages EXCEPT ![e] = @ + 1]

Sent(e) == sending[e].call = "sent"
SendFailed(e) == sending[e].call = "failed"
Got(e) == receiving[e].call = "got"
ReceiveFailed(e) == receiving[e].call = "failed"

Init ==
  /\ TcpInit
  /\ passwd \in Passwords
  /\ users \in Passwords \cup {Nothing}
  /\ client = "connect" /\ reader = "accepted"
  /\ user = Nothing
  /\ events = <<>>
  /\ executor = [at |-> "none", stop |-> FALSE, already |-> FALSE]
  /\ messages = [e \in Ends |-> 0]

-----------------------------------------------------------------------------
(* The client *)

clientIdle == <<stream, torn>>
serverSide == <<users, reader, user, events, executor>>

ClientConnect ==
  /\ client = "connect"
  /\ Send("client", "auth", passwd)
  /\ client' = "auth"
  /\ UNCHANGED <<clientIdle, receiving, closed, key, passwd, serverSide>>

\* A message is sent: the answer to it is received.
ClientSent ==
  /\ client \in {"auth", "ping"} /\ Sent("client")
  /\ ReceiveMessage("client")
  /\ sending' = [sending EXCEPT !["client"] = Idle]
  /\ UNCHANGED <<clientIdle, closed, key, passwd, client, serverSide, messages>>

\* The key is made of what came with drpc_ok.
ClientAccepted ==
  /\ client = "auth" /\ Got("client")
  /\ receiving["client"].body.type = "ok"
  /\ key' = [key EXCEPT !["client"] = SessionKey(passwd)]
  /\ client' = "ready"
  /\ receiving' = [receiving EXCEPT !["client"] = Idle]
  /\ UNCHANGED <<clientIdle, sending, closed, passwd, serverSide, messages>>

\* Sending or receiving has failed, or the answer is another than expected:
\* the client closes.
ClientCloses ==
  /\ \/ client \in {"auth", "ping"} /\ SendFailed("client")
     \/ client \in {"auth", "ping"} /\ ReceiveFailed("client")
     \/ client = "auth" /\ Got("client") /\ receiving["client"].body.type # "ok"
     \/ client = "leave" /\ (Sent("client") \/ SendFailed("client"))
  /\ Close("client")
  /\ client' = IF client = "auth" THEN "refused" ELSE "stopped"
  /\ sending' = [sending EXCEPT !["client"] = Idle]
  /\ receiving' = [receiving EXCEPT !["client"] = Idle]
  /\ UNCHANGED <<clientIdle, key, passwd, serverSide, messages>>

\* The next round of drpc_ping_server.
ClientPing ==
  /\ client = "ready" /\ messages["client"] <= MaxPings
  /\ Send("client", "ping", Nothing)
  /\ client' = "ping"
  /\ UNCHANGED <<clientIdle, receiving, closed, key, passwd, serverSide>>

ClientPinged ==
  /\ client = "ping" /\ Got("client")
  /\ client' = "ready"
  /\ receiving' = [receiving EXCEPT !["client"] = Idle]
  /\ UNCHANGED <<clientIdle, sending, closed, key, passwd, serverSide, messages>>

\* The application disconnects.
ClientLeaves ==
  /\ client = "ready"
  /\ Send("client", "disconnect", Nothing)
  /\ client' = "leave"
  /\ UNCHANGED <<clientIdle, receiving, closed, key, passwd, serverSide>>

-----------------------------------------------------------------------------
(* The server *)

serverIdle == <<stream, torn>>
clientSide == <<passwd, client>>

\* drpc_server_add_user.
AddUser(password) ==
  /\ users' = password
  /\ UNCHANGED <<transport, clientSide, reader, user, events, executor, messages>>

ServerAccepts ==
  /\ reader = "accepted"
  /\ ReceiveMessage("server")
  /\ reader' = "auth"
  /\ UNCHANGED <<serverIdle, sending, closed, key, clientSide, users, user,
                 events, executor, messages>>

\* The request for authentication has come, and is answered.
ServerAnswers ==
  LET body == receiving["server"].body IN
  /\ reader = "auth" /\ Got("server")
  /\ IF body.type = "auth" /\ users = body.data
     THEN /\ user' = users
          /\ Send("server", "ok", "encrypt_xor")
          /\ reader' = "accept"
     ELSE /\ Send("server", "bad", Nothing)
          /\ reader' = "refuse"
          /\ UNCHANGED user
  /\ receiving' = [receiving EXCEPT !["server"] = Idle]
  /\ UNCHANGED <<serverIdle, closed, key, clientSide, users, events, executor>>

\* Mutant: the user is looked up again for the key.
ServerServesCurrent ==
  /\ reader = "accept" /\ Sent("server")
  /\ key' = [key EXCEPT !["server"] = SessionKey(users)]
  /\ reader' = "serve"
  /\ executor' = [executor EXCEPT !.at = "idle"]
  /\ sending' = [sending EXCEPT !["server"] = Idle]
  /\ ReceiveMessage("server")
  /\ UNCHANGED <<serverIdle, closed, clientSide, users, user, events, messages>>

\* drpc_ok is sent: all that follows is encrypted.
ServerServes ==
  /\ reader = "accept" /\ Sent("server")
  /\ key' = [key EXCEPT !["server"] = SessionKey(user)]
  /\ reader' = "serve"
  /\ executor' = [executor EXCEPT !.at = "idle"]
  /\ sending' = [sending EXCEPT !["server"] = Idle]
  /\ ReceiveMessage("server")
  /\ UNCHANGED <<serverIdle, closed, clientSide, users, user, events, messages>>

\* The reader has a message for the executor.
ReaderPosts ==
  /\ reader = "serve" /\ Got("server")
  /\ events' = Append(events, receiving["server"].body.type)
  /\ ReceiveMessage("server")
  /\ UNCHANGED <<serverIdle, sending, closed, key, clientSide, users, reader,
                 user, executor, messages>>

\* Mutant: a reader whose recv failed tries again.
ReaderLeavesNever ==
  /\ reader = "serve" /\ ReceiveFailed("server")
  /\ ReceiveMessage("server")
  /\ UNCHANGED <<serverIdle, sending, closed, key, clientSide, users, reader,
                 user, events, executor, messages>>

\* recv has failed: the reader tells the executor, and waits for it.
ReaderLeaves ==
  /\ reader = "serve" /\ ReceiveFailed("server")
  /\ reader' = "leave"
  /\ events' = IF executor.already THEN events ELSE Append(events, "disconnect")
  /\ receiving' = [receiving EXCEPT !["server"] = Idle]
  /\ UNCHANGED <<serverIdle, sending, closed, key, clientSide, users, user,
                 executor, messages>>

\* The executor takes a message.
ExecutorTakes ==
  /\ executor.at = "idle" /\ events # <<>>
  /\ events' = Tail(events)
  /\ IF Head(events) = "ping"
     THEN /\ Send("server", "ping", Nothing)
          /\ executor' = [executor EXCEPT !.at = "reply"]
     ELSE /\ executor' = [executor EXCEPT !.stop = TRUE, !.already = TRUE]
          /\ UNCHANGED <<sending, messages>>
  /\ UNCHANGED <<serverIdle, receiving, closed, key, clientSide, users, reader,
                 user>>

ExecutorReplied ==
  /\ executor.at = "reply" /\ (Sent("server") \/ SendFailed("server"))
  /\ executor' = [executor EXCEPT !.at = "idle",
                                     !.stop = @ \/ SendFailed("server")]
  /\ sending' = [sending EXCEPT !["server"] = Idle]
  /\ UNCHANGED <<serverIdle, receiving, closed, key, clientSide, users, reader,
                 user, events, messages>>

ExecutorDone ==
  /\ executor.at = "idle" /\ executor.stop /\ events = <<>>
  /\ executor' = [executor EXCEPT !.at = "done", !.already = TRUE]
  /\ UNCHANGED <<transport, clientSide, users, reader, user, events, messages>>

\* Mutant: the end of drpc_server_client_auth without io->close.
ServerForgets ==
  /\ \/ reader = "auth" /\ ReceiveFailed("server")
     \/ reader = "refuse" /\ (Sent("server") \/ SendFailed("server"))
     \/ reader = "accept" /\ SendFailed("server")
     \/ reader = "leave" /\ executor.at = "done"
  /\ reader' = "gone"
  /\ sending' = [sending EXCEPT !["server"] = Idle]
  /\ receiving' = [receiving EXCEPT !["server"] = Idle]
  /\ UNCHANGED <<serverIdle, closed, key, clientSide, users, user, events,
                 executor, messages>>

\* The end of drpc_server_client_auth.
ServerCloses ==
  /\ \/ reader = "auth" /\ ReceiveFailed("server")
     \/ reader = "refuse" /\ (Sent("server") \/ SendFailed("server"))
     \/ reader = "accept" /\ SendFailed("server")
     \/ reader = "leave" /\ executor.at = "done"
  /\ Close("server")
  /\ reader' = "gone"
  /\ sending' = [sending EXCEPT !["server"] = Idle]
  /\ receiving' = [receiving EXCEPT !["server"] = Idle]
  /\ UNCHANGED <<serverIdle, key, clientSide, users, user, events, executor,
                 messages>>

-----------------------------------------------------------------------------
others == <<clientSide, serverSide, messages>>

Client ==
  \/ ClientConnect \/ ClientSent \/ ClientAccepted \/ ClientCloses
  \/ ClientPing \/ ClientPinged

Reader ==
  \/ ServerAccepts \/ ServerAnswers \/ ServerServes \/ ReaderPosts
  \/ ReaderLeaves \/ ServerCloses

Executor == ExecutorTakes \/ ExecutorReplied \/ ExecutorDone

Next ==
  \/ Client \/ ClientLeaves \/ Reader \/ Executor
  \/ \E password \in Passwords : AddUser(password)
  \/ \E e \in Ends : Sends(e) /\ UNCHANGED others
  \/ \E e \in Ends : Receives(e) /\ UNCHANGED others

Spec == Init /\ [][Next]_vars

\* The threads run, bytes arrive, and the server's timeouts come.
FairSpec ==
  /\ Spec
  /\ WF_vars(Client)
  /\ WF_vars(Reader)
  /\ WF_vars(Executor)
  /\ \A e \in Ends :
       /\ WF_vars(Sends(e) /\ UNCHANGED others)
       /\ WF_vars(Receives(e) /\ UNCHANGED others)

\* A loop is a byte short (FramesIntact).
Lost == \E e \in Ends : receiving[e].call = "undefined"

\* drpc_client_connect returns, although a client's socket has no timeout: the
\* server answers, or closes, whatever is lost or late.
ConnectReturns ==
  client = "connect" ~> client \in {"ready", "refused"} \/ Lost

\* When the client has closed, the threads of its connection end.
ConnectionEnds == "client" \in closed ~> reader = "gone" \/ Lost
=============================================================================
