--------------------------------- MODULE Tcp ---------------------------------
(***************************************************************************)
(* The TCP transport of drpc_protocol.c: a connection with a stream of     *)
(* bytes in each direction, and at each end a call of                      *)
(* drpc_tcp_send_message and one of drpc_tcp_recv_message, which may go on *)
(* at the same time.  A message is a header, which has the length of the   *)
(* body, and the body; tcp_send_loop and tcp_recv_loop are called for      *)
(* each.                                                                   *)
(*                                                                         *)
(* A call of send or recv takes some of the bytes, none at the end of the  *)
(* stream, or returns -1.  The loops keep the result in a size_t, for      *)
(* which "<= 0" is not true of -1: adding it to the count takes one byte   *)
(* off.  Without a byte to take off the count becomes so large that the    *)
(* loop ends, and the call fails.                                          *)
(***************************************************************************)
EXTENDS Naturals, SequencesExt

CONSTANTS
  HeaderLen, BodyLen,   \* the bytes of a message's parts
  Capacity              \* the bytes a socket's buffers hold

ASSUME TcpAssumption ==
  HeaderLen \in Nat \ {0} /\ BodyLen \in Nat \ {0} /\ Capacity \in Nat \ {0}

VARIABLES
  stream,    \* the bytes on the way to each end
  sending,   \* the drpc_tcp_send_message of each end
  receiving, \* the drpc_tcp_recv_message of each end
  closed,    \* the ends that have called close
  key,       \* io->aes128_key of each end
  torn       \* history: a loop has taken a byte off that it had transferred

transport == <<stream, sending, receiving, closed, key, torn>>

Ends == {"client", "server"}
Peer(e) == IF e = "client" THEN "server" ELSE "client"

Nothing == "nothing"
NoKey == [xor |-> Nothing, password |-> Nothing]
Idle == [call |-> "idle"]

\* The bytes of the parts of message m, as sent by tcp_send_loop.
Part(m, part) ==
  IF part = "header" THEN [i \in 1 .. HeaderLen |-> [of |-> m, at |-> i]]
  ELSE [i \in 1 .. BodyLen |-> [of |-> m, at |-> HeaderLen + i]]

TcpInit ==
  /\ stream = [e \in Ends |-> <<>>]
  /\ sending = [e \in Ends |-> Idle]
  /\ receiving = [e \in Ends |-> Idle]
  /\ closed = {}
  /\ key = [e \in Ends |-> NoKey]
  /\ torn = FALSE

\* Neither timeout is set on a client's socket.
TimesOut(e) == e = "server"

-----------------------------------------------------------------------------
(* drpc_tcp_send_message *)

\* The message is packed; its body is encrypted with the key there is.
SendMessage(e, m) ==
  sending' = [sending EXCEPT ![e] =
    [call |-> "header", message |-> [body |-> m, key |-> key[e]], sent |-> 0]]

\* send takes n bytes.
SendSome(e) ==
  LET s == sending[e]
      part == Part(s.message, s.call)
  IN
  /\ s.call \in {"header", "body"}
  /\ \E n \in 1 .. Len(part) - s.sent :
       /\ Len(stream[Peer(e)]) + n <= Capacity
       /\ stream' = [stream EXCEPT ![Peer(e)] =
                       @ \o SubSeq(part, s.sent + 1, s.sent + n)]
       /\ sending' = [sending EXCEPT ![e] =
            IF s.sent + n < Len(part) THEN [s EXCEPT !.sent = @ + n]
            ELSE IF s.call = "header" THEN [s EXCEPT !.call = "body", !.sent = 0]
            ELSE [call |-> "sent"]]
  /\ UNCHANGED <<receiving, closed, key, torn>>

\* send returns -1: the other end has closed, or SO_SNDTIMEO is over.
SendError(e) ==
  LET s == sending[e] IN
  /\ s.call \in {"header", "body"}
  /\ \/ Peer(e) \in closed
     \/ TimesOut(e) /\ Len(stream[Peer(e)]) = Capacity
  /\ sending' = [sending EXCEPT ![e] =
       IF s.sent = 0 THEN [call |-> "failed"] ELSE [s EXCEPT !.sent = @ - 1]]
  /\ torn' = (torn \/ s.sent > 0)
  /\ UNCHANGED <<stream, receiving, closed, key>>

-----------------------------------------------------------------------------
(* drpc_tcp_recv_message *)

ReceiveMessage(e) ==
  receiving' = [receiving EXCEPT ![e] = [call |-> "header", buf |-> <<>>]]

\* A call that has read what was not sent to it: what follows is undefined.
Undefined(what) == [call |-> "undefined", what |-> what]

\* With the whole header in buf: without DRPC_SIGNATURE the call fails.
HeaderRead(buf) ==
  IF buf[1].at # 1 THEN [call |-> "failed"]
  ELSE IF buf # Part(buf[1].of, "header") THEN Undefined("bytes")
  ELSE [call |-> "body", message |-> buf[1].of, buf |-> <<>>]

\* With the whole body: it is decrypted and unpacked.
BodyRead(e, message, buf) ==
  IF buf # Part(message, "body") THEN Undefined("bytes")
  ELSE IF message.key # key[e] THEN Undefined("key")
  ELSE [call |-> "got", body |-> message.body]

\* Mutant: a short read is taken for the whole.
WithBufShort(e, r, full, buf) ==
  IF r.call = "header" THEN HeaderRead(buf) ELSE BodyRead(e, r.message, buf)

\* tcp_recv_loop, and what follows it, with what is in buf now.
WithBuf(e, r, full, buf) ==
  IF Len(buf) < full THEN [r EXCEPT !.buf = buf]
  ELSE IF r.call = "header" THEN HeaderRead(buf)
  ELSE BodyRead(e, r.message, buf)

\* recv returns n bytes.
ReceiveSome(e) ==
  LET r == receiving[e]
      full == IF r.call = "header" THEN HeaderLen ELSE BodyLen
  IN
  /\ r.call \in {"header", "body"}
  /\ \E n \in 1 .. full - Len(r.buf) :
       /\ n <= Len(stream[e])
       /\ stream' = [stream EXCEPT ![e] = SubSeq(@, n + 1, Len(@))]
       /\ receiving' = [receiving EXCEPT ![e] =
                          WithBuf(e, r, full, r.buf \o SubSeq(stream[e], 1, n))]
  /\ UNCHANGED <<sending, closed, key, torn>>

\* recv returns 0: the other end has closed and everything is read.
ReceiveEnd(e) ==
  /\ receiving[e].call \in {"header", "body"}
  /\ stream[e] = <<>> /\ Peer(e) \in closed
  /\ receiving' = [receiving EXCEPT ![e] = [call |-> "failed"]]
  /\ UNCHANGED <<stream, sending, closed, key, torn>>

\* recv returns -1: SO_RCVTIMEO is over, or the other end has closed without
\* reading everything, which resets the connection.
ReceiveError(e) ==
  LET r == receiving[e] IN
  /\ r.call \in {"header", "body"}
  /\ \/ TimesOut(e) /\ stream[e] = <<>> /\ Peer(e) \notin closed
     \/ Peer(e) \in closed /\ stream[Peer(e)] # <<>>
  /\ receiving' = [receiving EXCEPT ![e] =
       IF r.buf = <<>> THEN [call |-> "failed"] ELSE [r EXCEPT !.buf = Front(@)]]
  /\ torn' = (torn \/ r.buf # <<>>)
  /\ stream' = [stream EXCEPT ![e] = <<>>]
  /\ UNCHANGED <<sending, closed, key>>

-----------------------------------------------------------------------------
Sends(e) == SendSome(e) \/ SendError(e)
Receives(e) == ReceiveSome(e) \/ ReceiveEnd(e) \/ ReceiveError(e)

Close(e) == closed' = closed \cup {e}

\* However the bytes arrive, what tcp_recv_loop takes for a part of a message is
\* a part of a message that was sent, all of it and in order; unless a timeout
\* came between two bytes of one part, when a loop may go on a byte short
\* (tcp_send_loop and tcp_recv_loop: cur_sent is a size_t).
FramesIntact == (\E e \in Ends : receiving[e] = Undefined("bytes")) => torn

\* What is received is decrypted with the key it was encrypted with: neither
\* end changes its key while a message is on the way, and both have the same
\* (drpc_protocol.c:163 and :185).
KeysAgree == \A e \in Ends : receiving[e] # Undefined("key")
=============================================================================
