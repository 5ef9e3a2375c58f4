--------------------------- MODULE HandshakeProofs ---------------------------
(***************************************************************************)
(* Whatever number of bytes each send and recv transfers, for messages of  *)
(* any length, sockets of any size, any number of pings and passwords:     *)
(* what is received is decrypted with the key it was encrypted with        *)
(* (KeysAgree), and what is taken for a message is one message, whole and  *)
(* in order, unless a byte was taken off (FramesIntact).                   *)
(*                                                                         *)
(* KeyInv says for each phase of the session with which key all is that is *)
(* on the way to an end.  When an end changes its key nothing may be on    *)
(* the way to it.  For a message that is not encrypted this follows from   *)
(* the stream alone (Ended): its last byte is the last there is, so        *)
(* nothing is left when it is read.                                        *)
(*                                                                         *)
(* FrameInv says that while no byte was taken off one message is on the    *)
(* way at a time (OneTurn), and that its bytes lie one behind the other in *)
(* the receiver's buffer, in the stream, and before the sender (Flow).     *)
(***************************************************************************)
EXTENDS Handshake, SequenceTheorems, TLAPS

Total == HeaderLen + BodyLen

Types == {"auth", "ok", "bad", "ping", "disconnect"}
Body == [type : Types, data : Passwords \cup {"encrypt_xor", Nothing}, number : Nat]
Keys == {NoKey} \cup {SessionKey(p) : p \in Passwords}
Message == [body : Body, key : Keys]
Byte == [of : Message, at : 1 .. Total]

Executors ==
  [at : {"none", "idle", "reply", "done"}, stop : BOOLEAN, already : BOOLEAN]

Sending ==
  {Idle, [call |-> "sent"], [call |-> "failed"]}
  \cup [call : {"header"}, message : Message, sent : 0 .. HeaderLen - 1]
  \cup [call : {"body"}, message : Message, sent : 0 .. BodyLen - 1]

Receiving ==
  {Idle, [call |-> "failed"], Undefined("bytes")}
  \cup {r \in [call : {"header"}, buf : Seq(Byte)] : Len(r.buf) < HeaderLen}
  \cup {r \in [call : {"body"}, message : Message, buf : Seq(Byte)] :
          Len(r.buf) < BodyLen}
  \cup [call : {"got"}, body : Body]

\* The variables of Tcp, and what they are made of.
TransportType ==
  /\ stream \in [Ends -> Seq(Byte)]
  /\ sending = [e \in Ends |-> sending[e]]
  /\ receiving = [e \in Ends |-> receiving[e]]
  /\ \A e \in Ends : sending[e] \in Sending /\ receiving[e] \in Receiving
  /\ key \in [Ends -> Keys]
  /\ torn \in BOOLEAN
  /\ messages \in [Ends -> Nat]
  /\ passwd \in Passwords
  /\ users \in Passwords \cup {Nothing}

\* What the client's thread, and the server's, may be doing in a transfer, and
\* the key that goes with it.
ClientShape ==
  /\ client \in {"connect", "auth", "ready", "ping", "leave", "refused", "stopped"}
  /\ client \in {"connect", "ready", "refused", "stopped"} =>
       sending["client"] = Idle /\ receiving["client"] = Idle
  /\ client \in {"auth", "ping"} =>
       sending["client"] = Idle \/ receiving["client"] = Idle
  /\ client = "leave" => receiving["client"] = Idle
  /\ key["client"] = IF client \in {"connect", "auth", "refused"} THEN NoKey
                     ELSE SessionKey(passwd)

ServerShape ==
  /\ reader \in {"accepted", "auth", "accept", "refuse", "serve", "leave", "gone"}
  /\ reader \in {"accepted", "auth"} => sending["server"] = Idle
  /\ reader # "auth" /\ reader # "serve" => receiving["server"] = Idle
  /\ executor \in Executors
  /\ events \in Seq(Types)
  /\ reader \in {"accepted", "auth", "accept", "refuse"} =>
       executor.at = "none" /\ events = <<>> /\ key["server"] = NoKey
  /\ reader \in {"serve", "leave"} =>
       executor.at # "none" /\ key["server"] = SessionKey(passwd)
  /\ reader = "gone" => sending["server"] = Idle /\ executor.at \in {"none", "done"}
  /\ executor.at \in {"idle", "done"} => sending["server"] = Idle
  /\ reader = "accept" => user = passwd

\* The messages of which something is in a stream, or is still to be sent, or
\* is in the hands of drpc_tcp_recv_message.
InStream(q) == {q[i].of : i \in DOMAIN q}
Leaving(s) == IF s.call \in {"header", "body"} THEN {s.message} ELSE {}
Held(r) ==
  CASE r.call = "header" -> InStream(r.buf)
    [] r.call = "body" -> InStream(r.buf) \cup {r.message}
    [] OTHER -> {}

\* The messages on the way to e.
Coming(e) == InStream(stream[e]) \cup Leaving(sending[Peer(e)]) \cup Held(receiving[e])

\* A call of send, of recv, has more to transfer.
Busy(e) == sending[e].call \in {"header", "body"}
Reading(e) == receiving[e].call \in {"header", "body"}

\* The last byte of a message is the last there is.
Ended(e) ==
  \A i \in DOMAIN stream[e] :
    stream[e][i].at = Total => i = Len(stream[e]) /\ ~Busy(Peer(e))

\* The client has no key yet.  A ping waits for the executor.
Fresh == client \in {"connect", "auth", "refused"}
Pinged == \E i \in DOMAIN events : events[i] = "ping"

\* What may be on the way to the server, and to the client.
ToServer ==
  /\ client = "connect" => reader \in {"accepted", "auth", "gone"} /\ Coming("server") = {}
                           /\ ~Got("server")
  /\ reader \in {"accepted", "auth"} =>
       /\ Ended("server")
       /\ \A m \in Coming("server") :
            m.key = NoKey /\ m.body.type = "auth" /\ m.body.data = passwd
       /\ Got("server") => /\ Coming("server") = {}
                           /\ receiving["server"].body.type = "auth"
                           /\ receiving["server"].body.data = passwd
  /\ reader \in {"accept", "serve"} =>
       /\ \A m \in Coming("server") : m.key = SessionKey(passwd)
       /\ Fresh => Coming("server") = {} /\ ~Got("server")

ToClient ==
  /\ reader \in {"accepted", "auth"} => Fresh /\ Coming("client") = {} /\ ~Got("client")
  /\ reader = "refuse" =>
       /\ Fresh
       /\ \A m \in Coming("client") : m.body.type = "bad"
       /\ Got("client") => receiving["client"].body.type = "bad"
  /\ client \in {"connect", "auth"} =>
       /\ Ended("client")
       /\ \A m \in Coming("client") : m.key = NoKey
       /\ Got("client") => Coming("client") = {}
  /\ Fresh => ~Pinged /\ executor.at # "reply"
  /\ client \in {"ready", "ping", "leave"} =>
       \A m \in Coming("client") : m.key = SessionKey(passwd)

KeyInv == TransportType /\ ClientShape /\ ServerShape /\ ToServer /\ ToClient

\* drpc_tcp_send_message with p bytes of message m sent.
Pos(m, p) ==
  IF p < HeaderLen THEN [call |-> "header", message |-> m, sent |-> p]
  ELSE IF p < Total THEN [call |-> "body", message |-> m, sent |-> p - HeaderLen]
  ELSE [call |-> "sent"]

\* The bytes of m behind the first a, up to the b-th.
TheByte(m, i) == [of |-> m, at |-> i]
Run(m, a, b) == [i \in 1 .. b - a |-> TheByte(m, a + i)]

\* Message m is on the way to e: k bytes of it have come, n were sent.
Flow(e, m, k, n) ==
  /\ k <= n
  /\ stream[e] = Run(m, k, n)
  /\ \/ receiving[e].call = "header" /\ receiving[e].buf = Run(m, 0, k)
     \/ receiving[e].call = "body" /\ receiving[e].message = m
        /\ HeaderLen <= k /\ receiving[e].buf = Run(m, HeaderLen, k)
     \/ receiving[e].call \notin {"header", "body"} /\ k = 0
  /\ Busy(Peer(e)) => sending[Peer(e)] = Pos(m, n)

\* A call of recv at e may follow.
Listening(e) ==
  /\ receiving[e].call # "failed"
  /\ IF e = "client" THEN client \notin {"refused", "stopped"}
     ELSE reader \notin {"leave", "gone"}

Framed(e) == Coming(e) = {} \/ \E m \in Coming(e), k, n \in 0 .. Total : Flow(e, m, k, n)

\* Client and server take turns, with the executor's queue in between.
OnePing(q) == \A i, j \in DOMAIN q : q[i] = "ping" /\ q[j] = "ping" => i = j

OneTurn ==
  /\ Coming("server") # {} =>
       ~Got("server") /\ ~Pinged /\ Coming("client") = {} /\ ~Got("client")
  /\ Got("server") => ~Pinged /\ Coming("client") = {} /\ ~Got("client")
  /\ Pinged => Coming("client") = {} /\ ~Got("client")
  /\ Coming("client") # {} => ~Got("client")
  /\ OnePing(events)
  /\ client \in {"connect", "ready"} =>
       Coming("server") = {} /\ ~Got("server") /\ ~Pinged /\ Coming("client") = {}

Frames(e) == receiving[e] # Undefined("bytes") /\ (Listening(e) => Framed(e))

Steady == OneTurn /\ Frames("client") /\ Frames("server")

FrameInv == torn \/ Steady

-----------------------------------------------------------------------------
(* Records and bytes *)

\* The ends.
LEMMA TheEnds ==
  /\ "client" \in Ends /\ "server" \in Ends
  /\ Peer("client") = "server" /\ Peer("server") = "client"
  /\ \A e \in Ends : Peer(e) \in Ends /\ Peer(Peer(e)) = e /\ Peer(e) # e
  /\ \A e, f \in Ends : f = e \/ f = Peer(e)
  /\ \A e \in Ends : e = "client" \/ e = "server"
BY DEF Ends, Peer

\* What the assumptions on the constants say.
LEMMA Numbers ==
  /\ HeaderLen \in Nat /\ BodyLen \in Nat /\ Capacity \in Nat /\ Total \in Nat
  /\ HeaderLen > 0 /\ BodyLen > 0 /\ HeaderLen < Total /\ Total - HeaderLen = BodyLen
BY TcpAssumption DEF Total

\* What a value of sending may look like.
LEMMA SendingCases ==
  ASSUME NEW s \in Sending
  PROVE  \/ s = Idle \/ s = [call |-> "sent"] \/ s = [call |-> "failed"]
         \/ \E m \in Message, n \in 0 .. HeaderLen - 1 :
              s = [call |-> "header", message |-> m, sent |-> n]
         \/ \E m \in Message, n \in 0 .. BodyLen - 1 :
              s = [call |-> "body", message |-> m, sent |-> n]
BY DEF Sending

\* Values that sending may have.
LEMMA SendingMade ==
  /\ Idle \in Sending /\ [call |-> "sent"] \in Sending /\ [call |-> "failed"] \in Sending
  /\ \A m \in Message, n \in 0 .. HeaderLen - 1 :
       [call |-> "header", message |-> m, sent |-> n] \in Sending
  /\ \A m \in Message, n \in 0 .. BodyLen - 1 :
       [call |-> "body", message |-> m, sent |-> n] \in Sending
BY DEF Sending

\* What a value of receiving may look like.
LEMMA ReceivingCases ==
  ASSUME NEW r \in Receiving
  PROVE  \/ r = Idle \/ r = [call |-> "failed"] \/ r = Undefined("bytes")
         \/ \E b \in Seq(Byte) : r = [call |-> "header", buf |-> b] /\ Len(b) < HeaderLen
         \/ \E m \in Message, b \in Seq(Byte) :
              r = [call |-> "body", message |-> m, buf |-> b] /\ Len(b) < BodyLen
         \/ \E b \in Body : r = [call |-> "got", body |-> b]
BY DEF Receiving

LEMMA ReceivingMade ==
  /\ Idle \in Receiving /\ [call |-> "failed"] \in Receiving
  /\ Undefined("bytes") \in Receiving
  /\ \A b \in Seq(Byte) :
       Len(b) < HeaderLen => [call |-> "header", buf |-> b] \in Receiving
  /\ \A m \in Message, b \in Seq(Byte) :
       Len(b) < BodyLen => [call |-> "body", message |-> m, buf |-> b] \in Receiving
  /\ \A b \in Body : [call |-> "got", body |-> b] \in Receiving
BY DEF Receiving

\* Leaving and Held, by cases.
LEMMA LeavingCases ==
  /\ Leaving(Idle) = {} /\ Leaving([call |-> "sent"]) = {}
  /\ Leaving([call |-> "failed"]) = {}
  /\ \A m, n : Leaving([call |-> "header", message |-> m, sent |-> n]) = {m}
  /\ \A m, n : Leaving([call |-> "body", message |-> m, sent |-> n]) = {m}
BY DEF Leaving, Idle

LEMMA HeldCases ==
  /\ Held(Idle) = {} /\ Held([call |-> "failed"]) = {}
  /\ \A what : Held(Undefined(what)) = {}
  /\ \A b : Held([call |-> "header", buf |-> b]) = InStream(b)
  /\ \A m, b : Held([call |-> "body", message |-> m, buf |-> b]) = InStream(b) \cup {m}
  /\ \A b : Held([call |-> "got", body |-> b]) = {}
BY DEF Held, Idle, Undefined

\* Nothing is in an empty sequence.
LEMMA InEmpty == InStream(<<>>) = {}
BY DEF InStream

\* The messages of two sequences together.
LEMMA InConcat ==
  ASSUME NEW p \in Seq(Byte), NEW q \in Seq(Byte)
  PROVE  InStream(p \o q) \subseteq InStream(p) \cup InStream(q)
<1> SUFFICES ASSUME NEW i \in DOMAIN (p \o q)
             PROVE  (p \o q)[i].of \in InStream(p) \cup InStream(q)
  BY DEF InStream
<1>1. PICK a \in Nat, b \in Nat : a = Len(p) /\ b = Len(q)
  BY LenProperties
<1>2. /\ DOMAIN p = 1 .. a /\ DOMAIN q = 1 .. b /\ DOMAIN (p \o q) = 1 .. a + b
      /\ \A j \in 1 .. a + b : (p \o q)[j] = IF j <= a THEN p[j] ELSE q[j - a]
  BY <1>1, ConcatProperties, LenProperties
<1>3. CASE i <= a
  BY <1>2, <1>3 DEF InStream
<1>4. CASE ~(i <= a)
  BY <1>2, <1>4 DEF InStream
<1> QED
  BY <1>3, <1>4

\* A part of a sequence has no other bytes.
LEMMA SubSeqBytes ==
  ASSUME NEW q \in Seq(Byte), NEW a \in Nat, NEW b \in Nat, b <= Len(q), a >= 1
  PROVE  /\ SubSeq(q, a, b) \in Seq(Byte)
         /\ Len(SubSeq(q, a, b)) = IF a <= b THEN b - a + 1 ELSE 0
         /\ DOMAIN SubSeq(q, a, b) = 1 .. b - a + 1
         /\ \A i \in 1 .. b - a + 1 :
              SubSeq(q, a, b)[i] = q[a + i - 1] /\ a + i - 1 \in DOMAIN q
         /\ InStream(SubSeq(q, a, b)) \subseteq InStream(q)
<1>1. Len(q) \in Nat /\ DOMAIN q = 1 .. Len(q)
  BY LenProperties
<1>2. /\ SubSeq(q, a, b) \in Seq(Byte)
      /\ Len(SubSeq(q, a, b)) = IF a <= b THEN b - a + 1 ELSE 0
      /\ \A i \in 1 .. b - a + 1 : SubSeq(q, a, b)[i] = q[a + i - 1]
  BY <1>1, SubSeqProperties
<1>3. DOMAIN SubSeq(q, a, b) = 1 .. b - a + 1
  BY <1>2, LenProperties
<1>4. \A i \in 1 .. b - a + 1 : a + i - 1 \in DOMAIN q
  BY <1>1
<1> QED
  BY <1>2, <1>3, <1>4 DEF InStream

\* A run is a sequence of bytes of its message.
LEMMA RunFacts ==
  ASSUME NEW m \in Message, NEW a \in Nat, NEW b \in Nat, a <= b, b <= Total
  PROVE  /\ Run(m, a, b) \in Seq(Byte) /\ Len(Run(m, a, b)) = b - a
         /\ DOMAIN Run(m, a, b) = 1 .. b - a
         /\ \A i \in 1 .. b - a : Run(m, a, b)[i] = TheByte(m, a + i)
         /\ InStream(Run(m, a, b)) \subseteq {m}
<1>1. PICK n \in Nat : n = b - a
  OBVIOUS
<1>2. \A i \in 1 .. n : a + i \in 1 .. Total
  BY <1>1, Numbers
<1>3. \A i \in 1 .. n : TheByte(m, a + i) \in Byte
  BY <1>2 DEF Byte, TheByte
<1>4. Run(m, a, b) = [i \in 1 .. n |-> TheByte(m, a + i)]
  BY <1>1 DEF Run
<1>5. Run(m, a, b) \in Seq(Byte)
  <2>1. Run(m, a, b) \in [1 .. n -> Byte]
    BY <1>3, <1>4, Zenon
  <2> QED
    BY <2>1
<1>6. DOMAIN Run(m, a, b) = 1 .. n
  BY <1>4
<1>7. Len(Run(m, a, b)) = n
  BY <1>5, <1>6, LenProperties
<1> QED
  BY <1>1, <1>4, <1>5, <1>6, <1>7 DEF InStream, TheByte

\* Two runs, one behind the other, are a run.
LEMMA RunConcat ==
  ASSUME NEW m \in Message, NEW a \in Nat, NEW b \in Nat, NEW c \in Nat,
         a <= b, b <= c, c <= Total
  PROVE  Run(m, a, b) \o Run(m, b, c) = Run(m, a, c)
<1>0. a <= c /\ b <= Total
  BY Numbers
<1>1. PICK p \in Seq(Byte), q \in Seq(Byte), r \in Seq(Byte) :
        p = Run(m, a, b) /\ q = Run(m, b, c) /\ r = Run(m, a, c)
  <2>1. Run(m, a, b) \in Seq(Byte)
    BY <1>0, RunFacts
  <2>2. Run(m, b, c) \in Seq(Byte)
    BY <1>0, RunFacts
  <2>3. Run(m, a, c) \in Seq(Byte)
    BY <1>0, RunFacts
  <2> QED
    BY <2>1, <2>2, <2>3
<1>2. PICK k \in Nat, n \in Nat : k = b - a /\ n = c - b
  OBVIOUS
<1>3. /\ Len(p) = k /\ Len(q) = n /\ Len(r) = k + n
      /\ \A i \in 1 .. k : p[i] = TheByte(m, a + i)
      /\ \A i \in 1 .. n : q[i] = TheByte(m, b + i)
      /\ \A i \in 1 .. k + n : r[i] = TheByte(m, a + i)
  <2>1. Len(Run(m, a, b)) = b - a
    BY <1>0, RunFacts
  <2>2. \A i \in 1 .. b - a : Run(m, a, b)[i] = TheByte(m, a + i)
    BY <1>0, RunFacts
  <2>3. Len(Run(m, b, c)) = c - b
    BY <1>0, RunFacts
  <2>4. \A i \in 1 .. c - b : Run(m, b, c)[i] = TheByte(m, b + i)
    BY <1>0, RunFacts
  <2>5. Len(Run(m, a, c)) = c - a
    BY <1>0, RunFacts
  <2>6. \A i \in 1 .. c - a : Run(m, a, c)[i] = TheByte(m, a + i)
    BY <1>0, RunFacts
  <2>7. k + n = c - a
    BY <1>2
  <2>8. Len(p) = k /\ Len(q) = n
    BY <1>1, <1>2, <2>1, <2>3
  <2>9. Len(r) = k + n
    BY <1>1, <2>5, <2>7
  <2>10. \A i \in 1 .. k : p[i] = TheByte(m, a + i)
    BY <1>1, <1>2, <2>2, Zenon
  <2>11. \A i \in 1 .. n : q[i] = TheByte(m, b + i)
    BY <1>1, <1>2, <2>4, Zenon
  <2>12. \A i \in 1 .. k + n : r[i] = TheByte(m, a + i)
    BY <1>1, <2>6, <2>7, Zenon
  <2> QED
    BY <2>8, <2>9, <2>10, <2>11, <2>12
<1>4. /\ p \o q \in Seq(Byte) /\ Len(p \o q) = k + n
      /\ \A i \in 1 .. k + n : (p \o q)[i] = IF i <= k THEN p[i] ELSE q[i - k]
  BY <1>3, ConcatProperties
<1>5. ASSUME NEW i \in 1 .. k + n
      PROVE  (p \o q)[i] = r[i]
  <2>1. CASE i <= k
    BY <1>3, <1>4, <2>1
  <2>2. CASE ~(i <= k)
    <3>1. i - k \in 1 .. n /\ b + (i - k) = a + i
      BY <1>2, <2>2
    <3> QED
      BY <1>3, <1>4, <2>2, <3>1
  <2> QED
    BY <2>1, <2>2
<1>6. p \o q = r
  BY <1>3, <1>4, <1>5, SeqEqual
<1> QED
  BY <1>1, <1>6

\* The parts of a message are runs of its bytes.
LEMMA PartIsRun ==
  ASSUME NEW m
  PROVE  Part(m, "header") = Run(m, 0, HeaderLen) /\ Part(m, "body") = Run(m, HeaderLen, Total)
<1>1. HeaderLen - 0 = HeaderLen /\ Total - HeaderLen = BodyLen
      /\ \A i \in 1 .. HeaderLen : 0 + i = i
  BY Numbers
<1> QED
  BY <1>1 DEF Part, Run, TheByte

\* An empty run.
LEMMA RunNothing == ASSUME NEW m, NEW a \in Nat PROVE Run(m, a, a) = <<>>
<1>1. a - a = 0 /\ 1 .. 0 = {}
  OBVIOUS
<1>2. Run(m, a, a) = [i \in 1 .. 0 |-> TheByte(m, a + i)]
  BY <1>1 DEF Run
<1> QED
  BY <1>1, <1>2

\* What lies between a and b bytes behind the start of a run.
Cut(m, o, c, a, b, d, f, first) ==
  /\ m \in Message
  /\ o \in Nat /\ c \in Nat /\ a \in Nat /\ b \in Nat /\ d \in Nat /\ f \in Nat
  /\ first \in Nat
  /\ c <= Total /\ a <= b /\ o + b <= c
  /\ d = o + a /\ f = o + b /\ first = a + 1

\* A part of a run is a run.
LEMMA SubRun ==
  ASSUME NEW m, NEW o, NEW c, NEW a, NEW b, NEW d, NEW f, NEW first,
         Cut(m, o, c, a, b, d, f, first)
  PROVE  SubSeq(Run(m, o, c), first, b) = Run(m, d, f)
<1>a. /\ m \in Message /\ o \in Nat /\ c \in Nat /\ a \in Nat /\ b \in Nat /\ d \in Nat /\ f \in Nat
      /\ first \in Nat /\ c <= Total /\ first >= 1
  BY DEF Cut
<1>0. PICK k \in Nat, n \in Nat : k = c - o /\ n = b - a /\ n = b - first + 1
  BY DEF Cut
<1>1. o <= c /\ d <= f /\ f <= Total /\ b <= k /\ f - d = n
  BY <1>0, Numbers DEF Cut
<1>2. PICK r \in Seq(Byte), q \in Seq(Byte) : r = Run(m, o, c) /\ q = Run(m, d, f)
  <2>1. Run(m, o, c) \in Seq(Byte)
    BY <1>a, <1>1, RunFacts
  <2>2. Run(m, d, f) \in Seq(Byte)
    BY <1>a, <1>1, RunFacts
  <2> QED
    BY <2>1, <2>2
<1>3. Len(r) = k /\ \A i \in 1 .. k : r[i] = TheByte(m, o + i)
  <2>1. Len(Run(m, o, c)) = c - o
    BY <1>a, <1>1, RunFacts
  <2>2. \A i \in 1 .. c - o : Run(m, o, c)[i] = TheByte(m, o + i)
    BY <1>a, <1>1, RunFacts
  <2> QED
    BY <1>0, <1>2, <2>1, <2>2, Zenon
<1>4. Len(q) = n /\ \A i \in 1 .. n : q[i] = TheByte(m, d + i)
  <2>1. Len(Run(m, d, f)) = f - d
    BY <1>a, <1>1, RunFacts
  <2>2. \A i \in 1 .. f - d : Run(m, d, f)[i] = TheByte(m, d + i)
    BY <1>a, <1>1, RunFacts
  <2> QED
    BY <1>1, <1>2, <2>1, <2>2, Zenon
<1>5. PICK t \in Seq(Byte) :
        /\ t = SubSeq(r, first, b)
        /\ Len(t) = IF first <= b THEN n ELSE 0
        /\ \A i \in 1 .. n : t[i] = r[first + i - 1]
  <2>1. first \in Nat /\ first >= 1 /\ b \in Nat /\ b <= Len(r)
    BY <1>a, <1>1, <1>3
  <2>2. SubSeq(r, first, b) \in Seq(Byte)
    BY <2>1, SubSeqBytes
  <2>3. Len(SubSeq(r, first, b)) = IF first <= b THEN b - first + 1 ELSE 0
    BY <2>1, SubSeqBytes
  <2>4. \A i \in 1 .. b - first + 1 : SubSeq(r, first, b)[i] = r[first + i - 1]
    BY <2>1, SubSeqBytes
  <2> QED
    BY <1>0, <2>2, <2>3, <2>4
<1>6. Len(t) = n
  <2>1. ~(first <= b) => n = 0
    BY <1>0, <1>a
  <2> QED
    BY <1>5, <2>1
<1>7. ASSUME NEW i \in 1 .. n PROVE t[i] = q[i]
  <2>1. PICK j \in 1 .. k : j = first + i - 1 /\ o + j = d + i
    <3>1. /\ first + i - 1 = a + i /\ a + i \in 1 .. k /\ o + (a + i) = d + i
      <4>1. first + i - 1 = a + i
        BY DEF Cut
      <4>2. a + i \in 1 .. k
        BY <1>0, <1>1 DEF Cut
      <4>3. o + (a + i) = d + i
        BY DEF Cut
      <4> QED
        BY <4>1, <4>2, <4>3
    <3> QED
      BY <3>1
  <2>2. t[i] = r[j]
    BY <1>5, <2>1
  <2>3. r[j] = TheByte(m, o + j)
    BY <1>3, Zenon
  <2>4. q[i] = TheByte(m, d + i)
    BY <1>4, Zenon
  <2> QED
    BY <2>1, <2>2, <2>3, <2>4
<1>8. t = q
  BY <1>4, <1>6, <1>7, SeqEqual
<1> QED
  BY <1>2, <1>5, <1>8

\* A run without its first n bytes, and those.
Splits(m, a, c, n, d, first, k) ==
  /\ m \in Message /\ a \in Nat /\ c \in Nat /\ n \in Nat
  /\ d = a + n /\ d <= c /\ c <= Total /\ first = n + 1 /\ k = c - a

LEMMA RunSplits ==
  ASSUME NEW m, NEW a, NEW c, NEW n, NEW d,
         NEW first, NEW k, Splits(m, a, c, n, d, first, k)
  PROVE  /\ SubSeq(Run(m, a, c), 1, n) = Run(m, a, d)
         /\ SubSeq(Run(m, a, c), first, k) = Run(m, d, c)
<1>a. /\ m \in Message /\ a \in Nat /\ c \in Nat /\ n \in Nat /\ d \in Nat
      /\ d = a + n /\ d <= c /\ c <= Total
      /\ first = n + 1 /\ first \in Nat /\ k = c - a /\ k \in Nat
  BY DEF Splits
<1>1. PICK one \in Nat, zero \in Nat : one = 1 /\ zero = 0
  OBVIOUS
<1>2. SubSeq(Run(m, a, c), one, n) = Run(m, a, d)
  <2>1. Cut(m, a, c, zero, n, a, d, one)
    BY <1>a, <1>1 DEF Cut
  <2> QED
    BY <2>1, SubRun
<1>3. SubSeq(Run(m, a, c), first, k) = Run(m, d, c)
  <2>1. PICK f : f = c
    OBVIOUS
  <2>2. Cut(m, a, c, n, k, d, f, first)
    BY <1>a, <1>1, <2>1 DEF Cut
  <2>3. SubSeq(Run(m, a, c), first, k) = Run(m, d, f)
    BY <2>2, SubRun
  <2> QED
    BY <2>1, <2>3, Zenon
<1> QED
  BY <1>1, <1>2, <1>3

-----------------------------------------------------------------------------
(* The steps of the transport *)

\* What a position says of the message that is sent.
LEMMA PosIs ==
  ASSUME NEW m \in Message, NEW p \in Nat, p <= Total
  PROVE  /\ Pos(m, p) \in Sending
         /\ Pos(m, p) # Idle /\ Pos(m, p).call # "failed"
         /\ Leaving(Pos(m, p)) = IF p < Total THEN {m} ELSE {}
         /\ Pos(m, p).call \in {"header", "body"} <=> p < Total
<1>1. CASE p < HeaderLen
  <2>1. Pos(m, p) = [call |-> "header", message |-> m, sent |-> p]
    BY <1>1 DEF Pos
  <2>2. p \in 0 .. HeaderLen - 1 /\ p < Total
    BY <1>1, Numbers
  <2> QED
    BY <2>1, <2>2, SendingMade, LeavingCases DEF Idle
<1>2. CASE ~(p < HeaderLen) /\ p < Total
  <2>1. Pos(m, p) = [call |-> "body", message |-> m, sent |-> p - HeaderLen]
    BY <1>2 DEF Pos
  <2>2. p - HeaderLen \in 0 .. BodyLen - 1
    BY <1>2, Numbers DEF Total
  <2> QED
    BY <1>2, <2>1, <2>2, SendingMade, LeavingCases DEF Idle
<1>3. CASE ~(p < HeaderLen) /\ ~(p < Total)
  <2>1. Pos(m, p) = [call |-> "sent"]
    BY <1>3 DEF Pos
  <2> QED
    BY <1>3, <2>1, SendingMade, LeavingCases DEF Idle
<1> QED
  BY <1>1, <1>2, <1>3, Numbers

\* A call of drpc_tcp_send_message is at some position of its message.
LEMMA BusyAtPos ==
  ASSUME NEW s \in Sending, s.call \in {"header", "body"}
  PROVE  \E m \in Message, p \in 0 .. Total - 1 :
           /\ s = Pos(m, p) /\ s.message = m /\ s.sent \in Nat
           /\ s.call = "header" <=> p < HeaderLen
           /\ p = s.sent + (IF s.call = "header" THEN 0 ELSE HeaderLen)
<1>1. CASE \E m \in Message, n \in 0 .. HeaderLen - 1 :
             s = [call |-> "header", message |-> m, sent |-> n]
  <2>1. PICK m \in Message, n \in 0 .. HeaderLen - 1 :
          s = [call |-> "header", message |-> m, sent |-> n]
    BY <1>1
  <2>2. n \in 0 .. Total - 1 /\ n < HeaderLen /\ n + 0 = n
    BY Numbers
  <2>3. s = Pos(m, n)
    BY <2>1, <2>2 DEF Pos
  <2> QED
    BY <2>1, <2>2, <2>3
<1>2. CASE \E m \in Message, n \in 0 .. BodyLen - 1 :
             s = [call |-> "body", message |-> m, sent |-> n]
  <2>1. PICK m \in Message, n \in 0 .. BodyLen - 1 :
          s = [call |-> "body", message |-> m, sent |-> n]
    BY <1>2
  <2>2. PICK p \in Nat : p = n + HeaderLen
    BY Numbers
  <2>3. /\ p \in 0 .. Total - 1 /\ ~(p < HeaderLen) /\ p < Total
        /\ p - HeaderLen = n
    BY <2>2, Numbers DEF Total
  <2>4. s = Pos(m, p)
    BY <2>1, <2>3 DEF Pos
  <2> QED
    BY <2>1, <2>2, <2>3, <2>4
<1>3. s # Idle /\ s # [call |-> "sent"] /\ s # [call |-> "failed"]
  BY DEF Idle
<1> QED
  BY <1>1, <1>2, <1>3, SendingCases

\* The header and the body have the lengths that they should have.
LEMMA HeaderPart ==
  ASSUME NEW m \in Message
  PROVE  /\ Part(m, "header") = Run(m, 0, HeaderLen)
         /\ Part(m, "header") \in Seq(Byte) /\ Len(Part(m, "header")) = HeaderLen
<1>1. Part(m, "header") = Run(m, 0, HeaderLen)
  BY PartIsRun
<1>2. 0 \in Nat /\ 0 <= HeaderLen /\ HeaderLen <= Total /\ HeaderLen - 0 = HeaderLen
  BY Numbers
<1>3. Len(Run(m, 0, HeaderLen)) = HeaderLen - 0
  BY <1>2, Numbers, RunFacts
<1>4. Run(m, 0, HeaderLen) \in Seq(Byte)
  BY <1>2, Numbers, RunFacts
<1> QED
  BY <1>1, <1>2, <1>3, <1>4

\* Likewise for the body.
LEMMA BodyPart ==
  ASSUME NEW m \in Message
  PROVE  /\ Part(m, "body") = Run(m, HeaderLen, Total)
         /\ Part(m, "body") \in Seq(Byte) /\ Len(Part(m, "body")) = BodyLen
<1>1. Part(m, "body") = Run(m, HeaderLen, Total)
  BY PartIsRun
<1>2. HeaderLen <= Total /\ Total <= Total /\ Total - HeaderLen = BodyLen
  BY Numbers
<1>3. Len(Run(m, HeaderLen, Total)) = Total - HeaderLen
  BY <1>2, Numbers, RunFacts
<1>4. Run(m, HeaderLen, Total) \in Seq(Byte)
  BY <1>2, Numbers, RunFacts
<1> QED
  BY <1>1, <1>2, <1>3, <1>4

\* The bytes that send takes of a header, and of a body, are runs.
LEMMA HeaderBytes ==
  ASSUME NEW m \in Message, NEW p \in Nat, NEW n \in Nat, p + n <= HeaderLen
  PROVE  SubSeq(Part(m, "header"), p + 1, p + n) = Run(m, p, p + n)
<1>1. PICK d, first, zero, from :
        d = p + n /\ first = p + 1 /\ zero = 0 /\ from = p
  OBVIOUS
<1>2. Cut(m, zero, HeaderLen, p, d, from, d, first)
  BY <1>1, Numbers DEF Cut
<1>3. PICK to : to = d
  OBVIOUS
<1>4. Cut(m, zero, HeaderLen, p, d, from, to, first)
  BY <1>2, <1>3, Zenon
<1>5. SubSeq(Run(m, zero, HeaderLen), first, d) = Run(m, from, to)
  BY <1>4, SubRun
<1> QED
  BY <1>1, <1>3, <1>5, HeaderPart

\* Likewise for the body.
LEMMA BodyBytes ==
  ASSUME NEW m \in Message, NEW p \in Nat, NEW a \in Nat, NEW n \in Nat,
         p = HeaderLen + a, a + n <= BodyLen
  PROVE  SubSeq(Part(m, "body"), a + 1, a + n) = Run(m, p, p + n)
<1>1. PICK d, first, b, from :
        d = p + n /\ first = a + 1 /\ b = a + n /\ from = p
  OBVIOUS
<1>2. Cut(m, HeaderLen, Total, a, b, from, d, first)
  BY <1>1, Numbers DEF Cut, Total
<1>3. SubSeq(Run(m, HeaderLen, Total), first, b) = Run(m, from, d)
  BY <1>2, SubRun
<1> QED
  BY <1>1, <1>3, BodyPart

\* With the header sent the body comes.
LEMMA BodyFollows ==
  ASSUME NEW s, NEW m, NEW p, s = [call |-> "header", message |-> m, sent |-> p]
  PROVE  [s EXCEPT !.call = "body", !.sent = 0]
           = [call |-> "body", message |-> m, sent |-> 0]
<1>1. [s EXCEPT !.call = "body"] = [call |-> "body", message |-> m, sent |-> p]
  OBVIOUS
<1>2. PICK t : t = [s EXCEPT !.call = "body"]
  OBVIOUS
<1>3. t = [call |-> "body", message |-> m, sent |-> p]
  BY <1>1, <1>2
<1>4. [t EXCEPT !.sent = 0] = [call |-> "body", message |-> m, sent |-> 0]
  BY <1>3
<1> QED
  BY <1>2, <1>4, Zenon

\* send takes bytes, as they come in the message.
LEMMA SendSomeMoves ==
  ASSUME TransportType, NEW e \in Ends, SendSome(e)
  PROVE  \E m \in Message, p \in Nat, n \in Nat :
           /\ n >= 1 /\ p + n <= Total
           /\ sending[e] = Pos(m, p)
           /\ sending' = [sending EXCEPT ![e] = Pos(m, p + n)]
           /\ stream' = [stream EXCEPT ![Peer(e)] = @ \o Run(m, p, p + n)]
<1> DEFINE s == sending[e]
           part == Part(s.message, s.call)
<1>1. s \in Sending /\ s.call \in {"header", "body"}
  BY DEF TransportType, SendSome
<1>2. PICK m \in Message, p \in Nat :
        /\ p < Total
        /\ s = Pos(m, p) /\ s.message = m /\ s.sent \in Nat
        /\ s.call = "header" <=> p < HeaderLen
        /\ p = s.sent + (IF s.call = "header" THEN 0 ELSE HeaderLen)
  BY <1>1, BusyAtPos, Numbers
<1>a. Len(part) \in Nat /\ s.sent \in Nat
  <2>1. s.call = "header" \/ s.call = "body"
    BY <1>1
  <2> QED
    <3>1. Len(Part(m, "header")) \in Nat /\ Len(Part(m, "body")) \in Nat
      BY HeaderPart, BodyPart, Numbers
    <3> QED
      BY <1>2, <2>1, <3>1
<1>b. PICK room \in Int : room = Len(part) - s.sent
  BY <1>a
<1>3. PICK n \in 1 .. room :
        /\ stream' = [stream EXCEPT ![Peer(e)] =
                        @ \o SubSeq(part, s.sent + 1, s.sent + n)]
        /\ sending' = [sending EXCEPT ![e] =
             IF s.sent + n < Len(part) THEN [s EXCEPT !.sent = @ + n]
             ELSE IF s.call = "header" THEN [s EXCEPT !.call = "body", !.sent = 0]
             ELSE [call |-> "sent"]]
  BY <1>b DEF SendSome
<1>4. CASE p < HeaderLen
  <2>1. s = [call |-> "header", message |-> m, sent |-> p]
    BY <1>2, <1>4 DEF Pos
  <2>2. part = Part(m, "header") /\ Len(part) = HeaderLen
    BY <2>1, HeaderPart
  <2>3. n \in Nat /\ n >= 1 /\ p + n <= HeaderLen /\ p + n <= Total /\ p \in Nat
    BY <1>b, <2>1, <2>2, Numbers
  <2>4. SubSeq(part, p + 1, p + n) = Run(m, p, p + n)
    BY <2>2, <2>3, HeaderBytes
  <2>5. (IF s.sent + n < Len(part) THEN [s EXCEPT !.sent = @ + n]
         ELSE IF s.call = "header" THEN [s EXCEPT !.call = "body", !.sent = 0]
         ELSE [call |-> "sent"]) = Pos(m, p + n)
    <3>1. CASE p + n < HeaderLen
      BY <2>1, <2>2, <3>1 DEF Pos
    <3>2. CASE ~(p + n < HeaderLen)
      <4>1. p + n = HeaderLen /\ HeaderLen - HeaderLen = 0 /\ HeaderLen < Total
        BY <2>3, <3>2, Numbers
      <4>2. Pos(m, HeaderLen) = [call |-> "body", message |-> m, sent |-> 0]
        BY <4>1, Numbers DEF Pos
      <4>3. [s EXCEPT !.call = "body", !.sent = 0] = Pos(m, HeaderLen)
        BY <2>1, <4>2, BodyFollows
      <4>4. s.sent = p /\ s.call = "header"
        BY <2>1
      <4> QED
        BY <2>2, <3>2, <4>1, <4>3, <4>4
    <3> QED
      BY <3>1, <3>2
  <2>6. /\ sending' = [sending EXCEPT ![e] = Pos(m, p + n)]
        /\ stream' = [stream EXCEPT ![Peer(e)] = @ \o Run(m, p, p + n)]
    <3>1. s.sent = p
      BY <2>1
    <3> QED
      BY <1>3, <2>4, <2>5, <3>1
  <2> QED
    BY <1>2, <2>3, <2>6
<1>5. CASE ~(p < HeaderLen)
  <2>1. s = [call |-> "body", message |-> m, sent |-> p - HeaderLen]
    BY <1>2, <1>5, Numbers DEF Pos
  <2>2. part = Part(m, "body") /\ Len(part) = BodyLen
    BY <2>1, BodyPart
  <2>3. PICK a \in Nat : a = p - HeaderLen /\ p = HeaderLen + a
    BY <1>5, Numbers
  <2>4. n \in Nat /\ n >= 1 /\ a + n <= BodyLen /\ p + n <= Total /\ p \in Nat
    <3>1. n \in 1 .. BodyLen - a
      BY <1>b, <2>1, <2>2, <2>3
    <3> QED
      BY <2>3, <3>1, Numbers DEF Total
  <2>5. SubSeq(part, a + 1, a + n) = Run(m, p, p + n)
    BY <2>2, <2>3, <2>4, BodyBytes
  <2>6. (IF s.sent + n < Len(part) THEN [s EXCEPT !.sent = @ + n]
         ELSE IF s.call = "header" THEN [s EXCEPT !.call = "body", !.sent = 0]
         ELSE [call |-> "sent"]) = Pos(m, p + n)
    <3>1. /\ ~(p + n < HeaderLen) /\ p + n - HeaderLen = a + n
          /\ p + n < Total <=> a + n < BodyLen
      BY <2>3, <2>4, Numbers DEF Total
    <3>a. s = [call |-> "body", message |-> m, sent |-> a]
      BY <2>1, <2>3
    <3>2. CASE a + n < BodyLen
      <4>1. [s EXCEPT !.sent = @ + n] = [call |-> "body", message |-> m, sent |-> a + n]
        BY <3>a
      <4>2. Pos(m, p + n) = [call |-> "body", message |-> m, sent |-> a + n]
        <5>1. p + n < Total
          BY <3>1, <3>2
        <5>2. PICK q \in Nat : q = p + n
          BY <2>4
        <5>3. ~(q < HeaderLen) /\ q < Total /\ q - HeaderLen = a + n
          BY <2>4, <3>1, <5>1, <5>2, Numbers
        <5>4. Pos(m, q) = [call |-> "body", message |-> m, sent |-> q - HeaderLen]
          BY <5>3 DEF Pos
        <5> QED
          BY <5>2, <5>3, <5>4
      <4> QED
        BY <2>2, <3>a, <3>2, <4>1, <4>2
    <3>3. CASE ~(a + n < BodyLen)
      <4>1. Pos(m, p + n) = [call |-> "sent"]
        BY <3>1, <3>3 DEF Pos
      <4>2. s.sent = a /\ s.call = "body"
        BY <3>a
      <4> QED
        BY <2>2, <3>3, <4>1, <4>2
    <3> QED
      BY <3>2, <3>3
  <2>7. /\ sending' = [sending EXCEPT ![e] = Pos(m, p + n)]
        /\ stream' = [stream EXCEPT ![Peer(e)] = @ \o Run(m, p, p + n)]
    <3>1. s.sent = a
      BY <2>1, <2>3
    <3> QED
      BY <1>3, <2>5, <2>6, <3>1
  <2> QED
    BY <1>2, <2>4, <2>7
<1> QED
  BY <1>4, <1>5

\* send fails: nothing has been sent of the part, or a byte is taken back.
LEMMA SendErrorMoves ==
  ASSUME TransportType, NEW e \in Ends, SendError(e)
  PROVE  \E m \in Message, p \in 0 .. Total - 1 :
           /\ sending[e] = Pos(m, p)
           /\ \/ sending' = [sending EXCEPT ![e] = [call |-> "failed"]]
              \/ /\ p > 0 /\ sending' = [sending EXCEPT ![e] = Pos(m, p - 1)]
                 /\ torn'
<1> DEFINE s == sending[e]
<1>1. s \in Sending /\ s.call \in {"header", "body"}
  BY DEF TransportType, SendError
<1>2. PICK m \in Message, p \in 0 .. Total - 1 :
        /\ s = Pos(m, p) /\ s.message = m /\ s.sent \in Nat
        /\ s.call = "header" <=> p < HeaderLen
        /\ p = s.sent + (IF s.call = "header" THEN 0 ELSE HeaderLen)
  BY <1>1, BusyAtPos
<1>3. /\ sending' = [sending EXCEPT ![e] =
           IF s.sent = 0 THEN [call |-> "failed"] ELSE [s EXCEPT !.sent = @ - 1]]
      /\ torn' = (torn \/ s.sent > 0)
  BY DEF SendError
<1>4. CASE s.sent = 0
  BY <1>2, <1>3, <1>4
<1>5. CASE s.sent # 0
  <2>1. p \in Nat /\ Total \in Nat /\ p < Total
    BY Numbers
  <2>2. CASE p < HeaderLen
    <3>1. s = [call |-> "header", message |-> m, sent |-> p]
      BY <1>2, <2>2 DEF Pos
    <3>2. p > 0 /\ p - 1 < HeaderLen /\ s.sent > 0
      BY <1>5, <2>1, <2>2, <3>1, Numbers
    <3>3. [s EXCEPT !.sent = @ - 1] = Pos(m, p - 1)
      BY <3>1, <3>2 DEF Pos
    <3> QED
      BY <1>2, <1>3, <1>5, <3>2, <3>3
  <2>3. CASE ~(p < HeaderLen)
    <3>1. s = [call |-> "body", message |-> m, sent |-> p - HeaderLen]
      BY <1>2, <2>1, <2>3, Numbers DEF Pos
    <3>2. /\ p > 0 /\ ~(p - 1 < HeaderLen) /\ p - 1 < Total
          /\ p - 1 - HeaderLen = p - HeaderLen - 1 /\ p - HeaderLen > 0
      BY <1>5, <2>1, <2>3, <3>1, Numbers
    <3>3. [s EXCEPT !.sent = @ - 1] = Pos(m, p - 1)
      BY <3>1, <3>2 DEF Pos
    <3>4. s.sent > 0
      BY <3>1, <3>2
    <3> QED
      BY <1>2, <1>3, <1>5, <3>2, <3>3, <3>4
  <2> QED
    BY <2>2, <2>3
<1> QED
  BY <1>4, <1>5

\* recv gives bytes, as they come in the stream.
LEMMA ReceiveSomeMoves ==
  ASSUME TransportType, NEW e \in Ends, ReceiveSome(e)
  PROVE  \E n \in Nat, b \in Seq(Byte) :
           /\ Reading(e) /\ n >= 1 /\ n <= Len(stream[e])
           /\ receiving[e].buf \in Seq(Byte)
           /\ b = receiving[e].buf \o SubSeq(stream[e], 1, n)
           /\ stream' = [stream EXCEPT ![e] = SubSeq(@, n + 1, Len(@))]
           /\ receiving' = [receiving EXCEPT ![e] =
                WithBuf(e, receiving[e],
                        IF receiving[e].call = "header" THEN HeaderLen ELSE BodyLen, b)]
           /\ InStream(b) \subseteq Coming(e)
           /\ n <= (IF receiving[e].call = "header" THEN HeaderLen ELSE BodyLen)
                   - Len(receiving[e].buf)
<1> DEFINE r == receiving[e]
           full == IF r.call = "header" THEN HeaderLen ELSE BodyLen
<1>1. r \in Receiving /\ r.call \in {"header", "body"} /\ stream[e] \in Seq(Byte)
  BY DEF TransportType, ReceiveSome
<1>2. r.buf \in Seq(Byte) /\ InStream(r.buf) \subseteq Held(r)
  <2>1. CASE \E b \in Seq(Byte) : r = [call |-> "header", buf |-> b] /\ Len(b) < HeaderLen
    BY <2>1, HeldCases
  <2>2. CASE \E m \in Message, b \in Seq(Byte) :
               r = [call |-> "body", message |-> m, buf |-> b] /\ Len(b) < BodyLen
    <3>1. PICK m \in Message, b \in Seq(Byte) : r = [call |-> "body", message |-> m, buf |-> b]
      BY <2>2
    <3>2. r.buf = b /\ Held(r) = InStream(b) \cup {m}
      BY <3>1, HeldCases
    <3> QED
      BY <3>2
  <2>3. r # Idle /\ r # [call |-> "failed"] /\ r # Undefined("bytes")
        /\ \A b : r # [call |-> "got", body |-> b]
    BY <1>1 DEF Idle, Undefined
  <2> QED
    BY <1>1, <2>1, <2>2, <2>3, ReceivingCases
<1>3. full \in Nat /\ Len(r.buf) \in Nat /\ Len(stream[e]) \in Nat
  BY <1>1, <1>2, LenProperties, Numbers
<1>4. PICK n \in 1 .. full - Len(r.buf) :
        /\ n <= Len(stream[e])
        /\ stream' = [stream EXCEPT ![e] = SubSeq(@, n + 1, Len(@))]
        /\ receiving' = [receiving EXCEPT ![e] =
                           WithBuf(e, r, full, r.buf \o SubSeq(stream[e], 1, n))]
  BY DEF ReceiveSome
<1>5. n \in Nat /\ n >= 1 /\ n <= full - Len(r.buf)
  BY <1>3, <1>4
<1>6. /\ SubSeq(stream[e], 1, n) \in Seq(Byte)
      /\ InStream(SubSeq(stream[e], 1, n)) \subseteq InStream(stream[e])
  <2>1. SubSeq(stream[e], 1, n) \in Seq(Byte)
    BY <1>1, <1>4, <1>5, SubSeqBytes
  <2>2. InStream(SubSeq(stream[e], 1, n)) \subseteq InStream(stream[e])
    BY <1>1, <1>4, <1>5, SubSeqBytes
  <2> QED
    BY <2>1, <2>2
<1>7. r.buf \o SubSeq(stream[e], 1, n) \in Seq(Byte)
  BY <1>2, <1>6, ConcatProperties
<1>8. InStream(r.buf \o SubSeq(stream[e], 1, n)) \subseteq Coming(e)
  BY <1>2, <1>6, InConcat DEF Coming
<1> QED
  BY <1>1, <1>2, <1>4, <1>5, <1>7, <1>8 DEF Reading

\* The keys at e are those of what it reads.
KeysFit(e) == Reading(e) => \A m \in Coming(e) : m.key = key[e]

\* What drpc_tcp_recv_message makes of a buffer b that got longer.
ReadsOn(r, b, next) ==
  \/ next = [call |-> "header", buf |-> b] /\ Len(b) < HeaderLen
  \/ next = [call |-> "failed"]
  \/ next = Undefined("bytes")
  \/ \E m \in InStream(b) :
       m \in Message /\ next = [call |-> "body", message |-> m, buf |-> <<>>]
  \/ \E m \in Message : /\ r.call = "body" /\ r.message = m /\ Len(b) < BodyLen
                        /\ next = [call |-> "body", message |-> m, buf |-> b]
  \/ \E m \in Message : /\ r.call = "body" /\ r.message = m
                        /\ b = Part(m, "body")
                        /\ next = [call |-> "got", body |-> m.body]

\* WithBuf does nothing else.
LEMMA WithBufCases ==
  ASSUME NEW e, NEW r \in Receiving, r.call \in {"header", "body"}, NEW b \in Seq(Byte),
         NEW full, full = (IF r.call = "header" THEN HeaderLen ELSE BodyLen),
         NEW next, next = WithBuf(e, r, full, b),
         r.call = "body" => r.message.key = key[e]
  PROVE  ReadsOn(r, b, next)
<1>1. Len(b) \in Nat /\ DOMAIN b = 1 .. Len(b)
  BY LenProperties
<1>2. CASE \E old \in Seq(Byte) : r = [call |-> "header", buf |-> old]
  <2>1. PICK old \in Seq(Byte) : r = [call |-> "header", buf |-> old]
    BY <1>2
  <2>2. CASE Len(b) < HeaderLen
    <3>1. next = [r EXCEPT !.buf = b]
      BY <2>1, <2>2 DEF WithBuf
    <3> QED
      BY <2>1, <2>2, <3>1 DEF ReadsOn
  <2>3. CASE ~(Len(b) < HeaderLen)
    <3>1. next = HeaderRead(b)
      BY <2>1, <2>3 DEF WithBuf
    <3>2. b[1] \in Byte /\ b[1].of \in InStream(b) /\ b[1].of \in Message
      <4>1. 1 \in DOMAIN b
        BY <1>1, <2>3, Numbers
      <4>2. b[1] \in Byte
        BY <4>1, ElementOfSeq, <1>1
      <4> QED
        BY <4>1, <4>2 DEF InStream, Byte
    <3> QED
      BY <3>1, <3>2 DEF HeaderRead, ReadsOn
  <2> QED
    BY <2>2, <2>3
<1>3. CASE \E m \in Message, old \in Seq(Byte) : r = [call |-> "body", message |-> m, buf |-> old]
  <2>1. PICK m \in Message, old \in Seq(Byte) : r = [call |-> "body", message |-> m, buf |-> old]
    BY <1>3
  <2>2. CASE Len(b) < BodyLen
    <3>1. next = [r EXCEPT !.buf = b]
      BY <2>1, <2>2 DEF WithBuf
    <3> QED
      BY <2>1, <2>2, <3>1 DEF ReadsOn
  <2>3. CASE ~(Len(b) < BodyLen)
    <3>1. next = BodyRead(e, m, b)
      BY <2>1, <2>3 DEF WithBuf
    <3>2. m.key = key[e]
      BY <2>1
    <3> QED
      BY <2>1, <3>1, <3>2 DEF BodyRead, ReadsOn
  <2> QED
    BY <2>2, <2>3
<1>4. r # Idle /\ r # [call |-> "failed"] /\ r # Undefined("bytes")
      /\ \A x : r # [call |-> "got", body |-> x]
  BY DEF Idle, Undefined
<1> QED
  BY <1>2, <1>3, <1>4, ReceivingCases

\* A message that is complete ends with the last byte that was read; when that
\* is the last there is, nothing more is on the way.
LEMMA LastByteRead ==
  ASSUME NEW m \in Message, NEW p \in Seq(Byte), NEW q \in Seq(Byte), NEW n \in Nat,
         n >= 1, n <= Len(q), p \o SubSeq(q, 1, n) = Part(m, "body")
  PROVE  n \in DOMAIN q /\ q[n].at = Total
<1>1. PICK t \in Seq(Byte) : t = SubSeq(q, 1, n) /\ Len(t) = n /\ t[n] = q[n]
  <2>1. SubSeq(q, 1, n) \in Seq(Byte)
    BY SubSeqBytes
  <2>2. Len(SubSeq(q, 1, n)) = IF 1 <= n THEN n - 1 + 1 ELSE 0
    BY SubSeqBytes
  <2>3. \A i \in 1 .. n - 1 + 1 : SubSeq(q, 1, n)[i] = q[1 + i - 1]
    BY SubSeqBytes
  <2>4. n - 1 + 1 = n /\ n \in 1 .. n - 1 + 1 /\ 1 + n - 1 = n
    OBVIOUS
  <2> QED
    BY <2>1, <2>2, <2>3, <2>4
<1>2. PICK a \in Nat : a = Len(p)
  BY LenProperties
<1>3. /\ Len(p \o t) = a + n
      /\ \A i \in 1 .. a + n : (p \o t)[i] = IF i <= a THEN p[i] ELSE t[i - a]
  BY <1>1, <1>2, ConcatProperties
<1>4. (p \o t)[a + n] = t[n]
  <2>1. a + n \in 1 .. a + n /\ ~(a + n <= a) /\ a + n - a = n
    OBVIOUS
  <2>2. PICK k \in 1 .. a + n : k = a + n /\ ~(k <= a) /\ k - a = n
    BY <2>1
  <2>3. (p \o t)[k] = t[k - a]
    BY <1>3, <2>2
  <2> QED
    BY <2>2, <2>3
<1>5. p \o t = Run(m, HeaderLen, Total) /\ a + n = BodyLen
  BY <1>1, <1>3, BodyPart
<1>6. Run(m, HeaderLen, Total)[BodyLen] = TheByte(m, Total)
  <2>1. HeaderLen + BodyLen = Total
    BY Numbers DEF Total
  <2>2. BodyLen \in 1 .. Total - HeaderLen
    BY Numbers
  <2>3. Run(m, HeaderLen, Total)[BodyLen] = TheByte(m, HeaderLen + BodyLen)
    BY <2>2 DEF Run
  <2> QED
    BY <2>1, <2>3
<1>7. Len(q) \in Nat /\ DOMAIN q = 1 .. Len(q)
  BY LenProperties
<1>8. q[n] = TheByte(m, Total)
  BY <1>1, <1>4, <1>5, <1>6, Zenon
<1>9. TheByte(m, Total).at = Total
  BY DEF TheByte
<1>10. n \in DOMAIN q
  BY <1>7
<1> QED
  BY <1>8, <1>9, <1>10

\* What a step of the transport may do to what is on the way to x.
Passes(x) ==
  /\ Coming(x)' \subseteq Coming(x)
  /\ Ended(x) => Ended(x)'
  /\ Got(x)' => \/ Got(x) /\ receiving'[x] = receiving[x]
                \/ /\ Reading(x)
                   /\ \E m \in Coming(x) : receiving'[x].body = m.body
                   /\ Ended(x) => Coming(x)' = {}
  /\ receiving[x] = Idle => receiving'[x] = Idle
  /\ sending[x] = Idle => sending'[x] = Idle

\* What is on the way to an end does not depend on anything else.
LEMMA Untouched ==
  ASSUME NEW x \in Ends, stream'[x] = stream[x],
         sending'[Peer(x)] = sending[Peer(x)], receiving'[x] = receiving[x]
  PROVE  Coming(x)' = Coming(x) /\ (Ended(x)' <=> Ended(x)) /\ (Got(x)' <=> Got(x))
BY DEF Coming, Ended, Got, Busy

\* The bytes that send takes are of a message that was on the way already.
LEMMA SendSomePasses ==
  ASSUME TransportType, NEW e \in Ends, SendSome(e), UNCHANGED others, NEW x \in Ends
  PROVE  TransportType' /\ Passes(x)
<1>1. PICK m \in Message, p \in Nat, n \in Nat :
        /\ n >= 1 /\ p + n <= Total
        /\ sending[e] = Pos(m, p)
        /\ sending' = [sending EXCEPT ![e] = Pos(m, p + n)]
        /\ stream' = [stream EXCEPT ![Peer(e)] = @ \o Run(m, p, p + n)]
  BY SendSomeMoves
<1>2. PICK b \in Nat : /\ b = p + n /\ b <= Total /\ p < b /\ p < Total /\ p <= b
                        /\ p <= Total
  BY <1>1, Numbers
<1>3. /\ UNCHANGED <<receiving, closed, key, torn>>
      /\ Peer(e) \in Ends /\ Peer(Peer(e)) = e /\ Peer(e) # e
      /\ stream[Peer(e)] \in Seq(Byte) /\ stream[e] \in Seq(Byte)
  BY TheEnds DEF SendSome, TransportType
<1>4. /\ Run(m, p, b) \in Seq(Byte)
      /\ InStream(Run(m, p, b)) \subseteq {m}
  <2>1. Run(m, p, b) \in Seq(Byte)
    BY <1>2, RunFacts
  <2>2. InStream(Run(m, p, b)) \subseteq {m}
    BY <1>2, RunFacts
  <2> QED
    BY <2>1, <2>2
<1>5. /\ stream'[Peer(e)] = stream[Peer(e)] \o Run(m, p, b) /\ stream'[e] = stream[e]
      /\ sending'[e] = Pos(m, b) /\ sending'[Peer(e)] = sending[Peer(e)]
      /\ receiving' = receiving
  BY <1>1, <1>2, <1>3 DEF TransportType
<1>6. stream[Peer(e)] \o Run(m, p, b) \in Seq(Byte)
  BY <1>3, <1>4, ConcatProperties
<1>7. TransportType'
  <2>1. stream' \in [Ends -> Seq(Byte)]
    BY <1>1, <1>2, <1>3, <1>6 DEF TransportType
  <2>2. /\ sending' = [f \in Ends |-> sending'[f]]
        /\ \A f \in Ends : sending'[f] \in Sending
    BY <1>1, <1>2, <1>5, PosIs DEF TransportType
  <2> QED
    BY <1>3, <2>1, <2>2 DEF TransportType, others, clientSide, serverSide
<1>8. Passes(Peer(e))
  <2>1. Coming(Peer(e))' \subseteq Coming(Peer(e))
    <3>1. InStream(stream'[Peer(e)]) \subseteq InStream(stream[Peer(e)]) \cup {m}
      BY <1>3, <1>4, <1>5, InConcat
    <3>2. Leaving(sending[e]) = {m} /\ Leaving(sending'[e]) \subseteq {m}
      BY <1>1, <1>2, <1>5, PosIs
    <3> QED
      BY <1>3, <1>5, <3>1, <3>2 DEF Coming
  <2>2. ASSUME Ended(Peer(e)) PROVE Ended(Peer(e))'
    <3>1. PICK q \in Seq(Byte), t \in Seq(Byte) :
            q = stream[Peer(e)] /\ t = Run(m, p, b)
      BY <1>3, <1>4
    <3>2. PICK k \in Nat, l \in Nat : k = Len(q) /\ l = Len(t)
      BY LenProperties
    <3>3. l = b - p
      <4>1. Len(Run(m, p, b)) = b - p
        BY <1>2, RunFacts
      <4> QED
        BY <3>1, <3>2, <4>1
    <3>4. /\ q \o t \in Seq(Byte) /\ Len(q \o t) = k + l
          /\ \A i \in 1 .. k + l : (q \o t)[i] = IF i <= k THEN q[i] ELSE t[i - k]
      BY <3>2, ConcatProperties
    <3>5. DOMAIN q = 1 .. k /\ DOMAIN (q \o t) = 1 .. k + l
      BY <3>2, <3>4, LenProperties
    <3>6. Busy(e)
      BY <1>1, <1>2, PosIs DEF Busy
    <3>7. \A i \in 1 .. k : q[i].at # Total
      BY <1>3, <2>2, <3>1, <3>5, <3>6 DEF Ended
    <3>8. \A i \in 1 .. l : t[i].at = p + i
      <4>1. \A i \in 1 .. b - p : Run(m, p, b)[i] = TheByte(m, p + i)
        BY <1>2, RunFacts
      <4>2. \A i \in 1 .. l : t[i] = TheByte(m, p + i)
        BY <3>1, <3>3, <4>1, Zenon
      <4>3. \A i : TheByte(m, p + i).at = p + i
        BY DEF TheByte
      <4> QED
        BY <4>2, <4>3
    <3>9. ASSUME NEW i \in 1 .. k + l, (q \o t)[i].at = Total
          PROVE  i = k + l /\ b = Total
      <4>1. ~(i <= k)
        BY <3>4, <3>7, <3>9
      <4>2. PICK j \in 1 .. l : j = i - k
        BY <4>1
      <4>3. t[j].at = Total
        BY <3>4, <3>9, <4>1, <4>2
      <4>4. p + j = Total
        BY <3>8, <4>3
      <4> QED
        BY <1>2, <3>3, <4>2, <4>4, Numbers
    <3>10. b = Total => ~Busy(e)'
      BY <1>2, <1>5, PosIs DEF Busy
    <3>11. stream'[Peer(e)] = q \o t
      BY <1>5, <3>1
    <3> QED
      BY <1>3, <3>4, <3>5, <3>9, <3>10, <3>11 DEF Ended
  <2>3. sending[Peer(e)] = Idle => sending'[Peer(e)] = Idle
    BY <1>5
  <2> QED
    BY <1>5, <2>1, <2>2, <2>3 DEF Passes, Got
<1>9. Passes(e)
  <2>1. Coming(e)' = Coming(e) /\ (Ended(e)' <=> Ended(e)) /\ (Got(e)' <=> Got(e))
    BY <1>5, Untouched
  <2>2. sending[e] # Idle
    <3>1. p <= Total
      BY <1>2, Numbers
    <3> QED
      BY <1>1, <3>1, PosIs
  <2> QED
    BY <1>5, <2>1, <2>2 DEF Passes
<1> QED
  BY <1>7, <1>8, <1>9, TheEnds

\* A send that fails puts nothing on the way.
LEMMA SendErrorPasses ==
  ASSUME TransportType, NEW e \in Ends, SendError(e), UNCHANGED others, NEW x \in Ends
  PROVE  TransportType' /\ Passes(x)
<1>1. PICK m \in Message, p \in 0 .. Total - 1 :
        /\ sending[e] = Pos(m, p)
        /\ \/ sending' = [sending EXCEPT ![e] = [call |-> "failed"]]
           \/ /\ p > 0 /\ sending' = [sending EXCEPT ![e] = Pos(m, p - 1)]
              /\ torn'
  BY SendErrorMoves
<1>2. p \in Nat /\ p < Total /\ p <= Total
      /\ (p > 0 => p - 1 \in Nat /\ p - 1 < Total /\ p - 1 <= Total)
  BY <1>1, Numbers
<1>3. /\ UNCHANGED <<stream, receiving, closed, key>>
      /\ Peer(e) \in Ends /\ Peer(Peer(e)) = e /\ Peer(e) # e
      /\ torn' \in BOOLEAN
  BY TheEnds DEF SendError, TransportType
<1>4. /\ sending'[e] \in Sending /\ Leaving(sending'[e]) \subseteq {m}
      /\ sending' = [f \in Ends |-> sending'[f]]
      /\ sending'[Peer(e)] = sending[Peer(e)]
  <2>1. CASE sending' = [sending EXCEPT ![e] = [call |-> "failed"]]
    BY <1>3, <2>1, SendingMade, LeavingCases DEF TransportType
  <2>2. CASE p > 0 /\ sending' = [sending EXCEPT ![e] = Pos(m, p - 1)]
    <3>1. Pos(m, p - 1) \in Sending /\ Leaving(Pos(m, p - 1)) \subseteq {m}
      BY <1>2, <2>2, PosIs
    <3> QED
      BY <1>3, <2>2, <3>1 DEF TransportType
  <2> QED
    BY <1>1, <2>1, <2>2
<1>5. /\ Leaving(sending[e]) = {m} /\ sending[e] # Idle /\ Busy(e)
  BY <1>1, <1>2, PosIs DEF Busy
<1>6. TransportType'
  <2>1. \A f \in Ends : sending'[f] \in Sending
    BY <1>3, <1>4, TheEnds DEF TransportType
  <2> QED
    BY <1>3, <1>4, <2>1 DEF TransportType, others, clientSide, serverSide
<1>7. Passes(Peer(e))
  <2>1. Coming(Peer(e))' \subseteq Coming(Peer(e))
    BY <1>3, <1>4, <1>5 DEF Coming
  <2>2. Ended(Peer(e)) => Ended(Peer(e))'
    BY <1>3, <1>5 DEF Ended
  <2>3. sending[Peer(e)] = Idle => sending'[Peer(e)] = Idle
    BY <1>4
  <2> QED
    BY <1>3, <2>1, <2>2, <2>3 DEF Passes, Got
<1>8. Passes(e)
  <2>1. Coming(e)' = Coming(e) /\ (Ended(e)' <=> Ended(e)) /\ (Got(e)' <=> Got(e))
    BY <1>3, <1>4, Untouched
  <2> QED
    BY <1>3, <1>5, <2>1 DEF Passes
<1> QED
  BY <1>6, <1>7, <1>8, TheEnds

\* A sequence without its last byte.
LEMMA FrontBytes ==
  ASSUME NEW b \in Seq(Byte), b # <<>>
  PROVE  /\ Front(b) \in Seq(Byte) /\ Len(Front(b)) \in Nat /\ Len(Front(b)) < Len(b)
         /\ InStream(Front(b)) \subseteq InStream(b)
<1>1. PICK n \in Nat : n = Len(b) /\ n # 0
  BY LenProperties, EmptySeq
<1>2. PICK k \in Nat : k = n - 1 /\ k <= Len(b)
  BY <1>1
<1>3. Front(b) = SubSeq(b, 1, k)
  BY <1>1, <1>2 DEF Front
<1>4. SubSeq(b, 1, k) \in Seq(Byte)
  BY <1>2, SubSeqBytes
<1>5. Len(SubSeq(b, 1, k)) = IF 1 <= k THEN k - 1 + 1 ELSE 0
  BY <1>2, SubSeqBytes
<1>6. InStream(SubSeq(b, 1, k)) \subseteq InStream(b)
  BY <1>2, SubSeqBytes
<1>7. Len(SubSeq(b, 1, k)) = k
  BY <1>5
<1> QED
  BY <1>1, <1>2, <1>3, <1>4, <1>6, <1>7

\* recv passes on what was on the way, and a message only when it is whole.
LEMMA ReceiveSomePasses ==
  ASSUME TransportType, NEW e \in Ends, KeysFit(e), ReceiveSome(e), UNCHANGED others,
         NEW x \in Ends
  PROVE  TransportType' /\ Passes(x)
<1>1. PICK n \in Nat, b \in Seq(Byte) :
        /\ Reading(e) /\ n >= 1 /\ n <= Len(stream[e])
        /\ receiving[e].buf \in Seq(Byte)
        /\ b = receiving[e].buf \o SubSeq(stream[e], 1, n)
        /\ stream' = [stream EXCEPT ![e] = SubSeq(@, n + 1, Len(@))]
        /\ receiving' = [receiving EXCEPT ![e] =
             WithBuf(e, receiving[e],
                     IF receiving[e].call = "header" THEN HeaderLen ELSE BodyLen, b)]
        /\ InStream(b) \subseteq Coming(e)
  BY ReceiveSomeMoves
<1>2. /\ UNCHANGED <<sending, closed, key, torn>>
      /\ Peer(e) \in Ends /\ Peer(Peer(e)) = e /\ Peer(e) # e
      /\ stream[e] \in Seq(Byte) /\ receiving[e] \in Receiving
  BY TheEnds DEF ReceiveSome, TransportType
<1>3. PICK q \in Seq(Byte), l \in Nat : q = stream[e] /\ l = Len(q)
  BY <1>2, LenProperties
<1>4. PICK t \in Seq(Byte) :
        /\ t = SubSeq(q, n + 1, l) /\ Len(t) = l - n
        /\ \A i \in 1 .. l - n : t[i] = q[n + i]
        /\ InStream(t) \subseteq InStream(q)
  <2>1. n + 1 \in Nat /\ n + 1 >= 1 /\ l <= Len(q)
    BY <1>3
  <2>2. SubSeq(q, n + 1, l) \in Seq(Byte)
    BY <2>1, SubSeqBytes
  <2>3. Len(SubSeq(q, n + 1, l)) = IF n + 1 <= l THEN l - (n + 1) + 1 ELSE 0
    BY <2>1, SubSeqBytes
  <2>4. \A i \in 1 .. l - (n + 1) + 1 : SubSeq(q, n + 1, l)[i] = q[n + 1 + i - 1]
    BY <2>1, SubSeqBytes
  <2>5. InStream(SubSeq(q, n + 1, l)) \subseteq InStream(q)
    BY <2>1, SubSeqBytes
  <2>6. /\ l - (n + 1) + 1 = l - n /\ (~(n + 1 <= l) => l - n = 0)
        /\ \A i \in 1 .. l - n : n + 1 + i - 1 = n + i
    BY <1>1, <1>3
  <2> QED
    BY <2>2, <2>3, <2>4, <2>5, <2>6
<1>0. PICK full : full = IF receiving[e].call = "header" THEN HeaderLen ELSE BodyLen
  OBVIOUS
<1>5. PICK next :
        /\ next = WithBuf(e, receiving[e], full, b)
        /\ receiving' = [receiving EXCEPT ![e] = next]
  BY <1>0, <1>1
<1>6. /\ stream'[e] = t /\ stream'[Peer(e)] = stream[Peer(e)]
      /\ receiving'[e] = next /\ receiving'[Peer(e)] = receiving[Peer(e)]
      /\ sending' = sending
  BY <1>1, <1>2, <1>3, <1>4, <1>5 DEF TransportType
<1>7. ReadsOn(receiving[e], b, next)
  <2>1. receiving[e].call \in {"header", "body"}
    BY <1>1 DEF Reading
  <2>2. receiving[e].call = "body" => receiving[e].message.key = key[e]
    BY <1>1 DEF KeysFit, Coming, Held
  <2> QED
    BY <1>0, <1>2, <1>5, <2>1, <2>2, WithBufCases
<1>8. next \in Receiving /\ Held(next) \subseteq Coming(e)
  <2>1. CASE next = [call |-> "header", buf |-> b] /\ Len(b) < HeaderLen
    BY <1>1, <2>1, ReceivingMade, HeldCases
  <2>2. CASE next = [call |-> "failed"] \/ next = Undefined("bytes")
    BY <2>2, ReceivingMade, HeldCases
  <2>3. CASE \E m \in InStream(b) :
               m \in Message /\ next = [call |-> "body", message |-> m, buf |-> <<>>]
    <3>1. PICK m \in Message :
            m \in InStream(b) /\ next = [call |-> "body", message |-> m, buf |-> <<>>]
      BY <2>3
    <3>2. <<>> \in Seq(Byte) /\ Len(<<>>) < BodyLen
      BY Numbers, EmptySeq
    <3>3. next \in Receiving
      BY <3>1, <3>2, ReceivingMade
    <3>4. Held(next) = InStream(<<>>) \cup {m}
      BY <3>1, HeldCases
    <3> QED
      BY <1>1, <3>1, <3>3, <3>4, InEmpty
  <2>4. CASE \E m \in Message : /\ receiving[e].call = "body" /\ receiving[e].message = m
                                /\ Len(b) < BodyLen
                                /\ next = [call |-> "body", message |-> m, buf |-> b]
    <3>1. PICK m \in Message : /\ receiving[e].call = "body" /\ receiving[e].message = m
                               /\ Len(b) < BodyLen
                               /\ next = [call |-> "body", message |-> m, buf |-> b]
      BY <2>4
    <3>2. m \in Coming(e)
      BY <3>1 DEF Coming, Held
    <3>3. Held(next) = InStream(b) \cup {m}
      BY <3>1, HeldCases
    <3> QED
      BY <1>1, <3>1, <3>2, <3>3, ReceivingMade
  <2>5. CASE \E m \in Message : /\ receiving[e].call = "body" /\ receiving[e].message = m
                                /\ b = Part(m, "body")
                                /\ next = [call |-> "got", body |-> m.body]
    <3>1. PICK m \in Message : next = [call |-> "got", body |-> m.body]
      BY <2>5
    <3>2. m.body \in Body
      BY DEF Message
    <3> QED
      BY <3>1, <3>2, ReceivingMade, HeldCases
  <2> QED
    BY <1>7, <2>1, <2>2, <2>3, <2>4, <2>5 DEF ReadsOn
<1>9. TransportType'
  <2>1. stream' \in [Ends -> Seq(Byte)]
    BY <1>1, <1>3, <1>4 DEF TransportType
  <2>2. /\ receiving' = [f \in Ends |-> receiving'[f]]
        /\ \A f \in Ends : receiving'[f] \in Receiving
    BY <1>1, <1>5, <1>8 DEF TransportType
  <2> QED
    BY <1>2, <2>1, <2>2 DEF TransportType, others, clientSide, serverSide
<1>10. Passes(e)
  <2>1. Coming(e)' \subseteq Coming(e)
    BY <1>3, <1>4, <1>6, <1>8 DEF Coming
  <2>2. DOMAIN t = 1 .. l - n /\ DOMAIN q = 1 .. l
    BY <1>3, <1>4, LenProperties
  <2>3. ASSUME Ended(e) PROVE Ended(e)'
    <3>1. \A i \in 1 .. l : q[i].at = Total => i = l /\ ~Busy(Peer(e))
      BY <1>3, <2>2, <2>3 DEF Ended
    <3>2. ASSUME NEW i \in 1 .. l - n, t[i].at = Total
          PROVE  i = l - n /\ ~Busy(Peer(e))
      <4>1. PICK j \in 1 .. l : j = n + i
        OBVIOUS
      <4>2. q[j].at = Total
        BY <1>4, <3>2, <4>1
      <4>3. j = l /\ ~Busy(Peer(e))
        BY <3>1, <4>2
      <4> QED
        BY <4>1, <4>3
    <3>3. Busy(Peer(e))' <=> Busy(Peer(e))
      BY <1>6 DEF Busy
    <3> QED
      BY <1>4, <1>6, <2>2, <3>2, <3>3 DEF Ended
  <2>4. ASSUME Got(e)'
        PROVE  /\ Reading(e)
               /\ \E m \in Coming(e) : receiving'[e].body = m.body
               /\ Ended(e) => Coming(e)' = {}
    <3>1. next.call = "got"
      BY <1>6, <2>4 DEF Got
    <3>2. PICK m \in Message : /\ receiving[e].call = "body" /\ receiving[e].message = m
                               /\ b = Part(m, "body")
                               /\ next = [call |-> "got", body |-> m.body]
      BY <1>7, <3>1 DEF Undefined, ReadsOn
    <3>3. m \in Coming(e)
      BY <3>2 DEF Coming, Held
    <3>4. ASSUME Ended(e) PROVE Coming(e)' = {}
      <4>1. n \in DOMAIN q /\ q[n].at = Total
        <5>1. PICK p \in Seq(Byte) : p = receiving[e].buf
          BY <1>1
        <5>2. p \o SubSeq(q, 1, n) = Part(m, "body")
          BY <1>1, <1>3, <3>2, <5>1
        <5> QED
          BY <1>1, <1>3, <5>2, LastByteRead
      <4>2. n = l /\ ~Busy(Peer(e))
        BY <1>3, <3>4, <4>1 DEF Ended
      <4>3. t = <<>>
        BY <1>4, <4>2, EmptySeq
      <4>4. Leaving(sending[Peer(e)]) = {}
        BY <4>2 DEF Busy, Leaving
      <4>5. Held(next) = {}
        BY <3>2, HeldCases
      <4> QED
        BY <1>6, <4>3, <4>4, <4>5, InEmpty DEF Coming
    <3> QED
      BY <1>1, <1>6, <3>2, <3>3, <3>4
  <2>5. receiving[e] # Idle
    BY <1>1 DEF Reading, Idle
  <2> QED
    BY <1>6, <2>1, <2>3, <2>4, <2>5 DEF Passes
<1>11. Passes(Peer(e))
  <2>1. /\ Coming(Peer(e))' = Coming(Peer(e)) /\ (Ended(Peer(e))' <=> Ended(Peer(e)))
        /\ (Got(Peer(e))' <=> Got(Peer(e)))
    BY <1>2, <1>6, Untouched
  <2> QED
    BY <1>6, <2>1 DEF Passes
<1> QED
  BY <1>9, <1>10, <1>11, TheEnds

\* The stream ends, or breaks: no message comes of it.
LEMMA ReceiveStopPasses ==
  ASSUME TransportType, NEW e \in Ends, ReceiveEnd(e) \/ ReceiveError(e),
         UNCHANGED others, NEW x \in Ends
  PROVE  TransportType' /\ Passes(x)
<1>1. /\ UNCHANGED <<sending, closed, key>> /\ torn' \in BOOLEAN /\ Reading(e)
      /\ Peer(e) \in Ends /\ Peer(Peer(e)) = e /\ Peer(e) # e
      /\ stream[e] \in Seq(Byte) /\ receiving[e] \in Receiving
  BY TheEnds DEF ReceiveEnd, ReceiveError, Reading, TransportType
<1>2. /\ stream' \in [Ends -> Seq(Byte)]
      /\ stream'[e] = <<>> /\ stream'[Peer(e)] = stream[Peer(e)]
  <2>1. CASE ReceiveEnd(e)
    BY <1>1, <2>1 DEF ReceiveEnd, TransportType
  <2>2. CASE ReceiveError(e)
    <3>1. stream' = [stream EXCEPT ![e] = <<>>]
      BY <2>2 DEF ReceiveError
    <3>2. <<>> \in Seq(Byte)
      BY EmptySeq
    <3> QED
      BY <1>1, <3>1, <3>2 DEF TransportType
  <2> QED
    BY <2>1, <2>2
<1>3. PICK next :
        /\ receiving' = [receiving EXCEPT ![e] = next]
        /\ \/ next = [call |-> "failed"]
           \/ /\ receiving[e].buf # <<>>
              /\ next = [receiving[e] EXCEPT !.buf = Front(@)]
  BY DEF ReceiveEnd, ReceiveError
<1>4. next \in Receiving /\ Held(next) \subseteq Held(receiving[e]) /\ next.call # "got"
  <2>1. CASE next = [call |-> "failed"]
    BY <2>1, ReceivingMade, HeldCases
  <2>2. CASE next # [call |-> "failed"]
    <3>1. receiving[e].buf # <<>> /\ next = [receiving[e] EXCEPT !.buf = Front(@)]
      BY <1>3, <2>2
    <3>2. CASE \E b \in Seq(Byte) :
                 receiving[e] = [call |-> "header", buf |-> b] /\ Len(b) < HeaderLen
      <4>1. PICK b \in Seq(Byte) :
              receiving[e] = [call |-> "header", buf |-> b] /\ Len(b) < HeaderLen
        BY <3>2
      <4>2. b # <<>> /\ next = [call |-> "header", buf |-> Front(b)]
        BY <3>1, <4>1
      <4>3. /\ Front(b) \in Seq(Byte) /\ Len(Front(b)) < HeaderLen
            /\ InStream(Front(b)) \subseteq InStream(b)
        BY <4>1, <4>2, FrontBytes, Numbers
      <4> QED
        BY <4>1, <4>2, <4>3, ReceivingMade, HeldCases
    <3>3. CASE \E m \in Message, b \in Seq(Byte) :
                 receiving[e] = [call |-> "body", message |-> m, buf |-> b] /\ Len(b) < BodyLen
      <4>1. PICK m \in Message, b \in Seq(Byte) :
              receiving[e] = [call |-> "body", message |-> m, buf |-> b] /\ Len(b) < BodyLen
        BY <3>3
      <4>2. b # <<>> /\ next = [call |-> "body", message |-> m, buf |-> Front(b)]
        BY <3>1, <4>1
      <4>3. /\ Front(b) \in Seq(Byte) /\ Len(Front(b)) < BodyLen
            /\ InStream(Front(b)) \subseteq InStream(b)
        BY <4>1, <4>2, FrontBytes, Numbers
      <4>4. Held(next) = InStream(Front(b)) \cup {m} /\ Held(receiving[e]) = InStream(b) \cup {m}
        BY <4>1, <4>2, HeldCases
      <4> QED
        BY <4>1, <4>2, <4>3, <4>4, ReceivingMade
    <3>4. /\ receiving[e] # Idle /\ receiving[e] # [call |-> "failed"]
          /\ receiving[e] # Undefined("bytes")
          /\ \A b : receiving[e] # [call |-> "got", body |-> b]
      BY <1>1 DEF Reading, Idle, Undefined
    <3> QED
      BY <1>1, <3>2, <3>3, <3>4, ReceivingCases
  <2> QED
    BY <2>1, <2>2
<1>5. receiving'[e] = next /\ receiving'[Peer(e)] = receiving[Peer(e)]
  BY <1>1, <1>3 DEF TransportType
<1>6. TransportType'
  <2>1. /\ receiving' = [f \in Ends |-> receiving'[f]]
        /\ \A f \in Ends : receiving'[f] \in Receiving
    BY <1>3, <1>4 DEF TransportType
  <2> QED
    BY <1>1, <1>2, <2>1 DEF TransportType, others, clientSide, serverSide
<1>7. Passes(e)
  <2>1. Coming(e)' \subseteq Coming(e)
    BY <1>1, <1>2, <1>4, <1>5, InEmpty DEF Coming
  <2>2. Ended(e)'
    BY <1>2 DEF Ended
  <2>3. ~Got(e)' /\ receiving[e] # Idle
    BY <1>1, <1>4, <1>5 DEF Got, Reading, Idle
  <2> QED
    BY <1>1, <2>1, <2>2, <2>3 DEF Passes
<1>8. Passes(Peer(e))
  <2>1. /\ Coming(Peer(e))' = Coming(Peer(e)) /\ (Ended(Peer(e))' <=> Ended(Peer(e)))
        /\ (Got(Peer(e))' <=> Got(Peer(e)))
    BY <1>1, <1>2, <1>5, Untouched
  <2> QED
    BY <1>1, <1>5, <2>1 DEF Passes
<1> QED
  BY <1>6, <1>7, <1>8, TheEnds

\* Whatever the transport does.
LEMMA TransportPasses ==
  ASSUME TransportType, \A e \in Ends : KeysFit(e),
         NEW e \in Ends, Sends(e) \/ Receives(e), UNCHANGED others
  PROVE  TransportType' /\ \A x \in Ends : Passes(x)
BY SendSomePasses, SendErrorPasses, ReceiveSomePasses, ReceiveStopPasses
   DEF Sends, Receives

-----------------------------------------------------------------------------
(* The steps of client and server *)

AtStart == [call |-> "header", buf |-> <<>>]

\* A call of drpc_tcp_send_message returns, one of drpc_tcp_recv_message
\* returns or begins; no message is sent.
Calm ==
  /\ stream' = stream
  /\ sending' = [e \in Ends |-> sending'[e]]
  /\ receiving' = [e \in Ends |-> receiving'[e]]
  /\ \A e \in Ends : /\ sending'[e] \in {sending[e], Idle}
                     /\ receiving'[e] \in {receiving[e], Idle, AtStart}

\* End e begins to send message m.
Speaks(e, m) ==
  /\ stream' = stream
  /\ sending' = [sending EXCEPT ![e] = Pos(m, 0)]
  /\ receiving' = [f \in Ends |-> receiving'[f]]
  /\ \A f \in Ends : receiving'[f] \in {receiving[f], Idle, AtStart}

\* All else that TransportType is about.
RestTyped ==
  /\ key' \in [Ends -> Keys] /\ torn' \in BOOLEAN /\ messages' \in [Ends -> Nat]
  /\ passwd' \in Passwords /\ users' \in Passwords \cup {Nothing}

\* A call of recv that returns or begins holds nothing.
LEMMA NewReads ==
  ASSUME TransportType, NEW e \in Ends, receiving'[e] \in {receiving[e], Idle, AtStart}
  PROVE  /\ receiving'[e] \in Receiving /\ Held(receiving'[e]) \subseteq Held(receiving[e])
         /\ Got(e)' => Got(e) /\ receiving'[e] = receiving[e]
<1>1. <<>> \in Seq(Byte) /\ Len(<<>>) < HeaderLen
  BY Numbers, EmptySeq
<1>2. AtStart \in Receiving /\ Held(AtStart) = {} /\ AtStart.call = "header"
  BY <1>1, ReceivingMade, HeldCases, InEmpty DEF AtStart
<1>3. Idle \in Receiving /\ Held(Idle) = {} /\ Idle.call = "idle"
  BY ReceivingMade, HeldCases DEF Idle
<1>4. receiving[e] \in Receiving
  BY DEF TransportType
<1> QED
  BY <1>2, <1>3, <1>4 DEF Got

\* At a calm step nothing comes on the way.
LEMMA CalmStep ==
  ASSUME TransportType, Calm, RestTyped
  PROVE  /\ TransportType'
         /\ \A e \in Ends : /\ Coming(e)' \subseteq Coming(e)
                            /\ Ended(e) => Ended(e)'
                            /\ Got(e)' => Got(e) /\ receiving'[e] = receiving[e]
<1>1. Leaving(Idle) = {} /\ Idle \in Sending /\ Idle.call = "idle"
  BY LeavingCases, SendingMade DEF Idle
<1>2. \A e \in Ends : /\ sending'[e] \in Sending /\ receiving'[e] \in Receiving
                      /\ Got(e)' => Got(e) /\ receiving'[e] = receiving[e]
                      /\ Leaving(sending'[e]) \subseteq Leaving(sending[e])
                      /\ Busy(e)' => Busy(e)
                      /\ Held(receiving'[e]) \subseteq Held(receiving[e])
  BY <1>1, NewReads DEF Calm, TransportType, Busy
<1>3. TransportType'
  BY <1>2 DEF TransportType, Calm, RestTyped
<1>4. ASSUME NEW e \in Ends
      PROVE  Coming(e)' \subseteq Coming(e) /\ (Ended(e) => Ended(e)')
  BY <1>2, TheEnds DEF Coming, Ended, Calm
<1> QED
  BY <1>2, <1>3, <1>4

\* With nothing on the way the stream is empty.
LEMMA NothingOnTheWay ==
  ASSUME TransportType, NEW e \in Ends, Coming(e) = {}
  PROVE  stream[e] = <<>>
<1>1. stream[e] \in Seq(Byte) /\ DOMAIN stream[e] = 1 .. Len(stream[e]) /\ Len(stream[e]) \in Nat
  BY LenProperties DEF TransportType
<1>2. DOMAIN stream[e] = {}
  BY DEF Coming, InStream
<1>3. PICK l \in Nat : l = Len(stream[e])
  BY <1>1
<1>4. 1 .. l = {}
  BY <1>1, <1>2, <1>3
<1>5. l = 0
  <2>1. l # 0 => 1 \in 1 .. l
    OBVIOUS
  <2> QED
    BY <1>4, <2>1
<1> QED
  BY <1>1, <1>3, <1>5, EmptySeq

\* One message comes on the way, to one end.
LEMMA SpeakStep ==
  ASSUME TransportType, NEW e \in Ends, NEW m \in Message, Speaks(e, m), RestTyped
  PROVE  /\ TransportType'
         /\ Coming(e)' \subseteq Coming(e)
         /\ Coming(Peer(e))' \subseteq Coming(Peer(e)) \cup {m}
         /\ Ended(e) => Ended(e)'
         /\ Coming(Peer(e)) = {} => Ended(Peer(e))'
         /\ \A f \in Ends : Got(f)' => Got(f) /\ receiving'[f] = receiving[f]
         /\ sending'[e] # Idle /\ sending'[Peer(e)] = sending[Peer(e)]
<1>1. 0 \in Nat /\ 0 <= Total /\ 0 < Total
  BY Numbers
<1>2. Pos(m, 0) \in Sending /\ Leaving(Pos(m, 0)) = {m} /\ Pos(m, 0) # Idle
  BY <1>1, PosIs
<1>3. /\ sending'[e] = Pos(m, 0) /\ sending'[Peer(e)] = sending[Peer(e)]
      /\ Peer(e) \in Ends /\ Peer(Peer(e)) = e /\ stream' = stream
  BY TheEnds DEF Speaks, TransportType
<1>4. \A f \in Ends : /\ receiving'[f] \in Receiving
                      /\ Held(receiving'[f]) \subseteq Held(receiving[f])
                      /\ Got(f)' => Got(f) /\ receiving'[f] = receiving[f]
  BY NewReads DEF Speaks
<1>5. TransportType'
  BY <1>2, <1>3, <1>4 DEF TransportType, Speaks, RestTyped
<1>6. Coming(e)' \subseteq Coming(e) /\ (Ended(e) => Ended(e)')
  BY <1>3, <1>4 DEF Coming, Ended, Busy
<1>7. Coming(Peer(e))' \subseteq Coming(Peer(e)) \cup {m}
  BY <1>2, <1>3, <1>4 DEF Coming
<1>8. ASSUME Coming(Peer(e)) = {} PROVE Ended(Peer(e))'
  <2>1. stream[Peer(e)] = <<>>
    BY <1>3, <1>8, NothingOnTheWay
  <2> QED
    BY <1>3, <2>1 DEF Ended
<1> QED
  BY <1>2, <1>3, <1>4, <1>5, <1>6, <1>7, <1>8

\* The application, the reader or the executor sends something.
LEMMA SendCall ==
  ASSUME TransportType, NEW e \in Ends, NEW type \in Types,
         NEW data \in Passwords \cup {"encrypt_xor", Nothing}, Send(e, type, data),
         stream' = stream, receiving' = [f \in Ends |-> receiving'[f]],
         \A f \in Ends : receiving'[f] \in {receiving[f], Idle, AtStart}
  PROVE  /\ \E m \in Message : /\ m.body.type = type /\ m.body.data = data /\ m.key = key[e]
                               /\ Speaks(e, m)
         /\ messages' \in [Ends -> Nat]
<1> DEFINE body == [type |-> type, data |-> data, number |-> messages[e]]
           m == [body |-> body, key |-> key[e]]
<1>1. body \in Body /\ key[e] \in Keys
  BY DEF TransportType, Body
<1>2. m \in Message
  BY <1>1 DEF Message
<1>3. Pos(m, 0) = [call |-> "header", message |-> m, sent |-> 0]
  BY Numbers DEF Pos
<1>4. sending' = [sending EXCEPT ![e] = Pos(m, 0)]
  BY <1>3 DEF Send, SendMessage
<1>5. Speaks(e, m)
  BY <1>4 DEF Speaks
<1>6. messages' \in [Ends -> Nat]
  BY DEF Send, TransportType
<1>7. m.body.type = type /\ m.body.data = data /\ m.key = key[e]
  OBVIOUS
<1> QED
  BY <1>2, <1>5, <1>6, <1>7

-----------------------------------------------------------------------------
(* Keys, and the steps of the transport *)

\* KeyInv says what KeysFit asks for.
LEMMA KeysFitAll == KeyInv => \A e \in Ends : KeysFit(e)
<1> SUFFICES ASSUME KeyInv, NEW e \in Ends, Reading(e), NEW m \in Coming(e)
             PROVE  m.key = key[e]
  BY DEF KeysFit
<1>1. receiving[e] # Idle
  BY DEF Reading, Idle
<1>2. CASE e = "client"
  BY <1>1, <1>2 DEF KeyInv, ClientShape, ToClient
<1>3. CASE e = "server"
  BY <1>1, <1>3 DEF KeyInv, ServerShape, ToServer
<1> QED
  BY <1>2, <1>3, TheEnds

\* The transport keeps KeyInv: it puts no message on the way.
LEMMA TransportKeeps ==
  ASSUME KeyInv, NEW e \in Ends, Sends(e) \/ Receives(e), UNCHANGED others
  PROVE  KeyInv'
<1>1. TransportType' /\ Passes("client") /\ Passes("server")
  BY KeysFitAll, TransportPasses, TheEnds DEF KeyInv
<1>2. UNCHANGED <<key, passwd, client, users, reader, user, events, executor, messages>>
  BY DEF others, clientSide, serverSide, Sends, Receives, SendSome, SendError,
         ReceiveSome, ReceiveEnd, ReceiveError
<1>3. ClientShape'
  BY <1>1, <1>2 DEF KeyInv, ClientShape, Passes
<1>4. ServerShape'
  BY <1>1, <1>2 DEF KeyInv, ServerShape, Passes
<1>5. ToServer'
  BY <1>1, <1>2 DEF KeyInv, ToServer, Passes, Fresh, Reading, Got
<1>6. ToClient'
  BY <1>1, <1>2 DEF KeyInv, ToClient, Passes, Fresh, Pinged, Reading, Got
<1> QED
  BY <1>1, <1>3, <1>4, <1>5, <1>6 DEF KeyInv

\* What a step at which nothing is sent may do to what is on the way.
Stays(e) ==
  /\ Coming(e)' \subseteq Coming(e)
  /\ Ended(e) => Ended(e)'
  /\ Got(e)' => Got(e) /\ receiving'[e] = receiving[e]

\* CalmStep, for each end.
LEMMA CalmStays ==
  ASSUME TransportType, Calm, RestTyped
  PROVE  TransportType' /\ Stays("client") /\ Stays("server")
BY CalmStep, TheEnds DEF Stays

\* A session's key is none of the handshake's.
LEMMA SessionKeys ==
  /\ NoKey \in Keys /\ \A p \in Passwords : SessionKey(p) \in Keys
  /\ \A p : SessionKey(p) # NoKey
BY DEF Keys, NoKey, SessionKey, Nothing

\* The rest of TransportType.
LEMMA RestIsTyped == TransportType' => RestTyped
BY DEF TransportType, RestTyped

-----------------------------------------------------------------------------
(* One message at a time on the way to an end *)

\* On the way are messages.
LEMMA ComingTyped ==
  ASSUME TransportType, NEW e \in Ends
  PROVE  Coming(e) \subseteq Message
<1>1. Peer(e) \in Ends /\ stream[e] \in Seq(Byte) /\ sending[Peer(e)] \in Sending
      /\ receiving[e] \in Receiving
  BY TheEnds DEF TransportType
<1>2. ASSUME NEW q \in Seq(Byte) PROVE InStream(q) \subseteq Message
  <2>1. \A i \in DOMAIN q : q[i] \in Byte
    BY LenProperties, ElementOfSeq
  <2> QED
    BY <2>1 DEF InStream, Byte
<1>3. Leaving(sending[Peer(e)]) \subseteq Message
  BY <1>1, SendingCases, LeavingCases
<1>4. Held(receiving[e]) \subseteq Message
  <2>1. CASE \E b \in Seq(Byte) :
               receiving[e] = [call |-> "header", buf |-> b] /\ Len(b) < HeaderLen
    BY <1>2, <2>1, HeldCases
  <2>2. CASE \E m \in Message, b \in Seq(Byte) :
               receiving[e] = [call |-> "body", message |-> m, buf |-> b] /\ Len(b) < BodyLen
    <3>1. PICK m \in Message, b \in Seq(Byte) :
            receiving[e] = [call |-> "body", message |-> m, buf |-> b]
      BY <2>2
    <3>2. Held(receiving[e]) = InStream(b) \cup {m}
      BY <3>1, HeldCases
    <3> QED
      BY <1>2, <3>1, <3>2
  <2>3. ~Reading(e) => Held(receiving[e]) = {}
    BY DEF Reading, Held
  <2>4. /\ receiving[e] = Idle => ~Reading(e)
        /\ receiving[e] = [call |-> "failed"] => ~Reading(e)
        /\ receiving[e] = Undefined("bytes") => ~Reading(e)
        /\ \A b \in Body : receiving[e] = [call |-> "got", body |-> b] => ~Reading(e)
    BY DEF Reading, Idle, Undefined
  <2> QED
    BY <1>1, <2>1, <2>2, <2>3, <2>4, ReceivingCases
<1> QED
  BY <1>1, <1>2, <1>3, <1>4 DEF Coming

\* With nothing on the way, a call of drpc_tcp_recv_message is where it began.
LEMMA NothingIsFlow ==
  ASSUME TransportType, NEW e \in Ends, Coming(e) = {}
  PROVE  /\ stream[e] = <<>> /\ ~Busy(Peer(e))
         /\ Reading(e) => receiving[e] = AtStart
<1>1. stream[e] = <<>>
  BY NothingOnTheWay
<1>2. ~Busy(Peer(e))
  BY DEF Coming, Leaving, Busy
<1>3. ASSUME Reading(e) PROVE receiving[e] = AtStart
  <2>1. receiving[e] \in Receiving /\ Held(receiving[e]) = {}
    BY DEF TransportType, Coming
  <2>2. receiving[e].call = "header"
    BY <1>3, <2>1 DEF Reading, Held
  <2>3. PICK b \in Seq(Byte) : receiving[e] = [call |-> "header", buf |-> b]
    BY <2>1, <2>2, ReceivingCases DEF Idle, Undefined
  <2>4. InStream(b) = {}
    BY <2>1, <2>3, HeldCases
  <2>5. PICK l \in Nat : l = Len(b) /\ DOMAIN b = 1 .. l
    BY LenProperties
  <2>6. 1 .. l = {}
    BY <2>4, <2>5 DEF InStream
  <2>7. l # 0 => 1 \in 1 .. l
    OBVIOUS
  <2>8. b = <<>>
    BY <2>5, <2>6, <2>7, EmptySeq
  <2> QED
    BY <2>3, <2>8 DEF AtStart
<1> QED
  BY <1>1, <1>2, <1>3

\* What flows is one message.
LEMMA FlowIsFramed ==
  ASSUME NEW e \in Ends, NEW m \in Message, NEW k \in Nat, NEW n \in Nat,
         k <= n, n <= Total, Flow(e, m, k, n)
  PROVE  Framed(e)
<1>0. k \in 0 .. Total /\ n \in 0 .. Total /\ k <= Total
  BY Numbers
<1>1. InStream(stream[e]) \subseteq {m}
  <2>1. InStream(Run(m, k, n)) \subseteq {m}
    BY RunFacts
  <2> QED
    BY <2>1 DEF Flow
<1>2. Leaving(sending[Peer(e)]) \subseteq {m}
  <2>1. CASE Busy(Peer(e))
    BY <2>1, PosIs DEF Flow
  <2>2. CASE ~Busy(Peer(e))
    BY <2>2 DEF Busy, Leaving
  <2> QED
    BY <2>1, <2>2
<1>3. Held(receiving[e]) \subseteq {m}
  <2>1. CASE receiving[e].call = "header"
    <3>1. receiving[e].buf = Run(m, 0, k)
      BY <2>1 DEF Flow
    <3>2. 0 \in Nat /\ 0 <= k
      OBVIOUS
    <3>3. InStream(Run(m, 0, k)) \subseteq {m}
      BY <1>0, <3>2, RunFacts
    <3> QED
      BY <2>1, <3>1, <3>3 DEF Held
  <2>2. CASE receiving[e].call = "body"
    <3>1. receiving[e].buf = Run(m, HeaderLen, k) /\ receiving[e].message = m
          /\ HeaderLen <= k
      BY <2>2 DEF Flow
    <3>2. InStream(Run(m, HeaderLen, k)) \subseteq {m}
      BY <1>0, <3>1, Numbers, RunFacts
    <3> QED
      BY <2>2, <3>1, <3>2 DEF Held
  <2>3. CASE receiving[e].call \notin {"header", "body"}
    BY <2>3 DEF Held
  <2> QED
    BY <2>1, <2>2, <2>3
<1>4. Coming(e) \subseteq {m}
  BY <1>1, <1>2, <1>3 DEF Coming
<1>5. m \in Coming(e) \/ Coming(e) = {}
  BY <1>4
<1> QED
  BY <1>0, <1>5 DEF Framed

FlowsAreFramed ==
  \A e \in Ends, m \in Message, k \in Nat, n \in Nat :
    k <= n /\ n <= Total /\ Flow(e, m, k, n) => Framed(e)

\* The same of the next state.
LEMMA FlowIsFramedNext == FlowsAreFramed'
<1>1. FlowsAreFramed
  BY FlowIsFramed DEF FlowsAreFramed
<1> QED
  BY <1>1, PTL

\* If something is on the way, it is one message that flows.
LEMMA FramedIsFlow ==
  ASSUME TransportType, NEW e \in Ends, Framed(e), Coming(e) # {}
  PROVE  \E m \in Message, k \in Nat, n \in Nat : k <= n /\ n <= Total /\ Flow(e, m, k, n)
<1>1. PICK m \in Coming(e), k \in 0 .. Total, n \in 0 .. Total : Flow(e, m, k, n)
  BY DEF Framed
<1>2. m \in Message /\ k \in Nat /\ n \in Nat /\ n <= Total /\ k <= n
  BY <1>1, ComingTyped, Numbers DEF Flow
<1> QED
  BY <1>1, <1>2

\* The position of a message that is being sent is known.
LEMMA PosInjective ==
  ASSUME NEW m \in Message, NEW p \in Nat, NEW x \in Message, NEW n \in Nat,
         p < Total, n <= Total, Pos(m, p) = Pos(x, n)
  PROVE  m = x /\ p = n
<1>1. CASE p < HeaderLen
  <2>1. Pos(m, p) = [call |-> "header", message |-> m, sent |-> p]
    BY <1>1 DEF Pos
  <2>2. n < HeaderLen
    BY <2>1 DEF Pos
  <2>3. Pos(x, n) = [call |-> "header", message |-> x, sent |-> n]
    BY <2>2 DEF Pos
  <2>4. Pos(m, p).message = m /\ Pos(m, p).sent = p
    BY <2>1
  <2>5. Pos(x, n).message = x /\ Pos(x, n).sent = n
    BY <2>3
  <2> QED
    BY <2>4, <2>5
<1>2. CASE ~(p < HeaderLen)
  <2>1. PICK s \in Int : s = p - HeaderLen
    BY Numbers
  <2>2. Pos(m, p) = [call |-> "body", message |-> m, sent |-> s]
    BY <1>2, <2>1 DEF Pos
  <2>3. ~(n < HeaderLen) /\ n < Total
    BY <2>2 DEF Pos
  <2>4. PICK t \in Int : t = n - HeaderLen
    BY Numbers
  <2>5. Pos(x, n) = [call |-> "body", message |-> x, sent |-> t]
    BY <2>3, <2>4 DEF Pos
  <2>6. m = x /\ s = t
    <3>1. Pos(m, p).message = m /\ Pos(m, p).sent = s
      BY <2>2
    <3>2. Pos(x, n).message = x /\ Pos(x, n).sent = t
      BY <2>5
    <3> QED
      BY <3>1, <3>2
  <2> QED
    BY <2>1, <2>4, <2>6, Numbers
<1> QED
  BY <1>1, <1>2

\* A step that leaves the stream alone, does not send, and touches no call of
\* drpc_tcp_recv_message that is reading, but one that leaves.
LEMMA FlowStays ==
  ASSUME TransportType, TransportType', NEW e \in Ends, Framed(e),
         stream'[e] = stream[e],
         sending'[Peer(e)] = sending[Peer(e)] \/ ~Busy(Peer(e))',
         \/ receiving'[e] = receiving[e]
         \/ ~Reading(e) /\ receiving'[e] \in {Idle, AtStart}
  PROVE  Framed(e)'
<1>1. CASE Coming(e) = {}
  <2>1. Leaving(sending'[Peer(e)]) = {}
    <3>1. ~Busy(Peer(e))
      BY <1>1, NothingIsFlow
    <3> QED
      BY <3>1 DEF Busy, Leaving
  <2>2. Held(receiving'[e]) = {}
    <3>1. Held(receiving[e]) = {} /\ Held(Idle) = {} /\ Held(AtStart) = {}
      BY <1>1, HeldCases, InEmpty DEF Coming, AtStart
    <3> QED
      BY <3>1
  <2>3. Coming(e)' = {}
    BY <1>1, <2>1, <2>2 DEF Coming
  <2> QED
    BY <2>3 DEF Framed
<1>2. CASE Coming(e) # {}
  <2>1. PICK m \in Message, k \in Nat, n \in Nat : k <= n /\ n <= Total /\ Flow(e, m, k, n)
    BY <1>2, FramedIsFlow
  <2>2. CASE receiving'[e] = receiving[e]
    <3>1. Flow(e, m, k, n)'
      BY <2>1, <2>2 DEF Flow, Busy
    <3> QED
      BY <2>1, <3>1, FlowIsFramedNext DEF FlowsAreFramed
  <2>3. CASE ~Reading(e) /\ receiving'[e] \in {Idle, AtStart}
    <3>1. k = 0
      BY <2>1, <2>3 DEF Flow, Reading
    <3>2. Run(m, 0, 0) = <<>>
      BY RunNothing
    <3>3. Flow(e, m, k, n)'
      BY <2>1, <2>3, <3>1, <3>2 DEF Flow, Busy, Idle, AtStart
    <3> QED
      BY <2>1, <3>3, FlowIsFramedNext DEF FlowsAreFramed
  <2> QED
    BY <2>2, <2>3
<1> QED
  BY <1>1, <1>2

\* send goes on with the message that is on the way.
LEMMA SendSomeFramed ==
  ASSUME TransportType, NEW e \in Ends, SendSome(e), UNCHANGED others, Framed(Peer(e))
  PROVE  Framed(Peer(e))'
<1> DEFINE to == Peer(e)
<1>1. PICK m \in Message, p \in Nat, i \in Nat :
        /\ i >= 1 /\ p + i <= Total
        /\ sending[e] = Pos(m, p)
        /\ sending' = [sending EXCEPT ![e] = Pos(m, p + i)]
        /\ stream' = [stream EXCEPT ![Peer(e)] = @ \o Run(m, p, p + i)]
  BY SendSomeMoves
<1>2. PICK b \in Nat : b = p + i /\ b <= Total /\ p < b /\ p < Total /\ p <= b /\ p <= Total
  BY <1>1, Numbers
<1>3. /\ to \in Ends /\ Peer(to) = e /\ e # to /\ receiving' = receiving
      /\ stream'[to] = stream[to] \o Run(m, p, b)
      /\ sending'[e] = Pos(m, b)
  BY <1>1, <1>2, TheEnds DEF SendSome, TransportType
<1>4. m \in Coming(to) /\ Busy(e)
  BY <1>1, <1>2, <1>3, PosIs DEF Coming, Busy
<1>5. PICK x \in Message, k \in Nat, n \in Nat : k <= n /\ n <= Total /\ Flow(to, x, k, n)
  BY <1>3, <1>4, FramedIsFlow
<1>6. Pos(m, p) = Pos(x, n)
  BY <1>1, <1>3, <1>4, <1>5 DEF Flow
<1>7. m = x /\ p = n
  BY <1>2, <1>5, <1>6, PosInjective
<1>8. k <= p /\ k <= b
  BY <1>2, <1>5, <1>7
<1>9. stream'[to] = Run(m, k, b)
  <2>1. stream[to] = Run(m, k, p)
    BY <1>5, <1>7 DEF Flow
  <2>2. Run(m, k, p) \o Run(m, p, b) = Run(m, k, b)
    BY <1>2, <1>8, RunConcat
  <2> QED
    BY <1>3, <2>1, <2>2
<1>10. Flow(to, m, k, b)'
  BY <1>3, <1>5, <1>7, <1>8, <1>9 DEF Flow
<1> QED
  BY <1>2, <1>3, <1>8, <1>10, FlowIsFramedNext DEF FlowsAreFramed

\* With the whole header of m in the buffer, m's body is what comes next.
LEMMA HeaderIsRead ==
  ASSUME NEW m \in Message
  PROVE  HeaderRead(Run(m, 0, HeaderLen)) = [call |-> "body", message |-> m, buf |-> <<>>]
<1>1. Part(m, "header") = Run(m, 0, HeaderLen)
  BY HeaderPart
<1>2. Part(m, "header")[1] = [of |-> m, at |-> 1]
  BY Numbers DEF Part
<1>3. /\ Run(m, 0, HeaderLen)[1].at = 1 /\ Run(m, 0, HeaderLen)[1].of = m
  BY <1>1, <1>2
<1> QED
  BY <1>1, <1>3 DEF HeaderRead

\* recv goes on with the message that is on the way.
LEMMA ReceiveSomeFramed ==
  ASSUME TransportType, TransportType', NEW e \in Ends, ReceiveSome(e), UNCHANGED others,
         KeysFit(e), Framed(e)
  PROVE  /\ Framed(e)' /\ receiving'[e] # Undefined("bytes")
         /\ Got(e)' => Coming(e)' = {}
<1>1. PICK i \in Nat, b \in Seq(Byte) :
        /\ Reading(e) /\ i >= 1 /\ i <= Len(stream[e])
        /\ b = receiving[e].buf \o SubSeq(stream[e], 1, i)
        /\ stream' = [stream EXCEPT ![e] = SubSeq(@, i + 1, Len(@))]
        /\ receiving' = [receiving EXCEPT ![e] =
             WithBuf(e, receiving[e],
                     IF receiving[e].call = "header" THEN HeaderLen ELSE BodyLen, b)]
        /\ i <= (IF receiving[e].call = "header" THEN HeaderLen ELSE BodyLen)
                - Len(receiving[e].buf)
  BY ReceiveSomeMoves
<1>2. /\ sending' = sending /\ Peer(e) \in Ends
      /\ stream'[e] = SubSeq(stream[e], i + 1, Len(stream[e]))
      /\ receiving'[e] = WithBuf(e, receiving[e],
           IF receiving[e].call = "header" THEN HeaderLen ELSE BodyLen, b)
  BY <1>1, TheEnds DEF ReceiveSome, TransportType
<1>3. Coming(e) # {}
  <2>1. stream[e] # <<>>
    BY <1>1, EmptySeq
  <2> QED
    BY <2>1, NothingOnTheWay
<1>4. PICK m \in Message, k \in Nat, n \in Nat : k <= n /\ n <= Total /\ Flow(e, m, k, n)
  BY <1>3, FramedIsFlow
<1>5. stream[e] = Run(m, k, n) /\ Len(stream[e]) = n - k
  <2>1. Len(Run(m, k, n)) = n - k
    BY <1>4, RunFacts
  <2> QED
    BY <1>4, <2>1 DEF Flow
<1>6. PICK j \in Nat : j = k + i /\ k <= j /\ j <= n /\ j <= Total /\ k <= Total
  BY <1>1, <1>4, <1>5, Numbers
<1>7. SubSeq(stream[e], 1, i) = Run(m, k, j) /\ stream'[e] = Run(m, j, n)
  <2>1. PICK first, l : first = i + 1 /\ l = n - k
    OBVIOUS
  <2>2. Splits(m, k, n, i, j, first, l)
    BY <1>4, <1>6, <2>1 DEF Splits
  <2>3. SubSeq(Run(m, k, n), 1, i) = Run(m, k, j)
    BY <2>2, RunSplits
  <2>4. SubSeq(Run(m, k, n), first, l) = Run(m, j, n)
    BY <2>2, RunSplits
  <2> QED
    BY <1>2, <1>5, <2>1, <2>3, <2>4
<1>a. b = receiving[e].buf \o Run(m, k, j)
  BY <1>1, <1>7
<1>8. CASE receiving[e].call = "header"
  <2>1. PICK old \in Seq(Byte) :
          receiving[e] = [call |-> "header", buf |-> old] /\ Len(old) < HeaderLen
    BY <1>8, ReceivingCases DEF TransportType, Idle, Undefined
  <2>2. b = Run(m, 0, j)
    <3>1. old = Run(m, 0, k)
      BY <1>4, <2>1 DEF Flow
    <3>2. 0 \in Nat /\ 0 <= k
      OBVIOUS
    <3>3. Run(m, 0, k) \o Run(m, k, j) = Run(m, 0, j)
      BY <1>6, <3>2, RunConcat
    <3> QED
      <4>1. receiving[e].buf = old
        BY <2>1
      <4> QED
        BY <1>a, <3>1, <3>3, <4>1, Zenon
  <2>3. Len(b) = j
    <3>1. 0 \in Nat /\ 0 <= j /\ j - 0 = j
      OBVIOUS
    <3>2. Len(Run(m, 0, j)) = j - 0
      BY <1>6, <3>1, RunFacts
    <3> QED
      BY <2>2, <3>1, <3>2
  <2>4. CASE j < HeaderLen
    <3>1. receiving'[e] = [call |-> "header", buf |-> b]
      <4>1. receiving'[e] = [receiving[e] EXCEPT !.buf = b]
        BY <1>2, <1>8, <2>3, <2>4 DEF WithBuf
      <4> QED
        BY <2>1, <4>1
    <3>2. Flow(e, m, j, n)'
      BY <1>2, <1>4, <1>6, <1>7, <2>2, <3>1 DEF Flow, Busy
    <3>3. Framed(e)'
      BY <1>4, <1>6, <3>2, FlowIsFramedNext DEF FlowsAreFramed
    <3> QED
      BY <3>1, <3>3 DEF Undefined, Got
  <2>5. CASE ~(j < HeaderLen)
    <3>1. j = HeaderLen
      <4>1. Len(old) = k /\ k < HeaderLen
        <5>1. Len(old) < HeaderLen
          BY <2>1
        <5>2. old = Run(m, 0, k)
          BY <1>4, <2>1 DEF Flow
        <5>3. 0 \in Nat /\ 0 <= k /\ k - 0 = k
          OBVIOUS
        <5>4. Len(Run(m, 0, k)) = k - 0
          BY <1>6, <5>3, RunFacts
        <5> QED
          BY <5>1, <5>2, <5>3, <5>4
      <4>2. i <= HeaderLen - k
        <5>1. receiving[e].buf = old
          BY <2>1
        <5>2. i <= HeaderLen - Len(old)
          BY <1>1, <1>8, <5>1
        <5> QED
          BY <4>1, <5>2
      <4> QED
        BY <1>6, <2>5, <4>2, Numbers
    <3>2. receiving'[e] = HeaderRead(b)
      BY <1>2, <1>8, <2>3, <2>5 DEF WithBuf
    <3>3. receiving'[e] = [call |-> "body", message |-> m, buf |-> <<>>]
      BY <2>2, <3>1, <3>2, HeaderIsRead
    <3>4. Run(m, HeaderLen, j) = <<>>
      BY <3>1, RunNothing, Numbers
    <3>5. Flow(e, m, j, n)'
      BY <1>2, <1>4, <1>6, <1>7, <3>1, <3>3, <3>4, Numbers DEF Flow, Busy
    <3>6. Framed(e)'
      BY <1>4, <1>6, <3>5, FlowIsFramedNext DEF FlowsAreFramed
    <3> QED
      BY <3>3, <3>6 DEF Undefined, Got
  <2> QED
    BY <2>4, <2>5
<1>9. CASE receiving[e].call = "body"
  <2>1. PICK old \in Seq(Byte) : /\ receiving[e] = [call |-> "body", message |-> m, buf |-> old]
                                 /\ Len(old) < BodyLen
    <3>1. PICK x \in Message, old \in Seq(Byte) :
            receiving[e] = [call |-> "body", message |-> x, buf |-> old] /\ Len(old) < BodyLen
      BY <1>9, ReceivingCases DEF TransportType, Idle, Undefined
    <3>2. x = m
      BY <1>4, <3>1 DEF Flow
    <3> QED
      BY <3>1, <3>2
  <2>2. old = Run(m, HeaderLen, k) /\ HeaderLen <= k /\ HeaderLen <= j
    BY <1>4, <1>6, <2>1, Numbers DEF Flow
  <2>3. b = Run(m, HeaderLen, j)
    <3>1. Run(m, HeaderLen, k) \o Run(m, k, j) = Run(m, HeaderLen, j)
      <4>1. HeaderLen \in Nat /\ HeaderLen <= k /\ k <= j /\ j <= Total
        BY <1>6, <2>2, Numbers
      <4> QED
        BY <4>1, RunConcat
    <3>2. receiving[e].buf = old
      BY <2>1
    <3> QED
      BY <1>a, <2>2, <3>1, <3>2, Zenon
  <2>4. Len(b) = j - HeaderLen
    <3>1. Len(Run(m, HeaderLen, j)) = j - HeaderLen
      BY <1>6, <2>2, Numbers, RunFacts
    <3> QED
      BY <2>3, <3>1
  <2>5. CASE j < Total
    <3>1. Len(b) < BodyLen
      BY <1>6, <2>4, <2>5, Numbers DEF Total
    <3>2. receiving'[e] = [receiving[e] EXCEPT !.buf = b]
      BY <1>2, <1>9, <3>1 DEF WithBuf
    <3>3. receiving'[e] = [call |-> "body", message |-> m, buf |-> b]
      BY <2>1, <3>2
    <3>4. Flow(e, m, j, n)'
      BY <1>2, <1>4, <1>6, <1>7, <2>2, <2>3, <3>3 DEF Flow, Busy
    <3>5. Framed(e)'
      BY <1>4, <1>6, <3>4, FlowIsFramedNext DEF FlowsAreFramed
    <3> QED
      BY <3>3, <3>5 DEF Undefined, Got
  <2>6. CASE ~(j < Total)
    <3>1. j = Total /\ n = Total
      BY <1>4, <1>6, <2>6, Numbers
    <3>2. Len(b) = BodyLen /\ ~(Len(b) < BodyLen)
      BY <2>4, <3>1, Numbers
    <3>3. receiving'[e] = BodyRead(e, m, b)
      BY <1>2, <1>9, <2>1, <3>2 DEF WithBuf
    <3>4. m \in Coming(e)
      BY <2>1 DEF Coming, Held
    <3>5. m.key = key[e]
      BY <1>1, <3>4 DEF KeysFit
    <3>6. b = Part(m, "body")
      BY <2>3, <3>1, BodyPart
    <3>7. receiving'[e] = [call |-> "got", body |-> m.body]
      BY <3>3, <3>5, <3>6 DEF BodyRead
    <3>8. stream'[e] = <<>>
      <4>1. Run(m, Total, Total) = <<>>
        BY RunNothing, Numbers
      <4> QED
        BY <1>7, <3>1, <4>1
    <3>9. ~Busy(Peer(e))
      <4>1. Busy(Peer(e)) => sending[Peer(e)] = Pos(m, Total)
        BY <1>4, <3>1 DEF Flow
      <4>2. Pos(m, Total) = [call |-> "sent"]
        BY Numbers DEF Pos
      <4> QED
        BY <4>1, <4>2 DEF Busy
    <3>10. Coming(e)' = {}
      <4>1. Leaving(sending'[Peer(e)]) = {}
        BY <1>2, <3>9 DEF Busy, Leaving
      <4>2. Held(receiving'[e]) = {}
        BY <3>7, HeldCases
      <4> QED
        BY <3>8, <4>1, <4>2, InEmpty DEF Coming
    <3> QED
      BY <3>7, <3>10 DEF Framed, Undefined
  <2> QED
    BY <2>5, <2>6
<1> QED
  BY <1>1, <1>8, <1>9 DEF Reading

-----------------------------------------------------------------------------
(* What the steps do to the flow *)

\* Who is reading is listening.
LEMMA ReadingListens ==
  ASSUME KeyInv, NEW e \in Ends, Reading(e)
  PROVE  Listening(e)
<1>1. receiving[e] # Idle /\ receiving[e].call # "failed"
  BY DEF Reading, Idle
<1>2. CASE e = "client"
  BY <1>1, <1>2 DEF KeyInv, ClientShape, Listening
<1>3. CASE e = "server"
  BY <1>1, <1>3 DEF KeyInv, ServerShape, Listening
<1> QED
  BY <1>2, <1>3, TheEnds

\* While no byte is taken off, the transport keeps what is on the way in one
\* piece, and a message that is received whole leaves nothing behind.
LEMMA TransportFrames ==
  ASSUME KeyInv, NEW e \in Ends, Sends(e) \/ Receives(e), UNCHANGED others, ~torn',
         NEW x \in Ends, Frames(x)
  PROVE  /\ Frames(x)'
         /\ Got(x)' => (Got(x) /\ receiving'[x] = receiving[x]) \/ Coming(x)' = {}
<1>2. /\ Peer(e) \in Ends /\ Peer(Peer(e)) = e /\ Peer(e) # e
      /\ UNCHANGED <<client, reader>>
      /\ TransportType /\ TransportType' /\ KeysFit(e) /\ (x = e \/ x = Peer(e))
  BY KeysFitAll, TransportPasses, TheEnds DEF KeyInv, others, clientSide, serverSide
<1>3. CASE SendSome(e)
  <2>1. receiving' = receiving
    BY <1>3 DEF SendSome
  <2>2. CASE x = Peer(e)
    BY <1>2, <1>3, <2>1, <2>2, SendSomeFramed DEF Frames, Listening, Got
  <2>3. CASE x = e
    <3>1. stream'[e] = stream[e] /\ sending'[Peer(e)] = sending[Peer(e)]
      BY <1>2, <1>3 DEF SendSome, TransportType
    <3> QED
      BY <1>2, <2>1, <2>3, <3>1, FlowStays DEF Frames, Listening, Got
  <2> QED
    BY <1>2, <2>2, <2>3
<1>4. CASE SendError(e)
  <2>1. receiving' = receiving /\ stream' = stream
    BY <1>4 DEF SendError
  <2>2. sending' = [sending EXCEPT ![e] = [call |-> "failed"]]
    BY <1>2, <1>4, SendErrorMoves
  <2>3. sending'[Peer(e)] = sending[Peer(e)] /\ ~Busy(e)'
    BY <1>2, <2>2 DEF Busy, TransportType
  <2> QED
    BY <1>2, <2>1, <2>3, FlowStays DEF Frames, Listening, Got
<1>5. CASE ReceiveSome(e)
  <2>1. CASE x = e
    <3>1. Framed(e)
      <4>1. Reading(e)
        BY <1>5 DEF ReceiveSome, Reading
      <4> QED
        BY <2>1, <4>1, ReadingListens DEF Frames
    <3> QED
      BY <1>2, <1>5, <2>1, <3>1, ReceiveSomeFramed DEF Frames
  <2>2. CASE x = Peer(e)
    <3>1. /\ stream'[x] = stream[x] /\ receiving'[x] = receiving[x]
          /\ sending' = sending
      BY <1>2, <1>5, <2>2 DEF ReceiveSome, TransportType
    <3> QED
      BY <1>2, <3>1, FlowStays DEF Frames, Listening, Got
  <2> QED
    BY <1>2, <2>1, <2>2
<1>6. CASE ReceiveEnd(e) \/ ReceiveError(e)
  <2>1. /\ receiving' = [receiving EXCEPT ![e] = [call |-> "failed"]]
        /\ stream'[Peer(e)] = stream[Peer(e)] /\ sending' = sending
    BY <1>2, <1>6 DEF ReceiveEnd, ReceiveError, TransportType
  <2>2. receiving'[e] = [call |-> "failed"] /\ receiving'[Peer(e)] = receiving[Peer(e)]
    BY <1>2, <2>1 DEF TransportType
  <2>3. CASE x = e
    BY <2>2, <2>3 DEF Frames, Listening, Got, Undefined
  <2>4. CASE x = Peer(e)
    BY <1>2, <2>1, <2>2, <2>4, FlowStays DEF Frames, Listening, Got
  <2> QED
    BY <1>2, <2>3, <2>4
<1> QED
  BY <1>3, <1>4, <1>5, <1>6 DEF Sends, Receives

\* The transport keeps Steady.
LEMMA TransportSteady ==
  ASSUME KeyInv, Steady, NEW e \in Ends, Sends(e) \/ Receives(e), UNCHANGED others, ~torn'
  PROVE  Steady'
<1>1. Passes("client") /\ Passes("server")
  BY KeysFitAll, TransportPasses, TheEnds DEF KeyInv
<1>2. /\ Frames("client")' /\ Frames("server")'
      /\ Got("client")' => Got("client") \/ Coming("client")' = {}
      /\ Got("server")' => Got("server") \/ Coming("server")' = {}
  BY TransportFrames, TheEnds DEF Steady
<1>3. UNCHANGED <<client, events>>
  BY DEF others, clientSide, serverSide
<1>4. OneTurn'
  BY <1>1, <1>2, <1>3 DEF Steady, OneTurn, Passes, Pinged
<1> QED
  BY <1>2, <1>4 DEF Steady

\* Whoever still listens did so before, and goes on with what it is reading.
StillReads(e) ==
  Listening(e)' => Listening(e) /\ (receiving'[e] = receiving[e] \/ ~Reading(e))

\* A step at which nothing is sent.
LEMMA CalmFrames ==
  ASSUME TransportType, TransportType', Calm, NEW x \in Ends, Frames(x),
         StillReads(x)
  PROVE  Frames(x)'
<1>1. Peer(x) \in Ends
  BY TheEnds
<1>2. /\ stream' = stream
      /\ sending'[Peer(x)] = sending[Peer(x)] \/ ~Busy(Peer(x))'
      /\ receiving'[x] \in {receiving[x], Idle, AtStart}
  BY <1>1 DEF Calm, Busy, Idle
<1>3. receiving'[x] # Undefined("bytes")
  BY <1>2 DEF Frames, Undefined, Idle, AtStart
<1>4. ASSUME Listening(x)' PROVE Framed(x)'
  BY <1>2, <1>4, FlowStays DEF Frames, StillReads
<1> QED
  BY <1>3, <1>4 DEF Frames

\* A step at which end e begins to send: nothing else is on the way to the other.
LEMMA SpeakFrames ==
  ASSUME TransportType, TransportType', NEW e \in Ends, NEW m \in Message, Speaks(e, m),
         Coming(Peer(e)) = {}, Frames(e), Frames(Peer(e)),
         receiving'[Peer(e)] = receiving[Peer(e)],
         receiving'[e] = receiving[e] \/ ~Reading(e),
         Listening(e)' => Listening(e)
  PROVE  Frames(e)' /\ Frames(Peer(e))'
<1>1. /\ Peer(e) \in Ends /\ Peer(Peer(e)) = e /\ Peer(e) # e
      /\ stream' = stream /\ sending'[Peer(e)] = sending[Peer(e)]
      /\ sending'[e] = Pos(m, 0)
      /\ receiving'[e] \in {receiving[e], Idle, AtStart}
  BY TheEnds DEF Speaks, TransportType
<1>2. Frames(e)'
  <2>1. receiving'[e] # Undefined("bytes")
    BY <1>1 DEF Frames, Undefined, Idle, AtStart
  <2>2. ASSUME Listening(e)' PROVE Framed(e)'
    BY <1>1, <2>2, FlowStays DEF Frames
  <2> QED
    BY <2>1, <2>2 DEF Frames
<1>3. Frames(Peer(e))'
  <2>1. /\ stream[Peer(e)] = <<>>
        /\ Reading(Peer(e)) => receiving[Peer(e)] = AtStart
    BY <1>1, NothingIsFlow
  <2>2. Run(m, 0, 0) = <<>> /\ 0 \in Nat /\ 0 <= 0 /\ 0 <= Total
    BY RunNothing, Numbers
  <2>3. Flow(Peer(e), m, 0, 0)'
    BY <1>1, <2>1, <2>2 DEF Flow, Reading, AtStart
  <2>4. Framed(Peer(e))'
    BY <1>1, <2>2, <2>3, FlowIsFramedNext DEF FlowsAreFramed
  <2> QED
    BY <2>4 DEF Frames
<1> QED
  BY <1>2, <1>3

\* At most one ping is in the executor's queue.
LEMMA PingsGrow ==
  ASSUME NEW q \in Seq(Types), NEW x \in Types, OnePing(q),
         x = "ping" => \A i \in DOMAIN q : q[i] # "ping"
  PROVE  OnePing(Append(q, x))
<1>1. PICK n \in Nat : n = Len(q) /\ DOMAIN q = 1 .. n
  BY LenProperties
<1>2. PICK r \in Seq(Types) : r = Append(q, x)
  BY AppendProperties
<1>3. /\ Len(r) = n + 1 /\ r[n + 1] = x
      /\ \A i \in 1 .. n : r[i] = q[i]
  BY <1>1, <1>2, AppendProperties
<1>4. DOMAIN r = 1 .. n + 1
  BY <1>3, LenProperties
<1>5. ASSUME NEW i \in 1 .. n + 1, NEW j \in 1 .. n + 1, r[i] = "ping", r[j] = "ping"
      PROVE  i = j
  <2>1. CASE i \in 1 .. n /\ j \in 1 .. n
    BY <1>1, <1>3, <1>5, <2>1 DEF OnePing
  <2>2. CASE i = n + 1 \/ j = n + 1
    <3>1. x = "ping"
      BY <1>3, <1>5, <2>2
    <3>2. \A k \in 1 .. n : r[k] # "ping"
      BY <1>1, <1>3, <3>1
    <3> QED
      BY <1>5, <3>2
  <2> QED
    BY <2>1, <2>2
<1> QED
  BY <1>2, <1>4, <1>5 DEF OnePing

\* When the executor takes the ping there is none left.
LEMMA PingsShrink ==
  ASSUME NEW q \in Seq(Types), q # <<>>, OnePing(q)
  PROVE  /\ OnePing(Tail(q))
         /\ Head(q) = "ping" => \A i \in DOMAIN Tail(q) : Tail(q)[i] # "ping"
<1>1. PICK n \in Nat : n = Len(q) /\ n # 0 /\ DOMAIN q = 1 .. n
  BY LenProperties, EmptySeq
<1>2. PICK r \in Seq(Types) : r = Tail(q)
  BY HeadTailProperties
<1>3. /\ Len(r) = n - 1 /\ Head(q) = q[1]
      /\ \A i \in 1 .. n - 1 : r[i] = q[i + 1]
  BY <1>1, <1>2, HeadTailProperties
<1>4. DOMAIN r = 1 .. n - 1 /\ 1 \in 1 .. n
      /\ \A i \in 1 .. n - 1 : i + 1 \in 1 .. n /\ i + 1 # 1
  BY <1>1, <1>3, LenProperties
<1>5. ASSUME NEW i \in 1 .. n - 1, NEW j \in 1 .. n - 1, r[i] = "ping", r[j] = "ping"
      PROVE  i = j
  <2>1. i + 1 = j + 1
    BY <1>1, <1>3, <1>4, <1>5 DEF OnePing
  <2> QED
    BY <2>1
<1>6. ASSUME Head(q) = "ping", NEW i \in 1 .. n - 1 PROVE r[i] # "ping"
  BY <1>1, <1>3, <1>4, <1>6 DEF OnePing
<1> QED
  BY <1>2, <1>4, <1>5, <1>6 DEF OnePing

-----------------------------------------------------------------------------
(* The steps of client and server keep both invariants *)

\* The executor's queue, with one more or one less.
LEMMA EventsGrow ==
  ASSUME NEW q \in Seq(Types), NEW x \in Types
  PROVE  /\ Append(q, x) \in Seq(Types)
         /\ \A i \in DOMAIN Append(q, x) :
              Append(q, x)[i] = x \/ (i \in DOMAIN q /\ Append(q, x)[i] = q[i])
<1>1. PICK n \in Nat : n = Len(q) /\ DOMAIN q = 1 .. n
  BY LenProperties
<1>2. /\ Append(q, x) \in Seq(Types) /\ Len(Append(q, x)) = n + 1
      /\ \A i \in 1 .. n : Append(q, x)[i] = q[i]
      /\ Append(q, x)[n + 1] = x
  BY <1>1, AppendProperties
<1>3. DOMAIN Append(q, x) = 1 .. n + 1
  BY <1>2, LenProperties
<1> QED
  BY <1>1, <1>2, <1>3

\* What was received is the body of a message.
LEMMA GotType ==
  ASSUME TransportType, NEW e \in Ends, Got(e)
  PROVE  receiving[e].body \in Body /\ receiving[e].body.type \in Types
<1>1. receiving[e] \in Receiving /\ receiving[e].call = "got"
  BY DEF TransportType, Got
<1>2. PICK b \in Body : receiving[e] = [call |-> "got", body |-> b]
  BY <1>1, ReceivingCases DEF Idle, Undefined
<1> QED
  BY <1>2 DEF Body

\* The client waits for the answer to what it has sent.
LEMMA ClientSentKeeps ==
  ASSUME KeyInv, ClientSent
  PROVE  KeyInv' /\ (Steady => Steady')
<1> USE DEF clientIdle, serverIdle, serverSide, clientSide
<1>1. TransportType
  BY DEF KeyInv
<1>2. Calm
  BY <1>1, TheEnds DEF ClientSent, Calm, ReceiveMessage, AtStart, TransportType
<1>3. RestTyped
  BY <1>1 DEF ClientSent, RestTyped, TransportType
<1>4. TransportType' /\ Stays("client") /\ Stays("server")
  BY <1>1, <1>2, <1>3, CalmStays
<1>5. /\ UNCHANGED <<key, passwd, client, users, reader, user, events, executor>>
      /\ receiving'["client"] = AtStart
      /\ sending'["client"] = Idle
      /\ sending'["server"] = sending["server"]
      /\ receiving'["server"] = receiving["server"]
      /\ client \in {"auth", "ping"}
  BY <1>1, TheEnds DEF ClientSent, ReceiveMessage, AtStart, TransportType
<1>6. ClientShape'
  BY <1>5 DEF KeyInv, ClientShape, Sent, Got, Idle
<1>7. ServerShape'
  BY <1>5 DEF KeyInv, ServerShape, Executors, Sent, Got, Idle
<1>8. ToServer'
  BY <1>4, <1>5 DEF KeyInv, ToServer, Stays, Fresh, Got, Sent, Idle, AtStart
<1>9. ToClient'
  BY <1>4, <1>5
  DEF KeyInv, ToClient, Stays, Fresh, Pinged, Got, Sent, Idle, AtStart
<1>10. KeyInv'
  BY <1>4, <1>6, <1>7, <1>8, <1>9 DEF KeyInv
<1>11. ASSUME Steady PROVE Steady'
  <2>1. StillReads("client") /\ StillReads("server")
    BY <1>5
    DEF ClientSent, StillReads, Listening, Reading, KeyInv, ClientShape, ServerShape,
        Executors, Sent, Got, Idle
  <2>2. Frames("client")' /\ Frames("server")'
    BY <1>1, <1>2, <1>4, <1>11, <2>1, CalmFrames, TheEnds DEF Steady
  <2>3. OneTurn'
    BY <1>4, <1>5, <1>11 DEF Steady, OneTurn, Stays, Pinged
  <2> QED
    BY <2>2, <2>3 DEF Steady
<1> QED
  BY <1>10, <1>11

\* Both have drpc_ok, so both have the key, and nothing else is on the way.
LEMMA ClientAcceptedKeeps ==
  ASSUME KeyInv, ClientAccepted
  PROVE  KeyInv' /\ (Steady => Steady')
<1> USE DEF clientIdle, serverIdle, serverSide, clientSide
<1>1. TransportType
  BY DEF KeyInv
<1>2. Calm
  BY <1>1, TheEnds DEF ClientAccepted, Calm, ReceiveMessage, AtStart, TransportType
<1>3. RestTyped
  BY <1>1, SessionKeys DEF ClientAccepted, RestTyped, TransportType
<1>4. TransportType' /\ Stays("client") /\ Stays("server")
  BY <1>1, <1>2, <1>3, CalmStays
<1>5. /\ UNCHANGED <<passwd, users, reader, user, events, executor, sending>>
      /\ receiving'["client"] = Idle
      /\ receiving'["server"] = receiving["server"]
      /\ client = "auth"
      /\ client' = "ready"
      /\ Got("client")
      /\ receiving["client"].body.type = "ok"
      /\ key'["client"] = SessionKey(passwd)
      /\ key'["server"] = key["server"]
  BY <1>1, TheEnds DEF ClientAccepted, ReceiveMessage, AtStart, TransportType
<1>6. ClientShape'
  BY <1>5 DEF KeyInv, ClientShape, Sent, Got, Idle
<1>7. ServerShape'
  BY <1>5 DEF KeyInv, ServerShape, Executors, Sent, Got, Idle
<1>8. ToServer'
  BY <1>4, <1>5 DEF KeyInv, ToServer, Stays, Fresh, Got, Sent, Idle, AtStart
<1>9. ToClient'
  BY <1>4, <1>5
  DEF KeyInv, ToClient, Stays, Fresh, Pinged, Got, Sent, Idle, AtStart
<1>10. KeyInv'
  BY <1>4, <1>6, <1>7, <1>8, <1>9 DEF KeyInv
<1>11. ASSUME Steady PROVE Steady'
  <2>1. StillReads("client") /\ StillReads("server")
    BY <1>5
    DEF ClientAccepted, StillReads, Listening, Reading, KeyInv, ClientShape, ServerShape,
        Executors, Sent, Got, Idle
  <2>2. Frames("client")' /\ Frames("server")'
    BY <1>1, <1>2, <1>4, <1>11, <2>1, CalmFrames, TheEnds DEF Steady
  <2>3. OneTurn'
    BY <1>4, <1>5, <1>11 DEF Steady, OneTurn, Stays, Pinged
  <2> QED
    BY <2>2, <2>3 DEF Steady
<1> QED
  BY <1>10, <1>11

\* After closing, the client does not listen.
LEMMA ClientClosesKeeps ==
  ASSUME KeyInv, ClientCloses
  PROVE  KeyInv' /\ (Steady => Steady')
<1> USE DEF clientIdle, serverIdle, serverSide, clientSide
<1>1. TransportType
  BY DEF KeyInv
<1>2. Calm
  BY <1>1, TheEnds DEF ClientCloses, Calm, ReceiveMessage, AtStart, TransportType
<1>3. RestTyped
  BY <1>1 DEF ClientCloses, RestTyped, TransportType
<1>4. TransportType' /\ Stays("client") /\ Stays("server")
  BY <1>1, <1>2, <1>3, CalmStays
<1>5. /\ UNCHANGED <<key, passwd, users, reader, user, events, executor>>
      /\ receiving'["client"] = Idle
      /\ sending'["client"] = Idle
      /\ sending'["server"] = sending["server"]
      /\ receiving'["server"] = receiving["server"]
      /\ client \in {"auth", "ping", "leave"}
      /\ client' = IF client = "auth" THEN "refused" ELSE "stopped"
  BY <1>1, TheEnds DEF ClientCloses, ReceiveMessage, AtStart, TransportType
<1>6. ClientShape'
  BY <1>5 DEF KeyInv, ClientShape, Sent, Got, Idle
<1>7. ServerShape'
  BY <1>5 DEF KeyInv, ServerShape, Executors, Sent, Got, Idle
<1>8. ToServer'
  BY <1>4, <1>5 DEF KeyInv, ToServer, Stays, Fresh, Got, Sent, Idle, AtStart
<1>9. ToClient'
  BY <1>4, <1>5
  DEF KeyInv, ToClient, Stays, Fresh, Pinged, Got, Sent, Idle, AtStart
<1>10. KeyInv'
  BY <1>4, <1>6, <1>7, <1>8, <1>9 DEF KeyInv
<1>11. ASSUME Steady PROVE Steady'
  <2>1. StillReads("client") /\ StillReads("server")
    BY <1>5
    DEF ClientCloses, StillReads, Listening, Reading, KeyInv, ClientShape, ServerShape,
        Executors, Sent, Got, Idle
  <2>2. Frames("client")' /\ Frames("server")'
    BY <1>1, <1>2, <1>4, <1>11, <2>1, CalmFrames, TheEnds DEF Steady
  <2>3. OneTurn'
    BY <1>4, <1>5, <1>11 DEF Steady, OneTurn, Stays, Pinged
  <2> QED
    BY <2>2, <2>3 DEF Steady
<1> QED
  BY <1>10, <1>11

\* The answer to the ping was all there was.
LEMMA ClientPingedKeeps ==
  ASSUME KeyInv, ClientPinged
  PROVE  KeyInv' /\ (Steady => Steady')
<1> USE DEF clientIdle, serverIdle, serverSide, clientSide
<1>1. TransportType
  BY DEF KeyInv
<1>2. Calm
  BY <1>1, TheEnds DEF ClientPinged, Calm, ReceiveMessage, AtStart, TransportType
<1>3. RestTyped
  BY <1>1 DEF ClientPinged, RestTyped, TransportType
<1>4. TransportType' /\ Stays("client") /\ Stays("server")
  BY <1>1, <1>2, <1>3, CalmStays
<1>5. /\ UNCHANGED <<key, passwd, users, reader, user, events, executor, sending>>
      /\ receiving'["client"] = Idle
      /\ receiving'["server"] = receiving["server"]
      /\ client = "ping"
      /\ client' = "ready"
      /\ Got("client")
  BY <1>1, TheEnds DEF ClientPinged, ReceiveMessage, AtStart, TransportType
<1>6. ClientShape'
  BY <1>5 DEF KeyInv, ClientShape, Sent, Got, Idle
<1>7. ServerShape'
  BY <1>5 DEF KeyInv, ServerShape, Executors, Sent, Got, Idle
<1>8. ToServer'
  BY <1>4, <1>5 DEF KeyInv, ToServer, Stays, Fresh, Got, Sent, Idle, AtStart
<1>9. ToClient'
  BY <1>4, <1>5
  DEF KeyInv, ToClient, Stays, Fresh, Pinged, Got, Sent, Idle, AtStart
<1>10. KeyInv'
  BY <1>4, <1>6, <1>7, <1>8, <1>9 DEF KeyInv
<1>11. ASSUME Steady PROVE Steady'
  <2>1. StillReads("client") /\ StillReads("server")
    BY <1>5
    DEF ClientPinged, StillReads, Listening, Reading, KeyInv, ClientShape, ServerShape,
        Executors, Sent, Got, Idle
  <2>2. Frames("client")' /\ Frames("server")'
    BY <1>1, <1>2, <1>4, <1>11, <2>1, CalmFrames, TheEnds DEF Steady
  <2>3. OneTurn'
    BY <1>4, <1>5, <1>11 DEF Steady, OneTurn, Stays, Pinged
  <2> QED
    BY <2>2, <2>3 DEF Steady
<1> QED
  BY <1>10, <1>11

\* The server waits for the request.
LEMMA ServerAcceptsKeeps ==
  ASSUME KeyInv, ServerAccepts
  PROVE  KeyInv' /\ (Steady => Steady')
<1> USE DEF clientIdle, serverIdle, serverSide, clientSide
<1>1. TransportType
  BY DEF KeyInv
<1>2. Calm
  BY <1>1, TheEnds DEF ServerAccepts, Calm, ReceiveMessage, AtStart, TransportType
<1>3. RestTyped
  BY <1>1 DEF ServerAccepts, RestTyped, TransportType
<1>4. TransportType' /\ Stays("client") /\ Stays("server")
  BY <1>1, <1>2, <1>3, CalmStays
<1>5. /\ UNCHANGED <<key, passwd, client, users, user, events, executor, sending>>
      /\ receiving'["server"] = AtStart
      /\ receiving'["client"] = receiving["client"]
      /\ reader = "accepted"
      /\ reader' = "auth"
  BY <1>1, TheEnds DEF ServerAccepts, ReceiveMessage, AtStart, TransportType
<1>6. ClientShape'
  BY <1>5 DEF KeyInv, ClientShape, Sent, Got, Idle
<1>7. ServerShape'
  BY <1>5 DEF KeyInv, ServerShape, Executors, Sent, Got, Idle
<1>8. ToServer'
  BY <1>4, <1>5 DEF KeyInv, ToServer, Stays, Fresh, Got, Sent, Idle, AtStart
<1>9. ToClient'
  BY <1>4, <1>5
  DEF KeyInv, ToClient, Stays, Fresh, Pinged, Got, Sent, Idle, AtStart
<1>10. KeyInv'
  BY <1>4, <1>6, <1>7, <1>8, <1>9 DEF KeyInv
<1>11. ASSUME Steady PROVE Steady'
  <2>1. StillReads("client") /\ StillReads("server")
    BY <1>5
    DEF ServerAccepts, StillReads, Listening, Reading, KeyInv, ClientShape, ServerShape,
        Executors, Sent, Got, Idle
  <2>2. Frames("client")' /\ Frames("server")'
    BY <1>1, <1>2, <1>4, <1>11, <2>1, CalmFrames, TheEnds DEF Steady
  <2>3. OneTurn'
    BY <1>4, <1>5, <1>11 DEF Steady, OneTurn, Stays, Pinged
  <2> QED
    BY <2>2, <2>3 DEF Steady
<1> QED
  BY <1>10, <1>11

\* drpc_ok is sent: while the client has no key it sends nothing.
LEMMA ServerServesKeeps ==
  ASSUME KeyInv, ServerServes
  PROVE  KeyInv' /\ (Steady => Steady')
<1> USE DEF clientIdle, serverIdle, serverSide, clientSide
<1>1. TransportType
  BY DEF KeyInv
<1>2. Calm
  BY <1>1, TheEnds DEF ServerServes, Calm, ReceiveMessage, AtStart, TransportType
<1>3. RestTyped
  BY <1>1, SessionKeys
  DEF ServerServes, RestTyped, TransportType, KeyInv, ServerShape, Executors
<1>4. TransportType' /\ Stays("client") /\ Stays("server")
  BY <1>1, <1>2, <1>3, CalmStays
<1>5. /\ UNCHANGED <<passwd, client, users, user, events>>
      /\ receiving'["server"] = AtStart
      /\ receiving'["client"] = receiving["client"]
      /\ sending'["server"] = Idle
      /\ sending'["client"] = sending["client"]
      /\ reader = "accept"
      /\ reader' = "serve"
      /\ key'["server"] = SessionKey(user)
      /\ key'["client"] = key["client"]
      /\ executor' = [executor EXCEPT !.at = "idle"]
  BY <1>1, TheEnds DEF ServerServes, ReceiveMessage, AtStart, TransportType
<1>6. ClientShape'
  BY <1>5 DEF KeyInv, ClientShape, Sent, Got, Idle
<1>7. ServerShape'
  BY <1>5 DEF KeyInv, ServerShape, Executors, Sent, Got, Idle
<1>8. ToServer'
  BY <1>4, <1>5 DEF KeyInv, ToServer, Stays, Fresh, Got, Sent, Idle, AtStart
<1>9. ToClient'
  BY <1>4, <1>5
  DEF KeyInv, ToClient, Stays, Fresh, Pinged, Got, Sent, Idle, AtStart
<1>10. KeyInv'
  BY <1>4, <1>6, <1>7, <1>8, <1>9 DEF KeyInv
<1>11. ASSUME Steady PROVE Steady'
  <2>1. StillReads("client") /\ StillReads("server")
    BY <1>5
    DEF ServerServes, StillReads, Listening, Reading, KeyInv, ClientShape, ServerShape,
        Executors, Sent, Got, Idle
  <2>2. Frames("client")' /\ Frames("server")'
    BY <1>1, <1>2, <1>4, <1>11, <2>1, CalmFrames, TheEnds DEF Steady
  <2>3. OneTurn'
    BY <1>4, <1>5, <1>11 DEF Steady, OneTurn, Stays, Pinged
  <2> QED
    BY <2>2, <2>3 DEF Steady
<1> QED
  BY <1>10, <1>11

\* A message moves from the transport to the executor's queue.
LEMMA ReaderPostsKeeps ==
  ASSUME KeyInv, ReaderPosts
  PROVE  KeyInv' /\ (Steady => Steady')
<1> USE DEF clientIdle, serverIdle, serverSide, clientSide
<1>1. TransportType
  BY DEF KeyInv
<1>2. Calm
  BY <1>1, TheEnds DEF ReaderPosts, Calm, ReceiveMessage, AtStart, TransportType
<1>3. RestTyped
  BY <1>1 DEF ReaderPosts, RestTyped, TransportType
<1>4. TransportType' /\ Stays("client") /\ Stays("server")
  BY <1>1, <1>2, <1>3, CalmStays
<1>5. /\ UNCHANGED <<key, passwd, client, users, reader, user, executor, sending>>
      /\ receiving'["server"] = AtStart
      /\ receiving'["client"] = receiving["client"]
      /\ reader = "serve"
      /\ Got("server")
      /\ events' = Append(events, receiving["server"].body.type)
  BY <1>1, TheEnds DEF ReaderPosts, ReceiveMessage, AtStart, TransportType
<1>6. PICK x \in Types : x = receiving["server"].body.type /\ events' = Append(events, x)
  BY <1>1, <1>5, GotType, TheEnds
<1>7. events' \in Seq(Types) /\ ~Fresh
  BY <1>5, <1>6, EventsGrow DEF KeyInv, ServerShape, Executors, ToServer
<1>8. ClientShape'
  BY <1>5 DEF KeyInv, ClientShape, Sent, Got, Idle
<1>9. ServerShape'
  BY <1>5, <1>7 DEF KeyInv, ServerShape, Executors, Sent, Got, Idle
<1>10. ToServer'
  BY <1>4, <1>5 DEF KeyInv, ToServer, Stays, Fresh, Got, Sent, Idle, AtStart
<1>11. ToClient'
  BY <1>4, <1>5, <1>7 DEF KeyInv, ToClient, Stays, Fresh, Pinged, Got, Sent, Idle, AtStart
<1>12. KeyInv'
  BY <1>4, <1>8, <1>9, <1>10, <1>11 DEF KeyInv
<1>13. ASSUME Steady PROVE Steady'
  <2>1. StillReads("client") /\ StillReads("server")
    BY <1>5
    DEF ReaderPosts, StillReads, Listening, Reading, KeyInv, ClientShape, ServerShape,
        Executors, Sent, Got, Idle
  <2>2. Frames("client")' /\ Frames("server")'
    BY <1>1, <1>2, <1>4, <1>13, <2>1, CalmFrames, TheEnds DEF Steady
  <2>3. /\ ~Pinged /\ OnePing(events) /\ Coming("server") = {} /\ Coming("client") = {}
        /\ ~Got("client") /\ client \notin {"connect", "ready"}
    BY <1>5, <1>13 DEF Steady, OneTurn
  <2>4. OnePing(events') /\ ~Got("server")'
    BY <1>5, <1>6, <2>3, PingsGrow DEF Pinged, KeyInv, ServerShape, Executors, Got, AtStart
  <2>5. OneTurn'
    BY <1>4, <1>5, <2>3, <2>4 DEF OneTurn, Stays
  <2> QED
    BY <2>2, <2>5 DEF Steady
<1> QED
  BY <1>12, <1>13

\* The reader does not listen any more.
LEMMA ReaderLeavesKeeps ==
  ASSUME KeyInv, ReaderLeaves
  PROVE  KeyInv' /\ (Steady => Steady')
<1> USE DEF clientIdle, serverIdle, serverSide, clientSide
<1>1. TransportType
  BY DEF KeyInv
<1>2. Calm
  BY <1>1, TheEnds DEF ReaderLeaves, Calm, ReceiveMessage, AtStart, TransportType
<1>3. RestTyped
  BY <1>1 DEF ReaderLeaves, RestTyped, TransportType
<1>4. TransportType' /\ Stays("client") /\ Stays("server")
  BY <1>1, <1>2, <1>3, CalmStays
<1>5. /\ UNCHANGED <<key, passwd, client, users, user, executor, sending>>
      /\ receiving'["server"] = Idle
      /\ receiving'["client"] = receiving["client"]
      /\ reader = "serve"
      /\ reader' = "leave"
      /\ events' = IF executor.already THEN events ELSE Append(events, "disconnect")
  BY <1>1, TheEnds DEF ReaderLeaves, ReceiveMessage, AtStart, TransportType
<1>6. events' \in Seq(Types) /\ (Pinged' => Pinged)
  <2>1. events \in Seq(Types) /\ "disconnect" \in Types /\ "disconnect" # "ping"
    BY DEF KeyInv, ServerShape, Executors, Types
  <2> QED
    BY <1>5, <2>1, EventsGrow DEF Pinged
<1>7. ClientShape'
  BY <1>5 DEF KeyInv, ClientShape, Sent, Got, Idle
<1>8. ServerShape'
  BY <1>5, <1>6 DEF KeyInv, ServerShape, Executors, Sent, Got, Idle
<1>9. ToServer'
  BY <1>4, <1>5 DEF KeyInv, ToServer, Stays, Fresh, Got, Sent, Idle, AtStart
<1>10. ToClient'
  BY <1>4, <1>5, <1>6 DEF KeyInv, ToClient, Stays, Fresh, Got, Sent, Idle, AtStart
<1>11. KeyInv'
  BY <1>4, <1>7, <1>8, <1>9, <1>10 DEF KeyInv
<1>12. ASSUME Steady PROVE Steady'
  <2>1. StillReads("client") /\ StillReads("server")
    BY <1>5
    DEF ReaderLeaves, StillReads, Listening, Reading, KeyInv, ClientShape, ServerShape,
        Executors, Sent, Got, Idle
  <2>2. Frames("client")' /\ Frames("server")'
    BY <1>1, <1>2, <1>4, <1>12, <2>1, CalmFrames, TheEnds DEF Steady
  <2>3. OnePing(Append(events, "disconnect")) /\ OnePing(events)
    BY <1>12, PingsGrow DEF Types, KeyInv, ServerShape, Executors, Steady, OneTurn
  <2>4. OneTurn'
    BY <1>4, <1>5, <1>6, <1>12, <2>3 DEF Steady, OneTurn, Stays
  <2> QED
    BY <2>2, <2>4 DEF Steady
<1> QED
  BY <1>11, <1>12

\* The answer is sent, or not.
LEMMA ExecutorRepliedKeeps ==
  ASSUME KeyInv, ExecutorReplied
  PROVE  KeyInv' /\ (Steady => Steady')
<1> USE DEF clientIdle, serverIdle, serverSide, clientSide
<1>1. TransportType
  BY DEF KeyInv
<1>2. Calm
  BY <1>1, TheEnds DEF ExecutorReplied, Calm, ReceiveMessage, AtStart, TransportType
<1>3. RestTyped
  BY <1>1 DEF ExecutorReplied, RestTyped, TransportType
<1>4. TransportType' /\ Stays("client") /\ Stays("server")
  BY <1>1, <1>2, <1>3, CalmStays
<1>5. /\ UNCHANGED <<key, passwd, client, users, reader, user, events, receiving>>
      /\ sending'["server"] = Idle
      /\ sending'["client"] = sending["client"]
      /\ executor.at = "reply"
      /\ executor' = [executor EXCEPT !.at = "idle", !.stop = @ \/ SendFailed("server")]
  BY <1>1, TheEnds DEF ExecutorReplied, ReceiveMessage, AtStart, TransportType
<1>6. ClientShape'
  BY <1>5 DEF KeyInv, ClientShape, Sent, Got, Idle
<1>7. ServerShape'
  BY <1>5 DEF KeyInv, ServerShape, Executors, Sent, Got, Idle
<1>8. ToServer'
  BY <1>4, <1>5 DEF KeyInv, ToServer, Stays, Fresh, Got, Sent, Idle, AtStart
<1>9. ToClient'
  BY <1>4, <1>5
  DEF KeyInv, ToClient, Stays, Fresh, Pinged, Got, Sent, Idle, AtStart
<1>10. KeyInv'
  BY <1>4, <1>6, <1>7, <1>8, <1>9 DEF KeyInv
<1>11. ASSUME Steady PROVE Steady'
  <2>1. StillReads("client") /\ StillReads("server")
    BY <1>5
    DEF ExecutorReplied, StillReads, Listening, Reading, KeyInv, ClientShape, ServerShape,
        Executors, Sent, Got, Idle
  <2>2. Frames("client")' /\ Frames("server")'
    BY <1>1, <1>2, <1>4, <1>11, <2>1, CalmFrames, TheEnds DEF Steady
  <2>3. OneTurn'
    BY <1>4, <1>5, <1>11 DEF Steady, OneTurn, Stays, Pinged
  <2> QED
    BY <2>2, <2>3 DEF Steady
<1> QED
  BY <1>10, <1>11

\* After closing, the server does not listen.
LEMMA ServerClosesKeeps ==
  ASSUME KeyInv, ServerCloses
  PROVE  KeyInv' /\ (Steady => Steady')
<1> USE DEF clientIdle, serverIdle, serverSide, clientSide
<1>1. TransportType
  BY DEF KeyInv
<1>2. Calm
  BY <1>1, TheEnds DEF ServerCloses, Calm, ReceiveMessage, AtStart, TransportType
<1>3. RestTyped
  BY <1>1 DEF ServerCloses, RestTyped, TransportType
<1>4. TransportType' /\ Stays("client") /\ Stays("server")
  BY <1>1, <1>2, <1>3, CalmStays
<1>5. /\ UNCHANGED <<key, passwd, client, users, user, events, executor>>
      /\ receiving'["server"] = Idle
      /\ receiving'["client"] = receiving["client"]
      /\ sending'["server"] = Idle
      /\ sending'["client"] = sending["client"]
      /\ reader \in {"auth", "refuse", "accept", "leave"}
      /\ reader = "leave" => executor.at = "done"
      /\ reader' = "gone"
  BY <1>1, TheEnds DEF ServerCloses, ReceiveMessage, AtStart, TransportType
<1>6. ClientShape'
  BY <1>5 DEF KeyInv, ClientShape, Sent, Got, Idle
<1>7. ServerShape'
  BY <1>5 DEF KeyInv, ServerShape, Executors, Sent, Got, Idle
<1>8. ToServer'
  BY <1>4, <1>5 DEF KeyInv, ToServer, Stays, Fresh, Got, Sent, Idle, AtStart
<1>9. ToClient'
  BY <1>4, <1>5
  DEF KeyInv, ToClient, Stays, Fresh, Pinged, Got, Sent, Idle, AtStart
<1>10. KeyInv'
  BY <1>4, <1>6, <1>7, <1>8, <1>9 DEF KeyInv
<1>11. ASSUME Steady PROVE Steady'
  <2>1. StillReads("client") /\ StillReads("server")
    BY <1>5
    DEF ServerCloses, StillReads, Listening, Reading, KeyInv, ClientShape, ServerShape,
        Executors, Sent, Got, Idle
  <2>2. Frames("client")' /\ Frames("server")'
    BY <1>1, <1>2, <1>4, <1>11, <2>1, CalmFrames, TheEnds DEF Steady
  <2>3. OneTurn'
    BY <1>4, <1>5, <1>11 DEF Steady, OneTurn, Stays, Pinged
  <2> QED
    BY <2>2, <2>3 DEF Steady
<1> QED
  BY <1>10, <1>11

\* The first message, not encrypted, is alone.
LEMMA ClientConnectKeeps ==
  ASSUME KeyInv, ClientConnect
  PROVE  KeyInv' /\ (Steady => Steady')
<1> USE DEF clientIdle, serverSide
<1>1. TransportType /\ passwd \in Passwords /\ key["client"] = NoKey
  BY DEF KeyInv, TransportType, ClientShape, ClientConnect
<1>2. /\ "client" \in Ends /\ "auth" \in Types
      /\ passwd \in Passwords \cup {"encrypt_xor", Nothing}
      /\ Send("client", "auth", passwd) /\ stream' = stream
      /\ receiving' = [f \in Ends |-> receiving'[f]]
      /\ \A f \in Ends : receiving'[f] \in {receiving[f], Idle, AtStart}
  BY <1>1, TheEnds DEF ClientConnect, Types, TransportType
<1>3. PICK m \in Message : /\ m.body.type = "auth" /\ m.body.data = passwd /\ m.key = NoKey
                           /\ Speaks("client", m) /\ messages' \in [Ends -> Nat]
  BY <1>1, <1>2, SendCall
<1>4. RestTyped
  BY <1>1, <1>3 DEF RestTyped, ClientConnect, TransportType
<1>5. /\ TransportType'
      /\ Coming("client")' \subseteq Coming("client")
      /\ Coming("server")' \subseteq Coming("server") \cup {m}
      /\ Ended("client") => Ended("client")'
      /\ Coming("server") = {} => Ended("server")'
      /\ Got("client")' => Got("client") /\ receiving'["client"] = receiving["client"]
      /\ Got("server")' => Got("server") /\ receiving'["server"] = receiving["server"]
      /\ sending'["server"] = sending["server"]
  BY <1>1, <1>3, <1>4, SpeakStep, TheEnds
<1>6. UNCHANGED <<key, passwd, users, reader, user, events, executor, receiving>>
      /\ client = "connect" /\ client' = "auth"
  BY DEF ClientConnect
<1>7. ClientShape'
  BY <1>6 DEF KeyInv, ClientShape
<1>8. ServerShape'
  BY <1>5, <1>6 DEF KeyInv, ServerShape, Executors
<1>9. ToServer'
  BY <1>3, <1>5, <1>6 DEF KeyInv, ToServer, Fresh
<1>10. ToClient'
  BY <1>5, <1>6 DEF KeyInv, ToClient, Fresh, Pinged, ClientShape, Got, Idle
<1>11. KeyInv'
  BY <1>5, <1>7, <1>8, <1>9, <1>10 DEF KeyInv
<1>12. ASSUME Steady PROVE Steady'
  <2>1. /\ Coming("server") = {} /\ ~Got("server") /\ ~Pinged /\ Coming("client") = {}
        /\ OnePing(events) /\ receiving["client"] = Idle
    BY <1>6, <1>12 DEF Steady, OneTurn, KeyInv, ClientShape
  <2>2. Listening("client")' => Listening("client")
    BY <1>6 DEF Listening
  <2>3. Frames("client")' /\ Frames("server")'
    BY <1>1, <1>3, <1>5, <1>6, <1>12, <2>1, <2>2, SpeakFrames, TheEnds DEF Steady
  <2>4. OneTurn'
    BY <1>5, <1>6, <2>1 DEF OneTurn, Pinged, Got, Idle
  <2> QED
    BY <2>3, <2>4 DEF Steady
<1> QED
  BY <1>11, <1>12

\* A client that is ready has had all its answers: its message is alone.
LEMMA ClientSpeaks ==
  ASSUME KeyInv, ClientPing \/ ClientLeaves
  PROVE  KeyInv' /\ (Steady => Steady')
<1> USE DEF clientIdle, serverSide
<1>1. TransportType /\ passwd \in Passwords /\ key["client"] = SessionKey(passwd)
      /\ sending["client"] = Idle /\ receiving["client"] = Idle
  BY DEF KeyInv, TransportType, ClientShape, ClientPing, ClientLeaves
<1>2. PICK type \in {"ping", "disconnect"} : Send("client", type, Nothing)
  BY DEF ClientPing, ClientLeaves
<1>3. /\ "client" \in Ends /\ type \in Types
      /\ Nothing \in Passwords \cup {"encrypt_xor", Nothing}
      /\ stream' = stream
      /\ receiving' = [f \in Ends |-> receiving'[f]]
      /\ \A f \in Ends : receiving'[f] \in {receiving[f], Idle, AtStart}
  BY <1>1, TheEnds DEF ClientPing, ClientLeaves, Types, TransportType
<1>4. PICK m \in Message : /\ m.body.type = type /\ m.body.data = Nothing
                           /\ m.key = SessionKey(passwd)
                           /\ Speaks("client", m) /\ messages' \in [Ends -> Nat]
  BY <1>1, <1>2, <1>3, SendCall
<1>5. RestTyped
  BY <1>1, <1>4 DEF RestTyped, ClientPing, ClientLeaves, TransportType
<1>6. /\ TransportType'
      /\ Coming("client")' \subseteq Coming("client")
      /\ Coming("server")' \subseteq Coming("server") \cup {m}
      /\ Got("client")' => Got("client") /\ receiving'["client"] = receiving["client"]
      /\ Got("server")' => Got("server") /\ receiving'["server"] = receiving["server"]
      /\ sending'["server"] = sending["server"]
  BY <1>1, <1>4, <1>5, SpeakStep, TheEnds
<1>7. UNCHANGED <<key, passwd, users, reader, user, events, executor, receiving>>
      /\ client = "ready" /\ client' \in {"ping", "leave"}
  BY DEF ClientPing, ClientLeaves
<1>8. ClientShape'
  BY <1>1, <1>7 DEF KeyInv, ClientShape
<1>9. ServerShape'
  BY <1>6, <1>7 DEF KeyInv, ServerShape, Executors
<1>10. ToServer'
  <2>1. reader \notin {"accepted", "auth"}
    BY <1>7 DEF KeyInv, ToClient, Fresh
  <2> QED
    BY <1>4, <1>6, <1>7, <2>1 DEF KeyInv, ToServer, Fresh
<1>11. ToClient'
  BY <1>6, <1>7 DEF KeyInv, ToClient, Fresh, Pinged
<1>12. KeyInv'
  BY <1>6, <1>8, <1>9, <1>10, <1>11 DEF KeyInv
<1>13. ASSUME Steady PROVE Steady'
  <2>1. /\ Coming("server") = {} /\ ~Got("server") /\ ~Pinged /\ Coming("client") = {}
        /\ OnePing(events) /\ receiving["client"] = Idle
    BY <1>7, <1>13 DEF Steady, OneTurn, KeyInv, ClientShape
  <2>2. Listening("client")' => Listening("client")
    BY <1>7 DEF Listening
  <2>3. Frames("client")' /\ Frames("server")'
    BY <1>1, <1>4, <1>6, <1>7, <1>13, <2>1, <2>2, SpeakFrames, TheEnds DEF Steady
  <2>4. OneTurn'
    BY <1>6, <1>7, <2>1 DEF OneTurn, Pinged, Got, Idle
  <2> QED
    BY <2>3, <2>4 DEF Steady
<1> QED
  BY <1>12, <1>13

\* drpc_ok for the password the client has; anything else is refused.
LEMMA ServerAnswersKeeps ==
  ASSUME KeyInv, ServerAnswers
  PROVE  KeyInv' /\ (Steady => Steady')
<1> USE DEF serverIdle, clientSide
<1>1. /\ TransportType /\ key["server"] = NoKey /\ sending["server"] = Idle
      /\ reader = "auth" /\ Got("server") /\ Coming("server") = {}
      /\ receiving["server"].body.type = "auth" /\ receiving["server"].body.data = passwd
      /\ Fresh /\ Coming("client") = {} /\ ~Got("client")
      /\ executor.at = "none" /\ events = <<>>
  BY DEF KeyInv, ServerShape, Executors, ToServer, ToClient, ServerAnswers
<1>2. PICK type \in {"ok", "bad"}, data \in {"encrypt_xor", Nothing} :
        /\ Send("server", type, data)
        /\ reader' = IF type = "ok" THEN "accept" ELSE "refuse"
        /\ user' = IF type = "ok" THEN passwd ELSE user
  BY <1>1 DEF ServerAnswers
<1>3. /\ "server" \in Ends /\ type \in Types
      /\ data \in Passwords \cup {"encrypt_xor", Nothing}
      /\ stream' = stream
      /\ receiving' = [f \in Ends |-> receiving'[f]]
      /\ \A f \in Ends : receiving'[f] \in {receiving[f], Idle, AtStart}
      /\ receiving'["server"] = Idle
  BY <1>1, TheEnds DEF ServerAnswers, Types, TransportType
<1>4. PICK m \in Message : /\ m.body.type = type /\ m.body.data = data
                           /\ m.key = NoKey
                           /\ Speaks("server", m) /\ messages' \in [Ends -> Nat]
  BY <1>1, <1>2, <1>3, SendCall
<1>5. RestTyped
  BY <1>1, <1>4 DEF RestTyped, ServerAnswers, TransportType
<1>6. /\ TransportType'
      /\ Coming("server")' \subseteq Coming("server")
      /\ Coming("client")' \subseteq Coming("client") \cup {m}
      /\ Coming("client") = {} => Ended("client")'
      /\ Got("client")' => Got("client") /\ receiving'["client"] = receiving["client"]
      /\ Got("server")' => Got("server") /\ receiving'["server"] = receiving["server"]
      /\ sending'["client"] = sending["client"]
      /\ receiving'["client"] = receiving["client"]
  <2>1. receiving'["client"] = receiving["client"]
    BY <1>1, TheEnds DEF ServerAnswers, TransportType
  <2> QED
    BY <1>1, <1>4, <1>5, <2>1, SpeakStep, TheEnds
<1>7. UNCHANGED <<key, passwd, client, users, events, executor>>
  BY DEF ServerAnswers
<1>8. ClientShape'
  BY <1>6, <1>7 DEF KeyInv, ClientShape
<1>9. ServerShape'
  BY <1>1, <1>2, <1>3, <1>6, <1>7 DEF KeyInv, ServerShape, Executors
<1>10. ToServer'
  <2>1. ~Got("server")'
    BY <1>3 DEF Got, Idle
  <2>2. client # "connect" \/ reader' \notin {"accepted", "auth", "gone"}
    BY <1>1, <1>2
  <2>3. Coming("server")' = {}
    BY <1>1, <1>6
  <2>4. client # "connect"
    BY <1>1 DEF KeyInv, ToServer
  <2> QED
    BY <1>1, <1>2, <1>7, <2>1, <2>3, <2>4 DEF ToServer, Fresh
<1>11. ToClient'
  <2>1. Coming("client")' \subseteq {m} /\ Ended("client")' /\ ~Got("client")'
    BY <1>1, <1>6
  <2>2. ~Pinged'
    BY <1>1, <1>7 DEF Pinged
  <2> QED
    BY <1>1, <1>2, <1>4, <1>7, <2>1, <2>2 DEF ToClient, Fresh
<1>12. KeyInv'
  BY <1>6, <1>8, <1>9, <1>10, <1>11 DEF KeyInv
<1>13. ASSUME Steady PROVE Steady'
  <2>1. ~Pinged /\ OnePing(events) /\ client \notin {"connect", "ready"}
    BY <1>1, <1>13 DEF Steady, OneTurn
  <2>2. (Listening("server")' => Listening("server")) /\ ~Reading("server")
    BY <1>1 DEF Listening, Got, Reading
  <2>3. Frames("client")' /\ Frames("server")'
    BY <1>1, <1>4, <1>6, <1>13, <2>2, SpeakFrames, TheEnds DEF Steady
  <2>4. OneTurn'
    BY <1>1, <1>3, <1>6, <1>7, <2>1 DEF OneTurn, Pinged, Got, Idle
  <2> QED
    BY <2>3, <2>4 DEF Steady
<1> QED
  BY <1>12, <1>13

\* The executor answers the only ping; other messages are not answered here.
LEMMA ExecutorTakesKeeps ==
  ASSUME KeyInv, ExecutorTakes
  PROVE  KeyInv' /\ (Steady => Steady')
<1> USE DEF serverIdle, clientSide
<1>1. /\ TransportType /\ executor.at = "idle" /\ events \in Seq(Types) /\ events # <<>>
      /\ reader \in {"serve", "leave"} /\ key["server"] = SessionKey(passwd)
      /\ executor \in Executors
      /\ sending["server"] = Idle
  BY DEF KeyInv, ServerShape, Executors, ExecutorTakes
<1>2. /\ events' \in Seq(Types) /\ Head(events) \in Types
      /\ Pinged' => Pinged
      /\ Head(events) = "ping" => Pinged
  <2>1. events' = Tail(events)
    BY DEF ExecutorTakes
  <2>2. PICK n \in Nat : n = Len(events) /\ n # 0 /\ DOMAIN events = 1 .. n
    BY <1>1, LenProperties, EmptySeq
  <2>3. /\ events' \in Seq(Types) /\ Len(events') = n - 1
        /\ \A i \in 1 .. n - 1 : events'[i] = events[i + 1]
        /\ Head(events) = events[1] /\ Head(events) \in Types
    BY <1>1, <2>1, <2>2, HeadTailProperties
  <2>4. DOMAIN events' = 1 .. n - 1
    BY <2>3, LenProperties
  <2>5. \A i \in 1 .. n - 1 : i + 1 \in 1 .. n
    BY <2>2
  <2>6. 1 \in 1 .. n
    BY <2>2
  <2> QED
    BY <2>2, <2>3, <2>4, <2>5, <2>6 DEF Pinged
<1>3. UNCHANGED <<stream, torn, receiving, key, passwd, client, users, reader, user>>
  BY DEF ExecutorTakes
<1>4. CASE Head(events) = "ping"
  <2>1. Send("server", "ping", Nothing) /\ executor' = [executor EXCEPT !.at = "reply"]
    BY <1>4 DEF ExecutorTakes
  <2>2. /\ "server" \in Ends /\ "ping" \in Types
        /\ Nothing \in Passwords \cup {"encrypt_xor", Nothing}
        /\ stream' = stream
        /\ receiving' = [f \in Ends |-> receiving'[f]]
        /\ \A f \in Ends : receiving'[f] \in {receiving[f], Idle, AtStart}
    BY <1>1, <1>3, TheEnds DEF Types, TransportType
  <2>3. PICK m \in Message : /\ m.body.type = "ping" /\ m.key = SessionKey(passwd)
                             /\ Speaks("server", m) /\ messages' \in [Ends -> Nat]
    BY <1>1, <2>1, <2>2, SendCall
  <2>4. RestTyped
    BY <1>1, <1>3, <2>3 DEF RestTyped, TransportType
  <2>5. /\ TransportType'
        /\ Coming("server")' \subseteq Coming("server")
        /\ Coming("client")' \subseteq Coming("client") \cup {m}
        /\ Got("client")' => Got("client") /\ receiving'["client"] = receiving["client"]
        /\ Got("server")' => Got("server") /\ receiving'["server"] = receiving["server"]
        /\ sending'["client"] = sending["client"]
    BY <1>1, <2>3, <2>4, SpeakStep, TheEnds
  <2>6. ~Fresh
    BY <1>2, <1>4 DEF KeyInv, ToClient
  <2>7. ClientShape'
    BY <1>3, <2>5 DEF KeyInv, ClientShape
  <2>8. ServerShape'
    BY <1>1, <1>2, <1>3, <2>1, <2>5 DEF KeyInv, ServerShape, Executors
  <2>9. ToServer'
    BY <1>1, <1>3, <2>5, <2>6 DEF KeyInv, ToServer, Fresh
  <2>10. ToClient'
    BY <1>1, <1>3, <2>3, <2>5, <2>6 DEF KeyInv, ToClient, Fresh
  <2>11. KeyInv'
    BY <2>5, <2>7, <2>8, <2>9, <2>10 DEF KeyInv
  <2>12. ASSUME Steady PROVE Steady'
    <3>1. /\ Coming("server") = {} /\ ~Got("server") /\ ~Got("client") /\ Coming("client") = {}
          /\ client \notin {"connect", "ready"} /\ OnePing(events)
      BY <1>2, <1>4, <2>12 DEF Steady, OneTurn
    <3>2. OnePing(events') /\ ~Pinged'
      BY <1>1, <1>4, <3>1, PingsShrink DEF Pinged, ExecutorTakes
    <3>3. Listening("server")' => Listening("server")
      BY <1>3 DEF Listening
    <3>4. Frames("client")' /\ Frames("server")'
      BY <1>1, <1>3, <2>3, <2>5, <2>12, <3>1, <3>3, SpeakFrames, TheEnds DEF Steady
    <3>5. OneTurn'
      BY <1>3, <2>5, <3>1, <3>2 DEF OneTurn, Got
    <3> QED
      BY <3>4, <3>5 DEF Steady
  <2> QED
    BY <2>11, <2>12
<1>5. CASE Head(events) # "ping"
  <2>1. executor' = [executor EXCEPT !.stop = TRUE, !.already = TRUE]
        /\ UNCHANGED <<sending, messages>>
    BY <1>5 DEF ExecutorTakes
  <2>2. /\ executor' \in Executors
        /\ executor'.at = "idle"
    BY <1>1, <2>1 DEF Executors
  <2>3. TransportType'
    BY <1>1, <1>3, <2>1 DEF TransportType
  <2>4. Calm /\ RestTyped
    BY <1>1, <1>3, <2>1 DEF Calm, RestTyped, TransportType
  <2>5. Stays("client") /\ Stays("server")
    BY <1>1, <2>4, CalmStays
  <2>6. ClientShape'
    BY <1>3, <2>1 DEF KeyInv, ClientShape
  <2>7. ServerShape'
    BY <1>1, <1>2, <1>3, <2>1, <2>2 DEF KeyInv, ServerShape, Executors
  <2>8. ToServer'
    BY <1>3, <2>5 DEF KeyInv, ToServer, Stays, Fresh
  <2>9. ToClient'
    BY <1>2, <1>3, <2>2, <2>5 DEF KeyInv, ToClient, Stays, Fresh
  <2>10. KeyInv'
    BY <2>3, <2>6, <2>7, <2>8, <2>9 DEF KeyInv
  <2>11. ASSUME Steady PROVE Steady'
    <3>1. OnePing(events')
      BY <1>1, <2>11, PingsShrink DEF Steady, OneTurn, ExecutorTakes
    <3>2. StillReads("client") /\ StillReads("server")
      BY <1>3 DEF StillReads, Listening
    <3>3. Frames("client")' /\ Frames("server")'
      BY <1>1, <1>3, <2>3, <2>4, <2>11, <3>2, CalmFrames, TheEnds DEF Steady
    <3>4. OneTurn'
      BY <1>2, <1>3, <2>5, <2>11, <3>1 DEF Steady, OneTurn, Stays
    <3> QED
      BY <3>3, <3>4 DEF Steady
  <2> QED
    BY <2>10, <2>11
<1> QED
  BY <1>4, <1>5

\* AddUser, ExecutorDone and stuttering leave the transport alone.
LEMMA AsideKeeps ==
  ASSUME KeyInv, \/ \E password \in Passwords : AddUser(password)
                 \/ ExecutorDone
                 \/ UNCHANGED vars
  PROVE  KeyInv' /\ (Steady => Steady')
<1>1. /\ UNCHANGED <<stream, sending, receiving, key, torn, messages, passwd, client, reader,
                     user, events>>
      /\ users' \in Passwords \cup {Nothing}
      /\ \/ executor' = executor
         \/ /\ executor.at = "idle"
            /\ executor' = [executor EXCEPT !.at = "done", !.already = TRUE]
  BY DEF AddUser, ExecutorDone, vars, transport, clientSide, KeyInv, TransportType
<1>2. /\ executor' \in Executors
      /\ executor' = executor \/ (executor.at = "idle" /\ executor'.at = "done")
  BY <1>1 DEF KeyInv, ServerShape, Executors
<1>3. TransportType'
  BY <1>1 DEF KeyInv, TransportType
<1>4. Calm /\ RestTyped
  BY <1>1 DEF KeyInv, Calm, RestTyped, TransportType
<1>5. Stays("client") /\ Stays("server")
  BY <1>4, CalmStays DEF KeyInv
<1>6. ClientShape'
  BY <1>1 DEF KeyInv, ClientShape
<1>7. ServerShape'
  BY <1>1, <1>2 DEF KeyInv, ServerShape, Executors
<1>8. ToServer'
  BY <1>1, <1>5 DEF KeyInv, ToServer, Stays, Fresh
<1>9. ToClient'
  BY <1>1, <1>2, <1>5 DEF KeyInv, ToClient, Stays, Fresh, Pinged
<1>10. KeyInv'
  BY <1>3, <1>6, <1>7, <1>8, <1>9 DEF KeyInv
<1>11. ASSUME Steady PROVE Steady'
  <2>1. StillReads("client") /\ StillReads("server")
    BY <1>1 DEF StillReads, Listening
  <2>2. Frames("client")' /\ Frames("server")'
    BY <1>1, <1>3, <1>4, <1>11, <2>1, CalmFrames, TheEnds DEF Steady, KeyInv
  <2>3. OneTurn'
    BY <1>1, <1>5, <1>11 DEF Steady, OneTurn, Stays, Pinged
  <2> QED
    BY <2>2, <2>3 DEF Steady
<1> QED
  BY <1>10, <1>11

-----------------------------------------------------------------------------
(* The theorems *)

\* A session begins with nothing on the way.
LEMMA KeyInvInit == Init => KeyInv
<1> SUFFICES ASSUME Init PROVE KeyInv
  OBVIOUS
<1>1. /\ stream["client"] = <<>> /\ stream["server"] = <<>>
      /\ \A e \in Ends : sending[e] = Idle /\ receiving[e] = Idle /\ stream[e] = <<>>
      /\ key["client"] = NoKey /\ key["server"] = NoKey
      /\ Peer("client") = "server" /\ Peer("server") = "client"
      /\ "client" \in Ends /\ "server" \in Ends
  BY TheEnds DEF Init, TcpInit
<1>2. TransportType
  <2>1. <<>> \in Seq(Byte)
    BY EmptySeq
  <2> QED
    BY <1>1, <2>1, SendingMade, ReceivingMade, SessionKeys DEF TransportType, Init, TcpInit
<1>3. Coming("client") = {} /\ Coming("server") = {}
  BY <1>1, LeavingCases, HeldCases, InEmpty DEF Coming
<1>4. ~Got("client") /\ ~Got("server") /\ Ended("client") /\ Ended("server") /\ ~Pinged
  BY <1>1 DEF Got, Idle, Ended, Init, Pinged
<1>5. ClientShape
  BY <1>1 DEF ClientShape, Init
<1>6. ServerShape
  <2>1. <<>> \in Seq(Types)
    BY EmptySeq
  <2> QED
    BY <1>1, <2>1 DEF ServerShape, Executors, Init
<1>7. ToServer
  BY <1>3, <1>4 DEF ToServer, Init, Fresh
<1>8. ToClient
  BY <1>3, <1>4 DEF ToClient, Init, Fresh
<1> QED
  BY <1>2, <1>5, <1>6, <1>7, <1>8 DEF KeyInv

\* Every step keeps KeyInv.
LEMMA KeyInvNext == KeyInv /\ [Next]_vars => KeyInv'
BY TransportKeeps, ClientConnectKeeps, ClientSentKeeps, ClientAcceptedKeeps,
   ClientClosesKeeps, ClientPingedKeeps, ClientSpeaks, ServerAcceptsKeeps,
   ServerAnswersKeeps, ServerServesKeeps, ReaderPostsKeeps, ReaderLeavesKeeps,
   ServerClosesKeeps, ExecutorTakesKeeps, ExecutorRepliedKeeps, AsideKeeps
   DEF Next, Client, Reader, Executor

\* KeyInv is an invariant.
LEMMA KeyInvAlways == Spec => []KeyInv
BY KeyInvInit, KeyInvNext, PTL DEF Spec

\* What drpc_tcp_recv_message decrypts was encrypted with the key it has: neither
\* drpc_server_client_auth nor drpc_client_connect changes its key while a message
\* is on the way, and both take the same, even if the user's password is changed
\* at the same time.
THEOREM KeysAlwaysAgree == Spec => []KeysAgree
<1>1. KeyInv => KeysAgree
  <2> SUFFICES ASSUME KeyInv, NEW e \in Ends PROVE receiving[e] # Undefined("key")
    BY DEF KeysAgree
  <2>1. receiving[e] \in Receiving
    BY DEF KeyInv, TransportType
  <2>2. /\ Undefined("key") # Undefined("bytes") /\ Undefined("key").call = "undefined"
        /\ Undefined("key").call \notin {"header", "body", "got", "failed", "idle"}
    BY DEF Undefined
  <2> QED
    BY <2>1, <2>2, ReceivingCases DEF Idle, Undefined
<1> QED
  BY <1>1, KeyInvAlways, PTL

\* At first nothing is on the way.
LEMMA SteadyInit == Init => Steady
<1> SUFFICES ASSUME Init PROVE Steady
  OBVIOUS
<1>1. /\ \A e \in Ends : sending[e] = Idle /\ receiving[e] = Idle /\ stream[e] = <<>>
      /\ events = <<>>
  BY DEF Init, TcpInit
<1>2. \A e \in Ends : Coming(e) = {} /\ ~Got(e) /\ receiving[e] # Undefined("bytes")
  BY <1>1, TheEnds, LeavingCases, HeldCases, InEmpty DEF Coming, Got, Idle, Undefined
<1>3. OneTurn
  BY <1>1, <1>2, TheEnds DEF OneTurn, Pinged, OnePing
<1> QED
  BY <1>2, <1>3, TheEnds DEF Steady, Frames, Framed

\* torn, once set, stays: only a send or recv that fails within a part sets it.
LEMMA TornStays == [Next]_vars /\ ~torn' => ~torn
<1> SUFFICES ASSUME [Next]_vars, ~torn' PROVE ~torn
  OBVIOUS
<1>1. CASE \E e \in Ends : Sends(e) \/ Receives(e)
  BY <1>1 DEF Sends, Receives, SendSome, SendError, ReceiveSome, ReceiveEnd, ReceiveError
<1>2. CASE Client \/ ClientLeaves
  BY <1>2 DEF Client, ClientConnect, ClientSent, ClientAccepted, ClientCloses, ClientPing,
              ClientPinged, ClientLeaves, clientIdle
<1>3. CASE Reader \/ Executor
  BY <1>3 DEF Reader, ServerAccepts, ServerAnswers, ServerServes, ReaderPosts, ReaderLeaves,
              ServerCloses, Executor, ExecutorTakes, ExecutorReplied, ExecutorDone,
              serverIdle, transport
<1>4. CASE \/ \E password \in Passwords : AddUser(password)
           \/ UNCHANGED vars
  BY <1>4 DEF AddUser, vars, transport
<1> QED
  BY <1>1, <1>2, <1>3, <1>4 DEF Next

\* Every step that takes no byte off keeps Steady.
LEMMA SteadyNext == KeyInv /\ Steady /\ [Next]_vars /\ ~torn' => Steady'
BY TransportSteady, ClientConnectKeeps, ClientSentKeeps, ClientAcceptedKeeps,
   ClientClosesKeeps, ClientPingedKeeps, ClientSpeaks, ServerAcceptsKeeps,
   ServerAnswersKeeps, ServerServesKeeps, ReaderPostsKeeps, ReaderLeavesKeeps,
   ServerClosesKeeps, ExecutorTakesKeeps, ExecutorRepliedKeeps, AsideKeeps
   DEF Next, Client, Reader, Executor

\* However few bytes a send or a recv transfers, what tcp_recv_loop takes for a
\* part of a message is that part, whole and in order, unless a timeout between
\* two bytes of a part has taken a byte off the count.
THEOREM FramesAlwaysIntact == Spec => []FramesIntact
<1>1. Init => FrameInv
  BY SteadyInit DEF FrameInv
<1>2. KeyInv /\ FrameInv /\ [Next]_vars => FrameInv'
  BY SteadyNext, TornStays DEF FrameInv
<1>3. FrameInv => FramesIntact
  BY TheEnds DEF FrameInv, Steady, Frames, FramesIntact
<1> QED
  BY <1>1, <1>2, <1>3, KeyInvAlways, PTL DEF Spec

=============================================================================
