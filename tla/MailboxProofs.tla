----------------------------- MODULE MailboxProofs -----------------------------
(***************************************************************************)
(* What holds of the mailboxes for any number of clients and messages.     *)
(*                                                                         *)
(* A copy the application makes of a mailbox only it empties is exact, and *)
(* its assertion does not fail; no NULL message is delivered from behind a *)
(* proxy, unless the mailbox was in use while it was copied.  Both rest on *)
(* counting: the rounds a loop still has are covered by what is in the     *)
(* mailbox, since nobody else takes from it.                               *)
(*                                                                         *)
(* Messages stay in order: those of one maker are in line from where they  *)
(* arrive back to where they are made, when a mailbox that is being copied *)
(* counts as having what it had.                                           *)
(*                                                                         *)
(* No message is in two places or in none: each step takes the spot of     *)
(* every message to a spot of the same message.                            *)
(*                                                                         *)
(* What drpc_ok promises is kept, but for a stopped proxy client: a loop   *)
(* over the messages a request brings has a round for each of them.        *)
(***************************************************************************)
EXTENDS Mailbox, FiniteSetTheorems, SequenceTheorems, TLAPS

Item == Message \cup {NULL}
Boxes == {"recv", "send"}

\* A copy in its loop has at most one message in hand, in one of its rounds.
CopierType ==
  /\ copier \in [box : {"none", "recv", "send", "aborted"}, left : Nat,
                 element : Seq(Item), new : Seq(Item),
                 snapshot : Seq(Item \cup Boxes), calls : Nat]
  /\ Len(copier.element) <= 1 /\ Len(copier.element) <= copier.left

RequestsType ==
  /\ at \in [Clients -> {"idle", "check", "call", "lock", "count",
                         "move", "reply", "aborted"}]
  /\ asks \in [Clients -> Boxes]
  /\ left \in [Clients -> Nat]
  /\ hand \in [Clients -> Seq(Item)]
  /\ delivered \in [Clients -> Seq(Item)]

MailboxType ==
  /\ recvBox \in Seq(Item)
  /\ sendBox \in Seq(Message)
  /\ CopierType
  /\ copier.box = "send" => copier.element \in Seq(Message)
  /\ RequestsType
  /\ made \in Seq(Clients \cup {NoClient})

\* A request that brings messages has one for each round of its loop.
HandCovers ==
  \A c \in Clients :
    at[c] = "move" /\ asks[c] = "recv" => left[c] <= Len(hand[c])

\* The copy of mailbox b so far is the beginning of what was there, and the
\* mailbox begins with the rest.
CopyExact(b) ==
  LET done == Len(copier.new)
      all == Len(copier.snapshot)
  IN /\ done <= all
     /\ copier.left = all - done + Len(copier.element)
     /\ \A i \in 1 .. done : copier.new[i] = copier.snapshot[i]
     /\ all - done <= Len(Box(b))
     /\ \A i \in 1 .. all - done : Box(b)[i] = copier.snapshot[done + i]

CopyInv ==
  /\ copier.box = "recv" => CopyExact("recv")
  /\ copier.box = "send" /\ "send" \notin rotated => CopyExact("send")
  /\ copier.box = "aborted" => copier.snapshot = <<"send">> /\ "send" \in rotated

\* Behind a proxy the executor in a loop has its client's mutex.
LoopsHoldMutex ==
  proxied => \A c \in Clients : at[c] \in {"count", "move"} => proxyMutex = c

\* What a loop that empties the sender mailbox may still count on.
InSendBox == Len(sendBox) + (IF copier.box = "send" THEN Len(copier.element) ELSE 0)

SendBoxCovers ==
  proxied /\ "send" \notin rotated => \A c \in Clients :
    at[c] = "move" /\ asks[c] = "send" => left[c] <= InSendBox

NoNullYet ==
  proxied /\ "send" \notin rotated => \A c \in Clients :
    hand[c] \in Seq(Message) /\ delivered[c] \in Seq(Message)

MailboxInv ==
  /\ MailboxType
  /\ HandCovers
  /\ CopyInv
  /\ LoopsHoldMutex
  /\ SendBoxCovers
  /\ NoNullYet

-----------------------------------------------------------------------------
LEMMA InitMailboxInv == Init => MailboxInv
<1> SUFFICES ASSUME Init PROVE MailboxInv
  OBVIOUS
<1>1. \A S : <<>> \in Seq(S) /\ Len(<<>>) = 0
  BY EmptySeq
<1>2. MailboxType
  BY <1>1 DEF Init, MailboxType, CopierType, RequestsType, NotCopying, Boxes
<1> QED
  BY <1>1, <1>2 DEF Init, MailboxInv, HandCovers, CopyInv, LoopsHoldMutex,
     SendBoxCovers, NoNullYet, NotCopying

\* The invariant says what the two properties do.
LEMMA CopyInvSuffices == MailboxInv => CopyIsSnapshot
<1> SUFFICES ASSUME MailboxInv PROVE CopyIsSnapshot
  OBVIOUS
<1>1. CASE copier.box = "recv"
  <2> DEFINE done == Len(copier.new)
             all == Len(copier.snapshot)
  <2>1. /\ done <= all
        /\ copier.left = all - done + Len(copier.element)
        /\ \A i \in 1 .. done : copier.new[i] = copier.snapshot[i]
    BY <1>1 DEF MailboxInv, CopyInv, CopyExact
  <2>2. /\ copier.new \in Seq(Item) /\ copier.snapshot \in Seq(Item \cup Boxes)
        /\ copier.element \in Seq(Item) /\ copier.left \in Nat
    BY DEF MailboxInv, MailboxType, CopierType
  <2>3. done \in Nat /\ all \in Nat /\ Len(copier.element) \in Nat
    BY <2>2, LenProperties
  <2>4. SubSeq(copier.new, 1, done) = SubSeq(copier.snapshot, 1, done)
    BY <2>1, <2>2, <2>3
  <2>5. IsPrefix(copier.new, copier.snapshot)
    BY <2>1, <2>4 DEF IsPrefix
  <2>6. done + copier.left = all + Len(copier.element)
    BY <2>1, <2>3
  <2> QED
    BY <1>1, <2>5, <2>6 DEF CopyIsSnapshot
<1>2. CASE copier.box # "recv"
  BY <1>2 DEF MailboxInv, CopyInv, CopyIsSnapshot
<1> QED
  BY <1>1, <1>2

LEMMA NoNullYetSuffices == MailboxInv => NoPhantom
<1> SUFFICES ASSUME MailboxInv, proxied, "send" \notin rotated, NEW c \in Clients
             PROVE  NULL \notin ToSet(delivered[c])
  BY DEF NoPhantom
<1>1. delivered[c] \in Seq(Message)
  BY DEF MailboxInv, NoNullYet
<1>2. \A i \in DOMAIN delivered[c] : delivered[c][i] \in Message
  BY <1>1
<1> QED
  BY <1>2, MailboxAssumption DEF ToSet, Message

-----------------------------------------------------------------------------
(* What the steps have in common *)

LEMMA CopyUnchanged ==
  ASSUME CopyInv, UNCHANGED <<recvBox, sendBox, rotated, copier>>
  PROVE  CopyInv'
BY DEF CopyInv, CopyExact, Box

\* A step of client c which leaves the mailboxes and the copier alone.
Alone(c) ==
  /\ proxied' = proxied /\ recvBox' = recvBox /\ sendBox' = sendBox
  /\ rotated' = rotated /\ copier' = copier
  /\ made' \in Seq(Clients \cup {NoClient})
  /\ RequestsType'
  /\ \A d \in Clients \ {c} :
       /\ at'[d] = at[d] /\ asks'[d] = asks[d] /\ left'[d] = left[d]
       /\ hand'[d] = hand[d] /\ delivered'[d] = delivered[d]
       /\ proxied /\ proxyMutex = d => proxyMutex' = d

\* In such a step it is enough to look at c.
Fits(c) ==
  /\ at'[c] \in {"count", "move"} /\ proxied => proxyMutex' = c
  /\ at'[c] = "move" => IF asks'[c] = "recv" THEN left'[c] <= Len(hand'[c])
                        ELSE left'[c] <= Len(sendBox)
  /\ proxied /\ "send" \notin rotated =>
       hand'[c] \in Seq(Message) /\ delivered'[c] \in Seq(Message)

LEMMA RequestStep ==
  ASSUME MailboxInv, NEW c \in Clients, Alone(c), Fits(c)
  PROVE  MailboxInv'
<1>1. MailboxType'
  BY DEF Alone, MailboxInv, MailboxType, CopierType
<1>2. HandCovers'
  BY DEF Alone, Fits, MailboxInv, HandCovers
<1>3. CopyInv'
  BY CopyUnchanged DEF Alone, MailboxInv
<1>4. LoopsHoldMutex'
  BY DEF Alone, Fits, MailboxInv, LoopsHoldMutex
<1>5. SendBoxCovers'
  <2> SUFFICES ASSUME proxied, "send" \notin rotated, NEW d \in Clients,
                      at'[d] = "move", asks'[d] = "send"
               PROVE  left'[d] <= InSendBox'
    BY DEF SendBoxCovers, Alone
  <2>1. InSendBox' = InSendBox
    BY DEF InSendBox, Alone
  <2>2. sendBox \in Seq(Message) /\ copier.element \in Seq(Item)
    BY DEF MailboxInv, MailboxType, CopierType
  <2>3. Len(sendBox) \in Nat /\ Len(copier.element) \in Nat
    BY <2>2, LenProperties
  <2>4. Len(sendBox) <= InSendBox /\ InSendBox \in Nat
    BY <2>3 DEF InSendBox
  <2>5. left'[d] \in Nat
    BY DEF Alone, RequestsType
  <2> QED
    BY <2>1, <2>3, <2>4, <2>5 DEF Alone, Fits, MailboxInv, SendBoxCovers
<1>6. NoNullYet'
  BY DEF Alone, Fits, MailboxInv, NoNullYet
<1> QED
  BY <1>1, <1>2, <1>3, <1>4, <1>5, <1>6 DEF MailboxInv

-----------------------------------------------------------------------------
(* A client's request, up to its handler *)

LEMMA PutInv ==
  ASSUME MailboxInv, NEW c \in Clients, Put(c)
  PROVE  MailboxInv'
<1>1. PICK n \in 1 .. MaxBatch :
        /\ Len(made) + n <= MaxMessages
        /\ hand' = [hand EXCEPT ![c] = [k \in 1 .. n |-> Len(made) + k]]
        /\ made' = made \o [k \in 1 .. n |-> c]
  BY DEF Put
<1>2. Len(made) \in Nat /\ n \in Nat /\ MaxMessages \in Nat
  BY LenProperties, MailboxAssumption DEF MailboxInv, MailboxType
<1>3. \A k \in 1 .. n : Len(made) + k \in Message
  BY <1>1, <1>2 DEF Message
<1>4. [k \in 1 .. n |-> Len(made) + k] \in Seq(Message)
  BY <1>2, <1>3, IsASeq
<1>5. [k \in 1 .. n |-> Len(made) + k] \in Seq(Item)
  BY <1>4, SeqMonotonic DEF Item
<1>6. made' \in Seq(Clients \cup {NoClient})
  <2>1. [k \in 1 .. n |-> c] \in Seq(Clients \cup {NoClient})
    BY <1>2, IsASeq
  <2> QED
    BY <1>1, <2>1, ConcatProperties DEF MailboxInv, MailboxType
<1>7. RequestsType'
  BY <1>1, <1>5 DEF Put, requests, MailboxInv, MailboxType, RequestsType, Boxes
<1>8. proxied /\ "send" \notin rotated =>
        hand'[c] \in Seq(Message) /\ delivered'[c] \in Seq(Message)
  BY <1>1, <1>4 DEF Put, MailboxInv, MailboxType, RequestsType, NoNullYet
<1>9. /\ UNCHANGED <<proxied, recvBox, sendBox, rotated, copier, proxyMutex>>
      /\ at'[c] \in {"check", "count"} /\ (proxied => at'[c] = "check")
      /\ \A d \in Clients \ {c} :
           /\ at'[d] = at[d] /\ asks'[d] = asks[d] /\ left'[d] = left[d]
           /\ hand'[d] = hand[d] /\ delivered'[d] = delivered[d]
  BY <1>1 DEF Put, application, proxy, MailboxInv, MailboxType, RequestsType
<1>10. Alone(c) /\ Fits(c)
  BY <1>6, <1>7, <1>8, <1>9 DEF Alone, Fits
<1> QED
  BY <1>10, RequestStep

LEMMA GetInv ==
  ASSUME MailboxInv, NEW c \in Clients, Get(c)
  PROVE  MailboxInv'
<1>1. RequestsType'
  BY DEF Get, MailboxInv, MailboxType, RequestsType, Boxes
<1>2. proxied /\ "send" \notin rotated =>
        hand'[c] \in Seq(Message) /\ delivered'[c] \in Seq(Message)
  BY DEF Get, MailboxInv, NoNullYet
<1>3. /\ UNCHANGED <<proxied, recvBox, sendBox, rotated, copier, made, proxyMutex>>
      /\ at'[c] \in {"check", "count"} /\ (proxied => at'[c] = "check")
      /\ \A d \in Clients \ {c} :
           /\ at'[d] = at[d] /\ asks'[d] = asks[d] /\ left'[d] = left[d]
           /\ hand'[d] = hand[d] /\ delivered'[d] = delivered[d]
  BY DEF Get, application, proxy, MailboxInv, MailboxType, RequestsType
<1>4. made' \in Seq(Clients \cup {NoClient})
  BY <1>3 DEF MailboxInv, MailboxType
<1>5. Alone(c) /\ Fits(c)
  BY <1>1, <1>2, <1>3, <1>4 DEF Alone, Fits, application
<1> QED
  BY <1>5, RequestStep

\* The end of a request, and the steps of a proxied one to the mutex.
LEMMA FinishInv ==
  ASSUME MailboxInv, NEW c \in Clients, NEW verdict, NEW gone,
         Finish(c, verdict, gone),
         UNCHANGED <<proxied, recvBox, sendBox, rotated, application, proxyMutex,
                     asks, left, made>>,
         delivered' = delivered
           \/ delivered' = [delivered EXCEPT ![c] = @ \o hand[c]]
  PROVE  MailboxInv'
<1>1. /\ at' = [at EXCEPT ![c] = "idle"] /\ hand' = [hand EXCEPT ![c] = <<>>]
      /\ asks' = asks /\ left' = left /\ made' = made
      /\ UNCHANGED <<proxied, recvBox, sendBox, rotated, copier, proxyMutex>>
  BY DEF Finish, application
<1>2. \A S : <<>> \in Seq(S)
  BY EmptySeq
<1>3. delivered' \in [Clients -> Seq(Item)]
  <2>1. delivered[c] \o hand[c] \in Seq(Item)
    BY ConcatProperties DEF MailboxInv, MailboxType, RequestsType
  <2> QED
    BY <2>1 DEF MailboxInv, MailboxType, RequestsType
<1>4. RequestsType'
  BY <1>1, <1>2, <1>3 DEF MailboxInv, MailboxType, RequestsType
<1>5. proxied /\ "send" \notin rotated =>
        hand'[c] \in Seq(Message) /\ delivered'[c] \in Seq(Message)
  <2> SUFFICES ASSUME proxied, "send" \notin rotated
               PROVE  hand'[c] \in Seq(Message) /\ delivered'[c] \in Seq(Message)
    OBVIOUS
  <2>1. hand[c] \in Seq(Message) /\ delivered[c] \in Seq(Message)
    BY DEF MailboxInv, NoNullYet
  <2>2. delivered[c] \o hand[c] \in Seq(Message)
    BY <2>1, ConcatProperties
  <2>3. delivered'[c] \in {delivered[c], delivered[c] \o hand[c]} /\ hand'[c] = <<>>
    BY <1>1 DEF MailboxInv, MailboxType, RequestsType
  <2> QED
    BY <1>2, <2>1, <2>2, <2>3
<1>6. /\ at'[c] = "idle"
      /\ \A d \in Clients \ {c} :
           /\ at'[d] = at[d] /\ asks'[d] = asks[d] /\ left'[d] = left[d]
           /\ hand'[d] = hand[d] /\ delivered'[d] = delivered[d]
  BY <1>1 DEF MailboxInv, MailboxType, RequestsType
<1>7. made' \in Seq(Clients \cup {NoClient})
  BY <1>1 DEF MailboxInv, MailboxType
<1>8. Alone(c) /\ Fits(c)
  BY <1>1, <1>4, <1>5, <1>6, <1>7 DEF Alone, Fits
<1> QED
  BY <1>8, RequestStep

\* The steps of c after which it is not in a loop over the sender mailbox.
LEMMA MoveOnInv ==
  ASSUME MailboxInv, NEW c \in Clients,
         NEW to \in {"call", "lock", "count", "reply"},
         at' = [at EXCEPT ![c] = to],
         UNCHANGED <<proxied, recvBox, sendBox, rotated, application, asks, left,
                     hand, delivered, made>>,
         \A d \in Clients \ {c} :
           proxied /\ proxyMutex = d => proxyMutex' = d,
         to = "count" /\ proxied => proxyMutex' = c
  PROVE  MailboxInv'
<1>1. RequestsType'
  BY DEF MailboxInv, MailboxType, RequestsType
<1>2. proxied /\ "send" \notin rotated =>
        hand'[c] \in Seq(Message) /\ delivered'[c] \in Seq(Message)
  BY DEF MailboxInv, NoNullYet
<1>3. /\ at'[c] = to
      /\ \A d \in Clients \ {c} :
           /\ at'[d] = at[d] /\ asks'[d] = asks[d] /\ left'[d] = left[d]
           /\ hand'[d] = hand[d] /\ delivered'[d] = delivered[d]
  BY DEF MailboxInv, MailboxType, RequestsType
<1>4. copier' = copier /\ made' \in Seq(Clients \cup {NoClient})
  BY DEF application, MailboxInv, MailboxType
<1>5. Alone(c) /\ Fits(c)
  BY <1>1, <1>2, <1>3, <1>4 DEF Alone, Fits, application
<1> QED
  BY <1>5, RequestStep

LEMMA CheckProxyInv ==
  ASSUME MailboxInv, NEW c \in Clients, CheckProxy(c)
  PROVE  MailboxInv'
<1>1. CASE at' = [at EXCEPT ![c] = "call"] /\ UNCHANGED hand
  BY <1>1, MoveOnInv DEF CheckProxy
<1>2. CASE Finish(c, "failed", hand[c])
  BY <1>2, FinishInv DEF CheckProxy
<1> QED
  BY <1>1, <1>2 DEF CheckProxy

LEMMA CallTestInv ==
  ASSUME MailboxInv, NEW c \in Clients, CallTest(c)
  PROVE  MailboxInv'
<1>1. CASE at' = [at EXCEPT ![c] = "lock"]
  BY <1>1, MoveOnInv DEF CallTest
<1>2. CASE at' = [at EXCEPT ![c] = "reply"]
  BY <1>2, MoveOnInv DEF CallTest
<1> QED
  BY <1>1, <1>2 DEF CallTest

LEMMA CallProxyInv ==
  ASSUME MailboxInv, NEW c \in Clients, CallProxy(c)
  PROVE  MailboxInv'
BY MoveOnInv, MailboxAssumption DEF CallProxy

LEMMA CallFailsInv ==
  ASSUME MailboxInv, NEW c \in Clients, CallFails(c)
  PROVE  MailboxInv'
BY FinishInv DEF CallFails, proxy

LEMMA DeliverInv ==
  ASSUME MailboxInv, NEW c \in Clients, Deliver(c)
  PROVE  MailboxInv'
<1>1. CASE asks[c] = "send"
  BY <1>1, FinishInv DEF Deliver, proxy
<1>2. CASE asks[c] # "send"
  BY <1>2, FinishInv DEF Deliver, proxy
<1> QED
  BY <1>1, <1>2

LEMMA ReplyLostInv ==
  ASSUME MailboxInv, NEW c \in Clients, ReplyLost(c)
  PROVE  MailboxInv'
BY FinishInv DEF ReplyLost, proxy

LEMMA CountInv ==
  ASSUME MailboxInv, NEW c \in Clients, Count(c)
  PROVE  MailboxInv'
<1>1. /\ sendBox \in Seq(Message) /\ hand[c] \in Seq(Item)
      /\ asks[c] \in Boxes
  BY DEF MailboxInv, MailboxType, RequestsType
<1>2. Len(sendBox) \in Nat /\ Len(hand[c]) \in Nat
  BY <1>1, LenProperties
<1>3. /\ at' = [at EXCEPT ![c] = "move"]
      /\ left' = [left EXCEPT ![c] = IF asks[c] = "recv" THEN Len(hand[c])
                                     ELSE Len(sendBox)]
      /\ UNCHANGED <<proxied, recvBox, sendBox, rotated, copier, proxyMutex,
                     asks, hand, delivered, made>>
  BY DEF Count, application, proxy
<1>4. RequestsType'
  BY <1>2, <1>3 DEF MailboxInv, MailboxType, RequestsType
<1>5. proxied => proxyMutex' = c
  BY <1>3 DEF Count, MailboxInv, LoopsHoldMutex
<1>6. proxied /\ "send" \notin rotated =>
        hand'[c] \in Seq(Message) /\ delivered'[c] \in Seq(Message)
  BY <1>3 DEF MailboxInv, NoNullYet
<1>7. left'[c] = IF asks'[c] = "recv" THEN Len(hand'[c]) ELSE Len(sendBox)
  BY <1>3 DEF MailboxInv, MailboxType, RequestsType
<1>8. \A d \in Clients \ {c} :
        /\ at'[d] = at[d] /\ asks'[d] = asks[d] /\ left'[d] = left[d]
        /\ hand'[d] = hand[d] /\ delivered'[d] = delivered[d]
  BY <1>3 DEF MailboxInv, MailboxType, RequestsType
<1>9. made' \in Seq(Clients \cup {NoClient})
  BY <1>3 DEF MailboxInv, MailboxType
<1>10. IF asks'[c] = "recv" THEN left'[c] <= Len(hand'[c])
       ELSE left'[c] <= Len(sendBox)
  BY <1>2, <1>3, <1>7
<1>11. Alone(c) /\ Fits(c)
  BY <1>3, <1>4, <1>5, <1>6, <1>8, <1>9, <1>10 DEF Alone, Fits
<1> QED
  BY <1>11, RequestStep

LEMMA MovedInv ==
  ASSUME MailboxInv, NEW c \in Clients, Moved(c)
  PROVE  MailboxInv'
<1>1. proxied => proxyMutex = c
  BY DEF Moved, MailboxInv, LoopsHoldMutex
<1> QED
  BY <1>1, MoveOnInv DEF Moved

-----------------------------------------------------------------------------
(* The loops over the mailboxes *)

\* A copy stays exact while its mailbox grows at the far end.
LEMMA CopyGrows ==
  ASSUME MailboxInv, NEW b \in Boxes, CopyExact(b), copier' = copier,
         NEW m \in Item, Box(b)' = Append(Box(b), m)
  PROVE  CopyExact(b)'
<1> DEFINE done == Len(copier.new)
           all == Len(copier.snapshot)
<1>1. copier.new \in Seq(Item) /\ copier.snapshot \in Seq(Item \cup Boxes)
  BY DEF MailboxInv, MailboxType, CopierType
<1>2. Box(b) \in Seq(Item)
  <2>1. sendBox \in Seq(Item)
    BY SeqMonotonic DEF MailboxInv, MailboxType, Item
  <2> QED
    BY <2>1 DEF MailboxInv, MailboxType, Box
<1>3. done \in Nat /\ all \in Nat /\ Len(Box(b)) \in Nat
  BY <1>1, <1>2, LenProperties
<1>4. /\ Len(Box(b)') = Len(Box(b)) + 1
      /\ \A i \in 1 .. Len(Box(b)) : Box(b)'[i] = Box(b)[i]
  BY <1>2, AppendProperties
<1>5. /\ done <= all
      /\ copier.left = all - done + Len(copier.element)
      /\ \A i \in 1 .. done : copier.new[i] = copier.snapshot[i]
      /\ all - done <= Len(Box(b))
      /\ \A i \in 1 .. all - done : Box(b)[i] = copier.snapshot[done + i]
  BY DEF CopyExact
<1> HIDE DEF done, all
<1>6. /\ all - done <= Len(Box(b)')
      /\ \A i \in 1 .. all - done : Box(b)'[i] = copier.snapshot[done + i]
  BY <1>3, <1>4, <1>5
<1> QED
  BY <1>5, <1>6 DEF CopyExact, done, all

LEMMA MovePutInv ==
  ASSUME MailboxInv, NEW c \in Clients, MovePut(c)
  PROVE  MailboxInv'
<1>1. /\ hand[c] \in Seq(Item) /\ left[c] \in Nat /\ left[c] > 0
      /\ left[c] <= Len(hand[c])
  BY DEF MovePut, MailboxInv, MailboxType, RequestsType, HandCovers
<1>2. hand[c] # <<>> /\ Len(hand[c]) \in Nat
  BY <1>1, EmptySeq, LenProperties
<1>3. /\ Head(hand[c]) \in Item /\ Tail(hand[c]) \in Seq(Item)
      /\ Len(Tail(hand[c])) = Len(hand[c]) - 1
  BY <1>1, <1>2, HeadTailProperties
<1>4. /\ recvBox' = Append(recvBox, Head(hand[c]))
      /\ left' = [left EXCEPT ![c] = @ - 1]
      /\ hand' = [hand EXCEPT ![c] = Tail(@)]
      /\ "send" \notin rotated' => "send" \notin rotated
      /\ "send" \in rotated => "send" \in rotated'
      /\ UNCHANGED <<proxied, sendBox, copier, proxyMutex, at, asks, delivered,
                     made>>
  BY DEF MovePut, Disturb, application, proxy
<1>5. left[c] - 1 \in Nat
  BY <1>1
<1>6. MailboxType'
  <2>1. recvBox' \in Seq(Item)
    BY <1>3, <1>4, AppendProperties DEF MailboxInv, MailboxType
  <2>2. RequestsType'
    BY <1>3, <1>4, <1>5 DEF MailboxInv, MailboxType, RequestsType
  <2> QED
    BY <1>4, <2>1, <2>2 DEF MailboxInv, MailboxType, CopierType
<1>7. /\ left'[c] = left[c] - 1 /\ hand'[c] = Tail(hand[c])
      /\ \A d \in Clients \ {c} : left'[d] = left[d] /\ hand'[d] = hand[d]
  BY <1>4 DEF MailboxInv, MailboxType, RequestsType
<1>8. HandCovers'
  <2>1. left'[c] <= Len(hand'[c])
    BY <1>1, <1>2, <1>3, <1>7
  <2> QED
    BY <1>4, <1>7, <2>1 DEF MailboxInv, HandCovers
<1>9. CopyInv'
  <2>1. copier.box = "recv" => CopyExact("recv")'
    BY <1>3, <1>4, CopyGrows DEF MailboxInv, CopyInv, Boxes, Box
  <2>2. CopyExact("send") => CopyExact("send")'
    BY <1>4 DEF CopyExact, Box
  <2> QED
    BY <1>4, <2>1, <2>2 DEF MailboxInv, CopyInv
<1>10. LoopsHoldMutex'
  BY <1>4 DEF MailboxInv, LoopsHoldMutex
<1>11. SendBoxCovers'
  BY <1>4, <1>7 DEF MovePut, MailboxInv, SendBoxCovers, InSendBox
<1>12. NoNullYet'
  <2>1. proxied /\ "send" \notin rotated => hand'[c] \in Seq(Message)
    BY <1>2, <1>7, HeadTailProperties DEF MailboxInv, NoNullYet
  <2> QED
    BY <1>4, <1>7, <2>1 DEF MailboxInv, NoNullYet
<1> QED
  BY <1>6, <1>8, <1>9, <1>10, <1>11, <1>12 DEF MailboxInv

LEMMA MoveGetInv ==
  ASSUME MailboxInv, NEW c \in Clients, MoveGet(c)
  PROVE  MailboxInv'
<1>1. /\ sendBox \in Seq(Message) /\ hand[c] \in Seq(Item)
      /\ left[c] \in Nat /\ left[c] > 0
  BY DEF MoveGet, MailboxInv, MailboxType, RequestsType
<1>2. /\ left' = [left EXCEPT ![c] = @ - 1]
      /\ \/ /\ sendBox = <<>> /\ sendBox' = sendBox
            /\ hand' = [hand EXCEPT ![c] = Append(@, NULL)]
         \/ /\ sendBox # <<>> /\ sendBox' = Tail(sendBox)
            /\ hand' = [hand EXCEPT ![c] = Append(@, Head(sendBox))]
      /\ rotated' = rotated \cup ({"send"} \cap {copier.box})
      /\ UNCHANGED <<proxied, recvBox, copier, proxyMutex, at, asks, delivered,
                     made>>
  BY DEF MoveGet, Disturb, application, proxy
<1>3. sendBox # <<>> =>
        /\ Head(sendBox) \in Message /\ Tail(sendBox) \in Seq(Message)
        /\ Len(Tail(sendBox)) = Len(sendBox) - 1
  BY <1>1, HeadTailProperties
<1>4. /\ left'[c] = left[c] - 1
      /\ \/ hand'[c] = Append(hand[c], NULL)
         \/ sendBox # <<>> /\ hand'[c] = Append(hand[c], Head(sendBox))
      /\ \A d \in Clients \ {c} : left'[d] = left[d] /\ hand'[d] = hand[d]
  <2>1. /\ left'[c] = left[c] - 1
        /\ \A d \in Clients \ {c} : left'[d] = left[d]
    BY <1>2 DEF MailboxInv, MailboxType, RequestsType
  <2>2. \A m : hand' = [hand EXCEPT ![c] = Append(@, m)] =>
          /\ hand'[c] = Append(hand[c], m)
          /\ \A d \in Clients \ {c} : hand'[d] = hand[d]
    BY DEF MailboxInv, MailboxType, RequestsType
  <2> QED
    BY <1>2, <2>1, <2>2, Zenon
<1>5. sendBox' \in Seq(Message)
  BY <1>1, <1>2, <1>3
<1>6. MailboxType'
  <2>1. hand'[c] \in Seq(Item)
    <3>1. \A m \in Item : Append(hand[c], m) \in Seq(Item)
      BY <1>1, AppendProperties
    <3>2. NULL \in Item /\ (sendBox # <<>> => Head(sendBox) \in Item)
      BY <1>3 DEF Item
    <3> QED
      BY <1>4, <3>1, <3>2
  <2>2. left'[c] \in Nat
    BY <1>1, <1>4
  <2>3. hand' \in [Clients -> Seq(Item)]
    BY <1>2, <1>4, <2>1 DEF MailboxInv, MailboxType, RequestsType
  <2>4. left' \in [Clients -> Nat]
    BY <1>2, <1>4, <2>2 DEF MailboxInv, MailboxType, RequestsType
  <2> QED
    BY <1>2, <1>5, <2>3, <2>4 DEF MailboxInv, MailboxType, RequestsType, CopierType
<1>7. HandCovers'
  BY <1>2, <1>4 DEF MoveGet, MailboxInv, HandCovers
<1>8. CopyInv'
  <2>1. copier.box = "recv" => CopyExact("recv")'
    BY <1>2 DEF MailboxInv, CopyInv, CopyExact, Box
  <2>2. copier.box = "send" => "send" \in rotated'
    BY <1>2
  <2> QED
    BY <1>2, <2>1, <2>2 DEF MailboxInv, CopyInv
<1>9. LoopsHoldMutex'
  BY <1>2 DEF MailboxInv, LoopsHoldMutex
\* Behind a proxy only c takes from the mailbox, and finds what it counted.
<1>10. ASSUME proxied, "send" \notin rotated'
       PROVE  /\ "send" \notin rotated /\ copier.box # "send"
              /\ InSendBox = Len(sendBox) /\ InSendBox' = Len(sendBox')
              /\ sendBox # <<>> /\ left[c] <= Len(sendBox)
  <2>1. "send" \notin rotated /\ copier.box # "send"
    BY <1>2, <1>10
  <2>2. Len(sendBox) \in Nat /\ sendBox' \in Seq(Message) /\ Len(sendBox') \in Nat
    BY <1>1, <1>5, LenProperties
  <2>3. InSendBox = Len(sendBox) /\ InSendBox' = Len(sendBox')
    BY <1>2, <2>1, <2>2 DEF InSendBox
  <2>4. left[c] <= Len(sendBox)
    BY <1>10, <2>1, <2>3 DEF MoveGet, MailboxInv, SendBoxCovers
  <2>5. sendBox # <<>>
    BY <1>1, <2>2, <2>4, EmptySeq
  <2> QED
    BY <2>1, <2>3, <2>4, <2>5
<1>11. SendBoxCovers'
  <2> SUFFICES ASSUME proxied, "send" \notin rotated', NEW d \in Clients,
                      at[d] = "move", asks[d] = "send"
               PROVE  left'[d] <= InSendBox'
    BY <1>2 DEF SendBoxCovers
  <2>1. d = c
    BY DEF MoveGet, MailboxInv, LoopsHoldMutex
  <2>2. Len(sendBox') = Len(sendBox) - 1 /\ Len(sendBox) \in Nat
    BY <1>1, <1>2, <1>3, <1>10, LenProperties
  <2> QED
    BY <1>1, <1>4, <1>10, <2>1, <2>2
<1>12. NoNullYet'
  <2> SUFFICES ASSUME proxied, "send" \notin rotated', NEW d \in Clients
               PROVE  hand'[d] \in Seq(Message) /\ delivered'[d] \in Seq(Message)
    BY <1>2 DEF NoNullYet
  <2>1. hand[d] \in Seq(Message) /\ delivered[d] \in Seq(Message)
    BY <1>10 DEF MailboxInv, NoNullYet
  <2>2. hand'[c] = Append(hand[c], Head(sendBox))
    BY <1>2, <1>10 DEF MailboxInv, MailboxType, RequestsType
  <2>3. ASSUME d = c PROVE hand'[d] \in Seq(Message)
    <3>1. Head(sendBox) \in Message
      BY <1>3, <1>10
    <3>2. Append(hand[d], Head(sendBox)) \in Seq(Message)
      BY <2>1, <3>1, AppendProperties
    <3> QED
      BY <2>2, <2>3, <3>2
  <2>4. d # c => hand'[d] = hand[d]
    BY <1>4
  <2>5. delivered' = delivered
    BY <1>2
  <2> QED
    BY <2>1, <2>3, <2>4, <2>5, Zenon
<1> QED
  BY <1>6, <1>7, <1>8, <1>9, <1>11, <1>12 DEF MailboxInv

-----------------------------------------------------------------------------
(* The application *)

\* A step in which no request takes part keeps the invariant if it keeps what
\* the mailboxes and the copy promise.
LEMMA ApplicationStep ==
  ASSUME MailboxInv,
         UNCHANGED <<proxied, rotated, proxyMutex, requests>>,
         made' \in Seq(Clients \cup {NoClient}),
         recvBox' \in Seq(Item), sendBox' \in Seq(Message),
         CopierType', copier'.box = "send" => copier'.element \in Seq(Message),
         CopyInv',
         InSendBox \in Nat, InSendBox' \in Nat, InSendBox <= InSendBox'
  PROVE  MailboxInv'
<1>1. /\ UNCHANGED <<proxied, rotated, proxyMutex, at, asks, left, hand, delivered>>
      /\ RequestsType
  BY DEF requests, MailboxInv, MailboxType
<1>2. MailboxType'
  BY <1>1 DEF MailboxType, RequestsType
<1>3. HandCovers' /\ LoopsHoldMutex' /\ NoNullYet'
  BY <1>1 DEF MailboxInv, HandCovers, LoopsHoldMutex, NoNullYet
<1>4. SendBoxCovers'
  <2> SUFFICES ASSUME proxied, "send" \notin rotated, NEW c \in Clients,
                      at[c] = "move", asks[c] = "send"
               PROVE  left[c] <= InSendBox'
    BY <1>1 DEF SendBoxCovers
  <2>1. left[c] <= InSendBox /\ left[c] \in Nat
    BY DEF MailboxInv, SendBoxCovers, MailboxType, RequestsType
  <2> QED
    BY <2>1
<1> QED
  BY <1>2, <1>3, <1>4 DEF MailboxInv

\* The messages of the mailboxes and of the copier.
LEMMA Shapes ==
  ASSUME MailboxInv
  PROVE  /\ recvBox \in Seq(Item) /\ sendBox \in Seq(Message)
         /\ \A b \in Boxes : Box(b) \in Seq(Item)
         /\ copier.element \in Seq(Item) /\ copier.new \in Seq(Item)
         /\ copier.snapshot \in Seq(Item \cup Boxes)
         /\ Len(sendBox) \in Nat /\ Len(copier.element) \in Nat
         /\ InSendBox \in Nat
<1>1. /\ recvBox \in Seq(Item) /\ sendBox \in Seq(Message)
      /\ copier.element \in Seq(Item) /\ copier.new \in Seq(Item)
      /\ copier.snapshot \in Seq(Item \cup Boxes)
  BY DEF MailboxInv, MailboxType, CopierType
<1>2. sendBox \in Seq(Item)
  BY <1>1, SeqMonotonic DEF Item
<1>3. Len(sendBox) \in Nat /\ Len(copier.element) \in Nat
  BY <1>1, LenProperties
<1>4. InSendBox \in Nat
  BY <1>3 DEF InSendBox
<1>5. \A b \in Boxes : Box(b) \in Seq(Item)
  BY <1>1, <1>2 DEF Box
<1> QED
  BY <1>1, <1>3, <1>4, <1>5

LEMMA AppPushInv ==
  ASSUME MailboxInv, AppPush
  PROVE  MailboxInv'
<1>1. /\ UNCHANGED <<proxied, recvBox, rotated, copier, proxyMutex, requests>>
      /\ made' = Append(made, NoClient)
      /\ sendBox' = Append(sendBox, Len(made) + 1)
      /\ copier.box = "none" /\ Len(made) < MaxMessages
  BY DEF AppPush, application, proxy
<1>2. Len(made) \in Nat
  BY LenProperties DEF MailboxInv, MailboxType
<1>3. Len(made) + 1 \in Message
  BY <1>1, <1>2, MailboxAssumption DEF Message
<1>4. sendBox' \in Seq(Message) /\ Len(sendBox') = Len(sendBox) + 1
  BY <1>1, <1>3, Shapes, AppendProperties
<1>5. made' \in Seq(Clients \cup {NoClient})
  BY <1>1, AppendProperties DEF MailboxInv, MailboxType
<1>6. CopyInv' /\ CopierType'
  BY <1>1 DEF CopyInv, CopierType, MailboxInv, MailboxType
<1>7. InSendBox = Len(sendBox) /\ InSendBox' = Len(sendBox) + 1
  BY <1>1, <1>4, Shapes DEF InSendBox
<1> QED
  BY <1>1, <1>4, <1>5, <1>6, <1>7, Shapes, ApplicationStep

LEMMA AppPopInv ==
  ASSUME MailboxInv, AppPop
  PROVE  MailboxInv'
<1>1. /\ UNCHANGED <<proxied, sendBox, rotated, copier, made, proxyMutex, requests>>
      /\ recvBox # <<>> /\ recvBox' = Tail(recvBox)
      /\ copier.box = "none"
  BY DEF AppPop, proxy
<1>2. recvBox' \in Seq(Item)
  BY <1>1, Shapes, HeadTailProperties
<1>3. CopyInv' /\ CopierType' /\ made' \in Seq(Clients \cup {NoClient})
  BY <1>1 DEF CopyInv, CopierType, MailboxInv, MailboxType
<1>4. InSendBox' = InSendBox /\ sendBox' \in Seq(Message)
  BY <1>1, Shapes DEF InSendBox
<1> QED
  BY <1>1, <1>2, <1>3, <1>4, Shapes, ApplicationStep

LEMMA CopyCountInv ==
  ASSUME MailboxInv, NEW b \in Boxes, CopyCount(b)
  PROVE  MailboxInv'
<1>1. /\ UNCHANGED <<proxied, recvBox, sendBox, rotated, made, proxyMutex, requests>>
      /\ copier.box = "none"
      /\ copier' = [box |-> b, left |-> Len(Box(b)), element |-> <<>>, new |-> <<>>,
                    snapshot |-> Box(b), calls |-> copier.calls + 1]
  BY DEF CopyCount, NotCopying, proxy
<1>2. /\ Box(b) \in Seq(Item) /\ Len(Box(b)) \in Nat /\ copier.calls \in Nat
      /\ Box(b) \in Seq(Item \cup Boxes)
  BY Shapes, LenProperties, SeqMonotonic DEF MailboxInv, MailboxType, CopierType
<1>3. \A S : <<>> \in Seq(S) /\ Len(<<>>) = 0
  BY EmptySeq
<1>4. CopierType' /\ copier'.element \in Seq(Message)
  BY <1>1, <1>2, <1>3 DEF CopierType, Boxes
<1>5. Box(b)' = Box(b)
  BY <1>1 DEF Box
<1>6. CopyExact(b)'
  BY <1>1, <1>2, <1>3, <1>5 DEF CopyExact
<1>7. CopyInv'
  BY <1>1, <1>6 DEF CopyInv, Boxes
<1>8. InSendBox' = InSendBox
  BY <1>1, <1>3, Shapes DEF InSendBox
<1>9. /\ recvBox' \in Seq(Item) /\ sendBox' \in Seq(Message)
      /\ made' \in Seq(Clients \cup {NoClient})
  BY <1>1 DEF MailboxInv, MailboxType
<1> QED
  BY <1>1, <1>4, <1>7, <1>8, <1>9, Shapes, ApplicationStep

\* While the copy has a round to go, its mailbox has a message for it.
LEMMA CopyFinds ==
  ASSUME MailboxInv, NEW b \in Boxes, CopyExact(b), copier.left > 0,
         copier.element = <<>>
  PROVE  Box(b) # <<>>
<1> DEFINE done == Len(copier.new)
           all == Len(copier.snapshot)
<1>1. done \in Nat /\ all \in Nat /\ Len(Box(b)) \in Nat
  BY Shapes, LenProperties
<1>2. copier.left = all - done + Len(copier.element) /\ all - done <= Len(Box(b))
  BY DEF CopyExact
<1>3. Len(copier.element) = 0
  BY EmptySeq
<1> HIDE DEF done, all
<1>4. Len(Box(b)) > 0
  BY <1>1, <1>2, <1>3
<1> QED
  BY <1>4, EmptySeq

\* The copy takes the message that comes next in the snapshot.
LEMMA CopyPops ==
  ASSUME MailboxInv, NEW b \in Boxes, CopyExact(b), copier.left > 0,
         copier.element = <<>>, Box(b) # <<>>,
         copier' = [copier EXCEPT !.element = <<Head(Box(b))>>,
                                  !.new = Append(@, Head(Box(b)))],
         Box(b)' = Tail(Box(b))
  PROVE  CopyExact(b)'
<1> DEFINE done == Len(copier.new)
           all == Len(copier.snapshot)
           rest == Box(b)
<1>1. /\ rest \in Seq(Item) /\ copier.new \in Seq(Item)
      /\ done \in Nat /\ all \in Nat /\ Len(rest) \in Nat
  BY Shapes, LenProperties
<1>2. /\ done <= all
      /\ copier.left = all - done
      /\ \A i \in 1 .. done : copier.new[i] = copier.snapshot[i]
      /\ all - done <= Len(rest)
      /\ \A i \in 1 .. all - done : rest[i] = copier.snapshot[done + i]
  <2>1. Len(copier.element) = 0
    BY EmptySeq
  <2>2. copier.left = all - done + Len(copier.element)
    BY DEF CopyExact
  <2>3. copier.left = all - done
    BY <1>1, <2>1, <2>2
  <2> QED
    BY <2>3 DEF CopyExact
<1>3. /\ Head(rest) \in Item /\ Len(Tail(rest)) = Len(rest) - 1
      /\ \A i \in 1 .. Len(Tail(rest)) : Tail(rest)[i] = rest[i + 1]
      /\ Head(rest) = rest[1]
  BY <1>1, HeadTailProperties
<1>4. /\ copier'.new = Append(copier.new, Head(rest))
      /\ copier'.element = <<Head(rest)>>
      /\ copier'.snapshot = copier.snapshot /\ copier'.left = copier.left
  BY DEF MailboxInv, MailboxType, CopierType
<1>5. /\ Len(copier'.new) = done + 1
      /\ \A i \in 1 .. done : copier'.new[i] = copier.new[i]
      /\ copier'.new[done + 1] = Head(rest)
  BY <1>1, <1>3, <1>4, AppendProperties
<1>6. Len(copier'.element) = 1
  BY <1>4
<1>7. Box(b)' = Tail(rest)
  OBVIOUS
<1> HIDE DEF done, all, rest
<1>8. 1 <= all - done
  BY <1>1, <1>2
<1>9. rest[1] = copier.snapshot[done + 1]
  BY <1>1, <1>2, <1>8
<1>10. \A i \in 1 .. done + 1 : copier'.new[i] = copier.snapshot[i]
  BY <1>1, <1>2, <1>3, <1>5, <1>9
<1>11. /\ done + 1 <= all
       /\ copier.left = all - (done + 1) + 1
       /\ all - (done + 1) <= Len(Tail(rest))
  BY <1>1, <1>2, <1>3, <1>8
<1>12. \A i \in 1 .. all - (done + 1) :
         Tail(rest)[i] = copier.snapshot[done + 1 + i]
  <2> SUFFICES ASSUME NEW i \in 1 .. all - (done + 1)
               PROVE  Tail(rest)[i] = copier.snapshot[done + 1 + i]
    OBVIOUS
  <2>1. i \in 1 .. Len(Tail(rest)) /\ i + 1 \in 1 .. all - done
    BY <1>1, <1>2, <1>3
  <2>2. Tail(rest)[i] = copier.snapshot[done + (i + 1)]
    BY <1>2, <1>3, <2>1
  <2>3. done + (i + 1) = done + 1 + i
    BY <1>1
  <2> QED
    BY <2>2, <2>3
<1> QED
  BY <1>4, <1>5, <1>6, <1>7, <1>10, <1>11, <1>12 DEF CopyExact, all

LEMMA CopyPopInv ==
  ASSUME MailboxInv, NEW b \in Boxes, CopyPop(b)
  PROVE  MailboxInv'
<1>0. copier.box = b /\ copier.left > 0 /\ copier.element = <<>>
  BY DEF CopyPop
<1>1. CASE Box(b) = <<>>
  <2>1. /\ copier' = [copier EXCEPT !.box = "aborted", !.snapshot = <<b>>]
        /\ at' = [c \in Clients |-> "aborted"]
        /\ UNCHANGED <<recvBox, sendBox, proxied, rotated, asks, left, hand,
                       delivered, made>>
    BY <1>1 DEF CopyPop
  <2>2. b = "send" /\ "send" \in rotated
    BY <1>0, <1>1, CopyFinds DEF MailboxInv, CopyInv, Boxes
  <2>3. <<b>> \in Seq(Item \cup Boxes)
    OBVIOUS
  <2>4. /\ copier'.box = "aborted" /\ copier'.snapshot = <<b>>
        /\ copier'.element = copier.element /\ copier'.left = copier.left
        /\ CopierType'
    BY <2>1, <2>3 DEF MailboxInv, MailboxType, CopierType
  <2>5. RequestsType'
    BY <2>1 DEF MailboxInv, MailboxType, RequestsType
  <2>6. MailboxType'
    BY <2>1, <2>4, <2>5 DEF MailboxInv, MailboxType
  <2>7. CopyInv'
    BY <2>1, <2>2, <2>4 DEF CopyInv
  <2>8. HandCovers' /\ LoopsHoldMutex' /\ SendBoxCovers'
    BY <2>1 DEF HandCovers, LoopsHoldMutex, SendBoxCovers
  <2>9. NoNullYet'
    BY <2>1 DEF MailboxInv, NoNullYet
  <2> QED
    BY <2>6, <2>7, <2>8, <2>9 DEF MailboxInv
<1>2. CASE Box(b) # <<>>
  <2> DEFINE m == Head(Box(b))
  <2>1. /\ copier' = [copier EXCEPT !.element = <<m>>, !.new = Append(@, m)]
        /\ recvBox' = IF b = "recv" THEN Tail(recvBox) ELSE recvBox
        /\ sendBox' = IF b = "send" THEN Tail(sendBox) ELSE sendBox
        /\ UNCHANGED <<proxied, rotated, proxyMutex, requests, made>>
    BY <1>2 DEF CopyPop, BoxBecomes, Box, requests, proxy
  <2>2. m \in Item /\ (b = "send" => m \in Message)
    BY <1>2, Shapes, HeadTailProperties DEF Box
  <2>3. recvBox' \in Seq(Item) /\ sendBox' \in Seq(Message)
    BY <1>2, <2>1, Shapes, HeadTailProperties DEF Box, Boxes
  <2>4. Append(copier.new, m) \in Seq(Item)
    BY <2>2, Shapes, AppendProperties
  <2>5. <<m>> \in Seq(Item) /\ Len(<<m>>) = 1
        /\ (b = "send" => <<m>> \in Seq(Message))
    BY <2>2
  <2>6. /\ copier'.box = b /\ copier'.element = <<m>>
        /\ copier'.left = copier.left /\ copier.left \in Nat
    BY <1>0, <2>1 DEF MailboxInv, MailboxType, CopierType
  <2>7. CopierType'
    <3>1. copier' \in [box : {"none", "recv", "send", "aborted"}, left : Nat,
                       element : Seq(Item), new : Seq(Item),
                       snapshot : Seq(Item \cup Boxes), calls : Nat]
      BY <2>1, <2>4, <2>5 DEF MailboxInv, MailboxType, CopierType
    <3> QED
      BY <1>0, <2>5, <2>6, <3>1 DEF CopierType
  <2>8. Box(b)' = Tail(Box(b))
    BY <2>1 DEF Box, Boxes
  <2>9. CopyExact(b) => CopyExact(b)'
    BY <1>0, <1>2, <2>1, <2>8, CopyPops
  <2>10. CopyInv'
    BY <1>0, <2>1, <2>6, <2>9 DEF MailboxInv, CopyInv, Boxes
  <2>11. InSendBox' = InSendBox
    <3>1. b = "send" => Len(sendBox') = Len(sendBox) - 1
      BY <1>2, <2>1, Shapes, HeadTailProperties DEF Box, Boxes
    <3>2. Len(copier.element) = 0
      BY <1>0, EmptySeq
    <3>3. CASE b = "send"
      BY <1>0, <2>5, <2>6, <3>1, <3>2, <3>3, Shapes DEF InSendBox
    <3>4. CASE b = "recv"
      BY <1>0, <2>1, <2>6, <3>4 DEF InSendBox
    <3> QED
      BY <3>3, <3>4 DEF Boxes
  <2>12. made' \in Seq(Clients \cup {NoClient})
    BY <2>1 DEF MailboxInv, MailboxType
  <2> QED
    BY <2>1, <2>3, <2>5, <2>6, <2>7, <2>10, <2>11, <2>12, Shapes, ApplicationStep
<1> QED
  BY <1>1, <1>2

LEMMA CopyPushInv ==
  ASSUME MailboxInv, NEW b \in Boxes, CopyPush(b)
  PROVE  MailboxInv'
<1>1. /\ copier.box = b /\ copier.element # <<>>
      /\ recvBox' = IF b = "recv" THEN recvBox \o copier.element ELSE recvBox
      /\ sendBox' = IF b = "send" THEN sendBox \o copier.element ELSE sendBox
      /\ copier' = [copier EXCEPT !.element = <<>>, !.left = @ - 1]
      /\ UNCHANGED <<proxied, rotated, proxyMutex, requests, made>>
  BY DEF CopyPush, BoxBecomes, Box, proxy
<1>2. Len(copier.element) = 1 /\ copier.left \in Nat /\ copier.left - 1 \in Nat
  <2>1. /\ Len(copier.element) <= 1 /\ Len(copier.element) <= copier.left
        /\ copier.left \in Nat
    BY DEF MailboxInv, MailboxType, CopierType
  <2>2. Len(copier.element) \in Nat /\ Len(copier.element) # 0
    BY <1>1, Shapes, EmptySeq
  <2>3. \A n, k \in Nat : n # 0 /\ n <= 1 /\ n <= k => n = 1 /\ k - 1 \in Nat
    OBVIOUS
  <2> QED
    BY <2>1, <2>2, <2>3
<1>3. \A S : <<>> \in Seq(S) /\ Len(<<>>) = 0
  BY EmptySeq
<1>4. /\ copier'.box = b /\ copier'.element = <<>> /\ copier'.left = copier.left - 1
      /\ copier'.new = copier.new /\ copier'.snapshot = copier.snapshot
  BY <1>1 DEF MailboxInv, MailboxType, CopierType
<1>5. CopierType'
  <2>1. copier' \in [box : {"none", "recv", "send", "aborted"}, left : Nat,
                     element : Seq(Item), new : Seq(Item),
                     snapshot : Seq(Item \cup Boxes), calls : Nat]
    BY <1>1, <1>2, <1>3 DEF MailboxInv, MailboxType, CopierType
  <2> QED
    BY <1>2, <1>3, <1>4, <2>1 DEF CopierType
<1>6. recvBox' \in Seq(Item) /\ sendBox' \in Seq(Message)
  <2>1. recvBox \o copier.element \in Seq(Item)
    BY Shapes, ConcatProperties
  <2>2. b = "send" => sendBox \o copier.element \in Seq(Message)
    BY <1>1, Shapes, ConcatProperties DEF MailboxInv, MailboxType
  <2> QED
    BY <1>1, <2>1, <2>2, Shapes
<1>7. /\ Box(b)' = Box(b) \o copier.element
      /\ Box(b) \in Seq(Item) /\ Len(Box(b)) \in Nat
  BY <1>1, Shapes, LenProperties DEF Box, Boxes
<1>8. /\ Len(Box(b)') = Len(Box(b)) + 1
      /\ \A i \in 1 .. Len(Box(b)) : Box(b)'[i] = Box(b)[i]
  <2> DEFINE rest == Box(b)
             one == copier.element
  <2>1. /\ Len(rest \o one) = Len(rest) + Len(one)
        /\ \A i \in 1 .. Len(rest) + Len(one) :
             (rest \o one)[i] = IF i <= Len(rest) THEN rest[i] ELSE one[i - Len(rest)]
    BY <1>7, Shapes, ConcatProperties
  <2>2. Box(b)' = rest \o one /\ Len(rest) \in Nat /\ Len(one) = 1
    BY <1>2, <1>7
  <2> HIDE DEF rest, one
  <2>3. /\ Len(rest \o one) = Len(rest) + 1
        /\ \A i \in 1 .. Len(rest) : (rest \o one)[i] = rest[i]
    BY <2>1, <2>2
  <2> QED
    BY <2>2, <2>3 DEF rest
<1>9. ASSUME CopyExact(b)
      PROVE  CopyExact(b)'
  <2> DEFINE done == Len(copier.new)
             all == Len(copier.snapshot)
  <2>1. done \in Nat /\ all \in Nat
    BY Shapes, LenProperties
  <2>2. /\ done <= all
        /\ copier.left = all - done + Len(copier.element)
        /\ \A i \in 1 .. done : copier.new[i] = copier.snapshot[i]
        /\ all - done <= Len(Box(b))
        /\ \A i \in 1 .. all - done : Box(b)[i] = copier.snapshot[done + i]
    BY <1>9 DEF CopyExact
  <2> HIDE DEF done, all
  <2>3. copier'.left = all - done + Len(copier'.element)
    BY <1>2, <1>3, <1>4, <2>1, <2>2
  <2>4. /\ all - done <= Len(Box(b)')
        /\ \A i \in 1 .. all - done : Box(b)'[i] = copier.snapshot[done + i]
    BY <1>7, <1>8, <2>1, <2>2
  <2> QED
    BY <1>4, <2>2, <2>3, <2>4 DEF CopyExact, done, all
<1>10. CopyInv'
  BY <1>1, <1>4, <1>9 DEF MailboxInv, CopyInv, Boxes
<1>11. InSendBox' = InSendBox
  <2>1. CASE b = "send"
    <3>1. Len(sendBox') = Len(sendBox) + 1
      BY <1>7, <1>8, <2>1 DEF Box
    <3> QED
      BY <1>1, <1>2, <1>3, <1>4, <2>1, <3>1, Shapes DEF InSendBox
  <2>2. CASE b = "recv"
    BY <1>1, <1>4, <2>2 DEF InSendBox
  <2> QED
    BY <2>1, <2>2 DEF Boxes
<1>12. made' \in Seq(Clients \cup {NoClient}) /\ copier'.element \in Seq(Message)
  BY <1>1, <1>3, <1>4 DEF MailboxInv, MailboxType
<1> QED
  BY <1>1, <1>5, <1>6, <1>10, <1>11, <1>12, Shapes, ApplicationStep

LEMMA CopyEndInv ==
  ASSUME MailboxInv, CopyEnd
  PROVE  MailboxInv'
<1>1. /\ UNCHANGED <<proxied, recvBox, sendBox, rotated, made, proxyMutex, requests>>
      /\ copier.left = 0
      /\ copier' = [box |-> "none", left |-> 0, element |-> <<>>, new |-> <<>>,
                    snapshot |-> <<>>, calls |-> copier.calls]
  BY DEF CopyEnd, NotCopying, proxy
<1>2. \A S : <<>> \in Seq(S) /\ Len(<<>>) = 0
  BY EmptySeq
<1>3. CopierType' /\ CopyInv' /\ copier'.element \in Seq(Message)
  BY <1>1, <1>2 DEF CopierType, CopyInv, MailboxInv, MailboxType
<1>4. Len(copier.element) = 0
  BY <1>1, Shapes DEF MailboxInv, MailboxType, CopierType
<1>5. InSendBox' = InSendBox
  BY <1>1, <1>2, <1>4, Shapes DEF InSendBox
<1>6. /\ recvBox' \in Seq(Item) /\ sendBox' \in Seq(Message)
      /\ made' \in Seq(Clients \cup {NoClient})
  BY <1>1 DEF MailboxInv, MailboxType
<1> QED
  BY <1>1, <1>3, <1>5, <1>6, Shapes, ApplicationStep

\* No step sees the rest: the proxy client's ping thread, and stuttering.
LEMMA QuietInv ==
  ASSUME MailboxInv,
         UNCHANGED <<proxied, recvBox, sendBox, rotated, copier, proxyMutex,
                     requests, made>>
  PROVE  MailboxInv'
<1>1. /\ CopierType' /\ (copier'.box = "send" => copier'.element \in Seq(Message))
      /\ recvBox' \in Seq(Item) /\ sendBox' \in Seq(Message)
      /\ made' \in Seq(Clients \cup {NoClient})
  BY DEF MailboxInv, MailboxType, CopierType
<1>2. CopyInv'
  BY CopyUnchanged DEF MailboxInv
<1>3. InSendBox' = InSendBox
  BY DEF InSendBox
<1> QED
  BY <1>1, <1>2, <1>3, Shapes, ApplicationStep

LEMMA NextInv == MailboxInv /\ [Next]_vars => MailboxInv'
<1> SUFFICES ASSUME MailboxInv, [Next]_vars PROVE MailboxInv'
  OBVIOUS
<1>1. CASE Application
  <2>1. CASE AppPush
    BY <2>1, AppPushInv
  <2>2. CASE AppPop
    BY <2>2, AppPopInv
  <2>3. CASE CopyEnd
    BY <2>3, CopyEndInv
  <2>4. ASSUME NEW b \in Boxes, CopyCount(b) \/ CopyPop(b) \/ CopyPush(b)
        PROVE  MailboxInv'
    BY <2>4, CopyCountInv, CopyPopInv, CopyPushInv
  <2> QED
    BY <1>1, <2>1, <2>2, <2>3, <2>4 DEF Application, Boxes
<1>2. CASE ProxyStops
  BY <1>2, QuietInv DEF ProxyStops, application
<1>3. ASSUME NEW c \in Clients, Put(c) \/ Get(c)
      PROVE  MailboxInv'
  BY <1>3, PutInv, GetInv
<1>4. ASSUME NEW c \in Clients, Handling(c)
      PROVE  MailboxInv'
  <2>1. CASE CheckProxy(c) \/ CallTest(c) \/ CallProxy(c) \/ CallFails(c)
    BY <2>1, CheckProxyInv, CallTestInv, CallProxyInv, CallFailsInv
  <2>2. CASE Count(c) \/ MovePut(c) \/ MoveGet(c) \/ Moved(c)
    BY <2>2, CountInv, MovePutInv, MoveGetInv, MovedInv
  <2>3. CASE Deliver(c) \/ ReplyLost(c)
    BY <2>3, DeliverInv, ReplyLostInv
  <2> QED
    BY <1>4, <2>1, <2>2, <2>3 DEF Handling
<1>5. CASE UNCHANGED vars
  BY <1>5, QuietInv DEF vars, application, proxy
<1> QED
  BY <1>1, <1>2, <1>3, <1>4, <1>5 DEF Next

-----------------------------------------------------------------------------
(***************************************************************************)
(* The order of messages.  Whether messages are in order somewhere depends *)
(* only on which are before which, so that what is said of a sequence is   *)
(* said with the set of its elements where that is enough.                 *)
(***************************************************************************)

LEMMA AppendSet ==
  ASSUME NEW S, NEW s \in Seq(S), NEW m \in S
  PROVE  /\ Append(s, m) \in Seq(S)
         /\ ToSet(Append(s, m)) = ToSet(s) \cup {m}
<1>1. /\ Append(s, m) \in Seq(S) /\ Len(Append(s, m)) = Len(s) + 1
      /\ \A k \in 1 .. Len(s) : Append(s, m)[k] = s[k]
      /\ Append(s, m)[Len(s) + 1] = m
  BY AppendProperties
<1>2. /\ Len(s) \in Nat /\ DOMAIN s = 1 .. Len(s)
      /\ DOMAIN Append(s, m) = 1 .. Len(s) + 1
  BY <1>1, LenProperties
<1>3. \A k \in 1 .. Len(s) + 1 : k \in 1 .. Len(s) \/ k = Len(s) + 1
  BY <1>2
<1>4. 1 .. Len(s) \subseteq 1 .. Len(s) + 1 /\ Len(s) + 1 \in 1 .. Len(s) + 1
  BY <1>2
<1> QED
  BY <1>1, <1>2, <1>3, <1>4 DEF ToSet

LEMMA TailSet ==
  ASSUME NEW S, NEW s \in Seq(S), s # <<>>
  PROVE  /\ Tail(s) \in Seq(S) /\ Head(s) \in S
         /\ Head(s) \in ToSet(s) /\ ToSet(Tail(s)) \subseteq ToSet(s)
<1>1. /\ Tail(s) \in Seq(S) /\ Head(s) \in S /\ Len(Tail(s)) = Len(s) - 1
      /\ \A k \in 1 .. Len(Tail(s)) : Tail(s)[k] = s[k + 1]
  BY HeadTailProperties
<1>2. /\ Len(s) \in Nat /\ Len(s) # 0 /\ DOMAIN s = 1 .. Len(s)
      /\ DOMAIN Tail(s) = 1 .. Len(s) - 1
  BY <1>1, LenProperties, EmptySeq
<1>3. /\ \A k \in 1 .. Len(s) - 1 : k + 1 \in 1 .. Len(s)
      /\ 1 \in 1 .. Len(s)
  BY <1>2
<1>4. Head(s) = s[1]
  OBVIOUS
<1> QED
  BY <1>1, <1>2, <1>3, <1>4 DEF ToSet

LEMMA ConcatSet ==
  ASSUME NEW S, NEW s \in Seq(S), NEW t \in Seq(S)
  PROVE  /\ s \o t \in Seq(S)
         /\ ToSet(s \o t) \subseteq ToSet(s) \cup ToSet(t)
<1>1. /\ s \o t \in Seq(S) /\ Len(s \o t) = Len(s) + Len(t)
      /\ \A k \in 1 .. Len(s) + Len(t) :
           (s \o t)[k] = IF k <= Len(s) THEN s[k] ELSE t[k - Len(s)]
  BY ConcatProperties
<1>2. /\ Len(s) \in Nat /\ DOMAIN s = 1 .. Len(s)
      /\ Len(t) \in Nat /\ DOMAIN t = 1 .. Len(t)
      /\ DOMAIN (s \o t) = 1 .. Len(s) + Len(t)
  BY <1>1, LenProperties
<1>3. \A k \in 1 .. Len(s) + Len(t) :
        IF k <= Len(s) THEN k \in 1 .. Len(s) ELSE k - Len(s) \in 1 .. Len(t)
  BY <1>2
<1> QED
  BY <1>1, <1>2, <1>3 DEF ToSet

\* What s has of M comes before what t has of it.
Before(s, t, M) == \A m \in ToSet(s) \cap M : \A n \in ToSet(t) \cap M : m < n

LEMMA OrderedAppend ==
  ASSUME NEW S, NEW s \in Seq(S), NEW m \in S, NEW M, Ordered(s, M),
         m \in M => \A x \in ToSet(s) \cap M : x < m
  PROVE  Ordered(Append(s, m), M)
<1>1. /\ Append(s, m) \in Seq(S) /\ Len(Append(s, m)) = Len(s) + 1
      /\ \A k \in 1 .. Len(s) : Append(s, m)[k] = s[k]
      /\ Append(s, m)[Len(s) + 1] = m
  BY AppendProperties
<1>2. /\ Len(s) \in Nat /\ DOMAIN s = 1 .. Len(s)
      /\ DOMAIN Append(s, m) = 1 .. Len(s) + 1
  BY <1>1, LenProperties
<1> SUFFICES ASSUME NEW j \in 1 .. Len(s) + 1, NEW k \in 1 .. Len(s) + 1, j < k,
                    Append(s, m)[j] \in M, Append(s, m)[k] \in M
             PROVE  Append(s, m)[j] < Append(s, m)[k]
  BY <1>2 DEF Ordered
<1>3. j \in 1 .. Len(s)
  BY <1>2
<1>4. CASE k \in 1 .. Len(s)
  BY <1>1, <1>2, <1>3, <1>4 DEF Ordered
<1>5. CASE k = Len(s) + 1
  <2>1. s[j] \in ToSet(s)
    BY <1>2, <1>3 DEF ToSet
  <2> QED
    BY <1>1, <1>3, <1>5, <2>1
<1> QED
  BY <1>2, <1>4, <1>5

LEMMA OrderedTail ==
  ASSUME NEW S, NEW s \in Seq(S), s # <<>>, NEW M, Ordered(s, M)
  PROVE  /\ Ordered(Tail(s), M)
         /\ Head(s) \in M => \A x \in ToSet(Tail(s)) \cap M : Head(s) < x
<1>1. /\ Len(Tail(s)) = Len(s) - 1 /\ Tail(s) \in Seq(S)
      /\ \A k \in 1 .. Len(Tail(s)) : Tail(s)[k] = s[k + 1]
  BY HeadTailProperties
<1>2. /\ Len(s) \in Nat /\ Len(s) # 0 /\ DOMAIN s = 1 .. Len(s)
      /\ DOMAIN Tail(s) = 1 .. Len(s) - 1
  BY <1>1, LenProperties, EmptySeq
<1>3. Head(s) = s[1]
  OBVIOUS
<1>4. \A k \in 1 .. Len(s) - 1 :
        k + 1 \in 1 .. Len(s) /\ 1 < k + 1 /\ Tail(s)[k] = s[k + 1]
  BY <1>1, <1>2
<1>5. 1 \in 1 .. Len(s)
  BY <1>2
<1>6. Ordered(Tail(s), M)
  <2> SUFFICES ASSUME NEW j \in 1 .. Len(s) - 1, NEW k \in 1 .. Len(s) - 1, j < k,
                      Tail(s)[j] \in M, Tail(s)[k] \in M
               PROVE  Tail(s)[j] < Tail(s)[k]
    BY <1>2 DEF Ordered
  <2>1. j + 1 < k + 1
    BY <1>2
  <2> QED
    BY <1>2, <1>4, <2>1 DEF Ordered
<1>7. ASSUME Head(s) \in M, NEW x \in ToSet(Tail(s)) \cap M
      PROVE  Head(s) < x
  <2>1. PICK k \in 1 .. Len(s) - 1 : x = Tail(s)[k]
    BY <1>2 DEF ToSet
  <2> QED
    BY <1>2, <1>3, <1>4, <1>5, <1>7, <2>1 DEF Ordered
<1> QED
  BY <1>6, <1>7

LEMMA OrderedConcat ==
  ASSUME NEW S, NEW s \in Seq(S), NEW t \in Seq(S), NEW M,
         Ordered(s, M), Ordered(t, M), Before(s, t, M)
  PROVE  Ordered(s \o t, M)
<1>1. /\ Len(s \o t) = Len(s) + Len(t) /\ s \o t \in Seq(S)
      /\ \A k \in 1 .. Len(s) + Len(t) :
           (s \o t)[k] = IF k <= Len(s) THEN s[k] ELSE t[k - Len(s)]
  BY ConcatProperties
<1>2. /\ Len(s) \in Nat /\ DOMAIN s = 1 .. Len(s)
      /\ Len(t) \in Nat /\ DOMAIN t = 1 .. Len(t)
      /\ DOMAIN (s \o t) = 1 .. Len(s) + Len(t)
  BY <1>1, LenProperties
<1> SUFFICES ASSUME NEW j \in 1 .. Len(s) + Len(t), NEW k \in 1 .. Len(s) + Len(t),
                    j < k, (s \o t)[j] \in M, (s \o t)[k] \in M
             PROVE  (s \o t)[j] < (s \o t)[k]
  BY <1>2 DEF Ordered
<1>3. CASE k <= Len(s)
  <2>1. /\ j \in 1 .. Len(s) /\ k \in 1 .. Len(s)
        /\ (s \o t)[j] = s[j] /\ (s \o t)[k] = s[k]
    BY <1>1, <1>2, <1>3
  <2> QED
    BY <1>2, <2>1 DEF Ordered
<1>4. CASE ~ (j <= Len(s))
  <2>1. /\ j - Len(s) \in 1 .. Len(t) /\ k - Len(s) \in 1 .. Len(t)
        /\ j - Len(s) < k - Len(s)
        /\ (s \o t)[j] = t[j - Len(s)] /\ (s \o t)[k] = t[k - Len(s)]
    BY <1>1, <1>2, <1>4
  <2> QED
    BY <1>2, <2>1 DEF Ordered
<1>5. CASE j <= Len(s) /\ ~ (k <= Len(s))
  <2>1. /\ j \in 1 .. Len(s) /\ k - Len(s) \in 1 .. Len(t)
        /\ (s \o t)[j] = s[j] /\ (s \o t)[k] = t[k - Len(s)]
    BY <1>1, <1>2, <1>5
  <2>2. s[j] \in ToSet(s) /\ t[k - Len(s)] \in ToSet(t)
    BY <1>2, <2>1 DEF ToSet
  <2> QED
    BY <2>1, <2>2 DEF Before
<1> QED
  BY <1>2, <1>3, <1>4, <1>5

(***************************************************************************)
(* Messages pass through three sequences, from the last to the first.  The *)
(* ones of M are in line when all three have them in order and each one's  *)
(* come before the next one's.                                             *)
(***************************************************************************)
Line(s, t, u, M) ==
  /\ Ordered(s, M) /\ Ordered(t, M) /\ Ordered(u, M)
  /\ Before(s, t, M) /\ Before(s, u, M) /\ Before(t, u, M)

LEMMA EmptyInLine ==
  ASSUME NEW s, NEW M
  PROVE  Ordered(<<>>, M) /\ Before(s, <<>>, M) /\ Before(<<>>, s, M)
BY DEF Ordered, Before, ToSet

\* The one in the middle, or the last one, is dropped.
LEMMA LineDrops ==
  ASSUME NEW s, NEW t, NEW u, NEW M, Line(s, t, u, M)
  PROVE  Line(s, <<>>, u, M) /\ Line(s, t, <<>>, M)
BY EmptyInLine DEF Line

\* A message goes from one to the next,
LEMMA LineAdvances ==
  ASSUME NEW S, NEW s \in Seq(S), NEW t \in Seq(S), NEW u \in Seq(S), NEW M,
         Line(s, t, u, M)
  PROVE  /\ t # <<>> => Line(Append(s, Head(t)), Tail(t), u, M)
         /\ u # <<>> => Line(s, Append(t, Head(u)), Tail(u), M)
<1>1. ASSUME t # <<>>
      PROVE  Line(Append(s, Head(t)), Tail(t), u, M)
  <2>1. /\ Head(t) \in S /\ Head(t) \in ToSet(t) /\ ToSet(Tail(t)) \subseteq ToSet(t)
        /\ ToSet(Append(s, Head(t))) = ToSet(s) \cup {Head(t)}
    BY <1>1, TailSet, AppendSet
  <2>2. /\ Ordered(Tail(t), M)
        /\ Head(t) \in M => \A x \in ToSet(Tail(t)) \cap M : Head(t) < x
    BY <1>1, OrderedTail DEF Line
  <2>3. Head(t) \in M => \A x \in ToSet(s) \cap M : x < Head(t)
    BY <2>1 DEF Line, Before
  <2>4. Ordered(Append(s, Head(t)), M)
    BY <2>1, <2>3, OrderedAppend DEF Line
  <2>5. /\ Before(Append(s, Head(t)), Tail(t), M) /\ Before(Append(s, Head(t)), u, M)
        /\ Before(Tail(t), u, M)
    BY <2>1, <2>2 DEF Line, Before
  <2> QED
    BY <2>2, <2>4, <2>5 DEF Line
<1>2. ASSUME u # <<>>
      PROVE  Line(s, Append(t, Head(u)), Tail(u), M)
  <2>1. /\ Head(u) \in S /\ Head(u) \in ToSet(u) /\ ToSet(Tail(u)) \subseteq ToSet(u)
        /\ ToSet(Append(t, Head(u))) = ToSet(t) \cup {Head(u)}
    BY <1>2, TailSet, AppendSet
  <2>2. /\ Ordered(Tail(u), M)
        /\ Head(u) \in M => \A x \in ToSet(Tail(u)) \cap M : Head(u) < x
    BY <1>2, OrderedTail DEF Line
  <2>3. Head(u) \in M => \A x \in ToSet(t) \cap M : x < Head(u)
    BY <2>1 DEF Line, Before
  <2>4. Ordered(Append(t, Head(u)), M)
    BY <2>1, <2>3, OrderedAppend DEF Line
  <2>5. /\ Before(s, Append(t, Head(u)), M) /\ Before(s, Tail(u), M)
        /\ Before(Append(t, Head(u)), Tail(u), M)
    BY <2>1, <2>2 DEF Line, Before
  <2> QED
    BY <2>2, <2>4, <2>5 DEF Line
<1> QED
  BY <1>1, <1>2

\* leaves the last one,
LEMMA LineShortens ==
  ASSUME NEW S, NEW s, NEW t, NEW u \in Seq(S), NEW M, u # <<>>, Line(s, t, u, M)
  PROVE  Line(s, t, Tail(u), M)
<1>1. ToSet(Tail(u)) \subseteq ToSet(u) /\ Ordered(Tail(u), M)
  BY TailSet, OrderedTail DEF Line
<1> QED
  BY <1>1 DEF Line, Before

\* or enters it, made after all others.
LEMMA LineGrows ==
  ASSUME NEW S, NEW s, NEW t, NEW u \in Seq(S), NEW M, NEW m \in S,
         \A x \in (ToSet(s) \cup ToSet(t) \cup ToSet(u)) \cap M : x < m,
         Line(s, t, u, M)
  PROVE  Line(s, t, Append(u, m), M)
<1>1. ToSet(Append(u, m)) = ToSet(u) \cup {m} /\ Ordered(Append(u, m), M)
  BY AppendSet, OrderedAppend DEF Line
<1> QED
  BY <1>1 DEF Line, Before

\* The middle joins the first.
LEMMA LineJoins ==
  ASSUME NEW S, NEW s \in Seq(S), NEW t \in Seq(S), NEW u, NEW M, Line(s, t, u, M)
  PROVE  Line(s \o t, <<>>, u, M)
<1>1. ToSet(s \o t) \subseteq ToSet(s) \cup ToSet(t) /\ Ordered(s \o t, M)
  BY ConcatSet, OrderedConcat DEF Line
<1> QED
  BY <1>1, EmptyInLine DEF Line, Before

\* What is not of M makes no difference.
LEMMA LineIgnores ==
  ASSUME NEW S, NEW s \in Seq(S), NEW t \in Seq(S), NEW u, NEW M, Line(s, t, u, M),
         NEW m \in S \ M
  PROVE  Line(s, Append(t, m), u, M)
<1>1. ToSet(Append(t, m)) = ToSet(t) \cup {m} /\ Ordered(Append(t, m), M)
  BY AppendSet, OrderedAppend DEF Line
<1> QED
  BY <1>1 DEF Line, Before

\* Nor do members of M that are in none of the three.
LEMMA LineOf ==
  ASSUME NEW s, NEW t, NEW u, NEW M, NEW N, Line(s, t, u, M),
         \A x \in ToSet(s) \cup ToSet(t) \cup ToSet(u) : x \in N => x \in M
  PROVE  Line(s, t, u, N)
<1>1. /\ \A k \in DOMAIN s : s[k] \in ToSet(s)
      /\ \A k \in DOMAIN t : t[k] \in ToSet(t)
      /\ \A k \in DOMAIN u : u[k] \in ToSet(u)
  BY DEF ToSet
<1>2. Ordered(s, N) /\ Ordered(t, N) /\ Ordered(u, N)
  BY <1>1 DEF Line, Ordered
<1>3. Before(s, t, N) /\ Before(s, u, N) /\ Before(t, u, N)
  BY DEF Line, Before
<1> QED
  BY <1>2, <1>3 DEF Line

-----------------------------------------------------------------------------
(***************************************************************************)
(* Where the messages are, in the order they were made: first what has     *)
(* arrived, then what is on its way.  A mailbox that is being copied has   *)
(* its messages in another order, but will have again what it had.         *)
(***************************************************************************)
Known == DOMAIN made \cup {NULL}

KnownInv ==
  /\ made \in Seq(Clients \cup {NoClient}) /\ Len(made) <= MaxMessages
  /\ recvBox \in Seq(Known) /\ sendBox \in Seq(Known)
  /\ taken \in Seq(Known) /\ copier.element \in Seq(Known)
  /\ copier.box \in Boxes => copier.snapshot \in Seq(Known)
  /\ hand \in [Clients -> Seq(Known)] /\ delivered \in [Clients -> Seq(Known)]

\* A request that brings messages brings its client's.
HandsInv == \A c \in Clients :
  /\ at[c] = "idle" => hand[c] = <<>>
  /\ asks[c] = "recv" => ToSet(hand[c]) \subseteq From(c)

\* Mailbox b begins with the messages not copied yet, and ends with those that
\* are.
CopyRotates(b) ==
  LET done == Len(copier.new)
      all == Len(copier.snapshot)
      popped == Len(copier.element)
  IN /\ Len(Box(b)) = all - popped
     /\ \A i \in 1 .. done - popped : Box(b)[all - done + i] = copier.snapshot[i]
     /\ popped # 0 => copier.element[1] = copier.snapshot[done]

RotateInv == copier.box \in Boxes \ rotated => CopyRotates(copier.box)

Contents(b) == IF copier.box = b THEN copier.snapshot ELSE Box(b)
Brings(c) == IF asks[c] = "recv" THEN hand[c] ELSE <<>>
Fetches(c) == IF asks[c] = "send" THEN hand[c] ELSE <<>>

RecvInv ==
  "recv" \notin rotated =>
    \A c \in Clients : Line(taken, Contents("recv"), Brings(c), From(c))

SendInv ==
  "send" \notin rotated =>
    \A c \in Clients :
      Line(delivered[c], Fetches(c), Contents("send"), From(NoClient))

OrderInv == KnownInv /\ HandsInv /\ RotateInv /\ RecvInv /\ SendInv

LEMMA InitOrderInv == Init => OrderInv
<1> SUFFICES ASSUME Init PROVE OrderInv
  OBVIOUS
<1>1. \A S : <<>> \in Seq(S) /\ Len(<<>>) = 0
  BY EmptySeq
<1>2. /\ recvBox = <<>> /\ sendBox = <<>> /\ taken = <<>> /\ made = <<>>
      /\ copier.element = <<>> /\ copier.box = "none"
      /\ hand = [c \in Clients |-> <<>>] /\ delivered = [c \in Clients |-> <<>>]
  BY DEF Init, NotCopying
<1>3. KnownInv /\ RotateInv
  BY <1>1, <1>2, MailboxAssumption DEF KnownInv, RotateInv, Boxes
<1>4. HandsInv
  BY <1>2 DEF HandsInv, ToSet
<1>5. \A M : Line(<<>>, <<>>, <<>>, M)
  BY EmptyInLine DEF Line
<1>6. RecvInv /\ SendInv
  BY <1>2, <1>5 DEF RecvInv, SendInv, Contents, Brings, Fetches, Box
<1> QED
  BY <1>3, <1>4, <1>6 DEF OrderInv

\* The messages in a mailbox being copied are those it had.
LEMMA InOrderHolds == MailboxInv /\ OrderInv => InOrder
<1> SUFFICES ASSUME MailboxInv, OrderInv, NEW c \in Clients
             PROVE  /\ "recv" \notin rotated \cup {copier.box} =>
                         Ordered(taken \o recvBox, From(c))
                    /\ "send" \notin rotated =>
                         Ordered(delivered[c] \o hand[c], From(NoClient))
  BY DEF InOrder
<1>1. /\ recvBox \in Seq(Known) /\ taken \in Seq(Known)
      /\ hand[c] \in Seq(Known) /\ delivered[c] \in Seq(Known)
  BY DEF OrderInv, KnownInv
<1>2. ASSUME "recv" \notin rotated \cup {copier.box}
      PROVE  Ordered(taken \o recvBox, From(c))
  <2>1. Line(taken, recvBox, Brings(c), From(c))
    BY <1>2 DEF OrderInv, RecvInv, Contents, Box
  <2> QED
    BY <1>1, <2>1, OrderedConcat DEF Line
<1>3. ASSUME "send" \notin rotated
      PROVE  Ordered(delivered[c] \o hand[c], From(NoClient))
  <2>1. Line(delivered[c], Fetches(c), Contents("send"), From(NoClient))
    BY <1>3 DEF OrderInv, SendInv
  <2>2. CASE asks[c] = "send"
    BY <1>1, <2>1, <2>2, OrderedConcat DEF Line, Fetches
  <2>3. CASE asks[c] = "recv"
    <3>1. ToSet(hand[c]) \cap From(NoClient) = {}
      BY <2>3, MailboxAssumption DEF OrderInv, HandsInv, From
    <3>2. Ordered(hand[c], From(NoClient)) /\ Before(delivered[c], hand[c], From(NoClient))
      BY <3>1 DEF Ordered, Before, ToSet
    <3> QED
      BY <1>1, <2>1, <3>2, OrderedConcat DEF Line
  <2>4. asks[c] \in Boxes
    BY DEF MailboxInv, MailboxType, RequestsType
  <2> QED
    BY <2>2, <2>3, <2>4 DEF Boxes
<1> QED
  BY <1>2, <1>3

\* A step of client c's request that leaves the mailboxes alone.
LEMMA RequestKeepsOrder ==
  ASSUME OrderInv, NEW c \in Clients,
         UNCHANGED <<recvBox, sendBox, copier, rotated, taken, made>>,
         hand' \in [Clients -> Seq(Known)], delivered' \in [Clients -> Seq(Known)],
         \A d \in Clients \ {c} :
           /\ at'[d] = at[d] /\ asks'[d] = asks[d]
           /\ hand'[d] = hand[d] /\ delivered'[d] = delivered[d],
         at'[c] = "idle" => hand'[c] = <<>>,
         asks'[c] = "recv" => ToSet(hand'[c]) \subseteq From(c),
         "recv" \notin rotated =>
           Line(taken, Contents("recv"), Brings(c)', From(c)),
         "send" \notin rotated =>
           Line(delivered'[c], Fetches(c)', Contents("send"), From(NoClient))
  PROVE  OrderInv'
<1>1. /\ Known' = Known /\ \A d : From(d)' = From(d)
      /\ \A b : Contents(b)' = Contents(b)
  BY DEF Known, From, Contents, Box
<1>2. \A d \in Clients \ {c} : Brings(d)' = Brings(d) /\ Fetches(d)' = Fetches(d)
  BY DEF Brings, Fetches
<1>3. KnownInv'
  BY <1>1 DEF OrderInv, KnownInv
<1>4. HandsInv'
  <2> SUFFICES ASSUME NEW d \in Clients
               PROVE  /\ at'[d] = "idle" => hand'[d] = <<>>
                      /\ asks'[d] = "recv" => ToSet(hand'[d]) \subseteq From(d)
    BY <1>1 DEF HandsInv
  <2> QED
    BY DEF OrderInv, HandsInv
<1>5. RotateInv'
  BY DEF OrderInv, RotateInv, CopyRotates, Box
<1>6. RecvInv'
  <2> SUFFICES ASSUME "recv" \notin rotated, NEW d \in Clients
               PROVE  Line(taken, Contents("recv"), Brings(d)', From(d))
    BY <1>1, Zenon DEF RecvInv
  <2> QED
    BY <1>2 DEF OrderInv, RecvInv
<1>7. SendInv'
  <2> SUFFICES ASSUME "send" \notin rotated, NEW d \in Clients
               PROVE  Line(delivered'[d], Fetches(d)', Contents("send"), From(NoClient))
    BY <1>1, Zenon DEF SendInv
  <2> QED
    BY <1>2 DEF OrderInv, SendInv
<1> QED
  BY <1>3, <1>4, <1>5, <1>6, <1>7 DEF OrderInv

LEMMA FinishKeepsOrder ==
  ASSUME MailboxInv, OrderInv, NEW c \in Clients, NEW verdict, NEW gone,
         Finish(c, verdict, gone),
         UNCHANGED <<recvBox, sendBox, rotated, application, asks, made>>,
         delivered' = delivered
           \/ /\ asks[c] = "send"
              /\ delivered' = [delivered EXCEPT ![c] = @ \o hand[c]]
  PROVE  OrderInv'
<1>1. /\ at' = [at EXCEPT ![c] = "idle"] /\ hand' = [hand EXCEPT ![c] = <<>>]
      /\ asks' = asks
      /\ UNCHANGED <<recvBox, sendBox, copier, rotated, taken, made>>
  BY DEF Finish, application
<1>2. hand[c] \in Seq(Known) /\ delivered[c] \in Seq(Known)
  BY DEF OrderInv, KnownInv
<1>3. \A S : <<>> \in Seq(S)
  BY EmptySeq
<1>4. /\ hand' \in [Clients -> Seq(Known)] /\ hand'[c] = <<>>
      /\ \A d \in Clients \ {c} :
           at'[d] = at[d] /\ hand'[d] = hand[d] /\ asks'[d] = asks[d]
  BY <1>1, <1>3 DEF OrderInv, KnownInv, MailboxInv, MailboxType, RequestsType
<1>5. /\ delivered' \in [Clients -> Seq(Known)]
      /\ \/ delivered'[c] = delivered[c]
         \/ asks[c] = "send" /\ delivered'[c] = delivered[c] \o hand[c]
      /\ \A d \in Clients \ {c} : delivered'[d] = delivered[d]
  <2>1. delivered[c] \o hand[c] \in Seq(Known)
    BY <1>2, ConcatProperties
  <2> QED
    BY <2>1 DEF OrderInv, KnownInv
<1>6. Brings(c)' = <<>> /\ Fetches(c)' = <<>> /\ ToSet(hand'[c]) = {}
  BY <1>4 DEF Brings, Fetches, ToSet
<1>7. "recv" \notin rotated => Line(taken, Contents("recv"), Brings(c)', From(c))
  BY <1>6, LineDrops DEF OrderInv, RecvInv
<1>8. ASSUME "send" \notin rotated
      PROVE  Line(delivered'[c], Fetches(c)', Contents("send"), From(NoClient))
  <2> DEFINE u == Contents("send")
             M == From(NoClient)
  <2>1. Line(delivered[c], Fetches(c), u, M)
    BY <1>8 DEF OrderInv, SendInv
  <2> HIDE DEF u, M
  <2>2. CASE delivered'[c] = delivered[c]
    BY <1>6, <2>1, <2>2, LineDrops DEF u, M
  <2>3. CASE delivered'[c] = delivered[c] \o hand[c] /\ asks[c] = "send"
    <3>1. Fetches(c) = hand[c]
      BY <2>3 DEF Fetches
    <3>2. Line(delivered[c] \o hand[c], <<>>, u, M)
      BY <1>2, <2>1, <3>1, LineJoins
    <3> QED
      BY <1>6, <2>3, <3>2 DEF u, M
  <2> QED
    BY <1>5, <2>2, <2>3
<1> QED
  BY <1>1, <1>4, <1>5, <1>6, <1>7, <1>8, RequestKeepsOrder

\* A step that moves no message, of a request that does not end.
LEMMA MoveOnKeepsOrder ==
  ASSUME MailboxInv, OrderInv, NEW c \in Clients, NEW to, to # "idle",
         at' = [at EXCEPT ![c] = to],
         UNCHANGED <<recvBox, sendBox, rotated, application, asks, hand,
                     delivered, made>>
  PROVE  OrderInv'
<1>1. /\ at'[c] = to /\ \A d \in Clients \ {c} : at'[d] = at[d]
      /\ UNCHANGED <<copier, taken>>
  BY DEF MailboxInv, MailboxType, RequestsType, application
<1>2. /\ hand' \in [Clients -> Seq(Known)] /\ delivered' \in [Clients -> Seq(Known)]
      /\ Brings(c)' = Brings(c) /\ Fetches(c)' = Fetches(c)
  BY DEF OrderInv, KnownInv, Brings, Fetches
<1>3. asks'[c] = "recv" => ToSet(hand'[c]) \subseteq From(c)
  BY DEF OrderInv, HandsInv
<1>4. /\ "recv" \notin rotated => Line(taken, Contents("recv"), Brings(c)', From(c))
      /\ "send" \notin rotated =>
           Line(delivered'[c], Fetches(c)', Contents("send"), From(NoClient))
  BY <1>2 DEF OrderInv, RecvInv, SendInv
<1> QED
  BY <1>1, <1>2, <1>3, <1>4, RequestKeepsOrder

LEMMA GetKeepsOrder ==
  ASSUME MailboxInv, OrderInv, NEW c \in Clients, Get(c)
  PROVE  OrderInv'
<1>1. /\ hand[c] = <<>> /\ hand' = hand /\ delivered' = delivered
      /\ asks' = [asks EXCEPT ![c] = "send"]
      /\ UNCHANGED <<recvBox, sendBox, copier, rotated, taken, made>>
  BY DEF Get, application, OrderInv, HandsInv
<1>2. /\ asks'[c] = "send"
      /\ \A d \in Clients \ {c} : at'[d] = at[d] /\ asks'[d] = asks[d]
  BY <1>1 DEF Get, MailboxInv, MailboxType, RequestsType
<1>3. Brings(c)' = <<>> /\ Fetches(c)' = <<>>
  BY <1>1, <1>2 DEF Brings, Fetches
<1>4. /\ "recv" \notin rotated => Line(taken, Contents("recv"), Brings(c)', From(c))
      /\ "send" \notin rotated =>
           Line(delivered'[c], Fetches(c)', Contents("send"), From(NoClient))
  BY <1>1, <1>3, LineDrops DEF OrderInv, RecvInv, SendInv
<1>5. hand' \in [Clients -> Seq(Known)] /\ delivered' \in [Clients -> Seq(Known)]
  BY <1>1 DEF OrderInv, KnownInv
<1> QED
  BY <1>1, <1>2, <1>4, <1>5, RequestKeepsOrder

\* Nothing that is said to be in order changes.
LEMMA QuietKeepsOrder ==
  ASSUME OrderInv,
         UNCHANGED <<recvBox, sendBox, copier, rotated, taken, made, hand,
                     delivered, asks>>,
         \A c \in Clients : at'[c] = "idle" => at[c] = "idle"
  PROVE  OrderInv'
<1>1. /\ Known' = Known /\ \A d : From(d)' = From(d)
      /\ \A b : Contents(b)' = Contents(b)
      /\ \A d : Brings(d)' = Brings(d) /\ Fetches(d)' = Fetches(d)
  BY DEF Known, From, Contents, Box, Brings, Fetches
<1>2. KnownInv' /\ HandsInv'
  BY <1>1 DEF OrderInv, KnownInv, HandsInv
<1>3. RotateInv'
  BY DEF OrderInv, RotateInv, CopyRotates, Box
<1>4. RecvInv' /\ SendInv'
  <2>1. RecvInv /\ SendInv
    BY DEF OrderInv
  <2> QED
    BY <1>1, <2>1, Zenon DEF RecvInv, SendInv
<1> QED
  BY <1>2, <1>3, <1>4 DEF OrderInv

LEMMA RequestStepsKeepOrder ==
  ASSUME MailboxInv, OrderInv, NEW c \in Clients,
         \/ CheckProxy(c) \/ CallTest(c) \/ CallProxy(c) \/ CallFails(c)
         \/ Count(c) \/ Moved(c) \/ Deliver(c) \/ ReplyLost(c)
  PROVE  OrderInv'
<1>1. CASE CheckProxy(c)
  <2>1. CASE at' = [at EXCEPT ![c] = "call"] /\ UNCHANGED hand
    BY <1>1, <2>1, MoveOnKeepsOrder DEF CheckProxy
  <2>2. CASE Finish(c, "failed", hand[c])
    BY <1>1, <2>2, FinishKeepsOrder DEF CheckProxy
  <2> QED
    BY <1>1, <2>1, <2>2 DEF CheckProxy
<1>2. CASE CallTest(c)
  <2>1. CASE at' = [at EXCEPT ![c] = "lock"]
    BY <1>2, <2>1, MoveOnKeepsOrder DEF CallTest
  <2>2. CASE at' = [at EXCEPT ![c] = "reply"]
    BY <1>2, <2>2, MoveOnKeepsOrder DEF CallTest
  <2> QED
    BY <1>2, <2>1, <2>2 DEF CallTest
<1>3. CASE CallProxy(c)
  BY <1>3, MoveOnKeepsOrder DEF CallProxy
<1>4. CASE CallFails(c)
  BY <1>4, FinishKeepsOrder DEF CallFails
<1>5. CASE Count(c)
  BY <1>5, MoveOnKeepsOrder DEF Count
<1>6. CASE Moved(c)
  BY <1>6, MoveOnKeepsOrder DEF Moved
<1>7. CASE Deliver(c)
  <2>1. CASE asks[c] = "send"
    BY <1>7, <2>1, FinishKeepsOrder DEF Deliver
  <2>2. CASE asks[c] # "send"
    BY <1>7, <2>2, FinishKeepsOrder DEF Deliver
  <2> QED
    BY <2>1, <2>2
<1>8. CASE ReplyLost(c)
  BY <1>8, FinishKeepsOrder DEF ReplyLost
<1> QED
  BY <1>1, <1>2, <1>3, <1>4, <1>5, <1>6, <1>7, <1>8

-----------------------------------------------------------------------------
(* New messages *)

\* What was made before is known, keeps its maker, and is below what is new.
LEMMA MadeGrows ==
  ASSUME OrderInv, made' \in Seq(Clients \cup {NoClient}),
         Len(made) <= Len(made'), Len(made') <= MaxMessages,
         \A m \in 1 .. Len(made) : made'[m] = made[m]
  PROVE  /\ Known \subseteq Known'
         /\ \A o : \A x \in Known : x \in From(o)' => x \in From(o)
         /\ \A o : From(o) \subseteq From(o)'
         /\ \A o : \A x \in Known : \A m \in Nat :
              x \in From(o)' /\ Len(made) < m => x < m
<1>1. /\ DOMAIN made = 1 .. Len(made) /\ DOMAIN made' = 1 .. Len(made')
      /\ Len(made) \in Nat /\ Len(made') \in Nat
  BY LenProperties DEF OrderInv, KnownInv
<1>2. NULL \notin DOMAIN made' /\ DOMAIN made \subseteq DOMAIN made'
  BY <1>1, MailboxAssumption
<1>3. \A o : \A x \in Known : x \in From(o)' => x \in From(o)
  BY <1>1, <1>2 DEF Known, From
<1>4. \A o : \A x \in From(o) : \A m \in Nat : Len(made) < m => x < m
  BY <1>1 DEF From
<1> QED
  BY <1>1, <1>2, <1>3, <1>4 DEF Known, From

\* The lines of what there was are the lines of it now.
LEMMA LinesStay ==
  ASSUME OrderInv, Known \subseteq Known',
         \A o : \A x \in Known : x \in From(o)' => x \in From(o),
         NEW s \in Seq(Known), NEW t \in Seq(Known), NEW u \in Seq(Known), NEW o,
         Line(s, t, u, From(o))
  PROVE  Line(s, t, u, From(o)')
<1>1. ToSet(s) \cup ToSet(t) \cup ToSet(u) \subseteq Known
  BY DEF ToSet
<1> QED
  BY <1>1, LineOf, Zenon

LEMMA ContentsKnown ==
  ASSUME KnownInv, NEW b \in Boxes
  PROVE  Contents(b) \in Seq(Known)
BY DEF KnownInv, Contents, Box, Boxes

LEMMA PutKeepsOrder ==
  ASSUME MailboxInv, OrderInv, NEW c \in Clients, Put(c)
  PROVE  OrderInv'
<1>1. PICK n \in 1 .. MaxBatch :
        /\ Len(made) + n <= MaxMessages
        /\ hand' = [hand EXCEPT ![c] = [k \in 1 .. n |-> Len(made) + k]]
        /\ made' = made \o [k \in 1 .. n |-> c]
  BY DEF Put
<1> DEFINE new == [k \in 1 .. n |-> Len(made) + k]
<1>2. /\ Len(made) \in Nat /\ n \in Nat /\ made \in Seq(Clients \cup {NoClient})
      /\ MaxMessages \in Nat /\ KnownInv
  BY LenProperties, MailboxAssumption DEF OrderInv, KnownInv
<1>3. /\ made' \in Seq(Clients \cup {NoClient}) /\ Len(made') = Len(made) + n
      /\ \A m \in 1 .. Len(made) : made'[m] = made[m]
      /\ \A k \in 1 .. n : made'[Len(made) + k] = c
  <2> DEFINE more == [k \in 1 .. n |-> c]
  <2>1. more \in Seq(Clients \cup {NoClient}) /\ Len(more) = n
    BY <1>2, IsASeq
  <2>2. /\ made \o more \in Seq(Clients \cup {NoClient})
        /\ Len(made \o more) = Len(made) + n
        /\ \A m \in 1 .. Len(made) + n :
             (made \o more)[m] = IF m <= Len(made) THEN made[m] ELSE more[m - Len(made)]
    BY <1>2, <2>1, ConcatProperties
  <2>3. ASSUME NEW k \in 1 .. n
        PROVE  (made \o more)[Len(made) + k] = c
    <3>1. /\ Len(made) + k \in 1 .. Len(made) + n /\ ~ (Len(made) + k <= Len(made))
          /\ Len(made) + k - Len(made) = k
      BY <1>2
    <3>2. (made \o more)[Len(made) + k] = more[k]
      BY <2>2, <3>1
    <3> QED
      BY <3>2
  <2>4. \A m \in 1 .. Len(made) : m \in 1 .. Len(made) + n /\ m <= Len(made)
    BY <1>2
  <2> HIDE DEF more
  <2>5. \A m \in 1 .. Len(made) : (made \o more)[m] = made[m]
    BY <2>2, <2>4
  <2>6. made' = made \o more
    BY <1>1 DEF more
  <2> QED
    BY <2>2, <2>3, <2>5, <2>6
<1>4. /\ Known \subseteq Known'
      /\ \A o : \A x \in Known : x \in From(o)' => x \in From(o)
      /\ \A o : From(o) \subseteq From(o)'
      /\ Len(made') <= MaxMessages
  <2>1. Len(made) <= Len(made') /\ Len(made') <= MaxMessages
    BY <1>1, <1>2, <1>3
  <2> QED
    BY <1>3, <2>1, MadeGrows
<1>5. ToSet(new) \subseteq From(c)' /\ new \in Seq(Known')
  <2>1. \A k \in 1 .. n : Len(made) + k \in 1 .. Len(made')
    BY <1>2, <1>3
  <2>2. DOMAIN made' = 1 .. Len(made')
    BY <1>3, LenProperties
  <2>3. \A k \in 1 .. n : Len(made) + k \in From(c)' /\ Len(made) + k \in Known'
    BY <1>3, <2>1, <2>2 DEF From, Known
  <2>4. new \in Seq(Known')
    BY <1>2, <2>3, IsASeq
  <2>5. ToSet(new) \subseteq From(c)'
    BY <2>3 DEF ToSet
  <2> QED
    BY <2>4, <2>5
<1>6. Ordered(new, From(c)')
  BY <1>2 DEF Ordered
<1>7. /\ \A m \in Known : \A x \in ToSet(new) : m \in From(c)' => m < x
  <2>1. \A x \in ToSet(new) : x \in Nat /\ Len(made) < x
    BY <1>2 DEF ToSet
  <2>2. \A m \in Known : \A x \in Nat : m \in From(c)' /\ Len(made) < x => m < x
    <3>1. Len(made) <= Len(made') /\ Len(made') <= MaxMessages
      BY <1>1, <1>2, <1>3
    <3> QED
      BY <1>3, <3>1, MadeGrows
  <2> QED
    BY <2>1, <2>2
<1> HIDE DEF new
<1>8. /\ hand[c] = <<>> /\ hand'[c] = new /\ delivered' = delivered
      /\ asks'[c] = "recv" /\ at'[c] # "idle"
      /\ \A d \in Clients \ {c} : /\ at'[d] = at[d] /\ asks'[d] = asks[d]
                                  /\ hand'[d] = hand[d]
      /\ UNCHANGED <<recvBox, sendBox, copier, rotated, taken>>
  BY <1>1 DEF Put, application, OrderInv, HandsInv, MailboxInv, MailboxType,
     RequestsType, new
<1>9. \A s \in Seq(Known) : s \in Seq(Known')
  BY <1>4, SeqMonotonic, Zenon
<1>10. KnownInv'
  <2>1. hand' = [hand EXCEPT ![c] = new]
    BY <1>1 DEF new
  <2>2. hand' \in [Clients -> Seq(Known')] /\ delivered' \in [Clients -> Seq(Known')]
    BY <1>2, <1>5, <1>8, <1>9, <2>1 DEF KnownInv
  <2> QED
    BY <1>2, <1>3, <1>4, <1>8, <1>9, <2>2 DEF KnownInv
<1>11. HandsInv'
  <2> SUFFICES ASSUME NEW d \in Clients
               PROVE  /\ at'[d] = "idle" => hand'[d] = <<>>
                      /\ asks'[d] = "recv" => ToSet(hand'[d]) \subseteq From(d)'
    BY DEF HandsInv
  <2>1. CASE d = c
    BY <1>5, <1>8, <2>1
  <2>2. CASE d # c
    BY <1>4, <1>8, <2>2 DEF OrderInv, HandsInv
  <2> QED
    BY <2>1, <2>2
<1>12. RotateInv'
  BY <1>8 DEF OrderInv, RotateInv, CopyRotates, Box
<1>13. /\ \A b : Contents(b)' = Contents(b)
       /\ Brings(c) = <<>> \/ Brings(c) = hand[c]
       /\ Brings(c)' = new /\ Fetches(c)' = <<>>
       /\ \A d \in Clients \ {c} : Brings(d)' = Brings(d) /\ Fetches(d)' = Fetches(d)
  BY <1>8 DEF Contents, Box, Brings, Fetches
<1>14. /\ \A b \in Boxes : Contents(b) \in Seq(Known)
       /\ \A d \in Clients : /\ Brings(d) \in Seq(Known) /\ Fetches(d) \in Seq(Known)
                             /\ delivered[d] \in Seq(Known)
       /\ taken \in Seq(Known)
  <2>1. \A S : <<>> \in Seq(S)
    BY EmptySeq
  <2> QED
    BY <1>2, <2>1, ContentsKnown DEF KnownInv, Brings, Fetches
<1>15. RecvInv'
  <2> SUFFICES ASSUME "recv" \notin rotated, NEW d \in Clients
               PROVE  Line(taken, Contents("recv"), Brings(d)', From(d)')
    BY <1>8, <1>13 DEF RecvInv
  <2>1. Line(taken, Contents("recv"), Brings(d), From(d))
    BY DEF OrderInv, RecvInv
  <2>2. Line(taken, Contents("recv"), Brings(d), From(d)')
    BY <1>4, <1>14, <2>1, LinesStay DEF Boxes
  <2>3. CASE d = c
    <3>1. /\ Before(taken, new, From(c)') /\ Before(Contents("recv"), new, From(c)')
      <4>1. ToSet(taken) \subseteq Known /\ ToSet(Contents("recv")) \subseteq Known
        BY <1>14 DEF ToSet, Boxes
      <4> QED
        BY <1>7, <4>1 DEF Before
    <3> QED
      BY <1>6, <1>13, <2>2, <2>3, <3>1 DEF Line
  <2> QED
    BY <1>13, <2>2, <2>3
<1>16. SendInv'
  <2> SUFFICES ASSUME "send" \notin rotated, NEW d \in Clients
               PROVE  Line(delivered[d], Fetches(d)', Contents("send"), From(NoClient)')
    BY <1>8, <1>13 DEF SendInv
  <2>1. Line(delivered[d], Fetches(d), Contents("send"), From(NoClient))
    BY DEF OrderInv, SendInv
  <2>2. Line(delivered[d], Fetches(d), Contents("send"), From(NoClient)')
    BY <1>4, <1>14, <2>1, LinesStay DEF Boxes
  <2> QED
    BY <1>13, <2>2, LineDrops
<1> QED
  BY <1>10, <1>11, <1>12, <1>15, <1>16 DEF OrderInv

LEMMA AppPushKeepsOrder ==
  ASSUME MailboxInv, OrderInv, AppPush
  PROVE  OrderInv'
<1> DEFINE m == Len(made) + 1
<1>1. /\ made' = Append(made, NoClient) /\ sendBox' = Append(sendBox, m)
      /\ Len(made) < MaxMessages /\ copier.box = "none"
      /\ UNCHANGED <<recvBox, copier, rotated, taken, at, asks, hand, delivered>>
      /\ KnownInv
  BY DEF AppPush, application, requests, OrderInv
<1>2. /\ made \in Seq(Clients \cup {NoClient}) /\ Len(made) \in Nat
      /\ MaxMessages \in Nat
  BY <1>1, LenProperties, MailboxAssumption DEF KnownInv
<1>3. /\ made' \in Seq(Clients \cup {NoClient}) /\ Len(made') = m
      /\ \A k \in 1 .. Len(made) : made'[k] = made[k]
      /\ made'[m] = NoClient
  BY <1>1, <1>2, AppendProperties
<1>4. Len(made) <= Len(made') /\ Len(made') <= MaxMessages
  BY <1>1, <1>2, <1>3
<1>5. /\ Known \subseteq Known'
      /\ \A o : \A x \in Known : x \in From(o)' => x \in From(o)
      /\ \A o : From(o) \subseteq From(o)'
      /\ \A x \in Known : x \in From(NoClient)' => x < m
  <2>1. m \in Nat /\ Len(made) < m
    BY <1>2
  <2> QED
    BY <1>3, <1>4, <2>1, MadeGrows
<1>6. m \in Known' /\ m \in Nat
  <2>1. DOMAIN made' = 1 .. Len(made')
    BY <1>3, LenProperties
  <2> QED
    BY <1>2, <1>3, <2>1 DEF Known
<1> HIDE DEF m
<1>7. \A s \in Seq(Known) : s \in Seq(Known')
  BY <1>5, SeqMonotonic, Zenon
<1>8. KnownInv'
  <2>1. sendBox' \in Seq(Known')
    BY <1>1, <1>6, <1>7, AppendSet DEF KnownInv
  <2>2. hand' \in [Clients -> Seq(Known')] /\ delivered' \in [Clients -> Seq(Known')]
    BY <1>1, <1>7 DEF KnownInv
  <2> QED
    BY <1>1, <1>3, <1>4, <1>7, <2>1, <2>2 DEF KnownInv, Boxes
<1>9. HandsInv'
  BY <1>1, <1>5 DEF OrderInv, HandsInv
<1>10. RotateInv'
  BY <1>1 DEF RotateInv, Boxes
<1>11. /\ Contents("recv") = recvBox /\ Contents("recv")' = recvBox
       /\ Contents("send") = sendBox /\ Contents("send")' = Append(sendBox, m)
       /\ \A d : Brings(d)' = Brings(d) /\ Fetches(d)' = Fetches(d)
  BY <1>1 DEF Contents, Box, Brings, Fetches
<1>12. /\ \A d \in Clients : /\ Brings(d) \in Seq(Known) /\ Fetches(d) \in Seq(Known)
                             /\ delivered[d] \in Seq(Known)
       /\ recvBox \in Seq(Known) /\ sendBox \in Seq(Known) /\ taken \in Seq(Known)
  <2>1. \A S : <<>> \in Seq(S)
    BY EmptySeq
  <2> QED
    BY <1>1, <2>1 DEF KnownInv, Brings, Fetches
<1>13. RecvInv'
  <2> SUFFICES ASSUME "recv" \notin rotated, NEW d \in Clients
               PROVE  Line(taken, recvBox, Brings(d), From(d)')
    BY <1>1, <1>11 DEF RecvInv
  <2>1. Line(taken, recvBox, Brings(d), From(d))
    BY <1>11 DEF OrderInv, RecvInv
  <2> QED
    BY <1>5, <1>12, <2>1, LinesStay
<1>14. SendInv'
  <2> SUFFICES ASSUME "send" \notin rotated, NEW d \in Clients
               PROVE  Line(delivered[d], Fetches(d), Append(sendBox, m), From(NoClient)')
    BY <1>1, <1>11 DEF SendInv
  <2>1. Line(delivered[d], Fetches(d), sendBox, From(NoClient))
    BY <1>11 DEF OrderInv, SendInv
  <2>2. Line(delivered[d], Fetches(d), sendBox, From(NoClient)')
    BY <1>5, <1>12, <2>1, LinesStay
  <2>3. \A x \in (ToSet(delivered[d]) \cup ToSet(Fetches(d)) \cup ToSet(sendBox))
               \cap From(NoClient)' : x < m
    <3>1. ToSet(delivered[d]) \cup ToSet(Fetches(d)) \cup ToSet(sendBox) \subseteq Known
      BY <1>12 DEF ToSet
    <3> QED
      BY <1>5, <3>1
  <2> QED
    BY <1>6, <1>7, <1>12, <2>2, <2>3, LineGrows
<1> QED
  BY <1>8, <1>9, <1>10, <1>13, <1>14 DEF OrderInv

-----------------------------------------------------------------------------
(* The application's other steps *)

\* They bring no message out of line as long as they leave the mailboxes with
\* what they had.
LEMMA ApplicationKeepsOrder ==
  ASSUME OrderInv, UNCHANGED <<made, rotated, asks, hand, delivered>>,
         \A c \in Clients : at'[c] = "idle" => at[c] = "idle",
         recvBox' \in Seq(Known), sendBox' \in Seq(Known), taken' \in Seq(Known),
         copier'.element \in Seq(Known),
         copier'.box \in Boxes => copier'.snapshot \in Seq(Known),
         RotateInv',
         "recv" \notin rotated => \A c \in Clients :
           Line(taken', Contents("recv")', Brings(c), From(c)),
         "send" \notin rotated => Contents("send")' = Contents("send")
  PROVE  OrderInv'
<1>1. /\ Known' = Known /\ \A d : From(d)' = From(d)
      /\ \A d : Brings(d)' = Brings(d) /\ Fetches(d)' = Fetches(d)
  BY DEF Known, From, Brings, Fetches
<1>2. KnownInv' /\ HandsInv'
  BY <1>1 DEF OrderInv, KnownInv, HandsInv
<1>3. RecvInv'
  BY <1>1, Zenon DEF RecvInv
<1>4. SendInv'
  <2> SUFFICES ASSUME "send" \notin rotated, NEW d \in Clients
               PROVE  Line(delivered[d], Fetches(d), Contents("send"), From(NoClient))
    BY <1>1, Zenon DEF SendInv
  <2> QED
    BY DEF OrderInv, SendInv
<1> QED
  BY <1>2, <1>3, <1>4 DEF OrderInv

LEMMA AppPopKeepsOrder ==
  ASSUME MailboxInv, OrderInv, AppPop
  PROVE  OrderInv'
<1>1. /\ recvBox # <<>> /\ taken' = Append(taken, Head(recvBox))
      /\ recvBox' = Tail(recvBox) /\ copier.box = "none"
      /\ UNCHANGED <<made, rotated, asks, hand, delivered, at, sendBox, copier>>
  BY DEF AppPop, requests
<1>2. KnownInv
  BY DEF OrderInv
<1>3. recvBox' \in Seq(Known) /\ taken' \in Seq(Known)
  <2>1. Head(recvBox) \in Known /\ Tail(recvBox) \in Seq(Known)
    BY <1>1, <1>2, TailSet DEF KnownInv
  <2> QED
    BY <1>1, <1>2, <2>1, AppendSet DEF KnownInv
<1>4. /\ Contents("recv") = recvBox /\ Contents("recv")' = Tail(recvBox)
      /\ Contents("send")' = Contents("send")
  BY <1>1 DEF Contents, Box
<1>5. ASSUME "recv" \notin rotated, NEW c \in Clients
      PROVE  Line(taken', Contents("recv")', Brings(c), From(c))
  <2>1. Line(taken, recvBox, Brings(c), From(c))
    BY <1>4, <1>5 DEF OrderInv, RecvInv
  <2>2. Brings(c) \in Seq(Known)
    BY <1>2, EmptySeq DEF KnownInv, Brings
  <2> QED
    BY <1>1, <1>2, <1>4, <2>1, <2>2, LineAdvances DEF KnownInv
<1>6. RotateInv'
  BY <1>1 DEF RotateInv, Boxes
<1> QED
  BY <1>1, <1>2, <1>3, <1>4, <1>5, <1>6, ApplicationKeepsOrder DEF KnownInv

LEMMA CopyCountKeepsOrder ==
  ASSUME MailboxInv, OrderInv, NEW b \in Boxes, CopyCount(b)
  PROVE  OrderInv'
<1>1. /\ copier.box = "none" /\ copier'.box = b /\ copier'.snapshot = Box(b)
      /\ copier'.element = <<>> /\ copier'.new = <<>>
      /\ UNCHANGED <<made, rotated, asks, hand, delivered, at, recvBox, sendBox, taken>>
  BY DEF CopyCount, NotCopying, requests
<1>2. KnownInv /\ Box(b) \in Seq(Known) /\ <<>> \in Seq(Known)
      /\ Len(Box(b)) \in Nat /\ Len(<<>>) = 0
  BY EmptySeq, LenProperties DEF OrderInv, KnownInv, Box
<1>3. Box(b)' = Box(b)
  BY <1>1 DEF Box
<1>4. \A x \in Boxes : Contents(x)' = Contents(x)
  BY <1>1 DEF Contents, Box, Boxes
<1>5. CopyRotates(b)'
  BY <1>1, <1>2, <1>3 DEF CopyRotates
<1>6. RotateInv'
  BY <1>1, <1>5 DEF RotateInv
<1>7. "recv" \notin rotated => \A c \in Clients :
        Line(taken', Contents("recv")', Brings(c), From(c))
  BY <1>1, <1>4 DEF OrderInv, RecvInv, Boxes
<1> QED
  BY <1>1, <1>2, <1>4, <1>6, <1>7, ApplicationKeepsOrder DEF KnownInv, Boxes

\* The message that is popped comes next in the snapshot.
LEMMA PopRotates ==
  ASSUME MailboxInv, NEW b \in Boxes, CopyExact(b), CopyRotates(b),
         copier.left > 0, copier.element = <<>>, Box(b) # <<>>,
         copier' = [copier EXCEPT !.element = <<Head(Box(b))>>,
                                  !.new = Append(@, Head(Box(b)))],
         Box(b)' = Tail(Box(b))
  PROVE  CopyRotates(b)'
<1>0. PICK snapshot : snapshot = copier.snapshot
  OBVIOUS
<1>1. PICK done \in Nat, all \in Nat, rest \in Seq(Item) :
        /\ done = Len(copier.new) /\ all = Len(copier.snapshot)
        /\ rest = Box(b) /\ snapshot = copier.snapshot
  BY <1>0, Shapes, LenProperties
<1>2. Len(copier.element) = 0 /\ Len(rest) \in Nat
  BY <1>1, EmptySeq, LenProperties
<1>3. /\ copier.left = all - done + 0 /\ done <= all
      /\ \A i \in 1 .. all - done : rest[i] = snapshot[done + i]
  BY <1>1, <1>2 DEF CopyExact
<1>4. /\ Len(rest) = all - 0
      /\ \A i \in 1 .. done - 0 : rest[all - done + i] = snapshot[i]
  BY <1>1, <1>2 DEF CopyRotates
<1>5. /\ Len(Tail(rest)) = Len(rest) - 1 /\ Head(rest) = rest[1] /\ Head(rest) \in Item
      /\ \A i \in 1 .. Len(Tail(rest)) : Tail(rest)[i] = rest[i + 1]
  BY <1>1, HeadTailProperties
<1>6. /\ copier'.new = Append(copier.new, Head(rest))
      /\ copier'.element = <<Head(rest)>> /\ copier'.snapshot = snapshot
  BY <1>1 DEF MailboxInv, MailboxType, CopierType
<1>7. Len(copier'.new) = done + 1 /\ Len(copier'.element) = 1
      /\ copier'.element[1] = Head(rest) /\ Box(b)' = Tail(rest)
  <2>1. Len(copier'.new) = done + 1
    BY <1>1, <1>5, <1>6, Shapes, AppendProperties
  <2> QED
    BY <1>1, <1>6, <2>1
<1>8. rest[1] = snapshot[done + 1]
  <2>1. 1 \in 1 .. all - done
    BY <1>3
  <2> QED
    BY <1>3, <2>1
<1>9. Len(Tail(rest)) = all - 1
  BY <1>4, <1>5
<1>10. \A i \in 1 .. done : Tail(rest)[all - (done + 1) + i] = snapshot[i]
  <2>1. 1 <= all - done
    BY <1>3
  <2> SUFFICES ASSUME NEW i \in 1 .. done
               PROVE  Tail(rest)[all - (done + 1) + i] = snapshot[i]
    OBVIOUS
  <2>2. /\ all - (done + 1) + i \in 1 .. Len(Tail(rest))
        /\ all - (done + 1) + i + 1 = all - done + i
        /\ i \in 1 .. done - 0
    <3>1. i \in 1 .. done - 0
      OBVIOUS
    <3>2. /\ all - (done + 1) + i \in 1 .. all - 1
          /\ all - (done + 1) + i + 1 = all - done + i
      BY <2>1
    <3> QED
      BY <1>9, <3>1, <3>2, Zenon
  <2>3. Tail(rest)[all - (done + 1) + i] = rest[all - (done + 1) + i + 1]
    BY <1>5, <2>2
  <2>4. rest[all - done + i] = snapshot[i]
    BY <1>4, <2>2, Zenon
  <2> QED
    BY <2>2, <2>3, <2>4, Zenon
<1>11. done + 1 - 1 = done
  OBVIOUS
<1>12. Len(copier'.new) - Len(copier'.element) = done
  BY <1>7, <1>11
<1>13. /\ Len(Box(b)') = all - Len(copier'.element)
       /\ \A i \in 1 .. Len(copier'.new) - Len(copier'.element) :
            Box(b)'[all - Len(copier'.new) + i] = copier'.snapshot[i]
       /\ copier'.element[1] = copier'.snapshot[Len(copier'.new)]
  <2>1. Len(Box(b)') = all - Len(copier'.element)
    BY <1>7, <1>9, Zenon
  <2>2. copier'.element[1] = copier'.snapshot[Len(copier'.new)]
    BY <1>5, <1>6, <1>7, <1>8, Zenon
  <2>3. \A i \in 1 .. Len(copier'.new) - Len(copier'.element) :
          Box(b)'[all - Len(copier'.new) + i] = copier'.snapshot[i]
    BY <1>6, <1>7, <1>10, <1>12, Zenon
  <2> QED
    BY <2>1, <2>2, <2>3
<1>14. all = Len(copier'.snapshot)
  BY <1>1, <1>6
<1> QED
  BY <1>13, <1>14, Zenon DEF CopyRotates

LEMMA CopyPopKeepsOrder ==
  ASSUME MailboxInv, OrderInv, NEW b \in Boxes, CopyPop(b)
  PROVE  OrderInv'
<1>1. /\ copier.box = b /\ copier.left > 0 /\ copier.element = <<>> /\ KnownInv
      /\ UNCHANGED <<made, rotated, asks, hand, delivered, taken>>
  BY DEF CopyPop, OrderInv
<1>2. CASE Box(b) = <<>>
  <2>1. /\ at' = [c \in Clients |-> "aborted"] /\ UNCHANGED <<recvBox, sendBox>>
        /\ copier'.box = "aborted" /\ copier'.element = <<>>
    BY <1>1, <1>2 DEF CopyPop, MailboxInv, MailboxType, CopierType
  <2>2. b = "send" /\ "send" \in rotated
    BY <1>1, <1>2, CopyFinds DEF MailboxInv, CopyInv, Boxes
  <2>3. Contents("recv")' = Contents("recv")
    BY <1>1, <2>1, <2>2 DEF Contents, Box
  <2>4. RotateInv'
    BY <2>1 DEF RotateInv, Boxes
  <2>5. "recv" \notin rotated => \A c \in Clients :
          Line(taken', Contents("recv")', Brings(c), From(c))
    BY <1>1, <2>3 DEF OrderInv, RecvInv
  <2>6. copier'.box \notin Boxes /\ \A c \in Clients : at'[c] # "idle"
    BY <2>1 DEF Boxes
  <2> QED
    BY <1>1, <2>1, <2>2, <2>4, <2>5, <2>6, ApplicationKeepsOrder DEF KnownInv
<1>3. CASE Box(b) # <<>>
  <2> DEFINE m == Head(Box(b))
  <2>1. /\ copier' = [copier EXCEPT !.element = <<m>>, !.new = Append(@, m)]
        /\ recvBox' = IF b = "recv" THEN Tail(recvBox) ELSE recvBox
        /\ sendBox' = IF b = "send" THEN Tail(sendBox) ELSE sendBox
        /\ at' = at
    BY <1>3 DEF CopyPop, BoxBecomes, Box
  <2>2. /\ copier'.box = b /\ copier'.element = <<m>>
        /\ copier'.snapshot = copier.snapshot
    BY <1>1, <2>1 DEF MailboxInv, MailboxType, CopierType
  <2>3. Box(b) \in Seq(Known) /\ Box(b)' = Tail(Box(b))
    BY <1>1, <2>1 DEF KnownInv, Box, Boxes
  <2>4. m \in Known /\ Tail(Box(b)) \in Seq(Known) /\ <<m>> \in Seq(Known)
    <3>1. m \in Known /\ Tail(Box(b)) \in Seq(Known)
      BY <1>3, <2>3, TailSet
    <3> QED
      BY <3>1
  <2>5. recvBox' \in Seq(Known) /\ sendBox' \in Seq(Known)
    BY <1>1, <2>1, <2>4 DEF KnownInv, Box, Boxes
  <2>6. \A x \in Boxes : Contents(x)' = Contents(x)
    BY <1>1, <2>1, <2>2 DEF Contents, Box, Boxes
  <2>7. RotateInv'
    <3> SUFFICES ASSUME b \notin rotated PROVE CopyRotates(b)'
      BY <1>1, <2>2 DEF RotateInv
    <3>1. CopyRotates(b) /\ CopyExact(b)
      BY <1>1 DEF OrderInv, RotateInv, MailboxInv, CopyInv, Boxes
    <3> QED
      BY <1>1, <1>3, <2>1, <2>3, <3>1, PopRotates
  <2>8. "recv" \notin rotated => \A c \in Clients :
          Line(taken', Contents("recv")', Brings(c), From(c))
    BY <1>1, <2>6 DEF OrderInv, RecvInv, Boxes
  <2> QED
    BY <1>1, <2>1, <2>2, <2>4, <2>5, <2>6, <2>7, <2>8, ApplicationKeepsOrder
       DEF KnownInv, Boxes
<1> QED
  BY <1>2, <1>3

\* It goes back behind those that were copied before it.
LEMMA PushRotates ==
  ASSUME MailboxInv, NEW b \in Boxes, CopyExact(b), CopyRotates(b),
         copier.element # <<>>,
         copier' = [copier EXCEPT !.element = <<>>, !.left = @ - 1],
         Box(b)' = Box(b) \o copier.element
  PROVE  CopyRotates(b)'
<1>0. PICK rest \in Seq(Item), one \in Seq(Item) :
        rest = Box(b) /\ one = copier.element
  BY Shapes
<1>10. PICK snapshot : snapshot = copier.snapshot
  OBVIOUS
<1>1. PICK done \in Nat, all \in Nat :
        /\ done = Len(copier.new) /\ all = Len(copier.snapshot)
        /\ rest = Box(b) /\ snapshot = copier.snapshot /\ one = copier.element
  BY <1>0, <1>10, Shapes, LenProperties
<1>2. Len(one) = 1 /\ Len(rest) \in Nat
  <2>1. Len(one) <= 1 /\ one # <<>>
    BY <1>1 DEF MailboxInv, MailboxType, CopierType
  <2>2. Len(one) \in Nat /\ Len(one) # 0
    BY <1>1, <2>1, EmptySeq, LenProperties
  <2>3. \A n \in Nat : n # 0 /\ n <= 1 => n = 1
    OBVIOUS
  <2> QED
    BY <1>1, <2>1, <2>2, <2>3, LenProperties
<1>3. done <= all
  BY <1>1 DEF CopyExact
<1>4. /\ Len(rest) = all - 1 /\ one[1] = snapshot[done]
      /\ \A i \in 1 .. done - 1 : rest[all - done + i] = snapshot[i]
  <2>1. /\ Len(rest) = all - Len(one) /\ (Len(one) # 0 => one[1] = snapshot[done])
        /\ \A i \in 1 .. done - Len(one) : rest[all - done + i] = snapshot[i]
    BY <1>1, Zenon DEF CopyRotates
  <2> QED
    BY <1>2, <2>1
<1>5. /\ Len(rest \o one) = Len(rest) + Len(one)
      /\ \A i \in 1 .. Len(rest) + Len(one) :
           (rest \o one)[i] = IF i <= Len(rest) THEN rest[i] ELSE one[i - Len(rest)]
  BY <1>1, ConcatProperties
<1>6. /\ copier'.new = copier.new /\ copier'.element = <<>>
      /\ copier'.snapshot = copier.snapshot /\ Len(<<>>) = 0
      /\ Box(b)' = rest \o one
  BY <1>1, EmptySeq DEF MailboxInv, MailboxType, CopierType
<1>7. Len(rest \o one) = all - 0
  BY <1>2, <1>4, <1>5
<1>8. \A i \in 1 .. done : (rest \o one)[all - done + i] = snapshot[i]
  <2> SUFFICES ASSUME NEW i \in 1 .. done
               PROVE  (rest \o one)[all - done + i] = snapshot[i]
    OBVIOUS
  <2>1. CASE i = done
    <3>1. /\ all - done + i = all /\ all \in 1 .. Len(rest) + Len(one)
          /\ ~ (all <= Len(rest)) /\ all - Len(rest) = 1
      <4>1. Len(rest) = all - 1
        BY <1>4
      <4> QED
        BY <1>2, <1>3, <2>1, <4>1
    <3> QED
      BY <1>4, <1>5, <2>1, <3>1
  <2>2. CASE i # done
    <3>1. /\ all - done + i \in 1 .. Len(rest) + Len(one)
          /\ all - done + i <= Len(rest) /\ i \in 1 .. done - 1
      BY <1>2, <1>3, <1>4, <2>2
    <3> QED
      BY <1>4, <1>5, <3>1
  <2> QED
    BY <2>1, <2>2
<1>9. done - 0 = done
  OBVIOUS
<1> QED
  BY <1>1, <1>6, <1>7, <1>8, <1>9 DEF CopyRotates

LEMMA CopyPushKeepsOrder ==
  ASSUME MailboxInv, OrderInv, NEW b \in Boxes, CopyPush(b)
  PROVE  OrderInv'
<1>1. /\ copier.box = b /\ copier.element # <<>> /\ KnownInv
      /\ recvBox' = IF b = "recv" THEN recvBox \o copier.element ELSE recvBox
      /\ sendBox' = IF b = "send" THEN sendBox \o copier.element ELSE sendBox
      /\ copier' = [copier EXCEPT !.element = <<>>, !.left = @ - 1]
      /\ UNCHANGED <<made, rotated, asks, hand, delivered, at, taken>>
  BY DEF CopyPush, BoxBecomes, Box, requests, OrderInv
<1>2. copier'.box = b /\ copier'.element = <<>> /\ copier'.snapshot = copier.snapshot
  BY <1>1 DEF MailboxInv, MailboxType, CopierType
<1>3. recvBox' \in Seq(Known) /\ sendBox' \in Seq(Known) /\ copier'.element \in Seq(Known)
  BY <1>1, <1>2, ConcatProperties, EmptySeq DEF KnownInv
<1>4. Box(b)' = Box(b) \o copier.element
  BY <1>1 DEF Box, Boxes
<1>5. \A x \in Boxes : Contents(x)' = Contents(x)
  BY <1>1, <1>2 DEF Contents, Box, Boxes
<1>6. RotateInv'
  <2> SUFFICES ASSUME b \notin rotated PROVE CopyRotates(b)'
    BY <1>1, <1>2 DEF RotateInv
  <2>1. CopyRotates(b) /\ CopyExact(b)
    BY <1>1 DEF OrderInv, RotateInv, MailboxInv, CopyInv, Boxes
  <2> QED
    BY <1>1, <1>4, <2>1, PushRotates
<1>7. "recv" \notin rotated => \A c \in Clients :
        Line(taken', Contents("recv")', Brings(c), From(c))
  BY <1>1, <1>5 DEF OrderInv, RecvInv, Boxes
<1> QED
  BY <1>1, <1>2, <1>3, <1>5, <1>6, <1>7, ApplicationKeepsOrder DEF KnownInv, Boxes

\* After its last round the mailbox has what it had.
LEMMA CopyEndKeepsOrder ==
  ASSUME MailboxInv, OrderInv, CopyEnd
  PROVE  OrderInv'
<1>1. /\ copier.box \in Boxes /\ copier.left = 0 /\ KnownInv
      /\ copier'.box = "none" /\ copier'.element = <<>>
      /\ UNCHANGED <<made, rotated, asks, hand, delivered, at, recvBox, sendBox, taken>>
  BY DEF CopyEnd, NotCopying, requests, OrderInv, Boxes
<1>2. ASSUME NEW b \in Boxes, copier.box = b, b \notin rotated
      PROVE  Box(b) = copier.snapshot
  <2>1. CopyRotates(b) /\ CopyExact(b)
    BY <1>2 DEF OrderInv, RotateInv, MailboxInv, CopyInv, Boxes
  <2>2. Len(copier.element) = 0
    BY <1>1, Shapes DEF MailboxInv, MailboxType, CopierType
  <2>3. PICK done \in Nat, all \in Nat, rest \in Seq(Known), snapshot \in Seq(Known) :
          /\ done = Len(copier.new) /\ all = Len(copier.snapshot)
          /\ rest = Box(b) /\ snapshot = copier.snapshot
    BY <1>1, <1>2, Shapes, LenProperties DEF KnownInv, Box
  <2>4. done = all
    <3>1. copier.left = all - done + 0 /\ copier.left = 0
      BY <1>1, <2>1, <2>2, <2>3 DEF CopyExact
    <3> QED
      BY <3>1
  <2>5. /\ Len(rest) = all - 0
        /\ \A i \in 1 .. done - 0 : rest[all - done + i] = snapshot[i]
    BY <2>1, <2>2, <2>3 DEF CopyRotates
  <2>6. Len(rest) = Len(snapshot) /\ \A i \in 1 .. Len(rest) : rest[i] = snapshot[i]
    BY <2>3, <2>4, <2>5
  <2> QED
    BY <2>3, <2>6, SeqEqual
<1>3. \A x \in Boxes \ rotated : Contents(x)' = Contents(x)
  <2>1. \A x \in Boxes : Contents(x)' = Box(x)
    BY <1>1 DEF Contents, Box, Boxes
  <2> QED
    BY <1>2, <2>1 DEF Contents
<1>4. RotateInv'
  BY <1>1 DEF RotateInv, Boxes
<1>5. "recv" \notin rotated => \A c \in Clients :
        Line(taken', Contents("recv")', Brings(c), From(c))
  BY <1>1, <1>3 DEF OrderInv, RecvInv, Boxes
<1>6. copier'.element \in Seq(Known) /\ copier'.box \notin Boxes
  BY <1>1, EmptySeq DEF Boxes
<1> QED
  BY <1>1, <1>3, <1>4, <1>5, <1>6, ApplicationKeepsOrder DEF KnownInv, Boxes

-----------------------------------------------------------------------------
(* The rounds of the loops *)

\* A round of client c's loop keeps the order of the mailboxes when nobody
\* copies the one it uses.
LEMMA MoveKeepsOrder ==
  ASSUME OrderInv, NEW c \in Clients, NEW b \in Boxes, at[c] # "idle",
         UNCHANGED <<made, copier, taken, at, asks, delivered>>,
         rotated' = rotated \cup ({b} \cap {copier.box}),
         \A x \in Boxes \ {b} : Box(x)' = Box(x),
         recvBox' \in Seq(Known), sendBox' \in Seq(Known),
         hand' \in [Clients -> Seq(Known)],
         \A d \in Clients \ {c} : hand'[d] = hand[d],
         asks[c] = "recv" => ToSet(hand'[c]) \subseteq From(c),
         "recv" \notin rotated' => \A d \in Clients :
           Line(taken, Contents("recv")', Brings(d)', From(d)),
         "send" \notin rotated' => \A d \in Clients :
           Line(delivered[d], Fetches(d)', Contents("send")', From(NoClient))
  PROVE  OrderInv'
<1>1. Known' = Known /\ \A d : From(d)' = From(d)
  BY DEF Known, From
<1>2. KnownInv'
  BY <1>1 DEF OrderInv, KnownInv
<1>3. HandsInv'
  <2> SUFFICES ASSUME NEW d \in Clients
               PROVE  /\ at'[d] = "idle" => hand'[d] = <<>>
                      /\ asks'[d] = "recv" => ToSet(hand'[d]) \subseteq From(d)
    BY <1>1 DEF HandsInv
  <2> QED
    BY DEF OrderInv, HandsInv
<1>4. RotateInv'
  <2> SUFFICES ASSUME copier.box \in Boxes, copier.box \notin rotated'
               PROVE  CopyRotates(copier.box)'
    BY DEF RotateInv
  <2>1. copier.box # b /\ copier.box \notin rotated
    OBVIOUS
  <2>2. CopyRotates(copier.box) /\ Box(copier.box)' = Box(copier.box)
    BY <2>1 DEF OrderInv, RotateInv
  <2> QED
    BY <2>2 DEF CopyRotates
<1>5. RecvInv' /\ SendInv'
  BY <1>1, Zenon DEF RecvInv, SendInv
<1> QED
  BY <1>2, <1>3, <1>4, <1>5 DEF OrderInv

LEMMA MovePutKeepsOrder ==
  ASSUME MailboxInv, OrderInv, NEW c \in Clients, MovePut(c)
  PROVE  OrderInv'
<1> DEFINE m == Head(hand[c])
<1>1. /\ at[c] = "move" /\ asks[c] = "recv" /\ left[c] > 0 /\ KnownInv
      /\ recvBox' = Append(recvBox, m) /\ hand' = [hand EXCEPT ![c] = Tail(@)]
      /\ rotated' = rotated \cup ({"recv"} \cap {copier.box})
      /\ UNCHANGED <<sendBox, copier, taken, made, at, asks, delivered>>
  BY DEF MovePut, Disturb, application, OrderInv
<1>2. hand[c] # <<>> /\ hand[c] \in Seq(Known)
  <2>1. left[c] <= Len(hand[c]) /\ left[c] \in Nat
    BY <1>1 DEF MailboxInv, HandCovers, MailboxType, RequestsType
  <2>2. Len(hand[c]) # 0
    BY <1>1, <2>1, LenProperties DEF KnownInv
  <2> QED
    BY <1>1, <2>2, EmptySeq DEF KnownInv
<1>3. /\ m \in Known /\ m \in ToSet(hand[c]) /\ Tail(hand[c]) \in Seq(Known)
      /\ ToSet(Tail(hand[c])) \subseteq ToSet(hand[c])
  BY <1>2, TailSet
<1>4. ToSet(hand[c]) \subseteq From(c) /\ m \in From(c)
  BY <1>1, <1>3 DEF OrderInv, HandsInv
<1>5. /\ hand' \in [Clients -> Seq(Known)] /\ hand'[c] = Tail(hand[c])
      /\ \A d \in Clients \ {c} : hand'[d] = hand[d]
      /\ recvBox' \in Seq(Known) /\ sendBox' \in Seq(Known)
  BY <1>1, <1>3, AppendSet DEF KnownInv
<1>6. /\ Brings(c) = hand[c] /\ Brings(c)' = Tail(hand[c])
      /\ \A d \in Clients \ {c} : Brings(d)' = Brings(d)
      /\ \A d \in Clients : Fetches(d)' = Fetches(d)
  BY <1>1, <1>5 DEF Brings, Fetches
<1>7. /\ Box("send")' = Box("send") /\ Contents("send")' = Contents("send")
      /\ copier.box # "recv" =>
           Contents("recv") = recvBox /\ Contents("recv")' = recvBox'
  BY <1>1 DEF Contents, Box
<1>8. ASSUME "recv" \notin rotated', NEW d \in Clients
      PROVE  Line(taken, Contents("recv")', Brings(d)', From(d))
  <2>1. copier.box # "recv" /\ "recv" \notin rotated
    BY <1>1, <1>8
  <2>2. Line(taken, recvBox, Brings(d), From(d))
    BY <1>7, <2>1 DEF OrderInv, RecvInv
  <2>3. CASE d = c
    <3>1. Line(taken, Append(recvBox, m), Tail(hand[c]), From(c))
      BY <1>1, <1>2, <1>6, <2>2, <2>3, LineAdvances DEF KnownInv
    <3> QED
      BY <1>1, <1>6, <1>7, <2>1, <2>3, <3>1
  <2>4. CASE d # c
    <3>1. m \notin From(d)
      BY <1>4, <2>4 DEF From
    <3>2. Line(taken, Append(recvBox, m), Brings(d), From(d))
      BY <1>1, <1>3, <2>2, <3>1, LineIgnores DEF KnownInv
    <3> QED
      BY <1>1, <1>6, <1>7, <2>1, <2>4, <3>2
  <2> QED
    BY <2>3, <2>4
<1>9. "send" \notin rotated' => \A d \in Clients :
        Line(delivered[d], Fetches(d)', Contents("send")', From(NoClient))
  BY <1>1, <1>6, <1>7 DEF OrderInv, SendInv
<1>10. \A x \in Boxes \ {"recv"} : Box(x)' = Box(x)
  BY <1>7 DEF Boxes
<1>11. asks[c] = "recv" => ToSet(hand'[c]) \subseteq From(c)
  BY <1>3, <1>4, <1>5
<1> QED
  BY <1>1, <1>5, <1>8, <1>9, <1>10, <1>11, MoveKeepsOrder DEF Boxes

LEMMA MoveGetKeepsOrder ==
  ASSUME MailboxInv, OrderInv, NEW c \in Clients, MoveGet(c)
  PROVE  OrderInv'
<1> DEFINE m == IF sendBox = <<>> THEN NULL ELSE Head(sendBox)
<1>1. /\ at[c] = "move" /\ asks[c] = "send" /\ KnownInv
      /\ hand' = [hand EXCEPT ![c] = Append(@, m)]
      /\ sendBox' = IF sendBox = <<>> THEN sendBox ELSE Tail(sendBox)
      /\ rotated' = rotated \cup ({"send"} \cap {copier.box})
      /\ UNCHANGED <<recvBox, copier, taken, made, at, asks, delivered>>
  BY DEF MoveGet, Disturb, application, OrderInv
<1>2. m \in Known /\ sendBox' \in Seq(Known) /\ hand[c] \in Seq(Known)
  BY <1>1, TailSet DEF KnownInv, Known
<1>3. Append(hand[c], m) \in Seq(Known)
  BY <1>2, AppendSet
<1>4. /\ hand' \in [Clients -> Seq(Known)] /\ hand'[c] = Append(hand[c], m)
      /\ \A d \in Clients \ {c} : hand'[d] = hand[d]
      /\ recvBox' \in Seq(Known)
  BY <1>1, <1>3 DEF KnownInv
<1>5. /\ Fetches(c) = hand[c] /\ Fetches(c)' = Append(hand[c], m)
      /\ \A d \in Clients \ {c} : Fetches(d)' = Fetches(d)
      /\ \A d \in Clients : Brings(d)' = Brings(d)
  BY <1>1, <1>4 DEF Brings, Fetches
<1>6. /\ Box("recv")' = Box("recv") /\ Contents("recv")' = Contents("recv")
      /\ copier.box # "send" =>
           Contents("send") = sendBox /\ Contents("send")' = sendBox'
  BY <1>1 DEF Contents, Box
<1>7. ASSUME "send" \notin rotated', NEW d \in Clients
      PROVE  Line(delivered[d], Fetches(d)', Contents("send")', From(NoClient))
  <2>1. copier.box # "send" /\ "send" \notin rotated
    BY <1>1, <1>7
  <2>2. Line(delivered[d], Fetches(d), sendBox, From(NoClient))
    BY <1>6, <2>1 DEF OrderInv, SendInv
  <2>3. /\ delivered[d] \in Seq(Known) /\ Fetches(d) \in Seq(Known)
        /\ sendBox \in Seq(Known)
    BY <1>1, EmptySeq DEF KnownInv, Fetches
  <2>4. CASE sendBox = <<>>
    <3>1. NULL \notin From(NoClient)
      <4>1. DOMAIN made = 1 .. Len(made) /\ Len(made) \in Nat /\ Len(made) <= MaxMessages
        BY <1>1, LenProperties DEF KnownInv
      <4> QED
        BY <4>1, MailboxAssumption DEF From
    <3>2. Line(delivered[d], Append(Fetches(d), NULL), sendBox, From(NoClient))
      BY <1>2, <2>2, <2>3, <2>4, <3>1, LineIgnores
    <3>3. Fetches(d)' = Fetches(d) \/ Fetches(d)' = Append(Fetches(d), NULL)
      BY <1>5, <2>4
    <3> QED
      BY <1>1, <1>6, <2>1, <2>2, <2>4, <3>2, <3>3
  <2>5. CASE sendBox # <<>> /\ d = c
    <3>1. Line(delivered[d], Append(Fetches(d), Head(sendBox)), Tail(sendBox),
               From(NoClient))
      BY <2>2, <2>3, <2>5, LineAdvances
    <3> QED
      BY <1>1, <1>5, <1>6, <2>1, <2>5, <3>1
  <2>6. CASE sendBox # <<>> /\ d # c
    <3>1. Line(delivered[d], Fetches(d), Tail(sendBox), From(NoClient))
      BY <2>2, <2>3, <2>6, LineShortens
    <3> QED
      BY <1>1, <1>5, <1>6, <2>1, <2>6, <3>1
  <2> QED
    BY <2>4, <2>5, <2>6
<1>8. "recv" \notin rotated' => \A d \in Clients :
        Line(taken, Contents("recv")', Brings(d)', From(d))
  BY <1>1, <1>5, <1>6 DEF OrderInv, RecvInv
<1>9. \A x \in Boxes \ {"send"} : Box(x)' = Box(x)
  BY <1>6 DEF Boxes
<1> QED
  BY <1>1, <1>2, <1>4, <1>7, <1>8, <1>9, MoveKeepsOrder DEF Boxes

LEMMA NextOrder == MailboxInv /\ OrderInv /\ [Next]_vars => OrderInv'
<1> SUFFICES ASSUME MailboxInv, OrderInv, [Next]_vars PROVE OrderInv'
  OBVIOUS
<1>1. CASE Application
  <2>1. CASE AppPush
    BY <2>1, AppPushKeepsOrder
  <2>2. CASE AppPop
    BY <2>2, AppPopKeepsOrder
  <2>3. CASE CopyEnd
    BY <2>3, CopyEndKeepsOrder
  <2>4. ASSUME NEW b \in Boxes, CopyCount(b) \/ CopyPop(b) \/ CopyPush(b)
        PROVE  OrderInv'
    BY <2>4, CopyCountKeepsOrder, CopyPopKeepsOrder, CopyPushKeepsOrder
  <2> QED
    BY <1>1, <2>1, <2>2, <2>3, <2>4 DEF Application, Boxes
<1>2. CASE ProxyStops
  BY <1>2, QuietKeepsOrder DEF ProxyStops, application, requests
<1>3. ASSUME NEW c \in Clients, Put(c) \/ Get(c)
      PROVE  OrderInv'
  BY <1>3, PutKeepsOrder, GetKeepsOrder
<1>4. ASSUME NEW c \in Clients, Handling(c)
      PROVE  OrderInv'
  BY <1>4, RequestStepsKeepOrder, MovePutKeepsOrder, MoveGetKeepsOrder DEF Handling
<1>5. CASE UNCHANGED vars
  BY <1>5, QuietKeepsOrder DEF vars, application, requests
<1> QED
  BY <1>1, <1>2, <1>3, <1>4, <1>5 DEF Next

-----------------------------------------------------------------------------
(***************************************************************************)
(* No message is lost without a trace, and none is there twice.  H is what *)
(* each place holds; a step takes it to G.                                 *)
(***************************************************************************)
Only(H, m, p, k) ==
  /\ p \in DOMAIN H /\ k \in DOMAIN H[p] /\ H[p][k] = m
  /\ \A q \in DOMAIN H : \A l \in DOMAIN H[q] : H[q][l] = m => q = p /\ l = k

Once(H, m) == \E p, k : Only(H, m, p, k)

\* The places other than those in T keep what they have.
Differ(H, G, T) ==
  DOMAIN G = DOMAIN H /\ T \subseteq DOMAIN H /\ \A q \in DOMAIN H \ T : G[q] = H[q]

\* The first one of a becomes the last one of b.
Moves(S, H, G, a, b) ==
  /\ Differ(H, G, {a, b}) /\ a # b
  /\ H[a] \in Seq(S) /\ H[a] # <<>> /\ H[b] \in Seq(S)
  /\ G[a] = Tail(H[a]) /\ G[b] = Append(H[b], Head(H[a]))

LEMMA OnceMoved ==
  ASSUME NEW S, NEW H, NEW G, NEW a, NEW b, Moves(S, H, G, a, b),
         NEW m, Once(H, m)
  PROVE  Once(G, m)
<1> USE DEF Moves, Differ
<1>1. PICK n \in Nat, r \in Nat : n = Len(H[a]) /\ r = Len(H[b])
  BY LenProperties
<1>2. /\ DOMAIN H[a] = 1 .. n /\ DOMAIN H[b] = 1 .. r /\ n # 0
  BY <1>1, LenProperties, EmptySeq
<1>3. /\ DOMAIN G[a] = 1 .. n - 1
      /\ \A l \in 1 .. n - 1 : G[a][l] = H[a][l + 1]
  <2>1. /\ Tail(H[a]) \in Seq(S) /\ Len(Tail(H[a])) = Len(H[a]) - 1
        /\ \A l \in 1 .. Len(Tail(H[a])) : Tail(H[a])[l] = H[a][l + 1]
    BY HeadTailProperties
  <2>2. DOMAIN Tail(H[a]) = 1 .. Len(Tail(H[a]))
    BY <2>1, LenProperties
  <2> QED
    BY <1>1, <2>1, <2>2
<1>4. /\ DOMAIN G[b] = 1 .. r + 1
      /\ \A l \in 1 .. r : G[b][l] = H[b][l]
      /\ G[b][r + 1] = H[a][1]
  <2>1. Head(H[a]) \in S /\ Head(H[a]) = H[a][1]
    BY HeadTailProperties
  <2>2. /\ Append(H[b], Head(H[a])) \in Seq(S)
        /\ Len(Append(H[b], Head(H[a]))) = Len(H[b]) + 1
        /\ \A l \in 1 .. Len(H[b]) : Append(H[b], Head(H[a]))[l] = H[b][l]
        /\ Append(H[b], Head(H[a]))[Len(H[b]) + 1] = Head(H[a])
    BY <2>1, AppendProperties
  <2>3. DOMAIN G[b] = 1 .. Len(G[b])
    BY <2>2, LenProperties
  <2> QED
    BY <1>1, <2>1, <2>2, <2>3
<1>5. PICK p, k : Only(H, m, p, k)
  BY DEF Once
<1>6. /\ \A l \in 1 .. n - 1 : l + 1 \in 1 .. n
      /\ \A l \in 1 .. r : l \in 1 .. r + 1
      /\ 1 \in 1 .. n /\ r + 1 \in 1 .. r + 1 /\ r + 1 \notin 1 .. r
      /\ \A l \in 1 .. r + 1 : l \in 1 .. r \/ l = r + 1
      /\ \A l \in 1 .. n : l = 1 \/ l - 1 \in 1 .. n - 1
      /\ \A l \in 1 .. n : l - 1 + 1 = l
      /\ \A l, j \in 1 .. n - 1 : l + 1 = j + 1 => l = j
      /\ \A l \in 1 .. n - 1 : l + 1 # 1 /\ l + 1 - 1 = l
  BY <1>2
\* Where each place has m now, and where it was.
<1>7. /\ \A l \in DOMAIN G[a] : G[a][l] = m => p = a /\ k = l + 1
      /\ \A l \in DOMAIN G[b] : G[b][l] = m =>
           \/ l \in 1 .. r /\ p = b /\ k = l
           \/ l = r + 1 /\ p = a /\ k = 1
      /\ \A q \in DOMAIN H \ {a, b} : \A l \in DOMAIN G[q] :
           G[q][l] = m => p = q /\ k = l
  <2>1. \A q \in DOMAIN H : \A l \in DOMAIN H[q] : H[q][l] = m => q = p /\ l = k
    BY <1>5 DEF Only
  <2>2. \A l \in DOMAIN G[a] : G[a][l] = m => p = a /\ k = l + 1
    BY <1>2, <1>3, <1>6, <2>1
  <2>3. \A l \in DOMAIN G[b] : G[b][l] = m =>
           \/ l \in 1 .. r /\ p = b /\ k = l
           \/ l = r + 1 /\ p = a /\ k = 1
    BY <1>2, <1>4, <1>6, <2>1
  <2> QED
    BY <2>1, <2>2, <2>3
<1>8. CASE p = a /\ k = 1
  <2>1. H[a][1] = m
    BY <1>5, <1>8 DEF Only
  <2>2. b \in DOMAIN G /\ r + 1 \in DOMAIN G[b] /\ G[b][r + 1] = m
    BY <1>4, <1>6, <2>1
  <2>3. \A q \in DOMAIN G : \A l \in DOMAIN G[q] : G[q][l] = m => q = b /\ l = r + 1
    <3>1. \A l \in DOMAIN G[a] : G[a][l] # m
      BY <1>3, <1>6, <1>7, <1>8
    <3>2. \A l \in DOMAIN G[b] : G[b][l] = m => l = r + 1
      BY <1>7, <1>8
    <3>3. \A q \in DOMAIN G \ {a, b} : \A l \in DOMAIN G[q] : G[q][l] # m
      BY <1>7, <1>8
    <3> QED
      BY <3>1, <3>2, <3>3
  <2>4. Only(G, m, b, r + 1)
    BY <2>2, <2>3, Zenon DEF Only
  <2> QED
    BY <2>4 DEF Once
<1>9. CASE p = a /\ k # 1
  <2>1. k - 1 \in 1 .. n - 1 /\ k - 1 + 1 = k
    BY <1>2, <1>5, <1>6, <1>9 DEF Only
  <2>2. a \in DOMAIN G /\ k - 1 \in DOMAIN G[a] /\ G[a][k - 1] = m
    <3>1. H[a][k] = m
      BY <1>5, <1>9 DEF Only
    <3> QED
      BY <1>3, <2>1, <3>1
  <2>3. \A q \in DOMAIN G : \A l \in DOMAIN G[q] : G[q][l] = m => q = a /\ l = k - 1
    <3>1. \A l \in DOMAIN G[a] : G[a][l] = m => l = k - 1
      BY <1>3, <1>6, <1>7
    <3>2. \A l \in DOMAIN G[b] : G[b][l] # m
      BY <1>7, <1>9
    <3>3. \A q \in DOMAIN G \ {a, b} : \A l \in DOMAIN G[q] : G[q][l] # m
      BY <1>7, <1>9
    <3> QED
      BY <3>1, <3>2, <3>3
  <2>4. Only(G, m, a, k - 1)
    BY <2>2, <2>3, Zenon DEF Only
  <2> QED
    BY <2>4 DEF Once
<1>10. CASE p # a
  <2>1. p \in DOMAIN H /\ k \in DOMAIN H[p] /\ H[p][k] = m
    BY <1>5 DEF Only
  <2>2. k \in DOMAIN G[p] /\ G[p][k] = m
    BY <1>2, <1>4, <1>6, <1>10, <2>1
  <2>3. Only(G, m, p, k)
    BY <1>7, <1>10, <2>1, <2>2 DEF Only
  <2> QED
    BY <2>3 DEF Once
<1> QED
  BY <1>8, <1>9, <1>10

\* What a has goes behind what b has.
Joins(S, H, G, a, b) ==
  /\ Differ(H, G, {a, b}) /\ a # b
  /\ H[a] \in Seq(S) /\ H[b] \in Seq(S)
  /\ G[a] = <<>> /\ G[b] = H[b] \o H[a]

LEMMA OnceJoined ==
  ASSUME NEW S, NEW H, NEW G, NEW a, NEW b, Joins(S, H, G, a, b),
         NEW m, Once(H, m)
  PROVE  Once(G, m)
<1> USE DEF Joins, Differ
<1>1. PICK n \in Nat, r \in Nat : n = Len(H[a]) /\ r = Len(H[b])
  BY LenProperties
<1>2. /\ DOMAIN H[a] = 1 .. n /\ DOMAIN H[b] = 1 .. r /\ DOMAIN G[a] = {}
  BY <1>1, LenProperties
<1>3. /\ DOMAIN G[b] = 1 .. r + n
      /\ \A l \in 1 .. r + n : G[b][l] = IF l <= r THEN H[b][l] ELSE H[a][l - r]
  <2>1. /\ H[b] \o H[a] \in Seq(S) /\ Len(H[b] \o H[a]) = r + n
        /\ \A l \in 1 .. r + n :
             (H[b] \o H[a])[l] = IF l <= r THEN H[b][l] ELSE H[a][l - r]
    BY <1>1, ConcatProperties
  <2>2. DOMAIN (H[b] \o H[a]) = 1 .. Len(H[b] \o H[a])
    BY <2>1, LenProperties
  <2> QED
    BY <2>1, <2>2
<1>4. PICK p, k : Only(H, m, p, k)
  BY DEF Once
<1>5. /\ \A l \in 1 .. r : l \in 1 .. r + n /\ l <= r
      /\ \A l \in 1 .. n : r + l \in 1 .. r + n /\ ~ (r + l <= r) /\ r + l - r = l
      /\ \A l \in 1 .. r + n : IF l <= r THEN l \in 1 .. r ELSE l - r \in 1 .. n
      /\ \A l \in 1 .. r + n : \A j \in 1 .. n : l - r = j => l = r + j
  OBVIOUS
\* Where each place has m now, and where it was.
<1>6. /\ \A l \in DOMAIN G[b] : G[b][l] = m =>
           \/ l \in 1 .. r /\ p = b /\ k = l
           \/ ~ (l <= r) /\ p = a /\ k = l - r
      /\ \A q \in DOMAIN H \ {a, b} : \A l \in DOMAIN G[q] :
           G[q][l] = m => p = q /\ k = l
  <2>1. \A q \in DOMAIN H : \A l \in DOMAIN H[q] : H[q][l] = m => q = p /\ l = k
    BY <1>4 DEF Only
  <2>2. \A l \in DOMAIN G[b] : G[b][l] = m =>
           \/ l \in 1 .. r /\ p = b /\ k = l
           \/ ~ (l <= r) /\ p = a /\ k = l - r
    BY <1>2, <1>3, <1>5, <2>1
  <2> QED
    BY <2>1, <2>2
<1>7. CASE p = a
  <2>1. H[a][k] = m /\ k \in 1 .. n
    BY <1>2, <1>4, <1>7 DEF Only
  <2>2. b \in DOMAIN G /\ r + k \in DOMAIN G[b] /\ G[b][r + k] = m
    BY <1>3, <1>5, <2>1
  <2>3. \A q \in DOMAIN G : \A l \in DOMAIN G[q] : G[q][l] = m => q = b /\ l = r + k
    <3>1. \A l \in DOMAIN G[b] : G[b][l] = m => l = r + k
      BY <1>3, <1>5, <1>6, <1>7, <2>1
    <3>2. \A q \in DOMAIN G \ {a, b} : \A l \in DOMAIN G[q] : G[q][l] # m
      BY <1>6, <1>7
    <3> QED
      BY <1>2, <3>1, <3>2
  <2>4. Only(G, m, b, r + k)
    BY <2>2, <2>3, Zenon DEF Only
  <2> QED
    BY <2>4 DEF Once
<1>8. CASE p # a
  <2>1. p \in DOMAIN H /\ k \in DOMAIN H[p] /\ H[p][k] = m
    BY <1>4 DEF Only
  <2>2. k \in DOMAIN G[p] /\ G[p][k] = m
    BY <1>2, <1>3, <1>5, <1>8, <2>1
  <2>3. \A q \in DOMAIN G : \A l \in DOMAIN G[q] : G[q][l] = m => q = p /\ l = k
    BY <1>2, <1>6, <1>8
  <2>4. Only(G, m, p, k)
    BY <2>1, <2>2, <2>3, Zenon DEF Only
  <2> QED
    BY <2>4 DEF Once
<1> QED
  BY <1>7, <1>8

\* What a has is added to the set in b, but for N.
Drops(H, G, a, b, L, N) ==
  /\ Differ(H, G, {a, b}) /\ a # b
  /\ H[b] = [x \in L |-> x] /\ G[b] = [x \in L \cup (ToSet(H[a]) \ {N}) |-> x]
  /\ G[a] = <<>>

LEMMA OnceDropped ==
  ASSUME NEW H, NEW G, NEW a, NEW b, NEW L, NEW N, Drops(H, G, a, b, L, N),
         NEW m, m # N, Once(H, m)
  PROVE  Once(G, m)
<1> USE DEF Drops, Differ
<1>1. PICK p, k : Only(H, m, p, k)
  BY DEF Once
<1>2. \A q \in DOMAIN H : \A l \in DOMAIN H[q] : H[q][l] = m => q = p /\ l = k
  BY <1>1 DEF Only
<1>3. DOMAIN G[a] = {}
  OBVIOUS
<1>4. \A q \in DOMAIN H \ {a, b} : \A l \in DOMAIN G[q] : G[q][l] = m => q = p /\ l = k
  BY <1>2
<1>5. \A l \in DOMAIN G[b] : G[b][l] = m => l = m /\ (p = a \/ (p = b /\ k = m))
  <2> SUFFICES ASSUME m \in L \cup ToSet(H[a])
               PROVE  p = a \/ (p = b /\ k = m)
    OBVIOUS
  <2>1. CASE m \in L
    BY <1>2, <2>1
  <2>2. CASE m \in ToSet(H[a])
    <3>1. PICK l \in DOMAIN H[a] : H[a][l] = m
      BY <2>2 DEF ToSet
    <3>2. a = p /\ l = k
      BY <1>2, <3>1, Zenon
    <3> QED
      BY <3>2
  <2> QED
    BY <2>1, <2>2
<1>6. CASE p = a
  <2>1. m \in ToSet(H[a])
    BY <1>1, <1>6 DEF Only, ToSet
  <2>2. b \in DOMAIN G /\ m \in DOMAIN G[b] /\ G[b][m] = m
    BY <2>1
  <2>3. \A q \in DOMAIN G : \A l \in DOMAIN G[q] : G[q][l] = m => q = b /\ l = m
    <3>1. \A l \in DOMAIN G[b] : G[b][l] = m => l = m
      BY <1>5
    <3>2. \A q \in DOMAIN G \ {a, b} : \A l \in DOMAIN G[q] : G[q][l] # m
      BY <1>4, <1>6
    <3> QED
      BY <1>3, <3>1, <3>2
  <2>4. Only(G, m, b, m)
    BY <2>2, <2>3, Zenon DEF Only
  <2> QED
    BY <2>4 DEF Once
<1>7. CASE p # a
  <2>1. p \in DOMAIN H /\ k \in DOMAIN H[p] /\ H[p][k] = m
    BY <1>1 DEF Only
  <2>2. k \in DOMAIN G[p] /\ G[p][k] = m
    BY <1>7, <2>1
  <2>3. \A q \in DOMAIN G : \A l \in DOMAIN G[q] : G[q][l] = m => q = p /\ l = k
    BY <1>3, <1>4, <1>5, <1>7
  <2>4. Only(G, m, p, k)
    BY <2>1, <2>2, <2>3, Zenon DEF Only
  <2> QED
    BY <2>4 DEF Once
<1> QED
  BY <1>6, <1>7

\* s comes behind what a has: the messages s has not stay where they were,
Grows(S, H, G, a, s) ==
  /\ Differ(H, G, {a})
  /\ H[a] \in Seq(S) /\ s \in Seq(S) /\ G[a] = H[a] \o s

LEMMA OnceKept ==
  ASSUME NEW S, NEW H, NEW G, NEW a, NEW s, Grows(S, H, G, a, s),
         NEW m, m \notin ToSet(s), Once(H, m)
  PROVE  Once(G, m)
<1> USE DEF Grows, Differ
<1>1. PICK n \in Nat, r \in Nat : n = Len(s) /\ r = Len(H[a])
  BY LenProperties
<1>2. /\ DOMAIN s = 1 .. n /\ DOMAIN H[a] = 1 .. r
  BY <1>1, LenProperties
<1>3. /\ DOMAIN G[a] = 1 .. r + n
      /\ \A l \in 1 .. r + n : G[a][l] = IF l <= r THEN H[a][l] ELSE s[l - r]
  <2>1. /\ H[a] \o s \in Seq(S) /\ Len(H[a] \o s) = r + n
        /\ \A l \in 1 .. r + n :
             (H[a] \o s)[l] = IF l <= r THEN H[a][l] ELSE s[l - r]
    BY <1>1, ConcatProperties
  <2>2. DOMAIN (H[a] \o s) = 1 .. Len(H[a] \o s)
    BY <2>1, LenProperties
  <2> QED
    BY <2>1, <2>2
<1>4. PICK p, k : Only(H, m, p, k)
  BY DEF Once
<1>5. /\ \A l \in 1 .. r : l \in 1 .. r + n /\ l <= r
      /\ \A l \in 1 .. r + n : IF l <= r THEN l \in 1 .. r ELSE l - r \in 1 .. n
  OBVIOUS
<1>6. \A l \in 1 .. n : s[l] # m
  BY <1>2 DEF ToSet
<1>7. \A q \in DOMAIN G : \A l \in DOMAIN G[q] : G[q][l] = m => q = p /\ l = k
  <2>1. \A q \in DOMAIN H : \A l \in DOMAIN H[q] : H[q][l] = m => q = p /\ l = k
    BY <1>4 DEF Only
  <2>2. \A l \in DOMAIN G[a] : G[a][l] = m => l \in 1 .. r /\ H[a][l] = m
    BY <1>3, <1>5, <1>6
  <2>3. \A l \in DOMAIN G[a] : G[a][l] = m => a = p /\ l = k
    BY <1>2, <2>1, <2>2
  <2> QED
    BY <2>1, <2>3
<1>8. p \in DOMAIN G /\ k \in DOMAIN G[p] /\ G[p][k] = m
  <2>1. p \in DOMAIN H /\ k \in DOMAIN H[p] /\ H[p][k] = m
    BY <1>4 DEF Only
  <2> QED
    BY <1>2, <1>3, <1>5, <2>1
<1>9. Only(G, m, p, k)
  BY <1>7, <1>8, Zenon DEF Only
<1> QED
  BY <1>9 DEF Once

\* and those it has are there once if they were nowhere.
Nowhere(H, m) == \A q \in DOMAIN H : \A l \in DOMAIN H[q] : H[q][l] # m

LEMMA OnceMade ==
  ASSUME NEW S, NEW H, NEW G, NEW a, NEW s, Grows(S, H, G, a, s),
         NEW m, Nowhere(H, m),
         NEW j \in DOMAIN s, s[j] = m, \A i \in DOMAIN s : s[i] = m => i = j
  PROVE  Once(G, m)
<1> USE DEF Grows, Differ, Nowhere
<1>1. PICK n \in Nat, r \in Nat : n = Len(s) /\ r = Len(H[a])
  BY LenProperties
<1>2. /\ DOMAIN s = 1 .. n /\ DOMAIN H[a] = 1 .. r
  BY <1>1, LenProperties
<1>3. /\ DOMAIN G[a] = 1 .. r + n
      /\ \A l \in 1 .. r + n : G[a][l] = IF l <= r THEN H[a][l] ELSE s[l - r]
  <2>1. /\ H[a] \o s \in Seq(S) /\ Len(H[a] \o s) = r + n
        /\ \A l \in 1 .. r + n :
             (H[a] \o s)[l] = IF l <= r THEN H[a][l] ELSE s[l - r]
    BY <1>1, ConcatProperties
  <2>2. DOMAIN (H[a] \o s) = 1 .. Len(H[a] \o s)
    BY <2>1, LenProperties
  <2> QED
    BY <2>1, <2>2
<1>4. /\ \A l \in 1 .. n : r + l \in 1 .. r + n /\ ~ (r + l <= r) /\ r + l - r = l
      /\ \A l \in 1 .. r + n : IF l <= r THEN l \in 1 .. r ELSE l - r \in 1 .. n
      /\ \A l \in 1 .. r + n : \A i \in 1 .. n : l - r = i => l = r + i
  OBVIOUS
<1>5. j \in 1 .. n
  BY <1>2
<1>6. \A l \in DOMAIN G[a] : G[a][l] = m => l = r + j
  <2> SUFFICES ASSUME NEW l \in 1 .. r + n, G[a][l] = m
               PROVE  l = r + j
    BY <1>3
  <2>1. ~ (l <= r) /\ s[l - r] = m
    BY <1>2, <1>3, <1>4
  <2>2. l - r = j
    BY <1>2, <1>4, <2>1
  <2> QED
    BY <1>4, <1>5, <2>2
<1>7. \A q \in DOMAIN G : \A l \in DOMAIN G[q] : G[q][l] = m => q = a /\ l = r + j
  BY <1>6
<1>8. a \in DOMAIN G /\ r + j \in DOMAIN G[a] /\ G[a][r + j] = m
  <2>1. r + j \in 1 .. r + n /\ ~ (r + j <= r) /\ r + j - r = j
    BY <1>4, <1>5
  <2>2. G[a][r + j] = s[r + j - r]
    BY <1>3, <2>1
  <2> QED
    BY <1>3, <2>1, <2>2
<1>9. Only(G, m, a, r + j)
  BY <1>7, <1>8, Zenon DEF Only
<1> QED
  BY <1>9 DEF Once

-----------------------------------------------------------------------------
(* The places of the model *)
Where == [p \in Places |-> Held(p)]

ConserveInv ==
  /\ lost \in [Verdicts -> SUBSET DOMAIN made]
  /\ copier.box \notin Boxes => copier.element = <<>>
  /\ \A m \in DOMAIN made : Once(Where, m)

LEMMA Holdings ==
  /\ DOMAIN Where = Places
  /\ /\ <<"recv", NoClient>> \in Places /\ Where[<<"recv", NoClient>>] = recvBox
     /\ <<"send", NoClient>> \in Places /\ Where[<<"send", NoClient>>] = sendBox
     /\ <<"taken", NoClient>> \in Places /\ Where[<<"taken", NoClient>>] = taken
     /\ <<"element", NoClient>> \in Places
     /\ Where[<<"element", NoClient>>] = copier.element
  /\ \A c \in Clients :
       /\ <<"hand", c>> \in Places /\ Where[<<"hand", c>>] = hand[c]
       /\ <<"delivered", c>> \in Places /\ Where[<<"delivered", c>>] = delivered[c]
  /\ \A v \in Verdicts :
       <<"lost", v>> \in Places /\ Where[<<"lost", v>>] = [m \in lost[v] |-> m]
BY DEF Where, Places, Held

LEMMA HoldingsNext ==
  /\ Where'[<<"recv", NoClient>>] = recvBox'
  /\ Where'[<<"send", NoClient>>] = sendBox'
  /\ Where'[<<"taken", NoClient>>] = taken'
  /\ Where'[<<"element", NoClient>>] = copier'.element
  /\ \A c \in Clients : /\ Where'[<<"hand", c>>] = hand'[c]
                        /\ Where'[<<"delivered", c>>] = delivered'[c]
  /\ \A v \in Verdicts : Where'[<<"lost", v>>] = [m \in lost'[v] |-> m]
BY DEF Where, Places, Held

\* A step changes nothing but in the places T.
LEMMA Elsewhere ==
  ASSUME NEW T \in SUBSET Places,
         recvBox' = recvBox \/ <<"recv", NoClient>> \in T,
         sendBox' = sendBox \/ <<"send", NoClient>> \in T,
         taken' = taken \/ <<"taken", NoClient>> \in T,
         copier'.element = copier.element \/ <<"element", NoClient>> \in T,
         \A c \in Clients : hand'[c] = hand[c] \/ <<"hand", c>> \in T,
         \A c \in Clients : delivered'[c] = delivered[c] \/ <<"delivered", c>> \in T,
         \A v \in Verdicts : lost'[v] = lost[v] \/ <<"lost", v>> \in T
  PROVE  Differ(Where, Where', T)
<1>1. DOMAIN Where = Places /\ DOMAIN Where' = Places
  BY DEF Where, Places, Verdicts
<1>2. ASSUME NEW p \in Places \ T
      PROVE  Where'[p] = Where[p]
  <2>1. CASE p \in {"recv", "send", "element", "taken"} \X {NoClient}
    <3>1. p \in {<<"recv", NoClient>>, <<"send", NoClient>>, <<"element", NoClient>>,
                 <<"taken", NoClient>>}
      BY <2>1
    <3> QED
      BY <1>2, <3>1, Holdings, HoldingsNext
  <2>2. CASE p \in {"hand", "delivered"} \X Clients
    <3>1. PICK c \in Clients : p \in {<<"hand", c>>, <<"delivered", c>>}
      BY <2>2
    <3> QED
      BY <1>2, <3>1, Holdings, HoldingsNext
  <2>3. CASE p \in {"lost"} \X Verdicts
    <3>1. PICK v \in Verdicts : p = <<"lost", v>>
      BY <2>3
    <3>2. PICK L : L = lost[v] /\ L = lost'[v]
      BY <1>2, <3>1
    <3>3. Where[p] = [m \in L |-> m]
      BY <3>1, <3>2, Holdings
    <3>4. Where'[p] = [m \in L |-> m]
      BY <3>1, <3>2, HoldingsNext
    <3> QED
      BY <3>3, <3>4
  <2> QED
    BY <1>2, <2>1, <2>2, <2>3 DEF Places
<1> QED
  BY <1>1, <1>2 DEF Differ

\* What is held has been made.
LEMMA HeldIsKnown ==
  ASSUME KnownInv, lost \in [Verdicts -> SUBSET DOMAIN made]
  PROVE  \A p \in Places : \A l \in DOMAIN Where[p] : Where[p][l] \in Known
<1>1. \A s \in Seq(Known) : \A l \in DOMAIN s : s[l] \in Known
  OBVIOUS
<1> SUFFICES ASSUME NEW p \in Places
             PROVE  \A l \in DOMAIN Where[p] : Where[p][l] \in Known
  OBVIOUS
<1>2. CASE p \in {"recv", "send", "element", "taken"} \X {NoClient}
  <2>1. p \in {<<"recv", NoClient>>, <<"send", NoClient>>, <<"element", NoClient>>,
               <<"taken", NoClient>>}
    BY <1>2
  <2>2. Where[p] \in {recvBox, sendBox, copier.element, taken}
    BY <2>1, Holdings
  <2>3. Where[p] \in Seq(Known)
    BY <2>2 DEF KnownInv
  <2> QED
    BY <1>1, <2>3, Zenon
<1>3. CASE p \in {"hand", "delivered"} \X Clients
  <2>1. PICK c \in Clients : p \in {<<"hand", c>>, <<"delivered", c>>}
    BY <1>3
  <2>2. Where[p] \in {hand[c], delivered[c]}
    BY <2>1, Holdings
  <2>3. Where[p] \in Seq(Known)
    BY <2>2 DEF KnownInv
  <2> QED
    BY <1>1, <2>3, Zenon
<1>4. CASE p \in {"lost"} \X Verdicts
  <2>1. PICK v \in Verdicts : p = <<"lost", v>>
    BY <1>4
  <2>2. Where[p] = [m \in lost[v] |-> m] /\ lost[v] \subseteq Known
    BY <2>1, Holdings DEF Known
  <2> QED
    BY <2>2
<1> QED
  BY <1>2, <1>3, <1>4 DEF Places

LEMMA InitConserveInv == Init => ConserveInv
<1> SUFFICES ASSUME Init PROVE ConserveInv
  OBVIOUS
<1>1. /\ lost = [v \in Verdicts |-> {}] /\ made = <<>> /\ copier.element = <<>>
  BY DEF Init, NotCopying
<1>2. DOMAIN made = {}
  BY <1>1
<1> QED
  BY <1>1, <1>2 DEF ConserveInv

\* In one place, and so in one spot.
LEMMA ConservedHolds == MailboxInv /\ ConserveInv => Conserved
<1> SUFFICES ASSUME MailboxInv, ConserveInv PROVE Conserved
  OBVIOUS
<1>1. ASSUME NEW m \in DOMAIN made
      PROVE  Cardinality(Spots(m)) = 1
  <2>1. PICK p, k : Only(Where, m, p, k)
    BY DEF ConserveInv, Once
  <2>2. \A q \in Places : Where[q] = Held(q)
    BY DEF Where
  <2>3. /\ p \in Places /\ k \in DOMAIN Held(p) /\ Held(p)[k] = m
        /\ \A q \in Places : \A l \in DOMAIN Held(q) : Held(q)[l] = m => q = p /\ l = k
    BY <2>1, <2>2, Holdings DEF Only
  <2>4. \A x : x \in Spots(m) <=> \E q \in Places : \E l \in DOMAIN Held(q) :
          Held(q)[l] = m /\ x = <<q, l>>
    BY DEF Spots
  <2>5. Spots(m) = {<<p, k>>}
    BY <2>3, <2>4, Zenon
  <2> QED
    BY <2>5, FS_Singleton
<1>2. /\ copier.box \in {"none", "recv", "send", "aborted"}
      /\ at \in [Clients -> {"idle", "check", "call", "lock", "count",
                             "move", "reply", "aborted"}]
  BY DEF MailboxInv, MailboxType, CopierType, RequestsType
<1> QED
  BY <1>1, <1>2 DEF Conserved

\* A step that makes no message.
LEMMA StepConserves ==
  ASSUME ConserveInv, made' = made, lost' \in [Verdicts -> SUBSET DOMAIN made],
         copier'.box \notin Boxes => copier'.element = <<>>,
         \A m \in DOMAIN made : Once(Where, m) => Once(Where', m)
  PROVE  ConserveInv'
<1>1. \A m \in DOMAIN made' : Once(Where', m)
  BY DEF ConserveInv
<1> QED
  BY <1>1 DEF ConserveInv

\* A step that moves none.
LEMMA QuietConserves ==
  ASSUME ConserveInv,
         UNCHANGED <<made, lost, recvBox, sendBox, copier, taken, hand, delivered>>
  PROVE  ConserveInv'
<1>1. Differ(Where, Where', {})
  BY Elsewhere
<1>2. Where' = Where
  BY <1>1 DEF Differ, Where
<1> QED
  BY <1>2, StepConserves DEF ConserveInv

-----------------------------------------------------------------------------
(* The steps that make messages *)

\* New messages go behind what place a has.
LEMMA NewConserved ==
  ASSUME KnownInv, ConserveInv, NEW n \in Nat, NEW s,
         s = [k \in 1 .. n |-> Len(made) + k],
         made' \in Seq(Clients \cup {NoClient}), Len(made') = Len(made) + n,
         Len(made') <= MaxMessages, UNCHANGED <<copier, lost>>,
         NEW a, Differ(Where, Where', {a}),
         Where[a] \in Seq(Known), Where'[a] = Where[a] \o s
  PROVE  ConserveInv'
<1>1. /\ DOMAIN made = 1 .. Len(made) /\ DOMAIN made' = 1 .. Len(made')
      /\ Len(made) \in Nat /\ Len(made') \in Nat /\ MaxMessages \in Nat
  BY LenProperties, MailboxAssumption DEF KnownInv
<1>2. PICK e \in Nat, f \in Nat : e = Len(made) /\ f = Len(made')
  BY <1>1
<1>3. /\ \A k \in 1 .. n : e + k \in 1 .. f /\ e + k \notin 1 .. e
      /\ \A m \in 1 .. f : m \in 1 .. e \/ (m - e \in 1 .. n /\ e + (m - e) = m)
      /\ \A i, j \in 1 .. n : e + i = e + j => i = j
      /\ 1 .. e \subseteq 1 .. f
  <2>1. f = e + n
    BY <1>2
  <2> QED
    BY <2>1
<1>4. /\ DOMAIN s = 1 .. n /\ \A k \in 1 .. n : s[k] = e + k
  BY <1>2
<1>5. s \in Seq(Known \cup 1 .. f) /\ Where[a] \in Seq(Known \cup 1 .. f)
  <2>1. s \in Seq(Known \cup 1 .. f)
    BY <1>2, <1>3, IsASeq
  <2>2. Where[a] \in Seq(Known \cup 1 .. f)
    BY SeqMonotonic, Zenon
  <2> QED
    BY <2>1, <2>2
<1>6. Grows(Known \cup 1 .. f, Where, Where', a, s) /\ DOMAIN Where = Places
  BY <1>5, Holdings DEF Grows
<1>7. ASSUME NEW m \in 1 .. e
      PROVE  Once(Where', m)
  <2>1. m \notin ToSet(s)
    BY <1>3, <1>4 DEF ToSet
  <2>2. Once(Where, m)
    BY <1>1, <1>2 DEF ConserveInv
  <2> QED
    BY <1>6, <2>1, <2>2, OnceKept
<1>8. ASSUME NEW m \in 1 .. f, m \notin 1 .. e
      PROVE  Once(Where', m)
  <2>1. m - e \in DOMAIN s /\ s[m - e] = m
    BY <1>3, <1>4, <1>8
  <2>2. \A i \in DOMAIN s : s[i] = m => i = m - e
    BY <1>3, <1>4, <2>1
  <2>3. m \notin Known
    <3>1. m # NULL
      BY <1>1, <1>2, MailboxAssumption
    <3> QED
      BY <1>1, <1>2, <1>8, <3>1 DEF Known
  <2>4. Nowhere(Where, m)
    BY <1>6, <2>3, HeldIsKnown DEF ConserveInv, Nowhere
  <2> QED
    BY <1>6, <2>1, <2>2, <2>4, OnceMade
<1>9. \A m \in DOMAIN made' : Once(Where', m)
  BY <1>1, <1>2, <1>7, <1>8
<1>10. lost' \in [Verdicts -> SUBSET DOMAIN made']
  BY <1>1, <1>2, <1>3 DEF ConserveInv
<1> QED
  BY <1>9, <1>10 DEF ConserveInv

LEMMA AppPushConserves ==
  ASSUME MailboxInv, KnownInv, ConserveInv, AppPush
  PROVE  ConserveInv'
<1> DEFINE a == <<"send", NoClient>>
           s == [k \in 1 .. 1 |-> Len(made) + k]
<1>1. /\ made' = Append(made, NoClient) /\ sendBox' = Append(sendBox, Len(made) + 1)
      /\ Len(made) < MaxMessages
      /\ UNCHANGED <<recvBox, copier, taken, hand, delivered, lost>>
  BY DEF AppPush, application, requests
<1>2. /\ made \in Seq(Clients \cup {NoClient}) /\ Len(made) \in Nat
      /\ MaxMessages \in Nat
  BY LenProperties, MailboxAssumption DEF KnownInv
<1>3. /\ made' \in Seq(Clients \cup {NoClient}) /\ Len(made') = Len(made) + 1
      /\ Len(made') <= MaxMessages
  BY <1>1, <1>2, AppendProperties
<1>4. a \in Places /\ Where[a] = sendBox /\ Where'[a] = sendBox'
  BY Holdings, HoldingsNext
<1>5. s = <<Len(made) + 1>>
  OBVIOUS
<1>6. Where'[a] = Where[a] \o s /\ Where[a] \in Seq(Known)
  <2>1. sendBox \in Seq(Known \cup {Len(made) + 1})
    BY SeqMonotonic DEF KnownInv
  <2>2. Append(sendBox, Len(made) + 1) = sendBox \o <<Len(made) + 1>>
    BY <2>1, AppendIsConcat
  <2> QED
    BY <1>1, <1>4, <1>5, <2>2 DEF KnownInv
<1>7. Differ(Where, Where', {a})
  BY <1>1, <1>4, Elsewhere
<1> HIDE DEF a
<1> QED
  BY <1>1, <1>3, <1>4, <1>6, <1>7, NewConserved

LEMMA PutConserves ==
  ASSUME MailboxInv, KnownInv, HandsInv, ConserveInv, NEW c \in Clients, Put(c)
  PROVE  ConserveInv'
<1> DEFINE a == <<"hand", c>>
<1>1. PICK n \in 1 .. MaxBatch :
        /\ Len(made) + n <= MaxMessages
        /\ hand' = [hand EXCEPT ![c] = [k \in 1 .. n |-> Len(made) + k]]
        /\ made' = made \o [k \in 1 .. n |-> c]
  BY DEF Put
<1>2. /\ made \in Seq(Clients \cup {NoClient}) /\ Len(made) \in Nat
      /\ MaxMessages \in Nat /\ n \in Nat
  BY LenProperties, MailboxAssumption DEF KnownInv
<1>3. /\ made' \in Seq(Clients \cup {NoClient}) /\ Len(made') = Len(made) + n
      /\ Len(made') <= MaxMessages
  <2>1. [k \in 1 .. n |-> c] \in Seq(Clients \cup {NoClient})
        /\ Len([k \in 1 .. n |-> c]) = n
    BY <1>2, IsASeq
  <2>2. made' \in Seq(Clients \cup {NoClient}) /\ Len(made') = Len(made) + n
    BY <1>1, <1>2, <2>1, ConcatProperties
  <2> QED
    BY <1>1, <2>2
<1>4. PICK s : s = [k \in 1 .. n |-> Len(made) + k]
  OBVIOUS
<1>5. /\ hand[c] = <<>> /\ hand'[c] = s
      /\ \A d \in Clients \ {c} : hand'[d] = hand[d]
      /\ UNCHANGED <<recvBox, sendBox, copier, taken, delivered, lost>>
  BY <1>1, <1>4 DEF Put, application, HandsInv, KnownInv
<1>6. a \in Places /\ Where[a] = hand[c] /\ Where'[a] = hand'[c]
  BY Holdings, HoldingsNext
<1>7. Where'[a] = Where[a] \o s /\ Where[a] \in Seq(Known)
  <2>1. s \in Seq(Nat)
    BY <1>2, <1>4, IsASeq
  <2>2. <<>> \o s = s
    BY <2>1, ConcatEmptySeq
  <2> QED
    BY <1>5, <1>6, <2>2 DEF KnownInv
<1>8. Differ(Where, Where', {a})
  BY <1>5, <1>6, Elsewhere
<1> HIDE DEF a
<1> QED
  BY <1>2, <1>3, <1>4, <1>5, <1>6, <1>7, <1>8, NewConserved

-----------------------------------------------------------------------------
(* The steps that move messages *)

LEMMA AppPopConserves ==
  ASSUME KnownInv, ConserveInv, AppPop
  PROVE  ConserveInv'
<1> DEFINE a == <<"recv", NoClient>>
           b == <<"taken", NoClient>>
<1>1. /\ recvBox # <<>> /\ taken' = Append(taken, Head(recvBox))
      /\ recvBox' = Tail(recvBox)
      /\ UNCHANGED <<made, lost, hand, delivered, sendBox, copier>>
  BY DEF AppPop, requests
<1>2. /\ {a, b} \subseteq Places /\ Where[a] = recvBox /\ Where[b] = taken
      /\ Where'[a] = recvBox' /\ Where'[b] = taken'
  BY Holdings, HoldingsNext
<1>3. Differ(Where, Where', {a, b}) /\ a # b
  BY <1>1, <1>2, Elsewhere
<1>4. Moves(Known, Where, Where', a, b)
  BY <1>1, <1>2, <1>3 DEF Moves, KnownInv
<1>5. \A m : Once(Where, m) => Once(Where', m)
  BY <1>4, OnceMoved
<1> QED
  BY <1>1, <1>5, StepConserves DEF ConserveInv

LEMMA CopyPopConserves ==
  ASSUME KnownInv, ConserveInv, CopierType, NEW b \in Boxes, CopyPop(b)
  PROVE  ConserveInv'
<1>1. /\ copier.element = <<>> /\ UNCHANGED <<made, lost, taken, hand, delivered>>
  BY DEF CopyPop
<1>2. CASE Box(b) = <<>>
  <2>1. copier'.element = <<>> /\ UNCHANGED <<recvBox, sendBox>>
    BY <1>1, <1>2 DEF CopyPop, CopierType
  <2>2. Differ(Where, Where', {})
    BY <1>1, <2>1, Elsewhere
  <2>3. Where' = Where
    BY <2>2 DEF Differ, Where
  <2> QED
    BY <1>1, <2>1, <2>3, StepConserves DEF ConserveInv
<1>3. CASE Box(b) # <<>>
  <2> DEFINE p == <<b, NoClient>>
             q == <<"element", NoClient>>
  <2>1. /\ Box(b)' = Tail(Box(b)) /\ copier'.element = <<Head(Box(b))>>
        /\ copier'.box = b
        /\ b # "recv" => recvBox' = recvBox
        /\ b # "send" => sendBox' = sendBox
    BY <1>3 DEF CopyPop, BoxBecomes, Box, Boxes, CopierType
  <2>2. /\ {p, q} \subseteq Places /\ Where[p] = Box(b) /\ Where[q] = copier.element
        /\ Where'[p] = Box(b)' /\ Where'[q] = copier'.element
    BY Holdings, HoldingsNext DEF Box, Boxes
  <2>3. Differ(Where, Where', {p, q}) /\ p # q
    BY <1>1, <2>1, <2>2, Elsewhere DEF Boxes
  <2>4. copier'.element = Append(copier.element, Head(Box(b)))
    BY <1>1, <2>1
  <2>5. Moves(Known, Where, Where', p, q)
    BY <1>3, <2>1, <2>2, <2>3, <2>4 DEF Moves, KnownInv, Box
  <2>6. \A m : Once(Where, m) => Once(Where', m)
    BY <2>5, OnceMoved
  <2> QED
    BY <1>1, <2>1, <2>6, StepConserves DEF ConserveInv
<1> QED
  BY <1>2, <1>3

LEMMA CopyPushConserves ==
  ASSUME KnownInv, ConserveInv, CopierType, NEW b \in Boxes, CopyPush(b)
  PROVE  ConserveInv'
<1> DEFINE p == <<"element", NoClient>>
           q == <<b, NoClient>>
<1>1. /\ Box(b)' = Box(b) \o copier.element /\ copier'.element = <<>>
      /\ b # "recv" => recvBox' = recvBox
      /\ b # "send" => sendBox' = sendBox
      /\ UNCHANGED <<made, lost, taken, hand, delivered>>
  BY DEF CopyPush, BoxBecomes, Box, Boxes, CopierType, requests
<1>2. /\ {p, q} \subseteq Places /\ Where[p] = copier.element /\ Where[q] = Box(b)
      /\ Where'[p] = copier'.element /\ Where'[q] = Box(b)'
  BY Holdings, HoldingsNext DEF Box, Boxes
<1>3. Differ(Where, Where', {p, q}) /\ p # q
  BY <1>1, <1>2, Elsewhere DEF Boxes
<1>4. Joins(Known, Where, Where', p, q)
  BY <1>1, <1>2, <1>3 DEF Joins, KnownInv, Box
<1>5. \A m : Once(Where, m) => Once(Where', m)
  BY <1>4, OnceJoined
<1> QED
  BY <1>1, <1>5, StepConserves DEF ConserveInv

\* The copier has no message when it begins, and none when it ends.
LEMMA CopyEndsConserve ==
  ASSUME CopierType, ConserveInv, CopyEnd \/ \E b \in Boxes : CopyCount(b)
  PROVE  ConserveInv'
<1>1. /\ UNCHANGED <<made, lost, recvBox, sendBox, taken, hand, delivered>>
      /\ copier'.element = <<>>
      /\ copier.box = "none" \/ copier.left = 0
  <2>1. CASE CopyEnd
    BY <2>1 DEF CopyEnd, NotCopying, requests
  <2>2. ASSUME NEW b \in Boxes, CopyCount(b)
        PROVE  /\ UNCHANGED <<made, lost, recvBox, sendBox, taken, hand, delivered>>
               /\ copier'.element = <<>> /\ copier.box = "none"
    BY <2>2 DEF CopyCount, NotCopying, requests
  <2> QED
    BY <2>1, <2>2
<1>2. copier.element = <<>>
  <2>1. CASE copier.box = "none"
    BY <2>1 DEF ConserveInv, Boxes
  <2>2. CASE copier.left = 0
    <3>1. Len(copier.element) <= 0 /\ copier.element \in Seq(Item)
      BY <2>2 DEF CopierType
    <3>2. Len(copier.element) \in Nat
      BY <3>1, LenProperties
    <3> QED
      BY <3>1, <3>2, EmptySeq
  <2> QED
    BY <1>1, <2>1, <2>2
<1>3. Differ(Where, Where', {})
  BY <1>1, <1>2, Elsewhere
<1>4. Where' = Where
  BY <1>3 DEF Differ, Where
<1> QED
  BY <1>1, <1>4, StepConserves DEF ConserveInv

LEMMA MovePutConserves ==
  ASSUME MailboxInv, KnownInv, ConserveInv, NEW c \in Clients, MovePut(c)
  PROVE  ConserveInv'
<1> DEFINE a == <<"hand", c>>
           b == <<"recv", NoClient>>
<1>1. /\ recvBox' = Append(recvBox, Head(hand[c])) /\ hand' = [hand EXCEPT ![c] = Tail(@)]
      /\ at[c] = "move" /\ asks[c] = "recv" /\ left[c] > 0
      /\ UNCHANGED <<made, lost, delivered, taken, sendBox, copier>>
  BY DEF MovePut, application
<1>2. hand[c] # <<>>
  <2>1. left[c] <= Len(hand[c]) /\ left[c] \in Nat
    BY <1>1 DEF MailboxInv, HandCovers, MailboxType, RequestsType
  <2>2. Len(hand[c]) # 0
    BY <1>1, <2>1, LenProperties DEF KnownInv
  <2> QED
    BY <2>2, EmptySeq
<1>3. hand'[c] = Tail(hand[c]) /\ \A d \in Clients \ {c} : hand'[d] = hand[d]
  BY <1>1 DEF KnownInv
<1>4. /\ {a, b} \subseteq Places /\ Where[a] = hand[c] /\ Where[b] = recvBox
      /\ Where'[a] = hand'[c] /\ Where'[b] = recvBox'
  BY Holdings, HoldingsNext
<1>5. Differ(Where, Where', {a, b}) /\ a # b
  BY <1>1, <1>3, <1>4, Elsewhere
<1>6. Moves(Known, Where, Where', a, b)
  BY <1>1, <1>2, <1>3, <1>4, <1>5 DEF Moves, KnownInv
<1>7. \A m : Once(Where, m) => Once(Where', m)
  BY <1>6, OnceMoved
<1> QED
  BY <1>1, <1>7, StepConserves DEF ConserveInv

LEMMA MoveGetConserves ==
  ASSUME KnownInv, ConserveInv, NEW c \in Clients, MoveGet(c)
  PROVE  ConserveInv'
<1> DEFINE a == <<"send", NoClient>>
           b == <<"hand", c>>
<1>1. UNCHANGED <<made, lost, delivered, taken, recvBox, copier>>
  BY DEF MoveGet, application
<1>2. /\ {a, b} \subseteq Places /\ Where[a] = sendBox /\ Where[b] = hand[c]
      /\ Where'[a] = sendBox' /\ Where'[b] = hand'[c]
  BY Holdings, HoldingsNext
<1>3. CASE sendBox = <<>>
  <2>1. /\ hand'[c] = Append(hand[c], NULL) /\ sendBox' = sendBox
        /\ \A d \in Clients \ {c} : hand'[d] = hand[d]
    BY <1>3 DEF MoveGet, KnownInv
  <2>2. Differ(Where, Where', {b})
    BY <1>1, <1>2, <2>1, Elsewhere
  <2>3. Append(hand[c], NULL) = hand[c] \o <<NULL>> /\ <<NULL>> \in Seq(Known)
    BY AppendIsConcat DEF KnownInv, Known
  <2>4. Grows(Known, Where, Where', b, <<NULL>>)
    BY <1>2, <2>1, <2>2, <2>3 DEF Grows, KnownInv
  <2>5. \A m \in DOMAIN made : m \notin ToSet(<<NULL>>)
    <3>1. DOMAIN made = 1 .. Len(made) /\ Len(made) \in Nat /\ Len(made) <= MaxMessages
      BY LenProperties DEF KnownInv
    <3>2. NULL \notin DOMAIN made
      BY <3>1, MailboxAssumption
    <3> QED
      BY <3>2 DEF ToSet
  <2>6. \A m \in DOMAIN made : Once(Where, m) => Once(Where', m)
    BY <2>4, <2>5, OnceKept
  <2> QED
    BY <1>1, <2>6, StepConserves DEF ConserveInv
<1>4. CASE sendBox # <<>>
  <2>1. /\ hand'[c] = Append(hand[c], Head(sendBox)) /\ sendBox' = Tail(sendBox)
        /\ \A d \in Clients \ {c} : hand'[d] = hand[d]
    BY <1>4 DEF MoveGet, KnownInv
  <2>2. Differ(Where, Where', {a, b}) /\ a # b
    BY <1>1, <1>2, <2>1, Elsewhere
  <2>3. Moves(Known, Where, Where', a, b)
    BY <1>2, <1>4, <2>1, <2>2 DEF Moves, KnownInv
  <2>4. \A m : Once(Where, m) => Once(Where', m)
    BY <2>3, OnceMoved
  <2> QED
    BY <1>1, <2>4, StepConserves DEF ConserveInv
<1> QED
  BY <1>3, <1>4

LEMMA FinishConserves ==
  ASSUME KnownInv, ConserveInv, NEW c \in Clients, NEW v \in Verdicts,
         Finish(c, v, hand[c]),
         UNCHANGED <<made, recvBox, sendBox, copier, taken, delivered>>
  PROVE  ConserveInv'
<1> DEFINE a == <<"hand", c>>
           b == <<"lost", v>>
           L == lost[v]
<1>1. /\ hand'[c] = <<>> /\ \A d \in Clients \ {c} : hand'[d] = hand[d]
      /\ lost' = [lost EXCEPT ![v] = @ \cup (ToSet(hand[c]) \ {NULL})]
  BY DEF Finish, Lose, KnownInv
<1>2. lost \in [Verdicts -> SUBSET DOMAIN made]
  BY DEF ConserveInv
<1>3. /\ lost'[v] = L \cup (ToSet(hand[c]) \ {NULL})
      /\ \A w \in Verdicts \ {v} : lost'[w] = lost[w]
  BY <1>1, <1>2
<1>4. ToSet(hand[c]) \ {NULL} \subseteq DOMAIN made
  <2>1. ToSet(hand[c]) \subseteq Known
    BY DEF KnownInv, ToSet
  <2> QED
    BY <2>1 DEF Known
<1>5. lost' \in [Verdicts -> SUBSET DOMAIN made]
  BY <1>1, <1>2, <1>3, <1>4
<1>6. /\ {a, b} \subseteq Places /\ Where[a] = hand[c] /\ Where[b] = [m \in L |-> m]
      /\ Where'[a] = <<>>
  BY <1>1, Holdings, HoldingsNext
<1>7. Where'[b] = [m \in L \cup (ToSet(Where[a]) \ {NULL}) |-> m]
  <2>1. PICK D : D = lost'[v] /\ D = L \cup (ToSet(Where[a]) \ {NULL})
    BY <1>3, <1>6
  <2>2. Where'[b] = [m \in D |-> m]
    BY <2>1, HoldingsNext
  <2> QED
    BY <2>1, <2>2
<1>8. Differ(Where, Where', {a, b}) /\ a # b
  BY <1>1, <1>3, <1>6, Elsewhere
<1>9. Drops(Where, Where', a, b, L, NULL)
  BY <1>6, <1>7, <1>8, Zenon DEF Drops
<1>10. \A m \in DOMAIN made : m # NULL
  <2>1. DOMAIN made = 1 .. Len(made) /\ Len(made) \in Nat /\ Len(made) <= MaxMessages
    BY LenProperties DEF KnownInv
  <2> QED
    BY <2>1, MailboxAssumption
<1>11. \A m \in DOMAIN made : Once(Where, m) => Once(Where', m)
  BY <1>9, <1>10, OnceDropped
<1> QED
  BY <1>5, <1>11, StepConserves DEF ConserveInv

\* A reply that brings what was asked for.
LEMMA DeliverConserves ==
  ASSUME KnownInv, ConserveInv, NEW c \in Clients, Deliver(c), asks[c] = "send"
  PROVE  ConserveInv'
<1> DEFINE a == <<"hand", c>>
           b == <<"delivered", c>>
<1>1. /\ delivered' = [delivered EXCEPT ![c] = @ \o hand[c]]
      /\ hand' = [hand EXCEPT ![c] = <<>>]
      /\ lost' = [lost EXCEPT !["ok"] = @ \cup (ToSet(<<>>) \ {NULL})]
      /\ UNCHANGED <<made, recvBox, sendBox, copier, taken>>
  BY DEF Deliver, Finish, Lose, application
<1>2. lost' = lost
  <2>1. ToSet(<<>>) = {}
    BY DEF ToSet
  <2> QED
    BY <1>1, <2>1 DEF ConserveInv, Verdicts
<1>3. /\ delivered'[c] = delivered[c] \o hand[c] /\ hand'[c] = <<>>
      /\ \A d \in Clients \ {c} : delivered'[d] = delivered[d] /\ hand'[d] = hand[d]
  BY <1>1 DEF KnownInv
<1>4. /\ {a, b} \subseteq Places /\ Where[a] = hand[c] /\ Where[b] = delivered[c]
      /\ Where'[a] = hand'[c] /\ Where'[b] = delivered'[c]
  BY Holdings, HoldingsNext
<1>5. Differ(Where, Where', {a, b}) /\ a # b
  BY <1>1, <1>2, <1>3, <1>4, Elsewhere
<1>6. Joins(Known, Where, Where', a, b)
  BY <1>3, <1>4, <1>5 DEF Joins, KnownInv
<1>7. \A m : Once(Where, m) => Once(Where', m)
  BY <1>6, OnceJoined
<1> QED
  BY <1>1, <1>2, <1>7, StepConserves DEF ConserveInv

LEMMA NextConserves == MailboxInv /\ OrderInv /\ ConserveInv /\ [Next]_vars => ConserveInv'
<1> SUFFICES ASSUME MailboxInv, OrderInv, ConserveInv, [Next]_vars
             PROVE  ConserveInv'
  OBVIOUS
<1>1. KnownInv /\ HandsInv /\ CopierType
  BY DEF OrderInv, MailboxInv, MailboxType
<1>2. CASE Application
  <2>1. CASE AppPush
    BY <1>1, <2>1, AppPushConserves
  <2>2. CASE AppPop
    BY <1>1, <2>2, AppPopConserves
  <2>3. CASE CopyEnd \/ \E b \in Boxes : CopyCount(b)
    BY <1>1, <2>3, CopyEndsConserve
  <2>4. ASSUME NEW b \in Boxes, CopyPop(b) \/ CopyPush(b)
        PROVE  ConserveInv'
    BY <1>1, <2>4, CopyPopConserves, CopyPushConserves
  <2> QED
    BY <1>2, <2>1, <2>2, <2>3, <2>4 DEF Application, Boxes
<1>3. ASSUME NEW c \in Clients,
             \/ CheckProxy(c) \/ CallTest(c) \/ CallFails(c) \/ ReplyLost(c)
             \/ Deliver(c) /\ asks[c] # "send"
      PROVE  ConserveInv'
  <2>1. UNCHANGED <<made, recvBox, sendBox, copier, taken, delivered>>
    BY <1>3 DEF CheckProxy, CallTest, CallFails, ReplyLost, Deliver, application
  <2>2. \/ UNCHANGED <<hand, lost>>
        \/ \E v \in Verdicts : Finish(c, v, hand[c])
    BY <1>3 DEF CheckProxy, CallTest, CallFails, ReplyLost, Deliver, Verdicts
  <2> QED
    BY <1>1, <2>1, <2>2, FinishConserves, QuietConserves
<1>4. ASSUME NEW c \in Clients,
             \/ Put(c) \/ MovePut(c) \/ MoveGet(c)
             \/ Deliver(c) /\ asks[c] = "send"
      PROVE  ConserveInv'
  BY <1>1, <1>4, PutConserves, DeliverConserves, MovePutConserves, MoveGetConserves
<1>5. CASE \/ ProxyStops \/ UNCHANGED vars
           \/ \E c \in Clients : Get(c) \/ CallProxy(c) \/ Count(c) \/ Moved(c)
  BY <1>5, QuietConserves DEF ProxyStops, Get, CallProxy, Count, Moved, vars,
     application, requests
<1> QED
  BY <1>2, <1>3, <1>4, <1>5 DEF Next, Handling

-----------------------------------------------------------------------------
(* What drpc_ok promises *)

\* A request that brings messages has all of them either in the mailbox or in
\* hand for the rounds its loop still has; one that is answered has none, if it
\* did not find the proxy client stopped.
BringsAll(c) ==
  asks[c] = "recv" =>
    /\ at[c] = "move" => left[c] = Len(hand[c])
    /\ at[c] = "reply" => ToSet(hand[c]) \subseteq gaveUp

OkInv == (\A c \in Clients : BringsAll(c)) /\ OkUnlessStopped

LEMMA InitOkInv == Init => OkInv
BY DEF Init, OkInv, BringsAll, OkUnlessStopped, Verdicts

\* It is enough to look at the request that takes the step.
LEMMA OkStep ==
  ASSUME OkInv, NEW c \in Clients, BringsAll(c)', gaveUp \subseteq gaveUp',
         \A d \in Clients \ {c} : /\ at'[d] = at[d] /\ asks'[d] = asks[d]
                                  /\ left'[d] = left[d] /\ hand'[d] = hand[d],
         lost'["ok"] \subseteq gaveUp'
  PROVE  OkInv'
<1>1. ASSUME NEW d \in Clients \ {c}
      PROVE  BringsAll(d)'
  BY DEF OkInv, BringsAll
<1> QED
  BY <1>1 DEF OkInv, OkUnlessStopped

\* A request that ends has nothing left that may be lost unnoticed.
LEMMA FinishOk ==
  ASSUME MailboxInv, ConserveInv, OkInv, NEW c \in Clients, NEW v \in Verdicts,
         NEW gone, Finish(c, v, gone), v = "ok" => ToSet(gone) \subseteq gaveUp,
         UNCHANGED <<asks, left, gaveUp>>
  PROVE  OkInv'
<1>1. /\ at'[c] = "idle"
      /\ \A d \in Clients \ {c} : at'[d] = at[d] /\ hand'[d] = hand[d]
  BY DEF Finish, MailboxInv, MailboxType, RequestsType
<1>2. lost'["ok"] \subseteq lost["ok"] \cup (IF v = "ok" THEN ToSet(gone) ELSE {})
  BY DEF Finish, Lose, ConserveInv, Verdicts
<1>3. lost'["ok"] \subseteq gaveUp
  BY <1>2 DEF OkInv, OkUnlessStopped
<1> QED
  BY <1>1, <1>3, OkStep DEF BringsAll

\* A request that goes on loses nothing.
LEMMA GoOnOk ==
  ASSUME MailboxInv, OkInv, NEW c \in Clients, NEW to, at' = [at EXCEPT ![c] = to],
         BringsAll(c)', gaveUp \subseteq gaveUp', UNCHANGED <<asks, hand, lost>>,
         \A d \in Clients \ {c} : left'[d] = left[d]
  PROVE  OkInv'
<1>1. \A d \in Clients \ {c} : at'[d] = at[d]
  BY DEF MailboxInv, MailboxType, RequestsType
<1> QED
  BY <1>1, OkStep DEF OkInv, OkUnlessStopped

LEMMA ProxyStepsOk ==
  ASSUME MailboxInv, ConserveInv, OkInv, NEW c \in Clients,
         CheckProxy(c) \/ CallTest(c) \/ CallProxy(c) \/ CallFails(c)
  PROVE  OkInv'
<1> USE DEF MailboxInv, MailboxType, RequestsType
<1>1. CASE CheckProxy(c)
  <2>1. CASE at' = [at EXCEPT ![c] = "call"] /\ UNCHANGED <<hand, lost>>
    BY <1>1, <2>1, GoOnOk DEF CheckProxy, BringsAll
  <2>2. CASE Finish(c, "failed", hand[c])
    BY <1>1, <2>2, FinishOk DEF CheckProxy, Verdicts
  <2> QED
    BY <1>1, <2>1, <2>2 DEF CheckProxy
<1>2. CASE CallTest(c)
  <2>1. CASE at' = [at EXCEPT ![c] = "lock"] /\ UNCHANGED gaveUp
    BY <1>2, <2>1, GoOnOk DEF CallTest, BringsAll
  <2>2. CASE at' = [at EXCEPT ![c] = "reply"] /\ gaveUp' = gaveUp \cup ToSet(hand[c])
    BY <1>2, <2>2, GoOnOk DEF CallTest, BringsAll
  <2> QED
    BY <1>2, <2>1, <2>2 DEF CallTest
<1>3. CASE CallProxy(c)
  BY <1>3, GoOnOk DEF CallProxy, BringsAll
<1>4. CASE CallFails(c)
  BY <1>4, FinishOk DEF CallFails, Verdicts, proxy
<1> QED
  BY <1>1, <1>2, <1>3, <1>4

\* The loop has a round for each message, and ends when none is in hand.
LEMMA LoopOk ==
  ASSUME MailboxInv, OkInv, NEW c \in Clients,
         Count(c) \/ MovePut(c) \/ MoveGet(c) \/ Moved(c)
  PROVE  OkInv'
<1>1. CASE Count(c)
  <2>1. BringsAll(c)' /\ \A d \in Clients \ {c} : left'[d] = left[d]
    BY <1>1 DEF Count, BringsAll, MailboxInv, MailboxType, RequestsType
  <2> QED
    BY <1>1, <2>1, GoOnOk DEF Count, proxy
<1>2. CASE MovePut(c)
  <2>1. /\ hand[c] \in Seq(Item) /\ left[c] \in Nat
        /\ left[c] = Len(hand[c]) /\ left[c] > 0
    BY <1>2 DEF MovePut, OkInv, BringsAll, MailboxInv, MailboxType, RequestsType
  <2>2. Len(Tail(hand[c])) = Len(hand[c]) - 1
    BY <2>1, EmptySeq, HeadTailProperties
  <2>3. /\ at'[c] = "move" /\ left'[c] = left[c] - 1 /\ hand'[c] = Tail(hand[c])
        /\ \A d \in Clients \ {c} : left'[d] = left[d] /\ hand'[d] = hand[d]
    BY <1>2 DEF MovePut, MailboxInv, MailboxType, RequestsType
  <2>4. BringsAll(c)'
    BY <2>1, <2>2, <2>3 DEF BringsAll
  <2> QED
    BY <1>2, <2>3, <2>4, OkStep DEF MovePut, proxy, OkInv, OkUnlessStopped
<1>3. CASE MoveGet(c)
  <2>1. \A d \in Clients \ {c} : left'[d] = left[d] /\ hand'[d] = hand[d]
    BY <1>3 DEF MoveGet, MailboxInv, MailboxType, RequestsType
  <2>2. BringsAll(c)'
    BY <1>3 DEF MoveGet, BringsAll
  <2> QED
    BY <1>3, <2>1, <2>2, OkStep DEF MoveGet, proxy, OkInv, OkUnlessStopped
<1>4. CASE Moved(c)
  <2>1. hand[c] \in Seq(Item)
    BY DEF MailboxInv, MailboxType, RequestsType
  <2>2. asks[c] = "recv" => ToSet(hand[c]) = {}
    <3> SUFFICES ASSUME asks[c] = "recv" PROVE ToSet(hand[c]) = {}
      OBVIOUS
    <3>1. Len(hand[c]) = 0
      BY <1>4 DEF Moved, OkInv, BringsAll
    <3> QED
      BY <2>1, <3>1 DEF ToSet
  <2>3. at'[c] = "reply"
    BY <1>4 DEF Moved, MailboxInv, MailboxType, RequestsType
  <2>4. BringsAll(c)'
    BY <1>4, <2>2, <2>3 DEF Moved, BringsAll
  <2> QED
    BY <1>4, <2>4, GoOnOk DEF Moved
<1> QED
  BY <1>1, <1>2, <1>3, <1>4

LEMMA ReplyOk ==
  ASSUME MailboxInv, ConserveInv, OkInv, NEW c \in Clients,
         Deliver(c) \/ ReplyLost(c)
  PROVE  OkInv'
<1>1. CASE Deliver(c) /\ asks[c] = "send"
  <2>1. ToSet(<<>>) = {}
    BY DEF ToSet
  <2> QED
    BY <1>1, <2>1, FinishOk DEF Deliver, Verdicts, proxy
<1>2. CASE Deliver(c) /\ asks[c] # "send"
  <2>1. asks[c] = "recv"
    BY <1>2 DEF MailboxInv, MailboxType, RequestsType, Boxes
  <2>2. ToSet(hand[c]) \subseteq gaveUp
    BY <1>2, <2>1 DEF Deliver, OkInv, BringsAll
  <2> QED
    BY <1>2, <2>2, FinishOk DEF Deliver, Verdicts, proxy
<1>3. CASE ReplyLost(c)
  BY <1>3, FinishOk DEF ReplyLost, Verdicts, proxy
<1> QED
  BY <1>1, <1>2, <1>3

LEMMA NextOkInv ==
  MailboxInv /\ ConserveInv /\ OkInv /\ [Next]_vars => OkInv'
<1> SUFFICES ASSUME MailboxInv, ConserveInv, OkInv, [Next]_vars
             PROVE  OkInv'
  OBVIOUS
<1>1. ASSUME UNCHANGED <<asks, left, hand, gaveUp, lost>>,
             \A c \in Clients : at'[c] \in {at[c], "aborted"}
      PROVE  OkInv'
  BY <1>1 DEF OkInv, BringsAll, OkUnlessStopped
<1>2. CASE Application
  <2>1. UNCHANGED <<asks, left, hand, gaveUp, lost>>
    BY <1>2 DEF Application, AppPush, AppPop, CopyCount, CopyPop, CopyPush,
       CopyEnd, proxy, requests
  <2>2. at' = at \/ at' = [c \in Clients |-> "aborted"]
    BY <1>2 DEF Application, AppPush, AppPop, CopyCount, CopyPop, CopyPush,
       CopyEnd, requests
  <2> QED
    BY <1>1, <2>1, <2>2
<1>3. CASE ProxyStops \/ UNCHANGED vars
  BY <1>1, <1>3 DEF ProxyStops, vars, proxy, requests
<1>4. ASSUME NEW c \in Clients, Put(c) \/ Get(c)
      PROVE  OkInv'
  <2>1. /\ at'[c] \in {"check", "count"}
        /\ \A d \in Clients \ {c} : /\ at'[d] = at[d] /\ asks'[d] = asks[d]
                                    /\ left'[d] = left[d] /\ hand'[d] = hand[d]
    BY <1>4 DEF Put, Get, MailboxInv, MailboxType, RequestsType
  <2>2. UNCHANGED <<gaveUp, lost>>
    BY <1>4 DEF Put, Get, proxy
  <2> QED
    BY <2>1, <2>2, OkStep DEF BringsAll, OkInv, OkUnlessStopped
<1>5. ASSUME NEW c \in Clients, Handling(c)
      PROVE  OkInv'
  BY <1>5, ProxyStepsOk, LoopOk, ReplyOk DEF Handling
<1> QED
  BY <1>2, <1>3, <1>4, <1>5 DEF Next

-----------------------------------------------------------------------------
(* The theorems *)

\* The copy of a mailbox only the application empties is exact, however many
\* clients add to it meanwhile, and the assertion in d_queue_copy can only
\* fail when a client takes messages from the mailbox that is copied.
THEOREM CopiesAreExact == Spec => []CopyIsSnapshot
<1> QED
  BY InitMailboxInv, NextInv, CopyInvSuffices, PTL DEF Spec

\* Behind a proxy, whose client's mutex lets one executor at a time empty the
\* mailbox, no client receives a NULL message, unless the application copied
\* the mailbox meanwhile.
THEOREM NoPhantomBehindProxy == Spec => []NoPhantom
<1> QED
  BY InitMailboxInv, NextInv, NoNullYetSuffices, PTL DEF Spec

\* The messages of one client reach the application in the order it sent
\* them, though executors of other clients fill the same mailbox at the same
\* time, and the application's messages reach each client in the order they
\* were pushed, though executors compete for them; unless a mailbox was in use
\* while it was copied.
THEOREM MessagesStayInOrder == Spec => []InOrder
<1>1. MailboxInv /\ OrderInv /\ [Next]_vars => (MailboxInv /\ OrderInv)'
  BY NextInv, NextOrder
<1> QED
  BY InitMailboxInv, InitOrderInv, <1>1, InOrderHolds, PTL DEF Spec

\* Every message that was made is in exactly one place: in a mailbox, on its
\* way, where it was going, or among those lost with a request that failed.
THEOREM MessagesAreConserved == Spec => []Conserved
<1>1. /\ MailboxInv /\ OrderInv /\ ConserveInv /\ [Next]_vars
           => (MailboxInv /\ OrderInv /\ ConserveInv)'
      /\ MailboxInv /\ OrderInv /\ ConserveInv => Conserved
  BY NextInv, NextOrder, NextConserves, ConservedHolds
<1> QED
  BY InitMailboxInv, InitOrderInv, InitConserveInv, <1>1, PTL DEF Spec

\* No message is lost with a request that is answered by drpc_ok, but those
\* of a request that found the proxy client stopped.
THEOREM OkLosesNothing == Spec => []OkUnlessStopped
<1>1. /\ MailboxInv /\ OrderInv /\ ConserveInv /\ OkInv /\ [Next]_vars
           => (MailboxInv /\ OrderInv /\ ConserveInv /\ OkInv)'
      /\ OkInv => OkUnlessStopped
  BY NextInv, NextOrder, NextConserves, NextOkInv DEF OkInv
<1> QED
  BY InitMailboxInv, InitOrderInv, InitConserveInv, InitOkInv, <1>1, PTL DEF Spec
=============================================================================
