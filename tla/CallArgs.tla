------------------------------- MODULE CallArgs -------------------------------
(***************************************************************************)
(* Who owns the pointer arguments of a call.  The caller's array of        *)
(* arguments holds the caller's own objects (d_struct, d_array, d_queue)   *)
(* and copies of its strings and buffers.  In-process it goes to the       *)
(* server as it is; over TCP the server unpacks copies of everything, and  *)
(* so does the caller from the reply, while nobody frees what was sent.    *)
(* drpc_server_call_fn takes each pointer out of the array, so that the    *)
(* executor does not free it with the request, and puts it, or a copy,     *)
(* into the array of the reply, from which the caller updates its own.     *)
(* The executor frees the request after the reply is sent, while the       *)
(* caller goes on; and the caller may have given up long before.           *)
(*                                                                         *)
(* A parameter only the server has (d_fnstorage, ...) has no argument, and *)
(* a d_sizedbuf is two parameters of the C function, so that the position  *)
(* of a parameter among the C function's differs from that of its argument *)
(* in the array.  Other values own no memory here.                         *)
(*                                                                         *)
(* One call is followed, in isolation: a reply that is late may be taken   *)
(* by another call of the same client (module Session), which would unpack *)
(* it into the objects of that call; this is left out.                     *)
(***************************************************************************)
EXTENDS Naturals, Sequences, FiniteSets

CONSTANTS
  Prototypes,     \* the functions' prototypes: sequences of kinds
  MayFail,        \* sending may fail, and the server may reject the call
  NULL            \* no pointer

Kinds == {"server", "value", "str", "buf", "object"}

ASSUME CallArgsAssumption ==
  /\ \A p \in Prototypes : p \in Seq(Kinds)
  /\ MayFail \in BOOLEAN

VARIABLES
  tcp,            \* whether the transport is TCP
  prototype,      \* the prototype of the function called
  caller,         \* where drpc_client_call_internal is
  executor,       \* where drpc_client_executor is
  arguments,      \* the request's array: the pointers in it, by index
  to_repack,      \* the pointers the function got, and their update->index
  reply,          \* "none", "bad", "return", "taken", "dropped", "forgotten"
  repacked,       \* the reply's array
  unpacked,       \* how many of the reply's pointers the caller has taken
  return_is,      \* which of repacked the function returned, or 0
  native_return,  \* the pointer the caller is given as the function's result
  result,         \* history: the argument the function returned, or 0
  written,        \* history: the arguments the function wrote to
  content,        \* what each cell holds: "none" while there is no such cell,
                  \* "old", or "new" when the function wrote to it
  frees           \* how often each cell has been freed

vars == <<tcp, prototype, caller, executor, arguments, to_repack, reply, repacked,
          unpacked, return_is, native_return, result, written, content, frees>>

\* The numbers of the set S in ascending order.
Ascending(S) == [r \in 1 .. Cardinality(S) |->
                   CHOOSE x \in S : Cardinality({y \in S : y <= x}) = r]

Params == LET passed == Ascending({i \in DOMAIN prototype : prototype[i] # "server"})
          IN  [j \in DOMAIN passed |-> prototype[passed[j]]]
Pointers == {j \in DOMAIN Params : Params[j] \in {"str", "buf", "object"}}
Objects == {j \in Pointers : Params[j] = "object"}

\* The memory of argument j: copy 0 is the caller's, 1 the request's, 2 the
\* reply's, and over TCP 3 what the server unpacks and 4 what the caller does.
\* Objects are not copied by being put into an array, only by TCP.
Cells == [arg : DOMAIN Params, copy : 0 .. 4]
Cell(j, copy) ==
  [arg |-> j, copy |-> IF j \notin Objects THEN copy
                       ELSE IF ~tcp \/ copy = 1 THEN 0
                       ELSE IF copy = 2 THEN 3 ELSE copy]

\* What of the request the server has, and what of the reply the caller.
Requested(j) == Cell(j, IF tcp THEN 3 ELSE 1)
Replied(j) == Cell(j, IF tcp THEN 4 ELSE 2)

Before(p, i, kind) == Cardinality({h \in 1 .. i - 1 : p[h] = kind})

\* The j and the k of ffi_from_drpc for parameter i, both counted from 1.
ArgumentIndex(p, i) == i - Before(p, i, "server")
FfiIndex(p, i) == i + Before(p, i, "buf")

\* The prototypes in which every pointer has the same j and k.  All functions
\* of test.c are of this kind; those registered as a proxy's are not, as they
\* begin with three parameters only the server has.
IsAligned(p) == \A i \in DOMAIN p :
  p[i] \in {"str", "buf", "object"} => ArgumentIndex(p, i) = FfiIndex(p, i)

Init ==
  /\ tcp \in BOOLEAN
  /\ prototype \in Prototypes
  /\ caller = "pack"
  /\ executor = "idle"
  /\ arguments = <<>>
  /\ to_repack = <<>>
  /\ reply = "none"
  /\ repacked = <<>>
  /\ unpacked = 0
  /\ return_is = 0
  /\ native_return = NULL
  /\ result = 0
  /\ written = {}
  /\ content = [c \in Cells |-> IF c.copy = 0 THEN "old" ELSE "none"]
  /\ frees = [c \in Cells |-> 0]

Elements(f) == {f[x] : x \in DOMAIN f}

Free(C) == frees' = [c \in Cells |-> IF c \in C THEN frees[c] + 1 ELSE frees[c]]

-----------------------------------------------------------------------------
(* The caller, up to the reply *)

\* The arguments are put into the array, and the request is sent.
Pack ==
  /\ caller = "pack"
  /\ arguments' = [j \in Pointers |-> Requested(j)]
  /\ content' = [c \in Cells |->
                   IF c.arg \in Pointers /\ c \in {Cell(c.arg, 1), Requested(c.arg)}
                   THEN "old" ELSE content[c]]
  /\ caller' = "wait"
  /\ executor' = "serve"
  /\ UNCHANGED <<tcp, prototype, to_repack, reply, repacked, unpacked, return_is,
                 native_return, result, written, frees>>

\* Or sending fails, and the in-process transport frees the request.
SendFails ==
  /\ MayFail
  /\ caller = "pack"
  /\ content' = [c \in Cells |->
                   IF c.arg \in Pointers /\ c = Cell(c.arg, 1) THEN "old" ELSE content[c]]
  /\ Free(IF tcp THEN {} ELSE {Cell(j, 1) : j \in Pointers})
  /\ caller' = "failed"
  /\ UNCHANGED <<tcp, prototype, executor, arguments, to_repack, reply, repacked,
                 unpacked, return_is, native_return, result, written>>

\* The caller has waited for too long, or the connection has broken.
CallFails ==
  /\ MayFail
  /\ caller = "wait" /\ unpacked = 0
  /\ caller' = "failed"
  /\ UNCHANGED <<tcp, prototype, executor, arguments, to_repack, reply, repacked,
                 unpacked, return_is, native_return, result, written, content,
                 frees>>

-----------------------------------------------------------------------------
(* The executor *)

\* No such function, other parameters, or not permitted.
Reject ==
  /\ MayFail
  /\ executor = "serve"
  /\ reply' = "bad"
  /\ executor' = "free"
  /\ UNCHANGED <<tcp, prototype, caller, arguments, to_repack, repacked, unpacked,
                 return_is, native_return, result, written, content, frees>>

\* A connection that ends leaves its requests: those in the transport's queue
\* are freed with it, those in the queue of events are not, as only the event
\* is freed.
Abandon ==
  /\ executor = "serve" /\ caller \in {"failed", "done"}
  /\ \/ /\ executor' = "left"
        /\ UNCHANGED frees
     \/ /\ ~tcp
        /\ executor' = "over"
        /\ Free(Elements(arguments))
  /\ UNCHANGED <<tcp, prototype, caller, arguments, to_repack, reply, repacked,
                 unpacked, return_is, native_return, result, written, content>>

\* ffi_from_drpc, and the function: it may write to what its arguments point
\* at, and may return one of them.
CallFn ==
  /\ executor = "serve"
  /\ to_repack' =
       LET positions == Ascending({i \in DOMAIN prototype :
                                     prototype[i] \in {"str", "buf", "object"}})
       IN  [r \in DOMAIN positions |->
             [arg |-> ArgumentIndex(prototype, positions[r]),
              ptr |-> arguments[ArgumentIndex(prototype, positions[r])],
              index |-> FfiIndex(prototype, positions[r])]]
  /\ result' \in Pointers \cup {0}
  /\ \E W \in SUBSET Pointers :
       /\ written' = W
       /\ content' = [c \in Cells |-> IF \E j \in W : c = arguments[j] THEN "new"
                                      ELSE content[c]]
  /\ executor' = "repack"
  /\ UNCHANGED <<tcp, prototype, caller, arguments, reply, repacked, unpacked,
                 return_is, native_return, frees>>

\* The r of the loop over to_repack, counted from 1.
Round == Len(repacked) + 1

\* Mutant: the buffer is left to the request.
RepackKeepsBuf ==
  /\ executor = "repack" /\ to_repack # <<>>
  /\ LET update == Head(to_repack) IN
       /\ return_is' = IF update.arg = result THEN Round ELSE return_is
       /\ arguments' = [j \in DOMAIN arguments \ {update.index} |-> arguments[j]]
       /\ repacked' = Append(repacked, Cell(update.arg, 2))
       /\ content' = [content EXCEPT ![Cell(update.arg, 2)] = content[update.ptr]]
  /\ to_repack' = Tail(to_repack)
  /\ UNCHANGED <<tcp, prototype, caller, executor, reply, unpacked, native_return,
                 result, written, frees>>

\* Mutant: the pointer stays in the array of the request.
RepackLinked ==
  /\ executor = "repack" /\ to_repack # <<>>
  /\ LET update == Head(to_repack) IN
       /\ return_is' = IF update.arg = result THEN Round ELSE return_is
       /\ repacked' = Append(repacked, Cell(update.arg, 2))
       /\ content' = [content EXCEPT ![Cell(update.arg, 2)] = content[update.ptr]]
       /\ Free(IF Params[update.arg] = "buf" THEN {update.ptr} ELSE {})
  /\ to_repack' = Tail(to_repack)
  /\ UNCHANGED <<tcp, prototype, caller, executor, arguments, reply, unpacked,
                 native_return, result, written>>

\* One round of the loop over to_repack.  d_array_unlink takes the pointer at
\* the index out of the array, if there is one, and frees only the element.
Repack ==
  /\ executor = "repack" /\ to_repack # <<>>
  /\ LET update == Head(to_repack) IN
       /\ return_is' = IF update.arg = result THEN Round ELSE return_is
       /\ arguments' = [j \in DOMAIN arguments \ {update.index} |-> arguments[j]]
       /\ repacked' = Append(repacked, Cell(update.arg, 2))
       /\ content' = [content EXCEPT ![Cell(update.arg, 2)] = content[update.ptr]]
       /\ Free(IF Params[update.arg] = "buf" THEN {update.ptr} ELSE {})
  /\ to_repack' = Tail(to_repack)
  /\ UNCHANGED <<tcp, prototype, caller, executor, reply, unpacked, native_return,
                 result, written>>

\* Over TCP the caller is to unpack the reply, and what was sent is not freed.
SendReply ==
  /\ executor = "repack" /\ to_repack = <<>>
  /\ reply' = "return"
  /\ executor' = "free"
  /\ repacked' = [r \in DOMAIN repacked |-> Replied(repacked[r].arg)]
  /\ content' = [c \in Cells |->
                   IF c \in Elements(repacked') THEN content[Cell(c.arg, 2)] ELSE content[c]]
  /\ UNCHANGED <<tcp, prototype, caller, arguments, to_repack, unpacked,
                 return_is, native_return, result, written, frees>>

\* d_struct_free(event->message).
FreeRequest ==
  /\ executor = "free"
  /\ Free(Elements(arguments))
  /\ arguments' = <<>>
  /\ executor' = "over"
  /\ UNCHANGED <<tcp, prototype, caller, to_repack, reply, repacked, unpacked,
                 return_is, native_return, result, written, content>>

-----------------------------------------------------------------------------
(* The caller, from the reply on *)

BadReply ==
  /\ caller = "wait" /\ reply = "bad"
  /\ caller' = "failed"
  /\ UNCHANGED <<tcp, prototype, executor, arguments, to_repack, reply, repacked,
                 unpacked, return_is, native_return, result, written, content,
                 frees>>

\* A reply that finds nobody waiting: it cannot be sent, or is freed with the
\* queue when the client closes its end; over TCP nobody has unpacked it.
DropReply ==
  /\ caller \in {"failed", "done"} /\ reply = "return"
  /\ reply' = "dropped"
  /\ IF tcp THEN /\ content' = [c \in Cells |-> IF c \in Elements(repacked) THEN "none"
                                                ELSE content[c]]
                 /\ UNCHANGED frees
            ELSE Free(Elements(repacked)) /\ UNCHANGED content
  /\ repacked' = <<>>
  /\ UNCHANGED <<tcp, prototype, caller, executor, arguments, to_repack,
                 unpacked, return_is, native_return, result, written>>

\* Or the client's next request takes it: a mailbox request or a ping, which
\* finds that its type is wrong and does not free what it brings.
ForgetReply ==
  /\ caller \in {"failed", "done"} /\ reply = "return"
  /\ reply' = "forgotten"
  /\ repacked' = <<>>
  /\ UNCHANGED <<tcp, prototype, caller, executor, arguments, to_repack, unpacked,
                 return_is, native_return, result, written, content, frees>>

\* Mutant: the caller's pointers are taken in the opposite order.
RepackableStack ==
  [r \in DOMAIN repacked |->
     CHOOSE j \in Pointers : Cardinality({h \in Pointers : h > j}) = r - 1]

\* The caller's own pointer arguments in order: its queue repackable.
Repackable == Ascending(Pointers)

\* One round of the loop over repacked_arguments.  All but buffers are taken
\* out of the array; if the pointer is not the caller's own, the caller's gets
\* its contents, and it is freed.  Only for a buffer the result is not set.
Unpack ==
  /\ caller = "wait" /\ reply = "return" /\ unpacked < Len(repacked)
  /\ LET j == Repackable[unpacked + 1]
         c == repacked[unpacked + 1]
     IN  /\ content' = [content EXCEPT ![Cell(j, 0)] = content[c]]
         /\ Free(IF Params[j] # "buf" /\ c # Cell(j, 0) THEN {c} ELSE {})
         /\ native_return' = IF return_is = unpacked + 1 /\ Params[j] # "buf"
                             THEN Cell(j, 0) ELSE native_return
  /\ unpacked' = unpacked + 1
  /\ UNCHANGED <<tcp, prototype, caller, executor, arguments, to_repack, reply,
                 repacked, return_is, result, written>>

\* The reply is freed, with the buffers that are still in it.
Return ==
  /\ caller = "wait" /\ reply = "return" /\ unpacked = Len(repacked)
  /\ Free({c \in Elements(repacked) : Params[c.arg] = "buf"})
  /\ reply' = "taken"
  /\ caller' = "ok"
  /\ UNCHANGED <<tcp, prototype, executor, arguments, to_repack, repacked,
                 unpacked, return_is, native_return, result, written, content>>

\* A caller whose call succeeded frees its objects in the end; over TCP also
\* one whose call failed.
CallerFrees ==
  /\ \/ caller = "ok"
     \/ caller = "failed" /\ tcp
  /\ Free({Cell(j, 0) : j \in Objects})
  /\ caller' = "done"
  /\ UNCHANGED <<tcp, prototype, executor, arguments, to_repack, reply, repacked,
                 unpacked, return_is, native_return, result, written, content>>

-----------------------------------------------------------------------------
\* Nothing is left to do for caller and executor, nor with the reply.
Over ==
  /\ caller \in {"done", "failed"} /\ (tcp => caller = "done")
  /\ executor \in {"idle", "over", "left"}
  /\ reply # "return"

Next ==
  \/ Pack \/ SendFails \/ CallFails
  \/ Reject \/ Abandon \/ CallFn \/ Repack \/ SendReply \/ FreeRequest
  \/ BadReply \/ DropReply \/ ForgetReply \/ Unpack \/ Return \/ CallerFrees
  \/ Over /\ UNCHANGED vars

Spec == Init /\ [][Next]_vars

-----------------------------------------------------------------------------
\* The types of the variables.
TypeOK ==
  /\ tcp \in BOOLEAN
  /\ caller \in {"pack", "wait", "ok", "failed", "done"}
  /\ executor \in {"idle", "serve", "repack", "free", "over", "left"}
  /\ DOMAIN arguments \subseteq DOMAIN Params
  /\ Elements(arguments) \cup Elements(repacked) \subseteq Cells
  /\ \A r \in DOMAIN to_repack : to_repack[r].arg \in Pointers /\ to_repack[r].ptr \in Cells
  /\ reply \in {"none", "bad", "return", "taken", "dropped", "forgotten"}
  /\ unpacked \in 0 .. Len(repacked)
  /\ return_is \in 0 .. Len(prototype)
  /\ native_return \in Cells \cup {NULL}
  /\ result \in DOMAIN Params \cup {0}
  /\ written \subseteq Pointers
  /\ content \in [Cells -> {"none", "old", "new"}]
  /\ frees \in [Cells -> Nat]

\* When a call has succeeded the caller has its objects: nothing it passed has
\* been freed or is left where the executor will free it, although the
\* executor frees the request only after the reply (drpc_client.h:42).  When
\* it has failed, they are gone in-process, whenever and wherever it failed:
\* freed by the transport, the executor or with the late reply, unless the
\* request was left in the queue of events, or the reply came to a request
\* that does not free it.
ObjectsReturned ==
  /\ caller = "ok" => \A j \in Objects :
       frees[Cell(j, 0)] = 0 /\ Cell(j, 0) \notin Elements(arguments)
  /\ ~tcp /\ caller = "failed" /\ Over /\ executor # "left" /\ reply # "forgotten" =>
       \A j \in Objects : frees[Cell(j, 0)] = 1

\* Pointer arguments are in sync when the call has returned (drpc_client.h:42):
\* each holds what the function left in it, whatever its kind, and no other's.
Synced ==
  caller = "ok" => \A j \in Pointers :
    content[Cell(j, 0)] = IF j \in written THEN "new" ELSE "old"

\* What the function returned is placed where native_return points
\* (drpc_client.h:48), for an argument the caller's own pointer; unless it is
\* a buffer, which is not placed at all.
ReturnPlacedUnlessBuf ==
  caller = "ok" /\ result # 0 /\ Params[result] # "buf" =>
    native_return = Cell(result, 0)

\* The copies made for a call that nobody has freed.
LeftOver == {c \in Cells : c.arg \in Pointers /\ c.copy > 0
                           /\ content[c] # "none" /\ frees[c] = 0}

\* What is freed is there, and freed once, by the executor, the transport or
\* the caller.  Of the copies made for a call outlive it, unless its request
\* was left in the queue of events: the strings of the request the function
\* got; over TCP what was sent, from the caller or from the server; and the
\* late reply that another request took.
FreedOnce ==
  /\ TypeOK
  /\ \A c \in Cells : frees[c] <= 1 /\ (frees[c] = 1 => content[c] # "none")
  /\ Over /\ executor # "left" => \A c \in LeftOver :
       \/ Params[c.arg] = "str" /\ c = Requested(c.arg)
       \/ tcp /\ c \in {Cell(c.arg, 1), Cell(c.arg, 2)}
       \/ reply = "forgotten" /\ c = Replied(c.arg)
=============================================================================
