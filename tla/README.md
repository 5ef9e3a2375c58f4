# DynamicRPC in TLA+

A verification development kept beside DynamicRPC (`src/`), a C library in which
a client calls functions of a server by name, over an in-process queue or a TCP
socket, with C objects as arguments. Every module is translated from the source;
`PROJECT.json` maps each definition to the lines it stands for.

## 1. The system

| Component | Source | State | Operations | What makes it correct |
|---|---|---|---|---|
| client | `drpc_client.c`, `.h` | `client_stop`, `connection_mutex`, `io`, the ping thread | call, mailbox send/receive, server name, disconnect, ping | a caller gets the reply to its own request; every call returns; disconnect returns; nothing is sent after goodbye |
| connection | `drpc_server.c` 681-807 | `event_queue`, semaphore `wait`, `already_disconnected`, `force_disconnect`, two threads | receive, queue, dispatch, reply, tear down | requests are handled once, in order; no lost wakeup; no join that never returns; both sides are torn down |
| in-process transport | `drpc_protocol.c` 57-111, `drpc_server.c` 1138-1196 | two queues, two `send` pointers, two semaphores | send, receive, close, free | no end is closed or freed while it is used |
| TCP transport | `drpc_protocol.c` 115-195, `drpc_server.c` 810-929, `drpc_client.c` 71-187 | sockets, AES keys, users | connect, authenticate, send, receive | framing survives short reads; both ends use one key; connecting and serving end |
| function calls | `drpc_server.c` 290-535, `drpc_client.c` 198-353 | argument array, updates to send back, ownership of every object | pack, check prototype, convert for libffi, call, repack, unpack | what is passed by pointer comes back once, is freed once, by its owner; permissions |
| mailboxes and proxies | `drpc_server.c` 537-664, 977-1122 | four tables of mailboxes, the queues in them, the proxy clients | send to, receive from, forward, remove | no message is lost, duplicated or invented; success is reported only on success |
| registry and life cycle | `drpc_server.c` 103-259, 969-975 | table of functions, table of connection threads | register, unregister, server free | no entry outlives what it points to |
| hash table | `hashtable.c/` | `size`, `capacity`, `body`, `lock` | set, get, remove, resize | it is a map; every search ends |
| queue, deque | `queue.c`, `impl_queue.c`, `deque.c` | blocks, `start_index`, `end_index`, window of allocated blocks | push, pop, count | it is a FIFO; the unlocked count misleads a consumer only when another thread pops, or a push moves the blocks |
| d_struct, d_array, d_queue | `drpc_struct.c`, `drpc_array.c`, `drpc_queue.c`, `drpc_types.c` | a hash table, an array, a queue of typed values | set, get, unlink, remove, (de)serialise, copy, free | a value is returned with the type it was stored with, freed once, and survives the wire |
| AES | `aes.c` | | | vendored |

The parts meet in four ways. **Messages**: a client and a connection exchange
`struct drpc_message` through the transport; a message carries its type and a
`d_struct`, and no identifier. **Shared state**: all application threads share
the client and its mutex; the reader and the executor of a connection share the
event queue, a semaphore and a flag; all executors of a server share its tables
and mailboxes. **Callbacks**: an executor runs the user's function through
libffi; a proxied function or mailbox makes that a call of another client, on
another server. **Ownership**: over the in-process transport objects are passed
by pointer, so that the two sides must agree on who frees them.

The hard behaviours are the interleavings of at least four threads around one
call, timeouts that leave the connection in use, teardown started by either
side at any moment, unlocked reads (`client_stop`, `already_disconnected`,
`queue_count`, the value in `hashtable_get`), and ownership on the paths that
fail. Nothing is persisted, so there is no crash recovery; the in-process
transport does not lose or reorder messages.

## 2. Modules

| Module | Models | Composed with |
|---|---|---|
| `Wire` | `struct drpc_dqueue_io`: two queues, two ends, send and close | |
| `Client` | the callers and the ping thread of one `drpc_client` | extends `Wire` |
| `Connection` | the reader (`drpc_handle_client`) and the executor (`drpc_client_executor`) of one connection | extends `Wire` |
| `Session` | one client and one connection together; what a timeout may be; fairness; the properties | extends `Client`, `Connection` |
| `Rpc` | abstract: a request is unsent, made, run or refused at most once, and its fate reported | refined by `Session` |
| `SessionInv`, `SessionProofs` | the inductive invariant and the proofs | extend `Session` |
| `HashTable`, `HashTableProofs` | `hashtable.c`, with resizes entry by entry and concurrent `hashtable_get` | refines `Map` |
| `Map` | abstract: a function from keys to values | |
| `Deque`, `DequeProofs` | `queue.c` on `deque.c`, with the unlocked `queue_count` | refines `Fifo` |
| `Fifo` | abstract: a sequence with push and pop | |
| `Tcp` | `drpc_tcp_send_message` and `drpc_tcp_recv_message` on a socket, byte by byte | |
| `Handshake`, `HandshakeProofs` | one TCP session: `drpc_client_connect`, the ping thread, `drpc_server_client_auth`, the reader and the executor | extends `Tcp` |
| `Mailbox`, `MailboxProofs` | the two mailbox handlers, several executors, the application with `d_queue_copy`, an optional proxy | |
| `CallArgs`, `CallArgsProofs` | who owns the pointer arguments of one call, over both transports, from packing to the caller's freeing them | |
| `Containers`, `ContainersProofs` | `d_struct`, `d_array`, `d_queue`: who owns what is in them, their lengths, what a failed call leaves | |
| `Packing` | the buffers of `drpc_types.c`, `d_struct_buf`, `buf_d_struct`, ... as functions | extends `Containers` |
| `Server` | connection threads, acceptor and `drpc_server_free` around `client_threads` | |
| `Registry` | functions, proxied mailboxes, and the proxy clients behind them | |
| `ServerProofs` | the proofs of both | extends `Server`, `Registry` |

An `MC...` module only adds symmetry sets or a list of prototypes, and
`MCServer` a variable that chooses whether a behaviour shows `Server` or
`Registry`. Operators whose comment begins with "Mutant" are variants of the
definition next to them, each a mistake the code could have; no specification
uses them, and each is the reason to believe that the property it is paired with
in `PROJECT.json` could fail.

**Session.** A thread's program counter is `pc[t]`, `reader` or `executor`; one
action is a stretch of code between two points at which another thread may
observe it. `CallBegin` is the unlocked test of `client_stop`; `CallSend` the
lock and the send; `CallRecv` and `CallTimeout` the receive, the unlock and the
verdict. `queue_push` and `sem_post`, and `queue_pop` and `sem_wait`, are
separate steps. Calls, mailbox requests and name requests differ only in the
types of their messages; bodies are left to `CallArgs` and `Mailbox`. Requests
are numbered so that the properties can tell them apart: the code does not look
at the numbers, as its messages have none. The application is assumed to call
`drpc_client_disconnect` only when none of its threads is in a call, since the
function "disconnects and frees client struct" (`drpc_client.h:38`). So a caller
never meets a goodbye, nor the client's end being closed after it
(`drpc_client.c:64`); it does meet a ping thread that gives up and closes the
end under the mutex. `Verdict` is what each function makes of a reply's type:
`drpc_client.c` 262-265 for a call, 382-385 and 409-412 for a mailbox request,
451 for a name request.

**Time.** `SlowReplies` decides what a timeout means. FALSE: a receive times out
only when nothing can come any more, that is, every reply is faster than
`DRPC_IO_TIMEOUT` and threads are scheduled in time. TRUE: it may time out
whenever its queue is empty. What depends on the first is stated with it.

**HashTable.** The hash function is chosen in `Init` among all functions into
`HashValues`, so that every pattern of collisions occurs. `hashtable_get`
unlocks before it reads the value: `GetFind`, `GetRead`. A resize replaces the
body at once and moves the entries one by one under the lock (`ResizeMove`,
`ResizeEnd`), as a get that has unlocked may read meanwhile; an entry that is
moved is set like any other and may resize again, so `resizing` is a stack. What
the table maps a key to (`Contents`) counts the entries that wait in the stack. A
search in a table without an empty slot does not end: `Spin`.

**Deque.** `deque_push_back` assigns the indices in the middle of its work,
which the unlocked `queue_count` can see; a push is therefore up to four steps
(`PushBegin`, `PushShift`, `PushShifted`, `PushEnd`) and a count two reads.
Reallocation, the copy of blocks and the reuse of the first block are modelled
index by index. The module states when `queue_count` can be relied on;
`Mailbox` reads the length of its queues in one step, so it takes for granted
that no length between two indices is read.

**Tcp.** A stream holds the bytes on the way to an end, each known by its message
and its place in it. `SendSome` and `ReceiveSome` transfer any number of bytes;
`SendError` and `ReceiveError` are a result of -1, which the loops keep in a
`size_t` and so take one byte off what was transferred. A message is encrypted
with the key its end has when it is sent; a receiver with another key, or with
bytes that are not the part it asked for, is `Undefined`, as the program then is.
`ReceiveError` empties the stream where a reset discards what was not read.

**Handshake.** `client` is where `drpc_client_connect` is, then its ping thread;
`reader` is where the server's thread is, from `drpc_server_client_auth` to the
end of `drpc_handle_client`. Calls are left out: a ping and its answer stand for
every exchange, which is enough for framing, keys and the end of a session.
`AddUser` is the application that changes the password at any time.

**Containers.** `heap` maps addresses to containers, and a freed address is given
out again; `held` is what the application has to free. An element is a number, a
string or a nested container. `intact` turns FALSE when a call writes beyond its
memory: growing an array does (section 6), and the application then does no more.
One thread uses them: only the queues of `Mailbox` are shared in the program.
`Packing` turns a container into a sequence of cells and back, with the lengths
in front of every entry that the code relies on.

**Mailbox.** Messages are numbers. `proxied` is chosen in `Init`. `d_queue_copy`
is a loop of steps (`CopyCount`, `CopyPop`, `CopyPush`, `CopyEnd`) between which
clients use the same queue; a failing assertion in it stops every thread.
`CallTest` is the proxied call's own test of `client_stop`: the request that
finds it set goes on to its reply, `drpc_ok`, with the messages it brought still
in hand (`gaveUp`), as the switch of `drpc_server.c:574` has no case for that.

**CallArgs.** Memory is a set of cells (the caller's object, the request's copy,
the reply's copy, and over TCP what each side unpacks), each with its content and
a count of how often it was freed; the arrays are functions from index to cell.
`tcp` is chosen in `Init`. The caller may give up at any time while it waits
(`CallFails`); a late reply is freed with the queue it is in (`DropReply`), or
taken by a mailbox request or a ping of the same client, which does not free it
(`ForgetReply`); and a request nobody handles may be left behind (`Abandon`). One
call is followed, in isolation: that its late reply is unpacked by the next call
is left out. `FfiIndex` and `ArgumentIndex` are the two ways in which
`ffi_from_drpc` counts a parameter.

**Server.** `client_threads` is its body: a slot holds a connection's handle, no
handle, or a tombstone. What a connection does while it serves is one state,
left when `should_stop` is set, which `Session`'s `SessionEnds` justifies.

**Registry.** A proxy client is its address, because that is what
`proxy_free_sync_ht` records and what `malloc` may give out again. The three loops
of `drpc_server_free` over the tables are taken entry by entry, in any order
(`FreeFunction`, `FreeProxyMailbox`): each entry looks its client up, records it
and disconnects it, and only then the next one does. `passed` is where a loop
has been; a table goes when its loop is over (`FunctionsEnd`, `MailboxesEnd`).

## 3. Runs

| Run | Instance | Why it is large enough |
|---|---|---|
| `session_late` | 2 callers, 2 calls, late replies | a late reply, the ping's or a call's, meets the next request |
| `session_live` | 1 caller, 2 requests, prompt replies, fair | all three ways to end a session, from each state of a call; two callers compete in `session_late`, and the safety properties here are proved for any number |
| `session_latereply` | 1 caller, call then name request | refutes the assertion; see section 6 |
| `hashtable` | 4 keys, 2 values, 1 reader, hashes 0 and 3 of 4 slots, up to 2 tombstones | the fourth key triggers a resize, which counts entries twice and so resizes again, up to 16 slots; hash 3 wraps around; tables without an empty slot occur |
| `hashtable_full` | 2 keys, 4 tombstones | refutes that searches end; see section 6 |
| `mailbox` | 2 clients, 2 messages, batches of 2, 1 copy, with and without a proxy client that may stop and a handler that may fail, fair | two executors drain or fill one mailbox while the application uses or copies it, and compete for the mutex of the proxy client, which stops before, between and after |
| `mailbox_stopped` | the same | refutes that `drpc_ok` means delivered; see section 6 |
| `tcp` | header and body of 3 bytes, 4 bytes in a socket, 2 pings, 2 passwords, fair | a transfer is cut short after each byte of each part, a sender blocks in the middle of a part, and a timeout or close meets every position |
| `containers` | 4 objects, 2 fields, 2 indices, 2 elements at a time, symmetric | a container in a container in a third, copied beside its original; an array that grows, has a hole, or is written twice; every order of setting, taking out and freeing |
| `server` | 1 local and 1 remote connection, 4 slots, fair; or 2 names, 2 addresses, 3 clients | a connection of each kind enters, leaves and is passed by the walk in each order; entries of one table and of all three share a client, and a third client reuses an address |
| `callargs` | every prototype of up to 4 parameters of 5 kinds, with aligned indices, over both transports, with failures at each stage | two pointers of each pair of kinds, with a value or a server-only parameter around them |
| `deque` | blocks of 2, 2 of them at first, 4 items | the array is moved, enlarged, and its first block reused, while a count runs |

`server` is about two halves that share no variable, so that their steps commute
and interleaving them shows nothing that each does not show alone: a behaviour is
one of the threads or one of the tables, and the other half stands still.

What the properties say is stated above each of them. All bounds are constants
named "bound" where they are declared: `MaxRequests`, `MaxWait` (the ping thread
does not wake while that many posts are pending, which only keeps the semaphore
finite), `MaxTombstones`, `MaxMessages`, `MaxBatch`, `MaxCopies`,
`MaxClients`, `MaxItems`, `MaxPings`, `MaxIndex`, `MaxLen`, `MaxElements`.
`HeaderLen`, `BodyLen` and `Capacity` stand for larger numbers of bytes: a part
needs a first, a middle and a last byte, and a socket more than one part but less
than two. Symmetry is used only where elements are interchangeable and no
liveness is checked. Deadlock is checked except where the system may stop: in
`tcp` (the session is over), in `mailbox` and `mailbox_stopped` (an assertion
aborts, or nobody has a message left) and in `containers`
(the application stops once its memory is overwritten).

**Fairness.** `Session`, `Server` (whose fairness `MCServer` repeats for its half), `Handshake` and `Mailbox` assume that each thread that can
take a step takes one eventually (weak fairness), and that a thread waiting for
a mutex which is free again and again gets it (strong fairness, for the callers
of a client and the executors behind one proxy client): the program uses
blocking POSIX mutexes with few waiters, each of which holds it for one
exchange, and the ping thread, the only one that comes back for ever, sleeps for
seconds between two pings. Nothing obliges an application to call, to
disconnect, or to free the server. A receive is fair because it ends by a
message or by its timeout. In `Handshake` bytes that are sent arrive, the
server's sockets time out (`SO_RCVTIMEO`, `SO_SNDTIMEO`), and nothing is assumed
of a client's, which has no timeout.

## 4. Proofs

`tlapm` checks every theorem below, for any number of callers, requests, names,
addresses, connections, slots, messages, containers, items and blocks, for
parts and sockets of any number of bytes, and for prototypes of any length.
Assumptions on constants are the named `ASSUME`s of the modules; only the theorems
about `CallArgs` assume more, `AllAligned`, as the code is wrong without it
(section 6).

| Theorem | Says |
|---|---|
| `TypeCorrect` | the session's type invariant |
| `NeverLostWakeup` | the executor does not sleep on a queued event |
| `JoinsOnlyStopping` | the reader joins only an executor that will stop |
| `HandledInOrder` | requests are handled in the order in which they were sent, each at most once, and one is left out only when what follows it is too |
| `NeverClosedInUse` | no end is closed under a thread that uses it |
| `NothingAfterGoodbye` | nothing is sent after the client's goodbye |
| `RepliesPaired` | with prompt replies, every reply is given to the call it answers, and at most one request is alive (`PairingInv`, checked by no run) |
| `SessionImplementsRpc` | with prompt replies, every step is a step of `Rpc` or a stutter |
| `NeverDisconnectedTwice` | no proxy client is disconnected twice, by removals or by the entries of the loops of `drpc_server_free` |
| `NoClientForgotten` | with `Replaces` FALSE, no proxy client outlives the server unless its address was recorded |
| `ServerTypeCorrect`, `HandlesAreLive`, `NoEarlyConnectionMissed` | the walk over `client_threads` meets live handles only, and all the early ones |
| `CopiesAreExact` | a copy of a mailbox only the application empties is the mailbox as it was, and its assertion holds |
| `NoPhantomBehindProxy` | behind a proxy no NULL message is delivered, unless a copy disturbed the mailbox |
| `MessagesAreConserved` | a message is in one place at a time: nothing is lost, duplicated or invented |
| `MessagesStayInOrder` | one maker's messages stay in the order it made them, unless a copy or two loops disturbed it |
| `OkLosesNothing` | what a request answered `drpc_ok` lost was brought by a request that found the proxy client stopped |
| `DequeIsQueue` | every step of the deque is a step of `Fifo` or a stutter |
| `DequeOwnsItsBlocks` | after moving, enlarging and reusing blocks every block is at one place |
| `CountIsASize` | the unlocked `queue_count` returns a size the queue had, if nobody pops meanwhile |
| `HashTableIsMap` | every step of the hash table is a step of `Map` or a stutter, within resizes too |
| `ChainIsUnbroken` | the search for a stored key ends at its slot, and the key is stored there only |
| `SizeIsBounded` | `size` covers what is stored or waits for a resize, the assertion of `hashtable_resize` holds, and a search within a resize ends |
| `GetIsLinearizable` | a get returns a value its key had while it ran, unless the table was resized |
| `KeysAlwaysAgree` | every message is decrypted with the key it was encrypted with |
| `FramesAlwaysIntact` | as long as no loop took a byte back, every part is put together as it was sent |
| `NothingFreedTwice` | with aligned prototypes, what a call frees is there and is freed once, and nothing is left but the known copies |
| `ObjectsComeBack` | a caller whose call succeeded has its objects; in-process, one whose call failed has none, unless its request or its late reply was left with nobody to free it |
| `PointersAreSynced` | each pointer of the caller is updated from its own argument |
| `ReturnIsPlaced` | the function's result is the caller's own pointer, unless it is a buffer |
| `LengthsAreRight` | the lengths of `d_struct` and `d_array` are exact, but for an index set again |
| `EachOwnedOnce` | every container is the application's to free, or in one place of one other |
| `FailureChangesNothing` | a call that fails changes no container, but the order of a queue |

**Pairing.** `ReplyIsMine` is not inductive: a reply is taken on trust by whoever
reads next. `PairingInv` adds why there is nothing else to read. At most one
request is alive (`OneAlive`): on the wire, with the reader, in the event queue,
in the executor's hands, or on its way back as a reply. It belongs to the thread
that holds `connection_mutex` (`AliveIsAwaited`). A thread gives the mutex up
when it has taken the reply or when nothing can come any more, and this is the
only place where prompt replies are needed. `ClientShape` says which thread may
be where, `Numbering` that requests are fresh. The proof has one case per
action; `AliveShrink`, `AliveSend` and `AliveTake` carry the argument for the
actions that move a request. The refinement proof uses the same invariant: it
maps `fate` and `served` to themselves.

**Stopping and closing.** `StopInv` explains the unlocked flag: once
`already_disconnected` is set the executor has stopped or will at its next test.
`CloseInv` ties the server's end to the reader's last step. `NothingAfterGoodbye`
rests on `ClientShape`: before the end is closed nobody is in a call, as
`drpc_client_disconnect` is the only way to goodbye; afterwards sending fails.

**Order.** What has been sent and not handled lies in one `Line`: with the
executor, in the queue that was left over, in the event queue, with the reader and
on the wire, as long as the reader reads. `OrderInv` says that the numbered
messages of the line are the ones sent after those executed. Most steps leave the
line as it is; a send adds to its end; the executor takes from its front, where
what has no number (`ping`, disconnect) is skipped; the reader that leaves gives
up the end of it. A late reply, which breaks pairing, changes nothing here, so
that `HandledInOrder` has no condition on timing.

**Registry.** The server disconnects only clients that its tables mention and
that are not recorded. `RegistryInv` says that a client the tables mention is
there or recorded; every disconnection records first. That holds of each entry of
the loops alone, so that no order of entries matters: an entry whose client an
earlier one has disconnected finds it recorded. For `NoClientForgotten`,
`KeptInv` follows each client the server was given: it is in a table entry in
use, or recorded (`TablesInv`). It needs to know that the entries a loop has
passed mention only recorded clients (`Passing`), or the destruction of a table
could lose one, and that the tables before it are gone (`Emptied`).

**Server.** `ServerInv` says that an early connection is stopped, or its handle
lies at or behind the slot the walk is at; and that the slot being joined holds
the joined handle or a tombstone.

**Mailboxes.** `CopiesAreExact` and `NoPhantomBehindProxy` are about loops whose
number of rounds was read without the queue's lock. `MailboxInv` says that the rounds left are covered by
what is there: for a copy (`CopyExact`), the mailbox begins with exactly the rest
of the snapshot, followed by what was added or pushed back behind it; for
an executor that collects messages (`SendBoxCovers`), the mailbox and the copy's
hand hold as many as it still asks for. The second needs that nobody else takes
from the mailbox, which is `LoopsHoldMutex`: behind a proxy every executor in a
loop has the mutex, so there is one. Without a proxy nothing replaces it. The
steps of a request that touch no mailbox share one lemma (`RequestStep`), those
of the application another (`ApplicationStep`). For `InOrder` the messages of one
maker lie in a line: what was taken, what is in the mailbox, what its executor
holds, what it has not yet sent, where a mailbox that is being copied counts as
the snapshot. `Conserved` says that every step moves each message from one spot
to one spot; a spot is a queue and an index in it, so that popping and pushing
are maps between spots. For `OkLosesNothing`, `OkInv` says that a request that
brings messages has as many rounds left as messages in hand, so that its loop
leaves none behind, and that one which comes to its reply with messages in hand
has found the proxy client stopped (`BringsAll`).

**Deque.** Between two indices the array is moved and the items are not where the
indices say. `DequeInv` is about the indices as they will be when the push is
over (`First`, `Final`, `End`), which `PushShifted` leaves alone. The blocks from
`First` to `Final` are all there are, each once; a push that needs a block finds
a free place in the array or enlarges it. The count is right because the reader
of `start_index` is the one thread that changes it: `end_index` read before is
the end of a queue whose start has not moved.

**Hash table.** The order in which a search looks at slots is their distance from
the one its key hashes to (`Dist`); `FindSlotIs` says that a search that ends, ends
at the nearest slot it may stop at, for which the least number of a set has to
exist (`LeastExists`, from the library's well-founded minimum). `Chain` says that
nothing nearer stops the search for a stored key. A new key goes into an empty
slot no search for another has to pass (`StoreKeeps`); a tombstone stops nothing
(`ReplaceKeeps`); a new body is empty. In `TableInv` an entry is in one place
(`Apart`): in the table, left in an old body, or waiting for its resize to end;
and `size`, which a resize never lowers, covers the table and the waiting, which
leaves a slot empty as there are no tombstones in a new body (`RoomEndsSearch`).
`EntriesOf` is what a step has to be shown to change: a resize, nothing
(`MoveStep`, `EndStep`); the others, one key (`SetStep`, `RemoveStep`).
`ReaderInv` follows a get between its two steps: its slot has its key or a
tombstone, and a value the key had.

**Handshake.** `KeyInv` says, for every pair of places that the two programs can
be at together, with which key all that is on the way is encrypted. A key changes
with an unencrypted message; its last byte is the last in the stream (`Ended`), so
that nothing is left to decrypt. `FrameInv` says that, while no byte was taken
back, one message at a time is on the way (`OneTurn`), and its bytes lie in the
receiver's buffer, the stream and the rest at the sender, one behind the other
(`Flow`). The two programs share the lemmas for one send or receive of either end
(`CalmStep`, `SpeakStep`).

**Call arguments.** In an aligned prototype no pointer comes after a server-only
parameter or a buffer (`AlignedBefore`), so that a pointer's parameter, argument
and libffi index are one number, and the function's queue of pointers is the
caller's (`AlignedPointers`, `QueueIs`). Of `CallInv`, `Control` says where
caller, executor and reply can be at the same time; `Arrays` what is in the three
arrays, for the arguments not yet repacked (`Kept`) and those repacked (`Done`);
`ContentInv` what is in every cell, also of those the caller has already taken
(`Got`); `FreesInv` names for every cell the one who has freed it (`IsFreed`). An
action that frees a set of cells has to show that none of them was freed before
and that `IsFreed` now holds of them: a double free would break it.

**Containers.** A call changes one container, frees some, or makes new ones as
copies. `Sound` says of one container that its length fits its elements;
`LenInv` says it of all. That elements are finitely many is part of it, as the
count of a set with one element more needs it. `OwnInv` is about ownership: while
memory is intact, each container is in at most one place (`Once` within one, and
no two containers share a child), it is held or in another and never both, and
among any set of containers one is in none of them (`NoCycle`). The last is what
keeps it true: without it, freeing what is below a container could free the one
it is in. Every call but copying and freeing is an edit of one container, which
gets some that were held, frees some and hands some out (`EditOwned`); `GoneIs`
says that what is below the freed ones is in nothing that is left. A copy is a
mirror of its original under an injection into free addresses
(`DuplicateOwn`). `Below` is defined as the least set closed under children, not
by recursion: the proofs use that it is closed and that it is least.

## 5. Model-checked only

Liveness (`CallReturns`, `SessionEnds`, `Answered`, `FreeReturns`,
`ConnectReturns`, `ConnectionEnds`), since the prover has no rules for fairness;
and `RoundTrip` of `Packing`, whose operators are recursive: what they compute for
every buffer needs induction over data. Every other
invariant of the passing runs is a theorem of section 4.

## 6. Where the code and its words differ

Three runs are expected to fail, each on a statement the repository makes.

* `session_latereply`: a receive that times out (`drpc_client.c:257`) leaves the
  connection in use. The late reply is given to the next request; if that asks
  for the server's name, the assertion of `drpc_client.c:451` fails.
* `hashtable_full`: four keys added and removed one at a time leave only
  tombstones; `hashtable_find_slot` then never ends, holding the lock. In the
  server these may be four connections that came and went.
* `mailbox_stopped`: a proxied mailbox request whose executor finds the proxy
  client stopped, either without a `proxy_fail_handler` or since the check at line
  564, is answered `drpc_ok`: the switch of
  `drpc_server.c:574` has no case for `DRPC_CLIENTSTOPPED`. Its messages, unlinked
  from it at line 571, are neither sent nor freed, against `drpc_server.h:184`:
  "All messages sent by client to mailbox mailbox_name will be redirected".

The models show more, described here without a run of its own. The passing runs
state what is left when these cases are excluded.

* A resize between the search and the read of `hashtable_get` makes it return
  another key's value (`GetLinearizes` excludes it).
* Two clients that drain one local mailbox: the length is stale
  (`drpc_server.c:653`) and a NULL message is delivered. Behind a proxy the
  mutex prevents it (`NoPhantom`).
* After an executor stopped on a rejected call, requests are left in the queue,
  not only the disconnect event that `drpc_server.c:794` mentions; their
  messages leak (`ServedInOrder` says which they are).
* `drpc_server_free` does not wait for a connection that has removed its handle
  or not yet entered it; such a thread uses the freed server (`faults` in
  `Server`).
* `drpc_server_unregister_fn` frees the function and leaves its table entry,
  against `drpc_server.h:130`; the second of two mailboxes that share a proxy
  client is not removed by `drpc_remove_proxy_recv_mailbox`, against
  `drpc_server.h:195`; a client allocated where a disconnected one was is never
  disconnected (`misuses`, `FreedUnlessRecorded` in `Registry`).
* A pointer argument after a server-only parameter or a buffer is unlinked from
  the request by the wrong index (`drpc_server.c:454`) and freed while the
  caller has it; the passing run of `CallArgs` keeps to prototypes without that
  (`IsAligned`). A function that returns its buffer leaves `native_return` as it
  was; the request's copy of a string leaks.
* In-process, a call that fails takes the caller's objects with it, whether it was
  sent or not, unless its request is left in the queue of events, or its late
  reply is taken by a mailbox request or a ping, which leaks it: the caller
  cannot know which (`ObjectsReturned`). Over TCP they stay the caller's.
* Over TCP what is sent is never freed: the caller's copies, the request itself,
  and everything in the reply (`FreedOnce`).
* A refused call has no message in its reply, and `drpc_client.c:263` frees
  `recv.message`, which was never set. `CallArgs` takes it to be NULL.
* The loops of the TCP transport keep -1 in a `size_t`: a timeout in the middle
  of a part takes back a byte, and the part is put together wrongly
  (`FramesIntact` excludes it; `torn`). At the start of a part it ends the loop,
  as it should.
* A client's socket has no timeout, against `DRPC_IO_TIMEOUT`'s use elsewhere;
  it is the server that ends every wait (`ConnectReturns`).
* An array that grows clears memory behind its table and leaves the new slots as
  they are (`drpc_array.c:39`); a received array with holes grows. An unknown
  type set over an element leaves a freed one (`drpc_array.c:188`). `intact`
  excludes both, so that nothing is shown of what comes after them.
* `d_array_len` counts an index that is set again twice (`LenExact` says when).
* `d_queue_copy` of a mailbox that clients empty at the same time fails its
  assertion and stops the server; one that clients fill is reordered
  (`CopyIsSnapshot`, `InOrder`).
* `queue_count` with another thread that pops may return a size the queue never
  had, even a negative one (`CountWasSizeIfAlone` excludes it).

## 7. Not modelled

* AES (vendored): decrypting is the equality of keys. A peer that is not a
  `drpc_client`, and the further addresses that `drpc_client_connect` tries.
* A caller against `drpc_client_disconnect`, which the header rules out as the
  function frees the client; a late reply that the next call unpacks into its own
  objects (`CallArgs` follows one call; `session_latereply` shows the pairing).
* Permissions, callbacks' user data, names: values without protocol.
* The values of arguments and their conversion for libffi, results that are not
  an argument, a call without any arguments.
* Closing an end while its peer sends, inside `drpc_dqueue_close` and
  `drpc_dqueue_send_message`: each is one step in `Wire`.
* Creation and removal of local mailboxes while clients use them; several
  application threads that remove proxies at once.
* Several threads in one `d_array` or `d_struct`; reads of a container, which
  change nothing but the packed form of an element.
* Deque operations the program does not use (front push, back pop, trim,
  `add_all`); the rest of the test driver.

## 8. Plan

Done in this order: session, hash table, mailboxes, server, registry, call
arguments, deque; proofs of session, registry and server; containers and their
buffers, the TCP transport with its handshake, copies of mailboxes, calls that
fail and calls over TCP; proofs of mailboxes, containers, the deque, the TCP
session, call arguments and the hash table. Next:

1. `Wire` with close and send in two steps each.
2. `Mailbox` with removal; proxied calls nested in calls, two servers that
   proxy each other.
