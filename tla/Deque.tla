--------------------------------- MODULE Deque ---------------------------------
(***************************************************************************)
(* queue.c and the part of deque.c it uses: push at the back, pop at the   *)
(* front.  Items are kept in blocks of block_size, the pointers to which   *)
(* are in the array data.  start_index and end_index count items across    *)
(* all of data.  A push that finds the array full moves the blocks to its  *)
(* front, if they left room enough there, or enlarges it; a push that      *)
(* finds the last block full reuses the first one, if it is empty, or      *)
(* allocates one.                                                          *)
(*                                                                         *)
(* Push and pop hold the queue's mutex.  queue_count does not: it reads    *)
(* the two indices one after the other.  Only the two assignments to them  *)
(* in the middle of a push are therefore steps of their own.               *)
(***************************************************************************)
EXTENDS Naturals, Integers, Sequences, FiniteSets

CONSTANTS
  Values,             \* the pointers in the queue
  NULL,               \* what queue_pop returns from an empty queue
  GARBAGE,            \* what memory holds that nobody has written to
  BlockSize,          \* block_size
  InitialBlockCount,  \* BKTHOMPS_DEQUE_INITIAL_BLOCK_COUNT
  Counting,           \* a thread calls queue_count
  OthersPop,          \* other threads than the one that counts pop
  MaxItems            \* bound: items in the queue

ASSUME DequeAssumption ==
  /\ NULL \notin Values /\ GARBAGE \notin Values
  /\ BlockSize \in Nat \ {0}
  /\ InitialBlockCount \in Nat \ {0, 1}
  /\ Counting \in BOOLEAN /\ OthersPop \in BOOLEAN
  /\ MaxItems \in Nat

VARIABLES
  data,               \* the array of block pointers, as long as block_count
  start_index, end_index, alloc_block_start, alloc_block_end,
  blocks,             \* the contents of the blocks allocated so far
  pushing,            \* what the push that has begun pushes, or NULL
  shift,              \* its shift_start, while end_index is not moved yet
  popped,             \* what the last queue_pop returned
  count,              \* where queue_count is, what it read, what it returned
  seen,               \* history: the sizes the queue has had since it began
  moved               \* history: a push has moved the blocks since then

vars == <<data, start_index, end_index, alloc_block_start, alloc_block_end,
          blocks, pushing, shift, popped, count, seen, moved>>

block_count == Cardinality(DOMAIN data)

\* The position in a block and the block an index stands for.
Inner(index) == index % BlockSize
Block(index) == index \div BlockSize

\* The number of items, whatever a push has done to the indices so far.
Size == end_index - shift - start_index

\* block_size / 2 * count of blocks into data, with one block there.
Init ==
  /\ start_index = (BlockSize * InitialBlockCount) \div 2
  /\ end_index = start_index
  /\ alloc_block_start = Block(start_index)
  /\ alloc_block_end = alloc_block_start
  /\ blocks = <<[i \in 0 .. BlockSize - 1 |-> GARBAGE]>>
  /\ data = [b \in 0 .. InitialBlockCount - 1 |->
               IF b = alloc_block_start THEN 1 ELSE GARBAGE]
  /\ pushing = NULL
  /\ shift = 0
  /\ popped = NULL
  /\ count = [at |-> "idle", end |-> 0, start |-> 0]
  /\ seen = {}
  /\ moved = FALSE

\* size may have changed, as a counting thread would have it.
Saw(size) == seen' = IF count.at = "idle" THEN {} ELSE seen \cup {size}

-----------------------------------------------------------------------------
(* queue_push: deque_push_back *)

\* There is no room at the end of data.
Full == end_index = block_count * BlockSize

\* There is so much room at its front that the blocks are moved.
RoomInFront == alloc_block_start > InitialBlockCount

\* The mutex is taken and data enlarged if need be.
PushBegin(v) ==
  /\ pushing = NULL
  /\ Size < MaxItems
  /\ ~ (Full /\ RoomInFront)
  /\ pushing' = v
  /\ data' = IF Full
       THEN [b \in 0 .. (block_count * 3) \div 2 - 1 |->
               IF b < block_count THEN data[b] ELSE GARBAGE]
       ELSE data
  /\ UNCHANGED <<start_index, end_index, alloc_block_start, alloc_block_end,
                 blocks, shift, popped, count, seen, moved>>

\* Or memmove, and the assignment to start_index.
PushShift(v) ==
  /\ pushing = NULL
  /\ Size < MaxItems
  /\ Full /\ RoomInFront
  /\ pushing' = v
  /\ shift' = (alloc_block_start - alloc_block_start \div 2) * BlockSize
  /\ data' = [b \in DOMAIN data |->
               LET first == alloc_block_start \div 2
                   from == alloc_block_start + b - first
               IN  IF b >= first /\ from <= alloc_block_end THEN data[from] ELSE data[b]]
  /\ start_index' = start_index - shift'
  /\ moved' = (count.at # "idle")
  /\ UNCHANGED <<end_index, alloc_block_start, alloc_block_end, blocks, popped,
                 count, seen>>

\* Mutant: alloc_block_end is not moved.
PushShiftedEndStays ==
  /\ shift > 0
  /\ end_index' = end_index - shift
  /\ alloc_block_start' = alloc_block_start - shift \div BlockSize
  /\ shift' = 0
  /\ UNCHANGED <<data, start_index, alloc_block_end, blocks, pushing, popped,
                 count, seen, moved>>

\* The assignments to end_index and to the other two.
PushShifted ==
  /\ shift > 0
  /\ end_index' = end_index - shift
  /\ alloc_block_start' = alloc_block_start - shift \div BlockSize
  /\ alloc_block_end' = alloc_block_end - shift \div BlockSize
  /\ shift' = 0
  /\ UNCHANGED <<data, start_index, blocks, pushing, popped, count, seen, moved>>

\* Mutant: a first block that is in use is reused.
FirstBlockFreeTooEarly == Block(start_index) >= alloc_block_start

\* The first block has been emptied.
FirstBlockFree == Block(start_index) > alloc_block_start

\* A block for the item is found, the item stored, end_index incremented.
PushEnd ==
  /\ pushing # NULL /\ shift = 0
  /\ LET needed == Inner(end_index) = 0 /\ Block(end_index) > alloc_block_end
         reuse == needed /\ FirstBlockFree
         fresh == needed /\ ~ FirstBlockFree
         block == IF reuse THEN data[alloc_block_start]
                  ELSE IF fresh THEN Len(blocks) + 1 ELSE data[Block(end_index)]
         grown == IF fresh THEN Append(blocks, [i \in 0 .. BlockSize - 1 |-> GARBAGE])
                  ELSE blocks
     IN  /\ data' = [data EXCEPT ![Block(end_index)] = block]
         /\ blocks' = [grown EXCEPT ![block][Inner(end_index)] = pushing]
         /\ alloc_block_start' = alloc_block_start + (IF reuse THEN 1 ELSE 0)
         /\ alloc_block_end' = alloc_block_end + (IF needed THEN 1 ELSE 0)
  /\ end_index' = end_index + 1
  /\ pushing' = NULL
  /\ Saw(Size + 1)
  /\ UNCHANGED <<start_index, shift, popped, count, moved>>

-----------------------------------------------------------------------------
(* queue_pop: deque_pop_front *)

\* deque_is_empty.
Empty == Size = 0

Pop ==
  /\ pushing = NULL
  /\ OthersPop \/ count.at = "idle"
  /\ IF Empty
       THEN /\ popped' = NULL
            /\ UNCHANGED <<start_index, seen>>
       ELSE /\ popped' = blocks[data[Block(start_index)]][Inner(start_index)]
            /\ start_index' = start_index + 1
            /\ Saw(Size - 1)
  /\ UNCHANGED <<data, end_index, alloc_block_start, alloc_block_end, blocks,
                 pushing, shift, count, moved>>

-----------------------------------------------------------------------------
(* queue_count: deque_size.  C leaves open which index is read first. *)

CountBegin ==
  /\ Counting
  /\ count.at = "idle"
  /\ \/ count' = [at |-> "end", end |-> 0, start |-> start_index]
     \/ count' = [at |-> "start", end |-> end_index, start |-> 0]
  /\ seen' = {Size}
  /\ moved' = (shift > 0)
  /\ UNCHANGED <<data, start_index, end_index, alloc_block_start,
                 alloc_block_end, blocks, pushing, shift, popped>>

\* Mutant: the slots of the last block count as used.
CountEndCapacity ==
  /\ \/ /\ count.at = "end"
        /\ count' = [count EXCEPT !.at = "done", !.end = (alloc_block_end + 1) * BlockSize]
     \/ /\ count.at = "start"
        /\ count' = [count EXCEPT !.at = "done", !.start = start_index]
  /\ UNCHANGED <<data, start_index, end_index, alloc_block_start,
                 alloc_block_end, blocks, pushing, shift, popped, seen, moved>>

\* The other index.
CountEnd ==
  /\ \/ /\ count.at = "end"
        /\ count' = [count EXCEPT !.at = "done", !.end = end_index]
     \/ /\ count.at = "start"
        /\ count' = [count EXCEPT !.at = "done", !.start = start_index]
  /\ UNCHANGED <<data, start_index, end_index, alloc_block_start,
                 alloc_block_end, blocks, pushing, shift, popped, seen, moved>>

\* queue_count has returned.
CountReturned ==
  /\ count.at = "done"
  /\ count' = [at |-> "idle", end |-> 0, start |-> 0]
  /\ seen' = {}
  /\ moved' = FALSE
  /\ UNCHANGED <<data, start_index, end_index, alloc_block_start,
                 alloc_block_end, blocks, pushing, shift, popped>>

-----------------------------------------------------------------------------
Next ==
  \/ \E v \in Values : PushBegin(v) \/ PushShift(v)
  \/ PushShifted \/ PushEnd
  \/ Pop
  \/ CountBegin \/ CountEnd \/ CountReturned

Spec == Init /\ [][Next]_vars

-----------------------------------------------------------------------------
Allocated == alloc_block_start .. alloc_block_end

\* The types of the variables, and the indices within the table of blocks.
TypeOK ==
  /\ data \in [0 .. block_count - 1 -> DOMAIN blocks \cup {GARBAGE}]
  /\ blocks \in Seq([0 .. BlockSize - 1 -> Values \cup {GARBAGE}])
  /\ start_index \in 0 .. block_count * BlockSize
  /\ end_index \in start_index .. block_count * BlockSize
  /\ alloc_block_start \in DOMAIN data /\ alloc_block_end \in DOMAIN data
  /\ pushing \in Values \cup {NULL}
  /\ shift \in 0 .. block_count * BlockSize
  /\ popped \in Values \cup {NULL}
  /\ count.at \in {"idle", "end", "start", "done"}
  /\ Size \in 0 .. MaxItems

\* Between two pushes, every block that was ever allocated has exactly one
\* place among those the deque counts as its own: reusing, moving and
\* enlarging neither lose a block nor put two items in one place.
BlocksOwned ==
  /\ TypeOK
  /\ pushing = NULL =>
       /\ {data[b] : b \in Allocated} = DOMAIN blocks
       /\ Cardinality(Allocated) = Len(blocks)

\* The items from start_index to end_index are a queue: nothing the deque does
\* to its blocks loses, duplicates or reorders an item.
Items == [k \in 1 .. Size |->
            blocks[data[Block(start_index + k - 1)]][Inner(start_index + k - 1)]]

Queue == INSTANCE Fifo WITH items <- Items

ImplementsFifo == Queue!Spec

\* deque_size is the number of data spaces being used (deque.c:94): what
\* queue_count returns, without the lock, is a size the queue had while it was
\* called, if its caller is the only thread that pops and no push moved the
\* blocks meanwhile.
CountWasSizeIfAlone ==
  count.at = "done" /\ ~moved => count.end - count.start \in seen
=============================================================================
