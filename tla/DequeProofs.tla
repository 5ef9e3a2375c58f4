----------------------------- MODULE DequeProofs -----------------------------
(***************************************************************************)
(* The deque is a queue, for blocks of any size, any number of them and    *)
(* any pushes and pops: moving, enlarging and reusing blocks loses no      *)
(* block, and no item, and changes the order of none.  And what the        *)
(* unlocked queue_count returns is a size the queue had.                   *)
(*                                                                         *)
(* A push that has moved the blocks has not moved all indices yet.  The    *)
(* invariant is therefore about the indices as they will be (First, Final  *)
(* and End), which PushShifted does not change.                            *)
(***************************************************************************)
EXTENDS Deque, FiniteSetTheorems, FunctionTheorems, SequenceTheorems, TLAPS

\* How many blocks the indices are still ahead by, and the indices without it.
Ahead == shift \div BlockSize
First == alloc_block_start - Ahead
Final == alloc_block_end - Ahead
End == end_index - shift

Slot == 0 .. BlockSize - 1
Contents == [Slot -> Values \cup {GARBAGE}]

\* The item at an index.
Item(i) == blocks[data[Block(i)]][Inner(i)]

IndexInv ==
  /\ block_count \in Nat \ {0, 1} /\ DOMAIN data = 0 .. block_count - 1
  /\ start_index \in Nat /\ end_index \in Nat /\ shift \in Nat
  /\ alloc_block_start \in Nat /\ alloc_block_end \in Nat
  /\ Ahead \in Nat /\ shift = Ahead * BlockSize
  /\ First \in Nat /\ First <= Final /\ alloc_block_end < block_count
  /\ First * BlockSize <= start_index /\ start_index <= End
  /\ Final * BlockSize <= End /\ End <= (Final + 1) * BlockSize
  /\ shift > 0 => pushing # NULL
  /\ pushing # NULL => End < block_count * BlockSize
  /\ Size <= MaxItems /\ (pushing # NULL => Size < MaxItems)

\* The blocks that are the deque's are all there are, each at one place.
BlocksInv ==
  /\ data \in [DOMAIN data -> DOMAIN blocks \cup {GARBAGE}]
  /\ blocks \in Seq(Contents)
  /\ {data[b] : b \in First .. Final} = DOMAIN blocks
  /\ \A b, c \in First .. Final : data[b] = data[c] => b = c

\* No item is a slot nobody wrote to.
ItemsInv ==
  /\ \A i \in start_index .. End - 1 : Item(i) \in Values
  /\ pushing \in Values \cup {NULL} /\ popped \in Values \cup {NULL}

DequeInv == IndexInv /\ BlocksInv /\ ItemsInv

-----------------------------------------------------------------------------
(* Indices and blocks *)

LEMMA Quotient ==
  ASSUME NEW q \in Nat, NEW r \in 0 .. BlockSize - 1
  PROVE  /\ Block(q * BlockSize + r) = q
         /\ Inner(q * BlockSize + r) = r
BY DequeAssumption DEF Block, Inner

LEMMA Division ==
  ASSUME NEW n \in Nat
  PROVE  /\ Block(n) \in Nat /\ Inner(n) \in Slot
         /\ n = Block(n) * BlockSize + Inner(n)
BY DequeAssumption DEF Block, Inner, Slot

LEMMA BlockBelow ==
  ASSUME NEW n \in Nat, NEW q \in Nat
  PROVE  n < q * BlockSize <=> Block(n) < q
BY DequeAssumption DEF Block

LEMMA TimesMonotone ==
  ASSUME NEW q \in Int, NEW r \in Int, q <= r
  PROVE  /\ q * BlockSize \in Int /\ r * BlockSize \in Int
         /\ q * BlockSize <= r * BlockSize
BY DequeAssumption

LEMMA BlockMonotone ==
  ASSUME NEW m \in Nat, NEW n \in Nat, m <= n
  PROVE  Block(m) <= Block(n)
BY DequeAssumption DEF Block

\* Where the first slot of a block is.
LEMMA AtBoundary ==
  ASSUME NEW n \in Nat, NEW q \in Nat, q * BlockSize <= n, n <= (q + 1) * BlockSize
  PROVE  IF n = (q + 1) * BlockSize
         THEN Block(n) = q + 1 /\ Inner(n) = 0
         ELSE Block(n) = q /\ n + 1 <= (q + 1) * BlockSize
<1>1. CASE n = (q + 1) * BlockSize
  BY <1>1, DequeAssumption DEF Block, Inner
<1>2. CASE n # (q + 1) * BlockSize
  <2>1. n < (q + 1) * BlockSize /\ n + 1 <= (q + 1) * BlockSize
    BY <1>2, DequeAssumption
  <2>2. Block(n) < q + 1 /\ ~ (Block(n) < q) /\ Block(n) \in Nat
    BY <2>1, BlockBelow, Division, DequeAssumption
  <2> QED
    BY <1>2, <2>1, <2>2
<1> QED
  BY <1>1, <1>2

\* Moving by whole blocks.
LEMMA BlockMoves ==
  ASSUME NEW n \in Nat, NEW d \in Nat, d * BlockSize <= n
  PROVE  /\ n - d * BlockSize \in Nat
         /\ Block(n - d * BlockSize) = Block(n) - d
         /\ Inner(n - d * BlockSize) = Inner(n)
<1> DEFINE q == Block(n)
           r == Inner(n)
<1>1. q \in Nat /\ r \in Slot /\ n = q * BlockSize + r
  BY Division
<1>2. q - d \in Nat
  <2>1. ~ (q < d) BY BlockBelow, DequeAssumption
  <2> QED BY <1>1, <2>1
<1> HIDE DEF q, r
<1>3. n - d * BlockSize = (q - d) * BlockSize + r
  BY <1>1, DequeAssumption DEF Slot
<1>4. n - d * BlockSize \in Nat
  BY DequeAssumption
<1>5. Block((q - d) * BlockSize + r) = q - d /\ Inner((q - d) * BlockSize + r) = r
  BY <1>1, <1>2, Quotient DEF Slot
<1> QED
  BY <1>3, <1>4, <1>5 DEF q, r

\* Two indices in one block have different places there.
LEMMA PlacesDiffer ==
  ASSUME NEW m \in Nat, NEW n \in Nat, m # n, Block(m) = Block(n)
  PROVE  Inner(m) # Inner(n)
<1>1. /\ m = Block(m) * BlockSize + Inner(m)
      /\ n = Block(n) * BlockSize + Inner(n)
  BY Division
<1> QED
  BY <1>1

\* The size of a table of n blocks.
LEMMA TableSize == ASSUME NEW n \in Nat PROVE Cardinality(0 .. n - 1) = n
<1>1. Cardinality(0 .. n - 1) = IF 0 > n - 1 THEN 0 ELSE n - 1 - 0 + 1
  BY FS_Interval
<1> QED
  BY <1>1

\* The items are in blocks of the deque.
LEMMA ItemsOwned ==
  ASSUME IndexInv, NEW i \in start_index .. End - 1
  PROVE  /\ i \in Nat /\ Block(i) \in First .. Final /\ Inner(i) \in Slot
         /\ Block(i) >= Block(start_index)
<1>1. /\ start_index \in Nat /\ End \in Nat /\ First \in Nat /\ Final \in Nat
      /\ First * BlockSize <= start_index /\ End <= (Final + 1) * BlockSize
  BY DEF IndexInv, End, First, Final
<1>2. i \in Nat /\ start_index <= i /\ i < End
  BY <1>1
<1>3. Block(i) \in Nat /\ Inner(i) \in Slot /\ Block(i) >= Block(start_index)
  BY <1>1, <1>2, Division, BlockMonotone
<1>4. ~ (Block(i) < First)
  <2>1. ~ (i < First * BlockSize)
    BY <1>1, <1>2, DequeAssumption
  <2> QED
    BY <1>1, <1>2, <2>1, BlockBelow
<1>5. Block(i) < Final + 1
  <2>1. i < (Final + 1) * BlockSize
    BY <1>1, <1>2, DequeAssumption
  <2> QED
    BY <1>1, <1>2, <2>1, BlockBelow
<1> QED
  BY <1>1, <1>2, <1>3, <1>4, <1>5

\* What the indices are, as numbers.
LEMMA IndexNumbers ==
  ASSUME IndexInv
  PROVE  /\ block_count \in Nat \ {0, 1} /\ DOMAIN data = 0 .. block_count - 1
         /\ start_index \in Nat /\ end_index \in Nat /\ shift \in Nat /\ End \in Nat
         /\ alloc_block_start \in Nat /\ alloc_block_end \in Nat
         /\ Ahead \in Nat /\ First \in Nat /\ Final \in Nat /\ First <= Final
         /\ alloc_block_end < block_count /\ Final < block_count
         /\ Size = End - start_index /\ Size \in Nat
         /\ First .. Final \subseteq DOMAIN data
<1>1. /\ block_count \in Nat \ {0, 1} /\ DOMAIN data = 0 .. block_count - 1
      /\ start_index \in Nat /\ end_index \in Nat /\ shift \in Nat
      /\ alloc_block_start \in Nat /\ alloc_block_end \in Nat
      /\ Ahead \in Nat /\ First \in Nat /\ First <= Final
      /\ alloc_block_end < block_count /\ start_index <= End
  BY DEF IndexInv
<1>2. Final = alloc_block_end - Ahead /\ End = end_index - shift
      /\ Size = end_index - shift - start_index
  BY DEF Final, End, Size
<1>3. First \in Int /\ Final \in Int /\ First <= Final
  BY <1>1, <1>2
<1> QED
  BY <1>1, <1>2, <1>3

\* While the indices are not being moved.
LEMMA NotAhead ==
  ASSUME IndexInv, shift = 0
  PROVE  /\ Ahead = 0 /\ First = alloc_block_start /\ Final = alloc_block_end
         /\ End = end_index
<1>1. Ahead = 0
  BY DequeAssumption DEF Ahead
<1> QED
  BY <1>1, IndexNumbers DEF First, Final, End

LEMMA InitDequeInv == Init => DequeInv
<1> SUFFICES ASSUME Init PROVE DequeInv
  OBVIOUS
<1> DEFINE s == (BlockSize * InitialBlockCount) \div 2
<1>1. s \in Nat /\ s < InitialBlockCount * BlockSize
  BY DequeAssumption
<1>2. /\ Block(s) \in Nat /\ Inner(s) \in Slot /\ Block(s) < InitialBlockCount
      /\ Block(s) * BlockSize <= s /\ s <= (Block(s) + 1) * BlockSize
  <2>1. Block(s) < InitialBlockCount
    BY <1>1, BlockBelow, DequeAssumption
  <2>2. /\ Block(s) \in Nat /\ Inner(s) \in Slot
        /\ s = Block(s) * BlockSize + Inner(s)
    BY <1>1, Division
  <2> QED
    BY <1>1, <2>1, <2>2, DequeAssumption DEF Slot
<1>3. block_count = InitialBlockCount /\ DOMAIN data = 0 .. InitialBlockCount - 1
  BY TableSize, DequeAssumption DEF Init, block_count
<1>4. /\ start_index = s /\ end_index = s /\ shift = 0
      /\ alloc_block_start = Block(s) /\ alloc_block_end = Block(s)
  BY DEF Init
<1> HIDE DEF s
<1>5. Ahead = 0 /\ First = Block(s) /\ Final = Block(s) /\ End = s /\ Size = 0
  <2>1. Ahead = 0
    BY <1>4, DequeAssumption DEF Ahead
  <2> QED
    BY <1>1, <1>2, <1>4, <2>1 DEF First, Final, End, Size
<1>6. IndexInv
  <2>1. pushing = NULL
    BY DEF Init
  <2> QED
    BY <1>1, <1>2, <1>3, <1>4, <1>5, <2>1, DequeAssumption DEF IndexInv
<1>7. BlocksInv
  <2>1. [i \in 0 .. BlockSize - 1 |-> GARBAGE] \in Contents
    BY DEF Contents, Slot
  <2>2. blocks \in Seq(Contents) /\ DOMAIN blocks = {1}
    BY <2>1 DEF Init
  <2>3. data[Block(s)] = 1
    BY <1>2, <1>4, DequeAssumption DEF Init
  <2>4. data \in [DOMAIN data -> DOMAIN blocks \cup {GARBAGE}]
    BY <1>3, <2>2 DEF Init
  <2>5. First .. Final = {Block(s)}
    BY <1>2, <1>5
  <2>6. {data[b] : b \in First .. Final} = DOMAIN blocks
    BY <2>2, <2>3, <2>5
  <2>7. \A b, c \in First .. Final : data[b] = data[c] => b = c
    BY <2>5
  <2> QED
    BY <2>2, <2>4, <2>6, <2>7 DEF BlocksInv
<1>8. ItemsInv
  BY <1>1, <1>4, <1>5 DEF ItemsInv, Init
<1> QED
  BY <1>6, <1>7, <1>8 DEF DequeInv

-----------------------------------------------------------------------------
(* The steps of a push *)

\* The deque holds the same if its items can be found where they were.
LEMMA SameItems ==
  ASSUME IndexInv, UNCHANGED <<start_index, blocks>>, Size' = Size,
         \A i \in start_index .. End - 1 : data'[Block(i)] = data[Block(i)]
  PROVE  /\ Items' = Items
         /\ \A i \in start_index .. End - 1 : Item(i)' = Item(i)
<1>1. \A k \in 1 .. Size : start_index + k - 1 \in start_index .. End - 1
  BY IndexNumbers
<1> QED
  BY <1>1 DEF Items, Item

LEMMA PushBeginStep ==
  ASSUME DequeInv, NEW v \in Values, PushBegin(v)
  PROVE  DequeInv' /\ UNCHANGED <<Items, popped>>
<1>1. /\ pushing = NULL /\ Size < MaxItems /\ pushing' = v /\ v # NULL
      /\ UNCHANGED <<start_index, end_index, alloc_block_start, alloc_block_end,
                     blocks, shift, popped>>
  BY DequeAssumption DEF PushBegin
<1>2. shift = 0
  BY <1>1 DEF DequeInv, IndexInv
<1>3. UNCHANGED <<Ahead, First, Final, End, Size>>
  BY <1>1 DEF Ahead, First, Final, End, Size
<1>4. PICK n \in Nat :
        /\ n >= block_count /\ End < n * BlockSize
        /\ data' = [b \in 0 .. n - 1 |-> IF b < block_count THEN data[b] ELSE GARBAGE]
  <2>1. /\ block_count \in Nat \ {0, 1} /\ end_index \in Nat /\ End = end_index
        /\ DOMAIN data = 0 .. block_count - 1 /\ Final < block_count
        /\ Final \in Nat /\ End <= (Final + 1) * BlockSize
        /\ data \in [DOMAIN data -> DOMAIN blocks \cup {GARBAGE}]
    BY <1>2, NotAhead, IndexNumbers DEF DequeInv, IndexInv, BlocksInv
  <2>2. CASE Full
    <3>1. PICK n \in Nat : n = (block_count * 3) \div 2 /\ n > block_count
      BY <2>1
    <3>2. (block_count + 1) * BlockSize <= n * BlockSize
      BY <2>1, <3>1, TimesMonotone
    <3>3. end_index < (block_count + 1) * BlockSize
      BY <2>1, <2>2, DequeAssumption DEF Full
    <3>4. End < n * BlockSize
      <4>1. n * BlockSize \in Int /\ (block_count + 1) * BlockSize \in Int
        BY <2>1, DequeAssumption
      <4> QED
        BY <2>1, <3>2, <3>3, <4>1
    <3>5. data' = [b \in 0 .. n - 1 |-> IF b < block_count THEN data[b] ELSE GARBAGE]
      BY <2>2, <3>1 DEF PushBegin
    <3> QED
      BY <2>1, <3>1, <3>4, <3>5
  <2>3. CASE ~ Full
    <3>1. End <= block_count * BlockSize
      BY <2>1, DequeAssumption
    <3>2. End < block_count * BlockSize
      BY <2>1, <2>3, <3>1, DequeAssumption DEF Full
    <3>3. data = [b \in 0 .. block_count - 1 |-> IF b < block_count THEN data[b] ELSE GARBAGE]
      BY <2>1
    <3> QED
      BY <2>1, <2>3, <3>2, <3>3 DEF PushBegin
  <2> QED
    BY <2>2, <2>3
<1>5. block_count' = n /\ DOMAIN data' = 0 .. n - 1
  BY <1>4, TableSize DEF block_count
<1>6. /\ First .. Final \subseteq DOMAIN data /\ First .. Final \subseteq DOMAIN data'
      /\ \A b \in First .. Final : data'[b] = data[b]
  BY <1>4, <1>5, IndexNumbers DEF DequeInv
<1>7. IndexInv'
  <2>1. alloc_block_end < n /\ n \in Nat \ {0, 1}
    BY <1>4, IndexNumbers DEF DequeInv
  <2> QED
    BY <1>1, <1>3, <1>4, <1>5, <2>1 DEF DequeInv, IndexInv
<1>8. BlocksInv'
  <2>1. data' \in [DOMAIN data' -> DOMAIN blocks \cup {GARBAGE}]
    BY <1>4, <1>5, IndexNumbers DEF DequeInv, BlocksInv
  <2>2. {data'[b] : b \in First .. Final} = {data[b] : b \in First .. Final}
    BY <1>6
  <2> QED
    BY <1>1, <1>3, <1>6, <2>1, <2>2 DEF DequeInv, BlocksInv
<1>9. /\ Items' = Items
      /\ \A i \in start_index .. End - 1 : Item(i)' = Item(i)
  BY <1>1, <1>3, <1>6, SameItems, ItemsOwned DEF DequeInv
<1>10. ItemsInv'
  BY <1>1, <1>3, <1>9 DEF DequeInv, ItemsInv
<1> QED
  BY <1>1, <1>7, <1>8, <1>9, <1>10 DEF DequeInv

LEMMA PushShiftStep ==
  ASSUME DequeInv, NEW v \in Values, PushShift(v)
  PROVE  DequeInv' /\ UNCHANGED <<Items, popped>>
<1> DEFINE B == BlockSize
           n == block_count
<1>0. PICK d : d = alloc_block_start - alloc_block_start \div 2
  OBVIOUS
<1>1. /\ pushing = NULL /\ Size < MaxItems /\ pushing' = v /\ v # NULL
      /\ Full /\ RoomInFront
      /\ shift' = d * B /\ start_index' = start_index - shift'
      /\ UNCHANGED <<end_index, alloc_block_start, alloc_block_end, blocks, popped>>
  BY <1>0, DequeAssumption DEF PushShift
<1>2. shift = 0
  BY <1>1 DEF DequeInv, IndexInv
<1>3. /\ n \in Nat \ {0, 1} /\ DOMAIN data = 0 .. n - 1
      /\ start_index \in Nat /\ end_index \in Nat /\ start_index <= end_index
      /\ alloc_block_start \in Nat /\ alloc_block_end \in Nat
      /\ alloc_block_start <= alloc_block_end /\ alloc_block_end < n
      /\ alloc_block_start * B <= start_index
      /\ alloc_block_end * B <= end_index /\ end_index <= (alloc_block_end + 1) * B
      /\ end_index = n * B /\ Size = end_index - start_index
  BY <1>1, <1>2, NotAhead, IndexNumbers DEF DequeInv, IndexInv, Full
<1>4. /\ First = alloc_block_start /\ Final = alloc_block_end /\ End = end_index
  BY <1>2, NotAhead DEF DequeInv
<1>5. d \in Nat /\ d > 0 /\ d < alloc_block_start /\ B \in Nat \ {0}
  BY <1>0, <1>1, <1>3, DequeAssumption DEF RoomInFront
<1>6. /\ data' = [b \in DOMAIN data |->
                   IF b >= alloc_block_start - d /\ b + d <= alloc_block_end
                   THEN data[b + d] ELSE data[b]]
  <2>1. alloc_block_start \div 2 = alloc_block_start - d
    BY <1>0, <1>3
  <2>2. \A b \in DOMAIN data :
          alloc_block_start + b - alloc_block_start \div 2 = b + d
    BY <1>0, <1>3
  <2> QED
    BY <2>1, <2>2 DEF PushShift
<1>7. PICK m \in Nat : m = d * B /\ m > 0 /\ m <= start_index /\ m <= end_index
  <2>1. d * B \in Nat /\ d * B > 0 /\ d * B <= alloc_block_start * B
    BY <1>3, <1>5, TimesMonotone
  <2>2. alloc_block_start * B \in Nat
    BY <1>3, <1>5
  <2> QED
    BY <1>3, <2>1, <2>2
<1>8. Ahead' = d
  <2>1. 0 \in 0 .. BlockSize - 1
    BY DequeAssumption
  <2>2. Block(d * BlockSize + 0) = d
    BY <1>5, <2>1, Quotient
  <2>3. d * BlockSize + 0 = d * BlockSize
    BY <1>7
  <2> QED
    BY <1>1, <2>2, <2>3 DEF Ahead, Block
<1>9. /\ First' = First - d /\ Final' = Final - d /\ End' = End - m
      /\ Size' = Size /\ start_index' = start_index - m /\ start_index' \in Nat
      /\ End' \in Nat /\ End \in Nat /\ start_index \in Nat /\ Size = End - start_index
  BY <1>1, <1>2, <1>3, <1>4, <1>5, <1>7, <1>8 DEF First, Final, End, Size
<1>10. DOMAIN data' = DOMAIN data /\ block_count' = n
  BY <1>6 DEF block_count
<1>11. \A b \in First .. Final : b - d \in DOMAIN data /\ data'[b - d] = data[b]
  BY <1>3, <1>4, <1>5, <1>6
<1>12. IndexInv'
  <2>1. /\ (First - d) * B <= start_index - m
        /\ (Final - d) * B <= End - m
        /\ End - m <= (Final - d + 1) * B
    BY <1>3, <1>4, <1>5, <1>7
  <2>2. /\ First' * B <= start_index' /\ Final' * B <= End'
        /\ End' <= (Final' + 1) * B
    BY <1>9, <2>1
  <2>3. End' < block_count' * B
    BY <1>3, <1>4, <1>7, <1>9, <1>10
  <2>4. /\ First' \in Nat /\ First' <= Final' /\ start_index' <= End'
        /\ alloc_block_end' < block_count'
    BY <1>1, <1>3, <1>4, <1>5, <1>7, <1>9, <1>10
  <2>5. /\ shift' \in Nat /\ shift' = Ahead' * B /\ Ahead' \in Nat
    BY <1>1, <1>5, <1>7, <1>8
  <2>6. /\ block_count' \in Nat \ {0, 1} /\ DOMAIN data' = 0 .. block_count' - 1
        /\ end_index' \in Nat /\ alloc_block_start' \in Nat /\ alloc_block_end' \in Nat
    BY <1>1, <1>3, <1>10
  <2>7. pushing' # NULL /\ Size' < MaxItems /\ Size' <= MaxItems
    BY <1>1, <1>3, <1>9, DequeAssumption
  <2> QED
    BY <1>9, <2>2, <2>3, <2>4, <2>5, <2>6, <2>7 DEF IndexInv
<1>13. BlocksInv'
  <2>1. data' \in [DOMAIN data' -> DOMAIN blocks \cup {GARBAGE}]
    <3>1. data \in [DOMAIN data -> DOMAIN blocks \cup {GARBAGE}]
      BY DEF DequeInv, BlocksInv
    <3>2. \A b \in DOMAIN data :
            b >= alloc_block_start - d /\ b + d <= alloc_block_end => b + d \in DOMAIN data
      BY <1>3, <1>5
    <3> QED
      BY <1>6, <3>1, <3>2
  <2>2. \A c \in First' .. Final' : c + d \in First .. Final /\ data'[c] = data[c + d]
    BY <1>3, <1>4, <1>5, <1>9, <1>11
  <2>3. \A c \in First .. Final : c - d \in First' .. Final' /\ data[c] = data'[c - d]
    BY <1>3, <1>4, <1>5, <1>9, <1>11
  <2>4. {data'[b] : b \in First' .. Final'} = {data[b] : b \in First .. Final}
    BY <2>2, <2>3
  <2>5. \A b, c \in First' .. Final' : data'[b] = data'[c] => b = c
    <3> SUFFICES ASSUME NEW b \in First' .. Final', NEW c \in First' .. Final',
                        data'[b] = data'[c]
                 PROVE  b = c
      OBVIOUS
    <3>1. b + d = c + d
      BY <2>2 DEF DequeInv, BlocksInv
    <3> QED
      BY <1>3, <1>4, <1>5, <1>9, <3>1
  <2> QED
    BY <1>1, <2>1, <2>4, <2>5 DEF DequeInv, BlocksInv
<1>14. \A j \in start_index' .. End' - 1 :
         j + m \in start_index .. End - 1 /\ Item(j)' = Item(j + m)
  <2> SUFFICES ASSUME NEW j \in start_index' .. End' - 1
               PROVE  j + m \in start_index .. End - 1 /\ Item(j)' = Item(j + m)
    OBVIOUS
  <2>1. j + m \in start_index .. End - 1 /\ j = (j + m) - m /\ m <= j + m
    BY <1>7, <1>9
  <2>2. j + m \in Nat /\ Block(j + m) \in First .. Final
    BY <2>1, ItemsOwned DEF DequeInv
  <2>3. Block(j) = Block(j + m) - d /\ Inner(j) = Inner(j + m)
    BY <1>5, <1>7, <2>1, <2>2, BlockMoves
  <2>4. data'[Block(j)] = data[Block(j + m)]
    BY <1>11, <2>2, <2>3
  <2> QED
    BY <1>1, <2>1, <2>3, <2>4 DEF Item
<1>15. Items' = Items
  <2>1. PICK s \in Nat : s = start_index'
    BY <1>9
  <2>2. \A k \in 1 .. Size :
          s + k - 1 \in start_index' .. End' - 1 /\ s + k - 1 + m = start_index + k - 1
    BY <1>7, <1>9, <2>1
  <2>3. \A k \in 1 .. Size : Item(s + k - 1)' = Item(start_index + k - 1)
    BY <1>14, <2>2
  <2>4. Items = [k \in 1 .. Size |-> Item(start_index + k - 1)]
    BY DEF Items, Item
  <2>5. Items' = [k \in 1 .. Size |-> Item(s + k - 1)']
    BY <1>9, <2>1 DEF Items, Item
  <2> QED
    BY <2>3, <2>4, <2>5
<1>16. ItemsInv'
  BY <1>1, <1>14 DEF DequeInv, ItemsInv
<1> QED
  BY <1>1, <1>12, <1>13, <1>15, <1>16 DEF DequeInv

LEMMA PushShiftedStep ==
  ASSUME DequeInv, PushShifted
  PROVE  DequeInv' /\ UNCHANGED <<Items, popped>>
<1>1. /\ shift > 0 /\ shift' = 0
      /\ end_index' = end_index - shift
      /\ alloc_block_start' = alloc_block_start - Ahead
      /\ alloc_block_end' = alloc_block_end - Ahead
      /\ UNCHANGED <<data, start_index, blocks, pushing, popped>>
  BY DEF PushShifted, Ahead
<1>2. Ahead' = 0
  BY <1>1, DequeAssumption DEF Ahead
<1>3. UNCHANGED <<First, Final, End, Size, block_count>>
  <2>1. /\ alloc_block_start \in Nat /\ alloc_block_end \in Nat /\ Ahead \in Nat
        /\ end_index \in Nat /\ shift \in Nat /\ start_index \in Nat
    BY IndexNumbers DEF DequeInv
  <2> QED
    BY <1>1, <1>2, <2>1 DEF First, Final, End, Size, block_count
<1>4. IndexInv'
  <2>1. alloc_block_start' = First /\ alloc_block_end' = Final /\ end_index' = End
    BY <1>1 DEF First, Final, End
  <2> QED
    BY <1>1, <1>2, <1>3, <2>1, IndexNumbers, DequeAssumption DEF DequeInv, IndexInv
<1>5. Items' = Items /\ \A i \in start_index .. End - 1 : Item(i)' = Item(i)
  BY <1>1, <1>3, SameItems DEF DequeInv
<1>6. BlocksInv' /\ ItemsInv'
  BY <1>1, <1>3, <1>5 DEF DequeInv, BlocksInv, ItemsInv
<1> QED
  BY <1>1, <1>4, <1>5, <1>6 DEF DequeInv

(***************************************************************************)
(* What PushEnd does, wherever it finds the block: the item is stored in   *)
(* it and no other slot is written, ...                                    *)
(***************************************************************************)
Written(block) ==
  /\ block \in DOMAIN blocks' /\ DOMAIN blocks' = DOMAIN blocks \cup {block}
  /\ blocks' \in Seq(Contents)
  /\ blocks'[block][Inner(end_index)] = pushing
  /\ \A x \in DOMAIN blocks : \A r \in Slot :
       x # block \/ r # Inner(end_index) => blocks'[x][r] = blocks[x][r]

\* ... the table of blocks leads to it and to the items that were there, ...
Found(block) ==
  /\ DOMAIN data' = DOMAIN data
  /\ data' \in [DOMAIN data -> DOMAIN blocks' \cup {GARBAGE}]
  /\ data'[Block(end_index)] = block
  /\ \A i \in start_index .. end_index - 1 :
       /\ data'[Block(i)] = data[Block(i)]
       /\ data[Block(i)] = block => Block(i) = Block(end_index)

\* ... and the deque's blocks are still all there are.
Kept ==
  /\ {data'[b] : b \in alloc_block_start' .. alloc_block_end'} = DOMAIN blocks'
  /\ \A b, c \in alloc_block_start' .. alloc_block_end' : data'[b] = data'[c] => b = c

Within ==
  /\ alloc_block_start' \in Nat /\ alloc_block_end' \in Nat
  /\ alloc_block_start' <= alloc_block_end' /\ alloc_block_end' < block_count
  /\ alloc_block_start' * BlockSize <= start_index
  /\ alloc_block_end' * BlockSize <= end_index + 1
  /\ end_index + 1 <= (alloc_block_end' + 1) * BlockSize

Placed(block) == Written(block) /\ Found(block) /\ Kept /\ Within

\* Storing an item in a block.
Stores(bs, x, r, v, new) == new = [bs EXCEPT ![x][r] = v]

LEMMA Stored ==
  ASSUME NEW bs \in Seq(Contents), NEW x \in DOMAIN bs, NEW r \in Slot,
         NEW v \in Values, NEW new, Stores(bs, x, r, v, new)
  PROVE  /\ new \in Seq(Contents) /\ DOMAIN new = DOMAIN bs
         /\ new[x][r] = v
         /\ \A y \in DOMAIN bs : \A p \in Slot :
              y # x \/ p # r => new[y][p] = bs[y][p]
<1>1. bs[x] \in Contents /\ x \in 1 .. Len(bs)
  BY ElementOfSeq, LenProperties
<1>2. [bs[x] EXCEPT ![r] = v] \in Contents
  BY <1>1 DEF Contents
<1>3. new = [bs EXCEPT ![x] = [bs[x] EXCEPT ![r] = v]]
  BY DEF Stores
<1>4. new \in Seq(Contents) /\ DOMAIN new = DOMAIN bs
  BY <1>1, <1>2, <1>3, ExceptSeq
<1>5. new[x] = [bs[x] EXCEPT ![r] = v] /\ \A y \in DOMAIN bs : y # x => new[y] = bs[y]
  BY <1>3
<1>6. new[x][r] = v /\ \A p \in Slot : p # r => new[x][p] = bs[x][p]
  BY <1>1, <1>5 DEF Contents
<1> QED
  BY <1>4, <1>5, <1>6

\* Where the end of the items is in the blocks.
LEMMA AtEnd ==
  ASSUME DequeInv, PushEnd
  PROVE  /\ pushing \in Values /\ shift = 0
         /\ start_index \in Nat /\ end_index \in Nat /\ End = end_index
         /\ start_index <= end_index
         /\ First = alloc_block_start /\ Final = alloc_block_end
         /\ alloc_block_start \in Nat /\ alloc_block_end \in Nat
         /\ alloc_block_start <= alloc_block_end
         /\ alloc_block_start .. alloc_block_end \subseteq DOMAIN data
         /\ DOMAIN data = 0 .. block_count - 1 /\ block_count \in Nat
         /\ Inner(end_index) \in Slot /\ Block(end_index) \in DOMAIN data
         /\ Block(end_index) < block_count
         /\ \/ /\ Block(end_index) = alloc_block_end
               /\ end_index + 1 <= (alloc_block_end + 1) * BlockSize
            \/ /\ Block(end_index) = alloc_block_end + 1 /\ Inner(end_index) = 0
               /\ end_index = (alloc_block_end + 1) * BlockSize
<1>1. pushing # NULL /\ pushing \in Values /\ shift = 0
  BY DEF PushEnd, DequeInv, ItemsInv
<1>2. /\ start_index \in Nat /\ end_index \in Nat /\ End = end_index
      /\ start_index <= end_index
      /\ First = alloc_block_start /\ Final = alloc_block_end
      /\ alloc_block_start \in Nat /\ alloc_block_end \in Nat
      /\ alloc_block_start <= alloc_block_end
      /\ alloc_block_start .. alloc_block_end \subseteq DOMAIN data
      /\ DOMAIN data = 0 .. block_count - 1 /\ block_count \in Nat
      /\ alloc_block_end * BlockSize <= end_index
      /\ end_index <= (alloc_block_end + 1) * BlockSize
      /\ end_index < block_count * BlockSize
  BY <1>1, NotAhead, IndexNumbers DEF DequeInv, IndexInv
<1>3. Block(end_index) \in Nat /\ Inner(end_index) \in Slot /\ Block(end_index) < block_count
  BY <1>2, Division, BlockBelow
<1>4. IF end_index = (alloc_block_end + 1) * BlockSize
      THEN Block(end_index) = alloc_block_end + 1 /\ Inner(end_index) = 0
      ELSE /\ Block(end_index) = alloc_block_end
           /\ end_index + 1 <= (alloc_block_end + 1) * BlockSize
  BY <1>2, AtBoundary
<1>5. Block(end_index) \in DOMAIN data
  BY <1>2, <1>3
<1> QED
  BY <1>1, <1>2, <1>3, <1>4, <1>5

\* There is room in the last block.
LEMMA PlacedInLast ==
  ASSUME DequeInv, PushEnd, Block(end_index) = alloc_block_end
  PROVE  Placed(data[alloc_block_end])
<1>0. PICK q, block, r : /\ q = alloc_block_end /\ block = data[q]
                         /\ r = Inner(end_index) /\ r \in Slot
  BY AtEnd
<1>1. /\ data' = [data EXCEPT ![q] = block]
      /\ blocks' = [blocks EXCEPT ![block][r] = pushing]
      /\ alloc_block_start' = alloc_block_start /\ alloc_block_end' = alloc_block_end
  <2>1. /\ ~ (Block(end_index) > alloc_block_end)
        /\ alloc_block_start \in Nat /\ alloc_block_end \in Nat
    BY AtEnd
  <2>2. /\ data' = [data EXCEPT ![Block(end_index)] = data[Block(end_index)]]
        /\ blocks' = [blocks EXCEPT ![data[Block(end_index)]][Inner(end_index)] = pushing]
        /\ alloc_block_start' = alloc_block_start + 0
        /\ alloc_block_end' = alloc_block_end + 0
    BY <2>1, Zenon DEF PushEnd
  <2> QED
    BY <1>0, <2>1, <2>2
<1>2. /\ data \in [DOMAIN data -> DOMAIN blocks \cup {GARBAGE}]
      /\ blocks \in Seq(Contents)
      /\ {data[b] : b \in alloc_block_start .. q} = DOMAIN blocks
      /\ \A b, c \in alloc_block_start .. q : data[b] = data[c] => b = c
  BY <1>0, AtEnd DEF DequeInv, BlocksInv
<1>3. q \in alloc_block_start .. q /\ q \in DOMAIN data
  BY <1>0, AtEnd
<1>4. data' = data /\ block \in DOMAIN blocks
  BY <1>0, <1>1, <1>2, <1>3
<1>5. /\ blocks' \in Seq(Contents) /\ DOMAIN blocks' = DOMAIN blocks
      /\ blocks'[block][r] = pushing
      /\ \A x \in DOMAIN blocks : \A p \in Slot :
           x # block \/ p # r => blocks'[x][p] = blocks[x][p]
  <2>1. PICK bs, v, new : bs = blocks /\ v = pushing /\ new = blocks' /\ v \in Values
    BY AtEnd
  <2>2. Stores(bs, block, r, v, new) /\ bs \in Seq(Contents) /\ block \in DOMAIN bs
    BY <1>1, <1>2, <1>4, <2>1 DEF Stores
  <2>3. /\ new \in Seq(Contents) /\ DOMAIN new = DOMAIN bs
        /\ new[block][r] = v
        /\ \A x \in DOMAIN bs : \A p \in Slot :
             x # block \/ p # r => new[x][p] = bs[x][p]
    BY <1>0, <2>1, <2>2, Stored
  <2> QED
    BY <2>1, <2>3
<1>6. Written(block)
  BY <1>0, <1>4, <1>5 DEF Written
<1>7. Found(block)
  <2>1. \A i \in start_index .. end_index - 1 : data[Block(i)] = block => Block(i) = q
    BY <1>0, <1>2, <1>3, AtEnd, ItemsOwned DEF DequeInv
  <2> QED
    BY <1>0, <1>2, <1>4, <1>5, <2>1 DEF Found
<1>8. Kept
  <2>1. PICK owned : owned = alloc_block_start .. q
    OBVIOUS
  <2>2. owned = alloc_block_start' .. alloc_block_end'
    BY <1>0, <1>1, <2>1
  <2>3. /\ {data'[b] : b \in owned} = DOMAIN blocks'
        /\ \A b, c \in owned : data'[b] = data'[c] => b = c
    BY <1>2, <1>4, <1>5, <2>1
  <2> QED
    BY <2>2, <2>3, Zenon DEF Kept
<1>9. Within
  <2>1. /\ alloc_block_start * BlockSize <= start_index
        /\ alloc_block_end * BlockSize <= end_index
    BY AtEnd DEF DequeInv, IndexInv
  <2>2. alloc_block_end * BlockSize \in Int /\ end_index \in Nat
    BY AtEnd, DequeAssumption
  <2>3. end_index + 1 <= (alloc_block_end + 1) * BlockSize
    BY AtEnd
  <2>4. /\ alloc_block_start \in Nat /\ alloc_block_end \in Nat
        /\ alloc_block_start <= alloc_block_end /\ alloc_block_end < block_count
    BY IndexNumbers, AtEnd DEF DequeInv
  <2> QED
    BY <1>1, <2>1, <2>2, <2>3, <2>4 DEF Within
<1> QED
  BY <1>0, <1>6, <1>7, <1>8, <1>9 DEF Placed

\* The block after the last one begins where the items end.
LEMMA NextBlock ==
  ASSUME DequeInv, PushEnd, Block(end_index) # alloc_block_end
  PROVE  /\ Block(end_index) = alloc_block_end + 1 /\ Inner(end_index) = 0
         /\ alloc_block_end + 1 < block_count
         /\ (alloc_block_end + 1) * BlockSize <= end_index + 1
         /\ end_index + 1 <= (alloc_block_end + 1 + 1) * BlockSize
<1>1. /\ Block(end_index) = alloc_block_end + 1 /\ Inner(end_index) = 0
      /\ alloc_block_end + 1 < block_count
      /\ end_index = (alloc_block_end + 1) * BlockSize
      /\ alloc_block_end \in Nat /\ end_index \in Nat
  BY AtEnd
<1>2. (alloc_block_end + 1) * BlockSize <= end_index + 1
  BY <1>1
<1>3. end_index + 1 <= (alloc_block_end + 1 + 1) * BlockSize
  BY <1>1, DequeAssumption
<1> QED
  BY <1>1, <1>2, <1>3

\* The first block is empty, and becomes the last.
LEMMA PlacedInFirst ==
  ASSUME DequeInv, PushEnd, Block(end_index) # alloc_block_end, FirstBlockFree
  PROVE  Placed(data[alloc_block_start])
<1>0. PICK q, block, r, lo, hi :
        /\ lo = alloc_block_start /\ hi = alloc_block_end /\ q = hi + 1
        /\ block = data[lo] /\ r = Inner(end_index) /\ r \in Slot
        /\ lo \in Nat /\ hi \in Nat /\ lo <= hi
        /\ lo .. hi \subseteq DOMAIN data /\ q \in DOMAIN data
  BY AtEnd, NextBlock
<1>1. /\ data' = [data EXCEPT ![q] = block]
      /\ blocks' = [blocks EXCEPT ![block][r] = pushing]
      /\ alloc_block_start' = lo + 1 /\ alloc_block_end' = q
  <2>1. /\ Inner(end_index) = 0 /\ Block(end_index) = q
        /\ Block(end_index) > alloc_block_end
    BY <1>0, NextBlock
  <2>2. /\ data' = [data EXCEPT ![Block(end_index)] = data[alloc_block_start]]
        /\ blocks' = [blocks EXCEPT ![data[alloc_block_start]][Inner(end_index)] = pushing]
        /\ alloc_block_start' = alloc_block_start + 1
        /\ alloc_block_end' = alloc_block_end + 1
    BY <2>1, Zenon DEF PushEnd
  <2> QED
    BY <1>0, <2>1, <2>2
<1>2. /\ data \in [DOMAIN data -> DOMAIN blocks \cup {GARBAGE}]
      /\ blocks \in Seq(Contents)
      /\ {data[b] : b \in lo .. hi} = DOMAIN blocks
      /\ \A b, c \in lo .. hi : data[b] = data[c] => b = c
  BY <1>0, AtEnd DEF DequeInv, BlocksInv
<1>3. /\ lo \in lo .. hi /\ block \in DOMAIN blocks
      /\ DOMAIN data' = DOMAIN data /\ data'[q] = block
      /\ \A b \in lo .. hi : b # q /\ data'[b] = data[b]
  BY <1>0, <1>1, <1>2
<1>4. /\ blocks' \in Seq(Contents) /\ DOMAIN blocks' = DOMAIN blocks
      /\ blocks'[block][r] = pushing
      /\ \A x \in DOMAIN blocks : \A p \in Slot :
           x # block \/ p # r => blocks'[x][p] = blocks[x][p]
  <2>1. PICK bs, v, new : bs = blocks /\ v = pushing /\ new = blocks' /\ v \in Values
    BY AtEnd
  <2>2. Stores(bs, block, r, v, new) /\ bs \in Seq(Contents) /\ block \in DOMAIN bs
    BY <1>1, <1>2, <1>3, <2>1 DEF Stores
  <2>3. /\ new \in Seq(Contents) /\ DOMAIN new = DOMAIN bs
        /\ new[block][r] = v
        /\ \A x \in DOMAIN bs : \A p \in Slot :
             x # block \/ p # r => new[x][p] = bs[x][p]
    BY <1>0, <2>1, <2>2, Stored
  <2> QED
    BY <2>1, <2>3
<1>5. Written(block)
  BY <1>0, <1>3, <1>4 DEF Written
<1>6. Found(block)
  <2>1. data' \in [DOMAIN data -> DOMAIN blocks' \cup {GARBAGE}]
    BY <1>0, <1>1, <1>2, <1>3, <1>4
  <2>2. \A i \in start_index .. end_index - 1 :
          Block(i) \in lo .. hi /\ Block(i) # lo
    <3>1. Block(start_index) > lo /\ start_index \in Nat /\ Block(start_index) \in Nat
      BY <1>0, AtEnd, Division DEF FirstBlockFree
    <3>2. \A i \in start_index .. end_index - 1 :
            Block(i) \in lo .. hi /\ Block(i) >= Block(start_index)
      BY <1>0, AtEnd, ItemsOwned DEF DequeInv
    <3> QED
      BY <1>0, <3>1, <3>2
  <2>3. data'[Block(end_index)] = block
    BY <1>0, <1>3, NextBlock
  <2> QED
    BY <1>0, <1>2, <1>3, <2>1, <2>2, <2>3 DEF Found
<1>7. Kept
  <2>1. \A b \in lo + 1 .. q : b = q \/ b \in lo .. hi
    BY <1>0
  <2>2. /\ q \in lo + 1 .. q
        /\ \A b \in lo .. hi : b = lo \/ b \in lo + 1 .. q
        /\ \A b \in lo + 1 .. q : b # lo
    BY <1>0
  <2>3. {data'[b] : b \in lo + 1 .. q} = DOMAIN blocks'
    <3>1. \A b \in lo + 1 .. q : data'[b] \in DOMAIN blocks'
      BY <1>2, <1>3, <1>4, <2>1
    <3>2. \A x \in DOMAIN blocks' : \E b \in lo + 1 .. q : data'[b] = x
      <4> SUFFICES ASSUME NEW x \in DOMAIN blocks'
                   PROVE  \E b \in lo + 1 .. q : data'[b] = x
        OBVIOUS
      <4>1. PICK b \in lo .. hi : data[b] = x
        BY <1>2, <1>4
      <4>2. CASE b = lo
        BY <1>0, <1>3, <2>2, <4>1, <4>2
      <4>3. CASE b # lo
        BY <1>3, <2>2, <4>1, <4>3
      <4> QED
        BY <4>2, <4>3
    <3> QED
      BY <3>1, <3>2
  <2>4. \A b, c \in lo + 1 .. q : data'[b] = data'[c] => b = c
    BY <1>0, <1>2, <1>3, <2>1, <2>2
  <2> QED
    BY <1>1, <2>3, <2>4 DEF Kept
<1>8. Within
  <2>1. lo + 1 \in Nat /\ q \in Nat /\ lo + 1 <= q /\ q < block_count
    BY <1>0, NextBlock
  <2>2. q * BlockSize <= end_index + 1 /\ end_index + 1 <= (q + 1) * BlockSize
    BY <1>0, NextBlock
  <2>3. (lo + 1) * BlockSize <= start_index
    <3>1. /\ start_index \in Nat /\ Block(start_index) \in Nat
          /\ lo + 1 <= Block(start_index)
      BY <1>0, AtEnd, Division DEF FirstBlockFree
    <3>2. ~ (Block(start_index) < lo + 1)
      BY <1>0, <3>1
    <3> QED
      BY <1>0, <3>1, <3>2, BlockBelow, DequeAssumption
  <2> QED
    BY <1>1, <2>1, <2>2, <2>3 DEF Within
<1> QED
  BY <1>0, <1>5, <1>6, <1>7, <1>8 DEF Placed

\* A block is allocated.
LEMMA PlacedInNew ==
  ASSUME DequeInv, PushEnd, Block(end_index) # alloc_block_end, ~ FirstBlockFree
  PROVE  Placed(Len(blocks) + 1)
<1>0. PICK q, block, r, lo, hi, new :
        /\ lo = alloc_block_start /\ hi = alloc_block_end /\ q = hi + 1
        /\ block = Len(blocks) + 1 /\ r = Inner(end_index) /\ r \in Slot
        /\ lo \in Nat /\ hi \in Nat /\ lo <= hi
        /\ lo .. hi \subseteq DOMAIN data /\ q \in DOMAIN data
        /\ new = [i \in 0 .. BlockSize - 1 |-> GARBAGE]
  BY AtEnd, NextBlock
<1>1. /\ data' = [data EXCEPT ![q] = block]
      /\ blocks' = [Append(blocks, new) EXCEPT ![block][r] = pushing]
      /\ alloc_block_start' = lo /\ alloc_block_end' = q
  <2>1. /\ Inner(end_index) = 0 /\ Block(end_index) = q
        /\ Block(end_index) > alloc_block_end
    BY <1>0, NextBlock
  <2>2. /\ data' = [data EXCEPT ![Block(end_index)] = Len(blocks) + 1]
        /\ blocks' = [Append(blocks, [i \in 0 .. BlockSize - 1 |-> GARBAGE])
                        EXCEPT ![Len(blocks) + 1][Inner(end_index)] = pushing]
        /\ alloc_block_start' = alloc_block_start + 0
        /\ alloc_block_end' = alloc_block_end + 1
    BY <2>1, Zenon DEF PushEnd
  <2> QED
    BY <1>0, <2>1, <2>2
<1>2. /\ data \in [DOMAIN data -> DOMAIN blocks \cup {GARBAGE}]
      /\ blocks \in Seq(Contents)
      /\ {data[b] : b \in lo .. hi} = DOMAIN blocks
      /\ \A b, c \in lo .. hi : data[b] = data[c] => b = c
  BY <1>0, AtEnd DEF DequeInv, BlocksInv
<1>3. PICK grown : /\ grown = Append(blocks, new) /\ grown \in Seq(Contents)
                   /\ DOMAIN grown = DOMAIN blocks \cup {block}
                   /\ block \notin DOMAIN blocks
                   /\ \A x \in DOMAIN blocks : grown[x] = blocks[x]
  <2>1. new \in Contents
    BY <1>0 DEF Contents, Slot
  <2>2. /\ Append(blocks, new) \in Seq(Contents)
        /\ Len(Append(blocks, new)) = Len(blocks) + 1
        /\ \A i \in 1 .. Len(blocks) : Append(blocks, new)[i] = blocks[i]
    BY <1>2, <2>1, AppendProperties
  <2>3. /\ DOMAIN blocks = 1 .. Len(blocks) /\ Len(blocks) \in Nat
        /\ DOMAIN Append(blocks, new) = 1 .. Len(blocks) + 1
    BY <1>2, <2>2, LenProperties
  <2>4. /\ DOMAIN Append(blocks, new) = DOMAIN blocks \cup {block}
        /\ block \notin DOMAIN blocks
    BY <1>0, <2>3
  <2>5. \A x \in DOMAIN blocks : Append(blocks, new)[x] = blocks[x]
    BY <2>2, <2>3
  <2> QED
    BY <2>2, <2>4, <2>5, Zenon
<1>4. /\ blocks' \in Seq(Contents) /\ DOMAIN blocks' = DOMAIN blocks \cup {block}
      /\ blocks'[block][r] = pushing
      /\ \A x \in DOMAIN blocks : \A p \in Slot :
           x # block \/ p # r => blocks'[x][p] = blocks[x][p]
  <2>1. PICK v, after : v = pushing /\ after = blocks' /\ v \in Values
    BY AtEnd
  <2>2. /\ Stores(grown, block, r, v, after) /\ grown \in Seq(Contents)
        /\ block \in DOMAIN grown
    BY <1>1, <1>3, <2>1 DEF Stores
  <2>3. /\ after \in Seq(Contents) /\ DOMAIN after = DOMAIN grown
        /\ after[block][r] = v
        /\ \A x \in DOMAIN grown : \A p \in Slot :
             x # block \/ p # r => after[x][p] = grown[x][p]
    <3>1. r \in Slot /\ v \in Values
      BY <1>0, <2>1
    <3> QED
      BY <2>2, <3>1, Stored
  <2> QED
    BY <1>3, <2>1, <2>3
<1>5. Written(block)
  BY <1>0, <1>3, <1>4 DEF Written
<1>6. /\ DOMAIN data' = DOMAIN data /\ data'[q] = block
      /\ \A b \in lo .. hi : b # q /\ data'[b] = data[b] /\ data[b] # block
  BY <1>0, <1>1, <1>2, <1>3
<1>7. Found(block)
  <2>1. data' \in [DOMAIN data -> DOMAIN blocks' \cup {GARBAGE}]
    BY <1>0, <1>1, <1>2, <1>4
  <2>2. \A i \in start_index .. end_index - 1 : Block(i) \in lo .. hi
    BY <1>0, AtEnd, ItemsOwned DEF DequeInv
  <2>3. data'[Block(end_index)] = block
    BY <1>0, <1>6, NextBlock
  <2> QED
    BY <1>6, <2>1, <2>2, <2>3 DEF Found
<1>8. Kept
  <2>1. /\ \A b \in lo .. q : b = q \/ b \in lo .. hi
        /\ q \in lo .. q /\ lo .. hi \subseteq lo .. q
    BY <1>0
  <2>2. {data'[b] : b \in lo .. q} = DOMAIN blocks'
    BY <1>2, <1>4, <1>6, <2>1
  <2>3. \A b, c \in lo .. q : data'[b] = data'[c] => b = c
    BY <1>2, <1>6, <2>1
  <2> QED
    BY <1>1, <2>2, <2>3 DEF Kept
<1>9. Within
  <2>1. lo \in Nat /\ q \in Nat /\ lo <= q /\ q < block_count
    BY <1>0, NextBlock
  <2>2. q * BlockSize <= end_index + 1 /\ end_index + 1 <= (q + 1) * BlockSize
    BY <1>0, NextBlock
  <2>3. lo * BlockSize <= start_index
    BY <1>0, AtEnd DEF DequeInv, IndexInv
  <2> QED
    BY <1>1, <2>1, <2>2, <2>3 DEF Within
<1> QED
  BY <1>0, <1>5, <1>7, <1>8, <1>9 DEF Placed

\* Append and Tail, element by element.
LEMMA AppendElements ==
  ASSUME NEW S, NEW seq \in Seq(S), NEW v \in S
  PROVE  Append(seq, v) =
           [k \in 1 .. Len(seq) + 1 |-> IF k = Len(seq) + 1 THEN v ELSE seq[k]]
<1>1. /\ Append(seq, v) \in Seq(S)
      /\ Len(Append(seq, v)) = Len(seq) + 1
      /\ \A k \in 1 .. Len(seq) : Append(seq, v)[k] = seq[k]
      /\ Append(seq, v)[Len(seq) + 1] = v
  BY AppendProperties
<1>2. PICK n \in Nat : n = Len(seq)
  BY LenProperties
<1>3. Append(seq, v) \in [1 .. n + 1 -> S]
  BY <1>1, <1>2, LenProperties
<1>4. \A k \in 1 .. n + 1 : Append(seq, v)[k] = IF k = n + 1 THEN v ELSE seq[k]
  BY <1>1, <1>2
<1>5. Append(seq, v) = [k \in 1 .. n + 1 |-> Append(seq, v)[k]]
  BY <1>3
<1> QED
  BY <1>2, <1>4, <1>5

LEMMA TailElements ==
  ASSUME NEW S, NEW seq \in Seq(S), seq # <<>>
  PROVE  Tail(seq) = [k \in 1 .. Len(seq) - 1 |-> seq[k + 1]]
<1>1. /\ Tail(seq) \in Seq(S) /\ Len(Tail(seq)) = Len(seq) - 1
      /\ \A k \in 1 .. Len(Tail(seq)) : Tail(seq)[k] = seq[k + 1]
  BY HeadTailProperties
<1> QED
  BY <1>1, LenProperties

\* The items, as a sequence.
LEMMA ItemsAre ==
  ASSUME DequeInv
  PROVE  /\ Items = [k \in 1 .. Size |-> Item(start_index + k - 1)]
         /\ Items \in Seq(Values) /\ Len(Items) = Size
<1>1. Items = [k \in 1 .. Size |-> Item(start_index + k - 1)]
  BY DEF Items, Item
<1>2. \A k \in 1 .. Size : Item(start_index + k - 1) \in Values
  <2>1. \A k \in 1 .. Size : start_index + k - 1 \in start_index .. End - 1
    BY IndexNumbers DEF DequeInv
  <2> QED
    BY <2>1 DEF DequeInv, ItemsInv
<1>3. PICK n \in Nat : n = Size
  BY IndexNumbers DEF DequeInv
<1>4. Items \in [1 .. n -> Values]
  BY <1>1, <1>2, <1>3
<1>5. Items \in Seq(Values) /\ Len(Items) = n
  BY <1>4, SeqDef
<1> QED
  BY <1>1, <1>3, <1>5

LEMMA PlacedSomewhere ==
  ASSUME DequeInv, PushEnd
  PROVE  \E block : Placed(block)
BY PlacedInLast, PlacedInFirst, PlacedInNew

LEMMA PushEndStep ==
  ASSUME DequeInv, PushEnd
  PROVE  /\ DequeInv' /\ popped' = popped /\ pushing \in Values
         /\ Items' = Append(Items, pushing)
<1>0. PICK block : Placed(block)
  BY PlacedSomewhere
<1>1. PICK s, e, v :
        /\ s = start_index /\ e = end_index /\ v = pushing
        /\ s \in Nat /\ e \in Nat /\ s <= e /\ v \in Values
  BY AtEnd
<1>2. /\ shift = 0 /\ shift' = 0 /\ start_index' = s /\ end_index' = e + 1
      /\ pushing # NULL /\ pushing' = NULL /\ popped' = popped
  BY <1>1 DEF PushEnd
<1>3. /\ End = e /\ Size = e - s /\ Size < MaxItems
      /\ Ahead' = 0 /\ First' = alloc_block_start' /\ Final' = alloc_block_end'
      /\ End' = e + 1 /\ Size' = e + 1 - s
  <2>1. Ahead' = 0
    BY <1>2, DequeAssumption DEF Ahead
  <2>2. alloc_block_start' \in Nat /\ alloc_block_end' \in Nat
    BY <1>0 DEF Placed, Within
  <2>3. Size < MaxItems
    BY <1>2 DEF DequeInv, IndexInv
  <2>4. End = e /\ Size = e - s /\ End' = e + 1 /\ Size' = e + 1 - s
    BY <1>1, <1>2 DEF End, Size
  <2>5. First' = alloc_block_start' /\ Final' = alloc_block_end'
    <3>1. First' = alloc_block_start' - Ahead' /\ Final' = alloc_block_end' - Ahead'
      BY DEF First, Final
    <3>2. \A a \in Nat : a - 0 = a
      OBVIOUS
    <3> QED
      BY <2>1, <2>2, <3>1, <3>2
  <2> QED
    BY <2>1, <2>3, <2>4, <2>5
<1>4. DOMAIN data' = DOMAIN data /\ block_count' = block_count
  BY <1>0 DEF Placed, Found, block_count
<1>5. IndexInv'
  <2>1. Within
    BY <1>0 DEF Placed
  <2>2. /\ block_count \in Nat \ {0, 1} /\ DOMAIN data = 0 .. block_count - 1
    BY IndexNumbers DEF DequeInv
  <2>3. shift' = Ahead' * BlockSize
    BY <1>2, <1>3, DequeAssumption
  <2>4. /\ First' * BlockSize <= start_index' /\ start_index' <= End'
        /\ Final' * BlockSize <= End' /\ End' <= (Final' + 1) * BlockSize
    <3>1. s <= e + 1
      BY <1>1
    <3> QED
      BY <1>1, <1>2, <1>3, <2>1, <3>1 DEF Within
  <2>5. Size' <= MaxItems
    BY <1>1, <1>3, DequeAssumption
  <2>6. /\ start_index' \in Nat /\ end_index' \in Nat /\ shift' \in Nat /\ Ahead' \in Nat
    BY <1>1, <1>2, <1>3
  <2>7. /\ alloc_block_start' \in Nat /\ alloc_block_end' \in Nat
        /\ First' \in Nat /\ First' <= Final' /\ alloc_block_end' < block_count'
    BY <1>3, <1>4, <2>1 DEF Within
  <2> QED
    BY <1>2, <1>4, <2>2, <2>3, <2>4, <2>5, <2>6, <2>7 DEF IndexInv
<1>6. BlocksInv'
  <2>1. data' \in [DOMAIN data' -> DOMAIN blocks' \cup {GARBAGE}]
    BY <1>0, <1>4 DEF Placed, Found
  <2>2. blocks' \in Seq(Contents)
    BY <1>0 DEF Placed, Written
  <2>3. PICK owned : owned = alloc_block_start' .. alloc_block_end'
    OBVIOUS
  <2>4. /\ {data'[b] : b \in owned} = DOMAIN blocks'
        /\ \A b, c \in owned : data'[b] = data'[c] => b = c
    BY <1>0, <2>3, Zenon DEF Placed, Kept
  <2>5. owned = First' .. Final'
    BY <1>3, <2>3
  <2> QED
    BY <2>1, <2>2, <2>4, <2>5, Zenon DEF BlocksInv
<1>7. \A i \in s .. e - 1 : Item(i)' = Item(i)
  <2> SUFFICES ASSUME NEW i \in s .. e - 1 PROVE Item(i)' = Item(i)
    OBVIOUS
  <2>1. PICK b, r : b = data[Block(i)] /\ r = Inner(i)
    OBVIOUS
  <2>2. i \in Nat /\ Block(i) \in First .. Final /\ r \in Slot /\ i # e
    BY <1>1, <1>3, <2>1, ItemsOwned DEF DequeInv
  <2>3. b \in DOMAIN blocks
    BY <2>1, <2>2 DEF DequeInv, BlocksInv
  <2>4. data'[Block(i)] = b /\ (b = block => Block(i) = Block(e))
    BY <1>0, <1>1, <2>1 DEF Placed, Found
  <2>5. b = block => r # Inner(e)
    BY <1>1, <2>1, <2>2, <2>4, PlacesDiffer
  <2>6. blocks'[b][r] = blocks[b][r]
    BY <1>0, <1>1, <2>2, <2>3, <2>5 DEF Placed, Written
  <2> QED
    BY <2>1, <2>4, <2>6 DEF Item
<1>8. Item(e)' = v
  BY <1>0, <1>1 DEF Placed, Written, Found, Item
<1>9. Items' = Append(Items, v)
  <2>1. Items = [k \in 1 .. e - s |-> Item(s + k - 1)]
    BY <1>1, <1>3 DEF Items, Item
  <2>2. Items' = [k \in 1 .. e + 1 - s |-> Item(s + k - 1)']
    BY <1>2, <1>3 DEF Items, Item
  <2>3. \A k \in 1 .. e - s : s + k - 1 \in s .. e - 1
    BY <1>1
  <2>4. \A k \in 1 .. e + 1 - s : k \in 1 .. e - s \/ k = e - s + 1
    BY <1>1
  <2>5. s + (e - s + 1) - 1 = e /\ e - s \in Nat /\ e + 1 - s = e - s + 1
    BY <1>1
  <2>6. Items \in Seq(Values) /\ Len(Items) = e - s
    BY <1>3, ItemsAre
  <2>7. Append(Items, v) = [k \in 1 .. e + 1 - s |-> IF k = e - s + 1 THEN v ELSE Items[k]]
    BY <1>1, <2>5, <2>6, AppendElements
  <2>8. \A k \in 1 .. e + 1 - s :
          Item(s + k - 1)' = IF k = e - s + 1 THEN v ELSE Items[k]
    BY <1>7, <1>8, <2>1, <2>3, <2>4, <2>5
  <2> QED
    BY <2>2, <2>7, <2>8
<1>10. ItemsInv'
  <2>1. \A i \in s .. e - 1 : Item(i) \in Values
    BY <1>1, <1>3 DEF DequeInv, ItemsInv
  <2>2. \A i \in s .. e + 1 - 1 : i \in s .. e - 1 \/ i = e
    BY <1>1
  <2>3. \A i \in start_index' .. End' - 1 : Item(i)' \in Values
    BY <1>1, <1>2, <1>3, <1>7, <1>8, <2>1, <2>2
  <2> QED
    BY <1>2, <2>3 DEF DequeInv, ItemsInv
<1> QED
  BY <1>1, <1>2, <1>5, <1>6, <1>9, <1>10 DEF DequeInv

-----------------------------------------------------------------------------
(* Pop *)

LEMMA PopStep ==
  ASSUME DequeInv, Pop
  PROVE  DequeInv' /\ Queue!Pop
<1>1. PICK s, e : /\ s = start_index /\ e = end_index /\ s \in Nat /\ e \in Nat
                  /\ s <= e /\ shift = 0 /\ End = e /\ Size = e - s
  <2>1. shift = 0
    BY DEF Pop, DequeInv, IndexInv
  <2> QED
    BY <2>1, NotAhead, IndexNumbers DEF DequeInv, IndexInv
<1>2. /\ pushing = NULL /\ pushing' = NULL
      /\ UNCHANGED <<data, end_index, alloc_block_start, alloc_block_end, blocks,
                     shift, Ahead, First, Final, End, block_count>>
  BY DEF Pop, Ahead, First, Final, End, block_count
<1>3. Items = [k \in 1 .. e - s |-> Item(s + k - 1)]
  BY <1>1 DEF Items, Item
<1>4. CASE e = s
  <2>1. popped' = NULL /\ start_index' = start_index
    BY <1>1, <1>4 DEF Pop, Empty
  <2>2. Size' = Size /\ Items = <<>> /\ Items' = Items
    BY <1>1, <1>2, <1>3, <1>4, <2>1 DEF Size, Items
  <2>3. DequeInv'
    BY <1>2, <2>1, <2>2 DEF DequeInv, IndexInv, BlocksInv, ItemsInv, Item
  <2> QED
    BY <2>1, <2>2, <2>3 DEF Queue!Pop
<1>5. CASE e # s
  <2>1. popped' = Item(s) /\ start_index' = s + 1
    BY <1>1, <1>5 DEF Pop, Empty, Item
  <2>2. Size' = e - (s + 1)
    BY <1>1, <1>2, <2>1 DEF Size
  <2>3. Items' = [k \in 1 .. e - (s + 1) |-> Item(s + 1 + k - 1)]
    BY <1>2, <2>1, <2>2 DEF Items, Item
  <2>4. Items \in Seq(Values) /\ Len(Items) = e - s /\ Items # <<>>
    <3>1. Items \in Seq(Values) /\ Len(Items) = e - s
      BY <1>1, ItemsAre
    <3> QED
      BY <1>1, <1>5, <3>1
  <2>5. Head(Items) = Item(s)
    <3>1. Items[1] = Item(s + 1 - 1) /\ s + 1 - 1 = s
      BY <1>1, <1>3, <1>5
    <3> QED
      BY <2>4, <3>1
  <2>6. Items' = Tail(Items)
    <3>1. Tail(Items) = [k \in 1 .. e - s - 1 |-> Items[k + 1]]
      BY <1>1, <2>4, TailElements
    <3>2. e - (s + 1) = e - s - 1
      BY <1>1
    <3>3. \A k \in 1 .. e - s - 1 :
            k + 1 \in 1 .. e - s /\ s + 1 + k - 1 = s + (k + 1) - 1
      BY <1>1
    <3> QED
      BY <1>3, <2>3, <3>1, <3>2, <3>3
  <2>7. \A i \in s .. e - 1 : Item(i) \in Values
    BY <1>1 DEF DequeInv, ItemsInv
  <2>8. s \in s .. e - 1 /\ \A i \in s + 1 .. e - 1 : i \in s .. e - 1
    BY <1>1, <1>5
  <2>9. DequeInv'
    <3>1. First * BlockSize <= s + 1
      <4>1. First * BlockSize <= s /\ First * BlockSize \in Int
        BY <1>1, IndexNumbers, DequeAssumption DEF DequeInv, IndexInv
      <4> QED
        BY <1>1, <4>1
    <3>2. s + 1 <= e /\ s + 1 \in Nat /\ Size' <= MaxItems
      <4>1. Size <= MaxItems
        BY DEF DequeInv, IndexInv
      <4> QED
        BY <1>1, <1>5, <2>2, <4>1, DequeAssumption
    <3>3. IndexInv'
      BY <1>1, <1>2, <2>1, <3>1, <3>2 DEF DequeInv, IndexInv
    <3>4. BlocksInv'
      BY <1>2 DEF DequeInv, BlocksInv
    <3>5. ItemsInv'
      <4>1. \A i \in start_index' .. End' - 1 : Item(i)' \in Values
        BY <1>1, <1>2, <2>1, <2>7, <2>8 DEF Item
      <4> QED
        BY <1>2, <2>1, <2>7, <2>8, <4>1 DEF ItemsInv
    <3> QED
      BY <3>3, <3>4, <3>5 DEF DequeInv
  <2> QED
    BY <2>1, <2>4, <2>5, <2>6, <2>9 DEF Queue!Pop
<1> QED
  BY <1>4, <1>5

-----------------------------------------------------------------------------
(* queue_count *)

\* What it has read so far, and what it read of an index that moves.
CountInv ==
  count \in [at : {"idle", "end", "start", "done"}, end : Int, start : Int]

ReadInv ==
  count.at # "idle" /\ ~ moved =>
    /\ shift = 0 /\ Size \in seen
    /\ count.at = "end" => count.start = start_index
    /\ count.at = "start" => count.end - start_index \in seen
    /\ count.at = "done" => count.end - count.start \in seen

LEMMA NextCountInv ==
  ASSUME DequeInv, CountInv, [Next]_vars
  PROVE  CountInv'
<1>1. start_index \in Int /\ end_index \in Int
  BY IndexNumbers DEF DequeInv
<1>2. CASE CountBegin
  BY <1>1, <1>2 DEF CountBegin, CountInv
<1>3. CASE CountEnd
  BY <1>1, <1>3 DEF CountEnd, CountInv
<1>4. CASE CountReturned
  BY <1>4 DEF CountReturned, CountInv
<1>5. CASE UNCHANGED count
  BY <1>5 DEF CountInv
<1> QED
  BY <1>2, <1>3, <1>4, <1>5
     DEF Next, vars, PushBegin, PushShift, PushShifted, PushEnd, Pop

LEMMA NextReadInv ==
  ASSUME OthersPop = FALSE, DequeInv, CountInv, ReadInv, [Next]_vars
  PROVE  ReadInv'
<1>1. /\ start_index \in Int /\ end_index \in Int /\ shift \in Nat
      /\ Size = end_index - shift - start_index
  BY IndexNumbers DEF DequeInv, Size
<1>2. ASSUME NEW v \in Values, PushBegin(v) PROVE ReadInv'
  BY <1>2 DEF PushBegin, ReadInv, Size
<1>3. ASSUME NEW v \in Values, PushShift(v) PROVE ReadInv'
  BY <1>3 DEF PushShift, ReadInv
<1>4. CASE PushShifted
  BY <1>1, <1>4 DEF PushShifted, ReadInv
<1>5. CASE PushEnd
  <2>1. /\ shift = 0 /\ UNCHANGED <<start_index, shift, count, moved>>
        /\ end_index' = end_index + 1
        /\ count.at # "idle" => seen' = seen \cup {Size + 1}
    BY <1>5 DEF PushEnd, Saw
  <2>2. Size' = Size + 1
    BY <1>1, <2>1 DEF Size
  <2> QED
    BY <2>1, <2>2 DEF ReadInv
<1>6. CASE Pop
  <2>1. count.at = "idle" /\ count' = count
    BY <1>6 DEF Pop
  <2> QED
    BY <2>1 DEF ReadInv
<1>7. CASE CountBegin
  <2>1. /\ UNCHANGED <<start_index, end_index, shift>> /\ Size' = Size
        /\ seen' = {Size} /\ moved' = (shift > 0)
        /\ \/ count' = [at |-> "end", end |-> 0, start |-> start_index]
           \/ count' = [at |-> "start", end |-> end_index, start |-> 0]
    BY <1>7 DEF CountBegin, Size
  <2>2. ~ moved' => shift = 0 /\ end_index - start_index = Size
    <3>1. ~ moved' => ~ (shift > 0)
      BY <2>1, Zenon
    <3>2. ~ (shift > 0) => shift = 0 /\ end_index - start_index = Size
      BY <1>1
    <3> QED
      BY <3>1, <3>2
  <2> QED
    BY <2>1, <2>2 DEF ReadInv
<1>8. CASE CountEnd
  <2>1. /\ UNCHANGED <<start_index, end_index, shift, seen, moved>> /\ Size' = Size
        /\ \/ /\ count.at = "end"
              /\ count'.at = "done" /\ count'.end = end_index
              /\ count'.start = count.start
           \/ /\ count.at = "start"
              /\ count'.at = "done" /\ count'.start = start_index
              /\ count'.end = count.end
    BY <1>8 DEF CountEnd, CountInv, Size
  <2>2. count.at # "idle" /\ ~ moved => end_index - start_index \in seen
    BY <1>1 DEF ReadInv
  <2> QED
    BY <2>1, <2>2 DEF ReadInv
<1>9. CASE CountReturned
  BY <1>9 DEF CountReturned, ReadInv
<1>10. CASE UNCHANGED vars
  BY <1>10 DEF vars, ReadInv, Size
<1> QED
  BY <1>2, <1>3, <1>4, <1>5, <1>6, <1>7, <1>8, <1>9, <1>10 DEF Next

-----------------------------------------------------------------------------
(* All steps *)

LEMMA CountSteps ==
  ASSUME DequeInv,
         CountBegin \/ CountEnd \/ CountReturned \/ UNCHANGED vars
  PROVE  DequeInv' /\ UNCHANGED <<Items, popped>>
<1>1. UNCHANGED <<data, start_index, end_index, alloc_block_start,
                  alloc_block_end, blocks, pushing, shift, popped>>
  BY DEF CountBegin, CountEnd, CountReturned, vars
<1>2. UNCHANGED <<block_count, Ahead, First, Final, End, Size, Items>>
  BY <1>1 DEF block_count, Ahead, First, Final, End, Size, Items
<1>3. IndexInv' /\ BlocksInv' /\ ItemsInv'
  BY <1>1, <1>2 DEF DequeInv, IndexInv, BlocksInv, ItemsInv, Item
<1> QED
  BY <1>1, <1>2, <1>3 DEF DequeInv

LEMMA NextStep ==
  ASSUME DequeInv, [Next]_vars
  PROVE  DequeInv' /\ [Queue!Next]_<<Items, popped>>
<1>1. CASE \E v \in Values : PushBegin(v) \/ PushShift(v)
  BY <1>1, PushBeginStep, PushShiftStep
<1>2. CASE PushShifted
  BY <1>2, PushShiftedStep
<1>3. CASE PushEnd
  <2>1. Queue!Push(pushing) /\ pushing \in Values
    BY <1>3, PushEndStep DEF Queue!Push
  <2> QED
    BY <1>3, <2>1, PushEndStep DEF Queue!Next
<1>4. CASE Pop
  BY <1>4, PopStep DEF Queue!Next
<1>5. CASE CountBegin \/ CountEnd \/ CountReturned \/ UNCHANGED vars
  BY <1>5, CountSteps
<1> QED
  BY <1>1, <1>2, <1>3, <1>4, <1>5 DEF Next

\* The indices stay in the table even while end_index is ahead.
LEMMA DequeInvTypes == DequeInv /\ CountInv => TypeOK
<1> SUFFICES ASSUME DequeInv, CountInv PROVE TypeOK
  OBVIOUS
<1>1. PICK n, a : /\ n = block_count /\ a = Ahead /\ n \in Nat /\ a \in Nat
                  /\ DOMAIN data = 0 .. n - 1 /\ shift = a * BlockSize
  BY IndexNumbers DEF DequeInv, IndexInv
<1>2. /\ start_index \in Nat /\ end_index \in Nat /\ shift \in Nat
      /\ end_index = End + shift /\ End \in Nat /\ start_index <= End
      /\ Final + 1 + a = alloc_block_end + 1 /\ Final \in Nat
      /\ alloc_block_start \in Nat /\ alloc_block_end \in Nat
      /\ alloc_block_start <= alloc_block_end /\ alloc_block_end < n
      /\ a <= alloc_block_start
  <2>1. /\ start_index \in Nat /\ end_index \in Nat /\ shift \in Nat
        /\ End = end_index - shift /\ End \in Nat /\ start_index <= End
        /\ alloc_block_start \in Nat /\ alloc_block_end \in Nat
        /\ First = alloc_block_start - a /\ Final = alloc_block_end - a
        /\ First \in Nat /\ Final \in Nat /\ First <= Final /\ alloc_block_end < n
    BY <1>1, IndexNumbers DEF DequeInv, IndexInv, First, Final, End
  <2> QED
    BY <1>1, <2>1
<1>3. PICK m : m = n * BlockSize /\ m \in Nat
  BY <1>1, DequeAssumption
<1>4. end_index <= m /\ shift <= m
  <2>1. End <= (Final + 1) * BlockSize
    BY DEF DequeInv, IndexInv
  <2>2. (Final + 1) * BlockSize + a * BlockSize = (Final + 1 + a) * BlockSize
    BY <1>1, <1>2, DequeAssumption
  <2>3. (alloc_block_end + 1) * BlockSize <= m /\ a * BlockSize <= m
    <3>1. PICK p \in Int : p = alloc_block_end + 1 /\ p <= n
      BY <1>1, <1>2
    <3>2. p * BlockSize <= n * BlockSize
      BY <1>1, <3>1, TimesMonotone
    <3>3. a <= n /\ n \in Int /\ a \in Int
      BY <1>1, <1>2
    <3>4. a * BlockSize <= n * BlockSize
      BY <3>3, TimesMonotone
    <3> QED
      BY <1>3, <3>1, <3>2, <3>4
  <2>4. (Final + 1) * BlockSize \in Int /\ a * BlockSize \in Int
    BY <1>1, <1>2, DequeAssumption
  <2>5. (Final + 1) * BlockSize + a * BlockSize <= m
    BY <1>2, <2>2, <2>3
  <2> QED
    BY <1>1, <1>2, <1>3, <2>1, <2>3, <2>4, <2>5
<1>5. /\ start_index \in 0 .. block_count * BlockSize
      /\ end_index \in start_index .. block_count * BlockSize
      /\ shift \in 0 .. block_count * BlockSize
  BY <1>1, <1>2, <1>3, <1>4
<1>6. alloc_block_start \in DOMAIN data /\ alloc_block_end \in DOMAIN data
  BY <1>1, <1>2
<1>7. Size \in 0 .. MaxItems
  BY IndexNumbers, DequeAssumption DEF DequeInv, IndexInv
<1>8. /\ data \in [0 .. block_count - 1 -> DOMAIN blocks \cup {GARBAGE}]
      /\ blocks \in Seq([0 .. BlockSize - 1 -> Values \cup {GARBAGE}])
  BY <1>1 DEF DequeInv, BlocksInv, Contents, Slot
<1>9. pushing \in Values \cup {NULL} /\ popped \in Values \cup {NULL}
  BY DEF DequeInv, ItemsInv
<1> QED
  BY <1>5, <1>6, <1>7, <1>8, <1>9 DEF TypeOK, CountInv

\* As many places as blocks, each for another one.
LEMMA OwnedBlocks == DequeInv /\ CountInv => BlocksOwned
<1> SUFFICES ASSUME DequeInv, pushing = NULL
             PROVE  /\ {data[b] : b \in Allocated} = DOMAIN blocks
                    /\ Cardinality(Allocated) = Len(blocks)
  BY DequeInvTypes DEF BlocksOwned
<1>1. shift = 0
  BY DEF DequeInv, IndexInv
<1>2. /\ Allocated = First .. Final
      /\ alloc_block_start \in Int /\ alloc_block_end \in Int
  BY <1>1, NotAhead, IndexNumbers DEF DequeInv, Allocated
<1>3. /\ {data[b] : b \in Allocated} = DOMAIN blocks
      /\ \A b, c \in Allocated : data[b] = data[c] => b = c
      /\ DOMAIN blocks = 1 .. Len(blocks) /\ Len(blocks) \in Nat
  BY <1>2, LenProperties DEF DequeInv, BlocksInv
<1>4. PICK f : f = [b \in Allocated |-> data[b]]
  OBVIOUS
<1>5. f \in Bijection(Allocated, DOMAIN blocks)
  <2>1. f \in [Allocated -> DOMAIN blocks]
    BY <1>3, <1>4
  <2>2. \A b, c \in Allocated : f[b] = f[c] => b = c
    BY <1>3, <1>4
  <2>3. \A x \in DOMAIN blocks : \E b \in Allocated : f[b] = x
    BY <1>3, <1>4
  <2> QED
    BY <2>1, <2>2, <2>3, Fun_IsBij
<1>6. IsFiniteSet(Allocated)
  BY <1>2, FS_Interval DEF Allocated
<1>7. Cardinality(1 .. Len(blocks)) = Len(blocks)
  <2>1. PICK n \in Nat : n = Len(blocks)
    BY <1>3
  <2>2. Cardinality(1 .. n) = IF 1 > n THEN 0 ELSE n - 1 + 1
    BY FS_Interval
  <2> QED
    BY <2>1, <2>2
<1>8. Cardinality(DOMAIN blocks) = Cardinality(Allocated)
  BY <1>5, <1>6, FS_Bijection DEF ExistsBijection
<1> QED
  BY <1>3, <1>7, <1>8

LEMMA InitCounts == Init => CountInv /\ ReadInv
BY DEF Init, CountInv, ReadInv

LEMMA InitEmpty == Init => Queue!Init
<1> SUFFICES ASSUME Init PROVE Queue!Init
  OBVIOUS
<1>1. Size = 0
  <2>1. end_index \in Int /\ end_index = start_index /\ shift = 0
    BY DequeAssumption DEF Init
  <2> QED
    BY <2>1 DEF Size
<1>2. Items = <<>>
  BY <1>1 DEF Items
<1> QED
  BY <1>2 DEF Queue!Init, Init

\* The deque loses no block and counts none twice, and its indices stay in
\* its table, however pushes move, enlarge and reuse the blocks.
THEOREM DequeOwnsItsBlocks == Spec => []BlocksOwned
<1>1. Init => DequeInv /\ CountInv
  BY InitDequeInv, InitCounts
<1>2. DequeInv /\ CountInv /\ [Next]_vars => (DequeInv /\ CountInv)'
  BY NextStep, NextCountInv
<1> QED
  BY <1>1, <1>2, OwnedBlocks, PTL DEF Spec

\* queue_push and queue_pop are those of a queue, whatever the size of a
\* block and the number of blocks: the items between the two indices are
\* those that were pushed and not popped, in the order they were pushed.
THEOREM DequeIsQueue == Spec => ImplementsFifo
<1>1. Init => DequeInv /\ Queue!Init
  BY InitDequeInv, InitEmpty
<1>2. DequeInv /\ [Next]_vars => DequeInv' /\ [Queue!Next]_<<Items, popped>>
  BY NextStep
<1> QED
  BY <1>1, <1>2, PTL DEF Spec, ImplementsFifo, Queue!Spec, Queue!vars

\* What the unlocked queue_count returns is a size the queue had while it ran,
\* if nobody else pops and no push moved the blocks: an index that is read
\* early only makes the answer an older one.
THEOREM CountIsASize ==
  ASSUME OthersPop = FALSE
  PROVE  Spec => []CountWasSizeIfAlone
<1>1. Init => DequeInv /\ CountInv /\ ReadInv
  BY InitDequeInv, InitCounts
<1>2. DequeInv /\ CountInv /\ ReadInv /\ [Next]_vars
        => (DequeInv /\ CountInv /\ ReadInv)'
  BY NextStep, NextCountInv, NextReadInv
<1>3. CountInv /\ ReadInv => CountWasSizeIfAlone
  BY DEF ReadInv, CountWasSizeIfAlone
<1> QED
  BY <1>1, <1>2, <1>3, PTL DEF Spec
===============================================================================
