---------------------------- MODULE CallArgsProofs ----------------------------
(***************************************************************************)
(* For prototypes of any length in which the pointers have the same j and  *)
(* k: what is freed is freed once, the caller's objects come back, its     *)
(* pointers are in sync, and what the function returned is placed.         *)
(***************************************************************************)
EXTENDS CallArgs, FiniteSetTheorems, SequenceTheorems, TLAPS

-----------------------------------------------------------------------------
(* Numbers in ascending order *)

RankIn(S, x) == Cardinality({y \in S : y <= x})

LEMMA RankType ==
  ASSUME NEW S \in SUBSET Nat, IsFiniteSet(S), NEW x \in S
  PROVE  RankIn(S, x) \in 1 .. Cardinality(S)
<1> DEFINE T == {y \in S : y <= x}
<1>1. T \in SUBSET S /\ x \in T
  OBVIOUS
<1> HIDE DEF T
<1>2. IsFiniteSet(T) /\ Cardinality(T) <= Cardinality(S) /\ Cardinality(S) \in Nat
  BY <1>1, FS_Subset, FS_CardinalityType
<1>3. Cardinality(T) \in Nat /\ Cardinality(T) # 0
  BY <1>1, <1>2, FS_CardinalityType, FS_EmptySet
<1>4. RankIn(S, x) = Cardinality(T)
  BY DEF RankIn, T
<1> QED
  BY <1>2, <1>3, <1>4

LEMMA RankStrict ==
  ASSUME NEW S \in SUBSET Nat, IsFiniteSet(S), NEW x \in S, NEW z \in S, x < z
  PROVE  RankIn(S, x) # RankIn(S, z)
<1> DEFINE T == {y \in S : y <= x}
           U == {y \in S : y <= z}
<1>1. U \in SUBSET S /\ z \in U /\ z \notin T /\ \A y \in T : y \in U
  OBVIOUS
<1> HIDE DEF T, U
<1>2. IsFiniteSet(U)
  BY <1>1, FS_Subset
<1>3. Cardinality(T) # Cardinality(U)
  <2>1. T \in SUBSET U
    BY <1>1
  <2> QED
    BY <1>1, <1>2, <2>1, FS_Subset
<1> QED
  BY <1>3 DEF RankIn, T, U

\* Each number of a set has its place in the order, and each place its number.
LEMMA RankOnto ==
  ASSUME NEW S \in SUBSET Nat, IsFiniteSet(S), NEW r \in 1 .. Cardinality(S)
  PROVE  \E x \in S : RankIn(S, x) = r
<1> DEFINE n == Cardinality(S)
           rank == [x \in S |-> RankIn(S, x)]
<1>1. n \in Nat
  BY FS_CardinalityType
<1>2. IsFiniteSet(1 .. n) /\ Cardinality(1 .. n) = n
  BY <1>1, FS_Interval
<1>3. rank \in [S -> 1 .. n]
  BY RankType
<1>4. ASSUME NEW x \in S, NEW z \in S, rank[x] = rank[z] PROVE x = z
  <2>1. x < z \/ z < x \/ x = z
    OBVIOUS
  <2> QED
    BY <1>4, <2>1, RankStrict
<1>5. rank \in Injection(S, 1 .. n)
  BY <1>3, <1>4 DEF Injection, IsInjective
<1>6. rank \in Surjection(S, 1 .. n)
  BY <1>2, <1>5, FS_Injection
<1> QED
  BY <1>6 DEF Surjection

LEMMA AscendingIs ==
  ASSUME NEW S \in SUBSET Nat, IsFiniteSet(S)
  PROVE  /\ Cardinality(S) \in Nat
         /\ Ascending(S) \in Seq(S) /\ Len(Ascending(S)) = Cardinality(S)
         /\ \A r \in 1 .. Cardinality(S) : RankIn(S, Ascending(S)[r]) = r
         /\ \A x \in S : Ascending(S)[RankIn(S, x)] = x
<1>1. Cardinality(S) \in Nat
  BY FS_CardinalityType
<1>2. ASSUME NEW r \in 1 .. Cardinality(S)
      PROVE  Ascending(S)[r] \in S /\ RankIn(S, Ascending(S)[r]) = r
  <2>1. Ascending(S)[r] = CHOOSE x \in S : RankIn(S, x) = r
    BY DEF Ascending, RankIn
  <2>2. \E x \in S : RankIn(S, x) = r
    BY RankOnto
  <2> QED
    BY <2>1, <2>2
<1>3. ASSUME NEW x \in S PROVE Ascending(S)[RankIn(S, x)] = x
  <2>1. RankIn(S, x) \in 1 .. Cardinality(S)
    BY RankType
  <2>2. PICK z \in S : z = Ascending(S)[RankIn(S, x)]
    BY <1>2, <2>1
  <2>3. RankIn(S, z) = RankIn(S, x)
    BY <1>2, <2>1, <2>2
  <2>4. x < z \/ z < x \/ x = z
    OBVIOUS
  <2> QED
    BY <2>2, <2>3, <2>4, RankStrict
<1>4. DOMAIN Ascending(S) = 1 .. Cardinality(S)
  BY DEF Ascending
<1>5. Ascending(S) = [r \in 1 .. Cardinality(S) |-> Ascending(S)[r]]
  BY DEF Ascending
<1>6. Ascending(S) \in Seq(S)
  BY <1>1, <1>2, <1>5
<1>7. Len(Ascending(S)) = Cardinality(S)
  BY <1>1, <1>4, <1>6, LenProperties
<1> QED
  BY <1>1, <1>2, <1>3, <1>6, <1>7

-----------------------------------------------------------------------------
(* The invariant *)

\* The first n of the caller's pointer arguments.
Upto(n) == {Repackable[r] : r \in 1 .. n}

\* Where caller, executor and reply can be together.
Control ==
  /\ caller \in {"pack", "wait", "ok", "failed", "done"}
  /\ executor \in {"idle", "serve", "repack", "free", "over", "left"}
  /\ reply \in {"none", "bad", "return", "taken", "dropped", "forgotten"}
  /\ caller = "pack" => executor = "idle"
  /\ executor = "idle" => caller # "wait"
  /\ executor \in {"idle", "serve", "repack", "left"} => reply = "none"
  /\ executor = "free" => reply # "none"
  /\ executor = "over" /\ reply = "none" => ~tcp /\ caller # "wait"
  /\ reply = "taken" => caller \in {"ok", "done"}
  /\ caller = "ok" => reply = "taken"
  /\ caller = "done" => tcp \/ reply = "taken"
  /\ reply \in {"dropped", "forgotten"} => caller \in {"failed", "done"}
  /\ executor \in {"idle", "serve"} => written = {} /\ result = 0

\* The arguments repacked, and those the caller has taken from the reply.
Done == IF executor = "repack" THEN Upto(Len(repacked))
        ELSE IF reply \in {"return", "taken", "dropped", "forgotten"} THEN Pointers ELSE {}
Got == Upto(unpacked)

\* The arguments that are in the request's array.
Kept == IF executor = "repack" THEN Pointers \ Upto(Len(repacked))
        ELSE IF \/ executor # "idle" /\ reply = "none"
                \/ executor = "free" /\ reply = "bad" THEN Pointers ELSE {}

\* The pointer of argument j in the array of the request.
Update(j) == [arg |-> j, ptr |-> Requested(j), index |-> j]

\* All but the first n of the caller's queue, as the function got them.
Rest(n) == [r \in 1 .. Len(Repackable) - n |-> Update(Repackable[n + r])]

\* What is in the arrays.
Arrays ==
  LET n == Len(repacked) IN
  /\ DOMAIN arguments = Kept
  /\ \A j \in Kept : arguments[j] = Requested(j)
  /\ repacked \in Seq(Cells)
  /\ executor = "repack" =>
       /\ n <= Len(Repackable)
       /\ to_repack = Rest(n)
       /\ \A r \in 1 .. n : repacked[r] = Cell(Repackable[r], 2)
  /\ executor # "repack" => to_repack = <<>>
  /\ reply \in {"return", "taken"} =>
       /\ n = Len(Repackable)
       /\ \A r \in 1 .. n : repacked[r] = Replied(Repackable[r])
  /\ executor # "repack" /\ reply \notin {"return", "taken"} => repacked = <<>>

\* How far the caller is.
Progress ==
  /\ unpacked \in 0 .. Len(repacked)
  /\ unpacked > 0 => \/ reply = "taken"
                     \/ reply = "return" /\ caller = "wait"
  /\ reply = "taken" => unpacked = Len(repacked)

\* The request was freed as it was, by the transport or the executor.
RequestFreed ==
  \/ ~tcp /\ caller = "failed" /\ executor = "idle"
  \/ executor = "over" /\ reply \in {"none", "bad"}

\* By whom c has been freed: with the request, or for the copy the reply has;
\* with the reply, when it was dropped, taken or freed; or by the caller.
IsFreed(c) ==
  LET j == c.arg IN
  /\ j \in Pointers
  /\ \/ /\ c = Requested(j)
        /\ RequestFreed \/ (j \in Done /\ Params[j] = "buf")
     \/ /\ c = Replied(j)
        /\ \/ ~tcp /\ reply = "dropped"
           \/ j \in Got /\ Params[j] # "buf" /\ c # Cell(j, 0)
           \/ reply = "taken" /\ Params[j] = "buf"
     \/ c = Cell(j, 0) /\ j \in Objects /\ caller = "done"

FreesInv == frees = [c \in Cells |-> IF IsFreed(c) THEN 1 ELSE 0]

\* Which cells there are.
IsFilled(c) ==
  LET j == c.arg IN
  \/ c.copy = 0
  \/ j \in Pointers /\ (\/ caller # "pack" /\ c = Cell(j, 1)
                        \/ executor # "idle" /\ c = Requested(j)
                        \/ j \in Done /\ c = Cell(j, 2)
                        \/ reply \in {"return", "taken", "forgotten"} /\ c = Replied(j))

Written(j) == IF j \in written THEN "new" ELSE "old"

\* What is in them.
ContentInv ==
  /\ content \in [Cells -> {"none", "old", "new"}]
  /\ written \subseteq Pointers
  /\ \A c \in Cells : content[c] # "none" <=> IsFilled(c)
  /\ \A j \in Pointers :
       /\ executor # "idle" => content[Requested(j)] = Written(j)
       /\ j \in Done => content[Cell(j, 2)] = Written(j)
       /\ reply \in {"return", "taken"} => content[Replied(j)] = Written(j)
       /\ j \in Got => content[Cell(j, 0)] = Written(j)

\* What the function returned.
ReturnInv ==
  /\ result \in Pointers \cup {0}
  /\ return_is \in 0 .. Len(Repackable)
  /\ result \in Done => return_is > 0 /\ Repackable[return_is] = result
  /\ result \notin Done => return_is = 0
  /\ native_return \in Cells \cup {NULL}
  /\ result \in Got /\ Params[result] # "buf" => native_return = Cell(result, 0)

CallInv ==
  /\ tcp \in BOOLEAN /\ prototype \in Prototypes
  /\ Control /\ Arrays /\ Progress /\ FreesInv /\ ContentInv /\ ReturnInv
-----------------------------------------------------------------------------
(* Prototypes in which the pointers have the same j and k *)

Passed == {i \in DOMAIN prototype : prototype[i] # "server"}
PointerParams == {i \in DOMAIN prototype : prototype[i] \in {"str", "buf", "object"}}

LEMMA PassedFinite ==
  ASSUME prototype \in Seq(Kinds)
  PROVE  /\ Len(prototype) \in Nat /\ DOMAIN prototype = 1 .. Len(prototype)
         /\ Passed \in SUBSET Nat /\ IsFiniteSet(Passed)
         /\ Cardinality(Passed) \in Nat /\ Cardinality(Passed) <= Len(prototype)
<1>1. Len(prototype) \in Nat /\ DOMAIN prototype = 1 .. Len(prototype)
  BY LenProperties
<1>2. IsFiniteSet(1 .. Len(prototype)) /\ Cardinality(1 .. Len(prototype)) = Len(prototype)
  BY <1>1, FS_Interval
<1>3. Passed \in SUBSET (1 .. Len(prototype))
  BY <1>1 DEF Passed
<1>4. IsFiniteSet(Passed) /\ Cardinality(Passed) <= Len(prototype)
  BY <1>2, <1>3, FS_Subset
<1> QED
  BY <1>1, <1>3, <1>4, FS_CardinalityType

LEMMA ParamsAre ==
  ASSUME prototype \in Seq(Kinds)
  PROVE  /\ DOMAIN Params = 1 .. Cardinality(Passed)
         /\ \A j \in 1 .. Cardinality(Passed) : Params[j] = prototype[Ascending(Passed)[j]]
<1>1. DOMAIN Ascending(Passed) = 1 .. Cardinality(Passed)
  BY DEF Ascending
<1>2. Params = [j \in DOMAIN Ascending(Passed) |-> prototype[Ascending(Passed)[j]]]
  BY DEF Params, Passed
<1> QED
  BY <1>1, <1>2

\* Before a pointer there is no parameter that only the server has, nor a buffer.
LEMMA AlignedBefore ==
  ASSUME prototype \in Seq(Kinds), IsAligned(prototype), NEW i \in PointerParams
  PROVE  /\ \A h \in 1 .. i - 1 : prototype[h] # "server"
         /\ ArgumentIndex(prototype, i) = i /\ FfiIndex(prototype, i) = i
<1> DEFINE Servers == {h \in 1 .. i - 1 : prototype[h] = "server"}
           Bufs == {h \in 1 .. i - 1 : prototype[h] = "buf"}
<1>1. i \in Nat /\ i > 0 /\ i \in DOMAIN prototype
  BY PassedFinite DEF PointerParams
<1>2. IsFiniteSet(1 .. i - 1)
  BY <1>1, FS_Interval
<1>3. Servers \in SUBSET (1 .. i - 1) /\ Bufs \in SUBSET (1 .. i - 1)
  OBVIOUS
<1> HIDE DEF Servers, Bufs
<1>4. IsFiniteSet(Servers) /\ IsFiniteSet(Bufs)
  BY <1>2, <1>3, FS_Subset
<1>5. Cardinality(Servers) \in Nat /\ Cardinality(Bufs) \in Nat
  BY <1>4, FS_CardinalityType
<1>6. /\ ArgumentIndex(prototype, i) = i - Cardinality(Servers)
      /\ FfiIndex(prototype, i) = i + Cardinality(Bufs)
  BY DEF ArgumentIndex, FfiIndex, Before, Servers, Bufs
<1>7. ArgumentIndex(prototype, i) = FfiIndex(prototype, i)
  BY <1>1 DEF IsAligned, PointerParams
<1>8. Cardinality(Servers) = 0 /\ Cardinality(Bufs) = 0
  BY <1>1, <1>5, <1>6, <1>7
<1>9. Servers = {}
  BY <1>4, <1>8, FS_EmptySet
<1> QED
  BY <1>1, <1>6, <1>8, <1>9 DEF Servers

LEMMA AlignedRank ==
  ASSUME prototype \in Seq(Kinds), IsAligned(prototype), NEW i \in PointerParams
  PROVE  i \in Passed /\ RankIn(Passed, i) = i
<1>1. /\ i \in Nat /\ i > 0 /\ i <= Len(prototype) /\ Len(prototype) \in Nat
      /\ DOMAIN prototype = 1 .. Len(prototype)
  BY PassedFinite DEF PointerParams
<1>2. i \in Passed
  BY DEF PointerParams, Passed
<1>3. {y \in Passed : y <= i} = 1 .. i
  BY <1>1, <1>2, AlignedBefore DEF Passed
<1>4. Cardinality(1 .. i) = i
  BY <1>1, FS_Interval
<1> QED
  BY <1>2, <1>3, <1>4, Zenon DEF RankIn

\* The arguments that are pointers are the parameters that are.
LEMMA AlignedPointers ==
  ASSUME prototype \in Seq(Kinds), IsAligned(prototype)
  PROVE  /\ Pointers = PointerParams
         /\ \A j \in Pointers : Params[j] = prototype[j]
<1>1. ASSUME NEW i \in PointerParams
      PROVE  i \in DOMAIN Params /\ Params[i] = prototype[i]
  <2>1. i \in Passed /\ RankIn(Passed, i) = i
    BY AlignedRank
  <2>2. i \in 1 .. Cardinality(Passed)
    BY <2>1, RankType, PassedFinite
  <2>3. Ascending(Passed)[RankIn(Passed, i)] = i
    BY <2>1, AscendingIs, PassedFinite
  <2>4. Ascending(Passed)[i] = i
    BY <2>1, <2>3
  <2> QED
    BY <2>2, <2>4, ParamsAre
<1>2. ASSUME NEW j \in Pointers PROVE j \in PointerParams
  <2>1. j \in 1 .. Cardinality(Passed) /\ Params[j] = prototype[Ascending(Passed)[j]]
        /\ Params[j] \in {"str", "buf", "object"}
    BY ParamsAre DEF Pointers
  <2>2. PICK i \in Passed : i = Ascending(Passed)[j]
    BY <2>1, AscendingIs, PassedFinite
  <2>3. RankIn(Passed, i) = j
    BY <2>1, <2>2, AscendingIs, PassedFinite
  <2>4. i \in PointerParams
    BY <2>1, <2>2 DEF PointerParams, Passed
  <2>5. i = j
    BY <2>3, <2>4, AlignedRank
  <2> QED
    BY <2>4, <2>5
<1>3. ASSUME NEW i \in PointerParams PROVE i \in Pointers
  BY <1>1 DEF Pointers, PointerParams
<1>4. Pointers = PointerParams
  BY <1>2, <1>3
<1> QED
  BY <1>1, <1>4

\* The caller's queue has each of its pointers once.
LEMMA QueueIs ==
  ASSUME prototype \in Seq(Kinds)
  PROVE  /\ Repackable \in Seq(Pointers)
         /\ Len(Repackable) \in Nat /\ Len(Repackable) <= Len(prototype)
         /\ \A r \in 1 .. Len(Repackable) : Repackable[r] \in Pointers
         /\ \A j \in Pointers : \E r \in 1 .. Len(Repackable) : Repackable[r] = j
         /\ \A r \in 1 .. Len(Repackable), s \in 1 .. Len(Repackable) :
              Repackable[r] = Repackable[s] => r = s
         /\ Pointers \subseteq Nat \ {0}
<1>1. Pointers \in SUBSET (1 .. Cardinality(Passed)) /\ Cardinality(Passed) \in Nat
  BY ParamsAre, PassedFinite DEF Pointers
<1>2. IsFiniteSet(1 .. Cardinality(Passed))
      /\ Cardinality(1 .. Cardinality(Passed)) = Cardinality(Passed)
  BY <1>1, FS_Interval
<1>3. IsFiniteSet(Pointers) /\ Cardinality(Pointers) <= Cardinality(Passed)
  BY <1>1, <1>2, FS_Subset
<1>4. Pointers \in SUBSET Nat /\ Pointers \subseteq Nat \ {0}
  BY <1>1
<1>5. /\ Cardinality(Pointers) \in Nat
      /\ Repackable \in Seq(Pointers) /\ Len(Repackable) = Cardinality(Pointers)
      /\ \A r \in 1 .. Cardinality(Pointers) : RankIn(Pointers, Repackable[r]) = r
      /\ \A x \in Pointers : Repackable[RankIn(Pointers, x)] = x
  BY <1>3, <1>4, AscendingIs DEF Repackable
<1>6. \A j \in Pointers : RankIn(Pointers, j) \in 1 .. Len(Repackable)
  BY <1>3, <1>4, <1>5, RankType
<1>7. Len(Repackable) <= Len(prototype)
  BY <1>1, <1>3, <1>5, PassedFinite
<1> QED
  BY <1>4, <1>5, <1>6, <1>7

-----------------------------------------------------------------------------
(* Lemmas about cells and arrays *)

AllAligned == \A p \in Prototypes : IsAligned(p)

\* Transport and prototype stay, and with them what depends on nothing else.
LEMMA StepFixed ==
  ASSUME [Next]_vars
  PROVE  tcp' = tcp /\ prototype' = prototype
BY DEF Next, vars, Pack, SendFails, CallFails, Reject, Abandon, CallFn, Repack,
       SendReply, FreeRequest, BadReply, DropReply, ForgetReply,
       Unpack, Return, CallerFrees

LEMMA FixedDefs ==
  ASSUME prototype' = prototype
  PROVE  /\ Params' = Params /\ Pointers' = Pointers /\ Objects' = Objects
         /\ Cells' = Cells /\ Repackable' = Repackable
<1>1. Params' = Params
  BY DEF Params
<1>2. Pointers' = Pointers
  BY <1>1 DEF Pointers
<1> QED
  BY <1>1, <1>2 DEF Objects, Cells, Repackable

LEMMA PrototypeIs ==
  ASSUME prototype \in Prototypes
  PROVE  prototype \in Seq(Kinds)
BY CallArgsAssumption DEF CallArgsAssumption

LEMMA CellIs ==
  ASSUME tcp \in BOOLEAN, NEW j \in Pointers
  PROVE  /\ \A k \in 0 .. 4 : Cell(j, k) \in Cells /\ Cell(j, k).arg = j
         /\ Requested(j) \in Cells /\ Requested(j).arg = j
         /\ Replied(j) \in Cells /\ Replied(j).arg = j
BY DEF Cell, Requested, Replied, Cells, Pointers, Objects

\* Which of the cells of an argument is which.
LEMMA CopyIs ==
  ASSUME tcp \in BOOLEAN, NEW c \in Cells, c.arg \in Pointers
  PROVE  /\ c.copy \in 0 .. 4
         /\ c = Cell(c.arg, 0) <=> c.copy = 0
         /\ c = Cell(c.arg, 1) <=> c.copy = IF c.arg \in Objects THEN 0 ELSE 1
         /\ c = Cell(c.arg, 2) <=> c.copy = IF c.arg \notin Objects THEN 2
                                            ELSE IF tcp THEN 3 ELSE 0
         /\ c = Requested(c.arg) <=> c.copy = IF tcp THEN 3
                                              ELSE IF c.arg \in Objects THEN 0 ELSE 1
         /\ c = Replied(c.arg) <=> c.copy = IF tcp THEN 4
                                            ELSE IF c.arg \in Objects THEN 0 ELSE 2
<1>1. PICK j \in DOMAIN Params, k \in 0 .. 4 : c = [arg |-> j, copy |-> k]
  BY DEF Cells
<1>2. c.arg = j /\ c.copy = k
  BY <1>1
<1> QED
  BY <1>1, <1>2 DEF Cell, Requested, Replied

\* The kind of a pointer.
LEMMA KindIs ==
  ASSUME NEW j \in Pointers
  PROVE  /\ Params[j] \in {"str", "buf", "object"}
         /\ j \in Objects <=> Params[j] = "object"
BY DEF Pointers, Objects

\* The first n of the queue, and one more.
LEMMA UptoIs ==
  ASSUME prototype \in Seq(Kinds)
  PROVE  /\ Upto(0) = {} /\ Upto(Len(Repackable)) = Pointers
         /\ \A n \in 0 .. Len(Repackable) : Upto(n) \subseteq Pointers
         /\ \A n \in Nat : n < Len(Repackable) =>
              /\ Repackable[n + 1] \in Pointers
              /\ Repackable[n + 1] \notin Upto(n)
              /\ Upto(n + 1) = Upto(n) \cup {Repackable[n + 1]}
<1>1. /\ Len(Repackable) \in Nat
      /\ \A r \in 1 .. Len(Repackable) : Repackable[r] \in Pointers
      /\ \A j \in Pointers : \E r \in 1 .. Len(Repackable) : Repackable[r] = j
      /\ \A r \in 1 .. Len(Repackable), s \in 1 .. Len(Repackable) :
           Repackable[r] = Repackable[s] => r = s
  BY QueueIs
<1>2. Upto(0) = {}
  BY DEF Upto
<1>3. Upto(Len(Repackable)) = Pointers
  BY <1>1 DEF Upto
<1>4. \A n \in 0 .. Len(Repackable) : Upto(n) \subseteq Pointers
  BY <1>1 DEF Upto
<1>5. ASSUME NEW n \in Nat, n < Len(Repackable)
      PROVE  /\ Repackable[n + 1] \in Pointers
             /\ Repackable[n + 1] \notin Upto(n)
             /\ Upto(n + 1) = Upto(n) \cup {Repackable[n + 1]}
  <2>1. n + 1 \in 1 .. Len(Repackable) /\ n + 1 \notin 1 .. n
        /\ \A r \in 1 .. n : r \in 1 .. Len(Repackable)
    BY <1>1, <1>5
  <2>2. \A r : r \in 1 .. n + 1 <=> r \in 1 .. n \/ r = n + 1
    BY <1>5
  <2> QED
    BY <1>1, <2>1, <2>2 DEF Upto
<1> QED
  BY <1>2, <1>3, <1>4, <1>5

LEMMA RestIs ==
  ASSUME prototype \in Seq(Kinds), NEW n \in 0 .. Len(Repackable)
  PROVE  /\ Rest(n) = <<>> <=> n = Len(Repackable)
         /\ n < Len(Repackable) =>
              Head(Rest(n)) = Update(Repackable[n + 1]) /\ Tail(Rest(n)) = Rest(n + 1)
<1>1. Len(Repackable) \in Nat /\ n \in Nat
  BY QueueIs
<1>2. Rest(n) \in Seq({Update(Repackable[k]) : k \in Nat})
  BY <1>1 DEF Rest
<1>3. Len(Rest(n)) = Len(Repackable) - n
  BY <1>1, <1>2 DEF Rest
<1>4. Rest(n) = <<>> <=> n = Len(Repackable)
  BY <1>1, <1>2, <1>3
<1>5. ASSUME n < Len(Repackable)
      PROVE  Head(Rest(n)) = Update(Repackable[n + 1]) /\ Tail(Rest(n)) = Rest(n + 1)
  <2>1. Head(Rest(n)) = Update(Repackable[n + 1])
    BY <1>1, <1>2, <1>3, <1>5 DEF Rest
  <2>2. /\ Tail(Rest(n)) \in Seq({Update(Repackable[k]) : k \in Nat})
        /\ Len(Tail(Rest(n))) = Len(Repackable) - (n + 1)
        /\ \A r \in 1 .. Len(Tail(Rest(n))) : Tail(Rest(n))[r] = Rest(n)[r + 1]
    <3>1. Rest(n) # <<>> /\ Len(Rest(n)) - 1 = Len(Repackable) - (n + 1)
      BY <1>1, <1>3, <1>4, <1>5
    <3> QED
      BY <1>2, <3>1, HeadTailProperties
  <2>3. /\ Rest(n + 1) \in Seq({Update(Repackable[k]) : k \in Nat})
        /\ Len(Rest(n + 1)) = Len(Repackable) - (n + 1)
        /\ \A r \in 1 .. Len(Repackable) - (n + 1) :
             Rest(n + 1)[r] = Update(Repackable[(n + 1) + r])
    BY <1>1, <1>5 DEF Rest
  <2>4. ASSUME NEW r \in 1 .. Len(Repackable) - (n + 1)
        PROVE  Rest(n)[r + 1] = Update(Repackable[(n + 1) + r])
    <3>1. r + 1 \in 1 .. Len(Repackable) - n /\ n + (r + 1) = (n + 1) + r
      BY <1>1
    <3> QED
      BY <3>1 DEF Rest
  <2>5. Tail(Rest(n)) = Rest(n + 1)
    BY <2>2, <2>3, <2>4, SeqEqual
  <2> QED
    BY <2>1, <2>5
<1> QED
  BY <1>4, <1>5

LEMMA SetsAre ==
  ASSUME CallInv
  PROVE  /\ Pointers \subseteq DOMAIN Params /\ Objects \subseteq Pointers
         /\ Kept \subseteq Pointers /\ Done \subseteq Pointers /\ Got \subseteq Pointers
         /\ Got # {} => reply = "taken" \/ (reply = "return" /\ caller = "wait")
         /\ reply = "taken" => Got = Pointers
<1>1. prototype \in Seq(Kinds) /\ Len(Repackable) \in Nat
  BY PrototypeIs, QueueIs DEF CallInv
<1>2. Pointers \subseteq DOMAIN Params /\ Objects \subseteq Pointers
  BY DEF Pointers, Objects
<1>3. Len(repacked) \in Nat
  BY LenProperties DEF CallInv, Arrays
<1>4. executor = "repack" => Len(repacked) \in 0 .. Len(Repackable)
  BY <1>1, <1>3 DEF CallInv, Arrays
<1>5. Done \subseteq Pointers
  BY <1>1, <1>4, UptoIs DEF Done
<1>6. Got \subseteq Pointers
  <2>1. unpacked \in 0 .. Len(Repackable)
    BY <1>1, <1>3, <1>4 DEF CallInv, Progress, Arrays, Control
  <2> QED
    BY <1>1, <2>1, UptoIs DEF Got
<1>7. Got # {} => unpacked > 0
  BY <1>1, <1>3, UptoIs DEF Got, CallInv, Progress
<1>8. reply = "taken" => Got = Pointers
  BY <1>1, UptoIs DEF Got, CallInv, Progress, Arrays
<1> QED
  BY <1>2, <1>5, <1>6, <1>7, <1>8 DEF Kept, CallInv, Progress

LEMMA KeptIs ==
  ASSUME CallInv
  PROVE  /\ Kept \subseteq Pointers
         /\ \A c \in Cells :
              c \in Elements(arguments) <=> c.arg \in Kept /\ c = Requested(c.arg)
<1>1. Kept \subseteq Pointers
  BY DEF Kept
<1>2. \A j \in Kept : Requested(j).arg = j
  BY <1>1, CellIs DEF CallInv
<1>3. Elements(arguments) = {Requested(j) : j \in Kept}
  BY DEF Elements, CallInv, Arrays
<1> QED
  BY <1>1, <1>2, <1>3

LEMMA ReplyIs ==
  ASSUME CallInv, reply \in {"return", "taken"}
  PROVE  \A c \in Cells :
           c \in Elements(repacked) <=> c.arg \in Pointers /\ c = Replied(c.arg)
<1>1. /\ DOMAIN repacked = 1 .. Len(Repackable)
      /\ \A r \in 1 .. Len(Repackable) : repacked[r] = Replied(Repackable[r])
  BY LenProperties DEF CallInv, Arrays
<1>2. /\ \A r \in 1 .. Len(Repackable) : Repackable[r] \in Pointers
      /\ \A j \in Pointers : \E r \in 1 .. Len(Repackable) : Repackable[r] = j
  BY QueueIs, PrototypeIs DEF CallInv
<1>3. \A j \in Pointers : Replied(j).arg = j
  BY CellIs DEF CallInv
<1>4. Elements(repacked) = {repacked[r] : r \in 1 .. Len(Repackable)}
  BY <1>1 DEF Elements
<1> QED
  BY <1>1, <1>2, <1>3, <1>4

\* Freeing what was not freed.
LEMMA FreesMore ==
  ASSUME FreesInv, Cells' = Cells, NEW C, Free(C),
         \A c \in Cells : c \in C => ~IsFreed(c),
         \A c \in Cells : IsFreed(c)' <=> IsFreed(c) \/ c \in C
  PROVE  FreesInv'
BY DEF FreesInv, Free

LEMMA FreesSame ==
  ASSUME FreesInv, Cells' = Cells, UNCHANGED frees,
         \A c \in Cells : IsFreed(c)' <=> IsFreed(c)
  PROVE  FreesInv'
BY DEF FreesInv

-----------------------------------------------------------------------------
(* The invariant at the start, and what follows from it *)

LEMMA InitInv == Init => CallInv
<1> SUFFICES ASSUME Init PROVE CallInv
  OBVIOUS
<1> USE DEF Init
<1>1. prototype \in Seq(Kinds)
  BY PrototypeIs
<1>2. Kept = {} /\ Done = {}
  BY DEF Kept, Done
<1>3. Got = {}
  BY <1>1, UptoIs DEF Got
<1>4. Control
  BY DEF Control
<1>5. Arrays
  BY <1>2, EmptySeq DEF Arrays
<1>6. Progress
  BY EmptySeq DEF Progress
<1>7. FreesInv
  BY <1>2, <1>3 DEF FreesInv, IsFreed, RequestFreed
<1>8. ContentInv
  BY <1>2, <1>3 DEF ContentInv, IsFilled, Cells
<1>9. ReturnInv
  BY <1>1, <1>2, <1>3, QueueIs DEF ReturnInv
<1> QED
  BY <1>4, <1>5, <1>6, <1>7, <1>8, <1>9 DEF CallInv

LEMMA InvFreedOnce == CallInv => FreedOnce
<1> SUFFICES ASSUME CallInv PROVE FreedOnce
  OBVIOUS
<1>1. prototype \in Seq(Kinds) /\ tcp \in BOOLEAN
  BY PrototypeIs DEF CallInv
<1>2. /\ Pointers \subseteq DOMAIN Params /\ Objects \subseteq Pointers
      /\ Kept \subseteq Pointers /\ Done \subseteq Pointers /\ Got \subseteq Pointers
      /\ Got # {} => reply = "taken" \/ (reply = "return" /\ caller = "wait")
      /\ reply = "taken" => Got = Pointers
  BY SetsAre
<1>3. TypeOK
  <2>1. DOMAIN arguments \subseteq DOMAIN Params /\ Elements(arguments) \subseteq Cells
    BY <1>1, <1>2, CellIs DEF CallInv, Arrays, Elements
  <2>2. Elements(repacked) \subseteq Cells
    BY LenProperties DEF CallInv, Arrays, Elements
  <2>3. ASSUME NEW r \in DOMAIN to_repack
        PROVE  to_repack[r].arg \in Pointers /\ to_repack[r].ptr \in Cells
    <3>1. executor = "repack"
      BY DEF CallInv, Arrays
    <3> DEFINE n == Len(repacked)
    <3>2. n \in Nat /\ n <= Len(Repackable) /\ Len(Repackable) \in Nat
          /\ to_repack = Rest(n)
      BY <1>1, <3>1, QueueIs, LenProperties DEF CallInv, Arrays
    <3> HIDE DEF n
    <3>3. r \in 1 .. Len(Repackable) - n
      BY <3>2 DEF Rest
    <3>4. PICK k \in 1 .. Len(Repackable) : k = n + r
      BY <3>2, <3>3
    <3>5. PICK j \in Pointers : j = Repackable[k]
      <4>1. Repackable[k] \in Pointers
        BY <1>1, QueueIs
      <4> QED
        BY <4>1
    <3>6. to_repack[r] = Update(j)
      BY <3>2, <3>3, <3>4, <3>5 DEF Rest
    <3>7. Requested(j) \in Cells
      BY <1>1, CellIs
    <3> QED
      BY <3>6, <3>7 DEF Update
  <2>4. return_is \in 0 .. Len(prototype)
    BY <1>1, QueueIs DEF CallInv, ReturnInv
  <2>5. result \in DOMAIN Params \cup {0}
    BY <1>2 DEF CallInv, ReturnInv
  <2>6. frees \in [Cells -> Nat]
    BY DEF CallInv, FreesInv
  <2> QED
    BY <2>1, <2>2, <2>3, <2>4, <2>5, <2>6
    DEF TypeOK, CallInv, Control, Progress, ContentInv, ReturnInv
<1>4. ASSUME NEW c \in Cells
      PROVE  frees[c] <= 1 /\ (frees[c] = 1 => content[c] # "none")
  <2>1. frees[c] = IF IsFreed(c) THEN 1 ELSE 0
    BY DEF CallInv, FreesInv
  <2>2. content[c] # "none" <=> IsFilled(c)
    BY DEF CallInv, ContentInv
  <2>3. IsFreed(c) => IsFilled(c)
    <3>1. SUFFICES ASSUME c.arg \in Pointers, IsFreed(c) PROVE IsFilled(c)
      BY DEF IsFreed
    <3> DEFINE j == c.arg
    <3>2. /\ c = Cell(j, 0) <=> c.copy = 0
          /\ c = Cell(j, 1) <=> c.copy = IF j \in Objects THEN 0 ELSE 1
          /\ c = Requested(j) <=> c.copy = IF tcp THEN 3
                                           ELSE IF j \in Objects THEN 0 ELSE 1
          /\ c = Replied(j) <=> c.copy = IF tcp THEN 4
                                         ELSE IF j \in Objects THEN 0 ELSE 2
          /\ c = Cell(j, 2) <=> c.copy = IF j \notin Objects THEN 2
                                         ELSE IF tcp THEN 3 ELSE 0
      BY <1>1, <3>1, CopyIs
    <3> HIDE DEF j
    <3> QED
      BY <1>2, <3>1, <3>2
      DEF CallInv, Control, IsFreed, IsFilled, RequestFreed, Done, j
  <2> QED
    BY <2>1, <2>2, <2>3
<1>5. ASSUME Over, executor # "left", NEW c \in LeftOver
      PROVE  \/ Params[c.arg] = "str" /\ c = Requested(c.arg)
             \/ tcp /\ c \in {Cell(c.arg, 1), Cell(c.arg, 2)}
             \/ reply = "forgotten" /\ c = Replied(c.arg)
  <2>1. c \in Cells /\ ~IsFreed(c) /\ IsFilled(c)
    BY DEF CallInv, FreesInv, ContentInv, LeftOver
  <2>2. c.arg \in Pointers /\ c.copy > 0
    BY DEF LeftOver
  <2> DEFINE j == c.arg
  <2>3. /\ c = Cell(j, 0) <=> c.copy = 0
        /\ c = Cell(j, 1) <=> c.copy = IF j \in Objects THEN 0 ELSE 1
        /\ c = Requested(j) <=> c.copy = IF tcp THEN 3
                                         ELSE IF j \in Objects THEN 0 ELSE 1
        /\ c = Replied(j) <=> c.copy = IF tcp THEN 4
                                       ELSE IF j \in Objects THEN 0 ELSE 2
        /\ c = Cell(j, 2) <=> c.copy = IF j \notin Objects THEN 2
                                       ELSE IF tcp THEN 3 ELSE 0
    BY <1>1, <2>1, <2>2, CopyIs
  <2>4. Params[j] \in {"str", "buf", "object"} /\ (j \in Objects <=> Params[j] = "object")
    BY <2>2, KindIs
  <2> QED
    BY <1>2, <1>5, <2>1, <2>2, <2>3, <2>4
    DEF CallInv, Control, IsFreed, IsFilled, RequestFreed, Done, Over
<1> QED
  BY <1>3, <1>4, <1>5 DEF FreedOnce

LEMMA InvObjectsReturned == CallInv => ObjectsReturned
<1> SUFFICES ASSUME CallInv, NEW j \in Objects
    PROVE  /\ caller = "ok" => frees[Cell(j, 0)] = 0 /\ Cell(j, 0) \notin Elements(arguments)
           /\ ~tcp /\ caller = "failed" /\ Over /\ executor # "left"
                /\ reply # "forgotten" => frees[Cell(j, 0)] = 1
  BY DEF ObjectsReturned
<1>1. j \in Pointers /\ Params[j] = "object" /\ tcp \in BOOLEAN
  BY DEF Objects, CallInv
<1>2. PICK c \in Cells : c = Cell(j, 0) /\ c.arg = j
  BY <1>1, CellIs
<1>3. /\ c = Requested(j) <=> ~tcp
      /\ c = Replied(j) <=> ~tcp
  BY <1>1, <1>2, CopyIs
<1>4. frees[c] = IF IsFreed(c) THEN 1 ELSE 0
  BY DEF CallInv, FreesInv
<1>5. c \in Elements(arguments) <=> j \in Kept /\ c = Requested(j)
  BY <1>2, KeptIs
<1>6. caller = "ok" => ~IsFreed(c)
  BY <1>1, <1>2, <1>3 DEF CallInv, Control, IsFreed, RequestFreed
<1>7. caller = "ok" => ~(j \in Kept /\ c = Requested(j))
  BY <1>3 DEF CallInv, Control, Kept
<1>8. ~tcp /\ caller = "failed" /\ Over /\ executor # "left" /\ reply # "forgotten"
        => IsFreed(c)
  BY <1>1, <1>2, <1>3 DEF CallInv, Control, IsFreed, RequestFreed, Over
<1> QED
  BY <1>2, <1>4, <1>5, <1>6, <1>7, <1>8

LEMMA InvSynced == CallInv => Synced
BY SetsAre DEF CallInv, Control, ContentInv, Synced, Written

LEMMA InvReturnPlaced == CallInv => ReturnPlacedUnlessBuf
BY SetsAre DEF CallInv, Control, ReturnInv, ReturnPlacedUnlessBuf

-----------------------------------------------------------------------------
(* The parts of the invariant after a step *)

\* Which cells are which does not change.
LEMMA FreedNext ==
  ASSUME tcp' = tcp, prototype' = prototype, NEW c \in Cells
  PROVE  IsFreed(c)' <=>
           LET j == c.arg IN
           /\ j \in Pointers
           /\ \/ /\ c = Requested(j)
                 /\ RequestFreed' \/ (j \in Done' /\ Params[j] = "buf")
              \/ /\ c = Replied(j)
                 /\ \/ ~tcp /\ reply' = "dropped"
                    \/ j \in Got' /\ Params[j] # "buf" /\ c # Cell(j, 0)
                    \/ reply' = "taken" /\ Params[j] = "buf"
              \/ c = Cell(j, 0) /\ j \in Objects /\ caller' = "done"
BY FixedDefs DEF IsFreed, Requested, Replied, Cell

LEMMA ContentNext ==
  ASSUME tcp' = tcp, prototype' = prototype,
         content' \in [Cells -> {"none", "old", "new"}], written' \subseteq Pointers,
         \A c \in Cells : content'[c] # "none" <=>
           LET j == c.arg IN
           \/ c.copy = 0
           \/ j \in Pointers /\ (\/ caller' # "pack" /\ c = Cell(j, 1)
                                 \/ executor' # "idle" /\ c = Requested(j)
                                 \/ j \in Done' /\ c = Cell(j, 2)
                                 \/ reply' \in {"return", "taken", "forgotten"} /\ c = Replied(j)),
         \A j \in Pointers :
           LET left == IF j \in written' THEN "new" ELSE "old" IN
           /\ executor' # "idle" => content'[Requested(j)] = left
           /\ j \in Done' => content'[Cell(j, 2)] = left
           /\ reply' \in {"return", "taken"} => content'[Replied(j)] = left
           /\ j \in Got' => content'[Cell(j, 0)] = left
  PROVE  ContentInv'
BY FixedDefs DEF ContentInv, IsFilled, Written, Requested, Replied, Cell

LEMMA ReturnNext ==
  ASSUME tcp' = tcp, prototype' = prototype,
         result' \in Pointers \cup {0}, return_is' \in 0 .. Len(Repackable),
         result' \in Done' => return_is' > 0 /\ Repackable[return_is'] = result',
         result' \notin Done' => return_is' = 0,
         native_return' \in Cells \cup {NULL},
         result' \in Got' /\ Params[result'] # "buf" => native_return' = Cell(result', 0)
  PROVE  ReturnInv'
BY FixedDefs DEF ReturnInv, Cell

LEMMA ArraysNext ==
  ASSUME tcp' = tcp, prototype' = prototype,
         DOMAIN arguments' = Kept', \A j \in Kept' : arguments'[j] = Requested(j),
         repacked' \in Seq(Cells),
         executor' = "repack" =>
           /\ Len(repacked') <= Len(Repackable)
           /\ to_repack' = Rest(Len(repacked'))
           /\ \A r \in 1 .. Len(repacked') : repacked'[r] = Cell(Repackable[r], 2),
         executor' # "repack" => to_repack' = <<>>,
         reply' \in {"return", "taken"} =>
           /\ Len(repacked') = Len(Repackable)
           /\ \A r \in 1 .. Len(repacked') : repacked'[r] = Replied(Repackable[r]),
         executor' # "repack" /\ reply' \notin {"return", "taken"} => repacked' = <<>>
  PROVE  Arrays'
BY FixedDefs DEF Arrays, Rest, Update, Requested, Replied, Cell

LEMMA ViewsNext ==
  ASSUME prototype' = prototype
  PROVE  /\ Done' = IF executor' = "repack" THEN Upto(Len(repacked'))
                    ELSE IF reply' \in {"return", "taken", "dropped", "forgotten"} THEN Pointers ELSE {}
         /\ Kept' = IF executor' = "repack" THEN Pointers \ Upto(Len(repacked'))
                    ELSE IF \/ executor' # "idle" /\ reply' = "none"
                            \/ executor' = "free" /\ reply' = "bad" THEN Pointers ELSE {}
         /\ Got' = Upto(unpacked')
BY FixedDefs DEF Done, Kept, Got, Upto

-----------------------------------------------------------------------------
(* Every action keeps the invariant *)

\* Giving up changes nothing but where the caller is.
LEMMA GivesUpInv ==
  ASSUME CallInv, CallFails \/ BadReply
  PROVE  CallInv'
<1> USE DEF CallFails, BadReply
<1>1. tcp' = tcp /\ prototype' = prototype
  OBVIOUS
<1>2. Done' = Done /\ Kept' = Kept /\ Got' = Got
  BY <1>1, ViewsNext DEF Done, Kept, Got
<1>3. Control'
  BY DEF CallInv, Control
<1>4. Arrays'
  BY <1>1, <1>2, ArraysNext DEF CallInv, Arrays
<1>5. Progress'
  BY DEF CallInv, Progress
<1>6. FreesInv'
  <2>1. RequestFreed' <=> RequestFreed
    BY DEF RequestFreed, CallInv, Control
  <2>2. \A c \in Cells : IsFreed(c)' <=> IsFreed(c)
    BY <1>1, <1>2, <2>1, FreedNext DEF IsFreed
  <2> QED
    BY <1>1, <2>2, FreesSame, FixedDefs DEF CallInv
<1>7. ContentInv'
  BY <1>1, <1>2, ContentNext DEF CallInv, ContentInv, IsFilled, Written
<1>8. ReturnInv'
  BY <1>1, <1>2, ReturnNext DEF CallInv, ReturnInv
<1> QED
  BY <1>1, <1>3, <1>4, <1>5, <1>6, <1>7, <1>8 DEF CallInv

LEMMA RejectInv ==
  ASSUME CallInv, Reject
  PROVE  CallInv'
<1> USE DEF Reject
<1>1. tcp' = tcp /\ prototype' = prototype /\ reply = "none"
  BY DEF CallInv, Control
<1>2. Done' = Done /\ Kept' = Kept /\ Got' = Got
  BY <1>1, ViewsNext DEF Done, Kept, Got
<1>3. Control'
  BY DEF CallInv, Control
<1>4. Arrays'
  BY <1>1, <1>2, ArraysNext DEF CallInv, Arrays
<1>5. Progress'
  BY DEF CallInv, Progress, Control
<1>6. FreesInv'
  <2>1. RequestFreed' <=> RequestFreed
    BY DEF RequestFreed, CallInv, Control
  <2>2. \A c \in Cells : IsFreed(c)' <=> IsFreed(c)
    BY <1>1, <1>2, <2>1, FreedNext DEF IsFreed
  <2> QED
    BY <1>1, <2>2, FreesSame, FixedDefs DEF CallInv
<1>7. ContentInv'
  BY <1>1, <1>2, ContentNext DEF CallInv, ContentInv, IsFilled, Written
<1>8. ReturnInv'
  BY <1>1, <1>2, ReturnNext DEF CallInv, ReturnInv
<1> QED
  BY <1>1, <1>3, <1>4, <1>5, <1>6, <1>7, <1>8 DEF CallInv

LEMMA PackInv ==
  ASSUME CallInv, Pack
  PROVE  CallInv'
<1> USE DEF Pack
<1>1. /\ tcp' = tcp /\ prototype' = prototype /\ tcp \in BOOLEAN
      /\ executor = "idle" /\ reply = "none" /\ written = {}
  BY DEF CallInv, Control
<1>2. Done = {} /\ Got = {} /\ Done' = {} /\ Kept' = Pointers /\ Got' = {}
  BY <1>1, ViewsNext, SetsAre DEF Done, Got
<1>3. Control'
  BY <1>1 DEF CallInv, Control
<1>4. Arrays'
  BY <1>1, <1>2, ArraysNext DEF CallInv, Arrays
<1>5. Progress'
  BY DEF CallInv, Progress
<1>6. FreesInv'
  <2>1. ~RequestFreed /\ ~RequestFreed'
    BY <1>1 DEF RequestFreed
  <2>2. \A c \in Cells : IsFreed(c)' <=> IsFreed(c)
    BY <1>1, <1>2, <2>1, FreedNext DEF IsFreed
  <2> QED
    BY <1>1, <2>2, FreesSame, FixedDefs DEF CallInv
<1>7. ContentInv'
  <2>1. ASSUME NEW c \in Cells
        PROVE  content'[c] # "none" <=>
                 \/ c.copy = 0
                 \/ c.arg \in Pointers /\ (c = Cell(c.arg, 1) \/ c = Requested(c.arg))
    BY <1>1, <1>2 DEF CallInv, ContentInv, IsFilled
  <2>2. ASSUME NEW j \in Pointers
        PROVE  content'[Requested(j)] = "old"
    BY <1>1, CellIs
  <2>3. content' \in [Cells -> {"none", "old", "new"}]
    BY DEF CallInv, ContentInv
  <2> QED
    BY <1>1, <1>2, <2>1, <2>2, <2>3, ContentNext
<1>8. ReturnInv'
  BY <1>1, <1>2, ReturnNext DEF CallInv, ReturnInv
<1> QED
  BY <1>1, <1>3, <1>4, <1>5, <1>6, <1>7, <1>8 DEF CallInv

LEMMA SendFailsInv ==
  ASSUME CallInv, SendFails
  PROVE  CallInv'
<1> USE DEF SendFails
<1>1. /\ tcp' = tcp /\ prototype' = prototype /\ tcp \in BOOLEAN
      /\ executor = "idle" /\ reply = "none" /\ written = {}
  BY DEF CallInv, Control
<1>2. Done = {} /\ Got = {} /\ Done' = {} /\ Kept' = Kept /\ Got' = {}
  BY <1>1, ViewsNext, SetsAre DEF Done, Got, Kept
<1>3. Control'
  BY <1>1 DEF CallInv, Control
<1>4. Arrays'
  BY <1>1, <1>2, ArraysNext DEF CallInv, Arrays
<1>5. Progress'
  BY DEF CallInv, Progress
<1>6. FreesInv'
  <2> DEFINE C == IF tcp THEN {} ELSE {Cell(j, 1) : j \in Pointers}
  <2>1. ~RequestFreed /\ (RequestFreed' <=> ~tcp)
    BY <1>1 DEF RequestFreed
  <2>2. ASSUME NEW c \in Cells
        PROVE  c \in C <=> ~tcp /\ c.arg \in Pointers /\ c = Requested(c.arg)
    BY <1>1, CellIs DEF Requested
  <2>3. \A c \in Cells : ~IsFreed(c)
    BY <1>1, <1>2, <2>1 DEF IsFreed
  <2>4. Free(C)
    OBVIOUS
  <2> HIDE DEF C
  <2>5. \A c \in Cells : IsFreed(c)' <=> c \in C
    BY <1>1, <1>2, <2>1, <2>2, FreedNext
  <2> QED
    BY <1>1, <2>3, <2>4, <2>5, FreesMore, FixedDefs DEF CallInv
<1>7. ContentInv'
  <2>1. ASSUME NEW c \in Cells
        PROVE  content'[c] # "none" <=>
                 c.copy = 0 \/ (c.arg \in Pointers /\ c = Cell(c.arg, 1))
    BY <1>1, <1>2 DEF CallInv, ContentInv, IsFilled
  <2>2. content' \in [Cells -> {"none", "old", "new"}]
    BY DEF CallInv, ContentInv
  <2> QED
    BY <1>1, <1>2, <2>1, <2>2, ContentNext
<1>8. ReturnInv'
  BY <1>1, <1>2, ReturnNext DEF CallInv, ReturnInv
<1> QED
  BY <1>1, <1>3, <1>4, <1>5, <1>6, <1>7, <1>8 DEF CallInv

LEMMA AbandonInv ==
  ASSUME CallInv, Abandon
  PROVE  CallInv'
<1> USE DEF Abandon
<1>1. /\ tcp' = tcp /\ prototype' = prototype /\ tcp \in BOOLEAN
      /\ executor = "serve" /\ reply = "none" /\ caller # "wait"
  BY DEF CallInv, Control
<1>2. Done = {} /\ Got = {} /\ Done' = {} /\ Kept' = Kept /\ Got' = {} /\ Kept = Pointers
  BY <1>1, ViewsNext, SetsAre DEF Done, Got, Kept
<1>3. Control'
  BY <1>1 DEF CallInv, Control
<1>4. Arrays'
  BY <1>1, <1>2, ArraysNext DEF CallInv, Arrays
<1>5. Progress'
  BY DEF CallInv, Progress
<1>6. FreesInv'
  <2>1. ~RequestFreed
    BY <1>1 DEF RequestFreed
  <2>2. CASE executor' = "left"
    <3>1. ~RequestFreed' /\ UNCHANGED frees
      BY <1>1, <2>2 DEF RequestFreed
    <3>2. \A c \in Cells : IsFreed(c)' <=> IsFreed(c)
      BY <1>1, <1>2, <2>1, <3>1, FreedNext DEF IsFreed
    <3> QED
      BY <1>1, <3>1, <3>2, FreesSame, FixedDefs DEF CallInv
  <2>3. CASE executor' = "over"
    <3>1. RequestFreed' /\ Free(Elements(arguments)) /\ ~tcp /\ caller # "done"
      BY <1>1, <2>3 DEF RequestFreed, CallInv, Control
    <3>2. \A c \in Cells : ~IsFreed(c)
      BY <1>1, <1>2, <2>1, <3>1 DEF IsFreed
    <3>3. \A c \in Cells : IsFreed(c)' <=> c \in Elements(arguments)
      BY <1>1, <1>2, <2>1, <3>1, FreedNext, KeptIs
    <3> QED
      BY <1>1, <3>1, <3>2, <3>3, FreesMore, FixedDefs DEF CallInv
  <2> QED
    BY <2>2, <2>3
<1>7. ContentInv'
  BY <1>1, <1>2, ContentNext DEF CallInv, ContentInv, IsFilled, Written
<1>8. ReturnInv'
  BY <1>1, <1>2, ReturnNext DEF CallInv, ReturnInv
<1> QED
  BY <1>1, <1>3, <1>4, <1>5, <1>6, <1>7, <1>8 DEF CallInv

LEMMA FreeRequestInv ==
  ASSUME CallInv, FreeRequest
  PROVE  CallInv'
<1> USE DEF FreeRequest
<1>1. /\ tcp' = tcp /\ prototype' = prototype /\ tcp \in BOOLEAN /\ reply # "none"
  BY DEF CallInv, Control
<1>2. /\ Done' = Done /\ Kept' = {} /\ Got' = Got
      /\ Kept = IF reply = "bad" THEN Pointers ELSE {}
  BY <1>1, ViewsNext DEF Done, Got, Kept
<1>3. Control'
  BY <1>1 DEF CallInv, Control
<1>4. Arrays'
  BY <1>1, <1>2, ArraysNext DEF CallInv, Arrays
<1>5. Progress'
  BY DEF CallInv, Progress
<1>6. FreesInv'
  <2>1. ~RequestFreed /\ (RequestFreed' <=> reply = "bad")
    BY <1>1 DEF RequestFreed
  <2>2. reply = "bad" => Done = {} /\ Got = {}
    BY SetsAre DEF Done
  <2>3. \A c \in Cells : c \in Elements(arguments) <=>
          reply = "bad" /\ c.arg \in Pointers /\ c = Requested(c.arg)
    BY <1>2, KeptIs
  <2>4. ASSUME NEW c \in Cells, c \in Elements(arguments)
        PROVE  ~IsFreed(c)
    <3>1. reply = "bad" /\ c.arg \in Pointers /\ c = Requested(c.arg)
      BY <2>3, <2>4
    <3>2. caller = "done" => tcp
      BY <3>1 DEF CallInv, Control
    <3>3. tcp => c # Cell(c.arg, 0)
      BY <1>1, <3>1, CopyIs
    <3> QED
      BY <2>1, <2>2, <3>1, <3>2, <3>3 DEF IsFreed
  <2>5. \A c \in Cells : IsFreed(c)' <=> IsFreed(c) \/ c \in Elements(arguments)
    BY <1>1, <1>2, <2>1, <2>2, <2>3, FreedNext DEF IsFreed
  <2> QED
    BY <1>1, <2>4, <2>5, FreesMore, FixedDefs DEF CallInv
<1>7. ContentInv'
  BY <1>1, <1>2, ContentNext DEF CallInv, ContentInv, IsFilled, Written
<1>8. ReturnInv'
  BY <1>1, <1>2, ReturnNext DEF CallInv, ReturnInv
<1> QED
  BY <1>1, <1>3, <1>4, <1>5, <1>6, <1>7, <1>8 DEF CallInv

\* Only the cells that the function got are written to.
LEMMA CallFnInv ==
  ASSUME CallInv, AllAligned, CallFn
  PROVE  CallInv'
<1>1. /\ tcp' = tcp /\ prototype' = prototype /\ tcp \in BOOLEAN
      /\ executor = "serve" /\ executor' = "repack" /\ reply = "none"
      /\ written = {} /\ result = 0
      /\ UNCHANGED <<caller, arguments, reply, repacked, unpacked, return_is,
                     native_return, frees>>
  BY DEF CallFn, CallInv, Control
<1>2. /\ Done = {} /\ Got = {} /\ Kept = Pointers
      /\ repacked = <<>> /\ unpacked = 0 /\ prototype \in Seq(Kinds)
  BY <1>1, SetsAre, PrototypeIs, EmptySeq DEF Done, Kept, CallInv, Arrays, Progress
<1>3. Done' = {} /\ Got' = {} /\ Kept' = Pointers
  BY <1>1, <1>2, ViewsNext, UptoIs, EmptySeq
<1>4. Control'
  BY <1>1 DEF CallInv, Control
<1>5. Arrays'
  <2>1. to_repack' = Rest(0)
    <3>1. IsAligned(prototype)
      BY DEF AllAligned, CallInv
    <3>2. Repackable = Ascending(PointerParams)
      BY <1>2, <3>1, AlignedPointers DEF Repackable
    <3>3. to_repack' = [r \in DOMAIN Repackable |->
                         [arg |-> ArgumentIndex(prototype, Repackable[r]),
                          ptr |-> arguments[ArgumentIndex(prototype, Repackable[r])],
                          index |-> FfiIndex(prototype, Repackable[r])]]
      BY <3>2 DEF CallFn, PointerParams
    <3>4. Repackable \in Seq(Pointers) /\ Len(Repackable) \in Nat
      BY <1>2, QueueIs
    <3>5. DOMAIN Repackable = 1 .. Len(Repackable)
      BY <3>4, LenProperties
    <3>6. ASSUME NEW r \in 1 .. Len(Repackable)
          PROVE  /\ ArgumentIndex(prototype, Repackable[r]) = Repackable[r]
                 /\ FfiIndex(prototype, Repackable[r]) = Repackable[r]
                 /\ arguments[Repackable[r]] = Requested(Repackable[r])
      <4>1. PICK j \in Pointers : j = Repackable[r]
        BY <3>4, <3>5, <3>6
      <4>2. j \in PointerParams
        BY <1>2, <3>1, AlignedPointers
      <4>3. arguments[j] = Requested(j)
        BY <1>2 DEF CallInv, Arrays
      <4> QED
        BY <1>2, <3>1, <4>1, <4>2, <4>3, AlignedBefore
    <3>7. 1 .. Len(Repackable) - 0 = 1 .. Len(Repackable)
          /\ \A r \in 1 .. Len(Repackable) : 0 + r = r
      BY <3>4
    <3>8. Rest(0) = [r \in 1 .. Len(Repackable) |-> Update(Repackable[r])]
      BY <3>7 DEF Rest
    <3> QED
      BY <3>3, <3>5, <3>6, <3>8 DEF Update
  <2> QED
    BY <1>1, <1>2, <1>3, <2>1, ArraysNext, QueueIs, EmptySeq DEF CallInv, Arrays
<1>6. Progress'
  BY <1>1 DEF CallInv, Progress
<1>7. FreesInv'
  <2>1. ~RequestFreed /\ ~RequestFreed'
    BY <1>1 DEF RequestFreed
  <2>2. \A c \in Cells : IsFreed(c)' <=> IsFreed(c)
    BY <1>1, <1>2, <1>3, <2>1, FreedNext DEF IsFreed
  <2> QED
    BY <1>1, <2>2, FreesSame, FixedDefs DEF CallInv
<1>8. ContentInv'
  <2>1. PICK W \in SUBSET Pointers :
          /\ written' = W
          /\ content' = [c \in Cells |-> IF \E j \in W : c = arguments[j] THEN "new"
                                         ELSE content[c]]
    BY DEF CallFn
  <2>2. \A j \in Pointers : arguments[j] = Requested(j)
    BY <1>2 DEF CallInv, Arrays
  <2>3. ASSUME NEW c \in Cells
        PROVE  /\ content[c] # "none" <=> content'[c] # "none"
               /\ content'[c] \in {"none", "old", "new"}
    <3>1. (\E j \in W : c = arguments[j]) => c.arg \in Pointers /\ c = Requested(c.arg)
      BY <1>1, <2>2, CellIs
    <3> QED
      BY <1>1, <2>1, <3>1 DEF CallInv, ContentInv, IsFilled
  <2>4. ASSUME NEW j \in Pointers
        PROVE  content'[Requested(j)] = IF j \in written' THEN "new" ELSE "old"
    <3>1. Requested(j) \in Cells /\ content[Requested(j)] = "old"
      BY <1>1, CellIs DEF CallInv, ContentInv, Written
    <3>2. (\E i \in W : Requested(j) = arguments[i]) <=> j \in W
      BY <1>1, <2>2, CellIs
    <3> QED
      BY <2>1, <3>1, <3>2
  <2>5. content' \in [Cells -> {"none", "old", "new"}]
    BY <2>1, <2>3
  <2> QED
    BY <1>1, <1>2, <1>3, <2>1, <2>3, <2>4, <2>5, ContentNext
    DEF CallInv, ContentInv, IsFilled
<1>9. ReturnInv'
  BY <1>1, <1>2, <1>3, ReturnNext DEF CallInv, ReturnInv, CallFn
<1> QED
  BY <1>1, <1>4, <1>5, <1>6, <1>7, <1>8, <1>9 DEF CallInv

\* One more pointer is taken out of the array, and put into the reply's.
LEMMA RepackInv ==
  ASSUME CallInv, Repack
  PROVE  CallInv'
<1> DEFINE n == Len(repacked)
           j == Repackable[n + 1]
           y == Cell(j, 2)
<1>1. /\ tcp' = tcp /\ prototype' = prototype /\ tcp \in BOOLEAN
      /\ executor = "repack" /\ executor' = "repack" /\ to_repack # <<>>
      /\ reply = "none" /\ to_repack' = Tail(to_repack)
      /\ UNCHANGED <<caller, reply, unpacked, native_return, result, written>>
  BY DEF Repack, CallInv, Control
<1>2. /\ prototype \in Seq(Kinds) /\ repacked \in Seq(Cells)
      /\ n \in Nat /\ Len(Repackable) \in Nat /\ n <= Len(Repackable)
      /\ to_repack = Rest(n)
      /\ \A r \in 1 .. n : repacked[r] = Cell(Repackable[r], 2)
  BY <1>1, PrototypeIs, QueueIs, LenProperties DEF CallInv, Arrays
<1>3. n < Len(Repackable) /\ Head(to_repack) = Update(j) /\ to_repack' = Rest(n + 1)
  BY <1>1, <1>2, RestIs
<1>4. /\ j \in Pointers /\ j \notin Upto(n) /\ Upto(n + 1) = Upto(n) \cup {j}
  BY <1>2, <1>3, UptoIs
<1>5. y \in Cells /\ y.arg = j /\ Requested(j) \in Cells /\ Requested(j).arg = j
  BY <1>1, <1>4, CellIs
<1>6. /\ repacked' = Append(repacked, y)
      /\ repacked' \in Seq(Cells) /\ Len(repacked') = n + 1
      /\ repacked'[n + 1] = y /\ \A r \in 1 .. n : repacked'[r] = repacked[r]
  <2>1. repacked' = Append(repacked, y)
    BY <1>3 DEF Repack, Update
  <2> QED
    BY <1>2, <1>5, <2>1, AppendProperties
<1>7. /\ return_is' = IF j = result THEN n + 1 ELSE return_is
      /\ arguments' = [i \in DOMAIN arguments \ {j} |-> arguments[i]]
      /\ content' = [content EXCEPT ![y] = content[Requested(j)]]
      /\ Free(IF Params[j] = "buf" THEN {Requested(j)} ELSE {})
  <2>1. Head(to_repack) = [arg |-> j, ptr |-> Requested(j), index |-> j]
    BY <1>3 DEF Update
  <2>2. /\ Head(to_repack).arg = j /\ Head(to_repack).ptr = Requested(j)
        /\ Head(to_repack).index = j
    BY <2>1
  <2> HIDE DEF j
  <2>3. return_is' = IF j = result THEN n + 1 ELSE return_is
    BY <2>2, Zenon DEF Repack, Round
  <2>4. arguments' = [i \in DOMAIN arguments \ {j} |-> arguments[i]]
    BY <2>2, Zenon DEF Repack
  <2>5. content' = [content EXCEPT ![y] = content[Requested(j)]]
    BY <2>2, Zenon DEF Repack
  <2>6. Free(IF Params[j] = "buf" THEN {Requested(j)} ELSE {})
    BY <2>2, Zenon DEF Repack
  <2> QED
    BY <2>3, <2>4, <2>5, <2>6
<1> HIDE DEF n, j, y
<1>8. /\ Done = Upto(n) /\ Done' = Done \cup {j} /\ j \notin Done
      /\ Kept = Pointers \ Upto(n) /\ Kept' = Kept \ {j}
      /\ Got = {} /\ Got' = {}
  <2>1. Done = Upto(n) /\ Kept = Pointers \ Upto(n) /\ Got = {}
    BY <1>1, SetsAre DEF Done, Kept, n
  <2>2. Done' = Upto(n + 1) /\ Kept' = Pointers \ Upto(n + 1) /\ Got' = Got
    BY <1>1, <1>6, ViewsNext DEF Got
  <2> QED
    BY <1>4, <2>1, <2>2
<1>9. Control'
  BY <1>1 DEF CallInv, Control
<1>10. Arrays'
  <2>1. DOMAIN arguments' = Kept' /\ \A i \in Kept' : arguments'[i] = Requested(i)
    BY <1>7, <1>8 DEF CallInv, Arrays
  <2>2. \A r \in 1 .. n + 1 : repacked'[r] = Cell(Repackable[r], 2)
    BY <1>2, <1>6 DEF j, y
  <2> QED
    BY <1>1, <1>2, <1>3, <1>6, <2>1, <2>2, ArraysNext
<1>11. Progress'
  BY <1>1, <1>2, <1>6 DEF CallInv, Progress, n
<1>12. FreesInv'
  <2>1. ~RequestFreed /\ ~RequestFreed'
    BY <1>1 DEF RequestFreed
  <2>2. ASSUME NEW c \in Cells, c = Requested(j), Params[j] = "buf"
        PROVE  ~IsFreed(c)
    <3>1. c.arg = j /\ j \notin Objects
      BY <1>4, <1>5, <2>2, KindIs
    <3> QED
      BY <1>1, <1>8, <2>1, <3>1 DEF IsFreed
  <2>3. ASSUME NEW c \in Cells
        PROVE  IsFreed(c)' <=> IsFreed(c) \/ c \in (IF Params[j] = "buf" THEN {Requested(j)} ELSE {})
    BY <1>1, <1>4, <1>5, <1>8, <2>1, FreedNext DEF IsFreed
  <2> DEFINE C == IF Params[j] = "buf" THEN {Requested(j)} ELSE {}
  <2>4. Free(C) /\ \A c \in Cells : c \in C => ~IsFreed(c)
    BY <1>7, <2>2
  <2>5. \A c \in Cells : IsFreed(c)' <=> IsFreed(c) \/ c \in C
    BY <2>3
  <2> HIDE DEF C
  <2> QED
    BY <1>1, <2>4, <2>5, FreesMore, FixedDefs DEF CallInv
<1>13. ContentInv'
  <2>1. content \in [Cells -> {"none", "old", "new"}] /\ content[Requested(j)] = Written(j)
    BY <1>1, <1>4 DEF CallInv, ContentInv
  <2>2. content' \in [Cells -> {"none", "old", "new"}]
    BY <1>5, <1>7, <2>1
  <2>3. ASSUME NEW c \in Cells
        PROVE  content'[c] # "none" <=> content[c] # "none" \/ c = y
    BY <1>5, <1>7, <2>1 DEF Written
  <2>4. ASSUME NEW i \in Pointers, NEW c \in Cells, c.arg = i, content[c] = Written(i)
        PROVE  content'[c] = Written(i)
    BY <1>5, <1>7, <2>1, <2>4
  <2>5. content'[y] = Written(j)
    BY <1>5, <1>7, <2>1
  <2>6. ASSUME NEW i \in Pointers
        PROVE  /\ content'[Requested(i)] = Written(i)
               /\ i \in Done' => content'[Cell(i, 2)] = Written(i)
    <3>1. content[Requested(i)] = Written(i) /\ (i \in Done => content[Cell(i, 2)] = Written(i))
      BY <1>1 DEF CallInv, ContentInv
    <3>2. content'[Requested(i)] = Written(i)
      BY <1>1, <2>4, <3>1, CellIs
    <3>3. i \in Done => content'[Cell(i, 2)] = Written(i)
      BY <1>1, <2>4, <3>1, CellIs
    <3> QED
      BY <1>8, <2>5, <3>2, <3>3 DEF y
  <2>7. ASSUME NEW c \in Cells
        PROVE  content'[c] # "none" <=>
                 \/ c.copy = 0
                 \/ c.arg \in Pointers /\ (\/ caller' # "pack" /\ c = Cell(c.arg, 1)
                                           \/ c = Requested(c.arg)
                                           \/ c.arg \in Done' /\ c = Cell(c.arg, 2))
    BY <1>1, <1>4, <1>5, <1>8, <2>3 DEF CallInv, ContentInv, IsFilled, y
  <2>8. written' \subseteq Pointers
    BY <1>1 DEF CallInv, ContentInv
  <2> QED
    BY <1>1, <1>8, <2>2, <2>6, <2>7, <2>8, ContentNext DEF Written
<1>14. ReturnInv'
  <2>1. return_is \in 0 .. Len(Repackable) /\ return_is' \in 0 .. Len(Repackable)
    BY <1>2, <1>3, <1>7 DEF CallInv, ReturnInv
  <2>2. result' \in Done' => return_is' > 0 /\ Repackable[return_is'] = result'
    BY <1>1, <1>2, <1>7, <1>8 DEF CallInv, ReturnInv, j
  <2>3. result' \notin Done' => return_is' = 0
    BY <1>1, <1>7, <1>8 DEF CallInv, ReturnInv
  <2> QED
    BY <1>1, <1>8, <2>1, <2>2, <2>3, ReturnNext DEF CallInv, ReturnInv
<1> QED
  BY <1>1, <1>9, <1>10, <1>11, <1>12, <1>13, <1>14 DEF CallInv

\* The reply has a copy of every pointer, which over TCP the caller unpacks.
LEMMA SendReplyInv ==
  ASSUME CallInv, SendReply
  PROVE  CallInv'
<1>1. /\ tcp' = tcp /\ prototype' = prototype /\ tcp \in BOOLEAN
      /\ executor = "repack" /\ executor' = "free" /\ to_repack = <<>>
      /\ reply = "none" /\ reply' = "return" /\ caller # "pack"
      /\ UNCHANGED <<caller, arguments, to_repack, unpacked, return_is, native_return,
                     result, written, frees>>
  BY DEF SendReply, CallInv, Control
<1>2. /\ prototype \in Seq(Kinds) /\ repacked \in Seq(Cells)
      /\ Len(Repackable) \in Nat /\ Len(repacked) = Len(Repackable)
      /\ DOMAIN repacked = 1 .. Len(Repackable)
      /\ \A r \in 1 .. Len(Repackable) :
           Repackable[r] \in Pointers /\ repacked[r] = Cell(Repackable[r], 2)
  <2>1. /\ prototype \in Seq(Kinds) /\ repacked \in Seq(Cells)
        /\ Len(Repackable) \in Nat /\ Len(repacked) \in Nat
        /\ Len(repacked) <= Len(Repackable) /\ to_repack = Rest(Len(repacked))
        /\ \A r \in 1 .. Len(repacked) : repacked[r] = Cell(Repackable[r], 2)
    BY <1>1, PrototypeIs, QueueIs, LenProperties DEF CallInv, Arrays
  <2>2. Len(repacked) = Len(Repackable)
    BY <1>1, <2>1, RestIs
  <2> QED
    BY <2>1, <2>2, QueueIs, LenProperties
<1>3. /\ Done = Pointers /\ Done' = Pointers /\ Kept = {} /\ Kept' = {}
      /\ Got = {} /\ Got' = {}
  <2>1. Done = Pointers /\ Kept = {}
    BY <1>1, <1>2, UptoIs DEF Done, Kept
  <2>2. Got = {}
    BY <1>1, SetsAre
  <2> QED
    BY <1>1, <2>1, <2>2, ViewsNext DEF Got
<1>4. /\ repacked' \in Seq(Cells) /\ Len(repacked') = Len(Repackable)
      /\ \A r \in 1 .. Len(Repackable) : repacked'[r] = Replied(Repackable[r])
  <2>1. \A r \in 1 .. Len(Repackable) : repacked[r].arg = Repackable[r]
    BY <1>1, <1>2, CellIs
  <2>2. repacked' = [r \in 1 .. Len(Repackable) |-> Replied(Repackable[r])]
    BY <1>2, <2>1 DEF SendReply
  <2>3. \A r \in 1 .. Len(Repackable) : Replied(Repackable[r]) \in Cells
    BY <1>1, <1>2, CellIs
  <2> QED
    BY <1>2, <2>2, <2>3
<1>5. Control'
  BY <1>1 DEF CallInv, Control
<1>6. Arrays'
  BY <1>1, <1>3, <1>4, ArraysNext DEF CallInv, Arrays
<1>7. Progress'
  BY <1>1, <1>2, <1>4 DEF CallInv, Progress
<1>8. FreesInv'
  <2>1. ~RequestFreed /\ ~RequestFreed'
    BY <1>1 DEF RequestFreed
  <2>2. \A c \in Cells : IsFreed(c)' <=> IsFreed(c)
    BY <1>1, <1>3, <2>1, FreedNext DEF IsFreed
  <2> QED
    BY <1>1, <2>2, FreesSame, FixedDefs DEF CallInv
<1>9. ContentInv'
  <2>1. ASSUME NEW c \in Cells
        PROVE  c \in Elements(repacked') <=> c.arg \in Pointers /\ c = Replied(c.arg)
    <3>1. Elements(repacked') = {Replied(Repackable[r]) : r \in 1 .. Len(Repackable)}
      BY <1>4, LenProperties DEF Elements
    <3>2. \A j \in Pointers : \E r \in 1 .. Len(Repackable) : Repackable[r] = j
      BY <1>2, QueueIs
    <3>3. \A j \in Pointers : Replied(j).arg = j
      BY <1>1, CellIs
    <3> QED
      BY <1>2, <3>1, <3>2, <3>3
  <2>2. /\ content \in [Cells -> {"none", "old", "new"}]
        /\ content' = [c \in Cells |-> IF c \in Elements(repacked') THEN content[Cell(c.arg, 2)]
                                       ELSE content[c]]
    BY DEF SendReply, CallInv, ContentInv
  <2>3. ASSUME NEW j \in Pointers
        PROVE  /\ content'[Requested(j)] = Written(j)
               /\ content'[Cell(j, 2)] = Written(j)
               /\ content'[Replied(j)] = Written(j)
    <3>1. content[Requested(j)] = Written(j) /\ content[Cell(j, 2)] = Written(j)
      BY <1>1, <1>3 DEF CallInv, ContentInv
    <3>2. /\ Requested(j) \in Cells /\ Requested(j).arg = j
          /\ Cell(j, 2) \in Cells /\ Cell(j, 2).arg = j
          /\ Replied(j) \in Cells /\ Replied(j).arg = j
      BY <1>1, CellIs
    <3> QED
      BY <2>1, <2>2, <3>1, <3>2
  <2>4. ASSUME NEW c \in Cells
        PROVE  /\ content'[c] \in {"none", "old", "new"}
               /\ content'[c] # "none" <=> content[c] # "none" \/ c \in Elements(repacked')
    <3>1. CASE c \in Elements(repacked')
      <4>1. c.arg \in Pointers
        BY <2>1, <3>1
      <4>2. content'[c] = content[Cell(c.arg, 2)] /\ content[Cell(c.arg, 2)] = Written(c.arg)
        BY <1>3, <2>2, <3>1, <4>1 DEF CallInv, ContentInv
      <4> QED
        BY <3>1, <4>2 DEF Written
    <3>2. CASE c \notin Elements(repacked')
      BY <2>2, <3>2
    <3> QED
      BY <3>1, <3>2
  <2>5. content' \in [Cells -> {"none", "old", "new"}]
    BY <2>2, <2>4
  <2>6. ASSUME NEW c \in Cells
        PROVE  content'[c] # "none" <=>
                 \/ c.copy = 0
                 \/ c.arg \in Pointers /\ (\/ c = Cell(c.arg, 1)
                                           \/ c = Requested(c.arg)
                                           \/ c = Cell(c.arg, 2)
                                           \/ c = Replied(c.arg))
    BY <1>1, <1>3, <2>1, <2>4 DEF CallInv, ContentInv, IsFilled
  <2>7. written' \subseteq Pointers
    BY <1>1 DEF CallInv, ContentInv
  <2> QED
    BY <1>1, <1>3, <2>3, <2>5, <2>6, <2>7, ContentNext DEF Written
<1>10. ReturnInv'
  BY <1>1, <1>3, ReturnNext DEF CallInv, ReturnInv
<1> QED
  BY <1>1, <1>5, <1>6, <1>7, <1>8, <1>9, <1>10 DEF CallInv

\* A late reply: over TCP nobody has unpacked it, in-process it is freed.
LEMMA DropReplyInv ==
  ASSUME CallInv, DropReply
  PROVE  CallInv'
<1>1. /\ tcp' = tcp /\ prototype' = prototype /\ tcp \in BOOLEAN
      /\ caller \in {"failed", "done"} /\ reply = "return" /\ reply' = "dropped"
      /\ executor \in {"free", "over"} /\ repacked' = <<>>
      /\ UNCHANGED <<caller, executor, arguments, to_repack, unpacked, return_is,
                     native_return, result, written>>
  BY DEF DropReply, CallInv, Control
<1>2. unpacked = 0 /\ Got = {} /\ Done = Pointers /\ Kept = {}
  BY <1>1, SetsAre, LenProperties DEF CallInv, Progress, Arrays, Done, Kept
<1>3. Done' = Pointers /\ Got' = {} /\ Kept' = {}
  BY <1>1, <1>2, ViewsNext DEF Got
<1>4. \A c \in Cells :
        c \in Elements(repacked) <=> c.arg \in Pointers /\ c = Replied(c.arg)
  BY <1>1, ReplyIs
<1>5. Control'
  BY <1>1 DEF CallInv, Control
<1>6. Arrays'
  BY <1>1, <1>2, <1>3, EmptySeq, ArraysNext DEF CallInv, Arrays
<1>7. Progress'
  BY <1>1, <1>2, EmptySeq DEF CallInv, Progress
<1>8. FreesInv'
  <2>1. ~RequestFreed /\ ~RequestFreed'
    BY <1>1 DEF RequestFreed
  <2>2. CASE tcp
    <3>1. UNCHANGED frees
      BY <2>2 DEF DropReply
    <3>2. \A c \in Cells : IsFreed(c)' <=> IsFreed(c)
      BY <1>1, <1>2, <1>3, <2>1, <2>2, FreedNext DEF IsFreed
    <3> QED
      BY <1>1, <3>1, <3>2, FreesSame, FixedDefs DEF CallInv
  <2>3. CASE ~tcp
    <3>1. Free(Elements(repacked)) /\ caller = "failed"
      BY <1>1, <2>3 DEF DropReply, CallInv, Control
    <3>2. ASSUME NEW c \in Cells, c \in Elements(repacked)
          PROVE  ~IsFreed(c)
      <4>1. c.arg \in Pointers /\ c = Replied(c.arg)
        BY <1>4, <3>2
      <4>2. c = Requested(c.arg) => Params[c.arg] # "buf"
        BY <1>1, <2>3, <4>1, CopyIs, KindIs
      <4> QED
        BY <1>1, <1>2, <2>1, <3>1, <4>1, <4>2 DEF IsFreed
    <3>3. \A c \in Cells : IsFreed(c)' <=> IsFreed(c) \/ c \in Elements(repacked)
      BY <1>1, <1>2, <1>3, <1>4, <2>1, <2>3, FreedNext DEF IsFreed
    <3> QED
      BY <1>1, <3>1, <3>2, <3>3, FreesMore, FixedDefs DEF CallInv
  <2> QED
    BY <1>1, <2>2, <2>3
<1>9. ContentInv'
  <2>1. /\ content \in [Cells -> {"none", "old", "new"}]
        /\ \A j \in Pointers : /\ content[Requested(j)] = Written(j)
                               /\ content[Cell(j, 2)] = Written(j)
    BY <1>1, <1>2 DEF CallInv, ContentInv
  <2>2. content' = [c \in Cells |-> IF tcp /\ c \in Elements(repacked) THEN "none"
                                    ELSE content[c]]
    BY <1>1, <2>1 DEF DropReply
  <2>3. content' \in [Cells -> {"none", "old", "new"}]
    BY <2>1, <2>2
  <2>4. ASSUME NEW j \in Pointers
        PROVE  content'[Requested(j)] = Written(j) /\ content'[Cell(j, 2)] = Written(j)
    <3>1. PICK c \in Cells : c = Requested(j) /\ c.arg = j
      BY <1>1, CellIs
    <3>2. PICK d \in Cells : d = Cell(j, 2) /\ d.arg = j
      BY <1>1, CellIs
    <3>3. tcp => c # Replied(j) /\ d # Replied(j)
      BY <1>1, <3>1, <3>2, CopyIs
    <3> QED
      BY <1>4, <2>1, <2>2, <3>1, <3>2, <3>3
  <2>5. ASSUME NEW c \in Cells
        PROVE  content'[c] # "none" <=>
                 \/ c.copy = 0
                 \/ c.arg \in Pointers /\ (\/ c = Cell(c.arg, 1)
                                           \/ c = Requested(c.arg)
                                           \/ c = Cell(c.arg, 2))
    <3>1. content[c] # "none" <=>
            \/ c.copy = 0
            \/ c.arg \in Pointers /\ (\/ c = Cell(c.arg, 1)
                                      \/ c = Requested(c.arg)
                                      \/ c = Cell(c.arg, 2)
                                      \/ c = Replied(c.arg))
      BY <1>1, <1>2 DEF CallInv, ContentInv, IsFilled
    <3>2. c.arg \in Pointers /\ c = Replied(c.arg) =>
            IF tcp THEN /\ c.copy # 0 /\ c # Cell(c.arg, 1)
                        /\ c # Requested(c.arg) /\ c # Cell(c.arg, 2)
                   ELSE c = Cell(c.arg, 2)
      BY <1>1, CopyIs
    <3>3. content'[c] = IF tcp /\ c \in Elements(repacked) THEN "none" ELSE content[c]
      BY <2>2
    <3> QED
      BY <1>4, <3>1, <3>2, <3>3
  <2>6. written' \subseteq Pointers
    BY <1>1 DEF CallInv, ContentInv
  <2> QED
    BY <1>1, <1>3, <2>3, <2>4, <2>5, <2>6, ContentNext DEF Written
<1>10. ReturnInv'
  BY <1>1, <1>2, <1>3, ReturnNext DEF CallInv, ReturnInv
<1> QED
  BY <1>1, <1>5, <1>6, <1>7, <1>8, <1>9, <1>10 DEF CallInv

\* A late reply that another request takes and does not free: what it brings
\* stays where it is.
LEMMA ForgetReplyInv ==
  ASSUME CallInv, ForgetReply
  PROVE  CallInv'
<1>1. /\ tcp' = tcp /\ prototype' = prototype
      /\ caller \in {"failed", "done"} /\ reply = "return" /\ reply' = "forgotten"
      /\ executor \in {"free", "over"} /\ repacked' = <<>>
      /\ UNCHANGED <<caller, executor, arguments, to_repack, unpacked, return_is,
                     native_return, result, written, content, frees>>
  BY DEF ForgetReply, CallInv, Control
<1>2. unpacked = 0 /\ Got = {} /\ Done = Pointers /\ Kept = {}
  BY <1>1, SetsAre, LenProperties DEF CallInv, Progress, Arrays, Done, Kept
<1>3. Done' = Pointers /\ Got' = {} /\ Kept' = {}
  BY <1>1, <1>2, ViewsNext DEF Got
<1>4. Control'
  BY <1>1 DEF CallInv, Control
<1>5. Arrays'
  BY <1>1, <1>2, <1>3, EmptySeq, ArraysNext DEF CallInv, Arrays
<1>6. Progress'
  BY <1>1, <1>2, EmptySeq DEF CallInv, Progress
<1>7. FreesInv'
  <2>1. ~RequestFreed /\ ~RequestFreed'
    BY <1>1 DEF RequestFreed
  <2>2. \A c \in Cells : IsFreed(c)' <=> IsFreed(c)
    BY <1>1, <1>2, <1>3, <2>1, FreedNext DEF IsFreed
  <2> QED
    BY <1>1, <2>2, FreesSame, FixedDefs DEF CallInv
<1>8. ContentInv'
  BY <1>1, <1>2, <1>3, ContentNext DEF CallInv, ContentInv, IsFilled, Written
<1>9. ReturnInv'
  BY <1>1, <1>2, <1>3, ReturnNext DEF CallInv, ReturnInv
<1> QED
  BY <1>1, <1>4, <1>5, <1>6, <1>7, <1>8, <1>9 DEF CallInv

\* One more of the caller's pointers gets what the reply has for it.
LEMMA UnpackInv ==
  ASSUME CallInv, Unpack
  PROVE  CallInv'
<1> DEFINE u == unpacked
           j == Repackable[u + 1]
           own == Cell(j, 0)
           c0 == Replied(j)
           C == IF Params[j] # "buf" /\ c0 # own THEN {c0} ELSE {}
<1>1. /\ tcp' = tcp /\ prototype' = prototype /\ tcp \in BOOLEAN
      /\ caller = "wait" /\ reply = "return" /\ executor \in {"free", "over"}
      /\ unpacked' = u + 1 /\ u < Len(repacked)
      /\ UNCHANGED <<caller, executor, arguments, to_repack, reply, repacked,
                     return_is, result, written>>
  BY DEF Unpack, CallInv, Control
<1>2. /\ prototype \in Seq(Kinds) /\ Len(Repackable) \in Nat
      /\ Len(repacked) = Len(Repackable) /\ u \in Nat
      /\ \A r \in 1 .. Len(repacked) : repacked[r] = Replied(Repackable[r])
  BY <1>1, PrototypeIs, QueueIs DEF CallInv, Arrays, Progress
<1>3. /\ j \in Pointers /\ j \notin Upto(u) /\ Upto(u + 1) = Upto(u) \cup {j}
      /\ repacked[u + 1] = c0
  BY <1>1, <1>2, UptoIs
<1>4. /\ content' = [content EXCEPT ![own] = content[c0]]
      /\ Free(C)
      /\ native_return' = IF return_is = u + 1 /\ Params[j] # "buf"
                          THEN own ELSE native_return
  <2> HIDE DEF j
  <2>1. repacked[unpacked + 1] = Replied(j) /\ Repackable[unpacked + 1] = j
    BY <1>3 DEF j
  <2> QED
    BY <2>1, Zenon DEF Unpack
<1>5. own \in Cells /\ own.arg = j /\ c0 \in Cells /\ c0.arg = j
  BY <1>1, <1>3, CellIs
<1> HIDE DEF u, j, own, c0, C
<1>6. /\ Done = Pointers /\ Done' = Pointers /\ Kept' = Kept
      /\ Got = Upto(u) /\ Got' = Got \cup {j} /\ j \notin Got
  BY <1>1, <1>3, ViewsNext DEF Done, Kept, Got, u
<1>7. Control'
  BY <1>1 DEF CallInv, Control
<1>8. Arrays'
  BY <1>1, <1>6, ArraysNext DEF CallInv, Arrays
<1>9. Progress'
  BY <1>1, <1>2 DEF CallInv, Progress
<1>10. FreesInv'
  <2>1. ~RequestFreed /\ ~RequestFreed'
    BY <1>1 DEF RequestFreed
  <2>2. ASSUME NEW c \in Cells, c \in C
        PROVE  ~IsFreed(c)
    <3>1. c = Replied(j) /\ c.arg = j /\ c # Cell(j, 0) /\ Params[j] # "buf"
      BY <1>5, <2>2 DEF C, c0, own
    <3> QED
      BY <1>1, <1>6, <2>1, <3>1 DEF IsFreed
  <2>3. ASSUME NEW c \in Cells
        PROVE  c \in C <=> c.arg = j /\ c = Replied(c.arg) /\ c # Cell(c.arg, 0)
                           /\ Params[c.arg] # "buf"
    BY <1>5 DEF C, c0, own
  <2>4. \A c \in Cells : IsFreed(c)' <=> IsFreed(c) \/ c \in C
    BY <1>1, <1>3, <1>6, <2>1, <2>3, FreedNext DEF IsFreed
  <2> QED
    BY <1>1, <1>4, <2>2, <2>4, FreesMore, FixedDefs DEF CallInv
<1>11. ContentInv'
  <2>1. content \in [Cells -> {"none", "old", "new"}] /\ content[c0] = Written(j)
    BY <1>1, <1>3 DEF CallInv, ContentInv, c0
  <2>2. content' \in [Cells -> {"none", "old", "new"}]
    BY <1>4, <1>5, <2>1
  <2>3. ASSUME NEW c \in Cells
        PROVE  content'[c] # "none" <=> content[c] # "none" \/ c = own
    BY <1>4, <1>5, <2>1 DEF Written
  <2>4. ASSUME NEW i \in Pointers, NEW c \in Cells, c.arg = i, content[c] = Written(i)
        PROVE  content'[c] = Written(i)
    BY <1>4, <1>5, <2>1, <2>4
  <2>5. content'[own] = Written(j)
    BY <1>4, <1>5, <2>1
  <2>6. ASSUME NEW i \in Pointers
        PROVE  /\ content'[Requested(i)] = Written(i)
               /\ content'[Cell(i, 2)] = Written(i)
               /\ content'[Replied(i)] = Written(i)
               /\ i \in Got' => content'[Cell(i, 0)] = Written(i)
    <3>1. /\ content[Requested(i)] = Written(i) /\ content[Cell(i, 2)] = Written(i)
          /\ content[Replied(i)] = Written(i)
          /\ i \in Got => content[Cell(i, 0)] = Written(i)
      BY <1>1, <1>6 DEF CallInv, ContentInv
    <3>2. content'[Requested(i)] = Written(i)
      BY <1>1, <2>4, <3>1, CellIs
    <3>3. content'[Cell(i, 2)] = Written(i)
      BY <1>1, <2>4, <3>1, CellIs
    <3>4. content'[Replied(i)] = Written(i)
      BY <1>1, <2>4, <3>1, CellIs
    <3>5. i \in Got => content'[Cell(i, 0)] = Written(i)
      BY <1>1, <2>4, <3>1, CellIs
    <3> QED
      BY <1>6, <2>5, <3>2, <3>3, <3>4, <3>5 DEF own
  <2>7. own.copy = 0
    BY <1>1, <1>3, <1>5, CopyIs DEF own
  <2>8. ASSUME NEW c \in Cells
        PROVE  content'[c] # "none" <=>
                 \/ c.copy = 0
                 \/ c.arg \in Pointers /\ (\/ c = Cell(c.arg, 1)
                                           \/ c = Requested(c.arg)
                                           \/ c = Cell(c.arg, 2)
                                           \/ c = Replied(c.arg))
    BY <1>1, <1>6, <2>3, <2>7 DEF CallInv, ContentInv, IsFilled
  <2>9. written' \subseteq Pointers
    BY <1>1 DEF CallInv, ContentInv
  <2> QED
    BY <1>1, <1>6, <2>2, <2>6, <2>8, <2>9, ContentNext DEF Written
<1>12. ReturnInv'
  <2>1. /\ result \in Pointers \cup {0} /\ return_is \in 0 .. Len(Repackable)
        /\ native_return \in Cells \cup {NULL}
        /\ result \in Pointers => return_is > 0 /\ Repackable[return_is] = result
        /\ result \notin Pointers => return_is = 0
        /\ result \in Got /\ Params[result] # "buf" => native_return = Cell(result, 0)
    BY <1>6 DEF CallInv, ReturnInv
  <2>2. result = j => return_is = u + 1
    <3>1. \A r \in 1 .. Len(Repackable), s \in 1 .. Len(Repackable) :
            Repackable[r] = Repackable[s] => r = s
      BY <1>2, QueueIs
    <3>2. u + 1 \in 1 .. Len(Repackable)
      BY <1>1, <1>2
    <3> QED
      BY <1>3, <2>1, <3>1, <3>2 DEF j
  <2>3. return_is = u + 1 => result = j
    BY <1>2, <2>1 DEF j
  <2>4. native_return' \in Cells \cup {NULL}
    BY <1>4, <1>5, <2>1
  <2>5. result \in Got' /\ Params[result] # "buf" => native_return' = Cell(result, 0)
    BY <1>4, <1>6, <2>1, <2>2, <2>3 DEF own
  <2> QED
    BY <1>1, <1>6, <2>1, <2>4, <2>5, ReturnNext
<1> QED
  BY <1>1, <1>7, <1>8, <1>9, <1>10, <1>11, <1>12 DEF CallInv

LEMMA ReturnsInv ==
  ASSUME CallInv, Return
  PROVE  CallInv'
<1> DEFINE C == {c \in Elements(repacked) : Params[c.arg] = "buf"}
<1>1. /\ tcp' = tcp /\ prototype' = prototype /\ tcp \in BOOLEAN
      /\ caller = "wait" /\ caller' = "ok" /\ reply = "return" /\ reply' = "taken"
      /\ executor \in {"free", "over"} /\ unpacked = Len(repacked)
      /\ UNCHANGED <<executor, arguments, to_repack, repacked, unpacked, return_is,
                     native_return, result, written, content>>
      /\ Free(C)
  BY DEF Return, CallInv, Control
<1> HIDE DEF C
<1>2. Done = Pointers /\ Done' = Pointers /\ Kept' = Kept /\ Got' = Got
  BY <1>1, ViewsNext DEF Done, Kept, Got
<1>3. Control'
  BY <1>1 DEF CallInv, Control
<1>4. Arrays'
  BY <1>1, <1>2, ArraysNext DEF CallInv, Arrays
<1>5. Progress'
  BY <1>1 DEF CallInv, Progress
<1>6. FreesInv'
  <2>1. ~RequestFreed /\ ~RequestFreed'
    BY <1>1 DEF RequestFreed
  <2>2. \A c \in Cells : c \in C <=>
          c.arg \in Pointers /\ c = Replied(c.arg) /\ Params[c.arg] = "buf"
    BY <1>1, ReplyIs DEF C
  <2>3. ASSUME NEW c \in Cells, c \in C
        PROVE  ~IsFreed(c)
    <3>1. c.arg \in Pointers /\ c = Replied(c.arg) /\ Params[c.arg] = "buf"
      BY <2>2, <2>3
    <3>2. c.arg \notin Objects /\ c # Requested(c.arg)
      BY <1>1, <3>1, CopyIs, KindIs
    <3> QED
      BY <1>1, <3>1, <3>2 DEF IsFreed
  <2>4. \A c \in Cells : IsFreed(c)' <=> IsFreed(c) \/ c \in C
    BY <1>1, <1>2, <2>1, <2>2, FreedNext DEF IsFreed
  <2> QED
    BY <1>1, <2>3, <2>4, FreesMore, FixedDefs DEF CallInv
<1>7. ContentInv'
  BY <1>1, <1>2, ContentNext DEF CallInv, ContentInv, IsFilled, Written
<1>8. ReturnInv'
  BY <1>1, <1>2, ReturnNext DEF CallInv, ReturnInv
<1> QED
  BY <1>1, <1>3, <1>4, <1>5, <1>6, <1>7, <1>8 DEF CallInv

LEMMA CallerFreesInv ==
  ASSUME CallInv, CallerFrees
  PROVE  CallInv'
<1> DEFINE C == {Cell(j, 0) : j \in Objects}
<1>1. /\ tcp' = tcp /\ prototype' = prototype /\ tcp \in BOOLEAN
      /\ caller = "ok" \/ (caller = "failed" /\ tcp)
      /\ caller' = "done" /\ caller \in {"ok", "failed"} /\ (~tcp => reply = "taken")
      /\ UNCHANGED <<executor, arguments, to_repack, reply, repacked, unpacked,
                     return_is, native_return, result, written, content>>
      /\ Free(C)
  BY DEF CallerFrees, CallInv, Control
<1>2. Done' = Done /\ Kept' = Kept /\ Got' = Got
  BY <1>1, ViewsNext DEF Done, Kept, Got
<1>3. Control'
  BY <1>1 DEF CallInv, Control
<1>4. Arrays'
  BY <1>1, <1>2, ArraysNext DEF CallInv, Arrays
<1>5. Progress'
  BY <1>1 DEF CallInv, Progress
<1>6. FreesInv'
  <2>1. (RequestFreed' <=> RequestFreed) /\ (RequestFreed => tcp)
    BY <1>1 DEF RequestFreed, CallInv, Control
  <2>2. Objects \subseteq Pointers
    BY SetsAre
  <2>3. ASSUME NEW c \in Cells
        PROVE  c \in C <=> c.arg \in Objects /\ c = Cell(c.arg, 0)
    BY <1>1, <2>2, CellIs
  <2> HIDE DEF C
  <2>4. ASSUME NEW c \in Cells, c \in C
        PROVE  ~IsFreed(c)
    <3>1. c.arg \in Pointers /\ c.arg \in Objects /\ c = Cell(c.arg, 0)
          /\ Params[c.arg] = "object"
      BY <2>2, <2>3, <2>4, KindIs
    <3>2. (c = Requested(c.arg) => ~tcp) /\ (c = Replied(c.arg) => ~tcp)
      BY <1>1, <3>1, CopyIs
    <3> QED
      BY <1>1, <2>1, <3>1, <3>2 DEF IsFreed
  <2>5. \A c \in Cells : IsFreed(c)' <=> IsFreed(c) \/ c \in C
    BY <1>1, <1>2, <2>1, <2>2, <2>3, FreedNext DEF IsFreed
  <2> QED
    BY <1>1, <2>4, <2>5, FreesMore, FixedDefs DEF CallInv
<1>7. ContentInv'
  BY <1>1, <1>2, ContentNext DEF CallInv, ContentInv, IsFilled, Written
<1>8. ReturnInv'
  BY <1>1, <1>2, ReturnNext DEF CallInv, ReturnInv
<1> QED
  BY <1>1, <1>3, <1>4, <1>5, <1>6, <1>7, <1>8 DEF CallInv

LEMMA StutterInv ==
  ASSUME CallInv, UNCHANGED vars
  PROVE  CallInv'
<1> USE DEF vars
<1>1. tcp' = tcp /\ prototype' = prototype
  OBVIOUS
<1>2. Done' = Done /\ Kept' = Kept /\ Got' = Got
  BY <1>1, ViewsNext DEF Done, Kept, Got
<1>3. Control'
  BY DEF CallInv, Control
<1>4. Arrays'
  BY <1>1, <1>2, ArraysNext DEF CallInv, Arrays
<1>5. Progress'
  BY DEF CallInv, Progress
<1>6. FreesInv'
  <2>1. \A c \in Cells : IsFreed(c)' <=> IsFreed(c)
    BY <1>1, <1>2, FreedNext DEF IsFreed, RequestFreed
  <2> QED
    BY <1>1, <2>1, FreesSame, FixedDefs DEF CallInv
<1>7. ContentInv'
  BY <1>1, <1>2, ContentNext DEF CallInv, ContentInv, IsFilled, Written
<1>8. ReturnInv'
  BY <1>1, <1>2, ReturnNext DEF CallInv, ReturnInv
<1> QED
  BY <1>1, <1>3, <1>4, <1>5, <1>6, <1>7, <1>8 DEF CallInv

LEMMA StepInv ==
  ASSUME AllAligned, CallInv, [Next]_vars
  PROVE  CallInv'
BY PackInv, SendFailsInv, GivesUpInv, RejectInv, AbandonInv, CallFnInv, RepackInv,
   SendReplyInv, FreeRequestInv, DropReplyInv, ForgetReplyInv, UnpackInv,
   ReturnsInv, CallerFreesInv, StutterInv DEF Next

-----------------------------------------------------------------------------
LEMMA CallInvHolds ==
  ASSUME AllAligned
  PROVE  Spec => []CallInv
<1>1. CallInv /\ [Next]_vars => CallInv'
  BY StepInv
<1> QED
  BY <1>1, InitInv, PTL DEF Spec

\* Whatever fails and whenever, over both transports: what is freed is there and
\* is freed once, and no copy is left but the ones the code is known to leave.
THEOREM NothingFreedTwice ==
  ASSUME AllAligned
  PROVE  Spec => []FreedOnce
<1>1. CallInv => FreedOnce
  BY InvFreedOnce
<1> QED
  BY <1>1, CallInvHolds, PTL

\* A caller whose call succeeded has its objects, untouched by the executor that
\* still frees the request; in-process, one whose call failed has none, unless
\* its request was never handled or its late reply came to another request.
THEOREM ObjectsComeBack ==
  ASSUME AllAligned
  PROVE  Spec => []ObjectsReturned
<1>1. CallInv => ObjectsReturned
  BY InvObjectsReturned
<1> QED
  BY <1>1, CallInvHolds, PTL

\* The two queues of pointers, the function's and the caller's, agree: each
\* pointer is updated from its own argument.
THEOREM PointersAreSynced ==
  ASSUME AllAligned
  PROVE  Spec => []Synced
<1>1. CallInv => Synced
  BY InvSynced
<1> QED
  BY <1>1, CallInvHolds, PTL

\* The index the function's result travels as is that of the caller's pointer.
THEOREM ReturnIsPlaced ==
  ASSUME AllAligned
  PROVE  Spec => []ReturnPlacedUnlessBuf
<1>1. CallInv => ReturnPlacedUnlessBuf
  BY InvReturnPlaced
<1> QED
  BY <1>1, CallInvHolds, PTL
=============================================================================
