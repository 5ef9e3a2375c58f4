--------------------------- MODULE ContainersProofs ---------------------------
(***************************************************************************)
(* For any objects, fields, indices and values: the lengths of d_struct    *)
(* and d_array are right after any calls; every container is in one place, *)
(* held by the program or an element of one other; a call that fails       *)
(* leaves what every container holds as it was.                            *)
(*   A call changes one container, or frees some, or makes new ones as     *)
(* copies.  For the lengths it is enough that what each call makes of one  *)
(* container is of the right form (Sound).  For ownership a call is seen   *)
(* as an edit (EditOwned): one container gets some objects and loses       *)
(* others, which are freed or handed to the program.                       *)
(***************************************************************************)
EXTENDS Containers, FiniteSetTheorems, TLAPS

\* A d_struct's length is the number of its elements.
SoundStruct(c) ==
  /\ IsFiniteSet(DOMAIN c.elements)
  /\ c.len = Cardinality(DOMAIN c.elements)

\* A d_array's is at least that, and more only when an index was rewritten.
SoundArray(c) ==
  /\ IsFiniteSet(DOMAIN c.elements)
  /\ c.len \in Nat /\ c.len >= Cardinality(DOMAIN c.elements)
  /\ c.len # Cardinality(DOMAIN c.elements) => c.rewritten
  /\ c.rewritten \in BOOLEAN

Sound(c) ==
  \/ c.kind = "struct" /\ SoundStruct(c)
  \/ c.kind = "array" /\ SoundArray(c)
  \/ c.kind \in {"queue", "free"}

\* heap is a function to sound containers.
LenInv ==
  /\ heap = [o \in Objects |-> heap[o]]
  /\ \A o \in Objects : Sound(heap[o])

LEMMA LenInvImpliesLenExact == LenInv => LenExact
BY DEF LenInv, LenExact, Sound, SoundStruct, SoundArray, Live

-----------------------------------------------------------------------------
(* What each call makes of a container *)

\* The fields of a record made by Struct, Array, Queue or Free.
LEMMA MadeFields ==
  ASSUME NEW e, NEW n, NEW c, NEW r
  PROVE  /\ Struct(e, n).kind = "struct" /\ Struct(e, n).elements = e
         /\ Struct(e, n).len = n
         /\ Array(e, n, c, r).kind = "array" /\ Array(e, n, c, r).elements = e
         /\ Array(e, n, c, r).len = n /\ Array(e, n, c, r).capacity = c
         /\ Array(e, n, c, r).rewritten = r
         /\ Queue(e).kind = "queue" /\ Free.kind = "free"
BY DEF Struct, Array, Queue, Free

\* Queues and freed containers need nothing.
LEMMA SoundOthers == Sound(Free) /\ \A e : Sound(Queue(e))
BY MadeFields DEF Sound

LEMMA SoundMadeStruct ==
  ASSUME NEW e, IsFiniteSet(DOMAIN e), NEW n, n = Cardinality(DOMAIN e)
  PROVE  Sound(Struct(e, n))
BY MadeFields DEF Sound, SoundStruct

LEMMA SoundMadeArray ==
  ASSUME NEW e, IsFiniteSet(DOMAIN e), NEW n \in Nat, n >= Cardinality(DOMAIN e),
         NEW c, NEW r \in BOOLEAN, n # Cardinality(DOMAIN e) => r
  PROVE  Sound(Array(e, n, c, r))
BY MadeFields DEF Sound, SoundArray

\* A new d_array, or a copy of one.
LEMMA SoundExactArray ==
  ASSUME NEW e, IsFiniteSet(DOMAIN e), NEW n, n = Cardinality(DOMAIN e), NEW c
  PROVE  Sound(Array(e, n, c, FALSE))
<1>1. n \in Nat
  BY FS_CardinalityType
<1> DEFINE array == Array(e, n, c, FALSE)
<1>2. array.kind = "array" /\ array.elements = e /\ array.len = n
  BY DEF Array
<1>3. array.rewritten = FALSE
  BY DEF Array
<1> HIDE DEF array
<1>4. /\ IsFiniteSet(DOMAIN array.elements)
      /\ array.len \in Nat /\ array.len >= Cardinality(DOMAIN array.elements)
      /\ array.len = Cardinality(DOMAIN array.elements)
  BY <1>1, <1>2
<1>5. array.rewritten \in BOOLEAN
  BY <1>3, Zenon
<1>6. SoundArray(array)
  BY <1>4, <1>5, Zenon DEF SoundArray
<1> QED
  BY <1>2, <1>6 DEF Sound, array

\* The domains of With and Without, and how many keys At finds.
LEMMA Domains ==
  ASSUME NEW f, NEW k, NEW e
  PROVE  /\ DOMAIN With(f, k, e) = DOMAIN f \cup {k}
         /\ DOMAIN Without(f, k) = DOMAIN f \ {k}
BY DEF With, Without, Restrict

LEMMA AtCounts ==
  ASSUME NEW f, NEW k
  PROVE  /\ k \in DOMAIN f => At(f, k) # {} /\ Cardinality(At(f, k)) = 1
         /\ k \notin DOMAIN f => At(f, k) = {} /\ Cardinality(At(f, k)) = 0
BY FS_EmptySet, FS_Singleton DEF At

\* Setting a field of a d_struct, to a known or an unknown type.
LEMMA SoundStructSet ==
  ASSUME NEW c, c.kind = "struct", Sound(c), NEW k, NEW e
  PROVE  LET n == c.len - Cardinality(At(c.elements, k)) IN
         /\ Sound(Struct(Without(c.elements, k), n))
         /\ Sound(Struct(With(c.elements, k, e), n + 1))
<1> DEFINE D == DOMAIN c.elements
           n == c.len - Cardinality(At(c.elements, k))
<1>1. IsFiniteSet(D) /\ c.len = Cardinality(D) /\ c.len \in Nat
  BY FS_CardinalityType DEF Sound, SoundStruct
<1>2. n = IF k \in D THEN Cardinality(D) - 1 ELSE Cardinality(D)
  BY <1>1, AtCounts
<1>3. Sound(Struct(Without(c.elements, k), n))
  <2>1. DOMAIN Without(c.elements, k) = D \ {k}
    BY Domains
  <2>2. IsFiniteSet(D \ {k}) /\ n = Cardinality(D \ {k})
    BY <1>1, <1>2, FS_RemoveElement
  <2> HIDE DEF n, D
  <2> QED
    BY <2>1, <2>2, SoundMadeStruct
<1>4. n + 1 = IF k \in D THEN Cardinality(D) ELSE Cardinality(D) + 1
  BY <1>1, <1>2
<1>5. Sound(Struct(With(c.elements, k, e), n + 1))
  <2>1. DOMAIN With(c.elements, k, e) = D \cup {k}
    BY Domains
  <2>2. IsFiniteSet(D \cup {k}) /\ n + 1 = Cardinality(D \cup {k})
    BY <1>1, <1>4, FS_AddElement
  <2> HIDE DEF n, D
  <2> QED
    BY <2>1, <2>2, SoundMadeStruct
<1> QED
  BY <1>3, <1>5

\* Setting an index of a d_array.
LEMMA SoundArraySet ==
  ASSUME NEW c, c.kind = "array", Sound(c), NEW i, NEW e, NEW size
  PROVE  Sound(Array(With(c.elements, i, e), c.len + 1, size,
                     c.rewritten \/ At(c.elements, i) # {}))
<1> DEFINE D == DOMAIN c.elements
           r == c.rewritten \/ At(c.elements, i) # {}
<1>1. /\ IsFiniteSet(D) /\ Cardinality(D) \in Nat
      /\ c.len \in Nat /\ c.len >= Cardinality(D)
      /\ c.len # Cardinality(D) => c.rewritten
  BY FS_CardinalityType DEF Sound, SoundArray
<1>2. /\ IsFiniteSet(D \cup {i})
      /\ Cardinality(D \cup {i}) = IF i \in D THEN Cardinality(D) ELSE Cardinality(D) + 1
  BY <1>1, FS_AddElement
<1>3. c.len + 1 \in Nat /\ c.len + 1 >= Cardinality(D \cup {i})
  BY <1>1, <1>2
<1>4. c.len + 1 # Cardinality(D \cup {i}) => r
  BY <1>1, <1>2, AtCounts
<1>5. r \in BOOLEAN
  OBVIOUS
<1> HIDE DEF r
<1> QED
  BY <1>2, <1>3, <1>4, <1>5, Domains, SoundMadeArray DEF r

\* Removing or unlinking what is at k.
LEMMA SoundLess ==
  ASSUME NEW o, heap[o].kind \in {"struct", "array"}, Sound(heap[o]),
         NEW k, k \in DOMAIN heap[o].elements
  PROVE  Sound(Less(o, k))
<1> DEFINE c == heap[o]
           D == DOMAIN c.elements
           n == IF c.len > 0 THEN c.len - 1 ELSE 0
<1>1. IsFiniteSet(D) /\ Cardinality(D) \in Nat /\ c.len \in Nat
  BY FS_CardinalityType DEF Sound, SoundStruct, SoundArray
<1>2. /\ IsFiniteSet(D \ {k}) /\ Cardinality(D \ {k}) = Cardinality(D) - 1
      /\ Cardinality(D \ {k}) \in Nat
  BY <1>1, FS_RemoveElement, FS_CardinalityType
<1>3. CASE c.kind = "struct"
  <2>1. c.len = Cardinality(D)
    BY <1>3 DEF Sound, SoundStruct
  <2>2. Less(o, k) = Struct(Without(c.elements, k), n)
    BY <1>3 DEF Less
  <2>3. n = Cardinality(D \ {k})
    BY <1>1, <1>2, <2>1
  <2>4. DOMAIN Without(c.elements, k) = D \ {k}
    BY Domains
  <2> HIDE DEF n, D
  <2> QED
    BY <1>2, <2>2, <2>3, <2>4, SoundMadeStruct
<1>4. CASE c.kind = "array"
  <2>1. /\ c.len >= Cardinality(D) /\ c.rewritten \in BOOLEAN
        /\ c.len # Cardinality(D) => c.rewritten
    BY <1>4 DEF Sound, SoundArray
  <2>2. Less(o, k) = Array(Without(c.elements, k), n, c.capacity, c.rewritten)
    BY <1>4 DEF Less
  <2>3. /\ n \in Nat /\ n >= Cardinality(D \ {k})
        /\ n # Cardinality(D \ {k}) => c.rewritten
    BY <1>1, <1>2, <2>1
  <2>4. DOMAIN Without(c.elements, k) = D \ {k}
    BY Domains
  <2> HIDE DEF n, D
  <2> QED
    BY <1>2, <2>1, <2>2, <2>3, <2>4, SoundMadeArray
<1> QED
  BY <1>3, <1>4

\* A copy, of whatever is at x.
LEMMA SoundCopied ==
  ASSUME NEW x, Sound(heap[x]), NEW m, NEW unpacked
  PROVE  Sound(Copied(x, m, unpacked))
<1> DEFINE c == heap[x]
           elements == [k \in DOMAIN c.elements |->
                          IF Nested(c.elements[k])
                          THEN [c.elements[k] EXCEPT !.data = m[@]]
                          ELSE c.elements[k]]
           n == Cardinality(DOMAIN elements)
           size == IF unpacked THEN Max({1, n}) ELSE c.capacity
<1>1. DOMAIN elements = DOMAIN c.elements
  OBVIOUS
<1> HIDE DEF elements
<1>2. CASE c.kind = "struct"
  <2>1. IsFiniteSet(DOMAIN elements)
    BY <1>1, <1>2 DEF Sound, SoundStruct
  <2>2. Copied(x, m, unpacked) = Struct(elements, n)
    BY <1>2 DEF Copied, elements
  <2> QED
    BY <2>1, <2>2, SoundMadeStruct
<1>3. CASE c.kind = "array"
  <2>1. IsFiniteSet(DOMAIN elements)
    BY <1>1, <1>3 DEF Sound, SoundArray
  <2>2. Copied(x, m, unpacked) = Array(elements, n, size, FALSE)
    BY <1>3 DEF Copied, elements
  <2> QED
    BY <2>1, <2>2, SoundExactArray
<1>4. CASE c.kind \notin {"struct", "array"}
  <2>1. Copied(x, m, unpacked) = Queue(elements)
    BY <1>4 DEF Copied, elements
  <2> QED
    BY <2>1, SoundOthers
<1> QED
  BY <1>2, <1>3, <1>4

-----------------------------------------------------------------------------
(* The steps *)

\* It is enough that the container that changes becomes a sound one.
LEMMA BecomesInv ==
  ASSUME LenInv, NEW o, NEW r, Sound(r), NEW Freed, Becomes(o, r, Freed)
  PROVE  LenInv'
<1>1. heap' = [p \in Objects |-> heap'[p]]
  BY DEF Becomes
<1>2. ASSUME NEW p \in Objects
      PROVE  Sound(heap'[p])
  <2>1. heap'[p] \in {Free, r, heap[p]}
    BY DEF Becomes
  <2> QED
    BY <2>1, SoundOthers DEF LenInv
<1> QED
  BY <1>1, <1>2 DEF LenInv

LEMMA UnchangedInv ==
  ASSUME LenInv, UNCHANGED heap
  PROVE  LenInv'
BY DEF LenInv

LEMMA InitLenInv == Init => LenInv
BY SoundOthers DEF Init, LenInv

LEMMA NewInv ==
  ASSUME LenInv, NEW o \in Objects, New(o)
  PROVE  LenInv'
<1>1. PICK r \in {Struct(<<>>, 0), Queue(<<>>)}
                 \cup {Array(<<>>, 0, c, FALSE) : c \in 1 .. MaxIndex + 1} :
        Becomes(o, r, {})
  BY DEF New
<1>2. DOMAIN <<>> = {}
  OBVIOUS
<1>3. Sound(Struct(<<>>, 0))
  BY <1>2, FS_EmptySet, SoundMadeStruct
<1>4. \A c : Sound(Array(<<>>, 0, c, FALSE))
  BY <1>2, FS_EmptySet, SoundExactArray
<1>5. Sound(r)
  BY <1>3, <1>4, SoundOthers
<1> QED
  BY <1>1, <1>5, BecomesInv

LEMMA StructSetInv ==
  ASSUME LenInv, NEW o \in Objects, NEW k, NEW e, StructSet(o, k, e)
  PROVE  LenInv'
<1> DEFINE table == heap[o].elements
           n == heap[o].len - Cardinality(At(table, k))
           r == IF e = Unknown THEN Struct(Without(table, k), n)
                ELSE Struct(With(table, k, e), n + 1)
<1>1. heap[o].kind = "struct" /\ Becomes(o, r, At(table, k))
  BY DEF StructSet, InUse
<1>2. Sound(heap[o])
  BY DEF LenInv
<1>3. Sound(r)
  BY <1>1, <1>2, SoundStructSet
<1> HIDE DEF r
<1> QED
  BY <1>1, <1>3, BecomesInv

LEMMA ArraySetInv ==
  ASSUME LenInv, NEW o \in Objects, NEW i, NEW e, ArraySet(o, i, e)
  PROVE  LenInv'
<1> DEFINE array == heap[o]
           old == At(array.elements, i)
           set == Array(With(array.elements, i, e), array.len + 1,
                        Grown(array.capacity, i), array.rewritten \/ old # {})
           r == IF e = Unknown THEN array ELSE set
<1>1. array.kind = "array" /\ Becomes(o, r, old)
  BY DEF ArraySet, InUse
<1>2. Sound(array)
  BY DEF LenInv
<1>3. Sound(set)
  BY <1>1, <1>2, SoundArraySet
<1>4. Sound(r)
  BY <1>2, <1>3
<1> HIDE DEF r
<1> QED
  BY <1>1, <1>4, BecomesInv

LEMMA EraseInv ==
  ASSUME LenInv, NEW o \in Objects, NEW k, Erase(o, k)
  PROVE  LenInv'
<1>1. heap[o].kind \in {"struct", "array"} /\ Sound(heap[o])
  BY DEF Erase, InUse, LenInv
<1>2. CASE k \in DOMAIN heap[o].elements
  <2>1. Becomes(o, Less(o, k), At(heap[o].elements, k))
    BY <1>2 DEF Erase
  <2> QED
    BY <1>1, <1>2, <2>1, SoundLess, BecomesInv
<1>3. CASE k \notin DOMAIN heap[o].elements
  BY <1>3, UnchangedInv DEF Erase
<1> QED
  BY <1>2, <1>3

LEMMA UnlinkInv ==
  ASSUME LenInv, NEW o \in Objects, NEW k, Unlink(o, k)
  PROVE  LenInv'
<1>1. heap[o].kind \in {"struct", "array"} /\ Sound(heap[o])
  BY DEF Unlink, InUse, LenInv
<1>2. CASE Becomes(o, Less(o, k), {}) /\ At(heap[o].elements, k) # {}
  <2>1. k \in DOMAIN heap[o].elements
    BY <1>2, AtCounts
  <2> QED
    BY <1>1, <1>2, <2>1, SoundLess, BecomesInv
<1>3. CASE UNCHANGED heap
  BY <1>3, UnchangedInv
<1> QED
  BY <1>2, <1>3 DEF Unlink

\* The queue's operations make queues.
LEMMA QueueInv ==
  ASSUME LenInv, NEW o \in Objects, NEW e, NEW type,
         QueuePush(o, e) \/ QueuePop(o, type) \/ QueuePopWithType(o)
  PROVE  LenInv'
<1>1. Sound(heap[o])
  BY DEF LenInv
<1>2. CASE QueuePush(o, e)
  <2>1. PICK r \in {heap[o], Queue(Append(heap[o].elements, e))} : Becomes(o, r, {})
    BY <1>2 DEF QueuePush
  <2> QED
    BY <1>1, <2>1, SoundOthers, BecomesInv
<1>3. ASSUME Pop(o) PROVE LenInv'
  BY <1>3, SoundOthers, BecomesInv DEF Pop
<1>4. CASE QueuePop(o, type)
  <2>1. \/ UNCHANGED heap
        \/ Pop(o)
        \/ Becomes(o, Queue(Append(Tail(heap[o].elements), Head(heap[o].elements))), {})
    BY <1>4 DEF QueuePop
  <2> QED
    BY <1>3, <2>1, SoundOthers, BecomesInv, UnchangedInv
<1>5. CASE QueuePopWithType(o)
  BY <1>3, <1>5, UnchangedInv DEF QueuePopWithType
<1> QED
  BY <1>2, <1>4, <1>5

LEMMA DuplicateInv ==
  ASSUME LenInv, NEW o \in Objects, NEW unpacked, Duplicate(o, unpacked)
  PROVE  LenInv'
<1> DEFINE originals == Objects \cap Below(o)
<1>1. PICK m :
        heap' = [p \in Objects |->
                   IF \E x \in originals : m[x] = p
                   THEN Copied(CHOOSE x \in originals : m[x] = p, m, unpacked)
                   ELSE heap[p]]
  BY DEF Duplicate
<1>2. ASSUME NEW p \in Objects
      PROVE  Sound(heap'[p])
  <2>1. CASE \E x \in originals : m[x] = p
    <3> DEFINE x == CHOOSE y \in originals : m[y] = p
    <3>1. x \in Objects
      BY <2>1
    <3>2. heap'[p] = Copied(x, m, unpacked)
      BY <1>1, <2>1
    <3> HIDE DEF x
    <3> QED
      BY <3>1, <3>2, SoundCopied DEF LenInv
  <2>2. CASE ~ \E x \in originals : m[x] = p
    BY <1>1, <2>2 DEF LenInv
  <2> QED
    BY <2>1, <2>2
<1>3. heap' = [p \in Objects |-> heap'[p]]
  BY <1>1
<1> QED
  BY <1>2, <1>3 DEF LenInv

LEMMA FreeAllInv ==
  ASSUME LenInv, NEW o \in Objects, FreeAll(o)
  PROVE  LenInv'
BY SoundOthers DEF LenInv, FreeAll

LEMMA NextLenInv == LenInv /\ [Next]_vars => LenInv'
<1> SUFFICES ASSUME LenInv, [Next]_vars PROVE LenInv'
  OBVIOUS
<1>1. CASE UNCHANGED vars
  BY <1>1, UnchangedInv DEF vars
<1>2. ASSUME NEW o \in Objects, New(o) PROVE LenInv'
  BY <1>2, NewInv
<1>3. ASSUME NEW o \in Objects, Use(o) PROVE LenInv'
  <2>1. CASE \E k \in Keys, e \in Offered(o) : StructSet(o, k, e)
    BY <2>1, StructSetInv
  <2>2. CASE \E i \in Indices, e \in Offered(o) : ArraySet(o, i, e)
    BY <2>2, ArraySetInv
  <2>3. CASE \E k : Erase(o, k) \/ Unlink(o, k)
    BY <2>3, EraseInv, UnlinkInv
  <2>4. CASE \E e, type : QueuePush(o, e) \/ QueuePop(o, type) \/ QueuePopWithType(o)
    BY <2>4, QueueInv
  <2>5. CASE Copy(o) \/ Send(o)
    BY <2>5, DuplicateInv DEF Copy, Send
  <2>6. CASE FreeAll(o)
    BY <2>6, FreeAllInv
  <2> QED
    BY <1>3, <2>1, <2>2, <2>3, <2>4, <2>5, <2>6 DEF Use
<1> QED
  BY <1>1, <1>2, <1>3 DEF Next

\* The lengths of d_struct and d_array are right: never too small, and too
\* large only for an array in which an index was set again.
THEOREM LengthsAreRight == Spec => []LenExact
<1>1. Spec => []LenInv
  BY InitLenInv, NextLenInv, PTL DEF Spec
<1> QED
  BY <1>1, LenInvImpliesLenExact, PTL
-----------------------------------------------------------------------------
(* Who owns what *)

\* The containers among some elements, and in the table or queue f.
Containers(E) == {e.data : e \in {d \in E : Nested(d)}}
Once(f) == \A k, l \in DOMAIN f :
  Nested(f[k]) /\ Nested(f[l]) /\ f[k].data = f[l].data => k = l
Fits(f) == \A e \in Range(f) : Nested(e) => e.type = heap[e.data].kind

Shape(c) ==
  /\ c.kind \in Kinds \cup {"free"}
  /\ Range(c.elements) \subseteq Element
  /\ c.kind = "queue" => c.elements \in Seq(Element)
  /\ c.kind = "free" => c.elements = <<>>

Typed ==
  /\ heap = [o \in Objects |-> heap[o]]
  /\ \A o \in Objects : Shape(heap[o])
  /\ held \subseteq Objects /\ ret \in {0, 1} /\ intact \in BOOLEAN

\* Of any containers one is in none of them.
NoCycle == \A S \in SUBSET Objects :
  S # {} => \E x \in S : \A q \in S : x \notin Children(q)

Owned ==
  /\ \A o \in Objects : Once(heap[o].elements) /\ Fits(heap[o].elements)
  /\ \A q, r \in Objects : \A x \in Children(q) : x \in Children(r) => q = r
  /\ \A q \in Objects : \A x \in Children(q) : x \notin held
  /\ held \subseteq Live
  /\ \A x \in Live : x \in held \/ \E q \in Objects : x \in Children(q)
  /\ NoCycle

OwnInv == Typed /\ (intact => Owned)

LEMMA ChildrenAre ==
  ASSUME NEW o
  PROVE  Children(o) = Containers(Range(heap[o].elements))
BY DEF Children, Containers, Range

\* Whatever is in a container is there.
LEMMA ChildrenLive ==
  ASSUME Typed, NEW o \in Objects
  PROVE  /\ Children(o) \subseteq Objects
         /\ heap[o].kind = "free" => Children(o) = {}
         /\ Owned => Children(o) \subseteq Live
<1>1. Range(heap[o].elements) \subseteq Element
  BY DEF Typed, Shape
<1>2. Children(o) \subseteq Objects
  BY <1>1, ChildrenAre DEF Containers, Element, Nested, Kinds
<1>3. heap[o].kind = "free" => Children(o) = {}
  BY DEF Typed, Shape, Children
<1>4. ASSUME Owned, NEW x \in Children(o)
      PROVE  heap[x].kind # "free"
  <2>1. PICK e \in Range(heap[o].elements) : Nested(e) /\ e.data = x
    BY ChildrenAre DEF Containers
  <2>2. e.type = heap[x].kind /\ e.type \in Kinds
    BY <1>4, <2>1 DEF Owned, Fits, Nested
  <2> QED
    BY <2>2 DEF Kinds
<1> QED
  BY <1>2, <1>3, <1>4 DEF Live

\* Below(o) has o, and with a container what is in it; it is the least such set.
LEMMA BelowIs ==
  ASSUME Typed, NEW o \in Objects
  PROVE  /\ o \in Below(o) /\ Below(o) \subseteq Objects
         /\ \A q \in Below(o) : Children(q) \subseteq Below(o)
<1>1. o \in Below(o) /\ Below(o) \subseteq Objects
  BY DEF Below
<1>2. ASSUME NEW q \in Below(o), NEW x \in Children(q)
      PROVE  x \in Below(o)
  <2>1. x \in Objects
    BY <1>1, <1>2, ChildrenLive
  <2> QED
    BY <1>2, <2>1 DEF Below
<1> QED
  BY <1>1, <1>2

LEMMA BelowLeast ==
  ASSUME NEW o, NEW S \in SUBSET Objects, o \in S, \A q \in S : Children(q) \subseteq S
  PROVE  Below(o) \subseteq S
BY DEF Below

LEMMA BelowParent ==
  ASSUME Typed, NEW o \in Objects, NEW x \in Below(o), x # o
  PROVE  \E q \in Below(o) : x \in Children(q)
<1> DEFINE S == {o} \cup {y \in Below(o) : \E q \in Below(o) : y \in Children(q)}
<1>1. S \in SUBSET Objects /\ o \in S /\ S \subseteq Below(o)
  BY BelowIs
<1>2. \A q \in S : Children(q) \subseteq S
  BY <1>1, BelowIs
<1> HIDE DEF S
<1>3. x \in S
  BY <1>1, <1>2, BelowLeast
<1> QED
  BY <1>3 DEF S

\* Nothing is in something below it.
LEMMA NotBelowChild ==
  ASSUME Typed, Owned, NEW o \in Objects, NEW x \in Children(o)
  PROVE  o \notin Below(x)
<1> SUFFICES ASSUME o \in Below(x) PROVE FALSE
  OBVIOUS
<1>1. x \in Objects
  BY ChildrenLive
<1>2. Below(x) \in SUBSET Objects /\ Below(x) # {}
  BY <1>1, BelowIs
<1>3. PICK y \in Below(x) : \A q \in Below(x) : y \notin Children(q)
  BY <1>2 DEF Owned, NoCycle
<1>4. y = x
  BY <1>1, <1>3, BelowParent
<1> QED
  BY <1>3, <1>4

LEMMA InvOwnedOnce == OwnInv => OwnedOnce
<1> SUFFICES ASSUME OwnInv PROVE OwnedOnce
  OBVIOUS
<1>1. held \subseteq Objects /\ ret \in {0, 1} /\ intact \in BOOLEAN
  BY DEF OwnInv, Typed
<1>2. ASSUME NEW place \in Places
      PROVE  /\ place[1] \in Objects /\ place[2] \in DOMAIN heap[place[1]].elements
             /\ place = <<place[1], place[2]>>
             /\ ElementAt(place) = heap[place[1]].elements[place[2]]
             /\ ElementAt(place) \in Range(heap[place[1]].elements)
  BY DEF Places, ElementAt, Range
<1>3. ASSUME NEW place \in Places PROVE ElementAt(place) \in Element
  BY <1>2 DEF OwnInv, Typed, Shape
<1>4. ASSUME intact, NEW o \in Objects
      PROVE  /\ Cardinality(Uses(o)) + (IF o \in held THEN 1 ELSE 0)
                  = (IF o \in Live THEN 1 ELSE 0)
             /\ \A place \in Uses(o) : ElementAt(place).type = heap[o].kind
  <2>1. Typed /\ Owned
    BY <1>4 DEF OwnInv
  <2>2. ASSUME NEW place \in Uses(o)
        PROVE  /\ place \in Places /\ o \in Children(place[1])
               /\ ElementAt(place).type = heap[o].kind
    <3>1. place \in Places /\ Nested(ElementAt(place)) /\ ElementAt(place).data = o
      BY DEF Uses
    <3> QED
      BY <1>2, <2>1, <3>1, ChildrenAre DEF Owned, Fits, Containers
  <2>3. ASSUME NEW p1 \in Uses(o), NEW p2 \in Uses(o)
        PROVE  p1 = p2
    <3>1. p1[1] = p2[1]
      BY <1>2, <2>1, <2>2 DEF Owned
    <3>2. p1[2] = p2[2]
      BY <1>2, <2>1, <2>2, <3>1 DEF Owned, Once, Uses
    <3> QED
      BY <1>2, <2>2, <3>1, <3>2
  <2>4. Uses(o) = {} <=> \A q \in Objects : o \notin Children(q)
    <3>1. ASSUME NEW q \in Objects, o \in Children(q)
          PROVE  Uses(o) # {}
      <4>1. PICK k \in DOMAIN heap[q].elements :
              Nested(heap[q].elements[k]) /\ heap[q].elements[k].data = o
        BY <3>1 DEF Children
      <4>2. <<q, k>> \in Places /\ ElementAt(<<q, k>>) = heap[q].elements[k]
        BY DEF Places, ElementAt
      <4> QED
        BY <4>1, <4>2 DEF Uses
    <3> QED
      BY <1>2, <2>2, <3>1
  <2>5. Uses(o) = {} => Cardinality(Uses(o)) = 0
    BY FS_EmptySet
  <2>6. Uses(o) # {} => Cardinality(Uses(o)) = 1
    <3>1. ASSUME Uses(o) # {} PROVE \E p : Uses(o) = {p}
      BY <2>3, <3>1
    <3> QED
      BY <3>1, FS_Singleton
  <2>7. Uses(o) # {} => o \in Live /\ o \notin held
    BY <2>1, <2>4, ChildrenLive DEF Owned
  <2>8. Uses(o) = {} => (o \in held <=> o \in Live)
    BY <2>1, <2>4 DEF Owned
  <2> QED
    BY <2>2, <2>5, <2>6, <2>7, <2>8
<1> QED
  BY <1>1, <1>3, <1>4 DEF OwnedOnce

\* What is freed with the children L of o.
IsGone(Gone, o, L) ==
  /\ Gone \subseteq Objects /\ L \subseteq Gone /\ o \notin Gone
  /\ \A q \in Gone : Children(q) \subseteq Gone
  /\ \A y \in Gone : y \notin held
  /\ \A q \in Objects : \A y \in Children(q) :
       y \in Gone => q \in Gone \/ (q = o /\ y \in L)

\* Freeing the children L of o frees what is below them: not o, nothing the
\* application holds, and nothing that has a parent elsewhere.
LEMMA GoneIs ==
  ASSUME Typed, Owned, NEW o \in Objects, NEW L \in SUBSET Children(o),
         NEW Gone, Gone = UNION {Below(x) : x \in L}
  PROVE  IsGone(Gone, o, L)
<1>1. L \subseteq Objects
  BY ChildrenLive
<1>2. Gone \subseteq Objects /\ L \subseteq Gone
      /\ \A q \in Gone : Children(q) \subseteq Gone
  BY <1>1, BelowIs
<1>3. o \notin Gone
  BY NotBelowChild
<1>4. ASSUME NEW y \in Gone PROVE y \in L \/ \E q \in Gone : y \in Children(q)
  BY <1>1, BelowParent
<1>5. ASSUME NEW y \in Gone PROVE y \notin held
  BY <1>2, <1>4 DEF Owned
<1>6. ASSUME NEW q \in Objects, NEW y \in Children(q), y \in Gone
      PROVE  q \in Gone \/ (q = o /\ y \in L)
  BY <1>2, <1>4, <1>6 DEF Owned
<1> QED
  BY <1>2, <1>3, <1>5, <1>6 DEF IsGone

\* A call changes one container o: it gets the containers D the application
\* held, loses L, which are freed, and gives T to the application.
LEMMA EditOwned ==
  ASSUME Typed, Owned, NEW o \in Live, NEW r, r.kind = heap[o].kind,
         Once(r.elements), Fits(r.elements),
         NEW D \in SUBSET held, NEW L \in SUBSET Children(o), NEW T \in SUBSET Children(o),
         L \cap T = {}, \A d \in D : o \notin Below(d),
         Containers(Range(r.elements)) = (Children(o) \ (L \cup T)) \cup D,
         NEW Freed, Containers(Freed) = L,
         Becomes(o, r, Freed), held' = (held \ D) \cup T
  PROVE  Owned'
<1> DEFINE Gone == UNION {Below(x) : x \in L}
<1>0. o \in Objects
  BY DEF Live
<1>1. IsGone(Gone, o, L)
  <2>1. Gone = UNION {Below(x) : x \in L}
    OBVIOUS
  <2> HIDE DEF Gone
  <2> QED
    BY <1>0, <2>1, GoneIs
<1>2. Contents(Freed) = Gone
  BY DEF Contents, Containers
<1> HIDE DEF Gone
<1> USE DEF IsGone
<1>3. /\ o \in Objects
      /\ \A p \in Objects : heap'[p] = IF p \in Gone THEN Free
                                       ELSE IF p = o THEN r ELSE heap[p]
  BY <1>2 DEF Becomes, Live
<1>4. Free.kind = "free" /\ Free.elements = <<>> /\ r.kind # "free"
  BY DEF Free, Live
<1>5. /\ \A p \in Gone : Children(p)' = {} /\ heap'[p].kind = "free"
      /\ Children(o)' = (Children(o) \ (L \cup T)) \cup D
      /\ \A p \in Objects : p \notin Gone /\ p # o => Children(p)' = Children(p)
      /\ \A p \in Objects : p \notin Gone => heap'[p].kind = heap[p].kind
  <2>1. ASSUME NEW p \in Gone PROVE Children(p)' = {} /\ heap'[p].kind = "free"
    BY <1>1, <1>3, <1>4 DEF Children
  <2>2. heap'[o] = r
    BY <1>1, <1>3
  <2>3. Children(o)' = Containers(Range(r.elements))
    BY <2>2 DEF Children, Containers, Range
  <2>4. ASSUME NEW p \in Objects, p \notin Gone, p # o PROVE Children(p)' = Children(p)
    BY <1>3, <2>4 DEF Children
  <2> QED
    BY <1>3, <2>1, <2>2, <2>3, <2>4
<1>6. /\ \A q, s \in Objects : \A x \in Children(q) : x \in Children(s) => q = s
      /\ \A q \in Objects : \A x \in Children(q) : x \notin held
      /\ held \subseteq Live
      /\ \A x \in Live : x \in held \/ \E q \in Objects : x \in Children(q)
  BY DEF Owned
<1>7. Live' = Live \ Gone
  BY <1>1, <1>5 DEF Live
<1>8. ASSUME NEW q \in Objects, NEW x, x \in Children(q)'
      PROVE  /\ q \notin Gone /\ x \notin Gone /\ x \in Live /\ x \notin held'
             /\ x \in Children(q) \/ (q = o /\ x \in D)
  <2>1. q \notin Gone /\ (x \in Children(q) \/ (q = o /\ x \in D))
    BY <1>5, <1>8
  <2>2. CASE x \in D
    BY <1>1, <1>6, <2>1, <2>2
  <2>3. CASE x \in Children(q) /\ x \notin D
    <3>1. x \in Live /\ x \notin held
      BY <1>6, <2>3, ChildrenLive
    <3>2. x \in T => q = o
      BY <1>3, <1>6, <2>3
    <3>3. x \notin T /\ ~(q = o /\ x \in L)
      BY <1>5, <1>8, <2>3, <3>2
    <3> QED
      BY <1>1, <2>1, <2>3, <3>1, <3>3
  <2> QED
    BY <2>1, <2>2, <2>3
<1>9. ASSUME NEW p \in Objects
      PROVE  Once(heap[p].elements)' /\ Fits(heap[p].elements)'
  <2>1. heap'[p] \in {Free, r, heap[p]}
    BY <1>3
  <2>2. Once(heap'[p].elements) /\ Fits(heap'[p].elements)
    BY <1>4, <2>1 DEF Owned, Once, Fits, Range
  <2>3. ASSUME NEW e \in Range(heap'[p].elements), Nested(e)
        PROVE  heap'[e.data].kind = heap[e.data].kind
    <3>1. e.data \in Children(p)'
      BY <2>3 DEF Children, Range
    <3> QED
      BY <1>5, <1>8, <3>1 DEF Live
  <2> QED
    BY <2>2, <2>3 DEF Once, Fits
<1>10. ASSUME NEW q \in Objects, NEW s \in Objects, NEW x,
              x \in Children(q)', x \in Children(s)'
       PROVE  q = s
  BY <1>3, <1>6, <1>8, <1>10
<1>11. held' \subseteq Live'
  <2>1. T \subseteq Live
    BY <1>3, ChildrenLive
  <2>2. \A x \in T : x \notin Gone
    BY <1>1, <1>3
  <2> QED
    BY <1>1, <1>6, <1>7, <2>1, <2>2
<1>12. ASSUME NEW x \in Live'
       PROVE  x \in held' \/ \E q \in Objects : x \in Children(q)'
  <2>1. x \in Live /\ x \notin Gone
    BY <1>7
  <2>2. CASE x \in held
    BY <1>3, <1>5, <2>2
  <2>3. CASE \E q \in Objects : x \in Children(q)
    <3>1. PICK q \in Objects : x \in Children(q)
      BY <2>3
    <3>2. q \notin Gone
      BY <1>1, <2>1, <3>1
    <3>3. CASE q = o
      BY <1>1, <1>3, <1>5, <2>1, <3>1, <3>3
    <3>4. CASE q # o
      BY <1>5, <3>1, <3>2, <3>4
    <3> QED
      BY <3>3, <3>4
  <2> QED
    BY <1>6, <2>1, <2>2, <2>3
<1>13. ASSUME NEW S \in SUBSET Objects, S # {}
       PROVE  \E x \in S : \A q \in S : x \notin Children(q)'
  <2> DEFINE U == UNION {Below(d) : d \in D}
  <2>1. D \subseteq Objects
    BY DEF Typed
  <2>2. /\ D \subseteq U /\ o \notin U /\ U \subseteq Objects
        /\ \A q \in U : Children(q) \subseteq U
    BY <2>1, BelowIs
  <2> HIDE DEF U
  <2>3. CASE S \subseteq U
    <3>1. PICK x \in S : \A q \in S : x \notin Children(q)
      BY <1>13 DEF Owned, NoCycle
    <3> QED
      BY <1>8, <2>2, <2>3, <3>1
  <2>4. CASE ~(S \subseteq U)
    <3>1. S \ U \in SUBSET Objects /\ S \ U # {}
      BY <2>4
    <3>2. PICK x \in S \ U : \A q \in S \ U : x \notin Children(q)
      BY <3>1 DEF Owned, NoCycle
    <3>3. ASSUME NEW q \in S PROVE x \notin Children(q)'
      <4>1. x \notin Children(q)
        BY <2>2, <3>2
      <4> QED
        BY <1>8, <2>2, <3>2, <4>1
    <3> QED
      BY <3>2, <3>3
  <2> QED
    BY <2>3, <2>4
<1>14. NoCycle'
  BY <1>13 DEF NoCycle
<1> QED
  BY <1>8, <1>9, <1>10, <1>11, <1>12, <1>14 DEF Owned

\* What taking an element out of a table, or putting one in, changes.
LEMMA WithoutIs ==
  ASSUME NEW f, Once(f), NEW k
  PROVE  /\ Once(Without(f, k)) /\ Range(Without(f, k)) \subseteq Range(f)
         /\ Containers(Range(Without(f, k))) = Containers(Range(f)) \ Containers(At(f, k))
         /\ Containers(At(f, k)) \subseteq Containers(Range(f))
<1>1. /\ DOMAIN Without(f, k) = DOMAIN f \ {k}
      /\ \A j \in DOMAIN f \ {k} : Without(f, k)[j] = f[j]
  BY DEF Without, Restrict
<1>2. Range(Without(f, k)) = {f[j] : j \in DOMAIN f \ {k}}
  BY <1>1 DEF Range
<1>3. Once(Without(f, k))
  BY <1>1 DEF Once
<1>4. Containers(Range(Without(f, k))) = Containers(Range(f)) \ Containers(At(f, k))
  BY <1>2 DEF Containers, Range, At, Once
<1> QED
  BY <1>2, <1>3, <1>4 DEF Range, Containers, At

LEMMA WithIs ==
  ASSUME NEW f, Once(f), NEW k, NEW e, Nested(e) => e.data \notin Containers(Range(f))
  PROVE  /\ Once(With(f, k, e)) /\ Range(With(f, k, e)) \subseteq Range(f) \cup {e}
         /\ Containers(Range(With(f, k, e)))
              = (Containers(Range(f)) \ Containers(At(f, k))) \cup Given(e)
<1>1. /\ DOMAIN With(f, k, e) = DOMAIN f \cup {k} /\ With(f, k, e)[k] = e
      /\ \A j \in DOMAIN f \ {k} : With(f, k, e)[j] = f[j]
  BY DEF With
<1>2. Range(With(f, k, e)) = {f[j] : j \in DOMAIN f \ {k}} \cup {e}
  BY <1>1 DEF Range
<1>3. \A j \in DOMAIN f : Nested(f[j]) => f[j].data \in Containers(Range(f))
  BY DEF Containers, Range
<1>4. Once(With(f, k, e))
  BY <1>1, <1>3 DEF Once
<1>5. Containers({f[j] : j \in DOMAIN f \ {k}}) = Containers(Range(f)) \ Containers(At(f, k))
  BY DEF Containers, Range, At, Once
<1>6. Containers(Range(With(f, k, e)))
        = Containers({f[j] : j \in DOMAIN f \ {k}}) \cup Given(e)
  BY <1>2 DEF Containers, Given
<1> QED
  BY <1>2, <1>4, <1>5, <1>6 DEF Range

\* The same for a queue.
LEMMA AppendIs ==
  ASSUME NEW S, NEW f \in Seq(S), Once(f), NEW e \in S,
         Nested(e) => e.data \notin Containers(Range(f))
  PROVE  /\ Append(f, e) \in Seq(S) /\ Once(Append(f, e))
         /\ Range(Append(f, e)) \subseteq Range(f) \cup {e}
         /\ Containers(Range(Append(f, e))) = Containers(Range(f)) \cup Given(e)
<1> DEFINE n == Len(f)
           g == Append(f, e)
<1>1. /\ n \in Nat /\ DOMAIN f = 1 .. n /\ g \in Seq(S) /\ DOMAIN g = 1 .. n + 1
      /\ g[n + 1] = e /\ \A j \in 1 .. n : g[j] = f[j]
  OBVIOUS
<1> HIDE DEF n, g
<1>2. DOMAIN g = DOMAIN f \cup {n + 1} /\ n + 1 \notin DOMAIN f
  BY <1>1
<1>3. \A j \in DOMAIN f : g[j] = f[j] /\ f[j] \in Range(f)
  BY <1>1 DEF Range
<1>4. Range(g) = Range(f) \cup {e}
  <2>1. \A j \in DOMAIN g : g[j] \in Range(f) \cup {e}
    BY <1>1, <1>2, <1>3
  <2>2. \A j \in DOMAIN f : f[j] \in Range(g)
    BY <1>2, <1>3 DEF Range
  <2>3. e \in Range(g)
    BY <1>1, <1>2, Zenon DEF Range
  <2> QED
    BY <2>1, <2>2, <2>3 DEF Range
<1>5. \A j \in DOMAIN f : Nested(f[j]) => f[j].data \in Containers(Range(f))
  BY <1>3 DEF Containers
<1>6. Once(g)
  BY <1>1, <1>2, <1>3, <1>5 DEF Once
<1>7. Containers(Range(g)) = Containers(Range(f)) \cup Given(e)
  BY <1>4 DEF Containers, Given
<1> QED
  BY <1>1, <1>4, <1>6, <1>7 DEF g

LEMMA TailIs ==
  ASSUME NEW S, NEW f \in Seq(S), Once(f), f # <<>>
  PROVE  /\ Tail(f) \in Seq(S) /\ Once(Tail(f)) /\ Head(f) \in S
         /\ Head(f) \in Range(f) /\ Range(Tail(f)) \subseteq Range(f)
         /\ Containers(Range(Tail(f))) = Containers(Range(f)) \ Given(Head(f))
         /\ Given(Head(f)) \subseteq Containers(Range(f))
<1> DEFINE n == Len(f)
           g == Tail(f)
<1>1. /\ n \in Nat /\ n > 0 /\ DOMAIN f = 1 .. n /\ g \in Seq(S) /\ DOMAIN g = 1 .. n - 1
      /\ \A j \in 1 .. n - 1 : g[j] = f[j + 1]
      /\ Head(f) = f[1] /\ Head(f) \in S
  OBVIOUS
<1> HIDE DEF n, g
<1>2. /\ \A j \in DOMAIN g : j + 1 \in DOMAIN f \ {1} /\ g[j] = f[j + 1]
      /\ \A i \in DOMAIN f \ {1} : \E j \in DOMAIN g : i = j + 1
      /\ \A i, j \in DOMAIN g : i + 1 = j + 1 => i = j
  <2>1. \A i \in DOMAIN f \ {1} : i - 1 \in DOMAIN g /\ i = (i - 1) + 1
    BY <1>1
  <2> QED
    BY <1>1, <2>1
<1>3. Range(g) = {f[i] : i \in DOMAIN f \ {1}}
  BY <1>2 DEF Range
<1>4. 1 \in DOMAIN f
  BY <1>1
<1>5. Range(f) = Range(g) \cup {Head(f)}
  BY <1>1, <1>3, <1>4 DEF Range
<1>6. Once(g)
  BY <1>2 DEF Once
<1>7. Nested(Head(f)) => Head(f).data \notin Containers(Range(g))
  BY <1>1, <1>3, <1>4 DEF Containers, Once
<1>8. Containers(Range(f)) = Containers(Range(g)) \cup Given(Head(f))
  BY <1>5 DEF Containers, Given
<1>9. Containers(Range(g)) \cap Given(Head(f)) = {}
  BY <1>7 DEF Given
<1> QED
  BY <1>1, <1>5, <1>6, <1>8, <1>9 DEF g

\* What may be set into o is held, and does not have o in it.
LEMMA OfferedIs ==
  ASSUME Typed, Owned, NEW o \in Objects, NEW e \in Offered(o)
  PROVE  /\ Given(e) \subseteq held /\ \A d \in Given(e) : o \notin Below(d)
         /\ e # Unknown => e \in Element
         /\ e = Unknown => Given(e) = {}
         /\ Fits(<<e>>)
         /\ Nested(e) => \A q \in Objects : e.data \notin Children(q)
<1>1. CASE e \in [type : {"number", "str"}, data : Data]
  <2>1. ~Nested(e) /\ e \in Element
    BY <1>1 DEF Nested, Kinds, Element
  <2> QED
    BY <2>1 DEF Given, Fits, Range
<1>2. CASE e = Unknown
  <2>1. ~Nested(e)
    BY <1>2 DEF Nested, Kinds, Unknown
  <2> QED
    BY <1>2, <2>1 DEF Given, Fits, Range
<1>3. CASE e \in {[type |-> heap[p].kind, data |-> p] : p \in {q \in held : o \notin Below(q)}}
  <2>1. PICK p \in held : o \notin Below(p) /\ e = [type |-> heap[p].kind, data |-> p]
    BY <1>3
  <2>2. p \in Objects /\ heap[p].kind \in Kinds
    BY DEF Owned, Live, Typed, Shape
  <2>3. e.type = heap[p].kind /\ e.data = p /\ e \in Element /\ Nested(e)
    BY <2>1, <2>2 DEF Element, Nested
  <2>4. e # Unknown
    BY <2>2, <2>3 DEF Unknown, Kinds
  <2> QED
    BY <2>1, <2>3, <2>4 DEF Given, Fits, Range, Owned
<1> QED
  BY <1>1, <1>2, <1>3 DEF Offered

-----------------------------------------------------------------------------
(* Every call keeps OwnInv *)

LEMMA FreeIs == Free.kind = "free" /\ Free.elements = <<>> /\ Shape(Free) /\ Contents({}) = {}
BY DEF Free, Shape, Range, Contents

LEMMA EditTyped ==
  ASSUME Typed, NEW o \in Objects, NEW r, Shape(r), NEW Freed, Becomes(o, r, Freed),
         held' \subseteq Objects, ret' \in {0, 1}, intact' \in BOOLEAN
  PROVE  Typed'
<1>1. heap' = [p \in Objects |-> heap'[p]]
  BY DEF Becomes
<1>2. ASSUME NEW p \in Objects PROVE Shape(heap'[p])
  <2>1. heap'[p] \in {Free, r, heap[p]}
    BY DEF Becomes
  <2> QED
    BY <2>1, FreeIs DEF Typed
<1> QED
  BY <1>1, <1>2 DEF Typed, Shape

\* EditOwned for the whole invariant.
LEMMA EditInv ==
  ASSUME OwnInv, intact, NEW o \in Live, NEW r, r.kind = heap[o].kind, Shape(r),
         Once(r.elements), Fits(r.elements),
         NEW D \in SUBSET held, NEW L \in SUBSET Children(o), NEW T \in SUBSET Children(o),
         L \cap T = {}, \A d \in D : o \notin Below(d),
         Containers(Range(r.elements)) = (Children(o) \ (L \cup T)) \cup D,
         NEW Freed, Containers(Freed) = L,
         Becomes(o, r, Freed), held' = (held \ D) \cup T,
         ret' \in {0, 1}, intact' \in BOOLEAN
  PROVE  OwnInv'
<1>1. Typed /\ Owned
  BY DEF OwnInv
<1>2. Owned'
  BY <1>1, EditOwned
<1>3. o \in Objects
  BY DEF Live
<1>4. held' \subseteq Objects
  BY <1>1, <1>3, ChildrenLive DEF Typed
<1>5. Typed'
  BY <1>1, <1>3, <1>4, EditTyped
<1> QED
  BY <1>2, <1>5 DEF OwnInv

LEMMA SameHeapInv ==
  ASSUME OwnInv, UNCHANGED <<heap, held>>, ret' \in {0, 1}, intact' \in BOOLEAN, intact' => intact
  PROVE  OwnInv'
<1>1. Typed'
  BY DEF OwnInv, Typed, Shape
<1>2. Live' = Live /\ \A o \in Objects : Children(o)' = Children(o)
  BY DEF Live, Children
<1>3. NoCycle => NoCycle'
  BY <1>2 DEF NoCycle
<1>4. \A o \in Objects : /\ Once(heap[o].elements)' <=> Once(heap[o].elements)
                        /\ Fits(heap[o].elements)' <=> Fits(heap[o].elements)
  BY DEF Once, Fits
<1>5. Owned => Owned'
  BY <1>2, <1>3, <1>4 DEF Owned
<1> QED
  BY <1>1, <1>5 DEF OwnInv

\* A call that leaves the application what it holds, and every container its own.
LEMMA NothingFreed ==
  ASSUME Typed, NEW o \in Objects, Becomes(o, heap[o], {})
  PROVE  UNCHANGED heap
<1>1. heap' = [p \in Objects |-> heap[p]]
  BY FreeIs DEF Becomes
<1> QED
  BY <1>1 DEF Typed

\* d_struct_set and d_array_set.
LEMMA SetInv ==
  ASSUME OwnInv, intact, NEW o \in Live, NEW k, NEW e \in Offered(o),
         heap[o].kind \in {"struct", "array"}, NEW r, r.kind = heap[o].kind,
         r.elements = IF e = Unknown THEN Without(heap[o].elements, k)
                      ELSE With(heap[o].elements, k, e),
         Becomes(o, r, At(heap[o].elements, k)),
         held' = held \ Given(e), ret' = 0, intact' \in BOOLEAN
  PROVE  OwnInv'
<1> DEFINE f == heap[o].elements
           L == Containers(At(f, k))
<1>1. Typed /\ Owned /\ o \in Objects
  BY DEF OwnInv, Live
<1>2. /\ Once(f) /\ Fits(f) /\ Range(f) \subseteq Element
      /\ Children(o) = Containers(Range(f))
  BY <1>1, ChildrenAre DEF Owned, Typed, Shape
<1>3. /\ Given(e) \subseteq held /\ \A d \in Given(e) : o \notin Below(d)
      /\ e # Unknown => e \in Element
      /\ e = Unknown => Given(e) = {}
      /\ Fits(<<e>>)
      /\ Nested(e) => e.data \notin Children(o)
  BY <1>1, OfferedIs
<1>4. L \subseteq Children(o)
  BY <1>2, WithoutIs
<1>5. /\ Once(r.elements) /\ Fits(r.elements) /\ Range(r.elements) \subseteq Element
      /\ Containers(Range(r.elements)) = (Children(o) \ (L \cup {})) \cup Given(e)
  <2>1. CASE e = Unknown
    <3>1. r.elements = Without(f, k)
      BY <2>1
    <3> HIDE DEF f
    <3>2. /\ Once(r.elements) /\ Range(r.elements) \subseteq Range(f)
          /\ Containers(Range(r.elements)) = Containers(Range(f)) \ Containers(At(f, k))
      BY <1>2, <3>1, WithoutIs
    <3> QED
      BY <1>2, <1>3, <2>1, <3>2 DEF Fits
  <2>2. CASE e # Unknown
    <3>1. r.elements = With(f, k, e)
      BY <2>2
    <3> HIDE DEF f
    <3>2. /\ Once(r.elements) /\ Range(r.elements) \subseteq Range(f) \cup {e}
          /\ Containers(Range(r.elements))
               = (Containers(Range(f)) \ Containers(At(f, k))) \cup Given(e)
      BY <1>2, <1>3, <3>1, WithIs
    <3>3. e \in Range(<<e>>)
      BY DEF Range
    <3> QED
      BY <1>2, <1>3, <2>2, <3>2, <3>3 DEF Fits
  <2> QED
    BY <2>1, <2>2
<1>6. Shape(r)
  BY <1>5 DEF Shape, Kinds
<1>7. held' = (held \ Given(e)) \cup {}
  OBVIOUS
<1>8. Becomes(o, r, At(f, k))
  OBVIOUS
<1>9. ret' \in {0, 1}
  OBVIOUS
<1> HIDE DEF f
<1>10. Containers(At(f, k)) = L
  OBVIOUS
<1> HIDE DEF L
<1> QED
  BY <1>3, <1>4, <1>5, <1>6, <1>7, <1>8, <1>9, <1>10, EditInv

LEMMA StructSetOwn ==
  ASSUME OwnInv, NEW o \in Objects, NEW k, NEW e \in Offered(o), StructSet(o, k, e)
  PROVE  OwnInv'
<1> DEFINE table == heap[o].elements
           n == heap[o].len - Cardinality(At(table, k))
           r == IF e = Unknown THEN Struct(Without(table, k), n)
                ELSE Struct(With(table, k, e), n + 1)
<1>1. /\ intact /\ heap[o].kind = "struct" /\ o \in Live
      /\ Becomes(o, r, At(table, k)) /\ held' = held \ Given(e) /\ ret' = 0
      /\ intact' \in BOOLEAN
  BY DEF StructSet, InUse, Live, OwnInv, Typed
<1>2. /\ r.kind = "struct"
      /\ r.elements = IF e = Unknown THEN Without(table, k) ELSE With(table, k, e)
  BY MadeFields
<1> HIDE DEF r
<1> QED
  BY <1>1, <1>2, SetInv

LEMMA ArraySetOwn ==
  ASSUME OwnInv, NEW o \in Objects, NEW i, NEW e \in Offered(o), ArraySet(o, i, e)
  PROVE  OwnInv'
<1> DEFINE array == heap[o]
           old == At(array.elements, i)
           r == Array(With(array.elements, i, e), array.len + 1,
                      Grown(array.capacity, i), array.rewritten \/ old # {})
<1>1. /\ intact /\ array.kind = "array" /\ o \in Live /\ Typed /\ Owned
      /\ Becomes(o, IF e = Unknown THEN array ELSE r, old)
      /\ held' = held \ Given(e) /\ ret' = 0
      /\ intact' = IF e = Unknown THEN old = {} ELSE i < array.capacity
  BY DEF ArraySet, InUse, Live, OwnInv
<1>2. r.kind = "array" /\ r.elements = With(array.elements, i, e)
  BY MadeFields
<1> HIDE DEF r
<1>3. CASE e # Unknown
  BY <1>1, <1>2, <1>3, SetInv
<1>4. CASE e = Unknown
  <2>1. held' = held
    BY <1>1, <1>4, OfferedIs
  <2>2. Typed'
    BY <1>1, <1>4, <2>1, EditTyped DEF Typed
  <2>3. CASE old = {}
    BY <1>1, <1>4, <2>1, <2>3, NothingFreed, SameHeapInv
  <2>4. CASE old # {}
    BY <1>1, <1>4, <2>2, <2>4 DEF OwnInv
  <2> QED
    BY <2>3, <2>4
<1> QED
  BY <1>3, <1>4

\* d_struct_remove, d_array_remove, d_struct_unlink, d_array_unlink.
LEMMA LessInv ==
  ASSUME OwnInv, intact, NEW o \in Live, heap[o].kind \in {"struct", "array"}, NEW k,
         NEW Freed, NEW T, Becomes(o, Less(o, k), Freed), held' = held \cup T,
         \/ Freed = At(heap[o].elements, k) /\ T = {}
         \/ Freed = {} /\ T = Containers(At(heap[o].elements, k)),
         ret' = 0, UNCHANGED intact
  PROVE  OwnInv'
<1> DEFINE f == heap[o].elements
           L == Containers(Freed)
           r == Less(o, k)
<1>1. Typed /\ Owned /\ o \in Objects
  BY DEF OwnInv, Live
<1>2. /\ Once(f) /\ Fits(f) /\ Range(f) \subseteq Element
      /\ Children(o) = Containers(Range(f))
  BY <1>1, ChildrenAre DEF Owned, Typed, Shape
<1>3. r.kind = heap[o].kind /\ r.elements = Without(f, k)
  BY MadeFields DEF Less
<1>4. L \cup T = Containers(At(f, k)) /\ L \cap T = {}
  BY DEF Containers
<1>5. Becomes(o, r, Freed) /\ ret' \in {0, 1} /\ intact' \in BOOLEAN
  BY <1>1 DEF Typed
<1> HIDE DEF f, L, r
<1>6. /\ Once(r.elements) /\ Fits(r.elements) /\ Range(r.elements) \subseteq Element
      /\ Containers(Range(r.elements)) = Children(o) \ (L \cup T)
      /\ L \cup T \subseteq Children(o)
  BY <1>2, <1>3, <1>4, WithoutIs DEF Fits
<1>7. Shape(r)
  BY <1>3, <1>6 DEF Shape, Kinds
<1>8. held' = (held \ {}) \cup T
      /\ Containers(Range(r.elements)) = (Children(o) \ (L \cup T)) \cup {}
      /\ {} \subseteq held /\ L \subseteq Children(o) /\ T \subseteq Children(o)
      /\ \A d \in {} : o \notin Below(d)
  BY <1>6
<1>9. Containers(Freed) = L
  BY DEF L
<1> QED
  BY <1>3, <1>4, <1>5, <1>6, <1>7, <1>8, <1>9, EditInv

LEMMA EraseOwn ==
  ASSUME OwnInv, NEW o \in Objects, NEW k, Erase(o, k)
  PROVE  OwnInv'
<1>1. /\ intact /\ heap[o].kind \in {"struct", "array"} /\ o \in Live
      /\ UNCHANGED <<held, intact>>
  BY DEF Erase, InUse, Live
<1>2. CASE k \in DOMAIN heap[o].elements
  <2>1. Becomes(o, Less(o, k), At(heap[o].elements, k)) /\ ret' = 0
    BY <1>2 DEF Erase
  <2>2. held' = held \cup {}
    BY <1>1
  <2> QED
    BY <1>1, <2>1, <2>2, LessInv
<1>3. CASE k \notin DOMAIN heap[o].elements
  <2>1. UNCHANGED heap /\ ret' = 1
    BY <1>3 DEF Erase
  <2> QED
    BY <1>1, <2>1, SameHeapInv DEF OwnInv, Typed
<1> QED
  BY <1>2, <1>3

LEMMA UnlinkOwn ==
  ASSUME OwnInv, NEW o \in Objects, NEW k, Unlink(o, k)
  PROVE  OwnInv'
<1> DEFINE T == Containers(At(heap[o].elements, k))
<1>1. /\ intact /\ heap[o].kind \in {"struct", "array"} /\ o \in Live /\ UNCHANGED intact
  BY DEF Unlink, InUse, Live
<1>2. CASE /\ Becomes(o, Less(o, k), {}) /\ ret' = 0
           /\ held' = held \cup UNION {Given(d) : d \in At(heap[o].elements, k)}
  <2>1. UNION {Given(d) : d \in At(heap[o].elements, k)} = T
    BY DEF Given, Containers
  <2>2. held' = held \cup T
    BY <1>2, <2>1
  <2>3. T = Containers(At(heap[o].elements, k))
    OBVIOUS
  <2> HIDE DEF T
  <2> QED
    BY <1>1, <1>2, <2>2, <2>3, LessInv
<1>3. CASE ret' = 1 /\ UNCHANGED <<heap, held>>
  BY <1>1, <1>3, SameHeapInv DEF OwnInv, Typed
<1> QED
  BY <1>2, <1>3 DEF Unlink

\* What a queue becomes.
LEMMA QueueEditInv ==
  ASSUME OwnInv, intact, NEW q \in Live, heap[q].kind = "queue",
         NEW g \in Seq(Element), Once(g), Fits(g),
         NEW D \in SUBSET held, NEW T \in SUBSET Children(q), \A d \in D : q \notin Below(d),
         Containers(Range(g)) = (Children(q) \ T) \cup D,
         Becomes(q, Queue(g), {}), held' = (held \ D) \cup T,
         ret' \in {0, 1}, UNCHANGED intact
  PROVE  OwnInv'
<1> DEFINE r == Queue(g)
<1>1. r.kind = "queue" /\ r.elements = g /\ Becomes(q, r, {})
  BY DEF Queue
<1> HIDE DEF r
<1>2. Range(g) \subseteq Element
  BY DEF Range
<1>3. Shape(r)
  BY <1>1, <1>2 DEF Shape, Kinds
<1>4. /\ Containers({}) = {} /\ {} \cap T = {} /\ {} \subseteq Children(q)
      /\ Children(q) \ T = Children(q) \ ({} \cup T)
      /\ intact' \in BOOLEAN
  BY DEF Containers, OwnInv, Typed
<1>5. /\ Once(r.elements) /\ Fits(r.elements)
      /\ Containers(Range(r.elements)) = (Children(q) \ ({} \cup T)) \cup D
  BY <1>1, <1>4
<1> QED
  BY <1>1, <1>3, <1>4, <1>5, EditInv

\* A queue in use.
LEMMA QueueIs ==
  ASSUME OwnInv, NEW q \in Objects, InUse(q, "queue")
  PROVE  /\ Typed /\ Owned /\ intact /\ q \in Live /\ heap[q].kind = "queue"
         /\ heap[q].elements \in Seq(Element) /\ Once(heap[q].elements)
         /\ Fits(heap[q].elements) /\ Children(q) = Containers(Range(heap[q].elements))
         /\ intact \in BOOLEAN
<1>1. Typed /\ Owned /\ intact /\ q \in Live /\ heap[q].kind = "queue"
  BY DEF OwnInv, InUse, Live
<1> QED
  BY <1>1, ChildrenAre DEF Typed, Shape, Owned

LEMMA QueuePushOwn ==
  ASSUME OwnInv, NEW q \in Objects, NEW e \in Offered(q), QueuePush(q, e)
  PROVE  OwnInv'
<1> DEFINE f == heap[q].elements
<1>1. /\ InUse(q, "queue") /\ held' = held \ Given(e) /\ ret' = 0 /\ UNCHANGED intact
      /\ Becomes(q, IF e = Unknown THEN heap[q] ELSE Queue(Append(f, e)), {})
  BY DEF QueuePush
<1>2. /\ Typed /\ Owned /\ intact /\ q \in Live /\ heap[q].kind = "queue"
      /\ f \in Seq(Element) /\ Once(f) /\ Fits(f) /\ Children(q) = Containers(Range(f))
      /\ intact \in BOOLEAN
  BY <1>1, QueueIs
<1>3. /\ Given(e) \subseteq held /\ \A d \in Given(e) : q \notin Below(d)
      /\ e # Unknown => e \in Element
      /\ e = Unknown => Given(e) = {}
      /\ Fits(<<e>>)
      /\ Nested(e) => e.data \notin Children(q)
  BY <1>2, OfferedIs
<1> HIDE DEF f
<1>4. CASE e = Unknown
  <2>1. UNCHANGED <<heap, held>>
    BY <1>1, <1>2, <1>3, <1>4, NothingFreed
  <2> QED
    BY <1>1, <1>2, <2>1, SameHeapInv
<1>5. CASE e # Unknown
  <2> DEFINE g == Append(f, e)
             T == {}
  <2>1. /\ g \in Seq(Element) /\ Once(g) /\ Range(g) \subseteq Range(f) \cup {e}
        /\ Containers(Range(g)) = Containers(Range(f)) \cup Given(e)
    BY <1>2, <1>3, <1>5, AppendIs
  <2>2. Becomes(q, Queue(g), {})
    BY <1>1, <1>5
  <2> HIDE DEF g
  <2>3. e \in Range(<<e>>)
    BY DEF Range
  <2>4. Fits(g)
    BY <1>2, <1>3, <2>1, <2>3 DEF Fits
  <2>5. /\ Containers(Range(g)) = (Children(q) \ T) \cup Given(e)
        /\ held' = (held \ Given(e)) \cup T /\ ret' \in {0, 1} /\ T \subseteq Children(q)
    BY <1>1, <1>2, <2>1
  <2> HIDE DEF T
  <2> QED
    BY <1>1, <1>2, <1>3, <2>1, <2>2, <2>4, <2>5, QueueEditInv
<1> QED
  BY <1>4, <1>5

LEMMA PopOwn ==
  ASSUME OwnInv, NEW q \in Objects, InUse(q, "queue"), heap[q].elements # <<>>,
         Pop(q), UNCHANGED intact
  PROVE  OwnInv'
<1> DEFINE f == heap[q].elements
<1>1. /\ Becomes(q, Queue(Tail(f)), {}) /\ held' = held \cup Given(Head(f)) /\ ret' = 0
      /\ f # <<>>
  BY DEF Pop
<1>2. /\ Typed /\ Owned /\ intact /\ q \in Live /\ heap[q].kind = "queue"
      /\ f \in Seq(Element) /\ Once(f) /\ Fits(f) /\ Children(q) = Containers(Range(f))
  BY QueueIs
<1> HIDE DEF f
<1> DEFINE g == Tail(f)
           D == {}
           T == Given(Head(f))
<1>3. /\ g \in Seq(Element) /\ Once(g) /\ Range(g) \subseteq Range(f)
      /\ Containers(Range(g)) = Containers(Range(f)) \ T
      /\ T \subseteq Containers(Range(f))
  BY <1>1, <1>2, TailIs
<1>4. Becomes(q, Queue(g), {}) /\ held' = (held \ D) \cup T
  BY <1>1
<1> HIDE DEF g, T
<1>5. Fits(g)
  BY <1>2, <1>3 DEF Fits
<1>6. /\ Containers(Range(g)) = (Children(q) \ T) \cup D
      /\ ret' \in {0, 1} /\ D \subseteq held
      /\ T \subseteq Children(q) /\ \A d \in D : q \notin Below(d)
  BY <1>1, <1>2, <1>3
<1> HIDE DEF D
<1> QED
  BY <1>2, <1>3, <1>4, <1>5, <1>6, QueueEditInv

LEMMA RotateOwn ==
  ASSUME OwnInv, NEW q \in Objects, InUse(q, "queue"), heap[q].elements # <<>>,
         Becomes(q, Queue(Append(Tail(heap[q].elements), Head(heap[q].elements))), {}),
         ret' = 1, UNCHANGED <<held, intact>>
  PROVE  OwnInv'
<1> DEFINE f == heap[q].elements
           t == Tail(f)
           h == Head(f)
           g == Append(t, h)
           D == {}
<1>1. Becomes(q, Queue(g), {}) /\ f # <<>>
  OBVIOUS
<1>2. /\ Typed /\ Owned /\ intact /\ q \in Live /\ heap[q].kind = "queue"
      /\ f \in Seq(Element) /\ Once(f) /\ Fits(f) /\ Children(q) = Containers(Range(f))
  BY QueueIs
<1> HIDE DEF f
<1>3. /\ t \in Seq(Element) /\ Once(t) /\ Range(t) \subseteq Range(f)
      /\ h \in Element /\ h \in Range(f)
      /\ Containers(Range(t)) = Containers(Range(f)) \ Given(h)
      /\ Given(h) \subseteq Containers(Range(f))
  BY <1>1, <1>2, TailIs
<1> HIDE DEF t, h
<1>4. Nested(h) => h.data \notin Containers(Range(t))
  BY <1>3 DEF Given
<1>5. /\ g \in Seq(Element) /\ Once(g) /\ Range(g) \subseteq Range(t) \cup {h}
      /\ Containers(Range(g)) = Containers(Range(t)) \cup Given(h)
  BY <1>3, <1>4, AppendIs
<1> HIDE DEF g
<1>6. Fits(g)
  BY <1>2, <1>3, <1>5 DEF Fits
<1>7. /\ Containers(Range(g)) = (Children(q) \ D) \cup D
      /\ held' = (held \ D) \cup D /\ ret' \in {0, 1} /\ D \subseteq held
      /\ D \subseteq Children(q) /\ \A d \in D : q \notin Below(d)
  BY <1>2, <1>3, <1>5
<1> HIDE DEF D
<1> QED
  BY <1>1, <1>2, <1>5, <1>6, <1>7, QueueEditInv

LEMMA QueuePopOwn ==
  ASSUME OwnInv, NEW q \in Objects, NEW type, QueuePop(q, type) \/ QueuePopWithType(q)
  PROVE  OwnInv'
<1>1. InUse(q, "queue") /\ UNCHANGED intact
  BY DEF QueuePop, QueuePopWithType
<1>2. CASE ret' = 1 /\ UNCHANGED <<heap, held>>
  BY <1>1, <1>2, SameHeapInv DEF OwnInv, Typed
<1>3. CASE heap[q].elements # <<>> /\ Pop(q)
  BY <1>1, <1>3, PopOwn
<1>4. CASE /\ heap[q].elements # <<>> /\ ret' = 1 /\ UNCHANGED held
           /\ Becomes(q, Queue(Append(Tail(heap[q].elements), Head(heap[q].elements))), {})
  BY <1>1, <1>4, RotateOwn
<1> QED
  BY <1>2, <1>3, <1>4 DEF QueuePop, QueuePopWithType

LEMMA NewOwn ==
  ASSUME OwnInv, NEW o \in Objects, New(o)
  PROVE  OwnInv'
<1>1. /\ Typed /\ Owned /\ intact /\ o \notin Live /\ held' = held \cup {o} /\ ret' = 0
      /\ UNCHANGED intact
  BY DEF New, OwnInv
<1>2. PICK r \in {Struct(<<>>, 0), Queue(<<>>)}
                 \cup {Array(<<>>, 0, c, FALSE) : c \in 1 .. MaxIndex + 1} :
        Becomes(o, r, {})
  BY DEF New
<1>3. r.kind \in Kinds /\ r.elements = <<>> /\ r.kind # "free"
  <2>1. CASE r = Struct(<<>>, 0)
    BY <2>1 DEF Struct, Kinds
  <2>2. CASE r = Queue(<<>>)
    BY <2>2 DEF Queue, Kinds
  <2>3. CASE \E c : r = Array(<<>>, 0, c, FALSE)
    BY <2>3 DEF Array, Kinds
  <2> QED
    BY <2>1, <2>2, <2>3
<1>4. Shape(r)
  <2>1. Range(<<>>) = {} /\ <<>> \in Seq(Element)
    BY DEF Range
  <2> QED
    BY <1>3, <2>1 DEF Shape, Kinds
<1>5. /\ \A p \in Objects : heap'[p] = IF p = o THEN r ELSE heap[p]
  BY <1>2, FreeIs DEF Becomes
<1>6. Typed'
  BY <1>1, <1>2, <1>4, EditTyped DEF Typed
<1>7. /\ \A p \in Objects : Children(p)' = Children(p)
      /\ Children(o) = {} /\ Live' = Live \cup {o}
      /\ \A p \in Live : heap'[p] = heap[p]
  <2>1. Children(o) = {}
    BY <1>1, ChildrenLive DEF Live
  <2>2. Children(o)' = {}
    BY <1>3, <1>5 DEF Children
  <2>3. ASSUME NEW p \in Objects, p # o PROVE Children(p)' = Children(p)
    BY <1>5, <2>3 DEF Children
  <2> QED
    BY <1>1, <1>3, <1>5, <2>1, <2>2, <2>3 DEF Live
<1>8. \A q \in Objects : \A x \in Children(q) : x \in Live
  BY <1>1, ChildrenLive
<1>9. ASSUME NEW p \in Objects
      PROVE  Once(heap[p].elements)' /\ Fits(heap[p].elements)'
  <2>1. CASE p = o
    BY <1>3, <1>5, <2>1 DEF Once, Fits, Range
  <2>2. CASE p # o
    <3>1. heap'[p] = heap[p]
      BY <1>5, <2>2
    <3>2. ASSUME NEW e \in Range(heap[p].elements), Nested(e)
          PROVE  heap'[e.data] = heap[e.data]
      <4>1. e.data \in Children(p)
        BY <3>2 DEF Children, Range
      <4> QED
        BY <1>7, <1>8, <4>1
    <3> QED
      BY <1>1, <3>1, <3>2 DEF Owned, Once, Fits
  <2> QED
    BY <2>1, <2>2
<1>10. NoCycle'
  BY <1>1, <1>7 DEF Owned, NoCycle
<1>11. Owned'
  BY <1>1, <1>7, <1>8, <1>9, <1>10 DEF Owned
<1> QED
  BY <1>6, <1>11 DEF OwnInv

\* What is below a container the application holds is nowhere else.
LEMMA FreeAllOwn ==
  ASSUME OwnInv, NEW o \in Objects, FreeAll(o)
  PROVE  OwnInv'
<1> DEFINE Gone == Below(o)
<1>1. /\ Typed /\ Owned /\ intact /\ o \in held /\ held' = held \ {o} /\ ret' = 0
      /\ UNCHANGED intact
      /\ heap' = [p \in Objects |-> IF p \in Gone THEN Free ELSE heap[p]]
  BY DEF FreeAll, OwnInv
<1>2. o \in Gone /\ Gone \subseteq Objects /\ \A q \in Gone : Children(q) \subseteq Gone
  BY <1>1, BelowIs
<1>3. \A y \in Gone : y = o \/ \E q \in Gone : y \in Children(q)
  BY <1>1, BelowParent
<1> HIDE DEF Gone
<1>4. /\ \A q, s \in Objects : \A x \in Children(q) : x \in Children(s) => q = s
      /\ \A q \in Objects : \A x \in Children(q) : x \notin held
      /\ held \subseteq Live
      /\ \A x \in Live : x \in held \/ \E q \in Objects : x \in Children(q)
  BY <1>1 DEF Owned
<1>5. \A q \in Objects : \A y \in Children(q) : y \in Gone => q \in Gone
  BY <1>1, <1>2, <1>3, <1>4
<1>6. \A y \in Gone : y \in held => y = o
  BY <1>2, <1>3, <1>4
<1>7. /\ \A p \in Gone : Children(p)' = {}
      /\ \A p \in Objects : p \notin Gone => Children(p)' = Children(p) /\ heap'[p] = heap[p]
      /\ Live' = Live \ Gone
  <2>1. ASSUME NEW p \in Gone PROVE Children(p)' = {} /\ heap'[p].kind = "free"
    BY <1>1, <1>2, FreeIs DEF Children
  <2>2. ASSUME NEW p \in Objects, p \notin Gone
        PROVE  Children(p)' = Children(p) /\ heap'[p] = heap[p]
    BY <1>1, <2>2 DEF Children
  <2> QED
    BY <2>1, <2>2 DEF Live
<1>8. ASSUME NEW p \in Objects
      PROVE  /\ Once(heap[p].elements)' /\ Fits(heap[p].elements)' /\ Shape(heap'[p])
  <2>1. CASE p \in Gone
    <3>1. heap'[p] = Free
      BY <1>1, <2>1
    <3> QED
      BY <3>1, FreeIs DEF Once, Fits, Range
  <2>2. CASE p \notin Gone
    <3>1. heap'[p] = heap[p]
      BY <1>7, <2>2
    <3>2. ASSUME NEW e \in Range(heap[p].elements), Nested(e)
          PROVE  heap'[e.data] = heap[e.data]
      <4>1. e.data \in Children(p) /\ e.data \in Objects
        BY <1>1, <3>2, ChildrenLive DEF Children, Range
      <4> QED
        BY <1>5, <1>7, <2>2, <4>1
    <3> QED
      BY <1>1, <3>1, <3>2 DEF Owned, Once, Fits, Typed
  <2> QED
    BY <2>1, <2>2
<1>9. Typed'
  BY <1>1, <1>8 DEF Typed, Shape
<1>10. \A q \in Objects : \A x : x \in Children(q)' =>
         x \in Children(q) /\ q \notin Gone /\ x \in Live /\ x \notin Gone
  BY <1>1, <1>5, <1>7, ChildrenLive
<1>11. NoCycle'
  BY <1>1, <1>10 DEF Owned, NoCycle
<1>12. ASSUME NEW x \in Live'
       PROVE  x \in held' \/ \E q \in Objects : x \in Children(q)'
  BY <1>1, <1>2, <1>4, <1>7
<1>13. held' \subseteq Live'
  BY <1>1, <1>4, <1>6, <1>7
<1>14. Owned'
  BY <1>1, <1>4, <1>8, <1>10, <1>11, <1>12, <1>13 DEF Owned
<1> QED
  BY <1>9, <1>14 DEF OwnInv

\* A copy of a container that is not free: what is in it points to the copies.
CopiedElement(e, m) == IF Nested(e) THEN [e EXCEPT !.data = m[@]] ELSE e

LEMMA CopiedIs ==
  ASSUME NEW x, heap[x].kind \in Kinds, NEW m, NEW unpacked
  PROVE  /\ Copied(x, m, unpacked).kind = heap[x].kind
         /\ Copied(x, m, unpacked).elements
              = [k \in DOMAIN heap[x].elements |-> CopiedElement(heap[x].elements[k], m)]
<1> DEFINE c == heap[x]
           elements == [k \in DOMAIN c.elements |->
                          IF Nested(c.elements[k])
                          THEN [c.elements[k] EXCEPT !.data = m[@]]
                          ELSE c.elements[k]]
           n == Cardinality(DOMAIN elements)
           size == IF unpacked THEN Max({1, n}) ELSE c.capacity
<1>1. elements = [k \in DOMAIN c.elements |-> CopiedElement(c.elements[k], m)]
  BY DEF CopiedElement
<1>2. CASE c.kind = "struct"
  <2>1. Copied(x, m, unpacked) = Struct(elements, n)
    BY <1>2 DEF Copied
  <2> HIDE DEF elements, n
  <2> QED
    BY <1>1, <1>2, <2>1 DEF Struct
<1>3. CASE c.kind = "array"
  <2>1. Copied(x, m, unpacked) = Array(elements, n, size, FALSE)
    BY <1>3 DEF Copied
  <2> HIDE DEF elements, n, size
  <2> QED
    BY <1>1, <1>3, <2>1 DEF Array
<1>4. CASE c.kind = "queue"
  <2>1. Copied(x, m, unpacked) = Queue(elements)
    BY <1>4 DEF Copied
  <2> HIDE DEF elements
  <2> QED
    BY <1>1, <1>4, <2>1 DEF Queue
<1> QED
  BY <1>2, <1>3, <1>4 DEF Kinds

LEMMA CopiedElementIs ==
  ASSUME NEW m, NEW e \in Element, Nested(e) => m[e.data] \in Objects
  PROVE  /\ CopiedElement(e, m) \in Element
         /\ Nested(CopiedElement(e, m)) <=> Nested(e)
         /\ Nested(e) => CopiedElement(e, m).type = e.type
                         /\ CopiedElement(e, m).data = m[e.data]
<1>1. CASE Nested(e)
  <2>1. e \in [type : Kinds, data : Objects]
    BY <1>1 DEF Element, Nested, Kinds
  <2>2. /\ CopiedElement(e, m) = [type |-> e.type, data |-> m[e.data]]
    BY <1>1, <2>1 DEF CopiedElement
  <2> QED
    BY <1>1, <2>1, <2>2 DEF Element, Nested
<1>2. CASE ~Nested(e)
  BY <1>2 DEF CopiedElement
<1> QED
  BY <1>1, <1>2

\* The copies are as the originals, among themselves.
LEMMA DuplicateOwn ==
  ASSUME OwnInv, NEW o \in Objects, NEW unpacked, Duplicate(o, unpacked), intact' \in BOOLEAN
  PROVE  OwnInv'
<1> DEFINE B == Below(o)
<1>1. /\ Typed /\ Owned /\ intact /\ o \in Live /\ ret' = 0
  BY DEF Duplicate, OwnInv
<1>2. o \in B /\ B \subseteq Objects /\ \A q \in B : Children(q) \subseteq B
  BY <1>1, BelowIs
<1>3. \A y \in B : y = o \/ \E q \in B : y \in Children(q)
  BY <1>1, BelowParent
<1>4. PICK m \in Injection(B, Objects \ Live) :
        /\ heap' = [p \in Objects |->
                     IF \E x \in Objects \cap B : m[x] = p
                     THEN Copied(CHOOSE x \in Objects \cap B : m[x] = p, m, unpacked)
                     ELSE heap[p]]
        /\ held' = held \cup {m[o]}
  BY DEF Duplicate
<1> HIDE DEF B
<1> DEFINE N == {m[x] : x \in B}
<1>5. /\ \A x \in B : m[x] \in Objects /\ m[x] \notin Live
      /\ \A x, y \in B : m[x] = m[y] => x = y
  BY DEF Injection, IsInjective
<1>6. B \subseteq Live
  BY <1>1, <1>2, <1>3, ChildrenLive
<1>7. \A x \in B : heap[x].kind \in Kinds
  BY <1>1, <1>6 DEF Live, Typed, Shape
<1>8. ASSUME NEW x \in B
      PROVE  /\ heap'[m[x]].kind = heap[x].kind
             /\ heap'[m[x]].elements = [k \in DOMAIN heap[x].elements |->
                                          CopiedElement(heap[x].elements[k], m)]
  <2>1. x \in Objects \cap B /\ m[x] \in Objects
    BY <1>2, <1>5
  <2>2. (CHOOSE y \in Objects \cap B : m[y] = m[x]) = x
    BY <1>5, <2>1
  <2>3. heap'[m[x]] = Copied(x, m, unpacked)
    BY <1>4, <2>1, <2>2
  <2> QED
    BY <1>7, <2>3, CopiedIs
<1>9. \A p \in Objects : p \notin N => heap'[p] = heap[p]
  BY <1>4
<1>10. ASSUME NEW x \in B, NEW k \in DOMAIN heap[x].elements
       PROVE  LET e == heap[x].elements[k]
                  c == heap'[m[x]].elements[k] IN
              /\ e \in Element /\ c \in Element /\ (Nested(c) <=> Nested(e))
              /\ Nested(e) => /\ c.type = e.type /\ c.data = m[e.data]
                              /\ e.data \in Children(x) /\ e.data \in B
                              /\ c.type = heap[e.data].kind
  <2> DEFINE e == heap[x].elements[k]
  <2>1. e \in Range(heap[x].elements) /\ x \in Objects
    BY <1>2 DEF Range
  <2>2. e \in Element /\ (Nested(e) => e.type = heap[e.data].kind)
    BY <1>1, <2>1 DEF Typed, Shape, Owned, Fits
  <2>3. Nested(e) => e.data \in Children(x)
    BY DEF Children
  <2>4. heap'[m[x]].elements[k] = CopiedElement(e, m)
    BY <1>8
  <2> HIDE DEF e
  <2>5. Nested(e) => e.data \in B /\ m[e.data] \in Objects
    BY <1>2, <1>5, <2>3
  <2> QED
    BY <2>2, <2>3, <2>4, <2>5, CopiedElementIs DEF e
<1>11. /\ \A x \in B : Children(m[x])' = {m[z] : z \in Children(x)}
       /\ \A p \in Objects : p \notin N => Children(p)' = Children(p)
  <2>1. ASSUME NEW x \in B PROVE Children(m[x])' = {m[z] : z \in Children(x)}
    <3>1. DOMAIN heap'[m[x]].elements = DOMAIN heap[x].elements
      BY <1>8
    <3> QED
      BY <1>10, <3>1 DEF Children
  <2> QED
    BY <1>9, <2>1 DEF Children
<1>12. N \subseteq Objects /\ N \cap Live = {} /\ m[o] \in N
  BY <1>2, <1>5
<1>13. Live' = Live \cup N
  <2>1. ASSUME NEW x \in B PROVE heap'[m[x]].kind # "free"
    BY <1>7, <1>8 DEF Kinds
  <2> QED
    BY <1>9, <1>12, <2>1 DEF Live
<1>14. \A q \in Objects : Children(q) \subseteq Live /\ (q \in N => Children(q) = {})
  BY <1>1, <1>12, ChildrenLive DEF Live
<1>15. /\ \A q, s \in Objects : \A x \in Children(q) : x \in Children(s) => q = s
       /\ \A q \in Objects : \A x \in Children(q) : x \notin held
       /\ held \subseteq Live
       /\ \A x \in Live : x \in held \/ \E q \in Objects : x \in Children(q)
  BY <1>1 DEF Owned
<1>16. ASSUME NEW p \in Objects
       PROVE  /\ Shape(heap'[p])
              /\ Once(heap[p].elements)' /\ Fits(heap[p].elements)'
  <2>1. CASE p \notin N
    <3>1. heap'[p] = heap[p]
      BY <1>9, <2>1
    <3>2. ASSUME NEW e \in Range(heap[p].elements), Nested(e)
          PROVE  heap'[e.data] = heap[e.data]
      <4>1. e.data \in Children(p)
        BY <3>2 DEF Children, Range
      <4> QED
        BY <1>9, <1>12, <1>14, <4>1 DEF Live
    <3> QED
      BY <1>1, <3>1, <3>2 DEF Owned, Once, Fits, Typed
  <2>2. CASE p \in N
    <3>1. PICK x \in B : p = m[x]
      BY <2>2
    <3> DEFINE f == heap[x].elements
               g == heap'[p].elements
    <3>2. DOMAIN g = DOMAIN f /\ heap'[p].kind = heap[x].kind
          /\ g = [k \in DOMAIN f |-> CopiedElement(f[k], m)]
      BY <1>8, <3>1
    <3>3. \A k \in DOMAIN f :
            /\ g[k] \in Element /\ (Nested(g[k]) <=> Nested(f[k]))
            /\ Nested(f[k]) => /\ g[k].data = m[f[k].data] /\ f[k].data \in B
                               /\ g[k].type = heap[f[k].data].kind
      BY <1>10, <3>1
    <3>4. Once(f) /\ x \in Objects /\ Shape(heap[x])
      BY <1>1, <1>2 DEF Owned, Typed
    <3> HIDE DEF f
    <3>5. Once(g)
      BY <1>5, <3>2, <3>3, <3>4 DEF Once
    <3>6. ASSUME NEW e \in Range(g), Nested(e)
          PROVE  e.type = heap'[e.data].kind
      <4>1. PICK k \in DOMAIN f : e = g[k]
        BY <3>2, <3>6 DEF Range
      <4> DEFINE z == f[k].data
      <4>2. e.data = m[z] /\ z \in B /\ e.type = heap[z].kind
        BY <3>3, <3>6, <4>1
      <4> HIDE DEF g, z
      <4>3. heap'[m[z]].kind = heap[z].kind
        BY <1>8, <4>2
      <4> QED
        BY <4>2, <4>3, Zenon
    <3>7. Range(g) \subseteq Element
      BY <3>2, <3>3 DEF Range
    <3>8. heap'[p].kind = "queue" => g \in Seq(Element)
      <4>1. SUFFICES ASSUME heap[x].kind = "queue" PROVE g \in Seq(Element)
        BY <3>2
      <4>2. f \in Seq(Element)
        BY <3>4, <4>1 DEF Shape, f
      <4>3. Len(f) \in Nat /\ DOMAIN f = 1 .. Len(f)
        BY <4>2
      <4> QED
        BY <3>2, <3>3, <4>3
    <3>9. Shape(heap'[p])
      BY <1>7, <3>1, <3>2, <3>7, <3>8 DEF Shape, Kinds
    <3> QED
      BY <3>5, <3>6, <3>9 DEF Once, Fits
  <2> QED
    BY <2>1, <2>2
<1> HIDE DEF N
<1>17. ASSUME NEW q \in Objects, NEW y, y \in Children(q)'
       PROVE  \/ q \notin N /\ y \in Children(q) /\ y \notin N
              \/ \E x \in B : \E z \in Children(x) :
                   q = m[x] /\ y = m[z] /\ z \in B /\ z # o /\ y \in N
  <2>1. CASE q \notin N
    BY <1>11, <1>12, <1>14, <1>17, <2>1
  <2>2. CASE q \in N
    <3>1. PICK x \in B : q = m[x]
      BY <2>2 DEF N
    <3>2. PICK z \in Children(x) : y = m[z]
      BY <1>11, <1>17, <3>1
    <3>3. z \in B /\ x \in Objects
      BY <1>2, <3>2
    <3>4. z # o
      <4>1. PICK y0 \in B : \A s \in B : y0 \notin Children(s)
        BY <1>1, <1>2 DEF Owned, NoCycle
      <4>2. y0 = o
        BY <1>3, <4>1
      <4> QED
        BY <3>2, <4>1, <4>2
    <3> QED
      BY <3>1, <3>2, <3>3, <3>4 DEF N
  <2> QED
    BY <2>1, <2>2
<1>18. ASSUME NEW q \in Objects, NEW s \in Objects, NEW y,
              y \in Children(q)', y \in Children(s)'
       PROVE  q = s
  <2>1. CASE y \notin N
    BY <1>15, <1>17, <1>18, <2>1
  <2>2. CASE y \in N
    <3>1. PICK x1 \in B, z1 \in B :
            z1 \in Children(x1) /\ q = m[x1] /\ y = m[z1]
      BY <1>17, <1>18, <2>2
    <3>2. PICK x2 \in B, z2 \in B :
            z2 \in Children(x2) /\ s = m[x2] /\ y = m[z2]
      BY <1>17, <1>18, <2>2
    <3>3. z1 = z2
      BY <1>5, <3>1, <3>2
    <3>4. x1 = x2
      BY <1>2, <1>15, <3>1, <3>2, <3>3
    <3> QED
      BY <3>1, <3>2, <3>4
  <2> QED
    BY <2>1, <2>2
<1>19. ASSUME NEW q \in Objects, NEW y, y \in Children(q)'
       PROVE  y \notin held'
  <2>1. CASE y \notin N
    BY <1>4, <1>12, <1>15, <1>17, <1>19, <2>1
  <2>2. CASE y \in N
    <3>1. PICK z \in B : y = m[z] /\ z # o
      BY <1>17, <1>19, <2>2
    <3>2. y # m[o]
      BY <1>2, <1>5, <3>1
    <3> QED
      BY <1>4, <1>12, <1>15, <2>2, <3>2
  <2> QED
    BY <2>1, <2>2
<1>20. held' \subseteq Live'
  BY <1>4, <1>12, <1>13, <1>15
<1>21. ASSUME NEW y \in Live'
       PROVE  y \in held' \/ \E q \in Objects : y \in Children(q)'
  <2>1. CASE y \in Live
    BY <1>4, <1>11, <1>14, <1>15, <2>1
  <2>2. CASE y \in N
    <3>1. PICK x \in B : y = m[x]
      BY <2>2 DEF N
    <3>2. CASE x = o
      BY <1>4, <3>1, <3>2
    <3>3. CASE x # o
      <4>1. PICK q \in B : x \in Children(q)
        BY <1>3, <3>3
      <4>2. m[q] \in Objects /\ Children(m[q])' = {m[z] : z \in Children(q)}
        BY <1>5, <1>11
      <4>3. y \in Children(m[q])'
        BY <3>1, <4>1, <4>2
      <4> QED
        BY <4>2, <4>3
    <3> QED
      BY <3>2, <3>3
  <2> QED
    BY <1>13, <2>1, <2>2
<1>22. ASSUME NEW S \in SUBSET Objects, S # {}
       PROVE  \E y \in S : \A q \in S : y \notin Children(q)'
  <2>1. CASE S \subseteq N
    <3> DEFINE R == {x \in B : m[x] \in S}
    <3>1. R \in SUBSET Objects /\ R # {}
      BY <1>2, <1>22, <2>1 DEF N
    <3>2. PICK x \in R : \A s \in R : x \notin Children(s)
      BY <1>1, <3>1 DEF Owned, NoCycle
    <3>3. ASSUME NEW q \in S PROVE m[x] \notin Children(q)'
      <4>1. SUFFICES ASSUME m[x] \in Children(q)' PROVE FALSE
        OBVIOUS
      <4>2. m[x] \in N /\ q \in Objects
        BY <2>1, <3>2
      <4>3. PICK s \in B, z \in B :
            z \in Children(s) /\ q = m[s] /\ m[x] = m[z]
        BY <1>17, <4>1, <4>2
      <4>4. z = x /\ s \in R
        BY <1>5, <4>3
      <4> QED
        BY <3>2, <4>3, <4>4
    <3> QED
      BY <3>2, <3>3
  <2>2. CASE ~(S \subseteq N)
    <3>1. S \ N \in SUBSET Objects /\ S \ N # {}
      BY <2>2
    <3>2. PICK y \in S \ N : \A q \in S \ N : y \notin Children(q)
      BY <1>1, <3>1 DEF Owned, NoCycle
    <3>3. ASSUME NEW q \in S PROVE y \notin Children(q)'
      BY <1>17, <3>2
    <3> QED
      BY <3>2, <3>3
  <2> QED
    BY <2>1, <2>2
<1>23. NoCycle'
  BY <1>22 DEF NoCycle
<1>24. Owned'
  BY <1>16, <1>18, <1>19, <1>20, <1>21, <1>23 DEF Owned
<1>25. Typed'
  <2>1. heap' = [p \in Objects |-> heap'[p]]
    BY <1>4
  <2>2. held' \subseteq Objects
    BY <1>1, <1>2, <1>4, <1>5 DEF Typed
  <2> QED
    BY <1>1, <1>16, <2>1, <2>2 DEF Typed, Shape
<1> QED
  BY <1>24, <1>25 DEF OwnInv

LEMMA NextOwn == OwnInv /\ [Next]_vars => OwnInv'
<1> SUFFICES ASSUME OwnInv, [Next]_vars PROVE OwnInv'
  OBVIOUS
<1>1. CASE UNCHANGED vars
  BY <1>1, SameHeapInv DEF vars, OwnInv, Typed
<1>2. ASSUME NEW o \in Objects, New(o) PROVE OwnInv'
  BY <1>2, NewOwn
<1>3. ASSUME NEW o \in Objects, Use(o) PROVE OwnInv'
  <2>1. CASE \E k \in Keys, e \in Offered(o) : StructSet(o, k, e)
    BY <2>1, StructSetOwn
  <2>2. CASE \E i \in Indices, e \in Offered(o) : ArraySet(o, i, e)
    BY <2>2, ArraySetOwn
  <2>3. CASE \E k : Erase(o, k) \/ Unlink(o, k)
    BY <2>3, EraseOwn, UnlinkOwn
  <2>4. CASE \E e \in Offered(o) : QueuePush(o, e)
    BY <2>4, QueuePushOwn
  <2>5. CASE \E type : QueuePop(o, type) \/ QueuePopWithType(o)
    BY <2>5, QueuePopOwn
  <2>6. CASE Copy(o) \/ Send(o)
    <3>1. intact' \in BOOLEAN
      BY <2>6 DEF Copy, Send, OwnInv, Typed
    <3> QED
      BY <2>6, <3>1, DuplicateOwn DEF Copy, Send
  <2>7. CASE FreeAll(o)
    BY <2>7, FreeAllOwn
  <2> QED
    BY <1>3, <2>1, <2>2, <2>3, <2>4, <2>5, <2>6, <2>7 DEF Use
<1> QED
  BY <1>1, <1>2, <1>3 DEF Next

LEMMA InitOwn == Init => OwnInv
<1> SUFFICES ASSUME Init PROVE OwnInv
  OBVIOUS
<1>1. heap = [o \in Objects |-> Free] /\ held = {} /\ ret = 0 /\ intact = TRUE
  BY DEF Init
<1>2. \A o \in Objects : Children(o) = {}
  BY <1>1, FreeIs DEF Children
<1>3. Typed
  BY <1>1, FreeIs DEF Typed
<1>4. \A o \in Objects : Once(heap[o].elements) /\ Fits(heap[o].elements)
  BY <1>1, FreeIs DEF Once, Fits, Range
<1>5. Live = {}
  BY <1>1, FreeIs DEF Live
<1>6. NoCycle
  BY <1>2 DEF NoCycle
<1> QED
  BY <1>1, <1>2, <1>3, <1>4, <1>5, <1>6 DEF OwnInv, Owned

\* However containers are set into each other, unlinked, popped, copied, sent and
\* freed, every one is the application's or in one place of one other.
THEOREM EachOwnedOnce == Spec => []OwnedOnce
<1>1. Spec => []OwnInv
  BY InitOwn, NextOwn, PTL DEF Spec
<1> QED
  BY <1>1, InvOwnedOnce, PTL

-----------------------------------------------------------------------------
(* What a failed call leaves *)

\* Moving the first element of a queue to its end changes no more than the order.
LEMMA RotateBag ==
  ASSUME NEW S, NEW f \in Seq(S), f # <<>>
  PROVE  ToBag(Append(Tail(f), Head(f))) = ToBag(f)
<1> DEFINE n == Len(f)
           g == Append(Tail(f), Head(f))
           from == [i \in 1 .. n |-> IF i = n THEN 1 ELSE i + 1]
           AtF(x) == {i \in DOMAIN f : f[i] = x}
           AtG(x) == {i \in DOMAIN g : g[i] = x}
<1>1. n \in Nat /\ n > 0 /\ DOMAIN f = 1 .. n
  OBVIOUS
<1>2. /\ Tail(f) \in Seq(S) /\ Len(Tail(f)) = n - 1 /\ Head(f) = f[1] /\ Head(f) \in S
      /\ \A i \in 1 .. n - 1 : Tail(f)[i] = f[i + 1]
  OBVIOUS
<1>3. DOMAIN g = 1 .. n /\ \A i \in 1 .. n : g[i] = f[from[i]]
  <2> DEFINE t == Tail(f)
  <2>1. /\ t \in Seq(S) /\ Len(t) = n - 1 /\ Head(f) = f[1] /\ Head(f) \in S
        /\ \A i \in 1 .. n - 1 : t[i] = f[i + 1]
    BY <1>2
  <2> HIDE DEF t, n
  <2>2. /\ DOMAIN Append(t, Head(f)) = 1 .. n
        /\ \A i \in 1 .. n - 1 : Append(t, Head(f))[i] = f[i + 1]
        /\ Append(t, Head(f))[n] = f[1]
    BY <1>1, <2>1
  <2>3. \A i \in 1 .. n : i = n \/ i \in 1 .. n - 1
    BY <1>1
  <2> QED
    BY <2>2, <2>3 DEF t
<1> HIDE DEF g, n
<1>4. /\ \A i \in 1 .. n : from[i] \in 1 .. n
      /\ \A i, j \in 1 .. n : from[i] = from[j] => i = j
      /\ \A j \in 1 .. n : \E i \in 1 .. n : from[i] = j
  <2>1. \A j \in 1 .. n : j = 1 \/ j - 1 \in 1 .. n - 1
    BY <1>1
  <2> QED
    BY <1>1, <2>1
<1> HIDE DEF from
<1>5. Range(g) = Range(f)
  <2>1. Range(g) = {f[from[i]] : i \in 1 .. n}
    BY <1>3, Zenon DEF Range
  <2>2. Range(f) = {f[i] : i \in 1 .. n}
    BY <1>1, Zenon DEF Range
  <2>3. ASSUME NEW i \in 1 .. n PROVE f[from[i]] \in {f[j] : j \in 1 .. n}
    BY <1>4
  <2>4. ASSUME NEW j \in 1 .. n PROVE f[j] \in {f[from[i]] : i \in 1 .. n}
    <3>1. PICK i \in 1 .. n : from[i] = j
      BY <1>4
    <3> QED
      BY <3>1
  <2> QED
    BY <2>1, <2>2, <2>3, <2>4, Zenon
<1>6. ASSUME NEW x PROVE Cardinality(AtG(x)) = Cardinality(AtF(x))
  <2> DEFINE h == [i \in AtG(x) |-> from[i]]
  <2>1. IsFiniteSet(1 .. n)
    BY <1>1, FS_Interval
  <2>2. IsFiniteSet(AtG(x))
    BY <1>3, <2>1, FS_Subset
  <2>3. h \in Bijection(AtG(x), AtF(x))
    <3>1. h \in [AtG(x) -> AtF(x)]
      BY <1>1, <1>3, <1>4
    <3>2. \A i, j \in AtG(x) : h[i] = h[j] => i = j
      BY <1>3, <1>4
    <3>3. ASSUME NEW j \in AtF(x) PROVE \E i \in AtG(x) : h[i] = j
      <4>1. j \in 1 .. n /\ f[j] = x
        BY <1>1
      <4>2. PICK i \in 1 .. n : from[i] = j
        BY <1>4, <4>1
      <4>3. i \in AtG(x)
        BY <1>3, <4>1, <4>2
      <4>4. h[i] = j
        BY <4>2, <4>3
      <4> QED
        BY <4>3, <4>4
    <3> QED
      BY <3>1, <3>2, <3>3 DEF Bijection, Injection, Surjection, IsInjective
  <2> HIDE DEF h, AtF, AtG
  <2>4. ExistsBijection(AtG(x), AtF(x))
    BY <2>3 DEF ExistsBijection
  <2> QED
    BY <2>2, <2>4, FS_Bijection
<1>7. ToBag(g) = ToBag(f)
  BY <1>5, <1>6 DEF ToBag
<1> QED
  BY <1>7 DEF g

\* Nothing but a queue in which an element is moved changes when a call fails.
KeepsContent ==
  ret' = 1 =>
    /\ held' = held
    /\ \A o \in Objects :
         /\ heap'[o].kind = heap[o].kind
         /\ IF heap[o].kind = "queue"
            THEN ToBag(heap[o].elements) = ToBag(heap'[o].elements)
            ELSE heap[o] = heap'[o]

LEMMA FailureStep == OwnInv /\ [Next]_vars => [KeepsContent]_vars
<1> SUFFICES ASSUME OwnInv, Next, ret' = 1 PROVE KeepsContent
  BY DEF KeepsContent
<1>1. CASE UNCHANGED <<heap, held>>
  BY <1>1 DEF KeepsContent
<1>2. ASSUME NEW q \in Objects, NEW type, QueuePop(q, type), ~UNCHANGED <<heap, held>>
      PROVE  KeepsContent
  <2> DEFINE f == heap[q].elements
             r == Queue(Append(Tail(f), Head(f)))
  <2>1. /\ InUse(q, "queue") /\ f # <<>> /\ held' = held
        /\ Becomes(q, r, {})
    BY <1>2 DEF QueuePop, Pop
  <2>2. f \in Seq(Element) /\ heap[q].kind = "queue"
    BY <1>2, <2>1, QueueIs
  <2>3. r.kind = "queue" /\ ToBag(r.elements) = ToBag(f)
    BY <2>1, <2>2, RotateBag DEF Queue
  <2> HIDE DEF f, r
  <2>4. heap' = [p \in Objects |-> IF p = q THEN r ELSE heap[p]]
    BY <2>1, FreeIs DEF Becomes
  <2> QED
    BY <2>1, <2>2, <2>3, <2>4 DEF KeepsContent, f
<1>3. ASSUME NEW o \in Objects, ~UNCHANGED <<heap, held>>
      PROVE  New(o) \/ Use(o) => \E type : QueuePop(o, type)
  BY <1>3 DEF New, Use, StructSet, ArraySet, Erase, Unlink, QueuePush, QueuePopWithType, Pop,
     Copy, Send, Duplicate, FreeAll
<1> QED
  BY <1>1, <1>2, <1>3 DEF Next

\* A call that fails changes no container but a queue, and that only in its order.
THEOREM FailureChangesNothing == Spec => FailureKeepsContent
<1>1. Spec => []OwnInv
  BY InitOwn, NextOwn, PTL DEF Spec
<1>2. FailureKeepsContent <=> [][KeepsContent]_vars
  BY DEF FailureKeepsContent, KeepsContent
<1> QED
  BY <1>1, <1>2, FailureStep, PTL DEF Spec

=============================================================================
