------------------------------ MODULE Containers ------------------------------
(***************************************************************************)
(* The containers an application builds its arguments of: d_struct,        *)
(* d_array and d_queue.  A container owns what is set into it: it keeps    *)
(* the pointer of another container it is given, and frees it with the     *)
(* element, on overwriting, removing or when it is freed itself.  Unlink   *)
(* and pop give a container back to the application.                       *)
(*                                                                         *)
(* One thread uses these containers.  The addresses of freed objects are   *)
(* given out again.  Numbers (int8 to double) are packed into the element, *)
(* strings and sized buffers are copied; one type stands for each group.   *)
(* The table of a d_struct is the map that module HashTable implements.    *)
(***************************************************************************)
EXTENDS Naturals, FiniteSets, SequencesExt

CONSTANTS
  Objects,       \* addresses of containers
  Keys,          \* the fields of a d_struct
  Data,          \* what a number or a string may be
  MaxIndex,      \* bound: the highest index of a d_array that is used
  MaxLen,        \* bound: the real_size of a d_array that is set
  MaxElements    \* bound: the elements there may be when one is added

ASSUME ContainersAssumption ==
  /\ IsFiniteSet(Objects)
  /\ MaxIndex \in Nat
  /\ MaxLen \in Nat
  /\ MaxElements \in Nat

Kinds == {"struct", "array", "queue"}

\* element->is_packed = 1
PackedTypes == {"number"}

\* A type the switch of a setter has no case for: d_void, d_fnstorage, ...
Unknown == [type |-> "void"]

Element ==
  [type : {"number", "str"}, data : Data] \cup [type : Kinds, data : Objects]

VARIABLES
  heap,      \* the containers, by address
  held,      \* those the application has to free, or to give away
  ret,       \* 1 when the last call failed: it found nothing it could take
  intact     \* FALSE when a call has written where it must not

vars == <<heap, held, ret, intact>>

Indices == 0 .. MaxIndex

\* len is current_len of a d_struct and real_size of a d_array; capacity is
\* lookup_size.  History: rewritten, whether an index in use was set again.
Struct(e, n) == [kind |-> "struct", elements |-> e, len |-> n]
Array(e, n, c, r) == [kind |-> "array", elements |-> e, len |-> n,
                      capacity |-> c, rewritten |-> r]
Queue(e) == [kind |-> "queue", elements |-> e]
Free == [kind |-> "free", elements |-> <<>>]

Live == {o \in Objects : heap[o].kind # "free"}

Nested(e) == e.type \in Kinds

Children(o) == {heap[o].elements[k].data :
                  k \in {j \in DOMAIN heap[o].elements : Nested(heap[o].elements[j])}}

\* o and everything in it, the least set that has o and the children of all in
\* it: what freeing o frees, and copying it copies.
Below(o) ==
  LET Closed == {S \in SUBSET Objects : o \in S /\ \A p \in S : Children(p) \subseteq S}
  IN  {p \in Objects : \A S \in Closed : p \in S}

Contents(E) == UNION {Below(e.data) : e \in {d \in E : Nested(d)}}

\* The application may use every container: d_struct_get and d_array_get give
\* it the pointers of those inside its own; after a call that was not intact,
\* what a program does is undefined.
InUse(o, kind) == intact /\ heap[o].kind = kind

Places == UNION {{o} \X DOMAIN heap[o].elements : o \in Objects}
Room == Cardinality(Places) < MaxElements

\* What may be set into o: anything but o itself and what o is in.
Offered(o) ==
  [type : {"number", "str"}, data : Data]
  \cup {[type |-> heap[p].kind, data |-> p] : p \in {q \in held : o \notin Below(q)}}
  \cup {Unknown}

Given(e) == IF Nested(e) THEN {e.data} ELSE {}

Without(f, k) == Restrict(f, DOMAIN f \ {k})
With(f, k, e) == [j \in DOMAIN f \cup {k} |-> IF j = k THEN e ELSE f[j]]

At(f, k) == IF k \in DOMAIN f THEN {f[k]} ELSE {}

\* Container o becomes r, and the elements in Freed are freed.
Becomes(o, r, Freed) ==
  heap' = [p \in Objects |-> IF p \in Contents(Freed) THEN Free
                             ELSE IF p = o THEN r ELSE heap[p]]

Init ==
  /\ heap = [o \in Objects |-> Free]
  /\ held = {}
  /\ ret = 0
  /\ intact = TRUE

-----------------------------------------------------------------------------
New(o) ==
  /\ intact /\ o \notin Live
  /\ \E r \in {Struct(<<>>, 0), Queue(<<>>)}
              \cup {Array(<<>>, 0, c, FALSE) : c \in 1 .. MaxIndex + 1} :
       Becomes(o, r, {})
  /\ held' = held \cup {o}
  /\ ret' = 0
  /\ UNCHANGED intact

\* Mutant: the element that is overwritten is not freed.
StructSetLeaks(s, k, e) ==
  LET table == heap[s].elements
      n == heap[s].len - Cardinality(At(table, k))
  IN
  /\ InUse(s, "struct") /\ Room
  /\ Becomes(s, IF e = Unknown THEN Struct(Without(table, k), n)
                ELSE Struct(With(table, k, e), n + 1), {})
  /\ held' = held \ Given(e)
  /\ ret' = 0
  /\ UNCHANGED intact

\* Mutant: current_len counts a key that is set again twice.
StructSetRecounts(s, k, e) ==
  LET table == heap[s].elements
      n == heap[s].len
  IN
  /\ InUse(s, "struct") /\ Room
  /\ Becomes(s, IF e = Unknown THEN Struct(Without(table, k), n)
                ELSE Struct(With(table, k, e), n + 1), At(table, k))
  /\ held' = held \ Given(e)
  /\ ret' = 0
  /\ UNCHANGED intact

\* d_struct_set: for an unknown type the element leaves the table.
StructSet(s, k, e) ==
  LET table == heap[s].elements
      n == heap[s].len - Cardinality(At(table, k))
  IN
  /\ InUse(s, "struct") /\ Room
  /\ Becomes(s, IF e = Unknown THEN Struct(Without(table, k), n)
                ELSE Struct(With(table, k, e), n + 1), At(table, k))
  /\ held' = held \ Given(e)
  /\ ret' = 0
  /\ UNCHANGED intact

\* Mutant: an index one past the end is taken for a place in the table.
GrownLate(capacity, i) ==
  IF i > capacity THEN ((i + 1) * 3) \div 2 ELSE capacity

\* The capacity of a d_array once index i has been set.
Grown(capacity, i) ==
  IF i >= capacity THEN ((i + 1) * 3) \div 2 ELSE capacity

\* d_array_set: a table that grows is cleared from prev_size * sizeof(pointer) entries on
\* instead of prev_size, which is behind its end.  An unknown type frees the
\* element and leaves it in the table.
ArraySet(a, i, e) ==
  LET array == heap[a]
      old == At(array.elements, i)
  IN
  /\ InUse(a, "array") /\ Room /\ array.len < MaxLen
  /\ Becomes(a, IF e = Unknown THEN array
                ELSE Array(With(array.elements, i, e), array.len + 1,
                           Grown(array.capacity, i),
                           array.rewritten \/ old # {}), old)
  /\ intact' = IF e = Unknown THEN old = {} ELSE i < array.capacity
  /\ held' = held \ Given(e)
  /\ ret' = 0

\* Container o, a d_struct or a d_array, without what is at k.
Less(o, k) ==
  LET c == heap[o]
      elements == Without(c.elements, k)
      n == IF c.len > 0 THEN c.len - 1 ELSE 0
  IN IF c.kind = "struct" THEN Struct(elements, n)
     ELSE Array(elements, n, c.capacity, c.rewritten)

\* d_struct_remove and d_array_remove
Erase(o, k) ==
  /\ InUse(o, "struct") \/ InUse(o, "array")
  /\ IF k \in DOMAIN heap[o].elements
     THEN Becomes(o, Less(o, k), At(heap[o].elements, k)) /\ ret' = 0
     ELSE ret' = 1 /\ UNCHANGED heap
  /\ UNCHANGED <<held, intact>>

\* d_struct_unlink and d_array_unlink
Unlink(o, k) ==
  LET e == At(heap[o].elements, k) IN
  /\ InUse(o, "struct") \/ InUse(o, "array")
  /\ IF e # {} /\ \A d \in e : d.type \notin PackedTypes
     THEN /\ Becomes(o, Less(o, k), {})
          /\ held' = held \cup UNION {Given(d) : d \in e}
          /\ ret' = 0
     ELSE ret' = 1 /\ UNCHANGED <<heap, held>>
  /\ UNCHANGED intact

QueuePush(q, e) ==
  /\ InUse(q, "queue") /\ Room
  /\ Becomes(q, IF e = Unknown THEN heap[q]
                ELSE Queue(Append(heap[q].elements, e)), {})
  /\ held' = held \ Given(e)
  /\ ret' = 0
  /\ UNCHANGED intact

\* The application gets the first element.
Pop(q) ==
  /\ Becomes(q, Queue(Tail(heap[q].elements)), {})
  /\ held' = held \cup Given(Head(heap[q].elements))
  /\ ret' = 0

\* Mutant: an element of another type is freed.
QueuePopDrops(q, type) ==
  LET elements == heap[q].elements IN
  /\ InUse(q, "queue")
  /\ IF elements = <<>>
     THEN ret' = 1 /\ UNCHANGED <<heap, held>>
     ELSE IF Head(elements).type = type
     THEN Pop(q)
     ELSE /\ Becomes(q, Queue(Tail(elements)), {Head(elements)})
          /\ ret' = 1
          /\ UNCHANGED held
  /\ UNCHANGED intact

\* An element of another type is moved to the end.
QueuePop(q, type) ==
  LET elements == heap[q].elements IN
  /\ InUse(q, "queue")
  /\ IF elements = <<>>
     THEN ret' = 1 /\ UNCHANGED <<heap, held>>
     ELSE IF Head(elements).type = type
     THEN Pop(q)
     ELSE /\ Becomes(q, Queue(Append(Tail(elements), Head(elements))), {})
          /\ ret' = 1
          /\ UNCHANGED held
  /\ UNCHANGED intact

QueuePopWithType(q) ==
  /\ InUse(q, "queue")
  /\ IF heap[q].elements = <<>>
     THEN ret' = 1 /\ UNCHANGED <<heap, held>>
     ELSE Pop(q)
  /\ UNCHANGED intact

\* A copy of container o in which the containers are at the addresses m.  A
\* d_array that is unpacked is created for as many elements as it has.
Copied(o, m, unpacked) ==
  LET c == heap[o]
      elements == [k \in DOMAIN c.elements |->
                     IF Nested(c.elements[k])
                     THEN [c.elements[k] EXCEPT !.data = m[@]]
                     ELSE c.elements[k]]
      n == Cardinality(DOMAIN elements)
  IN CASE c.kind = "struct" -> Struct(elements, n)
       [] c.kind = "array" -> Array(elements, n, IF unpacked THEN Max({1, n})
                                                 ELSE c.capacity, FALSE)
       [] OTHER -> Queue(elements)

\* Each call of the copy functions makes an object; the application gets o's.
Duplicate(o, unpacked) ==
  /\ intact /\ o \in Live
  /\ \E m \in Injection(Below(o), Objects \ Live) :
       /\ LET originals == Objects \cap Below(o) IN
          heap' = [p \in Objects |->
                     IF \E x \in originals : m[x] = p
                     THEN Copied(CHOOSE x \in originals : m[x] = p, m, unpacked)
                     ELSE heap[p]]
       /\ held' = held \cup {m[o]}
  /\ ret' = 0

\* d_struct_copy, d_array_copy, d_queue_copy
Copy(o) == Duplicate(o, FALSE) /\ UNCHANGED intact

\* What is sent over TCP is packed (d_struct_buf, ...) and made again from the
\* buffer (buf_d_struct, ...): module Packing.  A d_array made again that has
\* an index beyond the number of its elements grows.
Send(o) ==
  /\ Duplicate(o, TRUE)
  /\ intact' = \A a \in Below(o) : heap[a].kind = "array" =>
                  LET indices == DOMAIN heap[a].elements IN
                  \A i \in indices : i < Cardinality(indices)

\* d_struct_free, d_array_free, d_queue_free
FreeAll(o) ==
  /\ intact /\ o \in held
  /\ heap' = [p \in Objects |-> IF p \in Below(o) THEN Free ELSE heap[p]]
  /\ held' = held \ {o}
  /\ ret' = 0
  /\ UNCHANGED intact

Use(o) ==
  \/ \E k \in Keys, e \in Offered(o) : StructSet(o, k, e)
  \/ \E i \in Indices, e \in Offered(o) : ArraySet(o, i, e)
  \/ \E k \in IF heap[o].kind = "struct" THEN Keys ELSE Indices :
       Erase(o, k) \/ Unlink(o, k)
  \/ \E e \in Offered(o) : QueuePush(o, e)
  \/ \E type \in Kinds \cup {"number", "str"} : QueuePop(o, type)
  \/ QueuePopWithType(o)
  \/ Copy(o)
  \/ Send(o)
  \/ FreeAll(o)

Next == \E o \in Objects : New(o) \/ Use(o)

Spec == Init /\ [][Next]_vars

-----------------------------------------------------------------------------
ElementAt(place) == heap[place[1]].elements[place[2]]
Uses(o) == {place \in Places : LET e == ElementAt(place) IN Nested(e) /\ e.data = o}

\* Every container that is not freed is either the application's to free or
\* in exactly one place of one other, under its type: nothing is lost, freed
\* twice, shared between a copy and its original, or used after it was freed
\* (the setters, remove, unlink, pop, copy and free of drpc_struct.c,
\* drpc_array.c and drpc_queue.c).
OwnedOnce ==
  /\ held \subseteq Objects /\ ret \in {0, 1} /\ intact \in BOOLEAN
  /\ \A place \in Places : ElementAt(place) \in Element
  /\ intact => \A o \in Objects :
       /\ Cardinality(Uses(o)) + (IF o \in held THEN 1 ELSE 0)
            = (IF o \in Live THEN 1 ELSE 0)
       /\ \A place \in Uses(o) : ElementAt(place).type = heap[o].kind

\* current_len of a d_struct is the number of its fields: d_struct_buf and
\* d_struct_get_fields allocate that many entries and fill one for each field.
\* d_array_len, which drpc_server_call_fn takes for the number of arguments, is
\* too small never, and too large only when an index in use was set again.
LenExact ==
  \A o \in Live :
    LET n == Cardinality(DOMAIN heap[o].elements) IN
    CASE heap[o].kind = "struct" -> heap[o].len = n
      [] heap[o].kind = "array" -> /\ heap[o].len >= n
                                   /\ heap[o].len # n => heap[o].rewritten
      [] heap[o].kind = "queue" -> TRUE

\* A call that fails leaves every container with the elements it had; only
\* d_queue_pop with another type may change their order ("that element WILL BE
\* MOVED TO QUEUE'S END", drpc_queue.h:35).
FailureKeepsContent ==
  [][ret' = 1 =>
       /\ held' = held
       /\ \A o \in Objects :
            /\ heap'[o].kind = heap[o].kind
            /\ IF heap[o].kind = "queue"
               THEN ToBag(heap[o].elements) = ToBag(heap'[o].elements)
               ELSE heap[o] = heap'[o]]_vars
=============================================================================
