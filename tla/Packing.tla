------------------------------- MODULE Packing -------------------------------
(***************************************************************************)
(* The buffers the containers are packed into for TCP, and what is made of *)
(* such a buffer (drpc_types.c and the _buf and buf_ functions of          *)
(* drpc_struct.c, drpc_array.c and drpc_queue.c).                          *)
(*                                                                         *)
(* A buffer is a sequence of cells; a cell is a type byte, a uint64, a key *)
(* with its NUL, a number, or a character.  Lengths count cells.  Nothing  *)
(* marks where an entry ends but the length in front of it.                *)
(***************************************************************************)
EXTENDS Containers

\* drpc_buf: type, length, data
PackType(type, data) == <<type, Len(data)>> \o data

\* drpc_types_buf: the number of entries and the entries
PackTypes(n, entries) == <<n>> \o FlattenSeq(entries)

RECURSIVE Pack(_)

\* An element as drpc_type_buflen cells: a string has its NUL behind it.
PackElement(e) ==
  PackType(e.type, CASE e.type = "number" -> <<e.data>>
                     [] e.type = "str" -> <<e.data, 0>>
                     [] OTHER -> Pack(e.data))

\* d_struct_buf: a table of which current_len says it has n entries.  In front
\* of each element is its key; without entries there is the number 0 only.
PackTable(table, n) ==
  LET keys == SetToSeq(DOMAIN table) IN
  IF n = 0 THEN <<0>>
  ELSE PackTypes(n, [j \in DOMAIN keys |->
         PackType(table[keys[j]].type, <<keys[j]>> \o PackElement(table[keys[j]]))])

\* d_array_buf packs a d_struct whose keys are the indices of the elements.
\* d_queue_buf pops every element and pushes it again.
Pack(o) ==
  LET elements == heap[o].elements IN
  CASE heap[o].kind = "struct" -> PackTable(elements, heap[o].len)
    [] heap[o].kind = "array" -> PackTable(elements, Cardinality(DOMAIN elements))
    [] heap[o].kind = "queue" ->
         PackTypes(Len(elements), [j \in DOMAIN elements |->
           PackType(elements[j].type, PackElement(elements[j]))])

-----------------------------------------------------------------------------
\* buf_drpc, and where it says the next entry is
UnpackType(buf) == [type |-> buf[1], data |-> SubSeq(buf, 3, 2 + buf[2])]
NextType(buf) == SubSeq(buf, 3 + buf[2], Len(buf))

\* buf_drpc_types
RECURSIVE UnpackTypes(_, _)
UnpackTypes(buf, n) ==
  IF n = 0 THEN <<>>
  ELSE <<UnpackType(buf)>> \o UnpackTypes(NextType(buf), n - 1)

\* buf_d_struct and buf_d_queue skip d_void.
Entries(buf) ==
  SelectSeq(UnpackTypes(Tail(buf), buf[1]), LAMBDA entry : entry.type # "void")

RECURSIVE Unpack(_, _)

UnpackElement(type, buf) ==
  LET data == UnpackType(buf).data IN
  [type |-> type, data |-> IF type \in Kinds THEN Unpack(type, data) ELSE data[1]]

\* buf_d_struct: the elements by key.  A later one with the same key stays.
UnpackTable(buf) ==
  FoldSeq(LAMBDA entry, table :
            With(table, entry.data[1], UnpackElement(entry.type, Tail(entry.data))),
          <<>>, Entries(buf))

\* buf_d_array: the array is created for the number of keys and grows when one
\* of them is higher.
Unpack(type, buf) ==
  CASE type = "struct" -> UnpackTable(buf)
    [] type = "array" ->
         LET table == UnpackTable(buf)
             size == Max({1, Cardinality(DOMAIN table)})
         IN [elements |-> table,
             grown |-> \E i \in DOMAIN table : Grown(size, i) # size]
    [] type = "queue" ->
         LET entries == Entries(buf) IN
         [i \in DOMAIN entries |-> UnpackElement(entries[i].type, entries[i].data)]

-----------------------------------------------------------------------------
\* What the receiver is to have.
RECURSIVE Value(_)
Value(o) ==
  LET elements == heap[o].elements
      values == [k \in DOMAIN elements |->
                   IF Nested(elements[k])
                   THEN [elements[k] EXCEPT !.data = Value(@)]
                   ELSE elements[k]]
  IN IF heap[o].kind = "array"
     THEN [elements |-> values,
           grown |-> DOMAIN elements # 0 .. Cardinality(DOMAIN elements) - 1]
     ELSE values

\* Whatever calls an application has made, a container packed for TCP is made
\* again with the same elements under the same keys, and in the same order, at
\* every depth; and unless an array has a hole its memory is large enough
\* ("serializes native_type", drpc_struct.h:29; d_struct_buf and buf_d_struct,
\* d_array_buf and buf_d_array, d_queue_buf and buf_d_queue).
RoundTrip ==
  intact => \A o \in Live : Unpack(heap[o].kind, Pack(o)) = Value(o)
=============================================================================
