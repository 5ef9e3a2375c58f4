------------------------------ MODULE HashTable ------------------------------
(***************************************************************************)
(* hashtable.c: open addressing with linear probing.  A removed entry      *)
(* leaves a tombstone (0xDEAD) that no search stops at and no insertion    *)
(* reuses; only a resize clears it.  hashtable_set and hashtable_remove    *)
(* run under the table's lock; hashtable_get releases the lock before it   *)
(* reads the value, so a get is two steps, and a resize, which replaces    *)
(* the body while it holds the lock, is one step for every entry it moves. *)
(*                                                                         *)
(* The hash function is chosen at the start, among all functions from the  *)
(* keys to HashValues.                                                     *)
(***************************************************************************)
EXTENDS Integers, FiniteSets, Sequences

CONSTANTS
  Keys,
  Values,
  NULL,             \* no key, no value
  DEAD,             \* the key of a tombstone, (char*)0xDEAD
  HashValues,       \* the hash values keys may have
  Readers,          \* threads that call hashtable_get
  MaxTombstones     \* bound: no more removals with this many tombstones

\* NULL and DEAD are no strings; unsigned long is not negative.
ASSUME HashTableAssumption ==
  /\ NULL \notin Keys /\ DEAD \notin Keys /\ NULL # DEAD
  /\ HashValues \subseteq Nat

VARIABLES
  hash,        \* hashtable_hash
  table,       \* the struct: size, capacity, body
  resizing,    \* the calls of hashtable_resize in progress, the innermost last
  spinning,    \* a search that holds the lock never ends
  getting      \* per reader: the get in progress, or the last one's result

vars == <<hash, table, resizing, spinning, getting>>

INITIAL_CAPACITY == 4

Slots(capacity) == 0 .. capacity - 1

\* hashtable_body_allocate: calloc.
EmptyBody(capacity) == [i \in Slots(capacity) |-> [key |-> NULL, value |-> NULL]]

-----------------------------------------------------------------------------
(* hashtable_find_slot *)

\* Mutant: a tombstone ends the search and is used again.
StopsAtTombstone(t, k, i) == t.body[i].key \in {NULL, DEAD, k}

StopsAt(t, k, i) == t.body[i].key \in {NULL, k}

\* Some slot ends the search for k; there is none when every slot is another
\* key's or a tombstone, and then the loop does not end.
SlotAvailable(t, k) == \E i \in Slots(t.capacity) : StopsAt(t, k, i)

\* The index after n probes.
Probe(t, k, n) == (hash[k] + n) % t.capacity

FindSlot(t, k) ==
  LET n == CHOOSE n \in Slots(t.capacity) :
             /\ StopsAt(t, k, Probe(t, k, n))
             /\ \A m \in 0 .. n - 1 : ~StopsAt(t, k, Probe(t, k, m))
  IN  Probe(t, k, n)

\* Any search for k: it ends, or holds the lock for ever.
Search(k) ==
  /\ ~spinning
  /\ spinning' = ~SlotAvailable(table, k)
  /\ UNCHANGED hash

Occupied(t, i) == t.body[i].key \notin {NULL, DEAD}

Stored(t) == {i \in Slots(t.capacity) : Occupied(t, i)}

-----------------------------------------------------------------------------
(* hashtable_set and hashtable_resize *)

Store(t, i, k, v) == [t EXCEPT !.body[i] = [key |-> k, value |-> v]]

\* (float)size / capacity > 0.8
TooFull(t) == 10 * t.size > 8 * t.capacity

\* Where hashtable_set_NL has found a slot for k.  When it resizes, which
\* begins with an empty body, k waits until all that is left in the old one
\* has been moved.
Place(k, v, outer) ==
  LET i == FindSlot(table, k)
      grown == [table EXCEPT !.size = @ + 1]
  IN  \/ /\ Occupied(table, i)
         /\ table' = [table EXCEPT !.body[i].value = v]
         /\ resizing' = outer
      \/ /\ ~Occupied(table, i) /\ ~TooFull(grown)
         /\ table' = Store(grown, i, k, v)
         /\ resizing' = outer
      \/ /\ ~Occupied(table, i) /\ TooFull(grown)
         /\ table' = [size |-> grown.size, capacity |-> 2 * table.capacity,
                      body |-> EmptyBody(2 * table.capacity)]
         /\ resizing' = Append(outer, [key |-> k, value |-> v, old |-> table.body,
                                       left |-> Stored(table)])

\* hashtable_set_NL, called within the resizes outer.
SetNL(k, v, outer) ==
  /\ Search(k)
  /\ IF SlotAvailable(table, k) THEN Place(k, v, outer)
     ELSE UNCHANGED <<table, resizing>>

-----------------------------------------------------------------------------
(* hashtable_remove *)

\* Mutant: the slot is emptied, so that searches stop at it.
RemoveKeyEmptying(t, k) ==
  LET i == FindSlot(t, k)
  IN  IF t.body[i].key # NULL
      THEN [t EXCEPT !.body[i] = [key |-> NULL, value |-> NULL],
                     !.size = @ - 1]
      ELSE t

\* Mutant: a key that is not there is counted as removed.
RemoveKeyUncounted(t, k) ==
  LET i == FindSlot(t, k)
  IN  IF t.body[i].key # NULL
      THEN [t EXCEPT !.body[i] = [key |-> DEAD, value |-> NULL],
                     !.size = @ - 1]
      ELSE [t EXCEPT !.size = @ - 1]

RemoveKey(t, k) ==
  LET i == FindSlot(t, k)
  IN  IF t.body[i].key # NULL
      THEN [t EXCEPT !.body[i] = [key |-> DEAD, value |-> NULL],
                     !.size = @ - 1]
      ELSE t

-----------------------------------------------------------------------------
(* What hashtable_get would return for k, run from start to end. *)
Lookup(t, k) ==
  IF SlotAvailable(t, k) THEN t.body[FindSlot(t, k)].value ELSE NULL

\* What resizes have still to put into the table.
InFlight ==
  UNION {{[key |-> f.key, value |-> f.value]} \cup {f.old[i] : i \in f.left} :
           f \in {resizing[n] : n \in DOMAIN resizing}}

\* What the table maps each key to; nobody can look while it is resized.
Contents ==
  [k \in Keys |->
     LET waiting == {e \in InFlight : e.key = k}
     IN  IF waiting = {} THEN Lookup(table, k)
         ELSE (CHOOSE e \in waiting : TRUE).value]

\* A reader between calls; result is what its last get returned, seen the
\* values its key had while that get ran, resized whether the body was
\* replaced meanwhile.
Idle(result, seen, resized) ==
  [at |-> "idle", result |-> result, seen |-> seen, resized |-> resized]

\* What every step of a writer means to the gets in progress.
Observe ==
  getting' = [r \in Readers |->
    IF getting[r].at = "found"
    THEN [getting[r] EXCEPT !.seen = @ \cup {Contents'[getting[r].key]},
                            !.resized = @ \/ table'.capacity # table.capacity]
    ELSE getting[r]]

Init ==
  /\ hash \in [Keys -> HashValues]
  /\ table = [size |-> 0, capacity |-> INITIAL_CAPACITY,
              body |-> EmptyBody(INITIAL_CAPACITY)]
  /\ resizing = <<>>
  /\ spinning = FALSE
  /\ getting = [r \in Readers |-> Idle(NULL, {NULL}, FALSE)]

\* Nobody holds the lock.
Unlocked == resizing = <<>>

Set(k, v) ==
  /\ Unlocked
  /\ SetNL(k, v, <<>>)
  /\ Observe

\* The loop of hashtable_resize moves the next entry, which may resize again.
ResizeMove ==
  /\ ~Unlocked
  /\ LET n == Len(resizing)
         f == resizing[n]
     IN  \E i \in f.left :
           /\ \A j \in f.left : i <= j
           /\ SetNL(f.old[i].key, f.old[i].value, [resizing EXCEPT ![n].left = @ \ {i}])
  /\ Observe

\* It has ended, and hashtable_set_NL stores what it was called for.
ResizeEnd ==
  /\ ~Unlocked
  /\ LET n == Len(resizing)
         f == resizing[n]
     IN  /\ f.left = {}
         /\ Search(f.key)
         /\ IF SlotAvailable(table, f.key)
              THEN /\ table' = Store(table, FindSlot(table, f.key), f.key, f.value)
                   /\ resizing' = SubSeq(resizing, 1, n - 1)
              ELSE UNCHANGED <<table, resizing>>
  /\ Observe

Remove(k) ==
  /\ Unlocked
  /\ Search(k)
  /\ Cardinality({i \in DOMAIN table.body : table.body[i].key = DEAD})
       < MaxTombstones
  /\ table' = IF SlotAvailable(table, k) THEN RemoveKey(table, k) ELSE table
  /\ UNCHANGED resizing
  /\ Observe

\* The part of hashtable_get under the lock.
GetFind(r, k) ==
  /\ getting[r].at = "idle"
  /\ Unlocked
  /\ Search(k)
  /\ getting' = [getting EXCEPT ![r] =
       IF ~SlotAvailable(table, k) THEN @
       ELSE IF Occupied(table, FindSlot(table, k))
            THEN [at |-> "found", key |-> k, index |-> FindSlot(table, k),
                  seen |-> {Lookup(table, k)}, resized |-> FALSE]
            ELSE Idle(NULL, {Lookup(table, k)}, FALSE)]
  /\ UNCHANGED <<table, resizing>>

\* The lock has been released: the value is read from whatever body there is.
GetRead(r) ==
  /\ getting[r].at = "found"
  /\ getting' = [getting EXCEPT ![r] =
       Idle(table.body[@.index].value, @.seen, @.resized)]
  /\ UNCHANGED <<hash, table, resizing, spinning>>

\* The search that does not end goes on.
Spin ==
  /\ spinning
  /\ UNCHANGED vars

Next ==
  \/ \E k \in Keys : Remove(k) \/ \E v \in Values : Set(k, v)
  \/ \E r \in Readers : GetRead(r) \/ \E k \in Keys : GetFind(r, k)
  \/ ResizeMove \/ ResizeEnd
  \/ Spin

Spec == Init /\ [][Next]_vars

-----------------------------------------------------------------------------
Entry == [key : Keys \cup {NULL, DEAD}, value : Values \cup {NULL}]

\* The types of the variables.
TypeOK ==
  /\ hash \in [Keys -> HashValues]
  /\ table \in [size : Int, capacity : Nat, body : [Slots(table.capacity) -> Entry]]
  /\ \A n \in 1 .. Len(resizing) :
       LET f == resizing[n]
       IN  /\ f.key \in Keys /\ f.value \in Values \cup {NULL}
           /\ f.old \in [DOMAIN f.old -> Entry] /\ f.left \subseteq DOMAIN f.old
  /\ spinning \in BOOLEAN

\* The searches for a stored key reach it: no empty slot lies between the slot
\* it hashes to and its own, and it is stored once.
ChainUnbroken ==
  \A i \in Slots(table.capacity) :
    Occupied(table, i) => FindSlot(table, table.body[i].key) = i

\* size counts every entry at least once, also those that wait for a resize to
\* end; the assertion of hashtable_resize (capacity >= t->size) cannot fail,
\* although every resize counts again the entries it moves; and a search for an
\* entry that is moved ends.
SizeBounds ==
  /\ TypeOK
  /\ Cardinality(Stored(table)) + Len(resizing) <= table.size
  /\ ~TooFull(table)
  /\ spinning => Unlocked

\* hashtable_get returns a value its key had while the get ran, unless the
\* table was resized, or is being, between its search and its read; even then
\* it reads inside the body.
GetLinearizes ==
  \A r \in Readers :
    /\ getting[r].at = "found" => getting[r].index \in Slots(table.capacity)
    /\ getting[r].at = "idle" /\ ~getting[r].resized =>
         getting[r].result \in getting[r].seen

\* A search always has a slot to end at, as the comment of
\* hashtable_find_slot says.
SearchEnds == \A k \in Keys : SlotAvailable(table, k)

\* The table is a map: neither collisions, nor tombstones, nor a resize that
\* resizes lose an entry or bring back a removed one.
TheMap == INSTANCE Map WITH Keys <- Keys, Values <- Values, NULL <- NULL,
                            contents <- Contents
ImplementsMap == TheMap!MapSpec
=============================================================================
