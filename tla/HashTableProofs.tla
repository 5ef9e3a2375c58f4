--------------------------- MODULE HashTableProofs ---------------------------
(***************************************************************************)
(* The hash table is a map, for any keys, values, hash functions and       *)
(* numbers of readers: however entries collide and tombstones lie, and     *)
(* however often a resize resizes, no entry is lost, duplicated or brought *)
(* back, and hashtable_get returns a value its key had.  What is counted   *)
(* in size leaves every resize room.                                       *)
(*   The order in which a search looks at the slots is their distance from *)
(* the one the key hashes to (Dist).  An entry is always in one place: in  *)
(* the table, left in an old body, or waiting for a resize to end (Apart). *)
(***************************************************************************)
EXTENDS HashTable, FiniteSetTheorems, SequenceTheorems, WellFoundedInduction, TLAPS

\* How many slots a search for a key with hash h looks at before slot i.
Dist(h, c, i) == IF i >= h % c THEN i - (h % c) ELSE i - (h % c) + c

\* Where a search for k ends.
FirstStop(H, t, k, i) ==
  /\ i \in Slots(t.capacity) /\ StopsAt(t, k, i)
  /\ \A j \in Slots(t.capacity) :
       Dist(H[k], t.capacity, j) < Dist(H[k], t.capacity, i) => ~StopsAt(t, k, j)

\* A table; an empty slot and a tombstone have no value.
TableOK(t) ==
  /\ t = [size |-> t.size, capacity |-> t.capacity, body |-> t.body]
  /\ t.size \in Int
  /\ t.capacity \in Nat /\ t.capacity >= INITIAL_CAPACITY
  /\ t.body \in [Slots(t.capacity) -> Entry]
  /\ \A i \in Slots(t.capacity) : ~Occupied(t, i) => t.body[i].value = NULL

\* Nothing stops a search for a stored key before its slot.
Chain(H, t) ==
  \A i \in Stored(t), j \in Slots(t.capacity) :
    Dist(H[t.body[i].key], t.capacity, j) < Dist(H[t.body[i].key], t.capacity, i)
      => ~StopsAt(t, t.body[i].key, j)

-----------------------------------------------------------------------------
(* Searching *)

LEMMA RemainderIs ==
  ASSUME NEW h \in Nat, NEW c \in Nat, c > 0
  PROVE  /\ h % c \in 0 .. c - 1 /\ h \div c \in Int
         /\ h = c * (h \div c) + (h % c)
OBVIOUS

LEMMA RemainderIsUnique ==
  ASSUME NEW c \in Nat, c > 0, NEW q \in Int, NEW r \in 0 .. c - 1
  PROVE  (c * q + r) % c = r
OBVIOUS

\* Going on from the home slot by n wraps around once at most.
LEMMA ProbeWraps ==
  ASSUME NEW h \in Nat, NEW c \in Nat, c > 0, NEW n \in 0 .. c - 1
  PROVE  (h + n) % c = IF (h % c) + n < c THEN (h % c) + n ELSE (h % c) + n - c
<1> DEFINE q == h \div c
           r == h % c
<1>1. r \in 0 .. c - 1 /\ q \in Int /\ h = c * q + r
  BY RemainderIs
<1> HIDE DEF q, r
<1>2. CASE r + n < c
  <2>1. h + n = c * q + (r + n) /\ r + n \in 0 .. c - 1
    BY <1>1, <1>2
  <2>2. (c * q + (r + n)) % c = r + n
    BY <1>1, <2>1, RemainderIsUnique
  <2> QED BY <1>2, <2>1, <2>2 DEF r
<1>3. CASE ~(r + n < c)
  <2>1. h + n = c * (q + 1) + (r + n - c) /\ r + n - c \in 0 .. c - 1 /\ q + 1 \in Int
    BY <1>1, <1>3
  <2>2. (c * (q + 1) + (r + n - c)) % c = r + n - c
    BY <2>1, RemainderIsUnique
  <2> QED BY <1>3, <2>1, <2>2 DEF r
<1> QED BY <1>2, <1>3

\* The slot at a distance, and the distance of a slot.
LEMMA ProbeIsAtDist ==
  ASSUME NEW h \in Nat, NEW c \in Nat, c > 0
  PROVE  /\ \A n \in Slots(c) : (h + n) % c \in Slots(c) /\ Dist(h, c, (h + n) % c) = n
         /\ \A i \in Slots(c) : Dist(h, c, i) \in Slots(c) /\ (h + Dist(h, c, i)) % c = i
<1> DEFINE r == h % c
<1>1. r \in 0 .. c - 1
  BY RemainderIs
<1>2. \A n \in 0 .. c - 1 : (h + n) % c = IF r + n < c THEN r + n ELSE r + n - c
  BY ProbeWraps
<1>3. \A i : Dist(h, c, i) = IF i >= r THEN i - r ELSE i - r + c
  BY DEF Dist
<1> HIDE DEF r
<1>4. ASSUME NEW n \in Slots(c)
      PROVE  (h + n) % c \in Slots(c) /\ Dist(h, c, (h + n) % c) = n
  BY <1>1, <1>2, <1>3 DEF Slots
<1>5. ASSUME NEW i \in Slots(c)
      PROVE  Dist(h, c, i) \in Slots(c) /\ (h + Dist(h, c, i)) % c = i
  <2> DEFINE d == Dist(h, c, i)
  <2>1. i \in 0 .. c - 1 /\ d = IF i >= r THEN i - r ELSE i - r + c
    BY <1>3 DEF Slots
  <2> HIDE DEF d
  <2>2. d \in 0 .. c - 1 /\ (r + d = i \/ r + d = i + c)
    BY <1>1, <2>1
  <2>3. (h + d) % c = IF r + d < c THEN r + d ELSE r + d - c
    BY <1>2, <2>2
  <2>4. (h + d) % c = i
    BY <1>1, <2>1, <2>2, <2>3
  <2> QED BY <2>2, <2>4 DEF d, Slots
<1> QED BY <1>4, <1>5

LEMMA LeastExists ==
  ASSUME NEW T \in SUBSET Nat, T # {}
  PROVE  \E x \in T : \A y \in T : x <= y
<1> DEFINE R == OpToRel(<, Nat)
<1>1. IsWellFoundedOn(R, Nat)
  BY NatLessThanWellFounded, Zenon
<1>2. \A x, y \in T : y < x => <<y, x>> \in R
  BY Zenon DEF OpToRel
<1> HIDE DEF R
<1>3. PICK x \in T : \A y \in T : <<y, x>> \notin R
  BY <1>1, WFMin, Zenon
<1>4. ASSUME NEW y \in T PROVE x <= y
  <2>1. ~(y < x)
    BY <1>2, <1>3, Zenon
  <2> QED BY <2>1
<1> QED BY <1>4

\* A search that ends finds the first slot at which it may.
LEMMA FindSlotIs ==
  ASSUME NEW t, TableOK(t), NEW k \in Keys, hash[k] \in Nat, SlotAvailable(t, k)
  PROVE  FirstStop(hash, t, k, FindSlot(t, k))
<1> DEFINE c == t.capacity
           h == hash[k]
           T == {n \in Slots(c) : StopsAt(t, k, (h + n) % c)}
           IsFirst(n) == StopsAt(t, k, Probe(t, k, n))
                         /\ \A m \in 0 .. n - 1 : ~StopsAt(t, k, Probe(t, k, m))
           first == CHOOSE n \in Slots(c) : IsFirst(n)
<1>1. c \in Nat /\ c > 0 /\ h \in Nat
  BY DEF TableOK, INITIAL_CAPACITY
<1>2. /\ \A n \in Slots(c) : (h + n) % c \in Slots(c) /\ Dist(h, c, (h + n) % c) = n
      /\ \A i \in Slots(c) : Dist(h, c, i) \in Slots(c) /\ (h + Dist(h, c, i)) % c = i
  BY <1>1, ProbeIsAtDist
<1>3. Slots(c) \subseteq Nat /\ \A n \in Slots(c) : 0 .. n - 1 \subseteq Slots(c)
  BY <1>1 DEF Slots
<1>4. \A n : Probe(t, k, n) = (h + n) % c
  BY DEF Probe
<1>5. FindSlot(t, k) = (h + first) % c
  BY <1>4 DEF FindSlot
<1> HIDE DEF c, h
<1>6. T # {}
  <2>1. PICK i \in Slots(c) : StopsAt(t, k, i)
    BY DEF SlotAvailable, c
  <2> QED BY <1>2, <2>1
<1>7. PICK n \in T : \A m \in T : n <= m
  <2>1. T \in SUBSET Nat
    BY <1>3
  <2> HIDE DEF T
  <2> QED BY <1>6, <2>1, LeastExists
<1>8. IsFirst(n)
  <2>1. \A m \in 0 .. n - 1 : m \notin T
    BY <1>3, <1>7
  <2> QED BY <1>3, <1>4, <1>7, <2>1
<1>9. first \in Slots(c) /\ IsFirst(first)
  BY <1>7, <1>8
<1> HIDE DEF first
<1>10. ASSUME NEW j \in Slots(c), Dist(h, c, j) < first PROVE ~StopsAt(t, k, j)
  BY <1>2, <1>3, <1>4, <1>9, <1>10
<1>11. (h + first) % c \in Slots(c) /\ Dist(h, c, (h + first) % c) = first
       /\ StopsAt(t, k, (h + first) % c)
  BY <1>2, <1>4, <1>9
<1> QED BY <1>5, <1>10, <1>11 DEF FirstStop, c, h

\* There is one such slot.
LEMMA FirstStopIsOne ==
  ASSUME NEW t, TableOK(t), NEW H, NEW k, H[k] \in Nat,
         NEW i, FirstStop(H, t, k, i), NEW j, FirstStop(H, t, k, j)
  PROVE  i = j
<1> DEFINE c == t.capacity
           h == H[k]
<1>1. c \in Nat /\ c > 0 /\ h \in Nat /\ i \in Slots(c) /\ j \in Slots(c)
  BY DEF TableOK, INITIAL_CAPACITY, FirstStop
<1>2. /\ \A m \in Slots(c) : Dist(h, c, m) \in Slots(c) /\ (h + Dist(h, c, m)) % c = m
  BY <1>1, ProbeIsAtDist
<1>3. ~(Dist(h, c, i) < Dist(h, c, j)) /\ ~(Dist(h, c, j) < Dist(h, c, i))
  BY DEF FirstStop
<1> HIDE DEF c, h
<1>4. Dist(h, c, i) \in Nat /\ Dist(h, c, j) \in Nat
  BY <1>1, <1>2 DEF Slots
<1>5. Dist(h, c, i) = Dist(h, c, j)
  BY <1>3, <1>4
<1> QED BY <1>1, <1>2, <1>5

-----------------------------------------------------------------------------
(* What the operations make of a table *)

TableEntries(t) == {t.body[i] : i \in Stored(t)}

\* t with another size and another entry in slot i.
Changed(t, s, i, e) ==
  [size |-> s, capacity |-> t.capacity, body |-> [t.body EXCEPT ![i] = e]]

LEMMA ChangedIs ==
  ASSUME NEW t, TableOK(t), NEW i \in Slots(t.capacity), NEW s \in Int, NEW e \in Entry,
         e.key \in {NULL, DEAD} => e.value = NULL
  PROVE  LET u == Changed(t, s, i, e)
         IN  /\ TableOK(u) /\ u.size = s /\ u.capacity = t.capacity
             /\ u.body[i] = e /\ \A j \in Slots(t.capacity) \ {i} : u.body[j] = t.body[j]
<1> DEFINE u == Changed(t, s, i, e)
<1>1. u.size = s /\ u.capacity = t.capacity /\ u.body = [t.body EXCEPT ![i] = e]
      /\ u = [size |-> u.size, capacity |-> u.capacity, body |-> u.body]
  BY DEF Changed
<1> HIDE DEF u
<1>2. /\ t.body \in [Slots(t.capacity) -> Entry] /\ t.capacity \in Nat
      /\ t.capacity >= INITIAL_CAPACITY
      /\ \A j \in Slots(t.capacity) : ~Occupied(t, j) => t.body[j].value = NULL
  BY DEF TableOK
<1>3. /\ u.body \in [Slots(u.capacity) -> Entry]
      /\ u.body[i] = e /\ \A j \in Slots(t.capacity) \ {i} : u.body[j] = t.body[j]
  BY <1>1, <1>2
<1>4. ASSUME NEW j \in Slots(u.capacity), ~Occupied(u, j) PROVE u.body[j].value = NULL
  <2>1. CASE j = i
    BY <1>3, <1>4, <2>1 DEF Occupied
  <2>2. CASE j # i
    BY <1>1, <1>2, <1>3, <1>4, <2>2 DEF Occupied
  <2> QED BY <2>1, <2>2
<1>5. TableOK(u)
  BY <1>1, <1>2, <1>3, <1>4 DEF TableOK
<1> QED BY <1>1, <1>3, <1>5 DEF u

\* A new key goes into the first empty slot its searches come to.
LEMMA StoreKeeps ==
  ASSUME NEW t, TableOK(t), NEW H, Chain(H, t), NEW k \in Keys, H[k] \in Nat,
         NEW v \in Values \cup {NULL}, NEW i, FirstStop(H, t, k, i), ~Occupied(t, i),
         NEW s \in Int,
         \A j \in Slots(t.capacity) : t.body[j].key \in Keys => H[t.body[j].key] \in Nat
  PROVE  LET u == Changed(t, s, i, [key |-> k, value |-> v])
         IN  /\ TableOK(u) /\ Chain(H, u)
             /\ i \notin Stored(t) /\ Stored(u) = Stored(t) \cup {i}
             /\ \A e \in TableEntries(t) : e.key # k
             /\ TableEntries(u) = TableEntries(t) \cup {[key |-> k, value |-> v]}
             /\ t.body[i].key = NULL
<1> DEFINE e == [key |-> k, value |-> v]
           u == Changed(t, s, i, e)
           c == t.capacity
<1>1. /\ i \in Slots(c) /\ t.body[i].key = NULL /\ i \notin Stored(t)
      /\ \A j \in Slots(c) : Dist(H[k], c, j) < Dist(H[k], c, i) => ~StopsAt(t, k, j)
  BY HashTableAssumption DEF FirstStop, StopsAt, Occupied, Stored, HashTableAssumption
<1>2. e \in Entry /\ e.key = k /\ e.value = v /\ k \notin {NULL, DEAD}
  BY HashTableAssumption DEF Entry, HashTableAssumption
<1>3. /\ TableOK(u) /\ u.size = s /\ u.capacity = c
      /\ u.body[i] = e /\ \A j \in Slots(c) \ {i} : u.body[j] = t.body[j]
  BY <1>1, <1>2, ChangedIs
<1> HIDE DEF u, e
<1>4. Stored(u) = Stored(t) \cup {i}
  BY <1>1, <1>2, <1>3 DEF Stored, Occupied
<1>5. c \in Nat /\ c > 0 /\ Stored(t) \subseteq Slots(c)
      /\ \A j \in Stored(t) : t.body[j].key \in Keys
  BY DEF TableOK, INITIAL_CAPACITY, Stored, Occupied, Entry
<1>6. ASSUME NEW j \in Stored(t)
      PROVE  /\ H[t.body[j].key] \in Nat
             /\ ~(Dist(H[t.body[j].key], c, i) < Dist(H[t.body[j].key], c, j))
  BY <1>1, <1>5 DEF Chain, StopsAt
<1>7. ASSUME NEW h \in Nat, NEW j \in Slots(c)
      PROVE  Dist(h, c, j) \in Nat
  <2>1. Dist(h, c, j) \in Slots(c)
    BY <1>5, ProbeIsAtDist
  <2> QED BY <1>5, <2>1 DEF Slots
<1>8. ASSUME NEW h \in Nat, NEW j \in Slots(c), NEW m \in Slots(c), Dist(h, c, j) = Dist(h, c, m)
      PROVE  j = m
  <2>1. (h + Dist(h, c, j)) % c = j /\ (h + Dist(h, c, m)) % c = m
    BY <1>5, ProbeIsAtDist
  <2> QED BY <1>8, <2>1
<1>9. ASSUME NEW j \in Stored(t) PROVE t.body[j].key # k
  <2> SUFFICES ASSUME t.body[j].key = k PROVE FALSE
    OBVIOUS
  <2>1. StopsAt(t, k, j) /\ j \in Slots(c) /\ j # i
    BY <1>1, <1>5 DEF StopsAt
  <2>2. ~(Dist(H[k], c, j) < Dist(H[k], c, i)) /\ ~(Dist(H[k], c, i) < Dist(H[k], c, j))
    BY <1>1, <1>6, <2>1
  <2>3. Dist(H[k], c, j) = Dist(H[k], c, i)
    BY <1>1, <1>7, <2>1, <2>2
  <2> QED BY <1>1, <1>8, <2>1, <2>3
<1>10. ASSUME NEW m \in Stored(u), NEW j \in Slots(u.capacity),
              Dist(H[u.body[m].key], u.capacity, j) < Dist(H[u.body[m].key], u.capacity, m)
       PROVE  ~StopsAt(u, u.body[m].key, j)
  <2>1. CASE m = i
    <3>1. u.body[m].key = k /\ Dist(H[k], c, j) < Dist(H[k], c, i)
      BY <1>2, <1>3, <1>10, <2>1
    <3>2. j # i
      BY <1>1, <1>7, <3>1
    <3> QED BY <1>1, <1>3, <3>1, <3>2 DEF StopsAt
  <2>2. CASE m # i
    <3>1. m \in Stored(t) /\ u.body[m] = t.body[m] /\ j \in Slots(c)
          /\ Dist(H[t.body[m].key], c, j) < Dist(H[t.body[m].key], c, m)
      BY <1>3, <1>4, <1>5, <1>10, <2>2
    <3>2. ~StopsAt(t, t.body[m].key, j)
      BY <3>1 DEF Chain
    <3>3. j # i
      BY <1>6, <3>1
    <3> QED BY <1>3, <3>1, <3>2, <3>3 DEF StopsAt
  <2> QED BY <2>1, <2>2
<1>11. TableEntries(u) = TableEntries(t) \cup {e}
  <2>1. \A j \in Stored(t) : u.body[j] = t.body[j]
    BY <1>1, <1>3, <1>5
  <2> QED BY <1>3, <1>4, <2>1 DEF TableEntries
<1>12. \A d \in TableEntries(t) : d.key # k
  BY <1>9 DEF TableEntries
<1>13. Chain(H, u)
  BY <1>10 DEF Chain
<1> QED BY <1>1, <1>3, <1>4, <1>11, <1>12, <1>13 DEF u, e

\* The slot of a key gets another value, or becomes a tombstone.
LEMMA ReplaceKeeps ==
  ASSUME NEW t, TableOK(t), NEW H, Chain(H, t), NEW k \in Keys, H[k] \in Nat,
         \A j \in Slots(t.capacity) : t.body[j].key \in Keys => H[t.body[j].key] \in Nat,
         NEW i \in Slots(t.capacity), t.body[i].key = k, NEW s \in Int,
         NEW e \in Entry, e.key = k \/ (e.key = DEAD /\ e.value = NULL)
  PROVE  LET u == Changed(t, s, i, e)
         IN  /\ TableOK(u) /\ Chain(H, u)
             /\ Stored(u) = IF e.key = k THEN Stored(t) ELSE Stored(t) \ {i}
             /\ TableEntries(u) = {d \in TableEntries(t) : d.key # k}
                                    \cup (IF e.key = k THEN {e} ELSE {})
             /\ i \in Stored(t)
<1> DEFINE u == Changed(t, s, i, e)
           c == t.capacity
<1>1. k \notin {NULL, DEAD}
  BY HashTableAssumption DEF HashTableAssumption
<1>2. /\ TableOK(u) /\ u.size = s /\ u.capacity = c
      /\ u.body[i] = e /\ \A j \in Slots(c) \ {i} : u.body[j] = t.body[j]
  BY <1>1, ChangedIs
<1> HIDE DEF u
<1>3. i \in Stored(t) /\ Stored(u) = IF e.key = k THEN Stored(t) ELSE Stored(t) \ {i}
  BY <1>1, <1>2 DEF Stored, Occupied
<1>4. c \in Nat /\ c > 0 /\ Stored(t) \subseteq Slots(c)
      /\ \A j \in Stored(t) : t.body[j].key \in Keys
  BY DEF TableOK, INITIAL_CAPACITY, Stored, Occupied, Entry
<1>5. ASSUME NEW j \in Stored(t), t.body[j].key = k PROVE j = i
  <2>1. FirstStop(H, t, k, j) /\ FirstStop(H, t, k, i)
    BY <1>3, <1>4, <1>5 DEF FirstStop, Chain, StopsAt
  <2> QED BY <2>1, FirstStopIsOne
<1>6. ASSUME NEW m \in Stored(u), NEW j \in Slots(u.capacity),
             Dist(H[u.body[m].key], u.capacity, j) < Dist(H[u.body[m].key], u.capacity, m)
      PROVE  ~StopsAt(u, u.body[m].key, j)
  <2>1. m \in Stored(t) /\ u.body[m].key = t.body[m].key /\ j \in Slots(c)
    <3>1. CASE m = i
      BY <1>2, <1>3, <1>6, <3>1
    <3>2. CASE m # i
      BY <1>2, <1>3, <1>4, <1>6, <3>2
    <3> QED BY <3>1, <3>2
  <2>2. ~StopsAt(t, t.body[m].key, j)
    BY <1>2, <1>6, <2>1 DEF Chain
  <2>3. u.body[j].key \in {t.body[j].key, DEAD}
    BY <1>2, <2>1
  <2>4. t.body[m].key # DEAD
    BY <1>4, <2>1, HashTableAssumption DEF HashTableAssumption
  <2> QED BY <2>1, <2>2, <2>3, <2>4, HashTableAssumption DEF StopsAt, HashTableAssumption
<1>7. TableEntries(u) = {d \in TableEntries(t) : d.key # k} \cup (IF e.key = k THEN {e} ELSE {})
  <2>1. {d \in TableEntries(t) : d.key # k} = {t.body[j] : j \in Stored(t) \ {i}}
    BY <1>5 DEF TableEntries
  <2>2. \A j \in Stored(t) \ {i} : u.body[j] = t.body[j]
    BY <1>2, <1>4
  <2>3. TableEntries(u) = {t.body[j] : j \in Stored(t) \ {i}} \cup (IF e.key = k THEN {e} ELSE {})
    BY <1>2, <1>3, <2>2 DEF TableEntries
  <2> QED BY <2>1, <2>3
<1>8. Chain(H, u)
  BY <1>6 DEF Chain
<1> QED BY <1>2, <1>3, <1>7, <1>8 DEF u

LEMMA EmptyKeeps ==
  ASSUME NEW s \in Int, NEW c \in Nat, c >= INITIAL_CAPACITY, NEW H
  PROVE  LET u == [size |-> s, capacity |-> c, body |-> EmptyBody(c)]
         IN  TableOK(u) /\ Chain(H, u) /\ Stored(u) = {} /\ TableEntries(u) = {}
             /\ \A i \in Slots(c) : u.body[i].key = NULL
<1> DEFINE u == [size |-> s, capacity |-> c, body |-> EmptyBody(c)]
<1>1. /\ u.size = s /\ u.capacity = c /\ u.body \in [Slots(c) -> Entry]
      /\ \A i \in Slots(c) : u.body[i].key = NULL /\ u.body[i].value = NULL
      /\ u = [size |-> u.size, capacity |-> u.capacity, body |-> u.body]
  BY DEF EmptyBody, Entry
<1> HIDE DEF u
<1>2. Stored(u) = {}
  BY <1>1 DEF Stored, Occupied
<1>3. TableOK(u)
  BY <1>1 DEF TableOK
<1> QED BY <1>1, <1>2, <1>3 DEF Chain, TableEntries, u

\* A table that is not full and has no tombstone ends every search.
LEMMA RoomEndsSearch ==
  ASSUME NEW t, TableOK(t), Cardinality(Stored(t)) <= t.size, ~TooFull(t),
         \A i \in Slots(t.capacity) : t.body[i].key # DEAD
  PROVE  \A k : SlotAvailable(t, k)
<1>1. /\ t.capacity \in Nat /\ t.size \in Int /\ Slots(t.capacity) = 0 .. t.capacity - 1
      /\ t.capacity > 0
  BY DEF TableOK, Slots, INITIAL_CAPACITY
<1>2. IsFiniteSet(Slots(t.capacity)) /\ Cardinality(Slots(t.capacity)) = t.capacity
  BY <1>1, FS_Interval
<1>3. t.size < t.capacity
  BY <1>1 DEF TooFull
<1>4. Stored(t) # Slots(t.capacity)
  BY <1>1, <1>2, <1>3
<1>5. PICK i \in Slots(t.capacity) : t.body[i].key = NULL
  BY <1>4 DEF Stored, Occupied
<1> QED BY <1>5 DEF SlotAvailable, StopsAt

LEMMA StoredIsFinite ==
  ASSUME NEW t, TableOK(t)
  PROVE  IsFiniteSet(Stored(t)) /\ Cardinality(Stored(t)) \in Nat
<1>1. IsFiniteSet(Slots(t.capacity))
  <2>1. t.capacity - 1 \in Int
    BY DEF TableOK
  <2> QED BY <2>1, FS_Interval DEF Slots
<1>2. IsFiniteSet(Stored(t))
  BY <1>1, FS_Subset DEF Stored
<1> QED BY <1>2, FS_CardinalityType

-----------------------------------------------------------------------------
(* The invariant *)

Frame == [key : Keys, value : Values \cup {NULL},
          old : UNION {[Slots(c) -> Entry] : c \in Nat}, left : SUBSET Nat]

\* What a resize in progress has in hand: no key twice.
FrameEntries(f) == {[key |-> f.key, value |-> f.value]} \cup {f.old[i] : i \in f.left}

FrameOK(f) ==
  /\ f.left \subseteq DOMAIN f.old
  /\ \A i \in f.left : f.old[i].key \in Keys \ {f.key}
  /\ \A i, j \in f.left : f.old[i].key = f.old[j].key => i = j

\* No key is in two places.
Apart(t, z) ==
  /\ \A m, n \in 1 .. Len(z) : m # n =>
       \A d \in FrameEntries(z[m]), e \in FrameEntries(z[n]) : d.key # e.key
  /\ \A n \in 1 .. Len(z) :
       \A d \in FrameEntries(z[n]), e \in TableEntries(t) : d.key # e.key

\* A table t under the resizes z, with the hash function H.
TableInv(H, t, z) ==
  /\ TableOK(t) /\ Chain(H, t)
  /\ z \in Seq(Frame)
  /\ \A n \in 1 .. Len(z) : FrameOK(z[n])
  /\ Apart(t, z)
  /\ Cardinality(Stored(t)) + Len(z) <= t.size
  /\ ~TooFull(t)
  /\ z # <<>> => \A i \in Slots(t.capacity) : t.body[i].key # DEAD

Waiting(z) == UNION {FrameEntries(z[n]) : n \in 1 .. Len(z)}
EntriesOf(t, z) == TableEntries(t) \cup Waiting(z)

\* A get that has found its entry will read a value its key had, unless the
\* table was resized.
ReaderInv(g) ==
  \/ /\ g \in [at : {"idle"}, result : Values \cup {NULL},
               seen : SUBSET (Values \cup {NULL}), resized : BOOLEAN]
     /\ ~g.resized => g.result \in g.seen
  \/ /\ g \in [at : {"found"}, key : Keys, index : Nat,
               seen : SUBSET (Values \cup {NULL}), resized : BOOLEAN]
     /\ g.index \in Slots(table.capacity)
     /\ ~g.resized => /\ Unlocked
                      /\ table.body[g.index].key \in {g.key, DEAD}
                      /\ table.body[g.index].value \in g.seen

MapInv ==
  /\ hash \in [Keys -> HashValues]
  /\ TableInv(hash, table, resizing)

HashInv ==
  /\ MapInv
  /\ spinning \in BOOLEAN /\ (spinning => Unlocked)
  /\ getting = [r \in Readers |-> getting[r]]
  /\ \A r \in Readers : ReaderInv(getting[r])

\* Which value each key has, whichever way it is found.
ContentsAre ==
  /\ \A k \in Keys : Contents[k] \in Values \cup {NULL}
  /\ \A e \in EntriesOf(table, resizing) : e.key \in Keys /\ Contents[e.key] = e.value
  /\ \A k \in Keys : (\A e \in EntriesOf(table, resizing) : e.key # k) => Contents[k] = NULL

LEMMA HashesAreNat == MapInv => \A k \in Keys : hash[k] \in Nat
BY HashTableAssumption DEF MapInv, HashTableAssumption

LEMMA TableEntriesAre ==
  ASSUME NEW t, TableOK(t), NEW H, Chain(H, t), \A k \in Keys : H[k] \in Nat
  PROVE  /\ \A i \in Stored(t) : i \in Slots(t.capacity) /\ t.body[i] \in Entry
                                 /\ t.body[i].key \in Keys
         /\ \A i \in Stored(t) : FirstStop(H, t, t.body[i].key, i)
         /\ \A i, j \in Stored(t) : t.body[i].key = t.body[j].key => i = j
<1>1. ASSUME NEW i \in Stored(t)
      PROVE  i \in Slots(t.capacity) /\ t.body[i] \in Entry /\ t.body[i].key \in Keys
  BY DEF Stored, TableOK, Occupied, Entry
<1>2. ASSUME NEW i \in Stored(t) PROVE FirstStop(H, t, t.body[i].key, i)
  BY <1>1 DEF FirstStop, StopsAt, Chain
<1>3. ASSUME NEW i \in Stored(t), NEW j \in Stored(t), t.body[i].key = t.body[j].key
      PROVE  i = j
  <2>1. FirstStop(H, t, t.body[i].key, i) /\ FirstStop(H, t, t.body[i].key, j)
    BY <1>2, <1>3
  <2>2. H[t.body[i].key] \in Nat
    BY <1>1
  <2> QED BY <2>1, <2>2, FirstStopIsOne
<1> QED BY <1>1, <1>2, <1>3

\* A stored key is where its search ends.
LEMMA StoredIsFound ==
  ASSUME NEW t, TableOK(t), Chain(hash, t), \A k \in Keys : hash[k] \in Nat, NEW i \in Stored(t)
  PROVE  SlotAvailable(t, t.body[i].key) /\ FindSlot(t, t.body[i].key) = i
<1> DEFINE k == t.body[i].key
<1>1. i \in Slots(t.capacity) /\ k \in Keys /\ FirstStop(hash, t, k, i)
  BY TableEntriesAre
<1>2. SlotAvailable(t, k)
  BY <1>1 DEF SlotAvailable, FirstStop
<1> HIDE DEF k
<1>3. FirstStop(hash, t, k, FindSlot(t, k))
  BY <1>1, <1>2, FindSlotIs
<1>4. FindSlot(t, k) = i
  BY <1>1, <1>3, FirstStopIsOne
<1> QED BY <1>2, <1>4 DEF k

\* Entries are entries, and no two have the same key.
LEMMA EntriesAre ==
  ASSUME NEW H, NEW t, NEW z, TableInv(H, t, z), \A k \in Keys : H[k] \in Nat
  PROVE  /\ \A n \in 1 .. Len(z) : z[n] \in Frame /\ FrameEntries(z[n]) \subseteq Entry
         /\ \A e \in EntriesOf(t, z) : e \in Entry /\ e.key \in Keys
         /\ \A d, e \in EntriesOf(t, z) : d.key = e.key => d = e
<1>1. ASSUME NEW n \in 1 .. Len(z)
      PROVE  /\ z[n] \in Frame
             /\ \A e \in FrameEntries(z[n]) : e \in Entry /\ e.key \in Keys
             /\ \A d, e \in FrameEntries(z[n]) : d.key = e.key => d = e
  <2>1. z[n] \in Frame /\ FrameOK(z[n])
    BY DEF TableInv
  <2>2. PICK c \in Nat : z[n].old \in [Slots(c) -> Entry]
    BY <2>1 DEF Frame
  <2>3. \A i \in z[n].left : z[n].old[i] \in Entry /\ z[n].old[i].key \in Keys \ {z[n].key}
    BY <2>1, <2>2 DEF FrameOK
  <2>4. z[n].key \in Keys /\ z[n].value \in Values \cup {NULL}
    BY <2>1 DEF Frame
  <2>5. \A e \in FrameEntries(z[n]) : e \in Entry /\ e.key \in Keys
    BY <2>3, <2>4 DEF FrameEntries, Entry
  <2>6. \A d, e \in FrameEntries(z[n]) : d.key = e.key => d = e
    BY <2>1, <2>3 DEF FrameEntries, FrameOK
  <2> QED BY <2>1, <2>5, <2>6
<1>2. /\ \A e \in TableEntries(t) : e \in Entry /\ e.key \in Keys
      /\ \A d, e \in TableEntries(t) : d.key = e.key => d = e
  <2>1. TableOK(t) /\ Chain(H, t)
    BY DEF TableInv
  <2>2. /\ \A i \in Stored(t) : t.body[i] \in Entry /\ t.body[i].key \in Keys
        /\ \A i, j \in Stored(t) : t.body[i].key = t.body[j].key => i = j
    BY <2>1, TableEntriesAre
  <2> QED BY <2>2 DEF TableEntries
<1>3. Apart(t, z)
  BY DEF TableInv
<1>4. ASSUME NEW d \in EntriesOf(t, z), NEW e \in EntriesOf(t, z), d.key = e.key PROVE d = e
  <2>1. CASE d \in TableEntries(t) /\ e \in TableEntries(t)
    BY <1>2, <1>4, <2>1
  <2>2. CASE d \in TableEntries(t) /\ e \notin TableEntries(t)
    BY <1>3, <1>4, <2>2 DEF Apart, EntriesOf, Waiting
  <2>3. CASE d \notin TableEntries(t) /\ e \in TableEntries(t)
    BY <1>3, <1>4, <2>3 DEF Apart, EntriesOf, Waiting
  <2>4. CASE d \notin TableEntries(t) /\ e \notin TableEntries(t)
    <3>1. PICK m \in 1 .. Len(z) : d \in FrameEntries(z[m])
      BY <2>4 DEF EntriesOf, Waiting
    <3>2. PICK n \in 1 .. Len(z) : e \in FrameEntries(z[n])
      BY <2>4 DEF EntriesOf, Waiting
    <3>3. m = n
      BY <1>3, <1>4, <3>1, <3>2 DEF Apart
    <3> QED BY <1>1, <1>4, <3>1, <3>2, <3>3
  <2> QED BY <2>1, <2>2, <2>3, <2>4
<1> QED BY <1>1, <1>2, <1>4 DEF EntriesOf, Waiting

LEMMA InvContentsAre == MapInv => ContentsAre
<1> SUFFICES ASSUME MapInv PROVE ContentsAre
  OBVIOUS
<1>1. /\ TableInv(hash, table, resizing) /\ TableOK(table) /\ Chain(hash, table)
      /\ resizing \in Seq(Frame) /\ \A k \in Keys : hash[k] \in Nat
  BY HashesAreNat DEF MapInv, TableInv
<1>2. /\ \A e \in EntriesOf(table, resizing) : e \in Entry /\ e.key \in Keys
      /\ \A d, e \in EntriesOf(table, resizing) : d.key = e.key => d = e
  BY <1>1, EntriesAre
<1>3. InFlight = Waiting(resizing)
  <2>1. DOMAIN resizing = 1 .. Len(resizing)
    BY <1>1
  <2> QED BY <2>1 DEF InFlight, Waiting, FrameEntries
<1>4. ASSUME NEW k \in Keys
      PROVE  /\ \A e \in EntriesOf(table, resizing) : e.key = k => Contents[k] = e.value
             /\ (\A e \in EntriesOf(table, resizing) : e.key # k) => Contents[k] = NULL
  <2> DEFINE waiting == {e \in InFlight : e.key = k}
  <2>1. Contents[k] = IF waiting = {} THEN Lookup(table, k) ELSE (CHOOSE e \in waiting : TRUE).value
    BY DEF Contents
  <2>2. CASE waiting # {}
    <3> DEFINE w == CHOOSE e \in waiting : TRUE
    <3>1. w \in waiting
      BY <2>2
    <3>2. w \in EntriesOf(table, resizing) /\ w.key = k
      BY <1>3, <3>1 DEF EntriesOf
    <3> QED BY <1>2, <2>1, <2>2, <3>2
  <2>3. CASE waiting = {}
    <3>1. Contents[k] = Lookup(table, k)
      BY <2>1, <2>3
    <3>2. ASSUME NEW i \in Stored(table), table.body[i].key = k
          PROVE  Contents[k] = table.body[i].value
      BY <1>1, <3>1, <3>2, StoredIsFound DEF Lookup
    <3>3. ASSUME \A i \in Stored(table) : table.body[i].key # k
          PROVE  Contents[k] = NULL
      <4>1. CASE SlotAvailable(table, k)
        <5>1. FirstStop(hash, table, k, FindSlot(table, k))
          BY <1>1, <4>1, FindSlotIs
        <5> DEFINE i == FindSlot(table, k)
        <5>2. i \in Slots(table.capacity) /\ table.body[i].key \in {NULL, k}
          BY <5>1 DEF FirstStop, StopsAt
        <5>3. ~Occupied(table, i)
          BY <3>3, <5>2 DEF Stored, Occupied
        <5> QED BY <1>1, <3>1, <4>1, <5>2, <5>3 DEF Lookup, TableOK
      <4>2. CASE ~SlotAvailable(table, k)
        BY <3>1, <4>2 DEF Lookup
      <4> QED BY <4>1, <4>2
    <3>4. \A e \in EntriesOf(table, resizing) : e.key = k => e \in TableEntries(table)
      BY <1>3, <2>3 DEF EntriesOf
    <3> QED BY <3>2, <3>3, <3>4 DEF TableEntries, EntriesOf
  <2> QED BY <2>2, <2>3
<1>5. \A e \in EntriesOf(table, resizing) : e.value \in Values \cup {NULL}
  BY <1>2 DEF Entry
<1> QED BY <1>2, <1>4, <1>5 DEF ContentsAre

-----------------------------------------------------------------------------
(* hashtable_set_NL within the resizes o *)

\* What a get in progress notices of a step from t to u: only of k.
Touches(t, u, k, v) ==
  /\ u.capacity = t.capacity
  /\ \A j \in Slots(t.capacity) :
       \/ u.body[j] = t.body[j]
       \/ t.body[j].key = NULL
       \/ t.body[j].key = k /\ u.body[j].key \in {k, DEAD} /\ u.body[j].value = v

IsStruct(t) == t = [size |-> t.size, capacity |-> t.capacity, body |-> t.body]

\* The table changes, and the resizes do not.
LEMMA SameResizes ==
  ASSUME NEW H, NEW t, NEW z, TableInv(H, t, z), \A k \in Keys : H[k] \in Nat,
         NEW u, TableOK(u), Chain(H, u), u.capacity = t.capacity,
         Cardinality(Stored(u)) + Len(z) <= u.size, ~TooFull(u),
         z # <<>> => \A i \in Slots(u.capacity) : u.body[i].key # DEAD,
         \A d \in Waiting(z), e \in TableEntries(u) : d.key # e.key
  PROVE  TableInv(H, u, z)
<1>1. Apart(u, z)
  BY DEF TableInv, Apart, Waiting
<1> QED BY <1>1 DEF TableInv

LEMMA PlaceKeeps ==
  ASSUME NEW o, TableInv(hash, table, o), \A k \in Keys : hash[k] \in Nat,
         NEW k \in Keys, NEW v \in Values \cup {NULL}, SlotAvailable(table, k),
         \A d \in Waiting(o) : d.key # k, Place(k, v, o)
  PROVE  /\ TableInv(hash, table', resizing')
         /\ EntriesOf(table', resizing') = {d \in EntriesOf(table, o) : d.key # k}
                                            \cup {[key |-> k, value |-> v]}
         /\ \/ table'.capacity > table.capacity
            \/ resizing' = o /\ Touches(table, table', k, v)
<1> DEFINE t == table
           i == FindSlot(t, k)
           grown == [t EXCEPT !.size = @ + 1]
           e == [key |-> k, value |-> v]
<1>1. /\ TableOK(t) /\ Chain(hash, t) /\ o \in Seq(Frame) /\ Apart(t, o)
      /\ Cardinality(Stored(t)) + Len(o) <= t.size /\ ~TooFull(t) /\ TableInv(hash, t, o)
  BY DEF TableInv
<1>2. FirstStop(hash, t, k, i)
  BY <1>1, FindSlotIs
<1> HIDE DEF t, i, grown, e
<1>3. i \in Slots(t.capacity) /\ t.body[i].key \in {NULL, k} /\ k \notin {NULL, DEAD}
  BY <1>2, HashTableAssumption DEF FirstStop, StopsAt, HashTableAssumption
<1>4. /\ t.size \in Int /\ t.capacity \in Nat /\ t.capacity >= 4 /\ t.body[i] \in Entry
      /\ t.body \in [Slots(t.capacity) -> Entry]
  BY <1>1, <1>3 DEF TableOK, INITIAL_CAPACITY
<1>5. \A j \in Slots(t.capacity) : t.body[j].key \in Keys => hash[t.body[j].key] \in Nat
  OBVIOUS
<1>6. e \in Entry /\ e.key = k /\ e.value = v
  BY <1>3 DEF Entry, e
<1>7. Len(o) \in Nat /\ IsFiniteSet(Stored(t)) /\ Cardinality(Stored(t)) \in Nat
  BY <1>1, StoredIsFinite
<1>8. o # <<>> => \A j \in Slots(t.capacity) : t.body[j].key # DEAD
  BY <1>1 DEF TableInv
<1>9. {d \in Waiting(o) : d.key # k} = Waiting(o)
  OBVIOUS
<1>13. /\ Store(grown, i, k, v) = Changed(t, t.size + 1, i, e) /\ grown.size = t.size + 1
       /\ TooFull(grown) <=> 10 * (t.size + 1) > 8 * t.capacity
       /\ [t EXCEPT !.body[i].value = v] = Changed(t, t.size, i, [t.body[i] EXCEPT !.value = v])
  <2>1. IsStruct(t)
    BY <1>1 DEF TableOK, IsStruct
  <2>2. grown = [size |-> t.size + 1, capacity |-> t.capacity, body |-> t.body]
    BY <2>1 DEF IsStruct, grown
  <2>3. Store(grown, i, k, v) = Changed(t, t.size + 1, i, e)
    BY <2>2 DEF Store, Changed, e
  <2>4. [t EXCEPT !.body[i].value = v] = Changed(t, t.size, i, [t.body[i] EXCEPT !.value = v])
    BY <2>1 DEF Changed, IsStruct
  <2>5. grown.size = t.size + 1 /\ grown.capacity = t.capacity
    BY <2>2
  <2> QED BY <2>3, <2>4, <2>5 DEF TooFull
<1>10. CASE Occupied(t, i) /\ table' = [t EXCEPT !.body[i].value = v] /\ resizing' = o
  <2> DEFINE u == Changed(t, t.size, i, e)
  <2>1. t.body[i].key = k
    BY <1>3, <1>10 DEF Occupied
  <2>2. table' = Changed(t, t.size, i, [t.body[i] EXCEPT !.value = v])
    BY <1>10, <1>13, Zenon
  <2>3. [t.body[i] EXCEPT !.value = v] = e
    BY <1>4, <2>1 DEF Entry, e
  <2>4. table' = u
    BY <2>2, <2>3
  <2>5. /\ TableOK(u) /\ Chain(hash, u) /\ Stored(u) = Stored(t)
        /\ TableEntries(u) = {d \in TableEntries(t) : d.key # k} \cup {e}
    BY <1>1, <1>3, <1>4, <1>5, <1>6, <2>1, ReplaceKeeps
  <2>6. /\ u.size = t.size /\ u.capacity = t.capacity /\ u.body[i] = e
        /\ \A j \in Slots(t.capacity) \ {i} : u.body[j] = t.body[j]
    BY <1>1, <1>3, <1>4, <1>6, ChangedIs
  <2> HIDE DEF u
  <2>7. Touches(t, u, k, v)
    BY <1>6, <2>1, <2>6 DEF Touches
  <2>8. \A d \in Waiting(o), b \in TableEntries(u) : d.key # b.key
    BY <1>1, <1>6, <2>5 DEF Apart, Waiting
  <2>9. ~TooFull(u)
    BY <1>1, <2>6 DEF TooFull
  <2>10. o # <<>> => \A j \in Slots(u.capacity) : u.body[j].key # DEAD
    BY <1>3, <1>6, <1>8, <2>6
  <2>11. TableInv(hash, u, o)
    BY <1>1, <2>5, <2>6, <2>8, <2>9, <2>10, SameResizes
  <2>12. EntriesOf(u, o) = {d \in EntriesOf(t, o) : d.key # k} \cup {e}
    BY <1>9, <2>5 DEF EntriesOf
  <2> QED BY <1>10, <2>4, <2>7, <2>11, <2>12 DEF t, e
<1>11. CASE ~Occupied(t, i) /\ ~TooFull(grown) /\ table' = Store(grown, i, k, v) /\ resizing' = o
  <2> DEFINE u == Changed(t, t.size + 1, i, e)
  <2>1. table' = u /\ (TooFull(grown) <=> 10 * (t.size + 1) > 8 * t.capacity)
    BY <1>11, <1>13, Zenon
  <2>2. /\ TableOK(u) /\ Chain(hash, u) /\ i \notin Stored(t) /\ Stored(u) = Stored(t) \cup {i}
        /\ \A d \in TableEntries(t) : d.key # k
        /\ TableEntries(u) = TableEntries(t) \cup {e} /\ t.body[i].key = NULL
    <3>1. t.size + 1 \in Int
      BY <1>4
    <3> QED BY <1>1, <1>2, <1>5, <1>11, <3>1, StoreKeeps DEF e
  <2>3. /\ u.size = t.size + 1 /\ u.capacity = t.capacity /\ u.body[i] = e
        /\ \A j \in Slots(t.capacity) \ {i} : u.body[j] = t.body[j]
    <3>1. t.size + 1 \in Int
      BY <1>4
    <3> QED BY <1>1, <1>3, <1>6, <3>1, ChangedIs
  <2> HIDE DEF u
  <2>4. Touches(t, u, k, v)
    BY <2>2, <2>3 DEF Touches
  <2>5. \A d \in Waiting(o), b \in TableEntries(u) : d.key # b.key
    BY <1>1, <1>6, <2>2 DEF Apart, Waiting
  <2>6. ~TooFull(u)
    BY <1>11, <2>1, <2>3 DEF TooFull
  <2>7. o # <<>> => \A j \in Slots(u.capacity) : u.body[j].key # DEAD
    BY <1>3, <1>6, <1>8, <2>3
  <2>8. Cardinality(Stored(u)) = Cardinality(Stored(t)) + 1
    BY <1>7, <2>2, FS_AddElement
  <2>9. Cardinality(Stored(u)) + Len(o) <= u.size
    BY <1>1, <1>4, <1>7, <2>3, <2>8
  <2>10. TableInv(hash, u, o)
    BY <1>1, <2>2, <2>3, <2>5, <2>6, <2>7, <2>9, SameResizes
  <2>11. EntriesOf(u, o) = {d \in EntriesOf(t, o) : d.key # k} \cup {e}
    BY <1>9, <2>2 DEF EntriesOf
  <2> QED BY <1>11, <2>1, <2>4, <2>10, <2>11 DEF t, e
<1>12. CASE /\ ~Occupied(t, i) /\ TooFull(grown)
            /\ table' = [size |-> grown.size, capacity |-> 2 * t.capacity,
                         body |-> EmptyBody(2 * t.capacity)]
            /\ resizing' = Append(o, [key |-> k, value |-> v, old |-> t.body, left |-> Stored(t)])
  <2> DEFINE c == 2 * t.capacity
             u == [size |-> t.size + 1, capacity |-> c, body |-> EmptyBody(c)]
             f == [key |-> k, value |-> v, old |-> t.body, left |-> Stored(t)]
             z == Append(o, f)
  <2>1. grown.size = t.size + 1
    BY <1>13
  <2>2. table' = u /\ resizing' = z
    BY <1>12, <2>1
  <2>3. c \in Nat /\ c >= INITIAL_CAPACITY /\ c > t.capacity /\ t.size + 1 \in Int
    BY <1>4 DEF INITIAL_CAPACITY
  <2>4. /\ TableOK(u) /\ Chain(hash, u) /\ Stored(u) = {} /\ TableEntries(u) = {}
        /\ \A j \in Slots(c) : u.body[j].key = NULL
    <3> HIDE DEF c
    <3> QED BY <2>3, EmptyKeeps
  <2>5. u.size = t.size + 1 /\ u.capacity = c
    OBVIOUS
  <2>6. \A d \in TableEntries(t) : d.key # k
    BY <1>1, <1>2, <1>4, <1>5, <1>12, StoreKeeps
  <2>7. /\ Stored(t) \subseteq Nat /\ Stored(t) \subseteq DOMAIN t.body
        /\ \A j \in Stored(t) : t.body[j].key \in Keys
        /\ \A j, m \in Stored(t) : t.body[j].key = t.body[m].key => j = m
    BY <1>1, <1>4, TableEntriesAre DEF Slots
  <2>8. f.key = k /\ f.value = v /\ f.old = t.body /\ f.left = Stored(t)
    OBVIOUS
  <2>9. f \in Frame
    BY <1>4, <2>7 DEF Frame
  <2> HIDE DEF u, f
  <2>10. FrameEntries(f) = TableEntries(t) \cup {e}
    BY <2>8 DEF FrameEntries, TableEntries, e
  <2>11. FrameOK(f)
    <3>1. \A j \in Stored(t) : t.body[j].key # k
      BY <2>6 DEF TableEntries
    <3> QED BY <2>7, <2>8, <3>1 DEF FrameOK
  <2>12. /\ z \in Seq(Frame) /\ Len(z) = Len(o) + 1 /\ z[Len(o) + 1] = f
         /\ \A m \in 1 .. Len(o) : z[m] = o[m]
    BY <1>1, <2>9
  <2> HIDE DEF z
  <2>13. 1 .. Len(z) = (1 .. Len(o)) \cup {Len(o) + 1}
    BY <1>7, <2>12
  <2>14. \A m \in 1 .. Len(z) : FrameOK(z[m])
    BY <2>11, <2>12, <2>13 DEF TableInv
  <2>15. Waiting(z) = Waiting(o) \cup FrameEntries(f)
    BY <2>12, <2>13 DEF Waiting
  <2>16. \A d \in Waiting(o), b \in FrameEntries(f) : d.key # b.key
    BY <1>1, <1>6, <2>10 DEF Apart, Waiting
  <2>17. ASSUME NEW m \in 1 .. Len(z), NEW n \in 1 .. Len(z), m # n,
                NEW d \in FrameEntries(z[m]), NEW b \in FrameEntries(z[n])
         PROVE  d.key # b.key
    <3>1. CASE m \in 1 .. Len(o) /\ n \in 1 .. Len(o)
      BY <1>1, <2>12, <2>17, <3>1 DEF Apart
    <3>2. CASE m \in 1 .. Len(o) /\ n = Len(o) + 1
      BY <2>12, <2>16, <2>17, <3>2 DEF Waiting
    <3>3. CASE m = Len(o) + 1 /\ n \in 1 .. Len(o)
      BY <2>12, <2>16, <2>17, <3>3 DEF Waiting
    <3> QED BY <2>13, <2>17, <3>1, <3>2, <3>3
  <2>18. Apart(u, z)
    BY <2>4, <2>17 DEF Apart
  <2>19. ~TooFull(u)
    BY <1>1, <1>4, <2>5 DEF TooFull
  <2>20. Cardinality(Stored(u)) + Len(z) <= u.size
    BY <1>1, <1>4, <1>7, <2>4, <2>5, <2>12, FS_EmptySet
  <2>21. \A j \in Slots(u.capacity) : u.body[j].key # DEAD
    BY <2>4, <2>5, HashTableAssumption DEF HashTableAssumption
  <2>22. TableInv(hash, u, z)
    BY <2>4, <2>12, <2>14, <2>18, <2>19, <2>20, <2>21 DEF TableInv
  <2>23. EntriesOf(u, z) = {d \in EntriesOf(t, o) : d.key # k} \cup {e}
    BY <1>9, <2>4, <2>6, <2>10, <2>15 DEF EntriesOf
  <2> QED BY <2>2, <2>3, <2>5, <2>22, <2>23 DEF t, e
<1> QED BY <1>10, <1>11, <1>12 DEF Place, i, t, grown, e


-----------------------------------------------------------------------------
(* The steps of a resize *)

LEMMA FrameIs ==
  ASSUME NEW f \in Frame
  PROVE  /\ f = [key |-> f.key, value |-> f.value, old |-> f.old, left |-> f.left]
         /\ f.key \in Keys /\ f.value \in Values \cup {NULL} /\ f.left \in SUBSET Nat
BY DEF Frame

LEMMA DropIs ==
  ASSUME NEW f \in Frame, NEW i
  PROVE  LET g == [f EXCEPT !.left = @ \ {i}]
         IN  /\ g \in Frame /\ g.key = f.key /\ g.value = f.value /\ g.old = f.old
             /\ g.left = f.left \ {i}
<1> DEFINE g == [f EXCEPT !.left = @ \ {i}]
<1>1. g = [key |-> f.key, value |-> f.value, old |-> f.old, left |-> f.left \ {i}]
  BY FrameIs
<1> HIDE DEF g
<1>2. g.key = f.key /\ g.value = f.value /\ g.old = f.old /\ g.left = f.left \ {i}
  BY <1>1
<1>3. g \in Frame
  BY <1>1, FrameIs DEF Frame
<1> QED BY <1>2, <1>3 DEF g

LEMMA ReplaceFrame ==
  ASSUME NEW z \in Seq(Frame), NEW n \in 1 .. Len(z), NEW g \in Frame
  PROVE  /\ [z EXCEPT ![n] = g] \in Seq(Frame)
         /\ Len([z EXCEPT ![n] = g]) = Len(z) /\ [z EXCEPT ![n] = g][n] = g
         /\ \A m \in 1 .. Len(z) : m # n => [z EXCEPT ![n] = g][m] = z[m]
OBVIOUS

LEMMA FrontIs ==
  ASSUME NEW z \in Seq(Frame), z # <<>>
  PROVE  /\ SubSeq(z, 1, Len(z) - 1) \in Seq(Frame) /\ Len(z) \in Nat /\ Len(z) > 0
         /\ Len(SubSeq(z, 1, Len(z) - 1)) = Len(z) - 1
         /\ \A m \in 1 .. Len(z) - 1 : SubSeq(z, 1, Len(z) - 1)[m] = z[m]
<1> DEFINE n == Len(z)
           o == SubSeq(z, 1, n - 1)
<1>1. n \in Nat /\ n > 0 /\ \A m \in 1 .. n - 1 : z[m] \in Frame
  OBVIOUS
<1> HIDE DEF n
<1>2. 1 \in Int /\ n - 1 \in Int /\ \A m \in 1 .. n - 1 : z[m] \in Frame
  BY <1>1
<1>3. /\ o \in Seq(Frame) /\ Len(o) = IF 1 <= n - 1 THEN n - 1 - 1 + 1 ELSE 0
      /\ \A m \in 1 .. n - 1 - 1 + 1 : o[m] = z[1 + m - 1]
  BY <1>2, SubSeqProperties
<1> HIDE DEF o
<1>4. Len(o) = n - 1
  BY <1>1, <1>3
<1>5. \A m \in 1 .. n - 1 : m \in 1 .. n - 1 - 1 + 1 /\ 1 + m - 1 = m
  BY <1>1
<1>6. \A m \in 1 .. n - 1 : o[m] = z[m]
  BY <1>3, <1>5, Zenon
<1> QED BY <1>1, <1>3, <1>4, <1>6 DEF o, n

\* The entry that is moved next is nowhere else.
LEMMA DropKeeps ==
  ASSUME NEW H, NEW t, NEW z, TableInv(H, t, z), \A k \in Keys : H[k] \in Nat, z # <<>>,
         NEW i \in z[Len(z)].left,
         NEW o \in Seq(Frame), Len(o) = Len(z), NEW g \in Frame, o[Len(z)] = g,
         \A m \in 1 .. Len(z) : m # Len(z) => o[m] = z[m],
         g.key = z[Len(z)].key, g.value = z[Len(z)].value, g.old = z[Len(z)].old,
         g.left = z[Len(z)].left \ {i}
  PROVE  /\ TableInv(H, t, o) /\ Len(o) = Len(z) /\ Len(z) > 0
         /\ z[Len(z)].old[i] \in Entry /\ z[Len(z)].old[i].key \in Keys
         /\ \A d \in EntriesOf(t, o) : d.key # z[Len(z)].old[i].key
         /\ EntriesOf(t, z) = EntriesOf(t, o) \cup {z[Len(z)].old[i]}
<1> DEFINE n == Len(z)
           f == z[n]
           e == f.old[i]
<1>1. /\ z \in Seq(Frame) /\ n \in Nat /\ n > 0 /\ n \in 1 .. Len(z)
      /\ \A m \in 1 .. Len(z) : z[m] \in Frame /\ FrameOK(z[m])
      /\ Apart(t, z)
  BY DEF TableInv
<1>2. PICK c \in Nat : f.old \in [Slots(c) -> Entry]
  BY <1>1 DEF Frame
<1>3. /\ i \in f.left /\ f.key \in Keys /\ f.value \in Values \cup {NULL} /\ f.left \subseteq Nat
      /\ f.left \subseteq DOMAIN f.old
      /\ \A j \in f.left : f.old[j].key \in Keys \ {f.key}
      /\ \A j, m \in f.left : f.old[j].key = f.old[m].key => j = m
  BY <1>1 DEF Frame, FrameOK
<1>4. e \in Entry /\ e.key \in Keys /\ e.key # f.key
  BY <1>2, <1>3
<1>5. /\ o \in Seq(Frame) /\ Len(o) = n /\ o[n] = g /\ \A m \in 1 .. n : m # n => o[m] = z[m]
      /\ z[n] = f
  OBVIOUS
<1>6. g.key = f.key /\ g.value = f.value /\ g.old = f.old /\ g.left = f.left \ {i}
  OBVIOUS
<1> HIDE DEF f, e
<1>7. FrameEntries(f) = FrameEntries(g) \cup {e}
  BY <1>3, <1>6 DEF FrameEntries, e
<1>8. \A d \in FrameEntries(g) : d.key # e.key
  BY <1>3, <1>4, <1>6 DEF FrameEntries, e
<1>9. FrameOK(g)
  BY <1>3, <1>6 DEF FrameOK
<1>10. \A m \in 1 .. n : FrameEntries(o[m]) \subseteq FrameEntries(z[m])
  BY <1>5, <1>7
<1>11. Apart(t, o)
  <2>1. ASSUME NEW m \in 1 .. n, NEW p \in 1 .. n, m # p,
               NEW d \in FrameEntries(o[m]), NEW b \in FrameEntries(o[p])
        PROVE  d.key # b.key
    <3>1. d \in FrameEntries(z[m]) /\ b \in FrameEntries(z[p])
      BY <1>10
    <3> QED BY <1>1, <2>1, <3>1, Zenon DEF Apart
  <2>2. ASSUME NEW m \in 1 .. n, NEW d \in FrameEntries(o[m]), NEW b \in TableEntries(t)
        PROVE  d.key # b.key
    <3>1. d \in FrameEntries(z[m])
      BY <1>10
    <3> QED BY <1>1, <3>1, Zenon DEF Apart
  <2> QED BY <1>5, <2>1, <2>2 DEF Apart
<1>12. TableInv(H, t, o)
  <2>1. \A m \in 1 .. Len(o) : FrameOK(o[m])
    BY <1>1, <1>5, <1>9
  <2>2. o # <<>>
    BY <1>1, <1>5
  <2> QED BY <1>5, <1>11, <2>1, <2>2 DEF TableInv
<1>13. Waiting(z) = Waiting(o) \cup {e}
  <2>1. ASSUME NEW d \in Waiting(z) PROVE d \in Waiting(o) \cup {e}
    <3>1. PICK m \in 1 .. n : d \in FrameEntries(z[m])
      BY DEF Waiting
    <3>2. CASE m = n
      BY <1>1, <1>5, <1>7, <3>1, <3>2 DEF Waiting, f
    <3>3. CASE m # n
      BY <1>5, <3>1, <3>3 DEF Waiting
    <3> QED BY <3>2, <3>3
  <2>2. Waiting(o) \subseteq Waiting(z)
    BY <1>5, <1>10 DEF Waiting
  <2>3. e \in Waiting(z)
    BY <1>1, <1>7 DEF Waiting, f
  <2> QED BY <2>1, <2>2, <2>3
<1>14. ASSUME NEW d \in EntriesOf(t, o) PROVE d.key # e.key
  <2>1. e \in FrameEntries(z[n])
    BY <1>7 DEF f
  <2>2. CASE d \in TableEntries(t)
    BY <1>1, <2>1, <2>2 DEF Apart
  <2>3. CASE d \in Waiting(o)
    <3>1. PICK m \in 1 .. n : d \in FrameEntries(o[m])
      BY <1>5, <2>3 DEF Waiting
    <3>2. CASE m = n
      BY <1>5, <1>8, <3>1, <3>2
    <3>3. CASE m # n
      BY <1>1, <1>5, <2>1, <3>1, <3>3 DEF Apart
    <3> QED BY <3>2, <3>3
  <2> QED BY <2>2, <2>3 DEF EntriesOf
<1>15. EntriesOf(t, z) = EntriesOf(t, o) \cup {e}
  BY <1>13 DEF EntriesOf
<1> QED BY <1>1, <1>4, <1>5, <1>12, <1>14, <1>15 DEF e, f

\* A resize that has moved everything stores what it was called for.
LEMMA EndKeeps ==
  ASSUME NEW t, NEW z, TableInv(hash, t, z), \A k \in Keys : hash[k] \in Nat, z # <<>>,
         z[Len(z)].left = {}, SlotAvailable(t, z[Len(z)].key)
  PROVE  LET u == Changed(t, t.size, FindSlot(t, z[Len(z)].key),
                          [key |-> z[Len(z)].key, value |-> z[Len(z)].value])
         IN
         /\ TableInv(hash, u, SubSeq(z, 1, Len(z) - 1))
         /\ EntriesOf(u, SubSeq(z, 1, Len(z) - 1)) = EntriesOf(t, z)
         /\ u.capacity = t.capacity
<1> DEFINE n == Len(z)
           f == z[n]
           k == f.key
           o == SubSeq(z, 1, n - 1)
           i == FindSlot(t, k)
           e == [key |-> k, value |-> f.value]
           w == Changed(t, t.size, i, e)
<1>1. /\ TableOK(t) /\ Chain(hash, t) /\ Apart(t, z)
      /\ z \in Seq(Frame) /\ n \in Nat /\ n > 0 /\ n \in 1 .. Len(z)
      /\ \A m \in 1 .. Len(z) : z[m] \in Frame /\ FrameOK(z[m])
      /\ Cardinality(Stored(t)) + n <= t.size /\ ~TooFull(t)
      /\ \A j \in Slots(t.capacity) : t.body[j].key # DEAD
  BY DEF TableInv
<1>2. k \in Keys /\ f.value \in Values \cup {NULL} /\ f.left = {}
  BY <1>1 DEF Frame
<1>3. FrameEntries(f) = {e} /\ e.key = k
  BY <1>2 DEF FrameEntries
<1>5. /\ o \in Seq(Frame) /\ Len(o) = n - 1 /\ \A m \in 1 .. n - 1 : o[m] = z[m]
      /\ 1 .. n = (1 .. n - 1) \cup {n} /\ n \notin 1 .. n - 1
  BY <1>1, FrontIs
<1>6. FirstStop(hash, t, k, i)
  BY <1>1, <1>2, FindSlotIs
<1> HIDE DEF f, k, o, i, e, w
<1>7. \A d \in TableEntries(t) : d.key # k
  BY <1>1, <1>3 DEF Apart, f
<1>8. ~Occupied(t, i) /\ i \in Slots(t.capacity) /\ t.size \in Int /\ t.capacity \in Nat
  BY <1>1, <1>6, <1>7 DEF FirstStop, StopsAt, Occupied, TableEntries, Stored, TableOK
<1>9. /\ TableOK(w) /\ Chain(hash, w) /\ i \notin Stored(t) /\ Stored(w) = Stored(t) \cup {i}
      /\ TableEntries(w) = TableEntries(t) \cup {e}
  BY <1>1, <1>2, <1>6, <1>8, StoreKeeps DEF w, e
<1>10. /\ w.size = t.size /\ w.capacity = t.capacity /\ w.body[i] = e
       /\ \A j \in Slots(t.capacity) \ {i} : w.body[j] = t.body[j]
  <2>2. t.body \in [Slots(t.capacity) -> Entry]
    BY <1>1 DEF TableOK
  <2> QED BY <1>8, <2>2 DEF Changed, w
<1>11. ~TooFull(w)
  BY <1>1, <1>10 DEF TooFull
<1>12. \A j \in Slots(w.capacity) : w.body[j].key # DEAD
  BY <1>1, <1>2, <1>3, <1>10, HashTableAssumption DEF HashTableAssumption
<1>13. Cardinality(Stored(w)) + Len(o) <= w.size
  <2>1. IsFiniteSet(Stored(t)) /\ Cardinality(Stored(t)) \in Nat
    BY <1>1, StoredIsFinite
  <2>2. Cardinality(Stored(w)) = Cardinality(Stored(t)) + 1
    BY <1>9, <2>1, FS_AddElement
  <2> QED BY <1>1, <1>5, <1>8, <1>10, <2>1, <2>2
<1>14. Waiting(z) = Waiting(o) \cup {e} /\ \A d \in Waiting(o) : d.key # k
  <2>1. Waiting(z) = Waiting(o) \cup FrameEntries(f)
    BY <1>5 DEF Waiting, f
  <2>2. ASSUME NEW d \in Waiting(o) PROVE d.key # k
    <3>1. PICK m \in 1 .. n - 1 : d \in FrameEntries(z[m])
      BY <1>5 DEF Waiting
    <3>2. m \in 1 .. n /\ m # n
      BY <1>5, <3>1
    <3>3. e \in FrameEntries(z[n])
      BY <1>3 DEF f
    <3> QED BY <1>1, <1>3, <3>1, <3>2, <3>3 DEF Apart
  <2> QED BY <1>3, <2>1, <2>2
<1>15. Apart(w, o)
  <2>1. ASSUME NEW m \in 1 .. Len(o), NEW p \in 1 .. Len(o), m # p,
               NEW d \in FrameEntries(o[m]), NEW b \in FrameEntries(o[p])
        PROVE  d.key # b.key
    <3>1. m \in 1 .. n /\ p \in 1 .. n /\ o[m] = z[m] /\ o[p] = z[p]
      BY <1>5
    <3> QED BY <1>1, <2>1, <3>1 DEF Apart
  <2>2. ASSUME NEW m \in 1 .. Len(o), NEW d \in FrameEntries(o[m]), NEW b \in TableEntries(w)
        PROVE  d.key # b.key
    <3>1. m \in 1 .. n /\ o[m] = z[m] /\ d \in Waiting(o)
      BY <1>5 DEF Waiting
    <3>2. CASE b \in TableEntries(t)
      BY <1>1, <3>1, <3>2 DEF Apart
    <3>3. CASE b = e
      BY <1>3, <1>14, <3>1, <3>3
    <3> QED BY <1>9, <3>2, <3>3
  <2> QED BY <2>1, <2>2 DEF Apart
<1>16. TableInv(hash, w, o)
  <2>1. \A m \in 1 .. Len(o) : FrameOK(o[m])
    BY <1>1, <1>5
  <2> QED BY <1>5, <1>9, <1>11, <1>12, <1>13, <1>15, <2>1 DEF TableInv
<1>17. EntriesOf(w, o) = EntriesOf(t, z)
  BY <1>9, <1>14 DEF EntriesOf
<1> QED BY <1>10, <1>16, <1>17 DEF o, w, e, k, i, f

-----------------------------------------------------------------------------
(* hashtable_remove *)

LEMMA NoStopNoEntry ==
  ASSUME NEW t, NEW k, ~SlotAvailable(t, k)
  PROVE  \A e \in TableEntries(t) : e.key # k
BY DEF SlotAvailable, StopsAt, TableEntries, Stored

LEMMA RemoveKeeps ==
  ASSUME NEW t, TableInv(hash, t, <<>>), \A k \in Keys : hash[k] \in Nat,
         NEW k \in Keys, SlotAvailable(t, k)
  PROVE  /\ TableInv(hash, RemoveKey(t, k), <<>>)
         /\ TableEntries(RemoveKey(t, k)) = {d \in TableEntries(t) : d.key # k}
         /\ Touches(t, RemoveKey(t, k), k, NULL)
<1> DEFINE i == FindSlot(t, k)
           e == [key |-> DEAD, value |-> NULL]
           s == t.size - 1
           u == Changed(t, s, i, e)
<1>1. /\ TableOK(t) /\ Chain(hash, t) /\ ~TooFull(t)
      /\ Cardinality(Stored(t)) + Len(<<>>) <= t.size
  BY DEF TableInv
<1>2. /\ FirstStop(hash, t, k, i)
  BY <1>1, FindSlotIs
<1> HIDE DEF i
<1>3. i \in Slots(t.capacity) /\ t.body[i].key \in {NULL, k} /\ k \notin {NULL, DEAD}
  BY <1>2, HashTableAssumption DEF FirstStop, StopsAt, HashTableAssumption
<1>4. t.size \in Int /\ t.capacity \in Nat /\ t.body \in [Slots(t.capacity) -> Entry]
  BY <1>1 DEF TableOK
<1>5. CASE t.body[i].key = NULL
  <2>1. RemoveKey(t, k) = t
    BY <1>5 DEF RemoveKey, i
  <2>2. ASSUME NEW j \in Stored(t) PROVE t.body[j].key # k
    <3> SUFFICES ASSUME t.body[j].key = k PROVE FALSE
      OBVIOUS
    <3>1. FirstStop(hash, t, k, j)
      BY <1>1, TableEntriesAre
    <3>2. j = i
      BY <1>1, <1>2, <3>1, FirstStopIsOne
    <3> QED BY <1>3, <1>5, <3>2
  <2>3. TableEntries(t) = {d \in TableEntries(t) : d.key # k}
    BY <2>2 DEF TableEntries
  <2>4. Touches(t, t, k, NULL)
    BY DEF Touches
  <2> QED BY <2>1, <2>3, <2>4
<1>6. CASE t.body[i].key # NULL
  <2>1. t.body[i].key = k
    BY <1>3, <1>6
  <2>2. RemoveKey(t, k) = u
    <3>1. t = [size |-> t.size, capacity |-> t.capacity, body |-> t.body]
      BY <1>1 DEF TableOK
    <3>2. RemoveKey(t, k) = [t EXCEPT !.body[i] = [key |-> DEAD, value |-> NULL], !.size = @ - 1]
      BY <1>6 DEF RemoveKey, i
    <3> QED BY <3>1, <3>2 DEF Changed
  <2>3. e \in Entry /\ e.key = DEAD /\ e.value = NULL /\ s \in Int /\ s = t.size - 1
    BY <1>4 DEF Entry
  <2>4. \A j \in Slots(t.capacity) : t.body[j].key \in Keys => hash[t.body[j].key] \in Nat
    OBVIOUS
  <2> HIDE DEF e, s
  <2>5. /\ TableOK(u) /\ Chain(hash, u) /\ Stored(u) = Stored(t) \ {i} /\ i \in Stored(t)
        /\ TableEntries(u) = {d \in TableEntries(t) : d.key # k}
    <3>1. /\ TableOK(u) /\ Chain(hash, u) /\ i \in Stored(t)
          /\ Stored(u) = IF e.key = k THEN Stored(t) ELSE Stored(t) \ {i}
          /\ TableEntries(u) = {d \in TableEntries(t) : d.key # k}
                                 \cup (IF e.key = k THEN {e} ELSE {})
      <4>1. TableOK(t) /\ Chain(hash, t) /\ hash[k] \in Nat /\ i \in Slots(t.capacity)
            /\ (e.key = k \/ (e.key = DEAD /\ e.value = NULL))
        BY <1>1, <1>3, <2>3
      <4>2. e \in Entry /\ s \in Int
        BY <2>3
      <4> QED BY <2>1, <2>4, <4>1, <4>2, ReplaceKeeps
    <3>2. e.key # k
      BY <1>3, <2>3
    <3> HIDE DEF u
    <3> QED BY <3>1, <3>2
  <2>6. /\ u.size = s /\ u.capacity = t.capacity /\ u.body[i] = e
        /\ \A j \in Slots(t.capacity) \ {i} : u.body[j] = t.body[j]
    BY <1>3, <1>4 DEF Changed
  <2> HIDE DEF u
  <2>7. ~TooFull(u)
    BY <1>1, <1>4, <2>3, <2>6 DEF TooFull
  <2>8. Cardinality(Stored(u)) + Len(<<>>) <= u.size
    <3>1. IsFiniteSet(Stored(t)) /\ Cardinality(Stored(t)) \in Nat
      BY <1>1, StoredIsFinite
    <3>2. Cardinality(Stored(u)) = Cardinality(Stored(t)) - 1
      BY <2>5, <3>1, FS_RemoveElement
    <3> QED BY <1>1, <1>4, <2>3, <2>6, <3>1, <3>2
  <2>9. Apart(u, <<>>)
    BY DEF Apart
  <2>10. TableInv(hash, u, <<>>)
    BY <2>5, <2>7, <2>8, <2>9 DEF TableInv
  <2>11. Touches(t, u, k, NULL)
    BY <2>1, <2>3, <2>6 DEF Touches
  <2> QED BY <2>2, <2>5, <2>10, <2>11
<1> QED BY <1>5, <1>6

-----------------------------------------------------------------------------
(* The steps *)

\* What the step of a writer that has k in hand leaves.
Kept(k) ==
  /\ MapInv'
  /\ spinning' \in BOOLEAN /\ (spinning' => Unlocked')
  /\ table'.capacity >= table.capacity
  /\ Unlocked /\ table'.capacity = table.capacity =>
       Unlocked' /\ Touches(table, table', k, Contents'[k])

\* What a step makes of the entries.
EntriesPut(k, v) ==
  EntriesOf(table', resizing') =
    {d \in EntriesOf(table, resizing) : d.key # k} \cup {[key |-> k, value |-> v]}
EntriesDropped(k) ==
  EntriesOf(table', resizing') = {d \in EntriesOf(table, resizing) : d.key # k}
EntriesKept == EntriesOf(table', resizing') = EntriesOf(table, resizing)

LEMMA SpinKeeps ==
  ASSUME MapInv, spinning \in BOOLEAN, Unlocked, NEW k, ~SlotAvailable(table, k),
         Search(k), UNCHANGED <<table, resizing>>
  PROVE  Kept(k) /\ EntriesKept
<1>1. MapInv' /\ table.capacity \in Nat
  BY DEF Search, MapInv, TableInv, TableOK
<1>2. spinning' \in BOOLEAN /\ Unlocked'
  BY DEF Search, Unlocked
<1>3. \A v : Touches(table, table', k, v)
  BY DEF Touches
<1>4. EntriesKept
  BY DEF EntriesKept
<1> QED BY <1>1, <1>2, <1>3, <1>4 DEF Kept

LEMMA SetStep ==
  ASSUME MapInv, spinning \in BOOLEAN, NEW k \in Keys, NEW v \in Values \cup {NULL}, Set(k, v)
  PROVE  Kept(k) /\ (EntriesPut(k, v) \/ EntriesKept)
<1>1. Unlocked /\ Search(k) /\ resizing = <<>>
  BY DEF Set, SetNL, Unlocked
<1>2. CASE ~SlotAvailable(table, k)
  <2>1. UNCHANGED <<table, resizing>>
    BY <1>2 DEF Set, SetNL
  <2> QED BY <1>1, <1>2, <2>1, SpinKeeps
<1>3. CASE SlotAvailable(table, k)
  <2>1. Place(k, v, <<>>)
    BY <1>3 DEF Set, SetNL
  <2>2. TableInv(hash, table, <<>>) /\ \A j \in Keys : hash[j] \in Nat
    BY <1>1, HashesAreNat DEF MapInv
  <2>3. \A d \in Waiting(<<>>) : d.key # k
    BY DEF Waiting
  <2>4. /\ TableInv(hash, table', resizing')
        /\ EntriesOf(table', resizing') = {d \in EntriesOf(table, <<>>) : d.key # k}
                                            \cup {[key |-> k, value |-> v]}
        /\ \/ table'.capacity > table.capacity
           \/ resizing' = <<>> /\ Touches(table, table', k, v)
    BY <1>3, <2>1, <2>2, <2>3, PlaceKeeps
  <2>5. EntriesPut(k, v)
    BY <1>1, <2>4 DEF EntriesPut
  <2>6. MapInv' /\ spinning' = FALSE
    BY <1>1, <1>3, <2>4 DEF MapInv, Search
  <2>7. ContentsAre'
    BY <2>6, InvContentsAre, PTL
  <2>8. Contents'[k] = v
    <3>1. [key |-> k, value |-> v] \in EntriesOf(table', resizing')
      BY <2>4
    <3> QED BY <2>7, <3>1 DEF ContentsAre
  <2>9. table.capacity \in Nat /\ table'.capacity \in Nat
    BY <2>2, <2>4 DEF TableInv, TableOK
  <2>10. table'.capacity >= table.capacity
    BY <2>4, <2>9 DEF Touches
  <2>11. table'.capacity = table.capacity => Unlocked' /\ Touches(table, table', k, Contents'[k])
    BY <2>4, <2>8, <2>9 DEF Unlocked
  <2> QED BY <2>5, <2>6, <2>10, <2>11 DEF Kept
<1> QED BY <1>2, <1>3

LEMMA RemoveStep ==
  ASSUME MapInv, spinning \in BOOLEAN, NEW k \in Keys, Remove(k)
  PROVE  Kept(k) /\ EntriesDropped(k)
<1>1. Unlocked /\ Search(k) /\ resizing = <<>> /\ resizing' = <<>>
  BY DEF Remove, Unlocked
<1>2. Waiting(<<>>) = {}
  BY DEF Waiting
<1>3. CASE ~SlotAvailable(table, k)
  <2>1. table' = table
    BY <1>3 DEF Remove
  <2>2. Kept(k) /\ EntriesKept
    BY <1>1, <1>3, <2>1, SpinKeeps
  <2>3. \A e \in EntriesOf(table, resizing) : e.key # k
    BY <1>1, <1>2, <1>3, NoStopNoEntry DEF EntriesOf
  <2> QED BY <2>2, <2>3 DEF EntriesKept, EntriesDropped
<1>4. CASE SlotAvailable(table, k)
  <2>1. table' = RemoveKey(table, k)
    BY <1>4 DEF Remove
  <2>2. TableInv(hash, table, <<>>) /\ \A j \in Keys : hash[j] \in Nat
    BY <1>1, HashesAreNat DEF MapInv
  <2>3. /\ TableInv(hash, table', <<>>) /\ Touches(table, table', k, NULL)
        /\ TableEntries(table') = {d \in TableEntries(table) : d.key # k}
    BY <1>4, <2>1, <2>2, RemoveKeeps
  <2>4. EntriesDropped(k)
    BY <1>1, <1>2, <2>3 DEF EntriesDropped, EntriesOf
  <2>5. MapInv' /\ spinning' = FALSE
    BY <1>1, <1>4, <2>3 DEF MapInv, Search
  <2>6. ContentsAre'
    BY <2>5, InvContentsAre, PTL
  <2>7. Contents'[k] = NULL
    BY <2>4, <2>6 DEF ContentsAre, EntriesDropped
  <2>8. table.capacity \in Nat /\ table'.capacity \in Nat
    BY <2>2, <2>3 DEF TableInv, TableOK
  <2>9. table'.capacity >= table.capacity
    BY <2>3, <2>8 DEF Touches
  <2> QED BY <1>1, <2>3, <2>4, <2>5, <2>7, <2>9 DEF Kept, Unlocked
<1> QED BY <1>3, <1>4

LEMMA MoveStep ==
  ASSUME MapInv, spinning \in BOOLEAN, ResizeMove
  PROVE  \E k \in Keys : Kept(k) /\ EntriesKept
<1> DEFINE n == Len(resizing)
           f == resizing[n]
<1>1. /\ TableInv(hash, table, resizing) /\ resizing \in Seq(Frame) /\ resizing # <<>>
      /\ \A k \in Keys : hash[k] \in Nat
  BY HashesAreNat DEF MapInv, TableInv, ResizeMove, Unlocked
<1>2. PICK i \in f.left :
        SetNL(f.old[i].key, f.old[i].value, [resizing EXCEPT ![n].left = @ \ {i}])
  BY DEF ResizeMove
<1> DEFINE g == [f EXCEPT !.left = @ \ {i}]
           o == [resizing EXCEPT ![n] = g]
           e == f.old[i]
<1>3. SetNL(e.key, e.value, o)
  BY <1>2
<1>4. f \in Frame /\ n \in 1 .. Len(resizing)
  BY <1>1
<1>5. g \in Frame /\ g.key = f.key /\ g.value = f.value /\ g.old = f.old /\ g.left = f.left \ {i}
  BY <1>4, DropIs
<1> HIDE DEF g
<1>6. o \in Seq(Frame) /\ Len(o) = n /\ o[n] = g
      /\ \A m \in 1 .. n : m # n => o[m] = resizing[m]
  BY <1>1, <1>4, <1>5, ReplaceFrame
<1> HIDE DEF o
<1>7. /\ TableInv(hash, table, o) /\ e \in Entry /\ e.key \in Keys
      /\ \A d \in EntriesOf(table, o) : d.key # e.key
      /\ EntriesOf(table, resizing) = EntriesOf(table, o) \cup {e}
  BY <1>1, <1>5, <1>6, DropKeeps
<1> HIDE DEF e
<1>8. SlotAvailable(table, e.key)
  <2>1. /\ TableOK(table) /\ ~TooFull(table) /\ Cardinality(Stored(table)) + n <= table.size
        /\ \A j \in Slots(table.capacity) : table.body[j].key # DEAD
    BY <1>1 DEF TableInv
  <2>2. Cardinality(Stored(table)) \in Nat /\ table.size \in Int /\ n \in Nat
    BY <1>1, <2>1, StoredIsFinite DEF TableOK
  <2>3. Cardinality(Stored(table)) <= table.size
    BY <2>1, <2>2
  <2> QED BY <2>1, <2>3, RoomEndsSearch
<1>9. Place(e.key, e.value, o) /\ hash' = hash /\ spinning' = FALSE
  BY <1>3, <1>8 DEF SetNL, Search
<1>10. e.value \in Values \cup {NULL} /\ e = [key |-> e.key, value |-> e.value]
       /\ \A d \in Waiting(o) : d.key # e.key
  BY <1>7 DEF Entry, EntriesOf
<1>11. /\ TableInv(hash, table', resizing')
       /\ EntriesOf(table', resizing') = {d \in EntriesOf(table, o) : d.key # e.key}
                                           \cup {[key |-> e.key, value |-> e.value]}
       /\ \/ table'.capacity > table.capacity
          \/ resizing' = o /\ Touches(table, table', e.key, e.value)
  BY <1>1, <1>7, <1>8, <1>9, <1>10, PlaceKeeps
<1>12. EntriesKept
  <2>1. {d \in EntriesOf(table, o) : d.key # e.key} = EntriesOf(table, o)
    BY <1>7
  <2> QED BY <1>7, <1>10, <1>11, <2>1, Zenon DEF EntriesKept
<1>13. MapInv'
  BY <1>9, <1>11 DEF MapInv
<1>14. table'.capacity >= table.capacity
  <2>1. table.capacity \in Nat /\ table'.capacity \in Nat
    BY <1>1, <1>11 DEF TableInv, TableOK
  <2> QED BY <1>11, <2>1 DEF Touches
<1>15. Kept(e.key)
  BY <1>1, <1>9, <1>13, <1>14 DEF Kept, Unlocked
<1> QED BY <1>7, <1>12, <1>15

LEMMA EndStep ==
  ASSUME MapInv, spinning \in BOOLEAN, ResizeEnd
  PROVE  \E k \in Keys : Kept(k) /\ EntriesKept
<1> DEFINE n == Len(resizing)
           f == resizing[n]
           i == FindSlot(table, f.key)
           u == Changed(table, table.size, i, [key |-> f.key, value |-> f.value])
<1>1. /\ TableInv(hash, table, resizing) /\ resizing \in Seq(Frame) /\ resizing # <<>>
      /\ \A k \in Keys : hash[k] \in Nat
  BY HashesAreNat DEF MapInv, TableInv, ResizeEnd, Unlocked
<1>2. f.left = {} /\ f.key \in Keys /\ Search(f.key)
  <2>1. f.left = {} /\ Search(f.key)
    BY DEF ResizeEnd
  <2>2. f \in Frame
    BY <1>1
  <2> QED BY <2>1, <2>2, FrameIs
<1>3. TableOK(table) /\ SlotAvailable(table, f.key)
  <2>1. /\ TableOK(table) /\ ~TooFull(table) /\ Cardinality(Stored(table)) + n <= table.size
        /\ \A j \in Slots(table.capacity) : table.body[j].key # DEAD
    BY <1>1 DEF TableInv
  <2>2. Cardinality(Stored(table)) \in Nat /\ table.size \in Int /\ n \in Nat
    BY <1>1, <2>1, StoredIsFinite DEF TableOK
  <2>3. Cardinality(Stored(table)) <= table.size
    BY <2>1, <2>2
  <2> QED BY <2>1, <2>3, RoomEndsSearch
<1>4. table' = u /\ resizing' = SubSeq(resizing, 1, n - 1)
  <2>1. table' = Store(table, i, f.key, f.value) /\ resizing' = SubSeq(resizing, 1, n - 1)
    BY <1>3 DEF ResizeEnd
  <2>2. Store(table, i, f.key, f.value) = u
    <3>1. IsStruct(table)
      BY <1>3 DEF TableOK, IsStruct
    <3> HIDE DEF i, f
    <3> QED BY <3>1 DEF Store, Changed, IsStruct
  <2> QED BY <2>1, <2>2, Zenon
<1>5. /\ TableInv(hash, u, SubSeq(resizing, 1, n - 1))
      /\ EntriesOf(u, SubSeq(resizing, 1, n - 1)) = EntriesOf(table, resizing)
      /\ u.capacity = table.capacity
  BY <1>1, <1>2, <1>3, EndKeeps
<1> HIDE DEF u, f
<1>6. hash' = hash /\ spinning' = FALSE
  BY <1>2, <1>3 DEF Search
<1>7. MapInv' /\ EntriesKept
  BY <1>4, <1>5, <1>6 DEF MapInv, EntriesKept
<1>8. table'.capacity >= table.capacity
  BY <1>3, <1>4, <1>5 DEF TableOK
<1>9. Kept(f.key)
  BY <1>1, <1>6, <1>7, <1>8 DEF Kept, Unlocked
<1> QED BY <1>2, <1>7, <1>9

-----------------------------------------------------------------------------
(* Readers *)

LEMMA ReadersKeep ==
  ASSUME HashInv, NEW k \in Keys, Kept(k), Observe
  PROVE  HashInv'
<1>1. ContentsAre'
  BY InvContentsAre, PTL DEF Kept
<1>2. \A j \in Keys : Contents'[j] \in Values \cup {NULL}
  BY <1>1 DEF ContentsAre
<1>3. /\ table.capacity \in Nat /\ table'.capacity \in Nat
      /\ table'.capacity >= table.capacity /\ Slots(table.capacity) \subseteq Slots(table'.capacity)
  <2>1. table.capacity \in Nat /\ table'.capacity \in Nat /\ table'.capacity >= table.capacity
    BY DEF Kept, HashInv, MapInv, TableInv, TableOK
  <2> QED BY <2>1 DEF Slots
<1>4. k \notin {NULL, DEAD} /\ NULL \notin Keys /\ DEAD \notin Keys /\ NULL # DEAD
  BY HashTableAssumption DEF HashTableAssumption
<1>5. ASSUME NEW r \in Readers PROVE ReaderInv(getting[r])'
  <2> DEFINE g == getting[r]
             h == getting'[r]
  <2>1. ReaderInv(g)
    BY DEF HashInv
  <2>2. h = IF g.at = "found"
            THEN [g EXCEPT !.seen = @ \cup {Contents'[g.key]},
                           !.resized = @ \/ table'.capacity # table.capacity]
            ELSE g
    BY DEF Observe
  <2> HIDE DEF g, h
  <2>3. CASE g \in [at : {"idle"}, result : Values \cup {NULL},
                    seen : SUBSET (Values \cup {NULL}), resized : BOOLEAN]
    <3>1. h = g
      BY <2>2, <2>3
    <3>2. ~g.resized => g.result \in g.seen
      BY <2>1, <2>3 DEF ReaderInv
    <3> QED BY <2>3, <3>1, <3>2 DEF ReaderInv, h
  <2>4. CASE g \in [at : {"found"}, key : Keys, index : Nat,
                    seen : SUBSET (Values \cup {NULL}), resized : BOOLEAN]
    <3>1. /\ g.index \in Slots(table.capacity)
          /\ ~g.resized => /\ Unlocked
                           /\ table.body[g.index].key \in {g.key, DEAD}
                           /\ table.body[g.index].value \in g.seen
      BY <2>1, <2>4 DEF ReaderInv
    <3>2. /\ h \in [at : {"found"}, key : Keys, index : Nat,
                    seen : SUBSET (Values \cup {NULL}), resized : BOOLEAN]
          /\ h.key = g.key /\ h.index = g.index /\ h.seen = g.seen \cup {Contents'[g.key]}
          /\ h.resized = (g.resized \/ table'.capacity # table.capacity)
      BY <1>2, <2>2, <2>4
    <3>3. ASSUME ~h.resized
          PROVE  /\ Unlocked' /\ table'.body[h.index].key \in {h.key, DEAD}
                 /\ table'.body[h.index].value \in h.seen
      <4>1. /\ ~g.resized /\ table'.capacity = table.capacity /\ Unlocked
            /\ table.body[g.index].key \in {g.key, DEAD}
            /\ table.body[g.index].value \in g.seen
        BY <3>1, <3>2, <3>3
      <4>2. Unlocked' /\ Touches(table, table', k, Contents'[k])
        BY <4>1 DEF Kept
      <4>3. g.key \in Keys /\ table.body[g.index].key # NULL
        BY <1>4, <2>4, <4>1
      <4>4. CASE table'.body[g.index] = table.body[g.index]
        BY <3>2, <4>1, <4>2, <4>4
      <4>5. CASE /\ table.body[g.index].key = k /\ table'.body[g.index].key \in {k, DEAD}
                 /\ table'.body[g.index].value = Contents'[k]
        <5>1. g.key = k
          BY <1>4, <4>1, <4>5
        <5> QED BY <3>2, <4>2, <4>5, <5>1
      <4> QED BY <3>1, <4>2, <4>3, <4>4, <4>5 DEF Touches
    <3> QED BY <1>3, <3>1, <3>2, <3>3 DEF ReaderInv, h
  <2> QED BY <2>1, <2>3, <2>4 DEF ReaderInv
<1>6. (getting = [r \in Readers |-> getting[r]])'
  BY DEF Observe
<1> QED BY <1>5, <1>6 DEF HashInv, Kept

-----------------------------------------------------------------------------
(* The theorems *)

LEMMA InitHash == Init => HashInv
<1> SUFFICES ASSUME Init PROVE HashInv
  OBVIOUS
<1>1. INITIAL_CAPACITY \in Nat /\ INITIAL_CAPACITY >= INITIAL_CAPACITY /\ 0 \in Int
  BY DEF INITIAL_CAPACITY
<1>2. /\ TableOK(table) /\ Chain(hash, table) /\ Stored(table) = {} /\ TableEntries(table) = {}
      /\ table.size = 0 /\ table.capacity = INITIAL_CAPACITY
  BY <1>1, EmptyKeeps DEF Init
<1>3. ~TooFull(table) /\ Cardinality(Stored(table)) + Len(resizing) <= table.size
  <2>1. Cardinality({}) = 0 /\ resizing = <<>>
    BY FS_EmptySet DEF Init
  <2>2. Len(resizing) = 0 /\ Cardinality(Stored(table)) = 0
    BY <1>2, <2>1
  <2> QED BY <1>2, <2>2 DEF TooFull, INITIAL_CAPACITY
<1>4. TableInv(hash, table, resizing)
  BY <1>2, <1>3 DEF TableInv, Apart, Init
<1>5. ASSUME NEW r \in Readers PROVE ReaderInv(getting[r])
  BY DEF ReaderInv, Init, Idle
<1> QED BY <1>4, <1>5 DEF HashInv, MapInv, Init

LEMMA GetFindStep ==
  ASSUME HashInv, NEW r \in Readers, NEW k \in Keys, GetFind(r, k)
  PROVE  HashInv'
<1> DEFINE i == FindSlot(table, k)
<1>1. /\ UNCHANGED <<hash, table, resizing>> /\ Unlocked /\ spinning' \in BOOLEAN
      /\ getting' = [getting EXCEPT ![r] =
           IF ~SlotAvailable(table, k) THEN @
           ELSE IF Occupied(table, i)
                THEN [at |-> "found", key |-> k, index |-> i,
                      seen |-> {Lookup(table, k)}, resized |-> FALSE]
                ELSE Idle(NULL, {Lookup(table, k)}, FALSE)]
  BY DEF GetFind, Search
<1>2. MapInv' /\ Unlocked'
  BY <1>1 DEF HashInv, MapInv, Unlocked
<1>3. TableOK(table) /\ \A j \in Keys : hash[j] \in Nat
  BY HashesAreNat DEF HashInv, MapInv, TableInv
<1>4. ASSUME NEW g, ReaderInv(g) PROVE ReaderInv(g)'
  BY <1>1, <1>4 DEF ReaderInv, Unlocked
<1>5. ASSUME SlotAvailable(table, k)
      PROVE  /\ i \in Slots(table.capacity) /\ i \in Nat
             /\ Occupied(table, i) => table.body[i].key = k
             /\ ~Occupied(table, i) => table.body[i].value = NULL
             /\ table.body[i].value = Lookup(table, k)
             /\ Lookup(table, k) \in Values \cup {NULL}
  <2>1. FirstStop(hash, table, k, i)
    BY <1>3, <1>5, FindSlotIs
  <2>2. Lookup(table, k) = table.body[i].value
    BY <1>5 DEF Lookup
  <2> HIDE DEF i
  <2>3. i \in Slots(table.capacity) /\ table.body[i].key \in {NULL, k}
    BY <2>1 DEF FirstStop, StopsAt
  <2> QED BY <1>3, <2>2, <2>3 DEF TableOK, Slots, Occupied, Entry
<1>6. ReaderInv(getting[r])'
  <2>1. CASE ~SlotAvailable(table, k)
    BY <1>1, <1>4, <2>1 DEF HashInv
  <2>2. CASE SlotAvailable(table, k) /\ Occupied(table, i)
    <3>1. getting'[r] = [at |-> "found", key |-> k, index |-> i,
                         seen |-> {Lookup(table, k)}, resized |-> FALSE]
      BY <1>1, <2>2 DEF HashInv
    <3>2. /\ i \in Slots(table.capacity) /\ i \in Nat /\ table.body[i].key = k
          /\ table.body[i].value = Lookup(table, k) /\ Lookup(table, k) \in Values \cup {NULL}
      BY <1>5, <2>2
    <3> HIDE DEF i
    <3> DEFINE h == getting'[r]
    <3>3. /\ h \in [at : {"found"}, key : Keys, index : Nat,
                    seen : SUBSET (Values \cup {NULL}), resized : BOOLEAN]
          /\ h.key = k /\ h.index = i /\ h.seen = {Lookup(table, k)}
      BY <3>1, <3>2
    <3> HIDE DEF h
    <3>4. table' = table /\ Unlocked'
      BY <1>1, <1>2
    <3> QED BY <3>2, <3>3, <3>4 DEF ReaderInv, h
  <2>3. CASE SlotAvailable(table, k) /\ ~Occupied(table, i)
    <3>1. getting'[r] = Idle(NULL, {Lookup(table, k)}, FALSE)
      BY <1>1, <2>3 DEF HashInv
    <3> QED BY <1>5, <2>3, <3>1 DEF ReaderInv, Idle
  <2> QED BY <2>1, <2>2, <2>3
<1>7. ASSUME NEW q \in Readers PROVE ReaderInv(getting[q])'
  <2>1. CASE q = r
    BY <1>6, <2>1
  <2>2. CASE q # r
    BY <1>1, <1>4, <2>2 DEF HashInv
  <2> QED BY <2>1, <2>2
<1>8. (getting = [q \in Readers |-> getting[q]])'
  BY <1>1 DEF HashInv
<1> QED BY <1>1, <1>2, <1>7, <1>8 DEF HashInv

LEMMA GetReadStep ==
  ASSUME HashInv, NEW r \in Readers, GetRead(r)
  PROVE  HashInv'
<1> DEFINE g == getting[r]
<1>1. /\ UNCHANGED <<hash, table, resizing, spinning>> /\ g.at = "found" /\ ReaderInv(g)
      /\ getting' = [getting EXCEPT ![r] = Idle(table.body[g.index].value, g.seen, g.resized)]
  BY DEF GetRead, HashInv
<1>2. MapInv' /\ (spinning' \in BOOLEAN /\ (spinning' => Unlocked'))
  BY <1>1 DEF HashInv, MapInv, Unlocked
<1>3. TableOK(table)
  BY DEF HashInv, MapInv, TableInv
<1>4. ASSUME NEW q \in Readers, q # r PROVE ReaderInv(getting[q])'
  BY <1>1, <1>4 DEF ReaderInv, Unlocked, HashInv
<1>5. ReaderInv(getting[r])'
  <2>1. getting'[r] = Idle(table.body[g.index].value, g.seen, g.resized)
    BY <1>1 DEF HashInv
  <2> HIDE DEF g
  <2>2. /\ g.index \in Slots(table.capacity) /\ g.resized \in BOOLEAN
        /\ g.seen \in SUBSET (Values \cup {NULL})
        /\ ~g.resized => table.body[g.index].value \in g.seen
    BY <1>1 DEF ReaderInv
  <2>3. table.body[g.index].value \in Values \cup {NULL}
    BY <1>3, <2>2 DEF TableOK, Entry
  <2> QED BY <2>1, <2>2, <2>3 DEF ReaderInv, Idle
<1>6. (getting = [q \in Readers |-> getting[q]])'
  BY <1>1 DEF HashInv
<1> QED BY <1>2, <1>4, <1>5, <1>6 DEF HashInv

LEMMA NextHash == HashInv /\ [Next]_vars => HashInv'
<1> SUFFICES ASSUME HashInv, [Next]_vars PROVE HashInv'
  OBVIOUS
<1>1. MapInv /\ spinning \in BOOLEAN
  BY DEF HashInv
<1>2. ASSUME NEW k \in Keys, Remove(k) PROVE HashInv'
  <2>1. Kept(k) /\ Observe
    BY <1>1, <1>2, RemoveStep DEF Remove
  <2> QED BY <2>1, ReadersKeep
<1>3. ASSUME NEW k \in Keys, NEW v \in Values, Set(k, v) PROVE HashInv'
  <2>1. Kept(k) /\ Observe
    BY <1>1, <1>3, SetStep DEF Set
  <2> QED BY <2>1, ReadersKeep
<1>4. CASE ResizeMove
  <2>1. Observe /\ \E k \in Keys : Kept(k)
    BY <1>1, <1>4, MoveStep DEF ResizeMove
  <2> QED BY <2>1, ReadersKeep
<1>5. CASE ResizeEnd
  <2>1. Observe /\ \E k \in Keys : Kept(k)
    BY <1>1, <1>5, EndStep DEF ResizeEnd
  <2> QED BY <2>1, ReadersKeep
<1>6. CASE Spin \/ UNCHANGED vars
  <2>1. UNCHANGED vars
    BY <1>6 DEF Spin
  <2> QED BY <2>1 DEF vars, HashInv, MapInv, ReaderInv, Unlocked
<1> QED BY <1>2, <1>3, <1>4, <1>5, <1>6, GetFindStep, GetReadStep DEF Next

LEMMA HashInvariant == Spec => []HashInv
BY InitHash, NextHash, PTL DEF Spec

\* A search for a key that is stored ends at its slot, over any tombstones and
\* other keys, and the key is stored there only (hashtable_find_slot, with
\* hashtable_remove's tombstones and the entries hashtable_resize puts in).
THEOREM ChainIsUnbroken == Spec => []ChainUnbroken
<1>1. HashInv => ChainUnbroken
  <2> SUFFICES ASSUME HashInv PROVE ChainUnbroken
    OBVIOUS
  <2>1. TableOK(table) /\ Chain(hash, table) /\ \A k \in Keys : hash[k] \in Nat
    BY HashesAreNat DEF HashInv, MapInv, TableInv
  <2>2. \A i \in Stored(table) : FindSlot(table, table.body[i].key) = i
    BY <2>1, StoredIsFound
  <2> QED BY <2>2 DEF ChainUnbroken, Stored
<1> QED BY <1>1, HashInvariant, PTL

\* size is never less than the entries stored and those waiting for a resize,
\* so that the assertion of hashtable_resize holds, the body is never more
\* than four fifths full, and a search within a resize ends; with it, the
\* types of the variables.
THEOREM SizeIsBounded == Spec => []SizeBounds
<1>1. HashInv => SizeBounds
  <2> SUFFICES ASSUME HashInv PROVE SizeBounds
    OBVIOUS
  <2>1. /\ TableInv(hash, table, resizing) /\ TableOK(table) /\ resizing \in Seq(Frame)
        /\ \A n \in 1 .. Len(resizing) : resizing[n] \in Frame /\ FrameOK(resizing[n])
    BY DEF HashInv, MapInv, TableInv
  <2>2. table \in [size : Int, capacity : Nat, body : [Slots(table.capacity) -> Entry]]
    BY <2>1 DEF TableOK
  <2>3. ASSUME NEW n \in 1 .. Len(resizing)
        PROVE  LET f == resizing[n]
               IN  /\ f.key \in Keys /\ f.value \in Values \cup {NULL}
                   /\ f.old \in [DOMAIN f.old -> Entry] /\ f.left \subseteq DOMAIN f.old
    <3> DEFINE f == resizing[n]
    <3>1. f \in Frame /\ FrameOK(f)
      BY <2>1
    <3> HIDE DEF f
    <3>2. PICK c \in Nat : f.old \in [Slots(c) -> Entry]
      BY <3>1 DEF Frame
    <3>3. f.key \in Keys /\ f.value \in Values \cup {NULL} /\ f.left \subseteq DOMAIN f.old
      BY <3>1, FrameIs DEF FrameOK
    <3>4. f.old \in [DOMAIN f.old -> Entry]
      BY <3>2
    <3> QED BY <3>3, <3>4 DEF f
  <2>4. TypeOK
    BY <2>2, <2>3 DEF TypeOK, HashInv, MapInv
  <2> QED BY <2>1, <2>4 DEF SizeBounds, HashInv, TableInv
<1> QED BY <1>1, HashInvariant, PTL

\* A hashtable_get that reads the value after it has released the lock returns
\* a value its key had while it ran, unless the table has been resized since;
\* and never reads beyond the body.
THEOREM GetIsLinearizable == Spec => []GetLinearizes
<1>1. HashInv => GetLinearizes
  BY DEF HashInv, ReaderInv, GetLinearizes
<1> QED BY <1>1, HashInvariant, PTL

\* hashtable_set and hashtable_remove change the value of their key and of no
\* other, and a resize, which moves every entry and may resize again, changes
\* none: the table implements a map.
THEOREM HashTableIsMap == Spec => ImplementsMap
<1>1. HashInv => ContentsAre
  BY InvContentsAre DEF HashInv
<1>2. Init => TheMap!MapInit
  <2> SUFFICES ASSUME Init PROVE TheMap!MapInit
    OBVIOUS
  <2>1. HashInv
    BY InitHash
  <2>2. ContentsAre
    BY <1>1, <2>1
  <2>3. EntriesOf(table, resizing) = {}
    <3>1. INITIAL_CAPACITY \in Nat /\ INITIAL_CAPACITY >= INITIAL_CAPACITY /\ 0 \in Int
      BY DEF INITIAL_CAPACITY
    <3>2. TableEntries(table) = {}
      BY <3>1, EmptyKeeps DEF Init
    <3> QED BY <3>2 DEF EntriesOf, Waiting, Init
  <2>4. \A k \in Keys : Contents[k] = NULL
    BY <2>2, <2>3 DEF ContentsAre
  <2>5. Contents = [k \in Keys |-> Contents[k]]
    BY DEF Contents
  <2> QED BY <2>4, <2>5, Zenon DEF TheMap!MapInit
<1>3. Contents = [k \in Keys |-> Contents[k]]
  BY DEF Contents
<1>4. (Contents = [k \in Keys |-> Contents[k]])'
  BY <1>3, PTL
<1>5. ASSUME HashInv, HashInv', [Next]_vars PROVE [TheMap!MapNext]_Contents
  <2>1. ContentsAre /\ ContentsAre'
    BY <1>1, <1>5, PTL
  <2>2. ASSUME EntriesKept PROVE Contents' = Contents
    <3>1. \A k \in Keys : Contents'[k] = Contents[k]
      <4> SUFFICES ASSUME NEW k \in Keys PROVE Contents'[k] = Contents[k]
        OBVIOUS
      <4>1. CASE \E e \in EntriesOf(table, resizing) : e.key = k
        BY <2>1, <2>2, <4>1 DEF ContentsAre, EntriesKept
      <4>2. CASE \A e \in EntriesOf(table, resizing) : e.key # k
        BY <2>1, <2>2, <4>2 DEF ContentsAre, EntriesKept
      <4> QED BY <4>1, <4>2
    <3> QED BY <1>3, <1>4, <3>1
  <2>3. ASSUME NEW k \in Keys, NEW v \in Values, EntriesPut(k, v) PROVE TheMap!Put(k, v)
    <3>1. Contents'[k] = v
      <4>1. [key |-> k, value |-> v] \in EntriesOf(table', resizing')
        BY <2>3 DEF EntriesPut
      <4> QED BY <2>1, <4>1 DEF ContentsAre
    <3>2. ASSUME NEW j \in Keys \ {k} PROVE Contents'[j] = Contents[j]
      <4>1. CASE \E e \in EntriesOf(table, resizing) : e.key = j
        BY <2>1, <2>3, <3>2, <4>1 DEF ContentsAre, EntriesPut
      <4>2. CASE \A e \in EntriesOf(table, resizing) : e.key # j
        BY <2>1, <2>3, <3>2, <4>2 DEF ContentsAre, EntriesPut
      <4> QED BY <4>1, <4>2
    <3> QED BY <1>3, <1>4, <3>1, <3>2 DEF TheMap!Put
  <2>4. ASSUME NEW k \in Keys, EntriesDropped(k) PROVE TheMap!Delete(k)
    <3>1. Contents'[k] = NULL
      BY <2>1, <2>4 DEF ContentsAre, EntriesDropped
    <3>2. ASSUME NEW j \in Keys \ {k} PROVE Contents'[j] = Contents[j]
      <4>1. CASE \E e \in EntriesOf(table, resizing) : e.key = j
        BY <2>1, <2>4, <3>2, <4>1 DEF ContentsAre, EntriesDropped
      <4>2. CASE \A e \in EntriesOf(table, resizing) : e.key # j
        BY <2>1, <2>4, <3>2, <4>2 DEF ContentsAre, EntriesDropped
      <4> QED BY <4>1, <4>2
    <3> QED BY <1>3, <1>4, <3>1, <3>2 DEF TheMap!Delete
  <2>5. MapInv /\ spinning \in BOOLEAN
    BY <1>5 DEF HashInv
  <2>6. CASE \E k \in Keys : Remove(k)
    BY <2>4, <2>5, <2>6, RemoveStep DEF TheMap!MapNext
  <2>7. CASE \E k \in Keys, v \in Values : Set(k, v)
    BY <2>2, <2>3, <2>5, <2>7, SetStep DEF TheMap!MapNext
  <2>8. CASE ResizeMove \/ ResizeEnd
    BY <2>2, <2>5, <2>8, MoveStep, EndStep
  <2>9. CASE UNCHANGED <<table, resizing>>
    BY <2>2, <2>9 DEF EntriesKept
  <2>10. ASSUME NEW r \in Readers, GetRead(r) PROVE UNCHANGED <<table, resizing>>
    BY <2>10 DEF GetRead
  <2>11. ASSUME NEW r \in Readers, NEW k \in Keys, GetFind(r, k)
         PROVE  UNCHANGED <<table, resizing>>
    BY <2>11 DEF GetFind
  <2>12. CASE Spin \/ UNCHANGED vars
    BY <2>9, <2>12 DEF Spin, vars
  <2> QED BY <1>5, <2>6, <2>7, <2>8, <2>9, <2>10, <2>11, <2>12 DEF Next
<1> QED BY <1>2, <1>5, HashInvariant, PTL DEF Spec, ImplementsMap, TheMap!MapSpec
=============================================================================
