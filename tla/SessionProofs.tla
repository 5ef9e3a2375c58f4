---------------------------- MODULE SessionProofs ----------------------------
(***************************************************************************)
(* Proofs, for any number of application threads and requests, of what     *)
(* TLC checks of a session on small instances.                             *)
(***************************************************************************)
EXTENDS SessionInv, SequenceTheorems, FiniteSetTheorems, TLAPS

-----------------------------------------------------------------------------
(* Sequences of requests *)

\* The numbered messages of s, and those up to k, are finitely many.
LEMMA NumberedFinite ==
  ASSUME NEW s \in Seq(Request), NEW k \in Nat
  PROVE  /\ IsFiniteSet(Numbered(s)) /\ Cardinality(Numbered(s)) \in Nat
         /\ IsFiniteSet({j \in Numbered(s) : j <= k})
         /\ Cardinality({j \in Numbered(s) : j <= k}) \in Nat
         /\ k \in Numbered(s) => Cardinality({j \in Numbered(s) : j <= k}) >= 1
<1>1. Numbered(s) \subseteq 1 .. Len(s) /\ Len(s) \in Nat
  BY LenProperties DEF Numbered
<1>2. IsFiniteSet(1 .. Len(s))
  BY <1>1, FS_Interval
<1>3. IsFiniteSet(Numbered(s))
  BY <1>1, <1>2, FS_Subset
<1> DEFINE S == {j \in Numbered(s) : j <= k}
<1>4. IsFiniteSet(S)
  BY <1>3, FS_Subset
<1>5. k \in Numbered(s) => S # {}
  OBVIOUS
<1> HIDE DEF S
<1>6. Cardinality(S) \in Nat /\ (k \in Numbered(s) => Cardinality(S) >= 1)
  BY <1>4, <1>5, FS_CardinalityType, FS_EmptySet
<1> QED
  BY <1>3, <1>4, <1>6, FS_CardinalityType DEF S

\* Only what lies before a place counts for it.
LEMMA NumberedConcat ==
  ASSUME NEW s \in Seq(Request), NEW t \in Seq(Request), NEW k \in Numbered(s)
  PROVE  /\ k \in Numbered(s \o t) /\ (s \o t)[k] = s[k]
         /\ {j \in Numbered(s \o t) : j <= k} = {j \in Numbered(s) : j <= k}
<1>1. k \in 1 .. Len(s) /\ Len(s) \in Nat /\ DOMAIN s = 1 .. Len(s)
  BY LenProperties DEF Numbered
<1>2. Len(t) \in Nat
  BY LenProperties
<1>3. /\ s \o t \in Seq(Request) /\ DOMAIN (s \o t) = 1 .. Len(s) + Len(t)
      /\ \A i \in 1 .. Len(s) : (s \o t)[i] = s[i]
  BY <1>1, <1>2, ConcatProperties, LenProperties
<1> QED
  BY <1>1, <1>2, <1>3 DEF Numbered

\* A message at the end.
LEMMA NumberedAppend ==
  ASSUME NEW s \in Seq(Request), NEW m \in Request
  PROVE  /\ s \o <<m>> \in Seq(Request) /\ (s \o <<m>>)[Len(s) + 1] = m
         /\ m.id \in Requests => Numbered(s \o <<m>>) = Numbered(s) \cup {Len(s) + 1}
         /\ m.id \notin Requests => Numbered(s \o <<m>>) = Numbered(s)
         /\ \A j \in Numbered(s) : j < Len(s) + 1
         /\ Len(s) + 1 \in Nat /\ Len(s) + 1 \notin Numbered(s)
<1>1. Len(s) \in Nat /\ DOMAIN s = 1 .. Len(s)
  BY LenProperties
<1>2. <<m>> \in Seq(Request) /\ Len(<<m>>) = 1 /\ <<m>>[1] = m
  OBVIOUS
<1>3. /\ s \o <<m>> \in Seq(Request) /\ DOMAIN (s \o <<m>>) = 1 .. Len(s) + 1
      /\ \A i \in 1 .. Len(s) : (s \o <<m>>)[i] = s[i]
      /\ (s \o <<m>>)[Len(s) + 1] = m
  BY <1>1, <1>2, ConcatProperties, LenProperties
<1> QED
  BY <1>1, <1>3 DEF Numbered

LEMMA TotalAppend ==
  ASSUME NEW s \in Seq(Request), NEW m \in Request
  PROVE  Cardinality(Numbered(s \o <<m>>)) =
           Cardinality(Numbered(s)) + (IF m.id \in Requests THEN 1 ELSE 0)
<1>1. CASE m.id \in Requests
  <2>1. Len(s) + 1 \notin Numbered(s)
    BY NumberedAppend
  <2>2. IsFiniteSet(Numbered(s))
    BY NumberedFinite
  <2>3. Cardinality(Numbered(s) \cup {Len(s) + 1}) = Cardinality(Numbered(s)) + 1
    BY <2>1, <2>2, FS_AddElement
  <2> QED
    BY <1>1, <2>3, NumberedAppend
<1>2. CASE m.id \notin Requests
  <2>1. Cardinality(Numbered(s)) \in Nat
    BY NumberedFinite
  <2> QED
    BY <1>2, <2>1, NumberedAppend
<1> QED
  BY <1>1, <1>2

\* A message in front: the others move up one place.
LEMMA NumberedCons ==
  ASSUME NEW s \in Seq(Request), NEW m \in Request, NEW k \in Nat
  PROVE  Cardinality({j \in Numbered(<<m>> \o s) : j <= k + 1}) =
           Cardinality({j \in Numbered(s) : j <= k})
             + (IF m.id \in Requests THEN 1 ELSE 0)
<1>1. Len(s) \in Nat /\ DOMAIN s = 1 .. Len(s)
  BY LenProperties
<1>2. <<m>> \in Seq(Request) /\ Len(<<m>>) = 1 /\ <<m>>[1] = m
  OBVIOUS
<1>3. /\ <<m>> \o s \in Seq(Request) /\ DOMAIN (<<m>> \o s) = 1 .. Len(s) + 1
      /\ \A i \in 1 .. Len(s) : (<<m>> \o s)[i + 1] = s[i]
      /\ (<<m>> \o s)[1] = m
  BY <1>1, <1>2, ConcatProperties, LenProperties
<1> DEFINE S == {j \in Numbered(s) : j <= k}
           T == {j \in Numbered(<<m>> \o s) : j <= k + 1 /\ j > 1}
           U == {j \in Numbered(<<m>> \o s) : j <= k + 1}
           f == [j \in S |-> j + 1]
<1>4. /\ \A j \in S : j \in 1 .. Len(s) /\ j + 1 \in T
      /\ \A j \in T : j - 1 \in S /\ j - 1 + 1 = j
  BY <1>1, <1>3 DEF Numbered
<1>5. f \in Bijection(S, T)
  BY <1>4 DEF Bijection, Injection, Surjection, IsInjective
<1>6. IsFiniteSet(S) /\ Cardinality(S) \in Nat
  BY NumberedFinite
<1>7. IsFiniteSet(T) /\ Cardinality(T) = Cardinality(S)
  BY <1>5, <1>6, FS_Bijection DEF ExistsBijection
<1>8. U = IF m.id \in Requests THEN T \cup {1} ELSE T
  BY <1>1, <1>3 DEF Numbered
<1>9. 1 \notin T
  OBVIOUS
<1>10. Cardinality(T \cup {1}) = Cardinality(T) + 1
  BY <1>7, <1>9, FS_AddElement
<1>11. Cardinality(U) = Cardinality(S) + (IF m.id \in Requests THEN 1 ELSE 0)
  <2> HIDE DEF S, T, U
  <2> QED
    BY <1>6, <1>7, <1>8, <1>10
<1> QED
  BY <1>11

LEMMA TotalCons ==
  ASSUME NEW s \in Seq(Request), NEW m \in Request
  PROVE  Cardinality(Numbered(<<m>> \o s)) =
           Cardinality(Numbered(s)) + (IF m.id \in Requests THEN 1 ELSE 0)
<1>1. Len(s) \in Nat /\ Numbered(s) = {j \in Numbered(s) : j <= Len(s)}
  BY LenProperties DEF Numbered
<1>2. <<m>> \in Seq(Request) /\ Len(<<m>>) = 1
  OBVIOUS
<1>3. /\ <<m>> \o s \in Seq(Request)
      /\ DOMAIN (<<m>> \o s) = 1 .. Len(s) + 1
  BY <1>1, <1>2, ConcatProperties, LenProperties
<1>4. Numbered(<<m>> \o s) = {j \in Numbered(<<m>> \o s) : j <= Len(s) + 1}
  BY <1>1, <1>3 DEF Numbered
<1>5. Cardinality({j \in Numbered(<<m>> \o s) : j <= Len(s) + 1}) =
        Cardinality({j \in Numbered(s) : j <= Len(s)})
          + (IF m.id \in Requests THEN 1 ELSE 0)
  BY <1>1, NumberedCons
<1> QED
  BY <1>1, <1>4, <1>5

\* A shorter line.
LEMMA LineCut ==
  ASSUME NEW s \in Seq(Request), NEW t \in Seq(Request), NEW done, NEW all,
         Continues(s \o t, done, all)
  PROVE  Continues(s, done, all)
<1> SUFFICES ASSUME NEW k \in Numbered(s)
             PROVE  LET n == Len(done) + Cardinality({j \in Numbered(s) : j <= k})
                    IN  n <= Len(all) /\ s[k].id = all[n]
  BY DEF Continues
<1>1. LET n == Len(done) + Cardinality({j \in Numbered(s \o t) : j <= k})
      IN  n <= Len(all) /\ (s \o t)[k].id = all[n]
  BY NumberedConcat DEF Continues
<1>2. /\ (s \o t)[k] = s[k]
      /\ {j \in Numbered(s \o t) : j <= k} = {j \in Numbered(s) : j <= k}
  BY NumberedConcat
<1> QED
  BY <1>1, <1>2, Zenon

\* A request more, sent but not in line.
LEMMA LineMissed ==
  ASSUME NEW s \in Seq(Request), NEW done \in Seq(Requests),
         NEW all \in Seq(0 .. MaxRequests), NEW i \in 0 .. MaxRequests,
         Continues(s, done, all)
  PROVE  Continues(s, done, Append(all, i))
<1>1. Len(all) \in Nat /\ Len(done) \in Nat /\ DOMAIN done = 1 .. Len(done)
  BY LenProperties
<1>2. /\ Len(Append(all, i)) = Len(all) + 1
      /\ \A k \in 1 .. Len(all) : Append(all, i)[k] = all[k]
  BY AppendProperties
<1>3. /\ Len(done) <= Len(Append(all, i))
      /\ \A k \in DOMAIN done : done[k] = Append(all, i)[k]
  BY <1>1, <1>2 DEF Continues
<1>4. ASSUME NEW k \in Numbered(s)
      PROVE  LET n == Len(done) + Cardinality({j \in Numbered(s) : j <= k})
             IN  n <= Len(Append(all, i)) /\ s[k].id = Append(all, i)[n]
  <2>1. k \in Nat
    BY LenProperties DEF Numbered
  <2>2. PICK c \in Nat : c = Cardinality({j \in Numbered(s) : j <= k}) /\ c >= 1
    BY <2>1, NumberedFinite
  <2>3. Len(done) + c <= Len(all) /\ s[k].id = all[Len(done) + c]
    BY <2>2 DEF Continues
  <2>4. Len(done) + c \in 1 .. Len(all)
    BY <1>1, <2>2, <2>3
  <2>5. Len(done) + c <= Len(Append(all, i)) /\ s[k].id = Append(all, i)[Len(done) + c]
    BY <1>1, <1>2, <2>3, <2>4
  <2> QED
    BY <2>2, <2>5, Zenon
<1> QED
  BY <1>3, <1>4 DEF Continues

\* A message with no number enters the line.
LEMMA LinePlain ==
  ASSUME NEW s \in Seq(Request), NEW m \in Request, m.id \notin Requests,
         NEW done, NEW all, Continues(s, done, all)
  PROVE  /\ Continues(s \o <<m>>, done, all)
         /\ Whole(s, done, all) => Whole(s \o <<m>>, done, all)
<1>1. <<m>> \in Seq(Request)
  OBVIOUS
<1>2. Numbered(s \o <<m>>) = Numbered(s)
  BY NumberedAppend
<1>3. \A k \in Numbered(s) : (s \o <<m>>)[k] = s[k]
  BY <1>1, NumberedConcat
<1>4. Continues(s \o <<m>>, done, all)
  BY <1>2, <1>3 DEF Continues
<1> QED
  BY <1>2, <1>4 DEF Whole

\* A request is sent.
LEMMA LineSent ==
  ASSUME NEW s \in Seq(Request), NEW m \in Request, m.id \in Requests,
         NEW done \in Seq(Requests), NEW all \in Seq(0 .. MaxRequests),
         Continues(s, done, all), Whole(s, done, all)
  PROVE  /\ Continues(s \o <<m>>, done, Append(all, m.id))
         /\ Whole(s \o <<m>>, done, Append(all, m.id))
<1> DEFINE a == Append(all, m.id)
           t == s \o <<m>>
<1>0. m.id \in 0 .. MaxRequests /\ <<m>> \in Seq(Request)
  BY DEF Requests
<1>1. Continues(s, done, a)
  BY <1>0, LineMissed
<1>2. Len(a) = Len(all) + 1 /\ a[Len(all) + 1] = m.id /\ Len(all) \in Nat
  BY <1>0, AppendProperties, LenProperties
<1>3. PICK c \in Nat : c = Cardinality(Numbered(s))
  BY NumberedFinite
<1>4. Cardinality(Numbered(t)) = c + 1
  BY <1>3, TotalAppend
<1>5. Len(done) \in Nat
  BY LenProperties
<1>6. Len(done) + (c + 1) = Len(all) + 1
  BY <1>2, <1>3, <1>5 DEF Whole
<1>7. ASSUME NEW k \in Numbered(t)
      PROVE  LET n == Len(done) + Cardinality({j \in Numbered(t) : j <= k})
             IN  n <= Len(a) /\ t[k].id = a[n]
  <2>1. Numbered(t) = Numbered(s) \cup {Len(s) + 1}
    BY NumberedAppend
  <2>2. CASE k \in Numbered(s)
    <3>1. LET n == Len(done) + Cardinality({j \in Numbered(s) : j <= k})
          IN  n <= Len(a) /\ s[k].id = a[n]
      BY <1>1, <2>2 DEF Continues
    <3>2. t[k] = s[k]
      BY <1>0, <2>2, NumberedConcat
    <3>3. {j \in Numbered(t) : j <= k} = {j \in Numbered(s) : j <= k}
      BY <1>0, <2>2, NumberedConcat
    <3> QED
      BY <3>1, <3>2, <3>3, Zenon
  <2>3. CASE k = Len(s) + 1
    <3>1. {j \in Numbered(t) : j <= k} = Numbered(t)
      <4>1. Len(s) + 1 \in Nat /\ \A j \in Numbered(s) : j < Len(s) + 1
        BY NumberedAppend
      <4>2. Numbered(s) \subseteq Nat
        BY LenProperties DEF Numbered
      <4> QED
        BY <2>1, <2>3, <4>1, <4>2
    <3>2. t[k] = m
      BY <2>3, NumberedAppend
    <3>3. Len(done) + (c + 1) <= Len(a) /\ m.id = a[Len(done) + (c + 1)]
      BY <1>2, <1>6
    <3> QED
      BY <1>4, <3>1, <3>2, <3>3, Zenon
  <2> QED
    BY <2>1, <2>2, <2>3
<1>8. Continues(t, done, a)
  BY <1>1, <1>7 DEF Continues
<1>9. Whole(t, done, a)
  BY <1>2, <1>4, <1>6 DEF Whole
<1> QED
  BY <1>8, <1>9

\* The first of the line is the next to be executed.
LEMMA LineFirst ==
  ASSUME NEW s \in Seq(Request), NEW m \in Request, m.id \in Requests,
         NEW done \in Seq(Requests), NEW all \in Seq(0 .. MaxRequests),
         Continues(<<m>> \o s, done, all)
  PROVE  Len(done) + 1 <= Len(all) /\ m.id = all[Len(done) + 1]
<1>1. Len(s) \in Nat /\ DOMAIN s = 1 .. Len(s)
  BY LenProperties
<1>2. <<m>> \in Seq(Request) /\ Len(<<m>>) = 1 /\ <<m>>[1] = m
  OBVIOUS
<1>3. DOMAIN (<<m>> \o s) = 1 .. Len(s) + 1 /\ (<<m>> \o s)[1] = m
  BY <1>1, <1>2, ConcatProperties, LenProperties
<1>4. 1 \in Numbered(<<m>> \o s)
  BY <1>1, <1>3 DEF Numbered
<1>5. {j \in Numbered(<<m>> \o s) : j <= 1} = {1}
  BY <1>1, <1>3, <1>4 DEF Numbered
<1>6. LET n == Len(done) + Cardinality({j \in Numbered(<<m>> \o s) : j <= 1})
      IN  n <= Len(all) /\ (<<m>> \o s)[1].id = all[n]
  BY <1>4 DEF Continues
<1>7. Len(done) + Cardinality({1}) <= Len(all)
      /\ m.id = all[Len(done) + Cardinality({1})]
  BY <1>3, <1>5, <1>6, Zenon
<1>8. Cardinality({1}) = 1
  BY FS_Singleton
<1> QED
  BY <1>7, <1>8

\* What comes after the first of the line follows it.
LEMMA LineRest ==
  ASSUME NEW s \in Seq(Request), NEW m \in Request,
         NEW done \in Seq(Requests), NEW all \in Seq(0 .. MaxRequests),
         Continues(<<m>> \o s, done, all),
         NEW d \in {0, 1}, d = IF m.id \in Requests THEN 1 ELSE 0,
         NEW k \in Numbered(s)
  PROVE  LET n == Len(done) + d + Cardinality({j \in Numbered(s) : j <= k})
         IN  n <= Len(all) /\ s[k].id = all[n]
<1>1. Len(s) \in Nat /\ DOMAIN s = 1 .. Len(s) /\ Len(done) \in Nat
  BY LenProperties
<1>2. <<m>> \in Seq(Request) /\ Len(<<m>>) = 1 /\ <<m>>[1] = m
  OBVIOUS
<1>3. /\ DOMAIN (<<m>> \o s) = 1 .. Len(s) + 1
      /\ \A i \in 1 .. Len(s) : (<<m>> \o s)[i + 1] = s[i]
  BY <1>1, <1>2, ConcatProperties, LenProperties
<1>4. k \in Nat /\ k + 1 \in Numbered(<<m>> \o s) /\ (<<m>> \o s)[k + 1] = s[k]
  BY <1>1, <1>3 DEF Numbered
<1>5. LET n == Len(done) + Cardinality({j \in Numbered(<<m>> \o s) : j <= k + 1})
      IN  n <= Len(all) /\ (<<m>> \o s)[k + 1].id = all[n]
  BY <1>4 DEF Continues
<1>6. Cardinality({j \in Numbered(s) : j <= k}) \in Nat
  BY <1>4, NumberedFinite
<1>7. PICK c \in Nat : c = Cardinality({j \in Numbered(s) : j <= k})
  BY <1>6
<1>8. Cardinality({j \in Numbered(<<m>> \o s) : j <= k + 1}) = c + d
  BY <1>4, <1>7, NumberedCons
<1>9. Len(done) + (c + d) <= Len(all) /\ s[k].id = all[Len(done) + (c + d)]
  BY <1>4, <1>5, <1>8, Zenon
<1>10. Len(done) + (c + d) = Len(done) + d + c
  BY <1>1
<1>11. Len(done) + d + c <= Len(all) /\ s[k].id = all[Len(done) + d + c]
  BY <1>9, <1>10, Zenon
<1> QED
  BY <1>7, <1>11, Zenon

\* The first of the line is executed.
LEMMA LineServed ==
  ASSUME NEW s \in Seq(Request), NEW m \in Request, m.id \in Requests,
         NEW done \in Seq(Requests), NEW all \in Seq(0 .. MaxRequests),
         Continues(<<m>> \o s, done, all)
  PROVE  /\ Continues(s, Append(done, m.id), all)
         /\ Whole(<<m>> \o s, done, all) => Whole(s, Append(done, m.id), all)
<1> DEFINE d == Append(done, m.id)
<1>1. Len(done) \in Nat /\ DOMAIN done = 1 .. Len(done)
  BY LenProperties
<1>2. /\ d \in Seq(Requests) /\ Len(d) = Len(done) + 1 /\ d[Len(done) + 1] = m.id
      /\ \A k \in 1 .. Len(done) : d[k] = done[k]
  BY AppendProperties
<1>3. DOMAIN d = 1 .. Len(done) + 1
  BY <1>2, LenProperties
<1>4. Len(d) <= Len(all) /\ \A k \in DOMAIN d : d[k] = all[k]
  <2>1. Len(done) + 1 <= Len(all) /\ m.id = all[Len(done) + 1]
    BY LineFirst
  <2> QED
    BY <1>1, <1>2, <1>3, <2>1 DEF Continues
<1>5. ASSUME NEW k \in Numbered(s)
      PROVE  LET n == Len(d) + Cardinality({j \in Numbered(s) : j <= k})
             IN  n <= Len(all) /\ s[k].id = all[n]
  <2>1. LET n == Len(done) + 1 + Cardinality({j \in Numbered(s) : j <= k})
        IN  n <= Len(all) /\ s[k].id = all[n]
    BY LineRest
  <2> QED
    BY <1>2, <2>1, Zenon
<1>6. Continues(s, d, all)
  BY <1>4, <1>5 DEF Continues
<1>7. PICK c \in Nat : c = Cardinality(Numbered(s))
  BY NumberedFinite
<1>8. Cardinality(Numbered(<<m>> \o s)) = c + 1
  BY <1>7, TotalCons
<1>9. Whole(<<m>> \o s, done, all) => Whole(s, d, all)
  BY <1>1, <1>2, <1>7, <1>8 DEF Whole
<1> QED
  BY <1>6, <1>9

\* A message with no number leaves the line.
LEMMA LineSkips ==
  ASSUME NEW s \in Seq(Request), NEW m \in Request, m.id \notin Requests,
         NEW done \in Seq(Requests), NEW all \in Seq(0 .. MaxRequests),
         Continues(<<m>> \o s, done, all)
  PROVE  /\ Continues(s, done, all)
         /\ Whole(<<m>> \o s, done, all) => Whole(s, done, all)
<1>1. Len(done) \in Nat
  BY LenProperties
<1>2. ASSUME NEW k \in Numbered(s)
      PROVE  LET n == Len(done) + Cardinality({j \in Numbered(s) : j <= k})
             IN  n <= Len(all) /\ s[k].id = all[n]
  <2>1. LET n == Len(done) + 0 + Cardinality({j \in Numbered(s) : j <= k})
        IN  n <= Len(all) /\ s[k].id = all[n]
    BY LineRest
  <2>2. Len(done) + 0 = Len(done)
    BY <1>1
  <2> QED
    BY <2>1, <2>2, Zenon
<1>3. Continues(s, done, all)
  BY <1>2 DEF Continues
<1>4. Cardinality(Numbered(s)) \in Nat
  BY NumberedFinite
<1>5. Cardinality(Numbered(<<m>> \o s)) = Cardinality(Numbered(s))
  BY <1>4, TotalCons
<1> QED
  BY <1>3, <1>5 DEF Whole

-----------------------------------------------------------------------------
(* The constants *)

USE WireAssumption, ClientAssumption, SessionAssumption
    DEF WireAssumption, ClientAssumption, SessionAssumption

-----------------------------------------------------------------------------
(* Types *)

LEMMA MessageTypes ==
  /\ \A type \in RequestType, id \in 0 .. MaxRequests :
       [type |-> type, id |-> id] \in Request
  /\ \A type \in ReplyType, id \in 0 .. MaxRequests :
       [type |-> type, id |-> id] \in Reply
  /\ DisconnectEvent \in Request
  /\ "ping" \in RequestType /\ "disconnect" \in RequestType
  /\ \A type \in RequestType : Replies(type) \subseteq ReplyType
  /\ 0 \in 0 .. MaxRequests
  BY DEF Request, Reply, DisconnectEvent, RequestType, ReplyType, Replies,
         OpType

LEMMA InitType == Init => TypeOK
<1> SUFFICES ASSUME Init PROVE TypeOK
  OBVIOUS
<1>1. WireTypeOK
  BY EmptySeq DEF Init, WireInit, WireTypeOK
<1>2. ClientTypeOK
  BY DEF Init, ClientInit, ClientTypeOK, Requests, Threads, RequestType, Fate
<1>3. ConnectionTypeOK
  BY MessageTypes, EmptySeq DEF Init, ConnectionInit, ConnectionTypeOK
<1>. QED
  BY <1>1, <1>2, <1>3 DEF TypeOK

LEMMA TakeHead ==
  ASSUME NEW S, NEW s \in Seq(S), s # <<>>
  PROVE  Head(s) \in S /\ Tail(s) \in Seq(S)
  BY HeadTailProperties

\* What the return of a call leaves behind is well typed.
LEMMA ReturnType ==
  ASSUME ClientTypeOK, NEW t \in Callers, NEW r \in Fate, Return(t, r)
  PROVE  /\ connection_mutex' \in Threads \cup {NoThread}
         /\ pc' \in [Threads -> {"idle", "lock", "recv", "check", "sleep",
                                 "bye", "close", "done"}]
         /\ op' \in [Threads -> RequestType]
         /\ cur' \in [Threads -> 0 .. MaxRequests]
         /\ fate' \in [Requests -> Fate]
  BY MessageTypes DEF ClientTypeOK, Return, Release

LEMMA ClientType ==
  ASSUME TypeOK, ClientNext
  PROVE  TypeOK'
<1> USE DEF TypeOK, WireTypeOK, ClientTypeOK, Threads, wireVars
<1>1. ConnectionTypeOK'
  BY DEF ClientNext, ConnectionTypeOK, connectionVars
<1> USE <1>1
<1>2. ASSUME NEW t \in Callers, CallBegin(t)
      PROVE  WireTypeOK' /\ ClientTypeOK'
  BY <1>2 DEF CallBegin, RequestType, OpType, Fate, Requests
<1>3. ASSUME NEW t \in Callers, CallSend(t)
      PROVE  WireTypeOK' /\ ClientTypeOK'
  <2>1. [type |-> op[t], id |-> cur[t]] \in Request
    BY <1>3, MessageTypes
  <2>2. toServer' \in Seq(Request) /\ WireTypeOK'
    BY <1>3, <2>1 DEF CallSend, ClientSend
  <2>3. CASE CanSend
    <3>1. sent' = Append(sent, cur[t]) /\ cur[t] \in 0 .. MaxRequests
      BY <1>3, <2>3 DEF CallSend
    <3>2. sent' \in Seq(0 .. MaxRequests)
      BY <3>1, AppendProperties
    <3>. QED
      BY <1>3, <2>2, <2>3, <3>2 DEF CallSend
  <2>4. CASE ~CanSend
    <3>1. Return(t, "enetwork") /\ "enetwork" \in Fate
      BY <1>3, <2>4 DEF CallSend, Fate
    <3>. QED
      BY <1>3, <2>2, <2>4, <3>1, ReturnType DEF CallSend
  <2>. QED
    BY <2>3, <2>4
<1>4. ASSUME NEW t \in Callers, CallRecv(t)
      PROVE  WireTypeOK' /\ ClientTypeOK'
  <2>1. Head(toClient) \in Reply /\ toClient' \in Seq(Reply)
    BY <1>4, TakeHead DEF CallRecv
  <2>2. Verdict(op[t], Head(toClient).type) \in Fate
    BY DEF Verdict, Fate
  <2>. QED
    BY <1>4, <2>1, <2>2, ReturnType DEF CallRecv
<1>5. ASSUME NEW t \in Callers, CallTimeout(t)
      PROVE  WireTypeOK' /\ ClientTypeOK'
  <2>1. "enetwork" \in Fate
    BY DEF Fate
  <2>. QED
    BY <1>5, <2>1, ReturnType DEF CallTimeout
<1>6. CASE Disconnect
  BY <1>6 DEF Disconnect
<1>7. CASE Joined
  BY <1>7 DEF Joined
<1>8. CASE PingCheck
  BY <1>8 DEF PingCheck
<1>9. CASE PingSend
  <2>1. toServer' \in Seq(Request)
    BY <1>9, MessageTypes DEF PingSend, ClientSend
  <2>2. CASE CanSend
    BY <1>9, <2>1, <2>2 DEF PingSend, Release
  <2>3. CASE ~CanSend
    <3>1. client_stop' = 1 /\ clientOpen' = FALSE /\ toClient' = <<>>
      BY <1>9, <2>3 DEF PingSend, GiveUp, ClientClose
    <3>2. connection_mutex' = NoThread /\ pc' = [pc EXCEPT ![Ping] = "done"]
      BY <1>9, <2>3 DEF PingSend, GiveUp, Release
    <3>. QED
      BY <1>9, <2>1, <3>1, <3>2, EmptySeq DEF PingSend
  <2>. QED
    BY <2>2, <2>3
<1>10. CASE PingRecv
  <2>1. toClient' \in Seq(Reply)
    <3>1. toClient # <<>> /\ Tail(toClient) \in Seq(Reply)
      BY <1>10, TakeHead DEF PingRecv
    <3>. QED
      BY <1>10, <3>1, EmptySeq DEF PingRecv, GiveUp, ClientClose
  <2>. QED
    BY <1>10, <2>1 DEF PingRecv, GiveUp, ClientClose, Release
<1>11. CASE PingTimeout
  BY <1>11 DEF PingTimeout, GiveUp, ClientClose, Release
<1>12. CASE PingWake
  BY <1>12 DEF PingWake
<1>13. CASE PingBye
  <2>1. toServer' \in Seq(Request)
    BY <1>13, MessageTypes DEF PingBye, ClientSend
  <2>. QED
    BY <1>13, <2>1 DEF PingBye
<1>14. CASE PingClose
  BY <1>14, EmptySeq DEF PingClose, ClientClose
<1>. QED
  BY <1>1, <1>2, <1>3, <1>4, <1>5, <1>6, <1>7, <1>8, <1>9, <1>10, <1>11,
     <1>12, <1>13, <1>14
  DEF ClientNext, CallStep, PingStep

LEMMA ServerType ==
  ASSUME TypeOK, ServerNext
  PROVE  TypeOK'
<1> USE DEF TypeOK, WireTypeOK, ConnectionTypeOK, wireVars
<1>1. ClientTypeOK'
  BY DEF ServerNext, ClientTypeOK, clientVars
<1> USE <1>1
<1>2. CASE ServerStop
  BY <1>2 DEF ServerStop
<1>3. CASE ForceDisconnect
  BY <1>3 DEF ForceDisconnect
<1>4. CASE ReaderLoop
  BY <1>4 DEF ReaderLoop
<1>5. CASE ReaderRecv
  BY <1>5, TakeHead DEF ReaderRecv
<1>6. CASE ReaderTimeout
  BY <1>6 DEF ReaderTimeout
<1>7. CASE ReaderPush
  BY <1>7, MessageTypes DEF ReaderPush
<1>8. CASE ReaderPost
  BY <1>8 DEF ReaderPost
<1>9. CASE ReaderLeave
  BY <1>9 DEF ReaderLeave
<1>10. CASE ReaderJoin
  BY <1>10, EmptySeq DEF ReaderJoin
<1>11. CASE ReaderClose
  BY <1>11, EmptySeq DEF ReaderClose, ServerClose
<1>12. CASE ExecutorPop
  <2>1. Head(event_queue) \in Request /\ Tail(event_queue) \in Seq(Request)
    BY <1>12, TakeHead DEF ExecutorPop
  <2>. QED
    BY <1>12, <2>1 DEF ExecutorPop
<1>13. CASE ExecutorEmpty
  BY <1>13 DEF ExecutorEmpty
<1>14. CASE ExecutorWait
  BY <1>14 DEF ExecutorWait
<1>15. CASE HandleDisconnect
  BY <1>15 DEF HandleDisconnect
<1>16. CASE HandleRequest
  <2>1. handling.type \in RequestType
    BY DEF Request
  <2>2. PICK r \in Replies(handling.type) :
          /\ reply' = r
          /\ IF handling.id \in Requests
               THEN /\ executed' = Append(executed, handling.id)
                    /\ served' = [served EXCEPT ![handling.id] =
                                    IF @ # "no" THEN "twice" ELSE
                                      IF r \in Served THEN "ran" ELSE "refused"]
               ELSE UNCHANGED <<executed, served>>
    BY <1>16 DEF HandleRequest
  <2>3. reply' \in ReplyType
    BY <2>1, <2>2, MessageTypes
  <2>4. executed' \in Seq(Requests)
    <3>1. CASE handling.id \in Requests
      <4>1. Append(executed, handling.id) \in Seq(Requests)
        BY <3>1, AppendProperties
      <4>. QED
        BY <2>2, <3>1, <4>1
    <3>2. CASE handling.id \notin Requests
      BY <2>2, <3>2
    <3>. QED
      BY <3>1, <3>2
  <2>5. served' \in [Requests -> {"no", "ran", "refused", "twice"}]
    BY <2>2
  <2>. QED
    BY <1>16, <2>3, <2>4, <2>5 DEF HandleRequest
<1>17. CASE ExecutorReply
  <2>1. handling.id \in 0 .. MaxRequests /\ reply \in ReplyType
    BY <1>17 DEF ExecutorReply, Request
  <2>2. toClient' \in Seq(Reply)
    BY <1>17, <2>1, MessageTypes DEF ExecutorReply, ServerSend
  <2>. QED
    BY <1>17, <2>2, MessageTypes DEF ExecutorReply
<1>18. CASE ExecutorExit
  BY <1>18 DEF ExecutorExit
<1>. QED
  BY <1>1, <1>2, <1>3, <1>4, <1>5, <1>6, <1>7, <1>8, <1>9, <1>10, <1>11, <1>12, <1>13, <1>14, <1>15, <1>16, <1>17, <1>18
  DEF ServerNext, ReaderStep, ExecutorStep

LEMMA TypeStep ==
  ASSUME TypeOK, [Next]_vars
  PROVE  TypeOK'
<1>1. CASE UNCHANGED vars
  BY <1>1
  DEF vars, wireVars, clientVars, connectionVars, TypeOK, WireTypeOK,
      ClientTypeOK, ConnectionTypeOK
<1>. QED
  BY <1>1, ClientType, ServerType DEF Next

\* Every variable keeps its type, for every number of threads and requests.
THEOREM TypeCorrect == Spec => []TypeOK
<1>. QED
  BY InitType, TypeStep, PTL DEF Spec

-----------------------------------------------------------------------------
(* The two threads of a connection *)

\* A step of the client leaves the server's threads where they are.
LEMMA ClientFrame ==
  ASSUME ClientNext
  PROVE  UNCHANGED <<should_stop, force_disconnect, reader, event, event_queue,
                     wait, executor, handling, reply, stop,
                     already_disconnected, executed, served, leftover,
                     serverOpen>>
  BY DEF ClientNext, connectionVars, CallBegin, CallStep, CallSend, CallRecv,
         CallTimeout, PingStep, PingCheck, PingSend, PingRecv, PingTimeout,
         PingWake, PingBye, PingClose, Disconnect, Joined, wireVars

\* A step of the server leaves the client's threads where they are.
LEMMA ServerFrame ==
  ASSUME ServerNext
  PROVE  UNCHANGED <<client_stop, connection_mutex, pc, op, cur, nextId, app,
                     sent, fate, answer, clientOpen>>
  BY DEF ServerNext, clientVars, ServerStop, ForceDisconnect, ReaderStep,
         ReaderLoop, ReaderRecv, ReaderTimeout, ReaderPush, ReaderPost,
         ReaderLeave, ReaderJoin, ReaderClose, ServerClose, ExecutorStep,
         ExecutorPop, ExecutorEmpty, ExecutorWait, HandleDisconnect,
         HandleRequest, ExecutorReply, ExecutorExit, wireVars

LEMMA WakeupStep ==
  ASSUME TypeOK, NoLostWakeup, [Next]_vars
  PROVE  NoLostWakeup'
<1> USE DEF NoLostWakeup
<1>1. CASE ClientNext
  BY <1>1, ClientFrame
<1>2. CASE ServerStop \/ ForceDisconnect
  BY <1>2 DEF ServerStop, ForceDisconnect
<1>3. CASE ReaderStep
  BY <1>3
  DEF ReaderStep, ReaderLoop, ReaderRecv, ReaderTimeout, ReaderPush,
      ReaderPost, ReaderLeave, ReaderJoin, ReaderClose, TypeOK, ConnectionTypeOK
<1>4. CASE ExecutorStep
  BY <1>4
  DEF ExecutorStep, ExecutorPop, ExecutorEmpty, ExecutorWait, HandleDisconnect,
      HandleRequest, ExecutorReply, ExecutorExit, TypeOK, ConnectionTypeOK
<1>5. CASE UNCHANGED vars
  BY <1>5 DEF vars, connectionVars
<1>. QED
  BY <1>1, <1>2, <1>3, <1>4, <1>5 DEF Next, ServerNext

\* The executor is never left asleep on a queued event, in any interleaving
\* of queue_push, sem_post, queue_pop and sem_wait.
THEOREM NeverLostWakeup == Spec => []NoLostWakeup
<1>1. Init => NoLostWakeup
  BY DEF Init, ConnectionInit, NoLostWakeup
<1>. QED
  BY <1>1, WakeupStep, TypeCorrect, PTL DEF Spec

LEMMA StopStep ==
  ASSUME TypeOK, StopInv, [Next]_vars
  PROVE  StopInv'
<1> USE DEF StopInv, JoinOnlyStopping, ExecutorWillStop
<1>1. CASE ClientNext
  BY <1>1, ClientFrame
<1>2. CASE ServerStop \/ ForceDisconnect
  BY <1>2 DEF ServerStop, ForceDisconnect
<1>3. CASE ReaderStep
  <2> USE DEF TypeOK, ConnectionTypeOK
  <2>1. CASE ReaderPush
    <3>1. reader = "pushD" => event_queue' = Append(event_queue, DisconnectEvent)
      BY <2>1 DEF ReaderPush
    <3>2. reader = "pushD" =>
            event_queue'[Len(event_queue) + 1].type = "disconnect" /\
            Len(event_queue) + 1 \in DOMAIN event_queue'
      BY <3>1, MessageTypes, AppendProperties DEF DisconnectEvent
    <3>. QED
      BY <2>1, <3>2 DEF ReaderPush
  <2>2. CASE ReaderJoin
    BY <2>2 DEF ReaderJoin
  <2>3. CASE ReaderLoop \/ ReaderRecv \/ ReaderTimeout \/ ReaderPost
             \/ ReaderLeave \/ ReaderClose
    BY <2>3
    DEF ReaderLoop, ReaderRecv, ReaderTimeout, ReaderPost, ReaderLeave,
        ReaderClose
  <2>. QED
    BY <1>3, <2>1, <2>2, <2>3 DEF ReaderStep
<1>4. CASE ExecutorStep
  <2> USE DEF TypeOK, ConnectionTypeOK
  <2>1. CASE ExecutorPop
    <3>1. ASSUME NEW k \in DOMAIN event_queue,
                 event_queue[k].type = "disconnect", k # 1
          PROVE  /\ k - 1 \in DOMAIN event_queue'
                 /\ event_queue'[k - 1].type = "disconnect"
      BY <2>1, <3>1, HeadTailProperties DEF ExecutorPop
    <3>2. event_queue[1].type = "disconnect" =>
            handling'.type = "disconnect" /\ executor' = "handle"
      BY <2>1 DEF ExecutorPop
    <3>3. UNCHANGED <<stop, reader, already_disconnected>>
      BY <2>1 DEF ExecutorPop
    <3>4. executor = "loop" /\ executor' = "handle"
      BY <2>1 DEF ExecutorPop
    <3>. QED
      BY <3>1, <3>2, <3>3, <3>4
  <2>2. CASE ExecutorEmpty \/ ExecutorWait \/ HandleDisconnect
             \/ ExecutorReply \/ ExecutorExit
    BY <2>2
    DEF ExecutorEmpty, ExecutorWait, HandleDisconnect, ExecutorReply,
        ExecutorExit
  <2>3. CASE HandleRequest
    BY <2>3 DEF HandleRequest
  <2>. QED
    BY <1>4, <2>1, <2>2, <2>3 DEF ExecutorStep
<1>5. CASE UNCHANGED vars
  BY <1>5 DEF vars, connectionVars
<1>. QED
  BY <1>1, <1>2, <1>3, <1>4, <1>5 DEF Next, ServerNext

\* The reader never joins an executor that could run, or sleep, for ever.
THEOREM JoinsOnlyStopping == Spec => []JoinOnlyStopping
<1>1. Init => StopInv
  BY DEF Init, ConnectionInit, StopInv, JoinOnlyStopping
<1>2. StopInv => JoinOnlyStopping
  BY DEF StopInv
<1>. QED
  BY <1>1, <1>2, StopStep, TypeCorrect, PTL DEF Spec

LEMMA CloseStep ==
  ASSUME TypeOK, CloseInv, [Next]_vars
  PROVE  CloseInv'
<1> USE DEF CloseInv
<1>1. CASE ClientNext
  BY <1>1, ClientFrame
<1>2. CASE ServerStop \/ ForceDisconnect
  BY <1>2 DEF ServerStop, ForceDisconnect, wireVars
<1>3. CASE ReaderStep
  BY <1>3
  DEF ReaderStep, ReaderLoop, ReaderRecv, ReaderTimeout, ReaderPush,
      ReaderPost, ReaderLeave, ReaderJoin, ReaderClose, ServerClose, wireVars
<1>4. CASE ExecutorStep
  BY <1>4
  DEF ExecutorStep, ExecutorPop, ExecutorEmpty, ExecutorWait, HandleDisconnect,
      HandleRequest, ExecutorReply, ExecutorExit, wireVars
<1>5. CASE UNCHANGED vars
  BY <1>5 DEF vars, connectionVars, wireVars
<1>. QED
  BY <1>1, <1>2, <1>3, <1>4, <1>5 DEF Next, ServerNext

-----------------------------------------------------------------------------
(* The client's threads *)

LEMMA ShapeStep ==
  ASSUME TypeOK, ClientShape, [Next]_vars
  PROVE  ClientShape'
<1> USE DEF ClientShape, TypeOK, ClientTypeOK, Threads, wireVars, MutexFree
<1>1. ASSUME NEW t \in Callers, CallBegin(t)
      PROVE  ClientShape'
  <2> USE <1>1 DEF CallBegin
  <2>1. MutexShape' /\ PingShape'
    BY DEF MutexShape, PingShape
  <2>2. CallerShape'
    BY DEF CallerShape
  <2>. QED
    BY <2>1, <2>2
<1>2. ASSUME NEW t \in Callers, CallSend(t)
      PROVE  ClientShape'
  <2> USE <1>2 DEF CallSend, Return, Release, CanSend
  <2>1. MutexShape'
    BY DEF MutexShape
  <2>2. CallerShape'
    BY DEF CallerShape
  <2>3. PingShape'
    BY DEF PingShape
  <2>. QED
    BY <2>1, <2>2, <2>3
<1>3. ASSUME NEW t \in Callers, CallRecv(t) \/ CallTimeout(t)
      PROVE  ClientShape'
  <2>1. pc[t] = "recv" /\ Release(t, "idle")
    BY <1>3 DEF CallRecv, CallTimeout, Return
  <2>2. /\ op' = [op EXCEPT ![t] = "ping"]
        /\ cur' = [cur EXCEPT ![t] = 0]
        /\ UNCHANGED <<client_stop, app, clientOpen>>
    BY <1>3 DEF CallRecv, CallTimeout, Return
  <2>3. MutexShape'
    BY <2>1 DEF MutexShape, Release
  <2>4. CallerShape'
    BY <2>1, <2>2 DEF CallerShape, Release
  <2>5. PingShape'
    BY <2>1, <2>2 DEF PingShape, Release
  <2>. QED
    BY <2>3, <2>4, <2>5
<1>4. CASE Disconnect \/ Joined
  BY <1>4 DEF Disconnect, Joined, MutexShape, CallerShape, PingShape
<1>5. CASE PingCheck
  BY <1>5 DEF PingCheck, MutexShape, CallerShape, PingShape
<1>6. CASE PingSend
  <2> USE <1>6 DEF PingSend, GiveUp, ClientClose, Release, CanSend
  <2>1. MutexShape'
    BY DEF MutexShape
  <2>2. CallerShape' /\ PingShape'
    BY DEF CallerShape, PingShape
  <2>. QED
    BY <2>1, <2>2
<1>7. CASE PingRecv
  <2> USE <1>7 DEF PingRecv, GiveUp, ClientClose, Release
  <2>1. MutexShape'
    BY DEF MutexShape
  <2>2. CallerShape' /\ PingShape'
    BY DEF CallerShape, PingShape
  <2>. QED
    BY <2>1, <2>2
<1>8. CASE PingTimeout
  BY <1>8
  DEF PingTimeout, GiveUp, ClientClose, Release, MutexShape, CallerShape,
      PingShape
<1>9. CASE PingWake \/ PingBye \/ PingClose
  BY <1>9
  DEF PingWake, PingBye, PingClose, ClientClose, MutexShape, CallerShape,
      PingShape
<1>10. CASE ServerNext
  BY <1>10, ServerFrame DEF MutexShape, CallerShape, PingShape
<1>11. CASE UNCHANGED vars
  BY <1>11 DEF vars, clientVars, MutexShape, CallerShape, PingShape
<1>. QED
  BY <1>1, <1>2, <1>3, <1>4, <1>5, <1>6, <1>7, <1>8, <1>9, <1>10, <1>11
  DEF Next, ClientNext, CallStep, PingStep

-----------------------------------------------------------------------------
(* Pairing replies with requests *)

\* While nobody holds the mutex no request and no reply is alive.
LEMMA Quiet ==
  ASSUME AliveIsAwaited, connection_mutex = NoThread
  PROVE  NoneAlive
  BY DEF AliveIsAwaited, NoneAlive, AllAwaited, Awaited, AwaitedReply, OnWire,
         Queued, WithReader, InHand, Returning, HasRequest

LEMMA NoneAliveNext ==
  ASSUME NoneAlive'
  PROVE  OneAlive' /\ AliveIsAwaited'
<1>1. Len(toClient') = 0
  BY EmptySeq DEF NoneAlive, Returning
<1>2. ~InHand' /\ ~Returning' /\ ~OnWire' /\ ~WithReader' /\ ~Queued'
  BY DEF NoneAlive
<1>3. Len(toClient') <= 1
  BY <1>1
<1>. QED
  BY <1>2, <1>3 DEF OneAlive, AliveIsAwaited, InHand

\* A receive that times out when no reply can come leaves nothing alive.
LEMMA NothingComing ==
  ASSUME TypeOK, ~ReplyComing, toClient = <<>>
  PROVE  NoneAlive
  BY DEF ReplyComing, NoneAlive, OnWire, WithReader, Queued, InHand, Returning,
         HasRequest, TypeOK, WireTypeOK, ConnectionTypeOK

LEMMA NumberingStep ==
  ASSUME TypeOK, ClientShape, Numbering, AliveIsAwaited, [Next]_vars
  PROVE  Numbering'
<1> USE DEF Numbering
<1>1. ASSUME NEW t \in Callers, CallBegin(t), UNCHANGED connectionVars
      PROVE  Numbering'
  BY <1>1
  DEF CallBegin, connectionVars, TypeOK, ClientTypeOK, ConnectionTypeOK,
      Requests, Threads, ClientShape, CallerShape
<1>2. ASSUME NEW t \in Callers, CallSend(t), UNCHANGED connectionVars
      PROVE  Numbering'
  <2>1. CASE CanSend
    BY <1>2, <2>1
    DEF CallSend, connectionVars, TypeOK, ClientTypeOK, Threads
  <2>2. CASE ~CanSend
    <3>1. Return(t, "enetwork") /\ pc[t] = "lock" /\ UNCHANGED nextId
      BY <1>2, <2>2 DEF CallSend
    <3>. QED
      BY <1>2, <3>1
      DEF Return, Release, connectionVars, TypeOK, ClientTypeOK, Requests,
          Threads, ClientShape, CallerShape
  <2>. QED
    BY <2>1, <2>2
<1>3. ASSUME NEW t \in Callers, CallRecv(t) \/ CallTimeout(t),
             UNCHANGED connectionVars
      PROVE  Numbering'
  <2>1. PICK r : Return(t, r) /\ pc[t] = "recv" /\ UNCHANGED nextId
    BY <1>3 DEF CallRecv, CallTimeout
  <2>. QED
    BY <1>3, <2>1
    DEF Return, Release, connectionVars, TypeOK, ClientTypeOK, Requests,
        Threads, ClientShape, CallerShape
<1>4. CASE (Disconnect \/ Joined \/ PingStep) /\ UNCHANGED connectionVars
  BY <1>4
  DEF Disconnect, Joined, PingStep, PingCheck, PingSend, PingRecv, PingTimeout,
      PingWake, PingBye, PingClose, GiveUp, Release, connectionVars, TypeOK,
      ClientTypeOK, Threads
<1>5. CASE HandleRequest /\ UNCHANGED clientVars
  <2>1. \A i \in Requests : i # handling.id => served'[i] = served[i]
    BY <1>5 DEF HandleRequest, TypeOK, ConnectionTypeOK
  <2>2. handling.id \in Requests =>
          /\ connection_mutex \in Callers
          /\ pc[connection_mutex] = "recv"
          /\ handling.id = cur[connection_mutex]
    BY <1>5
    DEF HandleRequest, AliveIsAwaited, IsRequest, Awaited, ClientShape,
        MutexShape, PingShape, Requests, TypeOK, ClientTypeOK, Threads
  <2>3. UNCHANGED <<pc, cur, nextId, fate>>
    BY <1>5 DEF clientVars
  <2>4. ASSUME NEW t \in Callers, pc[t] = "lock"
        PROVE  served'[cur[t]] = "no"
    BY <2>1, <2>2, <2>4 DEF ClientShape, CallerShape
  <2>5. ASSUME NEW i \in Requests, i >= nextId
        PROVE  served'[i] = "no"
    <3>1. i # handling.id
      <4>1. handling.id \in Requests => handling.id < nextId
        BY <2>2
      <4>. QED
        BY <2>5, <4>1 DEF Requests, TypeOK, ClientTypeOK
    <3>. QED
      BY <2>1, <2>5, <3>1
  <2>. QED
    BY <2>3, <2>4, <2>5
<1>6. CASE ServerNext /\ UNCHANGED served
  BY <1>6, ServerFrame
<1>7. ServerNext => UNCHANGED served \/ (HandleRequest /\ UNCHANGED clientVars)
  BY DEF ServerNext, ServerStop, ForceDisconnect, ReaderStep, ReaderLoop,
         ReaderRecv, ReaderTimeout, ReaderPush, ReaderPost, ReaderLeave,
         ReaderJoin, ReaderClose, ExecutorStep, ExecutorPop, ExecutorEmpty,
         ExecutorWait, HandleDisconnect, ExecutorReply, ExecutorExit
<1>8. CASE UNCHANGED vars
  BY <1>8 DEF vars, clientVars, connectionVars
<1>. QED
  BY <1>1, <1>2, <1>3, <1>4, <1>5, <1>6, <1>7, <1>8
  DEF Next, ClientNext, CallStep

\* Where the requests of a queue are after its head is taken.
LEMMA Taken ==
  ASSUME NEW s \in Seq(Request), s # <<>>
  PROVE  /\ HasRequest(s) <=> IsRequest(Head(s)) \/ HasRequest(Tail(s))
         /\ AtMostOne(s) => AtMostOne(Tail(s))
         /\ AtMostOne(s) /\ IsRequest(Head(s)) => ~HasRequest(Tail(s))
         /\ AllAwaited(s) => AllAwaited(Tail(s))
         /\ AllAwaited(s) /\ IsRequest(Head(s)) => Awaited(Head(s))
<1>1. /\ Len(s) \in Nat \ {0}
      /\ Head(s) = s[1]
      /\ Len(Tail(s)) = Len(s) - 1
      /\ \A k \in 1 .. Len(Tail(s)) : Tail(s)[k] = s[k + 1]
  BY HeadTailProperties, LenProperties, EmptySeq
<1>2. \A k \in 1 .. Len(s) : k # 1 => k - 1 \in 1 .. Len(Tail(s))
                                      /\ s[k] = Tail(s)[k - 1]
  BY <1>1
<1>3. \A k \in 1 .. Len(Tail(s)) : k + 1 \in 1 .. Len(s) /\ k + 1 # 1
  BY <1>1
<1>4. 1 \in 1 .. Len(s)
  BY <1>1
<1>. QED
  BY <1>1, <1>2, <1>3, <1>4 DEF HasRequest, AtMostOne, AllAwaited

\* And after a message is appended to it.
LEMMA Appended ==
  ASSUME NEW s \in Seq(Request), NEW m \in Request
  PROVE  /\ HasRequest(Append(s, m)) <=> HasRequest(s) \/ IsRequest(m)
         /\ ~HasRequest(s) => AtMostOne(Append(s, m))
         /\ AtMostOne(s) /\ ~IsRequest(m) => AtMostOne(Append(s, m))
         /\ \A k \in 1 .. Len(Append(s, m)) :
              IsRequest(Append(s, m)[k]) =>
                \/ Append(s, m)[k] = m
                \/ k \in 1 .. Len(s) /\ Append(s, m)[k] = s[k]
<1>1. /\ Len(s) \in Nat
      /\ Len(Append(s, m)) = Len(s) + 1
      /\ Append(s, m)[Len(s) + 1] = m
      /\ \A k \in 1 .. Len(s) : Append(s, m)[k] = s[k]
  BY AppendProperties, LenProperties
<1>2. \A k \in 1 .. Len(Append(s, m)) : k \in 1 .. Len(s) \/ k = Len(s) + 1
  BY <1>1
<1>3. \A k \in 1 .. Len(s) : k \in 1 .. Len(Append(s, m)) /\ k # Len(s) + 1
  BY <1>1
<1>4. Len(s) + 1 \in 1 .. Len(Append(s, m))
  BY <1>1
<1>. QED
  BY <1>1, <1>2, <1>3, <1>4 DEF HasRequest, AtMostOne

\* A step that moves no message and leaves the holder's request alone.
LEMMA AliveFrame ==
  ASSUME OneAlive, AliveIsAwaited,
         UNCHANGED <<connection_mutex, served, executor, reader, event,
                     event_queue, handling, reply, toServer, toClient>>,
         connection_mutex # NoThread =>
           /\ cur'[connection_mutex] = cur[connection_mutex]
           /\ op'[connection_mutex] = op[connection_mutex]
  PROVE  OneAlive' /\ AliveIsAwaited'
<1>1. \A m : Awaited(m) => Awaited(m)'
  BY DEF Awaited
<1>2. \A m : AwaitedReply(m) => AwaitedReply(m)'
  BY DEF AwaitedReply
<1>3. OneAlive'
  BY DEF OneAlive, OnWire, WithReader, Queued, InHand, Returning, Reading
<1>4. AliveIsAwaited'
  <2>1. /\ OnWire' = OnWire /\ WithReader' = WithReader
        /\ Queued' = Queued /\ Returning' = Returning
    BY DEF OnWire, WithReader, Queued, Returning, Reading
  <2>2. /\ AllAwaited(toServer) => AllAwaited(toServer)'
        /\ AllAwaited(event_queue) => AllAwaited(event_queue)'
    BY <1>1 DEF AllAwaited
  <2>3. Awaited(event) => Awaited(event)'
    BY <1>1
  <2>4. Awaited(handling) => Awaited(handling)'
    BY <1>1
  <2>5. AwaitedReply([type |-> reply, id |-> handling.id]) =>
          AwaitedReply([type |-> reply, id |-> handling.id])'
    BY <1>2
  <2>6. AwaitedReply(Head(toClient)) => AwaitedReply(Head(toClient))'
    BY <1>2
  <2>. QED
    BY <2>1, <2>2, <2>3, <2>4, <2>5, <2>6 DEF AliveIsAwaited
<1>. QED
  BY <1>3, <1>4

\* A thread sends the request m, and nothing else is alive.
LEMMA AliveSend ==
  ASSUME TypeOK, NoneAlive, NEW m \in Request, IsRequest(m),
         toServer' = Append(toServer, m),
         UNCHANGED <<toClient, served, executor, reader, event, event_queue,
                     handling, reply>>,
         Awaited(m)'
  PROVE  OneAlive' /\ AliveIsAwaited'
<1> USE DEF NoneAlive
<1>1. ~WithReader' /\ ~Queued' /\ ~InHand' /\ ~Returning'
  BY DEF WithReader, Queued, InHand, Returning
<1>2. executor' # "done" /\ Reading' => ~HasRequest(toServer)
  BY DEF OnWire, Reading
<1>3. OnWire' => AtMostOne(toServer)'
  BY <1>2, Appended DEF OnWire, TypeOK, WireTypeOK
<1>4. OnWire' => AllAwaited(toServer)'
  <2>1. SUFFICES ASSUME OnWire', NEW k \in 1 .. Len(toServer'),
                        IsRequest(toServer'[k])
                 PROVE  toServer'[k] = m
    BY DEF AllAwaited
  <2>2. ~HasRequest(toServer)
    BY <1>2, <2>1 DEF OnWire
  <2>. QED
    BY <2>1, <2>2, Appended DEF HasRequest, TypeOK, WireTypeOK
<1>5. Len(toClient') <= 1
  BY EmptySeq DEF Returning
<1>. QED
  BY <1>1, <1>3, <1>4, <1>5 DEF OneAlive, AliveIsAwaited, InHand

LEMMA TailOfOne ==
  ASSUME NEW S, NEW s \in Seq(S), s # <<>>, Len(s) <= 1
  PROVE  Tail(s) = <<>>
<1>1. Len(s) \in Nat \ {0}
  BY EmptySeq
<1>2. Len(s) = 1
  <2>1. \A n \in Nat \ {0} : n <= 1 => n = 1
    OBVIOUS
  <2>. QED
    BY <1>1, <2>1
<1>3. Tail(s) \in Seq(S) /\ Len(Tail(s)) = 0
  BY <1>2, HeadTailProperties
<1>. QED
  BY <1>3, EmptySeq

\* The holder takes the only reply, so that nothing is left.
LEMMA AliveTake ==
  ASSUME TypeOK, OneAlive, Returning, toClient' = Tail(toClient),
         UNCHANGED <<toServer, executor, reader, event, event_queue, handling>>
  PROVE  NoneAlive'
<1>1. toClient' = <<>>
  BY TailOfOne DEF OneAlive, Returning, TypeOK, WireTypeOK
<1>. QED
  BY <1>1
  DEF OneAlive, NoneAlive, OnWire, WithReader, Queued, InHand, Returning,
      Reading

LEMMA NoneAliveFrame ==
  ASSUME NoneAlive, toClient' = toClient \/ toClient' = <<>>,
         UNCHANGED <<toServer, executor, reader, event, event_queue, handling>>
  PROVE  OneAlive' /\ AliveIsAwaited'
<1>1. NoneAlive'
  BY DEF NoneAlive, OnWire, WithReader, Queued, InHand, Returning, Reading
<1>. QED
  BY <1>1, NoneAliveNext

LEMMA AliveClient ==
  ASSUME SlowReplies = FALSE, TypeOK, ClientShape, Numbering, OneAlive,
         AliveIsAwaited, ClientNext
  PROVE  OneAlive' /\ AliveIsAwaited'
<1>0. UNCHANGED <<executor, reader, event, event_queue, handling, reply, served>>
  BY ClientFrame
<1>1. ASSUME NEW t \in Callers, CallBegin(t)
      PROVE  OneAlive' /\ AliveIsAwaited'
  <2>1. t # connection_mutex
    BY <1>1 DEF CallBegin, ClientShape, MutexShape, Threads
  <2>2. UNCHANGED <<connection_mutex, toServer, toClient>>
    BY <1>1 DEF CallBegin, wireVars
  <2>3. /\ cur'[connection_mutex] = cur[connection_mutex] \/ connection_mutex = NoThread
        /\ op'[connection_mutex] = op[connection_mutex] \/ connection_mutex = NoThread
    BY <1>1, <2>1 DEF CallBegin, TypeOK, ClientTypeOK
  <2>. QED
    BY <1>0, <2>2, <2>3, AliveFrame
<1>2. ASSUME NEW t \in Callers, CallSend(t)
      PROVE  OneAlive' /\ AliveIsAwaited'
  <2>1. NoneAlive
    BY <1>2, Quiet DEF CallSend, MutexFree
  <2>2. CASE CanSend
    <3>0. PICK m \in Request : m = [type |-> op[t], id |-> cur[t]]
      BY <1>2, MessageTypes DEF TypeOK, ClientTypeOK, Threads
    <3>1. IsRequest(m)
      BY <1>2, <3>0
      DEF CallSend, ClientShape, CallerShape, IsRequest, OpType
    <3>2. toServer' = Append(toServer, m) /\ UNCHANGED toClient
      BY <1>2, <2>2, <3>0 DEF CallSend, ClientSend
    <3>3. Awaited(m)'
      <4>1. connection_mutex' = t /\ t # NoThread /\ op' = op /\ cur' = cur
        BY <1>2, <2>2 DEF CallSend
      <4>2. served'[cur[t]] = "no"
        BY <1>0, <1>2 DEF CallSend, Numbering
      <4>. QED
        BY <3>0, <4>1, <4>2 DEF Awaited
    <3>. QED
      BY <1>0, <2>1, <3>1, <3>2, <3>3, AliveSend
  <2>3. CASE ~CanSend
    <3>1. UNCHANGED <<toServer, toClient>>
      BY <1>2, <2>3 DEF CallSend, ClientSend
    <3>. QED
      BY <1>0, <2>1, <3>1, NoneAliveFrame
  <2>. QED
    BY <2>2, <2>3
<1>3. ASSUME NEW t \in Callers, CallRecv(t)
      PROVE  OneAlive' /\ AliveIsAwaited'
  <2>1. Returning /\ toClient' = Tail(toClient) /\ UNCHANGED toServer
    BY <1>3 DEF CallRecv, Returning
  <2>2. NoneAlive'
    BY <1>0, <2>1, AliveTake
  <2>. QED
    BY <2>2, NoneAliveNext
<1>4. ASSUME NEW t \in Callers, CallTimeout(t), ~ReplyComing
      PROVE  OneAlive' /\ AliveIsAwaited'
  <2>1. NoneAlive /\ UNCHANGED <<toServer, toClient>>
    BY <1>4, NothingComing DEF CallTimeout, wireVars
  <2>. QED
    BY <1>0, <2>1, NoneAliveFrame
<1>5. CASE Disconnect \/ Joined \/ PingCheck \/ PingWake
  <2>1. UNCHANGED <<connection_mutex, op, cur, toServer, toClient>>
    BY <1>5 DEF Disconnect, Joined, PingCheck, PingWake, wireVars
  <2>. QED
    BY <1>0, <2>1, AliveFrame
<1>6. CASE PingSend
  <2>1. NoneAlive
    BY <1>6, Quiet DEF PingSend, MutexFree
  <2>2. CASE CanSend
    <3> DEFINE m == [type |-> "ping", id |-> 0]
    <3>1. m \in Request /\ IsRequest(m)
      BY MessageTypes DEF IsRequest
    <3>2. toServer' = Append(toServer, m) /\ UNCHANGED toClient
      BY <1>6, <2>2 DEF PingSend, ClientSend
    <3>3. Awaited(m)'
      BY <1>6, <2>2
      DEF PingSend, Awaited, ClientShape, PingShape, Requests
    <3>. QED
      BY <1>0, <2>1, <3>1, <3>2, <3>3, AliveSend
  <2>3. CASE ~CanSend
    <3>1. UNCHANGED toServer /\ toClient' = <<>>
      BY <1>6, <2>3 DEF PingSend, ClientSend, GiveUp, ClientClose
    <3>. QED
      BY <1>0, <2>1, <3>1, NoneAliveFrame
  <2>. QED
    BY <2>2, <2>3
<1>7. CASE PingRecv
  <2>1. connection_mutex = Ping
    BY <1>7 DEF PingRecv, ClientShape, MutexShape, Threads
  <2>2. Head(toClient).type = "ping"
    BY <1>7, <2>1
    DEF PingRecv, AliveIsAwaited, Returning, AwaitedReply, ClientShape,
        PingShape, Replies
  <2>3. Returning /\ toClient' = Tail(toClient) /\ UNCHANGED toServer
    BY <1>7, <2>2 DEF PingRecv, Returning
  <2>4. NoneAlive'
    BY <1>0, <2>3, AliveTake
  <2>. QED
    BY <2>4, NoneAliveNext
<1>8. CASE PingTimeout /\ ~ReplyComing
  <2>1. NoneAlive /\ UNCHANGED toServer /\ toClient' = <<>>
    BY <1>8, NothingComing DEF PingTimeout, GiveUp, ClientClose
  <2>. QED
    BY <1>0, <2>1, NoneAliveFrame
<1>9. CASE PingBye
  <2>1. NoneAlive
    BY <1>9, Quiet DEF PingBye, MutexFree
  <2>2. HasRequest(toServer') => HasRequest(toServer)
    BY <1>9, Appended, MessageTypes
    DEF PingBye, ClientSend, IsRequest, TypeOK, WireTypeOK
  <2>3. NoneAlive'
    BY <1>0, <1>9, <2>1, <2>2
    DEF PingBye, NoneAlive, OnWire, WithReader, Queued, InHand, Returning,
        Reading
  <2>. QED
    BY <2>3, NoneAliveNext
<1>10. CASE PingClose
  <2>1. NoneAlive
    <3>1. connection_mutex = NoThread
      BY <1>10
      DEF PingClose, ClientShape, MutexShape, CallerShape, PingShape, TypeOK,
          ClientTypeOK, Threads
    <3>. QED
      BY <3>1, Quiet
  <2>. QED
    BY <1>0, <1>10, <2>1, NoneAliveFrame DEF PingClose, ClientClose
<1>. QED
  BY <1>1, <1>2, <1>3, <1>4, <1>5, <1>6, <1>7, <1>8, <1>9, <1>10
  DEF ClientNext, CallStep, PingStep

\* A step that takes nothing further, though it may end some of what was alive.
LEMMA AliveShrink ==
  ASSUME OneAlive, AliveIsAwaited,
         UNCHANGED <<connection_mutex, op, cur, served, handling, reply,
                     toClient>>,
         OnWire' => OnWire /\ toServer' = toServer,
         WithReader' => WithReader /\ event' = event,
         Queued' => Queued /\ event_queue' = event_queue,
         executor' \in {"handle", "reply"} => executor' = executor,
         InHand' => InHand
  PROVE  OneAlive' /\ AliveIsAwaited'
<1>1. OneAlive'
  BY DEF OneAlive, Returning
<1>2. /\ OnWire' => AllAwaited(toServer)'
      /\ Queued' => AllAwaited(event_queue)'
  BY DEF AliveIsAwaited, AllAwaited, Awaited
<1>3. WithReader' => Awaited(event)'
  BY DEF AliveIsAwaited, Awaited
<1>4. executor' = "handle" /\ IsRequest(handling') => Awaited(handling)'
  BY DEF AliveIsAwaited, Awaited
<1>5. executor' = "reply" => AwaitedReply([type |-> reply, id |-> handling.id])'
  BY DEF AliveIsAwaited, AwaitedReply
<1>6. Returning' => AwaitedReply(Head(toClient))'
  BY DEF AliveIsAwaited, AwaitedReply, Returning
<1>. QED
  BY <1>1, <1>2, <1>3, <1>4, <1>5, <1>6 DEF AliveIsAwaited

LEMMA AliveServer ==
  ASSUME TypeOK, OneAlive, AliveIsAwaited, ServerNext
  PROVE  OneAlive' /\ AliveIsAwaited'
<1>0. UNCHANGED <<connection_mutex, op, cur>>
  BY ServerFrame
<1>1. CASE ServerStop \/ ForceDisconnect
  BY <1>0, <1>1, AliveShrink
  DEF ServerStop, ForceDisconnect, OnWire, WithReader, Queued, InHand, Reading,
      wireVars
<1>2. CASE ReaderLoop \/ ReaderTimeout \/ ReaderPost \/ ReaderLeave
  BY <1>0, <1>2, AliveShrink
  DEF ReaderLoop, ReaderTimeout, ReaderPost, ReaderLeave, OnWire, WithReader,
      Queued, InHand, Reading, wireVars
<1>3. CASE ReaderJoin \/ ReaderClose
  BY <1>0, <1>3, AliveShrink
  DEF ReaderJoin, ReaderClose, ServerClose, OnWire, WithReader, Queued, InHand,
      Reading, wireVars
<1>4. CASE ExecutorEmpty \/ ExecutorWait \/ HandleDisconnect \/ ExecutorExit
  BY <1>0, <1>4, AliveShrink
  DEF ExecutorEmpty, ExecutorWait, HandleDisconnect, ExecutorExit, OnWire,
      WithReader, Queued, InHand, Reading, IsRequest, wireVars
<1>5. CASE ReaderRecv
  <2> USE <1>5 DEF ReaderRecv
  <2>1. toServer \in Seq(Request) /\ toServer # <<>> /\ Reading /\ Reading'
    BY DEF TypeOK, WireTypeOK, Reading
  <2>2. UNCHANGED <<served, handling, reply, toClient, executor, event_queue>>
    OBVIOUS
  <2>3. Queued' = Queued /\ InHand' = InHand /\ Returning' = Returning
    BY DEF Queued, InHand, Returning
  <2>4. OnWire' => OnWire /\ AtMostOne(toServer)' /\ AllAwaited(Tail(toServer))
    BY <2>1, Taken DEF OnWire, OneAlive, AliveIsAwaited
  <2>5. WithReader' =>
          OnWire /\ ~OnWire' /\ Awaited(Head(toServer)) /\ event' = Head(toServer)
    BY <2>1, Taken DEF OnWire, WithReader, OneAlive, AliveIsAwaited
  <2>6. OneAlive'
    BY <2>2, <2>3, <2>4, <2>5 DEF OneAlive
  <2>7. OnWire' => AllAwaited(toServer)'
    BY <1>0, <2>2, <2>4 DEF AllAwaited, Awaited
  <2>8. WithReader' => Awaited(event)'
    BY <1>0, <2>2, <2>5 DEF Awaited
  <2>9. /\ Queued' => AllAwaited(event_queue)'
        /\ executor' = "handle" /\ IsRequest(handling') => Awaited(handling)'
    BY <1>0, <2>2, <2>3 DEF AliveIsAwaited, AllAwaited, Awaited
  <2>10. executor' = "reply" =>
           AwaitedReply([type |-> reply, id |-> handling.id])'
    BY <1>0, <2>2 DEF AliveIsAwaited, AwaitedReply
  <2>11. Returning' => AwaitedReply(Head(toClient))'
    BY <1>0, <2>2, <2>3 DEF AliveIsAwaited, AwaitedReply
  <2>. QED
    BY <2>6, <2>7, <2>8, <2>9, <2>10, <2>11 DEF AliveIsAwaited
<1>6. CASE ReaderPush
  <2> USE <1>6 DEF ReaderPush
  <2>1. PICK m \in Request : m = IF reader = "push" THEN event
                                 ELSE DisconnectEvent
    BY MessageTypes DEF TypeOK, ConnectionTypeOK
  <2>2. event_queue \in Seq(Request) /\ event_queue' = Append(event_queue, m)
    BY <2>1 DEF TypeOK, ConnectionTypeOK
  <2>3. UNCHANGED <<served, handling, reply, toClient, executor, toServer>>
    BY DEF wireVars
  <2>4. /\ InHand' <=> InHand
        /\ Returning' <=> Returning
        /\ ~WithReader'
        /\ OnWire' => OnWire
    <3>1. executor' = executor /\ handling' = handling
      BY DEF wireVars
    <3>2. InHand' <=> InHand
      BY <3>1 DEF InHand
    <3>. QED
      BY <2>3, <3>1, <3>2 DEF Returning, WithReader, OnWire, Reading
  <2>5. executor # "done" /\ IsRequest(m) => WithReader /\ Awaited(m)
    BY <2>1 DEF WithReader, IsRequest, DisconnectEvent, AliveIsAwaited
  <2>6. Queued' => Queued \/ (WithReader /\ IsRequest(m))
    BY <2>2, <2>5, Appended DEF Queued
  <2>7. Queued' => AtMostOne(event_queue')
    <3>1. executor # "done" /\ IsRequest(m) => ~HasRequest(event_queue)
      BY <2>5 DEF OneAlive, Queued
    <3>2. executor # "done" /\ HasRequest(event_queue) => AtMostOne(event_queue)
      BY DEF OneAlive, Queued
    <3>. QED
      BY <2>2, <3>1, <3>2, Appended DEF Queued
  <2>8. OneAlive'
    BY <2>3, <2>4, <2>6, <2>7 DEF OneAlive
  <2>9. Queued' => AllAwaited(event_queue)'
    <3>1. ASSUME Queued', NEW k \in 1 .. Len(event_queue'),
                 IsRequest(event_queue'[k])
          PROVE  Awaited(event_queue'[k])
      <4>1. CASE event_queue'[k] = m
        BY <2>5, <3>1, <4>1 DEF Queued
      <4>2. CASE k \in 1 .. Len(event_queue) /\ event_queue'[k] = event_queue[k]
        BY <2>3, <3>1, <4>2 DEF Queued, HasRequest, AliveIsAwaited, AllAwaited
      <4>. QED
        BY <2>2, <3>1, <4>1, <4>2, Appended
    <3>. QED
      BY <1>0, <2>3, <3>1 DEF AllAwaited, Awaited
  <2>10. /\ OnWire' => AllAwaited(toServer)'
         /\ executor' = "handle" /\ IsRequest(handling') => Awaited(handling)'
    BY <1>0, <2>3, <2>4 DEF AliveIsAwaited, AllAwaited, Awaited
  <2>11. executor' = "reply" =>
           AwaitedReply([type |-> reply, id |-> handling.id])'
    BY <1>0, <2>3 DEF AliveIsAwaited, AwaitedReply
  <2>12. Returning' => AwaitedReply(Head(toClient))'
    BY <1>0, <2>3, <2>4 DEF AliveIsAwaited, AwaitedReply
  <2>. QED
    BY <2>4, <2>8, <2>9, <2>10, <2>11, <2>12 DEF AliveIsAwaited
<1>7. CASE ExecutorPop
  <2> USE <1>7 DEF ExecutorPop
  <2>1. event_queue \in Seq(Request) /\ event_queue # <<>>
    BY DEF TypeOK, ConnectionTypeOK
  <2>2. UNCHANGED <<served, reply, reader, event, toServer, toClient>>
    BY DEF wireVars
  <2>3. /\ OnWire' <=> OnWire
        /\ WithReader' <=> WithReader
        /\ Returning' <=> Returning
    BY <2>2 DEF OnWire, WithReader, Returning, Reading
  <2>4. Queued' => Queued /\ AtMostOne(event_queue')
                   /\ AllAwaited(Tail(event_queue))
    BY <2>1, Taken DEF Queued, OneAlive, AliveIsAwaited
  <2>5. InHand' =>
          Queued /\ ~Queued' /\ Awaited(Head(event_queue))
    BY <2>1, Taken DEF Queued, InHand, OneAlive, AliveIsAwaited
  <2>6. OneAlive'
    BY <2>2, <2>3, <2>4, <2>5 DEF OneAlive
  <2>7. Queued' => AllAwaited(event_queue)'
    BY <1>0, <2>2, <2>4 DEF AllAwaited, Awaited
  <2>8. executor' = "handle" /\ IsRequest(handling') => Awaited(handling)'
    BY <1>0, <2>2, <2>5 DEF Awaited, InHand
  <2>9. /\ OnWire' => AllAwaited(toServer)'
        /\ WithReader' => Awaited(event)'
    BY <1>0, <2>2, <2>3 DEF AliveIsAwaited, AllAwaited, Awaited
  <2>10. Returning' => AwaitedReply(Head(toClient))'
    BY <1>0, <2>2, <2>3 DEF AliveIsAwaited, AwaitedReply
  <2>. QED
    BY <2>6, <2>7, <2>8, <2>9, <2>10 DEF AliveIsAwaited
<1>8. CASE HandleRequest
  <2>1. InHand /\ Awaited(handling)
    BY <1>8 DEF HandleRequest, InHand, IsRequest, AliveIsAwaited
  <2>2. UNCHANGED <<handling, reader, event, event_queue, toServer, toClient>>
    BY <1>8 DEF HandleRequest, wireVars
  <2>3. InHand' /\ executor' = "reply" /\ executor = "handle"
    BY <1>8 DEF HandleRequest, InHand
  <2>4. /\ OnWire' = OnWire /\ WithReader' = WithReader
        /\ Returning' = Returning /\ Queued' = Queued
    BY <2>2, <2>3 DEF OnWire, WithReader, Returning, Reading, Queued
  <2>5. ~OnWire /\ ~WithReader /\ ~Queued /\ ~Returning
    BY <2>1 DEF OneAlive
  <2>6. OneAlive'
    BY <2>2, <2>4, <2>5 DEF OneAlive
  <2>7. AwaitedReply([type |-> reply, id |-> handling.id])'
    <3>1. reply' \in Replies(handling.type)
      BY <1>8 DEF HandleRequest
    <3>2. handling.id \in Requests =>
            served'[handling.id] = IF reply' \in Served THEN "ran"
                                   ELSE "refused"
      BY <1>8, <2>1 DEF HandleRequest, Awaited, TypeOK, ConnectionTypeOK
    <3>. QED
      BY <1>0, <2>1, <2>2, <3>1, <3>2 DEF Awaited, AwaitedReply
  <2>. QED
    BY <2>3, <2>4, <2>5, <2>6, <2>7 DEF AliveIsAwaited
<1>9. CASE ExecutorReply
  <2>1. /\ InHand /\ AwaitedReply([type |-> reply, id |-> handling.id])
        /\ UNCHANGED <<served, reader, event, event_queue, toServer>>
        /\ executor = "reply" /\ executor' = "loop"
    BY <1>9 DEF ExecutorReply, InHand, AliveIsAwaited
  <2>2. ~OnWire /\ ~WithReader /\ ~Queued /\ ~Returning
    BY <2>1 DEF OneAlive
  <2>3. ~OnWire' /\ ~WithReader' /\ ~Queued' /\ ~InHand'
    BY <2>1, <2>2 DEF OnWire, WithReader, Queued, InHand, Reading
  <2>4. PICK m : m = [type |-> reply, id |-> handling.id]
    OBVIOUS
  <2>5. m \in Reply
    BY <2>1, <2>4, MessageTypes DEF TypeOK, ConnectionTypeOK, Request
  <2>6. toClient' = <<>> \/ toClient' = Append(<<>>, m)
    BY <1>9, <2>2, <2>4 DEF ExecutorReply, ServerSend, Returning
  <2>7. Append(<<>>, m) = <<m>> /\ Len(<<m>>) = 1 /\ Head(<<m>>) = m
    OBVIOUS
  <2>8. Len(toClient') <= 1
    BY <2>6, <2>7
  <2>9. toClient' # <<>> => AwaitedReply(Head(toClient))'
    <3>1. toClient' # <<>> => Head(toClient') = m
      BY <2>6, <2>7
    <3>. QED
      BY <1>0, <2>1, <2>4, <3>1 DEF AwaitedReply
  <2>. QED
    BY <2>3, <2>8, <2>9 DEF OneAlive, AliveIsAwaited, Returning, InHand
<1>. QED
  BY <1>1, <1>2, <1>3, <1>4, <1>5, <1>6, <1>7, <1>8, <1>9
  DEF ServerNext, ReaderStep, ExecutorStep

\* The reply the holder of the mutex takes answers its own request.
LEMMA TakesOwnReply ==
  ASSUME PairingInv, NEW t \in Callers, CallRecv(t)
  PROVE  /\ cur[t] \in Requests /\ op[t] \in OpType
         /\ fate[cur[t]] = "pending"
         /\ Head(toClient).id = cur[t]
         /\ Head(toClient).type \in Replies(op[t])
         /\ served[cur[t]] = IF Head(toClient).type \in Served THEN "ran"
                                                              ELSE "refused"
<1>1. connection_mutex = t
  BY DEF CallRecv, PairingInv, ClientShape, MutexShape, Threads
<1>2. AwaitedReply(Head(toClient))
  BY DEF CallRecv, PairingInv, AliveIsAwaited, Returning
<1>3. pc[t] # "idle"
  BY DEF CallRecv
<1>. QED
  BY <1>1, <1>2, <1>3
  DEF AwaitedReply, PairingInv, ClientShape, CallerShape, Numbering

LEMMA AnswersStep ==
  ASSUME PairingInv, [Next]_vars
  PROVE  Answers'
<1> USE DEF Answers, ReplyIsMine, ServernameAssertion
<1>0. /\ TypeOK /\ Answers
      /\ answer \in [Requests -> Reply \cup {NoAnswer}]
      /\ fate \in [Requests -> Fate]
  BY DEF PairingInv, TypeOK, ClientTypeOK
<1>1. ASSUME NEW t \in Callers, CallRecv(t)
      PROVE  Answers'
  <2>1. Verdict(op[t], Head(toClient).type) # "abort"
    BY <1>1, TakesOwnReply DEF Verdict, Replies, OpType
  <2>2. /\ answer' = [answer EXCEPT ![cur[t]] = Head(toClient)]
        /\ fate' = [fate EXCEPT ![cur[t]] =
                      Verdict(op[t], Head(toClient).type)]
    BY <1>1 DEF CallRecv, Return
  <2>. QED
    BY <1>0, <1>1, <2>1, <2>2, TakesOwnReply
<1>2. ASSUME NEW t \in Callers, CallBegin(t) \/ CallSend(t) \/ CallTimeout(t)
      PROVE  Answers'
  BY <1>0, <1>2 DEF CallBegin, CallSend, CallTimeout, Return
<1>3. CASE Disconnect \/ Joined \/ PingStep
  BY <1>0, <1>3
  DEF Disconnect, Joined, PingStep, PingCheck, PingSend, PingRecv, PingTimeout,
      PingWake, PingBye, PingClose
<1>4. CASE ServerNext
  BY <1>0, <1>4, ServerFrame
<1>5. CASE UNCHANGED vars
  BY <1>0, <1>5 DEF vars, clientVars
<1>. QED
  BY <1>1, <1>2, <1>3, <1>4, <1>5 DEF Next, ClientNext, CallStep

LEMMA PairingInit == Init => PairingInv
<1> SUFFICES ASSUME Init PROVE PairingInv
  OBVIOUS
<1>1. TypeOK
  BY InitType
<1>2. ClientShape
  BY DEF Init, ClientInit, WireInit, ClientShape, MutexShape, CallerShape,
         PingShape, Threads
<1>3. Numbering
  BY DEF Init, ClientInit, ConnectionInit, Numbering, Threads
<1>4. OneAlive /\ AliveIsAwaited
  BY EmptySeq
  DEF Init, WireInit, ConnectionInit, OneAlive, AliveIsAwaited, OnWire,
      WithReader, Queued, InHand, Returning, HasRequest
<1>5. Answers
  BY DEF Init, ClientInit, Answers, ReplyIsMine, ServernameAssertion
<1>. QED
  BY <1>1, <1>2, <1>3, <1>4, <1>5 DEF PairingInv

LEMMA PairingStep ==
  ASSUME SlowReplies = FALSE, PairingInv, [Next]_vars
  PROVE  PairingInv'
<1> USE DEF PairingInv
<1>1. TypeOK'
  BY TypeStep
<1>2. ClientShape'
  BY ShapeStep
<1>3. Numbering'
  BY NumberingStep
<1>4. OneAlive' /\ AliveIsAwaited'
  <2>1. CASE UNCHANGED vars
    BY <2>1, AliveFrame DEF vars, wireVars, clientVars, connectionVars
  <2>. QED
    BY <2>1, AliveClient, AliveServer DEF Next
<1>5. Answers'
  BY AnswersStep
<1>. QED
  BY <1>1, <1>2, <1>3, <1>4, <1>5

LEMMA PairingAlways ==
  ASSUME SlowReplies = FALSE
  PROVE  Spec => []PairingInv
<1>1. PairingInv /\ [Next]_vars => PairingInv'
  BY PairingStep
<1>. QED
  BY <1>1, PairingInit, PTL DEF Spec

\* When no reply is late, every call is given the reply to its own request and
\* the assertion of drpc_client_get_servername holds, however many threads
\* share the client and however the connection ends.
THEOREM RepliesPaired ==
  ASSUME SlowReplies = FALSE
  PROVE  Spec => []ReplyIsMine /\ []ServernameAssertion
<1>1. PairingInv => ReplyIsMine /\ ServernameAssertion
  BY DEF PairingInv, Answers
<1>. QED
  BY <1>1, PairingAlways, PTL

-----------------------------------------------------------------------------
(* Closing *)

LEMMA InUseStep ==
  ASSUME TypeOK, ClientShape, CloseInv, NoCloseInUse, [Next]_vars
  PROVE  NoCloseInUse'
<1> USE DEF NoCloseInUse
<1>1. executor' # "done" => serverOpen'
  BY CloseStep DEF CloseInv
<1>2. CASE ClientNext
  <2>1. CASE UNCHANGED clientOpen
    <3>1. ASSUME NEW t \in Threads, pc'[t] = "recv", pc[t] # "recv"
          PROVE  clientOpen
      BY <1>2, <3>1
      DEF ClientNext, CallBegin, CallStep, CallSend, CallRecv, CallTimeout,
          Return, Release, PingStep, PingCheck, PingSend, PingRecv,
          PingTimeout, PingWake, PingBye, PingClose, GiveUp, Disconnect,
          Joined, CanSend, TypeOK, ClientTypeOK, Threads
    <3>. QED
      BY <1>1, <2>1, <3>1
  <2>2. CASE ~UNCHANGED clientOpen
    <3>2. CASE PingClose
      BY <1>1, <3>2
      DEF PingClose, ClientShape, CallerShape, PingShape, TypeOK,
          ClientTypeOK, Threads
    <3>3. CASE PingSend \/ PingRecv \/ PingTimeout
      <4>1. \A t \in Callers : pc[t] # "recv"
        BY <3>3
        DEF PingSend, PingRecv, PingTimeout, ClientShape, MutexShape, MutexFree,
            Threads
      <4>2. \A t \in Callers : pc'[t] = pc[t]
        BY <3>3
        DEF PingSend, PingRecv, PingTimeout, GiveUp, Release, TypeOK,
            ClientTypeOK, Threads
      <4>3. pc'[Ping] = "recv" => UNCHANGED clientOpen
        BY <3>3
        DEF PingSend, PingRecv, PingTimeout, GiveUp, Release, TypeOK,
            ClientTypeOK, Threads
      <4>. QED
        BY <1>1, <2>2, <4>1, <4>2, <4>3 DEF Threads
    <3>4. PingClose \/ PingSend \/ PingRecv \/ PingTimeout
      BY <1>2, <2>2
      DEF ClientNext, CallBegin, CallStep, CallSend, CallRecv, CallTimeout,
          PingStep, PingCheck, PingWake, PingBye, Disconnect, Joined, wireVars
    <3>. QED
      BY <3>2, <3>3, <3>4
  <2>. QED
    BY <2>1, <2>2
<1>3. CASE ServerNext
  BY <1>1, <1>3, ServerFrame
<1>4. CASE UNCHANGED vars
  BY <1>1, <1>4 DEF vars, wireVars, clientVars
<1>. QED
  BY <1>2, <1>3, <1>4 DEF Next

\* Neither end of the wire is closed and freed under a thread that uses it:
\* not the client's while a reply is awaited, nor the server's while the
\* executor is alive.
THEOREM NeverClosedInUse == Spec => []NoCloseInUse
<1>1. Init => ClientShape /\ CloseInv /\ NoCloseInUse
  BY PairingInit
  DEF PairingInv, Init, WireInit, ConnectionInit, CloseInv, NoCloseInUse
<1>2. TypeOK /\ ClientShape /\ CloseInv /\ NoCloseInUse /\ [Next]_vars
        => (ClientShape /\ CloseInv /\ NoCloseInUse)'
  BY ShapeStep, CloseStep, InUseStep
<1>. QED
  BY <1>1, <1>2, TypeCorrect, PTL DEF Spec

\* After goodbye the queue to the server only shrinks: a caller that is still
\* on its way to send finds the end closed, and the ping thread sends no more.
LEMMA SilentStep ==
  ASSUME TypeOK, ClientShape, [Next]_vars, pc[Ping] \in {"close", "done"}
  PROVE  Len(toServer') <= Len(toServer)
<1>1. toServer \in Seq(Request) /\ Len(toServer) \in Nat
  BY LenProperties DEF TypeOK, WireTypeOK
<1>2. ASSUME toServer' = toServer \/ toServer' = <<>>
      PROVE  Len(toServer') <= Len(toServer)
  BY <1>1, <1>2
<1>3. CASE \E t \in Callers : CallStep(t)
  <2>1. PICK t \in Callers : CallStep(t)
    BY <1>3
  <2>2. CASE CallSend(t)
    <3>1. pc[Ping] = "done"
      BY <2>2 DEF CallSend, ClientShape, CallerShape, PingShape
    <3>2. ~CanSend
      BY <3>1 DEF ClientShape, PingShape, CanSend
    <3> QED BY <1>2, <2>2, <3>2 DEF CallSend, ClientSend
  <2> QED BY <1>2, <2>1, <2>2 DEF CallStep, CallRecv, CallTimeout, wireVars
<1>4. CASE ClientNext /\ ~\E t \in Callers : CallStep(t)
  BY <1>2, <1>4
  DEF ClientNext, CallBegin, Disconnect, Joined, PingStep, PingCheck, PingSend,
      PingRecv, PingTimeout, PingWake, PingBye, PingClose, wireVars
<1>5. CASE ReaderRecv
  <2>1. toServer # <<>> /\ toServer' = Tail(toServer)
    BY <1>5 DEF ReaderRecv
  <2>2. Len(Tail(toServer)) = Len(toServer) - 1
    BY <1>1, <2>1, HeadTailProperties
  <2> QED BY <1>1, <2>1, <2>2
<1>6. CASE ServerNext /\ ~ReaderRecv
  BY <1>2, <1>6
  DEF ServerNext, ServerStop, ForceDisconnect, ReaderStep, ReaderLoop,
      ReaderTimeout, ReaderPush, ReaderPost, ReaderLeave, ReaderJoin,
      ReaderClose, ServerClose, ExecutorStep, ExecutorPop, ExecutorEmpty,
      ExecutorWait, HandleDisconnect, HandleRequest, ExecutorReply,
      ExecutorExit, wireVars
<1>7. CASE UNCHANGED vars
  BY <1>2, <1>7 DEF vars, wireVars
<1> QED BY <1>3, <1>4, <1>5, <1>6, <1>7 DEF Next

\* Nothing is sent after the ping thread has said goodbye or given up, for any
\* number of callers and whatever the timing of replies.
THEOREM NothingAfterGoodbye == Spec => GoodbyeIsLast
<1>1. Init => ClientShape
  BY PairingInit DEF PairingInv
<1>2. TypeOK /\ ClientShape /\ [Next]_vars => ClientShape'
  BY ShapeStep
<1>3. TypeOK /\ ClientShape /\ [Next]_vars =>
        [pc[Ping] \in {"close", "done"} => Len(toServer') <= Len(toServer)]_vars
  BY SilentStep
<1> QED BY <1>1, <1>2, <1>3, TypeCorrect, PTL DEF Spec, GoodbyeIsLast

-----------------------------------------------------------------------------
(* The session implements Rpc *)

LEMMA RpcStep ==
  ASSUME PairingInv, [Next]_vars
  PROVE  [Abstract!RpcNext]_<<fate, served>>
<1> USE DEF Abstract!RpcNext, Abstract!Make, Abstract!Serve, Abstract!Succeed,
            Abstract!Refuse, Abstract!Fail
<1>0. /\ fate \in [Requests -> Fate]
      /\ TypeOK /\ ClientShape /\ Numbering
  BY DEF PairingInv, TypeOK, ClientTypeOK
<1>1. ASSUME NEW t \in Callers, CallBegin(t), UNCHANGED connectionVars
      PROVE  \E i \in Requests : Abstract!Make(i)
  <2>1. nextId \in Requests /\ fate[nextId] = "unsent"
    BY <1>0, <1>1 DEF CallBegin, Numbering, Requests, TypeOK, ClientTypeOK
  <2>. QED
    BY <1>1, <2>1 DEF CallBegin, connectionVars
<1>2. ASSUME NEW t \in Callers, CallSend(t) \/ CallTimeout(t),
             UNCHANGED connectionVars
      PROVE  UNCHANGED <<fate, served>> \/ \E i \in Requests : Abstract!Fail(i)
  <2>1. cur[t] \in Requests /\ fate[cur[t]] = "pending"
    BY <1>0, <1>2
    DEF CallSend, CallTimeout, ClientShape, CallerShape, Numbering
  <2>. QED
    BY <1>2, <2>1 DEF CallSend, CallTimeout, Return, connectionVars
<1>3. ASSUME NEW t \in Callers, CallRecv(t), UNCHANGED connectionVars
      PROVE  \E i \in Requests :
               Abstract!Succeed(i) \/ Abstract!Refuse(i) \/ Abstract!Fail(i)
  <2>1. /\ fate' = [fate EXCEPT ![cur[t]] =
                      Verdict(op[t], Head(toClient).type)]
        /\ UNCHANGED served
    BY <1>3 DEF CallRecv, Return, connectionVars
  <2>2. /\ Verdict(op[t], Head(toClient).type) = "ok" =>
             Head(toClient).type \in Served
        /\ Verdict(op[t], Head(toClient).type) = "badreply" =>
             Head(toClient).type \notin Served
        /\ Verdict(op[t], Head(toClient).type) \in
             {"ok", "badreply", "enetwork"}
    BY <1>3, TakesOwnReply DEF Verdict, Replies, Served, OpType
  <2>3. CASE Verdict(op[t], Head(toClient).type) = "ok"
    BY <1>3, <2>1, <2>2, <2>3, TakesOwnReply
  <2>4. CASE Verdict(op[t], Head(toClient).type) = "badreply"
    BY <1>3, <2>1, <2>2, <2>4, TakesOwnReply
  <2>5. CASE Verdict(op[t], Head(toClient).type) = "enetwork"
    BY <1>3, <2>1, <2>5, TakesOwnReply
  <2>. QED
    BY <2>2, <2>3, <2>4, <2>5
<1>4. CASE (Disconnect \/ Joined \/ PingStep) /\ UNCHANGED connectionVars
  BY <1>4
  DEF Disconnect, Joined, PingStep, PingCheck, PingSend, PingRecv, PingTimeout,
      PingWake, PingBye, PingClose, connectionVars
<1>5. CASE HandleRequest /\ UNCHANGED clientVars
  <2>1. CASE handling.id \in Requests
    <3>1. Awaited(handling)
      BY <1>5 DEF HandleRequest, PairingInv, AliveIsAwaited, IsRequest
    <3>2. served[handling.id] = "no" /\ fate[handling.id] = "pending"
      BY <1>0, <2>1, <3>1
      DEF Awaited, ClientShape, MutexShape, PingShape, Numbering, Requests,
          TypeOK, ClientTypeOK, Threads
    <3>3. \E s \in {"ran", "refused"} :
            served' = [served EXCEPT ![handling.id] = s]
      BY <1>5, <2>1, <3>2 DEF HandleRequest
    <3>4. UNCHANGED fate
      BY <1>5 DEF clientVars
    <3>. QED
      BY <2>1, <3>2, <3>3, <3>4
  <2>2. CASE handling.id \notin Requests
    BY <1>5, <2>2 DEF HandleRequest, clientVars
  <2>. QED
    BY <2>1, <2>2
<1>6. CASE ServerNext /\ ~HandleRequest
  BY <1>6
  DEF ServerNext, clientVars, ServerStop, ForceDisconnect, ReaderStep,
      ReaderLoop, ReaderRecv, ReaderTimeout, ReaderPush, ReaderPost,
      ReaderLeave, ReaderJoin, ReaderClose, ExecutorStep, ExecutorPop,
      ExecutorEmpty, ExecutorWait, HandleDisconnect, ExecutorReply,
      ExecutorExit
<1>7. CASE UNCHANGED vars
  BY <1>7 DEF vars, clientVars, connectionVars
<1>. QED
  BY <1>1, <1>2, <1>3, <1>4, <1>5, <1>6, <1>7
  DEF Next, ClientNext, ServerNext, CallStep

\* When no reply is late, a session of any number of threads is a remote call
\* as Rpc describes it: run at most once, and truthfully reported.
THEOREM SessionImplementsRpc ==
  ASSUME SlowReplies = FALSE
  PROVE  Spec => ImplementsRpc
<1>1. Init => Abstract!RpcInit
  BY DEF Init, ClientInit, ConnectionInit, Abstract!RpcInit
<1>2. PairingInv /\ [Next]_vars => [Abstract!RpcNext]_<<fate, served>>
  BY RpcStep
<1>. QED
  BY <1>1, <1>2, PairingAlways, PTL
  DEF Spec, ImplementsRpc, Abstract!RpcSpec, Abstract!rpcVars

-----------------------------------------------------------------------------
(* The order in which requests are handled *)

LEMMA LineType ==
  ASSUME TypeOK
  PROVE  /\ InExecutor \in Seq(Request) /\ leftover \in Seq(Request)
         /\ event_queue \in Seq(Request) /\ Received \in Seq(Request)
         /\ Incoming \in Seq(Request) /\ Line \in Seq(Request)
         /\ event_queue \o (Received \o Incoming) \in Seq(Request)
         /\ leftover \o (event_queue \o (Received \o Incoming)) \in Seq(Request)
         /\ executed \in Seq(Requests) /\ sent \in Seq(0 .. MaxRequests)
<1>1. handling \in Request /\ event \in Request
  BY DEF TypeOK, ConnectionTypeOK
<1>2. <<handling>> \in Seq(Request) /\ <<event>> \in Seq(Request)
  BY <1>1
<1>3. <<>> \in Seq(Request)
  BY EmptySeq
<1>4. InExecutor \in Seq(Request) /\ Received \in Seq(Request) /\ Incoming \in Seq(Request)
  BY <1>2, <1>3 DEF InExecutor, Received, Incoming, TypeOK, WireTypeOK
<1>5. leftover \in Seq(Request) /\ event_queue \in Seq(Request)
  BY DEF TypeOK, ConnectionTypeOK
<1>6. Received \o Incoming \in Seq(Request)
  BY <1>4, ConcatProperties
<1>7. event_queue \o (Received \o Incoming) \in Seq(Request)
  BY <1>5, <1>6, ConcatProperties
<1>8. leftover \o (event_queue \o (Received \o Incoming)) \in Seq(Request)
  BY <1>5, <1>7, ConcatProperties
<1>9. Line \in Seq(Request)
  BY <1>4, <1>8, ConcatProperties DEF Line
<1> QED
  BY <1>4, <1>5, <1>7, <1>8, <1>9 DEF TypeOK, ConnectionTypeOK, ClientTypeOK

Associates(s, t, u) == s \o (t \o u) = (s \o t) \o u

LEMMA Reassociate ==
  ASSUME NEW s \in Seq(Request), NEW t \in Seq(Request), NEW u \in Seq(Request)
  PROVE  Associates(s, t, u)
  BY ConcatAssociative DEF Associates

LEMMA ConcatType ==
  ASSUME NEW s \in Seq(Request), NEW t \in Seq(Request)
  PROVE  s \o t \in Seq(Request)
  BY ConcatProperties

\* What is put behind the last of five sequences is behind them all.
BehindAll(a, b, c, d, e, f) ==
  a \o (b \o (c \o (d \o (e \o f)))) = (a \o (b \o (c \o (d \o e)))) \o f

LEMMA Behind ==
  ASSUME NEW a \in Seq(Request), NEW b \in Seq(Request), NEW c \in Seq(Request),
         NEW d \in Seq(Request), NEW e \in Seq(Request), NEW f \in Seq(Request)
  PROVE  BehindAll(a, b, c, d, e, f)
<1>1. d \o e \in Seq(Request)
  BY ConcatType
<1>2. c \o (d \o e) \in Seq(Request)
  BY <1>1, ConcatType
<1>3. b \o (c \o (d \o e)) \in Seq(Request)
  BY <1>2, ConcatType
<1>4. Associates(d, e, f)
  BY Reassociate
<1>5. Associates(c, d \o e, f)
  BY <1>1, Reassociate
<1>6. Associates(b, c \o (d \o e), f)
  BY <1>2, Reassociate
<1>7. Associates(a, b \o (c \o (d \o e)), f)
  BY <1>3, Reassociate
<1> QED
  BY <1>4, <1>5, <1>6, <1>7, Zenon DEF Associates, BehindAll

LEMMA HeadFirst ==
  ASSUME NEW s \in Seq(Request), s # <<>>
  PROVE  s = <<Head(s)>> \o Tail(s)
<1>1. Head(s) \in Request /\ Tail(s) \in Seq(Request) /\ Len(Tail(s)) = Len(s) - 1
      /\ \A i \in 1 .. Len(s) - 1 : Tail(s)[i] = s[i + 1]
  BY HeadTailProperties
<1>2. <<Head(s)>> \in Seq(Request) /\ Len(<<Head(s)>>) = 1 /\ <<Head(s)>>[1] = Head(s)
  BY <1>1
<1>3. Len(s) \in Nat /\ Len(s) > 0 /\ Head(s) = s[1]
  BY EmptySeq, LenProperties
<1>4. /\ <<Head(s)>> \o Tail(s) \in Seq(Request)
      /\ Len(<<Head(s)>> \o Tail(s)) = Len(s)
      /\ \A i \in 1 .. Len(s) : (<<Head(s)>> \o Tail(s))[i] =
                IF i <= 1 THEN <<Head(s)>>[i] ELSE Tail(s)[i - 1]
  BY <1>1, <1>2, <1>3, ConcatProperties
<1>5. \A i \in 1 .. Len(s) : s[i] = (<<Head(s)>> \o Tail(s))[i]
  BY <1>1, <1>2, <1>3, <1>4
<1> QED
  BY <1>4, <1>5, SeqEqual

\* A message is sent to the server.
LEMMA LineSend ==
  ASSUME TypeOK, NEW m \in Request, toServer' = Append(toServer, m),
         UNCHANGED <<executor, handling, leftover, event_queue, reader, event>>
  PROVE  Line' = IF Reading THEN Line \o <<m>> ELSE Line
<1>1. /\ InExecutor' = InExecutor /\ leftover' = leftover /\ event_queue' = event_queue
      /\ Received' = Received
  BY DEF InExecutor, Received
<1>2. CASE Reading
  <2>1. Incoming' = Append(Incoming, m) /\ Incoming = toServer
    BY <1>2 DEF Incoming, Reading
  <2>2. Append(Incoming, m) = Incoming \o <<m>> /\ <<m>> \in Seq(Request)
    BY LineType, AppendIsConcat
  <2>3. Line' = InExecutor \o (leftover \o (event_queue \o (Received \o (Incoming \o <<m>>))))
    BY <1>1, <2>1, <2>2 DEF Line
  <2>4. /\ InExecutor \in Seq(Request) /\ leftover \in Seq(Request)
        /\ event_queue \in Seq(Request) /\ Received \in Seq(Request)
        /\ Incoming \in Seq(Request)
    BY LineType
  <2>5. BehindAll(InExecutor, leftover, event_queue, Received, Incoming, <<m>>)
    BY <2>2, <2>4, Behind
  <2>6. InExecutor \o (leftover \o (event_queue \o (Received \o (Incoming \o <<m>>))))
          = Line \o <<m>>
    BY <2>5, Zenon DEF Line, BehindAll
  <2> QED
    BY <1>2, <2>3, <2>6, Zenon
<1>3. CASE ~Reading
  BY <1>1, <1>3 DEF Line, Incoming, Reading
<1> QED
  BY <1>2, <1>3

\* The end of the line is given up.
LEMMA LineLeft ==
  ASSUME TypeOK, reader = "loop", reader' = "left",
         UNCHANGED <<executor, handling, leftover, event_queue>>
  PROVE  Line = Line' \o Incoming /\ Line' \in Seq(Request)
<1>1. /\ InExecutor \in Seq(Request) /\ leftover \in Seq(Request)
      /\ event_queue \in Seq(Request) /\ Incoming \in Seq(Request)
  BY LineType
<1>2. <<>> \in Seq(Request) /\ <<>> \o Incoming = Incoming
  BY <1>1, EmptySeq, ConcatEmptySeq
<1>3. BehindAll(InExecutor, leftover, event_queue, <<>>, <<>>, Incoming)
  BY <1>1, <1>2, Behind
<1>4. /\ Received = <<>> /\ Received' = <<>> /\ Incoming' = <<>>
      /\ InExecutor' = InExecutor /\ leftover' = leftover /\ event_queue' = event_queue
  BY DEF Received, Incoming, InExecutor, Reading
<1>5. Line' = InExecutor \o (leftover \o (event_queue \o (<<>> \o <<>>)))
  BY <1>4, Zenon DEF Line
<1>6. Line = InExecutor \o (leftover \o (event_queue \o (<<>> \o Incoming)))
  BY <1>4, Zenon DEF Line
<1>7. <<>> \o <<>> \in Seq(Request)
  BY <1>2, ConcatType
<1>8. event_queue \o (<<>> \o <<>>) \in Seq(Request)
  BY <1>1, <1>7, ConcatType
<1>9. leftover \o (event_queue \o (<<>> \o <<>>)) \in Seq(Request)
  BY <1>1, <1>8, ConcatType
<1>10. InExecutor \o (leftover \o (event_queue \o (<<>> \o <<>>))) \in Seq(Request)
  BY <1>1, <1>9, ConcatType
<1>11. Line = Line' \o Incoming
  BY <1>2, <1>3, <1>5, <1>6, Zenon DEF BehindAll
<1> QED
  BY <1>5, <1>10, <1>11, Zenon

\* The reader takes a message off the wire.
LEMMA LineReceive ==
  ASSUME TypeOK, ReaderRecv
  PROVE  Line' = Line
<1>1. /\ toServer \in Seq(Request) /\ toServer # <<>>
      /\ event' = Head(toServer) /\ toServer' = Tail(toServer)
      /\ reader = "recv" /\ reader' = "push"
      /\ UNCHANGED <<executor, handling, leftover, event_queue>>
  BY DEF ReaderRecv, TypeOK, WireTypeOK
<1>2. /\ Received = <<>> /\ Incoming = toServer
      /\ Received' = <<Head(toServer)>> /\ Incoming' = Tail(toServer)
  BY <1>1 DEF Received, Incoming, Reading
<1>3. Received' \o Incoming' = toServer
  BY <1>1, <1>2, HeadFirst
<1>4. Received \o Incoming = toServer
  BY <1>1, <1>2, ConcatEmptySeq
<1>5. InExecutor' = InExecutor /\ leftover' = leftover /\ event_queue' = event_queue
  BY <1>1 DEF InExecutor
<1> QED
  BY <1>3, <1>4, <1>5, Zenon DEF Line

\* The reader queues the event it has.
LEMMA LinePush ==
  ASSUME TypeOK, ReaderPush, reader = "push"
  PROVE  Line' = Line
<1>1. /\ event \in Request /\ event_queue \in Seq(Request)
      /\ event_queue' = Append(event_queue, event)
      /\ reader = "push" /\ reader' = "post"
      /\ UNCHANGED <<executor, handling, leftover, toServer>>
  BY DEF ReaderPush, TypeOK, ConnectionTypeOK, wireVars
<1>2. /\ Received = <<event>> /\ Received' = <<>> /\ Incoming' = Incoming
      /\ InExecutor' = InExecutor /\ leftover' = leftover
  BY <1>1 DEF Received, Incoming, Reading, InExecutor
<1>3. event_queue' = event_queue \o <<event>> /\ <<event>> \in Seq(Request)
  BY <1>1, AppendIsConcat
<1>4. Incoming \in Seq(Request) /\ <<>> \o Incoming = Incoming
  BY LineType, ConcatEmptySeq
<1>5. Associates(event_queue, <<event>>, Incoming)
  BY <1>1, <1>3, <1>4, Reassociate
<1>6. event_queue' \o (Received' \o Incoming') = event_queue \o (Received \o Incoming)
  BY <1>2, <1>3, <1>4, <1>5, Zenon DEF Associates
<1> QED
  BY <1>2, <1>6, Zenon DEF Line

\* The reader queues a disconnect event of its own.
LEMMA LinePushOwn ==
  ASSUME TypeOK, ReaderPush, reader = "pushD"
  PROVE  Line' = Line \o <<DisconnectEvent>>
<1>1. /\ DisconnectEvent \in Request /\ event_queue \in Seq(Request)
      /\ event_queue' = Append(event_queue, DisconnectEvent)
      /\ reader = "pushD" /\ reader' = "postD"
      /\ UNCHANGED <<executor, handling, leftover, toServer>>
  BY MessageTypes DEF ReaderPush, TypeOK, ConnectionTypeOK, wireVars
<1>2. /\ Received = <<>> /\ Received' = <<>> /\ Incoming = <<>> /\ Incoming' = <<>>
      /\ InExecutor' = InExecutor /\ leftover' = leftover
  BY <1>1 DEF Received, Incoming, Reading, InExecutor
<1>3. /\ event_queue' = event_queue \o <<DisconnectEvent>>
      /\ <<DisconnectEvent>> \in Seq(Request)
  BY <1>1, AppendIsConcat
<1>4. <<>> \in Seq(Request) /\ <<>> \o <<>> = <<>>
  BY EmptySeq, ConcatEmptySeq
<1>5. event_queue \o <<>> = event_queue
  BY <1>1, ConcatEmptySeq
<1>6. event_queue' \in Seq(Request) /\ event_queue' \o <<>> = event_queue'
  BY <1>1, AppendProperties, ConcatEmptySeq
<1>7. InExecutor \in Seq(Request) /\ leftover \in Seq(Request)
  BY LineType
<1>8. leftover \o event_queue \in Seq(Request)
  BY <1>1, <1>7, ConcatType
<1>9. /\ Associates(InExecutor, leftover \o event_queue, <<DisconnectEvent>>)
      /\ Associates(leftover, event_queue, <<DisconnectEvent>>)
  BY <1>1, <1>3, <1>7, <1>8, Reassociate
<1>10. Line = InExecutor \o (leftover \o event_queue)
  BY <1>2, <1>4, <1>5, Zenon DEF Line
<1>11. Line' = InExecutor \o (leftover \o event_queue')
  BY <1>2, <1>4, <1>6, Zenon DEF Line
<1>12. Line' = InExecutor \o (leftover \o (event_queue \o <<DisconnectEvent>>))
  BY <1>3, <1>11, Zenon
<1> QED
  BY <1>9, <1>10, <1>12, Zenon DEF Associates

\* The events left in the queue.
LEMMA LineJoin ==
  ASSUME TypeOK, ReaderJoin, leftover = <<>>
  PROVE  Line' = Line
<1>1. /\ event_queue \in Seq(Request) /\ event_queue' = <<>>
      /\ leftover' = event_queue /\ reader = "join" /\ reader' = "close"
      /\ UNCHANGED <<executor, handling, toServer>>
  BY DEF ReaderJoin, TypeOK, ConnectionTypeOK, wireVars
<1>2. /\ Received = <<>> /\ Received' = <<>> /\ Incoming = <<>> /\ Incoming' = <<>>
      /\ InExecutor' = InExecutor
  BY <1>1 DEF Received, Incoming, Reading, InExecutor
<1>3. <<>> \o <<>> = <<>>
  BY EmptySeq, ConcatEmptySeq
<1>4. event_queue \o <<>> = event_queue /\ <<>> \o event_queue = event_queue
  BY <1>1, ConcatEmptySeq
<1>5. Line = InExecutor \o event_queue
  BY <1>2, <1>3, <1>4, Zenon DEF Line
<1>6. Line' = InExecutor \o event_queue
  BY <1>1, <1>2, <1>3, <1>4, Zenon DEF Line
<1> QED
  BY <1>5, <1>6

\* The executor takes an event.
LEMMA LinePop ==
  ASSUME TypeOK, ExecutorPop, leftover = <<>>
  PROVE  Line' = Line
<1>1. /\ event_queue \in Seq(Request) /\ event_queue # <<>>
      /\ event_queue' = Tail(event_queue) /\ handling' = Head(event_queue)
      /\ executor = "loop" /\ executor' = "handle"
      /\ UNCHANGED <<leftover, reader, event, toServer>>
  BY DEF ExecutorPop, TypeOK, ConnectionTypeOK, wireVars
<1>2. /\ InExecutor = <<>> /\ InExecutor' = <<Head(event_queue)>>
      /\ leftover' = <<>> /\ Received' = Received /\ Incoming' = Incoming
  BY <1>1 DEF Received, Incoming, Reading, InExecutor
<1>3. event_queue = <<Head(event_queue)>> \o Tail(event_queue)
  BY <1>1, HeadFirst
<1>4. /\ Received \in Seq(Request) /\ Incoming \in Seq(Request)
      /\ Head(event_queue) \in Request /\ Tail(event_queue) \in Seq(Request)
  BY <1>1, LineType, HeadTailProperties
<1>5. PICK x \in Seq(Request) : x = Received \o Incoming
  BY <1>4, ConcatType
<1>6. <<Head(event_queue)>> \in Seq(Request)
  BY <1>4
<1>7. Associates(<<Head(event_queue)>>, Tail(event_queue), x)
  BY <1>4, <1>5, <1>6, Reassociate
<1>8. event_queue \o x \in Seq(Request) /\ Tail(event_queue) \o x \in Seq(Request)
  BY <1>1, <1>4, <1>5, ConcatType
<1>9. /\ <<>> \o (event_queue \o x) = event_queue \o x
      /\ <<>> \o (Tail(event_queue) \o x) = Tail(event_queue) \o x
  BY <1>8, ConcatEmptySeq
<1>10. Line = event_queue \o x
  BY <1>2, <1>5, <1>9, Zenon DEF Line
<1>11. Line' = <<Head(event_queue)>> \o (Tail(event_queue) \o x)
  BY <1>1, <1>2, <1>5, <1>9, Zenon DEF Line
<1> QED
  BY <1>3, <1>7, <1>10, <1>11, Zenon DEF Associates

\* The executor is done with what it had to handle.
LEMMA LineHandle ==
  ASSUME TypeOK, executor = "handle", executor' # "handle",
         UNCHANGED <<leftover, event_queue, reader, event, toServer>>
  PROVE  Line = <<handling>> \o Line' /\ Line' \in Seq(Request)
<1>1. PICK r \in Seq(Request) : r = leftover \o (event_queue \o (Received \o Incoming))
  BY LineType
<1>2. /\ InExecutor = <<handling>> /\ InExecutor' = <<>> /\ Received' = Received
      /\ Incoming' = Incoming /\ leftover' = leftover /\ event_queue' = event_queue
  BY DEF InExecutor, Received, Incoming, Reading
<1>3. Line = <<handling>> \o r
  BY <1>1, <1>2, Zenon DEF Line
<1>4. Line' = <<>> \o r
  BY <1>1, <1>2, Zenon DEF Line
<1>5. <<>> \o r = r
  BY <1>1, ConcatEmptySeq
<1> QED
  BY <1>1, <1>3, <1>4, <1>5, Zenon

LEMMA PlainTypes ==
  /\ DisconnectEvent \in PlainRequest
  /\ [type |-> "ping", id |-> 0] \in PlainRequest
  /\ [type |-> "disconnect", id |-> 0] \in PlainRequest
  /\ \A o \in OpType, i \in Requests : [type |-> o, id |-> i] \in PlainRequest
<1>1. 0 \notin Requests /\ 0 \in 0 .. MaxRequests /\ Requests \subseteq 0 .. MaxRequests
  BY WireAssumption DEF WireAssumption, Requests
<1>2. DisconnectEvent \in PlainRequest
  BY <1>1, MessageTypes DEF PlainRequest, DisconnectEvent
<1>3. [type |-> "ping", id |-> 0] \in PlainRequest
  BY <1>1, MessageTypes DEF PlainRequest
<1>4. ASSUME NEW o \in OpType, NEW i \in Requests
      PROVE  [type |-> o, id |-> i] \in PlainRequest
  <2>1. o \in RequestType /\ o # "disconnect" /\ i \in 0 .. MaxRequests
    BY <1>1 DEF RequestType, OpType
  <2>2. [type |-> o, id |-> i] \in Request
    BY <2>1, MessageTypes
  <2> QED
    BY <2>1, <2>2 DEF PlainRequest
<1> QED
  BY <1>2, <1>3, <1>4 DEF DisconnectEvent

\* Only disconnect events have no number.
LEMMA PlainStep ==
  ASSUME TypeOK, ClientShape, DisconnectsPlain, [Next]_vars
  PROVE  DisconnectsPlain'
<1> USE DEF DisconnectsPlain
<1>1. <<>> \in Seq(PlainRequest)
  BY EmptySeq
<1>2. CASE ClientNext
  <2>1. UNCHANGED <<event, event_queue, handling>>
    BY <1>2, ClientFrame
  <2>2. ASSUME NEW t \in Callers, CallSend(t)
        PROVE  toServer' \in Seq(PlainRequest)
    <3>1. op[t] \in OpType /\ cur[t] \in Requests
      BY <2>2 DEF CallSend, ClientShape, CallerShape
    <3>2. [type |-> op[t], id |-> cur[t]] \in PlainRequest
      BY <3>1, PlainTypes
    <3>3. Append(toServer, [type |-> op[t], id |-> cur[t]]) \in Seq(PlainRequest)
      BY <3>2, AppendProperties
    <3> QED
      BY <2>2, <3>3 DEF CallSend, ClientSend
  <2>3. CASE PingSend
    <3>1. Append(toServer, [type |-> "ping", id |-> 0]) \in Seq(PlainRequest)
      BY PlainTypes, AppendProperties
    <3> QED
      BY <2>1, <2>3, <3>1 DEF PingSend, ClientSend
  <2>4. CASE UNCHANGED toServer
    BY <2>1, <2>4
  <2>6. CASE PingBye
    <3>1. Append(toServer, [type |-> "disconnect", id |-> 0]) \in Seq(PlainRequest)
      BY PlainTypes, AppendProperties
    <3> QED
      BY <2>1, <2>6, <3>1 DEF PingBye, ClientSend
  <2>5. \/ \E t \in Callers : CallSend(t)
        \/ PingSend \/ PingBye
        \/ UNCHANGED toServer
    BY <1>2
    DEF ClientNext, CallBegin, CallStep, CallRecv, CallTimeout, Disconnect,
        Joined, PingStep, PingCheck, PingRecv, PingTimeout, PingWake,
        PingClose, wireVars
  <2> QED
    BY <2>1, <2>2, <2>3, <2>4, <2>5, <2>6
<1>3. CASE ReaderRecv
  BY <1>3, HeadTailProperties DEF ReaderRecv
<1>4. CASE ReaderPush
  BY <1>4, PlainTypes, AppendProperties DEF ReaderPush, wireVars
<1>5. CASE ReaderJoin \/ ReaderClose
  BY <1>1, <1>5 DEF ReaderJoin, ReaderClose, ServerClose, wireVars
<1>6. CASE ExecutorPop
  BY <1>6, HeadTailProperties DEF ExecutorPop, wireVars
<1>7. CASE ExecutorReply
  BY <1>7, PlainTypes DEF ExecutorReply
<1>8. CASE UNCHANGED <<toServer, event, event_queue, handling>>
  BY <1>8
<1>9. ServerNext => \/ ReaderRecv \/ ReaderPush \/ ReaderJoin \/ ReaderClose
                    \/ ExecutorPop \/ ExecutorReply
                    \/ UNCHANGED <<toServer, event, event_queue, handling>>
  BY DEF ServerNext, ServerStop, ForceDisconnect, ReaderStep, ReaderLoop,
         ReaderTimeout, ReaderPost, ReaderLeave, ExecutorStep, ExecutorEmpty,
         ExecutorWait, HandleDisconnect, HandleRequest, ExecutorExit, wireVars
<1>10. UNCHANGED vars => UNCHANGED <<toServer, event, event_queue, handling>>
  BY DEF vars, wireVars, connectionVars
<1> QED
  BY <1>2, <1>3, <1>4, <1>5, <1>6, <1>7, <1>8, <1>9, <1>10 DEF Next

\* The part of OrderInv that is about the line.
LineInv ==
  /\ Continues(Line, executed, sent)
  /\ Reading => Whole(Line, executed, sent)

\* The line, and what was executed and sent, is as it was.
LEMMA LineSame ==
  ASSUME LineInv, Line' = Line, executed' = executed, sent' = sent,
         Reading' => Reading
  PROVE  LineInv'
  BY Zenon DEF LineInv, Continues, Whole

\* A step of the client.
LEMMA LineClient ==
  ASSUME TypeOK, ClientShape, LineInv, ClientNext
  PROVE  LineInv'
<1>1. /\ UNCHANGED <<executor, handling, leftover, event_queue, reader, event, executed>>
      /\ Reading' = Reading /\ executed' = executed
  BY ClientFrame DEF Reading
<1>2. Line \in Seq(Request) /\ executed \in Seq(Requests) /\ sent \in Seq(0 .. MaxRequests)
  BY LineType
<1>3. CASE UNCHANGED <<toServer, sent>>
  <2>1. Line' = Line
    BY <1>1, <1>3, Zenon DEF Line, InExecutor, Received, Incoming
  <2> QED
    BY <1>1, <1>3, <2>1, LineSame
<1>4. ASSUME NEW m \in Request, m.id \notin Requests, toServer' = Append(toServer, m),
             UNCHANGED sent
      PROVE  LineInv'
  <2>1. Line' = IF Reading THEN Line \o <<m>> ELSE Line
    BY <1>1, <1>4, LineSend
  <2>2. CASE Reading
    <3>1. Line' = Line \o <<m>>
      BY <2>1, <2>2
    <3>2. Continues(Line \o <<m>>, executed, sent)
      BY <1>2, <1>4, LinePlain DEF LineInv
    <3>3. Whole(Line \o <<m>>, executed, sent)
      BY <1>2, <1>4, <2>2, LinePlain DEF LineInv
    <3> QED
      BY <1>1, <1>4, <3>1, <3>2, <3>3, Zenon DEF LineInv, Continues, Whole
  <2>3. CASE ~Reading
    BY <1>1, <1>4, <2>1, <2>3, LineSame
  <2> QED
    BY <2>2, <2>3
<1>5. ASSUME NEW m \in Request, m.id \in Requests, toServer' = Append(toServer, m),
             sent' = Append(sent, m.id)
      PROVE  LineInv'
  <2>1. Line' = IF Reading THEN Line \o <<m>> ELSE Line
    BY <1>1, <1>5, LineSend
  <2>2. CASE Reading
    <3>1. Line' = Line \o <<m>>
      BY <2>1, <2>2
    <3>2. Continues(Line \o <<m>>, executed, Append(sent, m.id))
      BY <1>2, <1>5, <2>2, LineSent DEF LineInv
    <3>3. Whole(Line \o <<m>>, executed, Append(sent, m.id))
      BY <1>2, <1>5, <2>2, LineSent DEF LineInv
    <3> QED
      BY <1>1, <1>5, <3>1, <3>2, <3>3, Zenon DEF LineInv, Continues, Whole
  <2>3. CASE ~Reading
    <3>1. Line' = Line
      BY <2>1, <2>3
    <3>2. m.id \in 0 .. MaxRequests
      BY <1>5 DEF Requests
    <3>3. Continues(Line, executed, Append(sent, m.id))
      BY <1>2, <3>2, LineMissed DEF LineInv
    <3> QED
      BY <1>1, <1>5, <2>3, <3>1, <3>3, Zenon DEF LineInv, Continues
  <2> QED
    BY <2>2, <2>3
<1>6. ASSUME NEW t \in Callers, CallSend(t)
      PROVE  LineInv'
  <2>1. op[t] \in OpType /\ cur[t] \in Requests
    BY <1>6 DEF CallSend, ClientShape, CallerShape
  <2>2. [type |-> op[t], id |-> cur[t]] \in Request
    BY <2>1, PlainTypes DEF PlainRequest
  <2>3. CASE CanSend
    <3>1. /\ toServer' = Append(toServer, [type |-> op[t], id |-> cur[t]])
          /\ sent' = Append(sent, cur[t])
      BY <1>6, <2>3 DEF CallSend, ClientSend
    <3> QED
      BY <1>5, <2>1, <2>2, <3>1
  <2>4. CASE ~CanSend
    BY <1>3, <1>6, <2>4 DEF CallSend, ClientSend
  <2> QED
    BY <2>3, <2>4
<1>7. CASE PingSend \/ PingBye
  <2>1. /\ [type |-> "ping", id |-> 0] \in Request
        /\ [type |-> "disconnect", id |-> 0] \in Request /\ 0 \notin Requests
    BY PlainTypes DEF PlainRequest, Requests
  <2>2. CASE CanSend
    <3>1. \/ toServer' = Append(toServer, [type |-> "ping", id |-> 0])
          \/ toServer' = Append(toServer, [type |-> "disconnect", id |-> 0])
      BY <1>7, <2>2 DEF PingSend, PingBye, ClientSend
    <3>2. UNCHANGED sent
      BY <1>7 DEF PingSend, PingBye
    <3> QED
      BY <1>4, <2>1, <3>1, <3>2
  <2>3. CASE ~CanSend
    BY <1>3, <1>7, <2>3 DEF PingSend, PingBye, ClientSend
  <2> QED
    BY <2>2, <2>3
<1>8. \/ \E t \in Callers : CallSend(t)
      \/ PingSend \/ PingBye
      \/ UNCHANGED <<toServer, sent>>
  BY DEF ClientNext, CallBegin, CallStep, CallRecv, CallTimeout, Disconnect,
         Joined, PingStep, PingCheck, PingRecv, PingTimeout, PingWake,
         PingClose, wireVars
<1> QED
  BY <1>3, <1>6, <1>7, <1>8

\* A step of the reader.
LEMMA LineReader ==
  ASSUME TypeOK, LineInv, ReaderStep, UNCHANGED clientVars,
         reader \notin {"close", "done"} => leftover = <<>>
  PROVE  LineInv'
<1>1. executed' = executed /\ sent' = sent
  BY DEF ReaderStep, ReaderLoop, ReaderRecv, ReaderTimeout, ReaderPush,
         ReaderPost, ReaderLeave, ReaderJoin, ReaderClose, clientVars
<1>2. Line \in Seq(Request)
  BY LineType
<1>3. CASE ReaderLoop /\ reader' = "left"
  <2>1. Line = Line' \o Incoming /\ Line' \in Seq(Request)
    BY <1>3, LineLeft DEF ReaderLoop
  <2>2. Incoming \in Seq(Request)
    BY LineType
  <2>3. Continues(Line', executed, sent)
    BY <2>1, <2>2, LineCut DEF LineInv
  <2>4. ~Reading'
    BY <1>3 DEF Reading
  <2> QED
    BY <1>1, <2>3, <2>4, Zenon DEF LineInv, Continues
<1>4. CASE ReaderRecv \/ (ReaderPush /\ reader = "push") \/ ReaderJoin
  <2>1. Line' = Line
    BY <1>4, LineReceive, LinePush, LineJoin DEF ReaderJoin
  <2>2. Reading' => Reading
    BY <1>4 DEF Reading, ReaderRecv, ReaderPush, ReaderJoin
  <2> QED
    BY <1>1, <2>1, <2>2, LineSame
<1>5. CASE ReaderPush /\ reader = "pushD"
  <2>1. Line' = Line \o <<DisconnectEvent>>
    BY <1>5, LinePushOwn
  <2>2. DisconnectEvent \in Request /\ DisconnectEvent.id \notin Requests
    BY MessageTypes DEF DisconnectEvent, Requests
  <2>3. Continues(Line \o <<DisconnectEvent>>, executed, sent)
    BY <1>2, <2>2, LinePlain DEF LineInv
  <2>4. ~Reading'
    BY <1>5 DEF Reading, ReaderPush
  <2> QED
    BY <1>1, <2>1, <2>3, <2>4, Zenon DEF LineInv, Continues
<1>6. CASE (ReaderLoop /\ reader' # "left") \/ ReaderTimeout \/ ReaderPost
             \/ ReaderLeave \/ ReaderClose
  <2>1. /\ UNCHANGED <<executor, handling, leftover, event_queue, event>>
        /\ Reading' => Reading
        /\ reader # "push" /\ reader' # "push"
        /\ Incoming' = Incoming
    BY <1>6
    DEF Incoming, Reading, ReaderLoop, ReaderTimeout, ReaderPost, ReaderLeave,
        ReaderClose, ServerClose, wireVars
  <2>2. Line' = Line
    BY <2>1, Zenon DEF Line, InExecutor, Received
  <2> QED
    BY <1>1, <2>1, <2>2, LineSame
<1>7. ReaderPush => reader = "push" \/ reader = "pushD"
  BY DEF ReaderPush
<1> QED
  BY <1>3, <1>4, <1>5, <1>6, <1>7 DEF ReaderStep

\* A step of the executor.
LEMMA LineExecutor ==
  ASSUME TypeOK, LineInv, ExecutorStep, UNCHANGED clientVars, DisconnectsPlain,
         executor # "done" => leftover = <<>>
  PROVE  LineInv'
<1>1. /\ sent' = sent /\ UNCHANGED <<reader, event, leftover, toServer>>
      /\ Reading' = Reading
  BY DEF ExecutorStep, ExecutorPop, ExecutorEmpty, ExecutorWait,
         HandleDisconnect, HandleRequest, ExecutorReply, ExecutorExit,
         clientVars, wireVars, Reading
<1>2. /\ executed \in Seq(Requests) /\ sent \in Seq(0 .. MaxRequests)
      /\ handling \in Request
  BY LineType DEF TypeOK, ConnectionTypeOK
<1>3. CASE ExecutorPop
  <2>1. Line' = Line
    BY <1>3, LinePop DEF ExecutorPop
  <2>2. executed' = executed
    BY <1>3 DEF ExecutorPop
  <2> QED
    BY <1>1, <2>1, <2>2, LineSame
<1>4. CASE HandleDisconnect
  <2>1. /\ executor = "handle" /\ executor' # "handle"
        /\ UNCHANGED <<event_queue, executed>>
        /\ handling.type = "disconnect"
    BY <1>4 DEF HandleDisconnect
  <2>2. Line = <<handling>> \o Line' /\ Line' \in Seq(Request)
    BY <1>1, <2>1, LineHandle
  <2>3. handling.id \notin Requests
    BY <2>1 DEF DisconnectsPlain, PlainRequest
  <2>4. Continues(Line', executed, sent)
    BY <1>2, <2>2, <2>3, LineSkips DEF LineInv
  <2>5. Reading => Whole(Line', executed, sent)
    BY <1>2, <2>2, <2>3, LineSkips DEF LineInv
  <2> QED
    BY <1>1, <2>1, <2>4, <2>5, Zenon DEF LineInv, Continues, Whole
<1>5. CASE HandleRequest
  <2>1. /\ executor = "handle" /\ executor' # "handle"
        /\ UNCHANGED event_queue
        /\ executed' = IF handling.id \in Requests
                       THEN Append(executed, handling.id) ELSE executed
    BY <1>5 DEF HandleRequest
  <2>2. Line = <<handling>> \o Line' /\ Line' \in Seq(Request)
    BY <1>1, <2>1, LineHandle
  <2>3. CASE handling.id \in Requests
    <3>1. Continues(Line', Append(executed, handling.id), sent)
      BY <1>2, <2>2, <2>3, LineServed DEF LineInv
    <3>2. Reading => Whole(Line', Append(executed, handling.id), sent)
      BY <1>2, <2>2, <2>3, LineServed DEF LineInv
    <3>3. executed' = Append(executed, handling.id)
      BY <2>1, <2>3
    <3> QED
      BY <1>1, <3>1, <3>2, <3>3, Zenon DEF LineInv, Continues, Whole
  <2>4. CASE handling.id \notin Requests
    <3>1. Continues(Line', executed, sent)
      BY <1>2, <2>2, <2>4, LineSkips DEF LineInv
    <3>2. Reading => Whole(Line', executed, sent)
      BY <1>2, <2>2, <2>4, LineSkips DEF LineInv
    <3>3. executed' = executed
      BY <2>1, <2>4
    <3> QED
      BY <1>1, <3>1, <3>2, <3>3, Zenon DEF LineInv, Continues, Whole
  <2> QED
    BY <2>3, <2>4
<1>6. CASE ExecutorEmpty \/ ExecutorWait \/ ExecutorReply \/ ExecutorExit
  <2>1. /\ executor # "handle" /\ executor' # "handle"
        /\ UNCHANGED <<event_queue, executed>>
    BY <1>6 DEF ExecutorEmpty, ExecutorWait, ExecutorReply, ExecutorExit
  <2>2. Line' = Line
    BY <1>1, <2>1, Zenon DEF Line, InExecutor, Received, Incoming
  <2> QED
    BY <1>1, <2>1, <2>2, LineSame
<1> QED
  BY <1>3, <1>4, <1>5, <1>6 DEF ExecutorStep

LEMMA OrderStep ==
  ASSUME TypeOK, ClientShape, CloseInv, OrderInv, [Next]_vars
  PROVE  OrderInv'
<1>1. LineInv /\ DisconnectsPlain
  BY DEF OrderInv, LineInv
<1>2. DisconnectsPlain'
  BY <1>1, PlainStep
<1>3. (reader \notin {"close", "done"} => leftover = <<>>)'
  <2>1. CASE ClientNext
    BY <2>1, ClientFrame DEF OrderInv
  <2>2. CASE ServerNext
    BY <2>2
    DEF OrderInv, ServerNext, ServerStop, ForceDisconnect, ReaderStep,
        ReaderLoop, ReaderRecv, ReaderTimeout, ReaderPush, ReaderPost,
        ReaderLeave, ReaderJoin, ReaderClose, ExecutorStep, ExecutorPop,
        ExecutorEmpty, ExecutorWait, HandleDisconnect, HandleRequest,
        ExecutorReply, ExecutorExit
  <2>3. CASE UNCHANGED vars
    BY <2>3 DEF OrderInv, vars, connectionVars
  <2> QED
    BY <2>1, <2>2, <2>3 DEF Next
<1>4. LineInv'
  <2>1. CASE ClientNext
    BY <1>1, <2>1, LineClient
  <2>2. CASE ReaderStep /\ UNCHANGED clientVars
    BY <1>1, <2>2, LineReader DEF OrderInv
  <2>3. CASE ExecutorStep /\ UNCHANGED clientVars
    BY <1>1, <2>3, LineExecutor DEF OrderInv, CloseInv
  <2>4. CASE \/ ServerStop /\ UNCHANGED clientVars
             \/ ForceDisconnect /\ UNCHANGED clientVars
             \/ UNCHANGED vars
    <3>1. /\ UNCHANGED <<executor, handling, leftover, event_queue, reader,
                         event, toServer>>
          /\ executed' = executed /\ sent' = sent /\ Reading' = Reading
      BY <2>4
      DEF ServerStop, ForceDisconnect, vars, clientVars, connectionVars,
          wireVars, Reading
    <3>2. Line' = Line
      BY <3>1, Zenon DEF Line, InExecutor, Received, Incoming
    <3> QED
      BY <1>1, <3>1, <3>2, LineSame
  <2> QED
    BY <2>1, <2>2, <2>3, <2>4 DEF Next, ServerNext
<1> QED
  BY <1>2, <1>3, <1>4 DEF OrderInv, LineInv

LEMMA OrderInit == Init => OrderInv
<1> SUFFICES ASSUME Init PROVE OrderInv
  OBVIOUS
<1>1. /\ toServer = <<>> /\ event = DisconnectEvent /\ event_queue = <<>>
      /\ handling = DisconnectEvent /\ leftover = <<>> /\ executed = <<>>
      /\ sent = <<>> /\ executor = "loop" /\ reader = "loop"
  BY DEF Init, WireInit, ClientInit, ConnectionInit
<1>2. DisconnectsPlain
  BY <1>1, PlainTypes, EmptySeq DEF DisconnectsPlain
<1>3. <<>> \in Seq(Request) /\ <<>> \o <<>> = <<>>
  BY EmptySeq, ConcatEmptySeq
<1>4. Line = <<>>
  BY <1>1, <1>3 DEF Line, InExecutor, Received, Incoming
<1>5. /\ Numbered(<<>>) = {} /\ Cardinality({}) = 0
      /\ Len(<<>>) = 0 /\ DOMAIN <<>> = {}
  BY FS_EmptySet DEF Numbered
<1>6. Continues(<<>>, <<>>, <<>>)
  BY <1>5 DEF Continues
<1>7. Whole(<<>>, <<>>, <<>>)
  <2>1. Len(<<>>) + Cardinality(Numbered(<<>>)) = 0 + 0
    BY <1>5, Zenon
  <2> QED
    BY <1>5, <2>1 DEF Whole
<1> QED
  BY <1>1, <1>2, <1>4, <1>6, <1>7 DEF OrderInv

\* Requests are handled in the order in which they were sent, each once and none
\* left out, for any number of callers, pings between them, and late replies.
THEOREM HandledInOrder == Spec => []ServedInOrder
<1>1. Init => ClientShape /\ CloseInv
  BY PairingInit DEF PairingInv, CloseInv, Init, ConnectionInit, WireInit
<1>2. TypeOK /\ ClientShape /\ [Next]_vars => ClientShape'
  BY ShapeStep
<1>3. TypeOK /\ CloseInv /\ [Next]_vars => CloseInv'
  BY CloseStep
<1>4. TypeOK /\ ClientShape /\ CloseInv /\ OrderInv /\ [Next]_vars => OrderInv'
  BY OrderStep
<1>5. TypeOK /\ CloseInv /\ OrderInv => ServedInOrder
  <2> SUFFICES ASSUME TypeOK, CloseInv, OrderInv PROVE ServedInOrder
    OBVIOUS
  <2>1. CASE executor = "done"
    <3>1. PICK x \in Seq(Request) : x = event_queue \o (Received \o Incoming)
      BY LineType
    <3>2. InExecutor = <<>>
      BY <2>1 DEF InExecutor
    <3>3. leftover \o x \in Seq(Request)
      BY <3>1, LineType
    <3>4. Line = leftover \o x
      BY <3>1, <3>2, <3>3, ConcatEmptySeq DEF Line
    <3>5. leftover \in Seq(Request)
      BY LineType
    <3> QED
      BY <3>1, <3>4, <3>5, LineCut DEF OrderInv, ServedInOrder
  <2>2. CASE executor # "done"
    <3>1. leftover = <<>>
      BY <2>2 DEF OrderInv, CloseInv
    <3>2. Numbered(<<>>) = {}
      BY DEF Numbered
    <3> QED
      BY <3>1, <3>2 DEF ServedInOrder, OrderInv, Continues
  <2> QED
    BY <2>1, <2>2
<1> QED
  BY <1>1, <1>2, <1>3, <1>4, <1>5, OrderInit, TypeCorrect, PTL DEF Spec
====
