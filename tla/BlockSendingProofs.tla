------------------------- MODULE BlockSendingProofs -------------------------
(***************************************************************************)
(* What the server remembers of a client's blocks is right, for any        *)
(* blocks, limits, numbers of edits and of events.                         *)
(***************************************************************************)
EXTENDS BlockSending, FiniteSetTheorems, SequenceTheorems, WellFoundedInduction, TLAPS

USE DEF history

-----------------------------------------------------------------------------
(* Packets on the way as sets, where their order does not matter. *)

LEMMA MembersTyped ==
  ASSUME NEW T, NEW q \in Seq(T)
  PROVE  ToSet(q) \subseteq T
<1>1. DOMAIN q = 1 .. Len(q) /\ \A i \in 1 .. Len(q) : q[i] \in T
  BY LenProperties, ElementOfSeq
<1> QED BY <1>1 DEF ToSet

LEMMA AppendSet ==
  ASSUME NEW T, NEW q \in Seq(T), NEW x \in T
  PROVE  Append(q, x) \in Seq(T) /\ ToSet(Append(q, x)) = ToSet(q) \cup {x}
<1>1. DOMAIN q = 1 .. Len(q) /\ Len(q) \in Nat
  BY LenProperties
<1>2. /\ Append(q, x) \in Seq(T) /\ Len(Append(q, x)) = Len(q) + 1
      /\ \A i \in 1 .. Len(q) : Append(q, x)[i] = q[i]
      /\ Append(q, x)[Len(q) + 1] = x
  BY AppendProperties
<1>3. DOMAIN Append(q, x) = 1 .. Len(q) + 1
  BY <1>2, LenProperties
<1>4. ASSUME NEW y \in ToSet(q) \cup {x} PROVE y \in ToSet(Append(q, x))
  BY <1>1, <1>2, <1>3 DEF ToSet
<1>5. ASSUME NEW y \in ToSet(Append(q, x)) PROVE y \in ToSet(q) \cup {x}
  <2>1. PICK i \in 1 .. Len(q) + 1 : y = Append(q, x)[i]
    BY <1>3 DEF ToSet
  <2>2. CASE i \in 1 .. Len(q)
    BY <2>1, <2>2, <1>1, <1>2 DEF ToSet
  <2>3. CASE i = Len(q) + 1
    BY <2>1, <2>3, <1>2
  <2> QED BY <2>2, <2>3, <1>1
<1> QED BY <1>2, <1>4, <1>5

LEMMA TailSet ==
  ASSUME NEW T, NEW q \in Seq(T), q # <<>>
  PROVE  /\ Tail(q) \in Seq(T) /\ Head(q) \in T
         /\ Head(q) = q[1] /\ 1 \in DOMAIN q
         /\ ToSet(q) = ToSet(Tail(q)) \cup {Head(q)}
<1>1. DOMAIN q = 1 .. Len(q) /\ Len(q) \in Nat \ {0}
  BY LenProperties, EmptySeq
<1>2. /\ Tail(q) \in Seq(T) /\ Len(Tail(q)) = Len(q) - 1 /\ Head(q) \in T
      /\ \A i \in 1 .. Len(q) - 1 : Tail(q)[i] = q[i + 1]
  BY HeadTailProperties
<1>3. DOMAIN Tail(q) = 1 .. Len(q) - 1
  BY <1>2, LenProperties
<1>4. Head(q) = q[1]
  OBVIOUS
<1>5. ASSUME NEW y \in ToSet(Tail(q)) \cup {Head(q)} PROVE y \in ToSet(q)
  <2>1. CASE y = Head(q)
    BY <2>1, <1>1, <1>4 DEF ToSet
  <2>2. CASE y \in ToSet(Tail(q))
    <3>1. PICK i \in 1 .. Len(q) - 1 : y = Tail(q)[i]
      BY <2>2, <1>3 DEF ToSet
    <3>2. y = q[i + 1] /\ i + 1 \in DOMAIN q
      BY <3>1, <1>1, <1>2
    <3> QED BY <3>2 DEF ToSet
  <2> QED BY <2>1, <2>2
<1>6. ASSUME NEW y \in ToSet(q) PROVE y \in ToSet(Tail(q)) \cup {Head(q)}
  <2>1. PICK i \in 1 .. Len(q) : y = q[i]
    BY <1>1 DEF ToSet
  <2>2. CASE i = 1
    BY <2>1, <2>2, <1>4
  <2>3. CASE i # 1
    <3>1. i - 1 \in 1 .. Len(q) - 1 /\ (i - 1) + 1 = i
      BY <2>3, <1>1
    <3>2. y = Tail(q)[i - 1]
      BY <3>1, <2>1, <1>2
    <3> QED BY <3>1, <3>2, <1>3 DEF ToSet
  <2> QED BY <2>2, <2>3
<1> QED BY <1>1, <1>2, <1>4, <1>5, <1>6

LEMMA ConcatSet ==
  ASSUME NEW T, NEW q \in Seq(T), NEW r \in Seq(T)
  PROVE  q \o r \in Seq(T) /\ ToSet(q \o r) = ToSet(q) \cup ToSet(r)
<1>1. /\ DOMAIN q = 1 .. Len(q) /\ Len(q) \in Nat
      /\ DOMAIN r = 1 .. Len(r) /\ Len(r) \in Nat
  BY LenProperties
<1>2. /\ q \o r \in Seq(T) /\ Len(q \o r) = Len(q) + Len(r)
      /\ \A i \in 1 .. Len(q) + Len(r) :
           (q \o r)[i] = IF i <= Len(q) THEN q[i] ELSE r[i - Len(q)]
  BY ConcatProperties
<1>3. DOMAIN (q \o r) = 1 .. Len(q) + Len(r)
  BY <1>2, LenProperties
<1>4. ASSUME NEW y \in ToSet(q) PROVE y \in ToSet(q \o r)
  BY <1>1, <1>2, <1>3 DEF ToSet
<1>5. ASSUME NEW y \in ToSet(r) PROVE y \in ToSet(q \o r)
  <2>1. PICK i \in 1 .. Len(r) : y = r[i]
    BY <1>1 DEF ToSet
  <2>2. Len(q) + i \in 1 .. Len(q) + Len(r) /\ ~(Len(q) + i <= Len(q))
        /\ (Len(q) + i) - Len(q) = i
    BY <1>1
  <2>3. y = (q \o r)[Len(q) + i]
    BY <2>1, <2>2, <1>2
  <2> QED BY <2>2, <2>3, <1>3 DEF ToSet
<1>6. ASSUME NEW y \in ToSet(q \o r) PROVE y \in ToSet(q) \cup ToSet(r)
  <2>1. PICK i \in 1 .. Len(q) + Len(r) : y = (q \o r)[i]
    BY <1>3 DEF ToSet
  <2>2. CASE i <= Len(q)
    BY <2>1, <2>2, <1>1, <1>2 DEF ToSet
  <2>3. CASE ~(i <= Len(q))
    <3>1. i - Len(q) \in 1 .. Len(r)
      BY <2>3, <1>1
    <3>2. y = r[i - Len(q)]
      BY <2>1, <2>3, <1>2
    <3> QED BY <3>1, <3>2, <1>1 DEF ToSet
  <2> QED BY <2>2, <2>3
<1> QED BY <1>2, <1>4, <1>5, <1>6

-----------------------------------------------------------------------------
(* InOrder lists the whole set, for any strict order: the ranks are 0 to   *)
(* the cardinality less one, each taken once.                              *)

LEMMA InOrderLists ==
  ASSUME NEW S, IsFiniteSet(S), NEW before,
         \A x, y \in S : x # y => x \in before[y] \/ y \in before[x],
         \A x \in S : x \notin before[x],
         \A x, y \in S : y \in before[x] => S \cap before[y] \subseteq before[x]
  PROVE  /\ InOrder(S, before) \in Seq(S)
         /\ Len(InOrder(S, before)) = Cardinality(S)
         /\ ToSet(InOrder(S, before)) = S
         /\ \A k \in 1 .. Cardinality(S) :
              /\ InOrder(S, before)[k] \in S
              /\ Cardinality(S \cap before[InOrder(S, before)[k]]) = k - 1
<1> DEFINE n == Cardinality(S)
           rank(x) == Cardinality(S \cap before[x])
           r == [x \in S |-> rank(x) + 1]
           out == InOrder(S, before)
<1>1. n \in Nat
  BY FS_CardinalityType
<1>2. ASSUME NEW x \in S PROVE rank(x) \in 0 .. n - 1
  <2>1. S \cap before[x] \subseteq S \ {x} /\ IsFiniteSet(S \ {x}) /\ Cardinality(S \ {x}) = n - 1
    BY FS_RemoveElement
  <2>2. IsFiniteSet(S \cap before[x]) /\ rank(x) <= n - 1
    BY <2>1, FS_Subset
  <2> QED BY <2>2, FS_CardinalityType, <1>1
<1>3. ASSUME NEW x \in S, NEW y \in S, y \in before[x] PROVE rank(y) < rank(x)
  <2> DEFINE X == S \cap before[x]
             Y == S \cap before[y]
  <2>1. Y \subseteq X \ {y} /\ y \in X
    BY <1>3
  <2>2. IsFiniteSet(X)
    BY FS_Subset
  <2>3. IsFiniteSet(X \ {y}) /\ Cardinality(X \ {y}) = Cardinality(X) - 1
    BY <2>1, <2>2, FS_RemoveElement
  <2>4. Cardinality(Y) <= Cardinality(X \ {y})
    BY <2>1, <2>3, FS_Subset
  <2>5. Cardinality(X) = rank(x) /\ Cardinality(Y) = rank(y)
    OBVIOUS
  <2> QED BY <2>3, <2>4, <2>5, <1>1, <1>2
<1>4. \A x, y \in S : rank(x) = rank(y) => x = y
  BY <1>2, <1>3, <1>1
<1>5. r \in [S -> 1 .. n]
  BY <1>1, <1>2
<1>6. r \in Injection(S, 1 .. n)
  <2>1. ASSUME NEW x \in S, NEW y \in S, r[x] = r[y] PROVE x = y
    <3>1. r[x] = rank(x) + 1 /\ r[y] = rank(y) + 1
      OBVIOUS
    <3>2. rank(x) \in Int /\ rank(y) \in Int
      BY <1>1, <1>2
    <3>3. \A a, b \in Int : a + 1 = b + 1 => a = b
      OBVIOUS
    <3>4. rank(x) + 1 = rank(y) + 1
      BY <2>1, <3>1
    <3>5. rank(x) = rank(y)
      <4> HIDE DEF rank, r
      <4> QED BY <3>2, <3>3, <3>4
    <3> QED BY <3>5, <1>4
  <2> QED BY <2>1, <1>5 DEF Injection, IsInjective
<1>7. r \in Surjection(S, 1 .. n)
  <2>1. IsFiniteSet(1 .. n) /\ Cardinality(1 .. n) = n
    BY <1>1, FS_Interval
  <2> QED BY <2>1, <1>6, FS_Injection
<1>8. ASSUME NEW k \in 1 .. n PROVE out[k] \in S /\ rank(out[k]) = k - 1
  <2>1. PICK x \in S : r[x] = k
    BY <1>7 DEF Surjection
  <2>2. rank(x) = k - 1
    BY <2>1, <1>1, <1>2
  <2>3. out[k] = CHOOSE z \in S : Cardinality(S \cap before[z]) = k - 1
    BY DEF InOrder
  <2> QED BY <2>2, <2>3
<1>9. ASSUME NEW x \in S PROVE rank(x) + 1 \in 1 .. n /\ out[rank(x) + 1] = x
  <2> HIDE DEF rank, out, n
  <2>1. rank(x) + 1 \in 1 .. n /\ (rank(x) + 1) - 1 = rank(x)
    BY <1>1, <1>2
  <2>2. out[rank(x) + 1] \in S /\ rank(out[rank(x) + 1]) = rank(x)
    BY <2>1, <1>8
  <2> QED BY <2>1, <2>2, <1>4
<1>10. out \in [1 .. n -> S]
  BY <1>8 DEF InOrder
<1>11. out \in Seq(S) /\ Len(out) = n /\ DOMAIN out = 1 .. n
  BY <1>10, <1>1
<1>12. ToSet(out) = {out[k] : k \in 1 .. n}
  BY <1>11 DEF ToSet
<1>13. ToSet(out) = S
  <2> HIDE DEF rank, out, n
  <2> QED BY <1>8, <1>9, <1>12
<1> QED BY <1>8, <1>11, <1>13

-----------------------------------------------------------------------------
(* The scan *)

LEMMA Limits ==
  /\ full_d_max \in Nat /\ MaxEdits \in Nat /\ MaxEvents \in Nat
  /\ m_max_simul_sends \in Nat \ {0} /\ max_blocks_to_send \in Nat \ {0}
  /\ EmergeLimit \in Nat \ {0}
  /\ \A es \in SUBSET Edits : NoBlock # es
BY LimitAssumption

LEMMA ScanIndices ==
  /\ DOMAIN ScanOrder = 1 .. Len(ScanOrder) /\ Len(ScanOrder) \in Nat
  /\ \A b \in Blocks : \E i \in DOMAIN ScanOrder : b = ScanOrder[i]
  /\ \A i \in DOMAIN ScanOrder : ScanOrder[i] \in Blocks
  /\ \A i, j \in DOMAIN ScanOrder : ScanOrder[i] \in Before[ScanOrder[j]] <=> i < j
<1>1. DOMAIN ScanOrder = 1 .. Len(ScanOrder) /\ Len(ScanOrder) \in Nat
  BY ScanAssumption, LenProperties
<1>2. /\ \A b \in Blocks : \E i \in DOMAIN ScanOrder : b = ScanOrder[i]
      /\ \A i \in DOMAIN ScanOrder : ScanOrder[i] \in Blocks
  BY ScanAssumption DEF ToSet
<1>3. ASSUME NEW i \in DOMAIN ScanOrder, NEW j \in DOMAIN ScanOrder
      PROVE  ScanOrder[i] \in Before[ScanOrder[j]] <=> i < j
  <2>1. \A k, l \in DOMAIN ScanOrder : ScanOrder[k] = ScanOrder[l] => k = l
    BY ScanAssumption DEF IsInjective
  <2>2. Before[ScanOrder[j]] =
          {ScanOrder[k] : k \in {k \in DOMAIN ScanOrder : \E l \in DOMAIN ScanOrder :
                                   ScanOrder[l] = ScanOrder[j] /\ k < l}}
    BY <1>2 DEF Before
  <2>3. ASSUME i < j PROVE ScanOrder[i] \in Before[ScanOrder[j]]
    BY <2>2, <2>3
  <2>4. ASSUME ScanOrder[i] \in Before[ScanOrder[j]] PROVE i < j
    <3>1. PICK k \in DOMAIN ScanOrder :
            /\ ScanOrder[i] = ScanOrder[k]
            /\ \E l \in DOMAIN ScanOrder : ScanOrder[l] = ScanOrder[j] /\ k < l
      BY <2>2, <2>4
    <3> QED BY <3>1, <2>1
  <2> QED BY <2>3, <2>4
<1> QED BY <1>1, <1>2, <1>3

LEMMA BlocksInOrder ==
  ASSUME NEW S \in SUBSET Blocks
  PROVE  /\ IsFiniteSet(S) /\ Cardinality(S) \in Nat
         /\ InOrder(S, Before) \in Seq(S)
         /\ Len(InOrder(S, Before)) = Cardinality(S)
         /\ ToSet(InOrder(S, Before)) = S
         /\ \A k \in 1 .. Cardinality(S) :
              /\ InOrder(S, Before)[k] \in S
              /\ Cardinality(S \cap Before[InOrder(S, Before)[k]]) = k - 1
<1>1. IsFiniteSet(S) /\ Cardinality(S) \in Nat
  BY ScanAssumption, FS_Subset, FS_CardinalityType
<1>2. \A x \in S : \E i \in DOMAIN ScanOrder : x = ScanOrder[i]
  BY ScanIndices
<1>3. \A x, y \in S : x # y => x \in Before[y] \/ y \in Before[x]
  <2> SUFFICES ASSUME NEW x \in S, NEW y \in S, x # y
               PROVE  x \in Before[y] \/ y \in Before[x]
    OBVIOUS
  <2>1. PICK i \in DOMAIN ScanOrder : x = ScanOrder[i]
    BY <1>2
  <2>2. PICK j \in DOMAIN ScanOrder : y = ScanOrder[j]
    BY <1>2
  <2>3. i < j \/ j < i
    BY <2>1, <2>2, ScanIndices
  <2> QED BY <2>1, <2>2, <2>3, ScanIndices
<1>4. \A x \in S : x \notin Before[x]
  BY <1>2, ScanIndices
<1>5. \A x, y \in S : y \in Before[x] => S \cap Before[y] \subseteq Before[x]
  <2> SUFFICES ASSUME NEW x \in S, NEW y \in S, y \in Before[x],
                      NEW z \in S, z \in Before[y]
               PROVE  z \in Before[x]
    OBVIOUS
  <2>1. PICK i \in DOMAIN ScanOrder : x = ScanOrder[i]
    BY <1>2
  <2>2. PICK j \in DOMAIN ScanOrder : y = ScanOrder[j]
    BY <1>2
  <2>3. PICK k \in DOMAIN ScanOrder : z = ScanOrder[k]
    BY <1>2
  <2>4. k < j /\ j < i
    BY <2>1, <2>2, <2>3, ScanIndices
  <2>5. k < i
    BY <2>4, ScanIndices
  <2> QED BY <2>1, <2>3, <2>5, ScanIndices
<1> QED BY <1>1, <1>3, <1>4, <1>5, InOrderLists

LEMMA FirstIsThere ==
  ASSUME NEW S \in SUBSET Blocks, S # {}
  PROVE  FirstOf(S) \in S /\ Before[FirstOf(S)] \cap S = {}
<1>1. Cardinality(S) \in Nat /\ Cardinality(S) # 0 /\ IsFiniteSet(S)
  BY BlocksInOrder, FS_EmptySet
<1>2. PICK b \in S : Cardinality(S \cap Before[b]) = 0
  <2>1. 1 \in 1 .. Cardinality(S)
    BY <1>1
  <2> QED BY <2>1, BlocksInOrder
<1>3. Before[b] \cap S = {}
  <2>1. IsFiniteSet(S \cap Before[b])
    BY <1>1, FS_Subset
  <2> QED BY <1>2, <2>1, FS_EmptySet
<1> QED BY <1>3 DEF FirstOf

LEMMA MinDistType ==
  ASSUME NEW S \in SUBSET Blocks, S # {}
  PROVE  MinDist(S) \in 0 .. full_d_max
<1> DEFINE first == FirstOf(S)
<1>1. first \in S /\ Before[first] \cap S = {}
  BY FirstIsThere
<1>2. PICK i \in DOMAIN ScanOrder : first = ScanOrder[i]
  BY <1>1, ScanIndices
<1>3. ASSUME NEW b \in S PROVE Dist[first] <= Dist[b]
  <2>1. PICK j \in DOMAIN ScanOrder : b = ScanOrder[j]
    BY ScanIndices
  <2>2. ~(j < i)
    BY <1>1, <1>2, <2>1, ScanIndices
  <2>3. i = j \/ i < j
    BY <2>2, ScanIndices
  <2>4. Dist[b] \in 0 .. full_d_max
    BY ScanAssumption
  <2> QED BY <1>2, <2>1, <2>3, <2>4, ScanAssumption
<1>4. Dist[first] \in {Dist[b] : b \in S} /\ \A b \in S : Dist[first] <= Dist[b]
  BY <1>1, <1>3
<1>5. MinDist(S) \in {Dist[b] : b \in S}
  <2> HIDE DEF first
  <2> QED BY <1>4 DEF MinDist
<1> QED BY <1>5, ScanAssumption

LEMMA MinOfNats ==
  ASSUME NEW S \in SUBSET Nat, S # {}
  PROVE  Min(S) \in S /\ \A y \in S : Min(S) <= y
<1> DEFINE Less == {pair \in Nat \X Nat : pair[1] < pair[2]}
<1>1. OpToRel(<, Nat) = Less
  BY DEF OpToRel
<1>2. IsWellFoundedOn(Less, Nat)
  BY <1>1, NatLessThanWellFounded
<1>3. \A x, y \in Nat : <<y, x>> \notin Less => x <= y
  <2>1. SUFFICES ASSUME NEW x \in Nat, NEW y \in Nat, y < x PROVE <<y, x>> \in Less
    OBVIOUS
  <2>2. <<y, x>> \in Nat \X Nat /\ <<y, x>>[1] = y /\ <<y, x>>[2] = x
    OBVIOUS
  <2> QED BY <2>1, <2>2
<1> HIDE DEF Less
<1>4. PICK x \in S : \A y \in S : <<y, x>> \notin Less
  BY <1>2, WFMin
<1>5. \A y \in S : x <= y
  BY <1>3, <1>4
<1> QED BY <1>5 DEF Min

LEMMA ScanWindow ==
  ASSUME TypeOK
  PROVE  /\ d_start \in 0 .. full_d_max /\ d_max \in d_start .. full_d_max
         /\ d_max # full_d_max => d_max + 1 \in 0 .. full_d_max
<1>1. remote.nearest \in 0 .. full_d_max /\ remote.modified \in SUBSET Blocks
  BY DEF TypeOK
<1>2. d_start \in 0 .. full_d_max
  <2> DEFINE S == {remote.nearest} \cup {CenterDist[b] : b \in remote.modified}
  <2>1. S \in SUBSET Nat /\ remote.nearest \in S
    BY <1>1, Limits, ScanAssumption
  <2>2. Min(S) \in Nat /\ Min(S) <= remote.nearest
    BY <2>1, MinOfNats
  <2>3. d_start = 0 \/ d_start = Min(S)
    BY DEF d_start
  <2> HIDE DEF S
  <2> QED BY <1>1, <2>2, <2>3, Limits
<1> QED BY <1>2, Limits DEF d_max

LEMMA ScanSets ==
  ASSUME TypeOK
  PROVE  /\ Chosen \in SUBSET Blocks /\ Enqueued \in SUBSET Blocks /\ Stops \in SUBSET Blocks
         /\ ToSend \in SUBSET Chosen
         /\ Chosen \subseteq loaded
         /\ Chosen \cap remote.sending = {} /\ Chosen \cap remote.sent = {}
BY DEF Chosen, Enqueued, Stops, ToSend, Choosable, Emergeable, Visited, Window, Wanted

LEMMA NearestType ==
  ASSUME TypeOK
  PROVE  new_nearest_unsent_d \in 0 .. full_d_max
<1>1. Enqueued # {} => MinDist(Enqueued) \in 0 .. full_d_max
  BY ScanSets, MinDistType
<1>2. Chosen # {} => MinDist(Chosen) \in 0 .. full_d_max
  BY ScanSets, MinDistType
<1>3. Stops # {} => Dist[FirstOf(Stops)] \in 0 .. full_d_max
  <2>1. Stops # {} => FirstOf(Stops) \in Blocks
    BY ScanSets, FirstIsThere
  <2> QED BY <2>1, ScanAssumption
<1>4. Stops = {} /\ ~ScanCompleted => d_max + 1 \in 0 .. full_d_max
  BY ScanWindow DEF ScanCompleted
<1>5. 0 \in 0 .. full_d_max
  BY Limits
<1> QED BY <1>1, <1>2, <1>3, <1>4, <1>5 DEF new_nearest_unsent_d

\* Each chosen block found a slot that was still free.
LEMMA ChosenFit ==
  ASSUME TypeOK
  PROVE  /\ IsFiniteSet(remote.sending \cup ToSend)
         /\ Cardinality(remote.sending \cup ToSend) <= m_max_simul_sends
<1> DEFINE n == Cardinality(Chosen)
<1>1. Chosen \in SUBSET Blocks /\ ToSend \in SUBSET Chosen /\ remote.sending \in SUBSET Blocks
  BY ScanSets DEF TypeOK
<1>2. /\ IsFiniteSet(Chosen) /\ n \in Nat
      /\ IsFiniteSet(remote.sending) /\ Cardinality(remote.sending) \in Nat
  BY <1>1, BlocksInOrder
<1>3. Cardinality(remote.sending) + n <= m_max_simul_sends
  <2>1. CASE n = 0
    BY <2>1, <1>2, Limits DEF TypeOK
  <2>2. CASE n # 0
    <3>1. n \in 1 .. n
      BY <2>2, <1>2
    <3>2. PICK b \in Chosen : Cardinality(Chosen \cap Before[b]) = n - 1
      BY <3>1, <1>1, BlocksInOrder
    <3>3. b \in Window /\ b \notin Stops
      BY <3>2 DEF Chosen, Choosable, Visited
    <3>4. ~SendsFull(b)
      BY <3>3 DEF Stops
    <3>5. Chosen \cap Before[b] \subseteq Choosable(WindowBefore(b))
      BY DEF Chosen, Choosable, Visited, WindowBefore
    <3>6. Choosable(WindowBefore(b)) \in SUBSET Blocks
      BY DEF Choosable, WindowBefore, Window
    <3>7. /\ IsFiniteSet(Choosable(WindowBefore(b)))
          /\ Cardinality(Choosable(WindowBefore(b))) \in Nat
      BY <3>6, BlocksInOrder
    <3>8. n - 1 <= Cardinality(Choosable(WindowBefore(b)))
      BY <3>2, <3>5, <3>7, FS_Subset
    <3>9. Cardinality(remote.sending) + Cardinality(Choosable(WindowBefore(b)))
            < m_max_simul_sends
      BY <3>4, <3>7, <1>2, Limits DEF SendsFull
    <3> QED BY <3>7, <3>8, <3>9, <1>2, Limits
  <2> QED BY <2>1, <2>2
<1>4. /\ IsFiniteSet(remote.sending \cup Chosen)
      /\ Cardinality(remote.sending \cup Chosen) <= Cardinality(remote.sending) + n
  <2>1. IsFiniteSet(remote.sending \cup Chosen)
    BY <1>2, FS_Union
  <2>2. Cardinality(remote.sending \cup Chosen)
          = Cardinality(remote.sending) + n - Cardinality(remote.sending \cap Chosen)
    BY <1>2, FS_Union
  <2>3. remote.sending \cap Chosen = {}
    BY ScanSets
  <2>4. Cardinality(remote.sending \cap Chosen) = 0
    BY <2>3, FS_EmptySet
  <2> QED BY <2>1, <2>2, <2>4, <1>2
<1>5. remote.sending \cup ToSend \in SUBSET (remote.sending \cup Chosen)
  BY <1>1
<1>6. /\ IsFiniteSet(remote.sending \cup ToSend)
      /\ Cardinality(remote.sending \cup ToSend) <= Cardinality(remote.sending \cup Chosen)
  BY <1>4, <1>5, FS_Subset
<1>7. /\ Cardinality(remote.sending \cup ToSend) \in Nat
      /\ Cardinality(remote.sending \cup Chosen) \in Nat
  BY <1>4, <1>6, FS_CardinalityType
<1> QED BY <1>2, <1>3, <1>4, <1>6, <1>7, Limits

-----------------------------------------------------------------------------
(* The RemoteClient's sets *)

Remotes == [sending : SUBSET Blocks, sent : SUBSET Blocks, modified : SUBSET Blocks,
            nearest : 0 .. full_d_max, pausing : BOOLEAN]
DownEdits == [block : Blocks, edit : Edits]
Copies == [block : Blocks, contents : SUBSET Edits]
Ups == [type : {"GOTBLOCKS", "DELETEDBLOCKS"}, block : Blocks]

RemoteOK(c) ==
  /\ c \in Remotes /\ c.sending \cap c.sent = {}
  /\ Cardinality(c.sending) <= m_max_simul_sends

LEMMA NotSentFields ==
  ASSUME NEW c \in Remotes, NEW bs \in SUBSET Blocks
  PROVE  /\ SetBlocksNotSent(c, bs) \in Remotes
         /\ SetBlocksNotSent(c, bs).sending = c.sending \ bs
         /\ SetBlocksNotSent(c, bs).sent = c.sent \ bs
BY DEF SetBlocksNotSent, Remotes

LEMMA GotBlockFields ==
  ASSUME NEW c \in Remotes, NEW b \in Blocks
  PROVE  /\ GotBlock(c, b) \in Remotes
         /\ GotBlock(c, b).sending = c.sending \ {b}
         /\ GotBlock(c, b).sent = IF b \in c.sending THEN c.sent \cup {b} ELSE c.sent
BY DEF GotBlock, Remotes

\* Blocks go from sending to sent or away, one by one or many.
LEMMA RemoteStaysOK ==
  ASSUME NEW c, RemoteOK(c), NEW d \in Remotes,
         d.sending \subseteq c.sending, d.sent \cap d.sending = {}
  PROVE  RemoteOK(d)
<1>1. /\ c.sending \in SUBSET Blocks /\ d.sending \in SUBSET Blocks
      /\ Cardinality(c.sending) <= m_max_simul_sends
  BY DEF RemoteOK, Remotes
<1>2. IsFiniteSet(c.sending) /\ Cardinality(c.sending) \in Nat /\ Cardinality(d.sending) \in Nat
  BY <1>1, BlocksInOrder
<1>3. Cardinality(d.sending) <= Cardinality(c.sending)
  BY <1>2, FS_Subset
<1> QED BY <1>1, <1>2, <1>3, Limits DEF RemoteOK

LEMMA NotSentOK ==
  ASSUME NEW c, RemoteOK(c), NEW bs \in SUBSET Blocks
  PROVE  RemoteOK(SetBlocksNotSent(c, bs))
BY NotSentFields, RemoteStaysOK DEF RemoteOK

LEMMA GotBlockOK ==
  ASSUME NEW c, RemoteOK(c), NEW b \in Blocks
  PROVE  RemoteOK(GotBlock(c, b))
<1>1. c \in Remotes /\ c.sending \cap c.sent = {}
  BY DEF RemoteOK
<1>2. /\ GotBlock(c, b) \in Remotes /\ GotBlock(c, b).sending \subseteq c.sending
      /\ GotBlock(c, b).sent \cap GotBlock(c, b).sending = {}
  <2> DEFINE d == GotBlock(c, b)
  <2>1. /\ d \in Remotes /\ d.sending = c.sending \ {b}
        /\ d.sent = IF b \in c.sending THEN c.sent \cup {b} ELSE c.sent
    BY <1>1, GotBlockFields
  <2> HIDE DEF d
  <2>2. d.sent \cap d.sending = {}
    BY <1>1, <2>1
  <2> QED BY <2>1, <2>2 DEF d
<1> QED BY <1>2, RemoteStaysOK

LEMMA ResendFields ==
  ASSUME NEW c, RemoteOK(c), NEW b \in Blocks
  PROVE  /\ RemoteOK(ResendBlockIfOnWire(c, b))
         /\ ResendBlockIfOnWire(c, b).sending = c.sending \ {b}
         /\ ResendBlockIfOnWire(c, b).sent = c.sent
<1>1. {b} \in SUBSET Blocks /\ c \in Remotes /\ c.sending \cap c.sent = {}
  BY DEF RemoteOK
<1>2. CASE b \in c.sending
  <2>1. ResendBlockIfOnWire(c, b) = SetBlocksNotSent(c, {b})
    BY <1>2 DEF ResendBlockIfOnWire
  <2>2. RemoteOK(SetBlocksNotSent(c, {b}))
    BY <1>1, NotSentOK
  <2>3. /\ SetBlocksNotSent(c, {b}).sending = c.sending \ {b}
        /\ SetBlocksNotSent(c, {b}).sent = c.sent \ {b}
    BY <1>1, NotSentFields
  <2>4. c.sent \ {b} = c.sent
    BY <1>1, <1>2
  <2> QED BY <2>1, <2>2, <2>3, <2>4
<1>3. CASE b \notin c.sending
  <2>1. ResendBlockIfOnWire(c, b) = c
    BY <1>3 DEF ResendBlockIfOnWire
  <2> QED BY <1>3, <2>1
<1> QED BY <1>2, <1>3

-----------------------------------------------------------------------------
(* Types.  That only real edits are sent one by one takes that the queue's *)
(* events tell of edits that were made, each of one block.                 *)

EditsInv ==
  /\ \A m \in ToSet(down0) : m.edit \in map[m.block]
  /\ \A e \in ToSet(m_unsent_map_edit_queue) :
       e.type # "other" => \E b \in Blocks : e.blocks = {b} /\ e.edit \in map[b]

Types == TypeOK /\ EditsInv

LEMMA TypesParts ==
  ASSUME TypeOK
  PROVE  /\ map \in [Blocks -> SUBSET Edits] /\ RemoteOK(remote) /\ remote \in Remotes
         /\ m_unsent_map_edit_queue \in Seq(MapEditEvents)
         /\ down0 \in Seq(DownEdits) /\ down2 \in Seq(Copies)
         /\ up0 \in Seq(Interactions) /\ up2 \in Seq(Ups)
         /\ client \in [Blocks -> (SUBSET Edits) \cup {NoBlock}]
         /\ acks \in [Blocks -> Nat]
         /\ loaded \subseteq Blocks /\ emerging \subseteq Blocks
         /\ mistaken \subseteq Blocks /\ unreverted \subseteq Blocks
         /\ edits \in 0 .. MaxEdits /\ events \in 0 .. MaxEvents
BY DEF TypeOK, RemoteOK, Remotes, DownEdits, Copies, Ups

LEMMA TypesFromParts ==
  ASSUME map' \in [Blocks -> SUBSET Edits], RemoteOK(remote'),
         loaded' \subseteq Blocks, emerging' \subseteq Blocks,
         m_unsent_map_edit_queue' \in Seq(MapEditEvents),
         down0' \in Seq(DownEdits), down2' \in Seq(Copies),
         up0' \in Seq(Interactions), up2' \in Seq(Ups),
         client' \in [Blocks -> (SUBSET Edits) \cup {NoBlock}],
         acks' \in [Blocks -> Nat],
         edits' \in 0 .. MaxEdits, events' \in 0 .. MaxEvents,
         mistaken' \subseteq Blocks, unreverted' \subseteq Blocks
  PROVE  TypeOK'
BY DEF TypeOK, RemoteOK, Remotes, DownEdits, Copies, Ups

\* What the client is given for one of its blocks.
LEMMA ClientStores ==
  ASSUME TypeOK, NEW b \in Blocks, NEW es \in (SUBSET Edits) \cup {NoBlock},
         client' = [client EXCEPT ![b] = es]
  PROVE  /\ client' \in [Blocks -> (SUBSET Edits) \cup {NoBlock}]
         /\ client'[b] = es /\ \A c \in Blocks \ {b} : client'[c] = client[c]
<1>1. client \in [Blocks -> (SUBSET Edits) \cup {NoBlock}]
  BY TypesParts
<1> QED BY <1>1

LEMMA ClientContents ==
  ASSUME TypeOK, NEW b \in Blocks, client[b] # NoBlock
  PROVE  client[b] \in SUBSET Edits
<1>1. client \in [Blocks -> (SUBSET Edits) \cup {NoBlock}]
  BY TypesParts
<1>2. client[b] \in (SUBSET Edits) \cup {NoBlock}
  BY <1>1
<1> QED BY <1>2

\* What a run over the queue of map edits sends, and which blocks stay sent.
LEMMA MapEditsSent ==
  ASSUME Types, NEW near \in SUBSET DOMAIN m_unsent_map_edit_queue, SendMapEdits(near)
  PROVE  /\ down0' \in Seq(DownEdits) /\ RemoteOK(remote')
         /\ ToSet(down0) \subseteq ToSet(down0')
         /\ \A m \in ToSet(down0') : m.edit \in map[m.block]
         /\ remote'.sending \subseteq remote.sending /\ remote'.sent \subseteq remote.sent
         /\ \A b \in remote'.sending \cup remote'.sent, e \in ToSet(m_unsent_map_edit_queue) :
              b \in e.blocks => /\ [block |-> b, edit |-> e.edit] \in ToSet(down0')
                                /\ b \notin remote'.sending
<1> DEFINE queue == m_unsent_map_edit_queue
           singly == {i \in DOMAIN queue : SentSingly(near, i)}
           Nodes == {i \in singly : queue[i].type = "node"}
           Metas == {i \in singly : queue[i].type = "meta"}
           before == [i \in DOMAIN queue |-> 1 .. i - 1]
           out == InOrder(Nodes, before) \o InOrder(Metas, before)
           Packet(i) == [block |-> CHOOSE b \in queue[i].blocks : TRUE,
                         edit |-> queue[i].edit]
           new == [k \in DOMAIN out |-> Packet(out[k])]
<1>1. /\ queue \in Seq(MapEditEvents) /\ Len(queue) \in Nat
      /\ DOMAIN queue = 1 .. Len(queue)
      /\ down0 \in Seq(DownEdits) /\ remote \in Remotes /\ RemoteOK(remote)
      /\ map \in [Blocks -> SUBSET Edits]
  BY TypesParts, LenProperties DEF Types
<1>2. \A i \in DOMAIN queue : queue[i] \in MapEditEvents /\ queue[i] \in ToSet(queue)
  BY <1>1, ElementOfSeq DEF ToSet
<1>3. /\ down0' = down0 \o new
      /\ remote' = IF singly = DOMAIN queue THEN remote
                   ELSE SetBlocksNotSent(remote,
                          UNION {queue[i].blocks : i \in DOMAIN queue \ singly})
  BY DEF SendMapEdits
<1>4. ASSUME NEW S \in SUBSET (1 .. Len(queue))
      PROVE  InOrder(S, before) \in Seq(S) /\ ToSet(InOrder(S, before)) = S
  <2>1. IsFiniteSet(S)
    <3>1. IsFiniteSet(1 .. Len(queue))
      BY <1>1, FS_Interval
    <3> QED BY <3>1, FS_Subset
  <2>2. \A x, y \in S : x # y => x \in before[y] \/ y \in before[x]
    BY <1>1
  <2>3. \A x \in S : x \notin before[x]
    BY <1>1
  <2>4. \A x, y \in S : y \in before[x] => S \cap before[y] \subseteq before[x]
    BY <1>1
  <2> QED BY <2>1, <2>2, <2>3, <2>4, InOrderLists
<1>5. out \in Seq(1 .. Len(queue)) /\ ToSet(out) = Nodes \cup Metas
  <2>1. Nodes \in SUBSET (1 .. Len(queue)) /\ Metas \in SUBSET (1 .. Len(queue))
    BY <1>1
  <2>2. /\ InOrder(Nodes, before) \in Seq(1 .. Len(queue))
        /\ InOrder(Metas, before) \in Seq(1 .. Len(queue))
        /\ ToSet(InOrder(Nodes, before)) = Nodes /\ ToSet(InOrder(Metas, before)) = Metas
    BY <2>1, <1>4, SeqMonotonic
  <2> DEFINE ns == InOrder(Nodes, before)
             ms == InOrder(Metas, before)
  <2>3. ns \in Seq(1 .. Len(queue)) /\ ms \in Seq(1 .. Len(queue))
    BY <2>2
  <2>4. out = ns \o ms /\ ToSet(ns) = Nodes /\ ToSet(ms) = Metas
    BY <2>2
  <2> HIDE DEF ns, ms, out, Nodes, Metas
  <2> QED BY <2>3, <2>4, ConcatSet
<1>6. ASSUME NEW i \in Nodes \cup Metas
      PROVE  /\ Packet(i) \in DownEdits /\ Packet(i).edit \in map[Packet(i).block]
             /\ queue[i].blocks = {Packet(i).block} /\ Packet(i).edit = queue[i].edit
  <2>1. queue[i] \in ToSet(queue) /\ queue[i].type # "other"
    BY <1>2
  <2>2. PICK b \in Blocks : queue[i].blocks = {b} /\ queue[i].edit \in map[b]
    BY <2>1 DEF Types, EditsInv
  <2>3. Packet(i) = [block |-> b, edit |-> queue[i].edit]
    BY <2>2
  <2> HIDE DEF Packet
  <2> QED BY <2>2, <2>3, <1>1 DEF DownEdits
<1>7. new \in Seq(DownEdits) /\ ToSet(new) = {Packet(i) : i \in Nodes \cup Metas}
  <2>1. /\ DOMAIN out = 1 .. Len(out) /\ Len(out) \in Nat
        /\ \A k \in 1 .. Len(out) : out[k] \in ToSet(out)
        /\ \A i \in ToSet(out) : \E k \in 1 .. Len(out) : i = out[k]
    BY <1>5, LenProperties DEF ToSet
  <2> HIDE DEF out, Packet
  <2>2. new \in [1 .. Len(out) -> DownEdits]
    BY <2>1, <1>5, <1>6
  <2>3. new \in Seq(DownEdits) /\ DOMAIN new = 1 .. Len(out)
    BY <2>1, <2>2
  <2>4. ToSet(new) = {Packet(out[k]) : k \in 1 .. Len(out)}
    BY <2>1, <2>3 DEF ToSet
  <2>5. \A k \in 1 .. Len(out) : Packet(out[k]) \in {Packet(i) : i \in Nodes \cup Metas}
    BY <2>1, <1>5
  <2>6. \A i \in Nodes \cup Metas : Packet(i) \in {Packet(out[k]) : k \in 1 .. Len(out)}
    <3> SUFFICES ASSUME NEW i \in Nodes \cup Metas
                 PROVE  \E k \in 1 .. Len(out) : Packet(i) = Packet(out[k])
      OBVIOUS
    <3>1. PICK k \in 1 .. Len(out) : i = out[k]
      BY <2>1, <1>5
    <3> QED BY <3>1
  <2> QED BY <2>3, <2>4, <2>5, <2>6
<1>8. down0' \in Seq(DownEdits) /\ ToSet(down0') = ToSet(down0) \cup ToSet(new)
  <2> HIDE DEF new
  <2> QED BY <1>1, <1>3, <1>7, ConcatSet
<1>9. \A m \in ToSet(down0') : m.edit \in map[m.block]
  <2> HIDE DEF new, Packet
  <2> QED BY <1>6, <1>7, <1>8 DEF Types, EditsInv
<1>10. UNION {queue[i].blocks : i \in DOMAIN queue \ singly} \in SUBSET Blocks
  BY <1>2 DEF MapEditEvents
<1>11. /\ RemoteOK(remote')
       /\ remote'.sending \subseteq remote.sending /\ remote'.sent \subseteq remote.sent
  <2> DEFINE stale == UNION {queue[i].blocks : i \in DOMAIN queue \ singly}
  <2>1. stale \in SUBSET Blocks
    BY <1>10
  <2>2. remote' = remote \/ remote' = SetBlocksNotSent(remote, stale)
    BY <1>3
  <2> HIDE DEF stale
  <2> QED BY <1>1, <2>1, <2>2, NotSentFields, NotSentOK
<1>12. ASSUME NEW b \in remote'.sending \cup remote'.sent, NEW e \in ToSet(queue), b \in e.blocks
       PROVE  [block |-> b, edit |-> e.edit] \in ToSet(down0') /\ b \notin remote'.sending
  <2>1. PICK i \in DOMAIN queue : e = queue[i]
    BY DEF ToSet
  <2>2. i \in singly
    <3> SUFFICES ASSUME i \notin singly PROVE FALSE
      OBVIOUS
    <3>1. b \in UNION {queue[j].blocks : j \in DOMAIN queue \ singly}
      BY <2>1, <1>12
    <3>2. remote' = SetBlocksNotSent(remote,
                      UNION {queue[j].blocks : j \in DOMAIN queue \ singly})
      BY <1>3
    <3> HIDE DEF singly
    <3> QED BY <3>1, <3>2, <1>1, <1>10, <1>12, NotSentFields
  <2>3. queue[i].type \in {"node", "meta"} /\ b \in remote.sent
    BY <2>1, <2>2, <1>2, <1>12 DEF SentSingly, StaysSent, MapEditEvents
  <2>4. i \in Nodes \cup Metas
    BY <2>2, <2>3
  <2>5. Packet(i) \in ToSet(down0') /\ queue[i].blocks = {Packet(i).block}
    BY <2>4, <1>6, <1>7, <1>8
  <2>6. Packet(i) = [block |-> b, edit |-> e.edit]
    BY <2>1, <2>5, <1>12
  <2>7. b \notin remote.sending
    BY <2>3, <1>1 DEF RemoteOK
  <2> QED BY <2>5, <2>6, <2>7, <1>11
<1> QED BY <1>8, <1>9, <1>11, <1>12

\* What one call of SendBlocks sends.
LEMMA BlocksSent ==
  ASSUME TypeOK, SendBlocks
  PROVE  \E new \in Seq(Copies) :
           /\ down2' = down2 \o new
           /\ \A m \in ToSet(new) : m.block \in ToSend /\ m.contents = map[m.block]
           /\ \A b \in ToSend : \E m \in ToSet(new) : m.block = b
<1> DEFINE out == InOrder(ToSend, Before)
           Copy(b) == [block |-> b, contents |-> map[b]]
           new == [i \in DOMAIN out |-> Copy(out[i])]
<1>1. ToSend \in SUBSET Blocks
  BY ScanSets
<1>2. out \in Seq(ToSend) /\ ToSet(out) = ToSend
  BY <1>1, BlocksInOrder
<1>3. DOMAIN out = 1 .. Len(out) /\ Len(out) \in Nat
  BY <1>2, LenProperties
<1>4. \A i \in 1 .. Len(out) : out[i] \in ToSend
  BY <1>2, ElementOfSeq
<1>5. \A b \in ToSend : \E i \in 1 .. Len(out) : b = out[i]
  BY <1>2, <1>3 DEF ToSet
<1>6. \A b \in ToSend : Copy(b) \in Copies /\ Copy(b).block = b /\ Copy(b).contents = map[b]
  BY <1>1 DEF Copies, TypeOK
<1>7. down2' = down2 \o new
  BY Zenon DEF SendBlocks
<1> HIDE DEF out, Copy
<1>8. new \in [1 .. Len(out) -> Copies]
  BY <1>3, <1>4, <1>6
<1>9. new \in Seq(Copies) /\ DOMAIN new = 1 .. Len(out)
  BY <1>3, <1>8
<1>10. \A m \in ToSet(new) : m.block \in ToSend /\ m.contents = map[m.block]
  <2> SUFFICES ASSUME NEW i \in 1 .. Len(out)
               PROVE  new[i].block \in ToSend /\ new[i].contents = map[new[i].block]
    BY <1>9 DEF ToSet
  <2>1. new[i] = Copy(out[i])
    BY <1>3
  <2> QED BY <2>1, <1>4, <1>6
<1>11. \A b \in ToSend : \E m \in ToSet(new) : m.block = b
  <2> SUFFICES ASSUME NEW b \in ToSend PROVE \E m \in ToSet(new) : m.block = b
    OBVIOUS
  <2>1. PICK i \in 1 .. Len(out) : b = out[i]
    BY <1>5
  <2>2. new[i] = Copy(b) /\ new[i] \in ToSet(new)
    BY <2>1, <1>3, <1>9 DEF ToSet
  <2> QED BY <2>2, <1>6
<1> HIDE DEF new
<1> QED BY <1>7, <1>9, <1>10, <1>11

\* The map only gains edits, and nothing new is queued or on its way down.
LEMMA EditsFrame ==
  ASSUME EditsInv, \A b \in Blocks : map[b] \subseteq map'[b],
         TypeOK, ToSet(down0') \subseteq ToSet(down0),
         ToSet(m_unsent_map_edit_queue') \subseteq ToSet(m_unsent_map_edit_queue)
  PROVE  EditsInv'
<1>1. \A m \in ToSet(down0) : m.block \in Blocks
  <2>1. ToSet(down0) \subseteq DownEdits
    BY TypesParts, MembersTyped
  <2> QED BY <2>1 DEF DownEdits
<1> QED BY <1>1 DEF EditsInv

\* One more event in the queue.
LEMMA EditsAppend ==
  ASSUME EditsInv, TypeOK, \A b \in Blocks : map[b] \subseteq map'[b],
         UNCHANGED down0, NEW e \in MapEditEvents,
         m_unsent_map_edit_queue' = Append(m_unsent_map_edit_queue, e),
         e.type # "other" => \E b \in Blocks : e.blocks = {b} /\ e.edit \in map'[b]
  PROVE  EditsInv' /\ m_unsent_map_edit_queue' \in Seq(MapEditEvents)
<1>1. m_unsent_map_edit_queue \in Seq(MapEditEvents) /\ down0 \in Seq(DownEdits)
  BY TypesParts
<1>2. /\ m_unsent_map_edit_queue' \in Seq(MapEditEvents)
      /\ ToSet(m_unsent_map_edit_queue') = ToSet(m_unsent_map_edit_queue) \cup {e}
  BY <1>1, AppendSet
<1>3. \A m \in ToSet(down0) : m.block \in Blocks
  <2>1. ToSet(down0) \subseteq DownEdits
    BY <1>1, MembersTyped
  <2> QED BY <2>1 DEF DownEdits
<1> QED BY <1>2, <1>3 DEF EditsInv

\* An edit and its event.
LEMMA EditedTypes ==
  ASSUME Types, NEW type \in {"node", "meta", "other"}, NEW e \in Edits,
         NEW bs \in SUBSET Blocks, type # "other" => \E b \in Blocks : bs = {b},
         Edited(type, e, bs), UNCHANGED down0
  PROVE  /\ map' \in [Blocks -> SUBSET Edits] /\ EditsInv'
         /\ m_unsent_map_edit_queue' \in Seq(MapEditEvents)
         /\ \A b \in Blocks : map'[b] = IF b \in bs THEN map[b] \cup {e} ELSE map[b]
         /\ ToSet(m_unsent_map_edit_queue')
              = ToSet(m_unsent_map_edit_queue) \cup {[type |-> type, edit |-> e, blocks |-> bs]}
<1> DEFINE event == [type |-> type, edit |-> e, blocks |-> bs]
<1>1. event \in MapEditEvents
  BY Limits DEF MapEditEvents, Edits
<1>2. /\ map' = [b \in Blocks |-> IF b \in bs THEN map[b] \cup {e} ELSE map[b]]
      /\ m_unsent_map_edit_queue' = Append(m_unsent_map_edit_queue, event)
  BY DEF Edited
<1>3. map \in [Blocks -> SUBSET Edits] /\ m_unsent_map_edit_queue \in Seq(MapEditEvents)
  BY TypesParts DEF Types
<1>4. \A b \in Blocks : map'[b] = IF b \in bs THEN map[b] \cup {e} ELSE map[b]
  BY <1>2
<1>5. map' \in [Blocks -> SUBSET Edits]
  BY <1>2, <1>3
<1>6. event.type # "other" => \E b \in Blocks : event.blocks = {b} /\ event.edit \in map'[b]
  BY <1>4
<1>7. EditsInv' /\ m_unsent_map_edit_queue' \in Seq(MapEditEvents)
  BY <1>1, <1>2, <1>4, <1>6, EditsAppend DEF Types
<1>8. ToSet(m_unsent_map_edit_queue') = ToSet(m_unsent_map_edit_queue) \cup {event}
  <2> HIDE DEF event
  <2> QED BY <1>1, <1>2, <1>3, AppendSet
<1> QED BY <1>4, <1>5, <1>7, <1>8

LEMMA OneMoreEvent ==
  ASSUME TypeOK, events < MaxEvents, events' = events + 1
  PROVE  events' \in 0 .. MaxEvents
BY TypesParts, Limits

LEMMA OneMoreEdit ==
  ASSUME TypeOK, edits < MaxEdits, edits' = edits + 1
  PROVE  edits' \in 0 .. MaxEdits /\ edits + 1 \in Edits
BY TypesParts, Limits DEF Edits

LEMMA TypesInit == Init => Types
<1> SUFFICES ASSUME Init PROVE Types
  OBVIOUS
<1>1. RemoteOK(remote)
  <2>1. remote \in Remotes /\ remote.sending = {}
    BY Limits DEF Init, Remotes
  <2> QED BY <2>1, Limits, FS_EmptySet DEF RemoteOK
<1>2. TypeOK
  <2>1. /\ map \in [Blocks -> SUBSET Edits] /\ acks \in [Blocks -> Nat]
        /\ client \in [Blocks -> (SUBSET Edits) \cup {NoBlock}]
        /\ loaded \subseteq Blocks /\ emerging = {} /\ mistaken = {} /\ unreverted = {}
        /\ edits \in 0 .. MaxEdits /\ events \in 0 .. MaxEvents
    <3>1. /\ map = [b \in Blocks |-> {}] /\ acks = [b \in Blocks |-> 0]
          /\ client = [b \in Blocks |-> NoBlock]
          /\ loaded \in SUBSET Blocks /\ emerging = {} /\ mistaken = {} /\ unreverted = {}
          /\ edits = 0 /\ events = 0
      BY DEF Init
    <3>2. 0 \in 0 .. MaxEdits /\ 0 \in 0 .. MaxEvents
      BY Limits
    <3>3. map \in [Blocks -> SUBSET Edits] /\ acks \in [Blocks -> Nat]
      BY <3>1
    <3>4. NoBlock \in (SUBSET Edits) \cup {NoBlock}
      OBVIOUS
    <3>5. client \in [Blocks -> (SUBSET Edits) \cup {NoBlock}]
      BY <3>1, <3>4
    <3> QED BY <3>1, <3>2, <3>3, <3>5
  <2>2. /\ m_unsent_map_edit_queue = <<>> /\ down0 = <<>> /\ down2 = <<>>
        /\ up0 = <<>> /\ up2 = <<>>
    BY DEF Init
  <2> QED BY <1>1, <2>1, <2>2, EmptySeq DEF TypeOK, RemoteOK, Remotes
<1>3. EditsInv
  BY DEF Init, EditsInv, ToSet
<1> QED BY <1>2, <1>3 DEF Types

LEMMA TypesServer ==
  ASSUME Types,
         \/ SendBlocks \/ PauseEnds \/ Turn
         \/ \E b \in Blocks : SendBlock(b) \/ Unload(b) \/ EmergeCancelled(b)
         \/ \E b \in Blocks : EmergesBlock(b)
  PROVE  Types'
<1> USE DEF Types
<1>1. CASE SendBlocks
  <2>1. RemoteOK(remote')
    <3>1. /\ remote' = [remote EXCEPT
               !.sending = @ \cup ToSend, !.modified = {}, !.nearest = new_nearest_unsent_d,
               !.pausing = ScanCompleted /\ Enqueued = {}]
      BY <1>1, Zenon DEF SendBlocks
    <3>2. (ScanCompleted /\ Enqueued = {}) \in BOOLEAN
      OBVIOUS
    <3>3. /\ remote' \in Remotes
          /\ remote'.sending = remote.sending \cup ToSend /\ remote'.sent = remote.sent
      BY <3>1, <3>2, TypesParts, ScanSets, NearestType DEF Remotes
    <3>4. remote.sending \cap remote.sent = {} /\ ToSend \cap remote.sent = {}
      BY TypesParts, ScanSets DEF RemoteOK
    <3> QED BY <3>3, <3>4, ChosenFit DEF RemoteOK
  <2>2. down2' \in Seq(Copies)
    <3>1. PICK new \in Seq(Copies) : down2' = down2 \o new
      BY <1>1, BlocksSent
    <3>2. down2 \in Seq(Copies)
      BY TypesParts
    <3> QED BY <3>1, <3>2, ConcatSet
  <2>3. emerging' \subseteq Blocks
    BY <1>1, ScanSets DEF SendBlocks, TypeOK
  <2>4. TypeOK'
    BY <1>1, <2>1, <2>2, <2>3, TypesParts, TypesFromParts
    DEF SendBlocks, clientVars
  <2>5. EditsInv'
    BY <1>1, EditsFrame DEF SendBlocks
  <2> QED BY <2>4, <2>5
<1>2. CASE PauseEnds
  <2>1. RemoteOK(remote')
    BY <1>2, TypesParts DEF PauseEnds, RemoteOK, Remotes
  <2>2. TypeOK'
    BY <1>2, <2>1, TypesParts, TypesFromParts DEF PauseEnds, clientVars, netVars
  <2> QED BY <1>2, <2>2, EditsFrame DEF PauseEnds, netVars
<1>3. CASE Turn
  <2>1. RemoteOK(remote')
    <3>1. 0 \in 0 .. full_d_max /\ remote' = [remote EXCEPT !.nearest = 0]
      BY <1>3, Limits DEF Turn
    <3> QED BY <3>1, TypesParts DEF RemoteOK, Remotes
  <2>2. TypeOK'
    <3>1. events' \in 0 .. MaxEvents
      BY <1>3, OneMoreEvent DEF Turn
    <3> QED BY <1>3, <2>1, <3>1, TypesParts, TypesFromParts DEF Turn, clientVars, netVars
  <2> QED BY <1>3, <2>2, EditsFrame DEF Turn, netVars
<1>4. ASSUME NEW b \in Blocks, SendBlock(b) PROVE Types'
  <2>1. [block |-> b, contents |-> map[b]] \in Copies
    BY TypesParts DEF Copies
  <2>2. down2' \in Seq(Copies)
    BY <1>4, <2>1, TypesParts, AppendSet DEF SendBlock
  <2>3. TypeOK'
    <3>1. events' \in 0 .. MaxEvents
      BY <1>4, OneMoreEvent DEF SendBlock
    <3> QED BY <1>4, <2>2, <3>1, TypesParts, TypesFromParts
            DEF SendBlock, clientVars, serverVars
  <2> QED BY <1>4, <2>3, EditsFrame DEF SendBlock, serverVars
<1>5. ASSUME NEW b \in Blocks, Unload(b) \/ EmergeCancelled(b) PROVE Types'
  <2>1. TypeOK'
    <3>1. events' \in 0 .. MaxEvents
      BY <1>5, OneMoreEvent DEF Unload, EmergeCancelled
    <3>2. loaded' \subseteq Blocks /\ emerging' \subseteq Blocks
      BY <1>5, TypesParts DEF Unload, EmergeCancelled
    <3> QED BY <1>5, <3>1, <3>2, TypesParts, TypesFromParts
            DEF Unload, EmergeCancelled, clientVars, netVars
  <2> QED BY <1>5, <2>1, EditsFrame DEF Unload, EmergeCancelled, netVars
<1>6. ASSUME NEW b \in Blocks, NEW generated \in BOOLEAN, Emerged(b, generated) PROVE Types'
  <2> DEFINE e == [type |-> "other", edit |-> 0, blocks |-> {b}]
  <2>1. e \in MapEditEvents /\ e.type = "other"
    BY Limits DEF MapEditEvents
  <2>2. EditsInv' /\ m_unsent_map_edit_queue' \in Seq(MapEditEvents)
        /\ events' \in 0 .. MaxEvents
    <3>1. CASE generated
      <4>1. /\ m_unsent_map_edit_queue' = Append(m_unsent_map_edit_queue, e)
            /\ events' \in 0 .. MaxEvents /\ UNCHANGED <<map, down0>>
        BY <1>6, <3>1, Limits DEF Emerged, TypeOK, netVars
      <4> HIDE DEF e
      <4> QED BY <4>1, <2>1, EditsAppend
    <3>2. CASE ~generated
      <4>1. UNCHANGED <<m_unsent_map_edit_queue, events, map, down0>>
        BY <1>6, <3>2 DEF Emerged, netVars
      <4> QED BY <4>1, EditsFrame, TypesParts DEF TypeOK
    <3> QED BY <3>1, <3>2
  <2>3. TypeOK'
    BY <1>6, <2>2, TypesParts, TypesFromParts DEF Emerged, TypeOK, clientVars, netVars
  <2> QED BY <2>2, <2>3
<1> QED BY <1>1, <1>2, <1>3, <1>4, <1>5, <1>6 DEF EmergesBlock

\* What handling an INTERACT comes to, whichever way it goes.
InteractEffect(m, done) ==
  /\ m = Head(up0) /\ up0' = Tail(up0)
  /\ up0' \in Seq(Interactions) /\ ToSet(up0) = ToSet(up0') \cup {m}
  /\ done => Edited("node", m.edit, {m.block})
  /\ ~done => UNCHANGED <<map, m_unsent_map_edit_queue>>
  /\ RemoteOK(remote')
  /\ remote'.sending \subseteq remote.sending /\ remote'.sent \subseteq remote.sent
  /\ unreverted \subseteq unreverted' /\ unreverted' \subseteq unreverted \cup {m.block}
  /\ ~done => m.block \in unreverted' \/ m.block \notin remote'.sending \cup remote'.sent
  /\ emerging' \subseteq Blocks
  /\ UNCHANGED <<loaded, down0, down2, up2, client, acks, edits, events, mistaken>>

LEMMA InteractEffects ==
  ASSUME TypeOK, Interacts
  PROVE  \E m \in Interactions, done \in BOOLEAN : InteractEffect(m, done)
<1> DEFINE m == Head(up0)
<1>1. /\ remote \in Remotes /\ RemoteOK(remote) /\ emerging \subseteq Blocks
      /\ up0 \in Seq(Interactions) /\ up0 # <<>> /\ up0' = Tail(up0)
      /\ UNCHANGED <<loaded, down0, down2, up2, client, acks, edits, events, mistaken>>
  BY TypesParts DEF Interacts, InteractDenied, Interact, clientVars
<1>2. m \in Interactions /\ up0' \in Seq(Interactions) /\ ToSet(up0) = ToSet(up0') \cup {m}
  BY <1>1, TailSet
<1>3. /\ m.block \in Blocks /\ m.under \in Blocks /\ m.above \in Blocks
      /\ m.block \in {m.under, m.above} /\ (m.action = "dig" => m.block = m.under)
  BY <1>2 DEF Interactions
<1>4. InteractDenied \/ \E done \in BOOLEAN : Interact(done)
  BY DEF Interacts
<1>5. CASE InteractDenied
  <2>1. UNCHANGED <<map, m_unsent_map_edit_queue, emerging>>
        /\ (NotInHotbar(m) \/ OutOfReach(m) \/ NoPrivilege(m))
    BY <1>5 DEF InteractDenied
  <2> HIDE DEF m
  <2>2. \E bs \in SUBSET Blocks : /\ remote' = remote \/ remote' = NotSent(bs)
                                 /\ \/ unreverted' = unreverted \cup {m.block}
                                    \/ /\ unreverted' = unreverted
                                       /\ m.block \in bs /\ remote' = NotSent(bs)
    <3>1. CASE NotInHotbar(m)
      BY <3>1 DEF NotInHotbar, Refused
    <3>2. CASE OutOfReach(m)
      <4>1. {m.under} \in SUBSET Blocks
        BY <1>3
      <4> QED BY <3>2, <4>1 DEF OutOfReach, Refused
    <3>3. CASE NoPrivilege(m)
      <4> DEFINE b == IF m.action = "dig" THEN m.under ELSE m.above
      <4>1. {b} \in SUBSET Blocks
        BY <1>3
      <4>2. remote' = NotSent({b}) /\ Refused(m, m.block # b)
        BY <3>3 DEF NoPrivilege
      <4> HIDE DEF b
      <4> QED BY <4>1, <4>2 DEF Refused
    <3> QED BY <2>1, <3>1, <3>2, <3>3
  <2>3. PICK bs \in SUBSET Blocks : /\ remote' = remote \/ remote' = NotSent(bs)
                                  /\ \/ unreverted' = unreverted \cup {m.block}
                                     \/ /\ unreverted' = unreverted
                                        /\ m.block \in bs /\ remote' = NotSent(bs)
    BY <2>2
  <2>4. /\ RemoteOK(NotSent(bs)) /\ NotSent(bs).sending = remote.sending \ bs
        /\ NotSent(bs).sent = remote.sent \ bs
    BY <1>1, NotSentFields, NotSentOK DEF NotSent
  <2>5. InteractEffect(m, FALSE)
    BY <1>1, <1>2, <2>1, <2>3, <2>4 DEF InteractEffect, m
  <2> QED BY <1>2, <2>5
<1>6. ASSUME NEW done \in BOOLEAN, Interact(done)
      PROVE  \E x \in Interactions, d \in BOOLEAN : InteractEffect(x, d)
  <2>1. PICK flag \in BOOLEAN : Dig(m, done, flag) \/ Place(m, done, flag)
    BY <1>6 DEF Interact
  <2> HIDE DEF m
  <2>2. CASE Dig(m, done, flag)
    <3>1. /\ m.action = "dig" /\ (flag => done)
          /\ remote' = IF flag THEN ResendBlockIfOnWire(remote, m.under)
                       ELSE NotSent({m.under})
          /\ unreverted' = unreverted /\ emerging' \subseteq Blocks
      BY <2>2, <1>1, <1>3 DEF Dig, Refused
    <3>2. /\ done => Edited("node", m.edit, {m.block})
          /\ ~done => UNCHANGED <<map, m_unsent_map_edit_queue>>
      BY <2>2 DEF Dig, Performs
    <3>3. {m.under} \in SUBSET Blocks
      BY <1>3
    <3>4. /\ RemoteOK(NotSent({m.under}))
          /\ NotSent({m.under}).sending = remote.sending \ {m.under}
          /\ NotSent({m.under}).sent = remote.sent \ {m.under}
      BY <1>1, <3>3, NotSentFields, NotSentOK DEF NotSent
    <3>5. /\ RemoteOK(ResendBlockIfOnWire(remote, m.under))
          /\ ResendBlockIfOnWire(remote, m.under).sending = remote.sending \ {m.under}
          /\ ResendBlockIfOnWire(remote, m.under).sent = remote.sent
      BY <1>1, <1>3, ResendFields
    <3>6. InteractEffect(m, done)
      BY <1>1, <1>2, <1>3, <3>1, <3>2, <3>4, <3>5 DEF InteractEffect, m
    <3> QED BY <1>2, <3>6
  <2>3. CASE Place(m, done, flag)
    <3> DEFINE c == ResendBlockIfOnWire(remote, m.above)
    <3>1. /\ remote' = IF flag THEN NotSent(TheirBlocks(m)) ELSE ResendBlockIfOnWire(c, m.under)
          /\ unreverted' = IF ~done /\ ~flag THEN unreverted \cup {m.block} ELSE unreverted
          /\ emerging' \subseteq Blocks
      BY <2>3, <1>1 DEF Place, Refused
    <3>2. /\ done => Edited("node", m.edit, {m.block})
          /\ ~done => UNCHANGED <<map, m_unsent_map_edit_queue>>
      BY <2>3 DEF Place, Performs
    <3>3. TheirBlocks(m) \in SUBSET Blocks /\ m.block \in TheirBlocks(m)
      BY <1>3 DEF TheirBlocks
    <3>4. /\ RemoteOK(NotSent(TheirBlocks(m)))
          /\ NotSent(TheirBlocks(m)).sending = remote.sending \ TheirBlocks(m)
          /\ NotSent(TheirBlocks(m)).sent = remote.sent \ TheirBlocks(m)
      BY <1>1, <3>3, NotSentFields, NotSentOK DEF NotSent
    <3>5. RemoteOK(c) /\ c.sending = remote.sending \ {m.above} /\ c.sent = remote.sent
      BY <1>1, <1>3, ResendFields
    <3> HIDE DEF c
    <3>6. /\ RemoteOK(ResendBlockIfOnWire(c, m.under))
          /\ ResendBlockIfOnWire(c, m.under).sending = c.sending \ {m.under}
          /\ ResendBlockIfOnWire(c, m.under).sent = c.sent
      BY <1>3, <3>5, ResendFields
    <3>7. InteractEffect(m, done)
      BY <1>1, <1>2, <1>3, <3>1, <3>2, <3>3, <3>4, <3>5, <3>6 DEF InteractEffect, m
    <3> QED BY <1>2, <3>7
  <2> QED BY <2>1, <2>2, <2>3
<1> QED BY <1>4, <1>5, <1>6

LEMMA TypesEdits ==
  ASSUME Types,
         \/ Interacts \/ SendsMapEdits
         \/ \E type \in {"node", "meta", "other"}, bs \in SUBSET Blocks : EditMap(type, bs)
  PROVE  Types'
<1>1. TypeOK /\ EditsInv
  BY DEF Types
<1>2. ASSUME NEW type \in {"node", "meta", "other"}, NEW bs \in SUBSET Blocks, EditMap(type, bs)
      PROVE  Types'
  <2>1. edits' \in 0 .. MaxEdits /\ edits + 1 \in Edits
    BY <1>1, <1>2, OneMoreEdit DEF EditMap
  <2>2. type # "other" => \E b \in Blocks : bs = {b}
    BY <1>2, BlocksInOrder, FS_Singleton DEF EditMap
  <2>3. /\ Edited(type, edits + 1, bs) /\ UNCHANGED down0
    BY <1>2 DEF EditMap, netVars
  <2>4. /\ map' \in [Blocks -> SUBSET Edits] /\ EditsInv'
        /\ m_unsent_map_edit_queue' \in Seq(MapEditEvents)
    BY <2>1, <2>2, <2>3, EditedTypes
  <2>5. TypeOK'
    BY <1>1, <1>2, <2>1, <2>4, TypesParts, TypesFromParts DEF EditMap, clientVars, netVars
  <2> QED BY <2>4, <2>5 DEF Types
<1>3. CASE Interacts
  <2>1. PICK m \in Interactions, done \in BOOLEAN : InteractEffect(m, done)
    BY <1>1, <1>3, InteractEffects
  <2>2. m.block \in Blocks /\ m.edit \in Edits /\ up0' \in Seq(Interactions)
        /\ RemoteOK(remote') /\ unreverted' \subseteq Blocks
    BY <1>1, <2>1, TypesParts DEF Interactions, InteractEffect
  <2>3. /\ map' \in [Blocks -> SUBSET Edits] /\ EditsInv'
        /\ m_unsent_map_edit_queue' \in Seq(MapEditEvents)
    <3>1. CASE done
      <4>1. Edited("node", m.edit, {m.block}) /\ UNCHANGED down0
        BY <2>1, <3>1 DEF InteractEffect
      <4>2. {m.block} \in SUBSET Blocks /\ \E b \in Blocks : {m.block} = {b}
        BY <2>2
      <4> QED BY <4>1, <4>2, <2>2, EditedTypes
    <3>2. CASE ~done
      <4>1. UNCHANGED <<map, m_unsent_map_edit_queue, down0>>
        BY <2>1, <3>2 DEF InteractEffect
      <4> QED BY <4>1, <1>1, EditsFrame, TypesParts
    <3> QED BY <3>1, <3>2
  <2>4. TypeOK'
    BY <1>1, <2>1, <2>2, <2>3, TypesParts, TypesFromParts DEF InteractEffect
  <2> QED BY <2>3, <2>4 DEF Types
<1>4. ASSUME NEW near \in SUBSET DOMAIN m_unsent_map_edit_queue, SendMapEdits(near)
      PROVE  Types'
  <2>1. /\ down0' \in Seq(DownEdits) /\ RemoteOK(remote')
        /\ \A m \in ToSet(down0') : m.edit \in map[m.block]
    BY <1>4, MapEditsSent
  <2>2. m_unsent_map_edit_queue' = <<>> /\ UNCHANGED map
    BY <1>4 DEF SendMapEdits
  <2>3. m_unsent_map_edit_queue' \in Seq(MapEditEvents)
    BY <2>2, EmptySeq
  <2>4. TypeOK'
    BY <1>1, <1>4, <2>1, <2>3, TypesParts, TypesFromParts DEF SendMapEdits, clientVars
  <2>5. EditsInv'
    BY <2>1, <2>2 DEF EditsInv, ToSet
  <2> QED BY <2>4, <2>5 DEF Types
<1> QED BY <1>2, <1>3, <1>4 DEF SendsMapEdits

LEMMA TypesClient ==
  ASSUME Types,
         \/ ReceiveNode \/ ReceiveBlock \/ HandleUp2
         \/ \E b \in Blocks : SendGotBlocks(b) \/ SendDeletedBlocks(b)
         \/ \E m \in Interactions : Predict(m)
  PROVE  Types'
<1>1. TypeOK /\ EditsInv
  BY DEF Types
<1>2. CASE ReceiveNode
  <2>1. /\ Head(down0) \in DownEdits /\ down0' \in Seq(DownEdits)
        /\ ToSet(down0') \subseteq ToSet(down0)
    BY <1>1, <1>2, TypesParts, TailSet DEF ReceiveNode
  <2>2. Head(down0).block \in Blocks /\ Head(down0).edit \in Edits
    BY <2>1 DEF DownEdits
  <2>3. client' \in [Blocks -> (SUBSET Edits) \cup {NoBlock}]
    <3>1. CASE client[Head(down0).block] = NoBlock
      BY <1>1, <1>2, <3>1, TypesParts DEF ReceiveNode
    <3>2. CASE client[Head(down0).block] # NoBlock
      <4>1. client[Head(down0).block] \in SUBSET Edits
        BY <1>1, <3>2, <2>2, ClientContents
      <4>2. client[Head(down0).block] \cup {Head(down0).edit} \in SUBSET Edits
        BY <2>2, <4>1
      <4>3. client' = [client EXCEPT ![Head(down0).block]
                         = client[Head(down0).block] \cup {Head(down0).edit}]
        BY <1>2, <3>2 DEF ReceiveNode
      <4> QED BY <1>1, <2>2, <4>2, <4>3, ClientStores
    <3> QED BY <3>1, <3>2
  <2>4. TypeOK'
    BY <1>1, <1>2, <2>1, <2>3, TypesParts, TypesFromParts DEF ReceiveNode, serverVars
  <2>5. EditsInv'
    BY <1>1, <1>2, <2>1, EditsFrame DEF ReceiveNode, serverVars
  <2> QED BY <2>4, <2>5 DEF Types
<1>3. CASE ReceiveBlock
  <2>1. Head(down2) \in Copies /\ down2' \in Seq(Copies)
    BY <1>1, <1>3, TypesParts, HeadTailProperties DEF ReceiveBlock
  <2>2. Head(down2).block \in Blocks /\ Head(down2).contents \in SUBSET Edits
    BY <2>1 DEF Copies
  <2>3. client' \in [Blocks -> (SUBSET Edits) \cup {NoBlock}] /\ acks' \in [Blocks -> Nat]
    <3>1. /\ client' = [client EXCEPT ![Head(down2).block] = Head(down2).contents]
          /\ acks' = [acks EXCEPT ![Head(down2).block] = @ + 1]
      BY <1>3 DEF ReceiveBlock
    <3>2. client' \in [Blocks -> (SUBSET Edits) \cup {NoBlock}]
      BY <1>1, <2>2, <3>1, ClientStores
    <3>3. acks[Head(down2).block] + 1 \in Nat
      BY <1>1, <2>2, TypesParts
    <3> QED BY <1>1, <3>1, <3>2, <3>3, TypesParts
  <2>4. TypeOK'
    <3>1. unreverted' \subseteq Blocks
      BY <1>1, <1>3, TypesParts DEF ReceiveBlock
    <3> QED BY <1>1, <1>3, <2>1, <2>3, <3>1, TypesParts, TypesFromParts
            DEF ReceiveBlock, serverVars
  <2>5. EditsInv'
    BY <1>1, <1>3, EditsFrame DEF ReceiveBlock, serverVars
  <2> QED BY <2>4, <2>5 DEF Types
<1>4. CASE HandleUp2
  <2>1. Head(up2) \in Ups /\ up2' \in Seq(Ups)
    BY <1>1, <1>4, TypesParts, HeadTailProperties DEF HandleUp2
  <2>2. Head(up2).block \in Blocks /\ {Head(up2).block} \in SUBSET Blocks
    BY <2>1 DEF Ups
  <2>3. \/ remote' = GotBlock(remote, Head(up2).block)
        \/ remote' = SetBlocksNotSent(remote, {Head(up2).block})
    BY <1>4 DEF HandleUp2
  <2>4. RemoteOK(remote')
    BY <1>1, <2>2, <2>3, TypesParts, GotBlockOK, NotSentOK
  <2>5. mistaken' \subseteq Blocks
    BY <1>1, <1>4, <2>2, TypesParts DEF HandleUp2
  <2>6. TypeOK'
    BY <1>1, <1>4, <2>1, <2>4, <2>5, TypesParts, TypesFromParts DEF HandleUp2, clientVars
  <2>7. EditsInv'
    BY <1>1, <1>4, EditsFrame DEF HandleUp2
  <2> QED BY <2>6, <2>7 DEF Types
<1>5. ASSUME NEW b \in Blocks, SendGotBlocks(b) PROVE Types'
  <2>1. [type |-> "GOTBLOCKS", block |-> b] \in Ups
    BY DEF Ups
  <2>2. up2' \in Seq(Ups)
    BY <1>1, <1>5, <2>1, TypesParts, AppendSet DEF SendGotBlocks
  <2>3. acks' \in [Blocks -> Nat]
    <3>1. acks[b] - 1 \in Nat /\ acks' = [acks EXCEPT ![b] = @ - 1]
      BY <1>1, <1>5, TypesParts DEF SendGotBlocks
    <3> QED BY <1>1, <3>1, TypesParts
  <2>4. TypeOK'
    BY <1>1, <1>5, <2>2, <2>3, TypesParts, TypesFromParts DEF SendGotBlocks, serverVars
  <2>5. EditsInv'
    BY <1>1, <1>5, EditsFrame DEF SendGotBlocks, serverVars
  <2> QED BY <2>4, <2>5 DEF Types
<1>6. ASSUME NEW b \in Blocks, SendDeletedBlocks(b) PROVE Types'
  <2>1. [type |-> "DELETEDBLOCKS", block |-> b] \in Ups
    BY DEF Ups
  <2>2. up2' \in Seq(Ups)
    BY <1>1, <1>6, <2>1, TypesParts, AppendSet DEF SendDeletedBlocks
  <2>3. client' \in [Blocks -> (SUBSET Edits) \cup {NoBlock}] /\ events' \in 0 .. MaxEvents
    <3>1. client' = [client EXCEPT ![b] = NoBlock]
      BY <1>6 DEF SendDeletedBlocks
    <3>2. NoBlock \in (SUBSET Edits) \cup {NoBlock}
      OBVIOUS
    <3>3. client' \in [Blocks -> (SUBSET Edits) \cup {NoBlock}]
      BY <1>1, <3>1, <3>2, ClientStores
    <3> QED BY <1>1, <1>6, <3>3, OneMoreEvent DEF SendDeletedBlocks
  <2>4. TypeOK'
    BY <1>1, <1>6, <2>2, <2>3, TypesParts, TypesFromParts DEF SendDeletedBlocks, serverVars
  <2>5. EditsInv'
    BY <1>1, <1>6, EditsFrame DEF SendDeletedBlocks, serverVars
  <2> QED BY <2>4, <2>5 DEF Types
<1>7. ASSUME NEW m \in Interactions, Predict(m) PROVE Types'
  <2>1. /\ edits' \in 0 .. MaxEdits /\ m.edit \in Edits /\ m.block \in Blocks
    BY <1>1, <1>7, OneMoreEdit DEF Predict, Interactions
  <2>2. up0' \in Seq(Interactions)
    BY <1>1, <1>7, TypesParts, AppendSet DEF Predict
  <2>3. client' \in [Blocks -> (SUBSET Edits) \cup {NoBlock}]
    <3>1. client[m.block] \in SUBSET Edits
      BY <1>1, <1>7, <2>1, ClientContents DEF Predict
    <3>2. client[m.block] \cup {m.edit} \in SUBSET Edits
      BY <2>1, <3>1
    <3>3. client' = [client EXCEPT ![m.block] = client[m.block] \cup {m.edit}]
      BY <1>7 DEF Predict
    <3> QED BY <1>1, <2>1, <3>2, <3>3, ClientStores
  <2>4. TypeOK'
    BY <1>1, <1>7, <2>1, <2>2, <2>3, TypesParts, TypesFromParts DEF Predict, serverVars
  <2>5. EditsInv'
    BY <1>1, <1>7, EditsFrame DEF Predict, serverVars
  <2> QED BY <2>4, <2>5 DEF Types
<1> QED BY <1>2, <1>3, <1>4, <1>5, <1>6, <1>7

LEMMA TypesStep ==
  ASSUME Types, [Next]_vars
  PROVE  Types'
<1>1. CASE UNCHANGED vars
  BY <1>1 DEF vars, serverVars, netVars, clientVars, Types, TypeOK, EditsInv
<1> QED BY <1>1, TypesServer, TypesEdits, TypesClient DEF Next, Environment

LEMMA AlwaysTypes == Spec => []Types
<1> QED BY TypesInit, TypesStep, PTL DEF Spec

\* Every variable keeps its type; the server has no block both on its way to the
\* client and acknowledged, and no more on the way than the client has slots for.
THEOREM SendingTypes == Spec => []TypeOK
<1>1. Types => TypeOK
  BY DEF Types
<1> QED BY <1>1, AlwaysTypes, PTL

-----------------------------------------------------------------------------
(* The slots *)

LEMMA OnTheWayInSet ==
  ASSUME NEW b
  PROVE  OnTheWay(b) <=> \E m \in ToSet(down2) : m.block = b
BY DEF OnTheWay, ToSet

LEMMA UnderwayInSet ==
  ASSUME NEW q, NEW b
  PROVE  Underway(q, b) <=> \E m \in ToSet(q) : m.block = b
BY DEF Underway, ToSet

LEMMA SlotStays ==
  ASSUME NEW b \in Blocks,
         OnTheWay(b) \/ acks[b] > 0 \/ Underway(up2, b),
         OnTheWay(b) => OnTheWay(b)', acks[b] > 0 => acks'[b] > 0,
         ToSet(up2) \subseteq ToSet(up2')
  PROVE  (OnTheWay(b) \/ acks[b] > 0 \/ Underway(up2, b))'
<1>1. Underway(up2, b) => Underway(up2', b)
  BY UnderwayInSet
<1> QED BY <1>1 DEF Underway

LEMMA SlotsStay ==
  ASSUME TypeOK, SlotsComeBack, remote'.sending \subseteq remote.sending,
         UNCHANGED <<down2, acks>>, ToSet(up2) \subseteq ToSet(up2')
  PROVE  SlotsComeBack'
<1> SUFFICES ASSUME NEW b \in remote'.sending
             PROVE  (OnTheWay(b) \/ acks[b] > 0 \/ Underway(up2, b))'
  BY DEF SlotsComeBack
<1>1. OnTheWay(b) \/ acks[b] > 0 \/ Underway(up2, b)
  BY DEF SlotsComeBack
<1>2. b \in Blocks
  BY TypesParts DEF Remotes
<1>3. OnTheWay(b) => OnTheWay(b)'
  BY DEF OnTheWay
<1> QED BY <1>1, <1>2, <1>3, SlotStays

LEMMA SlotsStep ==
  ASSUME Types, SlotsComeBack, [Next]_vars
  PROVE  SlotsComeBack'
<1>1. TypeOK
  BY DEF Types
<1>2. CASE SendBlocks
  <2>1. PICK new \in Seq(Copies) :
          /\ down2' = down2 \o new
          /\ \A b \in ToSend : \E m \in ToSet(new) : m.block = b
    BY <1>1, <1>2, BlocksSent
  <2>2. ToSet(down2') = ToSet(down2) \cup ToSet(new)
    BY <1>1, <2>1, TypesParts, ConcatSet
  <2>3. remote'.sending = remote.sending \cup ToSend /\ UNCHANGED <<up2, acks>>
    BY <1>1, <1>2, TypesParts DEF SendBlocks, clientVars, Remotes
  <2> SUFFICES ASSUME NEW b \in remote'.sending
               PROVE  (OnTheWay(b) \/ acks[b] > 0 \/ Underway(up2, b))'
    BY DEF SlotsComeBack
  <2>4. CASE b \in ToSend
    <3>1. \E m \in ToSet(down2') : m.block = b
      BY <2>1, <2>2, <2>4
    <3>2. OnTheWay(b)'
      BY <3>1 DEF OnTheWay, ToSet
    <3> QED BY <3>2
  <2>5. CASE b \in remote.sending
    <3>1. b \in Blocks /\ (OnTheWay(b) \/ acks[b] > 0 \/ Underway(up2, b))
      BY <1>1, <2>5, TypesParts DEF SlotsComeBack, Remotes
    <3>2. OnTheWay(b) => OnTheWay(b)'
      BY <2>2, OnTheWayInSet DEF OnTheWay, ToSet
    <3> QED BY <2>3, <3>1, <3>2, SlotStays
  <2> QED BY <2>3, <2>4, <2>5
<1>3. CASE PauseEnds \/ Turn
  <2>1. /\ remote'.sending \subseteq remote.sending /\ UNCHANGED <<down2, acks, up2>>
    BY <1>1, <1>3, TypesParts DEF PauseEnds, Turn, netVars, clientVars, Remotes
  <2> QED BY <1>1, <2>1, SlotsStay
<1>4. ASSUME NEW b \in Blocks, SendBlock(b) PROVE SlotsComeBack'
  <2>1. [block |-> b, contents |-> map[b]] \in Copies
    BY <1>1, TypesParts DEF Copies
  <2>2. ToSet(down2) \subseteq ToSet(down2')
    BY <1>1, <1>4, <2>1, TypesParts, AppendSet DEF SendBlock
  <2>3. UNCHANGED <<remote, acks, up2>>
    BY <1>4 DEF SendBlock, serverVars, clientVars
  <2> SUFFICES ASSUME NEW c \in remote'.sending
               PROVE  (OnTheWay(c) \/ acks[c] > 0 \/ Underway(up2, c))'
    BY DEF SlotsComeBack
  <2>4. c \in Blocks /\ (OnTheWay(c) \/ acks[c] > 0 \/ Underway(up2, c))
    BY <1>1, <2>3, TypesParts DEF SlotsComeBack, Remotes
  <2>5. OnTheWay(c) => OnTheWay(c)'
    BY <2>2, OnTheWayInSet DEF OnTheWay, ToSet
  <2> QED BY <2>3, <2>4, <2>5, SlotStays
<1>5. ASSUME NEW b \in Blocks, Unload(b) \/ EmergeCancelled(b) \/ EmergesBlock(b)
      PROVE  SlotsComeBack'
  <2>1. UNCHANGED <<remote, down2, acks, up2>>
    BY <1>5 DEF Unload, EmergeCancelled, EmergesBlock, Emerged, netVars, clientVars
  <2> QED BY <1>1, <2>1, SlotsStay
<1>6. ASSUME NEW type \in {"node", "meta", "other"}, NEW bs \in SUBSET Blocks, EditMap(type, bs)
      PROVE  SlotsComeBack'
  <2>1. UNCHANGED <<remote, down2, acks, up2>>
    BY <1>6 DEF EditMap, netVars, clientVars
  <2> QED BY <1>1, <2>1, SlotsStay
<1>7. CASE Interacts
  <2>1. remote'.sending \subseteq remote.sending /\ UNCHANGED <<down2, acks, up2>>
    BY <1>1, <1>7, InteractEffects DEF InteractEffect
  <2> QED BY <1>1, <2>1, SlotsStay
<1>8. ASSUME NEW near \in SUBSET DOMAIN m_unsent_map_edit_queue, SendMapEdits(near)
      PROVE  SlotsComeBack'
  <2>1. remote'.sending \subseteq remote.sending
    BY <1>8, MapEditsSent
  <2>2. UNCHANGED <<down2, acks, up2>>
    BY <1>8 DEF SendMapEdits, clientVars
  <2> QED BY <1>1, <2>1, <2>2, SlotsStay
<1>9. CASE ReceiveNode
  <2>1. UNCHANGED <<remote, down2, acks, up2>>
    BY <1>9 DEF ReceiveNode, serverVars
  <2> QED BY <1>1, <2>1, SlotsStay
<1>10. CASE ReceiveBlock
  <2>1. /\ down2 \in Seq(Copies) /\ down2 # <<>> /\ down2' = Tail(down2)
        /\ acks \in [Blocks -> Nat] /\ acks' = [acks EXCEPT ![Head(down2).block] = @ + 1]
        /\ UNCHANGED <<remote, up2>>
    BY <1>1, <1>10, TypesParts DEF ReceiveBlock, serverVars
  <2>2. ToSet(down2) = ToSet(down2') \cup {Head(down2)}
    BY <2>1, TailSet
  <2> SUFFICES ASSUME NEW b \in remote'.sending
               PROVE  (OnTheWay(b) \/ acks[b] > 0 \/ Underway(up2, b))'
    BY DEF SlotsComeBack
  <2>3. b \in Blocks /\ (OnTheWay(b) \/ acks[b] > 0 \/ Underway(up2, b))
    BY <1>1, <2>1, TypesParts DEF SlotsComeBack, Remotes
  <2>4. CASE b = Head(down2).block
    BY <2>1, <2>3, <2>4
  <2>5. CASE b # Head(down2).block
    <3>1. OnTheWay(b) => OnTheWay(b)'
      <4>1. OnTheWay(b) => \E m \in ToSet(down2') : m.block = b
        BY <2>2, <2>5, OnTheWayInSet
      <4> QED BY <4>1 DEF OnTheWay, ToSet
    <3>2. acks'[b] = acks[b]
      BY <2>1, <2>3, <2>5
    <3> QED BY <2>1, <2>3, <3>1, <3>2, SlotStays
  <2> QED BY <2>4, <2>5
<1>11. ASSUME NEW b \in Blocks, SendGotBlocks(b) PROVE SlotsComeBack'
  <2> DEFINE ack == [type |-> "GOTBLOCKS", block |-> b]
  <2>1. ack \in Ups /\ ack.block = b
    BY DEF Ups
  <2>2. /\ up2 \in Seq(Ups) /\ up2' = Append(up2, ack)
        /\ acks \in [Blocks -> Nat] /\ acks' = [acks EXCEPT ![b] = @ - 1]
        /\ UNCHANGED <<remote, down2>>
    BY <1>1, <1>11, TypesParts DEF SendGotBlocks, serverVars
  <2> HIDE DEF ack
  <2>3. ToSet(up2') = ToSet(up2) \cup {ack}
    BY <2>1, <2>2, AppendSet
  <2> SUFFICES ASSUME NEW c \in remote'.sending
               PROVE  (OnTheWay(c) \/ acks[c] > 0 \/ Underway(up2, c))'
    BY DEF SlotsComeBack
  <2>4. c \in Blocks /\ (OnTheWay(c) \/ acks[c] > 0 \/ Underway(up2, c))
    BY <1>1, <2>2, TypesParts DEF SlotsComeBack, Remotes
  <2>5. CASE c = b
    <3>1. \E m \in ToSet(up2') : m.block = c
      BY <2>1, <2>3, <2>5
    <3>2. Underway(up2', c)
      BY <3>1, UnderwayInSet
    <3> QED BY <3>2 DEF Underway
  <2>6. CASE c # b
    <3>1. OnTheWay(c) => OnTheWay(c)'
      BY <2>2 DEF OnTheWay
    <3>2. acks'[c] = acks[c]
      BY <2>2, <2>4, <2>6
    <3> QED BY <2>3, <2>4, <3>1, <3>2, SlotStays
  <2> QED BY <2>5, <2>6
<1>12. ASSUME NEW b \in Blocks, SendDeletedBlocks(b) PROVE SlotsComeBack'
  <2>1. [type |-> "DELETEDBLOCKS", block |-> b] \in Ups
    BY DEF Ups
  <2>2. ToSet(up2) \subseteq ToSet(up2')
    BY <1>1, <1>12, <2>1, TypesParts, AppendSet DEF SendDeletedBlocks
  <2>3. UNCHANGED <<remote, down2, acks>>
    BY <1>12 DEF SendDeletedBlocks, serverVars
  <2> QED BY <1>1, <2>2, <2>3, SlotsStay
<1>13. ASSUME NEW m \in Interactions, Predict(m) PROVE SlotsComeBack'
  <2>1. UNCHANGED <<remote, down2, acks, up2>>
    BY <1>13 DEF Predict, serverVars
  <2> QED BY <1>1, <2>1, SlotsStay
<1>14. CASE HandleUp2
  <2> DEFINE m == Head(up2)
  <2>1. /\ up2 \in Seq(Ups) /\ up2 # <<>> /\ up2' = Tail(up2)
        /\ UNCHANGED <<down2, acks>>
        /\ remote' = GotBlock(remote, m.block) \/ remote' = SetBlocksNotSent(remote, {m.block})
    BY <1>1, <1>14, TypesParts DEF HandleUp2, clientVars
  <2>2. ToSet(up2) = ToSet(up2') \cup {m} /\ m \in Ups
    BY <2>1, TailSet
  <2>3. m.block \in Blocks /\ {m.block} \in SUBSET Blocks
    BY <2>2 DEF Ups
  <2>4. remote'.sending = remote.sending \ {m.block}
    <3>1. remote \in Remotes
      BY <1>1, TypesParts
    <3>2. GotBlock(remote, m.block).sending = remote.sending \ {m.block}
      BY <2>3, <3>1, GotBlockFields
    <3>3. SetBlocksNotSent(remote, {m.block}).sending = remote.sending \ {m.block}
      BY <2>3, <3>1, NotSentFields
    <3> QED BY <2>1, <3>2, <3>3
  <2> HIDE DEF m
  <2> SUFFICES ASSUME NEW b \in remote'.sending
               PROVE  (OnTheWay(b) \/ acks[b] > 0 \/ Underway(up2, b))'
    BY DEF SlotsComeBack
  <2>5. b \in Blocks /\ b # m.block /\ (OnTheWay(b) \/ acks[b] > 0 \/ Underway(up2, b))
    BY <1>1, <2>4, TypesParts DEF SlotsComeBack, Remotes
  <2>6. Underway(up2, b) => Underway(up2', b)
    BY <2>2, <2>5, UnderwayInSet
  <2> QED BY <2>1, <2>5, <2>6 DEF OnTheWay, Underway
<1>15. CASE UNCHANGED vars
  <2>1. UNCHANGED <<remote, down2, acks, up2>>
    BY <1>15 DEF vars, serverVars, netVars, clientVars
  <2> QED BY <1>1, <2>1, SlotsStay
<1> QED BY <1>2, <1>3, <1>4, <1>5, <1>6, <1>7, <1>8, <1>9, <1>10, <1>11, <1>12, <1>13, <1>14,
           <1>15 DEF Next, Environment, SendsMapEdits

\* A slot of the client is taken only by a block that is on its way, or whose ack is
\* owed or on its way: none is lost to a copy that nobody will acknowledge.
THEOREM SlotsAreGivenBack == Spec => []SlotsComeBack
<1>1. Init => SlotsComeBack
  BY DEF Init, SlotsComeBack
<1>2. Types /\ Types' /\ SlotsComeBack /\ [Next]_vars => SlotsComeBack'
  BY SlotsStep
<1> QED BY <1>1, <1>2, AlwaysTypes, PTL DEF Spec

-----------------------------------------------------------------------------
(* What the client has.  A block that counts as sent is not on its way,    *)
(* and is at the client as it is on the server, up to the changes that are *)
(* queued or under way.  Of a block that is being sent the last copy on    *)
(* its way is what the client will have; a change that this copy misses is *)
(* still in the queue, and takes the block out of the blocks that are      *)
(* being sent.  A deletion the client has announced will do the same.  Only *)
(* a prediction that is refused and not reverted breaks this.              *)

U0(b) == {m.edit : m \in {m \in ToSet(up0) : m.block = b}}
D0(b) == {m.edit : m \in {m \in ToSet(down0) : m.block = b}}
QE(b) == {e.edit : e \in {e \in ToSet(m_unsent_map_edit_queue) : b \in e.blocks}}
Deleting(b) == \E m \in ToSet(up2) : m.type = "DELETEDBLOCKS" /\ m.block = b

AtClient(b) ==
  /\ client[b] # NoBlock
  /\ client[b] \subseteq map[b] \cup U0(b)
  /\ map[b] \subseteq client[b] \cup D0(b) \cup QE(b)

InCopy(b, c) == c \subseteq map[b] /\ map[b] \subseteq c \cup QE(b)

\* The last copy of b in q has the contents c.
LastIs(q, b, c) ==
  \E i \in DOMAIN q : /\ q[i].block = b /\ q[i].contents = c
                      /\ \A j \in DOMAIN q : i < j => q[j].block # b

Agrees(b) ==
  /\ b \in remote.sent \ mistaken =>
       ~OnTheWay(b) /\ (Deleting(b) \/ b \in unreverted \/ AtClient(b))
  /\ b \in remote.sending =>
       \/ Deleting(b)
       \/ ~OnTheWay(b) /\ (b \in unreverted \/ AtClient(b))
       \/ OnTheWay(b) /\ \A c \in SUBSET Edits : LastIs(down2, b, c) => InCopy(b, c)

LEMMA LastAppended ==
  ASSUME NEW q \in Seq(Copies), NEW x \in Copies, NEW b, NEW c, LastIs(Append(q, x), b, c)
  PROVE  IF x.block = b THEN c = x.contents ELSE LastIs(q, b, c)
<1>1. DOMAIN q = 1 .. Len(q) /\ Len(q) \in Nat
  BY LenProperties
<1>2. /\ Append(q, x) \in Seq(Copies) /\ Len(Append(q, x)) = Len(q) + 1
      /\ \A i \in 1 .. Len(q) : Append(q, x)[i] = q[i]
      /\ Append(q, x)[Len(q) + 1] = x
  BY AppendProperties
<1>3. DOMAIN Append(q, x) = 1 .. Len(q) + 1
  BY <1>2, LenProperties
<1>4. PICK i \in 1 .. Len(q) + 1 :
        /\ Append(q, x)[i].block = b /\ Append(q, x)[i].contents = c
        /\ \A j \in 1 .. Len(q) + 1 : i < j => Append(q, x)[j].block # b
  BY <1>3 DEF LastIs
<1>5. CASE i = Len(q) + 1
  BY <1>2, <1>4, <1>5
<1>6. CASE i # Len(q) + 1
  <2>1. i \in 1 .. Len(q) /\ i < Len(q) + 1 /\ Len(q) + 1 \in 1 .. Len(q) + 1
    BY <1>1, <1>6
  <2>2. x.block # b
    BY <1>2, <1>4, <2>1
  <2>3. q[i].block = b /\ q[i].contents = c
    BY <1>2, <1>4, <2>1
  <2>4. \A j \in 1 .. Len(q) : i < j => q[j].block # b
    <3> SUFFICES ASSUME NEW j \in 1 .. Len(q), i < j PROVE q[j].block # b
      OBVIOUS
    <3>1. j \in 1 .. Len(q) + 1 /\ Append(q, x)[j] = q[j]
      BY <1>1, <1>2
    <3> QED BY <1>4, <3>1
  <2> QED BY <1>1, <2>1, <2>2, <2>3, <2>4 DEF LastIs
<1> QED BY <1>5, <1>6

LEMMA LastOfTail ==
  ASSUME NEW q \in Seq(Copies), q # <<>>, NEW b
  PROVE  /\ \A c : LastIs(Tail(q), b, c) => LastIs(q, b, c)
         /\ Head(q).block = b /\ ~(\E m \in ToSet(Tail(q)) : m.block = b)
              => LastIs(q, b, Head(q).contents)
<1>1. /\ Len(q) \in Nat \ {0} /\ DOMAIN q = 1 .. Len(q)
      /\ Tail(q) \in Seq(Copies) /\ Len(Tail(q)) = Len(q) - 1
      /\ \A i \in 1 .. Len(q) - 1 : Tail(q)[i] = q[i + 1]
  BY EmptySeq, LenProperties, HeadTailProperties
<1>2. DOMAIN Tail(q) = 1 .. Len(q) - 1
  BY <1>1, LenProperties
<1>3. \A j \in 1 .. Len(q) : j = 1 \/ (j - 1 \in 1 .. Len(q) - 1 /\ Tail(q)[j - 1] = q[j])
  <2> SUFFICES ASSUME NEW j \in 1 .. Len(q), j # 1
               PROVE  j - 1 \in 1 .. Len(q) - 1 /\ Tail(q)[j - 1] = q[j]
    OBVIOUS
  <2>1. j - 1 \in 1 .. Len(q) - 1 /\ (j - 1) + 1 = j
    BY <1>1
  <2> QED BY <1>1, <2>1
<1>4. ASSUME NEW c, LastIs(Tail(q), b, c) PROVE LastIs(q, b, c)
  <2>1. PICK i \in 1 .. Len(q) - 1 :
          /\ Tail(q)[i].block = b /\ Tail(q)[i].contents = c
          /\ \A j \in 1 .. Len(q) - 1 : i < j => Tail(q)[j].block # b
    BY <1>2, <1>4 DEF LastIs
  <2>2. i + 1 \in 1 .. Len(q) /\ q[i + 1].block = b /\ q[i + 1].contents = c
    BY <1>1, <2>1
  <2>3. \A j \in 1 .. Len(q) : i + 1 < j => q[j].block # b
    <3> SUFFICES ASSUME NEW j \in 1 .. Len(q), i + 1 < j PROVE q[j].block # b
      OBVIOUS
    <3>1. j - 1 \in 1 .. Len(q) - 1 /\ Tail(q)[j - 1] = q[j] /\ i < j - 1
      BY <1>1, <1>3
    <3> QED BY <2>1, <3>1
  <2> QED BY <1>1, <2>2, <2>3 DEF LastIs
<1>5. ASSUME Head(q).block = b, ~(\E m \in ToSet(Tail(q)) : m.block = b)
      PROVE  LastIs(q, b, Head(q).contents)
  <2>1. 1 \in 1 .. Len(q) /\ Head(q) = q[1]
    BY <1>1
  <2>2. \A j \in 1 .. Len(q) : 1 < j => q[j].block # b
    <3> SUFFICES ASSUME NEW j \in 1 .. Len(q), 1 < j PROVE q[j].block # b
      OBVIOUS
    <3>1. j - 1 \in DOMAIN Tail(q) /\ Tail(q)[j - 1] = q[j]
      BY <1>2, <1>3
    <3>2. q[j] \in ToSet(Tail(q))
      BY <3>1 DEF ToSet
    <3> QED BY <1>5, <3>2
  <2> QED BY <1>1, <1>5, <2>1, <2>2 DEF LastIs
<1> QED BY <1>4, <1>5

LEMMA LastOfConcat ==
  ASSUME NEW q \in Seq(Copies), NEW r \in Seq(Copies), NEW b, NEW c, LastIs(q \o r, b, c)
  PROVE  \/ \E m \in ToSet(r) : m.block = b /\ m.contents = c
         \/ ~(\E m \in ToSet(r) : m.block = b) /\ LastIs(q, b, c)
<1>1. /\ DOMAIN q = 1 .. Len(q) /\ Len(q) \in Nat
      /\ DOMAIN r = 1 .. Len(r) /\ Len(r) \in Nat
  BY LenProperties
<1>2. /\ q \o r \in Seq(Copies) /\ Len(q \o r) = Len(q) + Len(r)
      /\ \A i \in 1 .. Len(q) + Len(r) :
           (q \o r)[i] = IF i <= Len(q) THEN q[i] ELSE r[i - Len(q)]
  BY ConcatProperties
<1>3. DOMAIN (q \o r) = 1 .. Len(q) + Len(r)
  BY <1>2, LenProperties
<1>4. PICK i \in 1 .. Len(q) + Len(r) :
        /\ (q \o r)[i].block = b /\ (q \o r)[i].contents = c
        /\ \A j \in 1 .. Len(q) + Len(r) : i < j => (q \o r)[j].block # b
  BY <1>3 DEF LastIs
<1>5. CASE ~(i <= Len(q))
  <2>1. i - Len(q) \in 1 .. Len(r) /\ (q \o r)[i] = r[i - Len(q)]
    BY <1>1, <1>2, <1>5
  <2>2. r[i - Len(q)] \in ToSet(r)
    BY <1>1, <2>1 DEF ToSet
  <2> QED BY <1>4, <2>1, <2>2
<1>6. CASE i <= Len(q)
  <2>1. i \in 1 .. Len(q) /\ (q \o r)[i] = q[i]
    BY <1>1, <1>2, <1>6
  <2>2. \A j \in 1 .. Len(q) : i < j => q[j].block # b
    <3> SUFFICES ASSUME NEW j \in 1 .. Len(q), i < j PROVE q[j].block # b
      OBVIOUS
    <3>1. j \in 1 .. Len(q) + Len(r) /\ (q \o r)[j] = q[j]
      BY <1>1, <1>2
    <3> QED BY <1>4, <3>1
  <2>3. LastIs(q, b, c)
    BY <1>1, <1>4, <2>1, <2>2 DEF LastIs
  <2>4. \A k \in 1 .. Len(r) : r[k].block # b
    <3> SUFFICES ASSUME NEW k \in 1 .. Len(r) PROVE r[k].block # b
      OBVIOUS
    <3>1. /\ Len(q) + k \in 1 .. Len(q) + Len(r) /\ i < Len(q) + k
          /\ ~(Len(q) + k <= Len(q)) /\ (Len(q) + k) - Len(q) = k
      BY <1>1, <2>1
    <3>2. (q \o r)[Len(q) + k] = r[k]
      BY <1>2, <3>1
    <3> QED BY <1>4, <3>1, <3>2
  <2> QED BY <1>1, <2>3, <2>4 DEF ToSet
<1> QED BY <1>5, <1>6

\* A step that leaves what the client has of b, or will have, and may change the map.
LEMMA AgreesFrame ==
  ASSUME NEW b \in Blocks, Agrees(b),
         b \in remote'.sent \ mistaken' => b \in remote.sent \ mistaken,
         b \in remote'.sending => b \in remote.sending,
         Deleting(b) => Deleting(b)',
         OnTheWay(b)' <=> OnTheWay(b),
         \A c \in SUBSET Edits : LastIs(down2', b, c) => LastIs(down2, b, c),
         client'[b] = client[b],
         map[b] \subseteq map'[b], map'[b] \subseteq map[b] \cup QE(b)',
         QE(b) \subseteq QE(b)', D0(b) \subseteq D0(b)',
         b \in unreverted => b \in unreverted',
         b \in remote'.sending \cup remote'.sent =>
           b \in unreverted' \/ U0(b) \subseteq map'[b] \cup U0(b)'
  PROVE  Agrees(b)'
<1>1. ASSUME b \in remote'.sending \cup remote'.sent, AtClient(b)
      PROVE  b \in unreverted' \/ AtClient(b)'
  BY <1>1 DEF AtClient
<1>2. ASSUME NEW c \in SUBSET Edits, InCopy(b, c) PROVE InCopy(b, c)'
  BY <1>2 DEF InCopy
<1>3. ASSUME b \in remote'.sent \ mistaken'
      PROVE  ~OnTheWay(b)' /\ (Deleting(b)' \/ b \in unreverted' \/ AtClient(b)')
  BY <1>1, <1>3 DEF Agrees
<1>4. ASSUME b \in remote'.sending
      PROVE  \/ Deleting(b)'
             \/ ~OnTheWay(b)' /\ (b \in unreverted' \/ AtClient(b)')
             \/ OnTheWay(b)' /\ \A c \in SUBSET Edits : LastIs(down2', b, c) => InCopy(b, c)'
  BY <1>1, <1>2, <1>4 DEF Agrees
<1> QED BY <1>3, <1>4 DEF Agrees, LastIs

\* A step that only lets blocks go, or that concerns other blocks only.
LEMMA AgreesUntouched ==
  ASSUME NEW b \in Blocks, Agrees(b),
         b \in remote'.sent => b \in remote.sent,
         b \in remote'.sending => b \in remote.sending,
         mistaken \subseteq mistaken', ToSet(up2) \subseteq ToSet(up2'),
         UNCHANGED <<map, m_unsent_map_edit_queue, down0, down2, up0, client, unreverted>>
  PROVE  Agrees(b)'
<1>1. Deleting(b) => Deleting(b)'
  BY DEF Deleting
<1>2. OnTheWay(b)' <=> OnTheWay(b)
  BY DEF OnTheWay
<1>3. QE(b)' = QE(b) /\ D0(b)' = D0(b) /\ U0(b)' = U0(b)
  BY DEF QE, D0, U0
<1> QED BY <1>1, <1>2, <1>3, AgreesFrame

LEMMA AgreesQuiet ==
  ASSUME TypeOK, NEW b \in Blocks, Agrees(b),
         \/ PauseEnds \/ Turn \/ UNCHANGED vars
         \/ \E c \in Blocks : Unload(c) \/ EmergeCancelled(c) \/ SendGotBlocks(c)
  PROVE  Agrees(b)'
<1>1. /\ UNCHANGED <<map, m_unsent_map_edit_queue, down0, down2, up0, client, mistaken,
                     unreverted>>
      /\ remote'.sent = remote.sent /\ remote'.sending = remote.sending
  BY TypesParts DEF PauseEnds, Turn, vars, Unload, EmergeCancelled, SendGotBlocks,
     serverVars, netVars, clientVars, Remotes
<1>2. ToSet(up2) \subseteq ToSet(up2')
  <2>1. CASE UNCHANGED up2
    BY <2>1
  <2>2. ASSUME NEW c \in Blocks, SendGotBlocks(c) PROVE ToSet(up2) \subseteq ToSet(up2')
    <3>1. [type |-> "GOTBLOCKS", block |-> c] \in Ups
      BY DEF Ups
    <3> QED BY <2>2, <3>1, TypesParts, AppendSet DEF SendGotBlocks
  <2> QED BY <2>1, <2>2 DEF PauseEnds, Turn, vars, Unload, EmergeCancelled, netVars
<1> QED BY <1>1, <1>2, AgreesUntouched

LEMMA AgreesSendBlocks ==
  ASSUME TypeOK, NEW b \in Blocks, Agrees(b), SendBlocks
  PROVE  Agrees(b)'
<1>1. PICK new \in Seq(Copies) :
        /\ down2' = down2 \o new
        /\ \A m \in ToSet(new) : m.block \in ToSend /\ m.contents = map[m.block]
        /\ \A c \in ToSend : \E m \in ToSet(new) : m.block = c
  BY BlocksSent
<1>2. /\ down2 \in Seq(Copies) /\ ToSet(down2') = ToSet(down2) \cup ToSet(new)
      /\ map \in [Blocks -> SUBSET Edits]
  BY <1>1, TypesParts, ConcatSet
<1>3. /\ remote'.sending = remote.sending \cup ToSend /\ remote'.sent = remote.sent
      /\ UNCHANGED <<map, m_unsent_map_edit_queue, down0, up0, up2, client, mistaken,
                     unreverted>>
  BY TypesParts DEF SendBlocks, clientVars, Remotes
<1>4. QE(b)' = QE(b) /\ D0(b)' = D0(b) /\ U0(b)' = U0(b) /\ Deleting(b)' = Deleting(b)
  BY <1>3 DEF QE, D0, U0, Deleting
<1>5. OnTheWay(b)' <=> \E m \in ToSet(down2') : m.block = b
  BY DEF OnTheWay, ToSet
<1>6. CASE b \in ToSend
  <2>1. b \notin remote'.sent
    BY <1>3, <1>6, ScanSets
  <2>2. OnTheWay(b)'
    BY <1>1, <1>2, <1>5, <1>6
  <2>3. ASSUME NEW c \in SUBSET Edits, LastIs(down2', b, c) PROVE InCopy(b, c)'
    <3>1. \E m \in ToSet(new) : m.block = b /\ m.contents = c
      BY <1>1, <1>2, <1>6, <2>3, LastOfConcat
    <3>2. c = map'[b]
      BY <1>1, <1>3, <3>1
    <3> QED BY <3>2 DEF InCopy
  <2> QED BY <2>1, <2>2, <2>3 DEF Agrees, LastIs
<1>7. CASE b \notin ToSend
  <2>1. ~(\E m \in ToSet(new) : m.block = b)
    BY <1>1, <1>7
  <2>2. OnTheWay(b)' <=> OnTheWay(b)
    BY <1>2, <1>5, <2>1, OnTheWayInSet
  <2>3. \A c \in SUBSET Edits : LastIs(down2', b, c) => LastIs(down2, b, c)
    BY <1>1, <1>2, <2>1, LastOfConcat
  <2> QED BY <1>3, <1>4, <1>7, <2>2, <2>3, AgreesFrame
<1> QED BY <1>6, <1>7

LEMMA AgreesSendBlock ==
  ASSUME TypeOK, NEW b \in Blocks, Agrees(b), NEW c \in Blocks, SendBlock(c)
  PROVE  Agrees(b)'
<1> DEFINE x == [block |-> c, contents |-> map[c]]
<1>1. x \in Copies /\ x.block = c /\ x.contents = map[c]
  BY TypesParts DEF Copies
<1>2. /\ down2 \in Seq(Copies) /\ down2' = Append(down2, x) /\ c \notin remote.sent
      /\ UNCHANGED <<map, m_unsent_map_edit_queue, remote, down0, up0, up2, client, mistaken,
                     unreverted>>
  BY TypesParts DEF SendBlock, serverVars, clientVars
<1> HIDE DEF x
<1>3. ToSet(down2') = ToSet(down2) \cup {x}
  BY <1>1, <1>2, AppendSet
<1>4. QE(b)' = QE(b) /\ D0(b)' = D0(b) /\ U0(b)' = U0(b) /\ Deleting(b)' = Deleting(b)
  BY <1>2 DEF QE, D0, U0, Deleting
<1>5. OnTheWay(b)' <=> \E m \in ToSet(down2') : m.block = b
  BY DEF OnTheWay, ToSet
<1>6. CASE b = c
  <2>1. b \notin remote'.sent /\ OnTheWay(b)'
    BY <1>1, <1>2, <1>3, <1>5, <1>6
  <2>2. ASSUME NEW d \in SUBSET Edits, LastIs(down2', b, d) PROVE InCopy(b, d)'
    <3>1. d = map'[b]
      BY <1>1, <1>2, <1>6, <2>2, LastAppended
    <3> QED BY <3>1 DEF InCopy
  <2> QED BY <2>1, <2>2 DEF Agrees, LastIs
<1>7. CASE b # c
  <2>1. OnTheWay(b)' <=> OnTheWay(b)
    BY <1>1, <1>3, <1>5, <1>7, OnTheWayInSet
  <2>2. \A d \in SUBSET Edits : LastIs(down2', b, d) => LastIs(down2, b, d)
    BY <1>1, <1>2, <1>7, LastAppended
  <2> QED BY <1>2, <1>4, <2>1, <2>2, AgreesFrame
<1> QED BY <1>6, <1>7

\* The map gains an edit of b and an event that tells of it, or nothing.
LEMMA AgreesEdited ==
  ASSUME Types, NEW b \in Blocks, Agrees(b),
         NEW type \in {"node", "meta", "other"}, NEW e \in Edits,
         NEW bs \in SUBSET Blocks, type # "other" => \E c \in Blocks : bs = {c},
         Edited(type, e, bs), UNCHANGED <<down0, down2, up2, client, mistaken>>,
         b \in remote'.sent => b \in remote.sent, b \in remote'.sending => b \in remote.sending,
         b \in unreverted => b \in unreverted',
         U0(b) \subseteq U0(b)' \cup (IF b \in bs THEN {e} ELSE {})
  PROVE  Agrees(b)'
<1>1. /\ \A c \in Blocks : map'[c] = IF c \in bs THEN map[c] \cup {e} ELSE map[c]
      /\ ToSet(m_unsent_map_edit_queue')
           = ToSet(m_unsent_map_edit_queue) \cup {[type |-> type, edit |-> e, blocks |-> bs]}
  <2>1. UNCHANGED down0
    OBVIOUS
  <2>2. \A c \in Blocks : map'[c] = IF c \in bs THEN map[c] \cup {e} ELSE map[c]
    BY DEF Edited
  <2>3. ToSet(m_unsent_map_edit_queue')
          = ToSet(m_unsent_map_edit_queue) \cup {[type |-> type, edit |-> e, blocks |-> bs]}
    BY <2>1, EditedTypes
  <2> QED BY <2>2, <2>3
<1>2. QE(b) \subseteq QE(b)'
  BY <1>1 DEF QE
<1>3. b \in bs => e \in QE(b)'
  <2> DEFINE event == [type |-> type, edit |-> e, blocks |-> bs]
  <2>1. event \in ToSet(m_unsent_map_edit_queue') /\ event.edit = e /\ event.blocks = bs
    BY <1>1
  <2> HIDE DEF event
  <2> QED BY <2>1 DEF QE
<1>4. D0(b)' = D0(b) /\ (Deleting(b) <=> Deleting(b)') /\ (OnTheWay(b)' <=> OnTheWay(b))
  BY DEF D0, Deleting, OnTheWay
<1>5. map[b] \subseteq map'[b] /\ map'[b] \subseteq map[b] \cup QE(b)'
  BY <1>1, <1>3
<1>6. U0(b) \subseteq map'[b] \cup U0(b)'
  BY <1>1
<1> QED BY <1>2, <1>4, <1>5, <1>6, AgreesFrame

LEMMA AgreesEditMap ==
  ASSUME Types, NEW b \in Blocks, Agrees(b), NEW type \in {"node", "meta", "other"},
         NEW bs \in SUBSET Blocks, EditMap(type, bs)
  PROVE  Agrees(b)'
<1>1. edits + 1 \in Edits
  BY OneMoreEdit DEF EditMap, Types
<1>2. type # "other" => \E c \in Blocks : bs = {c}
  BY BlocksInOrder, FS_Singleton DEF EditMap
<1>3. /\ Edited(type, edits + 1, bs)
      /\ UNCHANGED <<remote, down0, down2, up0, up2, client, mistaken, unreverted>>
  BY DEF EditMap, netVars, clientVars
<1>4. U0(b)' = U0(b)
  BY <1>3 DEF U0
<1> QED BY <1>1, <1>2, <1>3, <1>4, AgreesEdited

LEMMA AgreesInteract ==
  ASSUME Types, NEW b \in Blocks, Agrees(b), Interacts
  PROVE  Agrees(b)'
<1>1. PICK m \in Interactions, done \in BOOLEAN : InteractEffect(m, done)
  BY InteractEffects DEF Types
<1>2. /\ UNCHANGED <<down0, down2, up2, client, mistaken>>
      /\ remote'.sending \subseteq remote.sending /\ remote'.sent \subseteq remote.sent
      /\ ToSet(up0) = ToSet(up0') \cup {m} /\ unreverted \subseteq unreverted'
  BY <1>1 DEF InteractEffect
<1>3. m.block \in Blocks /\ m.edit \in Edits /\ {m.block} \in SUBSET Blocks
  BY DEF Interactions
<1>4. U0(b) \subseteq U0(b)' \cup (IF b \in {m.block} THEN {m.edit} ELSE {})
  BY <1>2 DEF U0
<1>5. CASE done
  <2>1. Edited("node", m.edit, {m.block}) /\ \E c \in Blocks : {m.block} = {c}
    BY <1>1, <1>3, <1>5 DEF InteractEffect
  <2> QED BY <1>2, <1>3, <1>4, <2>1, AgreesEdited
<1>6. CASE ~done
  <2>1. /\ UNCHANGED <<map, m_unsent_map_edit_queue>>
        /\ m.block \in unreverted' \/ m.block \notin remote'.sending \cup remote'.sent
    BY <1>1, <1>6 DEF InteractEffect
  <2>2. QE(b)' = QE(b) /\ D0(b)' = D0(b) /\ (Deleting(b) <=> Deleting(b)')
        /\ (OnTheWay(b)' <=> OnTheWay(b))
    BY <1>2, <2>1 DEF QE, D0, Deleting, OnTheWay
  <2>3. b # m.block => U0(b) \subseteq U0(b)'
    BY <1>4
  <2> QED BY <1>2, <2>1, <2>2, <2>3, AgreesFrame
<1> QED BY <1>5, <1>6

LEMMA AgreesEmerged ==
  ASSUME TypeOK, NEW b \in Blocks, Agrees(b), NEW c \in Blocks, EmergesBlock(c)
  PROVE  Agrees(b)'
<1>1. PICK generated \in BOOLEAN : Emerged(c, generated)
  BY DEF EmergesBlock
<1>2. UNCHANGED <<map, remote, down0, down2, up0, up2, client, mistaken, unreverted>>
  BY <1>1 DEF Emerged, netVars, clientVars
<1>3. QE(b) \subseteq QE(b)'
  <2> DEFINE e == [type |-> "other", edit |-> 0, blocks |-> {c}]
  <2>1. e \in MapEditEvents /\ m_unsent_map_edit_queue \in Seq(MapEditEvents)
    BY TypesParts, Limits DEF MapEditEvents
  <2>2. \/ m_unsent_map_edit_queue' = Append(m_unsent_map_edit_queue, e)
        \/ m_unsent_map_edit_queue' = m_unsent_map_edit_queue
    BY <1>1 DEF Emerged
  <2> HIDE DEF e
  <2>3. ToSet(m_unsent_map_edit_queue) \subseteq ToSet(m_unsent_map_edit_queue')
    <3>1. ToSet(Append(m_unsent_map_edit_queue, e)) = ToSet(m_unsent_map_edit_queue) \cup {e}
      BY <2>1, AppendSet
    <3>2. CASE m_unsent_map_edit_queue' = Append(m_unsent_map_edit_queue, e)
      BY <3>1, <3>2
    <3>3. CASE m_unsent_map_edit_queue' = m_unsent_map_edit_queue
      BY <3>3
    <3> QED BY <2>2, <3>2, <3>3
  <2> QED BY <2>3 DEF QE
<1>4. D0(b)' = D0(b) /\ U0(b)' = U0(b) /\ Deleting(b)' = Deleting(b)
      /\ (OnTheWay(b)' <=> OnTheWay(b))
  BY <1>2 DEF D0, U0, Deleting, OnTheWay
<1> QED BY <1>2, <1>3, <1>4, AgreesFrame

LEMMA AgreesMapEditsSent ==
  ASSUME Types, NEW b \in Blocks, Agrees(b),
         NEW near \in SUBSET DOMAIN m_unsent_map_edit_queue, SendMapEdits(near)
  PROVE  Agrees(b)'
<1>1. /\ ToSet(down0) \subseteq ToSet(down0')
      /\ remote'.sending \subseteq remote.sending /\ remote'.sent \subseteq remote.sent
      /\ \A c \in remote'.sending \cup remote'.sent, e \in ToSet(m_unsent_map_edit_queue) :
           c \in e.blocks => /\ [block |-> c, edit |-> e.edit] \in ToSet(down0')
                             /\ c \notin remote'.sending
  BY MapEditsSent
<1>2. UNCHANGED <<map, down2, up0, up2, client, mistaken, unreverted>>
  BY DEF SendMapEdits, clientVars
<1>3. /\ D0(b) \subseteq D0(b)' /\ U0(b)' = U0(b) /\ Deleting(b)' = Deleting(b)
      /\ (OnTheWay(b)' <=> OnTheWay(b))
  BY <1>1, <1>2 DEF D0, U0, Deleting, OnTheWay
<1>4. ASSUME b \in remote'.sending \cup remote'.sent PROVE QE(b) \subseteq D0(b)'
  <2> SUFFICES ASSUME NEW e \in ToSet(m_unsent_map_edit_queue), b \in e.blocks
               PROVE  e.edit \in D0(b)'
    BY DEF QE
  <2> DEFINE m == [block |-> b, edit |-> e.edit]
  <2>1. m \in ToSet(down0') /\ m.block = b /\ m.edit = e.edit
    BY <1>1, <1>4
  <2> HIDE DEF m
  <2> QED BY <2>1 DEF D0
<1>5. ASSUME b \in remote'.sending PROVE QE(b) = {}
  BY <1>1, <1>5 DEF QE
<1>6. ASSUME b \in remote'.sending \cup remote'.sent, AtClient(b) PROVE AtClient(b)'
  BY <1>2, <1>3, <1>4, <1>6 DEF AtClient
<1>7. ASSUME NEW c \in SUBSET Edits, b \in remote'.sending, InCopy(b, c) PROVE InCopy(b, c)'
  BY <1>2, <1>5, <1>7 DEF InCopy
<1>8. ASSUME b \in remote'.sent \ mistaken'
      PROVE  ~OnTheWay(b)' /\ (Deleting(b)' \/ b \in unreverted' \/ AtClient(b)')
  BY <1>1, <1>2, <1>3, <1>6, <1>8 DEF Agrees
<1>9. ASSUME b \in remote'.sending
      PROVE  \/ Deleting(b)'
             \/ ~OnTheWay(b)' /\ (b \in unreverted' \/ AtClient(b)')
             \/ OnTheWay(b)' /\ \A c \in SUBSET Edits : LastIs(down2', b, c) => InCopy(b, c)'
  BY <1>1, <1>2, <1>3, <1>6, <1>7, <1>9 DEF Agrees
<1> QED BY <1>8, <1>9 DEF Agrees, LastIs

LEMMA AgreesReceiveNode ==
  ASSUME Types, NEW b \in Blocks, Agrees(b), ReceiveNode
  PROVE  Agrees(b)'
<1> DEFINE m == Head(down0)
<1>1. /\ TypeOK /\ down0 \in Seq(DownEdits) /\ down0 # <<>> /\ down0' = Tail(down0)
      /\ UNCHANGED <<map, m_unsent_map_edit_queue, remote, down2, up0, up2, mistaken,
                     unreverted>>
  BY TypesParts DEF Types, ReceiveNode, serverVars
<1>2. m \in DownEdits /\ ToSet(down0) = ToSet(down0') \cup {m}
  BY <1>1, TailSet
<1>3. m.block \in Blocks /\ m.edit \in Edits /\ m.edit \in map[m.block]
  BY <1>2 DEF DownEdits, Types, EditsInv
<1>4. client' = IF client[m.block] = NoBlock THEN client
                ELSE [client EXCEPT ![m.block] = client[m.block] \cup {m.edit}]
  BY DEF ReceiveNode
<1> HIDE DEF m
<1>5. QE(b)' = QE(b) /\ U0(b)' = U0(b) /\ Deleting(b)' = Deleting(b)
      /\ (OnTheWay(b)' <=> OnTheWay(b))
  BY <1>1 DEF QE, U0, Deleting, OnTheWay
<1>6. D0(b) \subseteq D0(b)' \cup (IF b = m.block THEN {m.edit} ELSE {})
  BY <1>2 DEF D0
<1>7. ASSUME AtClient(b) PROVE AtClient(b)'
  <2>1. client[b] # NoBlock
    BY <1>7 DEF AtClient
  <2>2. client[b] \in SUBSET Edits
    BY <1>1, <2>1, ClientContents
  <2>3. client'[b] = IF b = m.block THEN client[b] \cup {m.edit} ELSE client[b]
    <3>1. CASE client[m.block] = NoBlock
      BY <1>4, <2>1, <3>1
    <3>2. CASE client[m.block] # NoBlock
      <4>1. client[m.block] \in SUBSET Edits
        BY <1>1, <1>3, <3>2, ClientContents
      <4>2. client[m.block] \cup {m.edit} \in SUBSET Edits
        BY <1>3, <4>1
      <4> QED BY <1>1, <1>3, <1>4, <3>2, <4>2, ClientStores
    <3> QED BY <3>1, <3>2
  <2>4. client'[b] \in SUBSET Edits
    BY <1>3, <2>2, <2>3
  <2>5. client'[b] # NoBlock
    BY <2>4, Limits
  <2>6. client'[b] \subseteq map'[b] \cup U0(b)'
    BY <1>1, <1>3, <1>5, <1>7, <2>3 DEF AtClient
  <2>7. map'[b] \subseteq client'[b] \cup D0(b)' \cup QE(b)'
    BY <1>1, <1>5, <1>6, <1>7, <2>3 DEF AtClient
  <2> QED BY <2>5, <2>6, <2>7 DEF AtClient
<1>8. ASSUME NEW c \in SUBSET Edits, InCopy(b, c) PROVE InCopy(b, c)'
  BY <1>1, <1>5, <1>8 DEF InCopy
<1>9. ASSUME b \in remote'.sent \ mistaken'
      PROVE  ~OnTheWay(b)' /\ (Deleting(b)' \/ b \in unreverted' \/ AtClient(b)')
  BY <1>1, <1>5, <1>7, <1>9 DEF Agrees
<1>10. ASSUME b \in remote'.sending
       PROVE  \/ Deleting(b)'
              \/ ~OnTheWay(b)' /\ (b \in unreverted' \/ AtClient(b)')
              \/ OnTheWay(b)' /\ \A c \in SUBSET Edits : LastIs(down2', b, c) => InCopy(b, c)'
  BY <1>1, <1>5, <1>7, <1>8, <1>10 DEF Agrees
<1> QED BY <1>9, <1>10 DEF Agrees, LastIs

LEMMA AgreesReceiveBlock ==
  ASSUME Types, NEW b \in Blocks, Agrees(b), ReceiveBlock
  PROVE  Agrees(b)'
<1> DEFINE m == Head(down2)
<1>1. /\ TypeOK /\ down2 \in Seq(Copies) /\ down2 # <<>> /\ down2' = Tail(down2)
      /\ client' = [client EXCEPT ![m.block] = m.contents]
      /\ UNCHANGED <<map, m_unsent_map_edit_queue, remote, down0, up0, up2, mistaken>>
      /\ unreverted' = unreverted \ {m.block}
  BY TypesParts DEF Types, ReceiveBlock, serverVars
<1>2. m \in Copies /\ ToSet(down2) = ToSet(down2') \cup {m}
  BY <1>1, TailSet
<1>3. m.block \in Blocks /\ m.contents \in SUBSET Edits
  BY <1>2 DEF Copies
<1>4. m.contents \in (SUBSET Edits) \cup {NoBlock}
  BY <1>3
<1>5. \A c \in SUBSET Edits : LastIs(down2', b, c) => LastIs(down2, b, c)
  BY <1>1, LastOfTail
<1>6. m.block = b /\ ~OnTheWay(b)' => LastIs(down2, b, m.contents)
  <2>1. OnTheWay(b)' <=> \E x \in ToSet(down2') : x.block = b
    BY DEF OnTheWay, ToSet
  <2> QED BY <1>1, <2>1, LastOfTail
<1>7. OnTheWay(b) <=> \E x \in ToSet(down2) : x.block = b
  BY OnTheWayInSet
<1>8. OnTheWay(b)' <=> \E x \in ToSet(down2') : x.block = b
  BY DEF OnTheWay, ToSet
<1> HIDE DEF m
<1>9. client'[m.block] = m.contents /\ \A c \in Blocks \ {m.block} : client'[c] = client[c]
  BY <1>1, <1>3, <1>4, ClientStores
<1>10. QE(b)' = QE(b) /\ D0(b)' = D0(b) /\ U0(b)' = U0(b) /\ Deleting(b)' = Deleting(b)
  BY <1>1 DEF QE, D0, U0, Deleting
<1>11. CASE b # m.block
  <2>1. OnTheWay(b)' <=> OnTheWay(b)
    BY <1>2, <1>7, <1>8, <1>11
  <2> QED BY <1>1, <1>5, <1>9, <1>10, <1>11, <2>1, AgreesFrame
<1>12. CASE b = m.block
  <2>1. OnTheWay(b)
    BY <1>2, <1>7, <1>12
  <2>2. b \notin remote'.sent \ mistaken'
    BY <1>1, <2>1 DEF Agrees
  <2>3. ASSUME b \in remote'.sending, ~Deleting(b)'
        PROVE  \/ ~OnTheWay(b)' /\ (b \in unreverted' \/ AtClient(b)')
               \/ OnTheWay(b)' /\ \A c \in SUBSET Edits : LastIs(down2', b, c) => InCopy(b, c)'
    <3>1. \A c \in SUBSET Edits : LastIs(down2, b, c) => InCopy(b, c)
      BY <1>1, <1>10, <2>1, <2>3 DEF Agrees
    <3>2. \A c \in SUBSET Edits : InCopy(b, c) => InCopy(b, c)'
      BY <1>1, <1>10 DEF InCopy
    <3>3. CASE OnTheWay(b)'
      BY <1>5, <3>1, <3>2, <3>3
    <3>4. CASE ~OnTheWay(b)'
      <4>1. InCopy(b, m.contents)
        BY <1>3, <1>6, <1>12, <3>1, <3>4
      <4>2. client'[b] = m.contents /\ client'[b] # NoBlock
        BY <1>3, <1>9, <1>12, Limits
      <4>3. client'[b] \subseteq map'[b] /\ map'[b] \subseteq client'[b] \cup QE(b)'
        BY <1>1, <1>10, <4>1, <4>2 DEF InCopy
      <4>4. AtClient(b)'
        BY <4>2, <4>3 DEF AtClient
      <4> QED BY <3>4, <4>4
    <3> QED BY <3>3, <3>4
  <2> QED BY <2>2, <2>3 DEF Agrees, LastIs
<1> QED BY <1>11, <1>12

LEMMA AgreesHandleUp2 ==
  ASSUME Types, NEW b \in Blocks, Agrees(b), HandleUp2
  PROVE  Agrees(b)'
<1> DEFINE m == Head(up2)
<1>1. /\ TypeOK /\ remote \in Remotes /\ RemoteOK(remote) /\ up2 \in Seq(Ups) /\ up2 # <<>>
      /\ up2' = Tail(up2)
      /\ UNCHANGED <<map, m_unsent_map_edit_queue, down0, down2, up0, client, unreverted>>
      /\ remote' = IF m.type = "GOTBLOCKS" THEN GotBlock(remote, m.block)
                   ELSE SetBlocksNotSent(remote, {m.block})
      /\ mistaken' = IF m.block \in remote'.sent \ remote.sent /\ OnTheWay(m.block)
                     THEN mistaken \cup {m.block} ELSE mistaken
  BY TypesParts DEF Types, HandleUp2, clientVars
<1>2. m \in Ups /\ ToSet(up2) = ToSet(up2') \cup {m}
  BY <1>1, TailSet
<1>3. m.block \in Blocks /\ {m.block} \in SUBSET Blocks
  BY <1>2 DEF Ups
<1>4. /\ SetBlocksNotSent(remote, {m.block}).sending = remote.sending \ {m.block}
      /\ SetBlocksNotSent(remote, {m.block}).sent = remote.sent \ {m.block}
  BY <1>1, <1>3, NotSentFields
<1>5. /\ GotBlock(remote, m.block).sending = remote.sending \ {m.block}
      /\ GotBlock(remote, m.block).sent = IF m.block \in remote.sending
                                          THEN remote.sent \cup {m.block} ELSE remote.sent
  BY <1>1, <1>3, GotBlockFields
<1> HIDE DEF m
<1>6. /\ QE(b)' = QE(b) /\ D0(b)' = D0(b) /\ U0(b)' = U0(b)
      /\ (OnTheWay(b)' <=> OnTheWay(b)) /\ (AtClient(b)' <=> AtClient(b))
  BY <1>1 DEF QE, D0, U0, OnTheWay, AtClient
<1>7. Deleting(b) /\ ~(m.type = "DELETEDBLOCKS" /\ m.block = b) => Deleting(b)'
  BY <1>2 DEF Deleting
<1>8. mistaken \subseteq mistaken' /\ remote'.sending = remote.sending \ {m.block}
  BY <1>1, <1>4, <1>5
<1>9. CASE b # m.block
  <2>1. b \in remote'.sent => b \in remote.sent
    BY <1>1, <1>4, <1>5, <1>9
  <2>2. Deleting(b) => Deleting(b)'
    BY <1>7, <1>9
  <2> QED BY <1>1, <1>6, <1>8, <2>1, <2>2, AgreesFrame
<1>10. CASE b = m.block /\ m.type # "GOTBLOCKS"
  <2>1. b \notin remote'.sent /\ b \notin remote'.sending
    BY <1>1, <1>4, <1>10
  <2> QED BY <2>1 DEF Agrees
<1>11. CASE b = m.block /\ m.type = "GOTBLOCKS"
  <2>1. b \notin remote'.sending
    BY <1>8, <1>11
  <2>2. Deleting(b) => Deleting(b)'
    BY <1>7, <1>11
  <2>3. CASE b \notin remote.sending
    <3>1. remote'.sent = remote.sent
      BY <1>1, <1>5, <1>11, <2>3
    <3> QED BY <1>1, <1>6, <1>8, <2>1, <2>2, <3>1 DEF Agrees
  <2>4. CASE b \in remote.sending
    <3>1. b \notin remote.sent /\ b \in remote'.sent
      BY <1>1, <1>5, <1>11, <2>4 DEF RemoteOK
    <3>2. OnTheWay(b) => b \in mistaken'
      BY <1>1, <1>11, <3>1
    <3>3. ~OnTheWay(b) => Deleting(b) \/ b \in unreverted \/ AtClient(b)
      BY <2>4 DEF Agrees
    <3> QED BY <1>1, <1>6, <2>1, <2>2, <3>2, <3>3 DEF Agrees
  <2> QED BY <2>3, <2>4
<1> QED BY <1>9, <1>10, <1>11

LEMMA AgreesDeleted ==
  ASSUME TypeOK, NEW b \in Blocks, Agrees(b), NEW c \in Blocks, SendDeletedBlocks(c)
  PROVE  Agrees(b)'
<1> DEFINE m == [type |-> "DELETEDBLOCKS", block |-> c]
<1>1. m \in Ups /\ m.type = "DELETEDBLOCKS" /\ m.block = c
  BY DEF Ups
<1>2. /\ up2 \in Seq(Ups) /\ up2' = Append(up2, m) /\ client' = [client EXCEPT ![c] = NoBlock]
      /\ UNCHANGED <<map, m_unsent_map_edit_queue, remote, down0, down2, up0, mistaken,
                     unreverted>>
  BY TypesParts DEF SendDeletedBlocks, serverVars
<1> HIDE DEF m
<1>3. ToSet(up2') = ToSet(up2) \cup {m}
  BY <1>1, <1>2, AppendSet
<1>4. (Deleting(b) => Deleting(b)') /\ (b = c => Deleting(b)')
  BY <1>1, <1>3 DEF Deleting
<1>5. QE(b)' = QE(b) /\ D0(b)' = D0(b) /\ U0(b)' = U0(b) /\ (OnTheWay(b)' <=> OnTheWay(b))
  BY <1>2 DEF QE, D0, U0, OnTheWay
<1>6. CASE b = c
  <2>1. b \in remote'.sent \ mistaken' => ~OnTheWay(b)'
    BY <1>2, <1>5 DEF Agrees
  <2> QED BY <1>4, <1>6, <2>1 DEF Agrees
<1>7. CASE b # c
  <2>1. client'[b] = client[b]
    <3>1. client \in [Blocks -> (SUBSET Edits) \cup {NoBlock}]
      BY TypesParts
    <3> QED BY <1>2, <1>7, <3>1
  <2> QED BY <1>2, <1>4, <1>5, <2>1, AgreesFrame
<1> QED BY <1>6, <1>7

LEMMA AgreesPredict ==
  ASSUME TypeOK, NEW b \in Blocks, Agrees(b), NEW m \in Interactions, Predict(m)
  PROVE  Agrees(b)'
<1> DEFINE c == m.block
           e == m.edit
<1>1. c \in Blocks /\ e \in Edits
  BY DEF Interactions
<1>2. /\ up0 \in Seq(Interactions) /\ up0' = Append(up0, m) /\ client[c] # NoBlock
      /\ client' = [client EXCEPT ![c] = client[c] \cup {e}]
      /\ UNCHANGED <<map, m_unsent_map_edit_queue, remote, down0, down2, up2, mistaken,
                     unreverted>>
  BY TypesParts DEF Predict, serverVars
<1>3. m.block = c /\ m.edit = e
  OBVIOUS
<1> HIDE DEF c, e
<1>4. client[c] \in SUBSET Edits
  BY <1>1, <1>2, ClientContents
<1>5. client[c] \cup {e} \in SUBSET Edits
  BY <1>1, <1>4
<1>6. client'[c] = client[c] \cup {e} /\ \A d \in Blocks \ {c} : client'[d] = client[d]
  BY <1>1, <1>2, <1>5, ClientStores
<1>7. ToSet(up0') = ToSet(up0) \cup {m}
  BY <1>2, AppendSet
<1>8. U0(b) \subseteq U0(b)' /\ (b = c => e \in U0(b)')
  BY <1>3, <1>7 DEF U0
<1>9. /\ QE(b)' = QE(b) /\ D0(b)' = D0(b) /\ Deleting(b)' = Deleting(b)
      /\ (OnTheWay(b)' <=> OnTheWay(b))
  BY <1>2 DEF QE, D0, Deleting, OnTheWay
<1>10. CASE b # c
  BY <1>1, <1>2, <1>6, <1>8, <1>9, <1>10, AgreesFrame
<1>11. CASE b = c
  <2>1. client'[b] # NoBlock
    BY <1>5, <1>6, <1>11, Limits
  <2>2. AtClient(b) => AtClient(b)'
    BY <1>2, <1>6, <1>8, <1>9, <1>11, <2>1 DEF AtClient
  <2>3. \A d \in SUBSET Edits : InCopy(b, d) => InCopy(b, d)'
    BY <1>2, <1>9 DEF InCopy
  <2>4. \A d : LastIs(down2', b, d) <=> LastIs(down2, b, d)
    BY <1>2
  <2>5. b \in remote'.sent \ mistaken' => ~OnTheWay(b)' /\ (Deleting(b)' \/ b \in unreverted' \/ AtClient(b)')
    BY <1>2, <1>9, <2>2 DEF Agrees
  <2>6. b \in remote'.sending =>
          \/ Deleting(b)'
          \/ ~OnTheWay(b)' /\ (b \in unreverted' \/ AtClient(b)')
          \/ OnTheWay(b)' /\ \A d \in SUBSET Edits : LastIs(down2', b, d) => InCopy(b, d)'
    BY <1>2, <1>9, <2>2, <2>3, <2>4 DEF Agrees
  <2> QED BY <2>5, <2>6 DEF Agrees, LastIs
<1> QED BY <1>10, <1>11

AgreeInv == \A b \in Blocks : Agrees(b)

LEMMA AgreeStep ==
  ASSUME Types, AgreeInv, [Next]_vars
  PROVE  AgreeInv'
<1> SUFFICES ASSUME NEW b \in Blocks PROVE Agrees(b)'
  BY DEF AgreeInv
<1>1. TypeOK /\ Agrees(b)
  BY DEF Types, AgreeInv
<1>2. CASE PauseEnds \/ Turn \/ UNCHANGED vars
  BY <1>1, <1>2, AgreesQuiet
<1>3. ASSUME NEW c \in Blocks, Unload(c) \/ EmergeCancelled(c) \/ SendGotBlocks(c)
      PROVE  Agrees(b)'
  BY <1>1, <1>3, AgreesQuiet
<1>4. CASE SendBlocks
  BY <1>1, <1>4, AgreesSendBlocks
<1>5. ASSUME NEW c \in Blocks, SendBlock(c) PROVE Agrees(b)'
  BY <1>1, <1>5, AgreesSendBlock
<1>6. ASSUME NEW type \in {"node", "meta", "other"}, NEW bs \in SUBSET Blocks, EditMap(type, bs)
      PROVE  Agrees(b)'
  BY <1>1, <1>6, AgreesEditMap
<1>7. CASE Interacts
  BY <1>1, <1>7, AgreesInteract
<1>8. CASE SendsMapEdits
  BY <1>1, <1>8, AgreesMapEditsSent DEF SendsMapEdits
<1>9. ASSUME NEW c \in Blocks, EmergesBlock(c) PROVE Agrees(b)'
  BY <1>1, <1>9, AgreesEmerged
<1>10. CASE ReceiveNode
  BY <1>1, <1>10, AgreesReceiveNode
<1>11. CASE ReceiveBlock
  BY <1>1, <1>11, AgreesReceiveBlock
<1>12. CASE HandleUp2
  BY <1>1, <1>12, AgreesHandleUp2
<1>13. ASSUME NEW c \in Blocks, SendDeletedBlocks(c) PROVE Agrees(b)'
  BY <1>1, <1>13, AgreesDeleted
<1>14. ASSUME NEW m \in Interactions, Predict(m) PROVE Agrees(b)'
  BY <1>1, <1>14, AgreesPredict
<1> QED BY <1>2, <1>3, <1>4, <1>5, <1>6, <1>7, <1>8, <1>9, <1>10, <1>11, <1>12, <1>13, <1>14
        DEF Next, Environment

LEMMA AgreeInit == Init => AgreeInv
BY DEF Init, AgreeInv, Agrees

\* A block that counts as sent, and of which nothing is queued or on its way, is at the
\* client as it is on the server, whatever edits, predictions, refusals, copies, acks and
\* deletions have crossed: unless an ack was taken for that of a later copy, or the client
\* shows a prediction refused in one of the four ways that do not have it sent again.
THEOREM ClientsAgree == Spec => []ClientAgreesUnlessMistaken
<1>1. ASSUME Types, AgreeInv PROVE ClientAgreesUnlessMistaken
  <2> SUFFICES ASSUME NEW b \in remote.sent \ (mistaken \cup unreverted), Quiet(b), ~OnTheWay(b)
               PROVE  client[b] = map[b]
    BY DEF ClientAgreesUnlessMistaken
  <2>1. b \in Blocks /\ TypeOK
    BY <1>1, TypesParts DEF Types, Remotes
  <2>2. Deleting(b) \/ AtClient(b)
    BY <1>1, <2>1 DEF AgreeInv, Agrees
  <2>3. ~InQueue(b) /\ ~Underway(down0, b) /\ ~Underway(up0, b) /\ ~Underway(up2, b)
    BY DEF Quiet
  <2>4. D0(b) = {} /\ U0(b) = {} /\ ~Deleting(b)
    BY <2>3, UnderwayInSet DEF D0, U0, Deleting
  <2>5. QE(b) = {}
    BY <2>3 DEF QE, InQueue, ToSet
  <2>6. client[b] \subseteq map[b] /\ map[b] \subseteq client[b] /\ client[b] # NoBlock
    BY <2>2, <2>4, <2>5 DEF AtClient
  <2>7. client[b] \in SUBSET Edits /\ map[b] \in SUBSET Edits
    BY <2>1, <2>6, ClientContents, TypesParts
  <2> QED BY <2>6, <2>7
<1>2. Types /\ AgreeInv /\ [Next]_vars => AgreeInv'
  BY AgreeStep
<1> QED BY <1>1, <1>2, AgreeInit, AlwaysTypes, PTL DEF Spec

=============================================================================
