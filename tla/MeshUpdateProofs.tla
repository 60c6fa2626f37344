-------------------------- MODULE MeshUpdateProofs --------------------------
(***************************************************************************)
(* The client's mesh updates are right, for any finite sets of blocks and  *)
(* workers, any neighbors that are each other's and any number of writes:  *)
(*   - the references of a block are counted over the queue, the workers   *)
(*     and the results, so nothing is left and nothing dangles;            *)
(*   - one update of a position is made at a time;                         *)
(*   - an ack is owed by one update, whose mesh will be new enough;        *)
(*   - of every block a mesh shows the current data are on their way.      *)
(***************************************************************************)
EXTENDS MeshUpdate, FiniteSetTheorems, SequenceTheorems,
        WellFoundedInduction, TLAPS

-----------------------------------------------------------------------------
(* The inductive invariant.                                                *)

WorkerState ==
  [pc : {"wait", "pop", "fill", "make", "done"}, q : QueuedMeshUpdate,
   left : SUBSET Blocks, copy : Copies]

IsWorking(x) == x.pc \in {"fill", "make"}
IsInFlight(x) == x.pc \in {"fill", "make", "done"}

\* The main thread has written main.block and not yet queued it.
Pending == main.todo # <<>> /\ Head(main.todo) = main.block

\* Where the main thread is in a write, and that it queues the block it wrote once.
MainIsInOrder ==
  /\ \A b \in Blocks : map[b] <= 2 * writes
  /\ main.pc \in {"step", "replacing"} => main.todo = <<>>
  /\ \A i \in 2 .. Len(main.todo) : main.todo[i] # main.block
  /\ main.pc = "writing" =>
       /\ main.todo = <<main.block>> \o Neighbors[main.block]
       /\ map[main.block] = 2 * writes - 1
  /\ main.pc = "queueing" /\ Pending =>
       /\ map[main.block] = 2 * writes
       /\ main.ack => [block |-> main.block, data |-> 2 * writes] \in received

\* The acks of an update are for its block, received and no newer than the block.
UpdateIsSound(u, m, rec) ==
  /\ u.p \in u.map_blocks
  /\ \A b \in u.map_blocks : m[b] # NoBlock
  /\ \A a \in u.ack_list : a \in rec /\ a.block = u.p /\ a.data <= m[u.p]

\* A copy of the blocks bs holds what they once had, which is not newer than what they have.
CopyIsOf(copy, bs, m) ==
  \A b \in Blocks : copy[b] # NoBlock => b \in bs /\ copy[b] <= m[b]

\* What a worker has copied of its own block is at least what its acks are for.
WorkerIsSound(x, m, rec) ==
  /\ UpdateIsSound(x.q, m, rec)
  /\ x.left \subseteq x.q.map_blocks
  /\ x.pc = "fill" <=> x.left # {}
  /\ CopyIsOf(x.copy, x.q.map_blocks \ x.left, m)
  /\ x.q.p \notin x.left => \A a \in x.q.ack_list : a.data <= x.copy[x.q.p]

ResultIsSound(r, m, rec) ==
  /\ \A b \in r.map_blocks : m[b] # NoBlock
  /\ \A a \in r.ack_list : a \in rec /\ a.block = r.p /\ a.data <= r.mesh[r.p]
  /\ CopyIsOf(r.mesh, r.map_blocks, m)

AllAreSound ==
  /\ \A i \in DOMAIN m_queue : UpdateIsSound(m_queue[i], map, received)
  /\ \A w \in Workers : IsWorking(worker[w]) => WorkerIsSound(worker[w], map, received)
  /\ \A i \in DOMAIN m_queue_out : ResultIsSound(m_queue_out[i], map, received)
  /\ \A i \in DOMAIN m_queue_out_urgent :
       ResultIsSound(m_queue_out_urgent[i], map, received) /\ m_queue_out_urgent[i].urgent

\* The queue has one update of a position, and urgents are the positions of the urgent ones.
QueueIsDistinct(s, urgents) ==
  /\ \A i, j \in DOMAIN s : s[i].p = s[j].p => i = j
  /\ \A p \in Blocks : p \in urgents <=> \E i \in DOMAIN s : s[i].p = p /\ s[i].urgent

\* The workers have different positions, which are those in flight.
WorkersAreDistinct(wk, inflight) ==
  /\ \A v, w \in Workers :
       IsInFlight(wk[v]) /\ IsInFlight(wk[w]) /\ wk[v].q.p = wk[w].q.p => v = w
  /\ \A p \in Blocks : p \in inflight <=> \E w \in Workers : IsInFlight(wk[w]) /\ wk[w].q.p = p

PositionsAreDistinct ==
  QueueIsDistinct(m_queue, m_urgents) /\ WorkersAreDistinct(worker, m_inflight_blocks)

\* How many places of a sequence hold a member of S, and how many workers one of Us.
Hits(s, S) == Cardinality({i \in DOMAIN s : s[i] \in S})
Busy(wk, Us) == Cardinality({w \in Workers : IsWorking(wk[w]) /\ wk[w].q \in Us})

\* How many updates under way are in Us, and results in Rs.
Count(que, wk, out, urg, Us, Rs) == Hits(que, Us) + Busy(wk, Us) + Hits(out, Rs) + Hits(urg, Rs)
Total(Us, Rs) == Count(m_queue, worker, m_queue_out, m_queue_out_urgent, Us, Rs)

UpdatesOf(b) == {u \in QueuedMeshUpdate : b \in u.map_blocks}
ResultsOf(b) == {r \in MeshUpdateResult : b \in r.map_blocks}
UpdatesWith(a) == {u \in QueuedMeshUpdate : a \in u.ack_list}
ResultsWith(a) == {r \in MeshUpdateResult : a \in r.ack_list}

\* A block is referenced as often as an update or result under way points to it.
RefsAreCounts == \A b \in Blocks : refs[b] = Total(UpdatesOf(b), ResultsOf(b))

\* An ack is in one place; what is yet to be queued has none.
AcksAreUnique ==
  \A a \in Acks :
    /\ Total(UpdatesWith(a), ResultsWith(a)) <= 1
    /\ Pending /\ a.data = 2 * writes => Total(UpdatesWith(a), ResultsWith(a)) = 0

\* The last result for p in s shows b with data v.
IsLast(s, p, i) == s[i].p = p /\ \A j \in DOMAIN s : j > i => s[j].p # p
Shows(s, p, b, v) == \E i \in DOMAIN s : IsLast(s, p, i) /\ s[i].mesh[b] = v
NoneFor(s, p) == \A i \in DOMAIN s : s[i].p # p
NoWorkerFor(wk, p) == \A w \in Workers : IsWorking(wk[w]) => wk[w].q.p # p

IsListed(s, p) == \E i \in DOMAIN s : s[i] = p
IsQueued(s, p, b) == \E i \in DOMAIN s : s[i].p = p /\ b \in s[i].map_blocks
IsMade(wk, p, b, v) ==
  \E w \in Workers :
    IsWorking(wk[w]) /\ wk[w].q.p = p /\ (b \in wk[w].left \/ wk[w].copy[b] = v)

\* The results leave p with a mesh that shows b with data v.
IsResult(out, urg, shown, p, b, v) ==
  \/ Shows(out, p, b, v) \/ Shows(urg, p, b, v)
  \/ NoneFor(out, p) /\ NoneFor(urg, p) /\ shown[p][b] = v

\* The latest data of b is on its way to the mesh of p, in the last stage that has an
\* update of p.
OnItsWay(p, b) ==
  \/ IsListed(main.todo, p)
  \/ IsQueued(m_queue, p, b)
  \/ NoneFor(m_queue, p) /\ IsMade(worker, p, b, map[b])
  \/ /\ NoneFor(m_queue, p) /\ NoWorkerFor(worker, p)
     /\ IsResult(m_queue_out, m_queue_out_urgent, mesh, p, b, map[b])

MeshesWillBeCurrent ==
  \A p \in Blocks \ overtaken : \A b \in Reads(p) :
    Loaded(p) /\ Loaded(b) => OnItsWay(p, b)

MeshInv ==
  /\ TypeOK /\ MainIsInOrder /\ AllAreSound /\ PositionsAreDistinct
  /\ RefsAreCounts /\ AcksAreUnique /\ MeshesWillBeCurrent

-----------------------------------------------------------------------------
(* Sequences, and counting in them.                                        *)

LEMMA Removing ==
  ASSUME NEW S, NEW s \in Seq(S), NEW i \in 1 .. Len(s)
  PROVE  /\ RemoveAt(s, i) \in Seq(S)
         /\ Len(RemoveAt(s, i)) = Len(s) - 1
         /\ \A k \in 1 .. Len(s) - 1 :
              RemoveAt(s, i)[k] = IF k < i THEN s[k] ELSE s[k + 1]
<1> DEFINE front == SubSeq(s, 1, i - 1)
           back == SubSeq(s, i + 1, Len(s))
<1>1. /\ front \in Seq(S) /\ Len(front) = i - 1
      /\ \A k \in 1 .. i - 1 : front[k] = s[k]
  OBVIOUS
<1>2. /\ back \in Seq(S) /\ Len(back) = Len(s) - i
      /\ \A k \in 1 .. Len(s) - i : back[k] = s[i + k]
  OBVIOUS
<1>3. RemoveAt(s, i) = front \o back
  BY DEF RemoveAt
<1> HIDE DEF front, back
<1>4. Len(s) \in Nat /\ i \in Nat /\ 1 <= i /\ i <= Len(s)
  OBVIOUS
<1>5. front \o back \in Seq(S) /\ Len(front \o back) = Len(s) - 1
  <2>1. front \in Seq(S) /\ back \in Seq(S)
    BY <1>1, <1>2
  <2>2. front \o back \in Seq(S) /\ Len(front \o back) = Len(front) + Len(back)
    BY <2>1
  <2> QED BY <1>1, <1>2, <1>4, <2>2
<1>6. \A k \in 1 .. Len(s) - 1 :
        (front \o back)[k] = IF k < i THEN front[k] ELSE back[k - (i - 1)]
  <2> SUFFICES ASSUME NEW k \in 1 .. Len(s) - 1
               PROVE  (front \o back)[k] = IF k < i THEN front[k] ELSE back[k - (i - 1)]
    OBVIOUS
  <2>1. Len(front) + Len(back) = Len(s) - 1
    BY <1>1, <1>2, <1>4
  <2>2. (front \o back)[k] = IF k <= Len(front) THEN front[k] ELSE back[k - Len(front)]
    BY <1>1, <1>2, <2>1
  <2> QED BY <1>1, <1>4, <2>2
<1>7. \A k \in 1 .. Len(s) - 1 : k >= i => back[k - (i - 1)] = s[k + 1]
  BY <1>2, <1>4
<1> QED BY <1>1, <1>3, <1>4, <1>5, <1>6, <1>7

\* t is s without its element at i.
Lacks(t, s, i) ==
  /\ Len(t) = Len(s) - 1
  /\ \A k \in 1 .. Len(s) - 1 : t[k] = IF k < i THEN s[k] ELSE s[k + 1]

LEMMA TailLacks ==
  ASSUME NEW S, NEW s \in Seq(S), s # <<>>
  PROVE  /\ 1 \in 1 .. Len(s) /\ Head(s) = s[1] /\ Head(s) \in S
         /\ Tail(s) \in Seq(S) /\ Lacks(Tail(s), s, 1)
<1>1. Len(s) \in Nat /\ Len(s) >= 1
  OBVIOUS
<1>2. Tail(s) \in Seq(S) /\ Len(Tail(s)) = Len(s) - 1 /\ Head(s) = s[1] /\ s[1] \in S
  BY <1>1
<1>3. \A k \in 1 .. Len(s) - 1 : Tail(s)[k] = s[k + 1]
  OBVIOUS
<1>4. \A k \in 1 .. Len(s) - 1 : ~(k < 1)
  BY <1>1
<1> QED BY <1>1, <1>2, <1>3, <1>4 DEF Lacks

\* Where the elements of t come from, and where those of s are found in t.
LEMMA Lacking ==
  ASSUME NEW S, NEW s \in Seq(S), NEW t \in Seq(S), NEW i \in 1 .. Len(s), Lacks(t, s, i)
  PROVE  /\ \A k \in DOMAIN t : \E j \in DOMAIN s \ {i} : t[k] = s[j] /\ j = IF k < i THEN k ELSE k + 1
         /\ \A j \in DOMAIN s \ {i} : \E k \in DOMAIN t : t[k] = s[j] /\ k = IF j < i THEN j ELSE j - 1
<1>1. /\ Len(s) \in Nat /\ DOMAIN s = 1 .. Len(s) /\ DOMAIN t = 1 .. Len(s) - 1 /\ i \in Int
      /\ 1 <= i /\ i <= Len(s)
  BY DEF Lacks
<1> DEFINE n == Len(s)
<1>2. n \in Nat /\ n = Len(s)
  BY <1>1
<1> HIDE DEF n
<1>3. ASSUME NEW k \in 1 .. n - 1
      PROVE  \E j \in (1 .. n) \ {i} : t[k] = s[j] /\ j = IF k < i THEN k ELSE k + 1
  <2>1. t[k] = IF k < i THEN s[k] ELSE s[k + 1]
    BY <1>2 DEF Lacks
  <2>2. CASE k < i
    BY <1>1, <1>2, <2>1, <2>2
  <2>3. CASE ~(k < i)
    <3>1. k + 1 \in (1 .. n) \ {i} /\ t[k] = s[k + 1]
      BY <1>1, <1>2, <2>1, <2>3
    <3> QED BY <2>3, <3>1
  <2> QED BY <2>2, <2>3
<1>4. ASSUME NEW j \in (1 .. n) \ {i}
      PROVE  \E k \in 1 .. n - 1 : t[k] = s[j] /\ k = IF j < i THEN j ELSE j - 1
  <2>1. CASE j < i
    <3>1. j \in 1 .. n - 1
      BY <1>1, <1>2, <2>1
    <3>2. t[j] = s[j]
      BY <1>2, <2>1, <3>1 DEF Lacks
    <3> QED BY <2>1, <3>1, <3>2
  <2>2. CASE ~(j < i)
    <3>1. j - 1 \in 1 .. n - 1 /\ ~(j - 1 < i) /\ (j - 1) + 1 = j
      BY <1>1, <1>2, <2>2
    <3>2. t[j - 1] = s[j]
      BY <1>2, <3>1 DEF Lacks
    <3> QED BY <2>2, <3>1, <3>2
  <2> QED BY <2>1, <2>2
<1> QED BY <1>1, <1>2, <1>3, <1>4

LEMMA HitsFinite ==
  ASSUME NEW S, NEW s \in Seq(S), NEW H
  PROVE  /\ IsFiniteSet({i \in DOMAIN s : s[i] \in H})
         /\ Hits(s, H) \in Nat
<1>1. IsFiniteSet(1 .. Len(s)) /\ DOMAIN s = 1 .. Len(s)
  BY FS_Interval
<1>2. IsFiniteSet({i \in DOMAIN s : s[i] \in H})
  BY <1>1, FS_Subset
<1> QED BY <1>2, FS_CardinalityType DEF Hits

LEMMA HitsAppend ==
  ASSUME NEW S, NEW s \in Seq(S), NEW e \in S, NEW H
  PROVE  Hits(Append(s, e), H) = Hits(s, H) + IF e \in H THEN 1 ELSE 0
<1> DEFINE t == Append(s, e)
           A == {i \in DOMAIN s : s[i] \in H}
           B == {i \in DOMAIN t : t[i] \in H}
           n == Len(s)
<1>1. /\ n \in Nat /\ DOMAIN s = 1 .. n /\ DOMAIN t = 1 .. n + 1
      /\ \A i \in 1 .. n : t[i] = s[i]
      /\ t[n + 1] = e
  OBVIOUS
<1>2. IsFiniteSet(A) /\ Hits(s, H) = Cardinality(A) /\ Hits(t, H) = Cardinality(B)
      /\ Cardinality(A) \in Nat
  BY HitsFinite DEF Hits
<1> HIDE DEF t, n
<1>3. n + 1 \notin A
  BY <1>1
<1>4. CASE e \in H
  <2>1. B = A \cup {n + 1}
    BY <1>1, <1>4
  <2> HIDE DEF A, B
  <2> QED BY <1>2, <1>3, <1>4, <2>1, FS_AddElement DEF t
<1>5. CASE e \notin H
  <2>1. B = A
    BY <1>1, <1>5
  <2> HIDE DEF A, B
  <2> QED BY <1>2, <1>5, <2>1 DEF t
<1> QED BY <1>4, <1>5

LEMMA HitsLacks ==
  ASSUME NEW S, NEW s \in Seq(S), NEW t \in Seq(S), NEW i \in 1 .. Len(s), Lacks(t, s, i),
         NEW H
  PROVE  Hits(s, H) = Hits(t, H) + IF s[i] \in H THEN 1 ELSE 0
<1> DEFINE A == {k \in DOMAIN t : t[k] \in H}
           C == {j \in DOMAIN s : s[j] \in H}
           B == C \ {i}
           f == [k \in A |-> IF k < i THEN k ELSE k + 1]
<1>1. /\ IsFiniteSet(A) /\ Hits(t, H) = Cardinality(A) /\ Cardinality(A) \in Nat
      /\ IsFiniteSet(C) /\ Hits(s, H) = Cardinality(C) /\ Cardinality(C) \in Nat
  BY HitsFinite DEF Hits
<1>2. /\ \A k \in DOMAIN t : \E j \in DOMAIN s \ {i} : t[k] = s[j] /\ j = IF k < i THEN k ELSE k + 1
      /\ \A j \in DOMAIN s \ {i} : \E k \in DOMAIN t : t[k] = s[j] /\ k = IF j < i THEN j ELSE j - 1
  BY Lacking
<1>3. A \subseteq Int /\ C \subseteq Int /\ i \in Int
  OBVIOUS
<1>4. f \in [A -> B]
  BY <1>2
<1>5. \A k, l \in A : f[k] = f[l] => k = l
  <2>1. \A k, l \in Int :
          (IF k < i THEN k ELSE k + 1) = (IF l < i THEN l ELSE l + 1) => k = l
    BY <1>3
  <2> QED BY <1>3, <2>1
<1>6. \A j \in B : \E k \in A : f[k] = j
  <2>1. SUFFICES ASSUME NEW j \in B PROVE \E k \in A : f[k] = j
    OBVIOUS
  <2>2. PICK k \in DOMAIN t : t[k] = s[j] /\ k = IF j < i THEN j ELSE j - 1
    BY <1>2
  <2>3. k \in A
    BY <2>2
  <2>4. j \in Int /\ j # i
    BY <1>3
  <2>5. (IF k < i THEN k ELSE k + 1) = j
    BY <1>3, <2>2, <2>4
  <2> QED BY <2>3, <2>5
<1> HIDE DEF A, B, f
<1>7. f \in Bijection(A, B)
  BY <1>4, <1>5, <1>6 DEF Bijection, Injection, Surjection, IsInjective
<1>8. Cardinality(B) = Cardinality(A)
  BY <1>1, <1>7, FS_Bijection DEF ExistsBijection
<1>9. s[i] \in H <=> i \in C
  OBVIOUS
<1> HIDE DEF C
<1>10. Cardinality(B) = IF i \in C THEN Cardinality(C) - 1 ELSE Cardinality(C)
  BY <1>1, FS_RemoveElement DEF B
<1> QED BY <1>1, <1>8, <1>9, <1>10

\* One element is replaced.
Replaces(t, s, i, e) ==
  DOMAIN t = DOMAIN s /\ t[i] = e /\ \A k \in DOMAIN s : k # i => t[k] = s[k]

LEMMA HitsReplaces ==
  ASSUME NEW S, NEW s \in Seq(S), NEW t \in Seq(S), NEW i \in DOMAIN s, NEW e,
         Replaces(t, s, i, e), NEW H
  PROVE  (Hits(t, H) + IF s[i] \in H THEN 1 ELSE 0) = Hits(s, H) + IF e \in H THEN 1 ELSE 0
<1> DEFINE A == {k \in DOMAIN t : t[k] \in H}
           C == {j \in DOMAIN s : s[j] \in H}
<1>1. /\ IsFiniteSet(A) /\ Hits(t, H) = Cardinality(A) /\ Cardinality(A) \in Nat
      /\ IsFiniteSet(C) /\ Hits(s, H) = Cardinality(C) /\ Cardinality(C) \in Nat
  BY HitsFinite DEF Hits
<1>2. A \ {i} = C \ {i} /\ (i \in A <=> e \in H) /\ (i \in C <=> s[i] \in H)
  BY DEF Replaces
<1> HIDE DEF A, C
<1>3. /\ Cardinality(A \ {i}) = IF i \in A THEN Cardinality(A) - 1 ELSE Cardinality(A)
      /\ Cardinality(C \ {i}) = IF i \in C THEN Cardinality(C) - 1 ELSE Cardinality(C)
  BY <1>1, FS_RemoveElement
<1>4. Cardinality(A \ {i}) = Cardinality(C \ {i})
  BY <1>2
<1>5. (Cardinality(A) + IF i \in C THEN 1 ELSE 0) = Cardinality(C) + IF i \in A THEN 1 ELSE 0
  BY <1>1, <1>3, <1>4
<1> QED BY <1>1, <1>2, <1>5

\* What is in a sequence counts, and two places count twice.
LEMMA HitsCounts ==
  ASSUME NEW S, NEW s \in Seq(S), NEW H
  PROVE  /\ Hits(s, H) = 0 <=> \A i \in DOMAIN s : s[i] \notin H
         /\ Hits(s, H) <= 1 => \A i, j \in DOMAIN s : s[i] \in H /\ s[j] \in H => i = j
<1> DEFINE A == {k \in DOMAIN s : s[k] \in H}
<1>1. IsFiniteSet(A) /\ Hits(s, H) = Cardinality(A) /\ Cardinality(A) \in Nat
  BY HitsFinite DEF Hits
<1>2. (\A i \in DOMAIN s : s[i] \notin H) <=> A = {}
  OBVIOUS
<1>3. \A i \in DOMAIN s : s[i] \in H <=> i \in A
  OBVIOUS
<1> HIDE DEF A
<1>4. Cardinality(A) = 0 <=> A = {}
  BY <1>1, FS_EmptySet
<1>5. ASSUME Cardinality(A) <= 1, NEW i \in A, NEW j \in A PROVE i = j
  <2>1. IsFiniteSet(A \ {i}) /\ Cardinality(A \ {i}) = Cardinality(A) - 1
    BY <1>1, FS_RemoveElement
  <2>2. IsFiniteSet(A \ {i}) /\ Cardinality(A \ {i}) \in Nat
    BY <2>1, FS_CardinalityType
  <2>3. Cardinality(A \ {i}) = 0
    BY <1>1, <1>5, <2>1, <2>2
  <2>4. A \ {i} = {}
    BY <2>1, <2>3, FS_EmptySet
  <2> QED BY <2>4
<1> QED BY <1>1, <1>2, <1>3, <1>4, <1>5

LEMMA BusyFinite ==
  ASSUME NEW wk, NEW Us
  PROVE  /\ IsFiniteSet({w \in Workers : IsWorking(wk[w]) /\ wk[w].q \in Us})
         /\ Busy(wk, Us) \in Nat
<1>1. IsFiniteSet({w \in Workers : IsWorking(wk[w]) /\ wk[w].q \in Us})
  BY MeshAssumption, FS_Subset
<1> QED BY <1>1, FS_CardinalityType DEF Busy

LEMMA BusyCounts ==
  ASSUME NEW wk, NEW Us
  PROVE  /\ Busy(wk, Us) = 0 <=> \A w \in Workers : IsWorking(wk[w]) => wk[w].q \notin Us
         /\ Busy(wk, Us) <= 1 =>
              \A v, w \in Workers :
                /\ IsWorking(wk[v]) /\ wk[v].q \in Us
                /\ IsWorking(wk[w]) /\ wk[w].q \in Us
                => v = w
<1> DEFINE A == {w \in Workers : IsWorking(wk[w]) /\ wk[w].q \in Us}
<1>1. IsFiniteSet(A) /\ Busy(wk, Us) = Cardinality(A) /\ Cardinality(A) \in Nat
  BY BusyFinite DEF Busy
<1>2. (\A w \in Workers : IsWorking(wk[w]) => wk[w].q \notin Us) <=> A = {}
  OBVIOUS
<1>3. \A w \in Workers : IsWorking(wk[w]) /\ wk[w].q \in Us <=> w \in A
  OBVIOUS
<1> HIDE DEF A
<1>4. Cardinality(A) = 0 <=> A = {}
  BY <1>1, FS_EmptySet
<1>5. ASSUME Cardinality(A) <= 1, NEW i \in A, NEW j \in A PROVE i = j
  <2>1. IsFiniteSet(A \ {i}) /\ Cardinality(A \ {i}) = Cardinality(A) - 1
    BY <1>1, FS_RemoveElement
  <2>2. IsFiniteSet(A \ {i}) /\ Cardinality(A \ {i}) \in Nat
    BY <2>1, FS_CardinalityType
  <2>3. Cardinality(A \ {i}) = 0
    BY <1>1, <1>5, <2>1, <2>2
  <2>4. A \ {i} = {}
    BY <2>1, <2>3, FS_EmptySet
  <2> QED BY <2>4
<1> QED BY <1>1, <1>2, <1>3, <1>4, <1>5

\* One worker changes.
LEMMA BusyStep ==
  ASSUME NEW wk, NEW next, NEW w \in Workers, NEW Us,
         \A v \in Workers \ {w} : next[v] = wk[v]
  PROVE  (Busy(next, Us) + IF IsWorking(wk[w]) /\ wk[w].q \in Us THEN 1 ELSE 0)
           = Busy(wk, Us) + IF IsWorking(next[w]) /\ next[w].q \in Us THEN 1 ELSE 0
<1> DEFINE A == {v \in Workers : IsWorking(next[v]) /\ next[v].q \in Us}
           C == {v \in Workers : IsWorking(wk[v]) /\ wk[v].q \in Us}
<1>1. /\ IsFiniteSet(A) /\ Busy(next, Us) = Cardinality(A) /\ Cardinality(A) \in Nat
      /\ IsFiniteSet(C) /\ Busy(wk, Us) = Cardinality(C) /\ Cardinality(C) \in Nat
  BY BusyFinite DEF Busy
<1>2. /\ A \ {w} = C \ {w}
      /\ w \in A <=> IsWorking(next[w]) /\ next[w].q \in Us
      /\ w \in C <=> IsWorking(wk[w]) /\ wk[w].q \in Us
  OBVIOUS
<1> HIDE DEF A, C
<1>3. /\ Cardinality(A \ {w}) = IF w \in A THEN Cardinality(A) - 1 ELSE Cardinality(A)
      /\ Cardinality(C \ {w}) = IF w \in C THEN Cardinality(C) - 1 ELSE Cardinality(C)
  BY <1>1, FS_RemoveElement
<1>4. Cardinality(A \ {w}) = Cardinality(C \ {w})
  BY <1>2
<1>5. (Cardinality(A) + IF w \in C THEN 1 ELSE 0) = Cardinality(C) + IF w \in A THEN 1 ELSE 0
  BY <1>1, <1>3, <1>4
<1> QED BY <1>1, <1>2, <1>5

-----------------------------------------------------------------------------
(* Types, and what stays as it is.                                         *)

LEMMA Fields ==
  /\ \A u \in QueuedMeshUpdate :
       u.p \in Blocks /\ u.ack_list \subseteq Acks /\ u.urgent \in BOOLEAN
         /\ u.map_blocks \subseteq Blocks
  /\ \A r \in MeshUpdateResult :
       r.p \in Blocks /\ r.ack_list \subseteq Acks /\ r.urgent \in BOOLEAN
         /\ r.map_blocks \subseteq Blocks /\ r.mesh \in Copies
  /\ \A x \in WorkerState :
       x.q \in QueuedMeshUpdate /\ x.left \subseteq Blocks /\ x.copy \in Copies
         /\ x.pc \in {"wait", "pop", "fill", "make", "done"}
  /\ \A c \in Copies : \A b \in Blocks : c[b] \in Data
  /\ \A a \in Acks : a.block \in Blocks /\ a.data \in Data
  /\ \A d \in Data : d \in Nat /\ d <= 2 * MaxWrites
  /\ Nothing \in Copies /\ \A b \in Blocks : Nothing[b] = NoBlock
<1>1. \A u \in QueuedMeshUpdate :
       u.p \in Blocks /\ u.ack_list \subseteq Acks /\ u.urgent \in BOOLEAN
         /\ u.map_blocks \subseteq Blocks
  BY DEF QueuedMeshUpdate
<1>2. \A r \in MeshUpdateResult :
       r.p \in Blocks /\ r.ack_list \subseteq Acks /\ r.urgent \in BOOLEAN
         /\ r.map_blocks \subseteq Blocks /\ r.mesh \in Copies
  BY DEF MeshUpdateResult
<1>3. \A x \in WorkerState :
       x.q \in QueuedMeshUpdate /\ x.left \subseteq Blocks /\ x.copy \in Copies
         /\ x.pc \in {"wait", "pop", "fill", "make", "done"}
  BY DEF WorkerState
<1>4. \A c \in Copies : \A b \in Blocks : c[b] \in Data
  BY DEF Copies
<1>5. \A a \in Acks : a.block \in Blocks /\ a.data \in Data
  BY DEF Acks
<1>6. \A d \in Data : d \in Nat /\ d <= 2 * MaxWrites
  BY MeshAssumption DEF Data
<1>7. Nothing \in Copies /\ \A b \in Blocks : Nothing[b] = NoBlock
  BY MeshAssumption DEF Nothing, Copies, Data, NoBlock
<1> QED BY <1>1, <1>2, <1>3, <1>4, <1>5, <1>6, <1>7

\* What the variables are, one by one.
Typed ==
  /\ main.todo \in Seq(Blocks) /\ main.block \in Blocks
  /\ main.pc \in {"step", "writing", "queueing", "replacing"}
  /\ main.ack \in BOOLEAN /\ main.urgent \in BOOLEAN
  /\ main = [pc |-> main.pc, todo |-> main.todo, block |-> main.block, ack |-> main.ack,
             urgent |-> main.urgent]
  /\ map \in Copies /\ \A b \in Blocks : map[b] \in Nat /\ mesh[b] \in Copies
  /\ mesh \in [Blocks -> Copies] /\ refs \in [Blocks -> Nat]
  /\ m_queue \in Seq(QueuedMeshUpdate) /\ m_urgents \subseteq Blocks
  /\ m_inflight_blocks \subseteq Blocks
  /\ m_queue_out \in Seq(MeshUpdateResult) /\ m_queue_out_urgent \in Seq(MeshUpdateResult)
  /\ \A i \in DOMAIN m_queue : m_queue[i] \in QueuedMeshUpdate
  /\ \A i \in DOMAIN m_queue_out : m_queue_out[i] \in MeshUpdateResult
  /\ \A i \in DOMAIN m_queue_out_urgent : m_queue_out_urgent[i] \in MeshUpdateResult
  /\ worker \in [Workers -> WorkerState]
  /\ \A w \in Workers : worker[w] \in WorkerState
  /\ received \subseteq Acks /\ overtaken \subseteq Blocks /\ semaphore \subseteq Workers
  /\ writes \in Nat /\ writes <= MaxWrites /\ unloads \in Nat

LEMMA Types == TypeOK => Typed
<1> SUFFICES ASSUME TypeOK PROVE Typed
  OBVIOUS
<1>1. /\ main.todo \in Seq(Blocks) /\ main.block \in Blocks
      /\ main.pc \in {"step", "writing", "queueing", "replacing"}
      /\ main.ack \in BOOLEAN /\ main.urgent \in BOOLEAN
      /\ main = [pc |-> main.pc, todo |-> main.todo, block |-> main.block, ack |-> main.ack,
                 urgent |-> main.urgent]
  BY DEF TypeOK
<1>2. /\ map \in Copies /\ mesh \in [Blocks -> Copies] /\ refs \in [Blocks -> Nat]
      /\ m_queue \in Seq(QueuedMeshUpdate) /\ m_urgents \subseteq Blocks
      /\ m_inflight_blocks \subseteq Blocks
      /\ m_queue_out \in Seq(MeshUpdateResult) /\ m_queue_out_urgent \in Seq(MeshUpdateResult)
      /\ worker \in [Workers -> WorkerState]
      /\ received \subseteq Acks /\ overtaken \subseteq Blocks /\ semaphore \subseteq Workers
  BY DEF TypeOK, WorkerState
<1>3. writes \in Nat /\ writes <= MaxWrites /\ unloads \in Nat
  BY MeshAssumption DEF TypeOK
<1>4. \A b \in Blocks : map[b] \in Nat /\ mesh[b] \in Copies
  BY <1>2, Fields
<1>5. \A w \in Workers : worker[w] \in WorkerState
  BY <1>2
<1>6. /\ \A i \in DOMAIN m_queue : m_queue[i] \in QueuedMeshUpdate
      /\ \A i \in DOMAIN m_queue_out : m_queue_out[i] \in MeshUpdateResult
      /\ \A i \in DOMAIN m_queue_out_urgent : m_queue_out_urgent[i] \in MeshUpdateResult
  BY <1>2
<1> QED BY <1>1, <1>2, <1>3, <1>4, <1>5, <1>6 DEF Typed

LEMMA UpdateStays ==
  ASSUME NEW u \in QueuedMeshUpdate, NEW m \in Copies, NEW n \in Copies, NEW rec, NEW rest,
         UpdateIsSound(u, m, rec), \A b \in u.map_blocks : m[b] <= n[b],
         u.ack_list \subseteq rest
  PROVE  UpdateIsSound(u, n, rest)
<1>1. /\ u.p \in u.map_blocks
      /\ \A b \in u.map_blocks : m[b] # NoBlock
      /\ \A a \in u.ack_list : a.block = u.p /\ a.data <= m[u.p]
  BY DEF UpdateIsSound
<1>2. u.p \in Blocks /\ u.map_blocks \subseteq Blocks /\ u.ack_list \subseteq Acks
  BY Fields
<1>3. \A b \in Blocks : m[b] \in Nat /\ n[b] \in Nat
  BY Fields
<1>4. \A a \in Acks : a.data \in Nat
  BY Fields
<1>5. \A b \in u.map_blocks : n[b] # NoBlock
  BY <1>1, <1>2, <1>3 DEF NoBlock
<1>6. \A a \in u.ack_list : a.data <= n[u.p]
  BY <1>1, <1>2, <1>3, <1>4
<1> QED BY <1>1, <1>5, <1>6 DEF UpdateIsSound

LEMMA CopyStays ==
  ASSUME NEW copy \in Copies, NEW bs \in SUBSET Blocks, NEW m \in Copies, NEW n \in Copies,
         CopyIsOf(copy, bs, m), \A b \in bs : m[b] <= n[b]
  PROVE  CopyIsOf(copy, bs, n)
<1>1. \A b \in Blocks : copy[b] \in Nat /\ m[b] \in Nat /\ n[b] \in Nat
  BY Fields
<1> QED BY <1>1 DEF CopyIsOf

LEMMA WorkerStays ==
  ASSUME NEW x \in WorkerState, NEW m \in Copies, NEW n \in Copies, NEW rec, NEW rest,
         WorkerIsSound(x, m, rec), \A b \in x.q.map_blocks : m[b] <= n[b],
         x.q.ack_list \subseteq rest
  PROVE  WorkerIsSound(x, n, rest)
<1>1. x.q \in QueuedMeshUpdate /\ x.copy \in Copies /\ x.q.map_blocks \subseteq Blocks
  BY Fields
<1>2. UpdateIsSound(x.q, n, rest)
  BY <1>1, UpdateStays DEF WorkerIsSound
<1>3. CopyIsOf(x.copy, x.q.map_blocks \ x.left, n)
  <2>1. /\ x.q.map_blocks \ x.left \in SUBSET Blocks
        /\ CopyIsOf(x.copy, x.q.map_blocks \ x.left, m)
        /\ \A b \in x.q.map_blocks \ x.left : m[b] <= n[b]
    BY <1>1 DEF WorkerIsSound
  <2> QED BY <1>1, <2>1, CopyStays
<1> QED BY <1>2, <1>3 DEF WorkerIsSound

LEMMA ResultStays ==
  ASSUME NEW r \in MeshUpdateResult, NEW m \in Copies, NEW n \in Copies, NEW rec, NEW rest,
         ResultIsSound(r, m, rec), \A b \in r.map_blocks : m[b] <= n[b],
         r.ack_list \subseteq rest
  PROVE  ResultIsSound(r, n, rest)
<1>1. r.map_blocks \in SUBSET Blocks /\ r.mesh \in Copies
  BY Fields
<1>2. CopyIsOf(r.mesh, r.map_blocks, n)
  BY <1>1, CopyStays DEF ResultIsSound
<1>3. \A b \in r.map_blocks : n[b] # NoBlock
  <2>1. \A b \in Blocks : m[b] \in Nat /\ n[b] \in Nat
    BY Fields
  <2> QED BY <1>1, <2>1 DEF ResultIsSound, NoBlock
<1> QED BY <1>2, <1>3 DEF ResultIsSound

\* The map changes, and what is referenced does not become older.
LEMMA MapChanges ==
  ASSUME TypeOK, AllAreSound, UNCHANGED <<m_queue, worker, m_queue_out, m_queue_out_urgent>>,
         map' \in Copies, received \subseteq received', NEW G,
         \A b \in G : map[b] <= map'[b],
         \A i \in DOMAIN m_queue : m_queue[i].map_blocks \subseteq G,
         \A w \in Workers : IsWorking(worker[w]) => worker[w].q.map_blocks \subseteq G,
         \A i \in DOMAIN m_queue_out : m_queue_out[i].map_blocks \subseteq G,
         \A i \in DOMAIN m_queue_out_urgent : m_queue_out_urgent[i].map_blocks \subseteq G
  PROVE  AllAreSound'
<1>0. Typed
  BY Types
<1>1. ASSUME NEW i \in DOMAIN m_queue
      PROVE  UpdateIsSound(m_queue[i], map', received')
  <2>1. m_queue[i] \in QueuedMeshUpdate /\ map \in Copies
    BY <1>0 DEF Typed
  <2>2. UpdateIsSound(m_queue[i], map, received)
    BY DEF AllAreSound
  <2>3. m_queue[i].ack_list \subseteq received'
    BY <2>2 DEF UpdateIsSound
  <2> QED BY <2>1, <2>2, <2>3, UpdateStays
<1>2. ASSUME NEW w \in Workers, IsWorking(worker[w])
      PROVE  WorkerIsSound(worker[w], map', received')
  <2>1. worker[w] \in WorkerState /\ map \in Copies
    BY <1>0 DEF Typed
  <2>2. WorkerIsSound(worker[w], map, received)
    BY <1>2 DEF AllAreSound
  <2>3. worker[w].q.ack_list \subseteq received'
    BY <2>2 DEF WorkerIsSound, UpdateIsSound
  <2> QED BY <1>2, <2>1, <2>2, <2>3, WorkerStays
<1>3. ASSUME NEW r \in MeshUpdateResult, ResultIsSound(r, map, received),
             r.map_blocks \subseteq G
      PROVE  ResultIsSound(r, map', received')
  <2>1. map \in Copies
    BY <1>0 DEF Typed
  <2>2. r.ack_list \subseteq received'
    BY <1>3 DEF ResultIsSound
  <2> QED BY <1>3, <2>1, <2>2, ResultStays
<1>4. \A i \in DOMAIN m_queue_out : ResultIsSound(m_queue_out[i], map', received')
  BY <1>0, <1>3 DEF AllAreSound, Typed
<1>5. \A i \in DOMAIN m_queue_out_urgent : ResultIsSound(m_queue_out_urgent[i], map', received')
  BY <1>0, <1>3 DEF AllAreSound, Typed
<1> QED BY <1>1, <1>2, <1>4, <1>5 DEF AllAreSound

LEMMA LeastNatural ==
  ASSUME NEW S \in SUBSET Nat, S # {}
  PROVE  \E x \in S : \A y \in S : x <= y
<1> DEFINE Less == {pair \in Nat \X Nat : pair[1] < pair[2]}
<1>1. OpToRel(<, Nat) = Less
  BY DEF OpToRel
<1>2. IsWellFoundedOn(Less, Nat)
  BY <1>1, NatLessThanWellFounded
<1>3. \A x, y \in Nat : <<y, x>> \notin Less => x <= y
  <2>1. SUFFICES ASSUME NEW x \in Nat, NEW y \in Nat, y < x PROVE <<y, x>> \in Less
    OBVIOUS
  <2>2. <<y, x>> \in Nat \X Nat /\ <<y, x>>[1] = y /\ <<y, x>>[2] = x
    OBVIOUS
  <2> QED BY <2>1, <2>2
<1> HIDE DEF Less
<1>4. PICK x \in S : \A y \in S : <<y, x>> \notin Less
  BY <1>2, WFMin
<1> QED BY <1>3, <1>4

\* Of the results for a position one is the last.
LEMMA LastOrNone ==
  ASSUME NEW S, NEW s \in Seq(S), NEW p
  PROVE  NoneFor(s, p) \/ \E i \in DOMAIN s : IsLast(s, p, i)
<1>1. SUFFICES ASSUME ~NoneFor(s, p) PROVE \E i \in DOMAIN s : IsLast(s, p, i)
  OBVIOUS
<1> DEFINE n == Len(s)
           F == {k \in 0 .. n : n - k \in DOMAIN s /\ s[n - k].p = p}
<1>2. n \in Nat /\ DOMAIN s = 1 .. n
  OBVIOUS
<1>3. \A i \in DOMAIN s : s[i].p = p => n - i \in F
  <2>1. SUFFICES ASSUME NEW i \in DOMAIN s, s[i].p = p PROVE n - i \in F
    OBVIOUS
  <2>2. n - i \in 0 .. n /\ n - (n - i) = i
    BY <1>2
  <2> QED BY <2>1, <2>2
<1>4. F # {} /\ F \in SUBSET Nat
  <2>1. PICK i \in DOMAIN s : s[i].p = p
    BY <1>1 DEF NoneFor
  <2>2. n - i \in F
    BY <1>3, <2>1
  <2>3. F \in SUBSET Nat
    BY <1>2
  <2> QED BY <2>2, <2>3
<1>5. PICK k \in F : \A l \in F : k <= l
  BY <1>4, LeastNatural
<1>6. n - k \in DOMAIN s /\ s[n - k].p = p /\ k \in Nat
  BY <1>4
<1> HIDE DEF F, n
<1>7. ASSUME NEW j \in DOMAIN s, j > n - k PROVE s[j].p # p
  <2>1. SUFFICES ASSUME s[j].p = p PROVE FALSE
    OBVIOUS
  <2>2. k <= n - j
    BY <1>3, <1>5, <2>1
  <2> QED BY <1>2, <1>6, <1>7, <2>2
<1> QED BY <1>6, <1>7 DEF IsLast

-----------------------------------------------------------------------------
(* Counting what is under way.                                             *)

LEMMA CountParts ==
  ASSUME NEW que \in Seq(QueuedMeshUpdate), NEW wk, NEW out \in Seq(MeshUpdateResult),
         NEW urg \in Seq(MeshUpdateResult), NEW Us, NEW Rs
  PROVE  /\ Hits(que, Us) \in Nat /\ Busy(wk, Us) \in Nat
         /\ Hits(out, Rs) \in Nat /\ Hits(urg, Rs) \in Nat
         /\ Count(que, wk, out, urg, Us, Rs) \in Nat
<1>1. /\ Hits(que, Us) \in Nat /\ Busy(wk, Us) \in Nat
      /\ Hits(out, Rs) \in Nat /\ Hits(urg, Rs) \in Nat
  BY HitsFinite, BusyFinite
<1> QED BY <1>1 DEF Count

\* Nothing is counted.
IsNone(que, wk, out, urg, Us, Rs) ==
  /\ \A i \in DOMAIN que : que[i] \notin Us
  /\ \A w \in Workers : IsWorking(wk[w]) => wk[w].q \notin Us
  /\ \A i \in DOMAIN out : out[i] \notin Rs
  /\ \A i \in DOMAIN urg : urg[i] \notin Rs

LEMMA CountIsZero ==
  ASSUME NEW que \in Seq(QueuedMeshUpdate), NEW wk, NEW out \in Seq(MeshUpdateResult),
         NEW urg \in Seq(MeshUpdateResult), NEW Us, NEW Rs
  PROVE  Count(que, wk, out, urg, Us, Rs) = 0 <=> IsNone(que, wk, out, urg, Us, Rs)
<1>1. /\ Hits(que, Us) \in Nat /\ Busy(wk, Us) \in Nat
      /\ Hits(out, Rs) \in Nat /\ Hits(urg, Rs) \in Nat
  BY CountParts
<1>2. Count(que, wk, out, urg, Us, Rs) = 0 <=>
        Hits(que, Us) = 0 /\ Busy(wk, Us) = 0 /\ Hits(out, Rs) = 0 /\ Hits(urg, Rs) = 0
  BY <1>1 DEF Count
<1>3. Hits(que, Us) = 0 <=> \A i \in DOMAIN que : que[i] \notin Us
  BY HitsCounts
<1>4. Busy(wk, Us) = 0 <=> \A w \in Workers : IsWorking(wk[w]) => wk[w].q \notin Us
  BY BusyCounts
<1>5. Hits(out, Rs) = 0 <=> \A i \in DOMAIN out : out[i] \notin Rs
  BY HitsCounts
<1>6. Hits(urg, Rs) = 0 <=> \A i \in DOMAIN urg : urg[i] \notin Rs
  BY HitsCounts
<1> QED BY <1>2, <1>3, <1>4, <1>5, <1>6 DEF IsNone

\* e is among what is counted.
Among(e, que, wk, out, urg, Us, Rs) ==
  \/ \E i \in DOMAIN que : que[i] = e /\ e \in Us
  \/ \E w \in Workers : IsWorking(wk[w]) /\ wk[w].q = e /\ e \in Us
  \/ \E i \in DOMAIN out : out[i] = e /\ e \in Rs
  \/ \E i \in DOMAIN urg : urg[i] = e /\ e \in Rs

LEMMA CountIsOne ==
  ASSUME NEW que \in Seq(QueuedMeshUpdate), NEW wk, NEW out \in Seq(MeshUpdateResult),
         NEW urg \in Seq(MeshUpdateResult), NEW Us, NEW Rs,
         Count(que, wk, out, urg, Us, Rs) <= 1,
         NEW u, NEW x,
         Among(u, que, wk, out, urg, Us, Rs), Among(x, que, wk, out, urg, Us, Rs)
  PROVE  u = x
<1> DEFINE a == Hits(que, Us)
           b == Busy(wk, Us)
           c == Hits(out, Rs)
           d == Hits(urg, Rs)
<1>1. a \in Nat /\ b \in Nat /\ c \in Nat /\ d \in Nat
  BY CountParts
<1>2. a + b + c + d <= 1
  BY DEF Count
<1>3. /\ a = 0 <=> \A i \in DOMAIN que : que[i] \notin Us
      /\ a <= 1 => \A i, j \in DOMAIN que : que[i] \in Us /\ que[j] \in Us => i = j
  BY HitsCounts
<1>4. /\ b = 0 <=> \A w \in Workers : IsWorking(wk[w]) => wk[w].q \notin Us
      /\ b <= 1 => \A v, w \in Workers :
           IsWorking(wk[v]) /\ wk[v].q \in Us /\ IsWorking(wk[w]) /\ wk[w].q \in Us => v = w
  BY BusyCounts
<1>5. /\ c = 0 <=> \A i \in DOMAIN out : out[i] \notin Rs
      /\ c <= 1 => \A i, j \in DOMAIN out : out[i] \in Rs /\ out[j] \in Rs => i = j
  BY HitsCounts
<1>6. /\ d = 0 <=> \A i \in DOMAIN urg : urg[i] \notin Rs
      /\ d <= 1 => \A i, j \in DOMAIN urg : urg[i] \in Rs /\ urg[j] \in Rs => i = j
  BY HitsCounts
<1> HIDE DEF a, b, c, d
<1>7. /\ a <= 1 /\ b <= 1 /\ c <= 1 /\ d <= 1
      /\ a # 0 => b = 0 /\ c = 0 /\ d = 0
      /\ b # 0 => a = 0 /\ c = 0 /\ d = 0
      /\ c # 0 => a = 0 /\ b = 0 /\ d = 0
      /\ d # 0 => a = 0 /\ b = 0 /\ c = 0
  BY <1>1, <1>2
<1>8. CASE \E i \in DOMAIN que : que[i] = u /\ u \in Us
  <2>1. a # 0
    BY <1>3, <1>8
  <2>2. \E i \in DOMAIN que : que[i] = x /\ x \in Us
    BY <1>4, <1>5, <1>6, <1>7, <2>1 DEF Among
  <2> QED BY <1>3, <1>7, <1>8, <2>2
<1>9. CASE \E w \in Workers : IsWorking(wk[w]) /\ wk[w].q = u /\ u \in Us
  <2>1. b # 0
    BY <1>4, <1>9
  <2>2. \E w \in Workers : IsWorking(wk[w]) /\ wk[w].q = x /\ x \in Us
    BY <1>3, <1>5, <1>6, <1>7, <2>1 DEF Among
  <2> QED BY <1>4, <1>7, <1>9, <2>2
<1>10. CASE \E i \in DOMAIN out : out[i] = u /\ u \in Rs
  <2>1. c # 0
    BY <1>5, <1>10
  <2>2. \E i \in DOMAIN out : out[i] = x /\ x \in Rs
    BY <1>3, <1>4, <1>6, <1>7, <2>1 DEF Among
  <2> QED BY <1>5, <1>7, <1>10, <2>2
<1>11. CASE \E i \in DOMAIN urg : urg[i] = u /\ u \in Rs
  <2>1. d # 0
    BY <1>6, <1>11
  <2>2. \E i \in DOMAIN urg : urg[i] = x /\ x \in Rs
    BY <1>3, <1>4, <1>5, <1>7, <2>1 DEF Among
  <2> QED BY <1>6, <1>7, <1>11, <2>2
<1> QED BY <1>8, <1>9, <1>10, <1>11 DEF Among

\* The result of an update.
ResultOf(u, copy) ==
  [p |-> u.p, ack_list |-> u.ack_list, urgent |-> u.urgent, map_blocks |-> u.map_blocks,
   mesh |-> copy]

\* Rs are the results of the updates in Us.
Matched(Us, Rs) ==
  \A u \in QueuedMeshUpdate : \A copy \in Copies : u \in Us <=> ResultOf(u, copy) \in Rs

LEMMA TheyMatch ==
  /\ \A b : Matched(UpdatesOf(b), ResultsOf(b))
  /\ \A a : Matched(UpdatesWith(a), ResultsWith(a))
<1>1. \A u \in QueuedMeshUpdate : \A copy \in Copies :
        /\ ResultOf(u, copy) \in MeshUpdateResult
        /\ ResultOf(u, copy).map_blocks = u.map_blocks
        /\ ResultOf(u, copy).ack_list = u.ack_list
  BY DEF ResultOf, QueuedMeshUpdate, MeshUpdateResult
<1> QED BY <1>1 DEF Matched, UpdatesOf, ResultsOf, UpdatesWith, ResultsWith

\* A worker takes an update out of the queue.
LEMMA CountPop ==
  ASSUME TypeOK, NEW Us, NEW Rs, NEW w \in Workers, NEW i \in DOMAIN m_queue,
         m_queue' \in Seq(QueuedMeshUpdate), Lacks(m_queue', m_queue, i),
         \A v \in Workers \ {w} : worker'[v] = worker[v],
         ~IsWorking(worker[w]), IsWorking(worker'[w]), worker'[w].q = m_queue[i],
         UNCHANGED <<m_queue_out, m_queue_out_urgent>>
  PROVE  Total(Us, Rs)' = Total(Us, Rs)
<1>1. /\ m_queue \in Seq(QueuedMeshUpdate) /\ m_queue_out \in Seq(MeshUpdateResult)
      /\ m_queue_out_urgent \in Seq(MeshUpdateResult) /\ i \in 1 .. Len(m_queue)
  BY Types DEF Typed
<1>2. Hits(m_queue, Us) = Hits(m_queue', Us) + IF m_queue[i] \in Us THEN 1 ELSE 0
  BY <1>1, HitsLacks
<1>3. (Busy(worker', Us) + IF IsWorking(worker[w]) /\ worker[w].q \in Us THEN 1 ELSE 0)
        = Busy(worker, Us) + IF IsWorking(worker'[w]) /\ worker'[w].q \in Us THEN 1 ELSE 0
  BY BusyStep
<1>4. /\ Hits(m_queue, Us) \in Nat /\ Busy(worker, Us) \in Nat
      /\ Hits(m_queue_out, Rs) \in Nat /\ Hits(m_queue_out_urgent, Rs) \in Nat
      /\ Hits(m_queue', Us) \in Nat /\ Busy(worker', Us) \in Nat
  BY <1>1, CountParts
<1>5. Hits(m_queue', Us) + Busy(worker', Us) = Hits(m_queue, Us) + Busy(worker, Us)
  BY <1>2, <1>3, <1>4
<1>6. Total(Us, Rs)' = Hits(m_queue', Us) + Busy(worker', Us) + Hits(m_queue_out, Rs)
                         + Hits(m_queue_out_urgent, Rs)
  BY DEF Total, Count
<1> QED BY <1>4, <1>5, <1>6 DEF Total, Count

\* The workers go on with the updates they have.
SameUpdates ==
  \A w \in Workers :
    /\ IsWorking(worker'[w]) <=> IsWorking(worker[w])
    /\ IsWorking(worker[w]) => worker'[w].q = worker[w].q

LEMMA CountGoesOn ==
  ASSUME NEW Us, NEW Rs, SameUpdates,
         UNCHANGED <<m_queue, m_queue_out, m_queue_out_urgent>>
  PROVE  Total(Us, Rs)' = Total(Us, Rs)
<1>1. Busy(worker', Us) = Busy(worker, Us)
  <2>1. {v \in Workers : IsWorking(worker'[v]) /\ worker'[v].q \in Us}
          = {v \in Workers : IsWorking(worker[v]) /\ worker[v].q \in Us}
    BY DEF SameUpdates
  <2> QED BY <2>1 DEF Busy
<1> QED BY <1>1 DEF Total, Count

\* A worker hands over its result.
LEMMA CountPut ==
  ASSUME TypeOK, NEW Us, NEW Rs, Matched(Us, Rs), NEW w \in Workers,
         \A v \in Workers \ {w} : worker'[v] = worker[v],
         IsWorking(worker[w]), ~IsWorking(worker'[w]),
         \/ /\ m_queue_out' = Append(m_queue_out, ResultOf(worker[w].q, worker[w].copy))
            /\ UNCHANGED m_queue_out_urgent
         \/ /\ m_queue_out_urgent' =
                 Append(m_queue_out_urgent, ResultOf(worker[w].q, worker[w].copy))
            /\ UNCHANGED m_queue_out,
         UNCHANGED m_queue
  PROVE  Total(Us, Rs)' = Total(Us, Rs)
<1> DEFINE u == worker[w].q
           r == ResultOf(worker[w].q, worker[w].copy)
<1>1. /\ m_queue \in Seq(QueuedMeshUpdate) /\ m_queue_out \in Seq(MeshUpdateResult)
      /\ m_queue_out_urgent \in Seq(MeshUpdateResult)
      /\ u \in QueuedMeshUpdate /\ worker[w].copy \in Copies
  BY Types, Fields DEF Typed
<1>2. r \in MeshUpdateResult /\ (u \in Us <=> r \in Rs)
  <2>1. r \in MeshUpdateResult
    BY <1>1 DEF ResultOf, QueuedMeshUpdate, MeshUpdateResult
  <2> QED BY <1>1, <2>1 DEF Matched
<1>3. (Busy(worker', Us) + IF IsWorking(worker[w]) /\ worker[w].q \in Us THEN 1 ELSE 0)
        = Busy(worker, Us) + IF IsWorking(worker'[w]) /\ worker'[w].q \in Us THEN 1 ELSE 0
  BY BusyStep
<1>4. /\ Hits(m_queue, Us) \in Nat /\ Busy(worker, Us) \in Nat /\ Busy(worker', Us) \in Nat
      /\ Hits(m_queue_out, Rs) \in Nat /\ Hits(m_queue_out_urgent, Rs) \in Nat
  BY <1>1, CountParts
<1>5. Busy(worker, Us) = Busy(worker', Us) + IF r \in Rs THEN 1 ELSE 0
  BY <1>2, <1>3, <1>4
<1>6. Total(Us, Rs)' = Hits(m_queue, Us) + Busy(worker', Us) + Hits(m_queue_out', Rs)
                         + Hits(m_queue_out_urgent', Rs)
  BY DEF Total, Count
<1>7. Hits(Append(m_queue_out, r), Rs) = Hits(m_queue_out, Rs) + IF r \in Rs THEN 1 ELSE 0
  BY <1>1, <1>2, HitsAppend
<1>8. Hits(Append(m_queue_out_urgent, r), Rs)
        = Hits(m_queue_out_urgent, Rs) + IF r \in Rs THEN 1 ELSE 0
  BY <1>1, <1>2, HitsAppend
<1>9. Total(Us, Rs) = Hits(m_queue, Us) + Busy(worker, Us) + Hits(m_queue_out, Rs)
                         + Hits(m_queue_out_urgent, Rs)
  BY DEF Total, Count
<1> DEFINE one == IF r \in Rs THEN 1 ELSE 0
<1>10. one \in Nat
  OBVIOUS
<1> HIDE DEF u, r, one
<1>11. CASE m_queue_out' = Append(m_queue_out, r) /\ UNCHANGED m_queue_out_urgent
  BY <1>4, <1>5, <1>6, <1>7, <1>9, <1>10, <1>11 DEF one
<1>12. CASE m_queue_out_urgent' = Append(m_queue_out_urgent, r) /\ UNCHANGED m_queue_out
  BY <1>4, <1>5, <1>6, <1>8, <1>9, <1>10, <1>12 DEF one
<1> QED BY <1>11, <1>12 DEF r

LEMMA HitsTail ==
  ASSUME NEW S, NEW s \in Seq(S), s # <<>>, NEW H
  PROVE  /\ Hits(Tail(s), H) \in Nat
         /\ Hits(s, H) = Hits(Tail(s), H) + IF Head(s) \in H THEN 1 ELSE 0
<1>1. /\ 1 \in 1 .. Len(s) /\ Head(s) = s[1]
      /\ Tail(s) \in Seq(S) /\ Lacks(Tail(s), s, 1)
  BY TailLacks
<1>2. PICK t \in Seq(S), i \in 1 .. Len(s) : t = Tail(s) /\ Head(s) = s[i] /\ Lacks(t, s, i)
  BY <1>1
<1>3. Lacks(t, s, i)
  BY <1>2
<1>4. Hits(s, H) = Hits(t, H) + IF s[i] \in H THEN 1 ELSE 0
  BY <1>3, HitsLacks
<1>5. Hits(t, H) \in Nat
  BY HitsFinite
<1> QED BY <1>2, <1>4, <1>5

\* The main thread takes a result.
LEMMA CountReplace ==
  ASSUME TypeOK, NEW Us, NEW Rs, NEW r,
         \/ /\ m_queue_out_urgent # <<>> /\ r = Head(m_queue_out_urgent)
            /\ m_queue_out_urgent' = Tail(m_queue_out_urgent) /\ UNCHANGED m_queue_out
         \/ /\ m_queue_out # <<>> /\ r = Head(m_queue_out)
            /\ m_queue_out' = Tail(m_queue_out) /\ UNCHANGED m_queue_out_urgent,
         UNCHANGED <<m_queue, worker>>
  PROVE  Total(Us, Rs) = Total(Us, Rs)' + IF r \in Rs THEN 1 ELSE 0
<1>1. /\ m_queue \in Seq(QueuedMeshUpdate) /\ m_queue_out \in Seq(MeshUpdateResult)
      /\ m_queue_out_urgent \in Seq(MeshUpdateResult)
  BY Types DEF Typed
<1>2. /\ Hits(m_queue, Us) \in Nat /\ Busy(worker, Us) \in Nat
      /\ Hits(m_queue_out, Rs) \in Nat /\ Hits(m_queue_out_urgent, Rs) \in Nat
  BY <1>1, CountParts
<1>3. /\ Total(Us, Rs)' = Hits(m_queue, Us) + Busy(worker, Us) + Hits(m_queue_out', Rs)
                           + Hits(m_queue_out_urgent', Rs)
      /\ Total(Us, Rs) = Hits(m_queue, Us) + Busy(worker, Us) + Hits(m_queue_out, Rs)
                           + Hits(m_queue_out_urgent, Rs)
  BY DEF Total, Count
<1>4. ASSUME NEW s \in Seq(MeshUpdateResult), s # <<>>, r = Head(s)
      PROVE  /\ Hits(Tail(s), Rs) \in Nat
             /\ Hits(s, Rs) = Hits(Tail(s), Rs) + IF r \in Rs THEN 1 ELSE 0
  BY <1>4, HitsTail
<1> DEFINE one == IF r \in Rs THEN 1 ELSE 0
<1>5. one \in Nat
  OBVIOUS
<1> HIDE DEF one
<1>6. CASE /\ m_queue_out_urgent # <<>> /\ r = Head(m_queue_out_urgent)
           /\ m_queue_out_urgent' = Tail(m_queue_out_urgent) /\ UNCHANGED m_queue_out
  <2>1. /\ Hits(m_queue_out_urgent', Rs) \in Nat
        /\ Hits(m_queue_out_urgent, Rs) = Hits(m_queue_out_urgent', Rs) + one
    BY <1>1, <1>4, <1>6 DEF one
  <2> QED BY <1>2, <1>3, <1>5, <1>6, <2>1 DEF one
<1>7. CASE /\ m_queue_out # <<>> /\ r = Head(m_queue_out)
           /\ m_queue_out' = Tail(m_queue_out) /\ UNCHANGED m_queue_out_urgent
  <2>1. /\ Hits(m_queue_out', Rs) \in Nat
        /\ Hits(m_queue_out, Rs) = Hits(m_queue_out', Rs) + one
    BY <1>1, <1>4, <1>7 DEF one
  <2> QED BY <1>2, <1>3, <1>5, <1>7, <2>1 DEF one
<1> QED BY <1>6, <1>7

\* An update is put into the queue, or takes another one in.
LEMMA CountAppend ==
  ASSUME TypeOK, NEW Us, NEW Rs, NEW u \in QueuedMeshUpdate, m_queue' = Append(m_queue, u),
         UNCHANGED <<worker, m_queue_out, m_queue_out_urgent>>
  PROVE  Total(Us, Rs)' = Total(Us, Rs) + IF u \in Us THEN 1 ELSE 0
<1>1. /\ m_queue \in Seq(QueuedMeshUpdate) /\ m_queue_out \in Seq(MeshUpdateResult)
      /\ m_queue_out_urgent \in Seq(MeshUpdateResult)
  BY Types DEF Typed
<1>2. /\ Hits(m_queue, Us) \in Nat /\ Busy(worker, Us) \in Nat
      /\ Hits(m_queue_out, Rs) \in Nat /\ Hits(m_queue_out_urgent, Rs) \in Nat
  BY <1>1, CountParts
<1>3. Hits(m_queue', Us) = Hits(m_queue, Us) + IF u \in Us THEN 1 ELSE 0
  BY <1>1, HitsAppend
<1>4. /\ Total(Us, Rs)' = Hits(m_queue', Us) + Busy(worker, Us) + Hits(m_queue_out, Rs)
                           + Hits(m_queue_out_urgent, Rs)
      /\ Total(Us, Rs) = Hits(m_queue, Us) + Busy(worker, Us) + Hits(m_queue_out, Rs)
                           + Hits(m_queue_out_urgent, Rs)
  BY DEF Total, Count
<1> QED BY <1>2, <1>3, <1>4

LEMMA CountMerge ==
  ASSUME TypeOK, NEW Us, NEW Rs, NEW i \in DOMAIN m_queue, NEW u,
         m_queue' \in Seq(QueuedMeshUpdate), Replaces(m_queue', m_queue, i, u),
         UNCHANGED <<worker, m_queue_out, m_queue_out_urgent>>
  PROVE  (Total(Us, Rs)' + IF m_queue[i] \in Us THEN 1 ELSE 0)
           = Total(Us, Rs) + IF u \in Us THEN 1 ELSE 0
<1>1. /\ m_queue \in Seq(QueuedMeshUpdate) /\ m_queue_out \in Seq(MeshUpdateResult)
      /\ m_queue_out_urgent \in Seq(MeshUpdateResult)
  BY Types DEF Typed
<1>2. /\ Hits(m_queue, Us) \in Nat /\ Busy(worker, Us) \in Nat /\ Hits(m_queue', Us) \in Nat
      /\ Hits(m_queue_out, Rs) \in Nat /\ Hits(m_queue_out_urgent, Rs) \in Nat
  BY <1>1, CountParts, HitsFinite
<1>3. (Hits(m_queue', Us) + IF m_queue[i] \in Us THEN 1 ELSE 0)
        = Hits(m_queue, Us) + IF u \in Us THEN 1 ELSE 0
  BY <1>1, HitsReplaces
<1>4. /\ Total(Us, Rs)' = Hits(m_queue', Us) + Busy(worker, Us) + Hits(m_queue_out, Rs)
                           + Hits(m_queue_out_urgent, Rs)
      /\ Total(Us, Rs) = Hits(m_queue, Us) + Busy(worker, Us) + Hits(m_queue_out, Rs)
                           + Hits(m_queue_out_urgent, Rs)
  BY DEF Total, Count
<1> DEFINE old == IF m_queue[i] \in Us THEN 1 ELSE 0
           new == IF u \in Us THEN 1 ELSE 0
           rest == Busy(worker, Us) + Hits(m_queue_out, Rs) + Hits(m_queue_out_urgent, Rs)
<1>5. old \in Nat /\ new \in Nat /\ rest \in Nat
  BY <1>2
<1>6. Total(Us, Rs)' = Hits(m_queue', Us) + rest /\ Total(Us, Rs) = Hits(m_queue, Us) + rest
  BY <1>2, <1>4
<1> HIDE DEF old, new, rest
<1>7. Hits(m_queue', Us) + old = Hits(m_queue, Us) + new
  BY <1>3 DEF old, new
<1>8. \A a, b, c, d, e \in Nat : a + d = b + e => (a + c) + d = (b + c) + e
  OBVIOUS
<1>9. Total(Us, Rs)' + old = Total(Us, Rs) + new
  BY ONLY <1>2, <1>5, <1>6, <1>7, <1>8
<1> QED BY <1>9 DEF old, new

-----------------------------------------------------------------------------
(* Steps that change nothing the invariant relates.                        *)

\* Nothing is counted that was not, and nothing is counted less.
LEMMA CountsKept ==
  ASSUME RefsAreCounts, AcksAreUnique, UNCHANGED <<refs, writes>>, Pending' => Pending,
         \A b \in Blocks :
           Total(UpdatesOf(b), ResultsOf(b))' = Total(UpdatesOf(b), ResultsOf(b)),
         \A a \in Acks :
           Total(UpdatesWith(a), ResultsWith(a))' = Total(UpdatesWith(a), ResultsWith(a))
  PROVE  RefsAreCounts' /\ AcksAreUnique'
<1>1. RefsAreCounts'
  BY DEF RefsAreCounts
<1>2. AcksAreUnique'
  BY DEF AcksAreUnique
<1> QED BY <1>1, <1>2

LEMMA AllGoOn ==
  ASSUME RefsAreCounts, AcksAreUnique, UNCHANGED <<refs, writes>>, Pending' => Pending,
         SameUpdates, UNCHANGED <<m_queue, m_queue_out, m_queue_out_urgent>>
  PROVE  RefsAreCounts' /\ AcksAreUnique'
<1>1. /\ \A b \in Blocks :
           Total(UpdatesOf(b), ResultsOf(b))' = Total(UpdatesOf(b), ResultsOf(b))
      /\ \A a \in Acks :
           Total(UpdatesWith(a), ResultsWith(a))' = Total(UpdatesWith(a), ResultsWith(a))
  BY CountGoesOn
<1> QED BY <1>1, CountsKept

\* Whoever works on something goes on as it was.
WorkersWait ==
  \A w \in Workers :
    worker'[w] = worker[w] \/ (~IsInFlight(worker'[w]) /\ ~IsInFlight(worker[w]))

LEMMA WaitingIsIdle ==
  ASSUME NEW wk, NEW p, NEW b, NEW v, NEW next,
         \A w \in Workers :
           next[w] = wk[w] \/ (~IsInFlight(next[w]) /\ ~IsInFlight(wk[w]))
  PROVE  /\ \A w \in Workers : IsWorking(next[w]) <=> IsWorking(wk[w])
         /\ \A w \in Workers : IsWorking(wk[w]) => next[w] = wk[w]
         /\ IsMade(wk, p, b, v) => IsMade(next, p, b, v)
         /\ NoWorkerFor(wk, p) => NoWorkerFor(next, p)
<1>1. \A x : IsWorking(x) => IsInFlight(x)
  BY DEF IsWorking, IsInFlight
<1>2. \A w \in Workers : (IsWorking(next[w]) <=> IsWorking(wk[w]))
                         /\ (IsWorking(wk[w]) => next[w] = wk[w])
  BY <1>1
<1> QED BY <1>2 DEF IsMade, NoWorkerFor

LEMMA FrameKeeps ==
  ASSUME MeshInv, TypeOK', MainIsInOrder', WorkersWait,
         UNCHANGED <<map, refs, mesh, m_queue, m_urgents, m_inflight_blocks,
                     m_queue_out, m_queue_out_urgent, received, overtaken, writes>>,
         main'.todo = main.todo, main'.block = main.block
  PROVE  MeshInv'
<1>0. /\ AllAreSound /\ PositionsAreDistinct /\ RefsAreCounts /\ AcksAreUnique
      /\ MeshesWillBeCurrent
  BY DEF MeshInv
<1>1. \A w \in Workers : (IsWorking(worker'[w]) <=> IsWorking(worker[w]))
                         /\ (IsWorking(worker[w]) => worker'[w] = worker[w])
  BY WaitingIsIdle DEF WorkersWait
<1>2. SameUpdates
  BY <1>1 DEF SameUpdates
<1>3. Pending' => Pending
  BY DEF Pending
<1>4. RefsAreCounts' /\ AcksAreUnique'
  BY <1>0, <1>2, <1>3, AllGoOn
<1>5. AllAreSound'
  BY <1>0, <1>1 DEF AllAreSound
<1>6. PositionsAreDistinct'
  <2>1. QueueIsDistinct(m_queue', m_urgents')
    BY <1>0 DEF PositionsAreDistinct
  <2>2. WorkersAreDistinct(worker, m_inflight_blocks)
    BY <1>0 DEF PositionsAreDistinct
  <2>3. \A w \in Workers : (IsInFlight(worker'[w]) <=> IsInFlight(worker[w]))
                           /\ (IsInFlight(worker[w]) => worker'[w] = worker[w])
    BY DEF WorkersWait
  <2>4. WorkersAreDistinct(worker', m_inflight_blocks')
    BY <2>2, <2>3 DEF WorkersAreDistinct
  <2> QED BY <2>1, <2>4 DEF PositionsAreDistinct
<1>7. MeshesWillBeCurrent'
  <2>1. SUFFICES ASSUME NEW p \in Blocks \ overtaken', NEW b \in Reads(p),
                        Loaded(p)', Loaded(b)'
                 PROVE  OnItsWay(p, b)'
    BY DEF MeshesWillBeCurrent, Reads
  <2>2. OnItsWay(p, b)
    BY <1>0, <2>1 DEF MeshesWillBeCurrent, Loaded
  <2>3. /\ IsMade(worker, p, b, map[b]) => IsMade(worker', p, b, map[b])
        /\ NoWorkerFor(worker, p) => NoWorkerFor(worker', p)
    BY WaitingIsIdle DEF WorkersWait
  <2> QED BY <2>2, <2>3 DEF OnItsWay
<1> QED BY <1>4, <1>5, <1>6, <1>7 DEF MeshInv

LEMMA DeferUpdateKeeps ==
  ASSUME MeshInv, DeferUpdate
  PROVE  MeshInv'
<1>0. Typed /\ TypeOK /\ MainIsInOrder
  BY Types DEF MeshInv
<1>1. /\ main.pc = "queueing" /\ main.todo = <<>> /\ semaphore' = Workers
      /\ main' = [main EXCEPT !.pc = "step"]
      /\ UNCHANGED <<map, refs, mesh, m_queue, m_urgents, m_inflight_blocks, worker,
                     m_queue_out, m_queue_out_urgent, received, overtaken, writes, unloads>>
  BY DEF DeferUpdate, mapVars, queueVars, outVars, history
<1>2. /\ main'.pc = "step" /\ main'.todo = <<>> /\ main'.block = main.block
      /\ main' \in [pc : {"step", "writing", "queueing", "replacing"}, todo : Seq(Blocks),
                    block : Blocks, ack : BOOLEAN, urgent : BOOLEAN]
  BY <1>0, <1>1 DEF Typed
<1>3. TypeOK'
  BY <1>0, <1>1, <1>2 DEF TypeOK
<1>4. MainIsInOrder'
  BY <1>0, <1>1, <1>2 DEF MainIsInOrder, Pending
<1>5. WorkersWait
  BY <1>1 DEF WorkersWait
<1>6. main'.todo = main.todo /\ main'.block = main.block
  BY <1>1, <1>2
<1> QED BY <1>1, <1>3, <1>4, <1>5, <1>6, FrameKeeps

LEMMA ReplacingKeeps ==
  ASSUME MeshInv, BeginReplace \/ EndReplace
  PROVE  MeshInv'
<1>0. Typed /\ TypeOK /\ MainIsInOrder
  BY Types DEF MeshInv
<1>1. /\ main.pc \in {"step", "replacing"}
      /\ main' = [main EXCEPT !.pc = "step"] \/ main' = [main EXCEPT !.pc = "replacing"]
      /\ UNCHANGED <<map, refs, mesh, m_queue, m_urgents, m_inflight_blocks, worker, semaphore,
                     m_queue_out, m_queue_out_urgent, received, overtaken, writes, unloads>>
  BY DEF BeginReplace, EndReplace, mapVars, queueVars, outVars, history
<1>2. /\ main'.pc \in {"step", "replacing"} /\ main'.todo = main.todo
      /\ main'.block = main.block /\ main.todo = <<>>
      /\ main' \in [pc : {"step", "writing", "queueing", "replacing"}, todo : Seq(Blocks),
                    block : Blocks, ack : BOOLEAN, urgent : BOOLEAN]
  BY <1>0, <1>1 DEF Typed, MainIsInOrder
<1>3. TypeOK'
  BY <1>0, <1>1, <1>2 DEF TypeOK
<1>4. MainIsInOrder'
  BY <1>0, <1>1, <1>2 DEF MainIsInOrder, Pending
<1>5. WorkersWait
  BY <1>1 DEF WorkersWait
<1>6. main'.todo = main.todo /\ main'.block = main.block
  BY <1>1, <1>2
<1> QED BY <1>1, <1>3, <1>4, <1>5, <1>6, FrameKeeps

\* Going to another pc that is not in flight.
LEMMA IdleKeeps ==
  ASSUME MeshInv, NEW w \in Workers, NEW pc \in {"wait", "pop"},
         worker[w].pc \in {"wait", "pop"}, Goto(w, pc), semaphore' \subseteq Workers,
         UNCHANGED <<main, map, refs, mesh, m_queue, m_urgents, m_inflight_blocks,
                     m_queue_out, m_queue_out_urgent, received, overtaken, writes, unloads>>
  PROVE  MeshInv'
<1>0. Typed /\ TypeOK /\ MainIsInOrder
  BY Types DEF MeshInv
<1>1. worker' = [worker EXCEPT ![w].pc = pc]
  BY DEF Goto
<1>2. worker[w] \in WorkerState /\ worker \in [Workers -> WorkerState]
  BY <1>0 DEF Typed
<1>3. worker' \in [Workers -> WorkerState]
  <2>1. [worker[w] EXCEPT !.pc = pc] \in WorkerState
    BY <1>2 DEF WorkerState
  <2> QED BY <1>1, <1>2, <2>1
<1>4. TypeOK'
  BY <1>0, <1>3 DEF TypeOK, WorkerState
<1>5. MainIsInOrder'
  BY <1>0 DEF MainIsInOrder, Pending
<1>6. WorkersWait
  <2>1. worker'[w].pc = pc
    BY <1>1, <1>2 DEF WorkerState
  <2>2. \A v \in Workers \ {w} : worker'[v] = worker[v]
    BY <1>1, <1>2
  <2>3. ~IsInFlight(worker'[w]) /\ ~IsInFlight(worker[w])
    BY <2>1 DEF IsInFlight
  <2>4. \A v \in Workers : v = w \/ v \in Workers \ {w}
    OBVIOUS
  <2> QED BY <2>2, <2>3, <2>4 DEF WorkersWait
<1> QED BY <1>4, <1>5, <1>6, FrameKeeps

LEMMA WakeKeeps ==
  ASSUME MeshInv, NEW w \in Workers, Wake(w)
  PROVE  MeshInv'
<1>1. /\ worker[w].pc = "wait" /\ semaphore' = semaphore \ {w} /\ Goto(w, "pop")
      /\ UNCHANGED <<main, map, refs, mesh, m_queue, m_urgents, m_inflight_blocks,
                     m_queue_out, m_queue_out_urgent, received, overtaken, writes, unloads>>
  BY DEF Wake, mapVars, queueVars, outVars, history
<1>2. semaphore' \subseteq Workers
  BY <1>1, Types DEF MeshInv, Typed
<1> QED BY <1>1, <1>2, IdleKeeps

LEMMA StutterKeeps ==
  ASSUME MeshInv, UNCHANGED vars
  PROVE  MeshInv'
<1>0. TypeOK /\ MainIsInOrder
  BY DEF MeshInv
<1>1. UNCHANGED <<main, map, refs, mesh, m_queue, m_urgents, m_inflight_blocks, semaphore,
                  m_queue_out, m_queue_out_urgent, worker, received, overtaken, writes, unloads>>
  BY DEF vars, mapVars, queueVars, outVars, history
<1>2. TypeOK'
  BY <1>0, <1>1 DEF TypeOK
<1>3. MainIsInOrder'
  BY <1>0, <1>1 DEF MainIsInOrder, Pending
<1>4. WorkersWait
  BY <1>1 DEF WorkersWait
<1>5. main'.todo = main.todo /\ main'.block = main.block
  BY <1>1
<1> QED BY <1>1, <1>2, <1>3, <1>4, <1>5, FrameKeeps

-----------------------------------------------------------------------------
(* The main thread changes the map.                                        *)

LEMMA NoneReferenced ==
  ASSUME TypeOK, RefsAreCounts, NEW b \in Blocks, refs[b] = 0
  PROVE  /\ \A i \in DOMAIN m_queue : b \notin m_queue[i].map_blocks
         /\ \A w \in Workers : IsWorking(worker[w]) => b \notin worker[w].q.map_blocks
         /\ \A i \in DOMAIN m_queue_out : b \notin m_queue_out[i].map_blocks
         /\ \A i \in DOMAIN m_queue_out_urgent : b \notin m_queue_out_urgent[i].map_blocks
<1>1. Typed
  BY Types
<1>2. Count(m_queue, worker, m_queue_out, m_queue_out_urgent, UpdatesOf(b), ResultsOf(b)) = 0
  BY DEF RefsAreCounts, Total
<1>3. IsNone(m_queue, worker, m_queue_out, m_queue_out_urgent, UpdatesOf(b), ResultsOf(b))
  BY <1>1, <1>2, CountIsZero DEF Typed
<1>4. \A w \in Workers : worker[w].q \in QueuedMeshUpdate
  BY <1>1, Fields DEF Typed
<1> QED BY <1>1, <1>3, <1>4 DEF IsNone, UpdatesOf, ResultsOf, Typed

\* No ack is for data that was not written yet.
LEMMA AcksAreOld ==
  ASSUME TypeOK, MainIsInOrder, AllAreSound, NEW a \in Acks, a.data > 2 * writes
  PROVE  Total(UpdatesWith(a), ResultsWith(a)) = 0
<1>1. Typed
  BY Types
<1>2. a.data \in Nat /\ writes \in Nat /\ a.data # NoBlock
  <2>1. a.data \in Nat /\ writes \in Nat
    BY <1>1, Fields DEF Typed
  <2> QED BY <2>1 DEF NoBlock
<1>3. \A b \in Blocks : map[b] \in Nat /\ map[b] <= 2 * writes
  BY <1>1 DEF Typed, MainIsInOrder
<1>4. ASSUME NEW u \in QueuedMeshUpdate, UpdateIsSound(u, map, received)
      PROVE  u \notin UpdatesWith(a)
  <2>1. SUFFICES ASSUME a \in u.ack_list PROVE FALSE
    BY DEF UpdatesWith
  <2>2. a.data <= map[u.p] /\ u.p \in Blocks
    BY <1>4, <2>1, Fields DEF UpdateIsSound
  <2> QED BY <1>2, <1>3, <2>2
<1>5. ASSUME NEW r \in MeshUpdateResult, ResultIsSound(r, map, received)
      PROVE  r \notin ResultsWith(a)
  <2>1. SUFFICES ASSUME a \in r.ack_list PROVE FALSE
    BY DEF ResultsWith
  <2>2. r.p \in Blocks /\ r.mesh \in Copies
    BY Fields
  <2>3. r.mesh[r.p] \in Nat
    BY <2>2, Fields
  <2>4. a.data <= r.mesh[r.p]
    BY <1>5, <2>1 DEF ResultIsSound
  <2>5. r.mesh[r.p] # NoBlock
    BY <1>2, <2>3, <2>4 DEF NoBlock
  <2>6. r.mesh[r.p] <= map[r.p]
    BY <1>5, <2>2, <2>5 DEF ResultIsSound, CopyIsOf
  <2> QED BY <1>2, <1>3, <2>2, <2>3, <2>4, <2>6
<1>6. \A w \in Workers : worker[w].q \in QueuedMeshUpdate
  BY <1>1, Fields DEF Typed
<1>7. IsNone(m_queue, worker, m_queue_out, m_queue_out_urgent, UpdatesWith(a), ResultsWith(a))
  <2>1. \A i \in DOMAIN m_queue : m_queue[i] \notin UpdatesWith(a)
    BY <1>1, <1>4 DEF Typed, AllAreSound
  <2>2. \A w \in Workers : IsWorking(worker[w]) => worker[w].q \notin UpdatesWith(a)
    BY <1>4, <1>6 DEF AllAreSound, WorkerIsSound
  <2>3. \A i \in DOMAIN m_queue_out : m_queue_out[i] \notin ResultsWith(a)
    BY <1>1, <1>5 DEF Typed, AllAreSound
  <2>4. \A i \in DOMAIN m_queue_out_urgent : m_queue_out_urgent[i] \notin ResultsWith(a)
    BY <1>1, <1>5 DEF Typed, AllAreSound
  <2> QED BY <2>1, <2>2, <2>3, <2>4 DEF IsNone
<1> QED BY <1>1, <1>7, CountIsZero DEF Typed, Total

\* A block and its neighbors.
LEMMA WhoReads ==
  ASSUME NEW b \in Blocks
  PROVE  /\ <<b>> \o Neighbors[b] \in Seq(Blocks)
         /\ Len(<<b>> \o Neighbors[b]) >= 1 /\ (<<b>> \o Neighbors[b])[1] = b
         /\ Head(<<b>> \o Neighbors[b]) = b /\ <<b>> \o Neighbors[b] # <<>>
         /\ \A i \in 2 .. Len(<<b>> \o Neighbors[b]) : (<<b>> \o Neighbors[b])[i] # b
         /\ \A p \in Blocks : b \in Reads(p) => IsListed(<<b>> \o Neighbors[b], p)
<1> DEFINE s == <<b>>
           n == Neighbors[b]
           t == s \o n
<1>1. n \in Seq(Blocks) /\ s \in Seq(Blocks) /\ Len(s) = 1 /\ s[1] = b
  BY MeshAssumption
<1> HIDE DEF s, n
<1>2. /\ t \in Seq(Blocks) /\ Len(t) = 1 + Len(n) /\ Len(n) \in Nat
      /\ \A i \in 1 .. Len(t) : t[i] = IF i <= 1 THEN s[i] ELSE n[i - 1]
  <2>1. /\ t \in Seq(Blocks) /\ Len(t) = Len(s) + Len(n)
        /\ \A i \in 1 .. Len(s) + Len(n) : t[i] = IF i <= Len(s) THEN s[i] ELSE n[i - Len(s)]
    BY <1>1, ConcatProperties
  <2> HIDE DEF t
  <2>2. Len(n) \in Nat
    BY <1>1, LenProperties
  <2>3. Len(t) = 1 + Len(n)
    BY <1>1, <2>1
  <2>4. \A i \in 1 .. Len(t) : t[i] = IF i <= 1 THEN s[i] ELSE n[i - 1]
    BY <1>1, <2>1
  <2> QED BY <2>1, <2>2, <2>3, <2>4
<1> HIDE DEF t
<1>3. Len(t) >= 1 /\ t[1] = b /\ DOMAIN t = 1 .. Len(t) /\ DOMAIN n = 1 .. Len(n)
  BY <1>1, <1>2
<1>4. Head(t) = b /\ t # <<>>
  BY <1>2, <1>3
<1>5. \A k \in 1 .. Len(n) : n[k] # b
  <2>1. b \notin ToSet(n)
    BY MeshAssumption DEF n
  <2> QED BY <1>3, <2>1 DEF ToSet
<1>6. \A i \in 2 .. Len(t) : t[i] # b
  <2>1. SUFFICES ASSUME NEW i \in 2 .. Len(t) PROVE t[i] # b
    OBVIOUS
  <2>2. t[i] = n[i - 1] /\ i - 1 \in 1 .. Len(n)
    BY <1>2
  <2> QED BY <1>5, <2>2
<1>7. ASSUME NEW p \in Blocks, b \in Reads(p) PROVE IsListed(t, p)
  <2>1. CASE p = b
    BY <1>3, <2>1 DEF IsListed
  <2>2. CASE p # b
    <3>1. p \in ToSet(n)
      BY <1>7, <2>2, MeshAssumption DEF Reads, n
    <3>2. PICK k \in 1 .. Len(n) : n[k] = p
      BY <1>3, <3>1 DEF ToSet
    <3>3. k + 1 \in 1 .. Len(t) /\ ~(k + 1 <= 1) /\ (k + 1) - 1 = k
      BY <1>2
    <3>4. t[k + 1] = p
      BY <1>2, <3>2, <3>3
    <3> QED BY <1>3, <3>3, <3>4 DEF IsListed
  <2> QED BY <2>1, <2>2
<1> QED BY <1>2, <1>3, <1>4, <1>6, <1>7 DEF t, s, n

LEMMA BeginWriteKeeps ==
  ASSUME MeshInv, NEW b \in Blocks, NEW node \in BOOLEAN, BeginWrite(b, node)
  PROVE  MeshInv'
<1>0. /\ Typed /\ TypeOK /\ MainIsInOrder /\ AllAreSound /\ PositionsAreDistinct
      /\ RefsAreCounts /\ AcksAreUnique /\ MeshesWillBeCurrent
  BY Types DEF MeshInv
<1> DEFINE t == <<b>> \o Neighbors[b]
<1>1. /\ main.pc = "step" /\ writes < MaxWrites
      /\ map' = [map EXCEPT ![b] = 2 * writes + 1]
      /\ main' = [pc |-> "writing", todo |-> t, block |-> b, ack |-> ~node, urgent |-> node]
      /\ writes' = writes + 1
  BY DEF BeginWrite
<1>2. UNCHANGED <<refs, mesh, m_queue, m_urgents, m_inflight_blocks, m_queue_out,
                  m_queue_out_urgent, semaphore, worker, received, overtaken, unloads>>
  BY DEF BeginWrite, queueVars, outVars
<1>3. /\ t \in Seq(Blocks) /\ t # <<>> /\ Head(t) = b
      /\ \A i \in 2 .. Len(t) : t[i] # b
      /\ \A p \in Blocks : b \in Reads(p) => IsListed(t, p)
  BY WhoReads
<1> HIDE DEF t
<1>4. /\ main'.pc = "writing" /\ main'.todo = t /\ main'.block = b
      /\ main' \in [pc : {"step", "writing", "queueing", "replacing"}, todo : Seq(Blocks),
                    block : Blocks, ack : BOOLEAN, urgent : BOOLEAN]
  BY <1>1, <1>3
<1>5. writes \in Nat /\ MaxWrites \in Nat /\ writes' \in 0 .. MaxWrites /\ writes' = writes + 1
  <2>1. writes \in Nat /\ MaxWrites \in Nat
    BY <1>0, MeshAssumption DEF Typed
  <2> QED BY <1>1, <2>1
<1>6. 2 * writes + 1 \in Data /\ 2 * writes + 1 # NoBlock
  BY <1>1, <1>5 DEF Data, NoBlock
<1>7. /\ map' \in Copies /\ map'[b] = 2 * writes + 1
      /\ \A c \in Blocks \ {b} : map'[c] = map[c]
  BY <1>0, <1>1, <1>6 DEF Typed, Copies
<1>8. TypeOK'
  BY <1>0, <1>2, <1>4, <1>5, <1>7 DEF TypeOK
<1>9. \A c \in Blocks : map[c] \in Nat /\ map[c] <= 2 * writes
  BY <1>0 DEF Typed, MainIsInOrder
<1>10. MainIsInOrder'
  <2>1. \A c \in Blocks : map'[c] <= 2 * writes'
    BY <1>5, <1>7, <1>9
  <2>2. map'[main'.block] = 2 * writes' - 1
    BY <1>4, <1>5, <1>7
  <2>3. main'.todo = <<main'.block>> \o Neighbors[main'.block]
    BY <1>4 DEF t
  <2>4. \A i \in 2 .. Len(main'.todo) : main'.todo[i] # main'.block
    BY <1>3, <1>4
  <2> QED BY <1>4, <2>1, <2>2, <2>3, <2>4 DEF MainIsInOrder
<1>11. AllAreSound'
  <2>1. \A c \in Blocks : map[c] <= map'[c]
    BY <1>5, <1>7, <1>9
  <2>2. \A w \in Workers : worker[w].q.map_blocks \subseteq Blocks
    BY <1>0, Fields DEF Typed
  <2>3. /\ \A i \in DOMAIN m_queue : m_queue[i].map_blocks \subseteq Blocks
        /\ \A i \in DOMAIN m_queue_out : m_queue_out[i].map_blocks \subseteq Blocks
        /\ \A i \in DOMAIN m_queue_out_urgent : m_queue_out_urgent[i].map_blocks \subseteq Blocks
    BY <1>0, Fields DEF Typed
  <2> QED BY <1>0, <1>2, <1>7, <2>1, <2>2, <2>3, MapChanges
<1>12. PositionsAreDistinct'
  BY <1>0, <1>2 DEF PositionsAreDistinct
<1>13. \A Us, Rs : Total(Us, Rs)' = Total(Us, Rs)
  BY <1>2 DEF Total
<1>14. RefsAreCounts'
  BY <1>0, <1>2, <1>13 DEF RefsAreCounts
<1>15. AcksAreUnique'
  <2>1. SUFFICES ASSUME NEW a \in Acks
                 PROVE  /\ Total(UpdatesWith(a), ResultsWith(a)) <= 1
                        /\ a.data = 2 * writes' => Total(UpdatesWith(a), ResultsWith(a)) = 0
    BY <1>13 DEF AcksAreUnique
  <2>2. a.data = 2 * writes' => a.data > 2 * writes
    BY <1>5
  <2> QED BY <1>0, <2>2, AcksAreOld DEF AcksAreUnique
<1>16. MeshesWillBeCurrent'
  <2>1. SUFFICES ASSUME NEW p \in Blocks \ overtaken', NEW c \in Reads(p),
                        Loaded(p)', Loaded(c)'
                 PROVE  OnItsWay(p, c)'
    BY DEF MeshesWillBeCurrent, Reads
  <2>2. c \in Blocks
    BY MeshAssumption DEF Reads, ToSet
  <2>3. CASE p = b \/ c = b
    <3>1. b \in Reads(p)
      BY <2>1, <2>3 DEF Reads
    <3>2. IsListed(main'.todo, p)
      BY <1>3, <1>4, <3>1
    <3> QED BY <3>2 DEF OnItsWay
  <2>4. CASE p # b /\ c # b
    <3>1. map'[p] = map[p] /\ map'[c] = map[c]
      BY <1>7, <2>2, <2>4
    <3>2. OnItsWay(p, c)
      BY <1>0, <1>2, <2>1, <3>1 DEF MeshesWillBeCurrent, Loaded
    <3>3. ~IsListed(main.todo, p)
      BY <1>0, <1>1 DEF MainIsInOrder, IsListed
    <3> QED BY <1>2, <3>1, <3>2, <3>3 DEF OnItsWay
  <2> QED BY <2>3, <2>4
<1> QED BY <1>8, <1>10, <1>11, <1>12, <1>14, <1>15, <1>16 DEF MeshInv

LEMMA EndWriteKeeps ==
  ASSUME MeshInv, EndWrite
  PROVE  MeshInv'
<1>0. /\ Typed /\ TypeOK /\ MainIsInOrder /\ AllAreSound /\ PositionsAreDistinct
      /\ RefsAreCounts /\ AcksAreUnique /\ MeshesWillBeCurrent
  BY Types DEF MeshInv
<1> DEFINE b == main.block
<1>1. /\ main.pc = "writing"
      /\ map' = [map EXCEPT ![b] = @ + 1]
      /\ main' = [main EXCEPT !.pc = "queueing"]
      /\ received' = IF main.ack THEN received \cup {[block |-> b, data |-> map'[b]]}
                     ELSE received
  BY DEF EndWrite
<1>2. UNCHANGED <<refs, mesh, m_queue, m_urgents, m_inflight_blocks, m_queue_out,
                  m_queue_out_urgent, semaphore, worker, overtaken, writes, unloads>>
  BY DEF EndWrite, queueVars, outVars
<1>3. /\ b \in Blocks /\ main.todo = <<b>> \o Neighbors[b] /\ map[b] = 2 * writes - 1
      /\ writes \in Nat /\ writes <= MaxWrites /\ MaxWrites \in Nat
  BY <1>0, <1>1, MeshAssumption DEF Typed, MainIsInOrder
<1>4. /\ main'.pc = "queueing" /\ main'.todo = main.todo /\ main'.block = b
      /\ main'.ack = main.ack
      /\ main' \in [pc : {"step", "writing", "queueing", "replacing"}, todo : Seq(Blocks),
                    block : Blocks, ack : BOOLEAN, urgent : BOOLEAN]
  BY <1>0, <1>1 DEF Typed
<1> HIDE DEF b
<1>5. \A c \in Blocks : map[c] \in Nat /\ map[c] <= 2 * writes
  BY <1>0 DEF Typed, MainIsInOrder
<1>6. map[b] + 1 = 2 * writes /\ 2 * writes \in Data
  BY <1>3, <1>5 DEF Data
<1>7. map \in Copies
  BY <1>0 DEF Typed
<1>8. map' \in Copies /\ map'[b] = 2 * writes /\ \A c \in Blocks \ {b} : map'[c] = map[c]
  BY <1>1, <1>3, <1>6, <1>7 DEF Copies
<1>9. received \subseteq received' /\ received' \subseteq Acks
  <2>1. [block |-> b, data |-> map'[b]] \in Acks
    BY <1>3, <1>6, <1>8 DEF Acks
  <2> QED BY <1>0, <1>1, <2>1 DEF Typed
<1>10. TypeOK'
  BY <1>0, <1>2, <1>4, <1>8, <1>9 DEF TypeOK
<1>11. \A c \in Blocks : map[c] <= map'[c]
  <2>1. map[b] <= map'[b]
    BY <1>3, <1>5, <1>8
  <2>2. \A c \in Blocks \ {b} : map[c] <= map'[c]
    BY <1>5, <1>8
  <2> QED BY <2>1, <2>2
<1>12. MainIsInOrder'
  <2>1. \A c \in Blocks : map'[c] <= 2 * writes'
    <3>1. map'[b] <= 2 * writes'
      BY <1>2, <1>3, <1>8
    <3>2. \A c \in Blocks \ {b} : map'[c] <= 2 * writes'
      BY <1>2, <1>5, <1>8
    <3> QED BY <3>1, <3>2
  <2>2. \A i \in 2 .. Len(main'.todo) : main'.todo[i] # main'.block
    BY <1>3, <1>4, WhoReads
  <2>3. map'[main'.block] = 2 * writes'
    BY <1>2, <1>4, <1>8
  <2>4. main'.ack => [block |-> main'.block, data |-> 2 * writes'] \in received'
    BY <1>1, <1>2, <1>4, <1>8
  <2> QED BY <1>4, <2>1, <2>2, <2>3, <2>4 DEF MainIsInOrder
<1>13. AllAreSound'
  <2>1. \A w \in Workers : worker[w].q.map_blocks \subseteq Blocks
    BY <1>0, Fields DEF Typed
  <2>2. /\ \A i \in DOMAIN m_queue : m_queue[i].map_blocks \subseteq Blocks
        /\ \A i \in DOMAIN m_queue_out : m_queue_out[i].map_blocks \subseteq Blocks
        /\ \A i \in DOMAIN m_queue_out_urgent : m_queue_out_urgent[i].map_blocks \subseteq Blocks
    BY <1>0, Fields DEF Typed
  <2> QED BY <1>0, <1>2, <1>8, <1>9, <1>11, <2>1, <2>2, MapChanges
<1>14. PositionsAreDistinct'
  BY <1>0, <1>2 DEF PositionsAreDistinct
<1>15. RefsAreCounts' /\ AcksAreUnique'
  <2>1. SameUpdates
    BY <1>2 DEF SameUpdates
  <2>2. Pending' => Pending
    BY <1>4 DEF Pending, b
  <2> QED BY <1>0, <1>2, <2>1, <2>2, AllGoOn
<1>16. MeshesWillBeCurrent'
  <2>1. SUFFICES ASSUME NEW p \in Blocks \ overtaken', NEW c \in Reads(p),
                        Loaded(p)', Loaded(c)'
                 PROVE  OnItsWay(p, c)'
    BY DEF MeshesWillBeCurrent, Reads
  <2>2. c \in Blocks
    BY MeshAssumption DEF Reads, ToSet
  <2>3. CASE p = b \/ c = b
    <3>1. b \in Reads(p)
      BY <2>1, <2>3 DEF Reads
    <3>2. IsListed(main'.todo, p)
      BY <1>3, <1>4, <3>1, WhoReads
    <3> QED BY <3>2 DEF OnItsWay
  <2>4. CASE p # b /\ c # b
    <3>1. map'[p] = map[p] /\ map'[c] = map[c]
      BY <1>8, <2>2, <2>4
    <3>2. OnItsWay(p, c)
      BY <1>0, <1>2, <2>1, <3>1 DEF MeshesWillBeCurrent, Loaded
    <3> QED BY <1>2, <1>4, <3>1, <3>2 DEF OnItsWay
  <2> QED BY <2>3, <2>4
<1> QED BY <1>10, <1>12, <1>13, <1>14, <1>15, <1>16 DEF MeshInv

LEMMA UnloadKeeps ==
  ASSUME MeshInv, NEW b \in Blocks, Unload(b)
  PROVE  MeshInv'
<1>0. /\ Typed /\ TypeOK /\ MainIsInOrder /\ AllAreSound /\ PositionsAreDistinct
      /\ RefsAreCounts /\ AcksAreUnique /\ MeshesWillBeCurrent
  BY Types DEF MeshInv
<1>1. /\ main.pc = "step" /\ refs[b] = 0 /\ unloads < MaxUnloads
      /\ map' = [map EXCEPT ![b] = NoBlock]
      /\ mesh' = [mesh EXCEPT ![b] = Nothing]
      /\ overtaken' = overtaken \ {b} /\ unloads' = unloads + 1
  BY DEF Unload
<1>2. UNCHANGED <<main, refs, m_queue, m_urgents, m_inflight_blocks, m_queue_out,
                  m_queue_out_urgent, semaphore, worker, received, writes>>
  BY DEF Unload, queueVars, outVars
<1>3. map \in Copies /\ mesh \in [Blocks -> Copies] /\ NoBlock \in Data /\ Nothing \in Copies
  BY <1>0, Fields, MeshAssumption DEF Typed, Data, NoBlock
<1>4. /\ map' \in Copies /\ map'[b] = NoBlock /\ mesh' \in [Blocks -> Copies]
      /\ \A c \in Blocks \ {b} : map'[c] = map[c] /\ mesh'[c] = mesh[c]
  BY <1>1, <1>3 DEF Copies
<1>5. unloads' \in 0 .. MaxUnloads
  <2>1. unloads \in Nat /\ MaxUnloads \in Nat
    BY <1>0, MeshAssumption DEF Typed
  <2> QED BY <1>1, <2>1
<1>6. TypeOK'
  BY <1>0, <1>1, <1>2, <1>4, <1>5 DEF TypeOK
<1>7. \A c \in Blocks : map[c] \in Nat /\ map[c] <= 2 * writes /\ writes \in Nat
  BY <1>0 DEF Typed, MainIsInOrder
<1>8. main.pc = "step" /\ main.todo = <<>>
  BY <1>0, <1>1 DEF MainIsInOrder
<1>9. MainIsInOrder'
  <2>1. map'[b] <= 2 * writes'
    BY <1>2, <1>4, <1>7 DEF NoBlock
  <2>2. \A c \in Blocks : map'[c] <= 2 * writes'
    BY <1>2, <1>4, <1>7, <2>1
  <2>3. \A i \in 2 .. Len(main'.todo) : main'.todo[i] # main'.block
    BY <1>0, <1>2 DEF MainIsInOrder
  <2> QED BY <1>2, <1>8, <2>2, <2>3 DEF MainIsInOrder
<1>10. AllAreSound'
  <2>1. /\ \A i \in DOMAIN m_queue : b \notin m_queue[i].map_blocks
        /\ \A w \in Workers : IsWorking(worker[w]) => b \notin worker[w].q.map_blocks
        /\ \A i \in DOMAIN m_queue_out : b \notin m_queue_out[i].map_blocks
        /\ \A i \in DOMAIN m_queue_out_urgent : b \notin m_queue_out_urgent[i].map_blocks
    BY <1>0, <1>1, NoneReferenced
  <2>2. \A w \in Workers : worker[w].q.map_blocks \subseteq Blocks
    BY <1>0, Fields DEF Typed
  <2>3. /\ \A i \in DOMAIN m_queue : m_queue[i].map_blocks \subseteq Blocks
        /\ \A i \in DOMAIN m_queue_out : m_queue_out[i].map_blocks \subseteq Blocks
        /\ \A i \in DOMAIN m_queue_out_urgent : m_queue_out_urgent[i].map_blocks \subseteq Blocks
    BY <1>0, Fields DEF Typed
  <2> DEFINE G == Blocks \ {b}
  <2>4. /\ \A i \in DOMAIN m_queue : m_queue[i].map_blocks \subseteq G
        /\ \A w \in Workers : IsWorking(worker[w]) => worker[w].q.map_blocks \subseteq G
        /\ \A i \in DOMAIN m_queue_out : m_queue_out[i].map_blocks \subseteq G
        /\ \A i \in DOMAIN m_queue_out_urgent : m_queue_out_urgent[i].map_blocks \subseteq G
    BY <2>1, <2>2, <2>3
  <2>5. \A c \in G : map[c] <= map'[c]
    BY <1>4, <1>7
  <2> HIDE DEF G
  <2> QED BY <1>0, <1>2, <1>4, <2>4, <2>5, MapChanges
<1>11. PositionsAreDistinct'
  BY <1>0, <1>2 DEF PositionsAreDistinct
<1>12. RefsAreCounts' /\ AcksAreUnique'
  <2>1. SameUpdates
    BY <1>2 DEF SameUpdates
  <2>2. Pending' => Pending
    BY <1>2 DEF Pending
  <2> QED BY <1>0, <1>2, <2>1, <2>2, AllGoOn
<1>13. MeshesWillBeCurrent'
  <2>1. SUFFICES ASSUME NEW p \in Blocks \ overtaken', NEW c \in Reads(p),
                        Loaded(p)', Loaded(c)'
                 PROVE  OnItsWay(p, c)'
    BY DEF MeshesWillBeCurrent, Reads
  <2>2. c \in Blocks
    BY MeshAssumption DEF Reads, ToSet
  <2>3. p # b /\ c # b
    BY <1>4, <2>1 DEF Loaded
  <2>4. map'[p] = map[p] /\ map'[c] = map[c] /\ mesh'[p] = mesh[p] /\ p \notin overtaken
    BY <1>1, <1>4, <2>2, <2>3
  <2>5. OnItsWay(p, c)
    BY <1>0, <2>1, <2>4 DEF MeshesWillBeCurrent, Loaded
  <2> QED BY <1>2, <2>4, <2>5 DEF OnItsWay, IsResult
<1> QED BY <1>6, <1>9, <1>10, <1>11, <1>12, <1>13 DEF MeshInv

-----------------------------------------------------------------------------
(* The main thread queues an update.                                       *)

AcksFor(p, ack) == IF ack THEN {[block |-> p, data |-> map[p]]} ELSE {}
Merge(q, acks, urgent) ==
  [q EXCEPT !.ack_list = @ \cup acks, !.urgent = @ \/ urgent, !.map_blocks = @ \cup Missing(q)]

LEMMA MergeFields ==
  ASSUME NEW q \in QueuedMeshUpdate, NEW acks \in SUBSET Acks, NEW urgent \in BOOLEAN
  PROVE  /\ Merge(q, acks, urgent) \in QueuedMeshUpdate
         /\ Merge(q, acks, urgent).p = q.p
         /\ \A a : a \in Merge(q, acks, urgent).ack_list <=> a \in q.ack_list \/ a \in acks
         /\ Merge(q, acks, urgent).urgent <=> q.urgent \/ urgent
         /\ \A b : b \in Merge(q, acks, urgent).map_blocks <=> b \in q.map_blocks \/ b \in Missing(q)
         /\ Missing(q) \subseteq Blocks
<1>1. Reads(q.p) \subseteq Blocks
  <2>1. q.p \in Blocks
    BY Fields
  <2>2. Neighbors[q.p] \in Seq(Blocks)
    BY <2>1, MeshAssumption
  <2>3. ToSet(Neighbors[q.p]) \subseteq Blocks
    BY <2>2 DEF ToSet
  <2> QED BY <2>1, <2>3 DEF Reads
<1>2. Missing(q) \subseteq Blocks
  BY <1>1 DEF Missing
<1>3. Merge(q, acks, urgent) \in QueuedMeshUpdate
  <2> DEFINE A == q.ack_list \cup acks
             V == q.urgent \/ urgent
             M == q.map_blocks \cup Missing(q)
  <2>1. A \in SUBSET Acks /\ M \in SUBSET Blocks
    BY <1>2, Fields
  <2>2. V \in BOOLEAN
    OBVIOUS
  <2>3. Merge(q, acks, urgent) = [q EXCEPT !.ack_list = A, !.urgent = V, !.map_blocks = M]
    BY DEF Merge
  <2> HIDE DEF A, V, M
  <2> QED BY <2>1, <2>2, <2>3 DEF QueuedMeshUpdate
<1>4. /\ Merge(q, acks, urgent).p = q.p
      /\ Merge(q, acks, urgent).ack_list = q.ack_list \cup acks
      /\ Merge(q, acks, urgent).urgent <=> q.urgent \/ urgent
      /\ Merge(q, acks, urgent).map_blocks = q.map_blocks \cup Missing(q)
  BY DEF Merge, QueuedMeshUpdate
<1> QED BY <1>2, <1>3, <1>4

\* In t the update of p is u, and the others are those of s.
QueueTakes(s, t, u, p) ==
  /\ \E i \in DOMAIN t :
       t[i] = u /\ \A k \in DOMAIN t \ {i} : k \in DOMAIN s /\ t[k] = s[k] /\ s[k].p # p
  /\ \A k \in DOMAIN s : s[k].p # p => k \in DOMAIN t /\ t[k] = s[k]

\* An update u takes the place of q.
CountMoves(q, u, Us, Rs) ==
  (Total(Us, Rs)' + IF q \in Us THEN 1 ELSE 0) = Total(Us, Rs) + IF u \in Us THEN 1 ELSE 0

\* q is what the queue has for p.
IsQueuedFor(q, p) ==
  \/ q = NoUpdate(p) /\ NoneFor(m_queue, p)
  \/ \E i \in DOMAIN m_queue : q = m_queue[i]

LEMMA NoUpdateFields ==
  ASSUME NEW p \in Blocks
  PROVE  /\ NoUpdate(p) \in QueuedMeshUpdate /\ NoUpdate(p).p = p
         /\ NoUpdate(p).ack_list = {} /\ NoUpdate(p).map_blocks = {}
         /\ ~NoUpdate(p).urgent
BY DEF NoUpdate, QueuedMeshUpdate

LEMMA AddBlockTakes ==
  ASSUME TypeOK, PositionsAreDistinct, NEW p \in Blocks, NEW ack \in BOOLEAN,
         NEW urgent \in BOOLEAN, AddBlock(p, ack, urgent), AcksFor(p, ack) \subseteq Acks,
         UNCHANGED <<worker, m_queue_out, m_queue_out_urgent>>
  PROVE  \E q \in QueuedMeshUpdate : \E u \in QueuedMeshUpdate :
           /\ q.p = p /\ u = Merge(q, AcksFor(p, ack), urgent) /\ Grab(Missing(q))
           /\ IsQueuedFor(q, p)
           /\ m_queue' \in Seq(QueuedMeshUpdate) /\ QueueTakes(m_queue, m_queue', u, p)
           /\ \A b : CountMoves(q, u, UpdatesOf(b), ResultsOf(b))
           /\ \A a : CountMoves(q, u, UpdatesWith(a), ResultsWith(a))
<1> DEFINE acks == AcksFor(p, ack)
           n == Len(m_queue)
<1>1. Typed /\ m_queue \in Seq(QueuedMeshUpdate) /\ n \in Nat /\ DOMAIN m_queue = 1 .. n
  <2>1. Typed
    BY Types
  <2>2. m_queue \in Seq(QueuedMeshUpdate)
    BY <2>1 DEF Typed
  <2> QED BY <2>1, <2>2
<1>2. ASSUME NEW i \in Queued(p), m_queue' = [m_queue EXCEPT ![i] = Merge(m_queue[i], acks, urgent)],
             Grab(Missing(m_queue[i]))
      PROVE  \E q \in QueuedMeshUpdate : \E u \in QueuedMeshUpdate :
               /\ q.p = p /\ u = Merge(q, acks, urgent) /\ Grab(Missing(q))
               /\ IsQueuedFor(q, p)
               /\ m_queue' \in Seq(QueuedMeshUpdate) /\ QueueTakes(m_queue, m_queue', u, p)
               /\ \A b : CountMoves(q, u, UpdatesOf(b), ResultsOf(b))
               /\ \A a : CountMoves(q, u, UpdatesWith(a), ResultsWith(a))
    <2> DEFINE q == m_queue[i]
               u == Merge(m_queue[i], acks, urgent)
    <2>1. i \in DOMAIN m_queue /\ q \in QueuedMeshUpdate /\ q.p = p
      BY <1>1 DEF Queued, Typed
    <2>2. u \in QueuedMeshUpdate
      BY <2>1, MergeFields
    <2> HIDE DEF u
    <2>3. m_queue' \in Seq(QueuedMeshUpdate) /\ Replaces(m_queue', m_queue, i, u)
      BY <1>1, <1>2, <2>1, <2>2 DEF Replaces, u
    <2>4. \A k \in DOMAIN m_queue : m_queue[k].p = p => k = i
      BY <2>1 DEF PositionsAreDistinct, QueueIsDistinct
    <2>5. QueueTakes(m_queue, m_queue', u, p)
      BY <2>1, <2>3, <2>4 DEF QueueTakes, Replaces
    <2>6. \A Us, Rs : CountMoves(q, u, Us, Rs)
      <3>1. SUFFICES ASSUME NEW Us, NEW Rs PROVE CountMoves(q, u, Us, Rs)
        OBVIOUS
      <3>2. (Total(Us, Rs)' + IF m_queue[i] \in Us THEN 1 ELSE 0)
              = Total(Us, Rs) + IF u \in Us THEN 1 ELSE 0
        BY <2>1, <2>3, CountMerge
      <3> QED BY <3>2 DEF CountMoves
    <2>7. IsQueuedFor(q, p)
      BY <2>1 DEF IsQueuedFor
    <2> QED BY <1>2, <2>1, <2>2, <2>3, <2>5, <2>6, <2>7 DEF u
<1>3. ASSUME Queued(p) = {}, m_queue' = Append(m_queue, Merge(NoUpdate(p), acks, urgent)),
             Grab(Missing(NoUpdate(p)))
      PROVE  \E q \in QueuedMeshUpdate : \E u \in QueuedMeshUpdate :
               /\ q.p = p /\ u = Merge(q, acks, urgent) /\ Grab(Missing(q))
               /\ IsQueuedFor(q, p)
               /\ m_queue' \in Seq(QueuedMeshUpdate) /\ QueueTakes(m_queue, m_queue', u, p)
               /\ \A b : CountMoves(q, u, UpdatesOf(b), ResultsOf(b))
               /\ \A a : CountMoves(q, u, UpdatesWith(a), ResultsWith(a))
    <2> DEFINE q == NoUpdate(p)
               u == Merge(NoUpdate(p), acks, urgent)
    <2>1. /\ q \in QueuedMeshUpdate /\ q.p = p /\ q.ack_list = {} /\ q.map_blocks = {}
      BY NoUpdateFields
    <2>2. u \in QueuedMeshUpdate
      BY <2>1, MergeFields
    <2> HIDE DEF u, q
    <2>3. /\ m_queue' \in Seq(QueuedMeshUpdate) /\ DOMAIN m_queue' = 1 .. n + 1
          /\ m_queue'[n + 1] = u /\ \A k \in 1 .. n : m_queue'[k] = m_queue[k]
      BY <1>1, <1>3, <2>2 DEF u
    <2>4. \A k \in DOMAIN m_queue : m_queue[k].p # p
      BY <1>3 DEF Queued
    <2> HIDE DEF n
    <2>5. QueueTakes(m_queue, m_queue', u, p)
      <3>1. n + 1 \in DOMAIN m_queue' /\ DOMAIN m_queue' \ {n + 1} = DOMAIN m_queue
        BY <1>1, <2>3
      <3> QED BY <2>3, <2>4, <3>1, <1>1 DEF QueueTakes
    <2>6. \A Us, Rs : q \notin Us => CountMoves(q, u, Us, Rs)
      <3>1. SUFFICES ASSUME NEW Us, NEW Rs, q \notin Us PROVE CountMoves(q, u, Us, Rs)
        OBVIOUS
      <3>2. Total(Us, Rs)' = Total(Us, Rs) + IF u \in Us THEN 1 ELSE 0
        BY <1>3, <2>2, CountAppend DEF u
      <3>3. Total(Us, Rs) \in Nat
        BY <1>1, CountParts DEF Total, Typed
      <3> QED BY <3>1, <3>2, <3>3 DEF CountMoves
    <2>7. (\A b : q \notin UpdatesOf(b)) /\ \A a : q \notin UpdatesWith(a)
      BY <2>1 DEF UpdatesOf, UpdatesWith
    <2>8. IsQueuedFor(q, p)
      BY <2>4 DEF IsQueuedFor, NoneFor, q
    <2> QED BY <1>3, <2>1, <2>2, <2>3, <2>5, <2>6, <2>7, <2>8 DEF u, q
<1>4. ASSUME NEW fresh, fresh = [NoUpdate(p) EXCEPT !.ack_list = acks, !.urgent = urgent]
      PROVE  Merge(fresh, acks, urgent) = Merge(NoUpdate(p), acks, urgent)
             /\ Missing(fresh) = Missing(NoUpdate(p))
  <2>1. /\ fresh \in QueuedMeshUpdate /\ fresh.p = p /\ fresh.ack_list = acks
        /\ fresh.map_blocks = {}
        /\ fresh.urgent <=> urgent
    BY <1>4 DEF NoUpdate, QueuedMeshUpdate
  <2>2. Missing(fresh) = Missing(NoUpdate(p))
    BY <2>1, NoUpdateFields DEF Missing
  <2> DEFINE u == Merge(fresh, acks, urgent)
             v == Merge(NoUpdate(p), acks, urgent)
  <2>3. ASSUME NEW x \in QueuedMeshUpdate
        PROVE  /\ Merge(x, acks, urgent) \in QueuedMeshUpdate /\ Merge(x, acks, urgent).p = x.p
               /\ \A a : a \in Merge(x, acks, urgent).ack_list <=> a \in x.ack_list \/ a \in acks
               /\ Merge(x, acks, urgent).urgent <=> x.urgent \/ urgent
               /\ \A b : b \in Merge(x, acks, urgent).map_blocks
                            <=> b \in x.map_blocks \/ b \in Missing(x)
    <3>1. acks \in SUBSET Acks
      OBVIOUS
    <3> HIDE DEF acks
    <3> QED BY <3>1, MergeFields
  <2>4. /\ u \in QueuedMeshUpdate /\ u.p = fresh.p
        /\ \A a : a \in u.ack_list <=> a \in fresh.ack_list \/ a \in acks
        /\ u.urgent <=> fresh.urgent \/ urgent
        /\ \A b : b \in u.map_blocks <=> b \in fresh.map_blocks \/ b \in Missing(fresh)
    BY <2>1, <2>3
  <2>5. /\ v \in QueuedMeshUpdate /\ v.p = NoUpdate(p).p
        /\ \A a : a \in v.ack_list <=> a \in NoUpdate(p).ack_list \/ a \in acks
        /\ v.urgent <=> NoUpdate(p).urgent \/ urgent
        /\ \A b : b \in v.map_blocks <=> b \in NoUpdate(p).map_blocks \/ b \in Missing(NoUpdate(p))
    BY <2>3, NoUpdateFields
  <2> HIDE DEF u, v
  <2>6. u.urgent = v.urgent
    <3>1. u.urgent \in BOOLEAN /\ v.urgent \in BOOLEAN
      BY <2>4, <2>5, Fields
    <3>2. u.urgent <=> v.urgent
      BY <2>1, <2>4, <2>5, NoUpdateFields
    <3> QED BY <3>1, <3>2
  <2>7. /\ u.p = v.p /\ u.ack_list = v.ack_list /\ u.map_blocks = v.map_blocks
    <3>1. u.p = v.p
      BY <2>1, <2>4, <2>5, NoUpdateFields
    <3>2. \A a : a \in u.ack_list <=> a \in v.ack_list
      BY <2>1, <2>4, <2>5, NoUpdateFields
    <3>3. \A b : b \in u.map_blocks <=> b \in v.map_blocks
      BY <2>1, <2>2, <2>4, <2>5, NoUpdateFields
    <3> QED BY <3>1, <3>2, <3>3
  <2>8. u = v
    BY <2>4, <2>5, <2>6, <2>7 DEF QueuedMeshUpdate
  <2> QED BY <2>2, <2>8 DEF u, v
<1>5. \/ \E i \in Queued(p) :
           /\ m_queue' = [m_queue EXCEPT ![i] = Merge(m_queue[i], acks, urgent)]
           /\ Grab(Missing(m_queue[i]))
      \/ /\ Queued(p) = {}
         /\ m_queue' = Append(m_queue, Merge(NoUpdate(p), acks, urgent))
         /\ Grab(Missing(NoUpdate(p)))
  <2> DEFINE fresh == [NoUpdate(p) EXCEPT !.ack_list = acks, !.urgent = urgent]
  <2>1. Merge(fresh, acks, urgent) = Merge(NoUpdate(p), acks, urgent)
          /\ Missing(fresh) = Missing(NoUpdate(p))
    BY <1>4
  <2>2. \/ \E i \in Queued(p) :
             /\ m_queue' = [m_queue EXCEPT ![i] = Merge(m_queue[i], acks, urgent)]
             /\ Grab(Missing(m_queue[i]))
        \/ /\ Queued(p) = {}
           /\ m_queue' = Append(m_queue, Merge(fresh, acks, urgent))
           /\ Grab(Missing(fresh))
    BY Zenon DEF AddBlock, Merge, AcksFor
  <2> QED BY <2>1, <2>2
<1> QED BY <1>2, <1>3, <1>5

LEMMA TodoShrinks ==
  ASSUME Typed, MainIsInOrder, main.pc = "queueing", main.todo # <<>>,
         main' = [main EXCEPT !.todo = Tail(@)],
         UNCHANGED <<map, writes>>
  PROVE  /\ Head(main.todo) \in Blocks
         /\ main' \in [pc : {"step", "writing", "queueing", "replacing"}, todo : Seq(Blocks),
                       block : Blocks, ack : BOOLEAN, urgent : BOOLEAN]
         /\ MainIsInOrder' /\ ~Pending'
         /\ \A p \in Blocks : IsListed(main.todo, p) => p = Head(main.todo) \/ IsListed(main'.todo, p)
<1>0. /\ main.todo \in Seq(Blocks) /\ main.block \in Blocks
      /\ main.ack \in BOOLEAN /\ main.urgent \in BOOLEAN
      /\ main = [pc |-> main.pc, todo |-> main.todo, block |-> main.block, ack |-> main.ack,
                 urgent |-> main.urgent]
  BY DEF Typed
<1>1. /\ main'.pc = "queueing" /\ main'.todo = Tail(main.todo) /\ main'.block = main.block
      /\ main' = [pc |-> "queueing", todo |-> Tail(main.todo), block |-> main.block,
                  ack |-> main.ack, urgent |-> main.urgent]
  <2> DEFINE tl == Tail(main.todo)
  <2>1. main' = [main EXCEPT !.todo = tl]
    OBVIOUS
  <2> HIDE DEF tl
  <2>2. main' = [pc |-> main.pc, todo |-> tl, block |-> main.block, ack |-> main.ack,
                 urgent |-> main.urgent]
    BY ONLY <1>0, <2>1
  <2>3. main.pc = "queueing"
    OBVIOUS
  <2> QED BY ONLY <2>2, <2>3 DEF tl
<1>2. PICK s \in Seq(Blocks), t \in Seq(Blocks) : s = main.todo /\ t = Tail(main.todo)
  BY <1>0
<1>3. /\ 1 \in 1 .. Len(s) /\ Head(s) = s[1] /\ Head(s) \in Blocks /\ Lacks(t, s, 1)
  BY <1>2, TailLacks
<1>4. /\ Len(s) \in Nat /\ Len(s) >= 1 /\ Len(t) = Len(s) - 1 /\ DOMAIN t = 1 .. Len(s) - 1
      /\ DOMAIN s = 1 .. Len(s) /\ \A k \in 1 .. Len(s) - 1 : t[k] = s[k + 1]
  <2>1. Len(s) \in Nat /\ Len(s) >= 1 /\ DOMAIN s = 1 .. Len(s) /\ DOMAIN t = 1 .. Len(t)
    BY <1>3
  <2>2. Len(t) = Len(s) - 1
    BY <1>3 DEF Lacks
  <2>3. \A k \in 1 .. Len(s) - 1 : t[k] = s[k + 1]
    BY <1>3, <2>1 DEF Lacks
  <2> QED BY <2>1, <2>2, <2>3
<1>5. \A i \in 2 .. Len(s) : s[i] # main.block
  BY <1>2 DEF MainIsInOrder
<1>6. \A k \in 1 .. Len(s) - 1 : t[k] # main.block
  <2>1. \A k \in 1 .. Len(s) - 1 : k + 1 \in 2 .. Len(s)
    BY <1>4
  <2> QED BY <1>4, <1>5, <2>1
<1>7. t # <<>> => 1 \in 1 .. Len(s) - 1 /\ Head(t) = t[1]
  <2>1. SUFFICES ASSUME t # <<>> PROVE 1 \in 1 .. Len(s) - 1 /\ Head(t) = t[1]
    OBVIOUS
  <2>2. 1 \in 1 .. Len(t) /\ Head(t) = t[1]
    BY <2>1, TailLacks
  <2> QED BY <1>4, <2>2
<1>8. ~Pending'
  BY <1>1, <1>2, <1>6, <1>7 DEF Pending
<1>9. MainIsInOrder'
  <2>1. \A b \in Blocks : map[b] <= 2 * writes
    BY DEF MainIsInOrder
  <2>2. \A i \in 2 .. Len(main'.todo) : main'.todo[i] # main'.block
    <3>1. \A i \in 2 .. Len(t) : i \in 1 .. Len(s) - 1
      BY <1>4
    <3> QED BY <1>1, <1>2, <1>6, <3>1
  <2> QED BY <1>1, <1>8, <2>1, <2>2 DEF MainIsInOrder
<1>10. ASSUME NEW p \in Blocks, IsListed(s, p) PROVE p = s[1] \/ IsListed(t, p)
  <2>1. PICK i \in 1 .. Len(s) : s[i] = p
    BY <1>4, <1>10 DEF IsListed
  <2>2. CASE i = 1
    BY <2>1, <2>2
  <2>3. CASE i # 1
    <3>1. i - 1 \in 1 .. Len(s) - 1 /\ (i - 1) + 1 = i
      BY <1>4, <2>3
    <3> QED BY <1>4, <2>1, <3>1 DEF IsListed
  <2> QED BY <2>2, <2>3
<1>11. main' \in [pc : {"step", "writing", "queueing", "replacing"}, todo : Seq(Blocks),
                  block : Blocks, ack : BOOLEAN, urgent : BOOLEAN]
  BY <1>0, <1>1, <1>2
<1> QED BY <1>1, <1>2, <1>3, <1>8, <1>9, <1>10, <1>11

\* An update of a block that is not there is not queued.
LEMMA SkippingKeeps ==
  ASSUME MeshInv, UpdateBlock, ~Loaded(Head(main.todo))
  PROVE  MeshInv'
<1>0. /\ Typed /\ TypeOK /\ MainIsInOrder /\ AllAreSound /\ PositionsAreDistinct
      /\ RefsAreCounts /\ AcksAreUnique /\ MeshesWillBeCurrent
  BY Types DEF MeshInv
<1>1. /\ main.pc = "queueing" /\ main.todo # <<>> /\ main' = [main EXCEPT !.todo = Tail(@)]
      /\ UNCHANGED <<m_queue, m_urgents, refs, map, mesh, m_inflight_blocks, m_queue_out,
                     m_queue_out_urgent, semaphore, worker, received, overtaken, writes,
                     unloads>>
  BY DEF UpdateBlock, outVars, history
<1>2. /\ main' \in [pc : {"step", "writing", "queueing", "replacing"}, todo : Seq(Blocks),
                    block : Blocks, ack : BOOLEAN, urgent : BOOLEAN]
      /\ MainIsInOrder' /\ ~Pending'
      /\ \A p \in Blocks : IsListed(main.todo, p) => p = Head(main.todo) \/ IsListed(main'.todo, p)
  BY <1>0, <1>1, TodoShrinks
<1>3. TypeOK'
  BY <1>0, <1>1, <1>2 DEF TypeOK
<1>4. AllAreSound' /\ PositionsAreDistinct'
  BY <1>0, <1>1 DEF AllAreSound, PositionsAreDistinct
<1>5. RefsAreCounts' /\ AcksAreUnique'
  <2>1. SameUpdates
    BY <1>1 DEF SameUpdates
  <2> QED BY <1>0, <1>1, <1>2, <2>1, AllGoOn
<1>6. MeshesWillBeCurrent'
  <2>1. SUFFICES ASSUME NEW p \in Blocks \ overtaken', NEW c \in Reads(p),
                        Loaded(p)', Loaded(c)'
                 PROVE  OnItsWay(p, c)'
    BY DEF MeshesWillBeCurrent, Reads
  <2>2. OnItsWay(p, c) /\ p # Head(main.todo)
    BY <1>0, <1>1, <2>1 DEF MeshesWillBeCurrent, Loaded
  <2> QED BY <1>1, <1>2, <2>2 DEF OnItsWay
<1> QED BY <1>2, <1>3, <1>4, <1>5, <1>6 DEF MeshInv

\* The queue with u for p is as good as the one without.
LEMMA TakesDistinctly ==
  ASSUME NEW s \in Seq(QueuedMeshUpdate), NEW t \in Seq(QueuedMeshUpdate),
         NEW u \in QueuedMeshUpdate, NEW p \in Blocks, u.p = p, QueueTakes(s, t, u, p),
         NEW urgents, NEW rest, QueueIsDistinct(s, urgents),
         \A x \in Blocks \ {p} : x \in rest <=> x \in urgents,
         p \in rest <=> u.urgent
  PROVE  /\ QueueIsDistinct(t, rest)
         /\ \A x \in Blocks \ {p} : \A b :
              /\ IsQueued(s, x, b) => IsQueued(t, x, b)
              /\ NoneFor(s, x) => NoneFor(t, x)
         /\ \A b \in u.map_blocks : IsQueued(t, p, b)
<1>1. PICK i \in DOMAIN t :
        t[i] = u /\ \A k \in DOMAIN t \ {i} : k \in DOMAIN s /\ t[k] = s[k] /\ s[k].p # p
  BY DEF QueueTakes
<1>2. \A k \in DOMAIN s : s[k].p # p => k \in DOMAIN t /\ t[k] = s[k] /\ k # i
  BY <1>1 DEF QueueTakes
<1>3. \A k \in DOMAIN t : k # i => k \in DOMAIN s /\ t[k] = s[k] /\ s[k].p # p
  BY <1>1
<1>4. \A k, j \in DOMAIN t : t[k].p = t[j].p => k = j
  <2>1. \A k, j \in DOMAIN s : s[k].p = s[j].p => k = j
    BY DEF QueueIsDistinct
  <2> QED BY <1>1, <1>3, <2>1
<1>5. \A x \in Blocks : x \in rest <=> \E k \in DOMAIN t : t[k].p = x /\ t[k].urgent
  <2>1. \A x \in Blocks : x \in urgents <=> \E k \in DOMAIN s : s[k].p = x /\ s[k].urgent
    BY DEF QueueIsDistinct
  <2>2. p \in rest <=> \E k \in DOMAIN t : t[k].p = p /\ t[k].urgent
    BY <1>1, <1>3
  <2>3. ASSUME NEW x \in Blocks \ {p}
        PROVE  x \in rest <=> \E k \in DOMAIN t : t[k].p = x /\ t[k].urgent
    <3>1. ASSUME x \in rest PROVE \E k \in DOMAIN t : t[k].p = x /\ t[k].urgent
      <4>1. PICK k \in DOMAIN s : s[k].p = x /\ s[k].urgent
        BY <2>1, <3>1
      <4> QED BY <1>2, <4>1
    <3>2. ASSUME NEW k \in DOMAIN t, t[k].p = x, t[k].urgent PROVE x \in rest
      <4>1. k # i
        BY <1>1, <3>2
      <4>2. k \in DOMAIN s /\ s[k].p = x /\ s[k].urgent
        BY <1>3, <3>2, <4>1
      <4> QED BY <2>1, <4>2
    <3> QED BY <3>1, <3>2
  <2> QED BY <2>2, <2>3
<1>6. ASSUME NEW x \in Blocks \ {p}, NEW b
      PROVE  /\ IsQueued(s, x, b) => IsQueued(t, x, b)
             /\ NoneFor(s, x) => NoneFor(t, x)
  <2>1. IsQueued(s, x, b) => IsQueued(t, x, b)
    BY <1>2 DEF IsQueued
  <2>2. NoneFor(s, x) => NoneFor(t, x)
    BY <1>1, <1>3 DEF NoneFor
  <2> QED BY <2>1, <2>2
<1>7. \A b \in u.map_blocks : IsQueued(t, p, b)
  BY <1>1 DEF IsQueued
<1> QED BY <1>4, <1>5, <1>6, <1>7 DEF QueueIsDistinct

\* What is added to or dropped from a count leaves it a count.
LEMMA CountMovesBy ==
  ASSUME TypeOK, TypeOK', NEW q, NEW u, NEW Us, NEW Rs, CountMoves(q, u, Us, Rs)
  PROVE  /\ q \in Us /\ u \in Us => Total(Us, Rs)' = Total(Us, Rs)
         /\ q \notin Us /\ u \notin Us => Total(Us, Rs)' = Total(Us, Rs)
         /\ q \notin Us /\ u \in Us => Total(Us, Rs)' = Total(Us, Rs) + 1
<1>1. Typed /\ Typed'
  BY Types, PTL
<1>2. Total(Us, Rs) \in Nat
  BY <1>1, CountParts DEF Total, Typed
<1>3. Total(Us, Rs)' \in Nat
  <2>1. /\ m_queue' \in Seq(QueuedMeshUpdate) /\ m_queue_out' \in Seq(MeshUpdateResult)
        /\ m_queue_out_urgent' \in Seq(MeshUpdateResult)
    BY <1>1 DEF Typed
  <2> QED BY <2>1, CountParts DEF Total
<1> DEFINE n == Total(Us, Rs)
           m == Total(Us, Rs)'
<1>4. (m + IF q \in Us THEN 1 ELSE 0) = n + IF u \in Us THEN 1 ELSE 0
  BY DEF CountMoves
<1>5. n \in Nat /\ m \in Nat
  BY <1>2, <1>3
<1> HIDE DEF n, m
<1>6. CASE q \in Us /\ u \in Us
  <2>1. m = n
    BY <1>4, <1>5, <1>6
  <2> QED BY <1>6, <2>1 DEF m, n
<1>7. CASE q \notin Us /\ u \notin Us
  <2>1. m = n
    BY <1>4, <1>5, <1>7
  <2> QED BY <1>7, <2>1 DEF m, n
<1>8. CASE q \notin Us /\ u \in Us
  <2>1. m = n + 1
    BY <1>4, <1>5, <1>8
  <2> QED BY <1>8, <2>1 DEF m, n
<1> QED BY <1>6, <1>7, <1>8

LEMMA QueueingKeeps ==
  ASSUME MeshInv, UpdateBlock, Loaded(Head(main.todo))
  PROVE  MeshInv'
<1>0. /\ Typed /\ TypeOK /\ MainIsInOrder /\ AllAreSound /\ PositionsAreDistinct
      /\ RefsAreCounts /\ AcksAreUnique /\ MeshesWillBeCurrent
  BY Types DEF MeshInv
<1> DEFINE p == Head(main.todo)
           ack == AcksServer(p)
           urgent == main.urgent
           acks == AcksFor(p, ack)
<1>1. /\ main.pc = "queueing" /\ main.todo # <<>> /\ main' = [main EXCEPT !.todo = Tail(@)]
      /\ AddBlock(p, ack, urgent) /\ Loaded(p)
      /\ UNCHANGED <<map, mesh, m_inflight_blocks, m_queue_out, m_queue_out_urgent, semaphore,
                     worker, received, overtaken, writes, unloads>>
  BY DEF UpdateBlock, outVars, history
<1>2. /\ p \in Blocks
      /\ main' \in [pc : {"step", "writing", "queueing", "replacing"}, todo : Seq(Blocks),
                    block : Blocks, ack : BOOLEAN, urgent : BOOLEAN]
      /\ MainIsInOrder' /\ ~Pending'
      /\ \A x \in Blocks : IsListed(main.todo, x) => x = p \/ IsListed(main'.todo, x)
  BY <1>0, <1>1, TodoShrinks
<1>3. ack => Pending /\ main.ack /\ p = main.block
  BY <1>1 DEF AcksServer, Pending
<1>4. m_urgents' = IF urgent THEN m_urgents \cup {p} ELSE m_urgents
  BY <1>1, Zenon DEF AddBlock
<1>5. ack \in BOOLEAN /\ urgent \in BOOLEAN
  BY <1>0 DEF AcksServer, Typed
<1> HIDE DEF p, ack, urgent
<1>6. /\ acks \in SUBSET Acks
      /\ \A a \in acks : Pending /\ a \in received /\ a.block = p /\ a.data = map[p]
                         /\ a.data = 2 * writes
  <2>1. CASE ack
    <3>1. map[p] = 2 * writes /\ [block |-> p, data |-> map[p]] \in received
      BY <1>0, <1>1, <1>3, <2>1 DEF MainIsInOrder
    <3>2. acks = {[block |-> p, data |-> map[p]]}
      BY <2>1 DEF AcksFor
    <3>3. received \subseteq Acks
      BY <1>0 DEF Typed
    <3> DEFINE a == [block |-> p, data |-> map[p]]
    <3>4. a.block = p /\ a.data = map[p] /\ a \in received /\ acks = {a}
      BY <3>1, <3>2
    <3> HIDE DEF a
    <3> QED BY <1>3, <2>1, <3>1, <3>3, <3>4
  <2>2. CASE ~ack
    BY <2>2 DEF AcksFor
  <2> QED BY <2>1, <2>2
<1> HIDE DEF acks
<1>7. PICK q \in QueuedMeshUpdate, u \in QueuedMeshUpdate :
        /\ q.p = p /\ u = Merge(q, acks, urgent) /\ Grab(Missing(q))
        /\ IsQueuedFor(q, p)
        /\ m_queue' \in Seq(QueuedMeshUpdate) /\ QueueTakes(m_queue, m_queue', u, p)
        /\ \A b : CountMoves(q, u, UpdatesOf(b), ResultsOf(b))
        /\ \A a : CountMoves(q, u, UpdatesWith(a), ResultsWith(a))
  BY <1>0, <1>1, <1>2, <1>5, <1>6, AddBlockTakes DEF acks
<1>8. /\ u.p = p
      /\ \A a : a \in u.ack_list <=> a \in q.ack_list \/ a \in acks
      /\ u.urgent <=> q.urgent \/ urgent
      /\ \A b : b \in u.map_blocks <=> b \in q.map_blocks \/ b \in Missing(q)
      /\ Missing(q) \subseteq Blocks
  BY <1>5, <1>6, <1>7, MergeFields
<1>9. \A b \in Blocks : b \in Missing(q) <=> b \in Reads(p) /\ b \notin q.map_blocks /\ Loaded(b)
  BY <1>7 DEF Missing
<1>10. /\ \A b \in q.map_blocks : map[b] # NoBlock
       /\ \A a \in q.ack_list : a \in received /\ a.block = p /\ a.data <= map[p]
  <2>1. CASE q = NoUpdate(p)
    BY <1>2, <2>1, NoUpdateFields
  <2>2. CASE \E i \in DOMAIN m_queue : q = m_queue[i]
    BY <1>0, <1>7, <2>2 DEF AllAreSound, UpdateIsSound
  <2> QED BY <1>7, <2>1, <2>2 DEF IsQueuedFor
<1>11. UpdateIsSound(u, map, received)
  <2>1. p \in Reads(p)
    BY DEF Reads
  <2>2. u.p \in u.map_blocks
    BY <1>1, <1>2, <1>8, <1>9, <2>1
  <2>3. \A b \in u.map_blocks : map[b] # NoBlock
    BY <1>8, <1>9, <1>10 DEF Loaded
  <2>4. map[p] \in Nat
    BY <1>0, <1>2 DEF Typed
  <2>5. \A a \in acks : a \in received /\ a.block = p /\ a.data <= map[p]
    BY <1>6, <2>4
  <2> QED BY <1>8, <1>10, <2>2, <2>3, <2>5 DEF UpdateIsSound
<1>12. refs' = [b \in Blocks |-> IF b \in Missing(q) THEN refs[b] + 1 ELSE refs[b]]
  BY <1>7 DEF Grab
<1>13. TypeOK'
  <2>1. refs' \in [Blocks -> Nat]
    BY <1>0, <1>12 DEF Typed
  <2>2. m_urgents' \subseteq Blocks
    BY <1>0, <1>2, <1>4 DEF Typed
  <2> QED BY <1>0, <1>1, <1>2, <1>7, <2>1, <2>2 DEF TypeOK
<1>14. AllAreSound'
  <2>1. \A k \in DOMAIN m_queue' : UpdateIsSound(m_queue'[k], map, received)
    <3>1. \A k \in DOMAIN m_queue' : m_queue'[k] = u \/ (k \in DOMAIN m_queue /\ m_queue'[k] = m_queue[k])
      BY <1>7 DEF QueueTakes
    <3>2. \A k \in DOMAIN m_queue : UpdateIsSound(m_queue[k], map, received)
      BY <1>0 DEF AllAreSound
    <3> QED BY <1>11, <3>1, <3>2
  <2> QED BY <1>0, <1>1, <2>1 DEF AllAreSound
<1>15. /\ QueueIsDistinct(m_queue', m_urgents')
       /\ \A x \in Blocks \ {p} : \A b :
            /\ IsQueued(m_queue, x, b) => IsQueued(m_queue', x, b)
            /\ NoneFor(m_queue, x) => NoneFor(m_queue', x)
       /\ \A b \in u.map_blocks : IsQueued(m_queue', p, b)
  <2>1. QueueIsDistinct(m_queue, m_urgents)
    BY <1>0 DEF PositionsAreDistinct
  <2>2. \A x \in Blocks \ {p} : x \in m_urgents' <=> x \in m_urgents
    BY <1>4
  <2>3. p \in m_urgents <=> q.urgent
    <3>1. CASE q = NoUpdate(p) /\ NoneFor(m_queue, p)
      BY <1>2, <2>1, <3>1, NoUpdateFields DEF QueueIsDistinct, NoneFor
    <3>2. CASE \E i \in DOMAIN m_queue : q = m_queue[i]
      BY <1>2, <1>7, <2>1, <3>2 DEF QueueIsDistinct
    <3> QED BY <1>7, <3>1, <3>2 DEF IsQueuedFor
  <2>4. p \in m_urgents' <=> u.urgent
    BY <1>4, <1>5, <1>8, <2>3
  <2>5. m_queue \in Seq(QueuedMeshUpdate)
    BY <1>0 DEF Typed
  <2>6. m_queue' \in Seq(QueuedMeshUpdate) /\ QueueTakes(m_queue, m_queue', u, p)
    BY <1>7
  <2>7. u.p = p
    BY <1>8
  <2> QED BY <1>2, <2>1, <2>2, <2>4, <2>5, <2>6, <2>7, TakesDistinctly
<1>16. PositionsAreDistinct'
  BY <1>0, <1>1, <1>15 DEF PositionsAreDistinct
<1>17. RefsAreCounts'
  <2>1. SUFFICES ASSUME NEW b \in Blocks
                 PROVE  refs'[b] = Total(UpdatesOf(b), ResultsOf(b))'
    BY DEF RefsAreCounts
  <2>2. refs[b] = Total(UpdatesOf(b), ResultsOf(b))
    BY <1>0 DEF RefsAreCounts
  <2>3. CountMoves(q, u, UpdatesOf(b), ResultsOf(b))
    BY <1>7
  <2>4. /\ q \in UpdatesOf(b) <=> b \in q.map_blocks
        /\ u \in UpdatesOf(b) <=> b \in q.map_blocks \/ b \in Missing(q)
    BY <1>8 DEF UpdatesOf
  <2>5. b \in Missing(q) => b \notin q.map_blocks
    BY <1>9
  <2> QED BY <1>0, <1>12, <1>13, <2>2, <2>3, <2>4, <2>5, CountMovesBy
<1>18. AcksAreUnique'
  <2>1. SUFFICES ASSUME NEW a \in Acks
                 PROVE  Total(UpdatesWith(a), ResultsWith(a))' <= 1
    BY <1>2 DEF AcksAreUnique
  <2>2. CountMoves(q, u, UpdatesWith(a), ResultsWith(a))
    BY <1>7
  <2>3. /\ q \in UpdatesWith(a) <=> a \in q.ack_list
        /\ u \in UpdatesWith(a) <=> a \in q.ack_list \/ a \in acks
    BY <1>8 DEF UpdatesWith
  <2>4. CASE a \in q.ack_list \/ a \notin acks
    <3>1. Total(UpdatesWith(a), ResultsWith(a))' = Total(UpdatesWith(a), ResultsWith(a))
      BY <1>0, <1>13, <2>2, <2>3, <2>4, CountMovesBy
    <3> QED BY <1>0, <3>1 DEF AcksAreUnique
  <2>5. CASE a \notin q.ack_list /\ a \in acks
    <3>1. Total(UpdatesWith(a), ResultsWith(a)) = 0
      BY <1>0, <1>6, <2>5 DEF AcksAreUnique
    <3>2. Total(UpdatesWith(a), ResultsWith(a))' = Total(UpdatesWith(a), ResultsWith(a)) + 1
      BY <1>0, <1>13, <2>2, <2>3, <2>5, CountMovesBy
    <3> QED BY <3>1, <3>2
  <2> QED BY <2>4, <2>5
<1>19. MeshesWillBeCurrent'
  <2>1. SUFFICES ASSUME NEW x \in Blocks \ overtaken', NEW c \in Reads(x),
                        Loaded(x)', Loaded(c)'
                 PROVE  OnItsWay(x, c)'
    BY DEF MeshesWillBeCurrent, Reads
  <2>2. c \in Blocks
    BY MeshAssumption DEF Reads, ToSet
  <2>3. Loaded(x) /\ Loaded(c) /\ x \in Blocks \ overtaken
    BY <1>1, <2>1 DEF Loaded
  <2>4. CASE x = p
    <3>1. c \in u.map_blocks
      BY <1>8, <1>9, <2>1, <2>2, <2>3, <2>4
    <3> QED BY <1>15, <2>4, <3>1 DEF OnItsWay
  <2>5. CASE x # p
    <3>1. OnItsWay(x, c)
      BY <1>0, <2>1, <2>3 DEF MeshesWillBeCurrent
    <3>2. IsListed(main.todo, x) => IsListed(main'.todo, x)
      BY <1>2, <2>5
    <3>3. /\ IsQueued(m_queue, x, c) => IsQueued(m_queue', x, c)
          /\ NoneFor(m_queue, x) => NoneFor(m_queue', x)
      BY <1>15, <2>5
    <3> QED BY <1>1, <3>1, <3>2, <3>3 DEF OnItsWay
  <2> QED BY <2>4, <2>5
<1> QED BY <1>2, <1>13, <1>14, <1>16, <1>17, <1>18, <1>19 DEF MeshInv

LEMMA UpdateBlockKeeps ==
  ASSUME MeshInv, UpdateBlock
  PROVE  MeshInv'
BY SkippingKeeps, QueueingKeeps

-----------------------------------------------------------------------------
(* The main thread shows a result.                                         *)

LEMMA TailResults ==
  ASSUME NEW s \in Seq(MeshUpdateResult), s # <<>>, NEW p
  PROVE  /\ Head(s) \in MeshUpdateResult /\ Tail(s) \in Seq(MeshUpdateResult)
         /\ \E j \in DOMAIN s : Head(s) = s[j]
         /\ \A k \in DOMAIN Tail(s) : \E j \in DOMAIN s : Tail(s)[k] = s[j]
         /\ NoneFor(s, p) => NoneFor(Tail(s), p) /\ Head(s).p # p
         /\ \A b, v : Shows(s, p, b, v) =>
              \/ Shows(Tail(s), p, b, v)
              \/ Head(s).p = p /\ Head(s).mesh[b] = v /\ NoneFor(Tail(s), p)
<1>1. /\ 1 \in 1 .. Len(s) /\ Head(s) = s[1] /\ Head(s) \in MeshUpdateResult
      /\ Tail(s) \in Seq(MeshUpdateResult) /\ Lacks(Tail(s), s, 1)
  BY TailLacks
<1>2. PICK t \in Seq(MeshUpdateResult) : t = Tail(s) /\ Lacks(t, s, 1)
  BY <1>1
<1>3. PICK e : e = Head(s) /\ e = s[1]
  BY <1>1
<1>4. /\ Len(s) \in Nat /\ Len(t) = Len(s) - 1 /\ DOMAIN t = 1 .. Len(s) - 1
      /\ DOMAIN s = 1 .. Len(s) /\ \A k \in 1 .. Len(s) - 1 : t[k] = s[k + 1]
  <2>1. Len(s) \in Nat /\ DOMAIN s = 1 .. Len(s) /\ DOMAIN t = 1 .. Len(t)
    OBVIOUS
  <2>2. Len(t) = Len(s) - 1
    BY <1>2 DEF Lacks
  <2>3. \A k \in 1 .. Len(s) - 1 : t[k] = s[k + 1]
    BY <1>2, <2>1 DEF Lacks
  <2> QED BY <2>1, <2>2, <2>3
<1>5. \A k \in 1 .. Len(s) - 1 : k + 1 \in 1 .. Len(s)
  BY <1>4
<1>6. \A k \in DOMAIN t : \E j \in DOMAIN s : t[k] = s[j]
  BY <1>4, <1>5
<1>7. NoneFor(s, p) => NoneFor(t, p) /\ e.p # p
  BY <1>1, <1>3, <1>4, <1>6 DEF NoneFor
<1>8. ASSUME NEW b, NEW v, Shows(s, p, b, v)
      PROVE  Shows(t, p, b, v) \/ (e.p = p /\ e.mesh[b] = v /\ NoneFor(t, p))
  <2>1. PICK i \in 1 .. Len(s) : IsLast(s, p, i) /\ s[i].mesh[b] = v
    BY <1>4, <1>8 DEF Shows
  <2>2. CASE i = 1
    <3>1. \A k \in DOMAIN t : t[k].p # p
      <4>1. \A k \in 1 .. Len(s) - 1 : k + 1 > 1
        BY <1>4
      <4> QED BY <1>4, <1>5, <2>1, <2>2, <4>1 DEF IsLast
    <3> QED BY <1>3, <2>1, <2>2, <3>1 DEF IsLast, NoneFor
  <2>3. CASE i # 1
    <3>1. i - 1 \in 1 .. Len(s) - 1 /\ (i - 1) + 1 = i
      BY <1>4, <2>3
    <3>2. t[i - 1] = s[i]
      BY <1>4, <3>1
    <3>3. \A k \in DOMAIN t : k > i - 1 => t[k].p # p
      <4>1. \A k \in 1 .. Len(s) - 1 : k > i - 1 => k + 1 > i
        BY <1>4
      <4> QED BY <1>4, <1>5, <2>1, <4>1 DEF IsLast
    <3> QED BY <1>4, <2>1, <3>1, <3>2, <3>3 DEF Shows, IsLast
  <2> QED BY <2>2, <2>3
<1> QED BY <1>1, <1>2, <1>3, <1>4, <1>6, <1>7, <1>8

\* The next result, and what is left of the results.
LEMMA Taking ==
  ASSUME Typed, m_queue_out \o m_queue_out_urgent # <<>>, TakeResult
  PROVE  \/ /\ m_queue_out_urgent # <<>> /\ NextResult = Head(m_queue_out_urgent)
            /\ m_queue_out_urgent' = Tail(m_queue_out_urgent) /\ UNCHANGED m_queue_out
         \/ /\ m_queue_out_urgent = <<>>
            /\ m_queue_out # <<>> /\ NextResult = Head(m_queue_out)
            /\ m_queue_out' = Tail(m_queue_out) /\ UNCHANGED m_queue_out_urgent
<1>1. m_queue_out_urgent = <<>> => m_queue_out # <<>>
  BY ConcatEqualIffEmpty DEF Typed
<1>2. CASE m_queue_out_urgent # <<>>
  BY <1>2 DEF TakeResult, NextResult
<1>3. CASE m_queue_out_urgent = <<>>
  BY <1>1, <1>3 DEF TakeResult, NextResult
<1> QED BY <1>2, <1>3

LEMMA ReplaceMeshKeeps ==
  ASSUME MeshInv, ReplaceMesh
  PROVE  MeshInv'
<1>0. /\ Typed /\ TypeOK /\ MainIsInOrder /\ AllAreSound /\ PositionsAreDistinct
      /\ RefsAreCounts /\ AcksAreUnique /\ MeshesWillBeCurrent
  BY Types DEF MeshInv
<1> DEFINE r == NextResult
           out == m_queue_out
           urg == m_queue_out_urgent
<1>1. /\ main.pc = "replacing" /\ out \o urg # <<>> /\ TakeResult
      /\ mesh' = [mesh EXCEPT ![r.p] = r.mesh]
      /\ refs' = [b \in Blocks |-> IF b \in r.map_blocks THEN refs[b] - 1 ELSE refs[b]]
      /\ received' = received \ r.ack_list
      /\ overtaken' = IF Overtakes(r) THEN overtaken \cup {r.p} ELSE overtaken
  BY DEF ReplaceMesh, Drop
<1>2. UNCHANGED <<main, map, m_queue, m_urgents, m_inflight_blocks, semaphore, worker, writes,
                  unloads>>
  BY DEF ReplaceMesh, queueVars
<1>3. \/ urg # <<>> /\ r = Head(urg) /\ urg' = Tail(urg) /\ UNCHANGED out
      \/ urg = <<>> /\ out # <<>> /\ r = Head(out) /\ out' = Tail(out) /\ UNCHANGED urg
  BY <1>0, <1>1, Taking
<1>4. out \in Seq(MeshUpdateResult) /\ urg \in Seq(MeshUpdateResult)
  BY <1>0 DEF Typed
<1>5. /\ r \in MeshUpdateResult
      /\ out' \in Seq(MeshUpdateResult) /\ urg' \in Seq(MeshUpdateResult)
      /\ \A k \in DOMAIN out' : \E j \in DOMAIN out : out'[k] = out[j]
      /\ \A k \in DOMAIN urg' : \E j \in DOMAIN urg : urg'[k] = urg[j]
      /\ (\E j \in DOMAIN out : r = out[j]) \/ (\E j \in DOMAIN urg : r = urg[j])
  <2>1. CASE urg # <<>> /\ r = Head(urg) /\ urg' = Tail(urg) /\ UNCHANGED out
    BY <1>4, <2>1, TailResults
  <2>2. CASE urg = <<>> /\ out # <<>> /\ r = Head(out) /\ out' = Tail(out) /\ UNCHANGED urg
    BY <1>4, <2>2, TailResults
  <2> QED BY <1>3, <2>1, <2>2
<1>6. \A Us, Rs : Total(Us, Rs) = Total(Us, Rs)' + IF r \in Rs THEN 1 ELSE 0
  BY <1>0, <1>2, <1>3, CountReplace
<1> HIDE DEF r
<1>7. r.p \in Blocks /\ r.mesh \in Copies /\ r.map_blocks \subseteq Blocks /\ r.ack_list \subseteq Acks
  BY <1>5, Fields
<1>8. \A Us, Rs : Total(Us, Rs)' \in Nat
  <2>1. m_queue' \in Seq(QueuedMeshUpdate)
    BY <1>0, <1>2 DEF Typed
  <2> QED BY <1>5, <2>1, CountParts DEF Total
<1>9. \A b \in Blocks : refs'[b] = Total(UpdatesOf(b), ResultsOf(b))'
  <2>1. SUFFICES ASSUME NEW b \in Blocks PROVE refs'[b] = Total(UpdatesOf(b), ResultsOf(b))'
    OBVIOUS
  <2>2. refs[b] = Total(UpdatesOf(b), ResultsOf(b))
    BY <1>0 DEF RefsAreCounts
  <2>3. r \in ResultsOf(b) <=> b \in r.map_blocks
    BY <1>5 DEF ResultsOf
  <2> DEFINE m == Total(UpdatesOf(b), ResultsOf(b))'
             n == Total(UpdatesOf(b), ResultsOf(b))
  <2>4. m \in Nat /\ n = m + IF r \in ResultsOf(b) THEN 1 ELSE 0
    BY <1>6, <1>8
  <2>5. refs'[b] = IF b \in r.map_blocks THEN n - 1 ELSE n
    BY <1>1, <2>2
  <2> HIDE DEF m, n
  <2>6. refs'[b] = m
    BY <2>3, <2>4, <2>5
  <2> QED BY <2>6 DEF m
<1>10. TypeOK'
  <2>1. refs' \in [Blocks -> Nat]
    BY <1>1, <1>8, <1>9
  <2>2. mesh' \in [Blocks -> Copies]
    BY <1>0, <1>1, <1>7 DEF Typed
  <2>3. received' \subseteq Acks /\ overtaken' \subseteq Blocks
    BY <1>0, <1>1, <1>7 DEF Typed
  <2> QED BY <1>0, <1>2, <1>5, <2>1, <2>2, <2>3 DEF TypeOK
<1>11. main.todo = <<>>
  BY <1>0, <1>1 DEF MainIsInOrder
<1>12. MainIsInOrder'
  BY <1>0, <1>1, <1>2, <1>11 DEF MainIsInOrder
<1>13. PositionsAreDistinct'
  BY <1>0, <1>2 DEF PositionsAreDistinct
<1>14. RefsAreCounts'
  BY <1>9 DEF RefsAreCounts
<1>15. AcksAreUnique'
  <2>1. ~Pending'
    BY <1>2, <1>11 DEF Pending
  <2>2. SUFFICES ASSUME NEW a \in Acks
                 PROVE  Total(UpdatesWith(a), ResultsWith(a))' <= 1
    BY <2>1 DEF AcksAreUnique
  <2> DEFINE m == Total(UpdatesWith(a), ResultsWith(a))'
             n == Total(UpdatesWith(a), ResultsWith(a))
  <2>3. m \in Nat /\ n <= 1 /\ n = m + IF r \in ResultsWith(a) THEN 1 ELSE 0
    BY <1>0, <1>6, <1>8 DEF AcksAreUnique
  <2> HIDE DEF m, n
  <2>4. m <= 1
    BY <2>3
  <2> QED BY <2>4 DEF m
<1>16. AllAreSound'
  <2>1. ASSUME NEW a \in r.ack_list
        PROVE  IsNone(m_queue, worker, out', urg', UpdatesWith(a), ResultsWith(a))
    <3>1. a \in Acks /\ r \in ResultsWith(a)
      BY <1>5, <1>7 DEF ResultsWith
    <3> DEFINE m == Total(UpdatesWith(a), ResultsWith(a))'
               n == Total(UpdatesWith(a), ResultsWith(a))
    <3>2. m \in Nat /\ n <= 1 /\ n = m + IF r \in ResultsWith(a) THEN 1 ELSE 0
      BY <1>0, <1>6, <1>8, <3>1 DEF AcksAreUnique
    <3> HIDE DEF m, n
    <3>3. m = 0
      BY <3>1, <3>2
    <3>4. Count(m_queue, worker, out', urg', UpdatesWith(a), ResultsWith(a)) = 0
      BY <1>2, <3>3 DEF m, Total
    <3>5. m_queue \in Seq(QueuedMeshUpdate)
      BY <1>0 DEF Typed
    <3> QED BY <1>5, <3>4, <3>5, CountIsZero
  <2>2. ASSUME NEW u \in QueuedMeshUpdate, UpdateIsSound(u, map, received),
               \A a \in r.ack_list : a \notin u.ack_list
        PROVE  UpdateIsSound(u, map, received')
    BY <1>1, <2>2 DEF UpdateIsSound
  <2>3. ASSUME NEW e \in MeshUpdateResult, ResultIsSound(e, map, received),
               \A a \in r.ack_list : a \notin e.ack_list
        PROVE  ResultIsSound(e, map, received')
    BY <1>1, <2>3 DEF ResultIsSound
  <2>4. \A i \in DOMAIN m_queue : UpdateIsSound(m_queue[i], map, received')
    <3>1. SUFFICES ASSUME NEW i \in DOMAIN m_queue PROVE UpdateIsSound(m_queue[i], map, received')
      OBVIOUS
    <3>2. m_queue[i] \in QueuedMeshUpdate /\ UpdateIsSound(m_queue[i], map, received)
      BY <1>0 DEF Typed, AllAreSound
    <3>3. \A a \in r.ack_list : a \notin m_queue[i].ack_list
      BY <2>1, <3>2 DEF IsNone, UpdatesWith
    <3> QED BY <2>2, <3>2, <3>3
  <2>5. \A w \in Workers : IsWorking(worker[w]) => WorkerIsSound(worker[w], map, received')
    <3>1. SUFFICES ASSUME NEW w \in Workers, IsWorking(worker[w])
                   PROVE  WorkerIsSound(worker[w], map, received')
      OBVIOUS
    <3>2. worker[w].q \in QueuedMeshUpdate
      BY <1>0, Fields DEF Typed
    <3>3. WorkerIsSound(worker[w], map, received)
      BY <1>0, <3>1 DEF AllAreSound
    <3>4. \A a \in r.ack_list : a \notin worker[w].q.ack_list
      BY <2>1, <3>1, <3>2 DEF IsNone, UpdatesWith
    <3>5. UpdateIsSound(worker[w].q, map, received')
      BY <2>2, <3>2, <3>3, <3>4 DEF WorkerIsSound
    <3> QED BY <3>3, <3>5 DEF WorkerIsSound
  <2>6. \A k \in DOMAIN out' : ResultIsSound(out'[k], map, received')
    <3>1. SUFFICES ASSUME NEW k \in DOMAIN out' PROVE ResultIsSound(out'[k], map, received')
      OBVIOUS
    <3>2. out'[k] \in MeshUpdateResult /\ ResultIsSound(out'[k], map, received)
      BY <1>0, <1>5 DEF Typed, AllAreSound
    <3>3. \A a \in r.ack_list : a \notin out'[k].ack_list
      BY <2>1, <3>2 DEF IsNone, ResultsWith
    <3> QED BY <2>3, <3>2, <3>3
  <2>7. \A k \in DOMAIN urg' : ResultIsSound(urg'[k], map, received') /\ urg'[k].urgent
    <3>1. SUFFICES ASSUME NEW k \in DOMAIN urg'
                   PROVE  ResultIsSound(urg'[k], map, received') /\ urg'[k].urgent
      OBVIOUS
    <3>2. /\ urg'[k] \in MeshUpdateResult /\ ResultIsSound(urg'[k], map, received)
          /\ urg'[k].urgent
      BY <1>0, <1>5 DEF Typed, AllAreSound
    <3>3. \A a \in r.ack_list : a \notin urg'[k].ack_list
      BY <2>1, <3>2 DEF IsNone, ResultsWith
    <3> QED BY <2>3, <3>2, <3>3
  <2> QED BY <1>2, <2>4, <2>5, <2>6, <2>7 DEF AllAreSound
<1>17. ASSUME NEW p \in Blocks \ overtaken', NEW b \in Blocks, Loaded(b),
              IsResult(out, urg, mesh, p, b, map[b])
       PROVE  IsResult(out', urg', mesh', p, b, map[b])
  <2> DEFINE v == map[b]
  <2>1. r.p = p => mesh'[p] = r.mesh
    BY <1>0, <1>1 DEF Typed
  <2>2. r.p # p => mesh'[p] = mesh[p]
    BY <1>0, <1>1 DEF Typed
  <2>3. CASE Shows(out, p, b, v)
    <3>1. CASE urg # <<>> /\ r = Head(urg) /\ urg' = Tail(urg) /\ UNCHANGED out
      BY <2>3, <3>1 DEF IsResult
    <3>2. CASE urg = <<>> /\ out # <<>> /\ r = Head(out) /\ out' = Tail(out) /\ UNCHANGED urg
      <4>1. Shows(out', p, b, v) \/ (r.p = p /\ r.mesh[b] = v /\ NoneFor(out', p))
        BY <1>4, <2>3, <3>2, TailResults
      <4>2. NoneFor(urg', p)
        BY <3>2 DEF NoneFor
      <4> QED BY <2>1, <4>1, <4>2 DEF IsResult
    <3> QED BY <1>3, <3>1, <3>2
  <2>4. CASE Shows(urg, p, b, v)
    <3>1. /\ urg # <<>> /\ r = Head(urg) /\ urg' = Tail(urg) /\ UNCHANGED out
      <4>1. urg # <<>>
        BY <2>4 DEF Shows
      <4> QED BY <1>3, <4>1
    <3>2. Shows(urg', p, b, v) \/ (r.p = p /\ r.mesh[b] = v /\ NoneFor(urg', p))
      BY <1>4, <2>4, <3>1, TailResults
    <3>3. CASE r.p = p /\ r.mesh[b] = v /\ NoneFor(urg', p)
      <4>1. CASE NoneFor(out, p)
        BY <2>1, <3>1, <3>3, <4>1 DEF IsResult
      <4>2. CASE \E i \in DOMAIN out : IsLast(out, p, i)
        <5>1. PICK i \in DOMAIN out : IsLast(out, p, i)
          BY <4>2
        <5>2. r.urgent
          <6>1. \E j \in DOMAIN urg : r = urg[j]
            BY <1>4, <3>1, TailResults
          <6> QED BY <1>0, <6>1 DEF AllAreSound
        <5>3. ~Overtakes(r)
          BY <1>1, <3>3
        <5>4. out[i].p = p /\ out[i] \in ToSet(out)
          BY <5>1 DEF IsLast, ToSet
        <5>5. ~Older(out[i].mesh, r.mesh)
          BY <3>3, <5>2, <5>3, <5>4 DEF Overtakes
        <5>6. ~(out[i].mesh[b] < v)
          BY <3>3, <5>5 DEF Older
        <5>7. /\ out[i] \in MeshUpdateResult /\ ResultIsSound(out[i], map, received)
              /\ map[b] \in Nat /\ v # NoBlock
          BY <1>0, <1>17 DEF Typed, AllAreSound, Loaded
        <5>8. out[i].mesh[b] \in Nat
          BY <5>7, Fields
        <5> HIDE DEF v
        <5>9. v \in Nat /\ v = map[b]
          BY <5>7 DEF v
        <5>10. out[i].mesh[b] # NoBlock
          BY <5>6, <5>7, <5>8, <5>9 DEF NoBlock
        <5>11. out[i].mesh[b] <= v
          BY <5>7, <5>9, <5>10 DEF ResultIsSound, CopyIsOf
        <5>12. out[i].mesh[b] = v
          BY <5>6, <5>8, <5>9, <5>11
        <5> QED BY <3>1, <5>1, <5>9, <5>12 DEF IsResult, Shows
      <4> QED BY <1>4, <4>1, <4>2, LastOrNone
    <3> QED BY <3>2, <3>3 DEF IsResult
  <2>5. CASE NoneFor(out, p) /\ NoneFor(urg, p) /\ mesh[p][b] = v
    <3>1. r.p # p
      BY <1>5, <2>5 DEF NoneFor
    <3>2. NoneFor(out', p) /\ NoneFor(urg', p)
      BY <1>5, <2>5 DEF NoneFor
    <3> QED BY <2>2, <2>5, <3>1, <3>2 DEF IsResult
  <2> QED BY <1>17, <2>3, <2>4, <2>5 DEF IsResult
<1>18. MeshesWillBeCurrent'
  <2>1. SUFFICES ASSUME NEW p \in Blocks \ overtaken', NEW b \in Reads(p),
                        Loaded(p)', Loaded(b)'
                 PROVE  OnItsWay(p, b)'
    BY DEF MeshesWillBeCurrent, Reads
  <2>2. b \in Blocks
    BY MeshAssumption DEF Reads, ToSet
  <2>3. Loaded(p) /\ Loaded(b) /\ p \in Blocks \ overtaken
    BY <1>1, <1>2, <2>1 DEF Loaded
  <2>4. OnItsWay(p, b)
    BY <1>0, <2>1, <2>3 DEF MeshesWillBeCurrent
  <2>5. IsResult(out, urg, mesh, p, b, map[b]) => IsResult(out', urg', mesh', p, b, map[b])
    BY <1>17, <2>2, <2>3
  <2> QED BY <1>2, <2>4, <2>5 DEF OnItsWay
<1> QED BY <1>10, <1>12, <1>13, <1>14, <1>15, <1>16, <1>18 DEF MeshInv

-----------------------------------------------------------------------------
(* A worker goes on.                                                       *)

\* Worker w is at y after the step, and no other worker moves.
OneWorks(w, y) ==
  worker'[w] = y /\ \A v \in Workers \ {w} : worker'[v] = worker[v]

LEMMA WorkerChanges ==
  ASSUME Typed, NEW w \in Workers, NEW y \in WorkerState, worker' = [worker EXCEPT ![w] = y]
  PROVE  worker' \in [Workers -> WorkerState] /\ OneWorks(w, y)
BY DEF Typed, OneWorks

FoundIn(t, s, i) ==
  /\ \A k \in DOMAIN t : \E j \in DOMAIN s \ {i} : t[k] = s[j] /\ j = IF k < i THEN k ELSE k + 1
  /\ \A j \in DOMAIN s \ {i} : \E k \in DOMAIN t : t[k] = s[j] /\ k = IF j < i THEN j ELSE j - 1

LEMMA LackingFinds ==
  ASSUME NEW S, NEW s \in Seq(S), NEW t \in Seq(S), NEW i \in 1 .. Len(s), Lacks(t, s, i)
  PROVE  FoundIn(t, s, i)
BY Lacking DEF FoundIn

LEMMA PopTakes ==
  ASSUME MeshInv, NEW w \in Workers, worker[w].pc = "pop", NEW i \in DOMAIN m_queue,
         MayPop(m_queue[i]), m_queue' = RemoveAt(m_queue, i),
         m_urgents' = m_urgents \ {m_queue[i].p},
         m_inflight_blocks' = m_inflight_blocks \cup {m_queue[i].p},
         worker' = [worker EXCEPT ![w] =
                      [pc |-> "fill", q |-> m_queue[i], left |-> m_queue[i].map_blocks,
                       copy |-> Nothing]],
         UNCHANGED <<main, map, refs, mesh, m_queue_out, m_queue_out_urgent, semaphore, received,
                     overtaken, writes, unloads>>
  PROVE  MeshInv'
<1>0. /\ Typed /\ TypeOK /\ MainIsInOrder /\ AllAreSound /\ PositionsAreDistinct
      /\ RefsAreCounts /\ AcksAreUnique /\ MeshesWillBeCurrent
  BY Types DEF MeshInv
<1> DEFINE q == m_queue[i]
           y == [pc |-> "fill", q |-> q, left |-> q.map_blocks, copy |-> Nothing]
<1>1. /\ q \in QueuedMeshUpdate /\ q.p \in Blocks /\ q.map_blocks \subseteq Blocks
      /\ q.ack_list \subseteq Acks
      /\ m_queue \in Seq(QueuedMeshUpdate) /\ UpdateIsSound(q, map, received)
  BY <1>0, Fields DEF Typed, AllAreSound
<1>2. m_queue' \in Seq(QueuedMeshUpdate) /\ Lacks(m_queue', m_queue, i)
  <2>1. i \in 1 .. Len(m_queue)
    BY <1>1
  <2> QED BY <1>1, <2>1, Removing DEF Lacks
<1> HIDE DEF q
<1>3. y \in WorkerState /\ y.pc = "fill" /\ y.q = q /\ y.left = q.map_blocks /\ y.copy = Nothing
  BY <1>1, Fields DEF WorkerState
<1>4. worker' = [worker EXCEPT ![w] = y]
  BY DEF q
<1> HIDE DEF y
<1>5. worker' \in [Workers -> WorkerState] /\ OneWorks(w, y)
  BY <1>0, <1>3, <1>4, WorkerChanges
<1>6. /\ worker'[w] = y /\ IsWorking(y) /\ IsInFlight(y)
      /\ ~IsWorking(worker[w]) /\ ~IsInFlight(worker[w])
      /\ \A v \in Workers \ {w} : worker'[v] = worker[v]
  BY <1>3, <1>5 DEF OneWorks, IsWorking, IsInFlight
<1>7. /\ \A k \in DOMAIN m_queue' : \E j \in DOMAIN m_queue \ {i} : m_queue'[k] = m_queue[j]
      /\ \A j \in DOMAIN m_queue \ {i} : \E k \in DOMAIN m_queue' : m_queue'[k] = m_queue[j]
      /\ \A k, l \in DOMAIN m_queue' : m_queue'[k].p = m_queue'[l].p => k = l
  <2>1. i \in 1 .. Len(m_queue)
    BY <1>1
  <2>2. /\ \A k \in DOMAIN m_queue' : \E j \in DOMAIN m_queue \ {i} :
             m_queue'[k] = m_queue[j] /\ j = IF k < i THEN k ELSE k + 1
        /\ \A j \in DOMAIN m_queue \ {i} : \E k \in DOMAIN m_queue' :
             m_queue'[k] = m_queue[j] /\ k = IF j < i THEN j ELSE j - 1
    <3>1. FoundIn(m_queue', m_queue, i)
      BY <1>1, <1>2, <2>1, LackingFinds
    <3> QED BY <3>1 DEF FoundIn
  <2>3. ASSUME NEW k \in DOMAIN m_queue', NEW l \in DOMAIN m_queue',
               m_queue'[k].p = m_queue'[l].p
        PROVE  k = l
    <3>1. PICK j \in DOMAIN m_queue \ {i} :
            m_queue'[k] = m_queue[j] /\ j = IF k < i THEN k ELSE k + 1
      BY <2>2
    <3>2. PICK h \in DOMAIN m_queue \ {i} :
            m_queue'[l] = m_queue[h] /\ h = IF l < i THEN l ELSE l + 1
      BY <2>2
    <3>3. j = h
      BY <1>0, <2>3, <3>1, <3>2 DEF PositionsAreDistinct, QueueIsDistinct
    <3>4. k \in Nat /\ l \in Nat /\ i \in Nat
      <4>1. DOMAIN m_queue' = 1 .. Len(m_queue')
        BY <1>2
      <4> QED BY <2>1, <2>3, <4>1
    <3>5. (IF k < i THEN k ELSE k + 1) = (IF l < i THEN l ELSE l + 1)
      BY <3>1, <3>2, <3>3
    <3> QED BY <3>4, <3>5
  <2> QED BY <2>2, <2>3
<1>8. \A j \in DOMAIN m_queue : m_queue[j].p = q.p => j = i
  BY <1>0 DEF PositionsAreDistinct, QueueIsDistinct, q
<1>9. TypeOK'
  <2>1. m_urgents' \subseteq Blocks /\ m_inflight_blocks' \subseteq Blocks
    BY <1>0, <1>1 DEF Typed, q
  <2> QED BY <1>0, <1>2, <1>5, <2>1 DEF TypeOK, WorkerState
<1>10. MainIsInOrder'
  BY <1>0 DEF MainIsInOrder, Pending
<1>11. AllAreSound'
  <2>1. \A k \in DOMAIN m_queue' : UpdateIsSound(m_queue'[k], map, received)
    BY <1>0, <1>7 DEF AllAreSound
  <2>2. WorkerIsSound(y, map, received)
    <3>1. q.p \in q.map_blocks
      BY <1>1 DEF UpdateIsSound
    <3>2. CopyIsOf(y.copy, y.q.map_blocks \ y.left, map)
      BY <1>3, Fields DEF CopyIsOf
    <3> QED BY <1>1, <1>3, <3>1, <3>2 DEF WorkerIsSound
  <2>3. \A v \in Workers : IsWorking(worker'[v]) => WorkerIsSound(worker'[v], map, received)
    BY <1>0, <1>6, <2>2 DEF AllAreSound
  <2> QED BY <1>0, <2>1, <2>3 DEF AllAreSound
<1>12. PositionsAreDistinct'
  <2>1. \A x \in Blocks : x \in m_urgents' <=> \E k \in DOMAIN m_queue' : m_queue'[k].p = x /\ m_queue'[k].urgent
    <3>1. SUFFICES ASSUME NEW x \in Blocks
                   PROVE  x \in m_urgents' <=> \E k \in DOMAIN m_queue' : m_queue'[k].p = x /\ m_queue'[k].urgent
      OBVIOUS
    <3>2. x \in m_urgents' <=> x \in m_urgents /\ x # q.p
      BY DEF q
    <3>3. x \in m_urgents <=> \E j \in DOMAIN m_queue : m_queue[j].p = x /\ m_queue[j].urgent
      BY <1>0 DEF PositionsAreDistinct, QueueIsDistinct
    <3>4. ASSUME NEW k \in DOMAIN m_queue', m_queue'[k].p = x, m_queue'[k].urgent
          PROVE  x \in m_urgents /\ x # q.p
      BY <1>7, <1>8, <3>3, <3>4
    <3>5. ASSUME NEW j \in DOMAIN m_queue, m_queue[j].p = x, m_queue[j].urgent, x # q.p
          PROVE  \E k \in DOMAIN m_queue' : m_queue'[k].p = x /\ m_queue'[k].urgent
      <4>1. j # i
        BY <3>5 DEF q
      <4> QED BY <1>7, <3>5, <4>1
    <3> QED BY <3>2, <3>3, <3>4, <3>5
  <2>2. WorkersAreDistinct(worker, m_inflight_blocks)
    BY <1>0 DEF PositionsAreDistinct
  <2>3. q.p \notin m_inflight_blocks
    BY DEF MayPop, q
  <2>4. \A v \in Workers : IsInFlight(worker[v]) => worker[v].q.p # q.p
    BY <1>1, <2>2, <2>3 DEF WorkersAreDistinct
  <2>5. m_inflight_blocks' = m_inflight_blocks \cup {q.p}
    BY DEF q
  <2>6. \A v, x \in Workers :
          IsInFlight(worker'[v]) /\ IsInFlight(worker'[x]) /\ worker'[v].q.p = worker'[x].q.p
          => v = x
    BY <1>3, <1>6, <2>2, <2>4 DEF WorkersAreDistinct
  <2>7. \A x \in Blocks : x \in m_inflight_blocks' <=>
          \E v \in Workers : IsInFlight(worker'[v]) /\ worker'[v].q.p = x
    BY <1>3, <1>6, <2>2, <2>5 DEF WorkersAreDistinct
  <2>8. WorkersAreDistinct(worker', m_inflight_blocks')
    BY <2>6, <2>7 DEF WorkersAreDistinct
  <2>9. QueueIsDistinct(m_queue', m_urgents')
    BY <1>7, <2>1 DEF QueueIsDistinct
  <2> QED BY <2>8, <2>9 DEF PositionsAreDistinct
<1>13. RefsAreCounts' /\ AcksAreUnique'
  <2>1. \A Us, Rs : Total(Us, Rs)' = Total(Us, Rs)
    BY <1>0, <1>2, <1>3, <1>6, CountPop DEF q
  <2>2. Pending' => Pending
    BY DEF Pending
  <2> QED BY <1>0, <2>1, <2>2, CountsKept
<1>14. MeshesWillBeCurrent'
  <2>1. SUFFICES ASSUME NEW p \in Blocks \ overtaken', NEW b \in Reads(p),
                        Loaded(p)', Loaded(b)'
                 PROVE  OnItsWay(p, b)'
    BY DEF MeshesWillBeCurrent, Reads
  <2>2. OnItsWay(p, b)
    BY <1>0, <2>1 DEF MeshesWillBeCurrent, Loaded
  <2>3. CASE p = q.p
    <3>1. NoneFor(m_queue', p)
      BY <1>7, <1>8, <2>3 DEF NoneFor
    <3>2. ~NoneFor(m_queue, p)
      BY <2>3 DEF NoneFor, q
    <3>3. IsListed(main.todo, p) \/ IsQueued(m_queue, p, b)
      BY <2>2, <3>2 DEF OnItsWay
    <3>4. IsQueued(m_queue, p, b) => b \in q.map_blocks
      BY <1>8, <2>3 DEF IsQueued, q
    <3>5. b \in q.map_blocks => IsMade(worker', p, b, map[b])
      BY <1>3, <1>6, <2>3 DEF IsMade
    <3> QED BY <3>1, <3>3, <3>4, <3>5 DEF OnItsWay
  <2>4. CASE p # q.p
    <3>1. IsQueued(m_queue, p, b) => IsQueued(m_queue', p, b)
      <4>1. SUFFICES ASSUME NEW j \in DOMAIN m_queue, m_queue[j].p = p, b \in m_queue[j].map_blocks
                     PROVE  IsQueued(m_queue', p, b)
        BY DEF IsQueued
      <4>2. j # i
        BY <2>4, <4>1 DEF q
      <4> QED BY <1>7, <4>1, <4>2 DEF IsQueued
    <3>2. NoneFor(m_queue, p) => NoneFor(m_queue', p)
      BY <1>7 DEF NoneFor
    <3>3. IsMade(worker, p, b, map[b]) => IsMade(worker', p, b, map[b])
      BY <1>6 DEF IsMade
    <3>4. NoWorkerFor(worker, p) => NoWorkerFor(worker', p)
      BY <1>3, <1>6, <2>4 DEF NoWorkerFor
    <3> QED BY <2>2, <3>1, <3>2, <3>3, <3>4 DEF OnItsWay
  <2> QED BY <2>3, <2>4
<1> QED BY <1>9, <1>10, <1>11, <1>12, <1>13, <1>14 DEF MeshInv

LEMMA PopKeeps ==
  ASSUME MeshInv, NEW w \in Workers, Pop(w)
  PROVE  MeshInv'
<1>1. /\ worker[w].pc = "pop"
      /\ UNCHANGED <<main, map, refs, mesh, m_queue_out, m_queue_out_urgent, semaphore, received,
                     overtaken, writes, unloads>>
      /\ \/ Goto(w, "wait") /\ UNCHANGED <<m_queue, m_urgents, m_inflight_blocks>>
         \/ \E i \in DOMAIN m_queue :
              /\ MayPop(m_queue[i]) /\ m_queue' = RemoveAt(m_queue, i)
              /\ m_urgents' = m_urgents \ {m_queue[i].p}
              /\ m_inflight_blocks' = m_inflight_blocks \cup {m_queue[i].p}
              /\ worker' = [worker EXCEPT ![w] =
                   [pc |-> "fill", q |-> m_queue[i], left |-> m_queue[i].map_blocks,
                    copy |-> Nothing]]
  BY DEF Pop, mapVars, outVars, history, queueVars
<1>2. CASE Goto(w, "wait") /\ UNCHANGED <<m_queue, m_urgents, m_inflight_blocks>>
  <2>1. semaphore' \subseteq Workers
    BY <1>1, Types DEF MeshInv, Typed
  <2> QED BY <1>1, <1>2, <2>1, IdleKeeps
<1>3. CASE \E i \in DOMAIN m_queue :
              /\ MayPop(m_queue[i]) /\ m_queue' = RemoveAt(m_queue, i)
              /\ m_urgents' = m_urgents \ {m_queue[i].p}
              /\ m_inflight_blocks' = m_inflight_blocks \cup {m_queue[i].p}
              /\ worker' = [worker EXCEPT ![w] =
                   [pc |-> "fill", q |-> m_queue[i], left |-> m_queue[i].map_blocks,
                    copy |-> Nothing]]
  BY <1>1, <1>3, PopTakes
<1> QED BY <1>1, <1>2, <1>3

LEMMA FillBlockDataKeeps ==
  ASSUME MeshInv, NEW w \in Workers, FillBlockData(w)
  PROVE  MeshInv'
<1>0. /\ Typed /\ TypeOK /\ MainIsInOrder /\ AllAreSound /\ PositionsAreDistinct
      /\ RefsAreCounts /\ AcksAreUnique /\ MeshesWillBeCurrent
  BY Types DEF MeshInv
<1> DEFINE x == worker[w]
           c == CHOOSE d \in worker[w].left : TRUE
           left == x.left \ {c}
           copy == [x.copy EXCEPT ![c] = map[c]]
           pc == IF left = {} THEN "make" ELSE "fill"
           y == [x EXCEPT !.left = left, !.copy = copy, !.pc = pc]
<1>1. /\ x.pc = "fill"
      /\ UNCHANGED <<main, map, refs, mesh, m_queue, m_urgents, m_inflight_blocks, m_queue_out,
                     m_queue_out_urgent, semaphore, received, overtaken, writes, unloads>>
  BY Zenon DEF FillBlockData, mapVars, queueVars, outVars, history
<1>2. worker' = [worker EXCEPT ![w].left = left, ![w].copy[c] = map[c], ![w].pc = pc]
  BY Zenon DEF FillBlockData
<1>3. /\ x \in WorkerState /\ x.q \in QueuedMeshUpdate /\ x.left \subseteq Blocks
      /\ x.copy \in Copies /\ worker \in [Workers -> WorkerState] /\ IsWorking(x)
      /\ x.q.map_blocks \subseteq Blocks /\ x.q.p \in Blocks /\ x.q.ack_list \subseteq Acks
      /\ map \in Copies
  BY <1>0, <1>1, Fields DEF Typed, IsWorking
<1>4. WorkerIsSound(x, map, received)
  BY <1>0, <1>3 DEF AllAreSound
<1>5. x.left # {} /\ x.left \subseteq x.q.map_blocks
  BY <1>1, <1>4 DEF WorkerIsSound
<1>6. c \in x.left
  BY <1>5
<1> HIDE DEF c
<1>7. copy \in Copies /\ copy[c] = map[c] /\ \A b \in Blocks \ {c} : copy[b] = x.copy[b]
  BY <1>3, <1>6 DEF Copies
<1>8. worker' = [worker EXCEPT ![w] = y]
  BY <1>2, <1>3 DEF WorkerState
<1> HIDE DEF x, copy, left
<1>9. /\ y \in WorkerState /\ y.pc = pc /\ y.q = x.q /\ y.left = left /\ y.copy = copy
  <2>1. left \subseteq Blocks
    BY <1>3 DEF left
  <2>2. pc \in {"make", "fill"}
    OBVIOUS
  <2> HIDE DEF pc
  <2> QED BY <1>3, <1>7, <2>1, <2>2 DEF WorkerState
<1>10. pc = "fill" <=> left # {}
  OBVIOUS
<1>11. IsWorking(y)
  BY <1>9 DEF IsWorking
<1> HIDE DEF y, pc
<1>12. worker' \in [Workers -> WorkerState] /\ OneWorks(w, y)
  BY <1>0, <1>8, <1>9, WorkerChanges
<1>13. /\ worker'[w] = y /\ IsInFlight(y) /\ IsInFlight(x) /\ x = worker[w]
       /\ \A v \in Workers \ {w} : worker'[v] = worker[v]
  BY <1>3, <1>11, <1>12 DEF OneWorks, IsWorking, IsInFlight, x
<1>14. TypeOK'
  BY <1>0, <1>1, <1>12 DEF TypeOK, WorkerState
<1>15. MainIsInOrder'
  BY <1>0, <1>1 DEF MainIsInOrder, Pending
<1>16. WorkerIsSound(y, map, received)
  <2>1. y.left \subseteq y.q.map_blocks
    BY <1>5, <1>9 DEF left
  <2>2. CopyIsOf(y.copy, y.q.map_blocks \ y.left, map)
    <3>1. SUFFICES ASSUME NEW b \in Blocks, copy[b] # NoBlock
                   PROVE  b \in x.q.map_blocks \ left /\ copy[b] <= map[b]
      BY <1>9 DEF CopyIsOf
    <3>2. CASE b = c
      <4>1. map[c] \in Nat
        BY <1>3, <1>6, Fields
      <4> QED BY <1>5, <1>6, <1>7, <3>2, <4>1 DEF left
    <3>3. CASE b # c
      BY <1>4, <1>7, <3>1, <3>3 DEF WorkerIsSound, CopyIsOf, left
    <3> QED BY <3>2, <3>3
  <2>3. ASSUME y.q.p \notin y.left, NEW a \in y.q.ack_list PROVE a.data <= y.copy[y.q.p]
    <3>1. CASE x.q.p = c
      <4>1. a.data <= map[x.q.p]
        BY <1>4, <1>9, <2>3 DEF WorkerIsSound, UpdateIsSound
      <4> QED BY <1>7, <1>9, <3>1, <4>1
    <3>2. CASE x.q.p # c
      <4>1. a.data <= x.copy[x.q.p]
        BY <1>4, <1>9, <2>3, <3>2 DEF WorkerIsSound, left
      <4> QED BY <1>3, <1>7, <1>9, <3>2, <4>1
    <3> QED BY <3>1, <3>2
  <2> QED BY <1>4, <1>9, <1>10, <2>1, <2>2, <2>3 DEF WorkerIsSound
<1>17. AllAreSound'
  <2>1. \A v \in Workers : IsWorking(worker'[v]) => WorkerIsSound(worker'[v], map, received)
    BY <1>0, <1>13, <1>16 DEF AllAreSound
  <2> QED BY <1>0, <1>1, <2>1 DEF AllAreSound
<1>18. PositionsAreDistinct'
  <2>1. WorkersAreDistinct(worker, m_inflight_blocks)
    BY <1>0 DEF PositionsAreDistinct
  <2>2. \A v \in Workers : /\ IsInFlight(worker'[v]) <=> IsInFlight(worker[v])
                           /\ worker'[v].q = worker[v].q
    BY <1>9, <1>13
  <2>3. WorkersAreDistinct(worker', m_inflight_blocks)
    BY <2>1, <2>2 DEF WorkersAreDistinct
  <2> QED BY <1>0, <1>1, <2>3 DEF PositionsAreDistinct
<1>19. SameUpdates
  BY <1>3, <1>9, <1>11, <1>13 DEF SameUpdates
<1>20. RefsAreCounts' /\ AcksAreUnique'
  <2>1. Pending' => Pending
    BY <1>1 DEF Pending
  <2> QED BY <1>0, <1>1, <1>19, <2>1, AllGoOn
<1>21. MeshesWillBeCurrent'
  <2>1. SUFFICES ASSUME NEW p \in Blocks \ overtaken', NEW b \in Reads(p),
                        Loaded(p)', Loaded(b)'
                 PROVE  OnItsWay(p, b)'
    BY DEF MeshesWillBeCurrent, Reads
  <2>2. OnItsWay(p, b)
    BY <1>0, <1>1, <2>1 DEF MeshesWillBeCurrent, Loaded
  <2>3. b \in Blocks
    BY MeshAssumption DEF Reads, ToSet
  <2>4. NoWorkerFor(worker, p) => NoWorkerFor(worker', p)
    BY <1>19 DEF NoWorkerFor, SameUpdates
  <2>5. IsMade(worker, p, b, map[b]) => IsMade(worker', p, b, map[b])
    <3>1. SUFFICES ASSUME NEW v \in Workers, IsWorking(worker[v]), worker[v].q.p = p,
                          b \in worker[v].left \/ worker[v].copy[b] = map[b]
                   PROVE  IsMade(worker', p, b, map[b])
      BY DEF IsMade
    <3>2. CASE v # w
      BY <1>13, <3>1, <3>2 DEF IsMade
    <3>3. CASE v = w
      <4>1. b \in left \/ copy[b] = map[b]
        BY <1>7, <1>13, <2>3, <3>1, <3>3 DEF left
      <4> QED BY <1>9, <1>11, <1>13, <3>1, <3>3, <4>1 DEF IsMade
    <3> QED BY <3>2, <3>3
  <2> QED BY <1>1, <2>2, <2>4, <2>5 DEF OnItsWay
<1> QED BY <1>14, <1>15, <1>17, <1>18, <1>20, <1>21 DEF MeshInv

LEMMA ShowsAppend ==
  ASSUME NEW s \in Seq(MeshUpdateResult), NEW e \in MeshUpdateResult, NEW p
  PROVE  /\ Append(s, e) \in Seq(MeshUpdateResult)
         /\ \A k \in DOMAIN Append(s, e) : Append(s, e)[k] = e \/ \E j \in DOMAIN s : Append(s, e)[k] = s[j]
         /\ e.p # p /\ NoneFor(s, p) => NoneFor(Append(s, e), p)
         /\ \A b, v : e.p # p /\ Shows(s, p, b, v) => Shows(Append(s, e), p, b, v)
         /\ e.p = p => \A b : Shows(Append(s, e), p, b, e.mesh[b])
<1> DEFINE t == Append(s, e)
           n == Len(s)
<1>1. /\ n \in Nat /\ t \in Seq(MeshUpdateResult) /\ DOMAIN s = 1 .. n /\ DOMAIN t = 1 .. n + 1
      /\ t[n + 1] = e /\ \A k \in 1 .. n : t[k] = s[k]
  OBVIOUS
<1> HIDE DEF t, n
<1>2. \A k \in 1 .. n + 1 : k = n + 1 \/ k \in 1 .. n
  BY <1>1
<1>3. \A k \in DOMAIN t : t[k] = e \/ \E j \in DOMAIN s : t[k] = s[j]
  BY <1>1, <1>2
<1>4. e.p # p /\ NoneFor(s, p) => NoneFor(t, p)
  BY <1>3 DEF NoneFor
<1>5. ASSUME NEW b, NEW v, e.p # p, Shows(s, p, b, v) PROVE Shows(t, p, b, v)
  <2>1. PICK i \in 1 .. n : IsLast(s, p, i) /\ s[i].mesh[b] = v
    BY <1>1, <1>5 DEF Shows
  <2>2. i \in DOMAIN t /\ t[i] = s[i]
    BY <1>1
  <2>3. \A k \in DOMAIN t : k > i => t[k].p # p
    BY <1>1, <1>2, <1>5, <2>1 DEF IsLast
  <2> QED BY <2>1, <2>2, <2>3 DEF Shows, IsLast
<1>6. ASSUME e.p = p, NEW b PROVE Shows(t, p, b, e.mesh[b])
  <2>1. n + 1 \in DOMAIN t /\ \A k \in DOMAIN t : ~(k > n + 1)
    BY <1>1
  <2> QED BY <1>1, <1>6, <2>1 DEF Shows, IsLast
<1> QED BY <1>1, <1>3, <1>4, <1>5, <1>6 DEF t

LEMMA PutResultKeeps ==
  ASSUME MeshInv, NEW w \in Workers, PutResult(w)
  PROVE  MeshInv'
<1>0. /\ Typed /\ TypeOK /\ MainIsInOrder /\ AllAreSound /\ PositionsAreDistinct
      /\ RefsAreCounts /\ AcksAreUnique /\ MeshesWillBeCurrent
  BY Types DEF MeshInv
<1> DEFINE x == worker[w]
           q == x.q
           r == ResultOf(q, x.copy)
           y == [x EXCEPT !.pc = "done"]
           out == m_queue_out
           urg == m_queue_out_urgent
<1>1. /\ x.pc = "make" /\ worker' = [worker EXCEPT ![w].pc = "done"]
      /\ UNCHANGED <<main, map, refs, mesh, m_queue, m_urgents, m_inflight_blocks, semaphore,
                     received, overtaken, writes, unloads>>
  BY Zenon DEF PutResult, Goto, mapVars, queueVars, history
<1>2. \/ q.urgent /\ urg' = Append(urg, r) /\ UNCHANGED out
      \/ ~q.urgent /\ out' = Append(out, r) /\ UNCHANGED urg
  <2>1. IF q.urgent THEN urg' = Append(urg, r) /\ UNCHANGED out
                    ELSE out' = Append(out, r) /\ UNCHANGED urg
    BY Zenon DEF PutResult, ResultOf
  <2> HIDE DEF q, r, out, urg
  <2> QED BY <2>1
<1>3. /\ x \in WorkerState /\ q \in QueuedMeshUpdate /\ x.copy \in Copies
      /\ worker \in [Workers -> WorkerState] /\ IsWorking(x) /\ IsInFlight(x)
      /\ q.map_blocks \subseteq Blocks /\ q.p \in Blocks /\ q.ack_list \subseteq Acks
      /\ out \in Seq(MeshUpdateResult) /\ urg \in Seq(MeshUpdateResult)
  BY <1>0, <1>1, Fields DEF Typed, IsWorking, IsInFlight
<1>4. WorkerIsSound(x, map, received)
  BY <1>0, <1>3 DEF AllAreSound
<1>5. x.left = {}
  BY <1>1, <1>4 DEF WorkerIsSound
<1>6. worker' = [worker EXCEPT ![w] = y]
  BY <1>1, <1>3 DEF WorkerState
<1>7. y \in WorkerState /\ y.pc = "done" /\ y.q = q
  BY <1>3 DEF WorkerState
<1> HIDE DEF x, y
<1>8. worker' \in [Workers -> WorkerState] /\ OneWorks(w, y)
  BY <1>0, <1>6, <1>7, WorkerChanges
<1>9. /\ worker'[w] = y /\ IsInFlight(y) /\ ~IsWorking(y) /\ x = worker[w]
      /\ \A v \in Workers \ {w} : worker'[v] = worker[v]
  BY <1>7, <1>8 DEF OneWorks, IsWorking, IsInFlight, x
<1>10. /\ r \in MeshUpdateResult /\ r.p = q.p /\ r.ack_list = q.ack_list /\ r.mesh = x.copy
       /\ r.map_blocks = q.map_blocks /\ r.urgent = q.urgent
  BY <1>3 DEF ResultOf, QueuedMeshUpdate, MeshUpdateResult
<1>11. ResultIsSound(r, map, received)
  <2>1. \A b \in r.map_blocks : map[b] # NoBlock
    BY <1>4, <1>10 DEF WorkerIsSound, UpdateIsSound
  <2>2. \A a \in r.ack_list : a \in received /\ a.block = r.p /\ a.data <= r.mesh[r.p]
    BY <1>4, <1>5, <1>10 DEF WorkerIsSound, UpdateIsSound
  <2>3. CopyIsOf(r.mesh, r.map_blocks, map)
    <3>1. q.map_blocks \ x.left = q.map_blocks
      BY <1>5
    <3> QED BY <1>4, <1>10, <3>1 DEF WorkerIsSound
  <2> QED BY <2>1, <2>2, <2>3 DEF ResultIsSound
<1> HIDE DEF r
<1>12. /\ out' \in Seq(MeshUpdateResult) /\ urg' \in Seq(MeshUpdateResult)
       /\ \A k \in DOMAIN out' : out'[k] = r \/ \E j \in DOMAIN out : out'[k] = out[j]
       /\ \A k \in DOMAIN urg' : (urg'[k] = r /\ q.urgent) \/ \E j \in DOMAIN urg : urg'[k] = urg[j]
  <2>1. CASE q.urgent /\ urg' = Append(urg, r) /\ UNCHANGED out
    BY <1>3, <1>10, <2>1, ShowsAppend
  <2>2. CASE ~q.urgent /\ out' = Append(out, r) /\ UNCHANGED urg
    BY <1>3, <1>10, <2>2, ShowsAppend
  <2> QED BY <1>2, <2>1, <2>2
<1>13. TypeOK'
  BY <1>0, <1>1, <1>8, <1>12 DEF TypeOK, WorkerState
<1>14. MainIsInOrder'
  BY <1>0, <1>1 DEF MainIsInOrder, Pending
<1>15. AllAreSound'
  <2>1. \A v \in Workers : IsWorking(worker'[v]) => WorkerIsSound(worker'[v], map, received)
    BY <1>0, <1>9 DEF AllAreSound
  <2>2. \A k \in DOMAIN out' : ResultIsSound(out'[k], map, received)
    BY <1>0, <1>11, <1>12 DEF AllAreSound
  <2>3. \A k \in DOMAIN urg' : ResultIsSound(urg'[k], map, received) /\ urg'[k].urgent
    BY <1>0, <1>10, <1>11, <1>12 DEF AllAreSound
  <2> QED BY <1>0, <1>1, <2>1, <2>2, <2>3 DEF AllAreSound
<1>16. PositionsAreDistinct'
  <2>1. WorkersAreDistinct(worker, m_inflight_blocks)
    BY <1>0 DEF PositionsAreDistinct
  <2>2. \A v \in Workers : /\ IsInFlight(worker'[v]) <=> IsInFlight(worker[v])
                           /\ worker'[v].q = worker[v].q
    BY <1>3, <1>7, <1>9
  <2>3. WorkersAreDistinct(worker', m_inflight_blocks)
    BY <2>1, <2>2 DEF WorkersAreDistinct
  <2> QED BY <1>0, <1>1, <2>3 DEF PositionsAreDistinct
<1>17. RefsAreCounts' /\ AcksAreUnique'
  <2>1. \A Us, Rs : Matched(Us, Rs) => Total(Us, Rs)' = Total(Us, Rs)
    <3>1. \/ /\ out' = Append(out, ResultOf(worker[w].q, worker[w].copy)) /\ UNCHANGED urg
          \/ /\ urg' = Append(urg, ResultOf(worker[w].q, worker[w].copy)) /\ UNCHANGED out
      BY <1>2 DEF r, x
    <3> QED BY <1>0, <1>1, <1>3, <1>9, <3>1, CountPut
  <2>2. Pending' => Pending
    BY <1>1 DEF Pending
  <2> QED BY <1>0, <1>1, <2>1, <2>2, TheyMatch, CountsKept
<1>18. MeshesWillBeCurrent'
  <2>1. SUFFICES ASSUME NEW p \in Blocks \ overtaken', NEW b \in Reads(p),
                        Loaded(p)', Loaded(b)'
                 PROVE  OnItsWay(p, b)'
    BY DEF MeshesWillBeCurrent, Reads
  <2>2. OnItsWay(p, b)
    BY <1>0, <1>1, <2>1 DEF MeshesWillBeCurrent, Loaded
  <2>3. CASE p = q.p
    <3>1. \A v \in Workers \ {w} : IsWorking(worker[v]) => worker[v].q.p # p
      <4>1. \A v \in Workers : IsWorking(worker[v]) => IsInFlight(worker[v])
        BY DEF IsWorking, IsInFlight
      <4> QED BY <1>0, <1>3, <1>9, <2>3, <4>1 DEF PositionsAreDistinct, WorkersAreDistinct
    <3>2. NoWorkerFor(worker', p)
      BY <1>9, <3>1 DEF NoWorkerFor
    <3>3. ~NoWorkerFor(worker, p)
      BY <1>3, <1>9, <2>3 DEF NoWorkerFor
    <3>4. CASE IsMade(worker, p, b, map[b])
      <4>1. x.copy[b] = map[b]
        BY <1>5, <1>9, <3>1, <3>4 DEF IsMade
      <4>2. Shows(out', p, b, map[b]) \/ Shows(urg', p, b, map[b])
        <5>1. CASE q.urgent /\ urg' = Append(urg, r) /\ UNCHANGED out
          BY <1>3, <1>10, <2>3, <4>1, <5>1, ShowsAppend
        <5>2. CASE ~q.urgent /\ out' = Append(out, r) /\ UNCHANGED urg
          BY <1>3, <1>10, <2>3, <4>1, <5>2, ShowsAppend
        <5> QED BY <1>2, <5>1, <5>2
      <4>3. IsResult(out', urg', mesh', p, b, map[b])
        BY <4>2 DEF IsResult
      <4> QED BY <1>1, <2>2, <3>2, <3>3, <4>3 DEF OnItsWay
    <3> QED BY <1>1, <2>2, <3>3, <3>4 DEF OnItsWay
  <2>4. CASE p # q.p
    <3>1. NoWorkerFor(worker, p) => NoWorkerFor(worker', p)
      BY <1>9 DEF NoWorkerFor
    <3>2. IsMade(worker, p, b, map[b]) => IsMade(worker', p, b, map[b])
      BY <1>9, <2>4 DEF IsMade
    <3>3. /\ Shows(out, p, b, map[b]) => Shows(out', p, b, map[b])
          /\ Shows(urg, p, b, map[b]) => Shows(urg', p, b, map[b])
          /\ NoneFor(out, p) => NoneFor(out', p)
          /\ NoneFor(urg, p) => NoneFor(urg', p)
      <4>1. CASE q.urgent /\ urg' = Append(urg, r) /\ UNCHANGED out
        BY <1>3, <1>10, <2>4, <4>1, ShowsAppend
      <4>2. CASE ~q.urgent /\ out' = Append(out, r) /\ UNCHANGED urg
        BY <1>3, <1>10, <2>4, <4>2, ShowsAppend
      <4> QED BY <1>2, <4>1, <4>2
    <3>4. IsResult(out, urg, mesh, p, b, map[b]) => IsResult(out', urg', mesh', p, b, map[b])
      BY <1>1, <3>3 DEF IsResult
    <3> QED BY <1>1, <2>2, <3>1, <3>2, <3>4 DEF OnItsWay
  <2> QED BY <2>3, <2>4
<1> QED BY <1>13, <1>14, <1>15, <1>16, <1>17, <1>18 DEF MeshInv

LEMMA DoneKeeps ==
  ASSUME MeshInv, NEW w \in Workers, Done(w)
  PROVE  MeshInv'
<1>0. /\ Typed /\ TypeOK /\ MainIsInOrder /\ AllAreSound /\ PositionsAreDistinct
      /\ RefsAreCounts /\ AcksAreUnique /\ MeshesWillBeCurrent
  BY Types DEF MeshInv
<1> DEFINE p == worker[w].q.p
           y == [pc |-> "pop", q |-> NoUpdate(p), left |-> {}, copy |-> Nothing]
<1>1. /\ worker[w].pc = "done" /\ m_inflight_blocks' = m_inflight_blocks \ {p}
      /\ UNCHANGED <<main, map, refs, mesh, m_queue, m_urgents, m_queue_out,
                     m_queue_out_urgent, semaphore, received, overtaken, writes, unloads>>
  BY DEF Done, StillInflight, mapVars, outVars, history
<1>2. worker' = [worker EXCEPT ![w] = y]
  BY DEF Done
<1>3. p \in Blocks
  BY <1>0, Fields DEF Typed
<1>4. y \in WorkerState /\ y.pc = "pop"
  BY <1>3, NoUpdateFields, Fields DEF WorkerState
<1> HIDE DEF y
<1>5. worker' \in [Workers -> WorkerState] /\ OneWorks(w, y)
  BY <1>0, <1>2, <1>4, WorkerChanges
<1>6. /\ worker'[w] = y /\ ~IsInFlight(y) /\ ~IsWorking(y)
      /\ IsInFlight(worker[w]) /\ ~IsWorking(worker[w])
      /\ \A v \in Workers \ {w} : worker'[v] = worker[v]
  BY <1>1, <1>4, <1>5 DEF OneWorks, IsWorking, IsInFlight
<1>7. \A v \in Workers : /\ IsWorking(worker'[v]) <=> IsWorking(worker[v])
                         /\ IsWorking(worker[v]) => worker'[v] = worker[v]
  BY <1>6
<1>8. TypeOK'
  <2>1. m_inflight_blocks' \subseteq Blocks
    BY <1>0, <1>1 DEF Typed
  <2> QED BY <1>0, <1>1, <1>5, <2>1 DEF TypeOK, WorkerState
<1>9. MainIsInOrder'
  BY <1>0, <1>1 DEF MainIsInOrder, Pending
<1>10. AllAreSound'
  BY <1>0, <1>1, <1>7 DEF AllAreSound
<1>11. PositionsAreDistinct'
  <2>1. WorkersAreDistinct(worker, m_inflight_blocks)
    BY <1>0 DEF PositionsAreDistinct
  <2>2. \A v \in Workers \ {w} : IsInFlight(worker[v]) => worker[v].q.p # p
    BY <1>6, <2>1 DEF WorkersAreDistinct
  <2>3. \A u, v \in Workers :
          IsInFlight(worker'[u]) /\ IsInFlight(worker'[v]) /\ worker'[u].q.p = worker'[v].q.p
          => u = v
    BY <1>6, <2>1 DEF WorkersAreDistinct
  <2>4. \A x \in Blocks : x \in m_inflight_blocks' <=>
          \E v \in Workers : IsInFlight(worker'[v]) /\ worker'[v].q.p = x
    <3>1. SUFFICES ASSUME NEW x \in Blocks
                   PROVE  x \in m_inflight_blocks' <=>
                            \E v \in Workers : IsInFlight(worker'[v]) /\ worker'[v].q.p = x
      OBVIOUS
    <3>2. x \in m_inflight_blocks <=> \E v \in Workers : IsInFlight(worker[v]) /\ worker[v].q.p = x
      BY <2>1 DEF WorkersAreDistinct
    <3>3. x \in m_inflight_blocks' <=> x \in m_inflight_blocks /\ x # p
      BY <1>1
    <3>4. ASSUME NEW v \in Workers, IsInFlight(worker'[v]), worker'[v].q.p = x
          PROVE  x \in m_inflight_blocks /\ x # p
      <4>1. v # w /\ worker'[v] = worker[v]
        BY <1>6, <3>4
      <4> QED BY <2>2, <3>2, <3>4, <4>1
    <3>5. ASSUME x \in m_inflight_blocks, x # p
          PROVE  \E v \in Workers : IsInFlight(worker'[v]) /\ worker'[v].q.p = x
      <4>1. PICK v \in Workers : IsInFlight(worker[v]) /\ worker[v].q.p = x
        BY <3>2, <3>5
      <4> QED BY <1>6, <3>5, <4>1
    <3> QED BY <3>3, <3>4, <3>5
  <2>5. WorkersAreDistinct(worker', m_inflight_blocks')
    BY <2>3, <2>4 DEF WorkersAreDistinct
  <2> QED BY <1>0, <1>1, <2>5 DEF PositionsAreDistinct
<1>12. RefsAreCounts' /\ AcksAreUnique'
  <2>1. SameUpdates
    BY <1>7 DEF SameUpdates
  <2>2. Pending' => Pending
    BY <1>1 DEF Pending
  <2> QED BY <1>0, <1>1, <2>1, <2>2, AllGoOn
<1>13. MeshesWillBeCurrent'
  <2>1. SUFFICES ASSUME NEW x \in Blocks \ overtaken', NEW b \in Reads(x),
                        Loaded(x)', Loaded(b)'
                 PROVE  OnItsWay(x, b)'
    BY DEF MeshesWillBeCurrent, Reads
  <2>2. OnItsWay(x, b)
    BY <1>0, <1>1, <2>1 DEF MeshesWillBeCurrent, Loaded
  <2>3. /\ IsMade(worker, x, b, map[b]) => IsMade(worker', x, b, map[b])
        /\ NoWorkerFor(worker, x) => NoWorkerFor(worker', x)
    BY <1>7 DEF IsMade, NoWorkerFor
  <2> QED BY <1>1, <2>2, <2>3 DEF OnItsWay
<1> QED BY <1>8, <1>9, <1>10, <1>11, <1>12, <1>13 DEF MeshInv

-----------------------------------------------------------------------------
(* The invariant holds.                                                    *)

LEMMA MeshInit == Init => MeshInv
<1> SUFFICES ASSUME Init PROVE MeshInv
  OBVIOUS
<1>1. PICK b \in Blocks :
        /\ main = [pc |-> "step", todo |-> <<>>, block |-> b, ack |-> FALSE, urgent |-> FALSE]
        /\ worker = [w \in Workers |-> [pc |-> "wait", q |-> NoUpdate(b), left |-> {},
                                        copy |-> Nothing]]
  BY DEF Init
<1>2. /\ map = Nothing /\ refs = [c \in Blocks |-> 0] /\ mesh = [c \in Blocks |-> Nothing]
      /\ m_queue = <<>> /\ m_urgents = {} /\ m_inflight_blocks = {}
      /\ m_queue_out = <<>> /\ m_queue_out_urgent = <<>>
      /\ semaphore = {}
      /\ received = {} /\ overtaken = {} /\ writes = 0 /\ unloads = 0
  BY DEF Init
<1>3. \A w \in Workers : worker[w].pc = "wait" /\ ~IsWorking(worker[w]) /\ ~IsInFlight(worker[w])
  BY <1>1 DEF IsWorking, IsInFlight
<1>4. \A c \in Blocks : map[c] = NoBlock
  BY <1>2, Fields
<1>5. TypeOK
  <2>1. worker \in [Workers -> WorkerState]
    BY <1>1, NoUpdateFields, Fields DEF WorkerState
  <2>2. map \in Copies /\ mesh \in [Blocks -> Copies] /\ refs \in [Blocks -> Nat]
    BY <1>2, Fields
  <2>3. main \in [pc : {"step", "writing", "queueing", "replacing"}, todo : Seq(Blocks),
                  block : Blocks, ack : BOOLEAN, urgent : BOOLEAN]
    BY <1>1
  <2>4. /\ m_queue \in Seq(QueuedMeshUpdate) /\ m_queue_out \in Seq(MeshUpdateResult)
        /\ m_queue_out_urgent \in Seq(MeshUpdateResult)
    BY <1>2
  <2>5. writes \in 0 .. MaxWrites /\ unloads \in 0 .. MaxUnloads
    BY <1>2, MeshAssumption
  <2> QED BY <1>2, <2>1, <2>2, <2>3, <2>4, <2>5 DEF TypeOK, WorkerState
<1>6. main.pc = "step" /\ main.todo = <<>>
  BY <1>1
<1>7. MainIsInOrder
  <2>1. \A c \in Blocks : map[c] <= 2 * writes
    BY <1>2, <1>4 DEF NoBlock
  <2>2. \A i \in 2 .. Len(main.todo) : main.todo[i] # main.block
    BY <1>6
  <2> QED BY <1>6, <2>1, <2>2 DEF MainIsInOrder
<1>8. AllAreSound
  BY <1>2, <1>3 DEF AllAreSound
<1>9. PositionsAreDistinct
  BY <1>2, <1>3 DEF PositionsAreDistinct, QueueIsDistinct, WorkersAreDistinct
<1>10. \A Us, Rs : Total(Us, Rs) = 0
  <2>1. SUFFICES ASSUME NEW Us, NEW Rs PROVE Total(Us, Rs) = 0
    OBVIOUS
  <2>2. IsNone(m_queue, worker, m_queue_out, m_queue_out_urgent, Us, Rs)
    BY <1>2, <1>3 DEF IsNone
  <2> QED BY <1>5, <2>2, Types, CountIsZero DEF Total, Typed
<1>11. RefsAreCounts /\ AcksAreUnique
  BY <1>2, <1>10 DEF RefsAreCounts, AcksAreUnique
<1>12. MeshesWillBeCurrent
  BY <1>4 DEF MeshesWillBeCurrent, Loaded
<1> QED BY <1>5, <1>7, <1>8, <1>9, <1>11, <1>12 DEF MeshInv

LEMMA MeshStep == MeshInv /\ [Next]_vars => MeshInv'
<1> SUFFICES ASSUME MeshInv, [Next]_vars PROVE MeshInv'
  OBVIOUS
<1>1. ASSUME NEW b \in Blocks, Unload(b) PROVE MeshInv'
  BY <1>1, UnloadKeeps
<1>2. ASSUME NEW b \in Blocks, NEW node \in BOOLEAN, BeginWrite(b, node) PROVE MeshInv'
  BY <1>2, BeginWriteKeeps
<1>3. CASE MainStep
  <2>1. CASE EndWrite
    BY <2>1, EndWriteKeeps
  <2>2. CASE UpdateBlock
    BY <2>2, UpdateBlockKeeps
  <2>3. CASE DeferUpdate
    BY <2>3, DeferUpdateKeeps
  <2>4. CASE BeginReplace \/ EndReplace
    BY <2>4, ReplacingKeeps
  <2>5. CASE ReplaceMesh
    BY <2>5, ReplaceMeshKeeps
  <2> QED BY <1>3, <2>1, <2>2, <2>3, <2>4, <2>5 DEF MainStep
<1>4. ASSUME NEW w \in Workers, WorkerStep(w) PROVE MeshInv'
  <2>1. CASE Wake(w)
    BY <2>1, WakeKeeps
  <2>2. CASE Pop(w)
    BY <2>2, PopKeeps
  <2>3. CASE FillBlockData(w)
    BY <2>3, FillBlockDataKeeps
  <2>4. CASE PutResult(w)
    BY <2>4, PutResultKeeps
  <2>5. CASE Done(w)
    BY <2>5, DoneKeeps
  <2> QED BY <1>4, <2>1, <2>2, <2>3, <2>4, <2>5 DEF WorkerStep
<1>5. CASE UNCHANGED vars
  BY <1>5, StutterKeeps
<1> QED BY <1>1, <1>2, <1>3, <1>4, <1>5 DEF Next

LEMMA MeshInvHolds == Spec => []MeshInv
BY MeshInit, MeshStep, PTL DEF Spec

-----------------------------------------------------------------------------
(* What it says of the properties the runs check.                          *)

\* What is under way is in the queue, with a worker or a result.
LEMMA WhatIsUnderway ==
  /\ \A u : u \in UpdatesUnderway <=>
       (\E i \in DOMAIN m_queue : m_queue[i] = u)
         \/ \E w \in Workers : IsWorking(worker[w]) /\ worker[w].q = u
  /\ \A r : r \in Results <=>
       (\E i \in DOMAIN m_queue_out : m_queue_out[i] = r)
         \/ \E i \in DOMAIN m_queue_out_urgent : m_queue_out_urgent[i] = r
<1>1. \A u : u \in ToSet(m_queue) <=> \E i \in DOMAIN m_queue : m_queue[i] = u
  BY DEF ToSet
<1>2. \A u : u \in {worker[w].q : w \in Working} <=>
               \E w \in Workers : IsWorking(worker[w]) /\ worker[w].q = u
  BY DEF Working, IsWorking
<1>3. \A r : r \in Results <=>
       (\E i \in DOMAIN m_queue_out : m_queue_out[i] = r)
         \/ \E i \in DOMAIN m_queue_out_urgent : m_queue_out_urgent[i] = r
  BY DEF ToSet, Results
<1> QED BY <1>1, <1>2, <1>3 DEF UpdatesUnderway

LEMMA QuietIsEmpty ==
  ASSUME Typed, Quiet
  PROVE  /\ DOMAIN m_queue = {} /\ DOMAIN m_queue_out = {} /\ DOMAIN m_queue_out_urgent = {}
         /\ \A w \in Workers : ~IsWorking(worker[w])
<1>1. \A u \in UpdatesUnderway : u.p \notin Blocks
  BY DEF Quiet, Underway
<1>2. \A r \in Results : r.p \notin Blocks
  BY DEF Quiet, Underway
<1>3. \A i \in DOMAIN m_queue : m_queue[i] \in UpdatesUnderway /\ m_queue[i].p \in Blocks
  BY WhatIsUnderway, Fields DEF Typed
<1>4. \A w \in Workers : worker[w].q.p \in Blocks
                         /\ (IsWorking(worker[w]) => worker[w].q \in UpdatesUnderway)
  BY WhatIsUnderway, Fields DEF Typed
<1>5. \A i \in DOMAIN m_queue_out : m_queue_out[i] \in Results /\ m_queue_out[i].p \in Blocks
  BY WhatIsUnderway, Fields DEF Typed
<1>6. \A i \in DOMAIN m_queue_out_urgent :
        m_queue_out_urgent[i] \in Results /\ m_queue_out_urgent[i].p \in Blocks
  BY WhatIsUnderway, Fields DEF Typed
<1> QED BY <1>1, <1>2, <1>3, <1>4, <1>5, <1>6

LEMMA CountedFromInv == MeshInv => BlocksAreCounted
<1> SUFFICES ASSUME MeshInv PROVE BlocksAreCounted
  OBVIOUS
<1>0. Typed /\ TypeOK /\ AllAreSound /\ RefsAreCounts
  BY Types DEF MeshInv
<1>1. NoDanglingBlock
  <2>1. ASSUME NEW u \in UpdatesUnderway, NEW b \in u.map_blocks PROVE Loaded(b)
    <3>1. UpdateIsSound(u, map, received)
      <4>1. \A i \in DOMAIN m_queue : UpdateIsSound(m_queue[i], map, received)
        BY <1>0 DEF AllAreSound
      <4>2. \A w \in Workers : IsWorking(worker[w]) => UpdateIsSound(worker[w].q, map, received)
        BY <1>0 DEF AllAreSound, WorkerIsSound
      <4> QED BY <2>1, <4>1, <4>2, WhatIsUnderway
    <3> QED BY <2>1, <3>1 DEF UpdateIsSound, Loaded
  <2>2. ASSUME NEW r \in Results, NEW b \in r.map_blocks PROVE Loaded(b)
    BY <1>0, <2>2, WhatIsUnderway DEF AllAreSound, ResultIsSound, Loaded
  <2> QED BY <2>1, <2>2 DEF NoDanglingBlock
<1>2. NothingLeaked
  <2>1. SUFFICES ASSUME Quiet, NEW b \in Blocks PROVE refs[b] = 0
    BY DEF NothingLeaked
  <2>2. IsNone(m_queue, worker, m_queue_out, m_queue_out_urgent, UpdatesOf(b), ResultsOf(b))
    BY <1>0, <2>1, QuietIsEmpty DEF IsNone
  <2>3. Total(UpdatesOf(b), ResultsOf(b)) = 0
    BY <1>0, <2>2, CountIsZero DEF Total, Typed
  <2> QED BY <1>0, <2>3 DEF RefsAreCounts
<1> QED BY <1>0, <1>1, <1>2 DEF BlocksAreCounted

LEMMA OneFromInv == MeshInv => OneUpdateAtATime
<1> SUFFICES ASSUME MeshInv PROVE OneUpdateAtATime
  OBVIOUS
<1>0. Typed /\ QueueIsDistinct(m_queue, m_urgents) /\ WorkersAreDistinct(worker, m_inflight_blocks)
  BY Types DEF MeshInv, PositionsAreDistinct
<1>1. ASSUME NEW p \in Blocks PROVE Cardinality(Queued(p)) <= 1
  <2>1. \A i, j \in Queued(p) : i = j
    BY <1>0 DEF Queued, QueueIsDistinct
  <2>2. CASE Queued(p) = {}
    <3>1. Cardinality(Queued(p)) = 0
      BY <2>2, FS_EmptySet
    <3> QED BY <3>1
  <2>3. CASE Queued(p) # {}
    <3>1. PICK i \in Queued(p) : Queued(p) = {i}
      BY <2>1, <2>3
    <3>2. Cardinality(Queued(p)) = 1
      BY <3>1, FS_Singleton
    <3> QED BY <3>2
  <2> QED BY <2>2, <2>3
<1>2. m_urgents = {q.p : q \in {x \in ToSet(m_queue) : x.urgent}}
  <2>1. m_urgents \subseteq Blocks
    BY <1>0 DEF Typed
  <2>2. \A i \in DOMAIN m_queue : m_queue[i].p \in Blocks
    BY <1>0, Fields DEF Typed
  <2>3. \A p \in Blocks : p \in m_urgents <=> \E i \in DOMAIN m_queue : m_queue[i].p = p /\ m_queue[i].urgent
    BY <1>0 DEF QueueIsDistinct
  <2> QED BY <2>1, <2>2, <2>3 DEF ToSet
<1>3. \A v, w \in Working : worker[v].q.p = worker[w].q.p => v = w
  BY <1>0 DEF Working, WorkersAreDistinct, IsInFlight
<1> QED BY <1>1, <1>2, <1>3 DEF OneUpdateAtATime

LEMMA AckedFromInv == MeshInv => AckedAfterUpdate
<1> SUFFICES ASSUME MeshInv PROVE AckedAfterUpdate
  OBVIOUS
<1>0. Typed /\ AllAreSound /\ AcksAreUnique
  BY Types DEF MeshInv
<1>1. ASSUME NEW r \in Results, NEW a \in r.ack_list PROVE a.data <= r.mesh[a.block]
  BY <1>0, <1>1, WhatIsUnderway DEF AllAreSound, ResultIsSound
<1>2. \A u \in UpdatesUnderway \cup Results : u.ack_list \subseteq received
  <2>1. ASSUME NEW u \in UpdatesUnderway PROVE u.ack_list \subseteq received
    BY <1>0, <2>1, WhatIsUnderway DEF AllAreSound, WorkerIsSound, UpdateIsSound
  <2>2. ASSUME NEW r \in Results PROVE r.ack_list \subseteq received
    BY <1>0, <2>2, WhatIsUnderway DEF AllAreSound, ResultIsSound
  <2> QED BY <2>1, <2>2
<1>3. ASSUME NEW u \in UpdatesUnderway \cup Results, NEW x \in UpdatesUnderway \cup Results,
             NEW a \in u.ack_list, a \in x.ack_list
      PROVE  u = x
  <2>1. a \in Acks
    BY <1>0, <1>2 DEF Typed
  <2>2. Count(m_queue, worker, m_queue_out, m_queue_out_urgent, UpdatesWith(a), ResultsWith(a)) <= 1
    BY <1>0, <2>1 DEF AcksAreUnique, Total
  <2>3. ASSUME NEW e \in UpdatesUnderway \cup Results, a \in e.ack_list
        PROVE  Among(e, m_queue, worker, m_queue_out, m_queue_out_urgent,
                     UpdatesWith(a), ResultsWith(a))
    <3>1. \A w \in Workers : worker[w].q \in QueuedMeshUpdate
      BY <1>0, Fields DEF Typed
    <3>2. CASE e \in UpdatesUnderway
      <4>1. e \in QueuedMeshUpdate
        BY <1>0, <3>1, <3>2, WhatIsUnderway DEF Typed
      <4>2. e \in UpdatesWith(a)
        BY <2>3, <4>1 DEF UpdatesWith
      <4>3. (\E i \in DOMAIN m_queue : m_queue[i] = e)
              \/ \E w \in Workers : IsWorking(worker[w]) /\ worker[w].q = e
        BY <3>2, WhatIsUnderway
      <4> QED BY <4>2, <4>3 DEF Among
    <3>3. CASE e \in Results
      <4>1. e \in MeshUpdateResult
        <5>1. /\ \A i \in DOMAIN m_queue_out : m_queue_out[i] \in MeshUpdateResult
              /\ \A i \in DOMAIN m_queue_out_urgent : m_queue_out_urgent[i] \in MeshUpdateResult
          BY <1>0 DEF Typed
        <5> QED BY <3>3, <5>1, WhatIsUnderway
      <4>2. e \in ResultsWith(a)
        BY <2>3, <4>1 DEF ResultsWith
      <4>3. (\E i \in DOMAIN m_queue_out : m_queue_out[i] = e)
              \/ \E i \in DOMAIN m_queue_out_urgent : m_queue_out_urgent[i] = e
        BY <3>3, WhatIsUnderway
      <4> QED BY <4>2, <4>3 DEF Among
    <3> QED BY <2>3, <3>2, <3>3
  <2>4. /\ m_queue \in Seq(QueuedMeshUpdate) /\ m_queue_out \in Seq(MeshUpdateResult)
        /\ m_queue_out_urgent \in Seq(MeshUpdateResult)
    BY <1>0 DEF Typed
  <2> QED BY <1>3, <2>2, <2>3, <2>4, CountIsOne
<1>4. \A u, x \in UpdatesUnderway \cup Results : u # x => u.ack_list \cap x.ack_list = {}
  BY <1>3
<1> QED BY <1>1, <1>2, <1>4 DEF AckedAfterUpdate

LEMMA CurrentFromInv == MeshInv => MeshesAreCurrentUnlessOvertaken
<1> SUFFICES ASSUME MeshInv, Quiet, NEW p \in Blocks \ overtaken, Loaded(p),
                    NEW b \in Reads(p), Loaded(b)
             PROVE  mesh[p][b] = map[b]
  BY DEF MeshesAreCurrentUnlessOvertaken
<1>0. Typed /\ MainIsInOrder /\ MeshesWillBeCurrent
  BY Types DEF MeshInv
<1>1. OnItsWay(p, b)
  BY <1>0 DEF MeshesWillBeCurrent
<1>2. /\ DOMAIN m_queue = {} /\ DOMAIN m_queue_out = {} /\ DOMAIN m_queue_out_urgent = {}
      /\ \A w \in Workers : ~IsWorking(worker[w])
  BY <1>0, QuietIsEmpty
<1>3. ~IsListed(main.todo, p)
  <2>1. main.todo = <<>>
    BY <1>0 DEF Quiet, MainIsInOrder
  <2> QED BY <2>1 DEF IsListed
<1>4. ~IsQueued(m_queue, p, b) /\ ~IsMade(worker, p, b, map[b])
  BY <1>2 DEF IsQueued, IsMade
<1>5. IsResult(m_queue_out, m_queue_out_urgent, mesh, p, b, map[b])
  BY <1>1, <1>3, <1>4 DEF OnItsWay
<1> QED BY <1>2, <1>5 DEF IsResult, Shows

-----------------------------------------------------------------------------
(* The theorems.                                                           *)

(* Every variable keeps its type; in particular refDrop never takes the    *)
(* references of a block below zero (it asserts so).                       *)
THEOREM MeshTypes == Spec => []TypeOK
BY MeshInvHolds, PTL DEF MeshInv

(* The reference counts that keep the main thread from unloading a block   *)
(* which the queue, a worker or a result still points to (refGrab in       *)
(* MeshUpdateQueue::addBlock, refDrop in Client::step) are exact: none of  *)
(* the pointers dangles, and when nothing is under way no block is held.   *)
THEOREM ReferencesAreCounted == Spec => []BlocksAreCounted
BY MeshInvHolds, CountedFromInv, PTL

(* MeshUpdateQueue has one update of a position, m_urgents is what pop     *)
(* takes it for, and m_inflight_blocks keeps two workers from making the   *)
(* mesh of one position.                                                   *)
THEOREM UpdatesAreSingle == Spec => []OneUpdateAtATime
BY MeshInvHolds, OneFromInv, PTL

(* A block is acknowledged (Client::sendGotBlocks of what Client::step     *)
(* finds in ack_list) at most once, and with a mesh that was made from the *)
(* data that came or newer data, whatever updates were merged meanwhile.   *)
THEOREM AcksFollowUpdates == Spec => []AckedAfterUpdate
BY MeshInvHolds, AckedFromInv, PTL

(* No copy that a worker takes without a lock while the main thread writes *)
(* the block stays: when all is done every mesh shows its blocks as they   *)
(* are, unless an urgent result overtook an older one of its position in   *)
(* MeshUpdateManager's two result queues.                                  *)
THEOREM MeshesBecomeCurrent == Spec => []MeshesAreCurrentUnlessOvertaken
BY MeshInvHolds, CurrentFromInv, PTL
=============================================================================
