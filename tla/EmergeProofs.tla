---------------------------- MODULE EmergeProofs ----------------------------
(***************************************************************************)
(* The emerge queue for any threads, positions, chunks and peers: the      *)
(* counters and the queues agree with what is enqueued, a chunk is         *)
(* generated by one thread at a time and keeps no mark it should not, no   *)
(* thread sleeps on while there is work for it.                            *)
(***************************************************************************)
EXTENDS Emerge, FiniteSetTheorems, SequenceTheorems, TLAPS

-----------------------------------------------------------------------------
(* The inductive invariants.                                               *)

QueueTypes ==
  /\ Enqueued \subseteq Positions /\ IsFiniteSet(Enqueued)
  /\ \A p \in Enqueued : m_blocks_enqueued[p] \in BlockEmergeData
  /\ m_peer_queue_count \in [Peers \cup {NoPeer} -> Nat]
  /\ m_block_queue \in [Threads -> Seq(Positions)]

\* The places in the queues are those of the enqueued positions, one each.
EachOnce ==
  /\ \A t \in Threads : \A i \in 1 .. Len(m_block_queue[t]) : m_block_queue[t][i] \in Enqueued
  /\ \A t, u \in Threads : \A i \in 1 .. Len(m_block_queue[t]), j \in 1 .. Len(m_block_queue[u]) :
       m_block_queue[t][i] = m_block_queue[u][j] => t = u /\ i = j
  /\ \A p \in Enqueued : \E t \in Threads : \E i \in 1 .. Len(m_block_queue[t]) :
       m_block_queue[t][i] = p

QueueInv == QueueTypes /\ EachOnce /\ CountsAgree

ThreadTypes ==
  /\ m_queue_mutex \in Threads \cup {None}
  /\ env_mutex \in Threads \cup {Server, None}
  /\ m_blocks \in [Positions -> BlockState]
  /\ m_chunks_in_progress \subseteq {Chunk[p] : p \in Positions}
  /\ pc \in [Threads -> Labels]
  /\ item \in [Threads -> BlockEmergeData \cup {NoItem}]
  /\ \A t \in Threads : pc[t] \in {"fetch", "load", "generate", "finish"} =>
       item[t] \in BlockEmergeData

Types == QueueInv /\ ThreadTypes /\ requests \in Nat

-----------------------------------------------------------------------------
(* The queues.  They change in two ways.                                   *)

LEMMA QueueFrame ==
  ASSUME QueueInv, UNCHANGED mgrVars
  PROVE  QueueInv'
<1>1. QueueTypes'
  BY DEF QueueInv, QueueTypes, mgrVars, Enqueued
<1>2. EachOnce'
  BY DEF QueueInv, EachOnce, mgrVars, Enqueued
<1>3. CountsAgree'
  BY DEF QueueInv, CountsAgree, mgrVars, Enqueued
<1> QED BY <1>1, <1>2, <1>3 DEF QueueInv

LEMMA EnqueueKeeps ==
  ASSUME QueueInv, NEW c \in Threads \cup {Server}, NEW pos \in Positions,
         NEW peer \in Peers \cup {NoPeer}, NEW gen \in BOOLEAN, NEW force \in BOOLEAN,
         NEW callbacks \in SUBSET (1 .. MaxRequests),
         Enqueue(c, pos, peer, gen, force, callbacks)
  PROVE  QueueInv'
<1>1. CASE UNCHANGED mgrVars
  BY <1>1, QueueFrame
<1>2. CASE /\ pos \in Enqueued
           /\ m_blocks_enqueued' =
                [m_blocks_enqueued EXCEPT ![pos] = Merged(@, gen, callbacks)]
           /\ UNCHANGED <<m_peer_queue_count, m_block_queue>>
  <2>1. PICK data : data = m_blocks_enqueued[pos] /\ data \in BlockEmergeData
    BY <1>2 DEF QueueInv, QueueTypes
  <2>2. Merged(data, gen, callbacks) \in BlockEmergeData
        /\ Merged(data, gen, callbacks).peer = data.peer
    BY <2>1 DEF Merged, BlockEmergeData
  <2>3. /\ Enqueued' = Enqueued
        /\ \A p \in Enqueued \ {pos} : m_blocks_enqueued'[p] = m_blocks_enqueued[p]
        /\ m_blocks_enqueued'[pos] = Merged(data, gen, callbacks)
    BY <1>2, <2>1 DEF Enqueued
  <2>4. QueueTypes'
    BY <1>2, <2>2, <2>3 DEF QueueInv, QueueTypes
  <2>5. \A p \in Enqueued : m_blocks_enqueued'[p].peer = m_blocks_enqueued[p].peer
    BY <2>1, <2>2, <2>3
  <2>6. \A q : {p \in Enqueued' : m_blocks_enqueued'[p].peer = q}
                 = {p \in Enqueued : m_blocks_enqueued[p].peer = q}
    BY <2>3, <2>5
  <2>7. CountsAgree'
    BY <1>2, <2>6 DEF QueueInv, CountsAgree
  <2>8. EachOnce'
    BY <1>2, <2>3 DEF QueueInv, EachOnce
  <2> QED BY <2>4, <2>7, <2>8 DEF QueueInv
<1>3. CASE /\ pos \notin Enqueued
           /\ m_blocks_enqueued' =
                [p \in Enqueued \cup {pos} |->
                  IF p # pos THEN m_blocks_enqueued[p]
                  ELSE [pos |-> pos, gen |-> gen, peer |-> peer, callbacks |-> callbacks]]
           /\ m_peer_queue_count' = [m_peer_queue_count EXCEPT ![peer] = @ + 1]
           /\ \E t \in Threads : m_block_queue' = [m_block_queue EXCEPT ![t] = Append(@, pos)]
  <2>0. PICK data : data = [pos |-> pos, gen |-> gen, peer |-> peer, callbacks |-> callbacks]
    OBVIOUS
  <2>1. data \in BlockEmergeData /\ data.peer = peer
    BY <2>0 DEF BlockEmergeData
  <2>2. m_blocks_enqueued' = [p \in Enqueued \cup {pos} |-> IF p # pos THEN m_blocks_enqueued[p]
                                                             ELSE data]
    BY <1>3, <2>0
  <2>3. /\ Enqueued' = Enqueued \cup {pos}
        /\ \A p \in Enqueued : m_blocks_enqueued'[p] = m_blocks_enqueued[p]
        /\ m_blocks_enqueued'[pos] = data
    BY <1>3, <2>2 DEF Enqueued
  <2>4. PICK t \in Threads : m_block_queue' = [m_block_queue EXCEPT ![t] = Append(@, pos)]
    BY <1>3
  <2>5. /\ m_block_queue[t] \in Seq(Positions)
        /\ m_block_queue'[t] = Append(m_block_queue[t], pos)
        /\ m_block_queue'[t] \in Seq(Positions)
        /\ \A u \in Threads \ {t} : m_block_queue'[u] = m_block_queue[u]
    BY <2>4 DEF QueueInv, QueueTypes
  <2>6. /\ Len(m_block_queue'[t]) = Len(m_block_queue[t]) + 1
        /\ \A i \in 1 .. Len(m_block_queue[t]) : m_block_queue'[t][i] = m_block_queue[t][i]
        /\ m_block_queue'[t][Len(m_block_queue[t]) + 1] = pos
        /\ Len(m_block_queue[t]) \in Nat
    BY <2>5
  <2>7. \A u \in Threads : \A i \in 1 .. Len(m_block_queue'[u]) :
          \/ i \in 1 .. Len(m_block_queue[u]) /\ m_block_queue'[u][i] = m_block_queue[u][i]
          \/ u = t /\ i = Len(m_block_queue[t]) + 1 /\ m_block_queue'[u][i] = pos
    BY <2>5, <2>6
  <2>8. QueueTypes'
    <3>1. IsFiniteSet(Enqueued')
      BY <2>3, FS_AddElement DEF QueueInv, QueueTypes
    <3>2. m_peer_queue_count' \in [Peers \cup {NoPeer} -> Nat]
      BY <1>3 DEF QueueInv, QueueTypes
    <3>3. m_block_queue' \in [Threads -> Seq(Positions)]
      BY <2>4, <2>5 DEF QueueInv, QueueTypes
    <3> QED BY <2>1, <2>3, <3>1, <3>2, <3>3 DEF QueueInv, QueueTypes
  <2>9. EachOnce'
    <3>1. \A u \in Threads : \A i \in 1 .. Len(m_block_queue[u]) :
            m_block_queue[u][i] \in Enqueued /\ m_block_queue[u][i] # pos
      BY <1>3 DEF QueueInv, EachOnce
    <3>2. \A u \in Threads : \A i \in 1 .. Len(m_block_queue'[u]) : m_block_queue'[u][i] \in Enqueued'
      BY <2>3, <2>7, <3>1
    <3>3. \A u, v \in Threads :
            \A i \in 1 .. Len(m_block_queue'[u]), j \in 1 .. Len(m_block_queue'[v]) :
              m_block_queue'[u][i] = m_block_queue'[v][j] => u = v /\ i = j
      <4> SUFFICES ASSUME NEW u \in Threads, NEW v \in Threads,
                          NEW i \in 1 .. Len(m_block_queue'[u]),
                          NEW j \in 1 .. Len(m_block_queue'[v]),
                          m_block_queue'[u][i] = m_block_queue'[v][j]
                   PROVE  u = v /\ i = j
        OBVIOUS
      <4>1. \/ i \in 1 .. Len(m_block_queue[u]) /\ m_block_queue'[u][i] = m_block_queue[u][i]
            \/ u = t /\ i = Len(m_block_queue[t]) + 1 /\ m_block_queue'[u][i] = pos
        BY <2>7
      <4>2. \/ j \in 1 .. Len(m_block_queue[v]) /\ m_block_queue'[v][j] = m_block_queue[v][j]
            \/ v = t /\ j = Len(m_block_queue[t]) + 1 /\ m_block_queue'[v][j] = pos
        BY <2>7
      <4> QED BY <3>1, <4>1, <4>2 DEF QueueInv, EachOnce
    <3>4. \A p \in Enqueued' : \E u \in Threads : \E i \in 1 .. Len(m_block_queue'[u]) :
            m_block_queue'[u][i] = p
      <4>1. CASE TRUE
        <5>1. Len(m_block_queue[t]) + 1 \in 1 .. Len(m_block_queue'[t])
          BY <2>6
        <5>2. \A u \in Threads : \A i \in 1 .. Len(m_block_queue[u]) :
                i \in 1 .. Len(m_block_queue'[u]) /\ m_block_queue'[u][i] = m_block_queue[u][i]
          BY <2>5, <2>6
        <5>3. \A p \in Enqueued : \E u \in Threads : \E i \in 1 .. Len(m_block_queue[u]) :
                m_block_queue[u][i] = p
          BY DEF QueueInv, EachOnce
        <5> QED BY <2>3, <2>6, <5>1, <5>2, <5>3
      <4> QED BY <4>1
    <3> QED BY <3>2, <3>3, <3>4 DEF EachOnce
  <2>10. CountsAgree'
    <3> SUFFICES ASSUME NEW q \in Peers \cup {NoPeer}
                 PROVE  m_peer_queue_count'[q] =
                          Cardinality({p \in Enqueued' : m_blocks_enqueued'[p].peer = q})
      BY DEF CountsAgree
    <3> DEFINE S == {p \in Enqueued : m_blocks_enqueued[p].peer = q}
    <3>1. IsFiniteSet(S) /\ pos \notin S
      BY <1>3, FS_Subset DEF QueueInv, QueueTypes
    <3>2. m_peer_queue_count[q] = Cardinality(S)
      BY DEF QueueInv, CountsAgree
    <3>3. CASE q = peer
      <4>1. {p \in Enqueued' : m_blocks_enqueued'[p].peer = q} = S \cup {pos}
        BY <2>1, <2>3, <3>3
      <4>2. m_peer_queue_count'[q] = m_peer_queue_count[q] + 1
        BY <1>3, <3>3 DEF QueueInv, QueueTypes
      <4> QED BY <3>1, <3>2, <4>1, <4>2, FS_AddElement
    <3>4. CASE q # peer
      <4>1. {p \in Enqueued' : m_blocks_enqueued'[p].peer = q} = S
        BY <1>3, <2>1, <2>3, <3>4
      <4>2. m_peer_queue_count'[q] = m_peer_queue_count[q]
        BY <1>3, <3>4 DEF QueueInv, QueueTypes
      <4> QED BY <3>2, <4>1, <4>2
    <3> QED BY <3>3, <3>4
  <2> QED BY <2>8, <2>9, <2>10 DEF QueueInv
<1> QED BY <1>1, <1>2, <1>3 DEF Enqueue, IsEnqueued, mgrVars

LEMMA PopFrontKeeps ==
  ASSUME Types, NEW t \in Threads, m_block_queue[t] # <<>>, PopFront(t)
  PROVE  QueueInv' /\ Front(t) \in BlockEmergeData
<1>0. PICK pos, data : pos = Head(m_block_queue[t]) /\ data = m_blocks_enqueued[pos]
  OBVIOUS
<1>1. /\ m_block_queue' = [m_block_queue EXCEPT ![t] = Tail(@)]
      /\ m_peer_queue_count' = [m_peer_queue_count EXCEPT ![data.peer] = Uncounted(data.peer)]
      /\ m_blocks_enqueued' = [p \in Enqueued \ {pos} |-> m_blocks_enqueued[p]]
  BY <1>0 DEF PopFront
<1>2. m_block_queue[t] \in Seq(Positions) /\ Len(m_block_queue[t]) \in Nat
  BY DEF Types, QueueInv, QueueTypes
<1>3. 1 \in 1 .. Len(m_block_queue[t]) /\ pos = m_block_queue[t][1]
  BY <1>0, <1>2
<1>4. pos \in Enqueued /\ data \in BlockEmergeData
  BY <1>0, <1>3 DEF Types, QueueInv, QueueTypes, EachOnce
<1>5. /\ m_block_queue'[t] = Tail(m_block_queue[t]) /\ m_block_queue'[t] \in Seq(Positions)
      /\ \A u \in Threads \ {t} : m_block_queue'[u] = m_block_queue[u]
  BY <1>1, <1>2 DEF Types, QueueInv, QueueTypes
<1>6. /\ Len(m_block_queue'[t]) = Len(m_block_queue[t]) - 1
      /\ \A i \in 1 .. Len(m_block_queue[t]) - 1 : m_block_queue'[t][i] = m_block_queue[t][i + 1]
  BY <1>2, <1>5
<1>7. /\ Enqueued' = Enqueued \ {pos}
      /\ \A p \in Enqueued' : m_blocks_enqueued'[p] = m_blocks_enqueued[p]
  BY <1>1 DEF Enqueued
<1>8. data.peer \in Peers \cup {NoPeer}
  BY <1>4 DEF BlockEmergeData
<1>9. \A q \in Peers \cup {NoPeer} :
        m_peer_queue_count'[q] = IF q = data.peer THEN m_peer_queue_count[q] - 1
                                 ELSE m_peer_queue_count[q]
  BY <1>1, <1>8 DEF Uncounted, Types, QueueInv, QueueTypes
<1>10. CountsAgree'
  <2> SUFFICES ASSUME NEW q \in Peers \cup {NoPeer}
               PROVE  m_peer_queue_count'[q] =
                        Cardinality({p \in Enqueued' : m_blocks_enqueued'[p].peer = q})
    BY DEF CountsAgree
  <2> DEFINE S == {p \in Enqueued : m_blocks_enqueued[p].peer = q}
  <2>1. IsFiniteSet(S)
    BY FS_Subset DEF Types, QueueInv, QueueTypes
  <2>2. m_peer_queue_count[q] = Cardinality(S)
    BY DEF Types, QueueInv, CountsAgree
  <2>3. {p \in Enqueued' : m_blocks_enqueued'[p].peer = q} = S \ {pos}
    BY <1>7
  <2>4. pos \in S <=> q = data.peer
    BY <1>0, <1>4
  <2>5. Cardinality(S \ {pos}) = IF pos \in S THEN Cardinality(S) - 1 ELSE Cardinality(S)
    BY <2>1, FS_RemoveElement
  <2> HIDE DEF S
  <2> QED BY <1>9, <2>2, <2>3, <2>4, <2>5
<1>11. QueueTypes'
  <2>1. IsFiniteSet(Enqueued')
    BY <1>7, FS_RemoveElement DEF Types, QueueInv, QueueTypes
  <2>2. m_peer_queue_count' \in [Peers \cup {NoPeer} -> Nat]
    <3>1. IsFiniteSet({p \in Enqueued : m_blocks_enqueued[p].peer = data.peer})
      BY FS_Subset DEF Types, QueueInv, QueueTypes
    <3>2. {p \in Enqueued : m_blocks_enqueued[p].peer = data.peer} # {}
      BY <1>0, <1>4
    <3>3. m_peer_queue_count[data.peer] # 0
      BY <1>8, <3>1, <3>2, FS_EmptySet DEF Types, QueueInv, CountsAgree
    <3>4. Uncounted(data.peer) \in Nat
      BY <1>8, <3>3 DEF Uncounted, Types, QueueInv, QueueTypes
    <3> QED BY <1>1, <3>4 DEF Types, QueueInv, QueueTypes
  <2>3. m_block_queue' \in [Threads -> Seq(Positions)]
    BY <1>1, <1>5 DEF Types, QueueInv, QueueTypes
  <2> QED BY <1>7, <2>1, <2>2, <2>3 DEF Types, QueueInv, QueueTypes
<1>12. EachOnce'
  <2>1. \A u \in Threads : \A i \in 1 .. Len(m_block_queue'[u]) :
          \/ u # t /\ i \in 1 .. Len(m_block_queue[u])
             /\ m_block_queue'[u][i] = m_block_queue[u][i]
          \/ u = t /\ i + 1 \in 1 .. Len(m_block_queue[t]) /\ i \in Nat \ {0}
             /\ m_block_queue'[u][i] = m_block_queue[t][i + 1]
    <3> SUFFICES ASSUME NEW u \in Threads, NEW i \in 1 .. Len(m_block_queue'[u])
                 PROVE  \/ u # t /\ i \in 1 .. Len(m_block_queue[u])
                           /\ m_block_queue'[u][i] = m_block_queue[u][i]
                        \/ u = t /\ i + 1 \in 1 .. Len(m_block_queue[t]) /\ i \in Nat \ {0}
                           /\ m_block_queue'[u][i] = m_block_queue[t][i + 1]
      OBVIOUS
    <3>1. CASE u # t
      BY <1>5, <3>1
    <3>2. CASE u = t
      <4>1. i \in 1 .. Len(m_block_queue[t]) - 1
        BY <1>6, <3>2
      <4> QED BY <1>2, <1>6, <3>2, <4>1
    <3> QED BY <3>1, <3>2
  <2>2. \A u \in Threads : \A i \in 1 .. Len(m_block_queue[u]) :
          m_block_queue[u][i] = pos => u = t /\ i = 1
    BY <1>3 DEF Types, QueueInv, EachOnce
  <2>3. \A u \in Threads : \A i \in 1 .. Len(m_block_queue'[u]) : m_block_queue'[u][i] \in Enqueued'
    <3>1. \A u \in Threads : \A i \in 1 .. Len(m_block_queue[u]) : m_block_queue[u][i] \in Enqueued
      BY DEF Types, QueueInv, EachOnce
    <3> SUFFICES ASSUME NEW u \in Threads, NEW i \in 1 .. Len(m_block_queue'[u])
                 PROVE  m_block_queue'[u][i] \in Enqueued \ {pos}
      BY <1>7
    <3>2. CASE u # t
      BY <2>1, <2>2, <3>1, <3>2
    <3>3. CASE u = t
      <4>1. /\ i + 1 \in 1 .. Len(m_block_queue[t]) /\ i \in Nat \ {0} /\ i + 1 # 1
            /\ m_block_queue'[t][i] = m_block_queue[t][i + 1]
        BY <2>1, <3>3
      <4> QED BY <2>2, <3>1, <3>3, <4>1
    <3> QED BY <3>2, <3>3
  <2>4. \A u, v \in Threads :
          \A i \in 1 .. Len(m_block_queue'[u]), j \in 1 .. Len(m_block_queue'[v]) :
            m_block_queue'[u][i] = m_block_queue'[v][j] => u = v /\ i = j
    <3>1. \A u, v \in Threads :
            \A i \in 1 .. Len(m_block_queue[u]), j \in 1 .. Len(m_block_queue[v]) :
              m_block_queue[u][i] = m_block_queue[v][j] => u = v /\ i = j
      BY DEF Types, QueueInv, EachOnce
    <3> SUFFICES ASSUME NEW u \in Threads, NEW v \in Threads,
                        NEW i \in 1 .. Len(m_block_queue'[u]),
                        NEW j \in 1 .. Len(m_block_queue'[v]),
                        m_block_queue'[u][i] = m_block_queue'[v][j]
                 PROVE  u = v /\ i = j
      OBVIOUS
    <3>2. PICK k \in 1 .. Len(m_block_queue[u]) :
            m_block_queue'[u][i] = m_block_queue[u][k] /\ k = IF u = t THEN i + 1 ELSE i
      BY <2>1
    <3>3. PICK l \in 1 .. Len(m_block_queue[v]) :
            m_block_queue'[v][j] = m_block_queue[v][l] /\ l = IF v = t THEN j + 1 ELSE j
      BY <2>1
    <3>6. m_block_queue[u][k] = m_block_queue[v][l]
      BY <3>2, <3>3
    <3>4. u = v /\ k = l
      BY <3>1, <3>6
    <3>5. i \in Int /\ j \in Int
      BY <2>1
    <3> QED BY <3>2, <3>3, <3>4, <3>5
  <2>5. \A p \in Enqueued' : \E u \in Threads : \E i \in 1 .. Len(m_block_queue'[u]) :
          m_block_queue'[u][i] = p
    <3>1. SUFFICES ASSUME NEW p \in Enqueued, p # pos
                   PROVE  \E u \in Threads : \E i \in 1 .. Len(m_block_queue'[u]) :
                            m_block_queue'[u][i] = p
      BY <1>7
    <3>a. PICK u \in Threads : \E i \in 1 .. Len(m_block_queue[u]) : m_block_queue[u][i] = p
      BY DEF Types, QueueInv, EachOnce
    <3>2. PICK i \in 1 .. Len(m_block_queue[u]) : m_block_queue[u][i] = p
      BY <3>a
    <3>3. CASE u # t
      BY <1>5, <3>2, <3>3
    <3>4. CASE u = t
      <4>1. i # 1 /\ i - 1 \in 1 .. Len(m_block_queue[t]) - 1 /\ (i - 1) + 1 = i
        BY <1>2, <1>3, <3>1, <3>2, <3>4
      <4>2. m_block_queue'[t][i - 1] = p /\ i - 1 \in 1 .. Len(m_block_queue'[t])
        BY <1>6, <3>2, <3>4, <4>1
      <4> QED BY <4>2
    <3> QED BY <3>3, <3>4
  <2> QED BY <2>3, <2>4, <2>5 DEF EachOnce
<1> QED BY <1>0, <1>4, <1>10, <1>11, <1>12 DEF QueueInv, Front

LEMMA TakeFrontKeeps ==
  ASSUME Types, NEW t \in Threads, m_block_queue[t] # <<>>, TakeFront(t)
  PROVE  /\ QueueInv'
         /\ item' \in [Threads -> BlockEmergeData \cup {NoItem}]
         /\ item'[t] \in BlockEmergeData
         /\ \A u \in Threads \ {t} : item'[u] = item[u]
<1>1. QueueInv' /\ Front(t) \in BlockEmergeData /\ item' = [item EXCEPT ![t] = Front(t)]
  BY PopFrontKeeps DEF TakeFront
<1> QED BY <1>1 DEF Types, ThreadTypes

LEMMA NoItemType == NoItem.callbacks = {}
BY DEF NoItem

LEMMA RequestKeeps ==
  ASSUME Types, NEW c \in Threads \cup {Server}, Request(c)
  PROVE  QueueInv' /\ requests' \in Nat
<1>1. requests + 1 \in 1 .. MaxRequests /\ requests' = requests + 1
  BY EmergeAssumption DEF Request, Types
<1>2. PICK pos \in Positions, gen \in BOOLEAN :
        \/ \E peer \in Peers \cup {NoPeer} : Enqueue(c, pos, peer, gen, FALSE, {})
        \/ Enqueue(c, pos, NoPeer, TRUE, TRUE, {requests + 1})
  BY Zenon DEF Request
<1>3. CASE \E peer \in Peers \cup {NoPeer} : Enqueue(c, pos, peer, gen, FALSE, {})
  <2>1. PICK peer \in Peers \cup {NoPeer} : Enqueue(c, pos, peer, gen, FALSE, {})
    BY <1>3
  <2>2. QueueInv /\ FALSE \in BOOLEAN /\ {} \in SUBSET (1 .. MaxRequests)
    BY DEF Types
  <2>3. QueueInv'
    BY <2>1, <2>2, EnqueueKeeps
  <2> QED BY <1>1, <2>3 DEF Types
<1>4. CASE Enqueue(c, pos, NoPeer, TRUE, TRUE, {requests + 1})
  <2>1. QueueInv /\ TRUE \in BOOLEAN
    BY DEF Types
  <2>2. {requests + 1} \in SUBSET (1 .. MaxRequests) /\ NoPeer \in Peers \cup {NoPeer}
    BY <1>1
  <2>3. QueueInv'
    BY <1>4, <2>1, <2>2, EnqueueKeeps
  <2> QED BY <1>1, <2>3 DEF Types
<1> QED BY <1>2, <1>3, <1>4

LEMMA CallbackKeeps ==
  ASSUME ThreadTypes, NEW t \in Threads, Callback(t)
  PROVE  /\ item' \in [Threads -> BlockEmergeData \cup {NoItem}]
         /\ \A u \in Threads \ {t} : item'[u] = item[u]
         /\ env_mutex' = t /\ \E label \in {"lua", "emerge"} : Goto(t, label)
         /\ UNCHANGED <<mgrVars, m_queue_mutex, mapVars, notified, m_request_stop,
                        server, to_signal, requests, accepted, late, faults>>
<1>1. PICK n \in item[t].callbacks :
        /\ EnterLua(t)
        /\ item' = [item EXCEPT ![t].callbacks = @ \ {n}]
        /\ UNCHANGED <<mgrVars, m_queue_mutex, mapVars, notified, m_request_stop,
                        server, to_signal, requests, accepted, late, faults>>
  BY DEF Callback
<1>2. item[t] \in BlockEmergeData
  BY <1>1, NoItemType DEF ThreadTypes
<1>3. PICK data : data = [item[t] EXCEPT !.callbacks = @ \ {n}] /\ item' = [item EXCEPT ![t] = data]
  BY <1>1
<1>4. data \in BlockEmergeData
  BY <1>2, <1>3 DEF BlockEmergeData
<1> QED BY <1>1, <1>3, <1>4 DEF EnterLua, ThreadTypes

\* Types holds when a thread moves on and the queues and the items are as they were.
LEMMA GoKeeps ==
  ASSUME Types, NEW t \in Threads, NEW label \in Labels, Goto(t, label),
         label \in {"fetch", "load", "generate", "finish"} => item'[t] \in BlockEmergeData,
         QueueInv', requests' \in Nat,
         item' \in [Threads -> BlockEmergeData \cup {NoItem}],
         \A u \in Threads \ {t} : item'[u] = item[u],
         m_queue_mutex' \in Threads \cup {None},
         env_mutex' \in Threads \cup {Server, None},
         m_blocks' \in [Positions -> BlockState],
         m_chunks_in_progress' \subseteq {Chunk[p] : p \in Positions}
  PROVE  Types'
<1>1. pc' \in [Threads -> Labels] /\ pc'[t] = label
      /\ \A u \in Threads \ {t} : pc'[u] = pc[u]
  BY DEF Types, ThreadTypes, Goto
<1>2. \A u \in Threads : pc'[u] \in {"fetch", "load", "generate", "finish"} =>
        item'[u] \in BlockEmergeData
  BY <1>1 DEF Types, ThreadTypes
<1> QED BY <1>1, <1>2 DEF Types, ThreadTypes

LEMMA StartGenTypes ==
  ASSUME Types, NEW t \in Threads, NEW blocks \in [Positions -> BlockState],
         item[t] \in BlockEmergeData, StartGen(t, blocks)
  PROVE  /\ m_blocks' \in [Positions -> BlockState]
         /\ m_chunks_in_progress' \subseteq {Chunk[p] : p \in Positions}
         /\ \E label \in {"generate", "callbacks"} : Goto(t, label)
<1>1. item[t].pos \in Positions
  BY DEF BlockEmergeData
<1>2. m_chunks_in_progress' \subseteq m_chunks_in_progress \cup {Chunk[item[t].pos]}
  BY DEF StartGen
<1>3. m_blocks' \in [Positions -> BlockState]
  BY EmergeAssumption DEF StartGen, Created, BlockState
<1>4. \E label \in {"generate", "callbacks"} : Goto(t, label)
  BY DEF StartGen
<1> QED BY <1>1, <1>2, <1>3, <1>4 DEF Types, ThreadTypes

\* What a step of a thread leaves alone.
LEMMA ThreadStepTypes ==
  ASSUME Types, NEW t \in Threads, ThreadStep(t)
  PROVE  Types'
<1> USE DEF mgrVars, mapVars, history, faults, asked
<1>0. /\ QueueInv /\ ThreadTypes /\ requests \in Nat
      /\ m_queue_mutex \in Threads \cup {None}
      /\ env_mutex \in Threads \cup {Server, None}
      /\ m_blocks \in [Positions -> BlockState]
      /\ m_chunks_in_progress \subseteq {Chunk[p] : p \in Positions}
      /\ item \in [Threads -> BlockEmergeData \cup {NoItem}]
  BY DEF Types, ThreadTypes
<1>l. Labels = {"loop", "wait", "fetch", "load", "generate", "finish", "callbacks",
                "emerge", "lua", "shutdown", "cancel", "ended"}
  BY DEF Labels
<1>t. ASSUME Throw(t), m_blocks' \in [Positions -> BlockState],
             m_chunks_in_progress' \subseteq {Chunk[p] : p \in Positions}
      PROVE  Types'
  <2>1. QueueInv'
    BY <1>0, <1>t, QueueFrame DEF Throw
  <2>2. /\ item' \in [Threads -> BlockEmergeData \cup {NoItem}]
        /\ \A u \in Threads \ {t} : item'[u] = item[u]
    BY <1>0, <1>t DEF Throw
  <2> QED BY <1>0, <1>t, <1>l, <2>1, <2>2, GoKeeps DEF Throw
<1>1. CASE Loop(t)
  <2>1. CASE UNCHANGED <<mgrVars, item>>
    <3>1. QueueInv' /\ \E label \in {"shutdown", "wait"} : Goto(t, label)
      <4>1. QueueInv'
        BY <1>0, <2>1, QueueFrame
      <4>2. CASE m_block_queue[t] = <<>>
        BY <1>1, <4>1, <4>2 DEF Loop
      <4>3. CASE m_block_queue[t] # <<>> /\ ~m_request_stop[t]
        <5>1. TakeFront(t)
          BY <1>1, <4>3 DEF Loop
        <5>2. m_block_queue'[t] = Tail(m_block_queue[t]) /\ m_block_queue[t] \in Seq(Positions)
          BY <1>0, <5>1 DEF TakeFront, PopFront, QueueInv, QueueTypes
        <5>3. Len(Tail(m_block_queue[t])) = Len(m_block_queue[t]) - 1 /\ Len(m_block_queue[t]) \in Nat
          BY <4>3, <5>2
        <5>4. m_block_queue'[t] = m_block_queue[t]
          BY <2>1
        <5>5. Tail(m_block_queue[t]) = m_block_queue[t]
          BY <5>2, <5>4
        <5>6. Len(m_block_queue[t]) = Len(m_block_queue[t]) - 1
          BY ONLY <5>3, <5>5
        <5> QED BY ONLY <5>3, <5>6
      <4>4. CASE m_request_stop[t]
        BY <1>1, <4>1, <4>4 DEF Loop
      <4> QED BY <4>2, <4>3, <4>4
    <3> QED BY <1>0, <1>1, <1>l, <2>1, <3>1, GoKeeps DEF Loop
  <2>2. CASE m_block_queue[t] # <<>> /\ TakeFront(t) /\ Goto(t, "fetch")
    <3>1. /\ QueueInv'
          /\ item' \in [Threads -> BlockEmergeData \cup {NoItem}]
          /\ item'[t] \in BlockEmergeData
          /\ \A u \in Threads \ {t} : item'[u] = item[u]
      BY <2>2, TakeFrontKeeps
    <3> QED BY <1>0, <1>1, <1>l, <2>2, <3>1, GoKeeps DEF Loop
  <2> QED BY <1>1, <2>1, <2>2 DEF Loop
<1>2. CASE Wait(t)
  <2>1. QueueInv'
    BY <1>0, <1>2, QueueFrame DEF Wait
  <2> QED BY <1>0, <1>2, <1>l, <2>1, GoKeeps DEF Wait
<1>3. CASE Fetch(t)
  <2>1. QueueInv'
    BY <1>0, <1>3, QueueFrame DEF Fetch
  <2>2. item[t] \in BlockEmergeData /\ item' = item
    BY <1>3 DEF Fetch, Running, Types, ThreadTypes
  <2>3. /\ m_blocks' \in [Positions -> BlockState]
        /\ m_chunks_in_progress' \subseteq {Chunk[p] : p \in Positions}
        /\ \E label \in {"generate", "callbacks", "load"} : Goto(t, label)
    <3>1. m_blocks[item[t].pos] \in {"none", "ignore", "generated"}
      BY <1>0, <2>2 DEF BlockState, BlockEmergeData
    <3>2. CASE m_blocks[item[t].pos] = "generated"
      BY <1>0, <1>3, <3>2 DEF Fetch
    <3>3. CASE m_blocks[item[t].pos] = "none"
      BY <1>0, <1>3, <3>3 DEF Fetch
    <3>4. CASE m_blocks[item[t].pos] = "ignore"
      <4>1. StartGen(t, m_blocks)
        BY <1>3, <3>4 DEF Fetch
      <4> QED BY <1>0, <2>2, <4>1, StartGenTypes
    <3> QED BY <3>1, <3>2, <3>3, <3>4
  <2>4. m_queue_mutex' = m_queue_mutex /\ env_mutex' = env_mutex /\ requests' = requests
    BY <1>3 DEF Fetch
  <2> QED BY <1>0, <1>l, <2>1, <2>2, <2>3, <2>4, GoKeeps
<1>4. CASE FetchLoaded(t)
  <2>1. QueueInv'
    BY <1>0, <1>4, QueueFrame DEF FetchLoaded
  <2>2. item[t] \in BlockEmergeData /\ item' = item /\ item[t].pos \in Positions
    BY <1>4 DEF FetchLoaded, Running, Types, ThreadTypes, BlockEmergeData
  <2>3. PICK blocks : blocks = Loaded(item[t].pos)
    OBVIOUS
  <2>4. blocks \in [Positions -> BlockState]
    BY <1>0, <2>2, <2>3, EmergeAssumption DEF Loaded
  <2>5. /\ m_blocks' \in [Positions -> BlockState]
        /\ m_chunks_in_progress' \subseteq {Chunk[p] : p \in Positions}
        /\ \E label \in {"generate", "callbacks"} : Goto(t, label)
    <3>1. CASE blocks[item[t].pos] = "generated"
      BY <1>0, <1>4, <2>3, <2>4, <3>1 DEF FetchLoaded
    <3>2. CASE StartGen(t, blocks)
      BY <2>2, <2>4, <3>2, StartGenTypes
    <3> QED BY <1>4, <2>3, <3>1, <3>2 DEF FetchLoaded
  <2>6. m_queue_mutex' = m_queue_mutex /\ env_mutex' = env_mutex /\ requests' = requests
    BY <1>4 DEF FetchLoaded
  <2> QED BY <1>0, <1>l, <2>1, <2>2, <2>5, <2>6, GoKeeps
<1>5. CASE LoadFails(t)
  <2> QED BY <1>0, <1>5, <1>t DEF LoadFails
<1>15. CASE InitBlockMakeFails(t)
  <2>1. item[t] \in BlockEmergeData /\ item[t].pos \in Positions
    BY <1>15 DEF InitBlockMakeFails, Running, Types, ThreadTypes, BlockEmergeData
  <2>2. Loaded(item[t].pos) \in [Positions -> BlockState]
    BY <1>0, <2>1, EmergeAssumption DEF Loaded
  <2>3. m_blocks' \in [Positions -> BlockState]
    BY <1>15, <2>2, EmergeAssumption DEF InitBlockMakeFails, Created, BlockState
  <2>4. m_chunks_in_progress' = m_chunks_in_progress \cup {Chunk[item[t].pos]} /\ Throw(t)
    BY <1>15 DEF InitBlockMakeFails
  <2> QED BY <1>0, <1>t, <2>1, <2>3, <2>4
<1>16. CASE LoopOverLimit(t)
  <2>1. QueueInv'
    BY <1>16, PopFrontKeeps DEF LoopOverLimit
  <2>2. /\ item' \in [Threads -> BlockEmergeData \cup {NoItem}]
        /\ \A u \in Threads \ {t} : item'[u] = item[u]
        /\ pc[t] = "loop" /\ pc' = pc
        /\ UNCHANGED <<m_queue_mutex, env_mutex, mapVars, requests>>
    BY <1>0, <1>16 DEF LoopOverLimit, Running
  <2> QED BY <1>0, <2>1, <2>2 DEF Types, ThreadTypes
<1>6. CASE Generate(t)
  <2>1. QueueInv'
    BY <1>0, <1>6, QueueFrame DEF Generate
  <2>2. item[t] \in BlockEmergeData /\ item' = item
    BY <1>6 DEF Generate, Running, Types, ThreadTypes
  <2>3. \E label \in {"finish", "callbacks"} : Goto(t, label)
    BY <1>6 DEF Generate
  <2> QED BY <1>0, <1>6, <1>l, <2>1, <2>2, <2>3, GoKeeps DEF Generate
<1>7. CASE FinishGen(t)
  <2>1. QueueInv'
    BY <1>0, <1>7, QueueFrame DEF FinishGen
  <2>2. m_blocks' \in [Positions -> BlockState]
    BY <1>0, <1>7 DEF FinishGen, BlockState
  <2>3. m_chunks_in_progress' \subseteq {Chunk[p] : p \in Positions}
    BY <1>0, <1>7 DEF FinishGen, Unmarked
  <2>4. env_mutex' = t /\ \E label \in {"lua", "emerge"} : Goto(t, label)
    BY <1>7 DEF FinishGen, EnterLua
  <2> QED BY <1>0, <1>7, <1>l, <2>1, <2>2, <2>3, <2>4, GoKeeps DEF FinishGen
<1>8. ASSUME Callback(t) PROVE Types'
  <2>1. /\ item' \in [Threads -> BlockEmergeData \cup {NoItem}]
        /\ \A u \in Threads \ {t} : item'[u] = item[u]
        /\ env_mutex' = t /\ \E label \in {"lua", "emerge"} : Goto(t, label)
        /\ UNCHANGED <<mgrVars, m_queue_mutex, mapVars, requests>>
    BY <1>0, <1>8, CallbackKeeps
  <2>2. QueueInv'
    BY <1>0, <2>1, QueueFrame
  <2> QED BY <1>0, <1>l, <2>1, <2>2, GoKeeps
<1>9. CASE RunCompletionCallbacks(t)
  <2>1. CASE UNCHANGED <<mgrVars, m_queue_mutex, env_mutex, mapVars, item, requests>> /\ Goto(t, "loop")
    <3>1. QueueInv'
      BY <1>0, <2>1, QueueFrame
    <3> QED BY <1>0, <1>l, <2>1, <3>1, GoKeeps
  <2> QED BY <1>8, <1>9, <2>1 DEF RunCompletionCallbacks
<1>10. CASE LuaRequests(t)
  <2>1. QueueInv' /\ requests' \in Nat
    <3>1. CASE Request(t)
      BY <3>1, RequestKeeps
    <3>2. CASE UNCHANGED <<mgrVars, to_signal, history>>
      BY <1>0, <3>2, QueueFrame
    <3> QED BY <1>10, <3>1, <3>2 DEF LuaRequests
  <2> QED BY <1>0, <1>10, <1>l, <2>1, GoKeeps DEF LuaRequests
<1>11. CASE LuaReturns(t)
  <2>1. QueueInv'
    BY <1>0, <1>11, QueueFrame DEF LuaReturns
  <2>2. \E label \in {"cancel", "callbacks"} : Goto(t, label)
    BY <1>11 DEF LuaReturns
  <2> QED BY <1>0, <1>11, <1>l, <2>1, <2>2, GoKeeps DEF LuaReturns
<1>12. CASE Shutdown(t)
  <2>1. QueueInv'
    BY <1>0, <1>12, QueueFrame DEF Shutdown
  <2> QED BY <1>0, <1>12, <1>l, <2>1, GoKeeps DEF Shutdown
<1>13. CASE CancelPendingItems(t)
  <2>1. CASE m_block_queue[t] # <<>> /\ TakeFront(t) /\ UNCHANGED <<m_queue_mutex, pc>>
             /\ UNCHANGED <<env_mutex, mapVars, requests>>
    <3>1. /\ QueueInv'
          /\ item' \in [Threads -> BlockEmergeData \cup {NoItem}]
          /\ item'[t] \in BlockEmergeData
          /\ \A u \in Threads \ {t} : item'[u] = item[u]
      BY <2>1, TakeFrontKeeps
    <3> QED BY <2>1, <3>1 DEF Types, ThreadTypes
  <2>2. CASE m_queue_mutex' = None /\ Goto(t, "ended") /\ UNCHANGED <<mgrVars, item>>
             /\ UNCHANGED <<env_mutex, mapVars, requests>>
    <3>1. QueueInv'
      BY <1>0, <2>2, QueueFrame
    <3> QED BY <1>0, <1>l, <2>2, <3>1, GoKeeps
  <2> QED BY <1>8, <1>13, <2>1, <2>2 DEF CancelPendingItems
<1>14. CASE Signal(t)
  <2>1. QueueInv'
    BY <1>0, <1>14, QueueFrame DEF Signal
  <2> QED BY <1>14, <2>1 DEF Signal, Types, ThreadTypes
<1> QED BY <1>1, <1>2, <1>3, <1>4, <1>5, <1>6, <1>7, <1>9, <1>10, <1>11, <1>12, <1>13, <1>14,
           <1>15, <1>16
        DEF ThreadStep

LEMMA ServerStepTypes ==
  ASSUME Types, ServerStep
  PROVE  Types'
<1> USE DEF mgrVars, mapVars, serverFrame, history, faults
<1>0. QueueInv /\ ThreadTypes /\ requests \in Nat
  BY DEF Types
<1>1. CASE StepRequests
  <2>1. QueueInv' /\ requests' \in Nat
    <3>1. CASE Request(Server)
      BY <3>1, RequestKeeps
    <3>2. CASE UNCHANGED <<mgrVars, to_signal, history>>
      BY <1>0, <3>2, QueueFrame
    <3> QED BY <1>1, <3>1, <3>2 DEF StepRequests
  <2> QED BY <1>0, <1>1, <2>1 DEF StepRequests, Types, ThreadTypes
<1>2. ASSUME UNCHANGED <<mgrVars, m_queue_mutex, serverFrame, requests>>,
             env_mutex' \in {env_mutex, Server, None}
      PROVE  Types'
  <2>1. QueueInv'
    BY <1>0, <1>2, QueueFrame
  <2>2. ThreadTypes'
    BY <1>0, <1>2 DEF ThreadTypes
  <2> QED BY <1>0, <1>2, <2>1, <2>2 DEF Types
<1> QED BY <1>1, <1>2 DEF ServerStep, BeginStep, EndStep, Signal, StopServer, StopThread,
                          ThreadsStopped

LEMMA InitTypes ==
  ASSUME Init
  PROVE  Types
<1>1. Enqueued = {} /\ IsFiniteSet(Enqueued) /\ Cardinality({}) = 0
  BY FS_EmptySet DEF Init, Enqueued
<1>2. QueueTypes
  BY <1>1 DEF Init, QueueTypes
<1>3. EachOnce
  BY <1>1 DEF Init, EachOnce
<1>4. CountsAgree
  <2> SUFFICES ASSUME NEW q \in Peers \cup {NoPeer}
               PROVE  m_peer_queue_count[q] =
                        Cardinality({p \in Enqueued : m_blocks_enqueued[p].peer = q})
    BY DEF CountsAgree
  <2>1. {p \in Enqueued : m_blocks_enqueued[p].peer = q} = {}
    BY <1>1
  <2> QED BY <1>1, <2>1 DEF Init
<1>5. ThreadTypes
  BY DEF Init, ThreadTypes, BlockState, Labels
<1> QED BY <1>2, <1>3, <1>4, <1>5 DEF Types, QueueInv, Init

LEMMA StepTypes ==
  ASSUME Types, [Next]_vars
  PROVE  Types'
<1>1. CASE UNCHANGED vars
  <2>1. QueueInv'
    BY <1>1, QueueFrame DEF vars, Types
  <2>2. ThreadTypes'
    BY <1>1 DEF vars, mapVars, Types, ThreadTypes
  <2> QED BY <1>1, <2>1, <2>2 DEF vars, history, Types
<1> QED BY <1>1, ServerStepTypes, ThreadStepTypes DEF Next, Stopped

LEMMA AlwaysTypes == Spec => []Types
<1> QED BY InitTypes, StepTypes, PTL DEF Spec

\* The queue, the map and the threads have their types: what a thread takes is a
\* whole BlockEmergeData, and no counter falls below zero.
THEOREM EmergeTypes == Spec => []TypeOK
<1>1. Types => TypeOK
  BY DEF Types, QueueInv, QueueTypes, ThreadTypes, TypeOK
<1> QED BY <1>1, AlwaysTypes, PTL

\* Every enqueued position waits in one thread's queue, once, and
\* popBlockEmergeData finds what a thread has taken from its queue.
THEOREM QueueHalvesAgree == Spec => []QueuesAgree
<1>1. ASSUME Types PROVE QueuesAgree
  <2>1. \A t \in Threads : DOMAIN m_block_queue[t] = 1 .. Len(m_block_queue[t])
    BY <1>1 DEF Types, QueueInv, QueueTypes
  <2>2. EachOnce
    BY <1>1 DEF Types, QueueInv
  <2>3. \A p \in Enqueued : \E t \in Threads : Queued(t, p)
    BY <2>1, <2>2 DEF EachOnce, Queued
  <2>4. \A t, u \in Threads :
          \A i \in DOMAIN m_block_queue[t], j \in DOMAIN m_block_queue[u] :
            m_block_queue[t][i] = m_block_queue[u][j] => t = u /\ i = j
    <3> SUFFICES ASSUME NEW t \in Threads, NEW u \in Threads,
                        NEW i \in DOMAIN m_block_queue[t], NEW j \in DOMAIN m_block_queue[u],
                        m_block_queue[t][i] = m_block_queue[u][j]
                 PROVE  t = u /\ i = j
      OBVIOUS
    <3>1. i \in 1 .. Len(m_block_queue[t]) /\ j \in 1 .. Len(m_block_queue[u])
      BY <2>1
    <3> QED BY <3>1, <2>2 DEF EachOnce
  <2>5. \A t \in Threads : \A i \in DOMAIN m_block_queue[t] : m_block_queue[t][i] \in Enqueued
    BY <2>1, <2>2 DEF EachOnce
  <2> QED BY <2>3, <2>4, <2>5, Zenon DEF QueuesAgree
<1> QED BY <1>1, AlwaysTypes, PTL

\* The counter of a peer, which its limit is checked against, is the number of
\* positions that are enqueued for it.
THEOREM PeersAreCounted == Spec => []CountsAgree
<1>1. Types => CountsAgree
  BY DEF Types, QueueInv
<1> QED BY <1>1, AlwaysTypes, PTL

\* The queue's map, the threads' queues and the peers' counters agree, although
\* push and pop change them one after the other and requests are merged.
THEOREM QueueConsistent == Spec => []QueueIsConsistent
<1>1. TypeOK /\ QueuesAgree /\ CountsAgree => QueueIsConsistent
  BY DEF QueueIsConsistent
<1> QED BY <1>1, EmergeTypes, QueueHalvesAgree, PeersAreCounted, PTL

-----------------------------------------------------------------------------
(* The marks of the chunks.  A thread has its chunk marked while it        *)
(* generates, and that chunk is no other thread's.                         *)

Generating(t) == pc[t] \in {"generate", "finish"}

MarksInv ==
  /\ \A t, u \in Threads :
       Generating(t) /\ Generating(u) /\ Chunk[item[t].pos] = Chunk[item[u].pos] => t = u
  /\ \A t \in Threads : Generating(t) => Chunk[item[t].pos] \in m_chunks_in_progress
  /\ \A chunk \in m_chunks_in_progress \ left_marked :
       \E t \in Threads : Generating(t) /\ Chunk[item[t].pos] = chunk

\* A thread that does not generate may do what it likes with its item.
LEMMA MarksFrame ==
  ASSUME MarksInv, NEW t \in Threads, pc \in [Threads -> Labels],
         ~Generating(t), NEW label, label \notin {"generate", "finish"}, Goto(t, label),
         \A u \in Threads \ {t} : item'[u] = item[u],
         UNCHANGED <<m_chunks_in_progress, left_marked>>
  PROVE  MarksInv'
<1>1. /\ ~Generating(t)'
      /\ \A u \in Threads \ {t} : pc'[u] = pc[u] /\ (Generating(u)' <=> Generating(u))
  BY DEF Goto, Generating
<1>2. \A u \in Threads : Generating(u)' <=> Generating(u)
  BY <1>1
<1>3. \A u \in Threads : Generating(u) => item'[u] = item[u]
  BY <1>1
<1> QED BY <1>2, <1>3 DEF MarksInv

LEMMA StartGenMarks ==
  ASSUME MarksInv, NEW t \in Threads, pc \in [Threads -> Labels], NEW blocks,
         ~Generating(t), item' = item, StartGen(t, blocks)
  PROVE  MarksInv'
<1>1. PICK chunk : chunk = Chunk[item[t].pos]
  OBVIOUS
<1>2. PICK starts, generates \in BOOLEAN :
        /\ starts = (item[t].gen /\ ~InProgress(chunk))
        /\ generates = (starts /\ chunk \notin OverMapgenLimit)
        /\ m_chunks_in_progress' = m_chunks_in_progress \cup (IF starts THEN {chunk} ELSE {})
        /\ left_marked' = left_marked \cup (IF starts /\ ~generates THEN {chunk} ELSE {})
        /\ Goto(t, IF generates THEN "generate" ELSE "callbacks")
  BY <1>1 DEF StartGen
<1>3. starts => chunk \notin m_chunks_in_progress
  BY <1>2 DEF InProgress
<1>4. /\ Generating(t)' <=> generates
      /\ \A u \in Threads \ {t} : Generating(u)' <=> Generating(u)
  BY <1>2 DEF Goto, Generating
<1>5. CASE ~starts
  <2>1. /\ m_chunks_in_progress' = m_chunks_in_progress /\ left_marked' = left_marked
        /\ \A u \in Threads : Generating(u)' <=> Generating(u)
    BY <1>2, <1>4, <1>5
  <2> QED BY <2>1 DEF MarksInv
<1>6. CASE starts /\ ~generates
  <2>1. /\ m_chunks_in_progress' = m_chunks_in_progress \cup {chunk}
        /\ left_marked' = left_marked \cup {chunk}
        /\ \A u \in Threads : Generating(u)' <=> Generating(u)
    BY <1>2, <1>4, <1>6
  <2> QED BY <2>1 DEF MarksInv
<1>7. CASE generates
  <2>1. m_chunks_in_progress' = m_chunks_in_progress \cup {chunk} /\ left_marked' = left_marked
    BY <1>2, <1>7
  <2>0. chunk \notin m_chunks_in_progress
    BY <1>2, <1>3, <1>7
  <2>2. \A u \in Threads \ {t} : Generating(u) => Chunk[item[u].pos] # chunk
    BY <2>0 DEF MarksInv
  <2>3. \A c \in m_chunks_in_progress \ left_marked :
          \E u \in Threads \ {t} : Generating(u) /\ Chunk[item[u].pos] = c
    BY DEF MarksInv
  <2>4. \A u, v \in Threads :
          Generating(u)' /\ Generating(v)' /\ Chunk[item[u].pos] = Chunk[item[v].pos] => u = v
    BY <1>1, <1>4, <2>2 DEF MarksInv
  <2>5. \A u \in Threads : Generating(u)' => Chunk[item[u].pos] \in m_chunks_in_progress'
    BY <1>1, <1>4, <2>1 DEF MarksInv
  <2>6. \A c \in m_chunks_in_progress' \ left_marked' :
          \E u \in Threads : Generating(u)' /\ Chunk[item[u].pos] = c
    BY <1>1, <1>4, <1>7, <2>1, <2>3
  <2> QED BY <2>4, <2>5, <2>6 DEF MarksInv
<1> QED BY <1>2, <1>5, <1>6, <1>7

\* A chunk that is marked and given up at once.
LEMMA InitBlockMakeFailsMarks ==
  ASSUME Types, MarksInv, NEW t \in Threads, InitBlockMakeFails(t)
  PROVE  MarksInv'
<1>1. PICK chunk : /\ m_chunks_in_progress' = m_chunks_in_progress \cup {chunk}
                   /\ left_marked' = left_marked \cup {chunk}
  BY DEF InitBlockMakeFails
<1>2. /\ pc[t] \in {"fetch", "load"} /\ Goto(t, "shutdown")
      /\ item' = [item EXCEPT ![t] = NoItem]
  BY DEF InitBlockMakeFails, Running, Throw
<1>3. /\ ~Generating(t) /\ ~Generating(t)'
      /\ \A u \in Threads \ {t} : Generating(u)' <=> Generating(u)
  BY <1>2 DEF Goto, Generating, Types, ThreadTypes
<1>4. \A u \in Threads : Generating(u) => Generating(u)' /\ item'[u] = item[u]
  BY <1>2, <1>3 DEF Types, ThreadTypes
<1>5. \A u \in Threads : Generating(u)' => Generating(u)
  BY <1>3
<1> QED BY <1>1, <1>4, <1>5 DEF MarksInv

LEMMA GenerateMarks ==
  ASSUME MarksInv, NEW t \in Threads, pc \in [Threads -> Labels], Generate(t)
  PROVE  MarksInv'
<1>1. Generating(t) /\ item' = item /\ m_chunks_in_progress' = m_chunks_in_progress
  BY DEF Generate, Running, Generating, mapVars
<1>2. CASE Goto(t, "finish") /\ UNCHANGED left_marked
  <2>1. \A u \in Threads : Generating(u)' <=> Generating(u)
    BY <1>1, <1>2 DEF Goto, Generating
  <2> QED BY <1>1, <1>2, <2>1 DEF MarksInv
<1>3. CASE Goto(t, "callbacks") /\ left_marked' = left_marked \cup {Chunk[item[t].pos]}
  <2>1. /\ ~Generating(t)'
        /\ \A u \in Threads \ {t} : Generating(u)' <=> Generating(u)
    BY <1>3 DEF Goto, Generating
  <2> QED BY <1>1, <1>3, <2>1 DEF MarksInv
<1> QED BY <1>2, <1>3 DEF Generate

LEMMA FinishGenMarks ==
  ASSUME MarksInv, NEW t \in Threads, pc \in [Threads -> Labels], FinishGen(t)
  PROVE  MarksInv'
<1>1. /\ Generating(t) /\ item' = item /\ left_marked' = left_marked
      /\ m_chunks_in_progress' = m_chunks_in_progress \ {Chunk[item[t].pos]}
  BY DEF FinishGen, Running, Generating, Unmarked, history
<1>2. /\ ~Generating(t)'
      /\ \A u \in Threads \ {t} : Generating(u)' <=> Generating(u)
  BY DEF FinishGen, EnterLua, Goto, Generating
<1>3. \A u \in Threads \ {t} : Generating(u) => Chunk[item[u].pos] # Chunk[item[t].pos]
  BY <1>1 DEF MarksInv
<1> QED BY <1>1, <1>2, <1>3 DEF MarksInv

LEMMA StepMarks ==
  ASSUME Types, MarksInv, [Next]_vars
  PROVE  MarksInv'
<1>0. pc \in [Threads -> Labels] /\ ThreadTypes
  BY DEF Types, ThreadTypes
<1>1. ASSUME UNCHANGED <<pc, item, m_chunks_in_progress, left_marked>>
      PROVE  MarksInv'
  BY <1>1 DEF MarksInv, Generating
<1>r. ASSUME NEW c \in Threads \cup {Server}, Request(c)
      PROVE  left_marked' = left_marked
  BY <1>r DEF Request, faults
<1>2. CASE ServerStep
  <2>1. CASE StepRequests
    <3>1. left_marked' = left_marked
      BY <2>1, <1>r DEF StepRequests, history
    <3> QED BY <1>1, <2>1, <3>1 DEF StepRequests, serverFrame, mapVars
  <2> QED BY <1>1, <1>2, <2>1
          DEF ServerStep, BeginStep, EndStep, Signal, StopServer, StopThread, ThreadsStopped,
              serverFrame, mapVars, history
<1>3. ASSUME NEW t \in Threads, ThreadStep(t) PROVE MarksInv'
  <2> USE DEF mapVars, history, faults, Running
  <2>1. CASE Loop(t)
    <3>1. CASE m_block_queue[t] # <<>> /\ TakeFront(t) /\ Goto(t, "fetch")
      <4>1. \A u \in Threads \ {t} : item'[u] = item[u]
        BY <3>1, TakeFrontKeeps
      <4> QED BY <1>0, <2>1, <3>1, <4>1, MarksFrame DEF Loop, Generating
    <3>2. CASE UNCHANGED item /\ \E label \in {"shutdown", "wait"} : Goto(t, label)
      BY <1>0, <2>1, <3>2, MarksFrame DEF Loop, Generating
    <3> QED BY <2>1, <3>1, <3>2 DEF Loop
  <2>2. CASE Wait(t)
    BY <1>0, <2>2, MarksFrame DEF Wait, Generating
  <2>3. CASE Fetch(t)
    <3>1. ~Generating(t) /\ item' = item
      BY <2>3 DEF Fetch, Generating
    <3>2. CASE StartGen(t, m_blocks)
      BY <1>0, <3>1, <3>2, StartGenMarks
    <3>3. CASE UNCHANGED <<mapVars, left_marked>> /\ \E label \in {"callbacks", "load"} : Goto(t, label)
      BY <1>0, <3>1, <3>3, MarksFrame
    <3>4. m_blocks[item[t].pos] \in {"none", "ignore", "generated"}
      BY <1>0, <2>3 DEF Fetch, BlockState, BlockEmergeData, ThreadTypes
    <3>5. CASE m_blocks[item[t].pos] = "generated"
      BY <2>3, <3>3, <3>5 DEF Fetch
    <3>6. CASE m_blocks[item[t].pos] = "none"
      BY <2>3, <3>3, <3>6 DEF Fetch
    <3>7. CASE m_blocks[item[t].pos] = "ignore"
      BY <2>3, <3>2, <3>7 DEF Fetch
    <3> QED BY <3>4, <3>5, <3>6, <3>7
  <2>4. CASE FetchLoaded(t)
    <3>1. ~Generating(t) /\ item' = item
      BY <2>4 DEF FetchLoaded, Generating
    <3>2. CASE \E blocks : StartGen(t, blocks)
      BY <1>0, <3>1, <3>2, StartGenMarks
    <3>3. CASE UNCHANGED <<m_chunks_in_progress, left_marked>> /\ Goto(t, "callbacks")
      BY <1>0, <3>1, <3>3, MarksFrame
    <3> QED BY <2>4, <3>2, <3>3 DEF FetchLoaded
  <2>5. CASE LoadFails(t)
    <3>1. \A u \in Threads \ {t} : item'[u] = item[u]
      BY <1>0, <2>5 DEF LoadFails, Throw, ThreadTypes
    <3> QED BY <1>0, <2>5, <3>1, MarksFrame DEF LoadFails, Throw, Generating
  <2>15. CASE InitBlockMakeFails(t)
    BY <2>15, InitBlockMakeFailsMarks
  <2>16. CASE LoopOverLimit(t)
    <3>1. ~Generating(t) /\ Goto(t, "loop")
      BY <1>0, <2>16 DEF LoopOverLimit, Goto, Generating
    <3>2. \A u \in Threads \ {t} : item'[u] = item[u]
      BY <1>0, <2>16 DEF LoopOverLimit, ThreadTypes
    <3> QED BY <1>0, <2>16, <3>1, <3>2, MarksFrame DEF LoopOverLimit
  <2>6. CASE Generate(t)
    BY <1>0, <2>6, GenerateMarks
  <2>7. CASE FinishGen(t)
    BY <1>0, <2>7, FinishGenMarks
  <2>8. ASSUME Callback(t), ~Generating(t) PROVE MarksInv'
    <3>1. /\ \A u \in Threads \ {t} : item'[u] = item[u]
          /\ \E label \in {"lua", "emerge"} : Goto(t, label)
          /\ UNCHANGED <<mapVars, faults>>
      BY <1>0, <2>8, CallbackKeeps
    <3> QED BY <1>0, <2>8, <3>1, MarksFrame
  <2>9. CASE RunCompletionCallbacks(t)
    <3>1. ~Generating(t)
      BY <2>9 DEF RunCompletionCallbacks, Generating
    <3>2. CASE Goto(t, "loop") /\ UNCHANGED <<mapVars, item, history>>
      BY <1>0, <3>1, <3>2, MarksFrame
    <3> QED BY <2>8, <2>9, <3>1, <3>2 DEF RunCompletionCallbacks
  <2>10. CASE LuaRequests(t)
    <3>1. left_marked' = left_marked
      BY <1>r, <2>10 DEF LuaRequests
    <3> QED BY <1>0, <2>10, <3>1, MarksFrame DEF LuaRequests, Generating
  <2>11. CASE LuaReturns(t)
    <3>1. \E label \in {"cancel", "callbacks"} : Goto(t, label)
      BY <2>11 DEF LuaReturns
    <3> QED BY <1>0, <2>11, <3>1, MarksFrame DEF LuaReturns, Generating
  <2>12. CASE Shutdown(t)
    BY <1>0, <2>12, MarksFrame DEF Shutdown, Generating
  <2>13. CASE CancelPendingItems(t)
    <3>1. ~Generating(t) /\ pc[t] = "cancel"
      BY <2>13 DEF CancelPendingItems, Generating
    <3>2. CASE m_block_queue[t] # <<>> /\ TakeFront(t) /\ UNCHANGED pc /\ UNCHANGED <<mapVars, history>>
      <4>1. \A u \in Threads \ {t} : item'[u] = item[u]
        BY <3>2, TakeFrontKeeps
      <4>2. Goto(t, "cancel")
        BY <1>0, <3>1, <3>2 DEF Goto
      <4> QED BY <1>0, <3>1, <3>2, <4>1, <4>2, MarksFrame
    <3>3. CASE Goto(t, "ended") /\ UNCHANGED item /\ UNCHANGED <<mapVars, history>>
      BY <1>0, <3>1, <3>3, MarksFrame
    <3> QED BY <2>8, <2>13, <3>1, <3>2, <3>3 DEF CancelPendingItems
  <2>14. CASE Signal(t)
    BY <1>1, <2>14 DEF Signal
  <2> QED BY <1>3, <2>1, <2>2, <2>3, <2>4, <2>5, <2>6, <2>7, <2>9, <2>10, <2>11, <2>12, <2>13, <2>14,
             <2>15, <2>16
          DEF ThreadStep
<1>4. CASE UNCHANGED vars
  BY <1>1, <1>4 DEF vars, mapVars, history
<1> QED BY <1>2, <1>3, <1>4 DEF Next, Stopped

LEMMA AlwaysMarks == Spec => []MarksInv
<1>1. Init => MarksInv
  BY DEF Init, MarksInv, Generating
<1> QED BY <1>1, AlwaysTypes, StepMarks, PTL DEF Spec

\* A chunk is generated by one thread at a time: m_chunks_in_progress, which is
\* looked at and set under the env lock, keeps the others out until finishGen.
THEOREM GeneratedByOne == Spec => []OneGeneratorPerChunk
<1>1. MarksInv => OneGeneratorPerChunk
  BY DEF MarksInv, Generating, OneGeneratorPerChunk
<1> QED BY <1>1, AlwaysMarks, PTL

\* A chunk is marked just while it is generated, but for those that were given
\* up: over the mapgen limit, after an error of an on_generated callback or after
\* a block of the area that could not be loaded.
THEOREM MarksAreNotLeft == Spec => []MarksAreWork
<1>1. MarksInv => MarksAreWork
  BY DEF MarksInv, Generating, MarksAreWork
<1> QED BY <1>1, AlwaysMarks, PTL

\* The marks of initBlockMake and finishBlockMake keep two threads off one chunk
\* and are not left behind, but for the chunks the code gives up.
THEOREM MarksCorrect == Spec => []MarksAreRight
<1>1. OneGeneratorPerChunk /\ MarksAreWork => MarksAreRight
  BY DEF MarksAreRight
<1> QED BY <1>1, GeneratedByOne, MarksAreNotLeft, PTL

-----------------------------------------------------------------------------
(* Wakeups.  Whoever pushes to a queue owes its thread a signal, and       *)
(* pays it before it can owe another one.                                  *)

HasWork(t) == m_block_queue[t] # <<>> \/ m_request_stop[t]

WillWake(t) == notified[t] \/ \E c \in Threads \cup {Server} : to_signal[c] = t

WakeInv ==
  /\ to_signal \in [Threads \cup {Server} -> Threads \cup {None}]
  /\ notified \in [Threads -> BOOLEAN] /\ m_request_stop \in [Threads -> BOOLEAN]
  /\ server # "step" => to_signal[Server] = None
  /\ \A t \in Threads : pc[t] = "wait" /\ HasWork(t) => WillWake(t)

\* A step that wakes nobody and gives nobody work.
LEMMA WakeFrame ==
  ASSUME WakeInv, UNCHANGED <<to_signal, notified, m_request_stop>>,
         server' # "step" => to_signal[Server] = None,
         \A t \in Threads : pc'[t] = "wait" /\ HasWork(t)' => pc[t] = "wait" /\ HasWork(t)
  PROVE  WakeInv'
BY DEF WakeInv, WillWake

\* A thread that goes on, and gets no work.
LEMMA GoOnWakes ==
  ASSUME WakeInv, NEW t \in Threads, pc \in [Threads -> Labels],
         NEW label, label # "wait", Goto(t, label),
         \A u \in Threads \ {t} : m_block_queue'[u] = m_block_queue[u],
         UNCHANGED <<to_signal, notified, m_request_stop, server>>
  PROVE  WakeInv'
<1>1. pc'[t] # "wait" /\ \A u \in Threads \ {t} : pc'[u] = pc[u]
  BY DEF Goto
<1>2. \A u \in Threads : pc'[u] = "wait" /\ HasWork(u)' => pc[u] = "wait" /\ HasWork(u)
  BY <1>1 DEF HasWork
<1>3. server' # "step" => to_signal[Server] = None
  BY DEF WakeInv
<1> QED BY <1>2, <1>3, WakeFrame

LEMMA RequestWakes ==
  ASSUME Types, WakeInv, NEW c \in Threads \cup {Server}, to_signal[c] = None, Request(c),
         \A t \in Threads : pc'[t] = "wait" => pc[t] = "wait",
         UNCHANGED <<notified, m_request_stop>>,
         server' # "step" => server' = server /\ c # Server
  PROVE  WakeInv'
<1>0. None \notin Threads /\ Server \notin Threads
  BY EmergeAssumption DEF Server
<1>1. CASE UNCHANGED <<m_block_queue, to_signal>>
  <2>1. server' # "step" => to_signal[Server] = None
    BY DEF WakeInv
  <2>2. \A t \in Threads : pc'[t] = "wait" /\ HasWork(t)' => pc[t] = "wait" /\ HasWork(t)
    BY <1>1 DEF HasWork
  <2> QED BY <1>1, <2>1, <2>2, WakeFrame
<1>2. CASE \E t \in Threads, pos \in Positions :
             /\ m_block_queue' = [m_block_queue EXCEPT ![t] = Append(@, pos)]
             /\ to_signal' = [to_signal EXCEPT ![c] = t]
  <2>1. PICK t \in Threads, pos \in Positions :
          /\ m_block_queue' = [m_block_queue EXCEPT ![t] = Append(@, pos)]
          /\ to_signal' = [to_signal EXCEPT ![c] = t]
    BY <1>2
  <2>2. \A u \in Threads \ {t} : m_block_queue'[u] = m_block_queue[u]
    BY <2>1 DEF Types, QueueInv, QueueTypes
  <2>3. /\ to_signal' \in [Threads \cup {Server} -> Threads \cup {None}]
        /\ to_signal'[c] = t
        /\ \A d \in (Threads \cup {Server}) \ {c} : to_signal'[d] = to_signal[d]
    BY <2>1 DEF WakeInv
  <2>4. server' # "step" => to_signal'[Server] = None
    BY <2>3 DEF WakeInv
  <2>5. ASSUME NEW u \in Threads, pc'[u] = "wait", HasWork(u)' PROVE WillWake(u)'
    <3>1. CASE u = t
      BY <2>3, <3>1 DEF WillWake
    <3>2. CASE u # t
      <4>1. WillWake(u)
        BY <2>2, <2>5, <3>2 DEF HasWork, WakeInv
      <4>2. \A d \in Threads \cup {Server} : to_signal[d] = u => d # c
        BY <1>0
      <4> QED BY <2>3, <4>1, <4>2 DEF WillWake
    <3> QED BY <3>1, <3>2
  <2> QED BY <2>3, <2>4, <2>5 DEF WakeInv
<1>3. \E pos \in Positions : \/ UNCHANGED <<m_block_queue, to_signal>>
                             \/ \E t \in Threads :
                                  /\ m_block_queue' = [m_block_queue EXCEPT ![t] = Append(@, pos)]
                                  /\ to_signal' = [to_signal EXCEPT ![c] = t]
  BY DEF Request, Enqueue, ToSignal, mgrVars
<1> QED BY <1>1, <1>2, <1>3

LEMMA SignalWakes ==
  ASSUME WakeInv, NEW c \in Threads \cup {Server}, Signal(c)
  PROVE  WakeInv'
<1>1. PICK u \in Threads : /\ to_signal[c] = u
                           /\ notified' = [notified EXCEPT ![u] = TRUE]
                           /\ to_signal' = [to_signal EXCEPT ![c] = None]
  BY DEF Signal, WakeInv
<1>2. /\ notified' \in [Threads -> BOOLEAN] /\ notified'[u]
      /\ \A v \in Threads : notified[v] => notified'[v]
  BY <1>1 DEF WakeInv
<1>3. /\ to_signal' \in [Threads \cup {Server} -> Threads \cup {None}]
      /\ \A d \in (Threads \cup {Server}) \ {c} : to_signal'[d] = to_signal[d]
      /\ to_signal'[c] = None
  BY <1>1 DEF WakeInv
<1>4. \A v \in Threads : WillWake(v) => WillWake(v)'
  BY <1>1, <1>2, <1>3 DEF WillWake
<1>5. \A v \in Threads : HasWork(v)' <=> HasWork(v)
  BY DEF Signal, mgrVars, HasWork
<1>6. server' # "step" => to_signal'[Server] = None
  BY <1>3 DEF Signal, WakeInv
<1> QED BY <1>2, <1>3, <1>4, <1>5, <1>6 DEF WakeInv, Signal

LEMMA StepWakes ==
  ASSUME Types, WakeInv, [Next]_vars
  PROVE  WakeInv'
<1> USE DEF mgrVars, mapVars, history, faults, asked
<1>0. pc \in [Threads -> Labels] /\ ThreadTypes
  BY DEF Types, ThreadTypes
<1>1. CASE ServerStep
  <2>1. CASE StepRequests
    <3>1. server = "emerge" /\ server' = "step" /\ to_signal[Server] = None
      BY <2>1 DEF StepRequests, WakeInv
    <3>2. CASE Request(Server)
      BY <2>1, <3>1, <3>2, RequestWakes DEF StepRequests, serverFrame
    <3>3. CASE UNCHANGED <<mgrVars, to_signal, history>>
      BY <2>1, <3>1, <3>3, WakeFrame DEF StepRequests, serverFrame, HasWork
    <3> QED BY <2>1, <3>2, <3>3 DEF StepRequests
  <2>2. CASE Signal(Server)
    BY <2>2, SignalWakes
  <2>3. CASE \E t \in Threads : StopThread(t)
    <3>1. PICK t \in Threads : StopThread(t)
      BY <2>3
    <3>2. /\ notified' \in [Threads -> BOOLEAN] /\ m_request_stop' \in [Threads -> BOOLEAN]
          /\ notified'[t] /\ \A u \in Threads \ {t} : notified'[u] = notified[u]
          /\ \A u \in Threads \ {t} : m_request_stop'[u] = m_request_stop[u]
      BY <3>1 DEF StopThread, Notified, WakeInv
    <3>3. \A u \in Threads : pc'[u] = "wait" /\ HasWork(u)' => WillWake(u)'
      BY <3>1, <3>2 DEF StopThread, serverFrame, WakeInv, HasWork, WillWake
    <3> QED BY <3>1, <3>2, <3>3 DEF StopThread, WakeInv
  <2>4. ASSUME UNCHANGED <<mgrVars, pc, to_signal, notified, m_request_stop>>,
               server' # "step" => to_signal[Server] = None
        PROVE  WakeInv'
    BY <2>4, WakeFrame DEF HasWork
  <2>5. CASE BeginStep \/ EndStep \/ StopServer \/ ThreadsStopped
    BY <2>4, <2>5 DEF BeginStep, EndStep, StopServer, ThreadsStopped, serverFrame, WakeInv
  <2> QED BY <1>1, <2>1, <2>2, <2>3, <2>5 DEF ServerStep
<1>2. ASSUME NEW t \in Threads, ThreadStep(t) PROVE WakeInv'
  <2>p. ASSUME PopFront(t) PROVE \A u \in Threads \ {t} : m_block_queue'[u] = m_block_queue[u]
    BY <2>p DEF PopFront, Types, QueueInv, QueueTypes
  <2>t. ASSUME TakeFront(t) PROVE \A u \in Threads \ {t} : m_block_queue'[u] = m_block_queue[u]
    BY <2>p, <2>t DEF TakeFront
  <2>1. CASE Loop(t)
    <3>1. CASE TakeFront(t) /\ Goto(t, "fetch")
      BY <1>0, <2>1, <2>t, <3>1, GoOnWakes DEF Loop
    <3>2. CASE UNCHANGED <<mgrVars, item>> /\ Goto(t, "shutdown")
      BY <1>0, <2>1, <3>2, GoOnWakes DEF Loop
    <3>3. CASE UNCHANGED <<mgrVars, item>> /\ Goto(t, "wait") /\ m_block_queue[t] = <<>>
               /\ ~m_request_stop[t]
      <4>1. \A u \in Threads : pc'[u] = "wait" /\ HasWork(u)' => pc[u] = "wait" /\ HasWork(u)
        BY <1>0, <2>1, <3>3 DEF Loop, Goto, HasWork
      <4>2. server' # "step" => to_signal[Server] = None
        BY <2>1 DEF Loop, WakeInv
      <4> QED BY <2>1, <4>1, <4>2, WakeFrame DEF Loop
    <3> QED BY <2>1, <3>1, <3>2, <3>3 DEF Loop
  <2>2. CASE Wait(t)
    <3>1. /\ notified' \in [Threads -> BOOLEAN]
          /\ \A u \in Threads \ {t} : notified'[u] = notified[u]
      BY <2>2 DEF Wait, WakeInv
    <3>2. pc'[t] # "wait" /\ \A u \in Threads \ {t} : pc'[u] = pc[u]
      BY <1>0, <2>2 DEF Wait, Goto
    <3>3. \A u \in Threads : pc'[u] = "wait" /\ HasWork(u)' => WillWake(u)'
      BY <2>2, <3>1, <3>2 DEF Wait, WakeInv, HasWork, WillWake
    <3> QED BY <2>2, <3>1, <3>3 DEF Wait, WakeInv
  <2>3. CASE Fetch(t)
    <3>1. \E label \in {"callbacks", "load", "generate"} : Goto(t, label)
      <4>1. m_blocks[item[t].pos] \in {"none", "ignore", "generated"}
        BY <1>0, <2>3 DEF Fetch, Running, BlockState, BlockEmergeData, ThreadTypes
      <4>2. CASE m_blocks[item[t].pos] = "generated"
        BY <2>3, <4>2 DEF Fetch
      <4>3. CASE m_blocks[item[t].pos] = "none"
        BY <2>3, <4>3 DEF Fetch
      <4>4. CASE m_blocks[item[t].pos] = "ignore"
        BY <2>3, <4>4 DEF Fetch, StartGen
      <4> QED BY <4>1, <4>2, <4>3, <4>4
    <3> QED BY <1>0, <2>3, <3>1, GoOnWakes DEF Fetch
  <2>4. CASE FetchLoaded(t)
    <3>1. \E label \in {"callbacks", "generate"} : Goto(t, label)
      BY <2>4 DEF FetchLoaded, StartGen
    <3> QED BY <1>0, <2>4, <3>1, GoOnWakes DEF FetchLoaded
  <2>5. CASE LoadFails(t)
    BY <1>0, <2>5, GoOnWakes DEF LoadFails, Throw
  <2>15. CASE InitBlockMakeFails(t)
    BY <1>0, <2>15, GoOnWakes DEF InitBlockMakeFails, Throw
  <2>16. CASE LoopOverLimit(t)
    <3>1. Goto(t, "loop")
      BY <1>0, <2>16 DEF LoopOverLimit, Running, Goto
    <3> QED BY <1>0, <2>16, <2>p, <3>1, GoOnWakes DEF LoopOverLimit
  <2>6. CASE Generate(t)
    <3>1. \E label \in {"callbacks", "finish"} : Goto(t, label)
      BY <2>6 DEF Generate
    <3> QED BY <1>0, <2>6, <3>1, GoOnWakes DEF Generate
  <2>7. CASE FinishGen(t)
    <3>1. \E label \in {"lua", "emerge"} : Goto(t, label)
      BY <2>7 DEF FinishGen, EnterLua
    <3> QED BY <1>0, <2>7, <3>1, GoOnWakes DEF FinishGen
  <2>8. ASSUME Callback(t) PROVE WakeInv'
    <3>1. /\ \E label \in {"lua", "emerge"} : Goto(t, label)
          /\ UNCHANGED <<mgrVars, notified, m_request_stop, server, to_signal>>
      BY <1>0, <2>8, CallbackKeeps
    <3> QED BY <1>0, <3>1, GoOnWakes
  <2>9. CASE RunCompletionCallbacks(t)
    <3>1. CASE /\ Goto(t, "loop")
               /\ UNCHANGED <<mgrVars, notified, m_request_stop, server, to_signal>>
      BY <1>0, <3>1, GoOnWakes
    <3> QED BY <2>8, <2>9, <3>1 DEF RunCompletionCallbacks
  <2>10. CASE LuaRequests(t)
    <3>1. CASE Request(t)
      <4>1. to_signal[t] = None /\ t # Server /\ \A u \in Threads : pc'[u] = "wait" => pc[u] = "wait"
        BY <1>0, <2>10, EmergeAssumption DEF LuaRequests, Running, Goto, Server
      <4> QED BY <2>10, <3>1, <4>1, RequestWakes DEF LuaRequests
    <3>2. CASE UNCHANGED <<mgrVars, to_signal, history>>
      BY <1>0, <2>10, <3>2, GoOnWakes DEF LuaRequests
    <3> QED BY <2>10, <3>1, <3>2 DEF LuaRequests
  <2>11. CASE LuaReturns(t)
    <3>1. \E label \in {"cancel", "callbacks"} : Goto(t, label)
      BY <2>11 DEF LuaReturns
    <3> QED BY <1>0, <2>11, <3>1, GoOnWakes DEF LuaReturns
  <2>12. CASE Shutdown(t)
    BY <1>0, <2>12, GoOnWakes DEF Shutdown
  <2>13. CASE CancelPendingItems(t)
    <3>1. CASE /\ TakeFront(t) /\ pc' = pc
               /\ UNCHANGED <<notified, m_request_stop, server, to_signal>>
      <4>1. pc[t] = "cancel" /\ Goto(t, "cancel")
        BY <1>0, <2>13, <3>1 DEF CancelPendingItems, Running, Goto
      <4> QED BY <1>0, <2>t, <3>1, <4>1, GoOnWakes
    <3>2. CASE /\ Goto(t, "ended")
               /\ UNCHANGED <<mgrVars, notified, m_request_stop, server, to_signal>>
      BY <1>0, <3>2, GoOnWakes
    <3> QED BY <2>8, <2>13, <3>1, <3>2 DEF CancelPendingItems
  <2>14. CASE Signal(t)
    BY <2>14, SignalWakes
  <2> QED BY <1>2, <2>1, <2>2, <2>3, <2>4, <2>5, <2>6, <2>7, <2>9, <2>10, <2>11, <2>12, <2>13, <2>14,
             <2>15, <2>16
          DEF ThreadStep
<1>3. CASE UNCHANGED vars
  BY <1>3, WakeFrame DEF vars, HasWork, WakeInv
<1> QED BY <1>1, <1>2, <1>3 DEF Next, Stopped

\* No thread sleeps on while its queue holds something or it is to stop: the
\* signal of whoever gave it the work has come or is about to.
THEOREM WakeupsAreNotLost == Spec => []NoLostWakeup
<1>1. Init => WakeInv
  BY DEF Init, WakeInv
<1>2. WakeInv => NoLostWakeup
  BY DEF WakeInv, HasWork, WillWake, NoLostWakeup
<1> QED BY <1>1, <1>2, AlwaysTypes, StepWakes, PTL DEF Spec

-----------------------------------------------------------------------------
(* The callbacks.  Each is in one place, the queue or a thread, until it   *)
(* is called.                                                              *)

OnceInv ==
  /\ called \in [1 .. MaxRequests -> {0, 1}]
  /\ accepted \subseteq 1 .. requests /\ requests <= MaxRequests
  /\ \A n \in (1 .. MaxRequests) \ accepted : called[n] = 0
  /\ \A p \in Enqueued : \A n \in m_blocks_enqueued[p].callbacks :
       n \in accepted /\ called[n] = 0
  /\ \A t \in Threads : \A n \in item[t].callbacks : n \in accepted /\ called[n] = 0
  /\ \A p, q \in Enqueued :
       m_blocks_enqueued[p].callbacks \cap m_blocks_enqueued[q].callbacks # {} => p = q
  /\ \A p \in Enqueued, t \in Threads :
       m_blocks_enqueued[p].callbacks \cap item[t].callbacks = {}
  /\ \A t, u \in Threads : item[t].callbacks \cap item[u].callbacks # {} => t = u

\* A thread that is about to take another block has no callback left, and what
\* has been accepted and not called is somewhere, or was dropped, not both.
Idle == {"loop", "wait", "shutdown", "ended"}

LostInv ==
  /\ \A t \in Threads : pc[t] \in Idle => item[t].callbacks = {}
  /\ \A n \in accepted \ lost : called[n] = 0 => Waits(n)
  /\ \A n \in lost : n \in accepted /\ called[n] = 0 /\ ~Waits(n)

\* What the queue of a thread that has ended holds came too late.
LateInv ==
  /\ \A t \in Threads : \A i \in 1 .. Len(m_block_queue[t]) :
       pc[t] = "ended" => m_blocks_enqueued[m_block_queue[t][i]].callbacks \subseteq late
  /\ server = "stopped" => \A t \in Threads : pc[t] = "ended"

CallsInv == OnceInv /\ LostInv /\ LateInv

\* What an accepted request changes.
Added(pos, callbacks) ==
  /\ accepted' = accepted \cup callbacks
  /\ late' = late \cup {n \in callbacks : \E t \in Threads : pc[t] = "ended" /\ Queued(t, pos)'}
  /\ Enqueued' = Enqueued \cup {pos}
  /\ \A p \in Enqueued \ {pos} : m_blocks_enqueued'[p] = m_blocks_enqueued[p]
  /\ m_blocks_enqueued'[pos].callbacks =
       (IF pos \in Enqueued THEN m_blocks_enqueued[pos].callbacks ELSE {}) \cup callbacks
  /\ \A t \in Threads : \A i \in 1 .. Len(m_block_queue'[t]) :
       \/ m_block_queue'[t][i] = pos /\ pos \notin Enqueued
       \/ i \in 1 .. Len(m_block_queue[t]) /\ m_block_queue'[t][i] = m_block_queue[t][i]

LEMMA EnqueueAdds ==
  ASSUME Types, NEW c \in Threads \cup {Server}, NEW pos \in Positions,
         NEW peer \in Peers \cup {NoPeer}, NEW gen \in BOOLEAN, NEW force \in BOOLEAN,
         NEW callbacks \in SUBSET (1 .. MaxRequests),
         Enqueue(c, pos, peer, gen, force, callbacks)
  PROVE  UNCHANGED <<mgrVars, accepted, late>> \/ Added(pos, callbacks)
<1>1. CASE UNCHANGED <<mgrVars, to_signal, accepted, late>>
  BY <1>1
<1>2. CASE /\ accepted' = accepted \cup callbacks
           /\ late' = late \cup {n \in callbacks : \E t \in Threads :
                                   pc[t] = "ended" /\ Queued(t, pos)'}
           /\ pos \in Enqueued
           /\ m_blocks_enqueued' =
                [m_blocks_enqueued EXCEPT ![pos] = Merged(@, gen, callbacks)]
           /\ UNCHANGED <<m_peer_queue_count, m_block_queue>>
  <2>1. PICK data : data = m_blocks_enqueued[pos] /\ data \in BlockEmergeData
    BY <1>2 DEF Types, QueueInv, QueueTypes
  <2>2. Merged(data, gen, callbacks).callbacks = data.callbacks \cup callbacks
    BY <2>1 DEF Merged, BlockEmergeData
  <2>3. /\ Enqueued' = Enqueued \cup {pos}
        /\ \A p \in Enqueued \ {pos} : m_blocks_enqueued'[p] = m_blocks_enqueued[p]
        /\ m_blocks_enqueued'[pos] = Merged(data, gen, callbacks)
    BY <1>2, <2>1 DEF Enqueued
  <2>4. \A t \in Threads : \A i \in 1 .. Len(m_block_queue'[t]) :
          i \in 1 .. Len(m_block_queue[t]) /\ m_block_queue'[t][i] = m_block_queue[t][i]
    BY <1>2
  <2> QED BY <1>2, <2>1, <2>2, <2>3, <2>4 DEF Added
<1>3. CASE /\ accepted' = accepted \cup callbacks
           /\ late' = late \cup {n \in callbacks : \E t \in Threads :
                                   pc[t] = "ended" /\ Queued(t, pos)'}
           /\ pos \notin Enqueued
           /\ m_blocks_enqueued' =
                [p \in Enqueued \cup {pos} |->
                  IF p # pos THEN m_blocks_enqueued[p]
                  ELSE [pos |-> pos, gen |-> gen, peer |-> peer, callbacks |-> callbacks]]
           /\ \E t \in Threads : m_block_queue' = [m_block_queue EXCEPT ![t] = Append(@, pos)]
  <2>1. PICK data : data = [pos |-> pos, gen |-> gen, peer |-> peer, callbacks |-> callbacks]
    OBVIOUS
  <2>2. m_blocks_enqueued' = [p \in Enqueued \cup {pos} |-> IF p # pos THEN m_blocks_enqueued[p]
                                                             ELSE data]
    BY <1>3, <2>1
  <2>3. /\ Enqueued' = Enqueued \cup {pos}
        /\ \A p \in Enqueued \ {pos} : m_blocks_enqueued'[p] = m_blocks_enqueued[p]
        /\ m_blocks_enqueued'[pos] = data /\ data.callbacks = callbacks
    BY <1>3, <2>1, <2>2 DEF Enqueued
  <2>4. PICK t \in Threads : m_block_queue' = [m_block_queue EXCEPT ![t] = Append(@, pos)]
    BY <1>3
  <2>5. /\ m_block_queue[t] \in Seq(Positions)
        /\ m_block_queue'[t] = Append(m_block_queue[t], pos)
        /\ \A u \in Threads \ {t} : m_block_queue'[u] = m_block_queue[u]
    BY <2>4 DEF Types, QueueInv, QueueTypes
  <2>6. /\ Len(m_block_queue'[t]) = Len(m_block_queue[t]) + 1
        /\ \A i \in 1 .. Len(m_block_queue[t]) : m_block_queue'[t][i] = m_block_queue[t][i]
        /\ m_block_queue'[t][Len(m_block_queue[t]) + 1] = pos
        /\ Len(m_block_queue[t]) \in Nat
    BY <2>5
  <2>7. \A u \in Threads : \A i \in 1 .. Len(m_block_queue'[u]) :
          \/ m_block_queue'[u][i] = pos /\ pos \notin Enqueued
          \/ i \in 1 .. Len(m_block_queue[u]) /\ m_block_queue'[u][i] = m_block_queue[u][i]
    BY <1>3, <2>5, <2>6
  <2> QED BY <1>3, <2>3, <2>7 DEF Added
<1> QED BY <1>1, <1>2, <1>3 DEF Enqueue, IsEnqueued

LEMMA RequestAdds ==
  ASSUME Types, NEW c \in Threads \cup {Server}, Request(c)
  PROVE  /\ UNCHANGED <<called, lost>> /\ requests' = requests + 1
         /\ requests + 1 \in 1 .. MaxRequests
         /\ \/ UNCHANGED <<mgrVars, accepted, late>>
            \/ \E pos \in Positions, callbacks \in SUBSET {requests + 1} : Added(pos, callbacks)
<1>1. /\ UNCHANGED <<called, lost>> /\ requests' = requests + 1
      /\ requests + 1 \in 1 .. MaxRequests
  BY EmergeAssumption DEF Request, Types, faults
<1>2. PICK pos \in Positions, gen \in BOOLEAN :
        \/ \E peer \in Peers \cup {NoPeer} : Enqueue(c, pos, peer, gen, FALSE, {})
        \/ Enqueue(c, pos, NoPeer, TRUE, TRUE, {requests + 1})
  BY Zenon DEF Request
<1>3. CASE \E peer \in Peers \cup {NoPeer} : Enqueue(c, pos, peer, gen, FALSE, {})
  <2>1. PICK peer \in Peers \cup {NoPeer} : Enqueue(c, pos, peer, gen, FALSE, {})
    BY <1>3
  <2>2. FALSE \in BOOLEAN /\ {} \in SUBSET (1 .. MaxRequests)
    OBVIOUS
  <2>3. UNCHANGED <<mgrVars, accepted, late>> \/ Added(pos, {})
    BY <2>1, <2>2, EnqueueAdds
  <2> QED BY <1>1, <2>3
<1>4. CASE Enqueue(c, pos, NoPeer, TRUE, TRUE, {requests + 1})
  <2>1. /\ {requests + 1} \in SUBSET (1 .. MaxRequests) /\ NoPeer \in Peers \cup {NoPeer}
        /\ TRUE \in BOOLEAN
    BY <1>1
  <2>2. UNCHANGED <<mgrVars, accepted, late>> \/ Added(pos, {requests + 1})
    BY <1>4, <2>1, EnqueueAdds
  <2> QED BY <1>1, <2>2
<1> QED BY <1>2, <1>3, <1>4

LEMMA RequestCalls ==
  ASSUME Types, CallsInv, NEW c \in Threads \cup {Server}, Request(c), item' = item,
         \A t \in Threads : /\ pc'[t] = "ended" <=> pc[t] = "ended"
                            /\ pc'[t] \in Idle => pc[t] \in Idle,
         server' = "stopped" => server = "stopped"
  PROVE  CallsInv'
<1>1. /\ UNCHANGED <<called, lost>> /\ requests' = requests + 1 /\ requests \in Nat
      /\ requests + 1 \in 1 .. MaxRequests
  BY RequestAdds DEF Types
<1>2. CASE UNCHANGED <<mgrVars, accepted, late>>
  <2>1. OnceInv'
    BY <1>1, <1>2 DEF CallsInv, OnceInv, mgrVars, Enqueued
  <2>2. \A n : Waits(n)' <=> Waits(n)
    BY <1>2 DEF Waits, mgrVars, Enqueued
  <2>3. LostInv'
    BY <1>1, <1>2, <2>2 DEF CallsInv, LostInv
  <2>4. LateInv'
    BY <1>1, <1>2 DEF CallsInv, LateInv, mgrVars
  <2> QED BY <2>1, <2>3, <2>4 DEF CallsInv
<1>3. CASE \E pos \in Positions, callbacks \in SUBSET {requests + 1} : Added(pos, callbacks)
  <2>1. PICK pos \in Positions, callbacks \in SUBSET {requests + 1} : Added(pos, callbacks)
    BY <1>3
  <2>2. PICK old : /\ old = IF pos \in Enqueued THEN m_blocks_enqueued[pos].callbacks ELSE {}
                   /\ m_blocks_enqueued'[pos].callbacks = old \cup callbacks
    BY <2>1 DEF Added
  <2>3. /\ accepted' = accepted \cup callbacks /\ late \subseteq late'
        /\ Enqueued' = Enqueued \cup {pos}
        /\ \A p \in Enqueued \ {pos} : m_blocks_enqueued'[p] = m_blocks_enqueued[p]
    BY <2>1 DEF Added
  <2>4. \A n \in callbacks : n \notin accepted /\ called[n] = 0 /\ n \in 1 .. MaxRequests
    BY <1>1 DEF CallsInv, OnceInv
  <2>5. \A n \in old : n \in accepted /\ called[n] = 0
    BY <2>2 DEF CallsInv, OnceInv
  <2>6. \A p \in Enqueued' \ {pos} : /\ p \in Enqueued
                                     /\ m_blocks_enqueued'[p] = m_blocks_enqueued[p]
                                     /\ m_blocks_enqueued[p].callbacks \cap callbacks = {}
                                     /\ m_blocks_enqueued[p].callbacks \cap old = {}
    BY <2>2, <2>3, <2>4 DEF CallsInv, OnceInv
  <2>7. \A t \in Threads : item[t].callbacks \cap callbacks = {} /\ item[t].callbacks \cap old = {}
    BY <2>2, <2>4 DEF CallsInv, OnceInv
  <2>8. OnceInv'
    <3>1. accepted' \subseteq 1 .. requests' /\ called' = called
          /\ \A n \in (1 .. MaxRequests) \ accepted' : called'[n] = 0
      BY <1>1, <2>3 DEF CallsInv, OnceInv
    <3>2. \A p \in Enqueued' : \A n \in m_blocks_enqueued'[p].callbacks :
            n \in accepted' /\ called'[n] = 0
      BY <1>1, <2>2, <2>3, <2>4, <2>5, <2>6 DEF CallsInv, OnceInv
    <3>3. \A t \in Threads : \A n \in item'[t].callbacks : n \in accepted' /\ called'[n] = 0
      BY <1>1, <2>3 DEF CallsInv, OnceInv
    <3>4. \A p, q \in Enqueued' :
            m_blocks_enqueued'[p].callbacks \cap m_blocks_enqueued'[q].callbacks # {} => p = q
      <4> SUFFICES ASSUME NEW p \in Enqueued', NEW q \in Enqueued', p # q
                   PROVE  m_blocks_enqueued'[p].callbacks \cap m_blocks_enqueued'[q].callbacks = {}
        OBVIOUS
      <4>1. CASE p = pos
        BY <2>2, <2>6, <4>1
      <4>2. CASE q = pos
        BY <2>2, <2>6, <4>2
      <4>3. CASE p # pos /\ q # pos
        BY <2>6, <4>3 DEF CallsInv, OnceInv
      <4> QED BY <4>1, <4>2, <4>3
    <3>5. \A p \in Enqueued', t \in Threads :
            m_blocks_enqueued'[p].callbacks \cap item'[t].callbacks = {}
      BY <2>2, <2>3, <2>6, <2>7 DEF CallsInv, OnceInv
    <3> QED BY <1>1, <3>1, <3>2, <3>3, <3>4, <3>5 DEF CallsInv, OnceInv
  <2>9. LostInv'
    <3>1. \A n \in accepted : Waits(n) => Waits(n)'
      <4> SUFFICES ASSUME NEW n \in accepted, Waits(n) PROVE Waits(n)'
        OBVIOUS
      <4>1. CASE \E t \in Threads : n \in item[t].callbacks
        BY <4>1 DEF Waits
      <4>2. CASE \E p \in Enqueued : n \in m_blocks_enqueued[p].callbacks
        <5>1. PICK p \in Enqueued : n \in m_blocks_enqueued[p].callbacks
          BY <4>2
        <5>2. p \in Enqueued' /\ n \in m_blocks_enqueued'[p].callbacks
          BY <2>2, <2>3, <5>1
        <5> QED BY <5>2 DEF Waits
      <4> QED BY <4>1, <4>2 DEF Waits
    <3>2. \A n \in callbacks : Waits(n)'
      BY <2>2, <2>3 DEF Waits
    <3>3. \A n : Waits(n)' => Waits(n) \/ n \in callbacks
      <4> SUFFICES ASSUME NEW n, Waits(n)', n \notin callbacks PROVE Waits(n)
        OBVIOUS
      <4>1. CASE \E t \in Threads : n \in item[t].callbacks
        BY <4>1 DEF Waits
      <4>2. CASE \E p \in Enqueued' : n \in m_blocks_enqueued'[p].callbacks
        <5>1. PICK p \in Enqueued' : n \in m_blocks_enqueued'[p].callbacks
          BY <4>2
        <5>2. CASE p = pos
          BY <2>2, <5>1, <5>2 DEF Waits
        <5>3. CASE p # pos
          BY <2>6, <5>1, <5>3 DEF Waits
        <5> QED BY <5>2, <5>3
      <4> QED BY <4>1, <4>2 DEF Waits
    <3>4. \A n \in lost : n \in accepted' /\ called'[n] = 0 /\ ~Waits(n)'
      BY <1>1, <2>3, <2>4, <3>3 DEF CallsInv, LostInv
    <3>5. \A n \in accepted' \ lost : called'[n] = 0 => Waits(n)'
      BY <1>1, <2>3, <3>1, <3>2 DEF CallsInv, LostInv
    <3> QED BY <1>1, <3>4, <3>5 DEF CallsInv, LostInv
  <2>10. LateInv'
    <3>1. ASSUME NEW t \in Threads, NEW i \in 1 .. Len(m_block_queue'[t]), pc[t] = "ended"
          PROVE  m_blocks_enqueued'[m_block_queue'[t][i]].callbacks \subseteq late'
      <4>1. \/ m_block_queue'[t][i] = pos /\ pos \notin Enqueued
            \/ i \in 1 .. Len(m_block_queue[t]) /\ m_block_queue'[t][i] = m_block_queue[t][i]
        BY <2>1 DEF Added
      <4>2. m_block_queue'[t][i] = pos => callbacks \subseteq late'
        <5>1. DOMAIN m_block_queue'[t] = 1 .. Len(m_block_queue'[t])
          BY RequestKeeps DEF QueueInv, QueueTypes
        <5> QED BY <2>1, <3>1, <5>1 DEF Added, Queued
      <4>3. CASE m_block_queue'[t][i] = pos /\ pos \notin Enqueued
        BY <2>2, <4>2, <4>3
      <4>4. CASE i \in 1 .. Len(m_block_queue[t]) /\ m_block_queue'[t][i] = m_block_queue[t][i]
        <5>1. /\ m_block_queue[t][i] \in Enqueued
              /\ m_blocks_enqueued[m_block_queue[t][i]].callbacks \subseteq late
          BY <3>1, <4>4 DEF CallsInv, LateInv, Types, QueueInv, EachOnce
        <5>2. CASE m_block_queue[t][i] = pos
          BY <2>2, <2>3, <4>2, <4>4, <5>1, <5>2
        <5>3. CASE m_block_queue[t][i] # pos
          BY <2>3, <4>4, <5>1, <5>3
        <5> QED BY <5>2, <5>3
      <4> QED BY <4>1, <4>3, <4>4
    <3> QED BY <3>1 DEF CallsInv, LateInv
  <2> QED BY <2>8, <2>9, <2>10 DEF CallsInv
<1> QED BY <1>2, <1>3, RequestAdds

\* A thread that moves on with its block.
LEMMA GoCalls ==
  ASSUME Types, CallsInv, NEW t \in Threads, NEW label, Goto(t, label), pc[t] # "ended",
         label \in Idle => item[t].callbacks = {},
         label = "ended" => m_block_queue[t] = <<>>,
         UNCHANGED <<mgrVars, item, requests, accepted, called, lost, late, server>>
  PROVE  CallsInv'
<1>1. pc'[t] = label /\ \A u \in Threads \ {t} : pc'[u] = pc[u]
  BY DEF Goto, Types, ThreadTypes
<1>2. OnceInv'
  BY DEF CallsInv, OnceInv, mgrVars, Enqueued
<1>3. LostInv'
  <2>1. \A n : Waits(n)' <=> Waits(n)
    BY DEF Waits, mgrVars, Enqueued
  <2> QED BY <1>1, <2>1 DEF CallsInv, LostInv
<1>4. LateInv'
  <2>1. \A u \in Threads : pc'[u] = "ended" => pc[u] = "ended" \/ Len(m_block_queue[u]) = 0
    BY <1>1
  <2> QED BY <2>1 DEF CallsInv, LateInv, mgrVars
<1> QED BY <1>2, <1>3, <1>4 DEF CallsInv

LEMMA TakeFrontCalls ==
  ASSUME Types, CallsInv, NEW t \in Threads, m_block_queue[t] # <<>>, TakeFront(t),
         NEW label, Goto(t, label), label \notin Idle, pc[t] # "ended",
         item[t].callbacks = {},
         UNCHANGED <<requests, accepted, called, lost, late, server>>
  PROVE  CallsInv'
<1>1. pc'[t] = label /\ label # "ended" /\ \A u \in Threads \ {t} : pc'[u] = pc[u]
  BY DEF Goto, Idle, Types, ThreadTypes
<1>2. PICK pos : pos = Head(m_block_queue[t])
  OBVIOUS
<1>3. /\ item' = [item EXCEPT ![t] = m_blocks_enqueued[pos]]
      /\ m_blocks_enqueued' = [p \in Enqueued \ {pos} |-> m_blocks_enqueued[p]]
      /\ m_block_queue' = [m_block_queue EXCEPT ![t] = Tail(@)]
  BY <1>2 DEF TakeFront, PopFront, Front
<1>4. m_block_queue[t] \in Seq(Positions) /\ Len(m_block_queue[t]) \in Nat \ {0}
  BY DEF Types, QueueInv, QueueTypes
<1>5. pos = m_block_queue[t][1] /\ 1 \in 1 .. Len(m_block_queue[t])
  BY <1>2, <1>4
<1>6. pos \in Enqueued
  BY <1>5 DEF Types, QueueInv, EachOnce
<1>7. /\ Enqueued' = Enqueued \ {pos}
      /\ \A p \in Enqueued' : m_blocks_enqueued'[p] = m_blocks_enqueued[p]
  BY <1>3 DEF Enqueued
<1>8. item'[t] = m_blocks_enqueued[pos] /\ \A u \in Threads \ {t} : item'[u] = item[u]
  BY <1>3 DEF Types, ThreadTypes
<1>9. OnceInv'
  <2>1. \A p \in Enqueued' : \A n \in m_blocks_enqueued'[p].callbacks :
          n \in accepted /\ called[n] = 0
    BY <1>7 DEF CallsInv, OnceInv
  <2>2. \A u \in Threads : \A n \in item'[u].callbacks : n \in accepted /\ called[n] = 0
    BY <1>6, <1>8 DEF CallsInv, OnceInv
  <2>3. \A p, q \in Enqueued' :
          m_blocks_enqueued'[p].callbacks \cap m_blocks_enqueued'[q].callbacks # {} => p = q
    BY <1>7 DEF CallsInv, OnceInv
  <2>4. \A p \in Enqueued', u \in Threads :
          m_blocks_enqueued'[p].callbacks \cap item'[u].callbacks = {}
    BY <1>6, <1>7, <1>8 DEF CallsInv, OnceInv
  <2>5. \A u, v \in Threads : item'[u].callbacks \cap item'[v].callbacks # {} => u = v
    BY <1>6, <1>8 DEF CallsInv, OnceInv
  <2> QED BY <2>1, <2>2, <2>3, <2>4, <2>5 DEF CallsInv, OnceInv
<1>10. LostInv'
  <2>1. \A u \in Threads : pc'[u] \in Idle => item'[u].callbacks = {}
    BY <1>1, <1>8 DEF CallsInv, LostInv
  <2>2. \A n : Waits(n) => Waits(n)'
    <3> SUFFICES ASSUME NEW n, Waits(n) PROVE Waits(n)'
      OBVIOUS
    <3>1. CASE \E u \in Threads : n \in item[u].callbacks
      <4>1. PICK u \in Threads : n \in item[u].callbacks
        BY <3>1
      <4>2. u # t
        BY <4>1
      <4> QED BY <1>8, <4>1, <4>2 DEF Waits
    <3>2. CASE \E p \in Enqueued : n \in m_blocks_enqueued[p].callbacks
      <4>1. PICK p \in Enqueued : n \in m_blocks_enqueued[p].callbacks
        BY <3>2
      <4>2. CASE p = pos
        BY <1>8, <4>1, <4>2 DEF Waits
      <4>3. CASE p # pos
        BY <1>7, <4>1, <4>3 DEF Waits
      <4> QED BY <4>2, <4>3
    <3> QED BY <3>1, <3>2 DEF Waits
  <2>3. \A n : Waits(n)' => Waits(n)
    <3> SUFFICES ASSUME NEW n, Waits(n)' PROVE Waits(n)
      OBVIOUS
    <3>1. CASE \E u \in Threads : n \in item'[u].callbacks
      BY <1>6, <1>8, <3>1 DEF Waits
    <3>2. CASE \E p \in Enqueued' : n \in m_blocks_enqueued'[p].callbacks
      BY <1>7, <3>2 DEF Waits
    <3> QED BY <3>1, <3>2 DEF Waits
  <2> QED BY <2>1, <2>2, <2>3 DEF CallsInv, LostInv
<1>11. LateInv'
  <2>1. ASSUME NEW u \in Threads, NEW i \in 1 .. Len(m_block_queue'[u]), pc'[u] = "ended"
        PROVE  m_blocks_enqueued'[m_block_queue'[u][i]].callbacks \subseteq late
    <3>1. u # t /\ pc[u] = "ended" /\ m_block_queue'[u] = m_block_queue[u]
      BY <1>1, <1>3, <2>1 DEF Types, QueueInv, QueueTypes
    <3>2. m_block_queue[u][i] # pos /\ m_block_queue[u][i] \in Enqueued
      BY <1>5, <2>1, <3>1 DEF Types, QueueInv, EachOnce
    <3> QED BY <1>7, <2>1, <3>1, <3>2 DEF CallsInv, LateInv
  <2>2. server # "stopped"
    BY DEF CallsInv, LateInv
  <2> QED BY <2>1, <2>2 DEF LateInv
<1> QED BY <1>9, <1>10, <1>11 DEF CallsInv

LEMMA CallsBounded ==
  ASSUME Types, OnceInv, NEW n \in accepted
  PROVE  n \in 1 .. MaxRequests
BY EmergeAssumption DEF OnceInv, Types

LEMMA CallbackCalls ==
  ASSUME Types, CallsInv, NEW t \in Threads, Callback(t), pc[t] # "ended"
  PROVE  CallsInv'
<1>1. PICK n \in item[t].callbacks :
        /\ EnterLua(t)
        /\ called' = [called EXCEPT ![n] = @ + 1]
        /\ item' = [item EXCEPT ![t].callbacks = @ \ {n}]
        /\ UNCHANGED <<mgrVars, server, requests, accepted, late, lost>>
  BY DEF Callback, faults
<1>2. PICK label \in {"lua", "emerge"} : Goto(t, label)
  BY <1>1 DEF EnterLua
<1>3. pc'[t] = label /\ \A u \in Threads \ {t} : pc'[u] = pc[u]
  BY <1>2 DEF Goto, Types, ThreadTypes
<1>4. item[t] \in BlockEmergeData
  BY <1>1, NoItemType DEF Types, ThreadTypes
<1>5. PICK data : data = [item[t] EXCEPT !.callbacks = @ \ {n}] /\ item' = [item EXCEPT ![t] = data]
  BY <1>1
<1>6. data.callbacks = item[t].callbacks \ {n}
  BY <1>4, <1>5 DEF BlockEmergeData
<1>7. /\ item'[t].callbacks = item[t].callbacks \ {n}
      /\ \A u \in Threads \ {t} : item'[u] = item[u]
  BY <1>5, <1>6 DEF Types, ThreadTypes
<1>8. n \in accepted /\ called[n] = 0 /\ n \in 1 .. MaxRequests
  BY <1>1, <1>4 DEF CallsInv, OnceInv, BlockEmergeData
<1>9. /\ called' \in [1 .. MaxRequests -> {0, 1}] /\ called'[n] = 1
      /\ \A k \in (1 .. MaxRequests) \ {n} : called'[k] = called[k]
  BY <1>1, <1>8 DEF CallsInv, OnceInv
<1>10. /\ UNCHANGED Enqueued /\ m_blocks_enqueued' = m_blocks_enqueued
       /\ UNCHANGED <<accepted, requests, m_block_queue, late, server, lost>>
  BY <1>1 DEF mgrVars, Enqueued
<1>11. OnceInv'
  <2>1. \A k \in (1 .. MaxRequests) \ accepted : called'[k] = 0
    BY <1>8, <1>9 DEF CallsInv, OnceInv
  <2>2. \A p \in Enqueued : \A k \in m_blocks_enqueued[p].callbacks :
          k \in accepted /\ called'[k] = 0
    <3> SUFFICES ASSUME NEW p \in Enqueued, NEW k \in m_blocks_enqueued[p].callbacks
                 PROVE  k \in accepted /\ called'[k] = 0
      OBVIOUS
    <3>1. k \in accepted /\ called[k] = 0 /\ k # n
      BY <1>1 DEF CallsInv, OnceInv
    <3>2. k \in 1 .. MaxRequests
      BY DEF Types, QueueInv, QueueTypes, BlockEmergeData
    <3> QED BY <1>9, <3>1, <3>2
  <2>3. \A u \in Threads : \A k \in item'[u].callbacks : k \in accepted /\ called'[k] = 0
    <3> SUFFICES ASSUME NEW u \in Threads, NEW k \in item'[u].callbacks
                 PROVE  k \in accepted /\ called'[k] = 0
      OBVIOUS
    <3>1. k \in item[u].callbacks /\ k # n
      BY <1>1, <1>7 DEF CallsInv, OnceInv
    <3>2. item[u] \in BlockEmergeData
      BY <3>1, NoItemType DEF Types, ThreadTypes
    <3>3. k \in 1 .. MaxRequests
      BY <3>1, <3>2 DEF BlockEmergeData
    <3> QED BY <1>9, <3>1, <3>3 DEF CallsInv, OnceInv
  <2>4. \A p \in Enqueued, u \in Threads :
          m_blocks_enqueued[p].callbacks \cap item'[u].callbacks = {}
    BY <1>7 DEF CallsInv, OnceInv
  <2>5. \A u, v \in Threads : item'[u].callbacks \cap item'[v].callbacks # {} => u = v
    <3> SUFFICES ASSUME NEW u \in Threads, NEW v \in Threads, u # v
                 PROVE  item'[u].callbacks \cap item'[v].callbacks = {}
      OBVIOUS
    <3>1. item'[u].callbacks \subseteq item[u].callbacks /\ item'[v].callbacks \subseteq item[v].callbacks
      BY <1>7
    <3> QED BY <3>1 DEF CallsInv, OnceInv
  <2> QED BY <1>9, <1>10, <2>1, <2>2, <2>3, <2>4, <2>5 DEF CallsInv, OnceInv
<1>12. LostInv'
  <2>1. \A u \in Threads : pc'[u] \in Idle => item'[u].callbacks = {}
    BY <1>3, <1>7 DEF CallsInv, LostInv, Idle
  <2>2. ASSUME NEW k \in accepted \ lost, called'[k] = 0 PROVE Waits(k)'
    <3>2. k # n
      BY <1>9, <2>2
    <3>3. k \in 1 .. MaxRequests
      BY <2>2, CallsBounded DEF CallsInv
    <3>4. called[k] = 0
      BY <1>9, <2>2, <3>2, <3>3
    <3>5. Waits(k)
      BY <2>2, <3>4 DEF CallsInv, LostInv
    <3> QED BY <1>7, <1>10, <3>2, <3>5 DEF Waits
  <2>3. ASSUME NEW k \in lost PROVE k \in accepted /\ called'[k] = 0 /\ ~Waits(k)'
    <3>1. k \in accepted /\ called[k] = 0 /\ ~Waits(k)
      BY <2>3 DEF CallsInv, LostInv
    <3>2. Waits(n)
      BY <1>1 DEF Waits
    <3>3. k # n /\ k \in 1 .. MaxRequests
      BY <3>1, <3>2, CallsBounded DEF CallsInv
    <3>4. ~Waits(k)'
      BY <1>7, <1>10, <3>1 DEF Waits
    <3> QED BY <1>9, <3>1, <3>3, <3>4
  <2> QED BY <1>10, <2>1, <2>2, <2>3 DEF LostInv
<1>13. LateInv'
  BY <1>3, <1>10 DEF CallsInv, LateInv
<1> QED BY <1>11, <1>12, <1>13 DEF CallsInv

\* An exception ends a thread, and its block's callbacks are gone.
LEMMA ThrowCalls ==
  ASSUME Types, CallsInv, NEW t \in Threads, Throw(t), pc[t] # "ended"
  PROVE  CallsInv'
<1>1. /\ UNCHANGED <<mgrVars, requests, accepted, called, late, server>>
      /\ lost' = lost \cup item[t].callbacks
      /\ Goto(t, "shutdown")
      /\ item' = [item EXCEPT ![t] = NoItem]
  BY DEF Throw, asked
<1>2. item'[t].callbacks = {} /\ \A u \in Threads \ {t} : item'[u] = item[u]
  BY <1>1, NoItemType DEF Types, ThreadTypes
<1>3. pc'[t] = "shutdown" /\ \A u \in Threads \ {t} : pc'[u] = pc[u]
  BY <1>1 DEF Goto, Types, ThreadTypes
<1>4. OnceInv'
  BY <1>1, <1>2 DEF CallsInv, OnceInv, mgrVars, Enqueued
<1>5. LostInv'
  <2>1. \A n : Waits(n)' <=> Waits(n) /\ n \notin item[t].callbacks
    <3>1. \A n \in item[t].callbacks : ~Waits(n)'
      BY <1>1, <1>2 DEF CallsInv, OnceInv, Waits, mgrVars, Enqueued
    <3>2. \A n : Waits(n)' => Waits(n)
      BY <1>1, <1>2 DEF Waits, mgrVars, Enqueued
    <3>3. \A n : Waits(n) /\ n \notin item[t].callbacks => Waits(n)'
      BY <1>1, <1>2 DEF Waits, mgrVars, Enqueued
    <3> QED BY <3>1, <3>2, <3>3
  <2>2. \A n \in item[t].callbacks : n \in accepted /\ called[n] = 0
    BY DEF CallsInv, OnceInv
  <2>3. \A u \in Threads : pc'[u] \in Idle => item'[u].callbacks = {}
    BY <1>2, <1>3 DEF CallsInv, LostInv
  <2> QED BY <1>1, <2>1, <2>2, <2>3 DEF CallsInv, LostInv
<1>6. LateInv'
  BY <1>1, <1>3 DEF CallsInv, LateInv, mgrVars
<1> QED BY <1>4, <1>5, <1>6 DEF CallsInv

\* A position over the limit: its callbacks go from the queue to nowhere.
LEMMA LoopOverLimitCalls ==
  ASSUME Types, CallsInv, NEW t \in Threads, LoopOverLimit(t)
  PROVE  CallsInv'
<1>1. PICK pos : pos = Head(m_block_queue[t])
  OBVIOUS
<1>2. /\ m_blocks_enqueued' = [p \in Enqueued \ {pos} |-> m_blocks_enqueued[p]]
      /\ m_block_queue' = [m_block_queue EXCEPT ![t] = Tail(@)]
      /\ m_block_queue[t] # <<>> /\ pc[t] = "loop"
      /\ UNCHANGED <<pc, requests, accepted, called, late, server>>
      /\ lost' = lost \cup m_blocks_enqueued[pos].callbacks
      /\ item' = [item EXCEPT ![t] = NoItem]
  BY <1>1 DEF LoopOverLimit, PopFront, Front, Running, asked
<1>3. m_block_queue[t] \in Seq(Positions) /\ Len(m_block_queue[t]) \in Nat \ {0}
  BY <1>2 DEF Types, QueueInv, QueueTypes
<1>4. pos = m_block_queue[t][1] /\ 1 \in 1 .. Len(m_block_queue[t])
  BY <1>1, <1>3
<1>5. pos \in Enqueued
  BY <1>4 DEF Types, QueueInv, EachOnce
<1>6. /\ Enqueued' = Enqueued \ {pos}
      /\ \A p \in Enqueued' : m_blocks_enqueued'[p] = m_blocks_enqueued[p]
  BY <1>2 DEF Enqueued
<1>7. \A u \in Threads : item'[u].callbacks = item[u].callbacks
  <2>1. item[t].callbacks = {}
    BY <1>2 DEF CallsInv, LostInv, Idle
  <2> QED BY <1>2, <2>1, NoItemType DEF Types, ThreadTypes
<1>8. OnceInv'
  <2>1. \A p \in Enqueued' : \A n \in m_blocks_enqueued'[p].callbacks :
          n \in accepted /\ called[n] = 0
    BY <1>6 DEF CallsInv, OnceInv
  <2>2. \A p, q \in Enqueued' :
          m_blocks_enqueued'[p].callbacks \cap m_blocks_enqueued'[q].callbacks # {} => p = q
    BY <1>6 DEF CallsInv, OnceInv
  <2>3. \A p \in Enqueued', u \in Threads :
          m_blocks_enqueued'[p].callbacks \cap item'[u].callbacks = {}
    BY <1>6, <1>7 DEF CallsInv, OnceInv
  <2> QED BY <1>2, <1>7, <2>1, <2>2, <2>3 DEF CallsInv, OnceInv
<1>9. LostInv'
  <2> DEFINE gone == m_blocks_enqueued[pos].callbacks
  <2>1. \A n \in gone : n \in accepted /\ called[n] = 0
    BY <1>5 DEF CallsInv, OnceInv
  <2>2. \A n \in gone : ~Waits(n)'
    <3> SUFFICES ASSUME NEW n \in gone PROVE ~Waits(n)'
      OBVIOUS
    <3>1. \A p \in Enqueued' : n \notin m_blocks_enqueued'[p].callbacks
      BY <1>5, <1>6 DEF CallsInv, OnceInv
    <3>2. \A u \in Threads : n \notin item'[u].callbacks
      BY <1>5, <1>7 DEF CallsInv, OnceInv
    <3> QED BY <3>1, <3>2 DEF Waits
  <2>3. \A n : Waits(n)' => Waits(n)
    BY <1>6, <1>7 DEF Waits
  <2>4. \A n : Waits(n) /\ n \notin gone => Waits(n)'
    BY <1>6, <1>7 DEF Waits
  <2>5. \A u \in Threads : pc'[u] \in Idle => item'[u].callbacks = {}
    BY <1>2, <1>7 DEF CallsInv, LostInv
  <2> HIDE DEF gone
  <2>6. lost' = lost \cup gone
    BY <1>2 DEF gone
  <2> QED BY <1>2, <2>1, <2>2, <2>3, <2>4, <2>5, <2>6 DEF CallsInv, LostInv
<1>10. LateInv'
  <2>1. ASSUME NEW u \in Threads, NEW i \in 1 .. Len(m_block_queue'[u]), pc'[u] = "ended"
        PROVE  m_blocks_enqueued'[m_block_queue'[u][i]].callbacks \subseteq late
    <3>1. u # t /\ pc[u] = "ended" /\ m_block_queue'[u] = m_block_queue[u]
      BY <1>2, <2>1 DEF Types, QueueInv, QueueTypes
    <3>2. m_block_queue[u][i] # pos /\ m_block_queue[u][i] \in Enqueued
      BY <1>4, <2>1, <3>1 DEF Types, QueueInv, EachOnce
    <3> QED BY <1>6, <2>1, <3>1, <3>2 DEF CallsInv, LateInv
  <2> QED BY <1>2, <2>1 DEF CallsInv, LateInv
<1> QED BY <1>8, <1>9, <1>10 DEF CallsInv

LEMMA StepCalls ==
  ASSUME Types, CallsInv, [Next]_vars
  PROVE  CallsInv'
<1> USE DEF mapVars, history, faults, asked
<1>0. pc \in [Threads -> Labels] /\ ThreadTypes
  BY DEF Types, ThreadTypes
<1>f. ASSUME UNCHANGED <<mgrVars, pc, item, requests, accepted, called, lost, late>>,
             server' = "stopped" => server = "stopped" \/ \A t \in Threads : pc[t] = "ended"
      PROVE  CallsInv'
  <2>1. OnceInv'
    BY <1>f DEF CallsInv, OnceInv, mgrVars, Enqueued
  <2>2. LostInv'
    BY <1>f DEF CallsInv, LostInv, Waits, mgrVars, Enqueued
  <2>3. LateInv'
    BY <1>f DEF CallsInv, LateInv, mgrVars
  <2> QED BY <2>1, <2>2, <2>3 DEF CallsInv
<1>1. CASE ServerStep
  <2>1. CASE StepRequests
    <3>1. server' # "stopped" /\ item' = item /\ pc' = pc
      BY <2>1 DEF StepRequests, serverFrame
    <3>2. CASE Request(Server)
      BY <3>1, <3>2, RequestCalls
    <3>3. CASE UNCHANGED <<mgrVars, to_signal, history>>
      BY <1>f, <3>1, <3>3
    <3> QED BY <2>1, <3>2, <3>3 DEF StepRequests
  <2> QED BY <1>f, <1>1, <2>1
          DEF ServerStep, BeginStep, EndStep, Signal, StopServer, StopThread, ThreadsStopped,
              serverFrame
<1>2. ASSUME NEW t \in Threads, ThreadStep(t) PROVE CallsInv'
  <2> USE DEF Running, Idle
  <2>1. CASE Loop(t)
    <3>1. item[t].callbacks = {}
      BY <2>1 DEF Loop, CallsInv, LostInv
    <3>2. CASE m_block_queue[t] # <<>> /\ TakeFront(t) /\ Goto(t, "fetch")
      BY <2>1, <3>1, <3>2, TakeFrontCalls DEF Loop
    <3>3. CASE UNCHANGED <<mgrVars, item>> /\ \E label \in {"shutdown", "wait"} : Goto(t, label)
      BY <2>1, <3>1, <3>3, GoCalls DEF Loop
    <3> QED BY <2>1, <3>2, <3>3 DEF Loop
  <2>2. CASE Wait(t)
    <3>1. item[t].callbacks = {}
      BY <2>2 DEF Wait, CallsInv, LostInv
    <3> QED BY <2>2, <3>1, GoCalls DEF Wait
  <2>3. CASE Fetch(t)
    <3>1. \E label \in {"callbacks", "load", "generate"} : Goto(t, label)
      <4>1. m_blocks[item[t].pos] \in {"none", "ignore", "generated"}
        BY <1>0, <2>3 DEF Fetch, BlockState, BlockEmergeData, ThreadTypes
      <4>2. CASE m_blocks[item[t].pos] = "generated"
        BY <2>3, <4>2 DEF Fetch
      <4>3. CASE m_blocks[item[t].pos] = "none"
        BY <2>3, <4>3 DEF Fetch
      <4>4. CASE m_blocks[item[t].pos] = "ignore"
        BY <2>3, <4>4 DEF Fetch, StartGen
      <4> QED BY <4>1, <4>2, <4>3, <4>4
    <3> QED BY <2>3, <3>1, GoCalls DEF Fetch
  <2>4. CASE FetchLoaded(t)
    <3>1. \E label \in {"callbacks", "generate"} : Goto(t, label)
      BY <2>4 DEF FetchLoaded, StartGen
    <3> QED BY <2>4, <3>1, GoCalls DEF FetchLoaded
  <2>5. CASE LoadFails(t)
    BY <2>5, ThrowCalls DEF LoadFails
  <2>14. CASE InitBlockMakeFails(t)
    BY <2>14, ThrowCalls DEF InitBlockMakeFails
  <2>15. CASE LoopOverLimit(t)
    BY <2>15, LoopOverLimitCalls
  <2>6. CASE Generate(t)
    <3>1. \E label \in {"callbacks", "finish"} : Goto(t, label)
      BY <2>6 DEF Generate
    <3> QED BY <2>6, <3>1, GoCalls DEF Generate
  <2>7. CASE FinishGen(t)
    <3>1. \E label \in {"lua", "emerge"} : Goto(t, label)
      BY <2>7 DEF FinishGen, EnterLua
    <3> QED BY <2>7, <3>1, GoCalls DEF FinishGen
  <2>8. CASE RunCompletionCallbacks(t)
    <3>1. CASE /\ item[t].callbacks = {} /\ Goto(t, "loop")
               /\ UNCHANGED <<mgrVars, item, history, server>>
      BY <2>8, <3>1, GoCalls DEF RunCompletionCallbacks
    <3>2. CASE Callback(t)
      BY <2>8, <3>2, CallbackCalls DEF RunCompletionCallbacks
    <3> QED BY <2>8, <3>1, <3>2 DEF RunCompletionCallbacks
  <2>9. CASE LuaRequests(t)
    <3>1. /\ \A u \in Threads : /\ pc'[u] = "ended" <=> pc[u] = "ended"
                                /\ pc'[u] \in Idle => pc[u] \in Idle
          /\ item' = item /\ server' = server
      BY <1>0, <2>9 DEF LuaRequests, Goto
    <3>2. CASE Request(t)
      BY <3>1, <3>2, RequestCalls
    <3>3. CASE UNCHANGED <<mgrVars, to_signal, history>>
      BY <2>9, <3>3, GoCalls DEF LuaRequests
    <3> QED BY <2>9, <3>2, <3>3 DEF LuaRequests
  <2>10. CASE LuaReturns(t)
    <3>1. \E label \in {"cancel", "callbacks"} : Goto(t, label)
      BY <2>10 DEF LuaReturns
    <3> QED BY <2>10, <3>1, GoCalls DEF LuaReturns
  <2>11. CASE Shutdown(t)
    BY <2>11, GoCalls DEF Shutdown
  <2>12. CASE CancelPendingItems(t)
    <3>0. pc[t] = "cancel"
      BY <2>12 DEF CancelPendingItems
    <3>1. CASE Callback(t)
      BY <3>0, <3>1, CallbackCalls
    <3>2. CASE /\ item[t].callbacks = {} /\ m_block_queue[t] # <<>> /\ TakeFront(t) /\ pc' = pc
               /\ UNCHANGED <<history, server>>
      <4>1. Goto(t, "cancel")
        BY <1>0, <3>0, <3>2 DEF Goto
      <4> QED BY <3>0, <3>2, <4>1, TakeFrontCalls
    <3>3. CASE /\ item[t].callbacks = {} /\ m_block_queue[t] = <<>> /\ Goto(t, "ended")
               /\ UNCHANGED <<mgrVars, item, history, server>>
      BY <3>0, <3>3, GoCalls
    <3> QED BY <2>12, <3>1, <3>2, <3>3 DEF CancelPendingItems
  <2>13. CASE Signal(t)
    BY <1>f, <2>13 DEF Signal
  <2> QED BY <1>2, <2>1, <2>2, <2>3, <2>4, <2>5, <2>6, <2>7, <2>8, <2>9, <2>10, <2>11, <2>12, <2>13,
             <2>14, <2>15
          DEF ThreadStep
<1>3. CASE UNCHANGED vars
  BY <1>f, <1>3 DEF vars
<1> QED BY <1>1, <1>2, <1>3 DEF Next, Stopped

LEMMA AlwaysCalls == Spec => []CallsInv
<1>1. ASSUME Init PROVE CallsInv
  <2>1. Enqueued = {}
    BY <1>1 DEF Init, Enqueued
  <2>2. \A t \in Threads : item[t].callbacks = {} /\ m_block_queue[t] = <<>>
    BY <1>1, NoItemType DEF Init
  <2>3. OnceInv
    BY <1>1, <2>1, <2>2, EmergeAssumption DEF Init, OnceInv
  <2>4. LostInv
    BY <1>1, <2>2 DEF Init, LostInv
  <2>5. LateInv
    BY <1>1, <2>2 DEF Init, LateInv
  <2> QED BY <2>3, <2>4, <2>5 DEF CallsInv
<1> QED BY <1>1, AlwaysTypes, StepCalls, PTL DEF Spec

\* A callback is called once and waits in one place until then: none is dropped
\* but those of a block over the limit of the world (emerge.cpp:696) and of one at
\* which an exception on loading ended the thread.
THEOREM CalledOnce == Spec => []CallbacksOnce
<1>1. ASSUME Types, CallsInv PROVE CallbacksOnce
  <2>1. \A n \in accepted : Waits(n) => called[n] = 0 /\ n \notin lost
    BY <1>1 DEF CallsInv, OnceInv, LostInv, Waits
  <2>2. \A n \in accepted : called[n] = 0 /\ n \notin lost => Waits(n)
    BY <1>1 DEF CallsInv, LostInv
  <2>3. \A n \in 1 .. MaxRequests : called[n] \in {0, 1}
    BY <1>1 DEF CallsInv, OnceInv
  <2>4. \A n \in lost : called[n] = 0
    BY <1>1 DEF CallsInv, LostInv
  <2> QED BY <2>1, <2>2, <2>3, <2>4 DEF CallbacksOnce
<1> QED BY <1>1, AlwaysTypes, AlwaysCalls, PTL

\* When stopThreads has returned every callback has been called, but for those
\* that were dropped and those that came to a thread that had ended, whatever the
\* threads and requests.
THEOREM StoppedIsFinished == Spec => []StoppedMeansFinished
<1>1. ASSUME Types, CallsInv PROVE StoppedMeansFinished
  <2> SUFFICES ASSUME server = "stopped", NEW n \in accepted, n \notin late, n \notin lost
               PROVE  called[n] = 1
    BY DEF StoppedMeansFinished
  <2>1. \A t \in Threads : pc[t] = "ended" /\ item[t].callbacks = {}
    BY <1>1 DEF CallsInv, LateInv, LostInv, Idle
  <2>2. \A p \in Enqueued : n \notin m_blocks_enqueued[p].callbacks
    <3> SUFFICES ASSUME NEW p \in Enqueued PROVE m_blocks_enqueued[p].callbacks \subseteq late
      OBVIOUS
    <3>1. PICK t \in Threads : \E i \in 1 .. Len(m_block_queue[t]) : m_block_queue[t][i] = p
      BY <1>1 DEF Types, QueueInv, EachOnce
    <3> QED BY <1>1, <2>1, <3>1 DEF CallsInv, LateInv
  <2>3. ~Waits(n)
    BY <2>1, <2>2 DEF Waits
  <2>4. called[n] # 0
    BY <1>1, <2>3 DEF CallsInv, LostInv
  <2>5. n \in 1 .. MaxRequests
    BY <1>1, CallsBounded DEF CallsInv
  <2> QED BY <1>1, <2>4, <2>5 DEF CallsInv, OnceInv
<1> QED BY <1>1, AlwaysTypes, AlwaysCalls, PTL

=============================================================================
