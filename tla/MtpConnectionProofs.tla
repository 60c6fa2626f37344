------------------------ MODULE MtpConnectionProofs ------------------------
(***************************************************************************)
(* The safety of connection management, for every number of peers, packets *)
(* and faults: one peer for the client's address, peers that are freed by  *)
(* the last thread that holds them, events in order, no resends to a       *)
(* client that does not know its id, acks of what was received.            *)
(***************************************************************************)
EXTENDS MtpConnection, NaturalsInduction, WellFoundedInduction, SequenceTheorems, TLAPS

-----------------------------------------------------------------------------
(* The inductive invariants, one for each property.                        *)

\* Who holds a peer that has been deleted keeps it; nobody else is asked.
Lifecycle ==
  /\ \A p \in m_peers : p \notin m_pending_deletion
  /\ \A p \in 1 .. created : p \in m_peers \/ p \in m_pending_deletion
  /\ recv.at # "idle" => recv.peer \in 1 .. created
  /\ NoDanglingPeer

\* Datagrams carry no id but the one the client has been told.
IdsAreTold ==
  /\ c_state = "new" => up = {} /\ m_peers = {} /\ c_sent = {} /\ c_setting = NotSetting
  /\ c_setting.at = "idle" => c_setting = NotSetting
  /\ c_setting.at = "write" => m_peer_id = PEER_ID_INEXISTENT
  /\ c_setting.at = "fix" => m_peer_id = c_setting.id
  /\ ~c_heard => m_peer_id = PEER_ID_INEXISTENT /\ c_setting = NotSetting
  /\ c_state = "running" =>
       \A d \in up \cup c_sent : d.id \in {PEER_ID_INEXISTENT, m_peer_id, c_setting.id}
  /\ FullyOpenIsKnown

\* What has been told of a peer, by what has become of it.
Told(p) ==
  /\ p \in m_peers => /\ events[p] \in {<<"added">>, <<"added", "data">>}
                      /\ next_in[p] = 0 => events[p] = <<"added">>
  /\ p \notin m_peers => events[p] \in {<<"added", "removed">>, <<"added", "data", "removed">>,
                                        <<"added", "removed", "data">>}
  /\ recv.at = "data" /\ recv.peer = p =>
       /\ events[p] \in {<<"added">>, <<"added", "removed">>}
       /\ p \in m_peers => next_in[p] # 0

EventsInv ==
  /\ \A p \in 1 .. created : Told(p)
  /\ \A p \in Peers \ (1 .. created) : events[p] = <<>>

\* The first peer has the packet or holds it back.
Got(n) == n < next_in[1] \/ n \in held_back[1]

\* Acks, queued and on their way, are for what the first peer has got.
AcksInv ==
  /\ created = 0 => /\ m_peers = {} /\ down = {} /\ m_command_queue = <<>> /\ unanswered = {}
                    /\ \A n \in 0 .. c_next - 1 : \E d \in c_sent : d.seqnum = n
  /\ created = 1 /\ 1 \in m_peers =>
       /\ \A i \in 1 .. Len(m_command_queue) :
            m_command_queue[i].type = "ACK" => Got(m_command_queue[i].seqnum)
       /\ \A d \in down : d.type = "ack" => Got(d.seqnum)
       /\ c_state # "gone" =>
            \A n \in 0 .. c_next - 1 : (\A d \in c_sent : d.seqnum # n) => Got(n)

-----------------------------------------------------------------------------
(* Types.                                                                  *)

LEMMA Bounds ==
  /\ MaxPeers \in Nat /\ MaxPeers >= 1 /\ MaxPackets \in Nat /\ MaxPackets >= 1
  /\ MaxFaults \in Nat
  /\ Peers = 1 .. MaxPeers /\ PeerIds = 0 .. MaxPeers /\ Seqnums = 0 .. MaxPackets - 1
  /\ 0 \in Seqnums /\ 1 \in PeerIds /\ 0 \in PeerIds
BY ConnectionAssumption DEF Peers, PeerIds, Seqnums

\* The datagrams and commands the program makes are such.
LEMMA Made ==
  ASSUME NEW id \in PeerIds, NEW n \in Seqnums
  PROVE  /\ Reliable(id, n) \in Datagram /\ Ack(id, n) \in Datagram
         /\ Disco(id) \in Datagram /\ SetPeerIdPacket(id) \in Datagram
         /\ \A type \in {"CREATE_PEER", "RESEND_ONE", "ACK", "DISCONNECT_PEER"} :
              Cmd(type, id, n) \in Command
BY Bounds DEF Reliable, Ack, Disco, SetPeerIdPacket, Cmd, Datagram, Command

LEMMA NoneType ==
  /\ PEER_ID_INEXISTENT \in PeerIds
  /\ NotSetting \in [at : {"idle", "write", "fix"}, id : PeerIds]
BY Bounds DEF PEER_ID_INEXISTENT, NotSetting

\* A non-empty set of naturals has a least element.
LEMMA LeastNatural ==
  ASSUME NEW S \in SUBSET Nat, S # {}
  PROVE  \E x \in S : \A y \in S : x <= y
<1> DEFINE Less == {pair \in Nat \X Nat : pair[1] < pair[2]}
<1>1. OpToRel(<, Nat) = Less
  BY DEF OpToRel
<1>2. IsWellFoundedOn(Less, Nat)
  BY <1>1, NatLessThanWellFounded
<1>3. \A x, y \in Nat : <<y, x>> \notin Less => x <= y
  <2>1. SUFFICES ASSUME NEW x \in Nat, NEW y \in Nat, y < x PROVE <<y, x>> \in Less
    OBVIOUS
  <2>2. <<y, x>> \in Nat \X Nat /\ <<y, x>>[1] = y /\ <<y, x>>[2] = x
    OBVIOUS
  <2> QED BY <2>1, <2>2
<1> HIDE DEF Less
<1>4. PICK x \in S : \A y \in S : <<y, x>> \notin Less
  BY <1>2, WFMin
<1> QED BY <1>3, <1>4

\* After a packet and what is held back behind it comes the first number that is
\* missing.
LEMMA NextIsMissing ==
  ASSUME NEW n \in Seqnums, NEW held \in SUBSET Seqnums
  PROVE  /\ NextExpected(n, held) \in n + 1 .. MaxPackets
         /\ NextExpected(n, held) \notin held
         /\ \A k \in n + 1 .. NextExpected(n, held) - 1 : k \in held
<1> DEFINE Missing == {m \in n + 1 .. MaxPackets : m \notin held}
<1>1. MaxPackets \in Missing
  BY Bounds
<1>2. Missing \in SUBSET Nat
  BY Bounds
<1>3. PICK m \in Missing : \A k \in Missing : m <= k
  BY <1>1, <1>2, LeastNatural
<1>4. \A k \in n + 1 .. m - 1 : k \in held
  BY <1>3, Bounds
<1> QED BY <1>3, <1>4, Bounds DEF NextExpected

LEMMA InitType == Init => TypeOK
<1> SUFFICES ASSUME Init PROVE TypeOK
  OBVIOUS
<1>1. ClientTypeOK
  <2>1. c_setting \in [at : {"idle", "write", "fix"}, id : PeerIds] /\ m_peer_id \in PeerIds
    BY NoneType, Zenon DEF Init
  <2>2. c_state \in {"new", "running", "gone"} /\ c_next \in 0 .. MaxPackets
    BY Bounds DEF Init
  <2>3. c_sent \subseteq Datagram /\ c_heard \in BOOLEAN
    BY Zenon DEF Init
  <2> QED BY <2>1, <2>2, <2>3 DEF ClientTypeOK
<1>2. PeersTypeOK
  BY Bounds DEF Init, PeersTypeOK
<1>3. ThreadsTypeOK
  BY Bounds, Made DEF Init, ThreadsTypeOK, Idle
<1>4. NetTypeOK
  BY Bounds DEF Init, NetTypeOK
<1> QED BY <1>1, <1>2, <1>3, <1>4 DEF TypeOK

\* What a step leaves alone keeps its type.
LEMMA UnchangedType ==
  ASSUME TypeOK
  PROVE  /\ UNCHANGED clientVars => ClientTypeOK'
         /\ UNCHANGED <<peerVars, created>> => PeersTypeOK'
         /\ UNCHANGED <<m_command_queue, recv, send_peer, timeouted_peers>> => ThreadsTypeOK'
         /\ UNCHANGED serverVars => PeersTypeOK' /\ ThreadsTypeOK'
         /\ UNCHANGED netVars => NetTypeOK'
BY DEF TypeOK, ClientTypeOK, PeersTypeOK, ThreadsTypeOK, NetTypeOK,
       clientVars, peerVars, serverVars, netVars

\* A datagram put on the way, or taken off it.
LEMMA NetType ==
  ASSUME TypeOK, NEW d \in Datagram
  PROVE  /\ up' = up \cup {d} /\ UNCHANGED <<down, faults>> => NetTypeOK'
         /\ After(up, d) /\ UNCHANGED down => NetTypeOK'
         /\ After(down, d) /\ UNCHANGED up => NetTypeOK'
         /\ down' \subseteq down /\ UNCHANGED <<up, faults>> => NetTypeOK'
         /\ down' \subseteq down /\ up' = up \cup {d} /\ UNCHANGED faults => NetTypeOK'
BY Bounds DEF TypeOK, NetTypeOK, After

LEMMA LeaveType ==
  ASSUME TypeOK, Leave
  PROVE  ClientTypeOK' /\ down' \subseteq down
<1>1. c_setting' \in [at : {"idle", "write", "fix"}, id : PeerIds] /\ m_peer_id' \in PeerIds
  BY NoneType, Zenon DEF Leave
<1>2. c_state' \in {"new", "running", "gone"} /\ c_next' \in 0 .. MaxPackets
  BY Bounds DEF Leave
<1>3. c_sent' \subseteq Datagram /\ c_heard' \in BOOLEAN
  BY Zenon DEF Leave
<1>4. down' \subseteq down
  BY Zenon DEF Leave
<1>5. PeerIds' = PeerIds /\ MaxPackets' = MaxPackets /\ Datagram' = Datagram
  BY Zenon
<1> QED BY <1>1, <1>2, <1>3, <1>4, <1>5 DEF ClientTypeOK

\* The client's receive thread.
LEMMA ClientReceivesType ==
  ASSUME TypeOK, NEW d \in down, ClientReceives(d)
  PROVE  ClientTypeOK' /\ NetTypeOK'
<1>1. d \in Datagram /\ d.id \in PeerIds
  BY DEF TypeOK, NetTypeOK, Datagram
<1>2. CASE ClientGetsAck(d)
  <2>1. ClientTypeOK'
    BY <1>2 DEF ClientReceives, ClientGetsAck, TypeOK, ClientTypeOK
  <2> QED BY <1>1, <1>2, <2>1, NetType DEF ClientGetsAck
<1>3. CASE ClientGetsPeerId(d)
  <2>1. PICK id \in {m_peer_id, d.id} : up' = up \cup {Ack(id, 0)}
    BY <1>3 DEF ClientGetsPeerId
  <2>2. Ack(id, 0) \in Datagram
    BY <1>1, Bounds, Made DEF TypeOK, ClientTypeOK
  <2>3. ClientTypeOK'
    BY <1>1, <1>3, Bounds DEF ClientReceives, ClientGetsPeerId, TypeOK, ClientTypeOK, NotSetting, PEER_ID_INEXISTENT
  <2> QED BY <1>3, <2>1, <2>2, <2>3, Bounds
          DEF ClientGetsPeerId, After, TypeOK, NetTypeOK
<1>4. CASE Leave /\ UNCHANGED <<up, faults>>
  BY <1>1, <1>4, LeaveType, NetType
<1> QED BY <1>2, <1>3, <1>4 DEF ClientReceives

\* The client's actions.
LEMMA ClientType ==
  ASSUME TypeOK, ClientNext
  PROVE  TypeOK'
<1>1. UNCHANGED serverVars
  BY DEF ClientNext, Connect, Ping, SetPeerID, FixPeerId, ClientDisconnects, ClientTimesOut,
         ClientResends, ClientReceives, ClientGetsAck, ClientGetsPeerId
<1>2. PeersTypeOK' /\ ThreadsTypeOK'
  BY <1>1, UnchangedType
<1>3. CASE Connect
  <2>1. Reliable(PEER_ID_INEXISTENT, 0) \in Datagram
    BY Bounds, Made DEF PEER_ID_INEXISTENT
  <2>2. ClientTypeOK'
    BY <1>3, <2>1, Bounds DEF Connect, TypeOK, ClientTypeOK
  <2> QED BY <1>2, <1>3, <2>1, <2>2, NetType DEF Connect, TypeOK
<1>4. CASE Ping
  <2>1. PICK n \in Seqnums : /\ c_next' = n + 1
                             /\ c_sent' = c_sent \cup {Reliable(m_peer_id, n)}
                             /\ up' = up \cup {Reliable(m_peer_id, n)}
    BY <1>4 DEF Ping
  <2>2. Reliable(m_peer_id, n) \in Datagram
    BY Made DEF TypeOK, ClientTypeOK
  <2>3. ClientTypeOK'
    BY <1>4, <2>1, <2>2, Bounds DEF Ping, TypeOK, ClientTypeOK
  <2> QED BY <1>2, <1>4, <2>1, <2>2, <2>3, NetType DEF Ping, TypeOK
<1>5. CASE SetPeerID
  <2>1. ClientTypeOK'
    BY <1>5 DEF SetPeerID, TypeOK, ClientTypeOK
  <2> QED BY <1>2, <1>5, <2>1, UnchangedType DEF SetPeerID, TypeOK
<1>6. CASE FixPeerId
  <2>1. c_setting.id \in PeerIds
    BY DEF TypeOK, ClientTypeOK
  <2>2. \A d \in c_sent : Reliable(c_setting.id, d.seqnum) \in Datagram
    BY <2>1, Made DEF TypeOK, ClientTypeOK, Datagram
  <2>3. ClientTypeOK'
    BY <1>6, <2>2, Bounds
    DEF FixPeerId, fix_peer_id, TypeOK, ClientTypeOK, NotSetting, PEER_ID_INEXISTENT
  <2> QED BY <1>2, <1>6, <2>3, UnchangedType DEF FixPeerId, TypeOK
<1>7. CASE ClientDisconnects
  <2>1. Disco(m_peer_id) \in Datagram
    BY Bounds, Made DEF TypeOK, ClientTypeOK
  <2> QED BY <1>2, <1>7, <2>1, LeaveType, NetType DEF ClientDisconnects, TypeOK
<1>8. CASE ClientTimesOut
  <2>1. NetTypeOK'
    BY <1>8, LeaveType DEF ClientTimesOut, TypeOK, NetTypeOK
  <2> QED BY <1>2, <1>8, <2>1, LeaveType DEF ClientTimesOut, TypeOK
<1>9. CASE \E d \in c_sent : ClientResends(d)
  <2>1. PICK d \in c_sent : ClientResends(d)
    BY <1>9
  <2>2. d \in Datagram
    BY DEF TypeOK, ClientTypeOK
  <2> QED BY <1>2, <2>1, <2>2, UnchangedType, NetType DEF ClientResends, TypeOK
<1>10. CASE \E d \in down : ClientReceives(d)
  BY <1>2, <1>10, ClientReceivesType DEF TypeOK
<1> QED BY <1>3, <1>4, <1>5, <1>6, <1>7, <1>8, <1>9, <1>10 DEF ClientNext

\* A peer that is deleted.
LEMMA DeletePeerType ==
  ASSUME TypeOK, NEW p \in Peers, DeletePeer(p), UNCHANGED created
  PROVE  PeersTypeOK'
<1>1. CASE ~IsThere(p)
  BY <1>1, UnchangedType DEF DeletePeer
<1>2. CASE IsThere(p)
  <2>1. p \in 1 .. created
    BY <1>2 DEF IsThere, TypeOK, PeersTypeOK
  <2>2. Append(events[p], "removed") \in Seq({"added", "data", "removed"})
    BY DEF TypeOK, PeersTypeOK
  <2>3. events' \in [Peers -> Seq({"added", "data", "removed"})]
    BY <1>2, <2>2 DEF DeletePeer, TypeOK, PeersTypeOK
  <2>4. next_in' \in [Peers -> 0 .. MaxPackets]
    <3>1. next_in' = [next_in EXCEPT ![p] = 0] /\ 0 \in 0 .. MaxPackets
      BY <1>2, Bounds DEF DeletePeer
    <3> QED BY <3>1 DEF TypeOK, PeersTypeOK
  <2>5. held_back' \in [Peers -> SUBSET Seqnums]
    BY <1>2 DEF DeletePeer, TypeOK, PeersTypeOK
  <2> QED BY <1>2, <2>1, <2>3, <2>4, <2>5 DEF DeletePeer, TypeOK, PeersTypeOK
<1> QED BY <1>1, <1>2

\* What the receive thread takes from the network.
LEMMA ServerReceivesType ==
  ASSUME TypeOK, NEW d \in up, ServerReceives(d)
  PROVE  TypeOK'
<1>1. d \in Datagram /\ d.id \in PeerIds /\ d.seqnum \in Seqnums
  BY DEF TypeOK, NetTypeOK, Datagram
<1>2. Receiving(d)
  BY DEF ServerReceives, ReceiveKnown, ReceiveByAddress, CreatePeer, Ignore
<1>3. ClientTypeOK' /\ NetTypeOK'
  BY <1>1, <1>2, UnchangedType, NetType DEF Receiving
<1>4. \A p \in PeerIds : Hold(d, p) =>
        recv' \in [at : {"idle", "held", "data", "done"}, packet : Datagram, peer : PeerIds]
  BY <1>1 DEF Hold
<1>5. \A p \in PeerIds : \A type \in {"CREATE_PEER", "RESEND_ONE"} :
        m_command_queue' = Append(m_command_queue, Cmd(type, p, 0))
          => m_command_queue' \in Seq(Command)
  BY Made, Bounds DEF TypeOK, ThreadsTypeOK
<1>6. CASE ReceiveKnown(d)
  <2>1. recv' \in [at : {"idle", "held", "data", "done"}, packet : Datagram, peer : PeerIds]
    BY <1>1, <1>4, <1>6 DEF ReceiveKnown
  <2>2. ThreadsTypeOK'
    BY <1>2, <1>6, <2>1 DEF ReceiveKnown, Receiving, TypeOK, ThreadsTypeOK
  <2>3. PeersTypeOK'
    BY <1>2, <1>6 DEF ReceiveKnown, Receiving, TypeOK, PeersTypeOK
  <2> QED BY <1>3, <2>2, <2>3 DEF TypeOK
<1>7. CASE ReceiveByAddress(d)
  <2>1. PICK p \in m_peers :
          /\ m_command_queue' = Append(m_command_queue, Cmd("RESEND_ONE", p, 0))
          /\ Hold(d, p) \/ UNCHANGED recv
          /\ half_open' \subseteq half_open
    BY <1>7 DEF ReceiveByAddress, lookupPeer, Reminded
  <2>2. p \in PeerIds
    BY Bounds DEF TypeOK, PeersTypeOK
  <2>3. m_command_queue' \in Seq(Command)
    BY <1>5, <2>1, <2>2
  <2>4. recv' \in [at : {"idle", "held", "data", "done"}, packet : Datagram, peer : PeerIds]
    BY <1>4, <2>1, <2>2 DEF TypeOK, ThreadsTypeOK
  <2>5. ThreadsTypeOK'
    BY <1>2, <2>3, <2>4 DEF Receiving, TypeOK, ThreadsTypeOK
  <2>6. PeersTypeOK'
    BY <1>2, <1>7, <2>1 DEF ReceiveByAddress, Receiving, TypeOK, PeersTypeOK
  <2> QED BY <1>3, <2>5, <2>6 DEF TypeOK
<1>8. CASE CreatePeer(d)
  <2> DEFINE p == created + 1
  <2>1. p \in Peers /\ p \in PeerIds /\ 1 .. created \subseteq 1 .. p
    BY <1>8, Bounds DEF CreatePeer, TypeOK, PeersTypeOK
  <2>2. /\ created' = p /\ m_peers' = m_peers \cup {p} /\ half_open' = half_open \cup {p}
        /\ m_command_queue' = Append(m_command_queue, Cmd("CREATE_PEER", p, 0))
        /\ events' = [events EXCEPT ![p] = Append(@, "added")]
        /\ Hold(d, p)
    BY <1>8 DEF CreatePeer
  <2> HIDE DEF p
  <2>3. m_command_queue' \in Seq(Command)
    BY <1>5, <2>1, <2>2
  <2>4. recv' \in [at : {"idle", "held", "data", "done"}, packet : Datagram, peer : PeerIds]
    BY <1>4, <2>1, <2>2
  <2>5. ThreadsTypeOK'
    BY <1>2, <2>3, <2>4 DEF Receiving, TypeOK, ThreadsTypeOK
  <2>6. Append(events[p], "added") \in Seq({"added", "data", "removed"})
    BY <2>1 DEF TypeOK, PeersTypeOK
  <2>7. events' \in [Peers -> Seq({"added", "data", "removed"})]
    BY <2>1, <2>2, <2>6 DEF TypeOK, PeersTypeOK
  <2>8. p \in 1 .. p
    BY <2>1, Bounds
  <2>9. m_peers' \subseteq 1 .. created' /\ m_pending_deletion' \subseteq 1 .. created'
    BY <1>2, <2>1, <2>2, <2>8 DEF Receiving, TypeOK, PeersTypeOK
  <2>10. PeersTypeOK'
    BY <1>2, <2>1, <2>2, <2>7, <2>9 DEF Receiving, TypeOK, PeersTypeOK
  <2> QED BY <1>3, <2>5, <2>10 DEF TypeOK
<1>9. CASE Ignore(d)
  <2>1. ThreadsTypeOK'
    BY <1>2, <1>9 DEF Ignore, Receiving, TypeOK, ThreadsTypeOK
  <2>2. PeersTypeOK'
    BY <1>2, <1>9 DEF Ignore, Receiving, TypeOK, PeersTypeOK
  <2> QED BY <1>3, <2>1, <2>2 DEF TypeOK
<1> QED BY <1>6, <1>7, <1>8, <1>9 DEF ServerReceives

\* What it does with what it has taken.
LEMMA ReceiveType ==
  ASSUME TypeOK, ReceiveNext
  PROVE  TypeOK'
<1> DEFINE recvType == [at : {"idle", "held", "data", "done"}, packet : Datagram, peer : PeerIds]
<1>1. Idle \in recvType
  BY Made, Bounds DEF Idle
<1>2. \A p \in PeerIds : \A at \in {"data", "done"} : HoldAt(at, p) => recv' \in recvType
  BY Made, Bounds DEF HoldAt
<1>3. recv.peer \in PeerIds /\ recv.packet.seqnum \in Seqnums
  BY DEF TypeOK, ThreadsTypeOK, Datagram
<1>4. ASSUME ProcessPacket PROVE TypeOK'
  <2> DEFINE p == recv.peer
  <2>0. m_peers \subseteq Peers
    BY Bounds DEF TypeOK, PeersTypeOK
  <2>1. p \in m_peers /\ p \in Peers
    BY <1>4, <2>0 DEF ProcessPacket
  <2>2. ClientTypeOK' /\ NetTypeOK'
    BY <1>4, UnchangedType DEF ProcessPacket
  <2>3. CASE ProcessReliable(p, recv.packet.seqnum)
    <3> DEFINE n == recv.packet.seqnum
               next == NextExpected(n, held_back[p])
    <3>1. Cmd("ACK", p, n) \in Command
      BY <1>3, Made
    <3>2. m_command_queue' = Append(m_command_queue, Cmd("ACK", p, n))
      BY <2>3 DEF ProcessReliable
    <3>3. m_command_queue' \in Seq(Command)
      BY <3>1, <3>2 DEF TypeOK, ThreadsTypeOK
    <3>4. recv' \in recvType
      BY <1>1, <1>2, <1>3, <2>3 DEF ProcessReliable
    <3>5. ThreadsTypeOK'
      BY <1>4, <3>3, <3>4 DEF ProcessPacket, TypeOK, ThreadsTypeOK
    <3>6. next \in n + 1 .. MaxPackets /\ n + 1 .. MaxPackets \subseteq 0 .. MaxPackets
      BY <1>3, <2>1, Bounds, NextIsMissing DEF TypeOK, PeersTypeOK
    <3>7. next_in' \in [Peers -> 0 .. MaxPackets]
      BY <2>3, <3>6 DEF ProcessReliable, TypeOK, PeersTypeOK
    <3>8. held_back' \in [Peers -> SUBSET Seqnums]
      <4>1. PICK S \in SUBSET Seqnums :
              held_back' = held_back \/ held_back' = [held_back EXCEPT ![p] = S]
        <5>1. CASE n = next_in[p]
          <6>1. held_back' = [held_back EXCEPT ![p] = {k \in held_back[p] : k > next}]
            BY <2>3, <5>1 DEF ProcessReliable
          <6>2. {k \in held_back[p] : k > next} \in SUBSET Seqnums
            BY <2>1 DEF TypeOK, PeersTypeOK
          <6> QED BY <6>1, <6>2
        <5>2. CASE n # next_in[p]
          <6>1. held_back' = held_back \/ held_back' = [held_back EXCEPT ![p] = Kept(held_back[p], n)]
            BY <2>3, <5>2 DEF ProcessReliable
          <6>2. Kept(held_back[p], n) \in SUBSET Seqnums
            BY <1>3, <2>1 DEF Kept, TypeOK, PeersTypeOK
          <6> QED BY <6>1, <6>2
        <5> QED BY <5>1, <5>2
      <4> QED BY <4>1 DEF TypeOK, PeersTypeOK
    <3>9. freed' \subseteq m_pending_deletion'
      <4>1. freed' = freed \/ DecUseCount(p, HeldBySend(p))
        BY <2>3 DEF ProcessReliable
      <4>2. UNCHANGED m_pending_deletion
        BY <2>3 DEF ProcessReliable
      <4> QED BY <4>1, <4>2 DEF DecUseCount, TypeOK, PeersTypeOK
    <3>10. PeersTypeOK'
      BY <1>4, <2>3, <3>7, <3>8, <3>9 DEF ProcessPacket, ProcessReliable, TypeOK, PeersTypeOK
    <3> QED BY <2>2, <3>5, <3>10 DEF TypeOK
  <2>4. CASE ProcessAck(p)
    <3>1. ThreadsTypeOK'
      BY <1>1, <1>4, <2>4 DEF ProcessPacket, ProcessAck, TypeOK, ThreadsTypeOK
    <3>2. PeersTypeOK'
      BY <1>4, <2>4 DEF ProcessPacket, ProcessAck, DecUseCount, TypeOK, PeersTypeOK
    <3> QED BY <2>2, <3>1, <3>2 DEF TypeOK
  <2>5. CASE ProcessDisco(p)
    <3>1. ThreadsTypeOK'
      BY <1>2, <1>3, <1>4, <2>5 DEF ProcessPacket, ProcessDisco, TypeOK, ThreadsTypeOK
    <3>2. PeersTypeOK'
      BY <1>4, <2>1, <2>5, DeletePeerType DEF ProcessPacket, ProcessDisco
    <3> QED BY <2>2, <3>1, <3>2 DEF TypeOK
  <2> QED BY <1>4, <2>3, <2>4, <2>5 DEF ProcessPacket
<1>5. ASSUME PutDataReceived PROVE TypeOK'
  <2>1. ClientTypeOK' /\ NetTypeOK'
    BY <1>5, UnchangedType DEF PutDataReceived, letGoUnchanged
  <2>2. ThreadsTypeOK'
    BY <1>1, <1>5 DEF PutDataReceived, letGoUnchanged, TypeOK, ThreadsTypeOK
  <2>3. \A p \in Peers : Append(events[p], "data") \in Seq({"added", "data", "removed"})
    BY DEF TypeOK, PeersTypeOK
  <2>4. events' \in [Peers -> Seq({"added", "data", "removed"})]
    BY <1>5, <2>3 DEF PutDataReceived, TypeOK, PeersTypeOK
  <2>5. PeersTypeOK'
    BY <1>5, <2>4 DEF PutDataReceived, letGoUnchanged, DecUseCount, TypeOK, PeersTypeOK
  <2> QED BY <2>1, <2>2, <2>5 DEF TypeOK
<1>6. ASSUME LetGo PROVE TypeOK'
  <2>1. ClientTypeOK' /\ NetTypeOK'
    BY <1>6, UnchangedType DEF LetGo, letGoUnchanged
  <2>2. ThreadsTypeOK'
    BY <1>1, <1>6 DEF LetGo, letGoUnchanged, TypeOK, ThreadsTypeOK
  <2>3. PeersTypeOK'
    BY <1>6 DEF LetGo, letGoUnchanged, DecUseCount, TypeOK, PeersTypeOK
  <2> QED BY <2>1, <2>2, <2>3 DEF TypeOK
<1> QED BY <1>4, <1>5, <1>6, ServerReceivesType DEF ReceiveNext

\* The send thread's actions.
LEMMA SendType ==
  ASSUME TypeOK, SendNext
  PROVE  TypeOK'
<1>1. Peers \subseteq PeerIds /\ 0 \in PeerIds
  BY Bounds
<1>2. ClientTypeOK'
  <2>1. UNCHANGED clientVars
    BY DEF SendNext, ServerCommand, BeginTimeouts, EndTimeouts, TimesOut, ServerResends,
           RemoveTimedOut, RemoveDisconnected, sendUnchanged
  <2> QED BY <2>1, UnchangedType
<1>3. \A p \in PeerIds : SetPeerIdPacket(p) \in Datagram
  BY Bounds, Made
<1>4. \A ds \in SUBSET Datagram : Sends(ds) /\ UNCHANGED <<up, faults>> => NetTypeOK'
  BY DEF Sends, TypeOK, NetTypeOK
<1>5. CASE ServerCommand
  <2> DEFINE c == Head(m_command_queue)
             to == {c.peer_id} \cap m_peers
  <2>1. c \in Command /\ Tail(m_command_queue) \in Seq(Command)
    BY <1>5 DEF ServerCommand, TypeOK, ThreadsTypeOK
  <2>2. c.seqnum \in Seqnums /\ c.peer_id \in PeerIds
    BY <2>1 DEF Command
  <2>3. Ack(1, c.seqnum) \in Datagram /\ Disco(1) \in Datagram
    BY <2>2, Bounds, Made
  <2>4. SetPeerIdPacket(c.peer_id) \in Datagram
    BY <2>2, <1>3
  <2>5. Answer(c) \subseteq Datagram
    BY <2>3, <2>4 DEF Answer
  <2>6. NetTypeOK'
    BY <1>4, <1>5, <2>5 DEF ServerCommand, sendUnchanged
  <2>7. ThreadsTypeOK'
    BY <1>5, <2>1 DEF ServerCommand, sendUnchanged, TypeOK, ThreadsTypeOK
  <2>8. m_peers \subseteq Peers
    BY Bounds DEF TypeOK, PeersTypeOK
  <2>9. PeersTypeOK'
    BY <1>5, <2>8 DEF ServerCommand, sendUnchanged, TypeOK, PeersTypeOK
  <2> QED BY <1>2, <2>6, <2>7, <2>9 DEF TypeOK
<1>6. ASSUME NEW p \in Peers, BeginTimeouts(p) PROVE TypeOK'
  <2>1. PeersTypeOK' /\ NetTypeOK'
    BY <1>6, UnchangedType DEF BeginTimeouts, sendUnchanged, netVars
  <2>2. ThreadsTypeOK'
    BY <1>1, <1>6 DEF BeginTimeouts, sendUnchanged, TypeOK, ThreadsTypeOK
  <2> QED BY <1>2, <2>1, <2>2 DEF TypeOK
<1>7. ASSUME NEW p \in Peers, EndTimeouts(p), timeouted_peers' \subseteq Peers
      PROVE  PeersTypeOK' /\ ThreadsTypeOK'
  <2>1. ThreadsTypeOK'
    BY <1>1, <1>7 DEF EndTimeouts, sendUnchanged, TypeOK, ThreadsTypeOK
  <2>2. PeersTypeOK'
    BY <1>7 DEF EndTimeouts, sendUnchanged, channelVars, DecUseCount, TypeOK, PeersTypeOK
  <2> QED BY <2>1, <2>2
<1>8. ASSUME NEW p \in Peers, TimesOut(p) PROVE TypeOK'
  <2>1. timeouted_peers' \subseteq Peers
    BY <1>8 DEF TimesOut, TypeOK, ThreadsTypeOK
  <2>2. NetTypeOK'
    BY <1>8, UnchangedType DEF TimesOut, EndTimeouts, sendUnchanged, netVars
  <2> QED BY <1>2, <1>7, <1>8, <2>1, <2>2 DEF TimesOut, TypeOK
<1>9. ASSUME NEW p \in Peers, ServerResends(p) PROVE TypeOK'
  <2>1. timeouted_peers' \subseteq Peers
    BY <1>9 DEF ServerResends, TypeOK, ThreadsTypeOK
  <2>2. NetTypeOK'
    BY <1>1, <1>3, <1>4, <1>9 DEF ServerResends, EndTimeouts, sendUnchanged
  <2> QED BY <1>2, <1>7, <1>9, <2>1, <2>2 DEF ServerResends, TypeOK
<1>10. ASSUME NEW p \in Peers, RemoveTimedOut(p) \/ RemoveDisconnected(p) PROVE TypeOK'
  <2>1. PeersTypeOK'
    BY <1>10, DeletePeerType DEF RemoveTimedOut, RemoveDisconnected, sendUnchanged
  <2>2. NetTypeOK'
    BY <1>10, UnchangedType DEF RemoveTimedOut, RemoveDisconnected, sendUnchanged, netVars
  <2>3. ThreadsTypeOK'
    BY <1>10 DEF RemoveTimedOut, RemoveDisconnected, sendUnchanged, TypeOK, ThreadsTypeOK
  <2> QED BY <1>2, <2>1, <2>2, <2>3 DEF TypeOK
<1> QED BY <1>5, <1>6, <1>8, <1>9, <1>10 DEF SendNext

LEMMA TypeStep == TypeOK /\ [Next]_vars => TypeOK'
<1> SUFFICES ASSUME TypeOK, [Next]_vars PROVE TypeOK'
  OBVIOUS
<1>1. CASE ClientNext
  BY <1>1, ClientType
<1>2. CASE ReceiveNext
  BY <1>2, ReceiveType
<1>3. CASE SendNext
  BY <1>3, SendType
<1>4. CASE Lose
  <2>1. ClientTypeOK' /\ PeersTypeOK' /\ ThreadsTypeOK'
    BY <1>4, UnchangedType DEF Lose
  <2>2. NetTypeOK'
    BY <1>4, Bounds DEF Lose, TypeOK, NetTypeOK
  <2> QED BY <2>1, <2>2 DEF TypeOK
<1>5. CASE \E p \in Peers : DisconnectPeer(p)
  <2>1. PICK p \in Peers : DisconnectPeer(p)
    BY <1>5
  <2>2. Cmd("DISCONNECT_PEER", p, 0) \in Command
    BY Bounds, Made
  <2>3. m_command_queue' = Append(m_command_queue, Cmd("DISCONNECT_PEER", p, 0))
    BY <2>1 DEF DisconnectPeer
  <2>4. m_command_queue' \in Seq(Command)
    BY <2>2, <2>3 DEF TypeOK, ThreadsTypeOK
  <2>5. ThreadsTypeOK'
    BY <2>1, <2>4 DEF DisconnectPeer, TypeOK, ThreadsTypeOK
  <2>6. ClientTypeOK' /\ PeersTypeOK' /\ NetTypeOK'
    BY <2>1, UnchangedType DEF DisconnectPeer
  <2> QED BY <2>5, <2>6 DEF TypeOK
<1>6. CASE UNCHANGED vars
  BY <1>6, UnchangedType DEF vars, serverVars, TypeOK
<1> QED BY <1>1, <1>2, <1>3, <1>4, <1>5, <1>6 DEF Next

\* The types of the connection's state.
THEOREM ConnectionTypes == Spec => []TypeOK
<1> QED BY InitType, TypeStep, PTL DEF Spec

-----------------------------------------------------------------------------
(* One peer for the client's address: a peer is only made when there is none. *)

\* The client's steps leave the server alone.
LEMMA ClientLeavesServer == ClientNext => UNCHANGED serverVars
BY DEF ClientNext, Connect, Ping, SetPeerID, FixPeerId, ClientDisconnects, ClientTimesOut,
       ClientResends, ClientReceives, ClientGetsAck, ClientGetsPeerId

\* Peers go, or one comes when there is none.
LEMMA PeersStep ==
  ASSUME [Next]_vars
  PROVE  m_peers' \subseteq m_peers \/ (m_peers = {} /\ m_peers' = {created + 1})
<1>1. CASE ClientNext
  BY <1>1, ClientLeavesServer DEF serverVars, peerVars
<1>2. CASE ReceiveNext
  BY <1>2 DEF ReceiveNext, ServerReceives, ReceiveKnown, ReceiveByAddress, CreatePeer, Ignore,
     lookupPeer, ProcessPacket, ProcessReliable, ProcessAck, ProcessDisco, DeletePeer, peerVars,
     PutDataReceived, LetGo, letGoUnchanged
<1>3. CASE SendNext
  BY <1>3 DEF SendNext, ServerCommand, BeginTimeouts, EndTimeouts, TimesOut, ServerResends,
     RemoveTimedOut, RemoveDisconnected, DeletePeer, sendUnchanged, peerVars, channelVars
<1>4. CASE Lose \/ (\E p \in Peers : DisconnectPeer(p)) \/ UNCHANGED vars
  BY <1>4 DEF Lose, DisconnectPeer, vars, serverVars, peerVars
<1> QED BY <1>1, <1>2, <1>3, <1>4 DEF Next

\* However often the client is given up and heard of again, the server has one
\* peer for it (lookupPeer and createPeer, both under m_peers_mutex).
THEOREM OneForTheAddress == Spec => []OnePeerPerAddress
<1>1. Init => OnePeerPerAddress
  BY DEF Init, OnePeerPerAddress
<1>2. OnePeerPerAddress /\ [Next]_vars => OnePeerPerAddress'
  BY PeersStep DEF OnePeerPerAddress
<1> QED BY <1>1, <1>2, PTL DEF Spec

-----------------------------------------------------------------------------
(* Peers are freed by the last thread that holds them.                     *)

LEMMA LifecycleInit == Init => Lifecycle
BY Bounds DEF Init, Lifecycle, NoDanglingPeer, HeldByReceive, HeldBySend, Idle

LEMMA LifecycleFrame ==
  ASSUME Lifecycle, UNCHANGED <<m_peers, m_pending_deletion, freed, created, recv, send_peer>>
  PROVE  Lifecycle'
BY DEF Lifecycle, NoDanglingPeer, HeldByReceive, HeldBySend

\* The receive thread takes hold of a peer that is there, or of none.
LEMMA LifecycleHold ==
  ASSUME TypeOK, Lifecycle, recv.at = "idle",
         UNCHANGED <<m_peers, m_pending_deletion, freed, created, send_peer>>,
         recv' = recv \/ (recv'.at = "held" /\ recv'.peer \in m_peers)
  PROVE  Lifecycle'
<1>1. m_peers \subseteq 1 .. created /\ freed \subseteq m_pending_deletion
  BY DEF TypeOK, PeersTypeOK
<1> QED BY <1>1 DEF Lifecycle, NoDanglingPeer, HeldByReceive, HeldBySend

\* It lets go of its peer.
LEMMA LifecycleLetGo ==
  ASSUME TypeOK, Lifecycle, recv.at # "idle", recv'.at = "idle",
         UNCHANGED <<m_peers, m_pending_deletion, created, send_peer>>,
         DecUseCount(recv.peer, HeldBySend(recv.peer))
  PROVE  Lifecycle'
<1>1. created \in Nat /\ created <= MaxPeers /\ freed \subseteq m_pending_deletion
  BY Bounds DEF TypeOK, PeersTypeOK
<1>2. 1 .. created \subseteq Peers
  BY <1>1, Bounds
<1> QED BY <1>1, <1>2 DEF Lifecycle, NoDanglingPeer, HeldByReceive, HeldBySend, DecUseCount

\* A peer is deleted by one thread, and is perhaps held by the other.
LEMMA LifecycleDelete ==
  ASSUME TypeOK, Lifecycle, NEW p \in Peers, DeletePeer(p), UNCHANGED <<created, send_peer>>,
         recv' = recv \/ (recv.at # "idle" /\ recv'.at # "idle" /\ recv'.peer = recv.peer)
  PROVE  Lifecycle'
<1>1. CASE ~IsThere(p)
  <2>1. UNCHANGED <<m_peers, m_pending_deletion, freed, created, send_peer>>
    BY <1>1 DEF DeletePeer, peerVars
  <2> QED BY <2>1 DEF Lifecycle, NoDanglingPeer, HeldByReceive, HeldBySend
<1>2. CASE IsThere(p)
  <2>1. p \in 1 .. created /\ freed \subseteq m_pending_deletion
    BY <1>2 DEF IsThere, TypeOK, PeersTypeOK
  <2>2. /\ m_peers' = m_peers \ {p} /\ m_pending_deletion' = m_pending_deletion \cup {p}
        /\ freed' = IF HeldByReceive(p) \/ HeldBySend(p) THEN freed ELSE freed \cup {p}
    BY <1>2 DEF DeletePeer
  <2> QED BY <2>1, <2>2 DEF Lifecycle, NoDanglingPeer, HeldByReceive, HeldBySend
<1> QED BY <1>1, <1>2

LEMMA LifecycleStep == TypeOK /\ Lifecycle /\ [Next]_vars => Lifecycle'
<1> SUFFICES ASSUME TypeOK, Lifecycle, [Next]_vars PROVE Lifecycle'
  OBVIOUS
<1>0. m_peers \subseteq Peers
  BY Bounds DEF TypeOK, PeersTypeOK
<1>1. CASE ClientNext
  BY <1>1, ClientLeavesServer, LifecycleFrame DEF serverVars, peerVars
<1>2. ASSUME NEW d \in up, ServerReceives(d) PROVE Lifecycle'
  <2>1. recv.at = "idle" /\ UNCHANGED <<m_pending_deletion, freed, send_peer>>
    BY <1>2 DEF ServerReceives, ReceiveKnown, ReceiveByAddress, CreatePeer, Ignore, Receiving
  <2>2. CASE ReceiveKnown(d) \/ ReceiveByAddress(d) \/ Ignore(d)
    <3>1. UNCHANGED <<m_peers, created>>
      BY <2>2 DEF ReceiveKnown, ReceiveByAddress, Ignore
    <3>2. recv' = recv \/ (recv'.at = "held" /\ recv'.peer \in m_peers)
      BY <2>2 DEF ReceiveKnown, ReceiveByAddress, Ignore, Hold, lookupPeer
    <3> QED BY <2>1, <3>1, <3>2, LifecycleHold
  <2>3. CASE CreatePeer(d)
    <3> DEFINE p == created + 1
    <3>1. created' = p /\ m_peers' = m_peers \cup {p} /\ Hold(d, p)
      BY <2>3 DEF CreatePeer
    <3>2. 1 .. p = (1 .. created) \cup {p} /\ p \notin 1 .. created /\ p \in Nat
      BY Bounds DEF TypeOK, PeersTypeOK
    <3>3. m_pending_deletion \subseteq 1 .. created /\ freed \subseteq m_pending_deletion
      BY DEF TypeOK, PeersTypeOK
    <3>4. recv'.at = "held" /\ recv'.peer = p
      BY <3>1 DEF Hold
    <3> HIDE DEF p
    <3> QED BY <2>1, <3>1, <3>2, <3>3, <3>4
            DEF Lifecycle, NoDanglingPeer, HeldByReceive, HeldBySend
  <2> QED BY <1>2, <2>2, <2>3 DEF ServerReceives
<1>3. CASE ProcessPacket
  <2> DEFINE p == recv.peer
  <2>1. recv.at = "held" /\ UNCHANGED <<created, send_peer>> /\ p \in Peers
    BY <1>0, <1>3 DEF ProcessPacket
  <2>2. CASE ProcessReliable(p, recv.packet.seqnum)
    <3>1. UNCHANGED <<m_peers, m_pending_deletion>>
      BY <2>2 DEF ProcessReliable
    <3>2. CASE HoldAt("data", p) /\ UNCHANGED freed
      <4>1. recv'.at = "data" /\ recv'.peer = p
        BY <3>2 DEF HoldAt
      <4> QED BY <2>1, <3>1, <3>2, <4>1
              DEF Lifecycle, NoDanglingPeer, HeldByReceive, HeldBySend
    <3>3. CASE recv' = Idle /\ DecUseCount(p, HeldBySend(p))
      BY <2>1, <3>1, <3>3, LifecycleLetGo DEF Idle
    <3> QED BY <2>2, <3>2, <3>3 DEF ProcessReliable
  <2>3. CASE ProcessAck(p)
    BY <2>1, <2>3, LifecycleLetGo DEF ProcessAck, Idle
  <2>4. CASE ProcessDisco(p)
    <3>1. recv'.at # "idle" /\ recv'.peer = p
      BY <2>4 DEF ProcessDisco, HoldAt
    <3> QED BY <2>1, <2>4, <3>1, LifecycleDelete DEF ProcessDisco
  <2> QED BY <1>3, <2>2, <2>3, <2>4 DEF ProcessPacket
<1>4. CASE PutDataReceived \/ LetGo
  BY <1>4, LifecycleLetGo DEF PutDataReceived, LetGo, letGoUnchanged, Idle
<1>5. CASE ServerCommand
  BY <1>5, LifecycleFrame DEF ServerCommand, sendUnchanged
<1>6. ASSUME NEW p \in Peers, BeginTimeouts(p) PROVE Lifecycle'
  <2>1. freed \subseteq m_pending_deletion /\ p \in m_peers /\ send_peer = 0 /\ 0 \notin Peers
    BY <1>6, Bounds DEF BeginTimeouts, RunsTimeouts, TypeOK, PeersTypeOK
  <2>2. send_peer' = p /\ UNCHANGED <<m_peers, m_pending_deletion, freed, created, recv>>
    BY <1>6 DEF BeginTimeouts, sendUnchanged, peerVars
  <2> QED BY <2>1, <2>2 DEF Lifecycle, NoDanglingPeer, HeldByReceive, HeldBySend
<1>7. ASSUME NEW p \in Peers, EndTimeouts(p) PROVE Lifecycle'
  <2>1. freed \subseteq m_pending_deletion /\ 0 \notin Peers
    BY Bounds DEF TypeOK, PeersTypeOK
  <2>2. /\ send_peer = p /\ send_peer' = 0 /\ DecUseCount(p, HeldByReceive(p))
        /\ UNCHANGED <<m_peers, m_pending_deletion, created, recv>>
    BY <1>7 DEF EndTimeouts, sendUnchanged, channelVars
  <2> QED BY <2>1, <2>2 DEF Lifecycle, NoDanglingPeer, HeldByReceive, HeldBySend, DecUseCount
<1>8. ASSUME NEW p \in Peers, RemoveTimedOut(p) \/ RemoveDisconnected(p) PROVE Lifecycle'
  BY <1>8, LifecycleDelete DEF RemoveTimedOut, RemoveDisconnected, sendUnchanged
<1>9. CASE Lose \/ (\E p \in Peers : DisconnectPeer(p)) \/ UNCHANGED vars
  BY <1>9, LifecycleFrame DEF Lose, DisconnectPeer, vars, serverVars, peerVars
<1> QED BY <1>1, <1>2, <1>3, <1>4, <1>5, <1>6, <1>7, <1>8, <1>9
        DEF Next, ReceiveNext, SendNext, TimesOut, ServerResends

\* A thread never holds a freed peer, and the last to let go of a deleted one
\* frees it (PeerHelper, UDPPeer::DecUseCount and Drop).
THEOREM PeersAreFreedInTime == Spec => []NoDanglingPeer
<1>1. Init => TypeOK /\ Lifecycle
  BY InitType, LifecycleInit
<1>2. TypeOK /\ Lifecycle /\ [Next]_vars => (TypeOK /\ Lifecycle)'
  BY TypeStep, LifecycleStep
<1>3. Lifecycle => NoDanglingPeer
  BY DEF Lifecycle
<1> QED BY <1>1, <1>2, <1>3, PTL DEF Spec

-----------------------------------------------------------------------------
(* Who is fully open has told the server the id it knows.                  *)

LEMMA IdsInit == Init => IdsAreTold
BY DEF Init, IdsAreTold, FullyOpenIsKnown, NotSetting

\* A step of the server that learns nothing from the client.
LEMMA IdsFrame ==
  ASSUME IdsAreTold, UNCHANGED clientVars, up' \subseteq up,
         m_peers' \ half_open' \subseteq m_peers \ half_open,
         c_state = "new" => m_peers' = {}
  PROVE  IdsAreTold'
BY DEF IdsAreTold, FullyOpenIsKnown, clientVars

LEMMA IdsClient == TypeOK /\ IdsAreTold /\ ClientNext => IdsAreTold'
<1> SUFFICES ASSUME TypeOK, IdsAreTold, ClientNext PROVE IdsAreTold'
  OBVIOUS
<1>1. UNCHANGED <<m_peers, half_open>>
  BY ClientLeavesServer DEF serverVars, peerVars
<1>2. CASE Leave
  BY <1>2 DEF Leave, IdsAreTold, FullyOpenIsKnown, NotSetting
<1>3. CASE Connect
  BY <1>1, <1>3 DEF Connect, IdsAreTold, FullyOpenIsKnown, Reliable, NotSetting
<1>4. CASE Ping
  BY <1>1, <1>4 DEF Ping, IdsAreTold, FullyOpenIsKnown, Reliable
<1>5. CASE SetPeerID
  <2>1. c_setting'.at = "fix" /\ c_setting'.id = c_setting.id
    BY <1>5 DEF SetPeerID, TypeOK, ClientTypeOK
  <2>2. c_heard /\ m_peer_id = PEER_ID_INEXISTENT /\ c_state = "running"
    BY <1>5 DEF SetPeerID, IdsAreTold, NotSetting
  <2>3. /\ UNCHANGED <<c_state, c_sent, c_heard, up>>
        /\ m_peer_id' = c_setting.id
    BY <1>5 DEF SetPeerID, netVars
  <2>4. FullyOpenIsKnown'
    <3>1. PEER_ID_INEXISTENT \notin m_peers
      BY Bounds DEF TypeOK, PeersTypeOK, PEER_ID_INEXISTENT
    <3> QED BY <1>1, <2>1, <2>2, <2>3, <3>1 DEF IdsAreTold, FullyOpenIsKnown
  <2>5. \A d \in up' \cup c_sent' : d.id \in {PEER_ID_INEXISTENT, m_peer_id', c_setting'.id}
    BY <2>1, <2>2, <2>3 DEF IdsAreTold
  <2> QED BY <2>1, <2>2, <2>3, <2>4, <2>5 DEF IdsAreTold
<1>6. CASE FixPeerId
  BY <1>1, <1>6 DEF FixPeerId, fix_peer_id, IdsAreTold, FullyOpenIsKnown, netVars, Reliable,
     NotSetting
<1>7. ASSUME NEW d \in c_sent, ClientResends(d) PROVE IdsAreTold'
  BY <1>1, <1>7 DEF ClientResends, clientVars, IdsAreTold, FullyOpenIsKnown
<1>8. ASSUME NEW d \in down, ClientReceives(d), ClientGetsAck(d) PROVE IdsAreTold'
  BY <1>1, <1>8 DEF ClientReceives, ClientGetsAck, IdsAreTold, FullyOpenIsKnown
<1>9. ASSUME NEW d \in down, ClientReceives(d), ClientGetsPeerId(d) PROVE IdsAreTold'
  <2>1. c_state = "running" /\ c_setting = NotSetting
    BY <1>9 DEF ClientReceives, IdsAreTold
  <2>2. PICK id \in {m_peer_id, d.id} :
          (c_heard => id = m_peer_id) /\ up' = up \cup {Ack(id, 0)}
    BY <1>9 DEF ClientGetsPeerId
  <2>3. c_heard' = TRUE /\ UNCHANGED <<c_state, m_peer_id, c_next, c_sent>>
    BY <1>9 DEF ClientGetsPeerId
  <2>4. CASE c_heard
    <3>1. c_setting' = NotSetting
      BY <1>9, <2>4 DEF ClientGetsPeerId
    <3> QED BY <1>1, <2>1, <2>2, <2>3, <2>4, <3>1
            DEF IdsAreTold, FullyOpenIsKnown, NotSetting, Ack
  <2>5. CASE ~c_heard
    <3>1. m_peer_id = PEER_ID_INEXISTENT /\ c_setting' = [at |-> "write", id |-> d.id]
      BY <1>9, <2>5 DEF ClientGetsPeerId, IdsAreTold
    <3> QED BY <1>1, <2>1, <2>2, <2>3, <2>5, <3>1
            DEF IdsAreTold, FullyOpenIsKnown, NotSetting, Ack
  <2> QED BY <2>4, <2>5
<1> QED BY <1>2, <1>3, <1>4, <1>5, <1>6, <1>7, <1>8, <1>9
        DEF ClientNext, ClientReceives, ClientDisconnects, ClientTimesOut

LEMMA IdsStep == TypeOK /\ IdsAreTold /\ [Next]_vars => IdsAreTold'
<1> SUFFICES ASSUME TypeOK, IdsAreTold, [Next]_vars PROVE IdsAreTold'
  OBVIOUS
<1>1. CASE ClientNext
  BY <1>1, IdsClient
<1>2. ASSUME NEW d \in up, ReceiveKnown(d) PROVE IdsAreTold'
  <2>1. /\ UNCHANGED <<clientVars, m_peers>> /\ up' \subseteq up
        /\ half_open' = half_open \ {d.id} /\ d.id # PEER_ID_INEXISTENT
    BY <1>2 DEF ReceiveKnown, Receiving, After, KnewPeerId
  <2> QED BY <1>2, <2>1 DEF IdsAreTold, FullyOpenIsKnown, clientVars
<1>3. ASSUME NEW d \in up, ReceiveByAddress(d) \/ CreatePeer(d) \/ Ignore(d) PROVE IdsAreTold'
  <2>1. UNCHANGED clientVars /\ up' \subseteq up
    BY <1>3 DEF ReceiveByAddress, CreatePeer, Ignore, Receiving, After
  <2>2. m_peers' \ half_open' \subseteq m_peers \ half_open
    BY <1>3 DEF ReceiveByAddress, CreatePeer, Ignore, KnewPeerId
  <2>3. c_state # "new"
    BY DEF IdsAreTold
  <2> QED BY <2>1, <2>2, <2>3, IdsFrame
<1>4. CASE ProcessPacket \/ PutDataReceived \/ LetGo
  <2>1. UNCHANGED <<clientVars, up>>
    BY <1>4 DEF ProcessPacket, PutDataReceived, LetGo, letGoUnchanged, netVars
  <2>2. m_peers' \ half_open' \subseteq m_peers \ half_open /\ m_peers' \subseteq m_peers
    BY <1>4 DEF ProcessPacket, ProcessReliable, ProcessAck, ProcessDisco, DeletePeer, peerVars,
       PutDataReceived, LetGo, letGoUnchanged
  <2> QED BY <2>1, <2>2, IdsFrame DEF IdsAreTold
<1>5. CASE SendNext
  <2>1. UNCHANGED <<clientVars, up>>
    BY <1>5 DEF SendNext, ServerCommand, BeginTimeouts, EndTimeouts, TimesOut, ServerResends,
       RemoveTimedOut, RemoveDisconnected, sendUnchanged
  <2>2. m_peers' \ half_open' \subseteq m_peers \ half_open /\ m_peers' \subseteq m_peers
    BY <1>5 DEF SendNext, ServerCommand, BeginTimeouts, EndTimeouts, TimesOut, ServerResends,
       RemoveTimedOut, RemoveDisconnected, DeletePeer, peerVars, channelVars
  <2> QED BY <2>1, <2>2, IdsFrame DEF IdsAreTold
<1>6. CASE Lose \/ (\E p \in Peers : DisconnectPeer(p)) \/ UNCHANGED vars
  <2>1. UNCHANGED <<clientVars, m_peers, half_open>> /\ up' \subseteq up
    BY <1>6 DEF Lose, DisconnectPeer, vars, serverVars, peerVars, netVars
  <2> QED BY <2>1, IdsFrame DEF IdsAreTold
<1> QED BY <1>1, <1>2, <1>3, <1>4, <1>5, <1>6 DEF Next, ReceiveNext, ServerReceives

\* Reliable packets are only sent again to a peer whose client knows its id, also
\* while the client's threads disagree about it (threads.cpp:1027, 1380).
THEOREM OpenPeersAreKnown == Spec => []FullyOpenIsKnown
<1>1. Init => TypeOK /\ IdsAreTold
  BY InitType, IdsInit
<1>2. TypeOK /\ IdsAreTold /\ [Next]_vars => (TypeOK /\ IdsAreTold)'
  BY TypeStep, IdsStep
<1>3. IdsAreTold => FullyOpenIsKnown
  BY DEF IdsAreTold
<1> QED BY <1>1, <1>2, <1>3, PTL DEF Spec

-----------------------------------------------------------------------------
(* The application is told in order.                                       *)

LEMMA EventsInit == Init => EventsInv
BY Bounds DEF Init, EventsInv, Told

\* A step that tells nothing and in which no packet is taken up.
LEMMA EventsFrame ==
  ASSUME EventsInv, UNCHANGED <<m_peers, created, events, next_in>>,
         recv'.at # "data" \/ recv' = recv
  PROVE  EventsInv'
BY DEF EventsInv, Told

\* What is told, put behind what was told before.
LEMMA Tellings ==
  /\ Append(<<>>, "added") = <<"added">>
  /\ Append(<<"added">>, "data") = <<"added", "data">>
  /\ Append(<<"added">>, "removed") = <<"added", "removed">>
  /\ Append(<<"added", "data">>, "removed") = <<"added", "data", "removed">>
  /\ Append(<<"added", "removed">>, "data") = <<"added", "removed", "data">>
  /\ <<"added">> \notin {<<"added", "removed">>, <<"added", "data", "removed">>,
                         <<"added", "removed", "data">>}
<1>1. ASSUME NEW S, NEW a \in S PROVE Append(<<>>, a) = <<a>>
  OBVIOUS
<1>2. ASSUME NEW S, NEW a \in S, NEW b \in S PROVE Append(<<a>>, b) = <<a, b>>
  <2>1. <<a>> \in Seq(S) /\ <<a, b>> \in Seq(S)
    OBVIOUS
  <2>2. \A i \in 1 .. 2 : Append(<<a>>, b)[i] = <<a, b>>[i]
    BY <2>1
  <2>3. Append(<<a>>, b) \in Seq(S) /\ Len(Append(<<a>>, b)) = 2 /\ Len(<<a, b>>) = 2
    BY <2>1
  <2> QED BY <2>1, <2>2, <2>3, SeqEqual
<1>3. ASSUME NEW S, NEW a \in S, NEW b \in S, NEW c \in S
      PROVE  Append(<<a, b>>, c) = <<a, b, c>>
  <2>1. <<a, b>> \in Seq(S) /\ <<a, b, c>> \in Seq(S)
    OBVIOUS
  <2>2. \A i \in 1 .. 3 : Append(<<a, b>>, c)[i] = <<a, b, c>>[i]
    BY <2>1
  <2>3. Append(<<a, b>>, c) \in Seq(S) /\ Len(Append(<<a, b>>, c)) = 3 /\ Len(<<a, b, c>>) = 3
    BY <2>1
  <2> QED BY <2>1, <2>2, <2>3, SeqEqual
<1>4. \A a, b, c : Len(<<a>>) = 1 /\ Len(<<a, b>>) = 2 /\ Len(<<a, b, c>>) = 3
  OBVIOUS
<1>5. /\ "added" \in {"added", "data", "removed"} /\ "data" \in {"added", "data", "removed"}
      /\ "removed" \in {"added", "data", "removed"}
  OBVIOUS
<1>6. <<"added">> \notin {<<"added", "removed">>, <<"added", "data", "removed">>,
                         <<"added", "removed", "data">>}
  BY <1>4
<1> QED BY <1>1, <1>2, <1>3, <1>5, <1>6

LEMMA EventsDelete ==
  ASSUME TypeOK, EventsInv, NEW p \in Peers, DeletePeer(p), UNCHANGED created,
         recv'.at # "data" \/ recv' = recv
  PROVE  EventsInv'
<1>1. CASE ~IsThere(p)
  BY <1>1, EventsFrame DEF DeletePeer, peerVars
<1>2. CASE IsThere(p)
  <2>1. p \in m_peers /\ p \in 1 .. created
    BY <1>2 DEF IsThere, TypeOK, PeersTypeOK
  <2>2. /\ m_peers' = m_peers \ {p}
        /\ events' = [events EXCEPT ![p] = Append(@, "removed")]
        /\ next_in' = [next_in EXCEPT ![p] = 0]
    BY <1>2 DEF DeletePeer
  <2>3. events'[p] = Append(events[p], "removed")
    BY <2>2 DEF TypeOK, PeersTypeOK
  <2>4. events'[p] \in {<<"added", "removed">>, <<"added", "data", "removed">>}
    BY <2>1, <2>3, Tellings DEF EventsInv, Told
  <2>5. recv.at = "data" /\ recv.peer = p => events'[p] = <<"added", "removed">>
    BY <2>1, <2>3, Tellings DEF EventsInv, Told
  <2>6. \A q \in Peers \ {p} : events'[q] = events[q] /\ next_in'[q] = next_in[q]
    BY <2>2 DEF TypeOK, PeersTypeOK
  <2>7. Told(p)'
    BY <2>2, <2>4, <2>5 DEF Told
  <2>8. \A q \in 1 .. created : q # p => Told(q)'
    <3>1. 1 .. created \subseteq Peers
      BY Bounds DEF TypeOK, PeersTypeOK
    <3> QED BY <2>2, <2>6, <3>1 DEF EventsInv, Told
  <2> QED BY <2>1, <2>6, <2>7, <2>8 DEF EventsInv
<1> QED BY <1>1, <1>2

LEMMA EventsStep == TypeOK /\ Lifecycle /\ EventsInv /\ [Next]_vars => EventsInv'
<1> SUFFICES ASSUME TypeOK, Lifecycle, EventsInv, [Next]_vars PROVE EventsInv'
  OBVIOUS
<1>0. m_peers \subseteq 1 .. created /\ 1 .. created \subseteq Peers
  BY Bounds DEF TypeOK, PeersTypeOK
<1>1. CASE ClientNext
  BY <1>1, ClientLeavesServer, EventsFrame DEF serverVars, peerVars
<1>2. ASSUME NEW d \in up, ReceiveKnown(d) \/ ReceiveByAddress(d) \/ Ignore(d) PROVE EventsInv'
  BY <1>2, EventsFrame DEF ReceiveKnown, ReceiveByAddress, Ignore, Receiving, Hold
<1>3. ASSUME NEW d \in up, CreatePeer(d) PROVE EventsInv'
  <2>0. PICK p : p = created + 1
    OBVIOUS
  <2>1. /\ created' = p /\ m_peers' = m_peers \cup {p}
        /\ events' = [events EXCEPT ![p] = Append(@, "added")]
        /\ recv'.at = "held" /\ UNCHANGED next_in
    BY <1>3, <2>0 DEF CreatePeer, Hold, Receiving
  <2>2. p \in Peers /\ p \notin 1 .. created /\ 1 .. p = (1 .. created) \cup {p}
    BY <1>3, <2>0, Bounds DEF CreatePeer, TypeOK, PeersTypeOK
  <2>3. events[p] = <<>>
    BY <2>2 DEF EventsInv
  <2>4. events'[p] = <<"added">>
    BY <2>1, <2>2, <2>3, Tellings DEF TypeOK, PeersTypeOK
  <2>5. \A q \in Peers \ {p} : events'[q] = events[q]
    BY <2>1 DEF TypeOK, PeersTypeOK
  <2>6. Told(p)'
    BY <2>1, <2>4 DEF Told
  <2>7. \A q \in 1 .. created : Told(q)'
    BY <1>0, <2>1, <2>2, <2>5 DEF EventsInv, Told
  <2> QED BY <2>1, <2>2, <2>5, <2>6, <2>7 DEF EventsInv
<1>4. CASE ProcessPacket
  <2>0. PICK p, n : p = recv.peer /\ n = recv.packet.seqnum
    OBVIOUS
  <2>1. p \in m_peers /\ p \in Peers /\ UNCHANGED created /\ n \in Seqnums
    BY <1>0, <1>4, <2>0 DEF ProcessPacket, TypeOK, ThreadsTypeOK, Datagram
  <2>2. CASE ProcessReliable(p, n)
    <3>1. UNCHANGED <<m_peers, events>>
      BY <2>2 DEF ProcessReliable
    <3>2. CASE n = next_in[p]
      <4>1. PICK next : next_in' = [next_in EXCEPT ![p] = next] /\ next = NextExpected(n, held_back[p])
        BY <2>2, <3>2 DEF ProcessReliable
      <4>2. next # 0
        BY <2>1, <4>1, NextIsMissing, Bounds DEF TypeOK, PeersTypeOK
      <4>3. next_in'[p] # 0 /\ \A q \in Peers \ {p} : next_in'[q] = next_in[q]
        BY <2>1, <4>1, <4>2 DEF TypeOK, PeersTypeOK
      <4>4. recv'.at = "data" => recv'.peer = p /\ n = 0 /\ next_in[p] = 0
        BY <2>2 DEF ProcessReliable, HoldAt, Idle
      <4>5. events[p] \in {<<"added">>, <<"added", "data">>}
            /\ (next_in[p] = 0 => events[p] = <<"added">>)
        BY <1>0, <2>1 DEF EventsInv, Told
      <4>6. Told(p)'
        BY <2>1, <3>1, <4>3, <4>4, <4>5 DEF Told
      <4>7. \A q \in 1 .. created : q # p => Told(q)'
        BY <1>0, <3>1, <4>3, <4>4 DEF EventsInv, Told
      <4> QED BY <2>1, <3>1, <4>6, <4>7 DEF EventsInv
    <3>3. CASE n # next_in[p]
      <4>1. UNCHANGED next_in /\ recv' = Idle
        BY <2>1, <2>2, <3>3 DEF ProcessReliable
      <4> QED BY <2>1, <3>1, <4>1, EventsFrame DEF Idle
    <3> QED BY <3>2, <3>3
  <2>3. CASE ProcessAck(p)
    BY <2>1, <2>3, EventsFrame DEF ProcessAck, Idle
  <2>4. CASE ProcessDisco(p)
    BY <2>1, <2>4, EventsDelete DEF ProcessDisco, HoldAt
  <2> QED BY <1>4, <2>0, <2>2, <2>3, <2>4 DEF ProcessPacket
<1>5. CASE PutDataReceived
  <2>0. PICK p : p = recv.peer
    OBVIOUS
  <2>1. p \in 1 .. created /\ p \in Peers
    BY <1>0, <1>5, <2>0 DEF PutDataReceived, Lifecycle
  <2>2. /\ recv.at = "data" /\ recv'.at = "idle" /\ UNCHANGED <<created, m_peers, next_in>>
        /\ events' = [events EXCEPT ![p] = Append(@, "data")]
    BY <1>5, <2>0 DEF PutDataReceived, letGoUnchanged, Idle
  <2>3. events'[p] = Append(events[p], "data") /\ \A q \in Peers \ {p} : events'[q] = events[q]
    BY <2>1, <2>2 DEF TypeOK, PeersTypeOK
  <2>4. Told(p) /\ recv.peer = p
    BY <2>0, <2>1 DEF EventsInv
  <2>5. CASE p \in m_peers
    <3>1. events[p] = <<"added">> /\ next_in[p] # 0
      BY <2>2, <2>4, <2>5 DEF Told
    <3>2. events'[p] = <<"added", "data">>
      BY <2>3, <3>1, Tellings
    <3> QED BY <1>0, <2>2, <2>3, <2>5, <3>1, <3>2 DEF EventsInv, Told
  <2>6. CASE p \notin m_peers
    <3>1. events[p] = <<"added", "removed">>
      BY <2>2, <2>4, <2>6, Tellings DEF Told
    <3>2. events'[p] = <<"added", "removed", "data">>
      BY <2>3, <3>1, Tellings
    <3> QED BY <1>0, <2>2, <2>3, <2>6, <3>2 DEF EventsInv, Told
  <2> QED BY <2>5, <2>6
<1>6. CASE LetGo
  BY <1>6, EventsFrame DEF LetGo, letGoUnchanged, Idle
<1>7. ASSUME NEW p \in Peers, RemoveTimedOut(p) \/ RemoveDisconnected(p) PROVE EventsInv'
  BY <1>7, EventsDelete DEF RemoveTimedOut, RemoveDisconnected, sendUnchanged
<1>8. CASE ServerCommand \/ (\E p \in Peers : BeginTimeouts(p) \/ EndTimeouts(p))
  BY <1>8, EventsFrame DEF ServerCommand, BeginTimeouts, EndTimeouts, sendUnchanged, peerVars, channelVars
<1>9. CASE Lose \/ (\E p \in Peers : DisconnectPeer(p)) \/ UNCHANGED vars
  BY <1>9, EventsFrame DEF Lose, DisconnectPeer, vars, serverVars, peerVars
<1> QED BY <1>1, <1>2, <1>3, <1>4, <1>5, <1>6, <1>7, <1>8, <1>9
        DEF Next, ReceiveNext, ServerReceives, SendNext, TimesOut, ServerResends

\* The application hears of each peer that it came, and at most once that it went
\* and of its dummy packet, also if a thread deletes the peer while the other has
\* its data in hand (impl.cpp:1406).
THEOREM EventsComeInOrder == Spec => []EventsInOrder
<1>1. Init => TypeOK /\ Lifecycle /\ EventsInv
  BY InitType, LifecycleInit, EventsInit
<1>2. TypeOK /\ Lifecycle /\ EventsInv /\ [Next]_vars => (TypeOK /\ Lifecycle /\ EventsInv)'
  BY TypeStep, LifecycleStep, EventsStep
<1>3. EventsInv => EventsInOrder
  BY DEF EventsInv, Told, EventsInOrder
<1> QED BY <1>1, <1>2, <1>3, PTL DEF Spec

-----------------------------------------------------------------------------
(* What is acknowledged has been received.                                 *)

LEMMA AcksInit == Init => AcksInv
BY DEF Init, AcksInv

\* Nothing is sent, queued, forgotten or taken from what the first peer has got.
LEMMA AcksFrame ==
  ASSUME AcksInv, UNCHANGED <<created, m_command_queue, c_state, c_next, c_sent>>,
         m_peers' \subseteq m_peers, down' \subseteq down, unanswered' \subseteq unanswered,
         1 \in m_peers' => next_in'[1] = next_in[1] /\ held_back'[1] = held_back[1]
  PROVE  AcksInv'
BY DEF AcksInv, Got

\* A command that is no ack waits, for a peer that is there.
LEMMA AcksQueue ==
  ASSUME TypeOK, AcksInv, NEW c, c.type # "ACK", m_peers # {},
         m_command_queue' = Append(m_command_queue, c),
         UNCHANGED <<clientVars, created, m_peers, next_in, held_back, down>>
  PROVE  AcksInv'
<1>1. created # 0
  BY DEF AcksInv
<1>2. \A i \in 1 .. Len(m_command_queue') :
        m_command_queue'[i].type = "ACK" =>
          i \in 1 .. Len(m_command_queue) /\ m_command_queue'[i] = m_command_queue[i]
  BY DEF TypeOK, ThreadsTypeOK
<1> QED BY <1>1, <1>2 DEF AcksInv, Got, clientVars

LEMMA AcksClient == TypeOK /\ AcksInv /\ ClientNext => AcksInv'
<1> SUFFICES ASSUME TypeOK, AcksInv, ClientNext PROVE AcksInv'
  OBVIOUS
<1>1. UNCHANGED <<created, m_peers, m_command_queue, next_in, held_back, unanswered>>
  BY ClientLeavesServer DEF serverVars, peerVars
<1>2. c_next \in 0 .. MaxPackets
  BY DEF TypeOK, ClientTypeOK
<1>3. CASE Leave
  <2>1. c_state' = "gone" /\ c_next' = 0 /\ down' = {}
    BY <1>3 DEF Leave
  <2> QED BY <1>1, <2>1 DEF AcksInv, Got
<1>4. CASE Connect
  <2>1. c_next' = 1 /\ UNCHANGED down /\ \E d \in c_sent' : d.seqnum = 0
    BY <1>4 DEF Connect, Reliable
  <2>2. \A n \in 0 .. c_next' - 1 : \E d \in c_sent' : d.seqnum = n
    BY <2>1
  <2> QED BY <1>1, <2>1, <2>2 DEF AcksInv, Got
<1>5. CASE Ping
  <2>1. PICK n \in Seqnums : /\ n = c_next \/ (n = MaxPackets - 1 /\ c_next = MaxPackets)
                             /\ c_next' = n + 1
                             /\ c_sent' = c_sent \cup {Reliable(m_peer_id, n)}
    BY <1>5 DEF Ping
  <2>2. UNCHANGED <<c_state, down>> /\ c_state # "gone"
    BY <1>5 DEF Ping
  <2>3. \A k \in 0 .. c_next' - 1 : (\E d \in c_sent' : d.seqnum = k) \/ k \in 0 .. c_next - 1
    <3>1. Reliable(m_peer_id, n) \in c_sent' /\ Reliable(m_peer_id, n).seqnum = n
      BY <2>1 DEF Reliable
    <3>2. \A k \in 0 .. c_next' - 1 : k = n \/ k \in 0 .. c_next - 1
      BY <1>2, <2>1, Bounds
    <3> QED BY <3>1, <3>2
  <2>4. c_sent \subseteq c_sent'
    BY <2>1
  <2> QED BY <1>1, <2>2, <2>3, <2>4 DEF AcksInv, Got
<1>6. CASE SetPeerID
  BY <1>1, <1>6, AcksFrame DEF SetPeerID, netVars
<1>7. CASE FixPeerId
  <2>1. \A n : (\E d \in c_sent' : d.seqnum = n) <=> (\E d \in c_sent : d.seqnum = n)
    <3>1. c_sent' = {Reliable(c_setting.id, d.seqnum) : d \in c_sent}
      BY <1>7 DEF FixPeerId, fix_peer_id
    <3>2. \A id, n : Reliable(id, n).seqnum = n
      BY DEF Reliable
    <3> QED BY <3>1, <3>2
  <2>2. UNCHANGED <<c_state, c_next, down>>
    BY <1>7 DEF FixPeerId, netVars
  <2> QED BY <1>1, <2>1, <2>2 DEF AcksInv, Got
<1>8. ASSUME NEW d \in c_sent, ClientResends(d) PROVE AcksInv'
  BY <1>1, <1>8, AcksFrame DEF ClientResends, clientVars
<1>9. ASSUME NEW d \in down, ClientReceives(d), ClientGetsAck(d) PROVE AcksInv'
  <2>1. /\ d.type = "ack" /\ c_sent' = {s \in c_sent : s.seqnum # d.seqnum} /\ down' \subseteq down
        /\ UNCHANGED <<c_state, c_next>>
    BY <1>9 DEF ClientGetsAck, After
  <2>2. created # 0
    BY DEF AcksInv
  <2>3. \A n : (\A s \in c_sent' : s.seqnum # n) => n = d.seqnum \/ \A s \in c_sent : s.seqnum # n
    BY <2>1
  <2> QED BY <1>1, <2>1, <2>2, <2>3 DEF AcksInv, Got
<1>10. ASSUME NEW d \in down, ClientReceives(d), ClientGetsPeerId(d) PROVE AcksInv'
  BY <1>1, <1>10, AcksFrame DEF ClientGetsPeerId, After
<1> QED BY <1>3, <1>4, <1>5, <1>6, <1>7, <1>8, <1>9, <1>10
        DEF ClientNext, ClientReceives, ClientDisconnects, ClientTimesOut

\* A peer that receives a packet has it then, and all it had before.
LEMMA GotMore ==
  ASSUME TypeOK, NEW n \in Seqnums, 1 \in Peers, ProcessReliable(1, n)
  PROVE  /\ Got(n)'
         /\ \A k \in Seqnums : Got(k) => Got(k)'
<1>1. next_in[1] \in 0 .. MaxPackets /\ held_back[1] \in SUBSET Seqnums
  BY DEF TypeOK, PeersTypeOK
<1>2. CASE n = next_in[1]
  <2>1. PICK next : next = NextExpected(n, held_back[1])
    OBVIOUS
  <2>2. next \in n + 1 .. MaxPackets /\ next \notin held_back[1]
    BY <1>1, <2>1, NextIsMissing
  <2>3. /\ next_in' = [next_in EXCEPT ![1] = next]
        /\ held_back' = [held_back EXCEPT ![1] = {k \in held_back[1] : k > next}]
    BY <1>2, <2>1 DEF ProcessReliable
  <2>4. next_in'[1] = next /\ held_back'[1] = {k \in held_back[1] : k > next}
    BY <2>3 DEF TypeOK, PeersTypeOK
  <2> QED BY <1>1, <1>2, <2>2, <2>4, Bounds DEF Got
<1>3. CASE n > next_in[1]
  <2>1. UNCHANGED next_in /\ held_back' = [held_back EXCEPT ![1] = held_back[1] \cup {n}]
    BY <1>1, <1>3, Bounds DEF ProcessReliable, Kept
  <2>2. held_back'[1] = held_back[1] \cup {n}
    BY <2>1 DEF TypeOK, PeersTypeOK
  <2> QED BY <2>1, <2>2 DEF Got
<1>4. CASE n < next_in[1]
  <2>1. UNCHANGED <<next_in, held_back>>
    BY <1>1, <1>4, Bounds DEF ProcessReliable
  <2> QED BY <1>4, <2>1 DEF Got
<1> QED BY <1>1, <1>2, <1>3, <1>4, Bounds

LEMMA AcksDelete ==
  ASSUME TypeOK, AcksInv, NEW p \in Peers, DeletePeer(p),
         UNCHANGED <<clientVars, created, m_command_queue, down>>
  PROVE  AcksInv'
<1>1. m_peers' \subseteq m_peers /\ unanswered' \subseteq unanswered
  BY DEF DeletePeer, peerVars
<1>2. 1 \in m_peers' => next_in'[1] = next_in[1] /\ held_back'[1] = held_back[1]
  <2>1. 1 \in Peers
    BY Bounds
  <2> QED BY <2>1 DEF DeletePeer, peerVars, TypeOK, PeersTypeOK
<1> QED BY <1>1, <1>2, AcksFrame DEF clientVars

LEMMA AcksStep == TypeOK /\ AcksInv /\ [Next]_vars => AcksInv'
<1> SUFFICES ASSUME TypeOK, AcksInv, [Next]_vars PROVE AcksInv'
  OBVIOUS
<1>0. created \in Nat /\ m_peers \subseteq 1 .. created /\ m_peers \subseteq Peers /\ 1 \in Peers
  BY Bounds DEF TypeOK, PeersTypeOK
<1>1. CASE ClientNext
  BY <1>1, AcksClient
<1>2. ASSUME NEW d \in up, ReceiveKnown(d) \/ Ignore(d) PROVE AcksInv'
  BY <1>2, AcksFrame DEF ReceiveKnown, Ignore, Receiving, clientVars
<1>3. ASSUME NEW d \in up, ReceiveByAddress(d) PROVE AcksInv'
  <2>1. PICK p \in m_peers : m_command_queue' = Append(m_command_queue, Cmd("RESEND_ONE", p, 0))
    BY <1>3 DEF ReceiveByAddress, lookupPeer, Reminded
  <2>2. UNCHANGED <<clientVars, created, m_peers, next_in, held_back, down>>
    BY <1>3 DEF ReceiveByAddress, Receiving
  <2> QED BY <2>1, <2>2, AcksQueue DEF Cmd
<1>4. ASSUME NEW d \in up, CreatePeer(d) PROVE AcksInv'
  <2>1. created' = created + 1 /\ UNCHANGED <<c_state, c_next, c_sent, down>>
    BY <1>4 DEF CreatePeer, Receiving, clientVars
  <2>2. CASE created = 0
    <3>1. m_command_queue = <<>> /\ down = {}
          /\ \A n \in 0 .. c_next - 1 : \E s \in c_sent : s.seqnum = n
      BY <2>2 DEF AcksInv
    <3>2. m_command_queue' = Append(m_command_queue, Cmd("CREATE_PEER", created + 1, 0))
      BY <1>4 DEF CreatePeer
    <3>3. Len(m_command_queue') = 1 /\ m_command_queue'[1].type = "CREATE_PEER"
      BY <3>1, <3>2 DEF Cmd
    <3> QED BY <2>1, <2>2, <3>1, <3>3 DEF AcksInv, Got
  <2>3. CASE created # 0
    BY <1>0, <2>1, <2>3 DEF AcksInv
  <2> QED BY <2>2, <2>3
<1>5. CASE ProcessPacket
  <2>0. PICK p, n : p = recv.peer /\ n = recv.packet.seqnum
    OBVIOUS
  <2>1. p \in m_peers /\ p \in Peers /\ n \in Seqnums /\ UNCHANGED <<clientVars, created, down>>
    BY <1>0, <1>5, <2>0 DEF ProcessPacket, netVars, TypeOK, ThreadsTypeOK, Datagram
  <2>2. CASE ProcessReliable(p, n)
    <3>1. UNCHANGED m_peers /\ m_command_queue' = Append(m_command_queue, Cmd("ACK", p, n))
      BY <2>2 DEF ProcessReliable
    <3>2. created # 0
      BY <2>1 DEF AcksInv
    <3>3. CASE created # 1
      BY <2>1, <3>2, <3>3 DEF AcksInv
    <3>4. CASE created = 1
      <4>1. p = 1
        BY <1>0, <2>1, <3>4
      <4>2. Got(n)' /\ \A k \in Seqnums : Got(k) => Got(k)'
        BY <1>0, <2>1, <2>2, <4>1, GotMore
      <4>3. \A i \in 1 .. Len(m_command_queue') :
              \/ i \in 1 .. Len(m_command_queue) /\ m_command_queue'[i] = m_command_queue[i]
              \/ m_command_queue'[i] = Cmd("ACK", p, n)
        BY <3>1 DEF TypeOK, ThreadsTypeOK
      <4>4. \A i \in 1 .. Len(m_command_queue) : m_command_queue[i].seqnum \in Seqnums
        <5>1. \A i \in 1 .. Len(m_command_queue) : m_command_queue[i] \in Command
          BY DEF TypeOK, ThreadsTypeOK
        <5> QED BY <5>1 DEF Command
      <4>5. \A d \in down : d.seqnum \in Seqnums
        BY DEF TypeOK, NetTypeOK, Datagram
      <4>6. \A k \in 0 .. c_next - 1 : k \in Seqnums
        BY Bounds DEF TypeOK, ClientTypeOK
      <4>7. Cmd("ACK", p, n).seqnum = n
        BY DEF Cmd
      <4>8. (\A i \in 1 .. Len(m_command_queue) :
               m_command_queue[i].type = "ACK" => Got(m_command_queue[i].seqnum))'
        <5>1. \A i \in 1 .. Len(m_command_queue) :
                m_command_queue[i].type = "ACK" =>
                  m_command_queue[i].seqnum < next_in'[1] \/ m_command_queue[i].seqnum \in held_back'[1]
          BY <2>1, <3>4, <4>1, <4>2, <4>4 DEF AcksInv, Got
        <5> QED BY <4>2, <4>3, <4>7, <5>1 DEF Got
      <4>9. (\A d \in down : d.type = "ack" => Got(d.seqnum))'
        BY <2>1, <3>4, <4>1, <4>2, <4>5 DEF AcksInv, Got
      <4>10. (c_state # "gone" =>
                \A k \in 0 .. c_next - 1 : (\A d \in c_sent : d.seqnum # k) => Got(k))'
        BY <2>1, <3>4, <4>1, <4>2, <4>6 DEF AcksInv, Got, clientVars
      <4> QED BY <2>1, <3>4, <4>8, <4>9, <4>10 DEF AcksInv
    <3> QED BY <3>3, <3>4
  <2>3. CASE ProcessAck(p)
    BY <2>1, <2>3, AcksFrame DEF ProcessAck, clientVars
  <2>4. CASE ProcessDisco(p)
    BY <2>1, <2>4, AcksDelete DEF ProcessDisco
  <2> QED BY <1>5, <2>0, <2>2, <2>3, <2>4 DEF ProcessPacket
<1>6. CASE PutDataReceived \/ LetGo
  BY <1>6, AcksFrame DEF PutDataReceived, LetGo, letGoUnchanged, netVars, clientVars
<1>7. CASE ServerCommand
  <2>0. PICK c : c = Head(m_command_queue)
    OBVIOUS
  <2>1. /\ m_command_queue # <<>> /\ m_command_queue' = Tail(m_command_queue)
        /\ UNCHANGED <<clientVars, created, m_peers, next_in, held_back>>
    BY <1>7 DEF ServerCommand, sendUnchanged
  <2>2. down' \subseteq down \cup Answer(c)
    BY <1>7, <2>0 DEF ServerCommand, Sends
  <2>3. \A d \in Answer(c) : d.type = "ack" => c.type = "ACK" /\ d.seqnum = c.seqnum
    BY DEF Answer, Ack, Disco, SetPeerIdPacket
  <2>4. \A i \in 1 .. Len(m_command_queue') :
          i + 1 \in 1 .. Len(m_command_queue) /\ m_command_queue'[i] = m_command_queue[i + 1]
    BY <2>1 DEF TypeOK, ThreadsTypeOK
  <2>5. 1 \in 1 .. Len(m_command_queue) /\ c = m_command_queue[1]
    BY <2>0, <2>1 DEF TypeOK, ThreadsTypeOK
  <2>6. created # 0
    BY <2>1 DEF AcksInv
  <2> QED BY <2>1, <2>2, <2>3, <2>4, <2>5, <2>6 DEF AcksInv, Got, clientVars
<1>8. ASSUME NEW p \in Peers, BeginTimeouts(p) \/ TimesOut(p) PROVE AcksInv'
  BY <1>8, AcksFrame DEF BeginTimeouts, TimesOut, EndTimeouts, sendUnchanged, peerVars,
     channelVars, clientVars
<1>9. ASSUME NEW p \in Peers, ServerResends(p) PROVE AcksInv'
  <2>1. UNCHANGED <<clientVars, created, m_peers, next_in, held_back, unanswered, m_command_queue>>
    BY <1>9 DEF ServerResends, EndTimeouts, sendUnchanged, channelVars
  <2>2. down' \subseteq down \cup {SetPeerIdPacket(q) : q \in {p} \cap (unanswered \ half_open)}
    BY <1>9 DEF ServerResends, Sends
  <2>3. \A d \in down' : d.type = "ack" => d \in down
    BY <2>2 DEF SetPeerIdPacket
  <2>4. unanswered = {} => down' \subseteq down
    BY <2>2
  <2> QED BY <2>1, <2>3, <2>4 DEF AcksInv, Got, clientVars
<1>10. ASSUME NEW p \in Peers, RemoveTimedOut(p) \/ RemoveDisconnected(p) PROVE AcksInv'
  BY <1>10, AcksDelete DEF RemoveTimedOut, RemoveDisconnected, sendUnchanged
<1>11. ASSUME NEW p \in Peers, DisconnectPeer(p) PROVE AcksInv'
  <2>1. m_command_queue' = Append(m_command_queue, Cmd("DISCONNECT_PEER", p, 0)) /\ m_peers # {}
    BY <1>11 DEF DisconnectPeer
  <2>2. UNCHANGED <<clientVars, created, m_peers, next_in, held_back, down>>
    BY <1>11 DEF DisconnectPeer, peerVars, netVars
  <2> QED BY <2>1, <2>2, AcksQueue DEF Cmd
<1>12. CASE Lose \/ UNCHANGED vars
  BY <1>12, AcksFrame DEF Lose, vars, serverVars, peerVars, netVars, clientVars
<1> QED BY <1>1, <1>2, <1>3, <1>4, <1>5, <1>6, <1>7, <1>8, <1>9, <1>10, <1>11, <1>12
        DEF Next, ReceiveNext, ServerReceives, SendNext

\* A packet the client forgets because it is acknowledged is one its peer has or
\* holds back, as long as the server has known it as one peer only.
THEOREM AckedAreReceived == Spec => []AckedIsReceived
<1>1. Init => TypeOK /\ AcksInv
  BY InitType, AcksInit
<1>2. TypeOK /\ AcksInv /\ [Next]_vars => (TypeOK /\ AcksInv)'
  BY TypeStep, AcksStep
<1>3. AcksInv => AckedIsReceived
  BY DEF AcksInv, Got, AckedIsReceived
<1> QED BY <1>1, <1>2, <1>3, PTL DEF Spec

=============================================================================
