--------------------------- MODULE MtpConnection ---------------------------
(* Connection management of MTP: a client connects to a server over UDP,   *)
(* is given a peer id, pings, leaves or is given up, and perhaps comes back *)
(* as a new peer.  The server's Connection runs a receive thread and a send *)
(* thread, which share its peers; a peer is kept alive by use counts        *)
(* (PeerHelper).  Channel 0 alone matters here: the dummy packet is the     *)
(* client's number 0, its pings are the numbers behind it, and SET_PEER_ID  *)
(* is each server peer's number 0.  MtpChannel models a channel in full.    *)
(*                                                                          *)
(* Peers are numbered in the order they are created (the code draws an     *)
(* unused id by chance); 0 is PEER_ID_INEXISTENT.  The network may lose, repeat *)
(* and reorder datagrams.                                                   *)
EXTENDS Integers, Sequences, FiniteSets

CONSTANTS
  MaxPeers,       \* bound: peers the server creates for this client
  MaxPackets,     \* bound: the dummy packet and the client's pings
  MaxFaults,      \* bound: datagrams the network loses or delivers once more
  MaxOnWay,       \* bound: datagrams on the way when a timer sends another
  MaxCommands     \* bound: commands that wait for a send thread

ASSUME ConnectionAssumption ==
  /\ MaxPeers \in Nat \ {0} /\ MaxPackets \in Nat \ {0}
  /\ MaxFaults \in Nat /\ MaxOnWay \in Nat \ {0} /\ MaxCommands \in Nat \ {0}

PEER_ID_INEXISTENT == 0
Peers == 1 .. MaxPeers
PeerIds == 0 .. MaxPeers
Seqnums == 0 .. MaxPackets - 1

\* A reliable packet has a number and the sender's peer id, an ACK the number
\* it acknowledges; SET_PEER_ID (always number 0) names the id in id.
Datagram == [type : {"reliable", "ack", "disco", "set_peer_id"},
             id : PeerIds, seqnum : Seqnums]
Reliable(id, n) == [type |-> "reliable", id |-> id, seqnum |-> n]
Ack(id, n) == [type |-> "ack", id |-> id, seqnum |-> n]
Disco(id) == [type |-> "disco", id |-> id, seqnum |-> 0]
SetPeerIdPacket(id) == [type |-> "set_peer_id", id |-> id, seqnum |-> 0]

\* ConnectionCommand, as far as it is used here.
Command == [type : {"CREATE_PEER", "RESEND_ONE", "ACK", "DISCONNECT_PEER"},
            peer_id : PeerIds, seqnum : Seqnums]
Cmd(type, p, n) == [type |-> type, peer_id |-> p, seqnum |-> n]

VARIABLES
  c_state,        \* the client: "new", "running" or "gone"
  m_peer_id,      \* the client's Connection::m_peer_id
  c_next,         \* the next number of its channel 0
  c_sent,         \* outgoing_reliables_sent: number and the peer id written in the packet
  c_heard,        \* its channel 0 has received SET_PEER_ID (the server's number 0)
  c_setting,      \* its receive thread in SetPeerID, and the id it was told
  m_peers,        \* the server's m_peers
  created,        \* how many it has created
  half_open,      \* peers with m_half_open
  m_pending_disconnect,
  next_in,        \* the next number a peer's channel 0 expects
  held_back,      \* a peer's incoming_reliables
  unanswered,     \* peers with SET_PEER_ID in outgoing_reliables_sent
  m_command_queue,
  recv,           \* the receive thread: where it is, the datagram and the peer
  send_peer,      \* the peer the send thread's runTimeouts holds, 0 for none
  timeouted_peers,
  m_pending_deletion,
  freed,          \* peers that are deleted
  events,         \* for each peer, what has been put in m_event_queue
  up, down,       \* datagrams on the way to the server and to the client
  faults

clientVars == <<c_state, m_peer_id, c_next, c_sent, c_heard, c_setting>>
peerVars == <<m_peers, half_open, m_pending_disconnect, next_in, held_back, unanswered,
              m_pending_deletion, freed, events>>
serverVars == <<peerVars, created, m_command_queue, recv, send_peer, timeouted_peers>>
netVars == <<up, down, faults>>
vars == <<clientVars, serverVars, netVars>>

NotSetting == [at |-> "idle", id |-> PEER_ID_INEXISTENT]
Idle == [at |-> "idle", packet |-> Ack(0, 0), peer |-> 0]

Init ==
  /\ c_state = "new" /\ m_peer_id = PEER_ID_INEXISTENT /\ c_next = 0
  /\ c_sent = {} /\ c_heard = FALSE /\ c_setting = NotSetting
  /\ m_peers = {} /\ created = 0 /\ half_open = {} /\ m_pending_disconnect = {}
  /\ next_in = [p \in Peers |-> 0] /\ held_back = [p \in Peers |-> {}]
  /\ unanswered = {} /\ m_command_queue = <<>> /\ recv = Idle
  /\ send_peer = 0 /\ timeouted_peers = {} /\ m_pending_deletion = {} /\ freed = {}
  /\ events = [p \in Peers |-> <<>>]
  /\ up = {} /\ down = {} /\ faults = 0

----------------------------------------------------------------------------
(* The network.                                                            *)

\* What is left on the way when d arrives: it may arrive once more.
After(net, d) ==
  \/ net' = net \ {d} /\ UNCHANGED faults
  \/ faults < MaxFaults /\ faults' = faults + 1 /\ UNCHANGED net

\* What a timer sends, and not in answer to something, waits for room.
HasRoom(net) == Cardinality(net) < MaxOnWay

Lose ==
  /\ faults < MaxFaults
  /\ faults' = faults + 1
  /\ \/ \E d \in up : up' = up \ {d} /\ UNCHANGED down
     \/ \E d \in down : down' = down \ {d} /\ UNCHANGED up
  /\ UNCHANGED <<clientVars, serverVars>>

----------------------------------------------------------------------------
(* The client.                                                             *)

\* The client's Connection goes; datagrams to its closed socket vanish.
Leave ==
  /\ c_state' = "gone"
  /\ m_peer_id' = PEER_ID_INEXISTENT /\ c_next' = 0 /\ c_sent' = {} /\ c_heard' = FALSE
  /\ c_setting' = NotSetting
  /\ down' = {}

\* connect: the server's peer is there from the start and fully open; the dummy
\* packet is the first on channel 0.
Connect ==
  /\ c_state = "new"
  /\ c_state' = "running"
  /\ c_next' = 1
  /\ c_sent' = {Reliable(PEER_ID_INEXISTENT, 0)}
  /\ up' = up \cup {Reliable(PEER_ID_INEXISTENT, 0)}
  /\ UNCHANGED <<m_peer_id, c_heard, c_setting, serverVars, down, faults>>

\* runTimeouts and rawSendAsPacket: a ping carries the id known when it is made.
\* Those beyond the bound come when all is acknowledged and have the last number again.
Ping ==
  /\ c_state = "running" /\ HasRoom(up)
  /\ \E n \in Seqnums :
       /\ n = c_next \/ (n = MaxPackets - 1 /\ c_next = MaxPackets /\ c_sent = {})
       /\ c_next' = n + 1
       /\ c_sent' = c_sent \cup {Reliable(m_peer_id, n)}
       /\ up' = up \cup {Reliable(m_peer_id, n)}
  /\ UNCHANGED <<c_state, m_peer_id, c_heard, c_setting, serverVars, down, faults>>

\* runTimeouts and resendReliable: the packet goes out as it was made.
ClientResends(d) ==
  /\ c_state = "running" /\ d \in c_sent /\ HasRoom(up)
  /\ up' = up \cup {d}
  /\ UNCHANGED <<clientVars, serverVars, down, faults>>

ClientGetsAck(d) ==
  /\ d.type = "ack"
  /\ c_sent' = {s \in c_sent : s.seqnum # d.seqnum}
  /\ After(down, d)
  /\ UNCHANGED <<c_state, m_peer_id, c_next, c_heard, c_setting, up>>

\* handlePacketType_Reliable with SET_PEER_ID in it: acknowledged each time it
\* comes, by the send thread and with the id known by then; looked at the first time.
ClientGetsPeerId(d) ==
  /\ d.type = "set_peer_id"
  /\ c_heard' = TRUE
  /\ c_setting' = IF ~c_heard /\ m_peer_id = PEER_ID_INEXISTENT
                  THEN [at |-> "write", id |-> d.id] ELSE NotSetting
  /\ \E id \in {m_peer_id, d.id} :
       (c_heard => id = m_peer_id) /\ up' = up \cup {Ack(id, 0)}
  /\ After(down, d)
  /\ UNCHANGED <<c_state, m_peer_id, c_next, c_sent>>

\* The client's receive thread.
ClientReceives(d) ==
  /\ c_state = "running" /\ c_setting.at = "idle" /\ d \in down
  /\ \/ ClientGetsAck(d)
     \/ ClientGetsPeerId(d)
     \/ d.type = "disco" /\ Leave /\ UNCHANGED <<up, faults>>
  /\ UNCHANGED serverVars

\* SetPeerID writes the id, which the send thread reads without a lock ...
SetPeerID ==
  /\ c_state = "running" /\ c_setting.at = "write"
  /\ m_peer_id' = c_setting.id
  /\ c_setting' = [c_setting EXCEPT !.at = "fix"]
  /\ UNCHANGED <<c_state, c_next, c_sent, c_heard, serverVars, netVars>>

\* Packets made before the id was known keep the old one.
fix_peer_id_Mutant(sent, p) == sent

\* Packets that wait for their ack take the new id with them when sent again.
fix_peer_id(sent, p) == {Reliable(p, d.seqnum) : d \in sent}

\* ... and then puts the command on which that thread corrects the packets made
\* before.
FixPeerId ==
  /\ c_state = "running" /\ c_setting.at = "fix"
  /\ c_sent' = fix_peer_id(c_sent, c_setting.id)
  /\ c_setting' = NotSetting
  /\ UNCHANGED <<c_state, m_peer_id, c_next, c_heard, serverVars, netVars>>

\* disconnect: one DISCO that is not sent again.
ClientDisconnects ==
  /\ c_state = "running" /\ Leave
  /\ up' = up \cup {Disco(m_peer_id)}
  /\ UNCHANGED <<serverVars, faults>>

\* The server's peer has timed out at the client.
ClientTimesOut ==
  /\ c_state = "running" /\ Leave
  /\ UNCHANGED <<serverVars, up, faults>>

----------------------------------------------------------------------------
(* The server's peers and their use counts.                                *)

\* A PeerHelper of the receive thread keeps the peer.
HeldByReceive(p) == recv.peer = p /\ recv.at # "idle"
HeldBySend(p) == send_peer = p

\* deletePeer by a thread that has found the peer in its list, not in m_peers.
IsThere_Mutant(p) == TRUE

IsThere(p) == p \in m_peers

\* deletePeer: takes the peer off m_peers, puts the event and drops it; it is
\* freed now, or by the last thread that holds it.  Its channels go with it.
DeletePeer(p) ==
  IF IsThere(p)
  THEN /\ m_peers' = m_peers \ {p}
       /\ events' = [events EXCEPT ![p] = Append(@, "removed")]
       /\ m_pending_deletion' = m_pending_deletion \cup {p}
       /\ freed' = IF HeldByReceive(p) \/ HeldBySend(p) THEN freed ELSE freed \cup {p}
       /\ half_open' = half_open \ {p}
       /\ m_pending_disconnect' = m_pending_disconnect \ {p}
       /\ next_in' = [next_in EXCEPT ![p] = 0]
       /\ held_back' = [held_back EXCEPT ![p] = {}]
       /\ unanswered' = unanswered \ {p}
  ELSE UNCHANGED peerVars

\* Each thread frees a peer that is to be deleted when it lets go of it.
DecUseCount_Mutant(p, heldByOther) ==
  freed' = IF p \in m_pending_deletion THEN freed \cup {p} ELSE freed

\* DecUseCount: the last one to let go of a peer that is to be deleted frees it.
DecUseCount(p, heldByOther) ==
  freed' = IF p \in m_pending_deletion /\ ~heldByOther THEN freed \cup {p} ELSE freed

----------------------------------------------------------------------------
(* The server's receive thread.  A peer that is deleted between lookupPeer   *)
(* or createPeer and getPeerNoEx is as one that is deleted right after that, *)
(* before processPacket asks for it again: the two are one step.             *)

Receiving(d) ==
  /\ recv.at = "idle" /\ d \in up /\ Len(m_command_queue) < MaxCommands
  /\ After(up, d)
  /\ UNCHANGED <<clientVars, next_in, held_back, unanswered, m_pending_deletion, freed,
                 m_pending_disconnect, send_peer, timeouted_peers, down>>

HoldAt(at, p) == recv' = [at |-> at, packet |-> Ack(0, 0), peer |-> p]
Hold(d, p) == recv' = [at |-> "held", packet |-> d, peer |-> p]

\* Whatever arrives from the client's address counts as a sign that it has its id.
KnewPeerId_Mutant(d) == TRUE

KnewPeerId(d) == d.id # PEER_ID_INEXISTENT

\* A datagram with a peer id: who has got its id is fully open.
ReceiveKnown(d) ==
  /\ KnewPeerId(d) /\ d.id \in m_peers
  /\ Receiving(d)
  /\ Hold(d, d.id)
  /\ half_open' = half_open \ {d.id}
  /\ UNCHANGED <<m_peers, created, m_command_queue, events>>

\* lookupPeer overlooks peers that have answered.
lookupPeer_Mutant == m_peers \cap half_open

\* lookupPeer: all of the server's peers are at this client's address.
lookupPeer == m_peers

\* The client is not reminded of its id.
Reminded_Mutant(p) == m_command_queue

\* doResendOne
Reminded(p) == Append(m_command_queue, Cmd("RESEND_ONE", p, 0))

\* A datagram without an id from an address that is known: SET_PEER_ID may have
\* been lost and is sent once more.  If it cannot have been, the datagram is ignored.
ReceiveByAddress(d) ==
  /\ d.id = PEER_ID_INEXISTENT
  /\ \E p \in lookupPeer :
       /\ Receiving(d)
       /\ m_command_queue' = Reminded(p)
       /\ IF KnewPeerId(d) \/ p \in half_open THEN Hold(d, p) ELSE UNCHANGED recv
       /\ half_open' = IF KnewPeerId(d) THEN half_open \ {p} ELSE half_open
  /\ UNCHANGED <<m_peers, created, events>>

\* createPeer, all of it under m_peers_mutex.
CreatePeer(d) ==
  /\ d.id = PEER_ID_INEXISTENT /\ lookupPeer = {} /\ created < MaxPeers
  /\ Receiving(d)
  /\ LET p == created + 1 IN
       /\ created' = p
       /\ m_peers' = m_peers \cup {p}
       /\ half_open' = half_open \cup {p}
       /\ m_command_queue' = Append(m_command_queue, Cmd("CREATE_PEER", p, 0))
       /\ events' = [events EXCEPT ![p] = Append(@, "added")]
       /\ Hold(d, p)

\* A datagram of a peer that is gone, or of one peer more than MaxPeers; a datagram
\* that is dropped because there were too many new clients is as one that is lost.
Ignore(d) ==
  /\ d.id \notin m_peers
  /\ d.id = PEER_ID_INEXISTENT => lookupPeer = {} /\ created = MaxPeers
  /\ Receiving(d)
  /\ UNCHANGED <<m_peers, created, half_open, m_command_queue, recv, events>>

\* A packet that came early is acknowledged and not kept.
Kept_Mutant(held, n) == held

\* insert
Kept(held, n) == held \cup {n}

\* The number expected after n has been received and what is held back behind it
\* has been taken from the buffer (getFromBuffers, before the next datagram).
NextExpected(n, held) ==
  CHOOSE m \in n + 1 .. MaxPackets :
    m \notin held /\ \A k \in n + 1 .. m - 1 : k \in held

\* handlePacketType_Reliable; only the dummy packet has data for the application.
ProcessReliable(p, n) ==
  /\ m_command_queue' = Append(m_command_queue, Cmd("ACK", p, n))
  /\ IF n = next_in[p]
     THEN LET next == NextExpected(n, held_back[p]) IN
          /\ next_in' = [next_in EXCEPT ![p] = next]
          /\ held_back' = [held_back EXCEPT ![p] = {k \in @ : k > next}]
     ELSE /\ held_back' = IF n > next_in[p]
                          THEN [held_back EXCEPT ![p] = Kept(@, n)] ELSE held_back
          /\ UNCHANGED next_in
  /\ IF n = 0 /\ next_in[p] = 0
     THEN HoldAt("data", p) /\ UNCHANGED freed
     ELSE recv' = Idle /\ DecUseCount(p, HeldBySend(p))
  /\ UNCHANGED <<m_peers, half_open, m_pending_disconnect, unanswered,
                 m_pending_deletion, events>>

\* An ACK is for SET_PEER_ID, the only reliable packet of a peer here.
ProcessAck(p) ==
  /\ unanswered' = unanswered \ {p}
  /\ recv' = Idle /\ DecUseCount(p, HeldBySend(p))
  /\ UNCHANGED <<m_peers, half_open, m_pending_disconnect, next_in, held_back,
                 m_pending_deletion, events, m_command_queue>>

ProcessDisco(p) ==
  /\ DeletePeer(p)
  /\ HoldAt("done", p)
  /\ UNCHANGED m_command_queue

\* processPacket finds the peer again and handles the packet.
ProcessPacket ==
  /\ recv.at = "held" /\ recv.peer \in m_peers
  /\ \/ recv.packet.type = "reliable" /\ ProcessReliable(recv.peer, recv.packet.seqnum)
     \/ recv.packet.type = "ack" /\ ProcessAck(recv.peer)
     \/ recv.packet.type = "disco" /\ ProcessDisco(recv.peer)
  /\ UNCHANGED <<clientVars, created, send_peer, timeouted_peers, netVars>>

letGoUnchanged == <<clientVars, created, m_peers, half_open, m_pending_disconnect, next_in,
                    held_back, unanswered, m_pending_deletion, m_command_queue, send_peer,
                    timeouted_peers, netVars>>

\* The event with the data: the peer is held, but perhaps not in m_peers any more.
PutDataReceived ==
  /\ recv.at = "data"
  /\ events' = [events EXCEPT ![recv.peer] = Append(@, "data")]
  /\ recv' = Idle /\ DecUseCount(recv.peer, HeldBySend(recv.peer))
  /\ UNCHANGED letGoUnchanged

\* The peer was deleted, by this thread or while it waited for processPacket.
LetGo ==
  /\ recv.at = "done" \/ (recv.at = "held" /\ recv.peer \notin m_peers)
  /\ recv' = Idle /\ DecUseCount(recv.peer, HeldBySend(recv.peer))
  /\ UNCHANGED <<letGoUnchanged, events>>

----------------------------------------------------------------------------
(* The server's send thread: runTimeouts for one peer after the other, then *)
(* the removal of those that have timed out, the commands, sendPackets.     *)

sendUnchanged == <<clientVars, created, recv, up, faults>>
channelVars == <<m_peers, half_open, m_pending_disconnect, next_in, held_back, unanswered>>

Sends(ds) == down' = IF c_state = "running" THEN down \cup ds ELSE down

\* Peers whose connection is not set up yet are left alone.
RunsTimeouts_Mutant(p) == p \in m_peers \ (timeouted_peers \cup half_open)

RunsTimeouts(p) == p \in m_peers \ timeouted_peers

BeginTimeouts(p) ==
  /\ send_peer = 0 /\ RunsTimeouts(p)
  /\ send_peer' = p
  /\ UNCHANGED <<sendUnchanged, peerVars, m_command_queue, timeouted_peers, down>>

\* The end of the loop's body.
EndTimeouts(p) ==
  /\ send_peer = p
  /\ send_peer' = 0
  /\ DecUseCount(p, HeldByReceive(p))
  /\ UNCHANGED <<sendUnchanged, channelVars, m_pending_deletion, events, m_command_queue>>

\* isTimedOut; a half-open peer is given less time.
TimesOut(p) ==
  /\ EndTimeouts(p)
  /\ timeouted_peers' = timeouted_peers \cup {p}
  /\ UNCHANGED down

\* Nothing is sent again to a peer that is half open.
ServerResends(p) ==
  /\ EndTimeouts(p)
  /\ HasRoom(down) \/ p \notin unanswered
  /\ Sends({SetPeerIdPacket(q) : q \in {p} \cap (unanswered \ half_open)})
  /\ UNCHANGED timeouted_peers

RemoveTimedOut(p) ==
  /\ send_peer = 0 /\ p \in timeouted_peers
  /\ DeletePeer(p)
  /\ timeouted_peers' = timeouted_peers \ {p}
  /\ UNCHANGED <<sendUnchanged, m_command_queue, send_peer, down>>

\* What a command sends to its peer.
Answer(c) ==
  CASE c.type = "CREATE_PEER" -> {SetPeerIdPacket(c.peer_id)}
    [] c.type = "RESEND_ONE" -> {SetPeerIdPacket(p) : p \in {c.peer_id} \cap unanswered}
    [] c.type = "ACK" -> {Ack(1, c.seqnum)}
    [] c.type = "DISCONNECT_PEER" -> {Disco(1)}
    [] OTHER -> {}

\* processReliableCommand and processNonReliableCommand: a command for a peer
\* that is gone does nothing.
ServerCommand ==
  /\ send_peer = 0 /\ timeouted_peers = {} /\ m_command_queue # <<>>
  /\ m_command_queue' = Tail(m_command_queue)
  /\ LET c == Head(m_command_queue)
         to == {c.peer_id} \cap m_peers
     IN /\ Sends(IF to = {} THEN {} ELSE Answer(c))
        /\ unanswered' = unanswered \cup (IF c.type = "CREATE_PEER" THEN to ELSE {})
        /\ m_pending_disconnect' =
             m_pending_disconnect \cup (IF c.type = "DISCONNECT_PEER" THEN to ELSE {})
  /\ UNCHANGED <<sendUnchanged, m_peers, half_open, next_in, held_back,
                 m_pending_deletion, freed, events, send_peer, timeouted_peers>>

\* The end of sendPackets: DISCO has gone out once.
RemoveDisconnected(p) ==
  /\ send_peer = 0 /\ timeouted_peers = {} /\ p \in m_pending_disconnect
  /\ DeletePeer(p)
  /\ UNCHANGED <<sendUnchanged, m_command_queue, send_peer, timeouted_peers, down>>

\* DisconnectPeer, by the server's application, of a client it has heard from.
DisconnectPeer(p) ==
  /\ p \in m_peers \ (half_open \cup m_pending_disconnect)
  /\ Len(m_command_queue) < MaxCommands
  /\ m_command_queue' = Append(m_command_queue, Cmd("DISCONNECT_PEER", p, 0))
  /\ UNCHANGED <<clientVars, peerVars, created, recv, send_peer, timeouted_peers, netVars>>

----------------------------------------------------------------------------
ServerReceives(d) ==
  ReceiveKnown(d) \/ ReceiveByAddress(d) \/ CreatePeer(d) \/ Ignore(d)

ClientNext ==
  \/ Connect \/ Ping \/ SetPeerID \/ FixPeerId
  \/ ClientDisconnects \/ ClientTimesOut
  \/ \E d \in c_sent : ClientResends(d)
  \/ \E d \in down : ClientReceives(d)

ReceiveNext ==
  \/ \E d \in up : ServerReceives(d)
  \/ ProcessPacket \/ PutDataReceived \/ LetGo

SendNext ==
  \/ ServerCommand
  \/ \E p \in Peers : \/ BeginTimeouts(p) \/ TimesOut(p) \/ ServerResends(p)
                      \/ RemoveTimedOut(p) \/ RemoveDisconnected(p)

Next == ClientNext \/ ReceiveNext \/ SendNext \/ Lose \/ (\E p \in Peers : DisconnectPeer(p))

Spec == Init /\ [][Next]_vars

\* The threads keep running, the send thread also comes to its commands between
\* two rounds of timeouts; a datagram that is on the way is lost (at most
\* MaxFaults are) or arrives; a client pings as long as it has pings; a peer whose
\* client is gone and of which nothing more arrives times out.
Fairness ==
  /\ WF_vars(Ping) /\ WF_vars(SetPeerID) /\ WF_vars(FixPeerId)
  /\ \A n \in Seqnums :
       /\ WF_vars(\E d \in c_sent : d.seqnum = n /\ ClientResends(d))
       /\ WF_vars(\E d \in down : d = Ack(1, n) /\ ClientReceives(d) /\ d \notin down')
  /\ WF_vars(\E d \in down : d.type # "ack" /\ ClientReceives(d) /\ d \notin down')
  /\ WF_vars(\E d \in up : ServerReceives(d) /\ d \notin up')
  /\ WF_vars(ProcessPacket) /\ WF_vars(PutDataReceived) /\ WF_vars(LetGo)
  /\ WF_vars(\E p \in Peers : BeginTimeouts(p))
  /\ WF_vars(\E p \in Peers : ServerResends(p))
  /\ WF_vars(\E p \in Peers : RemoveTimedOut(p))
  /\ SF_vars(ServerCommand)
  /\ SF_vars(\E p \in Peers : RemoveDisconnected(p))
  /\ SF_vars(\E p \in Peers : TimesOut(p) /\ c_state = "gone" /\ up = {})

LiveSpec == Spec /\ Fairness

----------------------------------------------------------------------------
(* Properties.                                                             *)

ClientTypeOK ==
  /\ c_state \in {"new", "running", "gone"}
  /\ m_peer_id \in PeerIds
  /\ c_next \in 0 .. MaxPackets
  /\ c_sent \subseteq Datagram
  /\ c_heard \in BOOLEAN
  /\ c_setting \in [at : {"idle", "write", "fix"}, id : PeerIds]

PeersTypeOK ==
  /\ created \in PeerIds
  /\ m_peers \subseteq 1 .. created
  /\ half_open \subseteq Peers
  /\ m_pending_disconnect \subseteq Peers
  /\ next_in \in [Peers -> 0 .. MaxPackets]
  /\ held_back \in [Peers -> SUBSET Seqnums]
  /\ unanswered \subseteq Peers
  /\ m_pending_deletion \subseteq 1 .. created
  /\ freed \subseteq m_pending_deletion
  /\ events \in [Peers -> Seq({"added", "data", "removed"})]

ThreadsTypeOK ==
  /\ m_command_queue \in Seq(Command)
  /\ recv \in [at : {"idle", "held", "data", "done"},
               packet : Datagram, peer : PeerIds]
  /\ send_peer \in PeerIds
  /\ timeouted_peers \subseteq Peers

NetTypeOK ==
  /\ up \subseteq Datagram
  /\ down \subseteq Datagram
  /\ faults \in 0 .. MaxFaults

TypeOK == ClientTypeOK /\ PeersTypeOK /\ ThreadsTypeOK /\ NetTypeOK

\* However often the client is given up and heard of again, the server has one
\* peer for it: lookupPeer finds the peer that is there (impl.cpp:1361).
OnePeerPerAddress == \A p, q \in m_peers : p = q

\* A peer that one thread deletes stays until the other has let go of it, and is
\* freed by then (impl.cpp:880, 958).
NoDanglingPeer ==
  \A p \in Peers :
    /\ HeldByReceive(p) \/ HeldBySend(p) => p \notin freed
    /\ p \in 1 .. created /\ p \notin m_peers /\ ~HeldByReceive(p) /\ ~HeldBySend(p)
         => p \in freed

\* The application is told of each peer once that it came and at most once that
\* it went, though two threads may delete it; data comes after the first, once
\* for the dummy packet, and may come after the second (impl.cpp:1406).
EventsInOrder ==
  \A p \in 1 .. created :
    events[p] \in {<<"added">>, <<"added", "data">>, <<"added", "removed">>,
                   <<"added", "data", "removed">>, <<"added", "removed", "data">>}

\* Resending to a peer only begins when its client has its id: a peer that is
\* fully open, and has not been removed, is the one the client knows (threads.cpp:1027).
FullyOpenIsKnown ==
  c_state = "running" => \A p \in m_peers \ half_open : p \in {m_peer_id, c_setting.id}

\* The client forgets a packet that is acknowledged: as long as the server has
\* known it as one peer only, that peer has got the packet or keeps it.
AckedIsReceived ==
  c_state = "running" /\ created = 1 /\ 1 \in m_peers =>
    \A n \in 0 .. c_next - 1 :
      (\A d \in c_sent : d.seqnum # n) => n < next_in[1] \/ n \in held_back[1]

GivenUp == c_state # "running" \/ created > 1 \/ "removed" \in {events[1][i] : i \in 1 .. Len(events[1])}

\* A connection that is not given up is established for good: the client has its
\* id and the server knows it has; and every packet gets received and acknowledged,
\* however the id got lost on its way (threads.cpp:968).
Established ==
  /\ <>[](GivenUp \/ (m_peer_id = 1 /\ half_open = {} /\ unanswered = {}))
  /\ []<>(GivenUp \/ (c_sent = {} /\ next_in[1] = c_next))

\* A client that left, also one whose DISCO was lost, is removed and freed in the
\* end, and so is a peer that a late datagram of it has made.
GoneIsRemoved ==
  c_state = "gone" ~> (m_peers = {} /\ freed = 1 .. created)
=============================================================================
