----------------------------- MODULE MtpChannel -----------------------------
(***************************************************************************)
(* One direction of one reliable channel between two fully open MTP peers: *)
(* the sender's half of con::Channel with the ConnectionSendThread, the    *)
(* receiver's half with the ConnectionReceiveThread, and the UDP datagrams *)
(* between them (src/network/mtp/{impl,threads}.cpp).                      *)
(*                                                                         *)
(* A packet is its sequence number and the position in the stream of what  *)
(* it carries.  No guard or assignment of the program's part reads the     *)
(* position; it is there to state what is delivered, and how old a         *)
(* datagram may get in the network.                                        *)
(***************************************************************************)
EXTENDS MtpSeqnum, FiniteSets, Sequences

CONSTANTS
  MAX_RELIABLE_WINDOW_SIZE_SEND,  \* 2048
  START_RELIABLE_WINDOW_SIZE,     \* 64
  MIN_RELIABLE_WINDOW_SIZE,       \* 32
  WindowSteps,                    \* what UpdateTimers may add to the window
  m_max_packets_requeued,         \* 256
  MaxChunks,      \* packets the largest message is split into
  MaxData,        \* packets handed over in a behaviour (bound)
  MaxInFlight,    \* packets, and acks, in the network at a time (bound)
  DataLifetime,   \* numbers granted while a copy of a packet can still arrive
  AckLifetime     \* the same for an ack

MaxOf(a, b) == IF a >= b THEN a ELSE b

\* The longest queued_reliables at which a command is still split into packets.
QueueLimit ==
  MaxOf(MAX_RELIABLE_WINDOW_SIZE_SEND \div 2, m_max_packets_requeued)

ASSUME ChannelAssumption ==
  /\ START_RELIABLE_WINDOW_SIZE \in Nat
  /\ MIN_RELIABLE_WINDOW_SIZE \in Nat
  /\ MAX_RELIABLE_WINDOW_SIZE_SEND \in Nat
  /\ MIN_RELIABLE_WINDOW_SIZE <= MAX_RELIABLE_WINDOW_SIZE_SEND
  /\ WindowSteps \subseteq Int
  /\ m_max_packets_requeued \in Nat
  /\ MaxChunks \in Nat /\ MaxData \in Nat /\ MaxInFlight \in Nat
  /\ DataLifetime \in Nat /\ AckLifetime \in Nat

VARIABLES
  peer,                     \* the sender's UDPPeer: "open", then
                            \* "disconnecting" (m_pending_disconnect), "deleted"
  \* the sender's Channel
  next_outgoing_seqnum,
  m_window_size,
  queued_commands,          \* commands not yet split into packets
  queued_reliables,         \* packets not yet sent
  outgoing_reliables_sent,  \* packets sent and not acknowledged
  \* the receiver's Channel
  next_incoming_seqnum,
  incoming_reliables,       \* packets that came too early
  \* the network
  packets, acks,
  \* history
  accepted,                 \* packets handed over by the application
  allocated,                \* sequence numbers granted
  delivered                 \* positions handed to the receiving application

senderVars == <<next_outgoing_seqnum, m_window_size, queued_commands,
                queued_reliables, outgoing_reliables_sent, accepted, allocated>>
receiverVars == <<next_incoming_seqnum, incoming_reliables, delivered>>
vars == <<peer, senderVars, receiverVars, packets, acks>>

Packet == [seqnum : Seqnum, data : Nat]
Command == [first : Nat, chunks : 1 .. MaxChunks]

-----------------------------------------------------------------------------
\* No lower limit.
setWindowSize_Mutant(size) ==
  IF size > MAX_RELIABLE_WINDOW_SIZE_SEND THEN MAX_RELIABLE_WINDOW_SIZE_SEND
  ELSE size

\* Channel::setWindowSize
setWindowSize(size) ==
  IF size < MIN_RELIABLE_WINDOW_SIZE THEN MIN_RELIABLE_WINDOW_SIZE
  ELSE IF size > MAX_RELIABLE_WINDOW_SIZE_SEND THEN MAX_RELIABLE_WINDOW_SIZE_SEND
  ELSE size

Init ==
  /\ peer = "open"
  /\ next_outgoing_seqnum = SEQNUM_INITIAL
  /\ next_incoming_seqnum = SEQNUM_INITIAL
  /\ m_window_size = setWindowSize(START_RELIABLE_WINDOW_SIZE)
  /\ queued_commands = <<>>
  /\ queued_reliables = <<>>
  /\ outgoing_reliables_sent = {}
  /\ incoming_reliables = {}
  /\ packets = {} /\ acks = {}
  /\ accepted = 0 /\ allocated = 0
  /\ delivered = <<>>

-----------------------------------------------------------------------------
(* The sender.                                                             *)

\* ReliablePacketBuffer::getFirstSeqnum of the outgoing buffer, whose list runs
\* upwards to next_outgoing_seqnum: the packet the farthest behind it.
FirstSent ==
  CHOOSE p \in outgoing_reliables_sent :
    \A q \in outgoing_reliables_sent :
      Ahead(q.seqnum, next_outgoing_seqnum)
        <= Ahead(p.seqnum, next_outgoing_seqnum)

\* getOutgoingSequenceNumber grants the number next.
Grants(next) ==
  outgoing_reliables_sent # {} =>
    ~ExceedsWindow(FirstSent.seqnum, next, m_window_size)

(* processReliableSendCommand gets a number for every packet of a command.  *)
(* An ack that comes meanwhile only lets more be granted, so that it makes *)
(* no difference that all numbers are taken in one step.                   *)
Number(i) == (next_outgoing_seqnum + i) % Modulus
CanAllocate(cmd) == \A i \in 0 .. cmd.chunks - 1 : Grants(Number(i))
\* How many numbers it gets before one is refused.
Granted(cmd) ==
  Cardinality({i \in 0 .. cmd.chunks - 1 : \A j \in 0 .. i : Grants(Number(j))})

\* Its packets are numbered and queued.
Allocate(cmd) ==
  /\ queued_reliables' = queued_reliables \o
       [i \in 1 .. cmd.chunks |->
          [seqnum |-> (next_outgoing_seqnum + i - 1) % Modulus,
           data   |-> cmd.first + i - 1]]
  /\ next_outgoing_seqnum' = (next_outgoing_seqnum + cmd.chunks) % Modulus
  /\ allocated' = allocated + cmd.chunks

\* Not wrapped.
IsLastGranted_Mutant(seqnum, next) == seqnum + 1 = next

\* putBackSequenceNumber takes a number back when it is the last that was granted.
IsLastGranted(seqnum, next) == (seqnum + 1) % Modulus = next

\* What is left of n numbers that are put back one by one, the last one first, until one
\* is not taken back, at which the program ends.
AfterPutBack(n) ==
  Number(CHOOSE i \in 0 .. n :
           /\ \A j \in i .. n - 1 : IsLastGranted(Number(j), Number(j + 1))
           /\ i > 0 => ~IsLastGranted(Number(i - 1), Number(i)))

\* When one number is refused, those granted before are put back.
PutsBack(cmd) ==
  /\ next_outgoing_seqnum' = AfterPutBack(Granted(cmd))
  /\ UNCHANGED <<queued_reliables, allocated>>

\* Older commands that wait are not looked at.
SplitsNow ==
  queued_commands = <<>> /\ Len(queued_reliables) + 1 < m_window_size \div 2

\* The application sends a message that takes chunks packets.
PutReliableSendCommand(chunks) ==
  LET cmd == [first |-> accepted, chunks |-> chunks]
  IN  /\ peer = "open"
      /\ accepted + chunks <= MaxData
      /\ accepted' = accepted + chunks
      /\ \/ /\ SplitsNow /\ CanAllocate(cmd)
            /\ Allocate(cmd) /\ UNCHANGED queued_commands
         \/ /\ SplitsNow /\ ~CanAllocate(cmd) /\ PutsBack(cmd)
            /\ queued_commands' = Append(queued_commands, cmd)
         \/ /\ ~SplitsNow
            /\ queued_commands' = Append(queued_commands, cmd)
            /\ UNCHANGED <<queued_reliables, next_outgoing_seqnum, allocated>>
      /\ UNCHANGED <<peer, m_window_size, outgoing_reliables_sent, receiverVars,
                     packets, acks>>

\* A command of a disconnecting peer is dropped: processReliableSendCommand
\* reports success without queueing a packet.
RunCommandQueues ==
  /\ peer # "deleted"
  /\ queued_commands # <<>>
  /\ Len(queued_reliables) < m_max_packets_requeued
  /\ LET cmd == Head(queued_commands)
     IN  \/ /\ peer = "open" /\ CanAllocate(cmd) /\ Allocate(cmd)
            /\ queued_commands' = Tail(queued_commands)
         \/ /\ peer = "open" /\ ~CanAllocate(cmd) /\ PutsBack(cmd)
            /\ UNCHANGED queued_commands
         \/ /\ peer = "disconnecting"
            /\ queued_commands' = Tail(queued_commands)
            /\ UNCHANGED <<queued_reliables, next_outgoing_seqnum, allocated>>
  /\ UNCHANGED <<peer, m_window_size, outgoing_reliables_sent, accepted,
                 receiverVars, packets, acks>>

\* A datagram is lost or put on the wire; those too old to arrive are gone.
Sent(net, d, lifetime) ==
  LET live == {x \in net : allocated - x.data <= lifetime}
  IN  {n \in {live, live \cup {d}} : Cardinality(n) <= MaxInFlight}

\* insert with the sender's window in place of the one packets are acked by.
Inserted_Mutant(buffer, p, next_expected) ==
  IF /\ seqnum_in_window(p.seqnum, next_expected, MAX_RELIABLE_WINDOW_SIZE_SEND)
     /\ p.seqnum # next_expected
     /\ \A q \in buffer : q.seqnum # p.seqnum
  THEN buffer \cup {p}
  ELSE buffer

\* ReliablePacketBuffer::insert as a set: nothing outside the window that
\* starts at next_expected, nor next_expected itself, nor a number twice.
Inserted(buffer, p, next_expected) ==
  IF /\ seqnum_in_window(p.seqnum, next_expected, MAX_RELIABLE_WINDOW_SIZE)
     /\ p.seqnum # next_expected
     /\ \A q \in buffer : q.seqnum # p.seqnum
  THEN buffer \cup {p}
  ELSE buffer

\* The receiver's next_expected used for the sent packets.
WindowBehind_Mutant(next) == next

\* sendAsPacketReliable's next_expected, as the u16 it is passed in.
WindowBehind(next) == (next - MAX_RELIABLE_WINDOW_SIZE) % Modulus

\* One round of the loop of sendPackets.
SendQueued ==
  /\ peer # "deleted"
  /\ queued_reliables # <<>>
  /\ Cardinality(outgoing_reliables_sent) < m_window_size
  /\ outgoing_reliables_sent' =
       Inserted(outgoing_reliables_sent, Head(queued_reliables),
                WindowBehind(next_outgoing_seqnum))
  /\ queued_reliables' = Tail(queued_reliables)
  /\ packets' \in Sent(packets, Head(queued_reliables), DataLifetime)
  /\ UNCHANGED <<peer, next_outgoing_seqnum, m_window_size, queued_commands,
                 accepted, allocated, receiverVars, acks>>

\* runTimeouts: the packet has waited for longer than its resend timeout.
Resend(p) ==
  /\ peer # "deleted"
  /\ p \in outgoing_reliables_sent
  /\ packets' \in Sent(packets, p, DataLifetime)
  /\ UNCHANGED <<peer, senderVars, receiverVars, acks>>

\* An ack that stands for everything sent before it.
HandleAck_Mutant(a) ==
  /\ peer # "deleted"
  /\ a \in acks
  /\ allocated - a.data <= AckLifetime
  /\ outgoing_reliables_sent' =
       {p \in outgoing_reliables_sent : seqnum_higher(p.seqnum, a.seqnum)}
  /\ acks' \in {acks, acks \ {a}}
  /\ UNCHANGED <<peer, next_outgoing_seqnum, m_window_size, queued_commands,
                 queued_reliables, accepted, allocated, receiverVars, packets>>

\* The ACK branch of handlePacketType_Control: popSeqnum.
HandleAck(a) ==
  /\ peer # "deleted"
  /\ a \in acks
  /\ allocated - a.data <= AckLifetime
  /\ outgoing_reliables_sent' =
       {p \in outgoing_reliables_sent : p.seqnum # a.seqnum}
  /\ acks' \in {acks, acks \ {a}}
  /\ UNCHANGED <<peer, next_outgoing_seqnum, m_window_size, queued_commands,
                 queued_reliables, accepted, allocated, receiverVars, packets>>

\* Channel::UpdateTimers, for whatever loss the last second has counted.
UpdateTimers ==
  /\ peer # "deleted"
  /\ \E step \in WindowSteps : m_window_size' = setWindowSize(m_window_size + step)
  /\ UNCHANGED <<peer, next_outgoing_seqnum, queued_commands, queued_reliables,
                 outgoing_reliables_sent, accepted, allocated, receiverVars,
                 packets, acks>>

\* disconnect_peer: what has a number is still sent, nothing more is numbered.
DisconnectPeer ==
  /\ peer = "open"
  /\ peer' = "disconnecting"
  /\ UNCHANGED <<senderVars, receiverVars, packets, acks>>

\* deletePeer, at the end of sendPackets or because the peer has timed out.  The
\* buffers go with the peer: they keep their last value and are never read.
DeletePeer ==
  /\ peer # "deleted"
  /\ peer' = "deleted"
  /\ UNCHANGED <<senderVars, receiverVars, packets, acks>>

-----------------------------------------------------------------------------
(* The receiver.                                                           *)

\* Whatever the front is, it is taken.
Buffered_Mutant(seqnum) ==
  {p \in incoming_reliables :
     \A q \in incoming_reliables : Ahead(seqnum, p.seqnum) <= Ahead(seqnum, q.seqnum)}

\* The front of the sorted incoming buffer is the next packet: with the list
\* running upwards from next_incoming_seqnum it can only be the front.
Buffered(seqnum) == {p \in incoming_reliables : p.seqnum = seqnum}

\* receive() looks at the buffers first, and at the socket when they have
\* nothing that is due.
Drained == Buffered(next_incoming_seqnum) = {}

\* checkIncomingBuffers
CheckIncomingBuffers ==
  \E p \in Buffered(next_incoming_seqnum) :
    /\ incoming_reliables' = incoming_reliables \ {p}
    /\ next_incoming_seqnum' = (next_incoming_seqnum + 1) % Modulus
    /\ delivered' = Append(delivered, p.data)
    /\ UNCHANGED <<peer, senderVars, packets, acks>>

InReceiveWindow(p) ==
  seqnum_in_window(p.seqnum, next_incoming_seqnum, MAX_RELIABLE_WINDOW_SIZE)

\* A packet the receiver has had is not acknowledged again.
IsAcked_Mutant(p) == InReceiveWindow(p)

\* A packet is acknowledged when it is in the receive window, and again when it
\* is older; one that is newer than the window is left to be sent again.
IsAcked(p) == InReceiveWindow(p) \/ seqnum_higher(next_incoming_seqnum, p.seqnum)

\* A datagram can still arrive.
Arrives(p) == p \in packets /\ allocated - p.data <= DataLifetime

\* handlePacketType_Reliable
HandleReliable(p) ==
  /\ Arrives(p)
  /\ Drained
  /\ packets' \in {packets, packets \ {p}}
  /\ acks' \in IF IsAcked(p) THEN Sent(acks, p, AckLifetime) ELSE {acks}
  /\ IF InReceiveWindow(p)
     THEN IF p.seqnum = next_incoming_seqnum
          THEN /\ next_incoming_seqnum' = (next_incoming_seqnum + 1) % Modulus
               /\ delivered' = Append(delivered, p.data)
               /\ UNCHANGED incoming_reliables
          ELSE /\ incoming_reliables' =
                    Inserted(incoming_reliables, p, next_incoming_seqnum)
               /\ UNCHANGED <<next_incoming_seqnum, delivered>>
     ELSE UNCHANGED receiverVars
  /\ UNCHANGED <<peer, senderVars>>

-----------------------------------------------------------------------------
SenderNext ==
  \/ \E c \in 1 .. MaxChunks : PutReliableSendCommand(c)
  \/ RunCommandQueues
  \/ SendQueued
  \/ \E p \in outgoing_reliables_sent : Resend(p)
  \/ \E a \in acks : HandleAck(a)
  \/ UpdateTimers
  \/ DisconnectPeer
  \/ DeletePeer

ReceiverNext ==
  \/ CheckIncomingBuffers
  \/ \E p \in packets : HandleReliable(p)

Next == SenderNext \/ ReceiverNext

Spec == Init /\ [][Next]_vars

\* Scheduling: both threads keep running, and the network is fair: a datagram
\* sent over and over again arrives, and so does an ack.
Fairness ==
  /\ WF_vars(RunCommandQueues)
  /\ WF_vars(SendQueued)
  /\ WF_vars(CheckIncomingBuffers)
  /\ \A d \in 0 .. MaxData - 1 :
       /\ SF_vars(\E p \in outgoing_reliables_sent :
                   p.data = d /\ Resend(p) /\ p \in packets')
       /\ SF_vars(\E p \in packets :
                   p.data = d /\ HandleReliable(p) /\ p \notin packets'
                              /\ (IsAcked(p) => p \in acks'))
       /\ WF_vars(\E a \in acks : a.data = d /\ HandleAck(a) /\ a \notin acks')

LiveSpec == Spec /\ Fairness

-----------------------------------------------------------------------------
(* Properties.                                                             *)

TypeOK ==
  /\ peer \in {"open", "disconnecting", "deleted"}
  /\ next_outgoing_seqnum \in Seqnum
  /\ m_window_size \in MIN_RELIABLE_WINDOW_SIZE .. MAX_RELIABLE_WINDOW_SIZE_SEND
  /\ queued_commands \in Seq(Command)
  /\ queued_reliables \in Seq(Packet)
  /\ outgoing_reliables_sent \subseteq Packet
  /\ next_incoming_seqnum \in Seqnum
  /\ incoming_reliables \subseteq Packet
  /\ packets \subseteq Packet
  /\ acks \subseteq Packet
  /\ accepted \in Nat
  /\ allocated \in Nat
  /\ delivered \in Seq(Nat)

Received(d) ==
  d < Len(delivered) \/ \E p \in incoming_reliables : p.data = d

\* Packets come out once each and in the order they were accepted, whatever the
\* network loses, repeats and reorders and however often the numbers wrap.
InOrderDelivery == \A i \in DOMAIN delivered : delivered[i] = i - 1

\* A packet that has a number is never forgotten: until the receiver has it, it
\* waits in the queue or in the buffer it is sent again from.
NothingForgotten ==
  \A d \in 0 .. allocated - 1 :
    \/ Received(d)
    \/ \E p \in outgoing_reliables_sent : p.data = d
    \/ \E i \in DOMAIN queued_reliables : queued_reliables[i].data = d

\* A packet is acknowledged only when the receiver has it, so that the ack may
\* remove it from the sender's buffer.
AckMeansReceived == \A a \in acks : Received(a.data)

\* An ack that arrives removes the packet it was sent for, never a newer one
\* that carries the same number.
AckNamesItsPacket ==
  \A a \in acks, p \in outgoing_reliables_sent :
    allocated - a.data <= AckLifetime /\ a.seqnum = p.seqnum => a = p

\* The receiver tells a packet it has had from one it waits for by the number
\* alone, whichever copy arrives.
OldAndNewAreToldApart ==
  \A p \in packets :
    Arrives(p) /\ Drained => (InReceiveWindow(p) <=> p.data >= Len(delivered))

\* Whatever the window does, the packets that wait for an ack stay within half
\* of the number space behind the next number.
SpanFitsWindow ==
  /\ \A p \in outgoing_reliables_sent :
       allocated - p.data < MAX_RELIABLE_WINDOW_SIZE
  /\ \A i \in DOMAIN queued_reliables :
       allocated - queued_reliables[i].data < MAX_RELIABLE_WINDOW_SIZE

Stream == INSTANCE ReliableStream WITH open <- peer = "open"

\* The channel does what the notes of internal.h promise of reliable packets.
StreamSpec == Stream!Spec

\* What the application hands over is delivered, or the peer is given up.
AcceptedIsDelivered ==
  \A n \in 1 .. MaxData :
    accepted >= n ~> Len(delivered) >= n \/ peer # "open"
=============================================================================
