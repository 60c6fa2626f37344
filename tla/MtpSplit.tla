------------------------------ MODULE MtpSplit ------------------------------
(***************************************************************************)
(* Messages longer than a packet on one MTP channel: makeAutoSplitPacket   *)
(* at the sender, IncomingSplitBuffer at the receiver, for reliable and    *)
(* unreliable messages at once, which share the split numbers.             *)
(*                                                                         *)
(* Below the reliable messages lies the stream that MtpChannel provides;   *)
(* unreliable chunks are lost, repeated and reordered.  What a chunk       *)
(* carries is the message it belongs to; the program never looks at it.    *)
(***************************************************************************)
EXTENDS MtpSeqnum, FiniteSets, Sequences

CONSTANTS
  MaxChunks,      \* packets of the longest message
  MaxReliable,    \* reliable messages in a behaviour (bound)
  MaxUnreliable,  \* unreliable messages in a behaviour (bound)
  MaxRefused,     \* reliable commands refused for want of window (bound)
  ChunkLifetime,  \* split numbers taken while a chunk is still on its way
  SplitTimeout    \* the same while an incomplete unreliable message is kept

\* The numbers do not come round while anything of a message may be left: 65536
\* split messages take longer than the timeout of 30 seconds and a slow packet.
ASSUME SplitAssumption ==
  /\ MaxChunks \in Nat /\ MaxReliable \in Nat /\ MaxUnreliable \in Nat
  /\ MaxRefused \in Nat
  /\ ChunkLifetime \in Nat /\ SplitTimeout \in Nat
  /\ ChunkLifetime + SplitTimeout <= Modulus

VARIABLES
  \* the sender's Channel
  next_outgoing_split_seqnum,
  queued_commands,   \* reliable messages that have not been given packets
  \* on the way
  stream,            \* reliable chunks, in order (MtpChannel)
  network,           \* unreliable chunks
  \* the receiver's Channel
  m_buf,             \* IncomingSplitBuffer: incomplete messages by number
  \* history
  taken,             \* split numbers taken
  reliables, unreliables, refused,   \* how many there were
  delivered,         \* what came out of the stream, in order
  heard              \* what came out of unreliable chunks

senderVars == <<next_outgoing_split_seqnum, queued_commands, taken, reliables,
                unreliables, refused>>
vars == <<senderVars, stream, network, m_buf, delivered, heard>>

Message == [reliable : BOOLEAN, id : Nat, size : 1 .. MaxChunks]

Init ==
  /\ next_outgoing_split_seqnum = SEQNUM_INITIAL
  /\ queued_commands = <<>>
  /\ stream = <<>> /\ network = {}
  /\ m_buf = <<>>
  /\ taken = 0 /\ reliables = 0 /\ unreliables = 0 /\ refused = 0
  /\ delivered = <<>> /\ heard = {}

-----------------------------------------------------------------------------
(* The sender.                                                             *)

\* Only a message of more than one packet is split.
IsSplit(msg) == msg.size > 1

\* makeAutoSplitPacket: the headers of its chunks.
Chunks(msg) ==
  [i \in 1 .. msg.size |->
     [seqnum |-> next_outgoing_split_seqnum, chunk_num |-> i - 1, msg |-> msg,
      at |-> taken]]

\* The unreliable chunks that may still arrive.
OnTheirWay == {c \in network : taken - c.at <= ChunkLifetime}

\* Split numbers are not taken faster than the network and the timeouts let go.
MayTake ==
  /\ \A i \in DOMAIN stream :
       IsSplit(stream[i].msg) => taken - stream[i].at < ChunkLifetime
  /\ \A s \in DOMAIN m_buf :
       ~m_buf[s].reliable => taken - m_buf[s].born < SplitTimeout

\* The counter of a message sent unreliably is not written back.
SetNextSplitSeqNum_Mutant(msg) ==
  IF IsSplit(msg) /\ msg.reliable THEN (next_outgoing_split_seqnum + 1) % Modulus
  ELSE next_outgoing_split_seqnum

\* The number after a message was split, the u16 that is written back.
SetNextSplitSeqNum(msg) ==
  IF IsSplit(msg) THEN (next_outgoing_split_seqnum + 1) % Modulus
  ELSE next_outgoing_split_seqnum

TakeNumber(msg) ==
  /\ IsSplit(msg) => MayTake
  /\ next_outgoing_split_seqnum' = SetNextSplitSeqNum(msg)
  /\ taken' = taken + IF IsSplit(msg) THEN 1 ELSE 0

KeepNumber == UNCHANGED <<next_outgoing_split_seqnum, taken>>

\* ConnectionSendThread::send
Send(size) ==
  LET msg == [reliable |-> FALSE, id |-> unreliables, size |-> size]
  IN  /\ unreliables < MaxUnreliable
      /\ unreliables' = unreliables + 1
      /\ TakeNumber(msg)
      /\ network' = OnTheirWay \cup {Chunks(msg)[i] : i \in 1 .. size}
      /\ UNCHANGED <<queued_commands, reliables, refused, stream, m_buf,
                     delivered, heard>>

\* processReliableSendCommand has split the message and finds numbers for all
\* its packets.
Granted(msg) ==
  /\ TakeNumber(msg)
  /\ stream' = stream \o Chunks(msg)
  /\ UNCHANGED refused

\* The same, and the window has no room: the split number is gone nonetheless.
Refused(msg) ==
  /\ refused < MaxRefused
  /\ refused' = refused + 1
  /\ TakeNumber(msg)
  /\ UNCHANGED stream

MayTry_Mutant == TRUE

\* A new command is tried at once only if none is waiting.
MayTry == queued_commands = <<>>

\* UDPPeer::PutReliableSendCommand; MtpChannel says when a command is tried and
\* when it is refused.
PutReliableSendCommand(size) ==
  LET msg == [reliable |-> TRUE, id |-> reliables, size |-> size]
  IN  /\ reliables < MaxReliable
      /\ reliables' = reliables + 1
      /\ \/ MayTry /\ Granted(msg) /\ UNCHANGED queued_commands
         \/ /\ MayTry /\ Refused(msg)
            /\ queued_commands' = Append(queued_commands, msg)
         \/ /\ KeepNumber /\ UNCHANGED <<stream, refused>>
            /\ queued_commands' = Append(queued_commands, msg)
      /\ UNCHANGED <<unreliables, network, m_buf, delivered, heard>>

\* UDPPeer::RunCommandQueues splits the message again each time it is tried.
RunCommandQueues ==
  /\ queued_commands # <<>>
  /\ \/ /\ Granted(Head(queued_commands))
        /\ queued_commands' = Tail(queued_commands)
     \/ Refused(Head(queued_commands)) /\ UNCHANGED queued_commands
  /\ UNCHANGED <<reliables, unreliables, network, m_buf, delivered, heard>>

-----------------------------------------------------------------------------
(* The receiver.                                                           *)

\* The entry of a chunk, a new one if there is none.
Entry(c, reliable) ==
  IF c.seqnum \in DOMAIN m_buf THEN m_buf[c.seqnum]
  ELSE [chunk_count |-> c.msg.size, reliable |-> reliable, chunks |-> <<>>,
        born |-> taken]

\* A chunk of a message with another count, or one that is there already.
IsIgnored(c, sp) ==
  c.msg.size # sp.chunk_count \/ c.chunk_num \in DOMAIN sp.chunks

WithChunk(c, sp) ==
  [sp EXCEPT !.chunks =
     [n \in DOMAIN sp.chunks \cup {c.chunk_num} |->
        IF n = c.chunk_num THEN c.msg ELSE sp.chunks[n]]]

AllReceived(sp) == Cardinality(DOMAIN sp.chunks) = sp.chunk_count

\* What the message is put together from, chunk by chunk.
HandUp(data, reliable) ==
  IF reliable THEN delivered' = Append(delivered, data) /\ UNCHANGED heard
              ELSE heard' = heard \cup {data} /\ UNCHANGED delivered

\* IncomingSplitBuffer::insert, and for a packet of its own
\* handlePacketType_Original.
Handle(c, reliable) ==
  LET sp   == Entry(c, reliable)
      full == WithChunk(c, sp)
  IN  IF ~IsSplit(c.msg)
      THEN HandUp([n \in {0} |-> c.msg], reliable) /\ UNCHANGED m_buf
      ELSE IF IsIgnored(c, sp)
      THEN UNCHANGED <<m_buf, delivered, heard>>
      ELSE IF AllReceived(full)
      THEN /\ HandUp(full.chunks, reliable)
           /\ m_buf' = [s \in DOMAIN m_buf \ {c.seqnum} |-> m_buf[s]]
      ELSE /\ m_buf' = [s \in DOMAIN m_buf \cup {c.seqnum} |->
                          IF s = c.seqnum THEN full ELSE m_buf[s]]
           /\ UNCHANGED <<delivered, heard>>

\* The next packet of the reliable stream.
HandleReliable ==
  /\ stream # <<>>
  /\ Handle(Head(stream), TRUE)
  /\ stream' = Tail(stream)
  /\ UNCHANGED <<senderVars, network>>

\* A datagram arrives, for the first time or again.
HandleUnreliable(c) ==
  /\ c \in OnTheirWay
  /\ Handle(c, FALSE)
  /\ UNCHANGED <<senderVars, stream, network>>

\* Whatever is incomplete for long.
MayTimeOut_Mutant(sp) == TRUE
\* The flag taken the wrong way round.
MayTimeOut_Mutant2(sp) == sp.reliable

\* Messages sent reliably are kept.
MayTimeOut(sp) == ~sp.reliable

\* IncomingSplitBuffer::removeUnreliableTimedOuts; some have reached the timeout.
RemoveUnreliableTimedOuts(timed_out) ==
  /\ timed_out # {}
  /\ \A s \in timed_out : MayTimeOut(m_buf[s])
  /\ m_buf' = [s \in DOMAIN m_buf \ timed_out |-> m_buf[s]]
  /\ UNCHANGED <<senderVars, stream, network, delivered, heard>>

Next ==
  \/ \E n \in 1 .. MaxChunks : Send(n) \/ PutReliableSendCommand(n)
  \/ RunCommandQueues
  \/ HandleReliable
  \/ \E c \in network : HandleUnreliable(c)
  \/ \E S \in SUBSET DOMAIN m_buf : RemoveUnreliableTimedOuts(S)

Spec == Init /\ [][Next]_vars

\* The window opens again, the stream is delivered (both are MtpChannel's
\* AcceptedIsDelivered), and runTimeouts runs.
Fairness ==
  /\ SF_vars(RunCommandQueues /\ queued_commands' # queued_commands)
  /\ WF_vars(HandleReliable)
  /\ \A s \in Seqnum :
       WF_vars(\E S \in SUBSET DOMAIN m_buf :
                 s \in S /\ RemoveUnreliableTimedOuts(S))

LiveSpec == Spec /\ Fairness

-----------------------------------------------------------------------------
Chunk == [seqnum : Seqnum, chunk_num : Nat, msg : Message, at : Nat]

TypeOK ==
  /\ next_outgoing_split_seqnum \in Seqnum
  /\ queued_commands \in Seq(Message)
  /\ stream \in Seq(Chunk)
  /\ network \subseteq Chunk
  /\ DOMAIN m_buf \subseteq Seqnum
  /\ \A s \in DOMAIN m_buf :
       /\ m_buf[s].chunk_count \in 2 .. MaxChunks
       /\ DOMAIN m_buf[s].chunks \subseteq 0 .. m_buf[s].chunk_count - 1
       /\ m_buf[s].chunks # <<>>

\* data is the whole of one message.
IsWhole(data) ==
  \E msg \in {data[n] : n \in DOMAIN data} :
    data = [n \in 0 .. msg.size - 1 |-> msg]

\* What is handed to the user is all of one message that was sent, never put
\* together from two: chunks that are repeated or come late start an entry
\* again, whose number the sender may take for another message.
WholeMessages ==
  /\ \A i \in DOMAIN delivered : IsWhole(delivered[i])
  /\ \A data \in heard : IsWhole(data)

\* A reliable message that is incomplete waits for chunks that will come: they
\* are in the stream, and its entry takes them.
NothingStuck ==
  /\ \A s \in DOMAIN m_buf : m_buf[s].reliable =>
       \A n \in (0 .. m_buf[s].chunk_count - 1) \ DOMAIN m_buf[s].chunks :
         \E i \in DOMAIN stream :
           /\ stream[i].seqnum = s /\ stream[i].chunk_num = n
           /\ \A k \in DOMAIN m_buf[s].chunks : m_buf[s].chunks[k] = stream[i].msg
  /\ stream # <<>> /\ stream[1].chunk_num > 0 =>
       stream[1].seqnum \in DOMAIN m_buf /\ m_buf[stream[1].seqnum].reliable

Messages ==
  INSTANCE ReliableStream WITH
    MaxData <- MaxReliable, MaxChunks <- 1, open <- TRUE,
    accepted <- reliables,
    delivered <- [i \in DOMAIN delivered |-> delivered[i][0].id]

\* Reliable messages of any length come out once each and in the order they were
\* handed over, whatever unreliable ones do to the same buffer meanwhile.
MessageSpec == Messages!Spec

\* "If the data fails to come up in a reasonable time, the buffer shall be
\* silently discarded" (internal.h:74): no entry stays for good.
IncompleteIsDiscarded ==
  \A s \in Seqnum : s \in DOMAIN m_buf ~> s \notin DOMAIN m_buf
=============================================================================
