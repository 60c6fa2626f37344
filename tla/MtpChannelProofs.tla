-------------------------- MODULE MtpChannelProofs --------------------------
(***************************************************************************)
(* The reliable channel delivers in order and forgets nothing, for every   *)
(* size of the number space, of the windows and of the messages that       *)
(* WindowAssumption allows.                                                *)
(***************************************************************************)
EXTENDS MtpChannelInv, MtpSeqnumProofs, SequenceTheorems, WellFoundedInduction,
        FiniteSetTheorems

\* The constants as plain integers.
LEMMA Constants ==
  /\ Modulus \in Int /\ Modulus = SEQNUM_MAX + 1 /\ SEQNUM_MAX \in Nat
  /\ Seqnum = 0 .. SEQNUM_MAX
  /\ SEQNUM_INITIAL \in Seqnum
  /\ MAX_RELIABLE_WINDOW_SIZE \in Nat /\ 0 < MAX_RELIABLE_WINDOW_SIZE
  /\ 2 * MAX_RELIABLE_WINDOW_SIZE <= Modulus
  /\ MIN_RELIABLE_WINDOW_SIZE \in Nat /\ MAX_RELIABLE_WINDOW_SIZE_SEND \in Nat
  /\ MIN_RELIABLE_WINDOW_SIZE <= MAX_RELIABLE_WINDOW_SIZE_SEND
  /\ MAX_RELIABLE_WINDOW_SIZE_SEND + 2 < MAX_RELIABLE_WINDOW_SIZE
  /\ MaxChunks \in Nat /\ MaxData \in Nat
  /\ DataLifetime \in Nat /\ DataLifetime <= Modulus - MAX_RELIABLE_WINDOW_SIZE
  /\ AckLifetime \in Nat /\ AckLifetime <= Modulus
BY SeqnumAssumption, ChannelAssumption, WindowAssumption DEF Modulus, Seqnum

\* Splitting a command keeps the queue a sequence of packets: what it grows by.
LEMMA AllocateType ==
  ASSUME TypeOK, NEW cmd \in Command, Allocate(cmd)
  PROVE  /\ queued_reliables' \in Seq(Packet)
         /\ Len(queued_reliables') = Len(queued_reliables) + cmd.chunks
         /\ \A i \in 1 .. Len(queued_reliables) :
              queued_reliables'[i] = queued_reliables[i]
         /\ \A i \in 1 .. cmd.chunks :
              queued_reliables'[Len(queued_reliables) + i] =
                [seqnum |-> (next_outgoing_seqnum + i - 1) % Modulus,
                 data   |-> cmd.first + i - 1]
         /\ next_outgoing_seqnum' \in Seqnum
         /\ allocated' \in Nat
<1> DEFINE new == [i \in 1 .. cmd.chunks |->
                     [seqnum |-> (next_outgoing_seqnum + i - 1) % Modulus,
                      data   |-> cmd.first + i - 1]]
<1>1. /\ cmd.chunks \in Nat /\ cmd.first \in Nat
      /\ next_outgoing_seqnum \in Int /\ allocated \in Nat
      /\ queued_reliables \in Seq(Packet)
  BY Constants DEF TypeOK, Command
<1>2. \A i \in 1 .. cmd.chunks : new[i] \in Packet
  <2> TAKE i \in 1 .. cmd.chunks
  <2>1. next_outgoing_seqnum + i - 1 \in Int /\ cmd.first + i - 1 \in Nat
    BY <1>1
  <2>2. (next_outgoing_seqnum + i - 1) % Modulus \in Seqnum
    BY <2>1, DivMod
  <2> QED BY <2>1, <2>2 DEF Packet
<1>3. new \in Seq(Packet) /\ Len(new) = cmd.chunks
  <2>1. new \in [1 .. cmd.chunks -> Packet]
    BY <1>2
  <2> HIDE DEF new
  <2> QED BY <1>1, <2>1
<1>4. queued_reliables' = queued_reliables \o new
  BY DEF Allocate
<1>5. \A i \in 1 .. cmd.chunks :
        new[i] = [seqnum |-> (next_outgoing_seqnum + i - 1) % Modulus,
                  data   |-> cmd.first + i - 1]
  OBVIOUS
<1> HIDE DEF new
<1>6. /\ queued_reliables \o new \in Seq(Packet)
      /\ Len(queued_reliables \o new) = Len(queued_reliables) + Len(new)
      /\ \A i \in 1 .. Len(queued_reliables) + Len(new) :
           (queued_reliables \o new)[i] =
             IF i <= Len(queued_reliables) THEN queued_reliables[i]
                                           ELSE new[i - Len(queued_reliables)]
  BY <1>1, <1>3, ConcatProperties
<1>7. Len(queued_reliables) \in Nat
  BY <1>1, LenProperties
<1>8. \A i \in 1 .. Len(queued_reliables) : queued_reliables'[i] = queued_reliables[i]
  BY <1>1, <1>3, <1>4, <1>6, <1>7
<1>9. \A i \in 1 .. cmd.chunks : queued_reliables'[Len(queued_reliables) + i] = new[i]
  BY <1>1, <1>3, <1>4, <1>6, <1>7
<1>10. next_outgoing_seqnum' \in Seqnum /\ allocated' \in Nat
  <2>1. next_outgoing_seqnum + cmd.chunks \in Int /\ allocated + cmd.chunks \in Nat
    BY <1>1
  <2>2. (next_outgoing_seqnum + cmd.chunks) % Modulus \in Seqnum
    BY <2>1, DivMod
  <2> QED BY <2>1, <2>2, Zenon DEF Allocate
<1> QED BY <1>3, <1>4, <1>5, <1>6, <1>8, <1>9, <1>10

\* Every number that is put back, the last one first, is the one granted last,
\* wherever the numbers wrap: putBackSequenceNumber never fails.
LEMMA AllArePutBack ==
  ASSUME next_outgoing_seqnum \in Seqnum, NEW n \in Nat
  PROVE  AfterPutBack(n) = next_outgoing_seqnum
<1>1. next_outgoing_seqnum \in Int /\ Modulus \in Int
  BY Constants
<1>2. ASSUME NEW j \in Int
      PROVE  IsLastGranted(Number(j), Number(j + 1))
  <2>1. next_outgoing_seqnum + j \in Int /\ 1 \in Int
    BY <1>1
  <2>2. (((next_outgoing_seqnum + j) % Modulus) + 1) % Modulus
          = (next_outgoing_seqnum + j + 1) % Modulus
    BY <2>1, ModAdd
  <2>3. next_outgoing_seqnum + j + 1 = next_outgoing_seqnum + (j + 1)
    BY <1>1
  <2> QED BY <2>2, <2>3 DEF IsLastGranted, Number
<1>3. Number(0) = next_outgoing_seqnum
  <2>1. next_outgoing_seqnum + 0 = Modulus * 0 + next_outgoing_seqnum
    BY <1>1
  <2>2. next_outgoing_seqnum + 0 \in Int /\ 0 \in Int
    BY <1>1
  <2> QED BY <2>1, <2>2, ModUnique DEF Number
<1> DEFINE Left(i) == /\ \A j \in i .. n - 1 : IsLastGranted(Number(j), Number(j + 1))
                      /\ i > 0 => ~IsLastGranted(Number(i - 1), Number(i))
<1>4. Left(0) /\ 0 \in 0 .. n
  BY <1>2
<1>5. ASSUME NEW i \in 0 .. n, Left(i) PROVE i = 0
  <2>1. i - 1 \in Int /\ (i - 1) + 1 = i
    OBVIOUS
  <2>2. IsLastGranted(Number(i - 1), Number(i))
    BY <1>2, <2>1, Zenon
  <2> QED BY <1>5, <2>2
<1> HIDE DEF Left
<1>6. (CHOOSE i \in 0 .. n : Left(i)) = 0
  BY <1>4, <1>5
<1> QED BY <1>3, <1>6, Zenon DEF AfterPutBack, Left

\* A command that is refused leaves the numbers as they were.
LEMMA RefusedChangesNothing ==
  ASSUME next_outgoing_seqnum \in Seqnum, NEW cmd \in Command, PutsBack(cmd)
  PROVE  UNCHANGED <<queued_reliables, next_outgoing_seqnum, allocated>>
<1> DEFINE all == 0 .. cmd.chunks - 1
           granted == {i \in all : \A j \in 0 .. i : Grants(Number(j))}
<1>1. cmd.chunks \in Nat
  BY Constants DEF Command
<1>2. IsFiniteSet(all)
  BY <1>1, FS_Interval
<1> HIDE DEF all
<1>3. IsFiniteSet(granted)
  BY <1>2, FS_Subset
<1>4. Granted(cmd) \in Nat
  BY <1>3, FS_CardinalityType DEF Granted, all
<1> QED BY <1>4, AllArePutBack DEF PutsBack

LEMMA SentType ==
  ASSUME NEW net \in SUBSET Packet, NEW d \in Packet, NEW lifetime \in Nat,
         NEW n \in Sent(net, d, lifetime)
  PROVE  /\ n \subseteq Packet
         /\ n \subseteq net \cup {d}
BY DEF Sent

LEMMA InsertedType ==
  ASSUME NEW buffer \in SUBSET Packet, NEW p \in Packet, NEW next
  PROVE  /\ Inserted(buffer, p, next) \subseteq Packet
         /\ buffer \subseteq Inserted(buffer, p, next)
         /\ Inserted(buffer, p, next) \subseteq buffer \cup {p}
BY DEF Inserted

LEMMA NextSeqnumType ==
  ASSUME NEW s \in Seqnum
  PROVE  (s + 1) % Modulus \in Seqnum
<1>1. s + 1 \in Int
  BY Constants
<1> QED BY <1>1, DivMod

\* Every step keeps the types.
LEMMA TypePreserved ==
  ASSUME TypeOK, [Next]_vars
  PROVE  TypeOK'
<1> USE DEF TypeOK
<1>1. ASSUME NEW c \in 1 .. MaxChunks, PutReliableSendCommand(c)
      PROVE  TypeOK'
  <2> DEFINE cmd == [first |-> accepted, chunks |-> c]
  <2>1. cmd \in Command /\ accepted' \in Nat
    BY <1>1, Constants DEF Command, PutReliableSendCommand
  <2>2. CASE Allocate(cmd) /\ UNCHANGED queued_commands
    <3>1. /\ queued_reliables' \in Seq(Packet)
          /\ next_outgoing_seqnum' \in Seqnum
          /\ allocated' \in Nat
      BY <2>1, <2>2, AllocateType
    <3> QED BY <1>1, <2>1, <2>2, <3>1 DEF PutReliableSendCommand, receiverVars
  <2>3. CASE /\ queued_commands' = Append(queued_commands, cmd)
             /\ UNCHANGED <<queued_reliables, next_outgoing_seqnum, allocated>>
    <3>1. queued_commands' \in Seq(Command)
      BY <2>1, <2>3, AppendProperties
    <3> QED BY <1>1, <2>1, <2>3, <3>1 DEF PutReliableSendCommand, receiverVars
  <2>4. PutsBack(cmd) => UNCHANGED <<queued_reliables, next_outgoing_seqnum, allocated>>
    BY <2>1, RefusedChangesNothing
  <2> QED BY <1>1, <2>2, <2>3, <2>4 DEF PutReliableSendCommand
<1>2. ASSUME RunCommandQueues
      PROVE  TypeOK'
  <2>1. Head(queued_commands) \in Command /\ queued_commands' \in Seq(Command)
    BY <1>2, HeadTailProperties DEF RunCommandQueues
  <2>4. PutsBack(Head(queued_commands))
          => UNCHANGED <<queued_reliables, next_outgoing_seqnum, allocated>>
    BY <2>1, RefusedChangesNothing
  <2>2. CASE Allocate(Head(queued_commands))
    <3>1. /\ queued_reliables' \in Seq(Packet)
          /\ next_outgoing_seqnum' \in Seqnum
          /\ allocated' \in Nat
      BY <2>1, <2>2, AllocateType
    <3> QED BY <1>2, <2>1, <3>1 DEF RunCommandQueues, receiverVars
  <2>3. CASE UNCHANGED <<queued_reliables, next_outgoing_seqnum, allocated>>
    BY <1>2, <2>1, <2>3 DEF RunCommandQueues, receiverVars
  <2> QED BY <1>2, <2>2, <2>3, <2>4 DEF RunCommandQueues
<1>3. ASSUME SendQueued
      PROVE  TypeOK'
  <2>1. Head(queued_reliables) \in Packet /\ queued_reliables' \in Seq(Packet)
    BY <1>3, HeadTailProperties DEF SendQueued
  <2>2. outgoing_reliables_sent' \subseteq Packet
    BY <1>3, <2>1, InsertedType DEF SendQueued
  <2>3. packets' \subseteq Packet
    BY <1>3, <2>1, SentType, Constants DEF SendQueued
  <2> QED BY <1>3, <2>1, <2>2, <2>3 DEF SendQueued, receiverVars
<1>4. ASSUME NEW p \in outgoing_reliables_sent, Resend(p)
      PROVE  TypeOK'
  <2>1. packets' \subseteq Packet
    BY <1>4, SentType, Constants DEF Resend
  <2> QED BY <1>4, <2>1 DEF Resend, senderVars, receiverVars
<1>5. ASSUME NEW a \in acks, HandleAck(a)
      PROVE  TypeOK'
  BY <1>5 DEF HandleAck, receiverVars
<1>6. ASSUME UpdateTimers
      PROVE  TypeOK'
  <2>1. PICK step \in WindowSteps : m_window_size' = setWindowSize(m_window_size + step)
    BY <1>6 DEF UpdateTimers
  <2>2. step \in Int /\ m_window_size \in Int
    BY ChannelAssumption, Constants
  <2>3. m_window_size' \in MIN_RELIABLE_WINDOW_SIZE .. MAX_RELIABLE_WINDOW_SIZE_SEND
    BY <2>1, <2>2, Constants DEF setWindowSize
  <2> QED BY <1>6, <2>3 DEF UpdateTimers, receiverVars
<1>7. ASSUME DisconnectPeer \/ DeletePeer
      PROVE  TypeOK'
  BY <1>7 DEF DisconnectPeer, DeletePeer, senderVars, receiverVars
<1>8. ASSUME CheckIncomingBuffers
      PROVE  TypeOK'
  <2>1. PICK p \in Buffered(next_incoming_seqnum) :
          /\ incoming_reliables' = incoming_reliables \ {p}
          /\ next_incoming_seqnum' = (next_incoming_seqnum + 1) % Modulus
          /\ delivered' = Append(delivered, p.data)
          /\ UNCHANGED <<peer, senderVars, packets, acks>>
    BY <1>8 DEF CheckIncomingBuffers
  <2>2. p.data \in Nat
    BY DEF Buffered, Packet
  <2>3. delivered' \in Seq(Nat)
    BY <2>1, <2>2, AppendProperties
  <2>4. next_incoming_seqnum' \in Seqnum
    BY <2>1, NextSeqnumType
  <2> QED BY <2>1, <2>3, <2>4 DEF senderVars
<1>9. ASSUME NEW p \in packets, HandleReliable(p)
      PROVE  TypeOK'
  <2>1. p \in Packet /\ p.data \in Nat
    BY DEF Packet
  <2>2. packets' \subseteq Packet
    BY <1>9 DEF HandleReliable
  <2>3. acks' \subseteq Packet
    BY <1>9, <2>1, SentType, Constants DEF HandleReliable
  <2>4. incoming_reliables' \subseteq Packet
    BY <1>9, <2>1, InsertedType DEF HandleReliable, receiverVars
  <2>5. next_incoming_seqnum' \in Seqnum /\ delivered' \in Seq(Nat)
    <3>1. /\ (next_incoming_seqnum + 1) % Modulus \in Seqnum
          /\ Append(delivered, p.data) \in Seq(Nat)
      BY <2>1, NextSeqnumType, AppendProperties
    <3> QED BY <1>9, <3>1, Zenon DEF HandleReliable, receiverVars
  <2> QED BY <1>9, <2>2, <2>3, <2>4, <2>5 DEF HandleReliable, senderVars
<1>10. CASE UNCHANGED vars
  BY <1>10 DEF vars, senderVars, receiverVars
<1> QED BY <1>1, <1>2, <1>3, <1>4, <1>5, <1>6, <1>7, <1>8, <1>9, <1>10
        DEF Next, SenderNext, ReceiverNext

-----------------------------------------------------------------------------
(* The sender's side of the invariant.                                     *)

\* A non-empty set of naturals has a least element.
LEMMA LeastNatural ==
  ASSUME NEW S \in SUBSET Nat, S # {}
  PROVE  \E x \in S : \A y \in S : x <= y
<1> DEFINE Less == {pair \in Nat \X Nat : pair[1] < pair[2]}
<1>1. OpToRel(<, Nat) = Less
  BY DEF OpToRel
<1>2. IsWellFoundedOn(OpToRel(<, Nat), Nat)
  BY NatLessThanWellFounded
<1>3. IsWellFoundedOn(Less, Nat)
  BY <1>1, <1>2
<1>4. \A x, y \in Nat : <<y, x>> \notin Less => x <= y
  <2>1. SUFFICES ASSUME NEW x \in Nat, NEW y \in Nat, y < x PROVE <<y, x>> \in Less
    OBVIOUS
  <2>2. <<y, x>> \in Nat \X Nat /\ <<y, x>>[1] = y /\ <<y, x>>[2] = x
    OBVIOUS
  <2> QED BY <2>1, <2>2
<1> HIDE DEF Less
<1>5. PICK x \in S : \A y \in S : <<y, x>> \notin Less
  BY <1>3, WFMin
<1> QED BY <1>4, <1>5

\* How far a buffered packet lies behind the next number is how many have been
\* granted since.
LEMMA SentBehind ==
  ASSUME IInv, NEW p \in outgoing_reliables_sent
  PROVE  /\ p.data \in Nat
         /\ 0 < allocated - p.data
         /\ allocated - p.data < MAX_RELIABLE_WINDOW_SIZE
         /\ Ahead(p.seqnum, next_outgoing_seqnum) = allocated - p.data
<1>1. /\ p.data \in Nat /\ allocated \in Nat /\ p.data < allocated
      /\ p.seqnum = SeqnumOf(p.data) /\ next_outgoing_seqnum = SeqnumOf(allocated)
      /\ allocated - p.data < MAX_RELIABLE_WINDOW_SIZE
  BY DEF IInv, TypeOK, Packet, AllNumbered, Numbered, SpanFitsWindow
<1>2. allocated - p.data < Modulus
  BY <1>1, Constants
<1>3. Ahead(SeqnumOf(p.data), SeqnumOf(allocated)) = allocated - p.data
  BY <1>1, <1>2, AheadOf
<1> QED BY <1>1, <1>3

\* getFirstSeqnum finds the lowest unacknowledged position.
LEMMA FirstSentIsLowest ==
  ASSUME IInv, outgoing_reliables_sent # {}
  PROVE  /\ FirstSent \in outgoing_reliables_sent
         /\ \A q \in outgoing_reliables_sent : FirstSent.data <= q.data
<1> DEFINE Behind(p) == Ahead(p.seqnum, next_outgoing_seqnum)
           positions == {p.data : p \in outgoing_reliables_sent}
           IsFirst(p) == \A q \in outgoing_reliables_sent : Behind(q) <= Behind(p)
<1>1. /\ allocated \in Nat
      /\ \A p \in outgoing_reliables_sent :
           p.data \in Nat /\ Behind(p) = allocated - p.data
  BY SentBehind DEF IInv, TypeOK
<1> HIDE DEF Behind
<1>2. positions \in SUBSET Nat /\ positions # {}
  BY <1>1
<1>3. PICK x \in positions : \A y \in positions : x <= y
  BY <1>2, LeastNatural
<1>4. PICK p \in outgoing_reliables_sent : x = p.data
  OBVIOUS
<1>5. \A q \in outgoing_reliables_sent : p.data <= q.data
  BY <1>3, <1>4
<1>6. IsFirst(p)
  BY <1>1, <1>5
<1>7. FirstSent = CHOOSE r \in outgoing_reliables_sent : IsFirst(r)
  BY DEF FirstSent, Behind
<1> HIDE DEF IsFirst
<1>8. FirstSent \in outgoing_reliables_sent /\ IsFirst(FirstSent)
  BY <1>6, <1>7
<1> QED BY <1>1, <1>8 DEF IsFirst

\* A command that gets its numbers leaves everything unacknowledged within one
\* sending window and two packets, or there was nothing unacknowledged.
LEMMA AllocatedSpan ==
  ASSUME IInv, NEW cmd \in Command, CanAllocate(cmd),
         NEW p \in outgoing_reliables_sent
  PROVE  allocated + cmd.chunks - FirstSent.data < MAX_RELIABLE_WINDOW_SIZE
<1> DEFINE last == cmd.chunks - 1
           lowest == FirstSent.data
<1>1. FirstSent \in outgoing_reliables_sent
  BY FirstSentIsLowest
<1>2. /\ lowest \in Nat /\ 0 < allocated - lowest
      /\ allocated - lowest < MAX_RELIABLE_WINDOW_SIZE
  BY <1>1, SentBehind
<1>3. /\ allocated \in Nat /\ cmd.chunks \in Nat /\ 0 < cmd.chunks
      /\ cmd.chunks <= MaxChunks /\ MaxChunks <= MAX_RELIABLE_WINDOW_SIZE
      /\ m_window_size \in Int /\ m_window_size <= MAX_RELIABLE_WINDOW_SIZE_SEND
  <2>1. QueueLimit \in Nat
    BY ChannelAssumption DEF QueueLimit, MaxOf
  <2> QED BY <2>1, Constants, WindowAssumption DEF IInv, TypeOK, Command
<1>4. FirstSent.seqnum = SeqnumOf(lowest) /\ next_outgoing_seqnum = SeqnumOf(allocated)
  BY <1>1 DEF IInv, AllNumbered, Numbered
<1>5. (next_outgoing_seqnum + last) % Modulus = SeqnumOf(allocated + last)
  <2>1. last \in Int
    BY <1>3
  <2> HIDE DEF last
  <2>2. (SeqnumOf(allocated) + last) % Modulus = SeqnumOf(allocated + last)
    BY <1>3, <2>1, SeqnumOfAdd
  <2> QED BY <1>4, <2>2
<1>6. Grants((next_outgoing_seqnum + last) % Modulus)
  BY <1>3 DEF CanAllocate, Number
<1>7. ~ExceedsWindow(SeqnumOf(lowest), SeqnumOf(allocated + last), m_window_size)
  BY <1>1, <1>4, <1>5, <1>6 DEF Grants
<1>8. /\ allocated + last \in Int /\ lowest < allocated + last
      /\ (allocated + last) - lowest < Modulus
  BY <1>2, <1>3, Constants, SMTT(30)
<1> HIDE DEF last, lowest
<1>9. (allocated + last) - lowest <= m_window_size + 1
  BY <1>2, <1>3, <1>7, <1>8, GrantedSpan
<1> QED BY <1>2, <1>3, <1>9, Constants DEF last, lowest

\* The part of the invariant that is about numbered packets.
PacketInv ==
  /\ AllNumbered
  /\ QueueIsTail
  /\ IncomingAhead
  /\ SpanFitsWindow
  /\ NothingForgotten
  /\ AckMeansReceived
  /\ InOrderDelivery

\* Numbering a command.
LEMMA AllocatePreserves ==
  ASSUME IInv, TypeOK', NEW cmd \in Command, cmd.first = allocated,
         CanAllocate(cmd), Allocate(cmd),
         Len(queued_reliables) < QueueLimit,
         UNCHANGED <<outgoing_reliables_sent, receiverVars, packets, acks>>
  PROVE  PacketInv'
<1> DEFINE n == Len(queued_reliables)
           c == cmd.chunks
<1>1. /\ queued_reliables \in Seq(Packet) /\ n \in Nat
      /\ c \in Nat /\ 0 < c /\ c <= MaxChunks
      /\ allocated \in Nat /\ allocated' = allocated + c
      /\ QueueLimit \in Nat /\ QueueLimit + MaxChunks <= MAX_RELIABLE_WINDOW_SIZE
      /\ next_outgoing_seqnum \in Int
  <2>1. queued_reliables \in Seq(Packet) /\ allocated \in Nat /\ next_outgoing_seqnum \in Int
    BY Constants DEF IInv, TypeOK
  <2>2. c \in Nat /\ 0 < c /\ c <= MaxChunks
    BY Constants DEF Command
  <2>3. QueueLimit \in Nat /\ QueueLimit + MaxChunks <= MAX_RELIABLE_WINDOW_SIZE
    BY ChannelAssumption, WindowAssumption DEF QueueLimit, MaxOf
  <2>4. allocated' = allocated + c
    BY DEF Allocate
  <2> QED BY <2>1, <2>2, <2>3, <2>4, LenProperties
<1>2. /\ Len(queued_reliables') = n + c
      /\ \A i \in 1 .. n : queued_reliables'[i] = queued_reliables[i]
      /\ \A i \in 1 .. c :
           queued_reliables'[n + i] =
             [seqnum |-> (next_outgoing_seqnum + i - 1) % Modulus,
              data   |-> cmd.first + i - 1]
      /\ queued_reliables' \in Seq(Packet)
  BY AllocateType DEF IInv
<1>3. DOMAIN queued_reliables = 1 .. n /\ DOMAIN queued_reliables' = 1 .. n + c
  BY <1>1, <1>2
<1>4. next_outgoing_seqnum = SeqnumOf(allocated)
  BY DEF IInv, AllNumbered
<1>5. \A i \in 1 .. c :
        /\ queued_reliables'[n + i].data = allocated + i - 1
        /\ queued_reliables'[n + i].seqnum = SeqnumOf(allocated + i - 1)
  <2> TAKE i \in 1 .. c
  <2>1. (SeqnumOf(allocated) + (i - 1)) % Modulus = SeqnumOf(allocated + (i - 1))
    BY <1>1, SeqnumOfAdd
  <2>2. /\ next_outgoing_seqnum + i - 1 = next_outgoing_seqnum + (i - 1)
        /\ allocated + i - 1 = allocated + (i - 1)
    BY <1>1
  <2>3. queued_reliables'[n + i] =
          [seqnum |-> (next_outgoing_seqnum + i - 1) % Modulus,
           data   |-> cmd.first + i - 1]
    BY <1>2
  <2>4. (next_outgoing_seqnum + i - 1) % Modulus = SeqnumOf(allocated + i - 1)
    BY <1>4, <2>1, <2>2
  <2> QED BY <2>3, <2>4
<1> HIDE DEF n, c
<1>6. \A i \in 1 .. n + c : i \in 1 .. n \/ \E j \in 1 .. c : i = n + j
  <2> TAKE i \in 1 .. n + c
  <2>1. CASE i <= n
    BY <1>1, <2>1
  <2>2. CASE ~(i <= n)
    <3>1. i - n \in 1 .. c /\ i = n + (i - n)
      BY <1>1, <2>2
    <3> QED BY <3>1
  <2> QED BY <2>1, <2>2
<1>7. \A i \in 1 .. n : queued_reliables[i].data = allocated - n + i - 1
  BY <1>3 DEF IInv, QueueIsTail, n
<1>8. \A i \in 1 .. n + c : queued_reliables'[i].data = (allocated + c) - (n + c) + i - 1
  <2> TAKE i \in 1 .. n + c
  <2>1. CASE i \in 1 .. n
    <3>1. queued_reliables'[i].data = allocated - n + i - 1
      BY <1>2, <1>7, <2>1
    <3> QED BY <1>1, <3>1
  <2>2. ASSUME NEW j \in 1 .. c, i = n + j
        PROVE  queued_reliables'[i].data = (allocated + c) - (n + c) + i - 1
    <3>1. queued_reliables'[i].data = allocated + j - 1
      BY <1>5, <2>2
    <3> QED BY <1>1, <2>2, <3>1
  <2> QED BY <1>6, <2>1, <2>2
<1>9. QueueIsTail'
  <2>1. \A p \in outgoing_reliables_sent : p.data < allocated - n /\ p.data \in Nat
    BY SentBehind DEF IInv, QueueIsTail, n
  <2> QED BY <1>1, <1>2, <1>3, <1>8, <2>1 DEF QueueIsTail
<1>10. AllNumbered'
  <2>1. next_outgoing_seqnum' = SeqnumOf(allocated')
    <3>1. (SeqnumOf(allocated) + c) % Modulus = SeqnumOf(allocated + c)
      BY <1>1, SeqnumOfAdd
    <3> QED BY <1>1, <1>4, <3>1 DEF Allocate, c
  <2>2. /\ next_incoming_seqnum' = SeqnumOf(R')
        /\ \A p \in (outgoing_reliables_sent \cup incoming_reliables
                      \cup packets \cup acks)' : Numbered(p)'
    <3>1. \A p \in outgoing_reliables_sent \cup incoming_reliables
                   \cup packets \cup acks : Numbered(p) /\ p.data \in Nat
      BY DEF IInv, AllNumbered, TypeOK, Packet
    <3> QED BY <1>1, <3>1 DEF IInv, AllNumbered, Numbered, receiverVars, R
  <2>3. \A i \in 1 .. n + c :
          /\ queued_reliables'[i].data < allocated'
          /\ queued_reliables'[i].seqnum = SeqnumOf(queued_reliables'[i].data)
    <3> TAKE i \in 1 .. n + c
    <3>1. queued_reliables'[i].data < allocated'
      BY <1>1, <1>8
    <3>2. CASE i \in 1 .. n
      BY <1>2, <1>3, <3>1, <3>2 DEF IInv, AllNumbered, Numbered
    <3>3. ASSUME NEW j \in 1 .. c, i = n + j
          PROVE  queued_reliables'[i].seqnum = SeqnumOf(queued_reliables'[i].data)
      BY <1>5, <3>3
    <3> QED BY <1>6, <3>1, <3>2, <3>3
  <2> QED BY <1>3, <2>1, <2>2, <2>3 DEF AllNumbered, Numbered
<1>11. IncomingAhead'
  BY <1>1, Constants DEF IInv, TypeOK, IncomingAhead, receiverVars, R
<1>12. SpanFitsWindow'
  <2>1. CASE outgoing_reliables_sent = {}
    <3>1. \A i \in 1 .. n + c : allocated' - queued_reliables'[i].data <= n + c
      <4> TAKE i \in 1 .. n + c
      <4>1. queued_reliables'[i].data = (allocated + c) - (n + c) + i - 1
        BY <1>8
      <4> QED BY <1>1, <4>1
    <3>2. n + c < MAX_RELIABLE_WINDOW_SIZE
      BY <1>1, Constants DEF n
    <3>3. \A i \in 1 .. n + c : queued_reliables'[i].data \in Int
      BY <1>1, <1>8
    <3>4. n + c \in Int /\ allocated' \in Int /\ MAX_RELIABLE_WINDOW_SIZE \in Int
      BY <1>1, Constants DEF n
    <3>5. \A i \in 1 .. n + c :
            allocated' - queued_reliables'[i].data < MAX_RELIABLE_WINDOW_SIZE
      <4> HIDE DEF n
      <4> QED BY <3>1, <3>2, <3>3, <3>4
    <3> QED BY <1>1, <1>3, <2>1, <3>5 DEF SpanFitsWindow
  <2>2. CASE outgoing_reliables_sent # {}
    <3> DEFINE f == FirstSent.data
    <3>1. /\ allocated + c - f < MAX_RELIABLE_WINDOW_SIZE
          /\ f \in Nat
          /\ f < allocated - n
          /\ \A p \in outgoing_reliables_sent : f <= p.data /\ p.data \in Nat
      BY <2>2, FirstSentIsLowest, AllocatedSpan, SentBehind DEF IInv, QueueIsTail, n, c
    <3> HIDE DEF f
    <3>2. \A p \in outgoing_reliables_sent : allocated' - p.data < MAX_RELIABLE_WINDOW_SIZE
      BY <1>1, <3>1, Constants
    <3>3. \A i \in 1 .. n + c : allocated' - queued_reliables'[i].data < MAX_RELIABLE_WINDOW_SIZE
      <4> TAKE i \in 1 .. n + c
      <4>1. queued_reliables'[i].data = (allocated + c) - (n + c) + i - 1
        BY <1>8
      <4> QED BY <1>1, <3>1, <4>1, Constants
    <3> QED BY <1>3, <3>2, <3>3 DEF SpanFitsWindow
  <2> QED BY <2>1, <2>2
<1>13. NothingForgotten'
  <2> SUFFICES ASSUME NEW d \in 0 .. allocated' - 1
               PROVE  \/ Received(d)'
                      \/ \E p \in outgoing_reliables_sent' : p.data = d
                      \/ \E i \in DOMAIN queued_reliables' : queued_reliables'[i].data = d
    BY DEF NothingForgotten
  <2>1. CASE d < allocated
    <3>1. \/ Received(d)
          \/ \E p \in outgoing_reliables_sent : p.data = d
          \/ \E i \in 1 .. n : queued_reliables[i].data = d
      BY <1>1, <1>3, <2>1 DEF IInv, NothingForgotten
    <3>2. CASE Received(d) \/ \E p \in outgoing_reliables_sent : p.data = d
      BY <3>2 DEF Received, receiverVars
    <3>3. CASE \E i \in 1 .. n : queued_reliables[i].data = d
      <4>1. PICK i \in 1 .. n : queued_reliables[i].data = d
        BY <3>3
      <4>2. i \in 1 .. n + c /\ queued_reliables'[i].data = d
        BY <1>1, <1>2, <4>1
      <4> QED BY <1>3, <4>2
    <3> QED BY <3>1, <3>2, <3>3
  <2>2. CASE ~(d < allocated)
    <3> DEFINE j == d - allocated + 1
    <3>1. j \in 1 .. c /\ n + j \in 1 .. n + c /\ allocated + j - 1 = d
      BY <1>1, <2>2
    <3>2. queued_reliables'[n + j].data = d
      BY <1>5, <3>1
    <3> QED BY <1>3, <3>1, <3>2
  <2> QED BY <2>1, <2>2
<1>14. AckMeansReceived' /\ InOrderDelivery'
  BY DEF IInv, AckMeansReceived, InOrderDelivery, Received, receiverVars
<1> QED BY <1>9, <1>10, <1>11, <1>12, <1>13, <1>14 DEF PacketInv

\* A packet taken from the queue is numbered just above all that were sent, and
\* insert() does accept it: "(next - 0x8000) % 0x8001", cut to u16, is the start
\* of the half of the number space that lies behind the next number.
LEMMA SendBuffers ==
  ASSUME IInv, SendQueued
  PROVE  /\ Head(queued_reliables) = queued_reliables[1]
         /\ outgoing_reliables_sent' = outgoing_reliables_sent \cup {Head(queued_reliables)}
<1> DEFINE h == Head(queued_reliables)
           w == MAX_RELIABLE_WINDOW_SIZE
<1>1. /\ queued_reliables \in Seq(Packet) /\ queued_reliables # <<>>
      /\ 1 \in DOMAIN queued_reliables /\ h = queued_reliables[1]
  BY EmptySeq, LenProperties DEF IInv, TypeOK, SendQueued
<1>2. /\ h \in Packet /\ h.data \in Nat /\ h.data < allocated
      /\ h.seqnum = SeqnumOf(h.data) /\ h.seqnum \in Seqnum
      /\ allocated - h.data < w
      /\ allocated \in Nat /\ next_outgoing_seqnum = SeqnumOf(allocated)
      /\ h.data = allocated - Len(queued_reliables)
  <2>1. h \in Packet
    BY <1>1, ElementOfSeq, LenProperties
  <2>2. Len(queued_reliables) \in Nat /\ allocated \in Nat
    BY <1>1, LenProperties DEF IInv, TypeOK
  <2>3. h.data = allocated - Len(queued_reliables) + 1 - 1
    BY <1>1 DEF IInv, QueueIsTail
  <2> HIDE DEF h, w
  <2>4. h.data = allocated - Len(queued_reliables)
    BY <2>1, <2>2, <2>3 DEF Packet
  <2>5. Numbered(h) /\ allocated - h.data < w /\ next_outgoing_seqnum = SeqnumOf(allocated)
    BY <1>1 DEF IInv, AllNumbered, SpanFitsWindow, w
  <2> QED BY <2>1, <2>2, <2>4, <2>5 DEF Packet, Numbered
<1> HIDE DEF h
<1>3. WindowBehind(next_outgoing_seqnum) = SeqnumOf(allocated - w)
  <2>1. w \in Int /\ -w \in Int /\ SeqnumOf(allocated) \in Int
    BY <1>2, SeqnumOfType, Constants
  <2> HIDE DEF w
  <2>2. (SeqnumOf(allocated) + (-w)) % Modulus = SeqnumOf(allocated + (-w))
    BY <1>2, <2>1, SeqnumOfAdd
  <2>3. /\ SeqnumOf(allocated) + (-w) = SeqnumOf(allocated) - w
        /\ allocated + (-w) = allocated - w
    BY <1>2, <2>1
  <2> QED BY <1>2, <2>2, <2>3 DEF WindowBehind, w
<1>4. /\ allocated - w \in Int /\ w \in 1 .. SEQNUM_MAX
      /\ w \in Int /\ w < Modulus /\ Modulus \in Int
  BY <1>2, Constants
<1> HIDE DEF w
<1>5. seqnum_in_window(h.seqnum, WindowBehind(next_outgoing_seqnum), w)
  <2>1. /\ allocated - w <= h.data
        /\ h.data - (allocated - w) < w /\ h.data - (allocated - w) < Modulus
    BY <1>2, <1>4
  <2>2. Ahead(SeqnumOf(allocated - w), SeqnumOf(h.data)) = h.data - (allocated - w)
    BY <1>2, <1>4, <2>1, AheadOf
  <2>3. SeqnumOf(allocated - w) \in Seqnum
    BY <1>4, SeqnumOfType
  <2> QED BY <1>2, <1>3, <1>4, <2>1, <2>2, <2>3, InWindowIsAhead
<1>6. h.seqnum # WindowBehind(next_outgoing_seqnum)
  <2>1. SUFFICES ASSUME SeqnumOf(h.data) = SeqnumOf(allocated - w) PROVE FALSE
    BY <1>2, <1>3
  <2>2. h.data - (allocated - w) < Modulus /\ (allocated - w) - h.data < Modulus
    BY <1>2, <1>4
  <2>3. h.data = allocated - w
    BY <1>2, <1>4, <2>1, <2>2, SeqnumOfInjective
  <2> QED BY <1>2, <1>4, <2>3
<1>7. \A q \in outgoing_reliables_sent : q.seqnum # h.seqnum
  <2>1. SUFFICES ASSUME NEW q \in outgoing_reliables_sent, q.seqnum = h.seqnum PROVE FALSE
    OBVIOUS
  <2>2. q.data \in Nat /\ allocated - q.data < w /\ q.data < h.data
        /\ q.seqnum = SeqnumOf(q.data)
    BY <1>2, SentBehind DEF IInv, QueueIsTail, AllNumbered, Numbered, w
  <2>3. q.data - h.data < Modulus /\ h.data - q.data < Modulus
    BY <1>2, <1>4, <2>2
  <2>4. q.data = h.data
    BY <1>2, <2>1, <2>2, <2>3, SeqnumOfInjective
  <2> QED BY <1>2, <2>2, <2>4
<1>8. Inserted(outgoing_reliables_sent, h, WindowBehind(next_outgoing_seqnum))
        = outgoing_reliables_sent \cup {h}
  BY <1>5, <1>6, <1>7 DEF Inserted, w
<1> QED BY <1>1, <1>8 DEF SendQueued, h

LEMMA SendPreserves ==
  ASSUME IInv, TypeOK', SendQueued
  PROVE  PacketInv'
<1> DEFINE h == Head(queued_reliables)
           n == Len(queued_reliables)
<1>1. /\ queued_reliables \in Seq(Packet) /\ n \in Nat /\ 0 < n
      /\ h = queued_reliables[1] /\ h \in Packet
      /\ DOMAIN queued_reliables = 1 .. n
      /\ allocated \in Nat
  BY EmptySeq, LenProperties, HeadTailProperties, SendBuffers DEF IInv, TypeOK, SendQueued
<1>2. /\ queued_reliables' = Tail(queued_reliables)
      /\ Len(queued_reliables') = n - 1
      /\ DOMAIN queued_reliables' = 1 .. n - 1
      /\ \A i \in 1 .. n - 1 : queued_reliables'[i] = queued_reliables[i + 1]
  <2>1. queued_reliables' = Tail(queued_reliables) /\ queued_reliables # <<>>
    BY DEF SendQueued
  <2>2. /\ Tail(queued_reliables) \in Seq(Packet)
        /\ Len(Tail(queued_reliables)) = n - 1
        /\ \A i \in 1 .. Len(Tail(queued_reliables)) :
             Tail(queued_reliables)[i] = queued_reliables[i + 1]
    BY <1>1, <2>1, HeadTailProperties
  <2> QED BY <2>1, <2>2, LenProperties
<1>3. outgoing_reliables_sent' = outgoing_reliables_sent \cup {h}
  BY SendBuffers
<1>4. packets' \subseteq packets \cup {h}
  BY <1>1, SentType, Constants DEF SendQueued, IInv, TypeOK
<1>5. /\ UNCHANGED <<next_outgoing_seqnum, accepted, allocated, acks>>
      /\ UNCHANGED <<next_incoming_seqnum, incoming_reliables, delivered>>
  BY DEF SendQueued, receiverVars
<1>6. Numbered(h) /\ allocated - h.data < MAX_RELIABLE_WINDOW_SIZE
      /\ h.data = allocated - n + 1 - 1
  BY <1>1 DEF IInv, AllNumbered, SpanFitsWindow, QueueIsTail
<1> HIDE DEF h, n
<1>7. AllNumbered'
  <2>1. \A i \in 1 .. n - 1 : Numbered(queued_reliables[i + 1])
    BY <1>1 DEF IInv, AllNumbered
  <2>2. \A i \in DOMAIN queued_reliables' :
          /\ queued_reliables'[i].data < allocated
          /\ queued_reliables'[i].seqnum = SeqnumOf(queued_reliables'[i].data)
    BY <1>2, <2>1 DEF Numbered
  <2> QED BY <1>3, <1>4, <1>5, <1>6, <2>2 DEF IInv, AllNumbered, Numbered, R
<1>8. QueueIsTail'
  <2>1. \A i \in 1 .. n - 1 : queued_reliables'[i].data = allocated - (n - 1) + i - 1
    <3> TAKE i \in 1 .. n - 1
    <3>1. queued_reliables[i + 1].data = allocated - n + (i + 1) - 1
      <4>1. i + 1 \in DOMAIN queued_reliables
        BY <1>1
      <4> QED BY <4>1 DEF IInv, QueueIsTail, n
    <3>2. queued_reliables'[i] = queued_reliables[i + 1]
      BY <1>2
    <3> QED BY <1>1, <3>1, <3>2
  <2>2. \A p \in outgoing_reliables_sent : p.data < allocated - n /\ p.data \in Nat
    BY SentBehind DEF IInv, QueueIsTail, n
  <2>3. \A p \in outgoing_reliables_sent' : p.data < allocated - (n - 1)
    BY <1>1, <1>3, <1>6, <2>2
  <2> QED BY <1>2, <1>5, <2>1, <2>3 DEF QueueIsTail
<1>9. SpanFitsWindow'
  <2>1. \A i \in 1 .. n - 1 : allocated - queued_reliables[i + 1].data < MAX_RELIABLE_WINDOW_SIZE
    BY <1>1 DEF IInv, SpanFitsWindow
  <2> QED BY <1>2, <1>3, <1>5, <1>6, <2>1 DEF IInv, SpanFitsWindow
<1>10. NothingForgotten'
  <2> SUFFICES ASSUME NEW d \in 0 .. allocated - 1
               PROVE  \/ Received(d)
                      \/ \E p \in outgoing_reliables_sent' : p.data = d
                      \/ \E i \in 1 .. n - 1 : queued_reliables'[i].data = d
    BY <1>2, <1>5 DEF NothingForgotten, Received
  <2>1. \/ Received(d)
        \/ \E p \in outgoing_reliables_sent : p.data = d
        \/ \E i \in 1 .. n : queued_reliables[i].data = d
    BY <1>1 DEF IInv, NothingForgotten
  <2>2. ASSUME NEW i \in 1 .. n, queued_reliables[i].data = d
        PROVE  \/ h.data = d
               \/ \E k \in 1 .. n - 1 : queued_reliables'[k].data = d
    <3>1. CASE i = 1
      BY <1>1, <2>2, <3>1
    <3>2. CASE i # 1
      <4>1. i - 1 \in 1 .. n - 1 /\ (i - 1) + 1 = i
        BY <1>1, <3>2
      <4> QED BY <1>2, <2>2, <4>1
    <3> QED BY <3>1, <3>2
  <2> QED BY <1>3, <2>1, <2>2
<1>11. IncomingAhead' /\ AckMeansReceived' /\ InOrderDelivery'
  BY <1>5 DEF IInv, IncomingAhead, AckMeansReceived, InOrderDelivery, Received, R
<1> QED BY <1>7, <1>8, <1>9, <1>10, <1>11 DEF PacketInv

\* An ack in the network names one buffered packet at most: the one it is for.
LEMMA AckNames ==
  ASSUME IInv
  PROVE  AckNamesItsPacket
<1> SUFFICES ASSUME NEW a \in acks, NEW p \in outgoing_reliables_sent,
                    allocated - a.data <= AckLifetime, a.seqnum = p.seqnum
             PROVE  a = p
  BY DEF AckNamesItsPacket
<1>1. /\ a \in Packet /\ p \in Packet /\ allocated \in Nat
      /\ a.data \in Nat /\ a.data < allocated /\ a.seqnum = SeqnumOf(a.data)
      /\ p.data \in Nat /\ p.data < allocated /\ p.seqnum = SeqnumOf(p.data)
      /\ allocated - p.data < MAX_RELIABLE_WINDOW_SIZE
  BY DEF IInv, TypeOK, Packet, AllNumbered, Numbered, SpanFitsWindow
<1>2. a.data - p.data < Modulus /\ p.data - a.data < Modulus
  BY <1>1, Constants
<1>3. a.data = p.data
  <2>1. SeqnumOf(a.data) = SeqnumOf(p.data)
    BY <1>1, Zenon
  <2>2. a.data \in Int /\ p.data \in Int
    BY <1>1
  <2> QED BY <1>2, <2>1, <2>2, SeqnumOfInjective
<1> QED BY <1>1, <1>3 DEF Packet

LEMMA AckPreserves ==
  ASSUME IInv, TypeOK', NEW a \in acks, HandleAck(a)
  PROVE  PacketInv'
<1>1. /\ UNCHANGED <<next_outgoing_seqnum, queued_reliables, accepted, allocated, packets>>
      /\ UNCHANGED <<next_incoming_seqnum, incoming_reliables, delivered>>
      /\ outgoing_reliables_sent' \subseteq outgoing_reliables_sent
      /\ acks' \subseteq acks
  BY DEF HandleAck, receiverVars
<1>2. NothingForgotten'
  <2> SUFFICES ASSUME NEW d \in 0 .. allocated - 1
               PROVE  \/ Received(d)
                      \/ \E p \in outgoing_reliables_sent' : p.data = d
                      \/ \E i \in DOMAIN queued_reliables : queued_reliables[i].data = d
    BY <1>1 DEF NothingForgotten, Received
  <2>1. ASSUME NEW p \in outgoing_reliables_sent, p.data = d, p \notin outgoing_reliables_sent'
        PROVE  Received(d)
    <3>1. p.seqnum = a.seqnum /\ allocated - a.data <= AckLifetime
      BY <2>1 DEF HandleAck
    <3>2. a = p
      BY <3>1, AckNames DEF AckNamesItsPacket
    <3> QED BY <2>1, <3>2 DEF IInv, AckMeansReceived
  <2> QED BY <2>1 DEF IInv, NothingForgotten
<1>3. AllNumbered' /\ QueueIsTail' /\ SpanFitsWindow'
  BY <1>1 DEF IInv, AllNumbered, Numbered, QueueIsTail, SpanFitsWindow, R
<1>4. IncomingAhead' /\ AckMeansReceived' /\ InOrderDelivery'
  BY <1>1 DEF IInv, IncomingAhead, AckMeansReceived, InOrderDelivery, Received, R
<1> QED BY <1>2, <1>3, <1>4 DEF PacketInv

-----------------------------------------------------------------------------
(* The receiver's side of the invariant.                                   *)

\* A packet in the incoming buffer is the next one exactly when its number is.
LEMMA BufferedIsNext ==
  ASSUME IInv, NEW p \in incoming_reliables
  PROVE  p.seqnum = next_incoming_seqnum <=> p.data = R
<1>1. /\ p.data \in Int /\ R \in Int /\ R <= p.data
      /\ p.data < R + MAX_RELIABLE_WINDOW_SIZE
      /\ p.seqnum = SeqnumOf(p.data) /\ next_incoming_seqnum = SeqnumOf(R)
  BY LenProperties DEF IInv, TypeOK, Packet, AllNumbered, Numbered, IncomingAhead, R
<1>2. p.data - R < Modulus /\ R - p.data < Modulus
  BY <1>1, Constants
<1>3. SeqnumOf(p.data) = SeqnumOf(R) => p.data = R
  BY <1>1, <1>2, SeqnumOfInjective
<1> QED BY <1>1, <1>3

\* With nothing due in the incoming buffer, what the receiver waits for has not
\* arrived, so the sender still holds it and has not run ahead.
LEMMA SenderWaits ==
  ASSUME IInv, Drained
  PROVE  allocated - R < MAX_RELIABLE_WINDOW_SIZE
<1>1. R \in Nat /\ allocated \in Nat /\ R <= allocated
  BY LenProperties DEF IInv, TypeOK, IncomingAhead, R
<1>2. CASE R = allocated
  BY <1>1, <1>2, Constants
<1>3. CASE R < allocated
  <2>1. ~Received(R)
    <3>1. \A p \in incoming_reliables : p.data # R
      BY BufferedIsNext DEF Drained, Buffered
    <3> QED BY <1>1, <3>1 DEF Received, R
  <2>2. R \in 0 .. allocated - 1
    BY <1>1, <1>3
  <2>3. \/ \E p \in outgoing_reliables_sent : p.data = R
        \/ \E i \in DOMAIN queued_reliables : queued_reliables[i].data = R
    BY <2>1, <2>2 DEF IInv, NothingForgotten
  <2> QED BY <2>3 DEF IInv, SpanFitsWindow
<1> QED BY <1>1, <1>2, <1>3

\* The receive window is the packets not yet delivered.
LEMMA ToldApart ==
  ASSUME IInv
  PROVE  OldAndNewAreToldApart
<1> SUFFICES ASSUME NEW p \in packets, Arrives(p), Drained
             PROVE  InReceiveWindow(p) <=> p.data >= R
  BY DEF OldAndNewAreToldApart, R
<1>1. /\ p.data \in Int /\ 0 <= p.data /\ R \in Int /\ allocated \in Int
      /\ p.data < allocated /\ R <= allocated
      /\ p.seqnum = SeqnumOf(p.data) /\ next_incoming_seqnum = SeqnumOf(R)
  BY LenProperties DEF IInv, TypeOK, Packet, AllNumbered, Numbered, IncomingAhead, R
<1>2. allocated - p.data <= Modulus - MAX_RELIABLE_WINDOW_SIZE
  BY <1>1, Constants DEF Arrives
<1>3. allocated - R < MAX_RELIABLE_WINDOW_SIZE
  BY SenderWaits
<1>4. SeqnumOf(p.data) \in Seqnum /\ SeqnumOf(R) \in Seqnum
  BY <1>1, SeqnumOfType
<1>5. MAX_RELIABLE_WINDOW_SIZE \in 1 .. SEQNUM_MAX
  BY Constants
<1>6. InReceiveWindow(p) <=> Ahead(SeqnumOf(R), SeqnumOf(p.data)) < MAX_RELIABLE_WINDOW_SIZE
  BY <1>1, <1>4, <1>5, InWindowIsAhead DEF InReceiveWindow
<1>7. CASE p.data >= R
  <2>1. R <= p.data /\ p.data - R < Modulus /\ p.data - R < MAX_RELIABLE_WINDOW_SIZE
    BY <1>1, <1>3, <1>7, Constants
  <2>2. Ahead(SeqnumOf(R), SeqnumOf(p.data)) = p.data - R
    BY <1>1, <2>1, AheadOf
  <2> QED BY <1>6, <1>7, <2>1, <2>2
<1>8. CASE ~(p.data >= R)
  <2>1. p.data < R /\ R - p.data < Modulus
    BY <1>1, <1>2, <1>8, Constants
  <2>2. Ahead(SeqnumOf(R), SeqnumOf(p.data)) = (p.data - R) + Modulus
    BY <1>1, <2>1, AheadOf
  <2>3. (p.data - R) + Modulus >= MAX_RELIABLE_WINDOW_SIZE
    BY <1>1, <1>2, Constants
  <2>4. ~(Ahead(SeqnumOf(R), SeqnumOf(p.data)) < MAX_RELIABLE_WINDOW_SIZE)
    BY <1>1, <2>2, <2>3, Constants
  <2> QED BY <1>6, <1>8, <2>4
<1> QED BY <1>7, <1>8

\* Handing over the next position.
LEMMA DeliverNext ==
  ASSUME IInv, R < allocated, delivered' = Append(delivered, R),
         next_incoming_seqnum' = (next_incoming_seqnum + 1) % Modulus
  PROVE  /\ R \in Nat /\ R' = R + 1
         /\ next_incoming_seqnum' = SeqnumOf(R')
         /\ InOrderDelivery'
<1>1. R \in Nat /\ delivered \in Seq(Nat) /\ next_incoming_seqnum = SeqnumOf(R)
  BY LenProperties DEF IInv, TypeOK, AllNumbered, R
<1>2. /\ delivered' \in Seq(Nat) /\ Len(delivered') = Len(delivered) + 1
      /\ \A i \in 1 .. Len(delivered) : delivered'[i] = delivered[i]
      /\ delivered'[Len(delivered) + 1] = R
  BY <1>1, AppendProperties
<1>3. R' = R + 1
  BY <1>2 DEF R
<1>4. next_incoming_seqnum' = SeqnumOf(R')
  <2>1. (SeqnumOf(R) + 1) % Modulus = SeqnumOf(R + 1)
    BY <1>1, SeqnumOfAdd
  <2> QED BY <1>1, <1>3, <2>1
<1>5. InOrderDelivery'
  <2>1. /\ DOMAIN delivered = 1 .. Len(delivered)
        /\ DOMAIN delivered' = 1 .. Len(delivered) + 1
    BY <1>1, <1>2, LenProperties
  <2>2. \A i \in 1 .. Len(delivered) + 1 : delivered'[i] = i - 1
    <3> TAKE i \in 1 .. Len(delivered) + 1
    <3>1. CASE i \in 1 .. Len(delivered)
      BY <1>2, <2>1, <3>1 DEF IInv, InOrderDelivery
    <3>2. CASE i = Len(delivered) + 1
      <4>1. i - 1 = Len(delivered)
        BY <1>1, <3>2 DEF R
      <4> QED BY <1>2, <3>2, <4>1 DEF R
    <3> QED BY <1>1, <3>1, <3>2 DEF R
  <2> QED BY <2>1, <2>2 DEF InOrderDelivery
<1> QED BY <1>1, <1>3, <1>4, <1>5

\* What the sender holds is not touched by the receiver.
LEMMA SenderUntouched ==
  ASSUME IInv, UNCHANGED senderVars,
         \A d \in Nat : Received(d) => Received(d)'
  PROVE  /\ QueueIsTail' /\ SpanFitsWindow' /\ NothingForgotten'
<1>1. QueueIsTail' /\ SpanFitsWindow'
  BY DEF IInv, senderVars, QueueIsTail, SpanFitsWindow
<1>2. allocated \in Nat
  BY DEF IInv, TypeOK
<1>3. \A d \in 0 .. allocated - 1 : d \in Nat
  BY <1>2
<1>4. NothingForgotten'
  <2> SUFFICES ASSUME NEW d \in 0 .. allocated - 1
               PROVE  \/ Received(d)'
                      \/ \E p \in outgoing_reliables_sent : p.data = d
                      \/ \E i \in DOMAIN queued_reliables : queued_reliables[i].data = d
    BY DEF NothingForgotten, senderVars
  <2> QED BY <1>3 DEF IInv, NothingForgotten
<1> QED BY <1>1, <1>4

LEMMA CheckPreserves ==
  ASSUME IInv, TypeOK', CheckIncomingBuffers
  PROVE  PacketInv'
<1>1. PICK p \in Buffered(next_incoming_seqnum) :
        /\ incoming_reliables' = incoming_reliables \ {p}
        /\ next_incoming_seqnum' = (next_incoming_seqnum + 1) % Modulus
        /\ delivered' = Append(delivered, p.data)
        /\ UNCHANGED <<peer, senderVars, packets, acks>>
  BY DEF CheckIncomingBuffers
<1>2. p \in incoming_reliables /\ p.data = R /\ R < allocated
  <2>1. p \in incoming_reliables /\ p.seqnum = next_incoming_seqnum
    BY DEF Buffered
  <2>2. p.data = R
    BY <2>1, BufferedIsNext
  <2> QED BY <2>1, <2>2 DEF IInv, AllNumbered, Numbered
<1>3. R \in Nat /\ R' = R + 1 /\ next_incoming_seqnum' = SeqnumOf(R') /\ InOrderDelivery'
  BY <1>1, <1>2, DeliverNext
<1>4. \A d \in Nat : Received(d) => Received(d)'
  <2> SUFFICES ASSUME NEW d \in Nat, Received(d) PROVE Received(d)'
    OBVIOUS
  <2>1. CASE d < R
    BY <1>3, <2>1 DEF Received, R
  <2>2. CASE \E q \in incoming_reliables : q.data = d
    <3>1. PICK q \in incoming_reliables : q.data = d
      BY <2>2
    <3>2. CASE q = p
      BY <1>2, <1>3, <3>1, <3>2 DEF Received, R
    <3>3. CASE q # p
      BY <1>1, <3>1, <3>3 DEF Received
    <3> QED BY <3>2, <3>3
  <2> QED BY <2>1, <2>2 DEF Received, R
<1>5. QueueIsTail' /\ SpanFitsWindow' /\ NothingForgotten'
  BY <1>1, <1>4, SenderUntouched
<1>6. AllNumbered'
  BY <1>1, <1>3 DEF IInv, AllNumbered, Numbered, senderVars
<1>7. IncomingAhead'
  <2>1. \A q \in incoming_reliables' :
          R + 1 <= q.data /\ q.data < R + 1 + MAX_RELIABLE_WINDOW_SIZE
    <3> TAKE q \in incoming_reliables'
    <3>1. /\ q \in Packet /\ q \in incoming_reliables /\ q # p /\ p \in Packet
          /\ q.seqnum = SeqnumOf(q.data) /\ p.seqnum = SeqnumOf(p.data)
      BY <1>1, <1>2 DEF IInv, TypeOK, AllNumbered, Numbered
    <3>2. q.data # R
      BY <1>2, <3>1 DEF Packet
    <3>3. /\ q.data \in Nat /\ R <= q.data /\ q.data < R + MAX_RELIABLE_WINDOW_SIZE
      BY <3>1 DEF IInv, IncomingAhead, Packet
    <3> QED BY <1>3, <3>2, <3>3, Constants
  <2>2. R + 1 <= allocated /\ allocated' = allocated
    BY <1>1, <1>2, <1>3 DEF IInv, TypeOK, senderVars
  <2> QED BY <1>3, <2>1, <2>2 DEF IncomingAhead
<1>8. AckMeansReceived'
  <2>1. \A a \in acks : a.data \in Nat
    BY DEF IInv, TypeOK, Packet
  <2> QED BY <1>1, <1>4, <2>1 DEF IInv, AckMeansReceived
<1> QED BY <1>3, <1>5, <1>6, <1>7, <1>8 DEF PacketInv

\* insert() at the receiver: a packet of the window that is not the next one is
\* in the buffer afterwards.
LEMMA InsertReceives ==
  ASSUME IInv, Drained, NEW p \in packets, InReceiveWindow(p),
         p.seqnum # next_incoming_seqnum,
         R <= p.data, p.data < R + MAX_RELIABLE_WINDOW_SIZE
  PROVE  \E q \in Inserted(incoming_reliables, p, next_incoming_seqnum) : q.data = p.data
<1>1. /\ p.data \in Int /\ R \in Int /\ p.seqnum = SeqnumOf(p.data)
  BY LenProperties DEF IInv, TypeOK, Packet, AllNumbered, Numbered, R
<1>2. CASE \A q \in incoming_reliables : q.seqnum # p.seqnum
  BY <1>2 DEF Inserted, InReceiveWindow
<1>3. CASE \E q \in incoming_reliables : q.seqnum = p.seqnum
  <2>1. PICK q \in incoming_reliables : q.seqnum = p.seqnum
    BY <1>3
  <2>2. /\ q.data \in Int /\ R <= q.data /\ q.data < R + MAX_RELIABLE_WINDOW_SIZE
        /\ q.seqnum = SeqnumOf(q.data)
    BY DEF IInv, TypeOK, Packet, AllNumbered, Numbered, IncomingAhead
  <2>3. q.data - p.data < Modulus /\ p.data - q.data < Modulus
    <3>1. /\ MAX_RELIABLE_WINDOW_SIZE \in Int /\ Modulus \in Int
          /\ MAX_RELIABLE_WINDOW_SIZE < Modulus
      BY Constants
    <3> QED BY <1>1, <2>2, <3>1
  <2>4. SeqnumOf(q.data) = SeqnumOf(p.data)
    BY <1>1, <2>1, <2>2, Zenon
  <2>5. q.data = p.data
    BY <1>1, <2>2, <2>3, <2>4, SeqnumOfInjective
  <2> QED BY <2>1, <2>5 DEF Inserted
<1> QED BY <1>2, <1>3

LEMMA ReceivePreserves ==
  ASSUME IInv, TypeOK', NEW p \in packets, HandleReliable(p)
  PROVE  PacketInv'
<1>1. /\ p \in Packet /\ p.data \in Nat /\ p.data < allocated /\ Numbered(p)
      /\ R \in Nat /\ allocated \in Nat /\ R <= allocated
  BY LenProperties DEF IInv, TypeOK, Packet, AllNumbered, Numbered, IncomingAhead, R
<1>2. /\ Arrives(p) /\ Drained
      /\ UNCHANGED <<peer, senderVars>> /\ allocated' = allocated
      /\ packets' \subseteq packets
      /\ acks' \subseteq acks \cup {p}
      /\ ~IsAcked(p) => acks' \subseteq acks
  <2>1. acks' \subseteq acks \cup {p} /\ (~IsAcked(p) => acks' \subseteq acks)
    BY <1>1, SentType, Constants DEF HandleReliable, IInv, TypeOK
  <2> QED BY <2>1 DEF HandleReliable, senderVars
<1>3. InReceiveWindow(p) <=> p.data >= R
  BY <1>2, ToldApart DEF OldAndNewAreToldApart, R
<1>4. allocated - R < MAX_RELIABLE_WINDOW_SIZE
  BY <1>2, SenderWaits
<1>5. p.data < R + MAX_RELIABLE_WINDOW_SIZE
  BY <1>1, <1>4, Constants
\* It is enough to look at the receiver's variables.
<1>6. ASSUME /\ R' \in Nat /\ R <= R' /\ R' <= allocated
             /\ next_incoming_seqnum' = SeqnumOf(R')
             /\ \A d \in Nat : Received(d) => Received(d)'
             /\ InReceiveWindow(p) => Received(p.data)'
             /\ incoming_reliables' \subseteq incoming_reliables \cup {p}
             /\ \A q \in incoming_reliables' :
                  R' <= q.data /\ q.data < R' + MAX_RELIABLE_WINDOW_SIZE
             /\ InOrderDelivery'
      PROVE  PacketInv'
  <2>1. QueueIsTail' /\ SpanFitsWindow' /\ NothingForgotten'
    BY <1>2, <1>6, SenderUntouched
  <2>2. AllNumbered'
    BY <1>1, <1>2, <1>6 DEF IInv, AllNumbered, Numbered, senderVars
  <2>3. IncomingAhead'
    BY <1>2, <1>6 DEF IncomingAhead
  <2>4. Received(p.data)'
    <3>1. CASE p.data < R
      <4>1. Received(p.data)
        BY <3>1 DEF Received, R
      <4> QED BY <1>1, <1>6, <4>1
    <3>2. CASE ~(p.data < R)
      BY <1>1, <1>3, <1>6, <3>2
    <3> QED BY <3>1, <3>2
  <2>5. AckMeansReceived'
    <3>1. \A a \in acks : a.data \in Nat /\ Received(a.data)
      BY DEF IInv, TypeOK, Packet, AckMeansReceived
    <3>2. \A a \in acks' : Received(a.data)'
      BY <1>2, <1>6, <2>4, <3>1
    <3> QED BY <3>2 DEF AckMeansReceived
  <2> QED BY <1>6, <2>1, <2>2, <2>3, <2>5 DEF PacketInv
<1>7. CASE InReceiveWindow(p) /\ p.seqnum = next_incoming_seqnum
  <2>1. /\ next_incoming_seqnum' = (next_incoming_seqnum + 1) % Modulus
        /\ delivered' = Append(delivered, p.data)
        /\ incoming_reliables' = incoming_reliables
    BY <1>7 DEF HandleReliable
  <2>2. p.data = R
    <3>1. SeqnumOf(p.data) = SeqnumOf(R)
      BY <1>1, <1>7 DEF Numbered, IInv, AllNumbered
    <3>2. p.data - R < Modulus /\ R - p.data < Modulus /\ p.data \in Int /\ R \in Int
      BY <1>1, <1>3, <1>5, <1>7, Constants
    <3> QED BY <3>1, <3>2, SeqnumOfInjective
  <2>3. R' = R + 1 /\ next_incoming_seqnum' = SeqnumOf(R') /\ InOrderDelivery'
    BY <1>1, <2>1, <2>2, DeliverNext
  <2>4. \A d \in Nat : Received(d) => Received(d)'
    BY <1>1, <2>1, <2>3 DEF Received, R
  <2>5. Received(p.data)'
    BY <1>1, <2>2, <2>3 DEF Received, R
  <2>6. \A q \in incoming_reliables' :
          R' <= q.data /\ q.data < R' + MAX_RELIABLE_WINDOW_SIZE
    <3> TAKE q \in incoming_reliables'
    <3>1. /\ q \in incoming_reliables /\ q.data \in Nat /\ R <= q.data
          /\ q.data < R + MAX_RELIABLE_WINDOW_SIZE
      BY <2>1 DEF IInv, TypeOK, Packet, IncomingAhead
    <3>2. q.data # R
      BY <1>2, <3>1, BufferedIsNext DEF Drained, Buffered
    <3> QED BY <1>1, <2>3, <3>1, <3>2, Constants
  <2>7. R' \in Nat /\ R <= R' /\ R' <= allocated
    BY <1>1, <2>2, <2>3
  <2> QED BY <1>6, <2>1, <2>3, <2>4, <2>5, <2>6, <2>7
<1>8. CASE InReceiveWindow(p) /\ p.seqnum # next_incoming_seqnum
  <2>1. /\ incoming_reliables' = Inserted(incoming_reliables, p, next_incoming_seqnum)
        /\ next_incoming_seqnum' = next_incoming_seqnum
        /\ delivered' = delivered
    BY <1>8 DEF HandleReliable
  <2>2. R' = R /\ InOrderDelivery' /\ next_incoming_seqnum' = SeqnumOf(R')
    BY <2>1 DEF R, IInv, InOrderDelivery, AllNumbered
  <2>3. R <= p.data
    BY <1>1, <1>3, <1>8
  <2>4. /\ incoming_reliables \subseteq incoming_reliables'
        /\ incoming_reliables' \subseteq incoming_reliables \cup {p}
    BY <1>1, <2>1, InsertedType DEF IInv, TypeOK
  <2>5. Received(p.data)'
    BY <1>2, <1>5, <1>8, <2>1, <2>3, InsertReceives DEF Received
  <2>6. \A d \in Nat : Received(d) => Received(d)'
    BY <2>1, <2>4 DEF Received
  <2>7. \A q \in incoming_reliables' :
          R' <= q.data /\ q.data < R' + MAX_RELIABLE_WINDOW_SIZE
    BY <1>5, <2>2, <2>3, <2>4 DEF IInv, IncomingAhead
  <2> QED BY <1>1, <1>6, <2>2, <2>4, <2>5, <2>6, <2>7
<1>9. CASE ~InReceiveWindow(p)
  <2>1. /\ incoming_reliables' = incoming_reliables
        /\ next_incoming_seqnum' = next_incoming_seqnum
        /\ delivered' = delivered
    BY <1>9 DEF HandleReliable, receiverVars
  <2>2. R' = R /\ InOrderDelivery' /\ next_incoming_seqnum' = SeqnumOf(R')
    BY <2>1 DEF R, IInv, InOrderDelivery, AllNumbered
  <2>3. \A d \in Nat : Received(d) => Received(d)'
    BY <2>1 DEF Received
  <2>4. \A q \in incoming_reliables' :
          R' <= q.data /\ q.data < R' + MAX_RELIABLE_WINDOW_SIZE
    BY <2>1, <2>2 DEF IInv, IncomingAhead
  <2> QED BY <1>1, <1>6, <1>9, <2>1, <2>2, <2>3, <2>4
<1> QED BY <1>7, <1>8, <1>9

-----------------------------------------------------------------------------
(* Commands, and the whole invariant.                                      *)

\* Handing a command over keeps the commands in line.
LEMMA PutPreserves ==
  ASSUME IInv, TypeOK', NEW c \in 1 .. MaxChunks, PutReliableSendCommand(c)
  PROVE  PacketInv' /\ CommandsFollow'
<1> DEFINE cmd == [first |-> accepted, chunks |-> c]
           n == Len(queued_commands)
<1>1. /\ peer = "open" /\ peer' = "open" /\ accepted' = accepted + c
      /\ UNCHANGED <<m_window_size, outgoing_reliables_sent, receiverVars, packets, acks>>
  BY DEF PutReliableSendCommand
<1>2. /\ accepted \in Nat /\ allocated \in Nat /\ allocated <= accepted
      /\ queued_commands \in Seq(Command) /\ n \in Nat
      /\ DOMAIN queued_commands = 1 .. n
      /\ c \in Nat /\ 0 < c
      /\ \A i \in 1 .. n : queued_commands[i].first \in Nat
                           /\ queued_commands[i].chunks \in Nat
  <2>1. \A i \in 1 .. n : queued_commands[i] \in Command
    BY ElementOfSeq DEF IInv, TypeOK
  <2>2. \A x \in Command : x.first \in Nat /\ x.chunks \in Nat
    BY Constants DEF Command
  <2>3. queued_commands \in Seq(Command) /\ n \in Nat /\ DOMAIN queued_commands = 1 .. n
    BY LenProperties DEF IInv, TypeOK
  <2>4. accepted \in Nat /\ allocated \in Nat /\ allocated <= accepted /\ c \in Nat /\ 0 < c
    BY Constants DEF IInv, TypeOK, CommandsFollow
  <2> HIDE DEF n
  <2> QED BY <2>1, <2>2, <2>3, <2>4
<1>3. cmd \in Command /\ cmd.first = accepted /\ cmd.chunks = c
  BY <1>2 DEF Command
<1>4. CASE /\ queued_commands = <<>>
           /\ Len(queued_reliables) + 1 < m_window_size \div 2
           /\ CanAllocate(cmd)
           /\ Allocate(cmd) /\ UNCHANGED queued_commands
  <2>1. allocated = accepted
    BY <1>1, <1>4 DEF IInv, CommandsFollow
  <2>2. Len(queued_reliables) < QueueLimit
    <3>1. /\ m_window_size \in Nat /\ m_window_size <= MAX_RELIABLE_WINDOW_SIZE_SEND
          /\ Len(queued_reliables) \in Nat
      BY Constants, LenProperties DEF IInv, TypeOK
    <3>2. m_window_size \div 2 <= MAX_RELIABLE_WINDOW_SIZE_SEND \div 2
      BY <3>1, Constants
    <3>3. MAX_RELIABLE_WINDOW_SIZE_SEND \div 2 <= QueueLimit /\ QueueLimit \in Nat
      BY ChannelAssumption DEF QueueLimit, MaxOf
    <3> QED BY <1>4, <3>1, <3>2, <3>3, Constants
  <2>3. PacketInv'
    <3> HIDE DEF cmd
    <3> QED BY <1>1, <1>3, <1>4, <2>1, <2>2, AllocatePreserves
  <2>4. allocated' = accepted'
    BY <1>1, <1>4, <2>1 DEF Allocate
  <2>5. CommandsFollow'
    BY <1>1, <1>2, <1>4, <2>4, EmptySeq DEF CommandsFollow
  <2> QED BY <2>3, <2>5
<1>5. CASE /\ queued_commands' = Append(queued_commands, cmd)
           /\ UNCHANGED <<queued_reliables, next_outgoing_seqnum, allocated>>
  <2>1. PacketInv'
    BY <1>1, <1>5 DEF PacketInv, IInv, AllNumbered, Numbered, QueueIsTail, IncomingAhead,
       SpanFitsWindow, NothingForgotten, AckMeansReceived, InOrderDelivery, Received,
       receiverVars, R
  <2> HIDE DEF cmd
  <2>2. /\ queued_commands' \in Seq(Command) /\ Len(queued_commands') = n + 1
        /\ DOMAIN queued_commands' = 1 .. n + 1
        /\ \A i \in 1 .. n : queued_commands'[i] = queued_commands[i]
        /\ queued_commands'[n + 1] = cmd
        /\ queued_commands' # <<>>
    <3>1. /\ Append(queued_commands, cmd) \in Seq(Command)
          /\ Append(queued_commands, cmd) # <<>>
          /\ Len(Append(queued_commands, cmd)) = n + 1
          /\ \A i \in 1 .. n : Append(queued_commands, cmd)[i] = queued_commands[i]
          /\ Append(queued_commands, cmd)[n + 1] = cmd
      BY <1>2, <1>3, AppendProperties
    <3> QED BY <1>5, <3>1, LenProperties
  <2>3. /\ n = 0 => allocated = accepted
        /\ n # 0 => /\ queued_commands[1].first = allocated
                    /\ queued_commands[n].first + queued_commands[n].chunks = accepted
        /\ \A i \in 1 .. n : queued_commands[i].first + queued_commands[i].chunks <= accepted
        /\ \A i \in 2 .. n :
             queued_commands[i].first = queued_commands[i - 1].first + queued_commands[i - 1].chunks
    BY <1>1, <1>2, EmptySeq DEF IInv, CommandsFollow
  <2> HIDE DEF n
  <2>4. queued_commands'[1].first = allocated
    <3>1. CASE n = 0
      BY <1>3, <2>2, <2>3, <3>1
    <3>2. CASE n # 0
      BY <1>2, <2>2, <2>3, <3>2
    <3> QED BY <3>1, <3>2
  <2>5. \A i \in 1 .. n + 1 :
          queued_commands'[i].first + queued_commands'[i].chunks <= accepted'
    <3> TAKE i \in 1 .. n + 1
    <3>1. CASE i \in 1 .. n
      BY <1>1, <1>2, <2>2, <2>3, <3>1, SMTT(30)
    <3>2. CASE i = n + 1
      BY <1>1, <1>2, <1>3, <2>2, <3>2
    <3> QED BY <1>2, <3>1, <3>2, SMTT(30)
  <2>6. \A i \in 2 .. n + 1 :
          queued_commands'[i].first = queued_commands'[i - 1].first + queued_commands'[i - 1].chunks
    <3> TAKE i \in 2 .. n + 1
    <3>1. CASE i \in 2 .. n
      <4>1. i \in 1 .. n /\ i - 1 \in 1 .. n
        BY <1>2, <3>1
      <4> QED BY <2>2, <2>3, <3>1, <4>1
    <3>2. CASE i = n + 1
      <4>1. n # 0 /\ i - 1 = n /\ n \in 1 .. n
        BY <1>2, <3>2
      <4> QED BY <1>2, <1>3, <2>2, <2>3, <3>2, <4>1
    <3> QED BY <1>2, <3>1, <3>2
  <2>7. queued_commands'[n + 1].first + queued_commands'[n + 1].chunks = accepted'
    BY <1>1, <1>3, <2>2
  <2>8. allocated' <= accepted'
    BY <1>1, <1>2, <1>5
  <2> QED BY <1>1, <1>5, <2>1, <2>2, <2>4, <2>5, <2>6, <2>7, <2>8 DEF CommandsFollow
<1>6. PutsBack(cmd) => UNCHANGED <<queued_reliables, next_outgoing_seqnum, allocated>>
  BY <1>3, RefusedChangesNothing DEF IInv, TypeOK
<1> QED BY <1>4, <1>5, <1>6 DEF PutReliableSendCommand, SplitsNow

\* Taking the first command keeps the rest in line.
LEMMA TakePreserves ==
  ASSUME IInv, TypeOK', RunCommandQueues, queued_commands' = Tail(queued_commands),
         \/ /\ peer = "open" /\ CanAllocate(Head(queued_commands))
            /\ Allocate(Head(queued_commands))
         \/ /\ peer = "disconnecting"
            /\ UNCHANGED <<queued_reliables, next_outgoing_seqnum, allocated>>
  PROVE  PacketInv' /\ CommandsFollow'
<1> DEFINE cmd == Head(queued_commands)
           n == Len(queued_commands)
<1>1. /\ queued_commands # <<>> /\ queued_commands \in Seq(Command)
      /\ queued_commands' = Tail(queued_commands) /\ n \in Nat /\ 0 < n
      /\ DOMAIN queued_commands = 1 .. n
      /\ cmd = queued_commands[1] /\ cmd \in Command
      /\ UNCHANGED <<peer, m_window_size, outgoing_reliables_sent, accepted,
                     receiverVars, packets, acks>>
  BY EmptySeq, LenProperties, HeadTailProperties DEF IInv, TypeOK, RunCommandQueues
<1>2. /\ accepted \in Nat /\ allocated \in Nat /\ allocated <= accepted
      /\ cmd.first \in Nat /\ cmd.chunks \in Nat
  BY <1>1, Constants, SMTT(30) DEF IInv, TypeOK, CommandsFollow, Command
<1>3. CASE /\ peer = "open" /\ CanAllocate(cmd) /\ Allocate(cmd)
  <2>1. /\ cmd.first = allocated /\ cmd.first + cmd.chunks <= accepted
        /\ queued_commands[n].first + queued_commands[n].chunks = accepted
        /\ \A i \in 1 .. n : queued_commands[i].first + queued_commands[i].chunks <= accepted
        /\ \A i \in 2 .. n :
             queued_commands[i].first = queued_commands[i - 1].first + queued_commands[i - 1].chunks
    BY <1>1, <1>3, SMTT(60) DEF IInv, CommandsFollow
  <2>2. Len(queued_reliables) < QueueLimit
    <3>1. /\ Len(queued_reliables) \in Nat /\ m_max_packets_requeued <= QueueLimit
          /\ m_max_packets_requeued \in Nat /\ QueueLimit \in Nat
      BY ChannelAssumption, LenProperties DEF QueueLimit, MaxOf, IInv, TypeOK
    <3> QED BY <3>1 DEF RunCommandQueues
  <2>3. PacketInv'
    <3> HIDE DEF cmd
    <3> QED BY <1>1, <1>3, <2>1, <2>2, AllocatePreserves
  <2>4. allocated' = cmd.first + cmd.chunks /\ allocated' <= accepted'
    BY <1>1, <1>3, <2>1 DEF Allocate
  <2>5. /\ Len(queued_commands') = n - 1 /\ DOMAIN queued_commands' = 1 .. n - 1
        /\ \A i \in 1 .. n - 1 : queued_commands'[i] = queued_commands[i + 1]
    <3>1. /\ Tail(queued_commands) \in Seq(Command)
          /\ Len(Tail(queued_commands)) = n - 1
          /\ \A i \in 1 .. Len(Tail(queued_commands)) :
               Tail(queued_commands)[i] = queued_commands[i + 1]
      BY <1>1, HeadTailProperties
    <3> QED BY <1>1, <3>1, LenProperties
  <2>6. queued_commands' = <<>> => n - 1 = 0
    BY <2>5, EmptySeq
  <2> HIDE DEF cmd, n
  <2>7. queued_commands' = <<>> => allocated' = accepted'
    BY <1>1, <2>1, <2>4, <2>6
  <2>8. queued_commands' # <<>> =>
          /\ queued_commands'[1].first = allocated'
          /\ queued_commands'[n - 1].first + queued_commands'[n - 1].chunks = accepted'
    <3> SUFFICES ASSUME queued_commands' # <<>>
                 PROVE  /\ queued_commands'[1].first = allocated'
                        /\ queued_commands'[n - 1].first + queued_commands'[n - 1].chunks = accepted'
      OBVIOUS
    <3>1. 1 < n
      BY <1>1, <2>5, EmptySeq DEF TypeOK
    <3>2. /\ 1 \in 1 .. n - 1 /\ n - 1 \in 1 .. n - 1 /\ 2 \in 2 .. n
          /\ 1 + 1 = 2 /\ (n - 1) + 1 = n /\ 2 - 1 = 1
      BY <1>1, <3>1
    <3>3. queued_commands'[1] = queued_commands[2] /\ queued_commands'[n - 1] = queued_commands[n]
      BY <2>5, <3>2
    <3>4. queued_commands[2].first = queued_commands[1].first + queued_commands[1].chunks
      BY <2>1, <3>2
    <3> QED BY <1>1, <2>1, <2>4, <3>3, <3>4
  <2>9. \A i \in 1 .. n - 1 :
          queued_commands'[i].first + queued_commands'[i].chunks <= accepted'
    <3> TAKE i \in 1 .. n - 1
    <3>1. i + 1 \in 1 .. n
      BY <1>1
    <3> QED BY <1>1, <2>1, <2>5, <3>1
  <2>10. \A i \in 2 .. n - 1 :
           queued_commands'[i].first = queued_commands'[i - 1].first + queued_commands'[i - 1].chunks
    <3> TAKE i \in 2 .. n - 1
    <3>1. i + 1 \in 2 .. n /\ i \in 1 .. n - 1 /\ i - 1 \in 1 .. n - 1
          /\ (i + 1) - 1 = i /\ (i - 1) + 1 = i
      BY <1>1
    <3>2. /\ queued_commands'[i] = queued_commands[i + 1]
          /\ queued_commands'[i - 1] = queued_commands[i]
      BY <2>5, <3>1
    <3>3. queued_commands[i + 1].first = queued_commands[i].first + queued_commands[i].chunks
      BY <2>1, <3>1
    <3> QED BY <3>2, <3>3
  <2> QED BY <2>3, <2>4, <2>5, <2>7, <2>8, <2>9, <2>10 DEF CommandsFollow
<1>4. CASE /\ peer = "disconnecting"
           /\ UNCHANGED <<queued_reliables, next_outgoing_seqnum, allocated>>
  <2>1. PacketInv'
    BY <1>1, <1>4 DEF PacketInv, IInv, AllNumbered, Numbered, QueueIsTail, IncomingAhead,
       SpanFitsWindow, NothingForgotten, AckMeansReceived, InOrderDelivery, Received,
       receiverVars, R
  <2>2. CommandsFollow'
    BY <1>1, <1>2, <1>4 DEF CommandsFollow
  <2> QED BY <2>1, <2>2
<1> QED BY <1>3, <1>4

\* A refused command stays the first of those that wait.
LEMMA RunPreserves ==
  ASSUME IInv, TypeOK', RunCommandQueues
  PROVE  PacketInv' /\ CommandsFollow'
<1> DEFINE cmd == Head(queued_commands)
<1>1. /\ cmd \in Command /\ next_outgoing_seqnum \in Seqnum
      /\ UNCHANGED <<peer, m_window_size, outgoing_reliables_sent, accepted,
                     receiverVars, packets, acks>>
  BY HeadTailProperties DEF IInv, TypeOK, RunCommandQueues
<1>2. CASE PutsBack(cmd) /\ UNCHANGED queued_commands
  <2>1. UNCHANGED <<queued_reliables, next_outgoing_seqnum, allocated>>
    BY <1>1, <1>2, RefusedChangesNothing
  <2>2. PacketInv'
    BY <1>1, <2>1 DEF PacketInv, IInv, AllNumbered, Numbered, QueueIsTail, IncomingAhead,
       SpanFitsWindow, NothingForgotten, AckMeansReceived, InOrderDelivery, Received,
       receiverVars, R
  <2>3. CommandsFollow'
    BY <1>1, <1>2, <2>1 DEF IInv, CommandsFollow
  <2> QED BY <2>2, <2>3
<1> QED BY <1>2, TakePreserves, Zenon DEF RunCommandQueues

LEMMA InitIInv == Init => IInv
<1> SUFFICES ASSUME Init PROVE IInv
  OBVIOUS
<1> USE DEF Init
<1>1. /\ queued_commands \in Seq(Command) /\ queued_reliables \in Seq(Packet)
      /\ delivered \in Seq(Nat) /\ Len(delivered) = 0
      /\ DOMAIN delivered = {} /\ DOMAIN queued_reliables = {}
      /\ DOMAIN queued_commands = {} /\ Len(queued_commands) = 0
  BY EmptySeq
<1>2. TypeOK
  BY <1>1, Constants, ChannelAssumption DEF TypeOK, setWindowSize
<1>3. AllNumbered
  BY <1>1, SeqnumOfInitial DEF AllNumbered, R
<1>4. QueueIsTail /\ IncomingAhead /\ CommandsFollow /\ SpanFitsWindow
      /\ AckMeansReceived /\ InOrderDelivery
  BY <1>1 DEF QueueIsTail, IncomingAhead, CommandsFollow, SpanFitsWindow,
     AckMeansReceived, InOrderDelivery, R
<1>5. NothingForgotten
  <2>1. 0 .. allocated - 1 = {}
    OBVIOUS
  <2> QED BY <2>1 DEF NothingForgotten
<1> QED BY <1>2, <1>3, <1>4, <1>5 DEF IInv

\* The invariant is inductive.
LEMMA NextIInv == IInv /\ [Next]_vars => IInv'
<1> SUFFICES ASSUME IInv, [Next]_vars PROVE IInv'
  OBVIOUS
<1>1. TypeOK'
  BY TypePreserved DEF IInv
<1>2. SUFFICES PacketInv' /\ CommandsFollow'
  BY <1>1 DEF IInv, PacketInv
<1>3. ASSUME NEW c \in 1 .. MaxChunks, PutReliableSendCommand(c)
      PROVE  PacketInv' /\ CommandsFollow'
  BY <1>1, <1>3, PutPreserves
<1>4. ASSUME RunCommandQueues
      PROVE  PacketInv' /\ CommandsFollow'
  BY <1>1, <1>4, RunPreserves
<1>5. ASSUME SendQueued
      PROVE  PacketInv' /\ CommandsFollow'
  BY <1>1, <1>5, SendPreserves DEF SendQueued, IInv, CommandsFollow
<1>6. ASSUME NEW p \in outgoing_reliables_sent, Resend(p)
      PROVE  PacketInv' /\ CommandsFollow'
  <2>1. packets' \subseteq packets \cup {p}
    BY <1>6, SentType, Constants DEF Resend, IInv, TypeOK
  <2>2. AllNumbered'
    BY <1>6, <2>1 DEF Resend, senderVars, receiverVars, IInv, AllNumbered, Numbered, R
  <2> QED BY <1>6, <2>2 DEF Resend, senderVars, receiverVars, IInv, PacketInv, QueueIsTail,
             IncomingAhead, SpanFitsWindow, NothingForgotten, AckMeansReceived,
             InOrderDelivery, Received, CommandsFollow, R
<1>7. ASSUME NEW a \in acks, HandleAck(a)
      PROVE  PacketInv' /\ CommandsFollow'
  BY <1>1, <1>7, AckPreserves DEF HandleAck, IInv, CommandsFollow
<1>8. ASSUME CheckIncomingBuffers
      PROVE  PacketInv' /\ CommandsFollow'
  <2>1. UNCHANGED <<peer, queued_commands, accepted, allocated>>
    BY <1>8 DEF CheckIncomingBuffers, senderVars
  <2> QED BY <1>1, <1>8, <2>1, CheckPreserves DEF IInv, CommandsFollow
<1>9. ASSUME NEW p \in packets, HandleReliable(p)
      PROVE  PacketInv' /\ CommandsFollow'
  <2>1. UNCHANGED <<peer, queued_commands, accepted, allocated>>
    BY <1>9 DEF HandleReliable, senderVars
  <2> QED BY <1>1, <1>9, <2>1, ReceivePreserves DEF IInv, CommandsFollow
<1>10. CASE UpdateTimers \/ DisconnectPeer \/ DeletePeer \/ UNCHANGED vars
  <2>1. /\ UNCHANGED <<next_outgoing_seqnum, queued_commands, queued_reliables,
                      outgoing_reliables_sent, accepted, allocated>>
        /\ UNCHANGED <<next_incoming_seqnum, incoming_reliables, delivered, packets, acks>>
        /\ peer' = "open" => peer = "open"
    BY <1>10 DEF UpdateTimers, DisconnectPeer, DeletePeer, vars, senderVars, receiverVars
  <2> QED BY <2>1 DEF IInv, PacketInv, AllNumbered, Numbered, QueueIsTail, IncomingAhead,
             SpanFitsWindow, NothingForgotten, AckMeansReceived, InOrderDelivery, Received,
             CommandsFollow, R
<1> QED BY <1>3, <1>4, <1>5, <1>6, <1>7, <1>8, <1>9, <1>10 DEF Next, SenderNext, ReceiverNext

\* The inductive invariant holds of every behaviour of the channel.
THEOREM Invariance == Spec => []IInv
BY InitIInv, NextIInv, PTL DEF Spec

\* Every variable keeps its type.
THEOREM TypeCorrect == Spec => []TypeOK
<1>1. IInv => TypeOK
  BY DEF IInv
<1> QED BY <1>1, Invariance, PTL

\* Packets are handed over once each and in the order they were accepted,
\* however often the sequence numbers wrap.
THEOREM DeliversInOrder == Spec => []InOrderDelivery
<1>1. IInv => InOrderDelivery
  BY DEF IInv
<1> QED BY <1>1, Invariance, PTL

\* A packet that has a number is held by the sender until the receiver has it.
THEOREM ForgetsNothing == Spec => []NothingForgotten
<1>1. IInv => NothingForgotten
  BY DEF IInv
<1> QED BY <1>1, Invariance, PTL

\* Packets that wait for an ack stay within the receiver's window.
THEOREM SpanBounded == Spec => []SpanFitsWindow
<1>1. IInv => SpanFitsWindow
  BY DEF IInv
<1> QED BY <1>1, Invariance, PTL

\* Acks are sent for what the receiver has.
THEOREM AcksAreSound == Spec => []AckMeansReceived
<1>1. IInv => AckMeansReceived
  BY DEF IInv
<1> QED BY <1>1, Invariance, PTL

\* An ack that arrives removes the packet it was sent for and no newer one,
\* although numbers are used again.
THEOREM AcksNameTheirPackets == Spec => []AckNamesItsPacket
<1>1. IInv => AckNamesItsPacket
  BY AckNames
<1> QED BY <1>1, Invariance, PTL

\* The receive window separates what was delivered from what was not.
THEOREM ReceiverTellsApart == Spec => []OldAndNewAreToldApart
<1>1. IInv => OldAndNewAreToldApart
  BY ToldApart
<1> QED BY <1>1, Invariance, PTL

-----------------------------------------------------------------------------
(* The channel implements the stream.                                      *)

\* A position that is handed over is the next one, and it was accepted.
LEMMA DeliversAccepted ==
  ASSUME IInv, CheckIncomingBuffers \/ \E p \in packets : HandleReliable(p),
         delivered' # delivered
  PROVE  /\ Len(delivered) < accepted
         /\ delivered' = Append(delivered, Len(delivered))
<1>1. /\ R \in Nat /\ allocated \in Nat /\ accepted \in Nat /\ allocated <= accepted
  BY LenProperties DEF IInv, TypeOK, CommandsFollow, R
<1>2. CASE CheckIncomingBuffers
  <2>1. PICK p \in Buffered(next_incoming_seqnum) : delivered' = Append(delivered, p.data)
    BY <1>2 DEF CheckIncomingBuffers
  <2>2. p \in incoming_reliables /\ p.data = R
    BY BufferedIsNext DEF Buffered
  <2>3. p.data < allocated
    BY <2>2 DEF IInv, AllNumbered, Numbered
  <2> QED BY <1>1, <2>1, <2>2, <2>3 DEF R
<1>3. ASSUME NEW p \in packets, HandleReliable(p)
      PROVE  /\ Len(delivered) < accepted
             /\ delivered' = Append(delivered, Len(delivered))
  <2>1. /\ p.data \in Nat /\ p.data < allocated /\ p.seqnum = SeqnumOf(p.data)
        /\ next_incoming_seqnum = SeqnumOf(R)
    BY DEF IInv, TypeOK, Packet, AllNumbered, Numbered
  <2>2. /\ InReceiveWindow(p) /\ p.seqnum = next_incoming_seqnum
        /\ delivered' = Append(delivered, p.data)
    BY <1>3 DEF HandleReliable, receiverVars
  <2>3. R <= p.data
    BY <1>1, <1>3, <2>1, <2>2, ToldApart DEF OldAndNewAreToldApart, HandleReliable, R
  <2>4. p.data - R < Modulus /\ R - p.data < Modulus
    <3>1. allocated - R < MAX_RELIABLE_WINDOW_SIZE
      BY <1>3, SenderWaits DEF HandleReliable
    <3> QED BY <1>1, <2>1, <2>3, <3>1, Constants
  <2>5. SeqnumOf(p.data) = SeqnumOf(R)
    BY <2>1, <2>2, Zenon
  <2>6. p.data \in Int /\ R \in Int
    BY <1>1, <2>1
  <2>7. p.data = R
    BY <2>4, <2>5, <2>6, SeqnumOfInjective
  <2> QED BY <1>1, <2>1, <2>2, <2>7 DEF R
<1> QED BY <1>2, <1>3

LEMMA StreamStep ==
  ASSUME IInv, [Next]_vars
  PROVE  [Stream!Next]_(Stream!vars)
<1> USE DEF Stream!vars
<1>1. ASSUME NEW c \in 1 .. MaxChunks, PutReliableSendCommand(c)
      PROVE  Stream!Accept
  <2>1. /\ peer = "open" /\ accepted + c <= MaxData /\ accepted' = accepted + c
        /\ UNCHANGED <<peer, delivered>>
    BY <1>1 DEF PutReliableSendCommand, receiverVars
  <2> QED BY <2>1 DEF Stream!Accept
<1>2. ASSUME CheckIncomingBuffers \/ \E p \in packets : HandleReliable(p)
      PROVE  [Stream!Deliver]_(Stream!vars)
  <2>1. UNCHANGED <<peer, accepted>>
    BY <1>2 DEF CheckIncomingBuffers, HandleReliable, senderVars
  <2>2. CASE delivered' = delivered
    BY <2>1, <2>2
  <2>3. CASE delivered' # delivered
    BY <1>2, <2>1, <2>3, DeliversAccepted DEF Stream!Deliver
  <2> QED BY <2>2, <2>3
<1>3. ASSUME DisconnectPeer \/ DeletePeer
      PROVE  [Stream!Close]_(Stream!vars)
  <2>1. UNCHANGED <<accepted, delivered>> /\ peer' # "open"
    BY <1>3 DEF DisconnectPeer, DeletePeer, senderVars, receiverVars
  <2> QED BY <2>1, Zenon DEF Stream!Close
<1>4. CASE \/ RunCommandQueues \/ SendQueued \/ UpdateTimers \/ UNCHANGED vars
           \/ \E p \in outgoing_reliables_sent : Resend(p)
           \/ \E a \in acks : HandleAck(a)
  <2>1. UNCHANGED <<accepted, delivered, peer>>
    BY <1>4 DEF RunCommandQueues, SendQueued, UpdateTimers, Resend, HandleAck,
       vars, senderVars, receiverVars
  <2> QED BY <2>1
<1> QED BY <1>1, <1>2, <1>3, <1>4 DEF Next, SenderNext, ReceiverNext, Stream!Next

\* Every behaviour of the channel is one of the stream that internal.h
\* promises: nothing is lost, repeated or overtaken while the peer lasts.
THEOREM ImplementsStream == Spec => StreamSpec
<1>1. Init => Stream!Init
  BY DEF Init, Stream!Init
<1>2. IInv /\ [Next]_vars => [Stream!Next]_(Stream!vars)
  BY StreamStep
<1> QED BY <1>1, <1>2, Invariance, PTL DEF Spec, StreamSpec, Stream!Spec
=============================================================================
