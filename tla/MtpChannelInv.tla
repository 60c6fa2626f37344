--------------------------- MODULE MtpChannelInv ---------------------------
(***************************************************************************)
(* The inductive invariant behind the safety properties of MtpChannel, and *)
(* the assumption on the constants under which it holds.                   *)
(***************************************************************************)
EXTENDS MtpChannel

\* What keeps the numbers unambiguous.  The first conjunct holds of the code's
\* constants (2048 and 32768), the second of messages of at most 31744 packets
\* (about 15 MB), the others are about the network.
ASSUME WindowAssumption ==
  /\ MAX_RELIABLE_WINDOW_SIZE_SEND + 2 < MAX_RELIABLE_WINDOW_SIZE
  /\ QueueLimit + MaxChunks <= MAX_RELIABLE_WINDOW_SIZE
  /\ DataLifetime <= Modulus - MAX_RELIABLE_WINDOW_SIZE
  /\ AckLifetime <= Modulus

R == Len(delivered)

\* Every packet carries the number of its position.
Numbered(p) == p.data < allocated /\ p.seqnum = SeqnumOf(p.data)

AllNumbered ==
  /\ next_outgoing_seqnum = SeqnumOf(allocated)
  /\ next_incoming_seqnum = SeqnumOf(R)
  /\ \A p \in outgoing_reliables_sent \cup incoming_reliables \cup packets \cup acks :
       Numbered(p)
  /\ \A i \in DOMAIN queued_reliables : Numbered(queued_reliables[i])

\* queued_reliables holds the last positions that were given a number, in order,
\* and what has been sent lies below them.
QueueIsTail ==
  /\ \A i \in DOMAIN queued_reliables :
       queued_reliables[i].data = allocated - Len(queued_reliables) + i - 1
  /\ \A p \in outgoing_reliables_sent : p.data < allocated - Len(queued_reliables)

\* The receiver holds nothing it has delivered, nor anything beyond its window.
IncomingAhead ==
  /\ R <= allocated
  /\ \A p \in incoming_reliables :
       R <= p.data /\ p.data < R + MAX_RELIABLE_WINDOW_SIZE

\* Queued commands carry on where the numbered packets end, in order and
\* without a gap.
CommandsFollow ==
  /\ allocated <= accepted
  /\ peer = "open" =>
       /\ queued_commands = <<>> => allocated = accepted
       /\ queued_commands # <<>> =>
            /\ queued_commands[1].first = allocated
            /\ LET last == queued_commands[Len(queued_commands)]
               IN  last.first + last.chunks = accepted
       /\ \A i \in DOMAIN queued_commands :
            queued_commands[i].first + queued_commands[i].chunks <= accepted
       /\ \A i \in 2 .. Len(queued_commands) :
            queued_commands[i].first =
              queued_commands[i - 1].first + queued_commands[i - 1].chunks

IInv ==
  /\ TypeOK
  /\ AllNumbered
  /\ QueueIsTail
  /\ IncomingAhead
  /\ CommandsFollow
  /\ SpanFitsWindow
  /\ NothingForgotten
  /\ AckMeansReceived
  /\ InOrderDelivery
=============================================================================
