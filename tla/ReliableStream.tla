--------------------------- MODULE ReliableStream ---------------------------
(***************************************************************************)
(* What internal.h (lines 86-90) promises of a reliable channel: the       *)
(* packets the application hands over come out at the other end once each  *)
(* and in the order they were sent, until the connection is given up.      *)
(* Positions in the stream stand for the packets' contents.                *)
(***************************************************************************)
EXTENDS Naturals, Sequences

CONSTANTS MaxData, MaxChunks

VARIABLES
  accepted,    \* how many packets the application has handed over
  delivered,   \* the positions the receiving application has been given
  open         \* FALSE once the sender has given the connection up

vars == <<accepted, delivered, open>>

Init == accepted = 0 /\ delivered = <<>> /\ open = TRUE

\* A command is split into one or more packets.
Accept == /\ open
          /\ \E c \in 1 .. MaxChunks : /\ accepted + c <= MaxData
                                       /\ accepted' = accepted + c
          /\ UNCHANGED <<delivered, open>>

\* Packets on their way may still arrive after the sender has given up.
Deliver == /\ Len(delivered) < accepted
           /\ delivered' = Append(delivered, Len(delivered))
           /\ UNCHANGED <<accepted, open>>

Close == open /\ open' = FALSE /\ UNCHANGED <<accepted, delivered>>

Next == Accept \/ Deliver \/ Close

Spec == Init /\ [][Next]_vars

Fairness == WF_vars(Deliver)
LiveSpec == Spec /\ Fairness
=============================================================================
