------------------------- MODULE ReliableBufferSpec -------------------------
(***************************************************************************)
(* What the two reliable buffers of a channel are to MtpChannel: a set of  *)
(* sequence numbers that lie in the window starting at base, from which    *)
(* the oldest, or any one by its number, is taken.                         *)
(***************************************************************************)
EXTENDS MtpSeqnum

VARIABLES held, base

vars == <<held, base>>

Init == held = {} /\ base \in Seqnum

\* Neither a number outside the window, nor base itself, nor one twice.
Insert(s) ==
  /\ held' = IF Ahead(base, s) \in 1 .. MAX_RELIABLE_WINDOW_SIZE - 1
             THEN held \cup {s} ELSE held
  /\ UNCHANGED base

Oldest == CHOOSE s \in held : \A t \in held : Ahead(base, s) <= Ahead(base, t)

PopFirst == held # {} /\ held' = held \ {Oldest} /\ UNCHANGED base

PopSeqnum(s) == s \in held /\ held' = held \ {s} /\ UNCHANGED base

Advance == base \notin held /\ base' = (base + 1) % Modulus /\ UNCHANGED held

Next ==
  \/ \E s \in Seqnum : Insert(s) \/ PopSeqnum(s)
  \/ PopFirst
  \/ Advance

Spec == Init /\ [][Next]_vars
=============================================================================
