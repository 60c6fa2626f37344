----------------------------- MODULE MtpSeqnum -----------------------------
(***************************************************************************)
(* Sequence number arithmetic of the MTP transport: the two comparison     *)
(* functions of src/network/mtp/internal.h and the window test of          *)
(* Channel::getOutgoingSequenceNumber.  Sequence numbers are u16, so they  *)
(* live in 0 .. SEQNUM_MAX and every sum wraps at SEQNUM_MAX + 1.          *)
(***************************************************************************)
EXTENDS Naturals, Integers

CONSTANTS
  SEQNUM_MAX,                \* 65535 in the code
  SEQNUM_INITIAL,            \* 65500: the number of a channel's first packet
  MAX_RELIABLE_WINDOW_SIZE   \* 0x8000: what a receiver accepts

\* The values of internal.h satisfy all of these: 65500 <= 65535, and half of
\* 65536 is 32768 = 0x8000.
ASSUME SeqnumAssumption ==
  /\ SEQNUM_MAX \in Nat /\ SEQNUM_MAX > 0
  /\ SEQNUM_INITIAL \in 0 .. SEQNUM_MAX
  /\ MAX_RELIABLE_WINDOW_SIZE \in Nat
  /\ 0 < MAX_RELIABLE_WINDOW_SIZE
  /\ 2 * MAX_RELIABLE_WINDOW_SIZE <= SEQNUM_MAX + 1

Modulus == SEQNUM_MAX + 1
Seqnum == 0 .. SEQNUM_MAX

\* The number the n-th packet of a channel (counted from 0) is given: a u16
\* counter that starts at SEQNUM_INITIAL and is incremented per packet.
SeqnumOf(n) == (SEQNUM_INITIAL + n) % Modulus

\* Is totest the newer of the two?  (The distance is measured without wrapping
\* and compared with half of the number space.)
seqnum_higher(totest, base) ==
  IF totest > base THEN totest - base <= SEQNUM_MAX \div 2
                   ELSE base - totest > SEQNUM_MAX \div 2

\* The number behind the window's last is let in.
seqnum_in_window_Mutant(seqnum, next, window_size) ==
  LET window_end == (next + window_size) % Modulus
  IN  IF next < window_end
      THEN seqnum >= next /\ seqnum <= window_end
      ELSE seqnum <= window_end \/ seqnum >= next

\* Is seqnum one of the window_size numbers that start at next?
seqnum_in_window(seqnum, next, window_size) ==
  LET window_end == (next + window_size) % Modulus
  IN  IF next < window_end
      THEN seqnum >= next /\ seqnum < window_end
      ELSE seqnum < window_end \/ seqnum >= next

\* How far b is ahead of a, going upwards and around.
Ahead(a, b) == (b - a) % Modulus

\* A window that is not enforced while the numbers wrap.
ExceedsWindow_Mutant(lowest, next, window_size) ==
  lowest < next /\ next - lowest > window_size

\* getOutgoingSequenceNumber's test with a non-empty outgoing buffer: the
\* distance from the lowest unacknowledged number to the next one exceeds the
\* window.  On the wrapping branch the code measures the distance less one.
ExceedsWindow(lowest, next, window_size) ==
  IF lowest < next THEN next - lowest > window_size
                   ELSE next + (SEQNUM_MAX - lowest) > window_size
=============================================================================
