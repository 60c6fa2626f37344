----------------------------- MODULE MtpWindow ------------------------------
(***************************************************************************)
(* The send window of one con::Channel: the counters that the acks, the    *)
(* resends and the late acks of a second feed, and UpdateTimers, which     *)
(* turns them into a window size once per second (network/mtp/impl.cpp).   *)
(*                                                                         *)
(* Packets have 512 bytes, the size UpdateTimers itself assumes; bytes are *)
(* counted in packets.  MtpChannel takes the window sizes this module      *)
(* reaches as arbitrary steps.                                             *)
(*                                                                         *)
(* Init, Next, Spec, vars and TypeOK carry the component's name, since     *)
(* MtpChannelPartsProofs extends several components of a channel.          *)
(***************************************************************************)
EXTENDS Naturals, Integers

CONSTANTS
  START_RELIABLE_WINDOW_SIZE,     \* 64
  MIN_RELIABLE_WINDOW_SIZE,       \* 32
  MAX_RELIABLE_WINDOW_SIZE_SEND,  \* 2048
  LargeStep, HalfStep, SmallStep, \* 100, 50 and 10
  MaxResends,                     \* packets sent again in one round (peer_packet_quota)
  MaxSeconds,                     \* seconds in bpm_counter's period: 10
  MaxCount                        \* bound on each counter

ASSUME WindowConstants ==
  /\ START_RELIABLE_WINDOW_SIZE \in Nat
  /\ MIN_RELIABLE_WINDOW_SIZE \in Nat
  /\ MAX_RELIABLE_WINDOW_SIZE_SEND \in Nat
  /\ MIN_RELIABLE_WINDOW_SIZE <= MAX_RELIABLE_WINDOW_SIZE_SEND
  /\ LargeStep \in Nat /\ HalfStep \in Nat /\ SmallStep \in Nat
  /\ MaxResends \in Nat \ {0}
  /\ MaxSeconds \in Nat \ {0} /\ MaxCount \in Nat

VARIABLES
  m_window_size,
  current_packet_loss, current_packet_too_late, current_packet_successful,
  current_bytes_transfered,
  bpm_counter,       \* seconds since the byte counters were last cleared
  acked              \* history: packets acknowledged in this second

windowVars == <<m_window_size, current_packet_loss, current_packet_too_late,
          current_packet_successful, current_bytes_transfered, bpm_counter, acked>>

\* No upper limit.
rangelim_Mutant(size) ==
  IF size < MIN_RELIABLE_WINDOW_SIZE THEN MIN_RELIABLE_WINDOW_SIZE ELSE size

rangelim(size) ==
  IF size < MIN_RELIABLE_WINDOW_SIZE THEN MIN_RELIABLE_WINDOW_SIZE
  ELSE IF size > MAX_RELIABLE_WINDOW_SIZE_SEND THEN MAX_RELIABLE_WINDOW_SIZE_SEND
  ELSE size

WindowInit ==
  /\ m_window_size = rangelim(START_RELIABLE_WINDOW_SIZE)
  /\ current_packet_loss = 0
  /\ current_packet_too_late = 0
  /\ current_packet_successful = 0
  /\ current_bytes_transfered = 0
  /\ bpm_counter = 0
  /\ acked = 0

-----------------------------------------------------------------------------
\* An ack whose packet was still in the buffer: UpdateBytesSent(p->size(), 1).
UpdateBytesSent ==
  /\ current_bytes_transfered < MaxCount
  /\ current_bytes_transfered' = current_bytes_transfered + 1
  /\ current_packet_successful' = current_packet_successful + 1
  /\ acked' = acked + 1
  /\ UNCHANGED <<m_window_size, current_packet_loss, current_packet_too_late,
                 bpm_counter>>

\* runTimeouts sends n packets again.
UpdatePacketLossCounter(n) ==
  /\ current_packet_loss + n <= MaxCount
  /\ current_packet_loss' = current_packet_loss + n
  /\ UNCHANGED <<m_window_size, current_packet_too_late, current_packet_successful,
                 current_bytes_transfered, bpm_counter, acked>>

\* An ack whose packet was no longer in the buffer.
UpdatePacketTooLateCounter ==
  /\ current_packet_too_late < MaxCount
  /\ current_packet_too_late' = current_packet_too_late + 1
  /\ UNCHANGED <<m_window_size, current_packet_loss, current_packet_successful,
                 current_bytes_transfered, bpm_counter, acked>>

\* Late packets do not count.
packet_loss_Mutant ==
  IF current_packet_loss < current_packet_successful THEN current_packet_loss
  ELSE current_packet_successful

\* Packets lost or late, but at most as many as were successful.
packet_loss ==
  LET bad == current_packet_loss + current_packet_too_late
  IN  IF bad < current_packet_successful THEN bad ELSE current_packet_successful

\* The quotient the thresholds were written for.
Ratio_Mutant ==
  IF current_packet_successful > 0
  THEN (100 * packet_loss) \div current_packet_successful
  ELSE 0

\* successful_to_lost_ratio in hundredths: a quotient of two unsigned integers,
\* made a float afterwards.
Ratio ==
  IF current_packet_successful > 0
  THEN 100 * (packet_loss \div current_packet_successful)
  ELSE 0

reasonable_amount_of_data_transmitted_Mutant ==
  2 * current_bytes_transfered >= m_window_size

reasonable_amount_of_data_transmitted ==
  2 * current_bytes_transfered > m_window_size

\* The window UpdateTimers leaves when a second is over.
NewWindowSize ==
  IF current_packet_successful = 0 /\ packet_loss > 0
  THEN rangelim(m_window_size - SmallStep)
  ELSE CASE Ratio < 1 -> IF reasonable_amount_of_data_transmitted
                         THEN rangelim(m_window_size + LargeStep)
                         ELSE m_window_size
         [] Ratio >= 1 /\ Ratio < 5 -> IF reasonable_amount_of_data_transmitted
                                       THEN rangelim(m_window_size + HalfStep)
                                       ELSE m_window_size
         [] Ratio > 15 -> rangelim(m_window_size - LargeStep)
         [] Ratio > 10 /\ Ratio <= 15 -> rangelim(m_window_size - HalfStep)
         [] OTHER -> m_window_size

\* packet_loss_counter has passed one second.  The packet counters are cleared,
\* the byte counters only when bpm_counter passes MaxSeconds as well.
UpdateTimers ==
  /\ m_window_size' = NewWindowSize
  /\ current_packet_loss' = 0
  /\ current_packet_too_late' = 0
  /\ current_packet_successful' = 0
  /\ acked' = 0
  /\ IF bpm_counter = MaxSeconds
     THEN bpm_counter' = 0 /\ current_bytes_transfered' = 0
     ELSE bpm_counter' = bpm_counter + 1 /\ UNCHANGED current_bytes_transfered

WindowNext ==
  \/ UpdateBytesSent
  \/ \E n \in 1 .. MaxResends : UpdatePacketLossCounter(n)
  \/ UpdatePacketTooLateCounter
  \/ UpdateTimers

WindowSpec == WindowInit /\ [][WindowNext]_windowVars

-----------------------------------------------------------------------------
WindowTypeOK ==
  /\ m_window_size \in MIN_RELIABLE_WINDOW_SIZE .. MAX_RELIABLE_WINDOW_SIZE_SEND
  /\ current_packet_loss \in 0 .. MaxCount
  /\ current_packet_too_late \in 0 .. MaxCount
  /\ current_packet_successful \in 0 .. MaxCount
  /\ current_bytes_transfered \in 0 .. MaxCount
  /\ bpm_counter \in 0 .. MaxSeconds

\* The window never shrinks for less than a second in which as many packets
\* were lost or late as got through: stray resends cost nothing.
ShrinksOnlyUnderHeavyLoss ==
  m_window_size' < m_window_size =>
    /\ current_packet_loss + current_packet_too_late > 0
    /\ current_packet_loss + current_packet_too_late >= acked

\* Growth is by the full step or to the limit, only when more than half of the
\* window was acknowledged since the byte counter was cleared, and only after a
\* second in which less was lost or late than got through: the ratio is a whole
\* number, so the branches for a loss of 1 to 15 percent are never taken.
\*
\* The one exception is a second in which nothing got through.  What is lost or
\* late is a "signal of congestion" (impl.cpp:771-773), but it is limited to what
\* got through (774), so that the branch for such a second (782-783) is dead and
\* the window may grow.
GrowsOnlyWhenUsed ==
  m_window_size' > m_window_size =>
    /\ 2 * current_bytes_transfered > m_window_size
    /\ \/ m_window_size' = m_window_size + LargeStep
       \/ m_window_size' = MAX_RELIABLE_WINDOW_SIZE_SEND
    /\ \/ current_packet_loss + current_packet_too_late < acked
       \/ acked = 0

\* The window stays within its limits, shrinks only for a second worse than the
\* thresholds of UpdateTimers were written for, and grows only when it was used
\* and, but for the exception above, not for a second that should shrink it.
ResizesWithReason ==
  [][WindowTypeOK' /\ ShrinksOnlyUnderHeavyLoss /\ GrowsOnlyWhenUsed]_windowVars
=============================================================================
