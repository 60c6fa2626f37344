------------------------ MODULE MtpChannelPartsProofs ------------------------
(***************************************************************************)
(* The parts of a con::Channel that MtpChannel takes for granted, for      *)
(* every value of the constants:                                           *)
(*   - the congestion window: why it changes (the thresholds of            *)
(*     UpdateTimers are compared with a quotient of unsigned integers,     *)
(*     which can only be 0 or 1);                                          *)
(*   - the reliable packet buffer: the list stays sorted around the wrap,  *)
(*     and every operation does to its numbers what ReliableBufferSpec     *)
(*     says;                                                               *)
(*   - split messages: what is handed up is one whole message, and the     *)
(*     reliable ones are a stream again.                                   *)
(***************************************************************************)
EXTENDS MtpWindow, MtpReliableBuffer, MtpSplit, MtpSeqnumProofs, WellFoundedInduction,
        FiniteSetTheorems, SequenceTheorems

-----------------------------------------------------------------------------
(* The congestion window.                                                  *)

\* The counters of a second agree with each other: what was acknowledged was
\* counted as successful and its bytes as transferred.
CountersAgree ==
  /\ acked = current_packet_successful
  /\ current_packet_successful <= current_bytes_transfered

WindowInv == WindowTypeOK /\ CountersAgree

\* A quotient of two numbers of which the first is not the larger one.
LEMMA Quotient ==
  ASSUME NEW x \in Nat, NEW y \in Nat, 0 < y, x <= y
  PROVE  x \div y = IF x = y THEN 1 ELSE 0
<1>1. x \div y \in Int /\ x % y \in 0 .. y - 1 /\ x = y * (x \div y) + (x % y)
  OBVIOUS
<1> DEFINE q == x \div y
           r == x % y
<1>2. q \in Int /\ r \in Int /\ 0 <= r /\ r < y /\ x = y * q + r
  BY <1>1
<1> HIDE DEF q, r
<1>3. ~(q <= -1)
  <2>1. SUFFICES ASSUME q <= -1 PROVE FALSE
    OBVIOUS
  <2>2. y * q <= y * (-1)
    BY <1>2, <2>1
  <2> QED BY <1>2, <2>2
<1>4. ~(q >= 2)
  <2>1. SUFFICES ASSUME q >= 2 PROVE FALSE
    OBVIOUS
  <2>2. y * q >= y * 2
    BY <1>2, <2>1
  <2> QED BY <1>2, <2>2
<1>5. CASE q = 0
  BY <1>2, <1>5 DEF q
<1>6. CASE q = 1
  BY <1>2, <1>6 DEF q
<1> QED BY <1>2, <1>3, <1>4, <1>5, <1>6

\* rangelim keeps to the limits.
LEMMA Limited ==
  ASSUME NEW size \in Int
  PROVE  rangelim(size) \in MIN_RELIABLE_WINDOW_SIZE .. MAX_RELIABLE_WINDOW_SIZE_SEND
BY WindowConstants DEF rangelim

\* The loss is limited to what got through, so the ratio is 0 or 100, and 100
\* just when as much was lost as got through.
LEMMA RatioIsCoarse ==
  ASSUME WindowInv
  PROVE  /\ ~(current_packet_successful = 0 /\ packet_loss > 0)
         /\ \/ /\ Ratio = 0
               /\ \/ current_packet_loss + current_packet_too_late < acked
                  \/ acked = 0
            \/ /\ Ratio = 100
               /\ current_packet_loss + current_packet_too_late > 0
               /\ current_packet_loss + current_packet_too_late >= acked
<1> DEFINE bad == current_packet_loss + current_packet_too_late
           s == current_packet_successful
<1>1. bad \in Nat /\ s \in Nat /\ acked = s
  BY WindowConstants DEF WindowInv, WindowTypeOK, CountersAgree
<1>2. packet_loss = IF bad < s THEN bad ELSE s
  BY DEF packet_loss
<1>3. packet_loss \in Nat /\ packet_loss <= s
  BY <1>1, <1>2
<1>4. CASE s = 0
  BY <1>1, <1>3, <1>4 DEF Ratio
<1>5. CASE s > 0
  <2>1. packet_loss \div s = IF packet_loss = s THEN 1 ELSE 0
    BY <1>1, <1>3, <1>5, Quotient
  <2>2. Ratio = 100 * (packet_loss \div s)
    BY <1>5 DEF Ratio
  <2>3. Ratio = IF packet_loss = s THEN 100 ELSE 0
    BY <2>1, <2>2
  <2> QED BY <1>1, <1>2, <1>5, <2>3
<1> QED BY <1>1, <1>4, <1>5

\* What UpdateTimers makes of the window.
LEMMA NewWindow ==
  ASSUME WindowInv
  PROVE  /\ NewWindowSize \in MIN_RELIABLE_WINDOW_SIZE .. MAX_RELIABLE_WINDOW_SIZE_SEND
         /\ NewWindowSize < m_window_size =>
              /\ current_packet_loss + current_packet_too_late > 0
              /\ current_packet_loss + current_packet_too_late >= acked
         /\ NewWindowSize > m_window_size =>
              /\ reasonable_amount_of_data_transmitted
              /\ NewWindowSize \in {m_window_size + LargeStep, MAX_RELIABLE_WINDOW_SIZE_SEND}
              /\ \/ current_packet_loss + current_packet_too_late < acked
                 \/ acked = 0
<1>1. m_window_size \in MIN_RELIABLE_WINDOW_SIZE .. MAX_RELIABLE_WINDOW_SIZE_SEND
  BY DEF WindowInv, WindowTypeOK
<1>2. m_window_size \in Int /\ m_window_size + LargeStep \in Int /\ m_window_size - LargeStep \in Int
  BY <1>1, WindowConstants
<1>3. CASE Ratio = 0
  <2>1. \/ current_packet_loss + current_packet_too_late < acked
        \/ acked = 0
    BY <1>3, RatioIsCoarse
  <2>2. NewWindowSize = IF reasonable_amount_of_data_transmitted
                        THEN rangelim(m_window_size + LargeStep) ELSE m_window_size
    BY <1>3, RatioIsCoarse DEF NewWindowSize
  <2>3. CASE reasonable_amount_of_data_transmitted
    <3>1. rangelim(m_window_size + LargeStep) >= m_window_size
      BY <1>1, WindowConstants DEF rangelim
    <3>2. rangelim(m_window_size + LargeStep) \in
            {m_window_size + LargeStep, MAX_RELIABLE_WINDOW_SIZE_SEND}
      BY <1>1, WindowConstants DEF rangelim
    <3> QED BY <1>1, <1>2, <2>2, <2>3, <2>1, <3>1, <3>2, Limited, WindowConstants
  <2>4. CASE ~reasonable_amount_of_data_transmitted
    BY <1>1, <2>2, <2>4, WindowConstants
  <2> QED BY <2>3, <2>4
<1>4. CASE Ratio = 100
  <2>1. NewWindowSize = rangelim(m_window_size - LargeStep)
    BY <1>4, RatioIsCoarse DEF NewWindowSize
  <2>2. rangelim(m_window_size - LargeStep) <= m_window_size
    BY <1>1, WindowConstants DEF rangelim
  <2> QED BY <1>1, <1>2, <1>4, <2>1, <2>2, Limited, RatioIsCoarse, WindowConstants
<1> QED BY <1>3, <1>4, RatioIsCoarse

LEMMA InitCounts == WindowInit => WindowInv
<1> SUFFICES ASSUME WindowInit PROVE WindowInv
  OBVIOUS
<1>1. m_window_size \in MIN_RELIABLE_WINDOW_SIZE .. MAX_RELIABLE_WINDOW_SIZE_SEND
  BY WindowConstants, Limited DEF WindowInit
<1> QED BY <1>1, WindowConstants DEF WindowInit, WindowInv, WindowTypeOK, CountersAgree

LEMMA StepCounts == WindowInv /\ [WindowNext]_windowVars => WindowInv' /\ ShrinksOnlyUnderHeavyLoss /\ GrowsOnlyWhenUsed
<1> SUFFICES ASSUME WindowInv, [WindowNext]_windowVars
             PROVE  WindowInv' /\ ShrinksOnlyUnderHeavyLoss /\ GrowsOnlyWhenUsed
  OBVIOUS
<1> USE WindowConstants DEF WindowInv
<1>2. CASE UpdateBytesSent
  BY <1>2 DEF UpdateBytesSent, WindowTypeOK, CountersAgree, ShrinksOnlyUnderHeavyLoss, GrowsOnlyWhenUsed
<1>3. ASSUME NEW n \in 1 .. MaxResends, UpdatePacketLossCounter(n)
      PROVE  WindowInv' /\ ShrinksOnlyUnderHeavyLoss /\ GrowsOnlyWhenUsed
  BY <1>3 DEF UpdatePacketLossCounter, WindowTypeOK, CountersAgree, ShrinksOnlyUnderHeavyLoss,
              GrowsOnlyWhenUsed
<1>4. CASE UpdatePacketTooLateCounter
  BY <1>4 DEF UpdatePacketTooLateCounter, WindowTypeOK, CountersAgree, ShrinksOnlyUnderHeavyLoss,
              GrowsOnlyWhenUsed
<1>5. CASE UpdateTimers
  <2>1. WindowInv'
    BY <1>5, NewWindow DEF UpdateTimers, WindowTypeOK, CountersAgree
  <2>2. m_window_size' = NewWindowSize
    BY <1>5 DEF UpdateTimers
  <2> QED BY <2>1, <2>2, NewWindow DEF ShrinksOnlyUnderHeavyLoss, GrowsOnlyWhenUsed,
                reasonable_amount_of_data_transmitted
<1>6. CASE UNCHANGED windowVars
  BY <1>6 DEF windowVars, WindowTypeOK, CountersAgree, ShrinksOnlyUnderHeavyLoss, GrowsOnlyWhenUsed
<1> QED BY <1>2, <1>3, <1>4, <1>5, <1>6 DEF WindowNext

\* The window keeps its limits, shrinks only for a second in which as many
\* packets were lost or late as got through, and grows only by LargeStep or to
\* its limit, when it was used, and for a second in which less was lost or late
\* than got through, or nothing got through (the limit of impl.cpp:774): whatever
\* the constants are.
THEOREM WindowResizes == WindowSpec => ResizesWithReason
<1>1. WindowInv /\ WindowInv' /\ [WindowNext]_windowVars
        => [WindowTypeOK' /\ ShrinksOnlyUnderHeavyLoss /\ GrowsOnlyWhenUsed]_windowVars
  BY StepCounts DEF WindowInv
<1> QED BY <1>1, InitCounts, StepCounts, PTL DEF WindowSpec, ResizesWithReason

-----------------------------------------------------------------------------
(* The packet buffer.                                                      *)

(* Distances from base, and sequences.                                     *)

LEMMA Distance ==
  ASSUME NEW a \in Seqnum, NEW s \in Seqnum
  PROVE  /\ Ahead(a, s) = IF a <= s THEN s - a ELSE (s - a) + Modulus
         /\ Ahead(a, s) \in 0 .. SEQNUM_MAX
<1>1. /\ Modulus \in Int /\ Modulus = SEQNUM_MAX + 1 /\ SEQNUM_MAX \in Int
      /\ s \in Int /\ a \in Int
      /\ 0 <= s /\ s < Modulus /\ 0 <= a /\ a < Modulus
  BY SeqnumAssumption DEF Modulus, Seqnum
<1>2. CASE a <= s
  <2>1. s - a \in Seqnum
    BY <1>1, <1>2 DEF Seqnum
  <2>2. s - a = Modulus * 0 + (s - a)
    BY <1>1
  <2>3. (s - a) % Modulus = s - a
    BY <1>1, <2>1, <2>2, ModUnique
  <2> QED BY <1>1, <1>2, <2>1, <2>3 DEF Ahead, Seqnum
<1>3. CASE s < a
  <2>1. (s - a) + Modulus \in Seqnum
    BY <1>1, <1>3 DEF Seqnum
  <2>2. s - a = Modulus * (-1) + ((s - a) + Modulus)
    BY <1>1
  <2>3. (s - a) % Modulus = (s - a) + Modulus
    BY <1>1, <2>1, <2>2, ModUnique
  <2> QED BY <1>1, <1>3, <2>1, <2>3 DEF Ahead, Seqnum
<1> QED BY <1>1, <1>2, <1>3

LEMMA SameDistance ==
  ASSUME NEW a \in Seqnum, NEW s \in Seqnum, NEW t \in Seqnum, Ahead(a, s) = Ahead(a, t)
  PROVE  s = t
<1>1. s \in Int /\ t \in Int /\ a \in Int /\ Modulus \in Int
      /\ s >= 0 /\ s < Modulus /\ t >= 0 /\ t < Modulus
  BY SeqnumAssumption DEF Modulus, Seqnum
<1> QED BY <1>1, Distance

\* The two integer comparisons of the loop are one comparison of distances.
LEMMA WalksIsAhead ==
  ASSUME base \in Seqnum, NEW s \in Seqnum, NEW q \in Seqnum
  PROVE  WalksPast(s, q) <=> Ahead(base, s) < Ahead(base, q)
<1>1. s \in Int /\ q \in Int /\ base \in Int /\ Modulus \in Int
      /\ s >= 0 /\ s < Modulus /\ q >= 0 /\ q < Modulus /\ base >= 0 /\ base < Modulus
  BY SeqnumAssumption DEF Modulus, Seqnum
<1>2. /\ Ahead(base, s) = IF base <= s THEN s - base ELSE (s - base) + Modulus
      /\ Ahead(base, q) = IF base <= q THEN q - base ELSE (q - base) + Modulus
  BY Distance
<1> QED BY <1>1, <1>2 DEF WalksPast

LEMMA LeastNatural ==
  ASSUME NEW S \in SUBSET Nat, S # {}
  PROVE  \E x \in S : \A y \in S : x <= y
<1> DEFINE Less == {pair \in Nat \X Nat : pair[1] < pair[2]}
<1>1. OpToRel(<, Nat) = Less
  BY DEF OpToRel
<1>2. IsWellFoundedOn(Less, Nat)
  BY <1>1, NatLessThanWellFounded
<1>3. \A x, y \in Nat : <<y, x>> \notin Less => x <= y
  <2>1. SUFFICES ASSUME NEW x \in Nat, NEW y \in Nat, y < x PROVE <<y, x>> \in Less
    OBVIOUS
  <2>2. <<y, x>> \in Nat \X Nat /\ <<y, x>>[1] = y /\ <<y, x>>[2] = x
    OBVIOUS
  <2> QED BY <2>1, <2>2
<1> HIDE DEF Less
<1>4. PICK x \in S : \A y \in S : <<y, x>> \notin Less
  BY <1>2, WFMin
<1> QED BY <1>3, <1>4

LEMMA Inserting ==
  ASSUME NEW S, NEW s \in Seq(S), NEW i \in 1 .. Len(s) + 1, NEW e \in S
  PROVE  /\ InsertAt(s, i, e) \in Seq(S)
         /\ Len(InsertAt(s, i, e)) = Len(s) + 1
         /\ \A k \in 1 .. Len(s) + 1 :
              InsertAt(s, i, e)[k] = IF k < i THEN s[k] ELSE IF k = i THEN e ELSE s[k - 1]
<1> DEFINE front == SubSeq(s, 1, i - 1)
           back == SubSeq(s, i, Len(s))
<1>1. /\ front \in Seq(S) /\ Len(front) = i - 1
      /\ \A k \in 1 .. i - 1 : front[k] = s[k]
  OBVIOUS
<1>2. /\ back \in Seq(S) /\ Len(back) = Len(s) + 1 - i
      /\ \A k \in 1 .. Len(s) + 1 - i : back[k] = s[i + k - 1]
  OBVIOUS
<1>3. InsertAt(s, i, e) = (front \o <<e>>) \o back
  BY DEF InsertAt
<1> HIDE DEF front, back
<1>4. /\ front \o <<e>> \in Seq(S) /\ Len(front \o <<e>>) = i
      /\ \A k \in 1 .. i - 1 : (front \o <<e>>)[k] = s[k]
      /\ (front \o <<e>>)[i] = e
  BY <1>1
<1> DEFINE f == front \o <<e>>
<1> HIDE DEF f
<1>5. /\ f \o back \in Seq(S) /\ Len(f \o back) = Len(s) + 1
      /\ \A k \in 1 .. Len(s) + 1 : (f \o back)[k] = IF k <= i THEN f[k] ELSE back[k - i]
  BY <1>2, <1>4 DEF f
<1>6. \A k \in 1 .. Len(s) + 1 : k > i => back[k - i] = s[k - 1]
  BY <1>2
<1>7. Len(s) \in Nat /\ i \in Nat /\ i <= Len(s) + 1
  OBVIOUS
<1>8. \A k \in 1 .. Len(s) + 1 :
        (f \o back)[k] = IF k < i THEN s[k] ELSE IF k = i THEN e ELSE s[k - 1]
  <2> SUFFICES ASSUME NEW k \in 1 .. Len(s) + 1
               PROVE  (f \o back)[k] = IF k < i THEN s[k] ELSE IF k = i THEN e ELSE s[k - 1]
    OBVIOUS
  <2>1. k \in Int /\ i \in Int
    BY <1>7
  <2>2. CASE k < i
    <3>1. k \in 1 .. i - 1 /\ k <= i
      BY <2>1, <2>2
    <3>2. (f \o back)[k] = f[k] /\ f[k] = s[k]
      BY <1>4, <1>5, <3>1 DEF f
    <3> QED BY <2>2, <3>2
  <2>3. CASE k = i
    BY <1>4, <1>5, <2>1, <2>3 DEF f
  <2>4. CASE k > i
    BY <1>5, <1>6, <2>1, <2>4
  <2>5. k < i \/ k = i \/ k > i
    BY <2>1
  <2> QED BY <2>2, <2>3, <2>4, <2>5
<1> QED BY <1>3, <1>5, <1>8 DEF f

LEMMA Removing ==
  ASSUME NEW S, NEW s \in Seq(S), NEW i \in 1 .. Len(s)
  PROVE  /\ RemoveAt(s, i) \in Seq(S)
         /\ Len(RemoveAt(s, i)) = Len(s) - 1
         /\ \A k \in 1 .. Len(s) - 1 :
              RemoveAt(s, i)[k] = IF k < i THEN s[k] ELSE s[k + 1]
<1> DEFINE front == SubSeq(s, 1, i - 1)
           back == SubSeq(s, i + 1, Len(s))
<1>1. /\ front \in Seq(S) /\ Len(front) = i - 1
      /\ \A k \in 1 .. i - 1 : front[k] = s[k]
  OBVIOUS
<1>2. /\ back \in Seq(S) /\ Len(back) = Len(s) - i
      /\ \A k \in 1 .. Len(s) - i : back[k] = s[i + k]
  OBVIOUS
<1>3. RemoveAt(s, i) = front \o back
  BY DEF RemoveAt
<1> HIDE DEF front, back
<1>4. Len(s) \in Nat /\ i \in Nat /\ 1 <= i /\ i <= Len(s)
  OBVIOUS
<1>5. front \o back \in Seq(S) /\ Len(front \o back) = Len(s) - 1
  <2>1. front \in Seq(S) /\ back \in Seq(S)
    BY <1>1, <1>2
  <2>2. front \o back \in Seq(S) /\ Len(front \o back) = Len(front) + Len(back)
    BY <2>1
  <2> QED BY <1>1, <1>2, <1>4, <2>2
<1>6. \A k \in 1 .. Len(s) - 1 :
        (front \o back)[k] = IF k < i THEN front[k] ELSE back[k - (i - 1)]
  <2> SUFFICES ASSUME NEW k \in 1 .. Len(s) - 1
               PROVE  (front \o back)[k] = IF k < i THEN front[k] ELSE back[k - (i - 1)]
    OBVIOUS
  <2>1. Len(front) + Len(back) = Len(s) - 1
    BY <1>1, <1>2, <1>4
  <2>2. (front \o back)[k] = IF k <= Len(front) THEN front[k] ELSE back[k - Len(front)]
    BY <1>1, <1>2, <2>1
  <2> QED BY <1>1, <1>4, <2>2
<1>7. \A k \in 1 .. Len(s) - 1 : k >= i => back[k - (i - 1)] = s[k + 1]
  BY <1>2, <1>4
<1> QED BY <1>1, <1>3, <1>4, <1>5, <1>6, <1>7
-----------------------------------------------------------------------------
(* The invariant.                                                          *)

BufferInv == ListTypeOK /\ SortedFromBase

LEMMA Elements ==
  ASSUME ListTypeOK
  PROVE  /\ Len(m_list) \in Nat /\ DOMAIN m_list = 1 .. Len(m_list)
         /\ \A i \in 1 .. Len(m_list) : m_list[i] \in Seqnum
         /\ Numbers = {m_list[i] : i \in 1 .. Len(m_list)}
BY DEF ListTypeOK, Numbers

\* The loop stops at the first number it does not walk past.
LEMMA PlaceIs ==
  ASSUME ListTypeOK, NEW q \in Seqnum
  PROVE  /\ Place(q) \in 1 .. Len(m_list) + 1
         /\ Place(q) <= Len(m_list) => ~WalksPast(m_list[Place(q)], q)
         /\ \A j \in 1 .. Place(q) - 1 : WalksPast(m_list[j], q)
<1> DEFINE n == Len(m_list)
           Stops == {i \in 1 .. n + 1 : i <= n => ~WalksPast(m_list[i], q)}
<1>1. n \in Nat
  BY Elements
<1>2. Stops \in SUBSET Nat /\ n + 1 \in Stops
  BY <1>1
<1>3. PICK i \in Stops : \A j \in Stops : i <= j
  BY <1>2, LeastNatural
<1>4. i \in 1 .. n + 1 /\ (i <= n => ~WalksPast(m_list[i], q))
  BY <1>3
<1>5. \A j \in 1 .. i - 1 : WalksPast(m_list[j], q)
  <2> SUFFICES ASSUME NEW j \in 1 .. i - 1, ~WalksPast(m_list[j], q) PROVE FALSE
    OBVIOUS
  <2>1. j \in Stops /\ ~(i <= j)
    BY <1>1, <1>4
  <2> QED BY <1>3, <2>1
<1> HIDE DEF Stops
<1> QED BY <1>4, <1>5 DEF Place

\* Past the end of the list the loop has looked at nothing that is equal.
LEMMA NeverAtEnd ==
  ASSUME ListTypeOK, NEW q \in Seqnum, m_list # <<>>, LastLookedAt(q) = q
  PROVE  Place(q) <= Len(m_list) /\ m_list[Place(q)] = q
<1>1. Len(m_list) \in Nat /\ Len(m_list) > 0
  BY Elements DEF ListTypeOK
<1>2. ASSUME ~(Place(q) <= Len(m_list)) PROVE FALSE
  <2>1. Place(q) = Len(m_list) + 1
    BY <1>1, <1>2, PlaceIs
  <2>2. WalksPast(m_list[Len(m_list)], q)
    BY <1>1, <2>1, PlaceIs
  <2>3. m_list[Len(m_list)] = q
    BY <1>2 DEF LastLookedAt
  <2> QED BY <2>2, <2>3 DEF WalksPast, ListTypeOK, Seqnum
<1> QED BY <1>2 DEF LastLookedAt

LEMMA EndNotRead == ListTypeOK => EndIsNeverRead
BY NeverAtEnd DEF EndIsNeverRead

\* insert takes what lies in the window behind base and leaves out base itself.
LEMMA InsertedIsAhead ==
  ASSUME base \in Seqnum, NEW q \in Seqnum
  PROVE  IsInserted(q) <=> Ahead(base, q) \in 1 .. MAX_RELIABLE_WINDOW_SIZE - 1
<1>1. MAX_RELIABLE_WINDOW_SIZE \in 1 .. SEQNUM_MAX
  BY SeqnumAssumption
<1>2. seqnum_in_window(q, base, MAX_RELIABLE_WINDOW_SIZE)
        <=> Ahead(base, q) < MAX_RELIABLE_WINDOW_SIZE
  BY <1>1, InWindowIsAhead
<1>3. Ahead(base, q) \in 0 .. SEQNUM_MAX /\ Ahead(base, base) = 0
  <2>1. Ahead(base, base) = IF base <= base THEN base - base ELSE (base - base) + Modulus
    BY Distance
  <2>2. base \in Int
    BY SeqnumAssumption DEF Seqnum
  <2>3. base <= base /\ base - base = 0
    BY <2>2
  <2> QED BY <2>1, <2>3, Distance
<1>4. q = base <=> Ahead(base, q) = 0
  BY <1>3, SameDistance
<1> QED BY <1>1, <1>2, <1>3, <1>4, SeqnumAssumption DEF IsInserted

\* A new number between those it walked past and the others.
LEMMA InsertSorts ==
  ASSUME BufferInv, NEW q \in Seqnum, m_list # <<>>, LastLookedAt(q) # q
  PROVE  LET new == InsertAt(m_list, Place(q), q)
         IN  /\ new \in Seq(Seqnum)
             /\ {new[i] : i \in DOMAIN new} = Numbers \cup {q}
             /\ \A i, j \in DOMAIN new : i < j => Ahead(base, new[i]) < Ahead(base, new[j])
<1> DEFINE n == Len(m_list)
           p == Place(q)
           new == InsertAt(m_list, p, q)
           D(s) == Ahead(base, s)
<1>1. /\ n \in Nat /\ DOMAIN m_list = 1 .. n /\ m_list \in Seq(Seqnum) /\ base \in Seqnum
      /\ \A i \in 1 .. n : m_list[i] \in Seqnum
      /\ Numbers = {m_list[i] : i \in 1 .. n}
  BY Elements DEF BufferInv, ListTypeOK
<1>2. /\ p \in 1 .. n + 1
      /\ p <= n => ~WalksPast(m_list[p], q)
      /\ \A j \in 1 .. p - 1 : WalksPast(m_list[j], q)
  BY PlaceIs DEF BufferInv
<1>3. /\ new \in Seq(Seqnum) /\ Len(new) = n + 1
      /\ \A k \in 1 .. n + 1 :
           new[k] = IF k < p THEN m_list[k] ELSE IF k = p THEN q ELSE m_list[k - 1]
  <2>1. m_list \in Seq(Seqnum) /\ p \in 1 .. Len(m_list) + 1
    BY <1>1, <1>2
  <2> HIDE DEF p
  <2> QED BY <2>1, Inserting
<1>4. DOMAIN new = 1 .. n + 1
  BY <1>3
<1>5. p <= n => m_list[p] # q
  BY DEF LastLookedAt
<1> HIDE DEF n, p, new
<1>6. \A s \in Seqnum : D(s) \in Int
  BY <1>1, Distance
<1>7. \A k \in 1 .. p - 1 : D(m_list[k]) < D(q)
  BY <1>1, <1>2, WalksIsAhead
<1>8. \A i, j \in 1 .. n : i < j => D(m_list[i]) < D(m_list[j])
  BY <1>1 DEF BufferInv, SortedFromBase
<1>9. \A k \in p .. n : D(q) < D(m_list[k])
  <2>1. ASSUME p <= n PROVE D(q) < D(m_list[p])
    <3>1. m_list[p] \in Seqnum /\ ~(D(m_list[p]) < D(q))
      BY <1>1, <1>2, <2>1, WalksIsAhead
    <3>2. D(m_list[p]) # D(q)
      BY <1>1, <1>5, <2>1, <3>1, SameDistance
    <3> QED BY <1>6, <3>1, <3>2
  <2>2. SUFFICES ASSUME NEW k \in p .. n PROVE D(q) < D(m_list[k])
    OBVIOUS
  <2>3. p \in 1 .. n /\ k \in 1 .. n
    BY <1>1, <1>2, <2>2
  <2>4. D(q) < D(m_list[p])
    BY <2>1, <2>3
  <2>5. k = p \/ D(m_list[p]) < D(m_list[k])
    BY <1>8, <2>2, <2>3
  <2>6. D(q) \in Int /\ D(m_list[p]) \in Int /\ D(m_list[k]) \in Int
    BY <1>1, <1>6, <2>3
  <2> QED BY <2>4, <2>5, <2>6
<1>10. \A i, j \in 1 .. n + 1 : i < j => D(new[i]) < D(new[j])
  <2> SUFFICES ASSUME NEW i \in 1 .. n + 1, NEW j \in 1 .. n + 1, i < j
               PROVE  D(new[i]) < D(new[j])
    OBVIOUS
  <2> HIDE DEF D
  <2>1. CASE j < p
    <3>1. new[i] = m_list[i] /\ new[j] = m_list[j] /\ i \in 1 .. n /\ j \in 1 .. n
      BY <1>1, <1>2, <1>3, <2>1
    <3> QED BY <1>8, <3>1
  <2>2. CASE j = p
    <3>1. new[i] = m_list[i] /\ new[j] = q /\ i \in 1 .. p - 1
      BY <1>1, <1>2, <1>3, <2>2
    <3> QED BY <1>7, <3>1
  <2>3. CASE j > p /\ i < p
    <3>1. new[i] = m_list[i] /\ new[j] = m_list[j - 1] /\ i \in 1 .. n /\ j - 1 \in 1 .. n
          /\ i < j - 1
      BY <1>1, <1>2, <1>3, <2>3
    <3> QED BY <1>8, <3>1
  <2>4. CASE j > p /\ i = p
    <3>1. new[i] = q /\ new[j] = m_list[j - 1] /\ j - 1 \in p .. n
      BY <1>1, <1>2, <1>3, <2>4
    <3> QED BY <1>9, <3>1
  <2>5. CASE j > p /\ i > p
    <3>1. new[i] = m_list[i - 1] /\ new[j] = m_list[j - 1] /\ i - 1 \in 1 .. n
          /\ j - 1 \in 1 .. n /\ i - 1 < j - 1
      BY <1>1, <1>2, <1>3, <2>5
    <3> QED BY <1>8, <3>1
  <2> QED BY <1>1, <1>2, <2>1, <2>2, <2>3, <2>4, <2>5
<1>11. {new[i] : i \in 1 .. n + 1} = Numbers \cup {q}
  <2>1. \A i \in 1 .. n + 1 : new[i] \in Numbers \cup {q}
    BY <1>1, <1>2, <1>3
  <2>2. new[p] = q /\ p \in 1 .. n + 1
    BY <1>2, <1>3
  <2>3. ASSUME NEW i \in 1 .. n PROVE \E k \in 1 .. n + 1 : new[k] = m_list[i]
    <3>1. CASE i < p
      <4>1. i \in 1 .. n + 1 /\ new[i] = m_list[i]
        BY <1>1, <1>3, <3>1
      <4> QED BY <4>1
    <3>2. CASE i >= p
      <4>1. i + 1 \in 1 .. n + 1 /\ new[i + 1] = m_list[i]
        BY <1>1, <1>2, <1>3, <3>2
      <4> QED BY <4>1
    <3> QED BY <1>1, <1>2, <3>1, <3>2
  <2> QED BY <1>1, <2>1, <2>2, <2>3
<1> QED BY <1>3, <1>4, <1>10, <1>11 DEF new, p
-----------------------------------------------------------------------------
(* Each operation keeps the list sorted, and is the set's operation of the *)
(* same name.                                                              *)

LEMMA BufferNames ==
  /\ Buffer!Modulus = Modulus /\ Buffer!Seqnum = Seqnum
  /\ \A a, b : Buffer!Ahead(a, b) = Ahead(a, b)
BY DEF Modulus, Seqnum, Ahead, Buffer!Modulus, Buffer!Seqnum, Buffer!Ahead

\* The distances of what the list holds.
LEMMA Distances ==
  ASSUME BufferInv
  PROVE  /\ Len(m_list) \in Nat /\ DOMAIN m_list = 1 .. Len(m_list)
         /\ \A i \in 1 .. Len(m_list) :
              m_list[i] \in Seqnum /\ Ahead(base, m_list[i]) \in 0 .. SEQNUM_MAX
         /\ \A i, j \in 1 .. Len(m_list) :
              i < j => Ahead(base, m_list[i]) < Ahead(base, m_list[j])
         /\ \A i, j \in 1 .. Len(m_list) : m_list[i] = m_list[j] => i = j
<1>1. /\ Len(m_list) \in Nat /\ DOMAIN m_list = 1 .. Len(m_list)
      /\ \A i \in 1 .. Len(m_list) : m_list[i] \in Seqnum
  BY Elements DEF BufferInv
<1>2. \A i \in 1 .. Len(m_list) : Ahead(base, m_list[i]) \in 0 .. SEQNUM_MAX
  BY <1>1, Distance DEF BufferInv, ListTypeOK
<1>3. \A i, j \in 1 .. Len(m_list) : i < j => Ahead(base, m_list[i]) < Ahead(base, m_list[j])
  BY <1>1 DEF BufferInv, SortedFromBase
<1>4. \A i, j \in 1 .. Len(m_list) : m_list[i] = m_list[j] => i = j
  <2> SUFFICES ASSUME NEW i \in 1 .. Len(m_list), NEW j \in 1 .. Len(m_list),
                      m_list[i] = m_list[j], i < j
               PROVE  FALSE
    BY <1>1
  <2>1. Ahead(base, m_list[i]) < Ahead(base, m_list[j])
    BY <1>3
  <2>2. Ahead(base, m_list[i]) \in Int
    BY <1>2, SeqnumAssumption
  <2> QED BY <2>1, <2>2
<1> QED BY <1>1, <1>2, <1>3, <1>4

LEMMA InsertStep ==
  ASSUME BufferInv, NEW q \in Seqnum, insert(q)
  PROVE  BufferInv' /\ Buffer!Insert(q)
<1>1. base \in Seqnum /\ m_list \in Seq(Seqnum) /\ base' = base
  BY DEF BufferInv, ListTypeOK, insert
<1>2. IsInserted(q) <=> Buffer!Ahead(base, q) \in 1 .. MAX_RELIABLE_WINDOW_SIZE - 1
  BY <1>1, InsertedIsAhead, BufferNames
<1>3. ASSUME m_list' = m_list, IsInserted(q) => q \in Numbers
      PROVE  BufferInv' /\ Buffer!Insert(q)
  <2>1. BufferInv'
    BY <1>1, <1>3 DEF BufferInv, ListTypeOK, SortedFromBase, Ahead, Modulus
  <2>2. Numbers' = Numbers
    BY <1>3 DEF Numbers
  <2> QED BY <1>1, <1>2, <1>3, <2>1, <2>2 DEF Buffer!Insert
<1>4. ASSUME m_list' \in Seq(Seqnum), Numbers' = Numbers \cup {q}, IsInserted(q),
             \A i, j \in DOMAIN m_list' :
               i < j => Ahead(base, m_list'[i]) < Ahead(base, m_list'[j])
      PROVE  BufferInv' /\ Buffer!Insert(q)
  <2>1. BufferInv'
    BY <1>1, <1>4 DEF BufferInv, ListTypeOK, SortedFromBase, Ahead, Modulus, Seqnum
  <2> QED BY <1>1, <1>2, <1>4, <2>1 DEF Buffer!Insert
<1>5. CASE ~IsInserted(q)
  BY <1>3, <1>5 DEF insert
<1>6. CASE IsInserted(q) /\ m_list = <<>>
  <2>1. m_list' = <<q>>
    BY <1>6 DEF insert
  <2>2. Numbers = {} /\ Numbers' = {q}
    BY <1>6, <2>1 DEF Numbers
  <2>3. \A i, j \in DOMAIN m_list' : ~(i < j)
    BY <2>1
  <2> QED BY <1>4, <1>6, <2>1, <2>2, <2>3
<1>7. CASE IsInserted(q) /\ m_list # <<>> /\ LastLookedAt(q) = q
  <2>1. m_list' = m_list
    BY <1>7 DEF insert
  <2>2. Place(q) \in 1 .. Len(m_list) /\ m_list[Place(q)] = q
    BY <1>7, NeverAtEnd, PlaceIs, Elements DEF BufferInv
  <2>3. q \in Numbers
    BY <2>2, Elements DEF BufferInv
  <2> QED BY <1>3, <2>1, <2>3
<1>8. CASE IsInserted(q) /\ m_list # <<>> /\ LastLookedAt(q) # q
  <2>1. m_list' = InsertAt(m_list, Place(q), q)
    BY <1>8 DEF insert
  <2>2. /\ m_list' \in Seq(Seqnum)
        /\ {m_list'[i] : i \in DOMAIN m_list'} = Numbers \cup {q}
        /\ \A i, j \in DOMAIN m_list' :
             i < j => Ahead(base, m_list'[i]) < Ahead(base, m_list'[j])
    BY <1>8, <2>1, InsertSorts
  <2>3. Numbers' = Numbers \cup {q}
    BY <2>2 DEF Numbers
  <2> QED BY <1>4, <1>8, <2>2, <2>3
<1> QED BY <1>5, <1>6, <1>7, <1>8

\* Taking out the i-th number leaves the others, in order.
LEMMA RemoveStep ==
  ASSUME BufferInv, NEW i \in 1 .. Len(m_list), m_list' = RemoveAt(m_list, i), base' = base
  PROVE  BufferInv' /\ Numbers' = Numbers \ {m_list[i]}
<1> DEFINE n == Len(m_list)
<1>1. /\ n \in Nat /\ m_list \in Seq(Seqnum) /\ base \in Seqnum
      /\ Numbers = {m_list[k] : k \in 1 .. n}
  BY Elements DEF BufferInv, ListTypeOK
<1>2. /\ m_list' \in Seq(Seqnum) /\ Len(m_list') = n - 1
      /\ \A k \in 1 .. n - 1 : m_list'[k] = IF k < i THEN m_list[k] ELSE m_list[k + 1]
  BY <1>1, Removing
<1>3. DOMAIN m_list' = 1 .. n - 1
  BY <1>2
<1>4. /\ \A k, l \in 1 .. n : k < l => Ahead(base, m_list[k]) < Ahead(base, m_list[l])
      /\ \A k, l \in 1 .. n : m_list[k] = m_list[l] => k = l
  BY Distances
<1> HIDE DEF n
<1>5. i \in 1 .. n
  BY DEF n
<1> DEFINE old(k) == IF k < i THEN k ELSE k + 1
<1>6. \A k \in 1 .. n - 1 : old(k) \in 1 .. n /\ old(k) # i /\ m_list'[k] = m_list[old(k)]
  BY <1>1, <1>2, <1>5
<1>7. \A k, l \in 1 .. n - 1 : k < l => old(k) < old(l)
  BY <1>1, <1>5
<1>8. \A k \in 1 .. n : k # i => \E l \in 1 .. n - 1 : old(l) = k
  <2> SUFFICES ASSUME NEW k \in 1 .. n, k # i PROVE \E l \in 1 .. n - 1 : old(l) = k
    OBVIOUS
  <2>1. CASE k < i
    BY <1>1, <1>5, <2>1
  <2>2. CASE k > i
    <3>1. k - 1 \in 1 .. n - 1 /\ old(k - 1) = k
      BY <1>1, <1>5, <2>2
    <3> QED BY <3>1
  <2> QED BY <1>1, <1>5, <2>1, <2>2
<1> HIDE DEF old
<1>9. \A k, l \in 1 .. n - 1 : k < l => Ahead(base, m_list'[k]) < Ahead(base, m_list'[l])
  BY <1>4, <1>6, <1>7
<1>10. BufferInv'
  BY <1>1, <1>2, <1>3, <1>9 DEF BufferInv, ListTypeOK, SortedFromBase, Ahead, Modulus, Seqnum
<1>11. Numbers' = {m_list'[k] : k \in 1 .. n - 1}
  BY <1>3 DEF Numbers
<1>12. \A x : x \in {m_list'[k] : k \in 1 .. n - 1} <=> x \in Numbers /\ x # m_list[i]
  <2>1. ASSUME NEW k \in 1 .. n - 1
        PROVE  m_list'[k] \in Numbers /\ m_list'[k] # m_list[i]
    BY <1>1, <1>4, <1>5, <1>6
  <2>2. ASSUME NEW k \in 1 .. n, m_list[k] # m_list[i]
        PROVE  \E l \in 1 .. n - 1 : m_list'[l] = m_list[k]
    <3>1. PICK l \in 1 .. n - 1 : old(l) = k
      BY <1>8, <2>2
    <3> QED BY <1>6, <3>1
  <2> QED BY <1>1, <2>1, <2>2
<1> QED BY <1>10, <1>11, <1>12

LEMMA PopSeqnumStep ==
  ASSUME BufferInv, NEW q \in Seqnum, popSeqnum(q)
  PROVE  BufferInv' /\ Buffer!PopSeqnum(q)
<1>1. PICK i \in DOMAIN m_list : m_list[i] = q /\ m_list' = RemoveAt(m_list, i)
  BY DEF popSeqnum
<1>2. i \in 1 .. Len(m_list) /\ q \in Numbers
  BY <1>1, Distances DEF Numbers
<1>3. base' = base
  BY DEF popSeqnum
<1> QED BY <1>1, <1>2, <1>3, RemoveStep DEF Buffer!PopSeqnum

\* The first of the list is the oldest.
LEMMA PopFirstStep ==
  ASSUME BufferInv, popFirst
  PROVE  BufferInv' /\ Buffer!PopFirst
<1>1. /\ Len(m_list) \in Nat /\ Len(m_list) > 0 /\ m_list \in Seq(Seqnum)
      /\ m_list' = Tail(m_list) /\ base' = base
  BY DEF BufferInv, ListTypeOK, popFirst
<1>2. 1 \in 1 .. Len(m_list)
  BY <1>1
<1>3. /\ RemoveAt(m_list, 1) \in Seq(Seqnum)
      /\ Len(RemoveAt(m_list, 1)) = Len(m_list) - 1
      /\ \A k \in 1 .. Len(m_list) - 1 : RemoveAt(m_list, 1)[k] = m_list[k + 1]
  BY <1>1, <1>2, Removing
<1>4. /\ Tail(m_list) \in Seq(Seqnum)
      /\ Len(Tail(m_list)) = Len(m_list) - 1
      /\ \A k \in 1 .. Len(m_list) - 1 : Tail(m_list)[k] = m_list[k + 1]
  BY <1>1
<1>5. m_list' = RemoveAt(m_list, 1)
  BY <1>1, <1>3, <1>4
<1>6. BufferInv' /\ Numbers' = Numbers \ {m_list[1]}
  BY <1>1, <1>2, <1>5, RemoveStep
<1>7. /\ m_list[1] \in Numbers
      /\ Numbers = {m_list[i] : i \in 1 .. Len(m_list)}
  BY <1>2, Elements DEF BufferInv
<1>8. \A t \in Numbers : Ahead(base, m_list[1]) <= Ahead(base, t)
  <2> SUFFICES ASSUME NEW i \in 1 .. Len(m_list)
               PROVE  Ahead(base, m_list[1]) <= Ahead(base, m_list[i])
    BY <1>7
  <2>1. i = 1 \/ 1 < i
    BY <1>1
  <2>2. Ahead(base, m_list[1]) \in Int /\ Ahead(base, m_list[i]) \in Int
    BY <1>2, Distances, SeqnumAssumption
  <2> QED BY <1>2, <2>1, <2>2, Distances
<1>9. \A s \in Numbers : (\A t \in Numbers : Ahead(base, s) <= Ahead(base, t)) => s = m_list[1]
  <2> SUFFICES ASSUME NEW s \in Numbers, \A t \in Numbers : Ahead(base, s) <= Ahead(base, t)
               PROVE  s = m_list[1]
    OBVIOUS
  <2>1. s \in Seqnum /\ m_list[1] \in Seqnum /\ base \in Seqnum
    BY <1>7, Elements DEF BufferInv, ListTypeOK
  <2>2. Ahead(base, s) \in Int /\ Ahead(base, m_list[1]) \in Int
    BY <2>1, Distance, SeqnumAssumption
  <2>3. Ahead(base, s) = Ahead(base, m_list[1])
    BY <1>7, <1>8, <2>2
  <2> QED BY <2>1, <2>3, SameDistance
<1>10. Buffer!Oldest = m_list[1]
  BY <1>7, <1>8, <1>9, BufferNames DEF Buffer!Oldest
<1> QED BY <1>1, <1>6, <1>7, <1>10 DEF Buffer!PopFirst

\* As base moves on, each number comes nearer by one, since none is passed.
LEMMA AdvanceStep ==
  ASSUME BufferInv, Advance
  PROVE  BufferInv' /\ Buffer!Advance
<1>1. /\ base \in Seqnum /\ m_list \in Seq(Seqnum) /\ m_list' = m_list
      /\ base' = (base + 1) % Modulus
  BY DEF BufferInv, ListTypeOK, Advance
<1>2. Modulus = SEQNUM_MAX + 1 /\ SEQNUM_MAX \in Nat /\ base \in Int
  BY <1>1, SeqnumAssumption DEF Modulus, Seqnum
<1>3. base' \in Seqnum
  <2>1. base + 1 \in Int
    BY <1>2
  <2>2. (base + 1) % Modulus \in Seqnum
    BY <2>1, DivMod
  <2> QED BY <1>1, <2>2
<1>4. base \notin Numbers
  <2> SUFFICES ASSUME NEW i \in 1 .. Len(m_list), m_list[i] = base PROVE FALSE
    BY Elements DEF BufferInv
  <2>1. Ahead(base, base) = 0
    BY <1>1, <1>2, Distance
  <2>2. Len(m_list) \in Nat /\ 1 \in 1 .. Len(m_list) /\ m_list # <<>>
    BY <1>1
  <2>3. Ahead(base, m_list[1]) \in Int /\ Ahead(base, m_list[1]) >= 0
    BY <2>2, Distances, SeqnumAssumption
  <2>4. i = 1
    <3>1. ~(1 < i)
      BY <2>1, <2>2, <2>3, Distances
    <3> QED BY <2>2, <3>1
  <2> QED BY <2>2, <2>4 DEF Advance
<1>5. \A s \in Seqnum : s # base => Ahead(base', s) = Ahead(base, s) - 1
  <2> SUFFICES ASSUME NEW s \in Seqnum, s # base
               PROVE  Ahead(base', s) = Ahead(base, s) - 1
    OBVIOUS
  <2>1. s \in Int /\ 0 <= s /\ s <= SEQNUM_MAX /\ 0 <= base /\ base <= SEQNUM_MAX
    BY <1>1, <1>2 DEF Seqnum
  <2>2. base' = IF base = SEQNUM_MAX THEN 0 ELSE base + 1
    <3>1. CASE base = SEQNUM_MAX
      <4>1. base + 1 = Modulus * 1 + 0 /\ 0 \in Seqnum
        BY <1>2, <3>1 DEF Seqnum
      <4> QED BY <1>1, <1>2, <3>1, <4>1, ModUnique
    <3>2. CASE base # SEQNUM_MAX
      <4>1. base + 1 = Modulus * 0 + (base + 1) /\ base + 1 \in Seqnum
        BY <1>2, <2>1, <3>2 DEF Seqnum
      <4>2. base + 1 \in Int /\ 0 \in Int
        BY <1>2
      <4>3. (base + 1) % Modulus = base + 1
        BY <4>1, <4>2, ModUnique
      <4> QED BY <1>1, <3>2, <4>3
    <3> QED BY <3>1, <3>2
  <2>3. /\ Ahead(base, s) = IF base <= s THEN s - base ELSE (s - base) + Modulus
        /\ Ahead(base', s) = IF base' <= s THEN s - base' ELSE (s - base') + Modulus
    BY <1>1, <1>3, Distance
  <2> QED BY <1>2, <2>1, <2>2, <2>3
<1>6. \A i, j \in 1 .. Len(m_list) : i < j => Ahead(base', m_list[i]) < Ahead(base', m_list[j])
  <2> SUFFICES ASSUME NEW i \in 1 .. Len(m_list), NEW j \in 1 .. Len(m_list), i < j
               PROVE  Ahead(base', m_list[i]) < Ahead(base', m_list[j])
    OBVIOUS
  <2>1. m_list[i] \in Seqnum \ {base} /\ m_list[j] \in Seqnum \ {base}
    BY <1>4, Elements DEF BufferInv
  <2>2. /\ Ahead(base, m_list[i]) \in Int /\ Ahead(base, m_list[j]) \in Int
        /\ Ahead(base, m_list[i]) < Ahead(base, m_list[j])
    BY Distances, SeqnumAssumption
  <2> QED BY <1>5, <2>1, <2>2
<1>7. BufferInv'
  <2>1. ListTypeOK'
    BY <1>1, <1>3 DEF ListTypeOK, Seqnum
  <2>2. SortedFromBase'
    BY <1>1, <1>6 DEF SortedFromBase, Ahead, Modulus
  <2> QED BY <2>1, <2>2 DEF BufferInv
<1>8. Numbers' = Numbers
  BY <1>1 DEF Numbers
<1> QED BY <1>1, <1>4, <1>7, <1>8, BufferNames DEF Buffer!Advance

LEMMA BufferInit == ListInit => BufferInv /\ Buffer!Init
<1> SUFFICES ASSUME ListInit PROVE BufferInv /\ Buffer!Init
  OBVIOUS
<1>1. /\ (SEQNUM_INITIAL - MAX_RELIABLE_WINDOW_SIZE) % Modulus \in Seqnum
      /\ SEQNUM_INITIAL \in Seqnum
  BY DivMod, SeqnumAssumption DEF Seqnum
<1>2. base \in Seqnum /\ m_list = <<>> /\ DOMAIN m_list = {}
  BY <1>1 DEF ListInit
<1> QED BY <1>2, BufferNames DEF BufferInv, ListTypeOK, SortedFromBase, Numbers, Buffer!Init

LEMMA BufferStep ==
  BufferInv /\ [ListNext]_listVars => BufferInv' /\ [Buffer!Next]_(Buffer!vars)
<1> SUFFICES ASSUME BufferInv, [ListNext]_listVars
             PROVE  BufferInv' /\ [Buffer!Next]_(Buffer!vars)
  OBVIOUS
<1>1. ASSUME NEW q \in Seqnum, insert(q)
      PROVE  BufferInv' /\ [Buffer!Next]_(Buffer!vars)
  BY <1>1, InsertStep, BufferNames DEF Buffer!Next
<1>2. ASSUME NEW q \in Seqnum, popSeqnum(q)
      PROVE  BufferInv' /\ [Buffer!Next]_(Buffer!vars)
  BY <1>2, PopSeqnumStep, BufferNames DEF Buffer!Next
<1>3. CASE popFirst
  BY <1>3, PopFirstStep DEF Buffer!Next
<1>4. CASE Advance
  BY <1>4, AdvanceStep DEF Buffer!Next
<1>5. CASE UNCHANGED listVars
  <2>1. BufferInv'
    BY <1>5 DEF listVars, BufferInv, ListTypeOK, SortedFromBase, Ahead, Modulus, Seqnum
  <2> QED BY <1>5, <2>1 DEF listVars, Buffer!vars, Numbers
<1> QED BY <1>1, <1>2, <1>3, <1>4, <1>5 DEF ListNext

\* The list is sorted from base at every step, and insert never compares its
\* number with the one past the end (impl.cpp:290-330), for every number space.
THEOREM InsertsSoundly == ListSpec => []InsertIsSound
<1>1. BufferInv => InsertIsSound
  BY EndNotRead DEF BufferInv, InsertIsSound
<1> QED BY <1>1, BufferInit, BufferStep, PTL DEF ListSpec

\* ReliablePacketBuffer implements the set of numbers that MtpChannel has in its
\* place, operation by operation.
THEOREM ImplementsBuffer == ListSpec => BufferSpec
BY BufferInit, BufferStep, PTL DEF ListSpec, BufferSpec, Buffer!Spec

-----------------------------------------------------------------------------
(* Split messages: the invariant.                                          *)

Sent == network \cup {stream[i] : i \in DOMAIN stream}

\* A whole message as it is handed up.
Whole == UNION {[0 .. n - 1 -> Message] : n \in 1 .. MaxChunks}

SplitTypes ==
  /\ taken \in Nat /\ reliables \in Nat /\ unreliables \in Nat
  /\ queued_commands \in Seq(Message)
  /\ stream \in Seq(Chunk) /\ network \subseteq Chunk
  /\ delivered \in Seq(Whole) /\ heard \subseteq Whole

\* Of what is sent, each chunk has the number of its turn, and no two messages have one turn.
TurnsAreNumbers ==
  /\ next_outgoing_split_seqnum = SeqnumOf(taken)
  /\ \A c \in Sent :
       /\ c.seqnum = SeqnumOf(c.at) /\ c.chunk_num < c.msg.size
       /\ IsSplit(c.msg) => c.at < taken
  /\ \A c, d \in Sent :
       IsSplit(c.msg) /\ IsSplit(d.msg) /\ c.at = d.at => c.msg = d.msg

ChunksAreRecent ==
  /\ \A c \in network : ~c.msg.reliable
  /\ \A i \in DOMAIN stream :
       /\ stream[i].msg.reliable
       /\ IsSplit(stream[i].msg) =>
            taken - stream[i].at <= ChunkLifetime \/ taken = stream[i].at + 1

\* The entry of number s holds chunks of message msg, split at turn a.
EntryOf(s, a, msg) ==
  LET sp == m_buf[s]
  IN  /\ s = SeqnumOf(a)
      /\ msg \in Message /\ IsSplit(msg)
      /\ sp = [chunk_count |-> msg.size, reliable |-> msg.reliable,
               chunks |-> sp.chunks, born |-> sp.born]
      /\ sp.chunks = [n \in DOMAIN sp.chunks |-> msg]
      /\ DOMAIN sp.chunks \subseteq 0 .. msg.size - 1
      /\ ~msg.reliable =>
           /\ sp.born \in a + 1 .. taken
           /\ sp.born - a <= ChunkLifetime
           /\ taken - sp.born <= SplitTimeout
      /\ \A c \in Sent : IsSplit(c.msg) /\ c.at = a => c.msg = msg

EntriesAreOfOneMessage ==
  \A s \in DOMAIN m_buf :
    \E a \in 0 .. taken - 1 : \E k \in DOMAIN m_buf[s].chunks :
      EntryOf(s, a, m_buf[s].chunks[k])

\* The chunk j places after c, of the same message.
Later(c, j) == [c EXCEPT !.chunk_num = @ + j]

\* The stream runs through its messages chunk by chunk.
StreamRuns ==
  /\ \A i \in DOMAIN stream : \A j \in 1 .. stream[i].msg.size - 1 - stream[i].chunk_num :
       /\ i + j \in DOMAIN stream
       /\ stream[i + j] = Later(stream[i], j)
  /\ \A i \in DOMAIN stream :
       stream[i].chunk_num + 1 = stream[i].msg.size /\ i + 1 \in DOMAIN stream =>
         stream[i + 1].chunk_num = 0 /\ stream[i + 1].msg.id = stream[i].msg.id + 1

\* Messages are delivered, in the stream and in the queue in their order.
InOrder ==
  /\ IF stream = <<>> THEN Len(delivered) + Len(queued_commands) = reliables
     ELSE /\ stream[1].msg.id = Len(delivered)
          /\ stream[Len(stream)].msg.id + 1 + Len(queued_commands) = reliables
  /\ \A i \in DOMAIN queued_commands :
       /\ queued_commands[i].reliable
       /\ queued_commands[i].id + Len(queued_commands) = reliables + i - 1

\* There is a reliable entry only for the message at the head of the stream.
HeadHasTheEntry ==
  /\ \A s \in DOMAIN m_buf : m_buf[s].reliable =>
       /\ stream # <<>> /\ s = stream[1].seqnum
       /\ stream[1].chunk_num > 0
       /\ m_buf[s].chunks = [n \in 0 .. stream[1].chunk_num - 1 |-> stream[1].msg]
  /\ stream # <<>> /\ stream[1].chunk_num > 0 =>
       stream[1].seqnum \in DOMAIN m_buf /\ m_buf[stream[1].seqnum].reliable

HandedUp ==
  /\ \A i \in DOMAIN delivered : IsWhole(delivered[i]) /\ delivered[i][0].id = i - 1
  /\ \A data \in heard : IsWhole(data)

SplitInv ==
  /\ SplitTypes /\ TurnsAreNumbers /\ ChunksAreRecent /\ EntriesAreOfOneMessage
  /\ StreamRuns /\ InOrder /\ HeadHasTheEntry /\ HandedUp

-----------------------------------------------------------------------------
(* Chunks and sequences of them. *)

LEMMA Constants ==
  /\ Modulus \in Nat /\ Modulus >= 1 /\ MaxChunks \in Nat
  /\ ChunkLifetime \in Nat /\ SplitTimeout \in Nat
  /\ ChunkLifetime + SplitTimeout <= Modulus
BY SeqnumAssumption, SplitAssumption DEF Modulus

\* What makeAutoSplitPacket makes of a message.
LEMMA ChunksOf ==
  ASSUME SplitTypes, TurnsAreNumbers, NEW msg \in Message
  PROVE  /\ Chunks(msg) \in Seq(Chunk) /\ Len(Chunks(msg)) = msg.size
         /\ msg.size \in Nat /\ msg.size >= 1
         /\ \A i \in 1 .. msg.size :
              /\ Chunks(msg)[i].msg = msg /\ Chunks(msg)[i].chunk_num = i - 1
              /\ Chunks(msg)[i].at = taken /\ Chunks(msg)[i].seqnum = SeqnumOf(taken)
              /\ Chunks(msg)[i] = [seqnum |-> SeqnumOf(taken), chunk_num |-> i - 1,
                                   msg |-> msg, at |-> taken]
<1>1. msg.size \in Nat /\ msg.size >= 1
  BY Constants DEF Message
<1>2. taken \in Nat /\ SeqnumOf(taken) \in Seqnum
  BY SeqnumOfType DEF SplitTypes
<1>3. \A i \in 1 .. msg.size :
        [seqnum |-> SeqnumOf(taken), chunk_num |-> i - 1, msg |-> msg, at |-> taken] \in Chunk
  BY <1>1, <1>2 DEF Chunk
<1>4. Chunks(msg) = [i \in 1 .. msg.size |->
        [seqnum |-> SeqnumOf(taken), chunk_num |-> i - 1, msg |-> msg, at |-> taken]]
  BY DEF Chunks, TurnsAreNumbers
<1> QED BY <1>1, <1>3, <1>4

LEMMA Concat ==
  ASSUME NEW S, NEW s \in Seq(S), NEW t \in Seq(S)
  PROVE  /\ s \o t \in Seq(S) /\ Len(s \o t) = Len(s) + Len(t)
         /\ \A i \in 1 .. Len(s) : (s \o t)[i] = s[i]
         /\ \A i \in 1 .. Len(t) : (s \o t)[Len(s) + i] = t[i]
OBVIOUS

LEMMA TailOf ==
  ASSUME NEW S, NEW s \in Seq(S), s # <<>>
  PROVE  /\ Len(s) >= 1 /\ Head(s) = s[1] /\ Head(s) \in S
         /\ Tail(s) \in Seq(S) /\ Len(Tail(s)) = Len(s) - 1
         /\ \A i \in 1 .. Len(s) - 1 : Tail(s)[i] = s[i + 1]
OBVIOUS

\* The numbers of two turns that are both in use are different.
LEMMA SameTurn ==
  ASSUME NEW a \in Int, NEW b \in Int, SeqnumOf(a) = SeqnumOf(b),
         a < b + Modulus, b < a + Modulus
  PROVE  a = b
<1>1. Modulus \in Int
  BY Constants
<1> QED BY <1>1, SeqnumOfInjective

-----------------------------------------------------------------------------
(* The sender. *)

NewChunks(msg) == {Chunks(msg)[i] : i \in 1 .. msg.size}

LEMMA Taking ==
  ASSUME SplitInv, NEW msg \in Message, TakeNumber(msg)
  PROVE  /\ taken' = (IF IsSplit(msg) THEN taken + 1 ELSE taken)
         /\ taken' \in Nat /\ taken' >= taken
         /\ next_outgoing_split_seqnum' = SeqnumOf(taken')
         /\ IsSplit(msg) => MayTake
<1>1. taken \in Nat /\ next_outgoing_split_seqnum = SeqnumOf(taken)
  BY DEF SplitInv, SplitTypes, TurnsAreNumbers
<1>2. (SeqnumOf(taken) + 1) % Modulus = SeqnumOf(taken + 1)
  BY <1>1, SeqnumOfAdd
<1> QED BY <1>1, <1>2 DEF TakeNumber, SetNextSplitSeqNum

\* A message gets its turn, and its chunks go where they go.
LEMMA Sending ==
  ASSUME SplitInv, NEW msg \in Message, TakeNumber(msg), UNCHANGED m_buf,
         network' \subseteq network \cup (IF msg.reliable THEN {} ELSE NewChunks(msg)),
         stream' = stream \/ (msg.reliable /\ stream' = stream \o Chunks(msg))
  PROVE  /\ taken' \in Nat /\ network' \subseteq Chunk /\ stream' \in Seq(Chunk)
         /\ TurnsAreNumbers' /\ ChunksAreRecent' /\ EntriesAreOfOneMessage'
<1>1. /\ taken' = (IF IsSplit(msg) THEN taken + 1 ELSE taken)
      /\ taken' \in Nat /\ taken' >= taken
      /\ next_outgoing_split_seqnum' = SeqnumOf(taken')
      /\ IsSplit(msg) => MayTake
  BY Taking
<1>2. /\ taken \in Nat /\ stream \in Seq(Chunk) /\ network \subseteq Chunk
      /\ ChunkLifetime \in Nat /\ SplitTimeout \in Nat
      /\ SplitTypes /\ TurnsAreNumbers
  BY Constants DEF SplitInv, SplitTypes
<1>3. /\ Chunks(msg) \in Seq(Chunk) /\ Len(Chunks(msg)) = msg.size
      /\ msg.size \in Nat /\ msg.size >= 1
      /\ \A i \in 1 .. msg.size :
           /\ Chunks(msg)[i].msg = msg /\ Chunks(msg)[i].chunk_num = i - 1
           /\ Chunks(msg)[i].at = taken /\ Chunks(msg)[i].seqnum = SeqnumOf(taken)
           /\ Chunks(msg)[i] = [seqnum |-> SeqnumOf(taken), chunk_num |-> i - 1,
                                msg |-> msg, at |-> taken]
  <2>1. SplitTypes /\ TurnsAreNumbers
    BY DEF SplitInv
  <2> QED BY <2>1, ChunksOf
<1> DEFINE new == NewChunks(msg)
<1>4. /\ new \subseteq Chunk
      /\ \A c \in new : /\ c.msg = msg /\ c.chunk_num < msg.size
                        /\ c.at = taken /\ c.seqnum = SeqnumOf(taken)
  <2>1. \A i \in 1 .. msg.size : Chunks(msg)[i] \in Chunk /\ i - 1 < msg.size
    BY <1>3
  <2> QED BY <1>3, <2>1 DEF NewChunks
<1>5. /\ stream' \in Seq(Chunk) /\ Len(stream') \in Nat /\ Len(stream) \in Nat
      /\ \A i \in DOMAIN stream' :
           (i \in DOMAIN stream /\ stream'[i] = stream[i])
             \/ (msg.reliable /\ stream'[i] \in new)
  <2>1. CASE stream' = stream
    BY <1>2, <2>1
  <2>2. CASE msg.reliable /\ stream' = stream \o Chunks(msg)
    <3>1. /\ stream' \in Seq(Chunk) /\ Len(stream') = Len(stream) + msg.size
          /\ \A i \in 1 .. Len(stream) : stream'[i] = stream[i]
          /\ \A i \in 1 .. msg.size : stream'[Len(stream) + i] = Chunks(msg)[i]
      <4>1. Chunks(msg) \in Seq(Chunk) /\ stream \in Seq(Chunk) /\ Len(Chunks(msg)) = msg.size
        BY <1>2, <1>3
      <4>2. /\ stream \o Chunks(msg) \in Seq(Chunk)
            /\ Len(stream \o Chunks(msg)) = Len(stream) + Len(Chunks(msg))
            /\ \A i \in 1 .. Len(stream) : (stream \o Chunks(msg))[i] = stream[i]
            /\ \A i \in 1 .. Len(Chunks(msg)) :
                 (stream \o Chunks(msg))[Len(stream) + i] = Chunks(msg)[i]
        BY <4>1, Concat
      <4> QED BY <2>2, <4>1, <4>2
    <3>2. ASSUME NEW i \in DOMAIN stream', i \notin DOMAIN stream
          PROVE  stream'[i] \in new
      <4>1. i \in 1 .. Len(stream) + msg.size /\ ~(i \in 1 .. Len(stream)) /\ Len(stream) \in Nat
        BY <1>2, <3>1, <3>2
      <4>2. i - Len(stream) \in 1 .. msg.size /\ Len(stream) + (i - Len(stream)) = i
        BY <1>3, <4>1
      <4>3. stream'[i] = Chunks(msg)[i - Len(stream)]
        BY <3>1, <4>2
      <4> QED BY <4>2, <4>3 DEF NewChunks
    <3> QED BY <1>2, <2>2, <3>1, <3>2
  <2> QED BY <2>1, <2>2
<1> HIDE DEF new
<1>6. Sent' \subseteq Sent \cup new
  BY <1>5 DEF Sent, new
<1>7. \A c \in Sent : c \in Chunk /\ c.at \in Nat /\ (IsSplit(c.msg) => c.at < taken)
  <2>1. \A c \in Sent : c \in Chunk
    BY <1>2 DEF Sent
  <2>2. \A c \in Chunk : c.at \in Nat
    BY DEF Chunk
  <2> QED BY <1>2, <2>1, <2>2 DEF TurnsAreNumbers
<1>8. network' \subseteq Chunk
  BY <1>2, <1>4 DEF new
<1>9. TurnsAreNumbers'
  <2>1. \A c \in Sent \cup new :
          /\ c.seqnum = SeqnumOf(c.at) /\ c.chunk_num < c.msg.size
          /\ IsSplit(c.msg) => c.at < taken'
    BY <1>1, <1>2, <1>4, <1>7 DEF SplitInv, TurnsAreNumbers
  <2>2. \A c, d \in Sent \cup new :
          IsSplit(c.msg) /\ IsSplit(d.msg) /\ c.at = d.at => c.msg = d.msg
    BY <1>2, <1>4, <1>7 DEF SplitInv, TurnsAreNumbers
  <2> QED BY <1>1, <1>6, <2>1, <2>2 DEF TurnsAreNumbers
<1>10. ChunksAreRecent'
  <2>1. \A c \in network' : ~c.msg.reliable
    BY <1>4 DEF SplitInv, ChunksAreRecent, Message, new
  <2>2. ASSUME NEW i \in DOMAIN stream'
        PROVE  /\ stream'[i].msg.reliable
               /\ IsSplit(stream'[i].msg) =>
                    taken' - stream'[i].at <= ChunkLifetime \/ taken' = stream'[i].at + 1
    <3>1. CASE i \in DOMAIN stream /\ stream'[i] = stream[i]
      <4>1. stream[i].at \in Nat
        <5>1. stream[i] \in Chunk
          BY <1>2, <3>1
        <5> QED BY <5>1 DEF Chunk
      <4>2. stream[i].msg.reliable
        BY <3>1 DEF SplitInv, ChunksAreRecent
      <4>3. CASE IsSplit(msg)
        <5>1. IsSplit(stream[i].msg) => taken - stream[i].at < ChunkLifetime
          BY <1>1, <3>1, <4>3 DEF MayTake
        <5> QED BY <1>1, <1>2, <3>1, <4>1, <4>2, <4>3, <5>1
      <4>4. CASE ~IsSplit(msg)
        BY <1>1, <3>1, <4>2, <4>4 DEF SplitInv, ChunksAreRecent
      <4> QED BY <4>3, <4>4
    <3>2. CASE msg.reliable /\ stream'[i] \in new
      BY <1>1, <1>2, <1>4, <3>2
    <3> QED BY <1>5, <3>1, <3>2
  <2> QED BY <2>1, <2>2 DEF ChunksAreRecent
<1>11. EntriesAreOfOneMessage'
  <2>1. SUFFICES ASSUME NEW s \in DOMAIN m_buf
                 PROVE  \E a \in 0 .. taken' - 1 : \E k \in DOMAIN m_buf[s].chunks :
                          EntryOf(s, a, m_buf[s].chunks[k])'
    BY DEF EntriesAreOfOneMessage
  <2>2. PICK a \in 0 .. taken - 1, k \in DOMAIN m_buf[s].chunks :
          EntryOf(s, a, m_buf[s].chunks[k])
    BY DEF SplitInv, EntriesAreOfOneMessage
  <2> DEFINE m == m_buf[s].chunks[k]
             sp == m_buf[s]
  <2>3. /\ s = SeqnumOf(a)
        /\ m \in Message /\ IsSplit(m)
        /\ sp = [chunk_count |-> m.size, reliable |-> m.reliable,
                 chunks |-> sp.chunks, born |-> sp.born]
        /\ sp.chunks = [n \in DOMAIN sp.chunks |-> m]
        /\ DOMAIN sp.chunks \subseteq 0 .. m.size - 1
        /\ ~m.reliable =>
             /\ sp.born \in a + 1 .. taken
             /\ sp.born - a <= ChunkLifetime
             /\ taken - sp.born <= SplitTimeout
        /\ \A c \in Sent : IsSplit(c.msg) /\ c.at = a => c.msg = m
    BY <2>2 DEF EntryOf
  <2>4. sp.reliable = m.reliable
    BY <2>3
  <2> HIDE DEF m, sp
  <2>5. a \in 0 .. taken' - 1 /\ a \in Int /\ a < taken
    BY <1>1, <1>2
  <2>6. \A c \in Sent' : IsSplit(c.msg) /\ c.at = a => c.msg = m
    <3>1. \A c \in new : c.at # a
      BY <1>2, <1>4, <2>5
    <3> QED BY <1>6, <2>3, <3>1
  <2>7. ~m.reliable => sp.born \in a + 1 .. taken' /\ taken' - sp.born <= SplitTimeout
    <3>1. SUFFICES ASSUME ~m.reliable
                   PROVE  sp.born \in a + 1 .. taken' /\ taken' - sp.born <= SplitTimeout
      OBVIOUS
    <3>2. sp.born \in a + 1 .. taken /\ taken - sp.born <= SplitTimeout
      BY <2>3, <3>1
    <3>3. IsSplit(msg) => taken - sp.born < SplitTimeout
      BY <1>1, <2>4, <3>1 DEF MayTake, sp
    <3> QED BY <1>1, <1>2, <2>5, <3>2, <3>3
  <2>8. EntryOf(s, a, m)'
    BY <2>3, <2>6, <2>7 DEF EntryOf, sp, m
  <2> QED BY <2>5, <2>8 DEF m
<1> QED BY <1>1, <1>5, <1>8, <1>9, <1>10, <1>11

\* The chunks of the message whose turn it is are put behind the stream.
LEMMA Granting ==
  ASSUME NEW msg \in Message
  PROVE  /\ SplitInv
         /\ stream' = stream \o Chunks(msg) /\ UNCHANGED <<m_buf, delivered>>
         /\ msg.id + Len(queued_commands) = reliables
         => /\ StreamRuns' /\ HeadHasTheEntry'
            /\ stream' # <<>> /\ stream'[1].msg.id = Len(delivered)
            /\ stream'[Len(stream')].msg.id = msg.id
<1>0. SUFFICES ASSUME SplitInv,
                      stream' = stream \o Chunks(msg), UNCHANGED <<m_buf, delivered>>,
                      msg.id + Len(queued_commands) = reliables
               PROVE  /\ StreamRuns' /\ HeadHasTheEntry'
                      /\ stream' # <<>> /\ stream'[1].msg.id = Len(delivered)
                      /\ stream'[Len(stream')].msg.id = msg.id
  OBVIOUS
<1> DEFINE n == Len(stream)
           ch == Chunks(msg)
<1>1. /\ SplitTypes /\ TurnsAreNumbers /\ StreamRuns /\ InOrder /\ HeadHasTheEntry
      /\ stream \in Seq(Chunk) /\ n \in Nat /\ DOMAIN stream = 1 .. n
      /\ msg.id \in Nat /\ reliables \in Nat /\ Len(queued_commands) \in Nat
      /\ Len(delivered) \in Nat /\ (stream = <<>> <=> n = 0)
  BY <1>0 DEF SplitInv, SplitTypes, Message
<1>2. /\ ch \in Seq(Chunk) /\ Len(ch) = msg.size
      /\ msg.size \in Nat /\ msg.size >= 1
      /\ \A i \in 1 .. msg.size :
           /\ ch[i].msg = msg /\ ch[i].chunk_num = i - 1
           /\ ch[i].at = taken /\ ch[i].seqnum = SeqnumOf(taken)
           /\ ch[i] = [seqnum |-> SeqnumOf(taken), chunk_num |-> i - 1,
                       msg |-> msg, at |-> taken]
  BY <1>1, ChunksOf
<1>3. /\ stream \o ch \in Seq(Chunk) /\ Len(stream \o ch) = n + Len(ch)
      /\ \A i \in 1 .. n : (stream \o ch)[i] = stream[i]
      /\ \A i \in 1 .. Len(ch) : (stream \o ch)[n + i] = ch[i]
  <2>1. stream \in Seq(Chunk) /\ ch \in Seq(Chunk)
    BY <1>1, <1>2
  <2> HIDE DEF ch
  <2> QED BY <2>1, Concat
<1> HIDE DEF ch, n
<1>4. /\ stream' \in Seq(Chunk) /\ Len(stream') = n + msg.size
      /\ DOMAIN stream' = 1 .. n + msg.size
      /\ \A i \in 1 .. n : stream'[i] = stream[i]
      /\ \A i \in 1 .. msg.size : stream'[n + i] = ch[i]
  BY <1>0, <1>2, <1>3 DEF ch, n
<1>5. \A i \in 1 .. n : /\ stream[i].msg.size \in Nat /\ stream[i].chunk_num \in Nat
                        /\ stream[i] \in Chunk
  <2>1. \A i \in 1 .. n : stream[i] \in Chunk
    BY <1>1
  <2>2. \A c \in Chunk : c.msg.size \in Nat /\ c.chunk_num \in Nat
    BY Constants DEF Chunk, Message
  <2> QED BY <2>1, <2>2
<1>6. \A i \in DOMAIN stream' :
        \/ i \in 1 .. n /\ stream'[i] = stream[i]
        \/ i - n \in 1 .. msg.size /\ stream'[i] = ch[i - n]
  <2>1. SUFFICES ASSUME NEW i \in 1 .. n + msg.size, ~(i \in 1 .. n)
                 PROVE  i - n \in 1 .. msg.size /\ stream'[i] = ch[i - n]
    BY <1>4
  <2>2. i - n \in 1 .. msg.size /\ n + (i - n) = i
    BY <1>1, <1>2, <2>1
  <2>3. stream'[n + (i - n)] = ch[i - n]
    BY <1>4, <2>2
  <2> QED BY <2>2, <2>3
<1>7. \A i \in DOMAIN stream' : \A j \in 1 .. stream'[i].msg.size - 1 - stream'[i].chunk_num :
        /\ i + j \in DOMAIN stream'
        /\ stream'[i + j] = Later(stream'[i], j)
  <2> SUFFICES ASSUME NEW i \in DOMAIN stream',
                      NEW j \in 1 .. stream'[i].msg.size - 1 - stream'[i].chunk_num
               PROVE  /\ i + j \in DOMAIN stream'
                      /\ stream'[i + j] = Later(stream'[i], j)
    OBVIOUS
  <2>1. CASE i \in 1 .. n /\ stream'[i] = stream[i]
    <3>1. i + j \in DOMAIN stream /\ stream[i + j] = Later(stream[i], j)
      BY <1>1, <2>1 DEF StreamRuns
    <3>2. i + j \in 1 .. n /\ stream'[i + j] = stream[i + j] /\ i + j \in 1 .. n + msg.size
      BY <1>1, <1>2, <1>4, <3>1
    <3> QED BY <1>4, <2>1, <3>1, <3>2
  <2>2. CASE i - n \in 1 .. msg.size /\ stream'[i] = ch[i - n]
    <3>0. i \in Int /\ j \in Int /\ n \in Nat /\ msg.size \in Nat
      BY <1>1, <1>2, <1>4
    <3>1. /\ ch[i - n].msg = msg /\ ch[i - n].chunk_num = i - n - 1
          /\ ch[i - n] = [seqnum |-> SeqnumOf(taken), chunk_num |-> i - n - 1,
                         msg |-> msg, at |-> taken]
      BY <1>2, <2>2
    <3>2. j \in 1 .. msg.size - 1 - (i - n - 1)
      BY <2>2, <3>1
    <3>3. i - n + j \in 1 .. msg.size /\ n + (i - n + j) = i + j /\ i + j \in 1 .. n + msg.size
      BY <2>2, <3>0, <3>2
    <3>4. stream'[n + (i - n + j)] = ch[i - n + j]
      BY <1>4, <3>3
    <3>5. ch[i - n + j] = [seqnum |-> SeqnumOf(taken), chunk_num |-> i - n + j - 1,
                           msg |-> msg, at |-> taken]
      BY <1>2, <3>0, <3>3
    <3>6. i - n + j - 1 = (i - n - 1) + j
      BY <3>0
    <3>7. stream'[i + j] = [seqnum |-> SeqnumOf(taken), chunk_num |-> (i - n - 1) + j,
                            msg |-> msg, at |-> taken]
      BY <3>3, <3>4, <3>5, <3>6
    <3>8. i + j \in DOMAIN stream'
      BY <1>4, <3>3
    <3> QED BY <2>2, <3>1, <3>7, <3>8 DEF Later
  <2> QED BY <1>6, <2>1, <2>2
<1>8. \A i \in DOMAIN stream' :
        stream'[i].chunk_num + 1 = stream'[i].msg.size /\ i + 1 \in DOMAIN stream' =>
          stream'[i + 1].chunk_num = 0 /\ stream'[i + 1].msg.id = stream'[i].msg.id + 1
  <2> SUFFICES ASSUME NEW i \in DOMAIN stream', i + 1 \in DOMAIN stream',
                      stream'[i].chunk_num + 1 = stream'[i].msg.size
               PROVE  stream'[i + 1].chunk_num = 0 /\ stream'[i + 1].msg.id = stream'[i].msg.id + 1
    OBVIOUS
  <2>1. i \in 1 .. n + msg.size /\ i + 1 \in 1 .. n + msg.size
    BY <1>4
  <2>2. CASE i + 1 \in 1 .. n
    <3>1. i \in 1 .. n /\ stream'[i] = stream[i] /\ stream'[i + 1] = stream[i + 1]
      BY <1>1, <1>4, <2>1, <2>2
    <3> QED BY <1>1, <2>2, <3>1 DEF StreamRuns
  <2>3. CASE i = n
    <3>1. /\ n \in 1 .. n /\ stream'[n] = stream[n]
      BY <1>1, <1>4, <2>1, <2>3
    <3>2. 1 \in 1 .. msg.size /\ stream'[n + 1] = ch[1] /\ ch[1].msg = msg /\ ch[1].chunk_num = 0
      <4>1. 1 \in 1 .. msg.size
        BY <1>2
      <4>2. stream'[n + 1] = ch[1] /\ ch[1].msg = msg /\ ch[1].chunk_num = 1 - 1
        BY <1>2, <1>4, <4>1
      <4> QED BY <4>1, <4>2
    <3>3. stream # <<>>
      BY <1>1, <3>1
    <3>4. stream[n].msg.id + 1 + Len(queued_commands) = reliables
      BY <1>1, <3>3 DEF InOrder, n
    <3>5. stream[n].msg.id \in Nat
      BY <1>5, <3>1 DEF Chunk, Message
    <3>6. msg.id = stream[n].msg.id + 1
      <4>1. /\ msg.id \in Nat /\ reliables \in Nat /\ Len(queued_commands) \in Nat
            /\ msg.id + Len(queued_commands) = reliables
        BY <1>0, <1>1
      <4>2. \A x, y, l, r \in Nat : x + 1 + l = r /\ y + l = r => y = x + 1
        OBVIOUS
      <4> QED BY <3>4, <3>5, <4>1, <4>2
    <3> QED BY <2>3, <3>1, <3>2, <3>6
  <2>4. CASE i > n
    <3>1. i - n \in 1 .. msg.size /\ i + 1 - n \in 1 .. msg.size /\ ~(i \in 1 .. n)
      <4>1. i \in Int /\ n \in Nat /\ msg.size \in Nat
        BY <1>1, <1>2, <2>1
      <4> QED BY <2>1, <2>4, <4>1
    <3>2. stream'[i] = ch[i - n] /\ ch[i - n].msg = msg /\ ch[i - n].chunk_num = i - n - 1
      BY <1>2, <1>6, <3>1
    <3>3. i - n - 1 + 1 = msg.size
      BY <3>2
    <3>4. i \in Int /\ n \in Nat /\ msg.size \in Nat
      BY <1>1, <1>2, <2>1
    <3> QED BY <2>1, <3>3, <3>4
  <2>5. i \in Int /\ n \in Nat
    BY <1>1, <2>1
  <2>6. i + 1 \in 1 .. n \/ i = n \/ i > n
    BY <2>1, <2>5
  <2> QED BY <2>2, <2>3, <2>4, <2>6
<1>9. StreamRuns'
  BY <1>7, <1>8 DEF StreamRuns
<1>10. stream' # <<>> /\ 1 \in DOMAIN stream' /\ Len(stream') \in DOMAIN stream'
  BY <1>1, <1>2, <1>4
<1>11. stream'[Len(stream')].msg.id = msg.id
  <2>1. msg.size \in 1 .. msg.size
    BY <1>2
  <2>2. stream'[n + msg.size] = ch[msg.size] /\ ch[msg.size].msg = msg
    BY <1>2, <1>4, <2>1
  <2> QED BY <1>4, <2>2
<1>12. CASE stream = <<>>
  <2>1. n = 0
    BY <1>1, <1>12
  <2>2. stream'[1] = ch[1] /\ ch[1].msg = msg /\ ch[1].chunk_num = 0
    <3>1. 1 \in 1 .. msg.size /\ n + 1 = 1
      BY <1>2, <2>1
    <3>2. stream'[n + 1] = ch[1] /\ ch[1].msg = msg /\ ch[1].chunk_num = 1 - 1
      BY <1>2, <1>4, <3>1
    <3> QED BY <3>1, <3>2
  <2>3. msg.id = Len(delivered)
    BY <1>0, <1>1, <1>12 DEF InOrder
  <2>4. HeadHasTheEntry'
    BY <1>0, <1>1, <1>12, <2>2 DEF HeadHasTheEntry
  <2> QED BY <1>9, <1>10, <1>11, <2>2, <2>3, <2>4
<1>13. CASE stream # <<>>
  <2>1. 1 \in 1 .. n /\ stream'[1] = stream[1]
    BY <1>1, <1>4, <1>13
  <2>2. stream[1].msg.id = Len(delivered)
    BY <1>1, <1>13 DEF InOrder
  <2>3. HeadHasTheEntry'
    BY <1>0, <1>1, <1>10, <1>13, <2>1 DEF HeadHasTheEntry
  <2> QED BY <1>9, <1>10, <1>11, <2>1, <2>2, <2>3
<1> QED BY <1>12, <1>13

LEMMA SendKeeps ==
  ASSUME SplitInv, NEW n \in 1 .. MaxChunks, Send(n)
  PROVE  SplitInv'
<1> DEFINE msg == [reliable |-> FALSE, id |-> unreliables, size |-> n]
<1>1. /\ SplitTypes /\ StreamRuns /\ InOrder /\ HeadHasTheEntry /\ HandedUp
      /\ unreliables \in Nat
  BY DEF SplitInv, SplitTypes
<1>2. /\ msg \in Message /\ ~msg.reliable /\ msg.size = n
  BY <1>1, Constants DEF Message
<1>3. /\ unreliables' = unreliables + 1 /\ TakeNumber(msg)
      /\ network' = OnTheirWay \cup {Chunks(msg)[i] : i \in 1 .. n}
      /\ UNCHANGED <<queued_commands, reliables, refused, stream, m_buf, delivered, heard>>
  BY DEF Send
<1> HIDE DEF msg
<1>4. network' \subseteq network \cup (IF msg.reliable THEN {} ELSE NewChunks(msg))
  BY <1>2, <1>3 DEF NewChunks, OnTheirWay
<1>5. UNCHANGED m_buf /\ stream' = stream
  BY <1>3
<1>6. /\ taken' \in Nat /\ network' \subseteq Chunk /\ stream' \in Seq(Chunk)
      /\ TurnsAreNumbers' /\ ChunksAreRecent' /\ EntriesAreOfOneMessage'
  BY <1>2, <1>3, <1>4, <1>5, Sending
<1>7. SplitTypes'
  BY <1>1, <1>3, <1>6 DEF SplitTypes
<1>8. StreamRuns' /\ InOrder' /\ HeadHasTheEntry' /\ HandedUp'
  BY <1>1, <1>3 DEF StreamRuns, InOrder, HeadHasTheEntry, HandedUp
<1> QED BY <1>6, <1>7, <1>8 DEF SplitInv

\* A command that is not tried, or refused, is the last of the queue.
LEMMA QueuedInOrder ==
  ASSUME SplitInv, NEW msg \in Message,
         msg.reliable, msg.id = reliables, reliables' = reliables + 1,
         queued_commands' = Append(queued_commands, msg), UNCHANGED <<stream, delivered>>
  PROVE  InOrder' /\ queued_commands' \in Seq(Message)
<1> DEFINE q == queued_commands
<1>1. /\ InOrder /\ q \in Seq(Message) /\ reliables \in Nat /\ Len(q) \in Nat
      /\ DOMAIN q = 1 .. Len(q) /\ Len(delivered) \in Nat /\ stream \in Seq(Chunk)
  BY DEF SplitInv, SplitTypes
<1>2. /\ q' \in Seq(Message) /\ Len(q') = Len(q) + 1 /\ DOMAIN q' = 1 .. Len(q) + 1
      /\ \A i \in 1 .. Len(q) : q'[i] = q[i]
      /\ q'[Len(q) + 1] = msg
  BY <1>1
<1>3. \A i \in 1 .. Len(q) : q[i].reliable /\ q[i].id + Len(q) = reliables + i - 1 /\ q[i].id \in Nat
  <2>1. \A i \in 1 .. Len(q) : q[i] \in Message
    BY <1>1
  <2>2. \A m \in Message : m.id \in Nat
    BY DEF Message
  <2> QED BY <1>1, <2>1, <2>2 DEF InOrder
<1>4. \A i \in 1 .. Len(q) + 1 : q'[i].reliable /\ q'[i].id + (Len(q) + 1) = (reliables + 1) + i - 1
  <2> SUFFICES ASSUME NEW i \in 1 .. Len(q) + 1
               PROVE  q'[i].reliable /\ q'[i].id + (Len(q) + 1) = (reliables + 1) + i - 1
    OBVIOUS
  <2>1. CASE i \in 1 .. Len(q)
    <3>1. q'[i] = q[i] /\ q[i].reliable /\ q[i].id \in Nat /\ q[i].id + Len(q) = reliables + i - 1
      BY <1>2, <1>3, <2>1
    <3>2. \A a, l, r \in Nat : \A k \in Int :
            a + l = r + k - 1 => a + (l + 1) = (r + 1) + k - 1
      OBVIOUS
    <3>3. q[i].id \in Nat /\ Len(q) \in Nat /\ reliables \in Nat /\ i \in Int
      BY <1>1, <3>1
    <3>4. q[i].id + (Len(q) + 1) = (reliables + 1) + i - 1
      BY <3>1, <3>2, <3>3
    <3> QED BY <3>1, <3>4
  <2>2. CASE i = Len(q) + 1
    <3>1. q'[i].reliable /\ q'[i].id = reliables
      BY <1>2, <2>2
    <3>2. \A r, l \in Nat : r + (l + 1) = (r + 1) + (l + 1) - 1
      OBVIOUS
    <3> QED BY <1>1, <2>2, <3>1, <3>2
  <2> QED BY <1>1, <2>1, <2>2
<1>5. stream # <<>> => stream[Len(stream)].msg.id \in Nat
  <2>1. SUFFICES ASSUME stream # <<>> PROVE stream[Len(stream)].msg.id \in Nat
    OBVIOUS
  <2>2. stream[Len(stream)] \in Chunk
    BY <1>1, <2>1
  <2> QED BY <2>2 DEF Chunk, Message
<1>6. IF stream = <<>> THEN Len(delivered) + (Len(q) + 1) = reliables + 1
      ELSE /\ stream[1].msg.id = Len(delivered)
           /\ stream[Len(stream)].msg.id + 1 + (Len(q) + 1) = reliables + 1
  <2>1. CASE stream = <<>>
    <3>1. Len(delivered) + Len(q) = reliables
      BY <1>1, <2>1 DEF InOrder
    <3> QED BY <1>1, <2>1, <3>1
  <2>2. CASE stream # <<>>
    <3>1. /\ stream[1].msg.id = Len(delivered)
          /\ stream[Len(stream)].msg.id + 1 + Len(q) = reliables
      BY <1>1, <2>2 DEF InOrder
    <3>2. \A a, l, r \in Nat : a + 1 + l = r => a + 1 + (l + 1) = r + 1
      OBVIOUS
    <3>3. /\ stream[Len(stream)].msg.id \in Nat /\ Len(q) \in Nat /\ reliables \in Nat
      BY <1>1, <1>5, <2>2
    <3>4. stream[Len(stream)].msg.id + 1 + (Len(q) + 1) = reliables + 1
      BY <3>1, <3>2, <3>3
    <3> QED BY <2>2, <3>1, <3>4
  <2> QED BY <2>1, <2>2
<1> QED BY <1>2, <1>4, <1>6 DEF InOrder

LEMMA PutKeeps ==
  ASSUME SplitInv, NEW n \in 1 .. MaxChunks, PutReliableSendCommand(n)
  PROVE  SplitInv'
<1> DEFINE msg == [reliable |-> TRUE, id |-> reliables, size |-> n]
           q == queued_commands
<1>1. /\ SplitTypes /\ TurnsAreNumbers /\ ChunksAreRecent /\ EntriesAreOfOneMessage
      /\ StreamRuns /\ InOrder /\ HeadHasTheEntry /\ HandedUp
      /\ reliables \in Nat /\ q \in Seq(Message)
  BY DEF SplitInv, SplitTypes
<1>2. msg \in Message /\ msg.reliable /\ msg.id = reliables
  BY <1>1, Constants DEF Message
<1>3. /\ reliables' = reliables + 1
      /\ UNCHANGED <<unreliables, network, m_buf, delivered, heard>>
      /\ \/ MayTry /\ Granted(msg) /\ UNCHANGED queued_commands
         \/ MayTry /\ Refused(msg) /\ queued_commands' = Append(queued_commands, msg)
         \/ /\ KeepNumber /\ UNCHANGED <<stream, refused>>
            /\ queued_commands' = Append(queued_commands, msg)
  BY DEF PutReliableSendCommand
<1> HIDE DEF msg
<1>4. HandedUp'
  BY <1>1, <1>3 DEF HandedUp
<1>5. ASSUME TakeNumber(msg), stream' = stream \/ stream' = stream \o Chunks(msg)
      PROVE  /\ taken' \in Nat /\ network' \subseteq Chunk /\ stream' \in Seq(Chunk)
             /\ TurnsAreNumbers' /\ ChunksAreRecent' /\ EntriesAreOfOneMessage'
  <2>1. network' \subseteq network \cup (IF msg.reliable THEN {} ELSE NewChunks(msg))
    BY <1>3
  <2> QED BY <1>2, <1>3, <1>5, <2>1, Sending
<1>6. CASE MayTry /\ Granted(msg) /\ UNCHANGED queued_commands
  <2>1. q = <<>> /\ TakeNumber(msg) /\ stream' = stream \o Chunks(msg)
    BY <1>6 DEF MayTry, Granted
  <2>2. msg.id + Len(q) = reliables
    BY <1>1, <1>2, <2>1
  <2>3. /\ StreamRuns' /\ HeadHasTheEntry'
        /\ stream' # <<>> /\ stream'[1].msg.id = Len(delivered)
        /\ stream'[Len(stream')].msg.id = msg.id
    BY <1>2, <1>3, <2>1, <2>2, Granting
  <2>4. q' = <<>> /\ Len(q') = 0 /\ DOMAIN q' = {}
    BY <1>6, <2>1
  <2>5. InOrder'
    BY <1>1, <1>2, <1>3, <2>3, <2>4 DEF InOrder
  <2>6. /\ taken' \in Nat /\ network' \subseteq Chunk /\ stream' \in Seq(Chunk)
        /\ TurnsAreNumbers' /\ ChunksAreRecent' /\ EntriesAreOfOneMessage'
    BY <1>5, <2>1
  <2>7. SplitTypes'
    BY <1>1, <1>3, <1>6, <2>6 DEF SplitTypes
  <2> QED BY <1>4, <2>3, <2>5, <2>6, <2>7 DEF SplitInv
<1>7. CASE /\ queued_commands' = Append(queued_commands, msg)
           /\ UNCHANGED stream
           /\ TakeNumber(msg) \/ KeepNumber
  <2>1. InOrder' /\ queued_commands' \in Seq(Message)
    BY <1>2, <1>3, <1>7, QueuedInOrder
  <2>2. StreamRuns' /\ HeadHasTheEntry'
    BY <1>1, <1>3, <1>7 DEF StreamRuns, HeadHasTheEntry
  <2>3. /\ taken' \in Nat /\ network' \subseteq Chunk /\ stream' \in Seq(Chunk)
        /\ TurnsAreNumbers' /\ ChunksAreRecent' /\ EntriesAreOfOneMessage'
    <3>1. CASE TakeNumber(msg)
      BY <1>5, <1>7, <3>1
    <3>2. CASE KeepNumber
      <4>1. UNCHANGED <<taken, next_outgoing_split_seqnum, stream, network, m_buf>>
        BY <1>3, <1>7, <3>2 DEF KeepNumber
      <4>2. Sent' = Sent
        BY <4>1 DEF Sent
      <4>3. EntriesAreOfOneMessage'
        <5>1. SUFFICES ASSUME NEW s \in DOMAIN m_buf
                       PROVE  \E a \in 0 .. taken - 1 : \E k \in DOMAIN m_buf[s].chunks :
                                EntryOf(s, a, m_buf[s].chunks[k])'
          BY <4>1 DEF EntriesAreOfOneMessage
        <5>2. PICK a \in 0 .. taken - 1, k \in DOMAIN m_buf[s].chunks :
                EntryOf(s, a, m_buf[s].chunks[k])
          BY <1>1 DEF EntriesAreOfOneMessage
        <5>3. EntryOf(s, a, m_buf[s].chunks[k])'
          BY <4>1, <4>2, <5>2 DEF EntryOf
        <5> QED BY <5>3
      <4>4. TurnsAreNumbers' /\ ChunksAreRecent'
        BY <1>1, <4>1, <4>2 DEF TurnsAreNumbers, ChunksAreRecent
      <4> QED BY <1>1, <4>1, <4>3, <4>4 DEF SplitTypes
    <3> QED BY <1>7, <3>1, <3>2
  <2>4. SplitTypes'
    BY <1>1, <1>3, <2>1, <2>3 DEF SplitTypes
  <2> QED BY <1>4, <2>1, <2>2, <2>3, <2>4 DEF SplitInv
<1> QED BY <1>3, <1>6, <1>7 DEF Refused

LEMMA RunKeeps ==
  ASSUME SplitInv, RunCommandQueues
  PROVE  SplitInv'
<1> DEFINE q == queued_commands
           msg == Head(q)
<1>1. /\ SplitTypes /\ TurnsAreNumbers /\ ChunksAreRecent /\ EntriesAreOfOneMessage
      /\ StreamRuns /\ InOrder /\ HeadHasTheEntry /\ HandedUp
      /\ reliables \in Nat /\ q \in Seq(Message)
  BY DEF SplitInv, SplitTypes
<1>2. /\ q # <<>>
      /\ UNCHANGED <<reliables, unreliables, network, m_buf, delivered, heard>>
      /\ \/ Granted(msg) /\ q' = Tail(q)
         \/ Refused(msg) /\ UNCHANGED q
  BY DEF RunCommandQueues
<1>3. /\ msg = q[1] /\ Len(q) \in Nat /\ Len(q) >= 1 /\ DOMAIN q = 1 .. Len(q) /\ msg \in Message
      /\ Tail(q) \in Seq(Message) /\ Len(Tail(q)) = Len(q) - 1
      /\ \A i \in 1 .. Len(q) - 1 : Tail(q)[i] = q[i + 1]
  BY <1>1, <1>2, TailOf
<1>4. \A i \in 1 .. Len(q) : q[i].reliable /\ q[i].id + Len(q) = reliables + i - 1 /\ q[i].id \in Nat
  <2>1. \A i \in 1 .. Len(q) : q[i] \in Message
    BY <1>1
  <2>2. \A m \in Message : m.id \in Nat
    BY DEF Message
  <2> QED BY <1>1, <2>1, <2>2 DEF InOrder
<1>5. msg.reliable /\ msg.id \in Nat /\ msg.id + Len(q) = reliables
  BY <1>1, <1>3, <1>4
<1> HIDE DEF msg
<1>6. HandedUp'
  BY <1>1, <1>2 DEF HandedUp
<1>7. ASSUME TakeNumber(msg), stream' = stream \/ stream' = stream \o Chunks(msg)
      PROVE  /\ taken' \in Nat /\ network' \subseteq Chunk /\ stream' \in Seq(Chunk)
             /\ TurnsAreNumbers' /\ ChunksAreRecent' /\ EntriesAreOfOneMessage'
  <2>1. network' \subseteq network \cup (IF msg.reliable THEN {} ELSE NewChunks(msg))
    BY <1>2
  <2> QED BY <1>2, <1>3, <1>5, <1>7, <2>1, Sending
<1>8. CASE Granted(msg) /\ q' = Tail(q)
  <2>1. TakeNumber(msg) /\ stream' = stream \o Chunks(msg)
    BY <1>8 DEF Granted
  <2>2. /\ StreamRuns' /\ HeadHasTheEntry'
        /\ stream' # <<>> /\ stream'[1].msg.id = Len(delivered)
        /\ stream'[Len(stream')].msg.id = msg.id
    BY <1>2, <1>3, <1>5, <2>1, Granting
  <2>3. /\ Len(q') = Len(q) - 1 /\ DOMAIN q' = 1 .. Len(q) - 1 /\ q' \in Seq(Message)
        /\ \A i \in 1 .. Len(q) - 1 : q'[i] = q[i + 1]
    BY <1>3, <1>8
  <2>4. \A i \in 1 .. Len(q) - 1 : q'[i].reliable /\ q'[i].id + (Len(q) - 1) = reliables + i - 1
    <3> SUFFICES ASSUME NEW i \in 1 .. Len(q) - 1
                 PROVE  q'[i].reliable /\ q'[i].id + (Len(q) - 1) = reliables + i - 1
      OBVIOUS
    <3>1. i + 1 \in 1 .. Len(q) /\ i \in Int
      BY <1>3
    <3>2. q'[i] = q[i + 1] /\ q[i + 1].reliable /\ q[i + 1].id \in Nat
          /\ q[i + 1].id + Len(q) = reliables + (i + 1) - 1
      BY <1>4, <2>3, <3>1
    <3>3. \A a, l, r \in Nat : \A k \in Int :
            a + l = r + (k + 1) - 1 => a + (l - 1) = r + k - 1
      OBVIOUS
    <3> QED BY <1>1, <1>3, <3>1, <3>2, <3>3
  <2>5. stream'[Len(stream')].msg.id + 1 + (Len(q) - 1) = reliables
    BY <1>1, <1>3, <1>5, <2>2
  <2>6. InOrder'
    BY <1>2, <2>2, <2>3, <2>4, <2>5 DEF InOrder
  <2>7. /\ taken' \in Nat /\ network' \subseteq Chunk /\ stream' \in Seq(Chunk)
        /\ TurnsAreNumbers' /\ ChunksAreRecent' /\ EntriesAreOfOneMessage'
    BY <1>7, <2>1
  <2>8. SplitTypes'
    BY <1>1, <1>2, <2>3, <2>7 DEF SplitTypes
  <2> QED BY <1>6, <2>2, <2>6, <2>7, <2>8 DEF SplitInv
<1>9. CASE Refused(msg) /\ UNCHANGED q
  <2>1. TakeNumber(msg) /\ stream' = stream
    BY <1>9 DEF Refused
  <2>2. StreamRuns' /\ HeadHasTheEntry' /\ InOrder'
    BY <1>1, <1>2, <1>9, <2>1 DEF StreamRuns, HeadHasTheEntry, InOrder
  <2>3. /\ taken' \in Nat /\ network' \subseteq Chunk /\ stream' \in Seq(Chunk)
        /\ TurnsAreNumbers' /\ ChunksAreRecent' /\ EntriesAreOfOneMessage'
    BY <1>7, <2>1
  <2>4. SplitTypes'
    BY <1>1, <1>2, <1>9, <2>3 DEF SplitTypes
  <2> QED BY <1>6, <2>2, <2>3, <2>4 DEF SplitInv
<1> QED BY <1>2, <1>8, <1>9

-----------------------------------------------------------------------------
(* The receiver. *)

LEMMA WholeInterval ==
  ASSUME NEW n \in Nat, n >= 1, NEW D \in SUBSET (0 .. n - 1)
  PROVE  Cardinality(D) = n <=> D = 0 .. n - 1
<1>1. IsFiniteSet(0 .. n - 1) /\ Cardinality(0 .. n - 1) = n
  <2>1. 0 \in Int /\ n - 1 \in Int /\ ~(0 > n - 1) /\ (n - 1) - 0 + 1 = n
    OBVIOUS
  <2> QED BY <2>1, FS_Interval
<1>2. Cardinality(0 .. n - 1) = Cardinality(D) => 0 .. n - 1 = D
  BY <1>1, FS_Subset
<1> QED BY <1>1, <1>2

\* Chunk c arrives, from the stream or from the network.
Arrives(c, reliable) ==
  /\ c \in Sent /\ c.msg.reliable = reliable
  /\ IsSplit(c.msg) => taken - c.at <= ChunkLifetime \/ (reliable /\ taken = c.at + 1)

LEMMA ArrivesIs ==
  ASSUME SplitInv, NEW c, NEW reliable \in BOOLEAN, Arrives(c, reliable)
  PROVE  /\ c \in Sent /\ c \in Chunk /\ c.msg \in Message /\ c.msg.reliable = reliable
         /\ c.seqnum \in Seqnum /\ c.seqnum = SeqnumOf(c.at)
         /\ c.msg.size \in Nat /\ c.msg.size >= 1 /\ c.chunk_num \in 0 .. c.msg.size - 1
         /\ c.at \in Nat
         /\ IsSplit(c.msg) => c.at < taken /\ c.msg.size >= 2
<1>1. c \in Sent /\ c.msg.reliable = reliable
  BY DEF Arrives
<1>2. c \in Chunk
  BY <1>1 DEF SplitInv, SplitTypes, Sent
<1>3. /\ c.msg \in Message /\ c.seqnum \in Seqnum /\ c.chunk_num \in Nat /\ c.at \in Nat
      /\ c.msg.size \in Nat /\ c.msg.size >= 1
  BY <1>2, Constants DEF Chunk, Message
<1>4. c.seqnum = SeqnumOf(c.at) /\ c.chunk_num < c.msg.size /\ (IsSplit(c.msg) => c.at < taken)
  BY <1>1 DEF SplitInv, TurnsAreNumbers
<1>5. IsSplit(c.msg) => c.msg.size >= 2
  BY <1>3 DEF IsSplit
<1> QED BY <1>1, <1>2, <1>3, <1>4, <1>5

\* The entry a chunk finds under its number is of its own message.
LEMMA SameMessage ==
  ASSUME SplitInv, NEW c, NEW reliable \in BOOLEAN, Arrives(c, reliable),
         IsSplit(c.msg), c.seqnum \in DOMAIN m_buf
  PROVE  EntryOf(c.seqnum, c.at, c.msg) /\ DOMAIN m_buf[c.seqnum].chunks # {}
<1> DEFINE s == c.seqnum
           sp == m_buf[s]
<1>1. /\ c \in Sent /\ s = SeqnumOf(c.at) /\ c.at \in Nat /\ c.at < taken
      /\ taken - c.at <= ChunkLifetime \/ taken = c.at + 1
      /\ taken \in Nat /\ ChunkLifetime \in Nat /\ SplitTimeout \in Nat
      /\ Modulus \in Nat /\ Modulus >= 1 /\ ChunkLifetime + SplitTimeout <= Modulus
  BY ArrivesIs, Constants DEF SplitInv, SplitTypes, Arrives
<1>2. PICK a \in 0 .. taken - 1, k \in DOMAIN sp.chunks : EntryOf(s, a, sp.chunks[k])
  BY DEF SplitInv, EntriesAreOfOneMessage
<1> DEFINE m == sp.chunks[k]
<1>3. /\ s = SeqnumOf(a) /\ IsSplit(m)
      /\ sp.chunks = [n \in DOMAIN sp.chunks |-> m]
      /\ sp = [chunk_count |-> m.size, reliable |-> m.reliable,
               chunks |-> sp.chunks, born |-> sp.born]
      /\ ~m.reliable =>
           /\ sp.born \in a + 1 .. taken
           /\ sp.born - a <= ChunkLifetime
           /\ taken - sp.born <= SplitTimeout
      /\ \A d \in Sent : IsSplit(d.msg) /\ d.at = a => d.msg = m
  BY <1>2 DEF EntryOf
<1>4. sp.reliable = m.reliable
  BY <1>3
<1>5. a \in Int /\ 0 <= a /\ a < taken
  BY <1>1
<1>6. CASE m.reliable
  <2> DEFINE d == stream[1]
  <2>1. /\ stream # <<>> /\ s = d.seqnum /\ d.chunk_num > 0
        /\ sp.chunks = [n \in 0 .. d.chunk_num - 1 |-> d.msg]
    BY <1>4, <1>6 DEF SplitInv, HeadHasTheEntry
  <2>2. 1 \in DOMAIN stream /\ d \in Sent
    <3>1. stream \in Seq(Chunk)
      BY DEF SplitInv, SplitTypes
    <3>2. 1 \in DOMAIN stream
      BY <2>1, <3>1
    <3> QED BY <3>2 DEF Sent
  <2> HIDE DEF d
  <2>3. m = d.msg
    BY <2>1
  <2>4. d.seqnum = SeqnumOf(d.at) /\ d.at < taken
    BY <1>3, <2>2, <2>3 DEF SplitInv, TurnsAreNumbers
  <2>5. d.at \in Nat /\ (taken - d.at <= ChunkLifetime \/ taken = d.at + 1)
    <3>1. d \in Chunk
      BY <2>2 DEF SplitInv, SplitTypes, Sent
    <3>2. taken - d.at <= ChunkLifetime \/ taken = d.at + 1
      BY <1>3, <2>2, <2>3 DEF SplitInv, ChunksAreRecent, d
    <3> QED BY <3>1, <3>2 DEF Chunk
  <2>6. d.at = c.at
    <3>1. d.at \in Int /\ c.at \in Int /\ d.at < c.at + Modulus /\ c.at < d.at + Modulus
      BY <1>1, <2>4, <2>5
    <3>2. SeqnumOf(d.at) = SeqnumOf(c.at)
      BY <1>1, <2>1, <2>4
    <3> QED BY <3>1, <3>2, SameTurn
  <2>7. c.msg = m
    BY <1>1, <1>3, <2>2, <2>3, <2>6 DEF SplitInv, TurnsAreNumbers
  <2>8. \A e \in Sent : IsSplit(e.msg) /\ e.at = c.at => e.msg = c.msg
    BY <1>1 DEF SplitInv, TurnsAreNumbers
  <2> HIDE DEF m, sp, s
  <2>9. EntryOf(s, c.at, c.msg)
    BY <1>1, <1>2, <1>6, <2>7, <2>8 DEF EntryOf, m, sp
  <2> QED BY <1>2, <2>9 DEF s, sp
<1>7. CASE ~m.reliable
  <2> HIDE DEF m, sp, s
  <2>1. /\ sp.born \in a + 1 .. taken
        /\ sp.born - a <= ChunkLifetime
        /\ taken - sp.born <= SplitTimeout
    BY <1>3, <1>7
  <2>2. a < c.at + Modulus /\ c.at < a + Modulus
    BY <1>1, <1>5, <2>1
  <2>3. c.at \in Int /\ SeqnumOf(a) = SeqnumOf(c.at)
    BY <1>1, <1>3
  <2>4. a = c.at
    BY <1>5, <2>2, <2>3, SameTurn
  <2>5. c.msg = m
    BY <1>1, <1>3, <2>4
  <2> QED BY <1>2, <2>4, <2>5 DEF m, sp, s
<1> QED BY <1>6, <1>7

\* The chunks that are there already.
Had(c) == IF c.seqnum \in DOMAIN m_buf THEN DOMAIN m_buf[c.seqnum].chunks ELSE {}
DataOf(msg) == [n \in 0 .. msg.size - 1 |-> msg]

LEMMA HandleIs ==
  ASSUME SplitInv, NEW c, NEW reliable \in BOOLEAN, Arrives(c, reliable), IsSplit(c.msg)
  PROVE  /\ Had(c) \subseteq 0 .. c.msg.size - 1
         /\ IsIgnored(c, Entry(c, reliable)) <=> c.chunk_num \in Had(c)
         /\ WithChunk(c, Entry(c, reliable)) =
              [chunk_count |-> c.msg.size, reliable |-> reliable,
               chunks |-> [n \in Had(c) \cup {c.chunk_num} |-> c.msg],
               born |-> Entry(c, reliable).born]
         /\ AllReceived(WithChunk(c, Entry(c, reliable)))
              <=> Had(c) \cup {c.chunk_num} = 0 .. c.msg.size - 1
         /\ Entry(c, reliable).born =
              IF c.seqnum \in DOMAIN m_buf THEN m_buf[c.seqnum].born ELSE taken
<1> DEFINE sp == Entry(c, reliable)
<1>1. /\ c.msg.reliable = reliable /\ c.msg.size \in Nat /\ c.msg.size >= 1
      /\ c.chunk_num \in 0 .. c.msg.size - 1
  BY ArrivesIs
<1>2. /\ sp = [chunk_count |-> c.msg.size, reliable |-> reliable, chunks |-> sp.chunks,
               born |-> sp.born]
      /\ DOMAIN sp.chunks = Had(c) /\ \A n \in Had(c) : sp.chunks[n] = c.msg
      /\ Had(c) \subseteq 0 .. c.msg.size - 1
      /\ sp.born = IF c.seqnum \in DOMAIN m_buf THEN m_buf[c.seqnum].born ELSE taken
  <2>1. CASE c.seqnum \in DOMAIN m_buf
    <3>1. EntryOf(c.seqnum, c.at, c.msg)
      BY <2>1, SameMessage
    <3>2. sp = m_buf[c.seqnum] /\ Had(c) = DOMAIN m_buf[c.seqnum].chunks
      BY <2>1 DEF Entry, Had
    <3>3. /\ m_buf[c.seqnum] = [chunk_count |-> c.msg.size, reliable |-> c.msg.reliable,
                 chunks |-> m_buf[c.seqnum].chunks, born |-> m_buf[c.seqnum].born]
          /\ m_buf[c.seqnum].chunks = [n \in DOMAIN m_buf[c.seqnum].chunks |-> c.msg]
          /\ DOMAIN m_buf[c.seqnum].chunks \subseteq 0 .. c.msg.size - 1
      BY <3>1 DEF EntryOf
    <3> HIDE DEF sp
    <3>4. \A n \in DOMAIN m_buf[c.seqnum].chunks : m_buf[c.seqnum].chunks[n] = c.msg
      BY <3>3
    <3> QED BY <1>1, <2>1, <3>2, <3>3, <3>4
  <2>2. CASE c.seqnum \notin DOMAIN m_buf
    <3>1. sp = [chunk_count |-> c.msg.size, reliable |-> reliable, chunks |-> <<>>,
                born |-> taken]
      BY <2>2 DEF Entry
    <3>2. Had(c) = {} /\ DOMAIN <<>> = {}
      BY <2>2 DEF Had
    <3> HIDE DEF sp
    <3> QED BY <2>2, <3>1, <3>2
  <2> QED BY <2>1, <2>2
<1> HIDE DEF sp
<1> DEFINE full == WithChunk(c, sp)
<1>3. full = [chunk_count |-> c.msg.size, reliable |-> reliable,
              chunks |-> [n \in Had(c) \cup {c.chunk_num} |-> c.msg], born |-> sp.born]
  <2>1. [n \in DOMAIN sp.chunks \cup {c.chunk_num} |->
           IF n = c.chunk_num THEN c.msg ELSE sp.chunks[n]]
          = [n \in Had(c) \cup {c.chunk_num} |-> c.msg]
    BY <1>2
  <2> QED BY <1>2, <2>1 DEF WithChunk
<1>4. sp.chunk_count = c.msg.size
  BY <1>2
<1>5. IsIgnored(c, sp) <=> c.chunk_num \in Had(c)
  BY <1>2, <1>4 DEF IsIgnored
<1>6. /\ full.chunk_count = c.msg.size /\ DOMAIN full.chunks = Had(c) \cup {c.chunk_num}
  BY <1>3
<1>7. Had(c) \cup {c.chunk_num} \in SUBSET (0 .. c.msg.size - 1)
  BY <1>1, <1>2
<1>8. AllReceived(full) <=> Had(c) \cup {c.chunk_num} = 0 .. c.msg.size - 1
  BY <1>1, <1>6, <1>7, WholeInterval DEF AllReceived
<1> QED BY <1>2, <1>3, <1>5, <1>8 DEF sp

\* What handling a chunk comes to.
Alone(c, reliable) ==
  ~IsSplit(c.msg) /\ HandUp(DataOf(c.msg), reliable) /\ UNCHANGED m_buf
Repeated(c, reliable) ==
  /\ IsSplit(c.msg) /\ c.chunk_num \in Had(c)
  /\ UNCHANGED <<m_buf, delivered, heard>>
Completes(c, reliable) ==
  /\ IsSplit(c.msg) /\ c.chunk_num \notin Had(c)
  /\ Had(c) \cup {c.chunk_num} = 0 .. c.msg.size - 1
  /\ HandUp(DataOf(c.msg), reliable)
  /\ m_buf' = [s \in DOMAIN m_buf \ {c.seqnum} |-> m_buf[s]]
Stored(c, reliable) ==
  /\ IsSplit(c.msg) /\ c.chunk_num \notin Had(c)
  /\ Had(c) \cup {c.chunk_num} # 0 .. c.msg.size - 1
  /\ m_buf' = [s \in DOMAIN m_buf \cup {c.seqnum} |->
                 IF s = c.seqnum
                 THEN [chunk_count |-> c.msg.size, reliable |-> reliable,
                       chunks |-> [n \in Had(c) \cup {c.chunk_num} |-> c.msg],
                       born |-> Entry(c, reliable).born]
                 ELSE m_buf[s]]
  /\ UNCHANGED <<delivered, heard>>

LEMMA Handling ==
  ASSUME SplitInv, NEW c, NEW reliable \in BOOLEAN, Arrives(c, reliable), Handle(c, reliable)
  PROVE  Alone(c, reliable) \/ Repeated(c, reliable) \/ Completes(c, reliable)
           \/ Stored(c, reliable)
<1>1. CASE ~IsSplit(c.msg)
  <2>1. HandUp([n \in {0} |-> c.msg], reliable) /\ UNCHANGED m_buf
    BY <1>1 DEF Handle
  <2>2. c.msg.size = 1
    BY <1>1, ArrivesIs DEF IsSplit
  <2>3. DataOf(c.msg) = [n \in {0} |-> c.msg]
    <3>1. 0 .. c.msg.size - 1 = {0}
      BY <2>2
    <3> QED BY <3>1 DEF DataOf
  <2> QED BY <1>1, <2>1, <2>3 DEF Alone
<1>2. CASE IsSplit(c.msg)
  <2> DEFINE sp == Entry(c, reliable)
             full == WithChunk(c, sp)
  <2>1. /\ IsIgnored(c, sp) <=> c.chunk_num \in Had(c)
        /\ full = [chunk_count |-> c.msg.size, reliable |-> reliable,
                   chunks |-> [n \in Had(c) \cup {c.chunk_num} |-> c.msg],
                   born |-> Entry(c, reliable).born]
        /\ AllReceived(full) <=> Had(c) \cup {c.chunk_num} = 0 .. c.msg.size - 1
    BY <1>2, HandleIs
  <2>2. IF IsIgnored(c, sp)
        THEN UNCHANGED <<m_buf, delivered, heard>>
        ELSE IF AllReceived(full)
        THEN /\ HandUp(full.chunks, reliable)
             /\ m_buf' = [s \in DOMAIN m_buf \ {c.seqnum} |-> m_buf[s]]
        ELSE /\ m_buf' = [s \in DOMAIN m_buf \cup {c.seqnum} |->
                            IF s = c.seqnum THEN full ELSE m_buf[s]]
             /\ UNCHANGED <<delivered, heard>>
    BY <1>2 DEF Handle
  <2> HIDE DEF sp, full
  <2>3. CASE IsIgnored(c, sp)
    BY <1>2, <2>1, <2>2, <2>3 DEF Repeated
  <2>4. CASE ~IsIgnored(c, sp) /\ AllReceived(full)
    <3>1. full.chunks = DataOf(c.msg)
      BY <2>1, <2>4 DEF DataOf
    <3> QED BY <1>2, <2>1, <2>2, <2>4, <3>1 DEF Completes
  <2>5. CASE ~IsIgnored(c, sp) /\ ~AllReceived(full)
    BY <1>2, <2>1, <2>2, <2>5 DEF Stored
  <2> QED BY <2>3, <2>4, <2>5
<1> QED BY <1>1, <1>2

\* The data that is handed up is one whole message.
LEMMA WholeIs ==
  ASSUME NEW msg \in Message
  PROVE  /\ DataOf(msg) \in Whole /\ IsWhole(DataOf(msg))
         /\ DataOf(msg)[0] = msg
<1>1. msg.size \in 1 .. MaxChunks /\ msg.size \in Nat /\ msg.size >= 1
  BY Constants DEF Message
<1>2. 0 \in 0 .. msg.size - 1
  BY <1>1
<1>3. DataOf(msg)[0] = msg
  BY <1>2 DEF DataOf
<1>4. DataOf(msg) \in [0 .. msg.size - 1 -> Message]
  BY DEF DataOf
<1>5. DataOf(msg) \in Whole
  BY <1>1, <1>4 DEF Whole
<1>6. msg \in {DataOf(msg)[n] : n \in DOMAIN DataOf(msg)}
  <2>1. 0 \in DOMAIN DataOf(msg)
    BY <1>2 DEF DataOf
  <2> QED BY <1>3, <2>1
<1>7. IsWhole(DataOf(msg))
  BY <1>6 DEF IsWhole, DataOf
<1> QED BY <1>3, <1>5, <1>7

\* A chunk that is handled leaves every entry an entry of one message.
LEMMA EntriesKept ==
  ASSUME SplitInv, NEW c, NEW reliable \in BOOLEAN, Arrives(c, reliable),
         Handle(c, reliable), taken' = taken, Sent' \subseteq Sent
  PROVE  EntriesAreOfOneMessage' /\ DOMAIN m_buf' \subseteq Seqnum
<1> DEFINE Kept(s) == \E a \in 0 .. taken' - 1 : \E k \in DOMAIN m_buf'[s].chunks :
                        EntryOf(s, a, m_buf[s].chunks[k])'
<1>1. \A s \in DOMAIN m_buf : s \in Seqnum
  <2>1. SUFFICES ASSUME NEW s \in DOMAIN m_buf PROVE s \in Seqnum
    OBVIOUS
  <2>2. PICK a \in 0 .. taken - 1 : s = SeqnumOf(a)
    BY DEF SplitInv, EntriesAreOfOneMessage, EntryOf
  <2>3. a \in Int
    BY DEF SplitInv, SplitTypes
  <2> QED BY <2>2, <2>3, SeqnumOfType
<1>2. ASSUME NEW s \in DOMAIN m_buf, m_buf'[s] = m_buf[s]
      PROVE  Kept(s)
  <2>1. PICK a \in 0 .. taken - 1, k \in DOMAIN m_buf[s].chunks :
          EntryOf(s, a, m_buf[s].chunks[k])
    BY DEF SplitInv, EntriesAreOfOneMessage
  <2>2. EntryOf(s, a, m_buf[s].chunks[k])'
    <3> DEFINE msg == m_buf[s].chunks[k]
    <3>1. msg' = msg
      BY <1>2
    <3>2. EntryOf(s, a, msg)
      BY <2>1
    <3> HIDE DEF msg
    <3>3. EntryOf(s, a, msg)'
      BY <1>2, <3>1, <3>2 DEF EntryOf
    <3> QED BY <3>3 DEF msg
  <2> QED BY <1>2, <2>1, <2>2
<1>3. SUFFICES (\A s \in DOMAIN m_buf' : Kept(s)) /\ DOMAIN m_buf' \subseteq Seqnum
  BY DEF EntriesAreOfOneMessage
<1>4. CASE Alone(c, reliable) \/ Repeated(c, reliable)
  <2>1. m_buf' = m_buf
    BY <1>4 DEF Alone, Repeated
  <2> HIDE DEF Kept
  <2> QED BY <1>1, <1>2, <2>1
<1>5. CASE Completes(c, reliable)
  <2>1. /\ DOMAIN m_buf' = DOMAIN m_buf \ {c.seqnum}
        /\ \A s \in DOMAIN m_buf' : m_buf'[s] = m_buf[s]
    BY <1>5 DEF Completes
  <2> HIDE DEF Kept
  <2> QED BY <1>1, <1>2, <2>1
<1>6. CASE Stored(c, reliable)
  <2> DEFINE new == [chunk_count |-> c.msg.size, reliable |-> reliable,
                     chunks |-> [n \in Had(c) \cup {c.chunk_num} |-> c.msg],
                     born |-> Entry(c, reliable).born]
  <2>1. /\ DOMAIN m_buf' = DOMAIN m_buf \cup {c.seqnum}
        /\ m_buf'[c.seqnum] = new
        /\ \A s \in DOMAIN m_buf : s # c.seqnum => m_buf'[s] = m_buf[s]
    BY <1>6 DEF Stored
  <2>2. /\ c \in Sent /\ c.msg \in Message /\ c.msg.reliable = reliable
        /\ c.seqnum \in Seqnum /\ c.seqnum = SeqnumOf(c.at)
        /\ c.msg.size \in Nat /\ c.chunk_num \in 0 .. c.msg.size - 1
        /\ c.at \in Nat /\ c.at < taken /\ taken \in Nat /\ IsSplit(c.msg)
        /\ Had(c) \subseteq 0 .. c.msg.size - 1
        /\ Entry(c, reliable).born =
              IF c.seqnum \in DOMAIN m_buf THEN m_buf[c.seqnum].born ELSE taken
    BY <1>6, ArrivesIs, HandleIs DEF Stored, SplitInv, SplitTypes
  <2>3. Kept(c.seqnum)
    <3>1. c.at \in 0 .. taken' - 1
      BY <2>2
    <3>2. c.chunk_num \in DOMAIN new.chunks /\ new.chunks[c.chunk_num] = c.msg
      OBVIOUS
    <3>3. ~reliable => /\ new.born \in c.at + 1 .. taken
                       /\ new.born - c.at <= ChunkLifetime
                       /\ taken - new.born <= SplitTimeout
      <4>1. SUFFICES ASSUME ~reliable
                     PROVE  /\ new.born \in c.at + 1 .. taken
                            /\ new.born - c.at <= ChunkLifetime
                            /\ taken - new.born <= SplitTimeout
        OBVIOUS
      <4>2. CASE c.seqnum \in DOMAIN m_buf
        <5>1. EntryOf(c.seqnum, c.at, c.msg)
          BY <2>2, <4>2, SameMessage
        <5>2. new.born = m_buf[c.seqnum].born
          BY <2>2, <4>2
        <5> QED BY <2>2, <4>1, <5>1, <5>2 DEF EntryOf
      <4>3. CASE c.seqnum \notin DOMAIN m_buf
        <5>1. new.born = taken
          BY <2>2, <4>3
        <5>2. taken - c.at <= ChunkLifetime
          BY <2>2, <4>1 DEF Arrives
        <5>3. SplitTimeout \in Nat
          BY Constants
        <5> QED BY <2>2, <5>1, <5>2, <5>3
      <4> QED BY <4>2, <4>3
    <3>4. \A d \in Sent : IsSplit(d.msg) /\ d.at = c.at => d.msg = c.msg
      BY <2>2 DEF SplitInv, TurnsAreNumbers
    <3>5. new = [chunk_count |-> c.msg.size, reliable |-> c.msg.reliable,
                 chunks |-> new.chunks, born |-> new.born]
      BY <2>2
    <3>6. /\ new.chunks = [n \in DOMAIN new.chunks |-> c.msg]
          /\ DOMAIN new.chunks \subseteq 0 .. c.msg.size - 1
      BY <2>2
    <3> HIDE DEF new
    <3>7. ASSUME NEW m, m = c.msg PROVE EntryOf(c.seqnum, c.at, m)'
      BY <2>1, <2>2, <3>3, <3>4, <3>5, <3>6, <3>7 DEF EntryOf
    <3>8. m_buf'[c.seqnum].chunks[c.chunk_num] = c.msg /\ c.chunk_num \in DOMAIN m_buf'[c.seqnum].chunks
      BY <2>1, <3>2
    <3>9. EntryOf(c.seqnum, c.at, m_buf[c.seqnum].chunks[c.chunk_num])'
      BY <3>7, <3>8
    <3> QED BY <3>1, <3>8, <3>9
  <2> HIDE DEF Kept, new
  <2>4. \A s \in DOMAIN m_buf' : Kept(s)
    BY <1>2, <2>1, <2>3
  <2> QED BY <1>1, <2>1, <2>2, <2>4
<1> QED BY <1>4, <1>5, <1>6, Handling

\* The chunks that are left to arrive keep their properties.
LEMMA FewerChunks ==
  ASSUME SplitInv, UNCHANGED <<taken, next_outgoing_split_seqnum, network>>,
         \/ stream' = stream
         \/ stream # <<>> /\ stream' = Tail(stream)
  PROVE  /\ Sent' \subseteq Sent /\ stream' \in Seq(Chunk)
         /\ TurnsAreNumbers' /\ ChunksAreRecent'
<1>1. stream \in Seq(Chunk) /\ TurnsAreNumbers /\ ChunksAreRecent
  BY DEF SplitInv, SplitTypes
<1>2. /\ stream' \in Seq(Chunk)
      /\ \A i \in DOMAIN stream' : \E j \in DOMAIN stream : stream'[i] = stream[j]
  <2>1. CASE stream' = stream
    BY <1>1, <2>1
  <2>2. CASE stream # <<>> /\ stream' = Tail(stream)
    <3>1. /\ Len(stream) \in Nat /\ Len(stream) >= 1 /\ DOMAIN stream = 1 .. Len(stream)
          /\ stream' \in Seq(Chunk) /\ Len(stream') = Len(stream) - 1
          /\ DOMAIN stream' = 1 .. Len(stream) - 1
          /\ \A i \in 1 .. Len(stream) - 1 : stream'[i] = stream[i + 1]
      BY <1>1, <2>2
    <3>2. \A i \in 1 .. Len(stream) - 1 : i + 1 \in 1 .. Len(stream)
      BY <3>1
    <3> QED BY <3>1, <3>2
  <2> QED BY <2>1, <2>2
<1>3. Sent' \subseteq Sent
  BY <1>2 DEF Sent
<1>4. TurnsAreNumbers'
  BY <1>1, <1>3 DEF TurnsAreNumbers
<1>5. ChunksAreRecent'
  BY <1>1, <1>2 DEF ChunksAreRecent
<1> QED BY <1>2, <1>3, <1>4, <1>5

LEMMA HandleUnreliableKeeps ==
  ASSUME SplitInv, NEW c \in network, HandleUnreliable(c)
  PROVE  SplitInv'
<1>1. /\ c \in OnTheirWay /\ Handle(c, FALSE)
      /\ UNCHANGED <<next_outgoing_split_seqnum, queued_commands, taken, reliables,
                     unreliables, refused, stream, network>>
  BY DEF HandleUnreliable, senderVars
<1>2. /\ SplitTypes /\ ChunksAreRecent /\ StreamRuns /\ InOrder /\ HeadHasTheEntry /\ HandedUp
  BY DEF SplitInv
<1>3. Arrives(c, FALSE)
  <2>1. c \in Sent /\ ~c.msg.reliable /\ taken - c.at <= ChunkLifetime
    BY <1>1, <1>2 DEF Sent, ChunksAreRecent, OnTheirWay
  <2>2. c.msg.reliable \in BOOLEAN
    BY <1>2 DEF SplitTypes, Chunk, Message
  <2> QED BY <2>1, <2>2 DEF Arrives
<1>4. /\ Sent' \subseteq Sent /\ stream' \in Seq(Chunk)
      /\ TurnsAreNumbers' /\ ChunksAreRecent'
  BY <1>1, FewerChunks
<1>5. EntriesAreOfOneMessage'
  BY <1>1, <1>3, <1>4, EntriesKept
<1>6. StreamRuns'
  BY <1>1, <1>2 DEF StreamRuns
<1>7. /\ \/ UNCHANGED heard
         \/ heard' = heard \cup {DataOf(c.msg)}
      /\ UNCHANGED delivered
      /\ \/ UNCHANGED m_buf
         \/ /\ DOMAIN m_buf' \ {c.seqnum} = DOMAIN m_buf \ {c.seqnum}
            /\ c.seqnum \in DOMAIN m_buf' => ~m_buf'[c.seqnum].reliable
            /\ \A s \in DOMAIN m_buf \ {c.seqnum} : m_buf'[s] = m_buf[s]
            /\ IsSplit(c.msg)
  <2>1. CASE Alone(c, FALSE)
    BY <2>1 DEF Alone, HandUp
  <2>2. CASE Repeated(c, FALSE)
    BY <2>2 DEF Repeated
  <2>3. CASE Completes(c, FALSE)
    BY <2>3 DEF Completes, HandUp
  <2>4. CASE Stored(c, FALSE)
    BY <2>4 DEF Stored
  <2> QED BY <1>1, <1>3, <2>1, <2>2, <2>3, <2>4, Handling
<1>8. c.msg \in Message /\ DataOf(c.msg) \in Whole /\ IsWhole(DataOf(c.msg))
  BY <1>3, ArrivesIs, WholeIs
<1>9. HandedUp' /\ InOrder' /\ SplitTypes'
  <2>1. HandedUp'
    BY <1>2, <1>7, <1>8 DEF HandedUp
  <2>2. InOrder'
    BY <1>1, <1>2, <1>7 DEF InOrder
  <2>3. SplitTypes'
    BY <1>1, <1>2, <1>7, <1>8 DEF SplitTypes
  <2> QED BY <2>1, <2>2, <2>3
<1>10. HeadHasTheEntry'
  <2>1. CASE UNCHANGED m_buf
    BY <1>1, <1>2, <2>1 DEF HeadHasTheEntry
  <2>2. CASE /\ DOMAIN m_buf' \ {c.seqnum} = DOMAIN m_buf \ {c.seqnum}
             /\ c.seqnum \in DOMAIN m_buf' => ~m_buf'[c.seqnum].reliable
             /\ \A s \in DOMAIN m_buf \ {c.seqnum} : m_buf'[s] = m_buf[s]
             /\ IsSplit(c.msg)
    <3>1. c.seqnum \in DOMAIN m_buf => ~m_buf[c.seqnum].reliable
      <4>1. SUFFICES ASSUME c.seqnum \in DOMAIN m_buf PROVE ~m_buf[c.seqnum].reliable
        OBVIOUS
      <4>2. EntryOf(c.seqnum, c.at, c.msg)
        BY <1>3, <2>2, <4>1, SameMessage
      <4>3. m_buf[c.seqnum].reliable = c.msg.reliable
        BY <4>2 DEF EntryOf
      <4> QED BY <1>3, <4>3 DEF Arrives
    <3>2. \A s \in DOMAIN m_buf' : m_buf'[s].reliable =>
            s \in DOMAIN m_buf /\ m_buf'[s] = m_buf[s]
      BY <2>2
    <3>3. \A s \in DOMAIN m_buf : m_buf[s].reliable =>
            s \in DOMAIN m_buf' /\ m_buf'[s] = m_buf[s]
      BY <2>2, <3>1
    <3>4. stream' = stream
      BY <1>1
    <3> QED BY <1>2, <3>2, <3>3, <3>4 DEF HeadHasTheEntry
  <2> QED BY <1>7, <2>1, <2>2
<1> QED BY <1>4, <1>5, <1>6, <1>9, <1>10 DEF SplitInv

\* The stream without its first chunk.
LEMMA TailRuns ==
  ASSUME SplitInv, stream # <<>>, stream' = Tail(stream)
  PROVE  StreamRuns'
<1> DEFINE n == Len(stream)
<1>1. /\ StreamRuns /\ stream \in Seq(Chunk) /\ n \in Nat /\ n >= 1 /\ DOMAIN stream = 1 .. n
      /\ DOMAIN stream' = 1 .. n - 1
      /\ \A i \in 1 .. n - 1 : stream'[i] = stream[i + 1]
  BY DEF SplitInv, SplitTypes
<1> HIDE DEF n
<1>2. \A i \in 1 .. n - 1 : i \in Int /\ i + 1 \in 1 .. n
  BY <1>1
<1>3. ASSUME NEW i \in 1 .. n - 1,
             NEW j \in 1 .. stream'[i].msg.size - 1 - stream'[i].chunk_num
      PROVE  i + j \in 1 .. n - 1 /\ stream'[i + j] = Later(stream'[i], j)
  <2>1. stream'[i] = stream[i + 1] /\ i + 1 \in DOMAIN stream
    BY <1>1, <1>2
  <2>2. (i + 1) + j \in 1 .. n /\ stream[(i + 1) + j] = Later(stream[i + 1], j)
    BY <1>1, <2>1 DEF StreamRuns
  <2>3. i \in Int /\ j \in Int /\ 1 <= i /\ 1 <= j
    <3>1. stream[i + 1] \in Chunk
      BY <1>1, <2>1
    <3>2. stream'[i].msg.size - 1 - stream'[i].chunk_num \in Int
      <4>1. \A d \in Chunk : d.msg.size \in Int /\ d.chunk_num \in Int
        BY Constants DEF Chunk, Message
      <4> QED BY <2>1, <3>1, <4>1
    <3> QED BY <1>2, <3>2
  <2>4. i + j \in 1 .. n - 1 /\ (i + 1) + j = (i + j) + 1
    BY <1>1, <2>2, <2>3
  <2>5. stream'[i + j] = stream[(i + j) + 1]
    BY <1>1, <2>4
  <2> QED BY <2>1, <2>2, <2>4, <2>5
<1>4. ASSUME NEW i \in 1 .. n - 1, stream'[i].chunk_num + 1 = stream'[i].msg.size, i + 1 \in 1 .. n - 1
      PROVE  stream'[i + 1].chunk_num = 0 /\ stream'[i + 1].msg.id = stream'[i].msg.id + 1
  <2>1. /\ stream'[i] = stream[i + 1] /\ i + 1 \in DOMAIN stream
        /\ stream'[i + 1] = stream[(i + 1) + 1] /\ (i + 1) + 1 \in DOMAIN stream
    BY <1>1, <1>2, <1>4
  <2> QED BY <1>1, <1>4, <2>1 DEF StreamRuns
<1> QED BY <1>1, <1>3, <1>4 DEF StreamRuns

\* Of the message at the head of the stream, what came before the head is there.
LEMMA HeadHad ==
  ASSUME SplitInv, stream # <<>>
  PROVE  /\ Arrives(stream[1], TRUE) /\ Head(stream) = stream[1] /\ 1 \in DOMAIN stream
         /\ IsSplit(stream[1].msg) => Had(stream[1]) = 0 .. stream[1].chunk_num - 1
<1> DEFINE c == stream[1]
<1>1. stream \in Seq(Chunk) /\ 1 \in DOMAIN stream /\ Head(stream) = c
  BY DEF SplitInv, SplitTypes
<1>2. Arrives(c, TRUE)
  <2>1. c \in Chunk /\ c \in Sent
    BY <1>1 DEF Sent
  <2>2. c.msg.reliable = TRUE
    BY <1>1, <2>1 DEF SplitInv, ChunksAreRecent, Chunk, Message
  <2>3. IsSplit(c.msg) => taken - c.at <= ChunkLifetime \/ taken = c.at + 1
    BY <1>1 DEF SplitInv, ChunksAreRecent
  <2> HIDE DEF c
  <2> QED BY <2>1, <2>2, <2>3 DEF Arrives
<1>3. ASSUME IsSplit(c.msg)
      PROVE  Had(c) = 0 .. c.chunk_num - 1
  <2>1. c.chunk_num \in Nat
    <3>1. c.chunk_num \in 0 .. c.msg.size - 1
      BY <1>2, ArrivesIs
    <3> QED BY <3>1
  <2>2. CASE c.chunk_num = 0
    <3>1. c.seqnum \notin DOMAIN m_buf
      <4>1. SUFFICES ASSUME c.seqnum \in DOMAIN m_buf PROVE FALSE
        OBVIOUS
      <4>2. EntryOf(c.seqnum, c.at, c.msg)
        BY <1>2, <1>3, <4>1, SameMessage
      <4>3. m_buf[c.seqnum].reliable = c.msg.reliable
        BY <4>2 DEF EntryOf
      <4>4. m_buf[c.seqnum].reliable
        BY <1>2, <4>3 DEF Arrives
      <4> QED BY <2>2, <4>1, <4>4 DEF SplitInv, HeadHasTheEntry
    <3>2. 0 .. c.chunk_num - 1 = {}
      BY <2>2
    <3> QED BY <3>1, <3>2 DEF Had
  <2>3. CASE c.chunk_num > 0
    <3>1. c.seqnum \in DOMAIN m_buf /\ m_buf[c.seqnum].reliable
      BY <2>3 DEF SplitInv, HeadHasTheEntry
    <3>2. m_buf[c.seqnum].chunks = [n \in 0 .. c.chunk_num - 1 |-> c.msg]
      BY <3>1 DEF SplitInv, HeadHasTheEntry
    <3> QED BY <3>1, <3>2 DEF Had
  <2> QED BY <2>1, <2>2, <2>3
<1> QED BY <1>1, <1>2, <1>3

LEMMA HandleReliableKeeps ==
  ASSUME SplitInv, HandleReliable
  PROVE  SplitInv'
<1> DEFINE c == stream[1]
           n == Len(stream)
<1>1. /\ stream # <<>> /\ Handle(c, TRUE) /\ stream' = Tail(stream)
      /\ UNCHANGED <<next_outgoing_split_seqnum, queued_commands, taken, reliables,
                     unreliables, refused, network>>
  BY HeadHad DEF HandleReliable, senderVars
<1>2. /\ SplitTypes /\ StreamRuns /\ InOrder /\ HeadHasTheEntry /\ HandedUp
      /\ stream \in Seq(Chunk)
      /\ Len(queued_commands) \in Nat /\ reliables \in Nat /\ Len(delivered) \in Nat
      /\ delivered \in Seq(Whole)
  BY DEF SplitInv, SplitTypes
<1>3. /\ n \in Nat /\ n >= 1 /\ DOMAIN stream = 1 .. n
      /\ DOMAIN stream' = 1 .. n - 1 /\ Len(stream') = n - 1
      /\ \A i \in 1 .. n - 1 : stream'[i] = stream[i + 1]
      /\ stream' = <<>> <=> n = 1
  <2>1. stream \in Seq(Chunk) /\ stream # <<>>
    BY <1>1, <1>2
  <2> DEFINE t == Tail(stream)
  <2>2. /\ n \in Nat /\ n >= 1 /\ DOMAIN stream = 1 .. n
        /\ t \in Seq(Chunk) /\ Len(t) = n - 1
        /\ \A i \in 1 .. n - 1 : t[i] = stream[i + 1]
    BY <2>1, TailOf
  <2> HIDE DEF t, n
  <2>3. DOMAIN t = 1 .. n - 1 /\ (t = <<>> <=> n = 1)
    BY <2>2
  <2>4. stream' = t
    BY <1>1 DEF t
  <2> QED BY <2>2, <2>3, <2>4
<1>4. /\ Arrives(c, TRUE) /\ 1 \in DOMAIN stream
      /\ IsSplit(c.msg) => Had(c) = 0 .. c.chunk_num - 1
  BY <1>1, HeadHad
<1>5. /\ Sent' \subseteq Sent /\ stream' \in Seq(Chunk)
      /\ TurnsAreNumbers' /\ ChunksAreRecent'
  BY <1>1, FewerChunks
<1>6. EntriesAreOfOneMessage'
  BY <1>1, <1>4, <1>5, EntriesKept
<1>7. StreamRuns'
  BY <1>1, TailRuns
<1>8. /\ c.msg \in Message /\ c.msg.size \in Nat /\ c.msg.size >= 1 /\ c.msg.id \in Nat
      /\ c.chunk_num \in Nat /\ c.chunk_num <= c.msg.size - 1
      /\ DataOf(c.msg) \in Whole /\ IsWhole(DataOf(c.msg)) /\ DataOf(c.msg)[0] = c.msg
  <2>1. c.msg \in Message /\ c.msg.size \in Nat /\ c.msg.size >= 1
        /\ c.chunk_num \in 0 .. c.msg.size - 1
    BY <1>4, ArrivesIs
  <2>2. c.msg.id \in Nat
    BY <2>1 DEF Message
  <2> QED BY <2>1, <2>2, WholeIs
<1>9. c.msg.id = Len(delivered) /\ stream[n].msg.id + 1 + Len(queued_commands) = reliables
  BY <1>1, <1>2 DEF InOrder
<1> HIDE DEF c, n
<1>10. CASE c.chunk_num + 1 = c.msg.size
  <2>1. /\ heard' = heard /\ delivered' = Append(delivered, DataOf(c.msg))
        /\ \A s \in DOMAIN m_buf' : s \in DOMAIN m_buf /\ m_buf'[s] = m_buf[s]
        /\ IsSplit(c.msg) => c.seqnum \notin DOMAIN m_buf'
    <3>1. CASE Alone(c, TRUE)
      BY <3>1 DEF Alone, HandUp
    <3>2. CASE Completes(c, TRUE)
      BY <3>2 DEF Completes, HandUp
    <3>3. ~Repeated(c, TRUE) /\ ~Stored(c, TRUE)
      <4>1. SUFFICES ASSUME IsSplit(c.msg)
                     PROVE  /\ c.chunk_num \notin Had(c)
                            /\ Had(c) \cup {c.chunk_num} = 0 .. c.msg.size - 1
        BY DEF Repeated, Stored
      <4> QED BY <1>4, <1>8, <1>10, <4>1
    <3> QED BY <1>1, <1>4, <3>1, <3>2, <3>3, Handling
  <2>2. stream' # <<>> => stream'[1].chunk_num = 0 /\ stream'[1].msg.id = c.msg.id + 1
                          /\ stream'[Len(stream')] = stream[n]
    <3>1. SUFFICES ASSUME stream' # <<>>
                   PROVE  /\ stream'[1].chunk_num = 0 /\ stream'[1].msg.id = c.msg.id + 1
                          /\ stream'[Len(stream')] = stream[n]
      OBVIOUS
    <3>2. n >= 2 /\ 1 \in 1 .. n - 1 /\ 1 + 1 \in 1 .. n /\ n - 1 \in 1 .. n - 1 /\ (n - 1) + 1 = n
      BY <1>3, <3>1
    <3>3. stream'[1] = stream[1 + 1] /\ stream'[n - 1] = stream[n]
      BY <1>3, <3>2
    <3>4. stream[1 + 1].chunk_num = 0 /\ stream[1 + 1].msg.id = stream[1].msg.id + 1
      BY <1>2, <1>3, <1>4, <1>10, <3>2 DEF StreamRuns, c
    <3> QED BY <1>3, <3>3, <3>4 DEF c
  <2>3. /\ delivered' \in Seq(Whole) /\ Len(delivered') = Len(delivered) + 1
        /\ DOMAIN delivered' = 1 .. Len(delivered) + 1 /\ DOMAIN delivered = 1 .. Len(delivered)
        /\ \A i \in 1 .. Len(delivered) : delivered'[i] = delivered[i]
        /\ delivered'[Len(delivered) + 1] = DataOf(c.msg)
    BY <1>2, <1>8, <2>1
  <2>4. HandedUp'
    <3>1. \A i \in 1 .. Len(delivered) + 1 :
            IsWhole(delivered'[i]) /\ delivered'[i][0].id = i - 1
      <4> SUFFICES ASSUME NEW i \in 1 .. Len(delivered) + 1
                   PROVE  IsWhole(delivered'[i]) /\ delivered'[i][0].id = i - 1
        OBVIOUS
      <4>1. CASE i \in 1 .. Len(delivered)
        BY <1>2, <2>3, <4>1 DEF HandedUp
      <4>2. CASE i = Len(delivered) + 1
        <5>1. delivered'[i] = DataOf(c.msg) /\ i - 1 = Len(delivered)
          BY <1>2, <2>3, <4>2
        <5> QED BY <1>8, <1>9, <5>1
      <4> QED BY <1>2, <4>1, <4>2
    <3> QED BY <1>2, <2>1, <2>3, <3>1 DEF HandedUp
  <2>5. InOrder'
    <3>1. IF stream' = <<>> THEN Len(delivered') + Len(queued_commands) = reliables
          ELSE /\ stream'[1].msg.id = Len(delivered')
               /\ stream'[Len(stream')].msg.id + 1 + Len(queued_commands) = reliables
      <4>1. CASE stream' = <<>>
        <5>1. stream[n] = c
          BY <1>3, <4>1 DEF c
        <5> QED BY <1>9, <2>3, <4>1, <5>1
      <4>2. CASE stream' # <<>>
        BY <1>9, <2>2, <2>3, <4>2
      <4> QED BY <4>1, <4>2
    <3> QED BY <1>1, <1>2, <3>1 DEF InOrder
  <2>6. HeadHasTheEntry'
    <3>1. \A s \in DOMAIN m_buf' : ~m_buf'[s].reliable
      <4>1. SUFFICES ASSUME NEW s \in DOMAIN m_buf', m_buf'[s].reliable PROVE FALSE
        OBVIOUS
      <4>2. s \in DOMAIN m_buf /\ m_buf[s].reliable
        BY <2>1, <4>1
      <4>3. s = c.seqnum /\ c.chunk_num > 0
        BY <1>2, <4>2 DEF HeadHasTheEntry, c
      <4>4. IsSplit(c.msg)
        BY <1>8, <4>3 DEF IsSplit
      <4> QED BY <2>1, <4>3, <4>4
    <3> QED BY <2>2, <3>1 DEF HeadHasTheEntry
  <2>7. SplitTypes'
    BY <1>1, <1>2, <1>5, <2>1, <2>3 DEF SplitTypes
  <2> QED BY <1>5, <1>6, <1>7, <2>4, <2>5, <2>6, <2>7 DEF SplitInv
<1>11. CASE c.chunk_num + 1 < c.msg.size
  <2>1. IsSplit(c.msg)
    BY <1>8, <1>11 DEF IsSplit
  <2>2. Had(c) = 0 .. c.chunk_num - 1 /\ Had(c) \cup {c.chunk_num} = 0 .. c.chunk_num
    BY <1>4, <1>8, <2>1
  <2>3. /\ UNCHANGED <<delivered, heard>>
        /\ DOMAIN m_buf' = DOMAIN m_buf \cup {c.seqnum}
        /\ \A s \in DOMAIN m_buf : s # c.seqnum => m_buf'[s] = m_buf[s]
        /\ m_buf'[c.seqnum].reliable
        /\ m_buf'[c.seqnum].chunks = [k \in 0 .. c.chunk_num |-> c.msg]
    <3>1. CASE Stored(c, TRUE)
      BY <2>2, <3>1 DEF Stored
    <3>2. ~Alone(c, TRUE)
      BY <2>1 DEF Alone
    <3>3. ~Repeated(c, TRUE)
      BY <1>8, <2>2 DEF Repeated
    <3>4. ~Completes(c, TRUE)
      <4>1. c.msg.size - 1 \in 0 .. c.msg.size - 1 /\ c.msg.size - 1 \notin 0 .. c.chunk_num
        BY <1>8, <1>11
      <4> QED BY <2>2, <4>1 DEF Completes
    <3> QED BY <1>1, <1>4, <3>1, <3>2, <3>3, <3>4, Handling
  <2>4. /\ n >= 2 /\ stream' # <<>> /\ stream'[1] = Later(c, 1)
        /\ stream'[Len(stream')] = stream[n]
    <3>1. 1 \in 1 .. c.msg.size - 1 - c.chunk_num
      BY <1>8, <1>11
    <3>2. 1 + 1 \in 1 .. n /\ stream[1 + 1] = Later(c, 1)
      BY <1>2, <1>3, <1>4, <3>1 DEF StreamRuns, c
    <3>3. n >= 2 /\ 1 \in 1 .. n - 1 /\ n - 1 \in 1 .. n - 1 /\ (n - 1) + 1 = n
      BY <1>3, <3>2
    <3>4. stream'[1] = stream[1 + 1] /\ stream'[n - 1] = stream[(n - 1) + 1]
      BY <1>3, <3>3
    <3> QED BY <1>3, <3>2, <3>3, <3>4
  <2>5. /\ stream'[1].msg = c.msg /\ stream'[1].seqnum = c.seqnum
        /\ stream'[1].chunk_num = c.chunk_num + 1
    <3>1. c \in Chunk
      BY <1>4, ArrivesIs
    <3> QED BY <2>4, <3>1 DEF Later, Chunk
  <2>6. InOrder'
    BY <1>1, <1>2, <1>9, <2>3, <2>4, <2>5 DEF InOrder
  <2>7. HandedUp'
    BY <1>2, <2>3 DEF HandedUp
  <2>8. HeadHasTheEntry'
    <3>1. \A s \in DOMAIN m_buf' : m_buf'[s].reliable => s = c.seqnum
      BY <1>2, <2>3 DEF HeadHasTheEntry, c
    <3>2. /\ (c.chunk_num + 1) - 1 = c.chunk_num /\ c.chunk_num + 1 > 0
      BY <1>8
    <3>3. m_buf'[c.seqnum].chunks = [k \in 0 .. stream'[1].chunk_num - 1 |-> stream'[1].msg]
      BY <2>3, <2>5, <3>2
    <3> QED BY <2>3, <2>4, <2>5, <3>1, <3>2, <3>3 DEF HeadHasTheEntry
  <2>9. SplitTypes'
    BY <1>1, <1>2, <1>5, <2>3 DEF SplitTypes
  <2> QED BY <1>5, <1>6, <1>7, <2>6, <2>7, <2>8, <2>9 DEF SplitInv
<1> QED BY <1>8, <1>10, <1>11

LEMMA TimeoutKeeps ==
  ASSUME SplitInv, NEW timed_out \in SUBSET DOMAIN m_buf, RemoveUnreliableTimedOuts(timed_out)
  PROVE  SplitInv'
<1>1. /\ \A s \in timed_out : ~m_buf[s].reliable
      /\ DOMAIN m_buf' = DOMAIN m_buf \ timed_out
      /\ \A s \in DOMAIN m_buf' : m_buf'[s] = m_buf[s]
      /\ UNCHANGED <<next_outgoing_split_seqnum, queued_commands, taken, reliables,
                     unreliables, refused, stream, network, delivered, heard>>
  BY DEF RemoveUnreliableTimedOuts, MayTimeOut, senderVars
<1>2. /\ SplitTypes /\ StreamRuns /\ InOrder /\ HeadHasTheEntry /\ HandedUp
  BY DEF SplitInv
<1>3. /\ Sent' \subseteq Sent /\ stream' \in Seq(Chunk)
      /\ TurnsAreNumbers' /\ ChunksAreRecent'
  BY <1>1, FewerChunks
<1>4. EntriesAreOfOneMessage'
  <2>1. SUFFICES ASSUME NEW s \in DOMAIN m_buf'
                 PROVE  \E a \in 0 .. taken' - 1 : \E k \in DOMAIN m_buf'[s].chunks :
                          EntryOf(s, a, m_buf[s].chunks[k])'
    BY DEF EntriesAreOfOneMessage
  <2>2. s \in DOMAIN m_buf /\ m_buf'[s] = m_buf[s]
    BY <1>1, <2>1
  <2>3. PICK a \in 0 .. taken - 1, k \in DOMAIN m_buf[s].chunks :
          EntryOf(s, a, m_buf[s].chunks[k])
    BY <2>2 DEF SplitInv, EntriesAreOfOneMessage
  <2>4. EntryOf(s, a, m_buf[s].chunks[k])'
    BY <1>1, <1>3, <2>2, <2>3 DEF EntryOf
  <2> QED BY <1>1, <2>2, <2>3, <2>4
<1>5. StreamRuns' /\ InOrder' /\ HandedUp'
  BY <1>1, <1>2 DEF StreamRuns, InOrder, HandedUp
<1>6. HeadHasTheEntry'
  BY <1>1, <1>2 DEF HeadHasTheEntry
<1>7. SplitTypes'
  BY <1>1, <1>2 DEF SplitTypes
<1> QED BY <1>3, <1>4, <1>5, <1>6, <1>7 DEF SplitInv

-----------------------------------------------------------------------------
(* The theorems. *)

LEMMA InitSplits == Init => SplitInv
<1> SUFFICES ASSUME Init PROVE SplitInv
  OBVIOUS
<1>1. /\ taken = 0 /\ reliables = 0 /\ unreliables = 0 /\ stream = <<>> /\ network = {}
      /\ m_buf = <<>> /\ queued_commands = <<>> /\ delivered = <<>> /\ heard = {}
      /\ next_outgoing_split_seqnum = SEQNUM_INITIAL
  BY DEF Init
<1>2. DOMAIN <<>> = {} /\ Len(<<>>) = 0
  OBVIOUS
<1>3. Sent = {}
  BY <1>1, <1>2 DEF Sent
<1>4. SplitTypes
  BY <1>1 DEF SplitTypes
<1>5. TurnsAreNumbers
  BY <1>1, <1>3, SeqnumOfInitial DEF TurnsAreNumbers
<1>6. ChunksAreRecent /\ EntriesAreOfOneMessage
  BY <1>1, <1>2 DEF ChunksAreRecent, EntriesAreOfOneMessage
<1>7. StreamRuns /\ HeadHasTheEntry
  BY <1>1, <1>2 DEF StreamRuns, HeadHasTheEntry
<1>8. InOrder /\ HandedUp
  BY <1>1, <1>2 DEF InOrder, HandedUp
<1> QED BY <1>4, <1>5, <1>6, <1>7, <1>8 DEF SplitInv

LEMMA StepSplits == SplitInv /\ [Next]_vars => SplitInv'
<1> SUFFICES ASSUME SplitInv, [Next]_vars PROVE SplitInv'
  OBVIOUS
<1>1. ASSUME NEW n \in 1 .. MaxChunks, Send(n) PROVE SplitInv'
  BY <1>1, SendKeeps
<1>2. ASSUME NEW n \in 1 .. MaxChunks, PutReliableSendCommand(n) PROVE SplitInv'
  BY <1>2, PutKeeps
<1>3. CASE RunCommandQueues
  BY <1>3, RunKeeps
<1>4. CASE HandleReliable
  BY <1>4, HandleReliableKeeps
<1>5. ASSUME NEW c \in network, HandleUnreliable(c) PROVE SplitInv'
  BY <1>5, HandleUnreliableKeeps
<1>6. ASSUME NEW S \in SUBSET DOMAIN m_buf, RemoveUnreliableTimedOuts(S) PROVE SplitInv'
  BY <1>6, TimeoutKeeps
<1>7. CASE UNCHANGED vars
  <2>1. UNCHANGED <<next_outgoing_split_seqnum, queued_commands, taken, reliables,
                    unreliables, refused, stream, network, m_buf, delivered, heard>>
    BY <1>7 DEF vars, senderVars
  <2>2. /\ SplitTypes /\ StreamRuns /\ InOrder /\ HeadHasTheEntry /\ HandedUp
    BY DEF SplitInv
  <2>3. /\ Sent' \subseteq Sent /\ stream' \in Seq(Chunk)
        /\ TurnsAreNumbers' /\ ChunksAreRecent'
    BY <2>1, FewerChunks
  <2>4. EntriesAreOfOneMessage'
    <3>1. SUFFICES ASSUME NEW s \in DOMAIN m_buf
                   PROVE  \E a \in 0 .. taken' - 1 : \E k \in DOMAIN m_buf'[s].chunks :
                            EntryOf(s, a, m_buf[s].chunks[k])'
      BY <2>1 DEF EntriesAreOfOneMessage
    <3>2. PICK a \in 0 .. taken - 1, k \in DOMAIN m_buf[s].chunks :
            EntryOf(s, a, m_buf[s].chunks[k])
      BY DEF SplitInv, EntriesAreOfOneMessage
    <3>3. EntryOf(s, a, m_buf[s].chunks[k])'
      BY <2>1, <2>3, <3>2 DEF EntryOf
    <3> QED BY <2>1, <3>2, <3>3
  <2>5. StreamRuns' /\ InOrder' /\ HandedUp' /\ HeadHasTheEntry' /\ SplitTypes'
    BY <2>1, <2>2 DEF StreamRuns, InOrder, HandedUp, HeadHasTheEntry, SplitTypes
  <2> QED BY <2>3, <2>4, <2>5 DEF SplitInv
<1> QED BY <1>1, <1>2, <1>3, <1>4, <1>5, <1>6, <1>7 DEF Next

LEMMA SplitInvIsType == SplitInv => TypeOK
<1> SUFFICES ASSUME SplitInv PROVE TypeOK
  OBVIOUS
<1>1. next_outgoing_split_seqnum \in Seqnum
  BY SeqnumOfType DEF SplitInv, SplitTypes, TurnsAreNumbers
<1>2. ASSUME NEW s \in DOMAIN m_buf
      PROVE  /\ s \in Seqnum
             /\ m_buf[s].chunk_count \in 2 .. MaxChunks
             /\ DOMAIN m_buf[s].chunks \subseteq 0 .. m_buf[s].chunk_count - 1
             /\ m_buf[s].chunks # <<>>
  <2>1. PICK a \in 0 .. taken - 1, k \in DOMAIN m_buf[s].chunks :
          EntryOf(s, a, m_buf[s].chunks[k])
    BY DEF SplitInv, EntriesAreOfOneMessage
  <2> DEFINE msg == m_buf[s].chunks[k]
  <2>2. /\ s = SeqnumOf(a) /\ msg \in Message /\ IsSplit(msg)
        /\ m_buf[s] = [chunk_count |-> msg.size, reliable |-> msg.reliable,
               chunks |-> m_buf[s].chunks, born |-> m_buf[s].born]
        /\ DOMAIN m_buf[s].chunks \subseteq 0 .. msg.size - 1
    BY <2>1 DEF EntryOf
  <2>3. a \in Int
    BY DEF SplitInv, SplitTypes
  <2>4. s \in Seqnum
    BY <2>2, <2>3, SeqnumOfType
  <2>5. DOMAIN m_buf[s].chunks # {} /\ DOMAIN <<>> = {}
    BY <2>1
  <2> HIDE DEF msg
  <2>6. msg.size \in 2 .. MaxChunks
    BY <2>2, Constants DEF Message, IsSplit
  <2>7. m_buf[s].chunk_count = msg.size
    BY <2>2
  <2> QED BY <2>2, <2>4, <2>5, <2>6, <2>7
<1> QED BY <1>1, <1>2 DEF TypeOK, SplitInv, SplitTypes

LEMMA SplitInvIsWhole == SplitInv => WholeMessages
BY DEF SplitInv, HandedUp, WholeMessages

LEMMA SplitInvIsNotStuck == SplitInv => NothingStuck
<1> SUFFICES ASSUME SplitInv PROVE NothingStuck
  OBVIOUS
<1> DEFINE c == stream[1]
<1>1. ASSUME NEW s \in DOMAIN m_buf, m_buf[s].reliable,
             NEW n \in (0 .. m_buf[s].chunk_count - 1) \ DOMAIN m_buf[s].chunks
      PROVE  \E i \in DOMAIN stream :
               /\ stream[i].seqnum = s /\ stream[i].chunk_num = n
               /\ \A k \in DOMAIN m_buf[s].chunks : m_buf[s].chunks[k] = stream[i].msg
  <2>1. /\ stream # <<>> /\ s = c.seqnum /\ c.chunk_num > 0
        /\ m_buf[s].chunks = [k \in 0 .. c.chunk_num - 1 |-> c.msg]
    BY <1>1 DEF SplitInv, HeadHasTheEntry
  <2>2. 1 \in DOMAIN stream /\ Arrives(c, TRUE)
    BY <2>1, HeadHad
  <2>3. c \in Chunk /\ c.chunk_num \in 0 .. c.msg.size - 1 /\ c.msg.size \in Nat
    BY <2>2, ArrivesIs
  <2>4. m_buf[s].chunk_count = c.msg.size
    <3>1. PICK a \in 0 .. taken - 1, k \in DOMAIN m_buf[s].chunks :
            EntryOf(s, a, m_buf[s].chunks[k])
      BY DEF SplitInv, EntriesAreOfOneMessage
    <3>2. m_buf[s].chunks[k] = c.msg
      BY <2>1
    <3>3. EntryOf(s, a, c.msg)
      BY <3>1, <3>2
    <3> QED BY <3>3 DEF EntryOf
  <2> HIDE DEF c
  <2>5. n \in 0 .. c.msg.size - 1 /\ n \notin 0 .. c.chunk_num - 1
    BY <1>1, <2>1, <2>4
  <2>6. CASE n = c.chunk_num
    <3>1. stream[1].seqnum = s /\ stream[1].chunk_num = n
          /\ \A k \in DOMAIN m_buf[s].chunks : m_buf[s].chunks[k] = stream[1].msg
      BY <2>1, <2>6 DEF c
    <3> QED BY <2>2, <3>1
  <2>7. CASE n # c.chunk_num
    <3> DEFINE j == n - c.chunk_num
    <3>1. j \in 1 .. c.msg.size - 1 - c.chunk_num /\ c.chunk_num + j = n
      BY <2>3, <2>5, <2>7
    <3> HIDE DEF j
    <3>2. 1 + j \in DOMAIN stream /\ stream[1 + j] = Later(c, j)
      BY <2>2, <3>1 DEF SplitInv, StreamRuns, c
    <3>3. Later(c, j).seqnum = s /\ Later(c, j).chunk_num = n /\ Later(c, j).msg = c.msg
      BY <2>1, <2>3, <3>1 DEF Later, Chunk
    <3>4. \A k \in DOMAIN m_buf[s].chunks : m_buf[s].chunks[k] = stream[1 + j].msg
      BY <2>1, <3>2, <3>3
    <3> QED BY <3>2, <3>3, <3>4
  <2> QED BY <2>6, <2>7
<1>2. stream # <<>> /\ c.chunk_num > 0 =>
       c.seqnum \in DOMAIN m_buf /\ m_buf[c.seqnum].reliable
  BY DEF SplitInv, HeadHasTheEntry
<1> QED BY <1>1, <1>2 DEF NothingStuck

\* The variables keep their types: the u16 counter of split numbers wraps, an entry of the
\* split buffer always has a chunk and is never complete (it is handed up at once).
THEOREM SplitTypeCorrect == Spec => []TypeOK
BY InitSplits, StepSplits, SplitInvIsType, PTL DEF Spec

\* IncomingSplitBuffer::insert never puts a message together from chunks of two, although
\* the split numbers come round, are shared by both kinds of messages, and unreliable
\* chunks are repeated and late: for every number space, message length and timeout.
THEOREM MessagesAreWhole == Spec => []WholeMessages
BY InitSplits, StepSplits, SplitInvIsWhole, PTL DEF Spec

\* An incomplete reliable message, which removeUnreliableTimedOuts never discards, waits
\* only for chunks that are still in the stream and that its entry will take.
THEOREM NoMessageIsStuck == Spec => []NothingStuck
BY InitSplits, StepSplits, SplitInvIsNotStuck, PTL DEF Spec

-----------------------------------------------------------------------------
(* The reliable stream of messages. *)

Ids == [i \in DOMAIN delivered |-> delivered[i][0].id]

\* What is in the stream was handed over.
StreamWasAccepted == \A i \in DOMAIN stream : stream[i].msg.id < reliables

IdsInOrder ==
  /\ Ids \in Seq(Nat) /\ Len(Ids) = Len(delivered)
  /\ DOMAIN Ids = 1 .. Len(delivered) /\ Len(delivered) \in Nat
  /\ \A i \in 1 .. Len(delivered) : Ids[i] = i - 1

LEMMA IdsAre == SplitInv => IdsInOrder
<1> SUFFICES ASSUME SplitInv PROVE IdsInOrder
  OBVIOUS
<1>1. Len(delivered) \in Nat /\ DOMAIN delivered = 1 .. Len(delivered)
  BY DEF SplitInv, SplitTypes
<1>2. \A i \in 1 .. Len(delivered) : delivered[i][0].id = i - 1
  BY <1>1 DEF SplitInv, HandedUp
<1>3. Ids = [i \in 1 .. Len(delivered) |-> i - 1]
  BY <1>1, <1>2 DEF Ids
<1> HIDE DEF Ids
<1>4. \A i \in 1 .. Len(delivered) : i - 1 \in Nat
  BY <1>1
<1> QED BY <1>1, <1>3, <1>4 DEF IdsInOrder

LEMMA AcceptedStep ==
  SplitInv /\ StreamWasAccepted /\ [Next]_vars => StreamWasAccepted'
<1> SUFFICES ASSUME SplitInv, StreamWasAccepted, [Next]_vars PROVE StreamWasAccepted'
  OBVIOUS
<1>1. /\ SplitTypes /\ TurnsAreNumbers /\ InOrder /\ stream \in Seq(Chunk)
      /\ reliables \in Nat /\ queued_commands \in Seq(Message)
      /\ DOMAIN stream = 1 .. Len(stream) /\ Len(stream) \in Nat
      /\ \A i \in DOMAIN stream : stream[i].msg.id \in Nat
  <2>1. SplitTypes /\ TurnsAreNumbers /\ InOrder
    BY DEF SplitInv
  <2>2. stream \in Seq(Chunk) /\ reliables \in Nat /\ queued_commands \in Seq(Message)
    BY <2>1 DEF SplitTypes
  <2>3. \A i \in DOMAIN stream : stream[i] \in Chunk
    BY <2>2
  <2>4. \A d \in Chunk : d.msg.id \in Nat
    BY DEF Chunk, Message
  <2> QED BY <2>1, <2>2, <2>3, <2>4
<1>2. ASSUME NEW msg \in Message, msg.id < reliables', Granted(msg), reliables' \in Nat,
             reliables' >= reliables
      PROVE  StreamWasAccepted'
  <2> DEFINE ch == Chunks(msg)
             n == Len(stream)
  <2>1. /\ ch \in Seq(Chunk) /\ Len(ch) = msg.size /\ msg.size \in Nat
        /\ \A i \in 1 .. msg.size : ch[i].msg = msg
    BY <1>1, ChunksOf
  <2>2. stream' = stream \o ch
    BY <1>2 DEF Granted
  <2> HIDE DEF ch
  <2>3. /\ stream \o ch \in Seq(Chunk) /\ Len(stream \o ch) = n + Len(ch)
        /\ \A i \in 1 .. n : (stream \o ch)[i] = stream[i]
        /\ \A i \in 1 .. Len(ch) : (stream \o ch)[n + i] = ch[i]
    <3>1. stream \in Seq(Chunk) /\ ch \in Seq(Chunk)
      BY <1>1, <2>1
    <3> QED BY ONLY <3>1, Concat DEF n
  <2>4. DOMAIN stream' = 1 .. n + msg.size
    <3>1. DOMAIN (stream \o ch) = 1 .. Len(stream \o ch)
      BY <2>3
    <3> QED BY <2>1, <2>2, <2>3, <3>1
  <2>5. ASSUME NEW i \in 1 .. n + msg.size PROVE stream'[i].msg.id < reliables'
    <3>1. CASE i \in 1 .. n
      <4>1. stream'[i] = stream[i] /\ i \in DOMAIN stream
        BY <1>1, <2>2, <2>3, <3>1
      <4> QED BY <1>1, <1>2, <4>1 DEF StreamWasAccepted
    <3>2. CASE i \notin 1 .. n
      <4> HIDE DEF n
      <4>1. n \in Nat
        BY <1>1 DEF n
      <4>2. i - n \in 1 .. msg.size /\ n + (i - n) = i
        BY <2>1, <2>5, <3>2, <4>1
      <4>3. stream'[n + (i - n)] = ch[i - n]
        BY <2>1, <2>2, <2>3, <4>2
      <4> QED BY <1>2, <2>1, <4>2, <4>3
    <3> QED BY <3>1, <3>2
  <2> QED BY <2>4, <2>5 DEF StreamWasAccepted
<1>3. ASSUME stream' = stream, reliables' \in Nat, reliables' >= reliables
      PROVE  StreamWasAccepted'
  BY <1>1, <1>3 DEF StreamWasAccepted
<1>4. ASSUME NEW n \in 1 .. MaxChunks, PutReliableSendCommand(n)
      PROVE  StreamWasAccepted'
  <2> DEFINE msg == [reliable |-> TRUE, id |-> reliables, size |-> n]
  <2>1. msg \in Message /\ msg.id = reliables
    BY <1>1, Constants DEF Message
  <2>2. reliables' = reliables + 1 /\ (Granted(msg) \/ stream' = stream)
    BY <1>4 DEF PutReliableSendCommand, Refused
  <2> HIDE DEF msg
  <2> QED BY <1>1, <1>2, <1>3, <2>1, <2>2
<1>5. CASE RunCommandQueues
  <2>1. /\ queued_commands # <<>> /\ reliables' = reliables
        /\ Granted(Head(queued_commands)) \/ stream' = stream
    BY <1>5 DEF RunCommandQueues, Refused
  <2>2. Head(queued_commands) \in Message /\ Head(queued_commands) = queued_commands[1]
        /\ Len(queued_commands) \in Nat /\ Len(queued_commands) >= 1
        /\ 1 \in DOMAIN queued_commands
    BY <1>1, <2>1
  <2>3. Head(queued_commands).id \in Nat
    BY <2>2 DEF Message
  <2>4. Head(queued_commands).id + Len(queued_commands) = reliables + 1 - 1
    BY <1>1, <2>2 DEF InOrder
  <2>5. Head(queued_commands).id < reliables
    BY <1>1, <2>2, <2>3, <2>4
  <2> QED BY <1>1, <1>2, <1>3, <2>1, <2>2, <2>5
<1>6. CASE HandleReliable
  <2>1. stream # <<>> /\ stream' = Tail(stream) /\ reliables' = reliables
    BY <1>6 DEF HandleReliable, senderVars
  <2>2. /\ Len(stream) >= 1 /\ DOMAIN stream' = 1 .. Len(stream) - 1
        /\ \A i \in 1 .. Len(stream) - 1 : stream'[i] = stream[i + 1]
    BY <1>1, <2>1
  <2>3. \A i \in 1 .. Len(stream) - 1 : i + 1 \in 1 .. Len(stream)
    BY <1>1
  <2> QED BY <1>1, <2>1, <2>2, <2>3 DEF StreamWasAccepted
<1>7. ASSUME NEW n \in 1 .. MaxChunks, Send(n) PROVE StreamWasAccepted'
  BY <1>1, <1>3, <1>7 DEF Send
<1>8. ASSUME NEW c \in network, HandleUnreliable(c) PROVE StreamWasAccepted'
  BY <1>1, <1>3, <1>8 DEF HandleUnreliable, senderVars
<1>9. ASSUME NEW S \in SUBSET DOMAIN m_buf, RemoveUnreliableTimedOuts(S) PROVE StreamWasAccepted'
  BY <1>1, <1>3, <1>9 DEF RemoveUnreliableTimedOuts, senderVars
<1>10. CASE UNCHANGED vars
  BY <1>1, <1>3, <1>10 DEF vars, senderVars
<1> QED BY <1>4, <1>5, <1>6, <1>7, <1>8, <1>9, <1>10 DEF Next

\* Every step is a step of ReliableStream, or leaves its variables alone.
LEMMA MessageStep ==
  SplitInv /\ StreamWasAccepted /\ [Next]_vars => [Messages!Next]_(Messages!vars)
<1> SUFFICES ASSUME SplitInv, StreamWasAccepted, [Next]_vars
             PROVE  [Messages!Next]_(Messages!vars)
  OBVIOUS
<1>1. ASSUME UNCHANGED <<reliables, delivered>>
      PROVE  UNCHANGED Messages!vars
  BY <1>1 DEF Messages!vars
<1>2. ASSUME NEW n \in 1 .. MaxChunks, PutReliableSendCommand(n)
      PROVE  Messages!Accept
  <2>1. reliables' = reliables + 1 /\ reliables < MaxReliable /\ delivered' = delivered
    BY <1>2 DEF PutReliableSendCommand
  <2>2. reliables \in Nat /\ MaxReliable \in Nat
    BY SplitAssumption DEF SplitInv, SplitTypes
  <2>3. 1 \in 1 .. 1 /\ reliables + 1 <= MaxReliable
    BY <2>1, <2>2
  <2> QED BY <2>1, <2>3 DEF Messages!Accept
<1>3. ASSUME HandleReliable
      PROVE  Messages!Deliver \/ UNCHANGED <<reliables, delivered>>
  <2> DEFINE c == stream[1]
  <2>1. stream # <<>> /\ Handle(Head(stream), TRUE) /\ reliables' = reliables
    BY <1>3 DEF HandleReliable, senderVars
  <2>2. Arrives(c, TRUE) /\ Head(stream) = c /\ 1 \in DOMAIN stream
    BY <2>1, HeadHad
  <2>3. c.msg.id = Len(delivered) /\ c.msg.id < reliables
    BY <2>1, <2>2 DEF SplitInv, InOrder, StreamWasAccepted
  <2> HIDE DEF c
  <2>4. Handle(c, TRUE)
    BY <2>1, <2>2
  <2>5. UNCHANGED delivered \/ delivered' = Append(delivered, DataOf(c.msg))
    BY <2>2, <2>4, Handling DEF Alone, Repeated, Completes, Stored, HandUp
  <2>6. ASSUME delivered' = Append(delivered, DataOf(c.msg))
        PROVE  Messages!Deliver
    <3>1. /\ Ids \in Seq(Nat) /\ Len(Ids) = Len(delivered)
          /\ DOMAIN Ids = 1 .. Len(delivered) /\ Len(delivered) \in Nat
          /\ \A i \in 1 .. Len(delivered) : Ids[i] = i - 1
      BY IdsAre DEF IdsInOrder
    <3>2. /\ Ids' \in Seq(Nat) /\ Len(Ids') = Len(delivered')
          /\ DOMAIN Ids' = 1 .. Len(delivered')
          /\ \A i \in 1 .. Len(delivered') : Ids'[i] = i - 1
      <4>1. SplitInv'
        BY StepSplits
      <4>2. IdsInOrder'
        BY <4>1, IdsAre, PTL
      <4> QED BY <4>2 DEF IdsInOrder
    <3>3. Len(delivered') = Len(delivered) + 1
      <4>1. delivered \in Seq(Whole) /\ DataOf(c.msg) \in Whole
        BY <2>2, ArrivesIs, WholeIs DEF SplitInv, SplitTypes
      <4> QED BY <2>6, <4>1
    <3>4. Ids' = Append(Ids, Len(Ids))
      BY <3>1, <3>2, <3>3
    <3>5. Len(Ids) < reliables
      BY <2>3, <3>1
    <3> QED BY <2>1, <3>4, <3>5 DEF Messages!Deliver, Ids
  <2> QED BY <2>1, <2>5, <2>6
<1>4. ASSUME NEW n \in 1 .. MaxChunks, Send(n) PROVE UNCHANGED <<reliables, delivered>>
  BY <1>4 DEF Send
<1>5. CASE RunCommandQueues
  BY <1>1, <1>5 DEF RunCommandQueues
<1>6. ASSUME NEW d \in network, HandleUnreliable(d) PROVE UNCHANGED <<reliables, delivered>>
  <2>1. Handle(d, FALSE) /\ UNCHANGED reliables
    BY <1>6 DEF HandleUnreliable, senderVars
  <2> QED BY <2>1 DEF Handle, HandUp
<1>7. ASSUME NEW S \in SUBSET DOMAIN m_buf, RemoveUnreliableTimedOuts(S)
      PROVE  UNCHANGED <<reliables, delivered>>
  BY <1>7 DEF RemoveUnreliableTimedOuts, senderVars
<1>8. CASE UNCHANGED vars
  BY <1>1, <1>8 DEF vars, senderVars
<1> QED BY <1>1, <1>2, <1>3, <1>4, <1>5, <1>6, <1>7, <1>8 DEF Next, Messages!Next

\* Split, numbered, refused, tried again and put together, the reliable messages are the
\* stream of ReliableStream: each comes out once and in the order it was handed over.
THEOREM MessagesAreAStream == Spec => MessageSpec
<1>1. Init => Messages!Init
  <2>1. SUFFICES ASSUME Init PROVE Messages!Init
    OBVIOUS
  <2>2. reliables = 0 /\ delivered = <<>> /\ DOMAIN <<>> = {}
    BY <2>1 DEF Init
  <2>3. [i \in DOMAIN delivered |-> delivered[i][0].id] = <<>>
    BY <2>2
  <2> QED BY <2>2, <2>3 DEF Messages!Init
<1>2. Init => StreamWasAccepted
  <2>1. SUFFICES ASSUME Init PROVE StreamWasAccepted
    OBVIOUS
  <2>2. stream = <<>> /\ DOMAIN <<>> = {}
    BY <2>1 DEF Init
  <2> QED BY <2>2 DEF StreamWasAccepted
<1>3. Spec => [](SplitInv /\ StreamWasAccepted)
  BY <1>2, InitSplits, StepSplits, AcceptedStep, PTL DEF Spec
<1>4. Spec => Messages!Init /\ [][Messages!Next]_(Messages!vars)
  BY <1>1, <1>3, MessageStep, PTL DEF Spec
<1> QED BY <1>4 DEF MessageSpec, Messages!Spec
=============================================================================
