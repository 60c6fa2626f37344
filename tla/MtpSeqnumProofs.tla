-------------------------- MODULE MtpSeqnumProofs --------------------------
(***************************************************************************)
(* What the sequence number arithmetic computes, for every size of the     *)
(* number space.                                                           *)
(***************************************************************************)
EXTENDS MtpSeqnum, TLAPS

\* Two divisions of one number have the same remainder.
LEMMA RemainderUnique ==
  ASSUME NEW m \in Int, NEW p \in Int, NEW q \in Int, NEW r \in Int, NEW s \in Int,
         0 <= r, r < m, 0 <= s, s < m, m * p + s = m * q + r
  PROVE  r = s
<1>1. m * (p - q) = r - s
  OBVIOUS
<1>2. ~(p - q >= 1)
  <2>1. SUFFICES ASSUME p - q >= 1 PROVE FALSE
    OBVIOUS
  <2>2. m * (p - q) >= m * 1
    BY <2>1
  <2> QED BY <1>1, <2>2
<1>3. ~(p - q <= -1)
  <2>1. SUFFICES ASSUME p - q <= -1 PROVE FALSE
    OBVIOUS
  <2>2. m * (p - q) <= m * (-1)
    BY <2>1
  <2> QED BY <1>1, <2>2
<1>4. p - q = 0
  BY <1>2, <1>3
<1> QED BY <1>1, <1>4

\* Division with remainder.
LEMMA DivMod ==
  ASSUME NEW x \in Int
  PROVE  /\ x % Modulus \in Seqnum
         /\ \E q \in Int : x = Modulus * q + (x % Modulus)
<1>1. Modulus \in Int /\ Modulus > 0 /\ SEQNUM_MAX = Modulus - 1
  BY SeqnumAssumption DEF Modulus
<1>2. /\ x \div Modulus \in Int
      /\ x % Modulus \in 0 .. Modulus - 1
      /\ x = Modulus * (x \div Modulus) + (x % Modulus)
  BY <1>1
<1>3. \E q \in Int : x = Modulus * q + (x % Modulus)
  BY <1>2, Zenon
<1>4. x % Modulus \in Seqnum
  BY <1>1, <1>2 DEF Seqnum
<1> QED BY <1>3, <1>4

\* The remainder is the only one of its kind.
LEMMA ModUnique ==
  ASSUME NEW x \in Int, NEW q \in Int, NEW r \in Seqnum, x = Modulus * q + r
  PROVE  x % Modulus = r
<1> DEFINE s == x % Modulus
<1>1. Modulus \in Int /\ Modulus = SEQNUM_MAX + 1 /\ SEQNUM_MAX \in Int
  BY SeqnumAssumption DEF Modulus
<1>2. PICK p \in Int : x = Modulus * p + s
  BY DivMod
<1>3. s \in Seqnum
  BY DivMod
<1> HIDE DEF s
<1>4. /\ s \in Int /\ 0 <= s /\ s < Modulus
      /\ r \in Int /\ 0 <= r /\ r < Modulus
  BY <1>1, <1>3 DEF Seqnum
<1>5. Modulus * p + s = Modulus * q + r
  BY <1>2
<1>6. r = s
  BY <1>1, <1>4, <1>5, RemainderUnique
<1> QED BY <1>6 DEF s

\* Adding before or after taking the remainder is the same.
LEMMA ModAdd ==
  ASSUME NEW x \in Int, NEW k \in Int
  PROVE  ((x % Modulus) + k) % Modulus = (x + k) % Modulus
<1> DEFINE r == x % Modulus
           s == (x + k) % Modulus
<1>1. Modulus \in Int
  BY SeqnumAssumption DEF Modulus
<1>2. PICK q \in Int : x = Modulus * q + r
  BY DivMod
<1>3. PICK p \in Int : x + k = Modulus * p + s
  BY DivMod
<1>4. r \in Seqnum /\ s \in Seqnum
  BY DivMod
<1> HIDE DEF r, s
<1>5. r \in Int /\ s \in Int
  BY <1>4, SeqnumAssumption DEF Seqnum
<1>6. p - q \in Int /\ r + k \in Int
  BY <1>5
<1>7. r + k = Modulus * (p - q) + s
  BY <1>1, <1>2, <1>3, <1>5
<1>8. (r + k) % Modulus = s
  BY <1>4, <1>6, <1>7, ModUnique
<1> QED BY <1>8 DEF r, s

LEMMA SeqnumOfType ==
  ASSUME NEW n \in Int
  PROVE  SeqnumOf(n) \in Seqnum
BY DivMod, SeqnumAssumption DEF SeqnumOf

LEMMA SeqnumOfInitial == SeqnumOf(0) = SEQNUM_INITIAL
<1>1. SEQNUM_INITIAL \in Seqnum /\ SEQNUM_INITIAL \in Int /\ Modulus \in Int
  BY SeqnumAssumption DEF Seqnum, Modulus
<1>2. SEQNUM_INITIAL + 0 = Modulus * 0 + SEQNUM_INITIAL
  BY <1>1
<1>3. SEQNUM_INITIAL + 0 \in Int /\ 0 \in Int
  BY <1>1
<1>4. (SEQNUM_INITIAL + 0) % Modulus = SEQNUM_INITIAL
  BY <1>1, <1>2, <1>3, ModUnique
<1> QED BY <1>4 DEF SeqnumOf

\* Counting on from a packet's number counts on from its position.
LEMMA SeqnumOfAdd ==
  ASSUME NEW n \in Int, NEW k \in Int
  PROVE  (SeqnumOf(n) + k) % Modulus = SeqnumOf(n + k)
<1>1. SEQNUM_INITIAL \in Int
  BY SeqnumAssumption
<1>2. (((SEQNUM_INITIAL + n) % Modulus) + k) % Modulus = (SEQNUM_INITIAL + n + k) % Modulus
  BY <1>1, ModAdd
<1>3. SEQNUM_INITIAL + n + k = SEQNUM_INITIAL + (n + k)
  BY <1>1
<1> QED BY <1>2, <1>3 DEF SeqnumOf

\* The numbers of two positions tell how far they are apart, as long as that is
\* less than the number space.
LEMMA AheadOf ==
  ASSUME NEW a \in Int, NEW b \in Int
  PROVE  /\ a <= b /\ b - a < Modulus => Ahead(SeqnumOf(a), SeqnumOf(b)) = b - a
         /\ b < a /\ a - b < Modulus
              => Ahead(SeqnumOf(a), SeqnumOf(b)) = (b - a) + Modulus
<1> DEFINE m == SeqnumOf(a)
           n == SeqnumOf(b)
<1>1. Modulus \in Int /\ Modulus = SEQNUM_MAX + 1 /\ SEQNUM_MAX \in Int
  BY SeqnumAssumption DEF Modulus
<1>2. PICK q \in Int : SEQNUM_INITIAL + a = Modulus * q + m
  BY DivMod, SeqnumAssumption DEF SeqnumOf
<1>3. PICK p \in Int : SEQNUM_INITIAL + b = Modulus * p + n
  BY DivMod, SeqnumAssumption DEF SeqnumOf
<1>4. m \in Int /\ n \in Int /\ SEQNUM_INITIAL \in Int
  BY SeqnumOfType, SeqnumAssumption DEF Seqnum
<1> HIDE DEF m, n
<1>5. n - m = Modulus * (q - p) + (b - a)
  BY <1>1, <1>2, <1>3, <1>4
<1>6. n - m = Modulus * (q - p - 1) + ((b - a) + Modulus)
  BY <1>1, <1>4, <1>5
<1>7. ASSUME a <= b, b - a < Modulus
      PROVE  Ahead(m, n) = b - a
  <2>1. b - a \in Seqnum
    BY <1>1, <1>7 DEF Seqnum
  <2>2. n - m \in Int /\ q - p \in Int
    BY <1>4
  <2> QED BY <1>5, <2>1, <2>2, ModUnique DEF Ahead
<1>8. ASSUME b < a, a - b < Modulus
      PROVE  Ahead(m, n) = (b - a) + Modulus
  <2>1. (b - a) + Modulus \in Seqnum
    BY <1>1, <1>8 DEF Seqnum
  <2>2. n - m \in Int /\ q - p - 1 \in Int
    BY <1>4
  <2>3. (n - m) % Modulus = (b - a) + Modulus
    BY <1>6, <2>1, <2>2, ModUnique
  <2> QED BY <2>3 DEF Ahead
<1> QED BY <1>1, <1>7, <1>8 DEF m, n

\* Two positions less than the number space apart have different numbers.
LEMMA SeqnumOfInjective ==
  ASSUME NEW a \in Int, NEW b \in Int, SeqnumOf(a) = SeqnumOf(b),
         a - b < Modulus, b - a < Modulus
  PROVE  a = b
<1>1. Modulus \in Int /\ Modulus > 0
  BY SeqnumAssumption DEF Modulus
<1>2. Ahead(SeqnumOf(a), SeqnumOf(b)) = Ahead(SeqnumOf(a), SeqnumOf(a))
  BY DEF Ahead
<1>3. Ahead(SeqnumOf(a), SeqnumOf(a)) = 0
  <2>1. a <= a /\ a - a = 0 /\ a - a < Modulus
    BY <1>1
  <2> QED BY <2>1, AheadOf
<1>4. CASE a <= b
  BY <1>1, <1>2, <1>3, <1>4, AheadOf
<1>5. CASE b < a
  <2>1. Ahead(SeqnumOf(a), SeqnumOf(b)) = (b - a) + Modulus
    BY <1>5, AheadOf
  <2> QED BY <1>1, <1>2, <1>3, <2>1
<1> QED BY <1>4, <1>5

\* seqnum_in_window holds of exactly the window_size numbers that follow next,
\* with and without wrapping.
THEOREM InWindowIsAhead ==
  ASSUME NEW s \in Seqnum, NEW next \in Seqnum, NEW w \in 1 .. SEQNUM_MAX
  PROVE  seqnum_in_window(s, next, w) <=> Ahead(next, s) < w
<1>1. /\ Modulus \in Int /\ Modulus = SEQNUM_MAX + 1 /\ SEQNUM_MAX \in Int
      /\ s \in Int /\ next \in Int /\ w \in Int
      /\ 0 <= s /\ s < Modulus /\ 0 <= next /\ next < Modulus /\ 0 < w /\ w < Modulus
  BY SeqnumAssumption DEF Modulus, Seqnum
<1>2. Ahead(next, s) = IF next <= s THEN s - next ELSE (s - next) + Modulus
  <2>1. CASE next <= s
    <3>1. s - next \in Seqnum /\ s - next = Modulus * 0 + (s - next)
      BY <1>1, <2>1 DEF Seqnum
    <3> QED BY <1>1, <2>1, <3>1, ModUnique DEF Ahead
  <2>2. CASE ~(next <= s)
    <3>1. /\ (s - next) + Modulus \in Seqnum
          /\ s - next = Modulus * (-1) + ((s - next) + Modulus)
      BY <1>1, <2>2 DEF Seqnum
    <3> QED BY <1>1, <2>2, <3>1, ModUnique DEF Ahead
  <2> QED BY <2>1, <2>2
<1>3. (next + w) % Modulus = IF next + w < Modulus THEN next + w
                                                   ELSE (next + w) - Modulus
  <2>1. CASE next + w < Modulus
    <3>1. next + w \in Seqnum /\ next + w = Modulus * 0 + (next + w)
      BY <1>1, <2>1 DEF Seqnum
    <3> QED BY <1>1, <2>1, <3>1, ModUnique
  <2>2. CASE ~(next + w < Modulus)
    <3>1. /\ (next + w) - Modulus \in Seqnum
          /\ next + w = Modulus * 1 + ((next + w) - Modulus)
      BY <1>1, <2>2 DEF Seqnum
    <3> QED BY <1>1, <2>2, <3>1, ModUnique
  <2> QED BY <2>1, <2>2
<1> QED BY <1>1, <1>2, <1>3 DEF seqnum_in_window

\* Of two different numbers exactly one is the higher, so a packet outside the
\* receive window is always either old or in the future, never neither
\* (handlePacketType_Reliable would go on and process it as the next one).
THEOREM HigherIsTotal ==
  ASSUME NEW s \in Seqnum, NEW t \in Seqnum, s # t
  PROVE  seqnum_higher(s, t) <=> ~seqnum_higher(t, s)
<1>1. s \in Int /\ t \in Int /\ SEQNUM_MAX \div 2 \in Int
  BY SeqnumAssumption DEF Seqnum
<1> QED BY <1>1 DEF seqnum_higher

\* A number getOutgoingSequenceNumber grants is at most one window and one
\* packet beyond the lowest unacknowledged one: exact without wrapping, one too
\* many with it.
THEOREM GrantedSpan ==
  ASSUME NEW lowest \in Int, NEW next \in Int, NEW w \in Int,
         lowest < next, next - lowest < Modulus,
         ~ExceedsWindow(SeqnumOf(lowest), SeqnumOf(next), w)
  PROVE  next - lowest <= w + 1
<1> DEFINE l == SeqnumOf(lowest)
           n == SeqnumOf(next)
<1>1. /\ Modulus \in Int /\ Modulus = SEQNUM_MAX + 1 /\ SEQNUM_MAX \in Int
      /\ l \in Int /\ n \in Int /\ 0 <= l /\ l < Modulus /\ 0 <= n /\ n < Modulus
  BY SeqnumAssumption, SeqnumOfType DEF Modulus, Seqnum
<1>2. Ahead(l, n) = next - lowest
  BY <1>1, AheadOf
<1>3. Ahead(l, n) = IF l <= n THEN n - l ELSE (n - l) + Modulus
  <2>1. CASE l <= n
    <3>1. n - l \in Seqnum /\ n - l = Modulus * 0 + (n - l)
      BY <1>1, <2>1 DEF Seqnum
    <3> QED BY <1>1, <2>1, <3>1, ModUnique DEF Ahead
  <2>2. CASE ~(l <= n)
    <3>1. /\ (n - l) + Modulus \in Seqnum
          /\ n - l = Modulus * (-1) + ((n - l) + Modulus)
      BY <1>1, <2>2 DEF Seqnum
    <3> QED BY <1>1, <2>2, <3>1, ModUnique DEF Ahead
  <2> QED BY <2>1, <2>2
<1>4. next - lowest = IF l <= n THEN n - l ELSE (n - l) + Modulus
  BY <1>2, <1>3
<1>5. ~ExceedsWindow(l, n, w)
  OBVIOUS
<1> HIDE DEF l, n
<1> QED BY <1>1, <1>4, <1>5 DEF ExceedsWindow
=============================================================================
