------------------------- MODULE MtpReliableBuffer --------------------------
(***************************************************************************)
(* con::ReliablePacketBuffer (network/mtp/impl.cpp): a list kept in order  *)
(* by an insertion that compares u16 numbers as plain integers, on either  *)
(* side of the point where they wrap.  The list holds sequence numbers;    *)
(* the packets' contents play no part here.                                *)
(*                                                                         *)
(* base is the next_expected its two users pass to insert: the receiver's  *)
(* next number, or MAX_RELIABLE_WINDOW_SIZE before the sender's next one.  *)
(* Both only move up, and never past a number that is in the list: the     *)
(* receiver takes that packet out first (checkIncomingBuffers), and the    *)
(* sender's span stays within the window (SpanFitsWindow of MtpChannel).   *)
(*                                                                         *)
(* Init, Next, Spec, vars and TypeOK carry the list's name, as in          *)
(* MtpWindow.                                                              *)
(***************************************************************************)
EXTENDS MtpSeqnum, Sequences, SequencesExt

VARIABLES
  m_list,
  base

listVars == <<m_list, base>>

\* The receiver's buffer starts at the first number, the sender's a window below.
ListInit ==
  /\ m_list = <<>>
  /\ base \in {SEQNUM_INITIAL, (SEQNUM_INITIAL - MAX_RELIABLE_WINDOW_SIZE) % Modulus}

-----------------------------------------------------------------------------
Numbers == {m_list[i] : i \in DOMAIN m_list}

\* Numbers compared without regard to the wrap.
WalksPast_Mutant(s, seqnum) == s < seqnum

\* The place behind an equal number.
WalksPast_Mutant2(s, seqnum) ==
  IF seqnum < base THEN s <= seqnum \/ s >= base
                   ELSE s <= seqnum /\ s >= base

\* The loop of insert walks past s on its way to the place of seqnum.
WalksPast(s, seqnum) ==
  IF seqnum < base THEN s < seqnum \/ s >= base
                   ELSE s < seqnum /\ s >= base

\* Where the loop stops: an index of the list, or the one after its last.
Place(seqnum) ==
  CHOOSE i \in 1 .. Len(m_list) + 1 :
    /\ i <= Len(m_list) => ~WalksPast(m_list[i], seqnum)
    /\ \A j \in 1 .. i - 1 : WalksPast(m_list[j], seqnum)

\* The variable s when the loop is over: at the end of the list it still holds
\* the last number.
LastLookedAt(seqnum) ==
  IF Place(seqnum) <= Len(m_list) THEN m_list[Place(seqnum)]
                                  ELSE m_list[Len(m_list)]

\* The number that is due is buffered as well.
IsInserted_Mutant(seqnum) ==
  seqnum_in_window(seqnum, base, MAX_RELIABLE_WINDOW_SIZE)

IsInserted(seqnum) ==
  /\ seqnum_in_window(seqnum, base, MAX_RELIABLE_WINDOW_SIZE)
  /\ seqnum # base

\* A packet whose number is there already is dropped, or refused with
\* IncomingDataCorruption when it looks different.
insert(seqnum) ==
  /\ m_list' = IF ~IsInserted(seqnum) THEN m_list
               ELSE IF m_list = <<>> THEN <<seqnum>>
               ELSE IF LastLookedAt(seqnum) = seqnum THEN m_list
               ELSE InsertAt(m_list, Place(seqnum), seqnum)
  /\ UNCHANGED base

\* Of an empty list both pops throw NotFoundException.
popFirst ==
  /\ m_list # <<>>
  /\ m_list' = Tail(m_list)
  /\ UNCHANGED base

popSeqnum(seqnum) ==
  /\ \E i \in DOMAIN m_list :
       /\ m_list[i] = seqnum
       /\ \A j \in 1 .. i - 1 : m_list[j] # seqnum
       /\ m_list' = RemoveAt(m_list, i)
  /\ UNCHANGED base

\* The number is not cut to 16 bits.
Advance_Mutant ==
  /\ m_list # <<>> => Head(m_list) # base
  /\ base' = base + 1
  /\ UNCHANGED m_list

\* The user's next number moves on.
Advance ==
  /\ m_list # <<>> => Head(m_list) # base
  /\ base' = (base + 1) % Modulus
  /\ UNCHANGED m_list

ListNext ==
  \/ \E s \in Seqnum : insert(s) \/ popSeqnum(s)
  \/ popFirst
  \/ Advance

ListSpec == ListInit /\ [][ListNext]_listVars

-----------------------------------------------------------------------------
ListTypeOK == m_list \in Seq(Seqnum) /\ base \in Seqnum

\* The list runs upwards from base, around the wrap, without a number twice.
SortedFromBase ==
  \A i, j \in DOMAIN m_list :
    i < j => Ahead(base, m_list[i]) < Ahead(base, m_list[j])

\* insert compares the last number it looked at with the new one even when the
\* loop has run off the list, and then reads the packet the iterator stands at:
\* that the two are equal never happens at the end of the list.
EndIsNeverRead ==
  \A seqnum \in Seqnum :
    IsInserted(seqnum) /\ m_list # <<>> /\ LastLookedAt(seqnum) = seqnum
      => Place(seqnum) <= Len(m_list)

\* The numbers the code compares as plain integers, on either side of the wrap,
\* and the iterator it dereferences without a look at the end of the list.
InsertIsSound == ListTypeOK /\ SortedFromBase /\ EndIsNeverRead

Buffer == INSTANCE ReliableBufferSpec WITH held <- Numbers

\* The list is the set MtpChannel takes it for: nothing inside the window is
\* turned away, nothing gets lost or doubled, and its front is the oldest.
BufferSpec == Buffer!Spec
=============================================================================
