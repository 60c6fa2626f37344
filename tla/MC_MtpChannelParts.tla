------------------------- MODULE MC_MtpChannelParts -------------------------
(***************************************************************************)
(* The packet buffer and the congestion window of a channel.  They share   *)
(* no state, so one of them moves in a behaviour and the other stays.      *)
(***************************************************************************)
EXTENDS MtpReliableBuffer, MtpWindow

VARIABLE part   \* the one that moves

Init == part \in {"buffer", "window"} /\ ListInit /\ WindowInit

Next ==
  /\ \/ part = "buffer" /\ ListNext /\ UNCHANGED windowVars
     \/ part = "window" /\ WindowNext /\ UNCHANGED listVars
  /\ UNCHANGED part

Spec == Init /\ [][Next]_<<part, listVars, windowVars>>
=============================================================================
