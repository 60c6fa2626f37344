--------------------------- MODULE MC_BlockSending ---------------------------
EXTENDS BlockSending, TLC

CONSTANTS b1, b2

ScanOrderOf == <<b1, b2>>
\* Two neighbours; the second is out of reach of the first call's scan.
DistOf == b1 :> 2 @@ b2 :> 3
CenterDistOf == b1 :> 3 @@ b2 :> 4
\* A node's face that the player sees is on the player's side.
BesideOf == b1 :> {b1} @@ b2 :> {b1, b2}
=============================================================================
