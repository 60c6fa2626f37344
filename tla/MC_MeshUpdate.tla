--------------------------- MODULE MC_MeshUpdate ---------------------------
EXTENDS MeshUpdate, TLC

CONSTANTS b1, b2
NeighborsOf == b1 :> <<b2>> @@ b2 :> <<b1>>
=============================================================================
