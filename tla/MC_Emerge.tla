------------------------------ MODULE MC_Emerge ------------------------------
EXTENDS Emerge, TLC

CONSTANTS p1, p2, p3, p4, c1, c2

\* p1 and p2 make a chunk; p3 and p4 are at the end of the world, p3 in a chunk that
\* is too close to the limit to be generated, p4 beyond it.
ChunkOf == p1 :> c1 @@ p2 :> c1 @@ p3 :> c2 @@ p4 :> c2
AreaOf == c1 :> {p1, p2} @@ c2 :> {p3, p4}
\* What generation is about: blocks that are missing and one that is not complete,
\* of the area of another.  A complete one goes the way of one that is in memory.
Database == p1 :> "none" @@ p2 :> "ignore" @@ p3 :> "none" @@ p4 :> "none"
=============================================================================
