------------------------- MODULE MC_ServerMapBlocks -------------------------
EXTENDS ServerMapBlocks, TLC

CONSTANTS p, q, c1, c2, s1, t1, t2

\* Two neighbours of one sector, in chunks that border on each other.
SectorOf == p :> s1 @@ q :> s1
ChunkOf == p :> c1 @@ q :> c2
AreaOf == c1 :> {p, q} @@ c2 :> {p, q}
InitialDatabase == p :> None @@ q :> [edits |-> {}, generated |-> TRUE]
\* Neither chunk is over the mapgen limit, or the first is.
MCInit == Init /\ over_mapgen_limit \in {{}, {c1}}
MCSpec == MCInit /\ [][Next]_vars
Symmetry == Permutations(Threads)
=============================================================================
