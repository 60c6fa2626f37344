-------------------------- MODULE ServerMapBlocks --------------------------
(***************************************************************************)
(* The blocks of the server's map in memory and in the database:           *)
(* ServerMap (servermap.cpp), Map::timerUpdate (map.cpp) and the part of   *)
(* EmergeThread::run that reads a block without the env lock and generates *)
(* a chunk without it (emerge.cpp).  How requests reach the threads is     *)
(* module Emerge.  Every action is one critical section of the env lock,   *)
(* or, for ReadBlock, of the database's mutex.                             *)
(*                                                                         *)
(* The contents of a block are the edits made to it and whether it is      *)
(* generated.  Light is no part of them: a block that is loaded may change *)
(* the light of others, which counts as a change of those, and its own,    *)
(* which is not kept (servermap.cpp:702-721).                              *)
(***************************************************************************)
EXTENDS Integers, FiniteSets

CONSTANTS
  Blocks, Threads,
  Sector,    \* the sector each block is in
  Chunk,     \* the chunk each block is in, and of
  Area,      \* each chunk all blocks of, with those on its border
  Database,  \* what is stored at the start
  None,      \* nothing stored, nothing in memory
  MaxEdits, MaxUnloads, MaxFailures \* bounds

Contents == [edits : SUBSET (1 .. MaxEdits), generated : BOOLEAN]
Blank == [edits |-> {}, generated |-> FALSE]
ASSUME MapAssumption ==
  /\ IsFiniteSet(Blocks) /\ Blocks # {} /\ None \notin Contents
  /\ Database \in [Blocks -> Contents \cup {None}]
  /\ {MaxEdits, MaxUnloads, MaxFailures} \subseteq Nat
  /\ \A b \in Blocks : b \in Area[Chunk[b]] /\ Area[Chunk[b]] \subseteq Blocks

VARIABLES
  m_db,      \* contents stored of every block
  blocks,    \* contents in memory
  modified,  \* blocks in memory with getModified() # MOD_STATE_CLEAN
  thread,    \* of each emerge thread: what it does, to which block, and the copies it holds;
             \* "ended" when a block it had to load could not be read
  m_chunks_in_progress,
  over_mapgen_limit, \* the chunks that reach beyond mapgen_limit with their border
  truth,     \* history: what every block should be
  exposed,   \* history: blocks in one of the situations of the section Exposure
  edits, unloads, failures

vars == <<m_db, blocks, modified, thread, m_chunks_in_progress, over_mapgen_limit,
          truth, exposed, edits, unloads, failures>>
counters == <<edits, unloads, failures>>
Chunks == {Chunk[b] : b \in Blocks}

Copies == [Blocks -> Contents \cup {None}]
NoCopies == [b \in Blocks |-> None]
AnyBlock == CHOOSE b \in Blocks : TRUE
TypeOK ==
  /\ m_db \in Copies /\ blocks \in Copies /\ truth \in Copies
  /\ modified \subseteq {b \in Blocks : blocks[b] # None}
  /\ thread \in [Threads -> [pc : {"idle", "reading", "read", "generating", "ended"},
                             pos : Blocks, allow_gen : BOOLEAN, copies : Copies]]
  /\ m_chunks_in_progress \subseteq Chunks /\ over_mapgen_limit \subseteq Chunks
  /\ exposed \subseteq Blocks
  /\ edits \in 0 .. MaxEdits /\ unloads \in 0 .. MaxUnloads /\ failures \in 0 .. MaxFailures

Init ==
  /\ m_db = Database /\ truth = Database
  /\ blocks = NoCopies /\ modified = {}
  /\ thread = [t \in Threads |-> [pc |-> "idle", pos |-> AnyBlock, allow_gen |-> FALSE,
                                  copies |-> NoCopies]]
  /\ m_chunks_in_progress = {} /\ over_mapgen_limit \in SUBSET Chunks /\ exposed = {}
  /\ edits = 0 /\ unloads = 0 /\ failures = 0

InMemory(b) == blocks[b] # None
IsGenerated(b) == InMemory(b) /\ blocks[b].generated

-----------------------------------------------------------------------------
(* Exposure.  In these situations a change can be lost; the properties say *)
(* that it is lost in no other.                                            *)

\* A thread has read the block, and decides on it when it gets the env lock.
ReadBy(t, b) == thread[t].pc = "read" /\ thread[t].pos = b
\* A thread generates a chunk and will write the whole area back.
GeneratedBy(t, b) ==
  thread[t].pc = "generating" /\ b \in Area[Chunk[thread[t].pos]]

-----------------------------------------------------------------------------
(* The server thread *)

(* ServerMap::emergeBlock for anyone but an emerge thread: a block that is *)
(* not stored is created, as a changed block, if the caller wants that.    *)
Loaded(b) == IF m_db[b] # None THEN m_db[b] ELSE Blank

Created(mem, bs) == {b \in bs : mem[b] = None /\ m_db[b] = None}

(* Light that does not fit at the border of a loaded block is put right in *)
(* all blocks around, and they are modified by it; only the block that is  *)
(* loaded last has its modified state reset after that.                    *)
LightChanges(mem, made) ==
  {{}} \cup {lit \in SUBSET {c \in Blocks : mem[c] # None} :
               \E c \in Blocks \ (lit \cup made) : mem[c] # None /\ ~InMemory(c)}

\* The memory becomes mem: the blocks of made are created, the other new ones loaded.
Becomes(mem, made) ==
  /\ blocks' = mem
  /\ \E lit \in LightChanges(mem, made) : modified' = modified \cup made \cup lit

EmergeBlock(b, create_blank) ==
  /\ ~InMemory(b)
  /\ m_db[b] # None \/ create_blank
  /\ Becomes([blocks EXCEPT ![b] = Loaded(b)], Created(blocks, {b}))
  /\ UNCHANGED <<m_db, thread, m_chunks_in_progress, over_mapgen_limit, truth,
                 exposed, counters>>

\* Anything that changes a block in memory raises its modified state.
Edit(b) ==
  /\ edits < MaxEdits
  /\ InMemory(b)
  /\ edits' = edits + 1
  /\ blocks' = [blocks EXCEPT ![b].edits = @ \cup {edits + 1}]
  /\ truth' = [truth EXCEPT ![b] = blocks'[b]]
  /\ modified' = modified \cup {b}
  /\ exposed' = IF \E t \in Threads : GeneratedBy(t, b) THEN exposed \cup {b} ELSE exposed
  /\ UNCHANGED <<m_db, thread, m_chunks_in_progress, over_mapgen_limit, unloads, failures>>

Stored_Mutant(saved) ==
  [b \in Blocks |-> IF b \in saved /\ IsGenerated(b) THEN blocks[b] ELSE m_db[b]]

Stored(saved) == [b \in Blocks |-> IF b \in saved THEN blocks[b] ELSE m_db[b]]

\* ServerMap::save: a block below save_level, or whose saving fails, stays modified.
Save(saved) ==
  /\ saved # {} /\ saved \subseteq modified
  /\ m_db' = Stored(saved)
  /\ modified' = modified \ saved
  /\ UNCHANGED <<blocks, thread, m_chunks_in_progress, over_mapgen_limit, truth,
                 exposed, counters>>

(* Map::timerUpdate, for the blocks that were not used for long.  One that *)
(* cannot be saved is kept, but it does not keep its sector: a sector all  *)
(* of whose blocks were due goes with what is left in it.                  *)
WithSector(due) ==
  {b \in due : \A c \in Blocks : InMemory(c) /\ Sector[c] = Sector[b] => c \in due}

StillModified_Mutant(gone) == modified

StillModified(gone) == modified \ gone

TimerUpdate(due, fail) ==
  /\ unloads < MaxUnloads
  /\ due # {} /\ \A b \in due : InMemory(b)
  /\ fail \subseteq due \cap modified
  /\ failures + Cardinality(fail) <= MaxFailures
  /\ failures' = failures + Cardinality(fail)
  /\ unloads' = unloads + 1
  /\ m_db' = Stored((due \cap modified) \ fail)
  /\ LET gone == (due \ fail) \cup WithSector(due)
     IN  /\ blocks' = [b \in Blocks |-> IF b \in gone THEN None ELSE blocks[b]]
         /\ modified' = StillModified(gone)
         /\ exposed' = exposed \cup (fail \cap gone)
                        \cup {b \in gone : \E t \in Threads : ReadBy(t, b)}
  /\ UNCHANGED <<thread, m_chunks_in_progress, over_mapgen_limit, truth, edits>>

\* core.delete_area
DeleteBlock(b) ==
  /\ unloads < MaxUnloads
  /\ InMemory(b) \/ m_db[b] # None
  /\ unloads' = unloads + 1
  /\ m_db' = [m_db EXCEPT ![b] = None]
  /\ blocks' = [blocks EXCEPT ![b] = None]
  /\ modified' = StillModified({b})
  /\ truth' = [truth EXCEPT ![b] = None]
  /\ exposed' = IF \E t \in Threads : ReadBy(t, b) \/ GeneratedBy(t, b)
                THEN exposed \cup {b} ELSE exposed
  /\ UNCHANGED <<thread, m_chunks_in_progress, over_mapgen_limit, edits, failures>>

-----------------------------------------------------------------------------
(* An emerge thread *)

Goes(t, pc, b, allow_gen, copies) ==
  thread' = [thread EXCEPT ![t] = [pc |-> pc, pos |-> b, allow_gen |-> allow_gen,
                                   copies |-> copies]]
\* It waits for other work, or has ended.
Rests(t, pc) == Goes(t, pc, AnyBlock, FALSE, NoCopies)

(* The third part of getBlockOrStartGen, with mem as the memory and the    *)
(* block in it, or not.  initBlockMake marks the chunk before anything else*)
(* and goes no further beyond the map's limit; it brings the area to       *)
(* memory, creating what is missing, and copies it.  A block of the area   *)
(* that cannot be read ends the thread when a part of it is there.         *)
WithBlocks(mem, bs) ==
  [c \in Blocks |-> IF c \notin bs \/ mem[c] # None THEN mem[c] ELSE Loaded(c)]

CanStartGen_Mutant(b, allow_gen) == allow_gen

CanStartGen(b, allow_gen) == allow_gen /\ Chunk[b] \notin m_chunks_in_progress

StartGen(t, b, mem) ==
  LET area == Area[Chunk[b]]
  IN  /\ Chunk[b] \notin over_mapgen_limit
      /\ Becomes(WithBlocks(mem, area), Created(mem, area))
      /\ Goes(t, "generating", b, TRUE,
              [c \in Blocks |-> IF c \in area THEN WithBlocks(mem, area)[c] ELSE None])
      /\ UNCHANGED failures

BorderLoadFails(t, b, mem) ==
  /\ Chunk[b] \notin over_mapgen_limit
  /\ failures < MaxFailures
  /\ \E part \in SUBSET Area[Chunk[b]] :
       /\ \E c \in Area[Chunk[b]] \ part : mem[c] = None /\ m_db[c] # None
       /\ Becomes(WithBlocks(mem, part), Created(mem, part))
  /\ Rests(t, "ended")
  /\ failures' = failures + 1

Cancel(t, mem) ==
  /\ Becomes(mem, {})
  /\ Rests(t, "idle")
  /\ UNCHANGED failures

StartGenOrCancel(t, b, allow_gen, mem) ==
  IF CanStartGen(b, allow_gen)
  THEN /\ m_chunks_in_progress' = m_chunks_in_progress \cup {Chunk[b]}
       /\ \/ StartGen(t, b, mem)
          \/ BorderLoadFails(t, b, mem)
          \/ Chunk[b] \in over_mapgen_limit /\ Cancel(t, mem)
  ELSE Cancel(t, mem) /\ UNCHANGED m_chunks_in_progress

\* getBlockOrStartGen without data from the database
GetBlock(t, b, allow_gen) ==
  /\ thread[t].pc = "idle"
  /\ ~IsGenerated(b)
  /\ IF InMemory(b)
     THEN StartGenOrCancel(t, b, allow_gen, blocks)
     ELSE Goes(t, "reading", b, allow_gen, NoCopies)
          /\ UNCHANGED <<blocks, modified, m_chunks_in_progress, failures>>
  /\ UNCHANGED <<m_db, over_mapgen_limit, truth, exposed, edits, unloads>>

\* m_db.loadBlock, without the env lock
ReadBlock(t) ==
  /\ thread[t].pc = "reading"
  /\ LET b == thread[t].pos
     IN  Goes(t, "read", b, thread[t].allow_gen, [NoCopies EXCEPT ![b] = m_db[b]])
  /\ UNCHANGED <<m_db, blocks, modified, m_chunks_in_progress, over_mapgen_limit, truth,
                 exposed, counters>>

(* getBlockOrStartGen with the data: a block that came to memory meanwhile *)
(* is left alone.                                                          *)

LoadsCopy_Mutant(b) == TRUE

LoadsCopy(b) == ~InMemory(b)

DecideAgain(t) ==
  /\ thread[t].pc = "read"
  /\ LET b == thread[t].pos
         from_db == thread[t].copies[b]
         mem == IF LoadsCopy(b) /\ from_db # None
                THEN [blocks EXCEPT ![b] = from_db] ELSE blocks
     IN  IF mem[b] # None /\ mem[b].generated
         THEN Cancel(t, mem) /\ UNCHANGED m_chunks_in_progress
         ELSE StartGenOrCancel(t, b, thread[t].allow_gen, mem)
  /\ UNCHANGED <<m_db, over_mapgen_limit, truth, exposed, edits, unloads>>

\* What was read is no block: the thread ends.
LoadFails(t) ==
  /\ thread[t].pc = "read"
  /\ LET b == thread[t].pos
     IN  /\ ~InMemory(b) /\ thread[t].copies[b] # None
         /\ Rests(t, "ended")
  /\ failures < MaxFailures
  /\ failures' = failures + 1
  /\ UNCHANGED <<m_db, blocks, modified, m_chunks_in_progress, over_mapgen_limit, truth,
                 exposed, edits, unloads>>

(* finishBlockMake: blitBackAll writes back the copies of all blocks that  *)
(* are still in memory, and those of the chunk itself are generated now.   *)
Written(t) == {c \in Blocks : GeneratedBy(t, c) /\ InMemory(c)}

FinishGen(t) ==
  /\ thread[t].pc = "generating"
  /\ LET b == thread[t].pos
         Generated(x, c) == [x EXCEPT !.generated = @ \/ Chunk[c] = Chunk[b]]
     IN  /\ blocks' = [c \in Blocks |->
              IF c \in Written(t)
              THEN Generated([blocks[c] EXCEPT !.edits = thread[t].copies[c].edits], c)
              ELSE blocks[c]]
         /\ truth' = [c \in Blocks |->
              IF c \notin Written(t) THEN truth[c]
              ELSE IF truth[c] = None THEN blocks'[c] ELSE Generated(truth[c], c)]
         /\ modified' = modified \cup Written(t)
         /\ m_chunks_in_progress' = m_chunks_in_progress \ {Chunk[b]}
         /\ Rests(t, "idle")
  /\ UNCHANGED <<m_db, over_mapgen_limit, exposed, counters>>

\* An error in Lua's on_generated: what was generated is dropped, and the mark stays.
AbandonGen(t) ==
  /\ thread[t].pc = "generating"
  /\ Rests(t, "idle")
  /\ UNCHANGED <<m_db, blocks, modified, m_chunks_in_progress, over_mapgen_limit, truth,
                 exposed, counters>>

Next ==
  \/ \E b \in Blocks : Edit(b) \/ DeleteBlock(b)
  \/ \E b \in Blocks, create_blank \in BOOLEAN : EmergeBlock(b, create_blank)
  \/ \E saved \in SUBSET Blocks : Save(saved)
  \/ \E due, fail \in SUBSET Blocks : TimerUpdate(due, fail)
  \/ \E t \in Threads, b \in Blocks, allow_gen \in BOOLEAN : GetBlock(t, b, allow_gen)
  \/ \E t \in Threads : ReadBlock(t) \/ DecideAgain(t) \/ LoadFails(t)
  \/ \E t \in Threads : FinishGen(t) \/ AbandonGen(t)
Spec == Init /\ [][Next]_vars

-----------------------------------------------------------------------------
(* Properties *)

Same(x, y) == x = y \/ {x, y} \subseteq {None, Blank}
HoldsTruth(b) == Same(IF InMemory(b) THEN blocks[b] ELSE m_db[b], truth[b])

(* "Saves modified blocks before unloading if possible" (map.h:179): what  *)
(* was done to a block is in memory, or in the database if the block is    *)
(* not in memory, and nothing that was deleted comes back...               *)
NoChangeLost == \A b \in Blocks : HoldsTruth(b)

(* ... as long as the block was not exposed: unsaved in a sector that is   *)
(* unloaded, unloaded or deleted between a thread's read and its decision, *)
(* or changed while the chunk it belongs to or borders on is generated.    *)
NoOtherChangeLost == \A b \in Blocks \ exposed : HoldsTruth(b)

(* A block that counts as unmodified is what the database has: unloading   *)
(* it without saving is right.                                             *)
CleanIsStored ==
  \A b \in Blocks \ (exposed \cup modified) : InMemory(b) => blocks[b] = m_db[b]

(* Each chunk is generated by one thread at a time, whose mark it has.     *)
(* The mark outlives a generation that failed, and one that never began.   *)
GeneratorsAreMarked ==
  /\ \A t \in Threads :
       thread[t].pc = "generating" => Chunk[thread[t].pos] \in m_chunks_in_progress
  /\ \A t, u \in Threads :
       thread[t].pc = "generating" /\ thread[u].pc = "generating"
         /\ Chunk[thread[t].pos] = Chunk[thread[u].pos] => t = u
  /\ \A t \in Threads, b \in Blocks : GeneratedBy(t, b) => thread[t].copies[b] # None

EditsOf(x) == IF x = None THEN {} ELSE x.edits

(* What a thread will write over the map when its chunk is done: its copy  *)
(* of a block has every edit, of however many threads generate chunks that *)
(* border on each other, and whatever is saved, unloaded and loaded again  *)
(* meanwhile, but for the blocks that are exposed.                         *)
GenerationIsSafe ==
  /\ GeneratorsAreMarked
  /\ \A t \in Threads, b \in Blocks \ exposed :
       GeneratedBy(t, b) => thread[t].copies[b].edits = EditsOf(truth[b])
=============================================================================
