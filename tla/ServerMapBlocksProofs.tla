----------------------- MODULE ServerMapBlocksProofs -----------------------
(***************************************************************************)
(* No change of the map is lost, for any blocks, chunks, areas, sectors    *)
(* and numbers of threads: what a block that was not exposed holds is what *)
(* it should be.                                                           *)
(***************************************************************************)
EXTENDS ServerMapBlocks, FiniteSetTheorems, TLAPS

ThreadStates == [pc : {"idle", "reading", "read", "generating", "ended"},
                 pos : Blocks, allow_gen : BOOLEAN, copies : Copies]

-----------------------------------------------------------------------------
(* Types, and the marks of the chunks, which they need: whoever writes an  *)
(* area back has copies of it.                                             *)

LEMMA Constants ==
  /\ Blank \in Contents /\ None \notin Contents /\ Blank # None
  /\ Database \in Copies /\ NoCopies \in Copies /\ AnyBlock \in Blocks
  /\ MaxEdits \in Nat /\ MaxUnloads \in Nat /\ MaxFailures \in Nat
  /\ \A b \in Blocks : b \in Area[Chunk[b]] /\ Area[Chunk[b]] \subseteq Blocks
<1>1. Blank \in Contents
  BY DEF Blank, Contents
<1>2. AnyBlock \in Blocks
  BY MapAssumption DEF AnyBlock
<1> QED BY <1>1, <1>2, MapAssumption DEF Copies, NoCopies

LEMMA LoadedType ==
  ASSUME TypeOK, NEW b \in Blocks
  PROVE  Loaded(b) \in Contents
BY Constants DEF Loaded, TypeOK, Copies

\* What a thread goes on to, alone.
LEMMA GoesOn ==
  ASSUME thread \in [Threads -> ThreadStates], NEW t \in Threads,
         NEW pc \in {"idle", "reading", "read", "generating", "ended"}, NEW b \in Blocks,
         NEW allow_gen \in BOOLEAN, NEW copies \in Copies,
         Goes(t, pc, b, allow_gen, copies)
  PROVE  /\ thread' \in [Threads -> ThreadStates]
         /\ thread'[t].pc = pc /\ thread'[t].pos = b /\ thread'[t].copies = copies
         /\ \A u \in Threads \ {t} : thread'[u] = thread[u]
<1> DEFINE to == [pc |-> pc, pos |-> b, allow_gen |-> allow_gen, copies |-> copies]
<1>1. to \in ThreadStates /\ to.pc = pc /\ to.pos = b /\ to.copies = copies
  BY DEF ThreadStates
<1>2. thread' = [thread EXCEPT ![t] = to]
  BY DEF Goes
<1> HIDE DEF to
<1> QED BY <1>1, <1>2

\* Waiting for other work, or ended.
LEMMA RestsOn ==
  ASSUME thread \in [Threads -> ThreadStates], NEW t \in Threads,
         NEW pc \in {"idle", "ended"}, Rests(t, pc)
  PROVE  /\ thread' \in [Threads -> ThreadStates] /\ thread'[t].pc = pc
         /\ \A u \in Threads \ {t} : thread'[u] = thread[u]
<1>1. Goes(t, pc, AnyBlock, FALSE, NoCopies)
  BY DEF Rests
<1>2. pc \in {"idle", "reading", "read", "generating", "ended"}
  OBVIOUS
<1>3. AnyBlock \in Blocks /\ NoCopies \in Copies /\ FALSE \in BOOLEAN
  BY Constants
<1> QED BY ONLY thread \in [Threads -> ThreadStates], t \in Threads, <1>1, <1>2, <1>3, GoesOn

\* The memory becomes mem: what was modified stays so, and what is created is.
LEMMA BecomesThat ==
  ASSUME TypeOK, NEW mem \in Copies, NEW made, Becomes(mem, made),
         \A c \in Blocks : InMemory(c) => mem[c] # None,
         \A c \in made : c \in Blocks /\ mem[c] # None
  PROVE  /\ blocks' = mem /\ blocks' \in Copies
         /\ modified' \subseteq {c \in Blocks : blocks'[c] # None}
         /\ \A c : c \in modified \/ c \in made => c \in modified'
<1>1. PICK lit \in LightChanges(mem, made) : modified' = modified \cup made \cup lit
  BY DEF Becomes
<1>2. blocks' = mem
  BY DEF Becomes
<1>3. \A c \in lit : c \in Blocks /\ mem[c] # None
  BY DEF LightChanges
<1>4. \A c \in modified : c \in Blocks /\ mem[c] # None
  BY DEF TypeOK, InMemory
<1> QED BY <1>1, <1>2, <1>3, <1>4

LEMMA TypeAndMarksInit == Init => TypeOK /\ GeneratorsAreMarked
<1> SUFFICES ASSUME Init PROVE TypeOK /\ GeneratorsAreMarked
  OBVIOUS
<1>1. thread = [t \in Threads |-> [pc |-> "idle", pos |-> AnyBlock, allow_gen |-> FALSE,
                                   copies |-> NoCopies]]
  BY DEF Init
<1>2. thread \in [Threads -> ThreadStates] /\ \A t \in Threads : thread[t].pc = "idle"
  BY <1>1, Constants DEF ThreadStates
<1>3. TypeOK
  BY <1>2, Constants DEF Init, TypeOK, ThreadStates
<1>4. GeneratorsAreMarked
  BY <1>2 DEF Init, GeneratorsAreMarked, GeneratedBy
<1> QED BY <1>3, <1>4

LEMMA MarksFrame ==
  ASSUME GeneratorsAreMarked, UNCHANGED <<thread, m_chunks_in_progress>>
  PROVE  GeneratorsAreMarked'
BY DEF GeneratorsAreMarked, GeneratedBy

\* A thread that generates neither before nor after its step.
LEMMA MarksOfOthers ==
  ASSUME TypeOK, GeneratorsAreMarked, m_chunks_in_progress \subseteq m_chunks_in_progress',
         NEW t \in Threads, thread[t].pc # "generating", thread'[t].pc # "generating",
         \A u \in Threads \ {t} : thread'[u] = thread[u]
  PROVE  GeneratorsAreMarked'
<1>1. \A u \in Threads : thread'[u].pc = "generating" => u # t /\ thread'[u] = thread[u]
  OBVIOUS
<1>2. \A u \in Threads : thread[u].pc = "generating" => u # t /\ thread'[u] = thread[u]
  OBVIOUS
<1> QED BY <1>1, <1>2 DEF GeneratorsAreMarked, GeneratedBy

LEMMA StartCases ==
  ASSUME NEW t, NEW b, NEW allow_gen, NEW mem, StartGenOrCancel(t, b, allow_gen, mem)
  PROVE  \/ /\ Cancel(t, mem) \/ BorderLoadFails(t, b, mem)
            /\ m_chunks_in_progress' \in
                 {m_chunks_in_progress, m_chunks_in_progress \cup {Chunk[b]}}
         \/ /\ StartGen(t, b, mem) /\ Chunk[b] \notin m_chunks_in_progress
            /\ m_chunks_in_progress' = m_chunks_in_progress \cup {Chunk[b]}
BY DEF StartGenOrCancel, CanStartGen

\* A part of the area that has come to memory.
LEMMA PartType ==
  ASSUME TypeOK, NEW mem \in Copies, NEW part \in SUBSET Blocks
  PROVE  /\ WithBlocks(mem, part) \in Copies
         /\ \A c \in Blocks : WithBlocks(mem, part)[c] =
              IF c \notin part \/ mem[c] # None THEN mem[c] ELSE Loaded(c)
         /\ \A c \in part : WithBlocks(mem, part)[c] # None
         /\ \A c \in Created(mem, part) : c \in Blocks /\ WithBlocks(mem, part)[c] # None
<1>1. \A c \in Blocks : WithBlocks(mem, part)[c] =
              IF c \notin part \/ mem[c] # None THEN mem[c] ELSE Loaded(c)
  BY DEF WithBlocks
<1>2. WithBlocks(mem, part) \in Copies
  BY LoadedType DEF WithBlocks, Copies
<1>3. \A c \in part : WithBlocks(mem, part)[c] # None
  BY <1>1, LoadedType, Constants
<1> QED BY <1>1, <1>2, <1>3 DEF Created

\* What initBlockMake has brought to memory when it fails.
LEMMA FailsWithPart ==
  ASSUME TypeOK, NEW t \in Threads, NEW b \in Blocks, NEW mem \in Copies,
         \A c \in Blocks : InMemory(c) => mem[c] = blocks[c],
         BorderLoadFails(t, b, mem)
  PROVE  \E part \in SUBSET Blocks :
           /\ Becomes(WithBlocks(mem, part), Created(mem, part))
           /\ blocks' = WithBlocks(mem, part) /\ blocks' \in Copies
           /\ modified' \subseteq {c \in Blocks : blocks'[c] # None}
           /\ \A c : c \in modified \/ c \in Created(mem, part) => c \in modified'
<1>1. PICK part \in SUBSET Area[Chunk[b]] : Becomes(WithBlocks(mem, part), Created(mem, part))
  BY DEF BorderLoadFails
<1>2. part \in SUBSET Blocks
  BY Constants
<1>3. WithBlocks(mem, part) \in Copies
  BY <1>2, PartType
<1>4. \A c \in Blocks : InMemory(c) => WithBlocks(mem, part)[c] # None
  BY <1>2, PartType DEF InMemory
<1>5. \A c \in Created(mem, part) : c \in Blocks /\ WithBlocks(mem, part)[c] # None
  BY <1>2, PartType
<1> HIDE DEF TypeOK
<1> QED BY <1>1, <1>2, <1>3, <1>4, <1>5, BecomesThat

LEMMA StartOrCancel ==
  ASSUME TypeOK, GeneratorsAreMarked, NEW t \in Threads, thread[t].pc # "generating",
         NEW b \in Blocks, NEW allow_gen \in BOOLEAN, NEW mem \in Copies,
         \A c \in Blocks : InMemory(c) => mem[c] = blocks[c],
         StartGenOrCancel(t, b, allow_gen, mem)
  PROVE  /\ thread' \in [Threads -> ThreadStates] /\ GeneratorsAreMarked'
         /\ blocks' \in Copies /\ modified' \subseteq {c \in Blocks : blocks'[c] # None}
         /\ m_chunks_in_progress' \subseteq Chunks /\ failures' \in 0 .. MaxFailures
<1>0. thread \in [Threads -> ThreadStates] /\ failures \in 0 .. MaxFailures
  BY DEF TypeOK, ThreadStates
<1>a. m_chunks_in_progress' \in
        {m_chunks_in_progress, m_chunks_in_progress \cup {Chunk[b]}}
  BY StartCases
<1>b. m_chunks_in_progress' \subseteq Chunks
  BY <1>a DEF TypeOK, Chunks
<1>1. CASE Cancel(t, mem)
  <2>1. Rests(t, "idle") /\ Becomes(mem, {}) /\ UNCHANGED failures
    BY <1>1 DEF Cancel
  <2>2. /\ thread' \in [Threads -> ThreadStates] /\ thread'[t].pc = "idle"
        /\ \A u \in Threads \ {t} : thread'[u] = thread[u]
    BY <1>0, <2>1, RestsOn
  <2>3. GeneratorsAreMarked'
    BY <1>a, <2>2, MarksOfOthers
  <2>4. \A c \in Blocks : InMemory(c) => mem[c] # None
    BY DEF InMemory
  <2>5. blocks' \in Copies /\ modified' \subseteq {c \in Blocks : blocks'[c] # None}
    BY <2>1, <2>4, BecomesThat
  <2> QED BY <1>0, <1>b, <2>1, <2>2, <2>3, <2>5
<1>2. CASE BorderLoadFails(t, b, mem)
  <2>1. Rests(t, "ended") /\ failures' = failures + 1 /\ failures < MaxFailures
    BY <1>2 DEF BorderLoadFails
  <2>2. /\ thread' \in [Threads -> ThreadStates] /\ thread'[t].pc = "ended"
        /\ \A u \in Threads \ {t} : thread'[u] = thread[u]
    BY <1>0, <2>1, RestsOn
  <2>3. GeneratorsAreMarked'
    BY <1>a, <2>2, MarksOfOthers
  <2>4. blocks' \in Copies /\ modified' \subseteq {c \in Blocks : blocks'[c] # None}
    BY <1>2, FailsWithPart
  <2>5. failures' \in 0 .. MaxFailures
    BY <1>0, <2>1, Constants
  <2> QED BY <1>b, <2>2, <2>3, <2>4, <2>5
<1>3. CASE /\ StartGen(t, b, mem) /\ Chunk[b] \notin m_chunks_in_progress
           /\ m_chunks_in_progress' = m_chunks_in_progress \cup {Chunk[b]}
  <2>0. PICK area, copies :
          /\ area = WithBlocks(mem, Area[Chunk[b]])
          /\ copies = [c \in Blocks |-> IF c \in Area[Chunk[b]] THEN area[c] ELSE None]
    OBVIOUS
  <2>1. /\ Becomes(area, Created(mem, Area[Chunk[b]]))
        /\ Goes(t, "generating", b, TRUE, copies) /\ UNCHANGED failures
    BY <1>3, <2>0 DEF StartGen
  <2>2. Area[Chunk[b]] \in SUBSET Blocks
    BY Constants
  <2>3. /\ area \in Copies /\ \A c \in Area[Chunk[b]] : area[c] # None
        /\ \A c \in Created(mem, Area[Chunk[b]]) : c \in Blocks /\ area[c] # None
        /\ \A c \in Blocks : InMemory(c) => area[c] # None
    BY <2>0, <2>2, PartType DEF InMemory
  <2>4. copies \in Copies /\ \A c \in Area[Chunk[b]] : c \in Blocks /\ copies[c] # None
    BY <2>0, <2>2, <2>3 DEF Copies
  <2>5. blocks' \in Copies /\ modified' \subseteq {c \in Blocks : blocks'[c] # None}
    BY <2>1, <2>3, BecomesThat
  <2>6. /\ thread' \in [Threads -> ThreadStates]
        /\ thread'[t].pc = "generating" /\ thread'[t].pos = b /\ thread'[t].copies = copies
        /\ \A u \in Threads \ {t} : thread'[u] = thread[u]
    BY <1>0, <2>1, <2>4, GoesOn
  <2>7. \A u \in Threads \ {t} :
          thread[u].pc = "generating" => Chunk[thread[u].pos] # Chunk[b]
    BY <1>3 DEF GeneratorsAreMarked
  <2>8. GeneratorsAreMarked'
    <3>1. \A u \in Threads : thread'[u].pc = "generating"
                               => Chunk[thread'[u].pos] \in m_chunks_in_progress'
      BY <1>3, <2>6 DEF GeneratorsAreMarked
    <3>2. \A u, v \in Threads :
            thread'[u].pc = "generating" /\ thread'[v].pc = "generating"
              /\ Chunk[thread'[u].pos] = Chunk[thread'[v].pos] => u = v
      BY <2>6, <2>7 DEF GeneratorsAreMarked
    <3>3. \A u \in Threads, c \in Blocks : GeneratedBy(u, c)' => thread'[u].copies[c] # None
      BY <2>4, <2>6 DEF GeneratorsAreMarked, GeneratedBy
    <3> QED BY <3>1, <3>2, <3>3 DEF GeneratorsAreMarked
  <2> QED BY <1>0, <1>b, <2>1, <2>5, <2>6, <2>8
<1> QED BY <1>1, <1>2, <1>3, StartCases

\* The steps of the server thread.
LEMMA TypeServer ==
  ASSUME TypeOK,
         \/ \E b \in Blocks : Edit(b) \/ DeleteBlock(b)
         \/ \E b \in Blocks, create_blank \in BOOLEAN : EmergeBlock(b, create_blank)
         \/ \E saved \in SUBSET Blocks : Save(saved)
         \/ \E due, fail \in SUBSET Blocks : TimerUpdate(due, fail)
  PROVE  TypeOK'
<1>0. UNCHANGED <<thread, m_chunks_in_progress, over_mapgen_limit>>
  BY DEF Edit, DeleteBlock, EmergeBlock, Save, TimerUpdate
<1>1. ASSUME NEW b \in Blocks, Edit(b) PROVE TypeOK'
  <2>1. blocks[b] \in Contents /\ edits \in 0 .. MaxEdits /\ edits < MaxEdits
    BY <1>1 DEF Edit, InMemory, TypeOK, Copies
  <2>2. PICK new : new = [blocks[b] EXCEPT !.edits = @ \cup {edits + 1}]
    OBVIOUS
  <2>3. new \in Contents
    BY <2>1, <2>2, Constants DEF Contents
  <2>4. /\ blocks' = [blocks EXCEPT ![b] = new] /\ edits' = edits + 1
        /\ truth' = [truth EXCEPT ![b] = blocks'[b]] /\ modified' = modified \cup {b}
        /\ exposed' \subseteq exposed \cup {b} /\ UNCHANGED <<m_db, unloads, failures>>
    BY <1>1, <2>2 DEF Edit
  <2>5. blocks' \in Copies /\ blocks'[b] \in Contents /\ truth' \in Copies
    BY <2>3, <2>4 DEF TypeOK, Copies
  <2>6. modified' \subseteq {c \in Blocks : blocks'[c] # None}
    BY <2>4, <2>5, Constants DEF TypeOK, Copies
  <2>7. edits' \in 0 .. MaxEdits
    BY <2>1, <2>4, Constants
  <2> QED BY <1>0, <2>4, <2>5, <2>6, <2>7 DEF TypeOK
<1>2. ASSUME NEW b \in Blocks, DeleteBlock(b) PROVE TypeOK'
  <2>1. /\ m_db' = [m_db EXCEPT ![b] = None] /\ blocks' = [blocks EXCEPT ![b] = None]
        /\ truth' = [truth EXCEPT ![b] = None] /\ modified' = modified \ {b}
        /\ exposed' \subseteq exposed \cup {b} /\ UNCHANGED <<edits, failures>>
        /\ unloads' = unloads + 1 /\ unloads < MaxUnloads
    BY <1>2 DEF DeleteBlock, StillModified
  <2>2. m_db' \in Copies /\ blocks' \in Copies /\ truth' \in Copies
    BY <2>1 DEF TypeOK, Copies
  <2>3. modified' \subseteq {c \in Blocks : blocks'[c] # None}
    BY <2>1 DEF TypeOK, Copies
  <2>4. unloads' \in 0 .. MaxUnloads
    BY <2>1, Constants DEF TypeOK
  <2> QED BY <1>0, <2>1, <2>2, <2>3, <2>4 DEF TypeOK
<1>3. ASSUME NEW b \in Blocks, NEW create_blank \in BOOLEAN, EmergeBlock(b, create_blank)
      PROVE  TypeOK'
  <2>0. PICK mem : mem = [blocks EXCEPT ![b] = Loaded(b)]
    OBVIOUS
  <2>1. Becomes(mem, Created(blocks, {b})) /\ UNCHANGED <<m_db, truth, exposed, counters>>
    BY <1>3, <2>0 DEF EmergeBlock
  <2>2. Loaded(b) \in Contents
    BY LoadedType
  <2>3. /\ mem \in Copies /\ \A c \in Blocks : InMemory(c) => mem[c] # None
        /\ \A c \in Created(blocks, {b}) : c \in Blocks /\ mem[c] # None
    BY <2>0, <2>2, Constants DEF TypeOK, Copies, Created, InMemory
  <2>4. blocks' \in Copies /\ modified' \subseteq {c \in Blocks : blocks'[c] # None}
    BY <2>1, <2>3, BecomesThat
  <2> QED BY <1>0, <2>1, <2>4 DEF TypeOK, counters
<1>4. ASSUME NEW saved \in SUBSET Blocks, Save(saved) PROVE TypeOK'
  <2>1. m_db' \in Copies
    BY <1>4 DEF Save, Stored, TypeOK, Copies
  <2> QED BY <1>0, <1>4, <2>1 DEF Save, TypeOK, counters
<1>5. ASSUME NEW due \in SUBSET Blocks, NEW fail \in SUBSET Blocks, TimerUpdate(due, fail)
      PROVE  TypeOK'
  <2>0. PICK gone : gone = (due \ fail) \cup WithSector(due)
    OBVIOUS
  <2>1. /\ m_db' = Stored((due \cap modified) \ fail)
        /\ blocks' = [b \in Blocks |-> IF b \in gone THEN None ELSE blocks[b]]
        /\ modified' = modified \ gone
        /\ exposed' = exposed \cup (fail \cap gone)
                        \cup {b \in gone : \E t \in Threads : ReadBy(t, b)}
        /\ UNCHANGED <<truth, edits>>
    BY <1>5, <2>0, Zenon DEF TimerUpdate, StillModified
  <2>2. gone \subseteq Blocks
    BY <2>0 DEF WithSector
  <2>3. m_db' \in Copies /\ blocks' \in Copies /\ exposed' \subseteq Blocks
    BY <2>1, <2>2 DEF Stored, TypeOK, Copies
  <2>4. modified' \subseteq {b \in Blocks : blocks'[b] # None}
    BY <2>1 DEF TypeOK
  <2>5. fail \subseteq Blocks /\ IsFiniteSet(fail)
    BY MapAssumption, FS_Subset
  <2>6. Cardinality(fail) \in Nat
    BY <2>5, FS_CardinalityType
  <2>7. failures' = failures + Cardinality(fail) /\ failures + Cardinality(fail) <= MaxFailures
    BY <1>5 DEF TimerUpdate
  <2>8. unloads' \in 0 .. MaxUnloads /\ failures' \in 0 .. MaxFailures
    <3>1. unloads' = unloads + 1 /\ unloads < MaxUnloads
      BY <1>5 DEF TimerUpdate
    <3> QED BY <2>6, <2>7, <3>1, Constants DEF TypeOK
  <2> QED BY <1>0, <2>1, <2>3, <2>4, <2>8 DEF TypeOK
<1> QED BY <1>1, <1>2, <1>3, <1>4, <1>5

LEMMA TypeAndMarksStep == TypeOK /\ GeneratorsAreMarked /\ [Next]_vars
                            => (TypeOK /\ GeneratorsAreMarked)'
<1> SUFFICES ASSUME TypeOK, GeneratorsAreMarked, [Next]_vars
             PROVE  TypeOK' /\ GeneratorsAreMarked'
  OBVIOUS
<1>a. over_mapgen_limit' = over_mapgen_limit
  BY DEF Next, Edit, DeleteBlock, EmergeBlock, Save, TimerUpdate, GetBlock, ReadBlock,
         DecideAgain, LoadFails, FinishGen, AbandonGen, vars
<1>0. thread \in [Threads -> ThreadStates]
  BY DEF TypeOK, ThreadStates
<1>1. CASE \/ \E b \in Blocks : Edit(b) \/ DeleteBlock(b)
           \/ \E b \in Blocks, create_blank \in BOOLEAN : EmergeBlock(b, create_blank)
           \/ \E saved \in SUBSET Blocks : Save(saved)
           \/ \E due, fail \in SUBSET Blocks : TimerUpdate(due, fail)
  <2>1. UNCHANGED <<thread, m_chunks_in_progress>>
    BY <1>1 DEF Edit, DeleteBlock, EmergeBlock, Save, TimerUpdate
  <2> QED BY <1>1, <2>1, TypeServer, MarksFrame
<1>2. ASSUME NEW t \in Threads, NEW b \in Blocks, NEW allow_gen \in BOOLEAN,
             GetBlock(t, b, allow_gen)
      PROVE  TypeOK' /\ GeneratorsAreMarked'
  <2>1. CASE InMemory(b)
    <3>1. StartGenOrCancel(t, b, allow_gen, blocks) /\ thread[t].pc # "generating"
          /\ UNCHANGED <<m_db, truth, exposed, edits, unloads>>
      BY <1>2, <2>1 DEF GetBlock
    <3>2. blocks \in Copies
      BY DEF TypeOK
    <3>3. /\ thread' \in [Threads -> ThreadStates] /\ GeneratorsAreMarked'
          /\ blocks' \in Copies /\ modified' \subseteq {c \in Blocks : blocks'[c] # None}
          /\ m_chunks_in_progress' \subseteq Chunks /\ failures' \in 0 .. MaxFailures
      BY <3>1, <3>2, StartOrCancel
    <3> QED BY <1>a, <3>1, <3>3 DEF TypeOK, ThreadStates
  <2>2. CASE ~InMemory(b)
    <3>1. Goes(t, "reading", b, allow_gen, NoCopies) /\ thread[t].pc # "generating"
          /\ UNCHANGED <<m_db, blocks, modified, m_chunks_in_progress, truth, exposed, counters>>
      BY <1>2, <2>2 DEF GetBlock, counters
    <3>2. /\ thread' \in [Threads -> ThreadStates] /\ thread'[t].pc = "reading"
          /\ \A u \in Threads \ {t} : thread'[u] = thread[u]
      BY <1>0, <3>1, GoesOn, Constants
    <3>3. GeneratorsAreMarked'
      BY <3>1, <3>2, MarksOfOthers
    <3> QED BY <1>a, <3>1, <3>2, <3>3 DEF TypeOK, ThreadStates, counters
  <2> QED BY <2>1, <2>2
<1>3. ASSUME NEW t \in Threads, ReadBlock(t) PROVE TypeOK' /\ GeneratorsAreMarked'
  <2>0. PICK b : b = thread[t].pos
    OBVIOUS
  <2>1. PICK copies : copies = [NoCopies EXCEPT ![b] = m_db[b]]
    OBVIOUS
  <2>2. b \in Blocks /\ thread[t].allow_gen \in BOOLEAN /\ copies \in Copies
    BY <1>0, <2>0, <2>1, Constants DEF ThreadStates, TypeOK, Copies
  <2>3. Goes(t, "read", b, thread[t].allow_gen, copies) /\ thread[t].pc # "generating"
        /\ UNCHANGED <<m_db, blocks, modified, m_chunks_in_progress, truth, exposed, counters>>
    BY <1>3, <2>0, <2>1 DEF ReadBlock
  <2>4. /\ thread' \in [Threads -> ThreadStates] /\ thread'[t].pc = "read"
        /\ \A u \in Threads \ {t} : thread'[u] = thread[u]
    BY <1>0, <2>2, <2>3, GoesOn
  <2>5. GeneratorsAreMarked'
    BY <2>3, <2>4, MarksOfOthers
  <2> QED BY <1>a, <2>3, <2>4, <2>5 DEF TypeOK, ThreadStates, counters
<1>4. ASSUME NEW t \in Threads, DecideAgain(t) PROVE TypeOK' /\ GeneratorsAreMarked'
  <2>0. PICK b, from_db : b = thread[t].pos /\ from_db = thread[t].copies[b]
    OBVIOUS
  <2>1. PICK mem : mem = IF ~InMemory(b) /\ from_db # None
                         THEN [blocks EXCEPT ![b] = from_db] ELSE blocks
    OBVIOUS
  <2>2. b \in Blocks /\ thread[t].allow_gen \in BOOLEAN /\ from_db \in Contents \cup {None}
    BY <1>0, <2>0 DEF ThreadStates, Copies
  <2>3. mem \in Copies /\ \A c \in Blocks : InMemory(c) => mem[c] = blocks[c]
    BY <2>1, <2>2 DEF TypeOK, Copies
  <2>4. /\ thread[t].pc # "generating" /\ UNCHANGED <<m_db, truth, exposed, edits, unloads>>
        /\ \/ Cancel(t, mem) /\ UNCHANGED m_chunks_in_progress
           \/ StartGenOrCancel(t, b, thread[t].allow_gen, mem)
    BY <1>4, <2>0, <2>1 DEF DecideAgain, LoadsCopy
  <2>5. CASE Cancel(t, mem) /\ UNCHANGED m_chunks_in_progress
    <3>1. Rests(t, "idle") /\ Becomes(mem, {}) /\ UNCHANGED failures
      BY <2>5 DEF Cancel
    <3>2. /\ thread' \in [Threads -> ThreadStates] /\ thread'[t].pc = "idle"
          /\ \A u \in Threads \ {t} : thread'[u] = thread[u]
      BY <1>0, <3>1, RestsOn
    <3>3. GeneratorsAreMarked'
      BY <2>4, <2>5, <3>2, MarksOfOthers
    <3>4. \A c \in Blocks : InMemory(c) => mem[c] # None
      BY <2>3 DEF InMemory
    <3>5. blocks' \in Copies /\ modified' \subseteq {c \in Blocks : blocks'[c] # None}
      BY <2>3, <3>1, <3>4, BecomesThat
    <3> QED BY <1>a, <2>4, <2>5, <3>1, <3>2, <3>3, <3>5 DEF TypeOK, ThreadStates
  <2>6. CASE StartGenOrCancel(t, b, thread[t].allow_gen, mem)
    <3>1. /\ thread' \in [Threads -> ThreadStates] /\ GeneratorsAreMarked'
          /\ blocks' \in Copies /\ modified' \subseteq {c \in Blocks : blocks'[c] # None}
          /\ m_chunks_in_progress' \subseteq Chunks /\ failures' \in 0 .. MaxFailures
      BY <2>2, <2>3, <2>4, <2>6, StartOrCancel
    <3> QED BY <1>a, <2>4, <3>1 DEF TypeOK, ThreadStates
  <2> QED BY <2>4, <2>5, <2>6
<1>5. ASSUME NEW t \in Threads, FinishGen(t) PROVE TypeOK' /\ GeneratorsAreMarked'
  <2>0. PICK b : b = thread[t].pos
    OBVIOUS
  <2>1. b \in Blocks /\ thread[t].pc = "generating"
    BY <1>0, <1>5, <2>0 DEF FinishGen, ThreadStates
  <2>2. /\ m_chunks_in_progress' = m_chunks_in_progress \ {Chunk[b]}
        /\ modified' = modified \cup Written(t)
        /\ Rests(t, "idle") /\ UNCHANGED <<m_db, exposed, counters>>
    BY <1>5, <2>0 DEF FinishGen
  <2>3. /\ thread' \in [Threads -> ThreadStates] /\ thread'[t].pc = "idle"
        /\ \A u \in Threads \ {t} : thread'[u] = thread[u]
    BY <1>0, <2>2, RestsOn
  <2>4. GeneratorsAreMarked'
    <3>1. \A u \in Threads : thread'[u].pc = "generating" <=> u # t /\ thread[u].pc = "generating"
      BY <2>3
    <3>2. \A u \in Threads \ {t} : thread[u].pc = "generating" => Chunk[thread[u].pos] # Chunk[b]
      BY <2>0, <2>1 DEF GeneratorsAreMarked
    <3>3. \A u \in Threads : thread'[u].pc = "generating"
                               => Chunk[thread'[u].pos] \in m_chunks_in_progress'
      BY <2>0, <2>1, <2>2, <2>3, <3>1, <3>2 DEF GeneratorsAreMarked
    <3> QED BY <2>3, <3>1, <3>3 DEF GeneratorsAreMarked, GeneratedBy
  <2>5. \A c \in Written(t) :
          /\ c \in Blocks /\ blocks[c] \in Contents /\ thread[t].copies[c] \in Contents
    BY <1>0 DEF Written, GeneratorsAreMarked, InMemory, TypeOK, Copies, ThreadStates
  <2>6. blocks' \in Copies /\ \A c \in Written(t) : blocks'[c] \in Contents
    BY <1>5, <2>5 DEF FinishGen, Contents, TypeOK, Copies
  <2>7. truth' \in Copies
    BY <1>5, <2>5, <2>6 DEF FinishGen, Contents, TypeOK, Copies
  <2>8. modified' \subseteq {c \in Blocks : blocks'[c] # None}
    BY <1>5, <2>2, <2>5, <2>6, Constants DEF FinishGen, TypeOK
  <2>9. m_chunks_in_progress' \subseteq Chunks
    BY <2>2 DEF TypeOK
  <2> QED BY <1>a, <2>2, <2>3, <2>4, <2>6, <2>7, <2>8, <2>9 DEF TypeOK, ThreadStates, counters
<1>6. CASE UNCHANGED vars
  BY <1>6, MarksFrame DEF vars, counters, TypeOK
<1>7. ASSUME NEW t \in Threads, LoadFails(t) \/ AbandonGen(t)
      PROVE  TypeOK' /\ GeneratorsAreMarked'
  <2>1. /\ Rests(t, "ended") \/ Rests(t, "idle")
        /\ UNCHANGED <<m_db, blocks, modified, m_chunks_in_progress, truth, exposed, edits,
                       unloads>>
    BY <1>7 DEF LoadFails, AbandonGen, counters
  <2>2. failures' \in 0 .. MaxFailures
    BY <1>7, Constants DEF LoadFails, AbandonGen, counters, TypeOK
  <2>3. /\ thread' \in [Threads -> ThreadStates] /\ thread'[t].pc \in {"idle", "ended"}
        /\ \A u \in Threads \ {t} : thread'[u] = thread[u]
    BY <1>0, <2>1, RestsOn
  <2>4. GeneratorsAreMarked'
    <3>1. \A u \in Threads : thread'[u].pc = "generating" => u # t /\ thread'[u] = thread[u]
      BY <2>3
    <3> QED BY <2>1, <3>1 DEF GeneratorsAreMarked, GeneratedBy
  <2> QED BY <1>a, <2>1, <2>2, <2>3, <2>4 DEF TypeOK, ThreadStates
<1> QED BY <1>1, <1>2, <1>3, <1>4, <1>5, <1>6, <1>7 DEF Next

\* The types of the map's state.
THEOREM MapTypes == Spec => []TypeOK
<1> QED BY TypeAndMarksInit, TypeAndMarksStep, PTL DEF Spec

-----------------------------------------------------------------------------
(* No change of a block is lost as long as it is not exposed: what a thread *)
(* has read of it is still stored, and what a thread will write back is    *)
(* what it should be.                                                      *)

Safe(c) ==
  /\ HoldsTruth(c)
  /\ InMemory(c) /\ c \notin modified => blocks[c] = m_db[c]
  /\ \A t \in Threads : ReadBy(t, c) /\ ~InMemory(c) => thread[t].copies[c] = m_db[c]
  /\ \A t \in Threads : GeneratedBy(t, c) => thread[t].copies[c].edits = EditsOf(truth[c])

NoneLost == \A c \in Blocks \ exposed : Safe(c)

LEMMA SameEdits ==
  ASSUME NEW x, NEW y, Same(x, y)
  PROVE  EditsOf(x) = EditsOf(y) /\ (x # None /\ y # None => x = y)
<1>1. Blank.edits = {}
  BY DEF Blank
<1>2. (x \in {None, Blank} /\ y \in {None, Blank}) \/ x = y
  BY DEF Same
<1> QED BY <1>1, <1>2, Constants DEF EditsOf

LEMMA NoneLostInit == Init => NoneLost
BY Constants DEF Init, NoneLost, Safe, HoldsTruth, Same, InMemory, ReadBy, GeneratedBy, NoCopies

\* A block a step does not touch, while threads only go on to other things.
LEMMA Untouched ==
  ASSUME NEW c \in Blocks, Safe(c),
         blocks'[c] = blocks[c], m_db'[c] = m_db[c], truth'[c] = truth[c],
         c \in modified => c \in modified',
         \A t \in Threads : \/ thread'[t] = thread[t]
                            \/ thread'[t].pc \notin {"read", "generating"}
  PROVE  Safe(c)'
BY DEF Safe, HoldsTruth, InMemory, ReadBy, GeneratedBy

\* The steps of the server thread.
LEMMA SafeServer ==
  ASSUME TypeOK, NoneLost,
         \/ \E b \in Blocks : Edit(b) \/ DeleteBlock(b)
         \/ \E b \in Blocks, create_blank \in BOOLEAN : EmergeBlock(b, create_blank)
         \/ \E saved \in SUBSET Blocks : Save(saved)
         \/ \E due, fail \in SUBSET Blocks : TimerUpdate(due, fail)
  PROVE  NoneLost'
<1>0. UNCHANGED thread /\ exposed \subseteq exposed'
  BY DEF Edit, DeleteBlock, EmergeBlock, Save, TimerUpdate
<1> SUFFICES ASSUME NEW c \in Blocks, c \notin exposed' PROVE Safe(c)'
  BY DEF NoneLost
<1>a. Safe(c) /\ c \notin exposed
  BY <1>0 DEF NoneLost
<1>1. ASSUME NEW b \in Blocks, Edit(b) PROVE Safe(c)'
  <2>1. PICK new : new = [blocks[b] EXCEPT !.edits = @ \cup {edits + 1}]
    OBVIOUS
  <2>2. /\ blocks' = [blocks EXCEPT ![b] = new] /\ truth' = [truth EXCEPT ![b] = blocks'[b]]
        /\ modified' = modified \cup {b} /\ UNCHANGED m_db /\ InMemory(b)
    BY <1>1, <2>1 DEF Edit
  <2>3. CASE b # c
    <3>1. blocks'[c] = blocks[c] /\ truth'[c] = truth[c]
      BY <2>2, <2>3 DEF TypeOK, Copies
    <3> QED BY <1>0, <1>a, <2>2, <3>1, Untouched
  <2>4. CASE b = c
    <3>1. ~\E t \in Threads : GeneratedBy(t, c)
      BY <1>1, <2>4 DEF Edit
    <3>2. blocks'[c] = new /\ truth'[c] = new
      BY <2>2, <2>4 DEF TypeOK, Copies
    <3>3. new # None
      <4>1. blocks[b] \in Contents /\ edits \in 0 .. MaxEdits /\ edits < MaxEdits
        BY <1>1, <2>2 DEF Edit, InMemory, TypeOK, Copies
      <4>2. new \in Contents
        BY <2>1, <4>1, Constants DEF Contents
      <4> QED BY <4>2, Constants
    <3> QED BY <1>0, <2>2, <2>4, <3>1, <3>2, <3>3
            DEF Safe, HoldsTruth, InMemory, Same, ReadBy, GeneratedBy
  <2> QED BY <2>3, <2>4
<1>2. ASSUME NEW b \in Blocks, DeleteBlock(b) PROVE Safe(c)'
  <2>1. /\ m_db' = [m_db EXCEPT ![b] = None] /\ blocks' = [blocks EXCEPT ![b] = None]
        /\ truth' = [truth EXCEPT ![b] = None] /\ modified' = modified \ {b}
    BY <1>2 DEF DeleteBlock, StillModified
  <2>2. CASE b # c
    <3>1. blocks'[c] = blocks[c] /\ truth'[c] = truth[c] /\ m_db'[c] = m_db[c]
      BY <2>1, <2>2 DEF TypeOK, Copies
    <3> QED BY <1>0, <1>a, <2>1, <2>2, <3>1, Untouched
  <2>3. CASE b = c
    <3>1. ~\E t \in Threads : ReadBy(t, c) \/ GeneratedBy(t, c)
      BY <1>2, <2>3 DEF DeleteBlock
    <3>2. blocks'[c] = None /\ truth'[c] = None /\ m_db'[c] = None
      BY <2>1, <2>3 DEF TypeOK, Copies
    <3> QED BY <1>0, <3>1, <3>2 DEF Safe, HoldsTruth, InMemory, Same, ReadBy, GeneratedBy
  <2> QED BY <2>2, <2>3
<1>3. ASSUME NEW b \in Blocks, NEW create_blank \in BOOLEAN, EmergeBlock(b, create_blank)
      PROVE  Safe(c)'
  <2>0. PICK mem : mem = [blocks EXCEPT ![b] = Loaded(b)]
    OBVIOUS
  <2>1. Becomes(mem, Created(blocks, {b})) /\ UNCHANGED <<m_db, truth>> /\ ~InMemory(b)
    BY <1>3, <2>0 DEF EmergeBlock
  <2>2. Loaded(b) \in Contents
    BY LoadedType
  <2>3. /\ mem \in Copies /\ \A x \in Blocks : InMemory(x) => mem[x] # None
        /\ \A x \in Created(blocks, {b}) : x \in Blocks /\ mem[x] # None
    BY <2>0, <2>2, Constants DEF TypeOK, Copies, Created, InMemory
  <2>4. blocks' = mem /\ \A x : x \in modified \/ x \in Created(blocks, {b}) => x \in modified'
    BY <2>1, <2>3, BecomesThat
  <2>5. CASE b # c
    <3>1. blocks'[c] = blocks[c]
      BY <2>0, <2>4, <2>5 DEF TypeOK, Copies
    <3> QED BY <1>0, <1>a, <2>1, <2>4, <3>1, Untouched
  <2>6. CASE b = c
    <3>1. blocks'[c] = Loaded(c) /\ Loaded(c) # None
      BY <2>0, <2>2, <2>4, <2>6, Constants DEF TypeOK, Copies
    <3>2. Same(m_db[c], truth[c])
      BY <1>a, <2>1, <2>6 DEF Safe, HoldsTruth
    <3>3. Same(Loaded(c), truth[c])
      BY <3>2, Constants DEF Loaded, Same
    <3>4. m_db[c] = None => c \in modified'
      BY <2>1, <2>4, <2>6 DEF Created, InMemory
    <3> QED BY <1>0, <1>a, <2>1, <3>1, <3>3, <3>4
            DEF Safe, HoldsTruth, InMemory, ReadBy, GeneratedBy, Loaded
  <2> QED BY <2>5, <2>6
<1>4. ASSUME NEW saved \in SUBSET Blocks, Save(saved) PROVE Safe(c)'
  <2>1. /\ m_db'[c] = IF c \in saved THEN blocks[c] ELSE m_db[c]
        /\ modified' = modified \ saved /\ saved \subseteq modified /\ UNCHANGED <<blocks, truth>>
    BY <1>4 DEF Save, Stored
  <2>2. CASE c \notin saved
    BY <1>0, <1>a, <2>1, <2>2, Untouched
  <2>3. CASE c \in saved
    <3>1. InMemory(c)
      BY <2>1, <2>3 DEF TypeOK, InMemory
    <3> QED BY <1>0, <1>a, <2>1, <2>3, <3>1
            DEF Safe, HoldsTruth, InMemory, ReadBy, GeneratedBy
  <2> QED BY <2>2, <2>3
<1>5. ASSUME NEW due \in SUBSET Blocks, NEW fail \in SUBSET Blocks, TimerUpdate(due, fail)
      PROVE  Safe(c)'
  <2>0. PICK gone : gone = (due \ fail) \cup WithSector(due)
    OBVIOUS
  <2>1. /\ m_db' = Stored((due \cap modified) \ fail)
        /\ blocks' = [b \in Blocks |-> IF b \in gone THEN None ELSE blocks[b]]
        /\ modified' = modified \ gone
        /\ exposed' = exposed \cup (fail \cap gone)
                        \cup {b \in gone : \E t \in Threads : ReadBy(t, b)}
        /\ UNCHANGED truth /\ \A b \in due : InMemory(b)
    BY <1>5, <2>0, Zenon DEF TimerUpdate, StillModified
  <2>2. /\ m_db'[c] = IF c \in (due \cap modified) \ fail THEN blocks[c] ELSE m_db[c]
        /\ blocks'[c] = IF c \in gone THEN None ELSE blocks[c]
    BY <2>1 DEF Stored
  <2>3. CASE c \notin gone
    BY <1>0, <1>a, <2>0, <2>1, <2>2, <2>3, Untouched
  <2>4. CASE c \in gone
    <3>1. c \notin fail /\ ~\E t \in Threads : ReadBy(t, c)
      BY <2>1, <2>4
    <3>2. c \in due /\ InMemory(c)
      BY <2>0, <2>1, <2>4 DEF WithSector
    <3>3. m_db'[c] = blocks[c]
      BY <1>a, <2>2, <3>1, <3>2 DEF Safe
    <3> QED BY <1>0, <1>a, <2>1, <2>2, <2>4, <3>1, <3>2, <3>3
            DEF Safe, HoldsTruth, InMemory, ReadBy, GeneratedBy
  <2> QED BY <2>3, <2>4
<1> QED BY <1>1, <1>2, <1>3, <1>4, <1>5

\* A block that is brought to memory as it is stored, or created, or not brought there,
\* in a step after which the thread rests or generates: mem is the memory before that.
LEMMA SafePart ==
  ASSUME TypeOK, NEW c \in Blocks, Safe(c), NEW t \in Threads,
         NEW mem \in Copies, NEW part \in SUBSET Blocks,
         InMemory(c) => mem[c] = blocks[c],
         ~InMemory(c) => mem[c] \in {None, m_db[c]},
         blocks' = WithBlocks(mem, part), UNCHANGED <<m_db, truth>>,
         \A x : x \in modified \/ x \in Created(mem, part) => x \in modified',
         \A u \in Threads \ {t} : thread'[u] = thread[u],
         \/ thread'[t].pc \in {"idle", "ended"}
         \/ /\ thread'[t].pc = "generating" /\ part = Area[Chunk[thread'[t].pos]]
            /\ \A x \in part : thread'[t].copies[x] = blocks'[x]
  PROVE  Safe(c)'
<1>1. blocks'[c] = IF c \notin part \/ mem[c] # None THEN mem[c] ELSE Loaded(c)
  BY PartType
<1>2. c \in part => blocks'[c] # None
  BY PartType
<1>3. Same(IF blocks'[c] # None THEN blocks'[c] ELSE m_db[c], truth[c])
  BY Constants, <1>1 DEF Safe, HoldsTruth, InMemory, Loaded, Same
<1>4. blocks'[c] # None /\ c \notin modified' => blocks'[c] = m_db[c]
  BY <1>1 DEF Safe, InMemory, Loaded, Created
<1>5. \A u \in Threads : ReadBy(u, c)' /\ ~InMemory(c)' => thread'[u].copies[c] = m_db'[c]
  <2>1. InMemory(c) => InMemory(c)'
    BY <1>1 DEF InMemory
  <2>2. \A u \in Threads : ReadBy(u, c)' => ReadBy(u, c) /\ thread'[u] = thread[u]
    BY DEF ReadBy
  <2> QED BY <2>1, <2>2 DEF Safe
<1>6. \A u \in Threads : GeneratedBy(u, c)' => thread'[u].copies[c].edits = EditsOf(truth[c])
  <2>1. \A u \in Threads \ {t} : GeneratedBy(u, c)' => GeneratedBy(u, c) /\ thread'[u] = thread[u]
    BY DEF GeneratedBy
  <2>2. GeneratedBy(t, c)' => c \in part /\ thread'[t].copies[c] = blocks'[c]
    BY DEF GeneratedBy
  <2>3. c \in part => blocks'[c].edits = EditsOf(truth[c])
    BY <1>2, <1>3, SameEdits DEF EditsOf
  <2> QED BY <2>1, <2>2, <2>3 DEF Safe
<1>7. HoldsTruth(c)' /\ (InMemory(c)' /\ c \notin modified' => blocks'[c] = m_db'[c])
  BY <1>3, <1>4 DEF HoldsTruth, InMemory
<1>8. (\A u \in Threads : GeneratedBy(u, c) => thread[u].copies[c].edits = EditsOf(truth[c]))'
  BY <1>6 DEF EditsOf
<1> QED BY <1>5, <1>7, <1>8 DEF Safe

\* With no part of an area.
LEMMA SafeCancel ==
  ASSUME TypeOK, NEW c \in Blocks, Safe(c), NEW t \in Threads, NEW mem \in Copies,
         \A x \in Blocks : InMemory(x) => mem[x] = blocks[x],
         ~InMemory(c) => mem[c] \in {None, m_db[c]},
         Cancel(t, mem), UNCHANGED <<m_db, truth>>
  PROVE  Safe(c)'
<1>0. thread \in [Threads -> ThreadStates]
  BY DEF TypeOK, ThreadStates
<1>1. Rests(t, "idle") /\ Becomes(mem, {})
  BY DEF Cancel
<1>2. thread'[t].pc = "idle" /\ \A u \in Threads \ {t} : thread'[u] = thread[u]
  BY <1>0, <1>1, RestsOn
<1>3. \A x \in Blocks : InMemory(x) => mem[x] # None
  BY DEF InMemory
<1>4. blocks' = mem /\ \A x : x \in modified => x \in modified'
  BY <1>1, <1>3, BecomesThat
<1>5. CASE InMemory(c)
  BY <1>2, <1>4, <1>5, Untouched
<1>6. CASE ~InMemory(c)
  BY <1>2, <1>4, <1>6 DEF Safe, HoldsTruth, InMemory, ReadBy, GeneratedBy
<1> QED BY <1>5, <1>6

LEMMA SafeStart ==
  ASSUME TypeOK, NEW c \in Blocks, Safe(c), NEW t \in Threads,
         NEW b \in Blocks, NEW allow_gen \in BOOLEAN, NEW mem \in Copies,
         \A x \in Blocks : InMemory(x) => mem[x] = blocks[x],
         ~InMemory(c) => mem[c] \in {None, m_db[c]},
         StartGenOrCancel(t, b, allow_gen, mem), UNCHANGED <<m_db, truth>>
  PROVE  Safe(c)'
<1>0. thread \in [Threads -> ThreadStates]
  BY DEF TypeOK, ThreadStates
<1>1. CASE Cancel(t, mem)
  BY <1>1, SafeCancel
<1>2. CASE BorderLoadFails(t, b, mem)
  <2>1. PICK part \in SUBSET Blocks :
          /\ blocks' = WithBlocks(mem, part)
          /\ \A x : x \in modified \/ x \in Created(mem, part) => x \in modified'
    BY <1>2, FailsWithPart
  <2>2. Rests(t, "ended")
    BY <1>2 DEF BorderLoadFails
  <2>3. thread'[t].pc = "ended" /\ \A u \in Threads \ {t} : thread'[u] = thread[u]
    BY <1>0, <2>2, RestsOn
  <2> QED BY <2>1, <2>3, SafePart
<1>3. CASE StartGen(t, b, mem)
  <2>0. PICK area, copies :
          /\ area = WithBlocks(mem, Area[Chunk[b]])
          /\ copies = [x \in Blocks |-> IF x \in Area[Chunk[b]] THEN area[x] ELSE None]
    OBVIOUS
  <2>1. /\ Becomes(area, Created(mem, Area[Chunk[b]]))
        /\ Goes(t, "generating", b, TRUE, copies)
    BY <1>3, <2>0 DEF StartGen
  <2>2. Area[Chunk[b]] \in SUBSET Blocks
    BY Constants
  <2>3. /\ area \in Copies
        /\ \A x \in Created(mem, Area[Chunk[b]]) : x \in Blocks /\ area[x] # None
        /\ \A x \in Blocks : InMemory(x) => area[x] # None
    BY <2>0, <2>2, PartType DEF InMemory
  <2>4. copies \in Copies /\ \A x \in Area[Chunk[b]] : copies[x] = area[x]
    BY <2>0, <2>2, <2>3 DEF Copies
  <2>5. /\ blocks' = area
        /\ \A x : x \in modified \/ x \in Created(mem, Area[Chunk[b]]) => x \in modified'
    BY <2>1, <2>3, BecomesThat
  <2>6. /\ thread' \in [Threads -> ThreadStates]
        /\ thread'[t].pc = "generating" /\ thread'[t].pos = b /\ thread'[t].copies = copies
        /\ \A u \in Threads \ {t} : thread'[u] = thread[u]
    BY <1>0, <2>1, <2>4, GoesOn
  <2> QED BY <2>0, <2>2, <2>4, <2>5, <2>6, SafePart
<1> QED BY <1>1, <1>2, <1>3, StartCases

LEMMA NoneLostStep == TypeOK /\ GeneratorsAreMarked /\ NoneLost /\ [Next]_vars => NoneLost'
<1> SUFFICES ASSUME TypeOK, GeneratorsAreMarked, NoneLost, [Next]_vars PROVE NoneLost'
  OBVIOUS
<1>0. thread \in [Threads -> ThreadStates]
  BY DEF TypeOK, ThreadStates
<1>1. CASE \/ \E b \in Blocks : Edit(b) \/ DeleteBlock(b)
           \/ \E b \in Blocks, create_blank \in BOOLEAN : EmergeBlock(b, create_blank)
           \/ \E saved \in SUBSET Blocks : Save(saved)
           \/ \E due, fail \in SUBSET Blocks : TimerUpdate(due, fail)
  BY <1>1, SafeServer
<1>2. ASSUME NEW t \in Threads, NEW b \in Blocks, NEW allow_gen \in BOOLEAN,
             GetBlock(t, b, allow_gen), NEW c \in Blocks \ exposed, Safe(c)
      PROVE  Safe(c)'
  <2>1. CASE InMemory(b)
    <3>1. StartGenOrCancel(t, b, allow_gen, blocks) /\ UNCHANGED <<m_db, truth>>
      BY <1>2, <2>1 DEF GetBlock
    <3>2. blocks \in Copies /\ (~InMemory(c) => blocks[c] \in {None, m_db[c]})
      BY DEF TypeOK, InMemory
    <3> QED BY <1>2, <3>1, <3>2, SafeStart
  <2>2. CASE ~InMemory(b)
    <3>1. Goes(t, "reading", b, allow_gen, NoCopies)
          /\ UNCHANGED <<m_db, blocks, modified, truth>>
      BY <1>2, <2>2 DEF GetBlock
    <3>2. thread'[t].pc = "reading" /\ \A u \in Threads \ {t} : thread'[u] = thread[u]
      BY <1>0, <3>1, GoesOn, Constants
    <3> QED BY <1>2, <3>1, <3>2, Untouched
  <2> QED BY <2>1, <2>2
<1>3. ASSUME NEW t \in Threads, ReadBlock(t), NEW c \in Blocks \ exposed, Safe(c)
      PROVE  Safe(c)'
  <2>0. PICK b, copies : b = thread[t].pos /\ copies = [NoCopies EXCEPT ![b] = m_db[b]]
    OBVIOUS
  <2>1. b \in Blocks /\ thread[t].allow_gen \in BOOLEAN /\ copies \in Copies
    BY <1>0, <2>0, Constants DEF ThreadStates, TypeOK, Copies
  <2>2. Goes(t, "read", b, thread[t].allow_gen, copies)
        /\ UNCHANGED <<m_db, blocks, modified, truth>>
    BY <1>3, <2>0 DEF ReadBlock
  <2>3. /\ thread'[t].pc = "read" /\ thread'[t].pos = b /\ thread'[t].copies = copies
        /\ \A u \in Threads \ {t} : thread'[u] = thread[u]
    BY <1>0, <2>1, <2>2, GoesOn
  <2>4. copies[b] = m_db[b]
    BY <2>0, <2>1 DEF NoCopies
  <2> QED BY <1>3, <2>2, <2>3, <2>4 DEF Safe, HoldsTruth, InMemory, ReadBy, GeneratedBy
<1>4. ASSUME NEW t \in Threads, DecideAgain(t), NEW c \in Blocks \ exposed, Safe(c)
      PROVE  Safe(c)'
  <2>0. PICK b, from_db : b = thread[t].pos /\ from_db = thread[t].copies[b]
    OBVIOUS
  <2>1. PICK mem : mem = IF ~InMemory(b) /\ from_db # None
                         THEN [blocks EXCEPT ![b] = from_db] ELSE blocks
    OBVIOUS
  <2>2. /\ b \in Blocks /\ thread[t].allow_gen \in BOOLEAN /\ from_db \in Contents \cup {None}
        /\ ReadBy(t, b)
    BY <1>0, <1>4, <2>0 DEF DecideAgain, ThreadStates, Copies, ReadBy
  <2>3. mem \in Copies /\ \A x \in Blocks : InMemory(x) => mem[x] = blocks[x]
    BY <2>1, <2>2 DEF TypeOK, Copies
  <2>4. ~InMemory(c) => mem[c] \in {None, m_db[c]}
    <3>1. CASE b = c
      BY <1>4, <2>0, <2>1, <2>2, <3>1 DEF Safe, TypeOK, Copies, InMemory
    <3>2. CASE b # c
      BY <2>1, <3>2 DEF TypeOK, Copies, InMemory
    <3> QED BY <3>1, <3>2
  <2>5. /\ UNCHANGED <<m_db, truth>>
        /\ Cancel(t, mem) \/ StartGenOrCancel(t, b, thread[t].allow_gen, mem)
    BY <1>4, <2>0, <2>1 DEF DecideAgain, LoadsCopy
  <2>6. CASE Cancel(t, mem)
    BY <1>4, <2>3, <2>4, <2>5, <2>6, SafeCancel
  <2>7. CASE StartGenOrCancel(t, b, thread[t].allow_gen, mem)
    BY <1>4, <2>2, <2>3, <2>4, <2>5, <2>7, SafeStart
  <2> QED BY <2>5, <2>6, <2>7
<1>5. ASSUME NEW t \in Threads, FinishGen(t), NEW c \in Blocks \ exposed, Safe(c)
      PROVE  Safe(c)'
  <2>0. PICK b : b = thread[t].pos
    OBVIOUS
  <2>1. b \in Blocks /\ thread[t].pc = "generating"
    BY <1>0, <1>5, <2>0 DEF FinishGen, ThreadStates
  <2>2. modified' = modified \cup Written(t) /\ Rests(t, "idle") /\ UNCHANGED m_db
    BY <1>5, <2>0 DEF FinishGen
  <2>3. thread'[t].pc = "idle" /\ \A u \in Threads \ {t} : thread'[u] = thread[u]
    BY <1>0, <2>2, RestsOn
  <2>4. CASE c \notin Written(t)
    <3>1. blocks'[c] = blocks[c] /\ truth'[c] = truth[c]
      BY <1>5, <2>4 DEF FinishGen
    <3> QED BY <1>5, <2>2, <2>3, <3>1, Untouched
  <2>5. CASE c \in Written(t)
    <3>1. /\ blocks[c] \in Contents /\ blocks[c] # None /\ InMemory(c)
          /\ thread[t].copies[c] \in Contents
          /\ thread[t].copies[c].edits = EditsOf(truth[c])
      BY <1>0, <1>5, <2>5
      DEF Written, GeneratorsAreMarked, InMemory, TypeOK, Copies, ThreadStates, Safe
    <3>2. PICK gen : gen = (Chunk[c] = Chunk[b])
      OBVIOUS
    <3>3. PICK edited : edited = [blocks[c] EXCEPT !.edits = thread[t].copies[c].edits]
      OBVIOUS
    <3>4. /\ blocks'[c] = [edited EXCEPT !.generated = @ \/ gen]
          /\ truth'[c] = IF truth[c] = None THEN blocks'[c]
                         ELSE [truth[c] EXCEPT !.generated = @ \/ gen]
      BY <1>5, <2>0, <2>5, <3>2, <3>3 DEF FinishGen
    <3>5. blocks'[c] = truth'[c]
      <4>1. CASE truth[c] = None
        BY <3>4, <4>1
      <4>2. CASE truth[c] # None
        <5>1. truth[c] = blocks[c]
          BY <1>5, <3>1, <4>2, SameEdits DEF Safe, HoldsTruth
        <5>2. edited = blocks[c]
          BY <3>1, <3>3, <4>2, <5>1 DEF EditsOf, Contents
        <5> QED BY <3>4, <4>2, <5>1, <5>2
      <4> QED BY <4>1, <4>2
    <3>6. edited \in Contents /\ edited.edits = EditsOf(truth[c])
      BY <3>1, <3>3 DEF Contents
    <3>7. blocks'[c] \in Contents /\ blocks'[c].edits = EditsOf(truth[c])
      BY <3>2, <3>4, <3>6 DEF Contents
    <3>8. EditsOf(truth'[c]) = EditsOf(truth[c]) /\ blocks'[c] # None
      BY <3>5, <3>7, Constants DEF EditsOf
    <3>9. HoldsTruth(c)'
      BY <3>5, <3>8 DEF HoldsTruth, InMemory, Same
    <3>10. c \in modified' /\ InMemory(c)'
      BY <2>2, <2>5, <3>8 DEF InMemory
    <3>11. \A u \in Threads : GeneratedBy(u, c)' => thread'[u].copies[c].edits = EditsOf(truth[c])
      BY <1>5, <2>3 DEF Safe, GeneratedBy
    <3>12. (\A u \in Threads : GeneratedBy(u, c) => thread[u].copies[c].edits = EditsOf(truth[c]))'
      BY <3>8, <3>11 DEF EditsOf
    <3> QED BY <3>9, <3>10, <3>12 DEF Safe
  <2> QED BY <2>4, <2>5
<1>8. ASSUME NEW t \in Threads, LoadFails(t) \/ AbandonGen(t), NEW c \in Blocks \ exposed, Safe(c)
      PROVE  Safe(c)'
  <2>1. Rests(t, "ended") \/ Rests(t, "idle")
    BY <1>8 DEF LoadFails, AbandonGen
  <2>2. UNCHANGED <<m_db, blocks, modified, truth>>
    BY <1>8 DEF LoadFails, AbandonGen
  <2>3. thread'[t].pc \in {"idle", "ended"} /\ \A u \in Threads \ {t} : thread'[u] = thread[u]
    BY <1>0, <2>1, RestsOn
  <2> QED BY <1>8, <2>2, <2>3, Untouched
<1>6. ASSUME NEW c \in Blocks \ exposed, UNCHANGED vars, Safe(c) PROVE Safe(c)'
  BY <1>6, Untouched DEF vars
<1>7. CASE ~(\/ \E b \in Blocks : Edit(b) \/ DeleteBlock(b)
             \/ \E b \in Blocks, create_blank \in BOOLEAN : EmergeBlock(b, create_blank)
             \/ \E saved \in SUBSET Blocks : Save(saved)
             \/ \E due, fail \in SUBSET Blocks : TimerUpdate(due, fail))
  <2>1. UNCHANGED exposed
    BY <1>7 DEF Next, GetBlock, ReadBlock, DecideAgain, LoadFails, FinishGen, AbandonGen, vars
  <2>2. \A c \in Blocks \ exposed : Safe(c)'
    BY <1>2, <1>3, <1>4, <1>5, <1>6, <1>7, <1>8 DEF Next, NoneLost
  <2> QED BY <2>1, <2>2 DEF NoneLost
<1> QED BY <1>1, <1>7

\* The inductive invariant: types, marks, and what is safe of each block.
LEMMA MapInvariant == Spec => [](TypeOK /\ GeneratorsAreMarked /\ NoneLost)
<1>1. Init => TypeOK /\ GeneratorsAreMarked /\ NoneLost
  BY TypeAndMarksInit, NoneLostInit
<1>2. TypeOK /\ GeneratorsAreMarked /\ NoneLost /\ [Next]_vars
        => (TypeOK /\ GeneratorsAreMarked /\ NoneLost)'
  BY TypeAndMarksStep, NoneLostStep
<1> QED BY <1>1, <1>2, PTL DEF Spec

\* Whatever order loads, saves, unloads, edits and generation come in, a block holds
\* what was done to it, unless it was in one of the situations named by exposed.
THEOREM ChangesAreKept == Spec => []NoOtherChangeLost
<1>1. NoneLost => NoOtherChangeLost
  BY DEF NoneLost, Safe, NoOtherChangeLost
<1> QED BY MapInvariant, <1>1, PTL

\* A block that counts as unmodified may be unloaded without being saved.
THEOREM UnmodifiedAreStored == Spec => []CleanIsStored
<1>1. NoneLost => CleanIsStored
  BY DEF NoneLost, Safe, CleanIsStored
<1> QED BY MapInvariant, <1>1, PTL

\* A chunk is generated by one thread at a time, under the chunk's mark, and what the
\* thread will write back (servermap.cpp:278) has every edit of a block that was not exposed.
THEOREM ChunksAreGeneratedSafely == Spec => []GenerationIsSafe
<1>1. GeneratorsAreMarked /\ NoneLost => GenerationIsSafe
  BY DEF NoneLost, Safe, GenerationIsSafe
<1> QED BY MapInvariant, <1>1, PTL

=============================================================================
