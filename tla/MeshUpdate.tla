----------------------------- MODULE MeshUpdate -----------------------------
(***************************************************************************)
(* The client's mesh updates (client/mesh_generator_thread.cpp): the main  *)
(* thread changes blocks and queues mesh updates, worker threads copy the  *)
(* blocks' data without a lock and make meshes, and the main thread shows  *)
(* the results (Client::step) and acknowledges the blocks.  The size of a  *)
(* mesh is one block, the default of client_mesh_chunk.                    *)
(*                                                                         *)
(* The data of a block is a number that every write raises by two, and     *)
(* that is odd while a write is under way: a copy with an odd number is    *)
(* torn.  MeshUpdate is what BlockSending takes for its acks.              *)
(***************************************************************************)
EXTENDS Integers, FiniteSets, SequencesExt

CONSTANTS
  Blocks,
  Neighbors,  \* of each block the neighbors, in the order of g_26dirs
  Workers,
  MaxWrites, MaxUnloads  \* bounds

NoBlock == 0
Data == 0 .. 2 * MaxWrites

ASSUME MeshAssumption ==
  /\ IsFiniteSet(Blocks) /\ IsFiniteSet(Workers)
  /\ Neighbors \in [Blocks -> Seq(Blocks)]
  /\ MaxWrites \in Nat /\ MaxUnloads \in Nat
  /\ \A b, c \in Blocks : b \in ToSet(Neighbors[c]) => c \in ToSet(Neighbors[b])
  /\ \A b \in Blocks : b \notin ToSet(Neighbors[b])

VARIABLES
  \* the main thread and the client's map
  main,      \* [pc, todo, block, ack, urgent]: where it is and what it has to queue
  map,       \* data of every block
  refs,      \* refGet() of every block
  mesh,      \* what the mesh of every block was made from
  \* MeshUpdateQueue, guarded by m_mutex
  m_queue, m_urgents, m_inflight_blocks,
  \* MeshUpdateManager
  m_queue_out, m_queue_out_urgent,
  semaphore, \* workers whose m_update_sem is not 0
  worker,    \* of each: [pc, q, copy]
  \* history
  received,  \* blocks received and not yet acknowledged, with their data
  overtaken, \* blocks whose new mesh was shown while an older one waited
  writes, unloads

queueVars == <<m_queue, m_urgents, m_inflight_blocks>>
mapVars == <<map, refs, mesh>>
outVars == <<m_queue_out, m_queue_out_urgent>>
history == <<received, overtaken, writes, unloads>>
vars == <<main, mapVars, queueVars, outVars, semaphore, worker, history>>

Copies == [Blocks -> Data]
Nothing == [b \in Blocks |-> NoBlock]
Acks == [block : Blocks, data : Data]
QueuedMeshUpdate ==
  [p : Blocks, ack_list : SUBSET Acks, urgent : BOOLEAN, map_blocks : SUBSET Blocks]
MeshUpdateResult ==
  [p : Blocks, ack_list : SUBSET Acks, urgent : BOOLEAN, map_blocks : SUBSET Blocks,
   mesh : Copies]
NoUpdate(b) == [p |-> b, ack_list |-> {}, urgent |-> FALSE, map_blocks |-> {}]

TypeOK ==
  /\ main \in [pc : {"step", "writing", "queueing", "replacing"}, todo : Seq(Blocks),
               block : Blocks, ack : BOOLEAN, urgent : BOOLEAN]
  /\ map \in Copies /\ mesh \in [Blocks -> Copies]
  /\ refs \in [Blocks -> Nat]
  /\ m_queue \in Seq(QueuedMeshUpdate)
  /\ m_urgents \subseteq Blocks /\ m_inflight_blocks \subseteq Blocks
  /\ m_queue_out \in Seq(MeshUpdateResult) /\ m_queue_out_urgent \in Seq(MeshUpdateResult)
  /\ semaphore \subseteq Workers
  /\ worker \in [Workers -> [pc : {"wait", "pop", "fill", "make", "done"},
                             q : QueuedMeshUpdate, left : SUBSET Blocks, copy : Copies]]
  /\ received \subseteq Acks /\ overtaken \subseteq Blocks
  /\ writes \in 0 .. MaxWrites /\ unloads \in 0 .. MaxUnloads

Loaded(b) == map[b] # NoBlock
Reads(p) == {p} \cup ToSet(Neighbors[p])

Init ==
  /\ \E b \in Blocks :
       /\ main = [pc |-> "step", todo |-> <<>>, block |-> b, ack |-> FALSE, urgent |-> FALSE]
       /\ worker = [w \in Workers |-> [pc |-> "wait", q |-> NoUpdate(b), left |-> {},
                                       copy |-> Nothing]]
  /\ map = Nothing /\ refs = [b \in Blocks |-> 0] /\ mesh = [b \in Blocks |-> Nothing]
  /\ m_queue = <<>> /\ m_urgents = {} /\ m_inflight_blocks = {}
  /\ m_queue_out = <<>> /\ m_queue_out_urgent = <<>>
  /\ semaphore = {}
  /\ received = {} /\ overtaken = {} /\ writes = 0 /\ unloads = 0

-----------------------------------------------------------------------------
(* The main thread *)

\* A block arrives (handleCommand_BlockData), or a node of one changes (addNode and
\* removeNode, the server's or predicted), which is urgent and needs no ack.
BeginWrite(b, node) ==
  /\ main.pc = "step"
  /\ writes < MaxWrites
  /\ node => Loaded(b)
  /\ map' = [map EXCEPT ![b] = 2 * writes + 1]
  /\ main' = [pc |-> "writing", todo |-> <<b>> \o Neighbors[b], block |-> b,
              ack |-> ~node, urgent |-> node]
  /\ writes' = writes + 1
  /\ UNCHANGED <<refs, mesh, queueVars, outVars, semaphore, worker, received, overtaken,
                 unloads>>

EndWrite ==
  /\ main.pc = "writing"
  /\ map' = [map EXCEPT ![main.block] = @ + 1]
  /\ main' = [main EXCEPT !.pc = "queueing"]
  /\ received' = IF main.ack
                 THEN received \cup {[block |-> main.block, data |-> map'[main.block]]}
                 ELSE received
  /\ UNCHANGED <<refs, mesh, queueVars, outVars, semaphore, worker, overtaken, writes,
                 unloads>>

Grab_Mutant(bs) == UNCHANGED refs

Grab(bs) == refs' = [b \in Blocks |-> IF b \in bs THEN refs[b] + 1 ELSE refs[b]]

Drop_Mutant(bs) == UNCHANGED refs

Drop(bs) == refs' = [b \in Blocks |-> IF b \in bs THEN refs[b] - 1 ELSE refs[b]]

Queued(p) == {i \in DOMAIN m_queue : m_queue[i].p = p}

Missing(q) == {b \in Reads(q.p) \ q.map_blocks : Loaded(b)}

\* MeshUpdateQueue::addBlock with m_mutex held.  An update of the position that is still
\* in the queue takes this one in.
AddBlock(p, ack, urgent) ==
  LET acks == IF ack THEN {[block |-> p, data |-> map[p]]} ELSE {}
      fresh == [NoUpdate(p) EXCEPT !.ack_list = acks, !.urgent = urgent]
      Merged(q) == [q EXCEPT !.ack_list = @ \cup acks, !.urgent = @ \/ urgent,
                             !.map_blocks = @ \cup Missing(q)]
  IN  /\ m_urgents' = IF urgent THEN m_urgents \cup {p} ELSE m_urgents
      /\ \/ \E i \in Queued(p) :
              /\ m_queue' = [m_queue EXCEPT ![i] = Merged(@)]
              /\ Grab(Missing(m_queue[i]))
         \/ /\ Queued(p) = {}
            /\ m_queue' = Append(m_queue, Merged(fresh))
            /\ Grab(Missing(fresh))

AcksServer_Mutant(p) == main.ack

AcksServer(p) == main.ack /\ p = main.block

\* MeshUpdateManager::updateBlock queues the block and then its neighbors.
UpdateBlock ==
  /\ main.pc = "queueing" /\ main.todo # <<>>
  /\ LET p == Head(main.todo)
     IN  IF Loaded(p)
         THEN AddBlock(p, AcksServer(p), main.urgent)
         ELSE UNCHANGED <<m_queue, m_urgents, refs>>
  /\ main' = [main EXCEPT !.todo = Tail(@)]
  /\ UNCHANGED <<map, mesh, m_inflight_blocks, outVars, semaphore, worker, history>>

DeferUpdate ==
  /\ main.pc = "queueing" /\ main.todo = <<>>
  /\ semaphore' = Workers
  /\ main' = [main EXCEPT !.pc = "step"]
  /\ UNCHANGED <<mapVars, queueVars, outVars, worker, history>>

\* The loop "Replace updated meshes" of Client::step goes on until there is nothing left.
BeginReplace ==
  /\ main.pc = "step"
  /\ m_queue_out \o m_queue_out_urgent # <<>>
  /\ main' = [main EXCEPT !.pc = "replacing"]
  /\ UNCHANGED <<mapVars, queueVars, outVars, semaphore, worker, history>>

Older(copy, other) == \E b \in Blocks : copy[b] < other[b]
Overtakes(r) ==
  r.urgent /\ \E x \in ToSet(m_queue_out) : x.p = r.p /\ Older(x.mesh, r.mesh)

\* getNextResult
NextResult == IF m_queue_out_urgent # <<>> THEN Head(m_queue_out_urgent) ELSE Head(m_queue_out)
TakeResult ==
  IF m_queue_out_urgent # <<>>
  THEN m_queue_out_urgent' = Tail(m_queue_out_urgent) /\ UNCHANGED m_queue_out
  ELSE m_queue_out' = Tail(m_queue_out) /\ UNCHANGED m_queue_out_urgent

ReplaceMesh ==
  /\ main.pc = "replacing"
  /\ m_queue_out \o m_queue_out_urgent # <<>>
  /\ TakeResult
  /\ LET r == NextResult
     IN  /\ mesh' = [mesh EXCEPT ![r.p] = r.mesh]
         /\ Drop(r.map_blocks)
         /\ received' = received \ r.ack_list
         /\ overtaken' = IF Overtakes(r) THEN overtaken \cup {r.p} ELSE overtaken
  /\ UNCHANGED <<main, map, queueVars, semaphore, worker, writes, unloads>>

EndReplace ==
  /\ main.pc = "replacing"
  /\ m_queue_out \o m_queue_out_urgent = <<>>
  /\ main' = [main EXCEPT !.pc = "step"]
  /\ UNCHANGED <<mapVars, queueVars, outVars, semaphore, worker, history>>

\* Map::timerUpdate; a block's mesh goes with it.
Unload(b) ==
  /\ main.pc = "step"
  /\ unloads < MaxUnloads
  /\ Loaded(b) /\ refs[b] = 0
  /\ map' = [map EXCEPT ![b] = NoBlock]
  /\ mesh' = [mesh EXCEPT ![b] = Nothing]
  /\ overtaken' = overtaken \ {b}
  /\ unloads' = unloads + 1
  /\ UNCHANGED <<main, refs, queueVars, outVars, semaphore, worker, received, writes>>

-----------------------------------------------------------------------------
(* A worker thread *)

Goto(w, pc) == worker' = [worker EXCEPT ![w].pc = pc]

\* UpdateThread::run
Wake(w) ==
  /\ worker[w].pc = "wait" /\ w \in semaphore
  /\ semaphore' = semaphore \ {w}
  /\ Goto(w, "pop")
  /\ UNCHANGED <<main, mapVars, queueVars, outVars, history>>

MayPop_Mutant(q) == m_urgents # {} => q.p \in m_urgents

\* MeshUpdateQueue::pop takes the first that may be taken; urgent ones come first even
\* when none of them may.
MayPop(q) ==
  /\ m_urgents # {} => q.p \in m_urgents
  /\ q.p \notin m_inflight_blocks

Pop(w) ==
  /\ worker[w].pc = "pop"
  /\ LET may == {i \in DOMAIN m_queue : MayPop(m_queue[i])}
     IN  \/ /\ may = {}
            /\ Goto(w, "wait") /\ UNCHANGED queueVars
         \/ \E i \in may :
              /\ \A j \in may : i <= j
              /\ m_queue' = RemoveAt(m_queue, i)
              /\ m_urgents' = m_urgents \ {m_queue[i].p}
              /\ m_inflight_blocks' = m_inflight_blocks \cup {m_queue[i].p}
              /\ worker' = [worker EXCEPT ![w] =
                   [pc |-> "fill", q |-> m_queue[i], left |-> m_queue[i].map_blocks,
                    copy |-> Nothing]]
  /\ UNCHANGED <<main, mapVars, outVars, semaphore, history>>

\* fillDataFromMapBlocks, one block after the other (in a fixed order) without a lock.
FillBlockData(w) ==
  /\ worker[w].pc = "fill"
  /\ LET b == CHOOSE c \in worker[w].left : TRUE
         left == worker[w].left \ {b}
     IN  worker' = [worker EXCEPT ![w].left = left, ![w].copy[b] = map[b],
                                  ![w].pc = IF left = {} THEN "make" ELSE "fill"]
  /\ UNCHANGED <<main, mapVars, queueVars, outVars, semaphore, history>>

PutResult(w) ==
  /\ worker[w].pc = "make"
  /\ LET q == worker[w].q
         r == [p |-> q.p, ack_list |-> q.ack_list, urgent |-> q.urgent,
               map_blocks |-> q.map_blocks, mesh |-> worker[w].copy]
     IN  IF q.urgent
         THEN m_queue_out_urgent' = Append(m_queue_out_urgent, r) /\ UNCHANGED m_queue_out
         ELSE m_queue_out' = Append(m_queue_out, r) /\ UNCHANGED m_queue_out_urgent
  /\ Goto(w, "done")
  /\ UNCHANGED <<main, mapVars, queueVars, semaphore, history>>

StillInflight_Mutant(p) ==
  IF Queued(p) = {} THEN m_inflight_blocks \ {p} ELSE m_inflight_blocks

StillInflight(p) == m_inflight_blocks \ {p}

\* done(), and back to pop: doUpdate goes on until that finds nothing.
Done(w) ==
  /\ worker[w].pc = "done"
  /\ m_inflight_blocks' = StillInflight(worker[w].q.p)
  /\ worker' = [worker EXCEPT ![w] = [pc |-> "pop", q |-> NoUpdate(@.q.p), left |-> {},
                                      copy |-> Nothing]]
  /\ UNCHANGED <<main, mapVars, m_queue, m_urgents, outVars, semaphore, history>>

MainStep == EndWrite \/ UpdateBlock \/ DeferUpdate \/ BeginReplace \/ ReplaceMesh \/ EndReplace
WorkerStep(w) == Wake(w) \/ Pop(w) \/ FillBlockData(w) \/ PutResult(w) \/ Done(w)
Next ==
  \/ \E b \in Blocks : Unload(b) \/ \E node \in BOOLEAN : BeginWrite(b, node)
  \/ MainStep
  \/ \E w \in Workers : WorkerStep(w)
Spec == Init /\ [][Next]_vars

\* Every thread goes on with what it is in the middle of, and the main thread comes round
\* to the results.  Nothing makes blocks arrive.
LiveSpec == Spec /\ WF_vars(MainStep) /\ \A w \in Workers : WF_vars(WorkerStep(w))

-----------------------------------------------------------------------------
(* Properties *)

Working == {w \in Workers : worker[w].pc \in {"fill", "make"}}
Results == ToSet(m_queue_out) \cup ToSet(m_queue_out_urgent)
UpdatesUnderway == ToSet(m_queue) \cup {worker[w].q : w \in Working}
Underway(p) ==
  p \in {u.p : u \in UpdatesUnderway} \cup {r.p : r \in Results}
Quiet == main.pc = "step" /\ \A p \in Blocks : ~Underway(p)

(* The blocks a queued update, a worker or a result points to are in the   *)
(* client's map: none of the pointers dangles, although the main thread    *)
(* unloads blocks at any time.                                             *)
NoDanglingBlock ==
  \A u \in UpdatesUnderway \cup Results : \A b \in u.map_blocks : Loaded(b)

(* refGet() comes back to 0, or the block would never be unloaded.         *)
NothingLeaked == Quiet => \A b \in Blocks : refs[b] = 0

(* Reference counts that the main thread keeps for pointers other threads  *)
(* follow: exact in both directions, whatever is unloaded meanwhile.       *)
BlocksAreCounted == TypeOK /\ NoDanglingBlock /\ NothingLeaked

(* A position is in the queue once, an urgent one is in the queue (or pop  *)
(* would pass over all the others for good), and no two workers work on    *)
(* one position.                                                           *)
OneUpdateAtATime ==
  /\ \A p \in Blocks : Cardinality(Queued(p)) <= 1
  /\ m_urgents = {q.p : q \in {x \in ToSet(m_queue) : x.urgent}}
  /\ \A v, w \in Working : worker[v].q.p = worker[w].q.p => v = w

(* "Acknowledged after update" (clientpackethandler.cpp:329): every block  *)
(* received is acknowledged once, with a mesh that was made from what came *)
(* or from something newer.                                                *)
AckedAfterUpdate ==
  /\ \A r \in Results : \A a \in r.ack_list : a.data <= r.mesh[a.block]
  /\ \A u, x \in UpdatesUnderway \cup Results : u # x => u.ack_list \cap x.ack_list = {}
  /\ UNION {u.ack_list : u \in UpdatesUnderway \cup Results} \subseteq received

(* When all is done every mesh shows the blocks it is made of as they are: *)
(* the copies that were taken during a write do not stay.                  *)
MeshesAreCurrent ==
  Quiet => \A p \in {b \in Blocks : Loaded(b)} : \A b \in Reads(p) :
             Loaded(b) => mesh[p][b] = map[b]

(* ... unless an urgent result overtook an older one of the same position, *)
(* which then replaced it.                                                 *)
MeshesAreCurrentUnlessOvertaken ==
  Quiet => \A p \in {b \in Blocks : Loaded(b)} \ overtaken : \A b \in Reads(p) :
             Loaded(b) => mesh[p][b] = map[b]

(* Every block received is acknowledged in the end and no update stays in  *)
(* the queue: a worker that finds only positions others work on goes to    *)
(* sleep, and one of them takes what it left.                              *)
EventuallyDone == <>[](received = {} /\ Quiet)
=============================================================================
