------------------------------- MODULE Emerge -------------------------------
(***************************************************************************)
(* The emerge queue of the server (emerge.cpp): requests for map blocks,   *)
(* made by the server thread and by Lua code, are queued per emerge        *)
(* thread; each thread fetches its blocks from memory, from the database   *)
(* or from the map generator and calls the requests' callbacks.  Included  *)
(* are the two locks, the event a thread sleeps on (threading/event.cpp),  *)
(* and the end of the threads: EmergeManager::stopThreads from ~Server, or *)
(* an exception on loading a block, its own or one of the area to generate.*)
(*                                                                         *)
(* A callback is the number of the request that carried it.  The database  *)
(* does not change while blocks are emerged.                               *)
(***************************************************************************)
EXTENDS Naturals, Sequences, FiniteSets

CONSTANTS
  Threads, Positions, Peers,
  NoPeer,                  \* PEER_ID_INEXISTENT: the server itself or a mod
  None,
  Chunk, Area,             \* the chunk of a position; the positions of a chunk
                           \* and of the border that is created with it
  database,                \* the block on disk at each position
  OverMaxLimit,            \* positions that satisfy blockpos_over_max_limit
  OverMapgenLimit,         \* chunks too close to the mapgen limit
  m_qlimit_total, m_qlimit_diskonly, m_qlimit_generate,
  LuaEmerges,              \* do callbacks of mods call core.emerge_area?
  Failures,                \* do Lua callbacks and the loading of blocks fail?
  MaxRequests              \* requests in a behaviour (bound)

BlockState == {"none", "ignore", "generated"}  \* "ignore": there, not generated

ASSUME EmergeAssumption ==
  /\ Threads \subseteq Nat \ {0} /\ NoPeer \notin Peers /\ None \notin Threads
  /\ m_qlimit_total \in Nat /\ m_qlimit_diskonly \in Nat /\ m_qlimit_generate \in Nat
  /\ database \in [Positions -> BlockState]
  /\ LuaEmerges \in BOOLEAN /\ Failures \in BOOLEAN /\ MaxRequests \in Nat
  /\ \A p \in Positions : p \in Area[Chunk[p]]

Server == 0   \* as the one that holds env_mutex or signals a thread

VARIABLES
  \* EmergeManager, guarded by m_queue_mutex
  m_blocks_enqueued,     \* position -> BlockEmergeData, for those enqueued
  m_peer_queue_count,
  m_block_queue,         \* of each thread
  m_queue_mutex,         \* the thread that holds it over several steps, or None
  \* the map, guarded by env_mutex
  env_mutex,             \* its holder, or None
  m_blocks,              \* what is in memory
  m_chunks_in_progress,
  \* the threads
  pc, item, notified, m_request_stop,
  server,                \* where the server thread is
  to_signal,             \* thread -> the thread it has to signal, or None
  \* history
  requests, accepted, called,
  lost,                  \* callbacks that were dropped uncalled
  left_marked,           \* chunks whose generation was given up
  late                   \* callbacks that came to a thread that had ended

mgrVars == <<m_blocks_enqueued, m_peer_queue_count, m_block_queue>>
mapVars == <<m_blocks, m_chunks_in_progress>>
history == <<requests, accepted, called, lost, left_marked, late>>
faults == <<lost, left_marked>>
asked == <<requests, accepted, called, late>>
vars == <<mgrVars, m_queue_mutex, env_mutex, mapVars, pc, item, notified,
          m_request_stop, server, to_signal, history>>

NoItem == [pos |-> None, gen |-> FALSE, peer |-> NoPeer, callbacks |-> {}]

Init ==
  /\ m_blocks_enqueued = <<>>
  /\ m_peer_queue_count = [q \in Peers \cup {NoPeer} |-> 0]
  /\ m_block_queue = [t \in Threads |-> <<>>]
  /\ m_queue_mutex = None /\ env_mutex = None
  /\ m_blocks = [p \in Positions |-> "none"]
  /\ m_chunks_in_progress = {}
  /\ pc = [t \in Threads |-> "loop"]
  /\ item = [t \in Threads |-> NoItem]
  /\ notified = [t \in Threads |-> FALSE]
  /\ m_request_stop = [t \in Threads |-> FALSE]
  /\ server = "running"
  /\ to_signal = [c \in Threads \cup {Server} |-> None]
  /\ requests = 0 /\ accepted = {}
  /\ called = [n \in 1 .. MaxRequests |-> 0]
  /\ lost = {} /\ left_marked = {} /\ late = {}

Goto(t, label) == pc' = [pc EXCEPT ![t] = label]

-----------------------------------------------------------------------------
(* EmergeManager                                                           *)

Enqueued == DOMAIN m_blocks_enqueued

\* pushBlockEmergeData turns a request down unless it is forced.
OverQueueLimit(peer, gen) ==
  \/ Cardinality(Enqueued) >= m_qlimit_total
  \/ /\ peer # NoPeer
     /\ m_peer_queue_count[peer] >= IF gen THEN m_qlimit_generate
                                           ELSE m_qlimit_diskonly
  \/ peer = NoPeer /\ 2 * m_peer_queue_count[peer] >= m_qlimit_total

\* getOptimalThread: the first of those with the shortest queue.
IsOptimal(t) ==
  \A u \in Threads :
    /\ Len(m_block_queue[t]) <= Len(m_block_queue[u])
    /\ u < t => Len(m_block_queue[t]) < Len(m_block_queue[u])

IsEnqueued_Mutant(pos) == FALSE

IsEnqueued(pos) == pos \in Enqueued

Merged_Mutant(data, gen, callbacks) ==
  [data EXCEPT !.callbacks = callbacks, !.gen = @ \/ gen]

\* A position that is there already gets the callback and the flags as well.
Merged(data, gen, callbacks) ==
  [data EXCEPT !.callbacks = @ \cup callbacks, !.gen = @ \/ gen]

ToSignal_Mutant(t) == CHOOSE u \in Threads : \A v \in Threads : v <= u

\* The thread to signal is the one that the position was pushed to.
ToSignal(t) == t

Queued(t, pos) == \E i \in DOMAIN m_block_queue[t] : m_block_queue[t][i] = pos

\* enqueueBlockEmergeEx with m_queue_mutex held, called by c.  Nothing in it asks
\* whether the thread still runs.
Enqueue(c, pos, peer, gen, force, callbacks) ==
  IF ~force /\ OverQueueLimit(peer, gen)
  THEN UNCHANGED <<mgrVars, to_signal, accepted, late>>
  ELSE
    /\ accepted' = accepted \cup callbacks
    /\ \/ /\ IsEnqueued(pos)
          /\ m_blocks_enqueued' =
               [m_blocks_enqueued EXCEPT ![pos] = Merged(@, gen, callbacks)]
          /\ UNCHANGED <<m_peer_queue_count, m_block_queue, to_signal>>
       \/ /\ ~IsEnqueued(pos)
          /\ m_blocks_enqueued' =
               [p \in Enqueued \cup {pos} |->
                 IF p # pos THEN m_blocks_enqueued[p]
                 ELSE [pos |-> pos, gen |-> gen, peer |-> peer, callbacks |-> callbacks]]
          /\ m_peer_queue_count' = [m_peer_queue_count EXCEPT ![peer] = @ + 1]
          /\ \E t \in Threads :
               /\ IsOptimal(t)
               /\ m_block_queue' = [m_block_queue EXCEPT ![t] = Append(@, pos)]
               /\ to_signal' = [to_signal EXCEPT ![c] = ToSignal(t)]
    /\ late' = late \cup {n \in callbacks : \E t \in Threads : pc[t] = "ended" /\ Queued(t, pos)'}

\* A request of c: one player's, or the engine's own, without a callback, or one
\* that core.emerge_area makes for a mod, forced and with a callback.
Request(c) ==
  /\ m_queue_mutex = None
  /\ requests < MaxRequests
  /\ requests' = requests + 1
  /\ \E pos \in Positions :
       \/ /\ c = Server
          /\ \E peer \in Peers \cup {NoPeer}, gen \in BOOLEAN :
               /\ peer = NoPeer => gen
               /\ Enqueue(c, pos, peer, gen, FALSE, {})
       \/ Enqueue(c, pos, NoPeer, TRUE, TRUE, {requests + 1})
  /\ UNCHANGED <<called, faults>>

\* EmergeThread::signal, after the mutex has been released.
Signal(c) ==
  /\ to_signal[c] # None
  /\ notified' = [notified EXCEPT ![to_signal[c]] = TRUE]
  /\ to_signal' = [to_signal EXCEPT ![c] = None]
  /\ UNCHANGED <<mgrVars, m_queue_mutex, env_mutex, mapVars, pc, item,
                 m_request_stop, server, history>>

Uncounted_Mutant(peer) == IF peer = NoPeer THEN m_peer_queue_count[peer]
                          ELSE m_peer_queue_count[peer] - 1

Uncounted_Mutant2(peer) == m_peer_queue_count[peer] - 2

Uncounted(peer) == m_peer_queue_count[peer] - 1

\* Thread t takes the front of its queue: popBlockEmergeData.
Front(t) == m_blocks_enqueued[Head(m_block_queue[t])]

PopFront(t) ==
  LET pos == Head(m_block_queue[t])
      data == m_blocks_enqueued[pos]
  IN  /\ m_block_queue' = [m_block_queue EXCEPT ![t] = Tail(@)]
      /\ m_peer_queue_count' = [m_peer_queue_count EXCEPT ![data.peer] = Uncounted(data.peer)]
      /\ m_blocks_enqueued' =
           [p \in Enqueued \ {pos} |-> m_blocks_enqueued[p]]

TakeFront(t) == PopFront(t) /\ item' = [item EXCEPT ![t] = Front(t)]

-----------------------------------------------------------------------------
(* The emerge threads                                                      *)

Running(t, label) == pc[t] = label /\ to_signal[t] = None

\* The head of run()'s loop.
Loop(t) ==
  /\ Running(t, "loop")
  /\ \/ m_request_stop[t] /\ Goto(t, "shutdown") /\ UNCHANGED <<mgrVars, item>>
     \/ /\ ~m_request_stop[t]
        /\ m_queue_mutex = None
        /\ IF m_block_queue[t] = <<>>
           THEN Goto(t, "wait") /\ UNCHANGED <<mgrVars, item>>
           ELSE /\ Head(m_block_queue[t]) \notin OverMaxLimit
                /\ TakeFront(t)
                /\ Goto(t, "fetch")
  /\ UNCHANGED <<m_queue_mutex, env_mutex, mapVars, notified, m_request_stop,
                 server, to_signal, history>>

\* A position over the limit of the world: bedata, with the callbacks that
\* core.emerge_area gave it, goes out of scope with the loop's continue.
LoopOverLimit(t) ==
  /\ Running(t, "loop")
  /\ ~m_request_stop[t]
  /\ m_queue_mutex = None
  /\ m_block_queue[t] # <<>> /\ Head(m_block_queue[t]) \in OverMaxLimit
  /\ PopFront(t)
  /\ item' = [item EXCEPT ![t] = NoItem]
  /\ lost' = lost \cup Front(t).callbacks
  /\ UNCHANGED <<pc, m_queue_mutex, env_mutex, mapVars, notified, m_request_stop,
                 server, to_signal, asked, left_marked>>

\* Event::wait
Wait(t) ==
  /\ Running(t, "wait")
  /\ notified[t]
  /\ notified' = [notified EXCEPT ![t] = FALSE]
  /\ Goto(t, "loop")
  /\ UNCHANGED <<mgrVars, m_queue_mutex, env_mutex, mapVars, item,
                 m_request_stop, server, to_signal, history>>

InProgress_Mutant(chunk) == FALSE

InProgress(chunk) == chunk \in m_chunks_in_progress

\* What is in memory when initBlockMake has been to the positions of S.
Created(blocks, S) ==
  [p \in Positions |->
    IF p \notin S \/ blocks[p] # "none" THEN blocks[p]
    ELSE IF database[p] = "none" THEN "ignore" ELSE database[p]]

\* What the callbacks are called with is left out; "callbacks" is where the
\* thread goes with every action but EMERGE_FROM_DISK's first time and
\* EMERGE_GENERATED.  A block that is there but not generated, or not at all, is
\* generated if the request allows and nobody is generating its chunk.
StartGen(t, blocks) ==
  LET chunk == Chunk[item[t].pos]
      starts == item[t].gen /\ ~InProgress(chunk)
      generates == starts /\ chunk \notin OverMapgenLimit
  IN  /\ m_chunks_in_progress' =
           m_chunks_in_progress \cup (IF starts THEN {chunk} ELSE {})
      /\ m_blocks' = IF generates THEN Created(blocks, Area[chunk]) ELSE blocks
      /\ left_marked' =
           left_marked \cup (IF starts /\ ~generates THEN {chunk} ELSE {})
      /\ Goto(t, IF generates THEN "generate" ELSE "callbacks")

\* getBlockOrStartGen, first call: env_mutex is held within the step.
Fetch(t) ==
  LET pos == item[t].pos
  IN  /\ Running(t, "fetch")
      /\ env_mutex = None
      /\ CASE m_blocks[pos] = "generated" ->
                Goto(t, "callbacks") /\ UNCHANGED <<mapVars, left_marked>>
           [] m_blocks[pos] = "none" ->
                Goto(t, "load") /\ UNCHANGED <<mapVars, left_marked>>
           [] m_blocks[pos] = "ignore" -> StartGen(t, m_blocks)
      /\ UNCHANGED <<mgrVars, m_queue_mutex, env_mutex, item, notified,
                     m_request_stop, server, to_signal, asked, lost>>

\* The block at pos is loaded, unless somebody else has been faster.
Loaded(pos) ==
  IF m_blocks[pos] # "none" THEN m_blocks ELSE [m_blocks EXCEPT ![pos] = database[pos]]

\* The database has been read without a lock; getBlockOrStartGen, second call.
FetchLoaded(t) ==
  LET blocks == Loaded(item[t].pos)
      pos == item[t].pos
  IN  /\ Running(t, "load")
      /\ env_mutex = None
      /\ IF blocks[pos] = "generated"
         THEN /\ m_blocks' = blocks
              /\ Goto(t, "callbacks")
              /\ UNCHANGED <<m_chunks_in_progress, left_marked>>
         ELSE StartGen(t, blocks)
      /\ UNCHANGED <<mgrVars, m_queue_mutex, env_mutex, item, notified,
                     m_request_stop, server, to_signal, asked, lost>>

\* loadBlock throws SerializationError or VersionMismatchException: the thread
\* leaves its loop, and the block it was at with its callbacks.
Throw(t) ==
  /\ item' = [item EXCEPT ![t] = NoItem]
  /\ lost' = lost \cup item[t].callbacks
  /\ Goto(t, "shutdown")
  /\ UNCHANGED <<mgrVars, m_queue_mutex, env_mutex, notified, m_request_stop,
                 server, to_signal, asked>>

\* The block is the one that the thread is at ...
LoadFails(t) ==
  /\ Failures
  /\ Running(t, "load")
  /\ env_mutex = None
  /\ m_blocks[item[t].pos] = "none" /\ database[item[t].pos] # "none"
  /\ Throw(t)
  /\ UNCHANGED <<mapVars, left_marked>>

\* ... or another one, q, of the area that initBlockMake creates: the chunk has
\* been marked, and the blocks it had come to before q are in memory.
InitBlockMakeFails(t) ==
  LET pos == item[t].pos
      chunk == Chunk[pos]
  IN  /\ Failures
      /\ Running(t, "load") \/ (Running(t, "fetch") /\ m_blocks[pos] # "none")
      /\ env_mutex = None
      /\ Loaded(pos)[pos] # "generated"
      /\ item[t].gen /\ ~InProgress(chunk) /\ chunk \notin OverMapgenLimit
      /\ \E q \in Area[chunk] :
           /\ Loaded(pos)[q] = "none" /\ database[q] # "none"
           /\ \E S \in SUBSET (Area[chunk] \ {q}) :
                m_blocks' = Created(Loaded(pos), S)
      /\ m_chunks_in_progress' = m_chunks_in_progress \cup {chunk}
      /\ left_marked' = left_marked \cup {chunk}
      /\ Throw(t)

\* makeChunk and the on_generated callbacks of the mapgen environment, without a
\* lock.  After a Lua error finishGen is skipped, and the chunk stays marked.
Generate(t) ==
  /\ Running(t, "generate")
  /\ \/ Goto(t, "finish") /\ UNCHANGED left_marked
     \/ /\ Failures
        /\ Goto(t, "callbacks")
        /\ left_marked' = left_marked \cup {Chunk[item[t].pos]}
  /\ UNCHANGED <<mgrVars, m_queue_mutex, env_mutex, mapVars, item, notified,
                 m_request_stop, server, to_signal, asked, lost>>

\* Lua code is entered with env_mutex held.  It may call core.emerge_area, and
\* does so when it has got to "emerge".
EnterLua(t) ==
  /\ env_mutex = None
  /\ env_mutex' = t
  /\ \E label \in {"lua"} \cup (IF LuaEmerges THEN {"emerge"} ELSE {}) :
       Goto(t, label)

Unmarked_Mutant(chunk) == m_chunks_in_progress

Unmarked(chunk) == m_chunks_in_progress \ {chunk}

\* finishGen: finishBlockMake, then the server's on_generated callbacks.
FinishGen(t) ==
  LET chunk == Chunk[item[t].pos]
  IN  /\ Running(t, "finish")
      /\ EnterLua(t)
      /\ m_blocks' = [p \in Positions |->
                       IF Chunk[p] = chunk /\ m_blocks[p] # "none"
                       THEN "generated" ELSE m_blocks[p]]
      /\ m_chunks_in_progress' = Unmarked(chunk)
      /\ UNCHANGED <<mgrVars, m_queue_mutex, item, notified,
                     m_request_stop, server, to_signal, history>>

\* runCompletionCallbacks, one callback: it takes env_mutex itself.
Callback(t) ==
  \E n \in item[t].callbacks :
    /\ EnterLua(t)
    /\ called' = [called EXCEPT ![n] = @ + 1]
    /\ item' = [item EXCEPT ![t].callbacks = @ \ {n}]
    /\ UNCHANGED <<mgrVars, m_queue_mutex, mapVars, notified, m_request_stop,
                   server, to_signal, requests, accepted, late, faults>>

RunCompletionCallbacks(t) ==
  /\ Running(t, "callbacks")
  /\ \/ Callback(t)
     \/ /\ item[t].callbacks = {}
        /\ Goto(t, "loop")
        /\ UNCHANGED <<mgrVars, m_queue_mutex, env_mutex, mapVars, item, notified,
                       m_request_stop, server, to_signal, history>>

\* core.emerge_area in a callback.
LuaRequests(t) ==
  /\ Running(t, "emerge")
  /\ Goto(t, "lua")
  /\ IF requests < MaxRequests THEN Request(t)
     ELSE UNCHANGED <<mgrVars, to_signal, history>>
  /\ UNCHANGED <<m_queue_mutex, env_mutex, mapVars, item, notified,
                 m_request_stop, server>>

LuaReturns(t) ==
  /\ Running(t, "lua")
  /\ Goto(t, IF m_queue_mutex = t THEN "cancel" ELSE "callbacks")
  /\ env_mutex' = None
  /\ UNCHANGED <<mgrVars, m_queue_mutex, mapVars, item, notified, m_request_stop,
                 server, to_signal, history>>

Shutdown_Mutant(t) ==
  /\ Running(t, "shutdown")
  /\ m_queue_mutex = None
  /\ Goto(t, "ended")
  /\ UNCHANGED <<mgrVars, m_queue_mutex, env_mutex, mapVars, item, notified,
                 m_request_stop, server, to_signal, history>>

\* cancelPendingItems holds m_queue_mutex from here to its end.
Shutdown(t) ==
  /\ Running(t, "shutdown")
  /\ m_queue_mutex = None
  /\ m_queue_mutex' = t
  /\ Goto(t, "cancel")
  /\ UNCHANGED <<mgrVars, env_mutex, mapVars, item, notified, m_request_stop,
                 server, to_signal, history>>

CancelPendingItems(t) ==
  /\ Running(t, "cancel")
  /\ \/ Callback(t)
     \/ /\ item[t].callbacks = {}
        /\ IF m_block_queue[t] # <<>>
           THEN TakeFront(t) /\ UNCHANGED <<m_queue_mutex, pc>>
           ELSE /\ m_queue_mutex' = None
                /\ Goto(t, "ended")
                /\ UNCHANGED <<mgrVars, item>>
        /\ UNCHANGED <<env_mutex, mapVars, notified, m_request_stop, server,
                       to_signal, history>>

-----------------------------------------------------------------------------
(* The server thread                                                       *)

serverFrame == <<mapVars, pc, item>>

\* Everything it does is done with env_mutex held: a step, a packet's handler.
BeginStep ==
  /\ server = "running"
  /\ env_mutex = None
  /\ env_mutex' = Server
  /\ server' \in {"step", "emerge"}
  /\ UNCHANGED <<mgrVars, m_queue_mutex, serverFrame, notified, m_request_stop,
                 to_signal, history>>

StepRequests ==
  /\ server = "emerge"
  /\ server' = "step"
  /\ IF requests < MaxRequests THEN Request(Server)
     ELSE UNCHANGED <<mgrVars, to_signal, history>>
  /\ UNCHANGED <<m_queue_mutex, env_mutex, serverFrame, notified, m_request_stop>>

EndStep ==
  /\ server = "step" /\ to_signal[Server] = None
  /\ server' = "running"
  /\ env_mutex' = None
  /\ UNCHANGED <<mgrVars, m_queue_mutex, serverFrame, notified, m_request_stop,
                 to_signal, history>>

\* ~Server has stopped the server thread and calls stopThreads.
StopServer ==
  /\ server = "running"
  /\ server' = "stopping"
  /\ UNCHANGED <<mgrVars, m_queue_mutex, env_mutex, serverFrame, notified,
                 m_request_stop, to_signal, history>>

Notified_Mutant(t) == notified

Notified(t) == [notified EXCEPT ![t] = TRUE]

\* stop() and signal() of one thread.
StopThread(t) ==
  /\ server = "stopping"
  /\ ~m_request_stop[t]
  /\ \A u \in Threads : u < t => m_request_stop[u]
  /\ m_request_stop' = [m_request_stop EXCEPT ![t] = TRUE]
  /\ notified' = Notified(t)
  /\ UNCHANGED <<mgrVars, m_queue_mutex, env_mutex, serverFrame, server,
                 to_signal, history>>

\* wait() for each has returned.
ThreadsStopped ==
  /\ server = "stopping"
  /\ \A t \in Threads : m_request_stop[t] /\ pc[t] = "ended"
  /\ server' = "stopped"
  /\ UNCHANGED <<mgrVars, m_queue_mutex, env_mutex, serverFrame, notified,
                 m_request_stop, to_signal, history>>

\* The rest of ~Server is not modelled.
Stopped == server = "stopped" /\ UNCHANGED vars

ThreadStep(t) ==
  \/ Loop(t) \/ LoopOverLimit(t) \/ Wait(t) \/ Fetch(t) \/ FetchLoaded(t)
  \/ LoadFails(t) \/ InitBlockMakeFails(t) \/ Generate(t) \/ FinishGen(t) \/ RunCompletionCallbacks(t)
  \/ LuaRequests(t) \/ LuaReturns(t) \/ Shutdown(t) \/ CancelPendingItems(t)
  \/ Signal(t)

ServerStep ==
  \/ BeginStep \/ StepRequests \/ EndStep \/ Signal(Server) \/ StopServer
  \/ \E t \in Threads : StopThread(t)
  \/ ThreadsStopped

Next == ServerStep \/ (\E t \in Threads : ThreadStep(t)) \/ Stopped

Spec == Init /\ [][Next]_vars

\* env_mutex is an ordered_mutex, which serves its waiters in turn: a thread that
\* waits for it gets it although the server thread takes it again and again.
\* Nothing makes the server stop, but once it has begun it goes on.
Fairness ==
  /\ \A t \in Threads : SF_vars(ThreadStep(t))
  /\ WF_vars(StepRequests) /\ WF_vars(EndStep) /\ WF_vars(Signal(Server))
  /\ \A t \in Threads : WF_vars(StopThread(t))
  /\ WF_vars(ThreadsStopped)

LiveSpec == Spec /\ Fairness

-----------------------------------------------------------------------------
Labels == {"loop", "wait", "fetch", "load", "generate", "finish", "callbacks",
           "emerge", "lua", "shutdown", "cancel", "ended"}

BlockEmergeData ==
  [pos : Positions, gen : BOOLEAN, peer : Peers \cup {NoPeer},
   callbacks : SUBSET (1 .. MaxRequests)]

TypeOK ==
  /\ Enqueued \subseteq Positions
  /\ \A p \in Enqueued : m_blocks_enqueued[p] \in BlockEmergeData
  /\ m_peer_queue_count \in [Peers \cup {NoPeer} -> Nat]
  /\ m_block_queue \in [Threads -> Seq(Positions)]
  /\ m_queue_mutex \in Threads \cup {None}
  /\ env_mutex \in Threads \cup {Server, None}
  /\ m_blocks \in [Positions -> BlockState]
  /\ m_chunks_in_progress \subseteq {Chunk[p] : p \in Positions}
  /\ pc \in [Threads -> Labels]
  /\ item \in [Threads -> BlockEmergeData \cup {NoItem}]

\* Every enqueued position waits in exactly one thread's queue, once, and the
\* queues hold nothing else: popBlockEmergeData always finds what it looks for.
QueuesAgree ==
  /\ \A p \in Enqueued : \E t \in Threads : Queued(t, p)
  /\ \A t, u \in Threads :
       \A i \in DOMAIN m_block_queue[t], j \in DOMAIN m_block_queue[u] :
         m_block_queue[t][i] = m_block_queue[u][j] => t = u /\ i = j
  /\ \A t \in Threads : \A i \in DOMAIN m_block_queue[t] :
       m_block_queue[t][i] \in Enqueued

\* A peer's counter is the number of positions that were enqueued for it, so
\* that its limit is neither used up by blocks long done nor evaded.
CountsAgree ==
  \A q \in Peers \cup {NoPeer} :
    m_peer_queue_count[q] =
      Cardinality({p \in Enqueued : m_blocks_enqueued[p].peer = q})

\* The queue's three parts, each of which push and pop change on their own: the
\* map of positions, the threads' queues and the peers' counters.
QueueIsConsistent == TypeOK /\ QueuesAgree /\ CountsAgree

\* A chunk is generated by one thread at a time.
OneGeneratorPerChunk ==
  \A t, u \in Threads :
    /\ pc[t] \in {"generate", "finish"} /\ pc[u] \in {"generate", "finish"}
    /\ Chunk[item[t].pos] = Chunk[item[u].pos]
    => t = u

Waits(n) ==
  \/ \E p \in Enqueued : n \in m_blocks_enqueued[p].callbacks
  \/ \E t \in Threads : n \in item[t].callbacks

\* The marks are those of the chunks that are being generated: a chunk whose
\* mark stayed would never be generated again.  The exceptions, which the code
\* has, are the marks in left_marked: of chunks over the mapgen limit, of those
\* where a mod's on_generated callback raised an error, and of those where a
\* block of the area could not be loaded.
MarksAreWork ==
  m_chunks_in_progress \ left_marked =
    {Chunk[item[t].pos] : t \in {u \in Threads : pc[u] \in {"generate", "finish"}}}
      \ left_marked

\* What keeps two threads from generating one chunk, and a chunk from never being
\* generated: m_chunks_in_progress between initBlockMake and finishBlockMake.
MarksAreRight == OneGeneratorPerChunk /\ MarksAreWork

\* A request's callback is called once, and until then the request is held by
\* the queue or by a thread: its param is freed neither never nor twice.  Dropped
\* without a call are the callbacks of a block over the limit of the world and
\* those of the block at which an exception on loading ends a thread, no others.
CallbacksOnce ==
  /\ \A n \in accepted : Waits(n) <=> called[n] = 0 /\ n \notin lost
  /\ \A n \in lost : called[n] = 0
  /\ \A n \in 1 .. MaxRequests : called[n] <= 1

\* A thread does not sleep on while there is something in its queue: it has been
\* notified, or whoever filled the queue is about to do so.
NoLostWakeup ==
  \A t \in Threads :
    pc[t] = "wait" /\ (m_block_queue[t] # <<>> \/ m_request_stop[t]) =>
      notified[t] \/ \E c \in Threads \cup {Server} : to_signal[c] = t

\* When stopThreads has returned, "all emerge activity" is over and the
\* callbacks are finished off (server.cpp:349), but for those that were dropped and
\* those that the callback of one thread asked for of another that had ended.
StoppedMeansFinished ==
  server = "stopped" => \A n \in accepted \ (late \cup lost) : called[n] = 1

\* A thread holds the queue's mutex in cancelPendingItems while the one that has
\* the env lock asks for blocks: where the former has a callback left to call,
\* neither goes on.
LockedOut ==
  /\ m_queue_mutex # None
  /\ \/ env_mutex = Server /\ server = "emerge"
     \/ env_mutex \in Threads /\ pc[env_mutex] = "emerge"

\* stopThreads comes back, unless those two locks are in the way.
StopReturnsUnlessLockedOut ==
  server = "stopping" ~> server = "stopped" \/ LockedOut

\* Every callback is called in the end, unless those two locks are in the way, it
\* was dropped (see CallbacksOnce) or it came to a thread that had ended.
EveryCallbackIsCalled ==
  \A n \in 1 .. MaxRequests :
    n \in accepted ~> called[n] = 1 \/ LockedOut \/ n \in lost \cup late

\* "Stop all emerge activity and finish off mapgen callbacks" (server.cpp:349):
\* stopThreads comes back, whatever the callbacks do.
StopThreadsReturns == server = "stopping" ~> server = "stopped"
=============================================================================
