# Stonecraft: a verification development

Stonecraft is a fork of Minetest: a voxel game server and client in C++, with
games and mods in Lua. This directory holds TLA+ models of the parts of the
engine whose correctness depends on interleavings, on the network and on limits:
the MTP transport over UDP, the emerge threads, the server's map in memory and
in the database, the blocks sent to a client, and the client's mesh workers. All
are model-checked with TLC on small instances; their safety is also proved with
TLAPS for every value of the constants. Paths below are relative to
the repository's `src/`.

`PROJECT.json` lists the components, the runs, the lines each definition
translates (`map`), the hazards with the properties that watch them, at least one
mutant of the code for every property (definitions that end in `_Mutant`: a
dropped guard, a missing reset, an off-by-one, under which TLC finds the property
violated), and the theorems.

## 1. The system

| Component | State | Operations | Talks to |
|---|---|---|---|
| MTP transport, `network/mtp/` | per peer three channels: window, sequence numbers, queued commands, queued, sent and early packets; half-open flag, ping and timeout timers | send and receive thread: split, number, send, resend, ack, deliver; handshake, disconnect, timeout | UDP; command queue from, event queue to the application |
| Emerge queue and threads, `emerge.cpp`, `servermap.cpp:200-330` | one map of entries per block, one queue per thread, counters per peer, chunks being generated, loaded blocks | enqueue, pop, load, generate, finish, callbacks, cancel, stop | server thread, Lua, database, `m_queue_mutex`, `env_mutex` |
| Server map, `servermap.cpp`, `map.cpp`, `mapblock.cpp` | sectors and blocks, usage timers, modified state | load, save, unload | emerge threads, environment, database |
| Server environment, `serverenvironment.cpp` | active blocks, players, ABMs, timers | step, activate, deactivate | map, objects, Lua |
| Active objects, `server/activeobjectmgr.cpp` | objects by id, ids in use | register, remove, step, clear | environment, Lua |
| Client interface, `server/clientiface.cpp` | client states, blocks sent and being sent | state machine of a login, GetNextBlocks, GotBlock, SetBlockNotSent | packet handlers, emerge |
| Server loop and handlers, `server.cpp`, `network/serverpackethandler.cpp` | peers, step timers | AsyncRunStep, handlers | all of the above |
| Inventory, `inventorymanager.cpp` | lists of item stacks | move, drop, craft | Lua callbacks between the steps |
| HTTP, `httpfetch.cpp` | fetches queued and running, results by caller | start, cancel, deliver | curl thread |
| Mod channels, `modchannels.cpp` | members and state of channels | join, leave, state | server, clients |
| Node timers, `nodetimer.cpp` | ordered timers, index by position | set, remove, step | environment |
| Mesh generation, `client/mesh_generator_thread.cpp` | blocks queued and in flight, acks owed | queue, take, done | client main thread |
| Containers and threads, `util/container.h`, `util/thread.h`, `threading/` | queues, events, ordered mutex, a map that may change while it is iterated | push, pop, wait, signal | everything |
| Settings, bans, rollback, databases | key-value or SQL stores | get, set, save | everything |
| Map generators, noise, rendering, GUI, sound, vendored libraries | numerical or presentation | | |

How they interact. The server thread takes `env_mutex` for a step, handles
packets that MTP's receive thread has delivered, and asks the emerge manager for
blocks it misses. An emerge thread loads or generates a block and calls the
requester's callback; a mod's callback runs in Lua under `env_mutex` and may ask
for further blocks. Blocks go out to clients as reliable packets over MTP; a
client acknowledges a block at the application's level with GOTBLOCKS.

What is hard, and what makes each part correct:

* **MTP channel.** UDP loses, repeats and reorders; sequence numbers have 16 bits
  and wrap after 65536 packets; the window changes while packets are under way.
  Correct means: delivered once and in order, nothing that was accepted
  forgotten, an ack removes the packet it was sent for, old and new copies told
  apart by the number alone.
* **Emerge.** Several threads, two locks, an event, requests that merge, chunks
  of several blocks, Lua that calls back in, and a stop at any moment. Correct
  means: every callback is called once, the two halves of the queue and its
  counters agree, a chunk is generated by one thread and is not left marked, no
  wakeup is lost, and stopping ends.
* **Map blocks.** A block read from the database without the lock can be older
  than the one saved meanwhile. Correct means: no change of a block is undone.
* **Clients and blocks.** An ack that crosses a change of the block must not mark
  the new contents as sent; a slot that is not given back starves the client.
* **Connection management.** Half-open peers, a handshake packet that is lost or
  repeated, removal while others still use the peer.
* **Meshes.** Workers read blocks that the main thread changes and unloads, without a
  lock. Correct means: no pointer dangles, no reference stays, and what was read torn
  is replaced.
* **Active objects, inventory, HTTP.** State that is changed by callbacks or other
  threads in the middle of an operation.

## 2. The modules

### Sequence numbers: `MtpSeqnum`

Pure operators, from `internal.h` and `getOutgoingSequenceNumber`:
`seqnum_higher`, `seqnum_in_window` and `ExceedsWindow` (the code's two-branch
distance test, with the branch for wrapped numbers being one smaller).
`SEQNUM_MAX` is a constant that stands for 65535, so the modulus is
`SEQNUM_MAX + 1`; all differences are taken modulo it, as the code's `u16` does.

### The reliable channel: `MtpChannel`, `MtpChannelInv`, `ReliableStream`

One direction of one channel between two open peers. The variables have the
names of `con::Channel`: `queued_commands` (commands not yet split),
`queued_reliables` (numbered, not sent), `outgoing_reliables_sent` (sent, not
acknowledged), `next_outgoing_seqnum`, `m_window_size` at the sender,
`incoming_reliables` and `next_incoming_seqnum` at the receiver; `packets` and
`acks` are the network. `accepted`, `allocated` and `delivered` are history. A
packet is its number and the position in the stream that it carries; no code
looks at the position.

| Action | Code |
|---|---|
| `PutReliableSendCommand` | `UDPPeer::PutReliableSendCommand`, with `processReliableSendCommand` when it splits at once, or is refused and queued |
| `RunCommandQueues` | `UDPPeer::RunCommandQueues` for a reliable command, which may be refused again |
| `CanAllocate`, `Granted`, `PutsBack` | the loop of `processReliableSendCommand`: numbers are taken one by one, and when one is refused the granted ones are put back one by one with `putBackSequenceNumber`, each only if it is the last (`IsLastGranted`) |
| `SendQueued` | the loop of `sendPackets` and `sendAsPacketReliable`, the `insert` into the sent buffer included |
| `Resend` | `runTimeouts` for a packet whose timer is over (any time) |
| `HandleAck` | the ACK branch of `handlePacketType_Control` |
| `UpdateTimers` | the change of the window, any step (what it is: `MtpWindow`) |
| `DisconnectPeer`, `DeletePeer` | `disconnect_peer`, `deletePeer` |
| `HandleReliable` | `handlePacketType_Reliable`: deliver, buffer, ack again, or ignore |
| `CheckIncomingBuffers` | `checkIncomingBuffers`, which runs before the socket is read |

The network loses a datagram by not adding it, repeats one by not removing it,
reorders because sets have no order. A datagram is delivered for as long as
fewer than `DataLifetime` (`AckLifetime`) numbers have been granted since: with
unlimited delays no protocol with numbers that wrap can be correct, and these
constants say how much delay this one tolerates.

`ReliableStream` is what the notes at `internal.h:86-90` promise: positions go in,
come out in order and once, while the peer is open. `MtpChannel` implements it
(`StreamSpec`), with `open <- peer = "open"`.

`MtpChannelInv` holds the inductive invariant `IInv` and `WindowAssumption`.

Left out: ping and handshake packets on channel 0 and half-open peers, which are
`MtpConnection`'s; payloads that
`processPacket` rejects (a rejected one leaves the buffer undrained; `Drained`
is a guard of `HandleReliable`), resend counts and timers, which only decide when
a resend or a deletion happens and are nondeterministic here.

### The packet buffer: `MtpReliableBuffer`, `ReliableBufferSpec`

`MtpChannel` takes `ReliablePacketBuffer` for a set. The code keeps a sorted list
of wrapping numbers, and `insert` walks it with integer comparisons around
`next_expected`. `MtpReliableBuffer` is that list with `insert`, `popFirst`,
`popSeqnum` and a moving base (`incNextIncomingSeqNum`); `ReliableBufferSpec` is
the set; the run checks that the first implements the second.

### The congestion window: `MtpWindow`

`Channel`'s counters and `UpdateTimers`, with the packet counters cleared every
second and the byte counter every ten. The loss ratio is the quotient of two
unsigned integers, as in the code. Quantities are scaled: a packet counts as one
unit of bytes, `LargeStep`, `HalfStep` and `SmallStep` stand for 100, 50 and 10.
`ResizesWithReason` says that the window shrinks only when at least as many packets
were lost or late as were acknowledged, and grows only when it was used and more were
acknowledged than lost or late, but for a second without any ack (section 5).
Rates shown in the statistics are left out.

### Split messages: `MtpSplit`

A message longer than a packet is split by `makeAutoSplitPacket` and put together
by `IncomingSplitBuffer`, reliable and unreliable messages of a channel sharing
the split numbers and the buffer. `MtpSplit` has the sender's counter and waiting
commands, the reliable `stream` (the abstraction of `MtpChannel`: in order and
once), the unreliable chunks in `network`, and `m_buf`. A reliable command that the
window refuses takes a split number each time it is tried, as the code does
(`Refused`). Reliable messages implement `ReliableStream` once more, now with
messages in place of packets (`MessageSpec`). `MayTake` and `ChunkLifetime` assume
that the numbers do not come round while something of an older message is left;
nothing in the code enforces it, 65536 split messages within the timeout of 30
seconds just do not happen.

### Emerge: `Emerge`, `MC_Emerge`

The emerge manager, its threads and as much of the server thread as asks for
blocks and stops them. `m_blocks_enqueued`, `m_peer_queue_count` and
`m_block_queue[t]` are the queue, guarded by `m_queue_mutex`;
`m_chunks_in_progress` and `m_blocks` belong to the map, guarded by `env_mutex`;
`notified[t]` is the thread's `Event`; `pc[t]` and `item[t]` are where a thread
is and the entry it holds. A block is absent, in memory without being
generated, or generated; the database is a constant.

| Action | Code |
|---|---|
| `Request` | `enqueueBlockEmergeEx` with `pushBlockEmergeData`: limits, merge with an entry that waits, choice of the thread; the signal follows after the unlock as `Signal` |
| `Loop`, `Wait` | the head of `EmergeThread::run`, `popBlockEmergeData`, `Event::wait` |
| `LoopOverLimit` | a block over the world limit: the popped entry goes with its callbacks |
| `Fetch`, `FetchLoaded`, `LoadFails` | `getBlockOrStartGen`, before and after the database is read without the lock; the block that cannot be loaded |
| `StartGen` | `ServerMap::initBlockMake`, which marks the chunk before it tests the mapgen limit and returns false, the mark left |
| `InitBlockMakeFails` | a block of the area that cannot be loaded: the exception ends the thread, the chunk stays marked |
| `Generate`, `FinishGen` | the generator without locks, and a Lua error after which `finishGen` is skipped; `finishBlockMake` and `on_generated` with `env_mutex` |
| `RunCompletionCallbacks`, `EnterLua`, `LuaRequests`, `LuaReturns` | `runCompletionCallbacks` and `LuaEmergeAreaCallback`, with the env lock, with requests of the mod |
| `Shutdown`, `CancelPendingItems` | the end of `run`; `cancelPendingItems` with `m_queue_mutex` held |
| `BeginStep`, `StepRequests`, `EndStep` | a server step, with the env lock |
| `StopServer`, `StopThread`, `ThreadsStopped` | `stopThreads` of `~Server` |

Left out: failure of `initScripting`, the map edit event at the end of a block,
contents of blocks; what others do to the map meanwhile is `ServerMapBlocks`. What the
code loses is recorded, never excluded: `lost` has the callbacks of a block over the world
limit and of the block at which an exception ended its thread, `left_marked` the chunks
that nobody will unmark.

### Connections: `MtpConnection`

A client and a server with the server's two threads, on channel 0. `c_state`,
`m_peer_id`, `c_next`, `c_sent`, `c_heard` and `c_setting` are the client's
`Connection`; `m_peers`, `half_open`, `next_in`, `held_back`, `unanswered`,
`m_pending_disconnect`, `m_pending_deletion`, `m_command_queue` are the server's;
`recv`, `send_peer` and `timeouted_peers` say where its threads are and which peer
they hold; `up` and `down` are the network; `freed` and `events` are history.

| Action | Code |
|---|---|
| `Connect`, `Ping`, `ClientResends` | `connect` with its dummy packet, the pings of `runTimeouts`, packets sent again as they were made |
| `ClientReceives` | acks, SET_PEER_ID (each copy is acknowledged, the first is looked at), DISCO |
| `SetPeerID`, `FixPeerId` | the id is written without a lock, and then a command makes the send thread correct the packets that carry the old one |
| `ClientDisconnects`, `ClientTimesOut` | the client goes, with one DISCO or silently |
| `ReceiveKnown`, `ReceiveByAddress`, `CreatePeer`, `Ignore` | the receive thread's `receive`: the peer by id, by address with a reminder of the id, or a new one |
| `ProcessPacket`, `PutDataReceived`, `LetGo` | `processPacket`, the event, the end of the `PeerHelper` |
| `BeginTimeouts`, `TimesOut`, `ServerResends`, `RemoveTimedOut` | `runTimeouts` peer by peer, then the removals |
| `ServerCommand`, `RemoveDisconnected`, `DisconnectPeer` | commands, `sendPackets`' end, the application's call |

`DeletePeer` takes the peer off the list, puts the event and leaves the freeing to
the last thread that holds the peer (`DecUseCount`).

Abstracted: a peer is numbered in the order of creation (the code draws an unused
id); the lookup of a peer and the `getPeerNoEx` behind it are one step, since what
may happen between them is the same as a deletion right after; packets that are
sent by a command go out with it, where the code puts them in `m_outgoing_queue`
first; a new peer that is refused because there were too many (`m_new_peer_ratelimit`)
is a lost datagram; pings beyond `MaxPackets` repeat the last number once all are
acknowledged. Left out: the server's own pings, and other clients (peers share
nothing but the lists).

### Block sending: `BlockSending`

One `RemoteClient` (`remote`: the sets `m_blocks_sending`, `m_blocks_sent`,
`m_blocks_modified`, the nearest unsent distance and the pause), the server's edit
events (`m_unsent_map_edit_queue`), the emerge queue as seen by this client
(`emerging`, `loaded`), the client (`client`, `acks`) and three channels (`down0`
for single changes, `down2` for blocks, `up2` for GOTBLOCKS and DELETEDBLOCKS, and
`up0` for INTERACT), each of which is in order, while none is with another. The
contents of a block are the set of edits made to it, so "the client has what the
server has" is equality of sets, whatever the order in which copies and single
changes come. `Dist` is the shell in which the scan meets a block, `CenterDist` the
Euclidean distance from which `d_start` takes a modified block (`clientiface.cpp:201`), and
`Beside[b]` are the blocks in which the pointed face of a placement in `b` may be.

| Action | Code |
|---|---|
| `SendBlocks` with `Window`, `Stops`, `Visited`, `new_nearest_unsent_d` | `GetNextBlocks` (its scan as sets: what is visited, chosen, put in the emerge queue, and where it stops), `SendBlocks`, `SentBlock` |
| `PauseEnds`, `Turn` | the pause's timer; what makes the scan begin at 0 again |
| `SendBlock` | the direct sending that is not recorded with `SentBlock` |
| `EditMap` | `MapEditEvent`s |
| `Interact` with `Dig`, `Place` | `handleCommand_Interact` when it gets to the action: done or not, with `SetBlocksNotSent` or, for a placement the server does not predict, `ResendBlockIfOnWire` |
| `InteractDenied` with `NotInHotbar`, `OutOfReach`, `NoPrivilege` | its early returns (`serverpackethandler.cpp:974-981`, 957-961 and 1045-1051, 1000-1019): nothing is sent again, the block of `node_undersurface`, or that of the node dug (`node_undersurface`) or placed (`node_abovesurface`) |
| `SendMapEdits` | the loop of `AsyncRunStep` over the queue: what is sent singly, to whom, and the blocks that are marked as not sent |
| `Emerged`, `EmergeCancelled`, `Unload` | the emerge threads and the server's map, as far as it concerns `loaded` |
| `ReceiveNode`, `ReceiveBlock`, `SendGotBlocks`, `SendDeletedBlocks`, `Predict` | the client: changes, blocks, acks after the mesh update (`MeshUpdate`), unloading, and predictions |
| `HandleUp2` | `GotBlock` and `SetBlockNotSent` |

Left out: the login's client states, the field of view and occlusion culling (a block
of `Blocks` is wanted), and the share of several clients in the blocks of a step
(`max_blocks_to_send` is there). Two histories name what the code gets wrong: `mistaken`
(an ack for an older copy) and `unreverted` (a refused prediction that nothing overwrites).

### The server's map: `ServerMapBlocks`

`m_db` and `blocks` (database and memory), `modified`, `m_chunks_in_progress`, and of
each emerge thread what it does and the copies it holds. `truth` is what every block
should be, `exposed` the blocks in a situation in which the code may lose a change, and
`over_mapgen_limit` the chunks that cannot be generated (any, from the start). Contents
leave out light, but not what loading does to the modified state on account of it
(`servermap.cpp:702-721`): the block's is reset, its neighbors' may be raised
(`LightChanges`, `Becomes`). `GenerationIsSafe` says that a chunk has one generator at a time,
that it is marked as long as it has one, and that writing back undoes no edit of an
unexposed block.

| Action | Code |
|---|---|
| `EmergeBlock`, `Edit` | `ServerMap::emergeBlock`; anything that raises a block's modified state |
| `Save`, `TimerUpdate`, `DeleteBlock` | `ServerMap::save`; `Map::timerUpdate` with a save that may fail, and the sector that goes with its blocks; `deleteBlock` |
| `GetBlock`, `ReadBlock`, `DecideAgain` | `getBlockOrStartGen`'s parts: with the env lock, the database without it, with it again |
| `LoadFails`, `BorderLoadFails` | a block that cannot be read: the thread's own, or one of the area in `initBlockMake`, after the mark was set |
| `StartGenOrCancel` with `StartGen`, `Cancel` | `initBlockMake`: the chunk is marked, the area brought to memory and copied; a chunk beyond the mapgen limit is marked and not generated |
| `FinishGen`, `AbandonGen` | `finishBlockMake` (`blitBackAll` over what is still in memory); a Lua error before it, with the chunk left marked |

The three exposures, which are named because the code has them: the thread has read a
copy that is saved over or deleted before it decides (`emerge.cpp:710`); a block is
edited while the chunk around it is generated (`servermap.cpp:278`); a sector is
deleted although the saving of a block in it failed (`map.cpp:314-316`).
Left out: the limited branch of `timerUpdate`, which the server does not take, and
reference counts, which hold blocks in memory (`MeshUpdate` has those of the client).

### Meshes: `MeshUpdate`

The client's main thread writes blocks (`main`, `map`, `refs`, `mesh`), the queue is
`m_queue`, `m_urgents`, `m_inflight_blocks` under its mutex, the results are
`m_queue_out` and `m_queue_out_urgent`, and `worker[w]` is a thread of
`MeshUpdateManager`. A worker copies block after block without a lock: a block's
data is odd while it is written, so an odd number in a mesh is a torn copy.

| Action | Code |
|---|---|
| `BeginWrite`, `EndWrite` | a block arrives, or a node changes |
| `UpdateBlock` with `AddBlock`, `DeferUpdate` | `updateBlock`, `addBlock` (merging, `refGrab`), `deferUpdate` |
| `BeginReplace`, `ReplaceMesh`, `EndReplace` | the loop of `Client::step`: `getNextResult`, the mesh, `refDrop`, the acks |
| `Unload` | the client's `timerUpdate`, of blocks without references |
| `Wake`, `Pop`, `FillBlockData`, `PutResult`, `Done` | `UpdateThread::run`, `MeshUpdateQueue::pop`, `fillDataFromMapBlocks`, `putResult`, `done` |

Left out: mesh grids of more than one block, the crack, and the end of the workers.

How the modules fit together: `MtpConnection` opens what `MtpChannel` takes as open;
`MtpChannel` is the stream that `MtpSplit` and the channels of `BlockSending` stand on;
`MtpReliableBuffer` and `MtpWindow` are the detail of its buffer and its window; `Emerge`
brings requests to the threads whose effect on the map is `ServerMapBlocks`; and the
acks of `BlockSending` are what `MeshUpdate` gives back.

## 3. The runs

| Run | Question | Bounds, and why they do |
|---|---|---|
| `channel` | the inductive invariant and the abstract stream; everything is delivered unless the peer is given up | 3 packets in messages of 1 to 3; 16 numbers starting at 14, so that the wrap is in the middle; window 2 to 4: commands wait and resume; 2 datagrams and 2 acks in flight: one overtakes another |
| `channel_wrap` | the same number for two packets | 11 packets over 10 numbers: the last has the first one's number while late copies and acks of that may still arrive; the receive window is half of the numbers and lifetimes are the largest the assumption admits, so any slack would show |
| `channel_put_back` | the inductive invariant when a command is refused midway and gives its numbers back | 7 packets in messages of 1 to 3, 16 numbers from 13, so that numbers are put back on either side of the wrap and across it; window 2 to 4; one datagram and one ack in flight, as reordering is not the question |
| `channel_parts` | the packet list implements a set; when and by how much the window changes | the list: the whole number space of 16 with a window of 8, any order of operations. The window: 3 to 14 from 5, steps 5, 2 and 1, up to 3 resends at a time, byte counters over 3 seconds; counters up to 8 exceed half of the window at every size the property speaks of. The two parts share nothing; a run takes one or the other |
| `split` | whole messages, reliable ones once and in order, incomplete ones go | 2 reliable and 2 unreliable messages of 1 or 2 packets and two refusals over 3 numbers: up to six numbers are taken, every one twice |
| `emerge` | queue, counters, marks, callbacks, wakeups, a complete stop; every callback is called and the stop ends | 2 threads, 4 blocks in 2 chunks, of which one is over the mapgen limit and one of its blocks over the world limit, queue limits 2, 2 and 1 that are reached, failing loads (of the block or of another of the area), generators and callbacks, callbacks that emerge, 2 requests for any block |
| `emerge_stop` | *violation*: a mod emerges from a cancelled callback | see section 5 |
| `block_sending` | slots, agreement of client and server, the scan finds every block | 2 neighboring blocks, the second beyond the reach of the scan's first call and farther in Euclidean distance than in shells; placements in the second whose pointed face is in the first; one slot and one place in the emerge queue, so either is full; 1 edit (of the map, or predicted and then performed or refused in any of the code's ways) and 2 of: turn, unload, deletion at the client, cancelled emerge, direct sending. Five messages of three channels may be under way at once, which is where orders differ |
| `server_map` | changes are kept, what is unmodified is stored, chunks are generated safely | 2 blocks of one sector in 2 chunks with a common area, none or the first over the mapgen limit (all four choices pass, one by one), 2 threads, 1 edit, 2 unloads or deletions, 1 failure of a save, a load or a generator; saving and loading are not bounded |
| `mesh` | references, one update at a time, acks, current meshes, completion | 2 neighbouring blocks, so each update reads what the other writes; 2 workers; 2 writes, 1 unload |
| `connection` | one peer, freed in time, events, half-open, acks | 2 peers in a row for one client (it times out at the server and is heard of again), the dummy packet and a ping, one datagram lost or repeated, one on its way per direction when a timer sends another, one waiting command |
| `connection_live` | set-up succeeds, what is gone is removed | the same with one peer |

Every bound is a constant whose name begins with `Max`, appears in guards and cuts
nothing else (`MaxChunks` of the channel is the longest message, a property of the
application). `CHECK_DEADLOCK FALSE` is given where the system may stop: a
channel or split messages when the application has sent everything, emerge threads that
have ended, a map, a client or a mesh queue that is out of edits. `channel_parts` and
`block_sending` check deadlock.

Symmetry is used for the threads of `server_map`, which checks invariants only. Elsewhere
emerge threads are numbered (the code breaks ties by index), blocks differ by distance,
chunk or neighbors, and liveness runs could not use it.

**Fairness**, and what in the code justifies it:

* `MtpChannel`: the threads keep running (weak fairness of the steps that need nothing
  from outside); a packet that is sent again and again gets through once, and is
  acknowledged by an ack that is not lost for ever (strong fairness per position). The
  code resends until the peer is given up, which no fairness forces and
  `AcceptedIsDelivered` excuses.
* `MtpSplit`: what `MtpChannel` promises, and `runTimeouts` running.
* `Emerge`: strong fairness per thread, because `env_mutex` is an `ordered_mutex`
  (`threading/ordered_mutex.h`), which serves its waiters by ticket, so a server thread
  that takes it every step cannot keep an emerge thread out; weak fairness of the server's
  steps once begun. Nothing forces the server to stop or to start a step.
* `BlockSending`: weak fairness of the parts of the server's loop, of what MTP delivers, of
  the emerge queue and the client's mesh updates, which `Emerge` and `MeshUpdate` promise.
  Nothing forces edits, moves or acts of the player.
* `MeshUpdate`: weak fairness of the main thread's step that is under way and of each
  worker. Nothing makes blocks arrive.
* `MtpConnection`: weak fairness of the threads, and of the arrival of what is on its way
  (the network loses at most `MaxFaults` datagrams); strong fairness of a command and of
  the removal of a disconnected peer, which the send thread reaches in every round between
  the timeouts; and of a timeout of a peer whose client is gone and of whom nothing is
  under way any more.

## 4. What is proved

The proof modules state their theorems for every value of the constants that the
named assumptions of the model admit: any number of threads, peers, blocks, packets,
edits, and any limits and windows. Each follows the same pattern: an inductive
invariant, one lemma per action (with one step per part of the invariant that the action
can disturb), and a temporal theorem that joins them.

**Sequence numbers** (`MtpSeqnumProofs`): `InWindowIsAhead` (the two-branch window
test is exactly "less than the size ahead"), `HigherIsTotal`, `GrantedSpan` (what the
two-branch test of the sender really limits: the window plus one).

**The channel** (`MtpChannelProofs`): `Invariance` (`Spec => []IInv`), and from it
`TypeCorrect`, `DeliversInOrder`, `ForgetsNothing`, `SpanBounded`, `AcksAreSound`,
`AcksNameTheirPackets`, `ReceiverTellsApart` and `ImplementsStream`
(`Spec => StreamSpec`). Assumptions: `SeqnumAssumption`, `ChannelAssumption` (types of
the constants, limits in order) and `WindowAssumption`:

1. the sender's largest window plus 2 is below the receive window: 2048 and 32768
   in the code;
2. `QueueLimit + MaxChunks <= MAX_RELIABLE_WINDOW_SIZE`: with the code's
   constants, messages of at most 31744 packets. The code only checks for
   32767 (see section 5);
3. a datagram does not arrive after `Modulus - MAX_RELIABLE_WINDOW_SIZE` later
   numbers (32768), an ack not after `Modulus` (65536).

The argument. In-order delivery alone is not inductive: that the packet with the
number `next_incoming_seqnum` carries the next position needs that every number
is its position modulo the number space (`AllNumbered`) and that no other copy
with that number can arrive. The latter follows from where packets can be:
queued ones are the last that were numbered (`QueueIsTail`), early ones within a
window of what was delivered (`IncomingAhead`), and unacknowledged ones within
half of the number space (`SpanFitsWindow`). The span is the hard part, as the
code's check is off by one at the wrap and ignores packets that are queued: it
holds because either something was sent and `GrantedSpan` applies, or nothing
is waiting for an ack, and what is queued is bounded by `QueueLimit` and one
command. That a refused command gives all its numbers back, whatever the wrap
(`AllArePutBack`: `putBackSequenceNumber` never refuses), is what lets a retry start from
the same state. `NothingForgotten` needs the span, since `sendAsPacketReliable` inserts
relative to a window behind the next number; `AckMeansReceived` and
`NothingForgotten` together say that no packet below the oldest unacknowledged one
is missing. `CommandsFollow` carries order from the application to the numbers.

**The buffer** (`MtpChannelPartsProofs`): `InsertsSoundly` and `ImplementsBuffer`
(`Spec => BufferSpec`). The invariant `BufferInv` is the type and `SortedFromBase`:
measured as distances from the oldest number the list may hold, the list increases,
wherever the numbers wrap. The lemma behind it is that `WalksPast`, the comparison of
plain integers in `insert`, compares these distances.

**The window** (`MtpChannelPartsProofs`): `WindowResizes`, from `CountersAgree` (an
acknowledged packet was counted as successful and its bytes as transferred). The proof
turns on the loss ratio being the quotient of two unsigned integers of which the first
is not the larger one: it is 0 or 1, whatever the code's thresholds in between say, and 1
only when no fewer were lost or late than acknowledged. A second without any ack is the
exception the theorem names, as the code has it (section 5).

**Split messages** (`MtpChannelPartsProofs`): `SplitTypeCorrect`, `MessagesAreWhole`,
`NoMessageIsStuck` and `MessagesAreAStream` (`Spec => MessageSpec`). `SplitAssumption` has the
types of the constants and `ChunkLifetime + SplitTimeout <= Modulus`: a chunk and an entry
that waits for it together do not outlive a round of the split numbers. The invariant
`SplitInv` gives every split number the turn it was taken in, which counts on where the
number wraps. `EntriesAreOfOneMessage`, which all four theorems need, says that an entry of
`m_buf` has chunks of one message only; it is kept because a chunk of another message
with the entry's number would have to be a whole round older or newer. For unreliable
chunks `ChunksAreRecent` and the timeout exclude that. A reliable entry has no timeout,
and time does not help; there it is the order of the stream: `StreamRuns` (chunk after
chunk, message after message) and `HeadHasTheEntry` (a reliable entry is that of the
message at the head of the stream, and has just its chunks that are gone from there), so
that no later message can meet it. That is also why none is stuck. `InOrder` and
`HandedUp` count the messages from the command queue to what was delivered, for the
refinement; the steps of `Refused` tries, unreliable messages and timeouts stutter.

**Connections** (`MtpConnectionProofs`): `ConnectionTypes`, `OneForTheAddress`,
`PeersAreFreedInTime` (invariant `Lifecycle`: who holds a deleted peer keeps it, and
nobody else is asked to), `OpenPeersAreKnown` (`IdsAreTold`: no datagram carries an id the
client has not been told), `EventsComeInOrder` (`EventsInv`: what the receive thread holds
determines which events are still to come) and `AckedAreReceived` (`AcksInv`).

**Emerge** (`EmergeProofs`). `Types` (the queue's halves, the counters, what a thread holds)
gives `QueueConsistent`, `EmergeTypes`, `QueueHalvesAgree` and `PeersAreCounted`; `MarksInv`
gives `GeneratedByOne`, `MarksAreNotLeft` (a chunk that is marked is being generated, or one
of the three kinds in `left_marked`: over the mapgen limit, a generator that ended with a Lua
error, a block of the area that could not be loaded) and `MarksCorrect`; `WakeInv` gives
`WakeupsAreNotLost`. `CalledOnce` and `StoppedIsFinished` rest on `CallsInv`: a callback is in
one place at a time (`OnceInv`), is lost only with a block over the world limit or with the
one at which an exception ended its thread (`LostInv`), and waits for an ended thread only
if it came late (`LateInv`). They assume nothing of the limits.

**The map** (`ServerMapBlocksProofs`): `MapTypes`, `ChangesAreKept`,
`UnmodifiedAreStored` and `ChunksAreGeneratedSafely`. The invariant `NoneLost` says of a block that is
not exposed what memory, database and every copy of a thread hold: a copy is either what
the database still has or belongs to a block that came to memory meanwhile, in which case
it is not used, or only its `edits` are written back, and they are those of the block.

**Block sending** (`BlockSendingProofs`): `SendingTypes` (which needs that a ranking of a
finite set is onto, for the order in which blocks go out), `SlotsAreGivenBack` (inductive by
itself) and `ClientsAgree`. The invariant `Agrees(b)` behind the latter: of a block that is
sent and neither mistaken nor unreverted, nothing is on its way, and the client has the map's contents up to edits
that are queued or on their way as single changes, or predicted ones that the server has
not decided; of one that is being sent, the last copy on its way is like that, or the client
is and an ack is owed; and a DELETEDBLOCKS on its way excuses either, because the server will
mark the block as not sent.

**Meshes** (`MeshUpdateProofs`): `MeshTypes`, `ReferencesAreCounted`, `UpdatesAreSingle`,
`AcksFollowUpdates` and `MeshesBecomeCurrent`. `MeshAssumption`: finite sets of blocks and
workers, and neighbors that are each other's and not the block itself, as in
`g_26dirs`. The invariant `MeshInv` has, beside the type,

* `RefsAreCounts`: the references of a block are as many as the queued updates, working
  workers and waiting results that point to it. `Total` adds them up, with a result
  counted once per place it is in; lemmas on `Hits` and `Busy` say what appending,
  merging, taking an update, putting a result and replacing a mesh does to the sum;
* `AcksAreUnique`, by the same count: an ack is in one place, and the one that is about to
  be queued is in none;
* `PositionsAreDistinct`: one update of a position in the queue, one worker for it, and
  `m_urgents` and `m_inflight_blocks` are just those positions;
* `AllAreSound`: an ack is no newer than what its worker has copied of the block, once it
  has copied it, and until then no newer than the block. That is what makes the unlocked
  copy of a block that is being written harmless for the acks;
* `MeshesWillBeCurrent`: for every block that a mesh shows, the current data are in the
  last place that has an update of the mesh's position: still to be queued, queued, at a
  worker that has not copied the block or has copied it as it is, or in the last result
  of one of the two queues. A write may tear any copy under way, and the invariant survives
  because the writer then queues the block and its neighbors (`MainIsInOrder`); it does not
  survive an urgent result that overtakes an older one, which is the exception of the
  property (section 5).

Every invariant and action property of the passing runs is stated by a theorem. Only
model-checked: liveness (`AcceptedIsDelivered`, `IncompleteIsDiscarded`,
`EveryCallbackIsCalled`, `StopReturnsUnlessLockedOut`, `EventuallyUpToDate`,
`EventuallyDone`, `Established`, `GoneIsRemoved`), which rests on fairness and ENABLED and is
outside what the prover does. No theorem is about a recursive definition: none of the
proved modules has one.

## 5. Where the code does not do what one would expect

One run ends in a violation, and quotes the comment that says otherwise
(`findings` in `PROJECT.json`):

* `emerge_stop`: callbacks of cancelled blocks run with the queue's mutex held
  (`emerge.cpp:482`); one that calls `core.emerge_area` locks it again, and `stopThreads`
  never returns.

The following came up while modelling. Where a property or theorem above cannot hold
for one of them, the exception or assumption is named in its definition.

* `impl.cpp:1098`: a command of close to `MAX_RELIABLE_WINDOW_SIZE` packets behind a queued
  one makes the sent buffer refuse a packet, which is then sent once only. Hence the second
  part of `WindowAssumption`.
* `impl.cpp:774`: the loss is clamped to the number of acknowledged packets, so a second in
  which everything is lost counts as one without loss and the window may grow, where the
  comment at 771-773 has congestion in mind; the branch for it (782-783) cannot be reached.
  `ResizesWithReason` names the exception (`acked = 0` in `GrowsOnlyWhenUsed`).
* `emerge.cpp:696`: a block over the world limit is dropped after its callbacks were taken
  off the queue, while `lua_api.md` promises a callback for each block, and
  `core.emerge_area` reaches such blocks. They are in `lost`, which `CallbacksOnce`,
  `StoppedMeansFinished` and `EveryCallbackIsCalled` except.
* `servermap.cpp:206`: the chunk is marked before the mapgen limit is tested (216-219) and
  before the area is loaded (239, which may throw, caught at `emerge.cpp:772`), and
  `finishGen` is skipped after a Lua error (`emerge.cpp:733-742`): the chunk stays marked
  and is never generated until the server is restarted (`left_marked`).
* `network/serverpackethandler.cpp:974-981`: what the client predicted with an item beyond
  the hotbar is not sent again; 957-961 and 1045-1051 send the block of
  `node_undersurface`, while the node is predicted at `node_abovesurface`, maybe in another
  block; and 1267-1271 send a block only if it is on the wire. The refused prediction then
  stays in a block the server takes for sent, until something else changes it (`unreverted`).
* `emerge.cpp:239`, `server.cpp:349`: a callback of one thread that is stopping may emerge a
  block whose thread has ended; nobody calls its callback (`late`).
* `emerge.cpp:710`, `servermap.cpp:278`, `map.cpp:314-316`: the three exposures of
  `ServerMapBlocks`; `NoChangeLost` without the exception does not hold.
* `server/clientiface.cpp:418`: GOTBLOCKS names no version, so the ack of an earlier copy
  counts as that of a later one which is still on its way (`mistaken`); `ClientAgrees`
  without the exception does not hold.
* `client/mesh_generator_thread.cpp:291-304`: an urgent result overtakes an older one of the
  same block, which then replaces it (`overtaken`); `MeshesAreCurrent` does not hold.
* `network/mtp/threads.cpp:193-204`: a half-open peer that times out and is created again
  has forgotten what the first acknowledged; `AckedIsReceived` speaks of the first peer.
* `network/mtp/threads.cpp:602` and 374: `fix_peer_id` corrects the packets that were sent, not
  the queued ones, and a packet that is queued for want of window counts as not sent;
  both need a full window during the set-up, which does not happen with one dummy packet.

## 6. Not modelled

* **MTP**: payloads that `processPacket` rejects, and headers and lengths that do not parse
  (two peers of this program do not send them). Statistics, which influence nothing.
* **Server loop and packet handlers, environment, script bindings**: glue and game rules.
  What they do to a modelled component is an action there. That `deleteBlock` leaves the
  block in memory until the next step for pointers to it (`servermap.cpp:754`) is left out:
  which pointers there are is up to the callers.
* **Inventory, active objects, mod channels, node timers, containers**: one thread each, or
  one lock around one container. What can go wrong in a move of items depends on
  what callbacks of mods do in the middle of it; the others have unit tests that reach
  the cases a model would.
* **HTTP, client media**: most of the behaviour is libcurl's.
* **Settings, bans, rollback, database backends**: key-value or SQL stores whose state is the
  store's; `ServerMapBlocks` has the map's database as a function from positions to copies.
* **Map generators, noise, light, voxel algorithms**: numerical; a generation is one step of
  `Emerge`, and what it writes back is in `ServerMapBlocks`.
* **Rendering, GUI, sound, irrlicht, vendored libraries, games, builtin Lua, the Android
  port**: presentation, data or third-party code. They are by far the largest part of the
  repository, so the modelled lines are a small share of it.

What a next step would take up: mesh grids of more than one block with their deferred
neighbors; several clients that share the blocks of a step; the fetches of `httpfetch.cpp`.
