---------------------------- MODULE BlockSending ----------------------------
(***************************************************************************)
(* How one client is kept up to date with the map: what RemoteClient       *)
(* (server/clientiface.cpp) remembers of the blocks the client has, how    *)
(* Server sends blocks and single changes (server.cpp), and how the client *)
(* stores and acknowledges them (client/client.cpp).                       *)
(*                                                                         *)
(* The contents of a block are the set of edits made to it: an edit is a   *)
(* number, and two edits never concern the same node.  The server's and    *)
(* the client's threads meet in three reliable channels of MTP, each one   *)
(* in order and none in order with another: node changes go down on        *)
(* channel 0 and blocks on channel 2 (network/serveropcodes.cpp:146),      *)
(* GOTBLOCKS and DELETEDBLOCKS go up on channel 2 and INTERACT on 0.       *)
(***************************************************************************)
EXTENDS Integers, FiniteSets, SequencesExt

CONSTANTS
  Blocks,             \* the positions within the client's range and sight
  ScanOrder,          \* Blocks in the order GetNextBlocks looks at them
  Dist,               \* the shell around the player's block that each is on
  CenterDist,         \* getDistanceFrom the player's block, never less
  Beside,             \* the blocks that a node next to one of the block is in
  full_d_max,         \* the range
  m_max_simul_sends,
  max_blocks_to_send, \* Server::SendBlocks' bound over all clients
  EmergeLimit,        \* blocks this client may have in the emerge queue
  NoBlock,
  MaxEdits,           \* bound: edits of the map, the client's predictions included
  MaxEvents           \* bound: turns, unloads, deletions and direct sends

Edits == 1 .. MaxEdits

ASSUME ScanAssumption ==
  /\ IsFiniteSet(Blocks) /\ Dist \in [Blocks -> 0 .. full_d_max]
  /\ CenterDist \in [Blocks -> Nat] /\ \A b \in Blocks : Dist[b] <= CenterDist[b]
  /\ Beside \in [Blocks -> SUBSET Blocks]
  /\ ScanOrder \in Seq(Blocks) /\ ToSet(ScanOrder) = Blocks /\ IsInjective(ScanOrder)
  /\ \A i, j \in DOMAIN ScanOrder : i < j => Dist[ScanOrder[i]] <= Dist[ScanOrder[j]]
ASSUME LimitAssumption ==
  /\ {m_max_simul_sends, max_blocks_to_send, EmergeLimit} \subseteq Nat \ {0}
  /\ {full_d_max, MaxEdits, MaxEvents} \subseteq Nat
  /\ \A es \in SUBSET Edits : NoBlock # es

VARIABLES
  map,      \* contents of every block on the server
  loaded,   \* blocks that are in the server's memory and generated
  emerging, \* blocks this client has in the emerge queue
  m_unsent_map_edit_queue,
  remote,   \* the RemoteClient: [sending, sent, modified, nearest, pausing]
  down0, down2, up0, up2, \* packets on the way, by direction and channel
  client,   \* contents of every block at the client, or NoBlock
  acks,     \* acknowledgements the client owes, with the mesh update of the block
  edits, events,  \* how many of each there have been
  mistaken, \* history: blocks that an ack marked as sent with a later copy on the way
  unreverted \* history: blocks the client shows a prediction in that was refused in one of
             \* the ways that do not have the block sent again

serverVars == <<map, loaded, emerging, m_unsent_map_edit_queue, remote>>
netVars == <<down0, down2, up0, up2>>
clientVars == <<client, acks>>
history == <<mistaken, unreverted>>
vars == <<serverVars, netVars, clientVars, edits, events, history>>

MapEditEvents == [type : {"node", "meta", "other"}, edit : 0 .. MaxEdits,
                  blocks : SUBSET Blocks]
\* INTERACT: the nodes pointed at by their blocks, and the predicted edit and its block.
Interactions ==
  {m \in [action : {"dig", "place"}, under : Blocks, above : Blocks,
          block : Blocks, edit : Edits] :
     m.block \in {m.under, m.above} /\ (m.action = "dig" => m.block = m.under)}

TypeOK ==
  /\ map \in [Blocks -> SUBSET Edits]
  /\ loaded \subseteq Blocks /\ emerging \subseteq Blocks
  /\ m_unsent_map_edit_queue \in Seq(MapEditEvents)
  /\ remote \in [sending : SUBSET Blocks, sent : SUBSET Blocks, modified : SUBSET Blocks,
                 nearest : 0 .. full_d_max, pausing : BOOLEAN]
  /\ remote.sending \cap remote.sent = {}
  /\ Cardinality(remote.sending) <= m_max_simul_sends
  /\ down0 \in Seq([block : Blocks, edit : Edits])
  /\ down2 \in Seq([block : Blocks, contents : SUBSET Edits])
  /\ up0 \in Seq(Interactions)
  /\ up2 \in Seq([type : {"GOTBLOCKS", "DELETEDBLOCKS"}, block : Blocks])
  /\ client \in [Blocks -> (SUBSET Edits) \cup {NoBlock}]
  /\ acks \in [Blocks -> Nat]
  /\ edits \in 0 .. MaxEdits /\ events \in 0 .. MaxEvents
  /\ mistaken \subseteq Blocks /\ unreverted \subseteq Blocks

Init ==
  /\ map = [b \in Blocks |-> {}]
  /\ loaded \in SUBSET Blocks /\ emerging = {}
  /\ m_unsent_map_edit_queue = <<>>
  /\ remote = [sending |-> {}, sent |-> {}, modified |-> {}, nearest |-> 0,
               pausing |-> FALSE]
  /\ down0 = <<>> /\ down2 = <<>> /\ up0 = <<>> /\ up2 = <<>>
  /\ client = [b \in Blocks |-> NoBlock]
  /\ acks = [b \in Blocks |-> 0]
  /\ edits = 0 /\ events = 0 /\ mistaken = {} /\ unreverted = {}

-----------------------------------------------------------------------------
(* RemoteClient *)

SetBlocksNotSent(c, positions) ==
  [c EXCEPT !.sending = @ \ positions, !.sent = @ \ positions,
            !.modified = @ \cup (positions \cap (c.sending \cup c.sent)),
            !.pausing = FALSE]

ResendBlockIfOnWire(c, b) ==
  IF b \in c.sending THEN SetBlocksNotSent(c, {b}) ELSE c

GotBlock_Mutant(c, b) ==
  IF b \in c.sending THEN [c EXCEPT !.sent = @ \cup {b}] ELSE c
GotBlock(c, b) ==
  IF b \in c.sending
  THEN [c EXCEPT !.sending = @ \ {b}, !.sent = @ \cup {b}]
  ELSE c

(* GetNextBlocks.  A block the scan reaches is skipped, chosen for sending, *)
(* put in the emerge queue, or ends the scan.                               *)

MinDist(bs) == CHOOSE d \in {Dist[b] : b \in bs} : \A b \in bs : d <= Dist[b]
Before ==
  [b \in Blocks |->
     {ScanOrder[i] : i \in {i \in DOMAIN ScanOrder : \E j \in DOMAIN ScanOrder :
                                                        ScanOrder[j] = b /\ i < j}}]
\* The members of a set one after the other, each behind those before it.
InOrder(S, before) ==
  [k \in 1 .. Cardinality(S) |-> CHOOSE x \in S : Cardinality(S \cap before[x]) = k - 1]
FirstOf(bs) == CHOOSE b \in bs : Before[b] \cap bs = {}

d_start ==
  IF remote.nearest = 0 THEN 0
  ELSE Min({remote.nearest} \cup {CenterDist[b] : b \in remote.modified})
d_max == IF full_d_max > d_start + 2 THEN d_start + 2 ELSE full_d_max

Wanted(b) == b \notin remote.sending \cup remote.sent
Choosable(bs) == {b \in bs : Wanted(b) /\ b \in loaded}
Emergeable(bs) == {b \in bs : Wanted(b) /\ b \notin loaded}

Window == {b \in Blocks : Dist[b] \in d_start .. d_max}
WindowBefore(b) == Before[b] \cap Window
SendsFull(b) ==
  Cardinality(remote.sending) + Cardinality(Choosable(WindowBefore(b))) >= m_max_simul_sends
EmergeFull(b) ==
  /\ Emergeable({b}) # {}
  /\ Cardinality(emerging \cup Emergeable(WindowBefore(b))) >= EmergeLimit
Stops == {b \in Window : SendsFull(b) \/ EmergeFull(b)}
Visited == {b \in Window : \A s \in Stops : s # b /\ s \notin WindowBefore(b)}
Chosen == Choosable(Visited)
Enqueued == Emergeable(Visited)

ScanCompleted == Stops = {} /\ d_max = full_d_max
new_nearest_unsent_d ==
  IF Enqueued # {} THEN MinDist(Enqueued)
  ELSE IF Stops # {} /\ ~SendsFull(FirstOf(Stops)) THEN Dist[FirstOf(Stops)]
  ELSE IF ScanCompleted THEN 0
  ELSE IF Chosen # {} THEN MinDist(Chosen)
  ELSE IF Stops # {} THEN Dist[FirstOf(Stops)]
  ELSE d_max + 1

(* Server::SendBlocks, with the env lock: the nearest of the chosen go out. *)
ToSend ==
  {b \in Chosen : Cardinality(remote.sending) + Cardinality(Chosen \cap Before[b])
                    < max_blocks_to_send}
SendBlocks ==
  /\ ~remote.pausing
  /\ Cardinality(remote.sending) < m_max_simul_sends
  /\ \E sends \in {ToSend} :
       /\ remote' = [remote EXCEPT
            !.sending = @ \cup sends, !.modified = {}, !.nearest = new_nearest_unsent_d,
            !.pausing = ScanCompleted /\ Enqueued = {}]
       /\ down2' = down2 \o
            LET out == InOrder(sends, Before)
            IN  [i \in DOMAIN out |-> [block |-> out[i], contents |-> map[out[i]]]]
  /\ emerging' = emerging \cup Enqueued
  /\ UNCHANGED <<map, loaded, m_unsent_map_edit_queue, down0, up0, up2, clientVars,
                 edits, events, history>>

\* m_nothing_to_send_pause_timer runs out.
PauseEnds ==
  /\ remote.pausing
  /\ remote' = [remote EXCEPT !.pausing = FALSE]
  /\ UNCHANGED <<map, loaded, emerging, m_unsent_map_edit_queue, netVars, clientVars,
                 edits, events, history>>

\* The player moves to another block or turns, or a full scan takes too long.
Turn ==
  /\ events < MaxEvents
  /\ remote.nearest > 0
  /\ remote' = [remote EXCEPT !.nearest = 0]
  /\ events' = events + 1
  /\ UNCHANGED <<map, loaded, emerging, m_unsent_map_edit_queue, netVars, clientVars,
                 edits, history>>

\* Server::SendBlock, for Lua and for a player that was moved: no SentBlock.
SendBlock(b) ==
  /\ events < MaxEvents
  /\ b \in loaded /\ b \notin remote.sent
  /\ down2' = Append(down2, [block |-> b, contents |-> map[b]])
  /\ events' = events + 1
  /\ UNCHANGED <<serverVars, down0, up0, up2, clientVars, edits, history>>

-----------------------------------------------------------------------------
(* The map changes *)

\* MapEditEvents reach the queue in the step that changes the map.
Edited(type, e, bs) ==
  /\ map' = [b \in Blocks |-> IF b \in bs THEN map[b] \cup {e} ELSE map[b]]
  /\ m_unsent_map_edit_queue' =
       Append(m_unsent_map_edit_queue, [type |-> type, edit |-> e, blocks |-> bs])

\* A mod, the environment or an emerge thread: a node, metadata, or whole blocks.
EditMap(type, bs) ==
  /\ edits < MaxEdits
  /\ bs # {} /\ bs \subseteq loaded
  /\ type # "other" => Cardinality(bs) = 1
  /\ Edited(type, edits + 1, bs)
  /\ edits' = edits + 1
  /\ UNCHANGED <<loaded, emerging, remote, netVars, clientVars, events, history>>

(* handleCommand_Interact, of a dig the client reports done or a placement. *)
(* The client shows what it has predicted; the server may refuse it.        *)

TheirBlocks(m) == {m.under, m.above}
NotSent(bs) == SetBlocksNotSent(remote, bs)
Refused(m, left) ==
  unreverted' = IF left THEN unreverted \cup {m.block} ELSE unreverted

\* The wielded item is not in the hotbar (any more): nothing is sent again.
NotInHotbar(m) == remote' = remote /\ Refused(m, TRUE)

OutOfReach_Mutant(m) == remote' = remote /\ Refused(m, m.block # m.under)
\* The player is dead or too far away.
OutOfReach(m) == remote' = NotSent({m.under}) /\ Refused(m, m.block # m.under)

\* The player may not interact.
NoPrivilege(m) ==
  LET b == IF m.action = "dig" THEN m.under ELSE m.above
  IN  remote' = NotSent({b}) /\ Refused(m, m.block # b)

InteractDenied ==
  /\ up0 # <<>>
  /\ LET m == Head(up0) IN NotInHotbar(m) \/ OutOfReach(m) \/ NoPrivilege(m)
  /\ up0' = Tail(up0)
  /\ UNCHANGED <<map, loaded, emerging, m_unsent_map_edit_queue, down0, down2, up2,
                 clientVars, edits, events, mistaken>>

\* The callbacks do what was predicted or do not.
Performs(m, done) ==
  IF done THEN m.block \in loaded /\ Edited("node", m.edit, {m.block})
  ELSE UNCHANGED <<map, m_unsent_map_edit_queue>>

\* A block that is not in memory cannot be dug in: that of the node above is enqueued, to
\* be loaded only, when the queue takes it.  gone: the node is air now.
Dig(m, done, gone) ==
  /\ m.action = "dig" /\ (gone => done)
  /\ Performs(m, done)
  /\ remote' = IF gone THEN ResendBlockIfOnWire(remote, m.under) ELSE NotSent({m.under})
  /\ \/ emerging' = emerging
     \/ m.under \notin loaded /\ emerging' = emerging \cup {m.above}
  /\ Refused(m, FALSE)

\* had_prediction: of the item the player wields on the server.
Place(m, done, had_prediction) ==
  /\ m.action = "place"
  /\ Performs(m, done)
  /\ remote' = IF had_prediction THEN NotSent(TheirBlocks(m))
               ELSE ResendBlockIfOnWire(ResendBlockIfOnWire(remote, m.above), m.under)
  /\ UNCHANGED emerging
  /\ Refused(m, ~done /\ ~had_prediction)

Interact(done) ==
  /\ up0 # <<>>
  /\ LET m == Head(up0)
     IN  \E flag \in BOOLEAN : Dig(m, done, flag) \/ Place(m, done, flag)
  /\ up0' = Tail(up0)
  /\ UNCHANGED <<loaded, down0, down2, up2, clientVars, edits, events, mistaken>>

(* AsyncRunStep sends the queued edits.  near: the events that happened near *)
(* enough to the player to be sent one by one.                               *)

StaysSent_Mutant(near, b, i) ==
  b \in remote.sent \cup remote.sending /\ i \in near

\* The block was sent, and no event up to the i-th makes it be sent again.
StaysSent(near, b, i) ==
  /\ b \in remote.sent
  /\ \A j \in 1 .. i :
       LET e == m_unsent_map_edit_queue[j]
       IN  b \in e.blocks /\ e.type # "meta" => e.type = "node" /\ j \in near

\* Metadata is sent at the end, when all other events are done with.
SentSingly(near, i) ==
  LET e == m_unsent_map_edit_queue[i]
  IN  \A b \in e.blocks :
        CASE e.type = "node" -> StaysSent(near, b, i)
          [] e.type = "meta" -> i \in near /\ StaysSent(near, b, Len(m_unsent_map_edit_queue))
          [] e.type = "other" -> FALSE

SendMapEdits(near) ==
  /\ m_unsent_map_edit_queue # <<>>
  /\ LET queue == m_unsent_map_edit_queue
         singly == {i \in DOMAIN queue : SentSingly(near, i)}
         Of(type) == InOrder({i \in singly : queue[i].type = type},
                             [i \in DOMAIN queue |-> 1 .. i - 1])
         out == Of("node") \o Of("meta")
     IN  /\ down0' = down0 \o
              [k \in DOMAIN out |-> [block |-> CHOOSE b \in queue[out[k]].blocks : TRUE,
                                     edit |-> queue[out[k]].edit]]
         /\ remote' = IF singly = DOMAIN queue THEN remote
                      ELSE SetBlocksNotSent(remote,
                             UNION {queue[i].blocks : i \in DOMAIN queue \ singly})
  /\ m_unsent_map_edit_queue' = <<>>
  /\ UNCHANGED <<map, loaded, emerging, down2, up0, up2, clientVars, edits, events, history>>

\* An emerge thread has loaded the block, or generated it and then announced it.  What
\* the generation of a neighbour changes in a block is EditMap's.
Emerged(b, generated) ==
  /\ b \in emerging
  /\ emerging' = emerging \ {b} /\ loaded' = loaded \cup {b}
  /\ IF generated
     THEN /\ events < MaxEvents
          /\ m_unsent_map_edit_queue' = Append(m_unsent_map_edit_queue,
                                          [type |-> "other", edit |-> 0, blocks |-> {b}])
          /\ events' = events + 1
     ELSE UNCHANGED <<m_unsent_map_edit_queue, events>>
  /\ UNCHANGED <<map, remote, netVars, clientVars, edits, history>>

EmergeCancelled(b) ==
  /\ events < MaxEvents
  /\ b \in emerging
  /\ emerging' = emerging \ {b}
  /\ events' = events + 1
  /\ UNCHANGED <<map, loaded, m_unsent_map_edit_queue, remote, netVars, clientVars,
                 edits, history>>

\* ServerMap's timerUpdate unloads a block nobody has used for long.
Unload(b) ==
  /\ events < MaxEvents
  /\ b \in loaded
  /\ loaded' = loaded \ {b}
  /\ events' = events + 1
  /\ UNCHANGED <<map, emerging, m_unsent_map_edit_queue, remote, netVars, clientVars,
                 edits, history>>

-----------------------------------------------------------------------------
(* The client *)

\* addNode and removeNode do nothing to a block the client does not have.
ReceiveNode ==
  /\ down0 # <<>>
  /\ LET m == Head(down0)
     IN  client' = IF client[m.block] = NoBlock THEN client
                   ELSE [client EXCEPT ![m.block] = @ \cup {m.edit}]
  /\ down0' = Tail(down0)
  /\ UNCHANGED <<serverVars, down2, up0, up2, acks, edits, events, history>>

ReceiveBlock_Mutant ==
  /\ down2 # <<>>
  /\ LET m == Head(down2)
     IN  /\ client' = [client EXCEPT ![m.block] = m.contents]
         /\ acks' = IF client[m.block] = NoBlock THEN [acks EXCEPT ![m.block] = @ + 1]
                    ELSE acks
  /\ down2' = Tail(down2)
  /\ unreverted' = unreverted \ {Head(down2).block}
  /\ UNCHANGED <<serverVars, down0, up0, up2, edits, events, mistaken>>

\* handleCommand_BlockData: the old contents are overwritten.
ReceiveBlock ==
  /\ down2 # <<>>
  /\ LET m == Head(down2)
     IN  /\ client' = [client EXCEPT ![m.block] = m.contents]
         /\ acks' = [acks EXCEPT ![m.block] = @ + 1]
  /\ down2' = Tail(down2)
  /\ unreverted' = unreverted \ {Head(down2).block}
  /\ UNCHANGED <<serverVars, down0, up0, up2, edits, events, mistaken>>

\* The mesh is done: sendGotBlocks.
SendGotBlocks(b) ==
  /\ acks[b] > 0
  /\ acks' = [acks EXCEPT ![b] = @ - 1]
  /\ up2' = Append(up2, [type |-> "GOTBLOCKS", block |-> b])
  /\ UNCHANGED <<serverVars, down0, down2, up0, client, edits, events, history>>

\* The client's timerUpdate; a mesh update under way keeps the block.
SendDeletedBlocks(b) ==
  /\ events < MaxEvents
  /\ client[b] # NoBlock /\ acks[b] = 0
  /\ client' = [client EXCEPT ![b] = NoBlock]
  /\ up2' = Append(up2, [type |-> "DELETEDBLOCKS", block |-> b])
  /\ events' = events + 1
  /\ UNCHANGED <<serverVars, down0, down2, up0, acks, edits, history>>

\* The player digs or places, and the client shows it before the server has agreed: a
\* placement in the node pointed at when it is buildable_to, else in the one above.
Predict(m) ==
  /\ edits < MaxEdits
  /\ m.edit = edits + 1 /\ m.above \in Beside[m.under]
  /\ client[m.under] # NoBlock /\ client[m.block] # NoBlock
  /\ client' = [client EXCEPT ![m.block] = @ \cup {m.edit}]
  /\ up0' = Append(up0, m)
  /\ edits' = edits + 1
  /\ UNCHANGED <<serverVars, down0, down2, up2, acks, events, history>>

\* handleCommand_GotBlocks and handleCommand_DeletedBlocks
OnTheWay(b) == \E i \in DOMAIN down2 : down2[i].block = b
HandleUp2 ==
  /\ up2 # <<>>
  /\ LET m == Head(up2)
     IN  /\ remote' = IF m.type = "GOTBLOCKS" THEN GotBlock(remote, m.block)
                      ELSE SetBlocksNotSent(remote, {m.block})
         /\ mistaken' = IF m.block \in remote'.sent \ remote.sent /\ OnTheWay(m.block)
                        THEN mistaken \cup {m.block} ELSE mistaken
  /\ up2' = Tail(up2)
  /\ UNCHANGED <<map, loaded, emerging, m_unsent_map_edit_queue, down0, down2, up0,
                 clientVars, edits, events, unreverted>>

Environment ==
  \/ Turn
  \/ \E b \in Blocks : SendBlock(b) \/ Unload(b) \/ EmergeCancelled(b)
  \/ \E b \in Blocks : SendDeletedBlocks(b)
  \/ \E m \in Interactions : Predict(m)
  \/ \E type \in {"node", "meta", "other"}, bs \in SUBSET Blocks : EditMap(type, bs)
Interacts == InteractDenied \/ \E done \in BOOLEAN : Interact(done)
SendsMapEdits ==
  LET single == {i \in DOMAIN m_unsent_map_edit_queue :
                   m_unsent_map_edit_queue[i].type # "other"}
  IN  \E near \in SUBSET single : SendMapEdits(near)
EmergesBlock(b) == \E generated \in BOOLEAN : Emerged(b, generated)

Next ==
  \/ Environment \/ Interacts \/ SendsMapEdits
  \/ SendBlocks \/ PauseEnds \/ ReceiveNode \/ ReceiveBlock \/ HandleUp2
  \/ \E b \in Blocks : EmergesBlock(b) \/ SendGotBlocks(b)
Spec == Init /\ [][Next]_vars

\* The server's loop runs all its parts, MTP delivers what is on the way, emerge threads
\* and mesh threads finish what they are given.
Fairness ==
  /\ WF_vars(SendBlocks) /\ WF_vars(PauseEnds) /\ WF_vars(Interacts)
  /\ WF_vars(SendsMapEdits)
  /\ WF_vars(ReceiveNode) /\ WF_vars(ReceiveBlock) /\ WF_vars(HandleUp2)
  /\ WF_vars(\E b \in Blocks : EmergesBlock(b)) /\ WF_vars(\E b \in Blocks : SendGotBlocks(b))
LiveSpec == Spec /\ Fairness

-----------------------------------------------------------------------------
(* Properties *)

InQueue(b) == \E i \in DOMAIN m_unsent_map_edit_queue : b \in m_unsent_map_edit_queue[i].blocks
Underway(q, b) == \E i \in DOMAIN q : q[i].block = b
Quiet(b) == ~InQueue(b) /\ \A q \in {down0, up0, up2} : ~Underway(q, b)

(* A block that is being sent takes one of the client's few slots until it *)
(* is acknowledged: each such block is on its way down, or the client owes *)
(* the ack, or an ack or a deletion is on its way up.                      *)
SlotsComeBack ==
  \A b \in remote.sending : OnTheWay(b) \/ acks[b] > 0 \/ Underway(up2, b)

(* "These don't have to be sent again" (server/clientiface.h:351): with    *)
(* nothing about it under way or queued, a block in m_blocks_sent is at    *)
(* the client as it is on the server...                                    *)
ClientAgrees ==
  \A b \in remote.sent : Quiet(b) /\ ~OnTheWay(b) => client[b] = map[b]

(* ... unless an ack for an earlier copy was taken for the ack of a later  *)
(* one, or the block shows a prediction that was refused without its being *)
(* sent again: an item beyond the hotbar; a placement in the block next to *)
(* that of the node pointed at by a player who is dead or too far away; a  *)
(* placement in the node pointed at by one who may not interact, when the  *)
(* node above is in the next block; an item the server predicts nothing    *)
(* of.  Whatever else crosses on the way, no edit is lost, and no dig or   *)
(* placement that is refused in another way stays.                         *)
ClientAgreesUnlessMistaken ==
  \A b \in remote.sent \ (mistaken \cup unreverted) :
     Quiet(b) /\ ~OnTheWay(b) => client[b] = map[b]

(* Once the map, the player and the client come to rest, the scan finds    *)
(* every block of the range, with slots, queues and pauses in its way, and *)
(* the client ends up with each as it is, but for those two exceptions.    *)
EventuallyUpToDate ==
  <>[](\A b \in Blocks : /\ b \in remote.sent
                         /\ b \in mistaken \cup unreverted \/ client[b] = map[b])
=============================================================================
