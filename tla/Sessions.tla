-------------------------------- MODULE Sessions --------------------------------
(***************************************************************************)
(* A server that is started and stopped and a client that connects and     *)
(* disconnects, while the server replicates (server.rs handle_connections, *)
(* enable_replication, receive_acks, reset; replicated_clients.rs;         *)
(* client.rs reset; core/common_conditions.rs), with the entities that     *)
(* the client spawned in advance (server/client_entity_map.rs,             *)
(* core/server_entity_map.rs).                                             *)
(*                                                                         *)
(* The messaging backend starts and stops the server and closes every      *)
(* connection with it; it triggers one ClientDisconnected for each         *)
(* ClientConnected, before or after the client app notices.  It may use    *)
(* the ID of a client again.  The apps notice changes of the backend only  *)
(* when they evaluate server_just_stopped and client_just_disconnected in  *)
(* their frames.  Connecting is not told from Connected before the first   *)
(* message.                                                                *)
(*                                                                         *)
(* Of the replicated data only entities are modelled: components are in    *)
(* Replication and TickBuffers, visibility (here VisibilityPolicy::All) in *)
(* ClientVisibility.  Mutate messages are represented by their             *)
(* acknowledgements.                                                       *)
(*                                                                         *)
(* An operator marked "Mutant" is a version of the one that follows it,    *)
(* with a bug; it shows that a property of some run depends on the code.   *)
(***************************************************************************)
EXTENDS Naturals, Sequences, SequencesExt

CONSTANTS
  Entities,
  Clients,     \* client IDs
  Nobody,      \* no client ID
  MaxTick,     \* bound: ServerTick
  MaxSessions  \* bound: connections made, and starts of the server

ASSUME NobodyAssumption == Nobody \notin Clients
ASSUME BoundsAssumption == MaxTick \in Nat /\ MaxSessions \in Nat

VARIABLES
  \* The server's world.
  life,           \* per entity: "unborn", "alive" (has Replicated) or "dead"
  despawnEvents,  \* RemovedComponents<Replicated> not read yet
  removalEvents,  \* RemovedComponentEvents not read yet, by entity
  despawnBuffer,  \* DespawnBuffer
  removalBuffer,  \* keys of RemovalBuffer
  \* The server.
  running,        \* RepliconServer::running
  lastRunning,    \* Local of server_just_stopped
  starts,         \* starts so far, to bound them
  autoReplicate,  \* replicate_after_connect
  serverTick,     \* ServerTick
  connected,      \* ConnectedClients
  replicated,     \* ReplicatedClients
  tracked,        \* per client: keys of mutation_ticks
  updateTick,     \* per client: update_tick
  spare,          \* update ticks of the clients in ClientBuffers
  entityMap,      \* ClientEntityMap: per client its mappings
  inbox,          \* clients with acknowledgements in received_messages
  \* The connection.
  link,           \* the client ID it has at the server, or Nobody
  down,           \* update messages on their way to the client
  mutates,        \* whether mutate messages are on their way
  acks,           \* whether acknowledgements are on their way
  \* The client.
  online,         \* status is Connected
  lastOnline,     \* Local of client_just_disconnected: last_not_disconnected
  ids,            \* the client IDs of its sessions, the last one being current
  map,            \* ServerEntityMap: client entity per entity, NoEntity if none
  clientTick,     \* ServerUpdateTick
  \* History.
  raised,         \* per client: how update_tick was set, "kept", "sent", "skipped"
  timely,         \* mappings inserted while the session they are for lasted
  inherited,      \* entities in the map when a session began unnoticed
  ghosts          \* entities that were dead when a tick told of them

worldVars      == <<life, despawnEvents, removalEvents>>
bufferVars     == <<despawnBuffer, removalBuffer>>
runVars        == <<running, lastRunning, starts, autoReplicate>>
replicatedVars == <<replicated, tracked, updateTick, spare, raised>>
linkVars       == <<link, down, mutates, acks>>
clientVars     == <<online, lastOnline, ids, map, clientTick>>
vars == <<worldVars, bufferVars, runVars, serverTick, connected, replicatedVars, entityMap,
          inbox, linkVars, clientVars, timely, inherited, ghosts>>

Ticks    == 0..MaxTick
Session  == Len(ids)
NoEntity == <<"none", 0>>

\* Client entities: spawned by replication, or by game code in a session to be
\* mapped; such an entity may be gone when the mapping arrives.
ClientEntities == {<<"spawned", 0>>} \cup {"early", "gone"} \X (1..MaxSessions)
Mappings == Entities \X ({"early", "gone"} \X (1..MaxSessions))

UpdateMessages ==
  [tick : Ticks, mappings : SUBSET Mappings, despawns : SUBSET Entities,
   removals : SUBSET Entities, changes : SUBSET Entities]

TypeOK ==
  /\ life \in [Entities -> {"unborn", "alive", "dead"}]
  /\ despawnEvents \subseteq Entities
  /\ removalEvents \subseteq Entities
  /\ despawnBuffer \subseteq Entities
  /\ removalBuffer \subseteq Entities
  /\ running \in BOOLEAN
  /\ lastRunning \in BOOLEAN
  /\ starts \in 0..MaxSessions
  /\ autoReplicate \in BOOLEAN
  /\ serverTick \in Ticks
  /\ connected \subseteq Clients
  /\ replicated \subseteq connected
  /\ tracked \in [Clients -> SUBSET Entities]
  /\ updateTick \in [Clients -> Ticks]
  /\ spare \in Seq(Ticks)
  /\ entityMap \in [Clients -> SUBSET Mappings]
  /\ inbox \subseteq Clients
  /\ link \in connected \cup {Nobody}
  /\ down \in Seq(UpdateMessages)
  /\ mutates \in BOOLEAN
  /\ acks \in BOOLEAN
  /\ online \in BOOLEAN
  /\ lastOnline \in BOOLEAN
  /\ ids \in Seq(Clients) /\ Session <= MaxSessions
  /\ map \in [Entities -> ClientEntities \cup {NoEntity}]
  /\ clientTick \in Ticks
  /\ raised \in [Clients -> {"kept", "sent", "skipped"}]
  /\ timely \subseteq Mappings
  /\ inherited \subseteq Entities
  /\ ghosts \subseteq Entities
  /\ link = Nobody => down = <<>> /\ ~mutates /\ ~acks

Init ==
  /\ life = [e \in Entities |-> "unborn"]
  /\ despawnEvents = {}
  /\ removalEvents = {}
  /\ despawnBuffer = {}
  /\ removalBuffer = {}
  /\ running = FALSE
  /\ lastRunning = FALSE
  /\ starts = 0
  /\ autoReplicate \in BOOLEAN
  /\ serverTick = 0
  /\ connected = {}
  /\ replicated = {}
  /\ tracked = [i \in Clients |-> {}]
  /\ updateTick = [i \in Clients |-> 0]
  /\ spare = <<>>
  /\ entityMap = [i \in Clients |-> {}]
  /\ inbox = {}
  /\ link = Nobody
  /\ down = <<>>
  /\ mutates = FALSE
  /\ acks = FALSE
  /\ online = FALSE
  /\ lastOnline = FALSE
  /\ ids = <<>>
  /\ map = [e \in Entities |-> NoEntity]
  /\ clientTick = 0
  /\ raised = [i \in Clients |-> "kept"]
  /\ timely = {}
  /\ inherited = {}
  /\ ghosts = {}

Alive == {e \in Entities : life[e] = "alive"}
Known == {e \in Entities : map[e] # NoEntity}

-----------------------------------------------------------------------------
(* Game code on the server.                                                *)

Spawn(e) ==
  /\ life[e] = "unborn"
  /\ life' = [life EXCEPT ![e] = "alive"]
  /\ UNCHANGED <<despawnEvents, removalEvents, bufferVars, runVars, serverTick, connected,
                 replicatedVars, entityMap, inbox, linkVars, clientVars, timely,
                 inherited, ghosts>>

\* The server spawns an entity for one that the client announced in a session,
\* which may be over when its event is read (confirm_bullet of the example).
SpawnMapped(e, s, kind) ==
  /\ life[e] = "unborn"
  /\ s \in 1..Session
  /\ life' = [life EXCEPT ![e] = "alive"]
  /\ entityMap' = [entityMap EXCEPT ![ids[s]] = @ \cup {<<e, <<kind, s>>>>}]
  /\ timely' = IF link = ids[s] /\ s = Session THEN timely \cup {<<e, <<kind, s>>>>}
               ELSE timely
  /\ UNCHANGED <<despawnEvents, removalEvents, bufferVars, runVars, serverTick, connected,
                 replicatedVars, inbox, linkVars, clientVars, inherited, ghosts>>

\* RemovalReader reads only events of entities that exist.
Despawn(e) ==
  /\ life[e] = "alive"
  /\ life' = [life EXCEPT ![e] = "dead"]
  /\ despawnEvents' = despawnEvents \cup {e}
  /\ removalEvents' = removalEvents \ {e}
  /\ UNCHANGED <<bufferVars, runVars, serverTick, connected, replicatedVars, entityMap,
                 inbox, linkVars, clientVars, timely, inherited, ghosts>>

\* A replicated component is removed.
RemoveComponent(e) ==
  /\ life[e] = "alive"
  /\ removalEvents' = removalEvents \cup {e}
  /\ UNCHANGED <<life, despawnEvents, bufferVars, runVars, serverTick, connected,
                 replicatedVars, entityMap, inbox, linkVars, clientVars, timely,
                 inherited, ghosts>>

-----------------------------------------------------------------------------
(* ReplicatedClients.                                                      *)

\* ReplicatedClients::add, not for a client that is there already.  A client
\* from ClientBuffers is reset, but keeps its update tick.
Add(i) ==
  /\ replicated' = replicated \cup {i}
  /\ tracked' = [tracked EXCEPT ![i] = {}]
  /\ raised' = [raised EXCEPT ![i] = "kept"]
  /\ IF spare = <<>> THEN updateTick' = [updateTick EXCEPT ![i] = 0] /\ UNCHANGED spare
     ELSE updateTick' = [updateTick EXCEPT ![i] = Last(spare)] /\ spare' = Front(spare)

\* Mutant: replication goes on.
StillReplicated(i) == UNCHANGED replicatedVars

\* ReplicatedClients::remove, a no-op for a client that is not replicated.
Without(i) ==
  /\ replicated' = replicated \ {i}
  /\ spare' = IF i \in replicated THEN Append(spare, updateTick[i]) ELSE spare
  /\ UNCHANGED <<tracked, updateTick, raised>>

\* ServerPlugin::enable_replication, triggered by game code.
StartReplication(i) ==
  /\ i \in connected \ replicated
  /\ Add(i)
  /\ UNCHANGED <<worldVars, bufferVars, runVars, serverTick, connected, entityMap, inbox,
                 linkVars, clientVars, timely, inherited, ghosts>>

-----------------------------------------------------------------------------
(* The messaging backend.                                                  *)

CloseLink ==
  /\ link' = Nobody
  /\ down' = <<>>
  /\ mutates' = FALSE
  /\ acks' = FALSE

Start ==
  /\ ~running
  /\ starts < MaxSessions
  /\ running' = TRUE
  /\ starts' = starts + 1
  /\ UNCHANGED <<worldVars, bufferVars, lastRunning, autoReplicate, serverTick, connected,
                 replicatedVars, entityMap, inbox, linkVars, clientVars, timely,
                 inherited, ghosts>>

\* RepliconServer::set_running discards what was received.
InboxStopped == {}

Stop ==
  /\ running
  /\ running' = FALSE
  /\ inbox' = InboxStopped
  /\ CloseLink
  /\ UNCHANGED <<worldVars, bufferVars, lastRunning, starts, autoReplicate, serverTick,
                 connected, replicatedVars, entityMap, clientVars, timely, inherited,
                 ghosts>>

\* ServerEvent::ClientConnected.
Connect(i) ==
  /\ running
  /\ ~online
  /\ Session < MaxSessions
  /\ i \notin connected
  /\ online' = TRUE
  /\ ids' = Append(ids, i)
  /\ link' = i
  /\ connected' = connected \cup {i}
  /\ IF autoReplicate THEN Add(i) ELSE UNCHANGED replicatedVars
  /\ inherited' = IF lastOnline THEN Known ELSE {}
  /\ UNCHANGED <<worldVars, bufferVars, runVars, serverTick, entityMap, inbox, down,
                 mutates, acks, lastOnline, map, clientTick, timely, ghosts>>

\* RepliconClient::set_status.
Disconnect ==
  /\ online
  /\ online' = FALSE
  /\ CloseLink
  /\ UNCHANGED <<worldVars, bufferVars, runVars, serverTick, connected, replicatedVars,
                 entityMap, inbox, lastOnline, ids, map, clientTick, timely,
                 inherited, ghosts>>

\* Mutant: the messages of the client are kept.
InboxOf(i) == inbox

\* RepliconServer::remove_client.
InboxWithout(i) == inbox \ {i}

\* Mutant: the mappings of the client are kept.
MappingsOf(i) == entityMap

MappingsWithout(i) == [entityMap EXCEPT ![i] = {}]

\* ServerEvent::ClientDisconnected.
ClientDisconnected(i) ==
  /\ i \in connected
  /\ entityMap' = MappingsWithout(i)
  /\ connected' = connected \ {i}
  /\ Without(i)
  /\ inbox' = InboxWithout(i)
  /\ IF link = i THEN CloseLink ELSE UNCHANGED linkVars
  /\ UNCHANGED <<worldVars, bufferVars, runVars, serverTick, clientVars, timely,
                 inherited, ghosts>>

\* RepliconServer::insert_received.
ReceiveAcks ==
  /\ acks
  /\ acks' = FALSE
  /\ inbox' = inbox \cup {link}
  /\ UNCHANGED <<worldVars, bufferVars, runVars, serverTick, connected, replicatedVars,
                 entityMap, link, down, mutates, clientVars, timely, inherited, ghosts>>

-----------------------------------------------------------------------------
(* Frames of the server.                                                   *)

DespawnsBuffered == despawnBuffer \cup despawnEvents
RemovalsBuffered == removalBuffer \cup removalEvents

\* A frame without a tick: receive_acks, buffer_despawns, buffer_removals.
ServerFrame ==
  /\ running
  /\ inbox' = {}
  /\ despawnBuffer' = DespawnsBuffered
  /\ removalBuffer' = RemovalsBuffered
  /\ despawnEvents' = {}
  /\ removalEvents' = {}
  /\ lastRunning' = TRUE
  /\ UNCHANGED <<life, running, starts, autoReplicate, serverTick, connected,
                 replicatedVars, entityMap, linkVars, clientVars, timely,
                 inherited, ghosts>>

TrackedAlive(i) == tracked[i] \ DespawnsBuffered

\* collect_mappings, collect_despawns, collect_removals, collect_changes.
UpdateMessage(i) ==
  [tick |-> serverTick + 1, mappings |-> entityMap[i], despawns |-> DespawnsBuffered,
   removals |-> RemovalsBuffered, changes |-> Alive \ TrackedAlive(i)]

\* UpdateMessage::send skips a message with nothing but mappings.
IsSent(i) ==
  \/ UpdateMessage(i).despawns # {}
  \/ UpdateMessage(i).removals # {}
  \/ UpdateMessage(i).changes # {}

\* UpdateMessage::is_empty.
IsEmpty(i) == ~IsSent(i) /\ entityMap[i] = {}

\* collect_mappings drains those of ReplicatedClients.
MappingsLeft(i) == IF i \in replicated THEN {} ELSE entityMap[i]

\* A frame with a tick: send_replication too.  Mutate messages are for entities
\* the client has been sent.
ServerTick(mutated) ==
  /\ running
  /\ serverTick < MaxTick
  /\ serverTick' = serverTick + 1
  /\ inbox' = {}
  /\ despawnBuffer' = {}
  /\ removalBuffer' = {}
  /\ despawnEvents' = {}
  /\ removalEvents' = {}
  /\ tracked' = [i \in Clients |->
       IF i \in replicated THEN TrackedAlive(i) \cup Alive ELSE tracked[i]]
  /\ updateTick' = [i \in Clients |->
       IF i \in replicated /\ ~IsEmpty(i) THEN serverTick + 1 ELSE updateTick[i]]
  /\ raised' = [i \in Clients |->
       IF i \notin replicated \/ IsEmpty(i) THEN raised[i]
       ELSE IF IsSent(i) THEN "sent" ELSE "skipped"]
  /\ entityMap' = [i \in Clients |-> MappingsLeft(i)]
  /\ IF link \in replicated
     THEN /\ mutated => TrackedAlive(link) \cap Alive # {}
          /\ down' = IF IsSent(link) THEN Append(down, UpdateMessage(link)) ELSE down
          /\ mutates' = (mutates \/ mutated)
     ELSE ~mutated /\ UNCHANGED <<down, mutates>>
  /\ ghosts' = ghosts \cup (RemovalsBuffered \ Alive) \cup
       {e \in Entities \ (Alive \cup DespawnsBuffered) :
          \E i \in replicated : \E m \in entityMap[i] : m[1] = e}
  /\ lastRunning' = TRUE
  /\ UNCHANGED <<life, running, starts, autoReplicate, connected, replicated, spare, link,
                 acks, clientVars, timely, inherited>>

\* ReplicatedClients::clear, in some order.
Cleared(order) ==
  /\ replicated' = {}
  /\ spare' = spare \o [k \in DOMAIN order |-> updateTick[order[k]]]
  /\ UNCHANGED <<tracked, updateTick, raised>>

\* A frame while the server is not running: ServerPlugin::reset, if it has just
\* stopped.  Bevy drops events that are not read for two frames.
StoppedFrame(dropped) ==
  /\ ~running
  /\ lastRunning \/ dropped
  /\ lastRunning' = FALSE
  /\ despawnEvents' = IF dropped THEN {} ELSE despawnEvents
  /\ removalEvents' = IF dropped THEN {} ELSE removalEvents
  /\ IF lastRunning
     THEN /\ serverTick' = 0
          /\ entityMap' = [i \in Clients |-> {}]
          /\ \E order \in SetToSeqs(replicated) : Cleared(order)
     ELSE UNCHANGED <<serverTick, entityMap, replicatedVars>>
  /\ UNCHANGED <<life, bufferVars, running, starts, autoReplicate, connected, inbox,
                 linkVars, clientVars, timely, inherited, ghosts>>

-----------------------------------------------------------------------------
(* Frames of the client.                                                   *)

JustDisconnected == lastOnline /\ ~online

\* Mutant: the map stays.
MapKept == map

\* ClientPlugin::reset clears ServerEntityMap.
MapReset == [e \in Entities |-> NoEntity]

\* client_just_disconnected, and ClientPlugin::reset.
ClientFrame ==
  /\ lastOnline # online
  /\ lastOnline' = online
  /\ IF JustDisconnected THEN map' = MapReset /\ clientTick' = 0
     ELSE UNCHANGED <<map, clientTick>>
  /\ UNCHANGED <<worldVars, bufferVars, runVars, serverTick, connected, replicatedVars,
                 entityMap, inbox, linkVars, online, ids, timely, inherited, ghosts>>

\* apply_entity_mapping, only if the entity still exists on the client.
Mapped(u, e) ==
  LET found == {m \in u.mappings : m[1] = e /\ m[2][1] = "early"}
  IN  IF found = {} THEN map[e] ELSE (CHOOSE m \in found : TRUE)[2]

\* apply_update_message: mappings, then despawns, then removals and changes,
\* which spawn what is not mapped.
Updated(u, e) ==
  LET kept == IF e \in u.despawns THEN NoEntity ELSE Mapped(u, e)
  IN  IF e \in u.removals \cup u.changes /\ kept = NoEntity THEN <<"spawned", 0>> ELSE kept

\* Mutant: only if there are changes.
TickOfChanges(u) == IF u.changes = {} THEN clientTick ELSE u.tick

TickAfter(u) == u.tick

\* receive_replication applies an update message.
ApplyUpdate ==
  /\ lastOnline /\ online
  /\ down # <<>>
  /\ down' = Tail(down)
  /\ clientTick' = TickAfter(Head(down))
  /\ map' = [e \in Entities |-> Updated(Head(down), e)]
  /\ UNCHANGED <<worldVars, bufferVars, runVars, serverTick, connected, replicatedVars,
                 entityMap, inbox, link, mutates, acks, online, lastOnline, ids,
                 timely, inherited, ghosts>>

\* receive_replication acknowledges mutate messages when they arrive.
Acknowledge ==
  /\ lastOnline /\ online
  /\ mutates
  /\ mutates' = FALSE
  /\ acks' = TRUE
  /\ UNCHANGED <<worldVars, bufferVars, runVars, serverTick, connected, replicatedVars,
                 entityMap, inbox, link, down, clientVars, timely, inherited, ghosts>>

Next ==
  \/ \E e \in Entities :
       \/ Spawn(e)
       \/ \E s \in 1..Session, kind \in {"early", "gone"} : SpawnMapped(e, s, kind)
       \/ Despawn(e)
       \/ RemoveComponent(e)
  \/ \E i \in Clients : StartReplication(i) \/ Connect(i) \/ ClientDisconnected(i)
  \/ Start
  \/ Stop
  \/ Disconnect
  \/ ReceiveAcks
  \/ ServerFrame
  \/ \E mutated \in BOOLEAN : ServerTick(mutated)
  \/ \E dropped \in BOOLEAN : StoppedFrame(dropped)
  \/ ClientFrame
  \/ ApplyUpdate
  \/ Acknowledge

Spec == Init /\ [][Next]_vars

-----------------------------------------------------------------------------
(* Properties.                                                             *)

\* receive_acks takes the sender of every message with client_mut, which panics
\* for a client that is not replicated: messages go with their client, and all
\* go when the server stops, before ReplicatedClients does.
AckersAreReplicated == inbox \subseteq replicated

\* The client has received all that a tick sent, and nothing has changed since.
Synchronised ==
  /\ link \in replicated
  /\ down = <<>>
  /\ lastOnline /\ online
  /\ tracked[link] = Alive
  /\ DespawnsBuffered = {} /\ RemovalsBuffered = {}

\* Whatever sessions and servers came before, a client that has received
\* everything knows the entities of the world and no others.  The exceptions:
\* entities of the last session if the client has reconnected before the app
\* noticed that it was disconnected; and entities that were dead when a removal
\* of theirs, maybe left from before a stop, or their mapping was sent.
KnowsTheWorld ==
  Synchronised => /\ Alive \subseteq Known
                  /\ Known \ Alive \subseteq inherited \cup ghosts

\* A client that has received everything has the update tick that the server
\* stamps mutate messages and events with; or else it holds them back until the
\* next update message.  The exceptions: a tick that a reused ReplicatedClient
\* kept, and one raised for a message with nothing but mappings.
ReachesUpdateTick ==
  Synchronised /\ raised[link] = "sent" => clientTick = updateTick[link]

\* An entity that the server spawned for one of the client's is mapped to that
\* one once the client has received everything, also if replication to it
\* started later, and never to an entity of another session, even if the ID of
\* the client is used again.  The exceptions: mappings that game code inserted
\* after the session was over, and what a client kept from its last session.
MapsToOwnEntities ==
  \A e \in Entities :
    LET own == <<"early", Session>>
    IN  /\ Synchronised /\ e \in Alive /\ <<e, own>> \in timely => map[e] = own
        /\ map[e][1] = "early" /\ <<e, map[e]>> \in timely /\ e \notin inherited =>
             map[e] = own
=============================================================================
