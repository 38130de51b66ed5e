# A formal model of bevy_replicon

bevy_replicon (the repository this directory belongs to; paths below are
relative to its `src/`) replicates entities and components of a Bevy world from
a server to its clients. This directory holds TLA+ specifications of its
protocol, TLC configurations that check them, and TLAPS proofs.

    tlc -config Replication.cfg MCReplication
    tlapm ReplicationProofs.tla

`PROJECT.json` lists the runs, maps every definition to the lines it models,
and lists the hazards the properties are aimed at.

## Inventory

**Client visibility** (`core/replication/replicated_clients/client_visibility.rs`).
Per client: a filter of one of three policies. `All` has no state; a blacklist
or a whitelist has `list` (an entry per entity) and `added`/`removed` (what
changed since the last tick). Operations: `set_visibility` by game code, any
number of times between two ticks; `is_visible`, `state`, `remove_despawned`,
`drain_lost` by `send_replication`; `update` at the end of a tick. Hard: which
sequences of calls the three collections still describe when the tick comes.
Correct if a tick tells the client what the last call for each entity asks for.

**Server: collecting and sending** (`server.rs`,
`core/replication/replicated_clients.rs`, `server/replication_messages/`).
Per client: `update_tick` (last tick with an update message), `mutation_ticks`
(per entity, what the client is known to have), `mutations` (mutate messages
sent and not acknowledged, by a `u16` index). `send_replication` runs when
`ServerTick` changed: it collects mappings, despawns, removals and changes and
sends at most one *update message* (reliable, ordered) and some *mutate
messages* (unreliable) per client. `receive_acks` and `cleanup_acks` run in
every frame. Hard: acknowledgements, split messages, the choice between
insertion and mutation, late-joining clients. Correct if the client can rebuild
the world from what it gets, although mutate messages are lost.

**Client: receiving** (`client.rs`). State: `ServerUpdateTick`,
`ServerEntityMap`, a `ConfirmHistory` per entity, `BufferedMutations`.
`receive_replication` runs every frame: it applies all update messages, then
acknowledges and buffers all mutate messages, then applies those whose update
tick is reached, newest first. Hard: mutate messages overtake update messages
and each other. Correct if no entity ever shows a state that is older than, or
mixed from, states of the server, and if it ends up as on the server.

**Despawn and removal buffers** (`server/despawn_buffer.rs`,
`server/removal_buffer.rs`). They collect the removals of every frame until a
tick drains them. Hard: several frames per tick. Correct if a tick sends what
happened in all of them.

**Ticks** (`core/replicon_tick.rs`, `client/confirm_history.rs`,
`client/server_mutate_ticks.rs`). Wrapping 32-bit ticks, compared by half of the
range; a 64-bit mask of confirmed ticks, for an entity and for the world. Hard:
wrapping, distances of 64 and more. Correct if the mask says which ticks were
confirmed.

**Server events** (`core/event/server_event.rs`, `server/event.rs`,
`client/event.rs`). Events wait for the next tick, are stamped with the client's
update tick, and wait on the client until it is reached. Hard: clients that
connect in between, several events of a tick, unordered channels. Correct if
every event is triggered in order, in its session, and after the entities it
refers to exist.

**Client events** (`core/event/client_event.rs`, `client/event.rs`,
`server/event.rs`). They stay in Bevy's double buffer, are sent in the frame they
were emitted in, or re-emitted locally if there is no connection; the buffer is
drained when the client has connected. Hard: the connection changes between
frames and is noticed once per frame. Correct if each event is handled once, in
its session, and arrives.

**Sessions** (`server.rs` `handle_connections` and `reset`, `client.rs` `reset`,
`ReplicatedClients::add`/`remove`, `core/connected_clients.rs`,
`core/common_conditions.rs`). Clients connect, start replicating, disconnect;
either side restarts; the state of a client that left is reused. Hard: what
survives a session, and stops and starts that no frame notices. Correct if
nothing of an old session reaches a new one.

**Entity maps** (`core/server_entity_map.rs`, `server/client_entity_map.rs`).
Server to client entities, and mappings of entities a client spawned in advance.
Correct if an entity lands on the one its own client announced.

**Rules and archetypes** (`core/replication/replication_rules.rs`,
`server/replicated_archetypes.rs`). Which components of an archetype are
replicated, with which functions; groups, priorities. Hard: two loops over the
rules must agree, and a component may start to match without being new.

**Registry and markers** (`core/replication/replication_registry.rs`,
`replication_registry/`, `core/replication/command_markers.rs`). Positions in lists that
are sorted by insertion. Hard: positions move. Correct if they still mean the same.

**Parent synchronisation, scenes, diagnostics, test app, serialization.** Tools
around the protocol.

**Messaging backend** (`core/replicon_client.rs`, `core/replicon_server.rs`,
`core/channels.rs`). The resources are part of the repository, the backend is not:
it moves messages between their queues and the network, changes their status, and
promises what the kind of a channel says.

The parts interact through Bevy resources within a frame, in the order
`PreUpdate` (receive), game code, `PostUpdate` (tick, buffers, send), and through
the channels between server and client.

## Modules

| module | models | extends |
|---|---|---|
| `Visibility` | `ClientVisibility`: its operations as operators on a filter | |
| `Mirror` | the promise: a copy that changes at ticks only, and then equals its source | |
| `EventStream` | the promise: events are read in order, none twice, and none from before the reader joined | |
| `ClientVisibility` | visibility calls and ticks, one client | `Visibility`; implements `Mirror` |
| `Replication` | the protocol: world, server, channels, client | `Visibility` |
| `Rules` | replication rules, and what archetypes and removals match | |
| `TickBuffers` | several frames per tick, rules of several components, one client | `Rules`; implements `Mirror` |
| `Sessions` | connections, starts and stops, reused state, mappings | |
| `ServerEvents` | events from the server, the connections they depend on, several clients | `Selection`; implements `EventStream` |
| `ClientEvents` | events to the server, the backend, the frames of both apps | `Selection`; implements `EventStream` |
| `ConfirmedTicks` | wrapping ticks, `ConfirmHistory` and `ServerMutateTicks`, one client, one entity | |
| `Registration` | rules, markers and functions registered in any order | `Rules` |
| `Selection` | what `retain` and `filter` keep of a sequence | |
| `MC...` | values for TLC, one for each specification | |
| `ClientVisibilityProofs` | invariant and properties of `ClientVisibility`, its refinement | `ClientVisibility` |
| `ReplicationProofs` | invariants and safety properties of `Replication` | `Replication` |
| `TickBuffersProofs` | invariant of `TickBuffers`, its refinement | `TickBuffers` |
| `SessionsProofs` | invariants and properties of `Sessions` | `Sessions` |
| `RegistrationProofs` | invariant and properties of `Registration` | `Registration` |
| `ServerEventsProofs` | invariant and properties of `ServerEvents`, its refinement | `ServerEvents` |
| `ClientEventsProofs` | invariants and safety properties of `ClientEvents`, its refinement | `ClientEvents` |
| `ConfirmedTicksProofs` | arithmetic of ticks, invariant and properties of `ConfirmedTicks` | `ConfirmedTicks` |

**Mirror.** `Synchronise` makes `copy` equal to `source` for all keys but the
excused ones; `Edit` may do anything to the source and nothing to the copy. What
is excused is where the code falls short of the promise, so each specification
says exactly where it does. `MirrorsWanted` (`ClientVisibility`) has a key per entity,
`MirrorsWorld` (`TickBuffers`) a key per entity and component and one for
`Replicated`.

**EventStream.** `Emit` numbers the events, `Join` makes a reader start at the present
one, `Read` lets readers read any number of events: none from before they joined, and on
each lane in rising order, or without repetition where lanes are unordered. How events are
buffered, stamped, queued and lost is the business of those who implement it. In
`ServerEvents` the readers are the clients and the server itself, a connection that a frame
will find to be new joins, a lane is one type of event in one connection, and the lanes of
clients are unordered unless the channel is ordered; a client that lost some events just
reads others. In
`ClientEvents` the readers are the server, with a lane per session, and the app itself,
with a lane for what it re-emits.

**Visibility.** A filter is a record with the policy, `list` as a function from
entities to entries ("None" for no entry), and the sets `added` and `removed`.
Each arm of the match in `set_visibility` is an operator of its own. Operations
that the code applies to each entity of a buffer take the set of them.

**ClientVisibility.** `Spawn`, `Despawn` and `CallSetVisibility` are what game
code does between two ticks; `Tick` is `send_replication` as far as it depends
on visibility, in the code's order: `collect_despawns` (which calls
`remove_despawned`, then `drain_lost`), `collect_changes` on the drained filter,
`ClientVisibility::update`. `known` is what the client has after it has applied
the update messages sent so far, `wanted` what the calls asked for.

**Replication.** The variables are grouped as in the code: the world, the
server's `ReplicatedClient`, three channels, the client's resources.

| action | code |
|---|---|
| `Spawn`, `Despawn`, `Insert`, `Remove`, `Mutate`, `CallSetVisibility` | game code, with what Bevy's change detection and removal events record of it |
| `StartReplication` | `enable_replication` |
| `Tick` | `increment_tick`, the buffers, `send_replication` with `send_messages` |
| `ReceiveAcks`, `CleanupAcks` | `receive_acks`, `cleanup_acks` |
| `ApplyUpdateMessage` | one update message in the loop of `apply_replication` |
| `ReceiveMutations` | the rest of the frame: acknowledge, buffer, apply in descending order of ticks |
| `Lose` | the unreliable channel |

`ReceiveMutations` takes any set of the mutate messages in transit, which covers
delay and reordering; one that is never taken is lost. `Tick` splits the mutated
entities of a tick over messages in any way, which covers every packet size.
`CleanupAcks` may forget messages of any age: the model has no clock. Content of
a component is the tick it changed in, so that "older" can be said of content.

What is abstracted: one client, since the loops of `send_replication` treat each
client on its own; one frame per tick (`TickPolicy::EveryFrame`); each component
is replicated by a rule of its own; no entity mappings, no markers that ask for
history, no tracking of mutate messages; ticks do not wrap.

**ServerEvents.** What is sent to whom, with which tick, and when the client
triggers it.

| action | code |
|---|---|
| `ChangeWorld`, `Emit` | game code: a change some clients can see; an event of any `SendMode` |
| `Connect`, `Disconnect` | `handle_connections`; on the client a connection only changes the status |
| `StartReplication` | `enable_replication` |
| `LoseConnection` | `RepliconClient::set_status` discards what was received; the server learns of it later |
| `NoticeStatus` | the start of a client's frame that finds another status than the last one: `client_just_connected` with the `reset` of the event queue, `client_just_disconnected` with `ClientPlugin::reset` |
| `Frame`, `Tick` | `PostUpdate` of the server without and with a tick: `send_replication` as far as update ticks go, `send_or_buffer`, `send_buffered`, `resend_locally` |
| `ApplyUpdate`, `ReceiveEvents` | a connected client's `receive_replication`, then `receive` |
| `Lose` | an unreliable channel |

Replication is reduced to the tick of the last change a client can see (`seen`),
from which follows whether `send_messages` sends it an update message. The
counterparts of a `BufferedServerEventSet` are flattened: each buffered event
carries its excluded clients. An event remembers `need`, the last change its
clients could see when it was emitted. The backend may lose a connection and make another
between two frames of a client: `NoticeStatus` then does not happen, and the queue and the
update tick stay. Hence two history variables: `since` has the last event before a client's
connection, `joined` the last one before the last of its connections that a frame finds to
be new, and a message carries the `since` of the connection it was sent in. Independent
events and others are in reality of different types, each with a channel and a queue of its
own; order is only stated, and arrival only restricted, within the same type (of one
connection). The queue's
`ListOrderedMultimap` is an external crate: `insert` replaces the values a key has
(`append` would add one), in the last place. Not in the module: several types
of events, a server that restarts with `BufferedServerEvents::clear`, serialization and
entity mapping.

**ConfirmedTicks.** The width of ticks and of windows are constants (`Size` for
2^32, `Bits` for 64), the mask is the set of its 1's, and the operations are
translated one by one. They are driven by the protocol: `Tick` (a mutation may
be sent, and is sent again until it is acknowledged), `InsertTick`, `ApplyUpdate`
(`confirm_tick`) and `ApplyMutate` (`apply_mutate_messages` with `apply_mutations` and
`ServerMutateTicks::confirm`), which takes the messages that need not wait in any
order. The reference is kept in unwrapped numbers: ticks for which the client
sent `EntityReplicated` and `MutateTickReceived`, and messages applied. Tracking of
mutate messages is on. Not in the module: debug assertions, which stop a debug
build before the state the module goes on with; a client that reconnects.

**TickBuffers.** `Mark`, `Unmark`, `Despawn`, `PutComponent` and `RemoveComponent` are
game code with what Bevy records of it. `Frame` is `PostUpdate` without a tick
(`buffer_despawns`, `buffer_removals`), `Tick` the same with `send_replication`, and
the client applying the update message in the order of `apply_update_message`. The
client is represented by what it has once it has received everything: update
messages are reliable, and a mutation is sent until it arrives. The history variables
`kept`, `late` and `ghosts` say what ticks failed to tell (see below).

**Sessions.** The backend's `Start`, `Stop`, `Connect`, `Disconnect`,
`ClientDisconnected` change the resources at once; `ServerFrame`, `ServerTick`,
`StoppedFrame` and `ClientFrame` are frames, in which `server_just_stopped` and
`client_just_disconnected` notice. An ID may be used again. `SpawnMapped` spawns an
entity for one that a client announced and calls `ClientEntityMap::insert`, also for a
session that is over; the client's entity may be gone. Entities have no components
here, every one is visible, and mutate messages are represented by the fact that
some are to be acknowledged.

**ClientEvents.** `BeginFrame` is `First` and `PreUpdate` of the client app (the double
buffer, `client_just_connected`, `reset`), `EndFrame` its `PostUpdate` (`send`,
`resend_locally`). `Connect`, `Disconnect`, `SendPackets`, `ReceivePacket` and
`RemoveClient` are the backend's, between frames; `Receive` is the server's
`ServerEventPlugin::receive`. Events are emitted in any schedule.

**Rules, Registration.** A rule is a set of components with a priority and functions.
`InsertionPoints` has every index that `binary_search` may return among equal
priorities. `Registration` has one action per method of `AppRuleExt` and
`AppMarkerExt`; functions are represented by who set them. What an entity's markers
then select is `Writes` and `WritesOld`.

## Runs

| run | instance | shows |
|---|---|---|
| `client_visibility` | 2 entities, all policies, 3 calls per entity and tick | at a tick the client gets what the last calls asked for, with two exceptions stated exactly |
| `blacklist_despawn` | 1 entity | the first: hidden by the blacklist and despawned before the tick, an entity is never despawned on the client |
| `replication` | 2 entities, 2 components, all policies, 3 ticks, 4 changes | the safety properties of the protocol |
| `eventual_consistency` | 1 entity, 2 components, whitelist, 3 ticks, 5 changes | the client ends up like the server |
| `lost_mutation` | 1 entity, 2 components, 3 ticks, 3 changes | a mutation acknowledged before it was applied may be lost for good |
| `tick_buffers` | 1 entity, 2 components, 2 contents, every set of rules | at a tick the client gets what happened in all frames, with three exceptions stated exactly |
| `sessions` | 1 entity, 2 client IDs, 2 ticks, 2 connections, 2 starts | nothing of an old session reaches a new one, with exceptions stated exactly |
| `server_events` | 1 client, 2 connections, ordered and unreliable, 3 ticks, 2 events; and 2 clients, 2 connections, ordered, 2 ticks, 1 event | what the clients and the server read is a stream of events, those of a connection in order and none twice; none is triggered before the world it was emitted in, and none is left from before the last connection that a frame found to be new; those of the present connection wait in vain only at a client that inherited an update tick |
| `client_events` | 2 events, 2 connections | events are handled once, in their session, and arrive; what the server and the app read is a stream of events |
| `confirmed_ticks` | width 16 from tick 14, windows of 3, 4 ticks, 2 messages per tick | what the two records say is what was received, with the exceptions below |
| `stale_mask` | the same, 1 message per tick | after a jump of the history it contains ticks that were not received |
| `registration` | 2 components, 3 markers, 3 priorities of each, 3 rules and markers | positions keep their meaning; the highest priority wins |

Bounds. Two entities are needed for messages to be split and for entities to be
at different ticks; the filter treats entities independently. Two components
distinguish a mutation that supersedes another from one that misses its
component, and make groups. Three ticks are an insertion, a mutation that overtakes
it, and one that overtakes that; the counterexamples of all mutants and of
`lost_mutation` fit. Three calls reach every entry of the filter from every other
within a tick. `IndexRange = 16` exceeds the number of messages of a run (6), as 2^16
exceeds the number of messages a server has registered within `mutations_timeout`; a
smaller range would model a wrap that overwrites a registered message.
`TickBuffers` has no bound: its state space is finite, with any number of frames and
ticks; entities are treated independently, so one is enough.
For sessions, two connections and two starts are one of each with something left over
and one that must not see it; two IDs allow the second connection to have the same ID
and another; two ticks allow an update tick to be inherited, which a third would
only repeat. A tick after the last one of the bound is missing when nothing is left to
send, so `Sessions` has no deadlock and its run checks for it, like those of
`ClientVisibility`, `TickBuffers`, `ClientEvents` and `Registration`.
For events, two connections of one client are one with events left over and one that must
not see them, or that finds them in the queue if no frame notices, and three ticks allow
two events to wait for different update messages; two clients let one reuse the state of the
other, and exclude one from what the other is sent. `MaxEvents` = 2 is the least for an
order. `MCServerEvents` explores the two instances of `server_events` in one run
(`Explored`): with one client, all events are sent to everyone, and the last event in the
last connection over an unreliable channel is left out; with two, an event is sent to any of
them, no change comes after the last tick, and a client stays connected once a frame has
noticed that it is. The proofs have none of these limits.
For the records, four ticks from 14 cross the wrap at 16 and allow the history to
move by less than, exactly and more than its window.
Three registrations are two that are sorted and one that moves them.
`Replication`, `ServerEvents` and `ConfirmedTicks` stop when the ticks are used up, so
their runs do not check for deadlock.

**Properties.** Each is stated in words where it is defined, and for each there is an
operator marked "Mutant", a version of the code with a plausible bug that violates it.

* `ClientVisibility`: `MirrorsWanted` (the refinement),
  `TrackedIsKnown` (a mutation tick exists exactly for entities the client has).
* `Replication`: `ConfirmsInOrder`, `AwaitedUpdateIsComing`, `MutationsNeverInsert`,
  `NeverBackwards`, `AckedIsDelivered`, `EntityIsAsConfirmed`, and the liveness property
  `EventuallyConsistent`.
* `TickBuffers`: `MirrorsWorld` (the refinement).
* `Sessions`: `AckersAreReplicated` (`receive_acks` does not panic), `KnowsTheWorld`,
  `ReachesUpdateTick`, `MapsToOwnEntities`.
* `ServerEvents`: `ReadyIsCurrent` (an event that may be triggered refers to nothing the
  client has yet to receive), `NoOldEvents`, `WaitsOnlyIfInherited`,
  `ImplementsStream` (the refinement).
* `ClientEvents`: `HandledOnce`, `SessionsAreSeparate`, `SenderIsConnected`,
  `ImplementsStream` (the refinement), and the liveness property `EventuallyReceived`.
* `ConfirmedTicks`: `ReplicatedIsContained`, `ContainedSinceJump`, `UnconfirmedIsUnchanged`
  (what `track_mutate_messages` promises to rollback), `ReceivedWhenComplete`,
  `RangesAgree`.
* `Registration`: `FnsIdsAgree`, `HighestRuleWins`, `RemovalsUndoReplication`,
  `HighestMarkerWrites`.

## Where the code falls short

Three runs show a violation of what a comment of the code says.

* `lost_mutation` (`client.rs:193`): an entity is inserted and mutated; its update
  message is delayed, while two mutate messages arrive and the first is acknowledged.
  The server leaves its component out of the second. When the update message arrives
  the second is applied first, and the first is dropped as outdated. The history
  variable `held` marks entities with such an acknowledgement; `AckedIsDelivered`,
  `EntityIsAsConfirmed` and `EventuallyConsistent` except them.
* `blacklist_despawn` (`client_visibility.rs:106`): an entity hidden and despawned
  between two ticks is taken for one that the client never had.
* `stale_mask` (`confirm_history.rs:123`): `set_last_tick` shifts by the distance modulo
  64, so that an entity that was idle for 64 ticks or more keeps old bits at new
  positions; `jump` marks the ticks before such a jump, and `ContainedSinceJump` excepts
  them.

Others are exceptions of a property that holds; each is a history variable or a
conjunct, so that the property says that nothing else goes wrong.

* `client_visibility.rs:209`: a whitelisted entity that is hidden, shown and hidden
  between two ticks stays on the client (`flapped`, in `MirrorsWanted`). In `Replication`
  an entity that flapped once remains in `flapped`: if it is shown again, its update
  message has no removal for a component it lost while it was hidden, which the
  client keeps for good. `EntityIsAsConfirmed` excepts such entities. (The proof of
  this property found the case; to meet it a run needs one operation more than
  `replication` has.)
* `removal_buffer.rs:185`: removals from the same entity in a later frame of the tick
  replace those of an earlier one, which the client is never told (`kept`, in
  `MirrorsWorld`). `kept` also has components that are removed when the rest of their
  group is gone already; the comment in `replication_rules.rs` on groups announces that
  replication stops then, and not that the client keeps the component.
* `removal_buffer.rs:38`: an entity that loses a component in one frame and is despawned
  in a later one is despawned on the client and spawned again for the removal
  (`ghosts`, in `MirrorsWorld` and `KnowsTheWorld`).
* `server.rs:516`: a component that only begins to match because another one of its
  group was inserted is neither new nor changed, and not sent (`late`).
* `server.rs:328`: `reset` leaves `RemovalBuffer`, so that the same happens to entities
  that lost a component before the server stopped and were despawned meanwhile.
* `replicated_clients.rs:246`: a new client that reuses the state of one that left keeps
  its update tick, and holds events and mutations back until an update message is
  sent to it (`inherited` in `ServerEvents`, `raised` = "kept" in `Sessions`).
* `update_message.rs:264`: a message with nothing but mappings is not sent, though the
  update tick was raised for it (`raised` = "skipped").
* `common_conditions.rs:71`: a client that disconnects and connects again between two
  frames is not reset (`inherited` in `Sessions`, `noticed` in `ClientEvents`). In
  `ServerEvents` its queue keeps events of the old connection (`:53`), although `reset` is
  there "to ensure clean reconnects": they are triggered in the new one, where others that
  need not wait may come before them, or wait for update messages that were discarded.
  `NoOldEvents` and `ImplementsStream` therefore count from `joined`, order is that of each
  connection, and `WaitsOnlyIfInherited` is about the events of the present one.
* `server.rs:185`: a mapping inserted for a session that is over stays until a client
  with that ID has come and gone (`timely`).
* `client_event.rs:349`: an event that was sent is re-emitted locally if the client
  disconnects while it is in the buffer (`HandledOnce` allows it).
* `server_event.rs:510`: of two events with the same tick in the queue the second
  replaces the first, since `ListOrderedMultimap::insert` replaces the values of a key.
* `confirm_history.rs:83`: for a range of all 64 ticks of the window `contains_any`
  computes `1 << 64`, which panics with overflow checks and without them makes the
  answer `false` (`Ones`; excepted by `RangesAgree`). `ServerMutateTicks::contains` is
  true for a tick that left the window incomplete, as its comment says: rollback may
  conclude something from `MutateTickReceived`, not from `contains` alone.
* `replication_rules.rs:140` says that `replicate_group` panics with debug assertions if
  a rule is a subset of another; nothing checks it, and `Registration` has such rules.

## Fairness

`FairSpec` of `Replication` asks for weak fairness of `Tick`, `ReceiveAcks`,
`ApplyUpdateMessage` and `ReceiveMutations(mutates)`. The first two are systems that
run in every frame of a running server, the others the system that runs in every
frame of a connected client, and the reliable channel delivers. The last says that
what is in transit and not dropped arrives. No fairness is assumed of losing
messages, of game code or of `CleanupAcks`. The server sends a mutation again in
every tick until it is acknowledged; as a bounded run has a last tick, the messages
of that tick are not lost.

`Spec` of `ClientEvents` asks for weak fairness of `Frame`, `ReceivePacket` and
`Receive` (apps run their frames, the channel is reliable) and for strong fairness of
`SendPackets`: the backend sends in `ClientSet::SendPackets` of every frame, which the
model allows between any two frames but not in a frame's middle, so that it is
enabled again and again rather than always. No fairness is assumed of connecting
or of removing clients; `EventuallyReceived` is about sessions that last.

## Proofs

The theorems hold for every set of entities, components, clients and markers, for every
set of rules or of priorities and every bound. They assume of the constants what the
modules state: finitely many calls, ticks, sessions and events (`BoundsAssumption`,
`MaxCallsAssumption`), names that differ (`MarkerAssumption`, `AbsentAssumption`,
`NobodyAssumption`, `NoFnsAssumption`, `ServerAssumption`), known policies, rules and groups
of components (`PoliciesAssumption`, `RulesAssumption`, `GroupsAssumption`), priorities that
are numbers (`PrioritiesAssumption`; `usize` in the code), and ticks that are close enough to
be compared (`WidthAssumption`). TLC evaluates them in every run.
None of the properties is inductive; each proof has an invariant that is, which TLC
checked on an instance before it was proved.

**`ClientVisibilityProofs`**: the properties of `client_visibility`, with the refinement
`ImplementsMirror`, and the parts it consists of. The invariant `IInv` says, for each
entity whose filter entry still matters, how its entry and its membership in `added` and
`removed` relate to the last call and to what the client has (`BlacklistInv`,
`WhitelistInv`), and which despawned entities stay with the client (`GhostInv`).
`TickFilter` then shows that the drained filter shows exactly what is wanted, and each
action property follows from it in a few lines. For the refinement, initial states map
to initial states, `Tick` to `Synchronise`, and all other steps to `Edit` or a stutter.

**`ReplicationProofs`**: every safety property of `replication`.

* `TypeOK`, `ConfirmsInOrder`, `AwaitedUpdateIsComing`. Update messages in transit have
  rising ticks, the last one the server's `update_tick` (`UpdatesInv`); a mutate message
  carries that tick, so that no update message lies between its update tick and its own
  tick (`MutateInv`); hence a mutate message that may be applied is older than all update
  messages in transit, and what it confirms is, too (`ConfirmedInv`).
* `NeverBackwards`. All copies of a component, at the server, in messages and at the
  client, are ordered by age: the later the message the younger, and a mutate message is
  no older than any update message up to its tick (`AgesInv`).
* `MutationsNeverInsert`. What the server takes the client to have the client has, or
  will have when the update messages in transit are applied (`WillHold`, `BeliefInv`), so
  the update messages a mutate message waits for bring what it mutates (`PresenceInv`).
  This needs the filter to agree with the mutation ticks (`FilterInv`).
* `AckedIsDelivered` and `EntityIsAsConfirmed`. What did not change since the tick that is
  acknowledged or confirmed for an entity is at the client or in transit (`AckedInv`,
  `ClientInv`, `UpdateInv`, `SnapshotInv`, together `ContentInv`). The mutations an
  acknowledgement stands for are found by their `u16` index, so the theorems
  `AckedMutationsAreDelivered` and `EntitiesAreAtomic` have the hypothesis `[]FreshIndices`:
  a tick uses no index that still belongs to a message or an acknowledgement in transit.
  In the code 2^16 messages would have to be sent in the meantime. `NoReuseInRange` proves
  the hypothesis where the range exceeds the messages within the bounds, as in the runs,
  and `EntitiesAreAtomicInRange` puts the two together.

**`TickBuffersProofs`**: `TypeOK` and the refinement `MirrorsWorld`, for every set of rules.
The invariant accounts for each difference between the world and the client: a component
the client was sent is unchanged, or the change is recorded (`PresentInv`); one that is
gone at the server is gone at the client, or its removal is unread, buffered, or one of
those that are never told (`AbsentInv`); entities likewise (`EntitiesInv`, `UnmarkedInv`).

**`SessionsProofs`**: all properties of `sessions`.

* `AckersAreReplicated`. There is something to acknowledge, or an acknowledgement on its
  way, only between a running server and an online client it replicates to
  (`InTransitInv`), since the connection is discarded by whatever ends it; a client that is
  offline has none (`LinkInv`), and a stopped server has an empty inbox, so that clearing
  `ReplicatedClients` later does no harm (`StoppedInv`).
* `KnowsTheWorld`, `ReachesUpdateTick`, `MapsToOwnEntities`, from `WorldInv`: what the client
  will have once all that is on its way is applied (`WillKnow`) is what the server tracks
  for it, or excused (`KnownInv`); the tick that was sent last arrives (`UpdateTickInv`); and a
  mapping is kept for, sent to, and applied by the session it was made in (`UniqueInv`,
  `SessionInv`, `OwnInv`).

**`RegistrationProofs`**: all properties of `registration`. Lists are in descending order
wherever `binary_search` put an element (`ListsInv`), nothing has two places in them
(`UniqueInv`), and a slot is at the position its marker has now (`SlotInv`): registering a
marker moves the slots as it moves the markers. As lists are in order, the first that
fits has the highest priority; `RemovalsUndoReplication` compares the two loops over the
rules. `FnsIdsAgree` is a part of the invariant as it stands: functions are appended, and
components never move, whatever is registered later.

**`ServerEventsProofs`**: all properties of `server_events`, and `TriggeredInOrder`, which the
refinement implies.

* `ReadyIsCurrent`, `NoOldEvents`. An event that the server still has refers to nothing
  its clients cannot see, and was emitted after a client connected, or excludes it
  (`EventsInv`). A client that a tick has served can see nothing newer than its update
  tick but what changed since the last tick (`ServerInv`), so that the stamp of a message
  is as new as all it refers to. What is in a channel is of the present connection, and what
  the client's next frame will have in its queue came after `joined` (`MessagesInv`).
* `WaitsOnlyIfInherited`. With what is on its way a client reaches its update tick, unless
  it inherited it; no message of the present connection is stamped with a later one
  (`Current`, `StampedInv`, `ReachesInv`, `UpdatesInv`).
* `TriggeredInOrder`. Events pass from `emitted` to `buffered`, to the channel, to the queue
  and to those triggered; each place is in order, and ahead of those before it (`OrderInv`,
  `WayInv`). An event may overtake the queue, so this needs that a later event of the same
  connection does not have an earlier stamp (`StampsInv`), and that an event which an
  unnoticed reconnection left in the queue does not hide one that is ready: it was stamped
  no later than any update message in transit, and while it waits, so do all of the present
  connection behind it (`Stale`, `StaleInv`). Then one that need not wait finds nothing
  of its connection waiting.
* `ImplementsStream`. The same invariant has the kind of the channel as a parameter: over an
  ordered channel the numbers rise from place to place, over any other they only differ,
  which also holds if messages are lost or overtake each other. The server itself, to which
  the channel does not matter, triggers in order in any case (`LocalInv`). `Emit` maps to
  `Emit`, `Connect` to `Join` unless the client's last frame found it connected, and all
  other steps to `Read` or a stutter (`ClientIsNew`, `ServerIsNew`: what is triggered now is
  new to the reader, and later than what it has read on the same lane).

**`ClientEventsProofs`**: the safety properties of `client_events`, with the refinement. The
buffers have no event twice, and none that the cursor has not passed was sent
(`BuffersInv`). From the frame that notices a session on, all that is in the buffers or
waits to be sent was emitted in it (`OwnInv`); messages of a session are sent only after that frame, or by an app that
never noticed it (`SeparateInv`), and those of removed clients are gone (`SendersInv`). For the
refinement it takes an invariant of order (`NumbersRise`): the numbers of events rise along
all that the server received, its inbox, the link and what is not sent yet, and none of
them is above the cursor; and they rise along what was re-emitted and the two buffers. So
what is read from the buffers comes after all that was sent, and what is received after
all that was received before, in whatever session.

**`ConfirmedTicksProofs`**: all properties of `confirmed_ticks`, for every width of ticks,
every length of the windows and every tick to start in.

* Arithmetic. The solvers give up on `%` by a constant that is not a number, so the lemmas
  start from what a quotient and a remainder are, and show how a remainder of a
  difference relates to the difference of remainders. `Distance` and `NewerIsLater` then
  say that `Minus` and `Newer`, the wrapping subtraction and comparison of the code, are
  those of ticks that do not wrap, and `BeyondWindow` the same of the comparison of a tick
  with the end of a window. Nothing after these lemmas mentions a remainder but the
  shift by the distance modulo `Bits`.
* What is recorded. The invariant names the ticks that the three records of the client
  end with: c is its update tick (`UpdatesInv`), h the last tick the entity was replicated
  for (`MaskInv`), l the last tick of a mutate message applied (`WindowInv`). The positions of
  the mask are replicated ticks before h, or from before a jump; the entry of a tick
  in the window of l counts the messages applied of that tick.
* `ReceivedWhenComplete`. The messages of a tick are a whole batch, each of them applied or
  in transit (`BatchesInv`), so that as many messages as the batch has are all of it
  (`CompleteWhenApplied`). No message is counted twice, which also bounds the counters.
* `UnconfirmedIsUnchanged`. A change was replicated, is in an update message in transit,
  or in a mutate message (`ChangedInv`). If the mutate messages of a tick were applied,
  the client has passed their update tick, and a mutate message waits for all update
  messages up to its own tick; hence the second is impossible, and the third was
  confirmed, or was older than the window.

The ticks in play have to be less than half the width apart, and so have the two ends of
a window: `WidthAssumption`. It demanded `2 * Bits <= Size` first, which was enough for the run,
but not for the proof of `BeyondWindow`: with windows of exactly half the width `contains_any`
takes the last tick itself for one before the window, and TLC finds `RangesAgree` violated for
`Size` = 10, `Bits` = 5 and `Start` = 8. With 64 ticks of 2^32 the code is far from that.

Recursion in `Selection` and `Registration` is written as recursive functions, whose
existence is proved with the least element of a set of numbers (`LeastExists`, `UpTo`).
Each proof module has the lemmas about sequences that it needs, such as which
elements a concatenation has, or that `Selected` keeps those of a set.

Only model-checked: `EventuallyConsistent` and `EventuallyReceived`, which as liveness
properties under fairness are beyond the prover. All other properties of the passing
runs are theorems.

## Not modelled

* Serialization, statistics, scenes, diagnostics, the test app: no state of the
  protocol, or tools around it. `ParentSync`: a component set from Bevy's hierarchy
  before the buffers are filled, and then one like any other.
* `ServerMutateTicks` across sessions: `ClientPlugin::reset` leaves it, and no doc says
  what it holds then.
* The wrap of the `u16` index of mutate messages (see Bounds).
* Rules registered after archetypes have been read: the setup of an app comes first.
* Several types of events at once (each has a channel, a buffer and a queue of its
  own), and events over a restart of the server (`BufferedServerEvents::clear` in
  `ServerPlugin::reset`): the ticks of `ServerEvents` only rise.
* The panic of `ServerEntityMap::insert` on a second mapping of an entity: in `Sessions`
  an entity is mapped when it is spawned, as the doc of `ClientEntityMap` shows, and a
  mapping that meets an entity kept by an unnoticed reconnection replaces it.
* Sessions have entities without components and one client app; events, visibility and
  mutations over several sessions are in the modules for them.

## Plan

1. `ServerMutateTicks` across sessions.
2. `ParentSync`.
