---------------------------- MODULE ServerEvents ----------------------------
(***************************************************************************)
(* Events the server sends to clients (core/event/server_event.rs,         *)
(* server/event.rs, client/event.rs), and the connections they depend on   *)
(* (handle_connections and enable_replication of server.rs).               *)
(*                                                                         *)
(* An event may refer to entities, so a client must not trigger it before  *)
(* it has the world of the time the event was emitted.  The server buffers *)
(* it until the next tick, stamps it with the tick of the last update      *)
(* message it sent to the client, and the client queues it until it has    *)
(* applied that message.  Independent events skip all that.                *)
(*                                                                         *)
(* Of replication, the module has what events depend on: when a client is  *)
(* sent an update message, and its tick.  The event sets of                *)
(* BufferedServerEvents are flattened: each event carries the clients its  *)
(* set excludes.  A SendMode is the set of those it addresses.             *)
(*                                                                         *)
(* An operator marked "Mutant" is a version of the one that follows it,    *)
(* with a bug; it shows that a property of some run depends on the code.   *)
(***************************************************************************)
EXTENDS Naturals, Sequences, SequencesExt, Selection

CONSTANTS
  Clients,       \* clients, by their ids
  Server,        \* ClientId::SERVER
  ChannelKinds,  \* kinds of channel an event may be registered with
  MaxTick,       \* bound: ticks of the server
  MaxEvents,     \* bound: events emitted
  MaxConnects    \* bound: connections made

ASSUME ServerAssumption == Server \notin Clients
ASSUME ChannelAssumption == ChannelKinds \subseteq {"Ordered", "Unordered", "Unreliable"}
ASSUME BoundsAssumption == MaxTick \in Nat /\ MaxEvents \in Nat /\ MaxConnects \in Nat

VARIABLES
  channel,     \* the kind the events of this behaviour are registered with
  \* The server.
  serverTick,  \* ServerTick
  seen,        \* per client: tick of the last change it can see, 0 if none
  emitted,     \* Events<ToClients<E>> not read yet
  lastId,      \* number of events emitted
  buffered,    \* BufferedServerEvents
  connected,   \* ConnectedClients
  replicated,  \* ReplicatedClients
  synced,      \* replicated clients that a tick has served
  updateTick,  \* ReplicatedClient::update_tick
  spare,       \* update ticks of the ReplicatedClients in ClientBuffers
  \* The channels to each client.
  updates,     \* ticks of update messages
  messages,    \* events
  \* The clients.
  online,      \* clients that are connected, from their own point of view
  lastStatus,  \* what each client's last frame found: Locals of the run conditions
  clientTick,  \* ServerUpdateTick
  queue,       \* ServerEventQueue
  triggered,   \* per client and for the server: <<lane, id>> of events triggered there
  \* Bounds and history.
  connects,    \* connections made
  since,       \* history: per client, events emitted before it connected
  joined,      \* history: the same, of a connection that a frame finds to be new
  inherited    \* history: clients whose update tick is another client's

serverVars == <<serverTick, seen, emitted, lastId, buffered, connected, replicated,
                synced, updateTick, spare>>
clientVars == <<online, lastStatus, clientTick, queue, triggered>>
history    == <<connects, since, joined, inherited>>
vars == <<channel, serverVars, updates, messages, clientVars, history>>

Ticks == 0..MaxTick
Ids   == 1..MaxEvents

\* RepliconClientStatus.
Statuses == {"Disconnected", "Connecting", "Connected"}

\* SendMode: Broadcast, BroadcastExcept(id) or Direct(id).
Everyone  == Clients \cup {Server}
SendModes == {Everyone} \cup {Everyone \ {id} : id \in Everyone} \cup {{id} : id \in Everyone}

\* `need` is the tick of the last change each client could see when the event
\* was emitted: the event may refer to it.
EventRecords ==
  [id : Ids, to : SendModes, independent : BOOLEAN, need : [Clients -> Ticks]]
BufferedEvents ==
  [id : Ids, to : SendModes, independent : {FALSE}, need : [Clients -> Ticks],
   excluded : SUBSET Clients]
\* `since` tells the connection an event was sent in from the client's others; it
\* is not part of the message.
Messages ==
  [id : Ids, independent : BOOLEAN, need : Ticks, tick : Ticks, since : 0..MaxEvents]

\* What is sent to a client in order: the events of one type, in one connection.
Lane(m) == <<m.independent, m.since>>
Lanes   == BOOLEAN \X (0..MaxEvents)

TypeOK ==
  /\ channel \in ChannelKinds
  /\ serverTick \in Ticks
  /\ seen \in [Clients -> Ticks]
  /\ emitted \in Seq(EventRecords)
  /\ lastId \in 0..MaxEvents
  /\ buffered \in Seq(BufferedEvents)
  /\ connected \subseteq Clients
  /\ replicated \subseteq connected
  /\ synced \subseteq replicated
  /\ updateTick \in [Clients -> Ticks]
  /\ spare \in Seq(Ticks)
  /\ updates \in [Clients -> Seq(Ticks)]
  /\ messages \in [Clients -> Seq(Messages)]
  /\ online \subseteq connected
  /\ lastStatus \in [Clients -> Statuses]
  /\ clientTick \in [Clients -> Ticks]
  /\ queue \in [Clients -> Seq(Messages)]
  /\ triggered \in [Everyone -> Seq(Lanes \X Ids)]
  /\ connects \in 0..MaxConnects
  /\ since \in [Clients -> 0..MaxEvents]
  /\ joined \in [Clients -> 0..MaxEvents]
  /\ inherited \subseteq Clients

Init ==
  /\ channel \in ChannelKinds
  /\ serverTick = 0
  /\ seen = [c \in Clients |-> 0]
  /\ emitted = <<>>
  /\ lastId = 0
  /\ buffered = <<>>
  /\ connected = {}
  /\ replicated = {}
  /\ synced = {}
  /\ updateTick = [c \in Clients |-> 0]
  /\ spare = <<>>
  /\ updates = [c \in Clients |-> <<>>]
  /\ messages = [c \in Clients |-> <<>>]
  /\ online = {}
  /\ lastStatus = [c \in Clients |-> "Disconnected"]
  /\ clientTick = [c \in Clients |-> 0]
  /\ queue = [c \in Clients |-> <<>>]
  /\ triggered = [id \in Everyone |-> <<>>]
  /\ connects = 0
  /\ since = [c \in Clients |-> 0]
  /\ joined = [c \in Clients |-> 0]
  /\ inherited = {}

-----------------------------------------------------------------------------
(* Game code on the server, between two frames.                            *)

\* A change that goes to an update message, as seen by some clients.
ChangeWorld(viewers) ==
  /\ serverTick < MaxTick
  /\ \E c \in viewers : seen[c] # serverTick + 1
  /\ seen' = [c \in Clients |-> IF c \in viewers THEN serverTick + 1 ELSE seen[c]]
  /\ UNCHANGED <<channel, serverTick, emitted, lastId, buffered, connected, replicated,
                 synced, updateTick, spare, updates, messages, clientVars, history>>

Emit(mode, independent) ==
  /\ lastId < MaxEvents
  /\ serverTick < MaxTick
  /\ lastId' = lastId + 1
  /\ emitted' = Append(emitted, [id |-> lastId', to |-> mode,
                                 independent |-> independent, need |-> seen])
  /\ UNCHANGED <<channel, serverTick, seen, buffered, connected, replicated, synced,
                 updateTick, spare, updates, messages, clientVars, history>>

-----------------------------------------------------------------------------
(* Connections.  The backend reports them in PreUpdate, when the frame's   *)
(* game code has not emitted anything yet.                                 *)

\* ReplicatedClients::add for a client that is not replicated: the state of a
\* client that left is reused, and ReplicatedClient::reset leaves update_tick.
ReusedTick == IF spare = <<>> THEN 0 ELSE Last(spare)

StartsReplication(c) ==
  /\ replicated' = replicated \cup {c}
  /\ updateTick' = [updateTick EXCEPT ![c] = ReusedTick]
  /\ spare' = IF spare = <<>> THEN spare ELSE Front(spare)
  /\ inherited' = IF ReusedTick = 0 THEN inherited ELSE inherited \cup {c}

\* Mutant: the buffered events are not touched.
ExcludedNone(c) == buffered

\* BufferedServerEvents::exclude_client.
ExcludeClient(c) ==
  [i \in DOMAIN buffered |-> [buffered[i] EXCEPT !.excluded = @ \cup {c}]]

\* ServerEvent::ClientConnected, and the client's status is Connected again, which
\* is all that happens on the client before its next frame.  `start` is
\* replicate_after_connect.
Connect(c, start) ==
  /\ connects < MaxConnects
  /\ c \notin connected
  /\ emitted = <<>>
  /\ connects' = connects + 1
  /\ connected' = connected \cup {c}
  /\ online' = online \cup {c}
  /\ IF start THEN StartsReplication(c)
              ELSE UNCHANGED <<replicated, updateTick, spare, inherited>>
  /\ buffered' = ExcludeClient(c)
  /\ since' = [since EXCEPT ![c] = lastId]
  /\ joined' = IF lastStatus[c] = "Connected" THEN joined ELSE [joined EXCEPT ![c] = lastId]
  /\ UNCHANGED <<channel, serverTick, seen, emitted, lastId, synced, updates, messages,
                 lastStatus, clientTick, queue, triggered>>

\* enable_replication, triggered by game code for a connected client.
StartReplication(c) ==
  /\ c \in connected \ replicated
  /\ StartsReplication(c)
  /\ UNCHANGED <<channel, serverTick, seen, emitted, lastId, buffered, connected, synced,
                 updates, messages, clientVars, connects, since, joined>>

\* The client loses its connection: RepliconClient::set_status discards what it
\* has received.  Whether the client connects again is up to the backend.
LoseConnection(c) ==
  /\ c \in online
  /\ online' = online \ {c}
  /\ updates' = [updates EXCEPT ![c] = <<>>]
  /\ messages' = [messages EXCEPT ![c] = <<>>]
  /\ UNCHANGED <<channel, serverVars, lastStatus, clientTick, queue, triggered, history>>

\* Mutant: the replicated client stays.
RemovedNone(c) == replicated

\* ReplicatedClients::remove.
Removed(c) == replicated \ {c}

\* The server learns of it later: ServerEvent::ClientDisconnected.
Disconnect(c) ==
  /\ c \in connected \ online
  /\ emitted = <<>>
  /\ connected' = connected \ {c}
  /\ replicated' = Removed(c)
  /\ synced' = synced \ {c}
  /\ spare' = IF c \in replicated THEN Append(spare, updateTick[c]) ELSE spare
  /\ updateTick' = [updateTick EXCEPT ![c] = 0]
  /\ inherited' = inherited \ {c}
  /\ UNCHANGED <<channel, serverTick, seen, emitted, lastId, buffered, updates, messages,
                 clientVars, connects, since, joined>>

-----------------------------------------------------------------------------
(* PostUpdate on the server.                                               *)

\* send_replication sends a client an update message if it has changes, and if
\* it has not been sent the world yet.
HasUpdate(c) ==
  /\ c \in replicated
  /\ seen[c] = serverTick + 1 \/ (c \notin synced /\ seen[c] # 0)

\* Mutant: every tick sets the update tick.
UpdateTickOfServer(c) == IF c \in replicated THEN serverTick + 1 ELSE updateTick[c]

UpdateTickAfter(c) == IF HasUpdate(c) THEN serverTick + 1 ELSE updateTick[c]

\* send_or_buffer: an event is either sent at once or buffered.
Independent == Selected(emitted, {e \in ToSet(emitted) : e.independent})
Buffered ==
  LET regular == Selected(emitted, {e \in ToSet(emitted) : ~e.independent})
  IN  buffered \o [i \in DOMAIN regular |->
        [id |-> regular[i].id, to |-> regular[i].to, independent |-> FALSE,
         need |-> regular[i].need, excluded |-> {}]]

\* The event as it goes to a client: an independent event carries no tick, and
\* the tick 0 never makes it wait.
Message(e, c, tick) ==
  [id |-> e.id, independent |-> e.independent, need |-> e.need[c], tick |-> tick,
   since |-> since[c]]

\* What a client is sent of a sequence of events.  The backend drops what is
\* sent to a client that is gone.
SentTo(c, events, tick) ==
  LET addressed == Selected(events, {e \in ToSet(events) : c \in e.to})
  IN  IF c \in online
      THEN [i \in DOMAIN addressed |-> Message(addressed[i], c, tick)] ELSE <<>>

\* Mutant: events are stamped before replication sets the update tick.
StampBefore(c) == updateTick[c]

\* send_buffered runs after send_replication.
Stamp(c) == UpdateTickAfter(c)

\* BufferedServerEvents::send_all, for one client.
SentBuffered(c) ==
  IF c \in replicated
  THEN SentTo(c, Selected(Buffered, {e \in ToSet(Buffered) : c \notin e.excluded}), Stamp(c))
  ELSE <<>>

\* resend_locally.
TriggeredLocally ==
  LET local == Selected(emitted, {e \in ToSet(emitted) : Server \in e.to})
  IN  [triggered EXCEPT ![Server] = @ \o [i \in DOMAIN local |->
        <<<<local[i].independent, 0>>, local[i].id>>]]

\* A frame without a tick: send_or_buffer and resend_locally.
Frame ==
  /\ emitted # <<>>
  /\ emitted' = <<>>
  /\ buffered' = Buffered
  /\ messages' = [c \in Clients |-> messages[c] \o SentTo(c, Independent, 0)]
  /\ triggered' = TriggeredLocally
  /\ UNCHANGED <<channel, serverTick, seen, lastId, connected, replicated, synced,
                 updateTick, spare, updates, online, lastStatus, clientTick, queue,
                 history>>

\* A frame with one: send_replication, send_or_buffer, send_buffered and
\* resend_locally.
Tick ==
  /\ serverTick < MaxTick
  /\ serverTick' = serverTick + 1
  /\ synced' = replicated
  /\ updateTick' = [c \in Clients |-> UpdateTickAfter(c)]
  /\ inherited' = {c \in inherited : ~HasUpdate(c)}
  /\ updates' = [c \in Clients |-> IF HasUpdate(c) /\ c \in online
                                   THEN Append(updates[c], serverTick') ELSE updates[c]]
  /\ emitted' = <<>>
  /\ buffered' = <<>>
  /\ messages' = [c \in Clients |->
                    messages[c] \o SentTo(c, Independent, 0) \o SentBuffered(c)]
  /\ triggered' = TriggeredLocally
  /\ UNCHANGED <<channel, seen, lastId, connected, replicated, spare, online, lastStatus,
                 clientTick, queue, connects, since, joined>>

-----------------------------------------------------------------------------
(* A frame of a client: NoticeStatus if its status is not that of the last *)
(* frame; then, if it is connected, ApplyUpdate any number of times, and   *)
(* ReceiveEvents once for each message that arrived (or once without).     *)

\* ServerEvent::reset.
ResetQueue(c) == <<>>

\* ClientPlugin::reset: ServerUpdateTick is back at its default.
ResetTick == 0

\* client_just_connected, the run condition of ClientSet::ResetEvents, and
\* client_just_disconnected, that of ClientSet::Reset, compare the status with that
\* of the last frame.  A client that is not connected may be connecting: the
\* tick stays.  A connection lost and made again between two frames changes nothing.
NoticeStatus(c, status) ==
  /\ status # lastStatus[c]
  /\ status = "Connected" <=> c \in online
  /\ lastStatus' = [lastStatus EXCEPT ![c] = status]
  /\ queue' = IF status = "Connected" THEN [queue EXCEPT ![c] = ResetQueue(c)] ELSE queue
  /\ clientTick' = IF status = "Disconnected" THEN [clientTick EXCEPT ![c] = ResetTick]
                                              ELSE clientTick
  /\ UNCHANGED <<channel, serverVars, updates, messages, online, triggered, history>>

\* client_connected, once the frame has noticed it.
Receives(c) == c \in online /\ lastStatus[c] = "Connected"

\* receive_replication, as far as events go.
ApplyUpdate(c) ==
  /\ Receives(c)
  /\ updates[c] # <<>>
  /\ clientTick' = [clientTick EXCEPT ![c] = Head(updates[c])]
  /\ updates' = [updates EXCEPT ![c] = Tail(@)]
  /\ UNCHANGED <<channel, serverVars, messages, online, lastStatus, queue, triggered,
                 history>>

\* ServerEventQueue::pop_if_le until it yields nothing: the events it takes from
\* the front of the queue, and what stays.
FirstWaiting(c) == SelectInSeq(queue[c], LAMBDA m : m.tick > clientTick[c])
Popped(c) ==
  IF FirstWaiting(c) = 0 THEN queue[c] ELSE SubSeq(queue[c], 1, FirstWaiting(c) - 1)
StillQueued(c) ==
  IF FirstWaiting(c) = 0 THEN <<>> ELSE SubSeq(queue[c], FirstWaiting(c), Len(queue[c]))

\* ListOrderedMultimap::insert of the crate ordered_multimap: the new value
\* takes the place of all values the key has.
InsertQueued(q, m) == Append(Selected(q, {n \in ToSet(q) : n.tick # m.tick}), m)

\* Mutant: what waits in the queue is looked at last.
QueueLast(popped, received) == received \o popped

\* receive_typed empties the queue before it reads new messages.
QueueFirst(popped, received) == popped \o received

\* Messages of one type of event arrive in order on an ordered channel.
MayArrive(c, i) ==
  channel = "Ordered" =>
    \A j \in 1..(i - 1) : messages[c][j].independent # messages[c][i].independent

Triggers(events) == [i \in DOMAIN events |-> <<Lane(events[i]), events[i].id>>]

ReceiveEvents(c, i) ==
  LET m == messages[c][i]
      arrives == i # 0
      waits   == arrives /\ m.tick > clientTick[c]
  IN  /\ Receives(c)
      /\ arrives \/ Popped(c) # <<>>
      /\ arrives => MayArrive(c, i)
      /\ messages' = IF arrives THEN [messages EXCEPT ![c] = RemoveAt(@, i)] ELSE messages
      /\ queue' = [queue EXCEPT ![c] = IF waits THEN InsertQueued(StillQueued(c), m)
                                                ELSE StillQueued(c)]
      /\ triggered' = [triggered EXCEPT ![c] = @ \o
           Triggers(QueueFirst(Popped(c), IF arrives /\ ~waits THEN <<m>> ELSE <<>>))]
      /\ UNCHANGED <<channel, serverVars, updates, online, lastStatus, clientTick, history>>

\* An unreliable channel drops a message.
Lose(c, i) ==
  /\ channel = "Unreliable"
  /\ messages' = [messages EXCEPT ![c] = RemoveAt(@, i)]
  /\ UNCHANGED <<channel, serverVars, updates, clientVars, history>>

ClientStep(c) ==
  \/ \E start \in BOOLEAN : Connect(c, start)
  \/ StartReplication(c)
  \/ LoseConnection(c)
  \/ Disconnect(c)
  \/ \E status \in Statuses : NoticeStatus(c, status)
  \/ ApplyUpdate(c)
  \/ \E i \in 0..Len(messages[c]) : ReceiveEvents(c, i)
  \/ \E i \in DOMAIN messages[c] : Lose(c, i)

Next ==
  \/ \E viewers \in SUBSET Clients : ChangeWorld(viewers)
  \/ \E mode \in SendModes, independent \in BOOLEAN : Emit(mode, independent)
  \/ Frame
  \/ Tick
  \/ \E c \in Clients : ClientStep(c)

Spec == Init /\ [][Next]_vars

-----------------------------------------------------------------------------
(* Properties.                                                             *)

\* The queue as the client's next frame will find it, once it has noticed its
\* status, if the client is connected then.
Kept(c) == IF lastStatus[c] = "Connected" THEN queue[c] ELSE <<>>

\* Events on their way to a client or in its queue.
OnTheirWay(c) == ToSet(messages[c]) \cup ToSet(Kept(c))

\* "When an event is triggered, all the data that it affects or references
\* already exists" (ServerEventQueue): an event that may be triggered now was
\* emitted when the client could see nothing newer than it has.
ReadyIsCurrent ==
  \A c \in online : \A m \in OnTheirWay(c) :
    ~m.independent /\ m.tick <= clientTick[c] => m.need <= clientTick[c]

\* A newly-connected client is not sent events that were emitted before it
\* connected, also when it comes back while the server still buffers events from
\* before (exclude_client).  Nor does it go on with what its queue holds from before
\* ("clean reconnects"), except that of connections that were lost and made again
\* between two of its frames.
NoOldEvents ==
  \A c \in online :
    /\ \A i \in DOMAIN messages[c] : messages[c][i].id > since[c]
    /\ \A i \in DOMAIN Kept(c) : Kept(c)[i].id > joined[c]

\* Events of one type that were sent in one connection are triggered in the order
\* they were emitted, on the server and, over an ordered channel, on a client,
\* although some of them wait in the queue for an update message and others do not.
TriggeredInOrder ==
  channel = "Ordered" =>
    \A id \in Everyone : \A i, j \in DOMAIN triggered[id] :
      i < j /\ triggered[id][i][1] = triggered[id][j][1]
        => triggered[id][i][2] < triggered[id][j][2]

\* Whether every event of this connection can be triggered by what the client
\* has, or will be by an update message that is on its way as well.
NoneWaitsInVain(c) ==
  \A m \in OnTheirWay(c) : m.since = since[c] =>
    \/ m.tick <= clientTick[c]
    \/ \E i \in DOMAIN updates[c] : updates[c][i] >= m.tick

\* An event never waits for an update message that no change in the world has
\* caused yet (ReplicatedClient::update_tick: "to avoid needless waiting for the
\* next update message to arrive"), except at a client whose update tick was
\* left over in the state of a client that is gone.  An event that a reconnection
\* between two frames leaves in the queue does: its update message was discarded.
WaitsOnlyIfInherited ==
  \A c \in online : NoneWaitsInVain(c) \/ c \in inherited

\* Each client, and the server itself, triggers events that were emitted since
\* it joined, and of one type and connection none twice, and in the order they
\* were emitted, unless the channel may reorder them (ServerEventQueue "maintains
\* order of arrival").  A client joins with a connection that its next frame finds
\* to be new.
Joined(id) == IF id = Server THEN 0 ELSE joined[id]
Unordered == IF channel = "Ordered" THEN {} ELSE Clients

Stream == INSTANCE EventStream WITH
  Readers   <- Everyone,
  emitted   <- lastId,
  since     <- [id \in Everyone |-> Joined(id)],
  read      <- triggered,
  unordered <- Unordered

ImplementsStream == Stream!Spec
=============================================================================
