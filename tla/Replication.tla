----------------------------- MODULE Replication -----------------------------
(***************************************************************************)
(* The replication protocol between the server and one client.             *)
(*                                                                         *)
(* Server (server.rs, replicated_clients.rs): every tick send_replication  *)
(* collects what changed into one update message (despawns, removals,      *)
(* insertions; reliable and ordered channel) and into mutate messages      *)
(* (component mutations since the last acknowledged tick of the entity;    *)
(* unreliable channel).  Mutate messages are acknowledged by index.        *)
(*                                                                         *)
(* Client (client.rs): a frame applies the update messages that arrived,   *)
(* then acknowledges and buffers the mutate messages that arrived, then    *)
(* applies those whose update tick it has reached, newest first, skipping  *)
(* an entity that has already confirmed a newer tick.                      *)
(*                                                                         *)
(* The tick policy is EveryFrame, so a frame's removals and despawns are   *)
(* buffered and sent in the frame they happen.  The loops of               *)
(* send_replication treat clients independently, and one is modelled.  A   *)
(* component's content is the tick in which it last changed.  Bevy's       *)
(* change ticks are numbered so that `this_run` of send_replication is the *)
(* server tick it sends, and changes before it carry that same number.     *)
(*                                                                         *)
(* An operator marked "Mutant" is a version of the one that follows it,    *)
(* with a bug; it shows that a property of some run depends on the code.   *)
(***************************************************************************)
EXTENDS Visibility, Naturals, Sequences

CONSTANTS
  Components,    \* replicated component types
  PoliciesUsed,  \* visibility policies a server may be configured with
  IndexRange,    \* number of mutate indices: 2^16, a u16 in the code
  MaxTick,       \* bound: ticks the server sends
  MaxOps         \* bound: changes game code makes to the world

ASSUME PoliciesAssumption == PoliciesUsed \subseteq Policies
ASSUME BoundsAssumption == /\ IndexRange \in Nat \ {0}
                           /\ MaxTick \in Nat
                           /\ MaxOps \in Nat

VARIABLES
  \* The server's world.
  life,           \* per entity: "unborn", "alive" (has Replicated) or "dead"
  has,            \* per entity: its replicated components
  at,             \* per entity and component: tick of its last change or removal
  fresh,          \* entities whose Replicated was added since the last tick
  added,          \* per entity: components added since the last tick
  removals,       \* per entity: component removal events since the last tick
  despawned,      \* removal events of Replicated since the last tick
  ops,            \* changes made so far, to bound them
  \* The server's bookkeeping for the client: ReplicatedClient.
  serverTick,     \* ServerTick
  replicating,    \* whether the client is in ReplicatedClients
  filter,         \* visibility
  mutationTicks,  \* mutation_ticks, 0 for an entity it does not hold
  updateTick,     \* update_tick
  mutations,      \* mutations: sent and not yet acknowledged
  nextIndex,      \* next_mutate_index
  flapped,        \* history: entities hidden by a call that Flaps is true of
  \* The channels.
  updates,        \* ReplicationChannel::Updates, server to client
  mutates,        \* ReplicationChannel::Mutations
  acks,           \* ReplicationChannel::Updates, client to server
  \* The client.
  clientTick,     \* ServerUpdateTick
  mapped,         \* keys of ServerEntityMap
  confirmed,      \* per entity: ConfirmHistory::last_tick, 0 if it is not mapped
  value,          \* per entity and component: its content, 0 if it is absent
  buffered,       \* BufferedMutations
  midFrame,       \* receive_replication is applying update messages
  held            \* history: entities with a mutation acknowledged before applied

worldVars  == <<life, has, at, fresh, added, removals, despawned, ops>>
serverVars == <<serverTick, replicating, filter, mutationTicks, updateTick,
                mutations, nextIndex, flapped>>
channels   == <<updates, mutates, acks>>
clientVars == <<clientTick, mapped, confirmed, value, buffered, midFrame, held>>
vars == <<worldVars, serverVars, channels, clientVars>>

Ticks == 0..MaxTick
Values == [Entities -> [Components -> Ticks]]
NoValues == [e \in Entities |-> [c \in Components |-> 0]]
NoComponents == [e \in Entities |-> {}]

\* An update message; the value 0 stands for a component it does not carry.
UpdateMessages ==
  [tick : Ticks, despawns : SUBSET Entities,
   removals : [Entities -> SUBSET Components],
   changed : SUBSET Entities, values : Values]

MutateMessages ==
  [index : 0..(IndexRange - 1), updateTick : Ticks, tick : Ticks,
   entities : SUBSET Entities, values : Values]

\* MutateInfo under its index in the map `mutations`.
MutateInfos == [index : 0..(IndexRange - 1), tick : Ticks, entities : SUBSET Entities]

TypeOK ==
  /\ life \in [Entities -> {"unborn", "alive", "dead"}]
  /\ has \in [Entities -> SUBSET Components]
  /\ at \in Values
  /\ fresh \subseteq Entities
  /\ added \in [Entities -> SUBSET Components]
  /\ removals \in [Entities -> SUBSET Components]
  /\ despawned \subseteq Entities
  /\ ops \in 0..MaxOps
  /\ serverTick \in Ticks
  /\ replicating \in BOOLEAN
  /\ \E p \in PoliciesUsed : filter \in Filters(p)
  /\ mutationTicks \in [Entities -> Ticks]
  /\ updateTick \in Ticks
  /\ mutations \subseteq MutateInfos
  /\ nextIndex \in 0..(IndexRange - 1)
  /\ flapped \subseteq Entities
  /\ updates \in Seq(UpdateMessages)
  /\ mutates \subseteq MutateMessages
  /\ acks \in Seq(SUBSET (0..(IndexRange - 1)))
  /\ clientTick \in Ticks
  /\ mapped \subseteq Entities
  /\ confirmed \in [Entities -> Ticks]
  /\ value \in Values
  /\ buffered \subseteq MutateMessages
  /\ midFrame \in BOOLEAN
  /\ held \subseteq Entities

Init ==
  /\ life = [e \in Entities |-> "unborn"]
  /\ has = NoComponents
  /\ at = NoValues
  /\ fresh = {}
  /\ added = NoComponents
  /\ removals = NoComponents
  /\ despawned = {}
  /\ ops = 0
  /\ serverTick = 0
  /\ replicating = FALSE
  /\ \E p \in PoliciesUsed : filter = NewFilter(p)
  /\ mutationTicks = [e \in Entities |-> 0]
  /\ updateTick = 0
  /\ mutations = {}
  /\ nextIndex = 0
  /\ flapped = {}
  /\ updates = <<>>
  /\ mutates = {}
  /\ acks = <<>>
  /\ clientTick = 0
  /\ mapped = {}
  /\ confirmed = [e \in Entities |-> 0]
  /\ value = NoValues
  /\ buffered = {}
  /\ midFrame = FALSE
  /\ held = {}

-----------------------------------------------------------------------------
(* Game code on the server, between two ticks.                             *)

Now == serverTick + 1

Alive == {e \in Entities : life[e] = "alive"}

\* Every change of game code is counted, and none is made that no tick sends.
Change ==
  /\ ops < MaxOps
  /\ serverTick < MaxTick
  /\ ops' = ops + 1

Spawn(e, cs) ==
  /\ Change
  /\ life[e] = "unborn"
  /\ life' = [life EXCEPT ![e] = "alive"]
  /\ fresh' = fresh \cup {e}
  /\ has' = [has EXCEPT ![e] = cs]
  /\ added' = [added EXCEPT ![e] = cs]
  /\ at' = [at EXCEPT ![e] = [c \in Components |-> IF c \in cs THEN Now ELSE 0]]
  /\ UNCHANGED <<removals, despawned, serverVars, channels, clientVars>>

Despawn(e) ==
  /\ Change
  /\ life[e] = "alive"
  /\ life' = [life EXCEPT ![e] = "dead"]
  /\ despawned' = despawned \cup {e}
  /\ fresh' = fresh \ {e}
  /\ has' = [has EXCEPT ![e] = {}]
  /\ added' = [added EXCEPT ![e] = {}]
  /\ removals' = [removals EXCEPT ![e] = {}]
  /\ at' = [at EXCEPT ![e] = [c \in Components |-> 0]]
  /\ UNCHANGED <<serverVars, channels, clientVars>>

Insert(e, c) ==
  /\ Change
  /\ life[e] = "alive" /\ c \notin has[e]
  /\ has' = [has EXCEPT ![e] = @ \cup {c}]
  /\ added' = [added EXCEPT ![e] = @ \cup {c}]
  /\ at' = [at EXCEPT ![e][c] = Now]
  /\ UNCHANGED <<life, fresh, removals, despawned, serverVars, channels, clientVars>>

Remove(e, c) ==
  /\ Change
  /\ c \in has[e]
  /\ has' = [has EXCEPT ![e] = @ \ {c}]
  /\ added' = [added EXCEPT ![e] = @ \ {c}]
  /\ removals' = [removals EXCEPT ![e] = @ \cup {c}]
  /\ at' = [at EXCEPT ![e][c] = Now]
  /\ UNCHANGED <<life, fresh, despawned, serverVars, channels, clientVars>>

Mutate(e, c) ==
  /\ Change
  /\ c \in has[e]
  /\ at[e][c] # Now
  /\ at' = [at EXCEPT ![e][c] = Now]
  /\ UNCHANGED <<life, has, fresh, added, removals, despawned, serverVars,
                 channels, clientVars>>

\* A whitelisted entity the client was sent is hidden by taking back an entry
\* of this tick (see ClientVisibility).  The client keeps it, and is not told of
\* the components removed while it is hidden, not even when it is shown again.
Flaps(e, visible) ==
  /\ filter.policy = "Whitelist"
  /\ ~visible
  /\ e \in filter.added
  /\ mutationTicks[e] # 0

CallSetVisibility(e, visible) ==
  /\ Change
  /\ replicating
  /\ life[e] = "alive"
  /\ SetVisibility(filter, e, visible) # filter
  /\ filter' = SetVisibility(filter, e, visible)
  /\ flapped' = IF Flaps(e, visible) THEN flapped \cup {e} ELSE flapped
  /\ UNCHANGED <<life, has, at, fresh, added, removals, despawned, serverTick,
                 replicating, mutationTicks, updateTick, mutations, nextIndex,
                 channels, clientVars>>

World ==
  \E e \in Entities :
    \/ \E cs \in SUBSET Components : Spawn(e, cs)
    \/ Despawn(e)
    \/ \E c \in Components : Insert(e, c) \/ Remove(e, c) \/ Mutate(e, c)
    \/ \E visible \in BOOLEAN : CallSetVisibility(e, visible)

\* enable_replication: the client may join a server that already has entities.
StartReplication ==
  /\ ~replicating
  /\ serverTick < MaxTick
  /\ replicating' = TRUE
  /\ UNCHANGED <<worldVars, serverTick, filter, mutationTicks, updateTick,
                 mutations, nextIndex, flapped, channels, clientVars>>

-----------------------------------------------------------------------------
(* send_replication.                                                       *)

\* collect_despawns: visible entities of the despawn buffer, then those that
\* lost visibility.
LostVisibility == Lost(RemoveDespawned(filter, despawned))
Despawns == {e \in despawned : IsVisible(filter, e)} \cup LostVisibility

\* The filter and the mutation ticks collect_removals and collect_changes read.
Drained == DrainLost(RemoveDespawned(filter, despawned))
MutationTick(e) ==
  IF e \in despawned \cup LostVisibility THEN 0 ELSE mutationTicks[e]

Seen == {e \in Alive : IsVisible(Drained, e)}

\* RemovalBuffer: replicated entities only, components that are still absent.
RemovalBuffer(e) == IF life[e] = "alive" THEN removals[e] \ has[e] ELSE {}

\* collect_changes, for an entity the client can see: its insertions, its
\* mutations, and whether all of it goes to the update message.
NewEntity(e) == e \in fresh \/ State(Drained, e) = "Gained"
Inserted(e) ==
  {c \in has[e] : NewEntity(e) \/ MutationTick(e) = 0 \/ c \in added[e]}

\* Mutant: only the changes of this tick are sent.
MutatedInTick(e) == {c \in has[e] \ Inserted(e) : at[e][c] = Now}

Mutated(e) == {c \in has[e] \ Inserted(e) : at[e][c] > MutationTick(e)}
InUpdate(e) == NewEntity(e) \/ Inserted(e) # {} \/ RemovalBuffer(e) # {}

UpdateMessage ==
  [tick     |-> Now,
   despawns |-> Despawns,
   removals |-> [e \in Entities |-> IF e \in Seen THEN RemovalBuffer(e) ELSE {}],
   changed  |-> {e \in Seen : /\ InUpdate(e)
                              /\ NewEntity(e) \/ Inserted(e) \cup Mutated(e) # {}},
   values   |-> [e \in Entities |-> [c \in Components |->
                   IF e \in Seen /\ InUpdate(e) /\ c \in Inserted(e) \cup Mutated(e)
                   THEN at[e][c] ELSE 0]]]

\* Mutant: a message with nothing but despawns is taken for empty.
IsEmptyButDespawns(u) ==
  u.changed = {} /\ \A e \in Entities : u.removals[e] = {}

IsEmptyUpdate(u) ==
  /\ u.despawns = {}
  /\ u.changed = {}
  /\ \A e \in Entities : u.removals[e] = {}

\* Mutant: the update tick is set after the messages were sent.
SentUpdateTickOld == updateTick

\* Mutant: the update tick is set in every tick.
SentUpdateTickNow == Now

\* send_messages sets the update tick before either message is sent.
SentUpdateTick == IF IsEmptyUpdate(UpdateMessage) THEN updateTick ELSE Now

MutatedEntities == {e \in Seen : ~InUpdate(e) /\ Mutated(e) # {}}

\* MutateMessage::send packs whole entities, in some order, into as many
\* messages as their sizes call for: any way of splitting them up.
Splits(S) ==
  {split \in UNION {[1..n -> (SUBSET S) \ {{}}] : n \in 0..Cardinality(S)} :
     /\ S = UNION {split[i] : i \in DOMAIN split}
     /\ \A i, j \in DOMAIN split : i # j => split[i] \cap split[j] = {}}

MutateMessage(index, entities) ==
  [index |-> index, updateTick |-> SentUpdateTick, tick |-> Now,
   entities |-> entities,
   values |-> [e \in Entities |-> [c \in Components |->
                 IF e \in entities /\ c \in Mutated(e) THEN at[e][c] ELSE 0]]]

IndexOf(i) == (nextIndex + i - 1) % IndexRange

\* register_mutate_message: an index that is still in use is overwritten.
Registered(split) ==
  LET used == {IndexOf(i) : i \in DOMAIN split}
  IN  {info \in mutations : info.index \notin used}
        \cup {[index |-> IndexOf(i), tick |-> Now, entities |-> split[i]] :
                i \in DOMAIN split}

Send ==
  /\ filter' = EndOfTick(Drained)
  /\ mutationTicks' = [e \in Entities |->
                         IF e \in Seen /\ InUpdate(e) THEN Now ELSE MutationTick(e)]
  /\ updateTick' = SentUpdateTick
  /\ updates' = IF IsEmptyUpdate(UpdateMessage)
                THEN updates ELSE Append(updates, UpdateMessage)
  /\ \E split \in Splits(MutatedEntities) :
       /\ mutates' = mutates \cup
            {MutateMessage(IndexOf(i), split[i]) : i \in DOMAIN split}
       /\ mutations' = Registered(split)
       /\ nextIndex' = (nextIndex + Len(split)) % IndexRange

\* increment_tick, buffer_removals, buffer_despawns and send_replication; the
\* buffers are drained whether or not a client replicates.
Tick ==
  /\ serverTick < MaxTick
  /\ serverTick' = Now
  /\ fresh' = {}
  /\ added' = NoComponents
  /\ removals' = NoComponents
  /\ despawned' = {}
  /\ IF replicating
     THEN Send
     ELSE UNCHANGED <<filter, mutationTicks, updateTick, mutations, nextIndex,
                      updates, mutates>>
  /\ UNCHANGED <<life, has, at, ops, replicating, flapped, acks, clientVars>>

-----------------------------------------------------------------------------
(* The server's other handlers.                                            *)

\* Mutant: every entity is taken to be part of the message.
AckedTicksOfAny(e, indices) ==
  {info.tick : info \in {i \in mutations : i.index \in indices}}

\* receive_acks: an index that is not registered is ignored, and so is an
\* entity without a mutation tick; a mutation tick is never lowered.
AckedTicks(e, indices) ==
  {info.tick : info \in {i \in mutations : i.index \in indices /\ e \in i.entities}}

\* The greater of a mutation tick and the acknowledged ticks of its entity.
Acknowledge(e, indices) ==
  LET newest == {t \in AckedTicks(e, indices) :
                   /\ t > mutationTicks[e]
                   /\ \A s \in AckedTicks(e, indices) : s <= t}
  IN  IF mutationTicks[e] = 0 \/ newest = {}
      THEN mutationTicks[e]
      ELSE CHOOSE t \in newest : TRUE

ReceiveAcks ==
  /\ acks # <<>>
  /\ acks' = Tail(acks)
  /\ mutationTicks' = [e \in Entities |-> Acknowledge(e, Head(acks))]
  /\ mutations' = {info \in mutations : info.index \notin Head(acks)}
  /\ UNCHANGED <<worldVars, serverTick, replicating, filter, updateTick, nextIndex,
                 flapped, updates, mutates, clientVars>>

\* cleanup_acks forgets the mutate messages sent before some point in time.
CleanupAcks(tick) ==
  /\ \E info \in mutations : info.tick < tick
  /\ mutations' = {info \in mutations : info.tick >= tick}
  /\ UNCHANGED <<worldVars, serverTick, replicating, filter, mutationTicks,
                 updateTick, nextIndex, flapped, channels, clientVars>>

\* The unreliable channel drops a message.  The messages of the last tick are
\* not dropped: a bounded run has no later tick to send them again.
Lose(m) ==
  /\ m.tick < MaxTick
  /\ mutates' = mutates \ {m}
  /\ UNCHANGED <<worldVars, serverVars, updates, acks, clientVars>>

-----------------------------------------------------------------------------
(* receive_replication: ApplyUpdateMessage is one iteration of its first   *)
(* loop, ReceiveMutations the rest of the frame.                           *)

\* Mutant: apply_removals does not confirm the tick.
TouchedByChanges(u) == u.changed

\* apply_update_message: despawns, then removals, then changes.
Touched(u) == {e \in Entities : u.removals[e] # {}} \cup u.changed

Updated(u, e, c) ==
  IF u.values[e][c] # 0 THEN u.values[e][c]
  ELSE IF c \in u.removals[e] \/ e \in u.despawns THEN 0
  ELSE value[e][c]

ApplyUpdateMessage ==
  /\ updates # <<>>
  /\ LET u == Head(updates)
     IN  /\ clientTick' = u.tick
         /\ mapped' = (mapped \ u.despawns) \cup Touched(u)
         /\ confirmed' = [e \in Entities |->
                            IF e \in Touched(u) THEN u.tick
                            ELSE IF e \in u.despawns THEN 0 ELSE confirmed[e]]
         /\ value' = [e \in Entities |-> [c \in Components |-> Updated(u, e, c)]]
  /\ updates' = Tail(updates)
  /\ midFrame' = TRUE
  /\ UNCHANGED <<worldVars, serverVars, mutates, acks, buffered, held>>

\* apply_mutate_messages keeps the messages whose update tick is ahead.
IsReady(m) == m.updateTick <= clientTick

\* Mutant: the confirmed tick is not consulted.
NewestReady(e, ready) ==
  LET fits == {m \in ready : e \in m.entities}
  IN  {m \in fits : e \in mapped /\ \A n \in fits : n.tick <= m.tick}

\* The message apply_mutations writes to an entity: messages come newest first,
\* so once one is applied the others of the entity are outdated.  Mutations of
\* an entity the client does not have are ignored.
Newest(e, ready) ==
  LET fits == {m \in ready : e \in m.entities /\ m.tick > confirmed[e]}
  IN  {m \in fits : e \in mapped /\ \A n \in fits : n.tick <= m.tick}

ReceiveMutations(arrived) ==
  LET all   == buffered \cup arrived
      ready == {m \in all : IsReady(m)}
      wins(e)  == Newest(e, ready) # {}
      winner(e) == CHOOSE m \in Newest(e, ready) : TRUE
  IN  /\ midFrame \/ arrived # {}
      /\ mutates' = mutates \ arrived
      /\ acks' = IF arrived = {} THEN acks
                 ELSE Append(acks, {m.index : m \in arrived})
      /\ buffered' = all \ ready
      /\ confirmed' = [e \in Entities |->
                         IF wins(e) THEN winner(e).tick ELSE confirmed[e]]
      /\ value' = [e \in Entities |-> [c \in Components |->
                     IF wins(e) /\ winner(e).values[e][c] # 0
                     THEN winner(e).values[e][c] ELSE value[e][c]]]
      /\ midFrame' = FALSE
      /\ held' = held \cup UNION {m.entities : m \in arrived \ ready}
      /\ UNCHANGED <<worldVars, serverVars, updates, clientTick, mapped>>

Next ==
  \/ World
  \/ StartReplication
  \/ Tick
  \/ ReceiveAcks
  \/ \E tick \in Ticks : CleanupAcks(tick)
  \/ \E m \in mutates : Lose(m)
  \/ ApplyUpdateMessage
  \/ \E arrived \in SUBSET mutates : ReceiveMutations(arrived)

Spec == Init /\ [][Next]_vars

\* Both sides run their systems every frame, and what the channels do not drop
\* arrives: then a frame eventually receives everything that is in flight.
Fairness ==
  /\ WF_vars(Tick)
  /\ WF_vars(ReceiveAcks)
  /\ WF_vars(ApplyUpdateMessage)
  /\ WF_vars(ReceiveMutations(mutates))

FairSpec == Spec /\ Fairness

-----------------------------------------------------------------------------
(* Properties.                                                             *)

InFlight == mutates \cup buffered

\* The tick of an update message is newer than every tick the client has
\* confirmed for any entity: set_last_tick is never called with an older tick
\* (its debug_assert), although mutate messages, which raise the confirmed
\* ticks too, overtake update messages.
ConfirmsInOrder ==
  \A i \in DOMAIN updates : \A e \in Entities : confirmed[e] < updates[i].tick

\* A mutate message the client has to hold back waits for an update message
\* that was sent and not yet applied: send_messages never stamps a mutate
\* message with an update tick for which nothing is on its way.
AwaitedUpdateIsComing ==
  \A m \in InFlight :
    IsReady(m) \/ \E i \in DOMAIN updates : updates[i].tick = m.updateTick

\* A mutate message that gets applied only changes components the client has:
\* it neither inserts one that is still to come nor brings back a removed one,
\* however late it arrives (confirm_tick in apply_removals and apply_changes).
MutationsNeverInsert ==
  \A m \in InFlight : IsReady(m) =>
    \A e \in m.entities \cap mapped : m.tick > confirmed[e] =>
      \A c \in Components : m.values[e][c] # 0 => value[e][c] # 0

\* A component never goes back to older content, with mutate messages lost,
\* delayed and reordered (the outdated check of apply_mutations).
NeverBackwards ==
  [][\A e \in Entities : \A c \in Components :
       value[e][c] # 0 /\ value'[e][c] # 0 => value[e][c] <= value'[e][c]]_vars

\* What the server takes for delivered is delivered: a component that did not
\* change after the entity's mutation tick, which is why collect_changes will
\* not send it again, has its content on the client or in an update message.
\* Entities with a mutation acknowledged before it was applied are excepted.
AckedIsDelivered ==
  \A e \in Alive \ held : \A c \in has[e] :
    0 < at[e][c] /\ at[e][c] <= mutationTicks[e] =>
      \/ value[e][c] = at[e][c]
      \/ \E i \in DOMAIN updates : updates[i].values[e][c] = at[e][c]

\* An entity is updated as a whole ("to keep entity updates atomic",
\* server.rs): with tick t confirmed, the client has every component of the
\* entity as of t, including the removal of components.  The same exception,
\* and that of an entity whose lost visibility the whitelist did not record:
\* shown again, it is sent without the removals of the time it was hidden.
EntityIsAsConfirmed ==
  \A e \in (Alive \cap mapped) \ (held \cup flapped) : \A c \in Components :
    at[e][c] <= confirmed[e] =>
      value[e][c] = IF c \in has[e] THEN at[e][c] ELSE 0

\* What the client should have of an entity in the end.  An entity without
\* components that was there before the client is not sent (collect_changes
\* writes such an entity only when it is new), nor expected here.
IsConsistent(e) ==
  IF e \in Alive /\ IsVisible(filter, e)
  THEN /\ e \in mapped \/ (has[e] = {} /\ mutationTicks[e] = 0)
       /\ \A c \in Components : value[e][c] = IF c \in has[e] THEN at[e][c] ELSE 0
  ELSE e \notin mapped

\* The world on the client is eventually consistent with the server's
\* (lib.rs, "Eventual consistency"), except for an entity with a mutation that
\* was acknowledged before it was applied, and for one whose lost visibility
\* the whitelist did not record (ForgottenUnlessFlapped of ClientVisibility).
EventuallyConsistent ==
  \A e \in Entities : <>[](replicating /\ e \notin held \cup flapped => IsConsistent(e))

\* The same promise without the exception for acknowledged mutations.
AlwaysEventuallyConsistent ==
  \A e \in Entities : <>[](replicating /\ e \notin flapped => IsConsistent(e))
=============================================================================
