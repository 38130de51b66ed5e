------------------------------ MODULE TickBuffers ------------------------------
(***************************************************************************)
(* What one client has of the server's world when a tick spans several     *)
(* frames (TickPolicy::MaxTickRate or Manual) and rules may cover several  *)
(* components (replicate_group).                                           *)
(*                                                                         *)
(* In every frame the server moves removals to DespawnBuffer and           *)
(* RemovalBuffer (server/despawn_buffer.rs, server/removal_buffer.rs); in  *)
(* a frame with a tick send_replication drains them and collects what was  *)
(* inserted and mutated in all the frames since the last tick.  Update     *)
(* messages are reliable, and a mutation is sent until it arrives, so the  *)
(* client is represented by what it has once it has received everything.   *)
(* Every entity is visible (VisibilityPolicy::All).  Messages, losses and  *)
(* visibility are in modules Replication and ClientVisibility.             *)
(*                                                                         *)
(* An operator marked "Mutant" is a version of the one that follows it,    *)
(* with a bug; it shows that a property of some run depends on the code.   *)
(***************************************************************************)
EXTENDS Rules

CONSTANTS
  Entities,
  Components,
  Marker,     \* stands for the component Replicated
  Values,     \* contents of a component
  Absent,     \* the content of a component that an entity does not have
  RuleLists   \* ReplicationRules an app may have

ASSUME MarkerAssumption == Marker \notin Components
ASSUME AbsentAssumption == Absent \notin Values
ASSUME RulesAssumption ==
  \A rules \in RuleLists : \A i \in DOMAIN rules :
    rules[i].components \in (SUBSET Components) \ {{}}

VARIABLES
  rules,           \* ReplicationRules
  \* The world, and what Bevy records of its changes.
  alive,           \* entities that exist
  marked,          \* entities with Replicated
  world,           \* per entity and component: its content
  markerAdded,     \* Replicated inserted since the last tick
  added,           \* components inserted since the last tick
  changed,         \* components changed since the entity's mutation tick
  removedMarkers,  \* RemovedComponents<Replicated> not read yet
  removed,         \* RemovedComponentEvents not read yet
  \* The server.
  despawnBuffer,   \* DespawnBuffer
  removalBuffer,   \* RemovalBuffer, {} for an entity without an entry
  tracked,         \* keys of ReplicatedClient::mutation_ticks
  \* The client.
  known,           \* keys of ServerEntityMap
  view,            \* per entity and component: the content the client has
  \* History: the last step, "edit" or "tick", and what ticks failed to tell.
  last,
  kept,            \* removals that did not get into a message
  served,          \* components that a rule replicated at the last tick
  late,            \* components a rule began to replicate without sending them
  ghosts           \* entities that came back with a removal

worldVars   == <<alive, marked, world, markerAdded, added, changed>>
eventVars   == <<removedMarkers, removed>>
serverVars  == <<despawnBuffer, removalBuffer, tracked>>
clientVars  == <<known, view>>
missed      == <<kept, served, late, ghosts>>
historyVars == <<last, missed>>
vars == <<rules, worldVars, eventVars, serverVars, clientVars, historyVars>>

Pairs == Entities \X Components
Contents == [Entities -> [Components -> Values \cup {Absent}]]
Empty == [c \in Components |-> Absent]

TypeOK ==
  /\ rules \in RuleLists
  /\ alive \subseteq Entities
  /\ marked \subseteq alive
  /\ world \in Contents
  /\ markerAdded \subseteq marked
  /\ added \subseteq changed
  /\ changed \subseteq {p \in Pairs : world[p[1]][p[2]] # Absent}
  /\ removedMarkers \subseteq Entities
  /\ removed \subseteq Pairs
  /\ despawnBuffer \subseteq Entities
  /\ removalBuffer \in [Entities -> SUBSET Components]
  /\ tracked \subseteq Entities
  /\ known \subseteq Entities
  /\ view \in Contents
  /\ last \in {"edit", "tick"}
  /\ kept \subseteq Pairs
  /\ served \subseteq Pairs
  /\ late \subseteq Pairs
  /\ ghosts \subseteq Entities

Init ==
  /\ rules \in RuleLists
  /\ alive = Entities
  /\ marked = {}
  /\ world = [e \in Entities |-> Empty]
  /\ markerAdded = {}
  /\ added = {}
  /\ changed = {}
  /\ removedMarkers = {}
  /\ removed = {}
  /\ despawnBuffer = {}
  /\ removalBuffer = [e \in Entities |-> {}]
  /\ tracked = {}
  /\ known = {}
  /\ view = [e \in Entities |-> Empty]
  /\ last = "edit"
  /\ kept = {}
  /\ served = {}
  /\ late = {}
  /\ ghosts = {}

Archetype(e) == {c \in Components : world[e][c] # Absent}

\* Mutant: all of them.
AllOf(pairs, e) == pairs

\* The part of a set of pairs that is not about an entity.
Others(pairs, e) == {p \in pairs : p[1] # e}

-----------------------------------------------------------------------------
(* Game code, within a frame.                                              *)

\* Replicated is inserted.
Mark(e) ==
  /\ e \in alive \ marked
  /\ marked' = marked \cup {e}
  /\ markerAdded' = markerAdded \cup {e}
  /\ last' = "edit"
  /\ UNCHANGED <<rules, alive, world, added, changed, eventVars, serverVars,
                 clientVars, missed>>

Unmark(e) ==
  /\ e \in marked
  /\ marked' = marked \ {e}
  /\ markerAdded' = markerAdded \ {e}
  /\ removedMarkers' = removedMarkers \cup {e}
  /\ last' = "edit"
  /\ UNCHANGED <<rules, alive, world, added, changed, removed, serverVars,
                 clientVars, missed>>

\* Removal events of an entity that is gone are not read (RemovalReader::read).
Despawn(e) ==
  /\ e \in alive
  /\ alive' = alive \ {e}
  /\ marked' = marked \ {e}
  /\ world' = [world EXCEPT ![e] = Empty]
  /\ markerAdded' = markerAdded \ {e}
  /\ added' = Others(added, e)
  /\ changed' = Others(changed, e)
  /\ removedMarkers' = IF e \in marked THEN removedMarkers \cup {e} ELSE removedMarkers
  /\ removed' = Others(removed, e)
  /\ last' = "edit"
  /\ UNCHANGED <<rules, serverVars, clientVars, missed>>

\* A component is inserted, or given another content.
PutComponent(e, c, v) ==
  /\ e \in alive
  /\ world[e][c] # v
  /\ world' = [world EXCEPT ![e][c] = v]
  /\ added' = IF world[e][c] = Absent THEN added \cup {<<e, c>>} ELSE added
  /\ changed' = changed \cup {<<e, c>>}
  /\ last' = "edit"
  /\ UNCHANGED <<rules, alive, marked, markerAdded, eventVars, serverVars,
                 clientVars, missed>>

RemoveComponent(e, c) ==
  /\ e \in alive
  /\ world[e][c] # Absent
  /\ world' = [world EXCEPT ![e][c] = Absent]
  /\ added' = added \ {<<e, c>>}
  /\ changed' = changed \ {<<e, c>>}
  /\ removed' = removed \cup {<<e, c>>}
  /\ last' = "edit"
  /\ UNCHANGED <<rules, alive, marked, markerAdded, removedMarkers, serverVars,
                 clientVars, missed>>

-----------------------------------------------------------------------------
(* PostUpdate: buffer_despawns and buffer_removals, in every frame.        *)

DespawnsBuffered == despawnBuffer \cup removedMarkers

\* RemovalReader::read: components removed from an entity since the last frame.
RemovedFrom(e) == {c \in Components : <<e, c>> \in removed}
RemovalsOf(e) ==
  IF e \in marked THEN Removed(rules, Archetype(e), RemovedFrom(e)) ELSE {}

\* RemovalBuffer::update replaces the removals of earlier frames.
RemovalsBuffered ==
  [e \in Entities |-> IF RemovalsOf(e) # {} THEN RemovalsOf(e) ELSE removalBuffer[e]]

\* History.  A removal is not told if no rule covers it (the rest of its group
\* was not there any more: "replication for them will be stopped"), or if one
\* of a later frame replaces it.
Untold ==
  {p \in removed : p[1] \in marked /\ p[2] \notin Archetype(p[1]) \cup RemovalsOf(p[1])}
Replaced ==
  {p \in Pairs : p[2] \in removalBuffer[p[1]] \ (RemovalsBuffered[p[1]] \cup Archetype(p[1]))}
KeptBuffered == {p \in kept : world[p[1]][p[2]] = Absent} \cup Untold \cup Replaced

\* A frame without a tick.
Frame ==
  /\ removedMarkers \cup removed # {}
  /\ despawnBuffer' = DespawnsBuffered
  /\ removalBuffer' = RemovalsBuffered
  /\ kept' = KeptBuffered
  /\ removedMarkers' = {}
  /\ removed' = {}
  /\ last' = "edit"
  /\ UNCHANGED <<rules, worldVars, tracked, clientVars, served, late, ghosts>>

-----------------------------------------------------------------------------
(* send_replication, in a frame with a tick.                               *)

\* collect_despawns: ReplicatedClient::remove_despawned.
TrackedAlive == tracked \ DespawnsBuffered

\* collect_removals: every buffered removal is sent.
Removals == {p \in Pairs : p[2] \in RemovalsBuffered[p[1]]}

\* collect_changes: what the rules replicate now.
Matched ==
  {p \in Pairs : p[1] \in marked /\ p[2] \in Replicated(rules, Archetype(p[1]))}

\* Components written as insertions.
Inserted ==
  {p \in Matched : \/ p[1] \notin TrackedAlive
                   \/ p[1] \in markerAdded
                   \/ p \in added}

\* Components written as mutations.
Mutated == {p \in Matched \ Inserted : p \in changed}

Written == Inserted \cup Mutated

\* Entities written although they have no component to write.
NewEntities == markerAdded

EntitiesOf(pairs) == {p[1] : p \in pairs}

\* Entities with something in the update message get a new mutation tick.
\* Mutations go to the update message of their entity, or to a mutate message,
\* which sets the mutation tick when it is acknowledged.
Ticked == NewEntities \cup EntitiesOf(Inserted) \cup
          {e \in marked : RemovalsBuffered[e] # {}}

\* Mutant: the client removes after it has inserted.
ViewRemovedLast(e, c) ==
  IF <<e, c>> \in Removals THEN Absent
  ELSE IF <<e, c>> \in Written THEN world[e][c]
  ELSE IF e \in DespawnsBuffered THEN Absent
  ELSE view[e][c]

\* apply_update_message: despawns, then removals, then changes.
ViewAfter(e, c) ==
  IF <<e, c>> \in Written THEN world[e][c]
  ELSE IF <<e, c>> \in Removals \/ e \in DespawnsBuffered THEN Absent
  ELSE view[e][c]

\* Removals and changes of an entity that is not mapped spawn it
\* (get_by_server_or_insert).
KnownAfter ==
  (known \ DespawnsBuffered) \cup EntitiesOf(Removals) \cup
    EntitiesOf(Written) \cup NewEntities

Tick ==
  /\ known' = KnownAfter
  /\ view' = [e \in Entities |-> [c \in Components |-> ViewAfter(e, c)]]
  /\ tracked' = TrackedAlive \cup Ticked
  /\ changed' = {p \in changed : p[1] \notin Ticked \cup EntitiesOf(Mutated)}
  /\ markerAdded' = {}
  /\ added' = {}
  /\ despawnBuffer' = {}
  /\ removalBuffer' = [e \in Entities |-> {}]
  /\ removedMarkers' = {}
  /\ removed' = {}
  /\ kept' = {p \in KeptBuffered \ Removals : p[1] \notin DespawnsBuffered}
  /\ served' = Matched
  /\ late' = {p \in Matched \ Written : p \notin served \/ p \in late}
  /\ ghosts' = ((ghosts \ DespawnsBuffered) \cup EntitiesOf(Removals)) \ marked
  /\ last' = "tick"
  /\ UNCHANGED <<rules, alive, marked, world>>

Next ==
  \/ \E e \in Entities :
       \/ Mark(e)
       \/ Unmark(e)
       \/ Despawn(e)
       \/ \E c \in Components, v \in Values : PutComponent(e, c, v)
       \/ \E c \in Components : RemoveComponent(e, c)
  \/ Frame
  \/ Tick

Spec == Init /\ [][Next]_vars

-----------------------------------------------------------------------------
(* Properties.                                                             *)

Keys == Entities \X (Components \cup {Marker})

\* What the client should have: entities with Replicated, and of those what
\* the rules replicate.
Source ==
  [k \in Keys |-> IF k[2] = Marker THEN k[1] \in marked
                  ELSE IF k \in Matched THEN world[k[1]][k[2]] ELSE Absent]
Copy ==
  [k \in Keys |-> IF k[2] = Marker THEN k[1] \in known ELSE view[k[1]][k[2]]]

\* Components of a replicated entity that no rule covers, because the rest of
\* their group is missing: "replication for them will be stopped".
Stopped ==
  {p \in Pairs : p[1] \in marked /\ p[2] \in Archetype(p[1]) /\ p \notin Matched}

Excused == Stopped \cup kept \cup late \cup {<<e, Marker>> : e \in ghosts}

Abstract == INSTANCE Mirror WITH
  Nothing <- [k \in Keys |-> IF k[2] = Marker THEN FALSE ELSE Absent],
  source <- Source, copy <- Copy, excused <- Excused

\* After a tick the client has what the rules replicate, however the changes
\* since the last tick are spread over frames ("Used to avoid missing events"),
\* and however an entity and its components came, went and came back.  The
\* exceptions: components of an incomplete group (Stopped), removals that were
\* not told (kept), components a rule only began to replicate because others
\* were inserted (late), and entities that were despawned in a later frame than
\* one in which they lost a component (ghosts).
MirrorsWorld == Abstract!Spec
=============================================================================
