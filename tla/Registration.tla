------------------------------ MODULE Registration ------------------------------
(***************************************************************************)
(* What an app registers for replication while it is built, in any order:  *)
(* rules (AppRuleExt, core/replication/replication_rules.rs), markers and  *)
(* the functions that write components (AppMarkerExt,                      *)
(* core/replication/command_markers.rs), and where ReplicationRegistry     *)
(* keeps them (core/replication/replication_registry.rs and                *)
(* replication_registry/component_fns.rs).                                 *)
(*                                                                         *)
(* The lists are sorted by insertion and referred to by position: FnsIds,  *)
(* which client and server exchange, are positions in registry.rules, and  *)
(* the functions of a marker are kept in a slot at the position it has in  *)
(* CommandMarkers.                                                         *)
(*                                                                         *)
(* An operator marked "Mutant" is a version of the one that follows it,    *)
(* with a bug; it shows that a property of some run depends on the code.   *)
(***************************************************************************)
EXTENDS Rules

CONSTANTS
  Components,
  Groups,          \* sequences of components: the types given to replicate_group
  RulePriorities,  \* priorities of rules
  Markers,
  MarkerPriorities,
  NoFns,           \* an empty slot
  MaxRegistered    \* bound: rules and markers

ASSUME GroupsAssumption ==
  \A group \in Groups :
    /\ group \in Seq(Components) \ {<<>>}
    /\ \A i, j \in DOMAIN group : group[i] = group[j] => i = j
ASSUME NoFnsAssumption == NoFns \notin Markers
ASSUME PrioritiesAssumption == RulePriorities \subseteq Nat /\ MarkerPriorities \subseteq Nat
ASSUME BoundsAssumption == MaxRegistered \in Nat

VARIABLES
  rules,           \* ReplicationRules
  fns,             \* registry.rules: the position in `components` for each FnsId
  components,      \* registry.components
  markerSlots,     \* registry.marker_slots
  commandMarkers,  \* CommandMarkers
  \* History.
  serialized,      \* components given to register_rule_fns, in order
  given            \* <<marker, component>> given to set_marker_fns

vars == <<rules, fns, components, markerSlots, commandMarkers, serialized, given>>

\* UntypedCommandFns: those set for a marker are represented by the marker.
CommandFns == Markers \cup {"default", "custom"}

ComponentFns ==
  [component : Components, commands : {"default", "custom"},
   markers : Seq(Markers \cup {NoFns})]
CommandMarker == [marker : Markers, priority : MarkerPriorities, history : BOOLEAN]
ReplicationRule(group) ==
  [components : {ToSet(group)}, priority : RulePriorities,
   fns : [ToSet(group) -> DOMAIN fns]]

TypeOK ==
  /\ Len(rules) + Len(commandMarkers) <= MaxRegistered
  /\ \A i \in DOMAIN rules : \E group \in Groups : rules[i] \in ReplicationRule(group)
  /\ fns \in Seq(DOMAIN components)
  /\ components \in Seq(ComponentFns)
  /\ commandMarkers \in Seq(CommandMarker)
  /\ markerSlots = Len(commandMarkers)
  /\ \A i \in DOMAIN components : Len(components[i].markers) = markerSlots
  /\ serialized \in Seq(Components)
  /\ given \subseteq Markers \X Components

Init ==
  /\ rules = <<>>
  /\ fns = <<>>
  /\ components = <<>>
  /\ markerSlots = 0
  /\ commandMarkers = <<>>
  /\ serialized = <<>>
  /\ given = {}

-----------------------------------------------------------------------------
(* init_component_fns.                                                     *)

\* Mutant: no slots for the markers that are registered already.
NewFnsBare(c) == [component |-> c, commands |-> "default", markers |-> <<>>]

\* ComponentFns::new.
NewFns(c) ==
  [component |-> c, commands |-> "default",
   markers |-> [i \in 1..markerSlots |-> NoFns]]

\* The registry's components once it has one more.
WithComponent(list, c) ==
  IF \E k \in DOMAIN list : list[k].component = c THEN list ELSE Append(list, NewFns(c))

\* And once it has those of a sequence.
WithComponents(cs) ==
  LET list[n \in 0..Len(cs)] ==
        IF n = 0 THEN components ELSE WithComponent(list[n - 1], cs[n])
  IN  list[Len(cs)]

\* Mutant: a component is taken to be the last one.
LastIndex(list, c) == Len(list)

\* The position of a component in such a list.
ComponentIndex(list, c) == SelectInSeq(list, LAMBDA entry : entry.component = c)

-----------------------------------------------------------------------------
(* AppRuleExt.                                                             *)

\* replicate_with and replicate_group: register_rule_fns for every component
\* of the group, then ReplicationRules::insert.
RegisterRule(group, priority) ==
  /\ Len(rules) + Len(commandMarkers) < MaxRegistered
  /\ components' = WithComponents(group)
  /\ fns' = fns \o [i \in DOMAIN group |-> ComponentIndex(components', group[i])]
  /\ \E i \in InsertionPoints(rules, priority) :
       rules' = InsertAt(rules, i,
         [components |-> ToSet(group), priority |-> priority,
          fns |-> [c \in ToSet(group) |->
                     Len(fns) + SelectInSeq(group, LAMBDA g : g = c)]])
  /\ serialized' = serialized \o group
  /\ UNCHANGED <<markerSlots, commandMarkers, given>>

-----------------------------------------------------------------------------
(* AppMarkerExt.                                                           *)

\* Mutant: the slot is added behind the others.
SlotAppended(slots, i) == Append(slots, NoFns)

\* ComponentFns::add_marker_slot.
SlotAdded(slots, i) == InsertAt(slots, i, NoFns)

\* register_marker_with: CommandMarkers::insert, ReplicationRegistry::register_marker.
RegisterMarker(m, priority, history) ==
  /\ Len(rules) + Len(commandMarkers) < MaxRegistered
  /\ \A i \in DOMAIN commandMarkers : commandMarkers[i].marker # m
  /\ \E i \in InsertionPoints(commandMarkers, priority) :
       /\ commandMarkers' = InsertAt(commandMarkers, i,
            [marker |-> m, priority |-> priority, history |-> history])
       /\ components' = [k \in DOMAIN components |->
            [components[k] EXCEPT !.markers = SlotAdded(@, i)]]
  /\ markerSlots' = markerSlots + 1
  /\ UNCHANGED <<rules, fns, serialized, given>>

\* CommandMarkers::marker_id; 0, where the code panics, if m is not registered.
MarkerId(m) == SelectInSeq(commandMarkers, LAMBDA entry : entry.marker = m)

\* Functions for a marker may be set once.
SetMarkerFns(m, c) ==
  /\ MarkerId(m) # 0
  /\ <<m, c>> \notin given
  /\ LET list == WithComponent(components, c)
     IN  components' = [list EXCEPT ![ComponentIndex(list, c)].markers[MarkerId(m)] = m]
  /\ given' = given \cup {<<m, c>>}
  /\ UNCHANGED <<rules, fns, markerSlots, commandMarkers, serialized>>

SetCommandFns(c) ==
  /\ LET list == WithComponent(components, c)
     IN  components' = [list EXCEPT ![ComponentIndex(list, c)].commands = "custom"]
  /\ UNCHANGED <<rules, fns, markerSlots, commandMarkers, serialized, given>>

Next ==
  \/ \E group \in Groups, priority \in RulePriorities : RegisterRule(group, priority)
  \/ \E m \in Markers, priority \in MarkerPriorities, history \in BOOLEAN :
       RegisterMarker(m, priority, history)
  \/ \E m \in Markers, c \in Components : SetMarkerFns(m, c)
  \/ \E c \in Components : SetCommandFns(c)

Spec == Init /\ [][Next]_vars

-----------------------------------------------------------------------------
(* What the registered functions do for a client entity with some markers. *)

\* EntityMarkers::read.
IsPresent(i, present) == commandMarkers[i].marker \in present
NeedHistory(present) ==
  \E i \in DOMAIN commandMarkers : IsPresent(i, present) /\ commandMarkers[i].history

\* Slots whose marker is present and that have functions.
Candidates(entry, present) ==
  {i \in DOMAIN entry.markers : IsPresent(i, present) /\ entry.markers[i] # NoFns}
First(is) == CHOOSE i \in is : \A j \in is : i <= j

\* ComponentFns::write and ComponentFns::remove.
Writes(entry, present) ==
  LET found == Candidates(entry, present)
  IN  IF found = {} THEN entry.commands ELSE entry.markers[First(found)]

\* An outdated mutation: apply_mutations ignores it unless history is needed,
\* consume_or_write writes it only if the marker that writes needs history.
WritesOld(entry, present) ==
  LET found == Candidates(entry, present)
  IN  IF NeedHistory(present) /\ found # {} /\ commandMarkers[First(found)].history
      THEN {entry.markers[First(found)]} ELSE {}

-----------------------------------------------------------------------------
(* Properties.                                                             *)

\* FnsId n stands for the n-th component that rules were registered for.  So a
\* client and a server that register the same rules understand each other,
\* whatever markers and functions either of them registers in between ("If this
\* marker is present ... Present only on client").
FnsIdsAgree ==
  /\ Len(fns) = Len(serialized)
  /\ \A n \in DOMAIN fns : components[fns[n]].component = serialized[n]
  /\ \A i \in DOMAIN rules : \A c \in rules[i].components : serialized[rules[i].fns[c]] = c

\* A component of an archetype is replicated if some rule matches, with the
\* functions of a rule such that none with a higher priority matches ("functions
\* from a group with higher priority will take precedence"), whatever the order
\* of registration.
HighestRuleWins ==
  \A archetype \in SUBSET Components :
    LET covering(c) == {i \in DOMAIN rules :
                          Matches(rules[i], archetype) /\ c \in rules[i].components}
        chosen == ReplicatedArchetype(rules, archetype)
    IN  \A c \in Components :
          IF c \notin DOMAIN chosen THEN covering(c) = {}
          ELSE \E i \in covering(c) :
                 /\ chosen[c] = rules[i].fns
                 /\ \A j \in covering(c) : rules[j].priority <= rules[i].priority

\* The removals sent for an entity are those of components it replicated before
\* and has no more, with the same functions: the two loops over the rules
\* (ReplicatedArchetypes::update, RemovalBuffer::update) agree.
RemovalsUndoReplication ==
  \A archetype, removed \in SUBSET Components :
    LET before == ReplicatedArchetype(rules, archetype \cup removed)
        gone   == (DOMAIN before) \ archetype
    IN  RemovedIds(rules, archetype, removed) = [c \in gone |-> before[c]]

\* A component of an entity with some markers is written by functions that were
\* set for one of them and this component, such that no other has a higher
\* priority, and by the default ones only if none were set; although slots move
\* when markers are registered later.  Only these functions may get old values
\* too, and only if their marker asked for them (need_history).
HighestMarkerWrites ==
  \A i \in DOMAIN components, present \in SUBSET Markers :
    LET entry  == components[i]
        able   == {k \in DOMAIN commandMarkers :
                     /\ commandMarkers[k].marker \in present
                     /\ <<commandMarkers[k].marker, entry.component>> \in given}
    IN  IF able = {}
        THEN Writes(entry, present) = entry.commands /\ WritesOld(entry, present) = {}
        ELSE \E k \in able :
               /\ \A j \in able : commandMarkers[j].priority <= commandMarkers[k].priority
               /\ Writes(entry, present) = commandMarkers[k].marker
               /\ WritesOld(entry, present) =
                    {m \in {commandMarkers[k].marker} : commandMarkers[k].history}
=============================================================================
