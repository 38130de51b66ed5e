--------------------------------- MODULE Rules ---------------------------------
(***************************************************************************)
(* Replication rules (core/replication/replication_rules.rs) and what the  *)
(* server reads from them: the components of an archetype that are         *)
(* replicated (server/replicated_archetypes.rs) and the removals that are  *)
(* sent (server/removal_buffer.rs).                                        *)
(*                                                                         *)
(* A rule is a record with `components`, a set; `fns`, its functions (the  *)
(* FnsIds the code keeps for each component); and `priority`.  An          *)
(* archetype is the set of its components.                                 *)
(*                                                                         *)
(* An operator marked "Mutant" is a version of the one that follows it,    *)
(* with a bug; it shows that a property of some run depends on the code.   *)
(***************************************************************************)
EXTENDS Naturals, Sequences, SequencesExt

\* Mutant: ascending order.
AscendingPoints(list, priority) ==
  {i \in 1..(Len(list) + 1) :
     /\ \A j \in 1..(i - 1) : list[j].priority <= priority
     /\ \A j \in i..Len(list) : list[j].priority >= priority}

\* Where ReplicationRules::insert and CommandMarkers::insert may put a new
\* element into a list in descending order of priority: binary_search finds any
\* element of the same priority, if there is one.
InsertionPoints(list, priority) ==
  LET equal == {i \in DOMAIN list : list[i].priority = priority}
  IN  IF equal # {} THEN equal
      ELSE {i \in 1..(Len(list) + 1) :
              /\ \A j \in 1..(i - 1) : list[j].priority > priority
              /\ \A j \in i..Len(list) : list[j].priority < priority}

\* ReplicationRule::matches.
Matches(rule, archetype) == rule.components \subseteq archetype

\* ReplicationRule::matches_removals.
MatchesRemovals(rule, archetype, removed) ==
  /\ rule.components \subseteq archetype \cup removed
  /\ rule.components \cap removed # {}

\* The functions of the first rule of a list that covers a component.
FirstFns(rules, Covers(_)) == rules[SelectInSeq(rules, Covers)].fns

\* Components that some matching rule replicates.
Replicated(rules, archetype) ==
  UNION {rules[i].components : i \in {j \in DOMAIN rules : Matches(rules[j], archetype)}}

\* ReplicatedArchetypes::update, for one archetype: its replicated components,
\* with the functions that serialize each.
ReplicatedArchetype(rules, archetype) ==
  [c \in Replicated(rules, archetype) |->
     FirstFns(rules, LAMBDA r : Matches(r, archetype) /\ c \in r.components)]

\* Mutant: what was inserted again since counts as removed.
RemovedAtAll(rules, archetype, removed) ==
  (UNION {rules[i].components : i \in
    {j \in DOMAIN rules : MatchesRemovals(rules[j], archetype, removed)}}) \cap removed

\* Components whose removal is buffered.
Removed(rules, archetype, removed) ==
  (UNION {rules[i].components : i \in
    {j \in DOMAIN rules : MatchesRemovals(rules[j], archetype, removed)}}) \ archetype

\* RemovalBuffer::update: the removals of an entity, with their functions.
RemovedIds(rules, archetype, removed) ==
  [c \in Removed(rules, archetype, removed) |->
     FirstFns(rules, LAMBDA r : MatchesRemovals(r, archetype, removed)
                                /\ c \in r.components)]
=============================================================================
