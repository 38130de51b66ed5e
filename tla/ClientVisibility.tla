-------------------------- MODULE ClientVisibility --------------------------
(***************************************************************************)
(* What one client has been told of the server's entities when game code   *)
(* hides and shows them (ClientVisibility::set_visibility) between ticks.  *)
(*                                                                         *)
(* The module composes the visibility filter with the parts of             *)
(* send_replication that read it: collect_despawns, the choice that        *)
(* collect_changes makes between insertion and mutation, and the           *)
(* visibility update at the end of send_messages.  Update messages are     *)
(* reliable and ordered, so the client is represented by what it knows     *)
(* once it has applied them.  Every entity has a replicated component;     *)
(* module Replication has the components, the messages and the channels.   *)
(*                                                                         *)
(* An operator marked "Mutant" is a version of the one that follows it,    *)
(* with a bug; it shows that a property of some run depends on the code.   *)
(***************************************************************************)
EXTENDS Visibility, Naturals

CONSTANTS
  PoliciesUsed,  \* the visibility policies a server may be configured with
  MaxCalls       \* bound: calls of set_visibility per entity and tick

ASSUME PoliciesAssumption == PoliciesUsed \subseteq Policies
ASSUME MaxCallsAssumption == MaxCalls \in Nat

VARIABLES
  life,       \* per entity: "unborn", "alive" (has Replicated) or "dead"
  fresh,      \* entities whose Replicated marker was added since the last tick
  despawned,  \* DespawnBuffer
  filter,     \* ReplicatedClient::visibility
  tracked,    \* keys of ReplicatedClient::mutation_ticks
  known,      \* entities the client has after applying all update messages
  wanted,     \* entities game code last asked to show (before: the policy's default)
  calls,      \* calls of set_visibility since the last tick, to bound them
  flapped,    \* history: entities hidden by a call that Flaps is true of
  last        \* history: what the last step was, "edit" or "tick"

vars == <<life, fresh, despawned, filter, tracked, known, wanted, calls, flapped,
          last>>

Alive == {e \in Entities : life[e] = "alive"}

TypeOK ==
  /\ life \in [Entities -> {"unborn", "alive", "dead"}]
  /\ fresh \subseteq Entities
  /\ despawned \subseteq Entities
  /\ \E p \in PoliciesUsed : filter \in Filters(p)
  /\ tracked \subseteq Entities
  /\ known \subseteq Entities
  /\ wanted \subseteq Entities
  /\ calls \in [Entities -> 0..MaxCalls]
  /\ flapped \subseteq Entities
  /\ last \in {"edit", "tick"}

\* Entities may exist before replication to the client starts: they are alive
\* and not fresh.
Init ==
  /\ life \in [Entities -> {"unborn", "alive"}]
  /\ fresh = {}
  /\ despawned = {}
  /\ \E p \in PoliciesUsed : filter = NewFilter(p)
  /\ tracked = {}
  /\ known = {}
  /\ wanted = IF filter.policy = "Whitelist" THEN {} ELSE Entities
  /\ calls = [e \in Entities |-> 0]
  /\ flapped = {}
  /\ last = "edit"

-----------------------------------------------------------------------------
\* Game code, between two ticks.

Spawn(e) ==
  /\ life[e] = "unborn"
  /\ life' = [life EXCEPT ![e] = "alive"]
  /\ fresh' = fresh \cup {e}
  /\ last' = "edit"
  /\ UNCHANGED <<despawned, filter, tracked, known, wanted, calls, flapped>>

\* The removal of Replicated is buffered by buffer_despawns.
Despawn(e) ==
  /\ life[e] = "alive"
  /\ life' = [life EXCEPT ![e] = "dead"]
  /\ fresh' = fresh \ {e}
  /\ despawned' = despawned \cup {e}
  /\ last' = "edit"
  /\ UNCHANGED <<filter, tracked, known, wanted, calls, flapped>>

\* A whitelisted entity the client was sent is hidden by taking back an entry
\* of this tick: it was hidden and shown again since the last tick.
Flaps(e, visible) ==
  /\ filter.policy = "Whitelist"
  /\ ~visible
  /\ e \in filter.added
  /\ e \in tracked

CallSetVisibility(e, visible) ==
  /\ life[e] = "alive"
  /\ calls[e] < MaxCalls
  /\ filter' = SetVisibility(filter, e, visible)
  /\ wanted' = IF visible \/ filter.policy = "All"
               THEN wanted \cup {e} ELSE wanted \ {e}
  /\ calls' = [calls EXCEPT ![e] = @ + 1]
  /\ flapped' = IF Flaps(e, visible) THEN flapped \cup {e}
                ELSE IF visible THEN flapped \ {e} ELSE flapped
  /\ last' = "edit"
  /\ UNCHANGED <<life, fresh, despawned, tracked, known>>

-----------------------------------------------------------------------------
\* send_replication, as far as visibility goes.

\* collect_despawns: a buffered despawn is sent if the entity is visible, and
\* so is every entity that was lost in this tick.
Despawns ==
  {e \in despawned : IsVisible(filter, e)}
    \cup Lost(RemoveDespawned(filter, despawned))

\* The filter collect_changes reads.
Drained == DrainLost(RemoveDespawned(filter, despawned))

\* Mutant: losing visibility leaves the mutation tick.
StillTrackedWhenLost == tracked \ despawned

StillTracked == (tracked \ despawned) \ Lost(RemoveDespawned(filter, despawned))

\* Mutant: only what is new in this tick is written as a whole.
InsertedWhenNew ==
  {e \in Alive : /\ IsVisible(Drained, e)
                 /\ e \in fresh \/ State(Drained, e) = "Gained"}

\* collect_changes: entities written as a whole, because they are new for the
\* client or it has no mutation tick for them.
Inserted ==
  {e \in Alive : /\ IsVisible(Drained, e)
                 /\ \/ e \in fresh
                    \/ State(Drained, e) = "Gained"
                    \/ e \notin StillTracked}

Tick ==
  /\ known' = (known \ Despawns) \cup Inserted
  /\ tracked' = StillTracked \cup Inserted
  /\ filter' = EndOfTick(Drained)
  /\ fresh' = {}
  /\ despawned' = {}
  /\ calls' = [e \in Entities |-> 0]
  /\ last' = "tick"
  /\ UNCHANGED <<life, wanted, flapped>>

Next ==
  \/ \E e \in Entities :
       \/ Spawn(e)
       \/ Despawn(e)
       \/ \E visible \in BOOLEAN : CallSetVisibility(e, visible)
  \/ Tick

Spec == Init /\ [][Next]_vars

-----------------------------------------------------------------------------
(* Properties.                                                             *)

\* A tick leaves the client with every living entity that game code wants it
\* to see, whatever sequence of calls led there (collect_changes, "Gained").
ShownIsKnown == [][Tick => Alive \cap wanted \subseteq known']_vars

\* A tick never reveals an entity that game code has hidden from the client:
\* the filter an entity has when collect_changes runs agrees with the last
\* call, also when the entity was shown and hidden again since the last tick.
HiddenIsNotSent == [][known' \ known \subseteq wanted]_vars

\* Hiding and showing an entity within one tick is undone in the filter: the
\* client is never sent a despawn of an entity that it should keep seeing.
KeptIsNotDespawned ==
  [][Tick => Alive \cap wanted \cap Despawns = {}]_vars

\* The server has a mutation tick for a living entity exactly if the client
\* has the entity or will have it from the update messages on their way:
\* collect_changes sends no mutation of an entity the client does not know
\* ("all entities from mutate message should have confirmed ticks"), and no
\* insertion of one it knows already.
TrackedIsKnown == tracked \cap Alive = known \cap Alive

\* A tick takes every living entity that game code has hidden away from the
\* client (drain_lost: "Visibility of these entities has been lost"), but for
\* one that was whitelisted and sent, and then hidden, shown and hidden again
\* since the last tick: set_visibility leaves no trace of that.
ForgottenUnlessFlapped ==
  [][Tick => known' \cap Alive \subseteq wanted \cup flapped]_vars

\* A tick takes every despawned entity away from the client
\* (DespawnBuffer, collect_despawns).
DespawnedIsForgotten == [][Tick => known' \subseteq Alive]_vars

\* The despawns that do not reach the client are those of entities that the
\* server takes for hidden: blacklisted ones (remove_despawned drops them from
\* `added` before drain_lost reads it) and those of ForgottenUnlessFlapped.
GhostsWereHidden ==
  [][Tick => \A e \in known' \ Alive :
       /\ e \notin wanted
       /\ filter.policy = "Blacklist" \/ e \in flapped]_vars

\* What the client should have: the living entities that game code wants it to
\* see.  What the server does not answer for: the entities of
\* ForgottenUnlessFlapped and GhostsWereHidden.
Source == [e \in Entities |-> IF e \in Alive \cap wanted THEN "entity" ELSE "none"]
Copy == [e \in Entities |-> IF e \in known THEN "entity" ELSE "none"]
Excused ==
  {e \in Entities \ wanted :
     e \in flapped \/ (filter.policy = "Blacklist" /\ e \notin Alive)}

Abstract == INSTANCE Mirror WITH
  Keys <- Entities, Nothing <- [e \in Entities |-> "none"],
  source <- Source, copy <- Copy, excused <- Excused

\* The client's entities are a copy of the entities it should see, made at
\* every tick and at no other time, but for entities excused above.
MirrorsWanted == Abstract!Spec
=============================================================================
