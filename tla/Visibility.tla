----------------------------- MODULE Visibility -----------------------------
(***************************************************************************)
(* The visibility settings one client has on the server: ClientVisibility  *)
(* and its VisibilityFilter (core/replication/replicated_clients/          *)
(* client_visibility.rs).  A filter is a record:                           *)
(*                                                                         *)
(*   policy   which variant of VisibilityFilter this is;                   *)
(*   list     the entry an entity has in the map `list`, or "None";        *)
(*   added    entities put on the list since the last tick;                *)
(*   removed  entities taken from the list since the last tick.            *)
(*                                                                         *)
(* Every operation touches only the entity it is called with, which is why *)
(* the operators that the code applies in a loop over a drained buffer     *)
(* take the set of entities here.                                          *)
(*                                                                         *)
(* An operator marked "Mutant" is a version of the one that follows it,    *)
(* with a bug; it shows that a property of some run depends on the code.   *)
(***************************************************************************)
EXTENDS FiniteSets

CONSTANT Entities  \* server entities that may be replicated

Policies == {"All", "Blacklist", "Whitelist"}

\* BlacklistInfo is Hidden or QueuedForRemoval, WhitelistInfo is JustAdded or
\* Visible; "None" is the absence of an entry.
Entries(policy) ==
  CASE policy = "Blacklist" -> {"None", "Hidden", "QueuedForRemoval"}
    [] policy = "Whitelist" -> {"None", "JustAdded", "Visible"}
    [] policy = "All"       -> {"None"}

Filters(policy) ==
  [policy : {policy}, list : [Entities -> Entries(policy)],
   added : SUBSET Entities, removed : SUBSET Entities]

\* ClientVisibility::new, and what ClientVisibility::clear goes back to.
NewFilter(policy) ==
  [policy |-> policy, list |-> [e \in Entities |-> "None"],
   added |-> {}, removed |-> {}]

-----------------------------------------------------------------------------
\* ClientVisibility::state: Hidden, Gained (in this tick) or Visible.

State(v, e) ==
  CASE v.list[e] = "Hidden"                          -> "Hidden"
    [] v.list[e] \in {"QueuedForRemoval", "JustAdded"} -> "Gained"
    [] v.list[e] = "Visible"                         -> "Visible"
    [] v.list[e] = "None" ->
         IF v.policy = "Whitelist" THEN "Hidden" ELSE "Visible"

IsVisible(v, e) == State(v, e) # "Hidden"

-----------------------------------------------------------------------------
\* ClientVisibility::set_visibility, one operator per arm of its match.

SetList(v, e, entry) == [v EXCEPT !.list[e] = entry]

\* Blacklist, visible = true: an entry added in this tick is taken back, an
\* older one is queued and keeps its place until the end of the tick.
BlacklistShow(v, e) ==
  IF v.list[e] = "None" THEN v
  ELSE IF e \in v.added
       THEN [SetList(v, e, "None") EXCEPT !.added = @ \ {e}]
       ELSE [SetList(v, e, "QueuedForRemoval") EXCEPT !.removed = @ \cup {e}]

\* Blacklist, visible = false.
BlacklistHide(v, e) ==
  IF v.list[e] # "None"
  THEN [SetList(v, e, "Hidden") EXCEPT !.removed = @ \ {e}]
  ELSE [SetList(v, e, "Hidden") EXCEPT !.added = @ \cup {e}]

\* Whitelist, visible = true.
WhitelistShow(v, e) ==
  IF v.list[e] = "Visible"
  THEN [v EXCEPT !.removed = @ \ {e}]
  ELSE [SetList(v, e, "JustAdded") EXCEPT !.added   = @ \cup {e},
                                          !.removed = @ \ {e}]

\* Whitelist, visible = false: an entry added in this tick is taken back
\* without a trace, an older one is remembered as removed.
WhitelistHide(v, e) ==
  IF v.list[e] = "None" THEN v
  ELSE IF e \in v.added
       THEN [SetList(v, e, "None") EXCEPT !.added = @ \ {e}]
       ELSE [SetList(v, e, "None") EXCEPT !.removed = @ \cup {e}]

SetVisibility(v, e, visible) ==
  CASE v.policy = "Blacklist" /\ visible  -> BlacklistShow(v, e)
    [] v.policy = "Blacklist" /\ ~visible -> BlacklistHide(v, e)
    [] v.policy = "Whitelist" /\ visible  -> WhitelistShow(v, e)
    [] v.policy = "Whitelist" /\ ~visible -> WhitelistHide(v, e)
    [] v.policy = "All"                   -> v

-----------------------------------------------------------------------------
\* ClientVisibility::remove_despawned for every entity of the set gone: the
\* two sets are touched only when the entity had an entry.
RemoveDespawned(v, gone) ==
  LET listed == {e \in gone : v.list[e] # "None"}
  IN  [v EXCEPT !.list    = [e \in Entities |->
                               IF e \in gone THEN "None" ELSE v.list[e]],
                !.added   = @ \ listed,
                !.removed = @ \ listed]

\* ClientVisibility::drain_lost: what it yields, and the filter it leaves.
Lost(v) ==
  CASE v.policy = "Blacklist" -> v.added
    [] v.policy = "Whitelist" -> v.removed
    [] v.policy = "All"       -> {}

DrainLost(v) ==
  CASE v.policy = "Blacklist" -> [v EXCEPT !.added = {}]
    [] v.policy = "Whitelist" -> [v EXCEPT !.removed = {}]
    [] v.policy = "All"       -> v

\* Mutant: both lists mark the entities that became visible.
EndOfTickMarks(v) ==
  [v EXCEPT !.list = [e \in Entities |->
                        IF \/ v.policy = "Whitelist" /\ e \in v.added
                           \/ v.policy = "Blacklist" /\ e \in v.removed
                        THEN "Visible" ELSE v.list[e]],
            !.added = {}, !.removed = {}]

\* ClientVisibility::update, called at the end of send_messages.
EndOfTick(v) ==
  CASE v.policy = "Blacklist" ->
         [v EXCEPT !.list = [e \in Entities |->
                               IF e \in v.removed THEN "None" ELSE v.list[e]],
                   !.added = {}, !.removed = {}]
    [] v.policy = "Whitelist" ->
         [v EXCEPT !.list = [e \in Entities |->
                               IF e \in v.added THEN "Visible" ELSE v.list[e]],
                   !.added = {}, !.removed = {}]
    [] v.policy = "All" -> v
=============================================================================
