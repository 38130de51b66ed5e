----------------------- MODULE ClientVisibilityProofs -----------------------
(***************************************************************************)
(* Proofs about ClientVisibility.  The inductive invariant relates the     *)
(* filter of an entity to what game code last asked for and to what the    *)
(* client knows; every property of the module follows from it.             *)
(***************************************************************************)
EXTENDS ClientVisibility, TLAPS

-----------------------------------------------------------------------------
(* The operators of Visibility.                                            *)

\* Hiding or showing an entity keeps the filter's type.
LEMMA SetVisibilityTyped ==
  ASSUME NEW p \in Policies, NEW v \in Filters(p), NEW e \in Entities,
         NEW visible \in BOOLEAN
  PROVE  SetVisibility(v, e, visible) \in Filters(p)
<1>1. CASE p = "Blacklist"
  BY <1>1 DEF Filters, Entries, SetVisibility, SetList, BlacklistShow, BlacklistHide
<1>2. CASE p = "Whitelist"
  BY <1>2 DEF Filters, Entries, SetVisibility, SetList, WhitelistShow, WhitelistHide
<1>3. CASE p = "All"
  BY <1>3 DEF Filters, Entries, SetVisibility
<1> QED BY <1>1, <1>2, <1>3 DEF Policies

\* What set_visibility makes of the entity's entry and the two sets.
LEMMA SetVisibilityEntry ==
  ASSUME NEW p \in Policies, NEW v \in Filters(p), NEW e \in Entities,
         NEW visible \in BOOLEAN
  PROVE  LET w == SetVisibility(v, e, visible)
         IN  /\ w.policy = p
             /\ \A f \in Entities \ {e} :
                  /\ w.list[f] = v.list[f]
                  /\ f \in w.added <=> f \in v.added
                  /\ f \in w.removed <=> f \in v.removed
<1>1. CASE p = "Blacklist"
  BY <1>1 DEF Filters, Entries, SetVisibility, SetList, BlacklistShow, BlacklistHide
<1>2. CASE p = "Whitelist"
  BY <1>2 DEF Filters, Entries, SetVisibility, SetList, WhitelistShow, WhitelistHide
<1>3. CASE p = "All"
  BY <1>3 DEF Filters, Entries, SetVisibility
<1> QED BY <1>1, <1>2, <1>3 DEF Policies

\* The end of a tick keeps the type, and what it leaves of each entry.
LEMMA EndOfTickTyped ==
  ASSUME NEW p \in Policies, NEW v \in Filters(p)
  PROVE  /\ EndOfTick(v) \in Filters(p)
         /\ p = "Blacklist" =>
              /\ EndOfTick(v).added = {} /\ EndOfTick(v).removed = {}
              /\ EndOfTick(v).list = [e \in Entities |->
                   IF e \in v.removed THEN "None" ELSE v.list[e]]
         /\ p = "Whitelist" =>
              /\ EndOfTick(v).added = {} /\ EndOfTick(v).removed = {}
              /\ EndOfTick(v).list = [e \in Entities |->
                   IF e \in v.added THEN "Visible" ELSE v.list[e]]
<1>1. CASE p = "Blacklist"  BY <1>1 DEF Filters, Entries, EndOfTick
<1>2. CASE p = "Whitelist"  BY <1>2 DEF Filters, Entries, EndOfTick
<1>3. CASE p = "All"        BY <1>3 DEF Filters, Entries, EndOfTick
<1> QED BY <1>1, <1>2, <1>3 DEF Policies

-----------------------------------------------------------------------------
(* The invariant.                                                          *)

\* Entities whose filter entry still means something: not dead, or dead with
\* the despawn still to be sent.
Current == {e \in Entities : life[e] # "dead" \/ e \in despawned}

\* The blacklist hides what is unwanted; `added` and `removed` tell entries of
\* this tick from older ones, and the client has none of the older ones.
BlacklistInv(e) ==
  /\ e \in wanted <=> filter.list[e] # "Hidden"
  /\ e \in filter.added => filter.list[e] = "Hidden"
  /\ e \in filter.removed <=> filter.list[e] = "QueuedForRemoval"
  /\ e \in known => filter.list[e] = "None" \/ e \in filter.added

\* The whitelist has what is wanted; a hidden entity the client has is in
\* `removed`, or flapped.
WhitelistInv(e) ==
  /\ e \in wanted <=> filter.list[e] # "None"
  /\ e \in filter.added <=> filter.list[e] = "JustAdded"
  /\ e \in filter.removed => filter.list[e] = "None"
  /\ e \in known /\ filter.list[e] = "None" => e \in filter.removed \/ e \in flapped

\* The filter of either policy, entity by entity.
FilterInv ==
  \A e \in Current :
    /\ filter.policy = "Blacklist" => BlacklistInv(e)
    /\ filter.policy = "Whitelist" => WhitelistInv(e)
    /\ filter.policy = "All" => e \in wanted

\* Bookkeeping of lives and buffers.
LifeInv ==
  /\ fresh \subseteq Alive
  /\ \A e \in despawned : life[e] = "dead"
  /\ \A e \in Entities : life[e] = "unborn" => e \notin tracked /\ e \notin known

\* What GhostsWereHidden says, of the entities whose despawn was processed.
GhostInv ==
  \A e \in known \ Current :
    e \notin wanted /\ (filter.policy = "Blacklist" \/ e \in flapped)

\* The inductive invariant.
IInv == TypeOK /\ LifeInv /\ TrackedIsKnown /\ FilterInv /\ GhostInv

-----------------------------------------------------------------------------
(* Facts about the filter.                                                 *)

\* A filter is a record of its policy's shape.
LEMMA FilterIsTyped ==
  ASSUME TypeOK
  PROVE  /\ filter.policy \in PoliciesUsed
         /\ filter.policy \in Policies
         /\ filter \in Filters(filter.policy)
         /\ filter = [policy |-> filter.policy, list |-> filter.list,
                      added |-> filter.added, removed |-> filter.removed]
         /\ filter.list \in [Entities -> Entries(filter.policy)]
         /\ filter.added \subseteq Entities
         /\ filter.removed \subseteq Entities
BY PoliciesAssumption DEF TypeOK, Filters

\* The filter a tick works on, for each policy, in terms of the one before.
LEMMA DrainedBlacklist ==
  ASSUME TypeOK, filter.policy = "Blacklist"
  PROVE  /\ Drained.policy = "Blacklist"
         /\ Drained \in Filters("Blacklist")
         /\ Drained.list = [e \in Entities |->
              IF e \in despawned THEN "None" ELSE filter.list[e]]
         /\ Drained.removed =
              filter.removed \ {e \in despawned : filter.list[e] # "None"}
         /\ Lost(RemoveDespawned(filter, despawned)) =
              filter.added \ {e \in despawned : filter.list[e] # "None"}
BY FilterIsTyped DEF Drained, DrainLost, RemoveDespawned, Lost, Filters, Entries, TypeOK

\* Whitelist: a despawned entity loses its entry, what was removed is lost.
LEMMA DrainedWhitelist ==
  ASSUME TypeOK, filter.policy = "Whitelist"
  PROVE  /\ Drained.policy = "Whitelist"
         /\ Drained \in Filters("Whitelist")
         /\ Drained.list = [e \in Entities |->
              IF e \in despawned THEN "None" ELSE filter.list[e]]
         /\ Drained.added =
              filter.added \ {e \in despawned : filter.list[e] # "None"}
         /\ Lost(RemoveDespawned(filter, despawned)) =
              filter.removed \ {e \in despawned : filter.list[e] # "None"}
BY FilterIsTyped DEF Drained, DrainLost, RemoveDespawned, Lost, Filters, Entries, TypeOK

\* All: nothing is listed and nothing is ever lost.
LEMMA DrainedAll ==
  ASSUME TypeOK, filter.policy = "All"
  PROVE  /\ Drained.policy = "All"
         /\ Drained \in Filters("All")
         /\ Drained.list = [e \in Entities |-> "None"]
         /\ Lost(RemoveDespawned(filter, despawned)) = {}
BY FilterIsTyped DEF Drained, DrainLost, RemoveDespawned, Lost, Filters, Entries, TypeOK

-----------------------------------------------------------------------------
(* The inductive invariant.                                                *)

\* A client starts with a new filter and knows nothing (ClientVisibility::new).
LEMMA InitIInv == Init => IInv
<1> SUFFICES ASSUME Init PROVE IInv
  OBVIOUS
<1>1. PICK p \in PoliciesUsed : filter = NewFilter(p)
  BY DEF Init
<1>2. filter \in Filters(p)
  BY <1>1, PoliciesAssumption DEF NewFilter, Filters, Entries, Policies
<1>3. TypeOK
  BY <1>1, <1>2, MaxCallsAssumption DEF Init, TypeOK
<1>4. LifeInv /\ TrackedIsKnown /\ GhostInv
  BY DEF Init, LifeInv, TrackedIsKnown, GhostInv, Alive
<1>5. FilterInv
  BY <1>1, PoliciesAssumption
  DEF Init, FilterInv, BlacklistInv, WhitelistInv, NewFilter, Policies, Current
<1> QED BY <1>3, <1>4, <1>5 DEF IInv

\* A new entity has no entry and no mutation tick yet.
LEMMA SpawnIInv ==
  ASSUME IInv, NEW e \in Entities, Spawn(e)
  PROVE  IInv'
<1>1. TypeOK'
  BY DEF IInv, TypeOK, Spawn
<1>2. LifeInv' /\ TrackedIsKnown' /\ GhostInv'
  BY DEF IInv, TypeOK, LifeInv, TrackedIsKnown, GhostInv, Alive, Current, Spawn
<1>3. FilterInv'
  BY DEF IInv, TypeOK, FilterInv, BlacklistInv, WhitelistInv, Current, Spawn
<1> QED BY <1>1, <1>2, <1>3 DEF IInv

\* A despawned entity stays current until the tick that drains the buffer.
LEMMA DespawnIInv ==
  ASSUME IInv, NEW e \in Entities, Despawn(e)
  PROVE  IInv'
<1>1. TypeOK'
  BY DEF IInv, TypeOK, Despawn
<1>2. LifeInv' /\ TrackedIsKnown' /\ GhostInv'
  BY DEF IInv, TypeOK, LifeInv, TrackedIsKnown, GhostInv, Alive, Current, Despawn
<1>3. FilterInv'
  BY DEF IInv, TypeOK, FilterInv, BlacklistInv, WhitelistInv, Current, Despawn
<1> QED BY <1>1, <1>2, <1>3 DEF IInv

\* set_visibility keeps the invariant: the other entities keep their entries, and
\* the entity's own moves between the cases of BlacklistInv or WhitelistInv.
LEMMA CallSetVisibilityIInv ==
  ASSUME IInv, NEW e \in Entities, NEW visible \in BOOLEAN,
         CallSetVisibility(e, visible)
  PROVE  IInv'
<1> DEFINE p == filter.policy
<1> USE DEF IInv, CallSetVisibility
<1>1. p \in PoliciesUsed /\ p \in Policies /\ filter \in Filters(p) /\ TypeOK
  BY FilterIsTyped
<1>2. filter' \in Filters(p) /\ filter'.policy = p
  BY <1>1, SetVisibilityTyped, SetVisibilityEntry
<1>3. TypeOK'
  BY <1>1, <1>2, MaxCallsAssumption DEF TypeOK
<1>4. LifeInv' /\ TrackedIsKnown'
  BY DEF LifeInv, TrackedIsKnown, Alive
<1>5. GhostInv'
  BY <1>2 DEF GhostInv, Current, TypeOK
<1>6. ASSUME NEW f \in Current', f # e
      PROVE  /\ p = "Blacklist" => BlacklistInv(f)'
             /\ p = "Whitelist" => WhitelistInv(f)'
             /\ p = "All" => f \in wanted'
  <2>1. /\ f \in Current
        /\ f \in Entities \ {e}
        /\ f \in wanted' <=> f \in wanted
        /\ f \in flapped' <=> f \in flapped
    BY <1>1, <1>6 DEF Current, TypeOK
  <2>2. /\ filter'.list[f] = filter.list[f]
        /\ f \in filter'.added <=> f \in filter.added
        /\ f \in filter'.removed <=> f \in filter.removed
    BY <1>1, <2>1, SetVisibilityEntry
  <2> QED BY <2>1, <2>2 DEF FilterInv, BlacklistInv, WhitelistInv
<1>7. /\ p = "Blacklist" => BlacklistInv(e)'
      /\ p = "Whitelist" => WhitelistInv(e)'
      /\ p = "All" => e \in wanted'
  <2>1. /\ e \in Current
        /\ e \in tracked <=> e \in known
        /\ e \in wanted' <=> visible \/ p = "All"
    BY <1>1 DEF Current, TrackedIsKnown, Alive, TypeOK
  <2>2. CASE p = "Blacklist"
    BY <1>1, <2>1, <2>2 DEF FilterInv, BlacklistInv, Filters, Entries,
       SetVisibility, SetList, BlacklistShow, BlacklistHide
  <2>3. CASE p = "Whitelist"
    BY <1>1, <2>1, <2>3 DEF FilterInv, WhitelistInv, Filters, Entries, Flaps,
       SetVisibility, SetList, WhitelistShow, WhitelistHide, TypeOK
  <2>4. CASE p = "All"
    BY <2>1, <2>4
  <2> QED BY <1>1, <2>2, <2>3, <2>4 DEF Policies
<1>8. FilterInv'
  BY <1>2, <1>6, <1>7 DEF FilterInv
<1> QED BY <1>3, <1>4, <1>5, <1>8

\* What a tick finds: the entities lost in it.
LostNow == Lost(RemoveDespawned(filter, despawned))

\* For a living entity, the filter a tick works on shows exactly what game code
\* wants; an unwanted entity the client has is lost in this tick, or flapped.
LEMMA TickFilter ==
  ASSUME IInv
  PROVE  /\ LostNow \subseteq Entities
         /\ \A e \in Alive :
              /\ e \in wanted <=> State(Drained, e) # "Hidden"
              /\ e \in LostNow => e \notin wanted
              /\ e \in known /\ e \notin wanted =>
                   \/ e \in LostNow
                   \/ filter.policy = "Whitelist" /\ e \in flapped
<1> USE DEF IInv, LostNow
<1>1. \A e \in Alive : e \in Entities /\ e \in Current /\ e \notin despawned
  BY DEF Alive, Current, LifeInv
<1>2. CASE filter.policy = "Blacklist"
  BY <1>1, <1>2, FilterIsTyped, DrainedBlacklist
  DEF FilterInv, BlacklistInv, IsVisible, State, Entries
<1>3. CASE filter.policy = "Whitelist"
  BY <1>1, <1>3, FilterIsTyped, DrainedWhitelist
  DEF FilterInv, WhitelistInv, IsVisible, State, Entries
<1>4. CASE filter.policy = "All"
  BY <1>1, <1>4, DrainedAll DEF FilterInv, IsVisible, State
<1> QED BY <1>2, <1>3, <1>4, FilterIsTyped DEF Policies

\* What a tick makes of an entity's entry, if the entity is not despawned.
LEMMA TickEntry ==
  ASSUME TypeOK, Tick, NEW e \in Entities, e \notin despawned
  PROVE  /\ filter.policy = "Blacklist" =>
              /\ filter'.added = {} /\ filter'.removed = {}
              /\ filter'.list[e] =
                   IF e \in filter.removed THEN "None" ELSE filter.list[e]
         /\ filter.policy = "Whitelist" =>
              /\ filter'.added = {} /\ filter'.removed = {}
              /\ filter'.list[e] =
                   IF e \in filter.added THEN "Visible" ELSE filter.list[e]
<1>1. filter' = EndOfTick(Drained)
  BY DEF Tick
<1>2. CASE filter.policy = "Blacklist"
  <2>1. /\ EndOfTick(Drained).added = {} /\ EndOfTick(Drained).removed = {}
        /\ EndOfTick(Drained).list = [f \in Entities |->
             IF f \in Drained.removed THEN "None" ELSE Drained.list[f]]
    BY <1>2, DrainedBlacklist, EndOfTickTyped DEF Policies
  <2> QED BY <1>1, <1>2, <2>1, DrainedBlacklist
<1>3. CASE filter.policy = "Whitelist"
  <2>1. /\ EndOfTick(Drained).added = {} /\ EndOfTick(Drained).removed = {}
        /\ EndOfTick(Drained).list = [f \in Entities |->
             IF f \in Drained.added THEN "Visible" ELSE Drained.list[f]]
    BY <1>3, DrainedWhitelist, EndOfTickTyped DEF Policies
  <2> QED BY <1>1, <1>3, <2>1, DrainedWhitelist
<1> QED BY <1>2, <1>3

\* send_replication keeps the invariant: the filter ends without sets, and the
\* client then knows what the lists say.
LEMMA TickIInv ==
  ASSUME IInv, Tick
  PROVE  IInv'
<1> USE DEF IInv, Tick
<1>1. /\ filter.policy \in PoliciesUsed
      /\ filter.policy \in Policies
      /\ Drained \in Filters(filter.policy)
  BY FilterIsTyped, DrainedBlacklist, DrainedWhitelist, DrainedAll DEF Policies
<1>2. filter' \in Filters(filter.policy) /\ filter'.policy = filter.policy
  BY <1>1, EndOfTickTyped DEF Filters
<1>3. /\ Inserted \subseteq Alive
      /\ Alive' = Alive
      /\ Alive \subseteq Entities
      /\ \A e \in Alive : e \in Despawns <=> e \in LostNow
      /\ \A e \in Alive : e \in StillTracked <=> e \in tracked /\ e \notin LostNow
      /\ StillTracked \subseteq tracked
  BY DEF Inserted, Alive, Despawns, StillTracked, LifeInv, LostNow
<1>4. TypeOK'
  BY <1>1, <1>2, <1>3, MaxCallsAssumption DEF TypeOK
<1>5. LifeInv'
  BY <1>3 DEF LifeInv, Alive
<1>6. TrackedIsKnown'
  BY <1>3 DEF TrackedIsKnown
<1>7. /\ Current' = {e \in Entities : life[e] # "dead"}
      /\ \A e \in Current' :
           /\ e \in Entities /\ e \in Current /\ e \notin despawned
           /\ e \in Alive \/ (e \notin known /\ e \notin known')
  BY <1>3, <1>5 DEF Current, LifeInv, TypeOK, Alive
<1>8. FilterInv'
  <2> SUFFICES ASSUME NEW e \in Current'
               PROVE  /\ filter.policy = "Blacklist" => BlacklistInv(e)'
                      /\ filter.policy = "Whitelist" => WhitelistInv(e)'
                      /\ filter.policy = "All" => e \in wanted
    BY <1>2 DEF FilterInv
  <2>1. ASSUME e \in known', e \notin wanted
        PROVE  filter.policy = "Whitelist" /\ e \in flapped
    <3>1. e \in Alive
      BY <1>7, <2>1
    <3>2. e \notin Inserted
      BY <2>1, <3>1, TickFilter DEF Inserted, IsVisible
    <3>3. e \in known /\ e \notin LostNow
      BY <1>3, <2>1, <3>1, <3>2
    <3> QED BY <2>1, <3>1, <3>3, TickFilter
  <2>2. CASE filter.policy = "Blacklist"
    <3>1. BlacklistInv(e) /\ e \in Entities /\ e \notin despawned
      BY <1>7, <2>2 DEF FilterInv
    <3>2. /\ filter'.added = {} /\ filter'.removed = {}
          /\ filter'.list[e] = IF e \in filter.removed THEN "None" ELSE filter.list[e]
      BY <2>2, <3>1, TickEntry
    <3>3. filter.list[e] \in {"None", "Hidden", "QueuedForRemoval"}
      BY <2>2, <3>1, FilterIsTyped DEF Entries
    <3> QED BY <2>1, <2>2, <3>1, <3>2, <3>3 DEF BlacklistInv
  <2>3. CASE filter.policy = "Whitelist"
    <3>1. WhitelistInv(e) /\ e \in Entities /\ e \notin despawned
      BY <1>7, <2>3 DEF FilterInv
    <3>2. /\ filter'.added = {} /\ filter'.removed = {}
          /\ filter'.list[e] = IF e \in filter.added THEN "Visible" ELSE filter.list[e]
      BY <2>3, <3>1, TickEntry
    <3>3. filter.list[e] \in {"None", "JustAdded", "Visible"}
      BY <2>3, <3>1, FilterIsTyped DEF Entries
    <3> QED BY <2>1, <2>3, <3>1, <3>2, <3>3 DEF WhitelistInv
  <2>4. CASE filter.policy = "All"
    BY <1>7, <2>4 DEF FilterInv
  <2> QED BY <1>1, <2>2, <2>3, <2>4 DEF Policies
<1>9. GhostInv'
  <2> SUFFICES ASSUME NEW e \in known', e \notin Current'
               PROVE  e \notin wanted /\ (filter.policy = "Blacklist" \/ e \in flapped)
    BY <1>2 DEF GhostInv
  <2>1. e \in known /\ e \notin Alive /\ e \in Entities /\ e \notin Despawns
    BY <1>3, <1>7 DEF Alive, TypeOK
  <2>2. CASE e \notin Current
    BY <2>1, <2>2 DEF GhostInv
  <2>3. CASE e \in Current
    <3>1. e \in despawned /\ State(filter, e) = "Hidden"
      BY <1>7, <2>1, <2>3 DEF Current, Despawns, IsVisible
    <3>2. CASE filter.policy = "Blacklist"
      BY <2>1, <2>3, <3>1, <3>2, FilterIsTyped
      DEF FilterInv, BlacklistInv, State, Entries
    <3>3. CASE filter.policy = "Whitelist"
      <4>1. filter.list[e] = "None" /\ e \notin wanted
        BY <2>1, <2>3, <3>1, <3>3, FilterIsTyped
        DEF FilterInv, WhitelistInv, State, Entries
      <4>2. e \notin filter.removed
        BY <2>1, <3>3, <4>1, DrainedWhitelist DEF Despawns
      <4> QED BY <2>1, <2>3, <3>3, <4>1, <4>2 DEF FilterInv, WhitelistInv
    <3>4. CASE filter.policy = "All"
      BY <2>1, <3>1, <3>4, FilterIsTyped DEF State, Entries
    <3> QED BY <1>1, <3>2, <3>3, <3>4 DEF Policies
  <2> QED BY <2>2, <2>3
<1> QED BY <1>4, <1>5, <1>6, <1>8, <1>9

\* Every step keeps the invariant.
LEMMA NextIInv == IInv /\ [Next]_vars => IInv'
<1> SUFFICES ASSUME IInv, [Next]_vars PROVE IInv'
  OBVIOUS
<1>1. ASSUME NEW e \in Entities, Spawn(e) PROVE IInv'
  BY <1>1, SpawnIInv
<1>2. ASSUME NEW e \in Entities, Despawn(e) PROVE IInv'
  BY <1>2, DespawnIInv
<1>3. ASSUME NEW e \in Entities, NEW visible \in BOOLEAN,
             CallSetVisibility(e, visible)
      PROVE  IInv'
  BY <1>3, CallSetVisibilityIInv
<1>4. CASE Tick
  BY <1>4, TickIInv
<1>5. CASE UNCHANGED vars
  BY <1>5 DEF vars, IInv, TypeOK, LifeInv, TrackedIsKnown, FilterInv, GhostInv,
     BlacklistInv, WhitelistInv, Alive, Current
<1> QED BY <1>1, <1>2, <1>3, <1>4, <1>5 DEF Next

\* The inductive invariant holds of every behaviour: the filter's entries and sets
\* agree with the last call for each entity and with what the client has.
THEOREM SpecIInv == Spec => []IInv
BY InitIInv, NextIInv, PTL DEF Spec

-----------------------------------------------------------------------------
(* The properties of ClientVisibility, for any set of entities and any     *)
(* number of calls between two ticks.                                      *)

\* Every variable keeps its type; the filter keeps its policy's shape.
THEOREM TypeCorrect == Spec => []TypeOK
BY SpecIInv, PTL DEF IInv

\* The server has a mutation tick exactly for the living entities that the
\* client has (collect_changes chooses between insertion and mutation by it).
THEOREM TracksWhatIsKnown == Spec => []TrackedIsKnown
BY SpecIInv, PTL DEF IInv

\* A tick leaves the client with every living entity it should see.
THEOREM ShowsWhatIsWanted == Spec => ShownIsKnown
<1>1. IInv /\ [Next]_vars => [Tick => Alive \cap wanted \subseteq known']_vars
  <2> SUFFICES ASSUME IInv, Tick, NEW e \in Alive, e \in wanted PROVE e \in known'
    OBVIOUS
  <2>1. e \notin Despawns /\ e \notin LostNow /\ IsVisible(Drained, e)
    BY TickFilter DEF IInv, LifeInv, Alive, Despawns, LostNow, IsVisible
  <2> QED BY <2>1 DEF Tick, Inserted, StillTracked, TrackedIsKnown, IInv, LostNow
<1> QED BY <1>1, SpecIInv, PTL DEF Spec, ShownIsKnown

\* No step reveals an entity that game code has hidden.
THEOREM NothingHiddenIsSent == Spec => HiddenIsNotSent
<1>1. IInv /\ [Next]_vars => [known' \ known \subseteq wanted]_vars
  <2> SUFFICES ASSUME IInv, [Next]_vars, NEW e \in known', e \notin known
               PROVE  e \in wanted
    OBVIOUS
  <2>1. Tick
    BY DEF Next, vars, Spawn, Despawn, CallSetVisibility
  <2>2. e \in Alive /\ IsVisible(Drained, e)
    BY <2>1 DEF Tick, Inserted
  <2> QED BY <2>2, TickFilter DEF IsVisible
<1> QED BY <1>1, SpecIInv, PTL DEF Spec, HiddenIsNotSent

\* The client is not told to despawn a living entity it should keep.
THEOREM NothingKeptIsDespawned == Spec => KeptIsNotDespawned
<1>1. IInv /\ [Next]_vars =>
        [Tick => Alive \cap wanted \cap Despawns = {}]_vars
  BY TickFilter DEF IInv, LifeInv, Alive, Despawns, LostNow
<1> QED BY <1>1, SpecIInv, PTL DEF Spec, KeptIsNotDespawned

\* A tick takes a hidden living entity from the client unless it flapped.
THEOREM ForgetsWhatIsHidden == Spec => ForgottenUnlessFlapped
<1>1. IInv /\ [Next]_vars =>
        [Tick => known' \cap Alive \subseteq wanted \cup flapped]_vars
  BY TickFilter DEF IInv, LifeInv, Alive, Despawns, LostNow, Tick, Inserted, IsVisible
<1> QED BY <1>1, SpecIInv, PTL DEF Spec, ForgottenUnlessFlapped

\* The client keeps a despawned entity only if the server took it for hidden.
THEOREM OnlyHiddenGhosts == Spec => GhostsWereHidden
<1>1. IInv /\ [Next]_vars =>
        [Tick => \A e \in known' \ Alive :
             /\ e \notin wanted
             /\ filter.policy = "Blacklist" \/ e \in flapped]_vars
  <2> SUFFICES ASSUME IInv, Tick, NEW e \in known', e \notin Alive
               PROVE  e \notin wanted /\ (filter.policy = "Blacklist" \/ e \in flapped)
    OBVIOUS
  <2>1. IInv'
    BY TickIInv
  <2>2. filter'.policy = filter.policy /\ wanted' = wanted /\ flapped' = flapped
    BY FilterIsTyped, DrainedBlacklist, DrainedWhitelist, DrainedAll, EndOfTickTyped
    DEF IInv, Tick, Policies, Filters
  <2>3. e \notin Current'
    BY <2>1 DEF Tick, Current, Alive, IInv, LifeInv, TypeOK
  <2> QED BY <2>1, <2>2, <2>3 DEF IInv, GhostInv
<1> QED BY <1>1, SpecIInv, PTL DEF Spec, GhostsWereHidden

\* Ticks, and nothing else, make the client's entities a copy of those it should
\* see: ClientVisibility implements Mirror (set_visibility, send_replication).
THEOREM ImplementsMirror == Spec => MirrorsWanted
<1>1. Init => Abstract!Init
  BY DEF Init, Abstract!Init, Copy
<1>2. ASSUME IInv, Tick PROVE Abstract!Synchronise
  <2>1. last' = "tick" /\ Source' = Source
    BY <1>2 DEF Tick, Source, Alive
  <2>2. Copy' = [e \in Entities |-> IF e \in known' THEN "entity" ELSE "none"]
    BY DEF Copy
  <2>3. Source' = [e \in Entities |->
                    IF e \in Alive \cap wanted THEN "entity" ELSE "none"]
    BY <2>1 DEF Source
  <2>4. ASSUME NEW e \in Entities, e \in Alive, e \in wanted PROVE e \in known'
    <3>1. e \notin Despawns /\ e \notin LostNow /\ IsVisible(Drained, e)
      BY <1>2, <2>4, TickFilter DEF IInv, LifeInv, Alive, Despawns, LostNow, IsVisible
    <3> QED
      BY <1>2, <2>4, <3>1 DEF Tick, Inserted, StillTracked, TrackedIsKnown, IInv, LostNow
  <2>5. ASSUME NEW e \in Entities, e \in known', e \notin Excused'
        PROVE  e \in Alive /\ e \in wanted
    <3>1. IInv'
      BY <1>2, TickIInv
    <3>2. wanted' = wanted /\ flapped' = flapped /\ Alive' = Alive
      BY <1>2 DEF Tick, Alive
    <3>3. CASE e \in Alive
      BY <1>2, <2>5, <3>2, <3>3, TickFilter
      DEF IInv, LifeInv, Alive, Despawns, LostNow, Tick, Inserted, IsVisible, Excused
    <3>4. CASE e \notin Alive
      <4>1. e \notin Current'
        BY <1>2, <2>5, <3>1, <3>4 DEF Tick, Current, Alive, IInv, LifeInv, TypeOK
      <4>2. e \notin wanted' /\ (filter'.policy = "Blacklist" \/ e \in flapped')
        BY <2>5, <3>1, <4>1 DEF IInv, GhostInv
      <4> QED BY <2>5, <3>2, <3>4, <4>2 DEF Excused
    <3> QED BY <3>3, <3>4
  <2>6. \A e \in Entities \ Excused' : Copy'[e] = Source'[e]
    BY <2>2, <2>3, <2>4, <2>5
  <2> QED BY <2>1, <2>6 DEF Abstract!Synchronise
<1>3. ASSUME last' = "edit", UNCHANGED known PROVE Abstract!Edit
  BY <1>3 DEF Abstract!Edit, Copy
<1>4. IInv /\ [Next]_vars => [Abstract!Next]_<<Source, Copy, last, Excused>>
  <2> SUFFICES ASSUME IInv, [Next]_vars
               PROVE  [Abstract!Next]_<<Source, Copy, last, Excused>>
    OBVIOUS
  <2>1. CASE Tick
    BY <1>2, <2>1 DEF Abstract!Next
  <2>2. CASE UNCHANGED vars
    BY <2>2 DEF vars, Source, Copy, Excused, Alive
  <2>3. CASE last' = "edit" /\ UNCHANGED known
    BY <1>3, <2>3 DEF Abstract!Next
  <2> QED BY <2>1, <2>2, <2>3 DEF Next, Spawn, Despawn, CallSetVisibility
<1> QED BY <1>1, <1>4, SpecIInv, PTL DEF Spec, MirrorsWanted, Abstract!Spec
=============================================================================
