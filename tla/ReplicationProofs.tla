-------------------------- MODULE ReplicationProofs --------------------------
(***************************************************************************)
(* Proofs about Replication, for every set of entities and components,     *)
(* every set of clients' policies and every number of ticks.               *)
(*                                                                         *)
(* The first half is about ticks alone.  Update messages are in transit in *)
(* the order of their ticks; a mutate message carries the tick of the last *)
(* update message sent before it, so no update message lies between its    *)
(* update tick and its own tick.                                           *)
(*                                                                         *)
(* The second half is about contents.  As a content is the tick it was     *)
(* written for, copies of a component are ordered by age, whether they are *)
(* on the server, in a message or on the client (BaseInv).  The invariants *)
(* about delivery speak of what the client will have of a component once   *)
(* it has applied the update messages sent up to a tick (WillHold): what   *)
(* the server takes for delivered is there, or is on its way (SeenInv),    *)
(* and it is there with the content of the tick it was delivered for       *)
(* (ContentInv).                                                           *)
(***************************************************************************)
EXTENDS Replication, FiniteSetTheorems, WellFoundedInduction, TLAPS

-----------------------------------------------------------------------------
(* The operators of Visibility.                                            *)

\* Hiding or showing an entity keeps the filter's type.
LEMMA SetVisibilityTyped ==
  ASSUME NEW p \in Policies, NEW v \in Filters(p), NEW e \in Entities,
         NEW visible \in BOOLEAN
  PROVE  SetVisibility(v, e, visible) \in Filters(p)
<1>1. CASE p = "Blacklist"
  BY <1>1 DEF Filters, Entries, SetVisibility, SetList, BlacklistShow, BlacklistHide
<1>2. CASE p = "Whitelist"
  BY <1>2 DEF Filters, Entries, SetVisibility, SetList, WhitelistShow, WhitelistHide
<1>3. CASE p = "All"
  BY <1>3 DEF Filters, Entries, SetVisibility
<1> QED BY <1>1, <1>2, <1>3 DEF Policies

\* What set_visibility makes of the entity's entry and the two sets.
LEMMA SetVisibilityEntry ==
  ASSUME NEW p \in Policies, NEW v \in Filters(p), NEW e \in Entities,
         NEW visible \in BOOLEAN
  PROVE  LET w == SetVisibility(v, e, visible)
         IN  /\ w.policy = p
             /\ \A f \in Entities \ {e} :
                  /\ w.list[f] = v.list[f]
                  /\ f \in w.added <=> f \in v.added
                  /\ f \in w.removed <=> f \in v.removed
<1>1. CASE p = "Blacklist"
  BY <1>1 DEF Filters, Entries, SetVisibility, SetList, BlacklistShow, BlacklistHide
<1>2. CASE p = "Whitelist"
  BY <1>2 DEF Filters, Entries, SetVisibility, SetList, WhitelistShow, WhitelistHide
<1>3. CASE p = "All"
  BY <1>3 DEF Filters, Entries, SetVisibility
<1> QED BY <1>1, <1>2, <1>3 DEF Policies

\* So does taking despawned entities out of the filter and draining what was
\* lost, which is a set of entities.
LEMMA DrainTyped ==
  ASSUME NEW p \in Policies, NEW v \in Filters(p), NEW gone \in SUBSET Entities
  PROVE  /\ DrainLost(RemoveDespawned(v, gone)) \in Filters(p)
         /\ Lost(RemoveDespawned(v, gone)) \subseteq Entities
<1>1. CASE p = "Blacklist"
  BY <1>1 DEF Filters, Entries, DrainLost, RemoveDespawned, Lost
<1>2. CASE p = "Whitelist"
  BY <1>2 DEF Filters, Entries, DrainLost, RemoveDespawned, Lost
<1>3. CASE p = "All"
  BY <1>3 DEF Filters, Entries, DrainLost, RemoveDespawned, Lost
<1> QED BY <1>1, <1>2, <1>3 DEF Policies

\* The end of a tick keeps the type, and what it leaves of each entry.
LEMMA EndOfTickTyped ==
  ASSUME NEW p \in Policies, NEW v \in Filters(p)
  PROVE  /\ EndOfTick(v) \in Filters(p)
         /\ p = "Blacklist" =>
              /\ EndOfTick(v).added = {} /\ EndOfTick(v).removed = {}
              /\ EndOfTick(v).list = [e \in Entities |->
                   IF e \in v.removed THEN "None" ELSE v.list[e]]
         /\ p = "Whitelist" =>
              /\ EndOfTick(v).added = {} /\ EndOfTick(v).removed = {}
              /\ EndOfTick(v).list = [e \in Entities |->
                   IF e \in v.added THEN "Visible" ELSE v.list[e]]
<1>1. CASE p = "Blacklist"  BY <1>1 DEF Filters, Entries, EndOfTick
<1>2. CASE p = "Whitelist"  BY <1>2 DEF Filters, Entries, EndOfTick
<1>3. CASE p = "All"        BY <1>3 DEF Filters, Entries, EndOfTick
<1> QED BY <1>1, <1>2, <1>3 DEF Policies

-----------------------------------------------------------------------------
(* Ticks.                                                                  *)

\* The update messages in transit: ticks rise from the client's to the last
\* one sent.
UpdatesInv ==
  /\ clientTick <= updateTick /\ updateTick <= serverTick
  /\ \A i \in DOMAIN updates :
       clientTick < updates[i].tick /\ updates[i].tick <= updateTick
  /\ \A i, j \in DOMAIN updates : i < j => updates[i].tick < updates[j].tick
  /\ updates = <<>> => clientTick = updateTick
  /\ updates # <<>> => updates[Len(updates)].tick = updateTick

\* A mutate message: its ticks, and the update messages still to come.
MutateInv(m) ==
  /\ m.updateTick <= m.tick /\ m.tick <= serverTick
  /\ m.updateTick <= updateTick
  /\ \A i \in DOMAIN updates :
       updates[i].tick <= m.updateTick \/ m.tick < updates[i].tick
  /\ m.updateTick <= clientTick \/
       \E i \in DOMAIN updates : updates[i].tick = m.updateTick

\* A confirmed tick was sent, and is older than every update message in transit.
ConfirmedInv ==
  \A e \in Entities :
    /\ confirmed[e] <= serverTick
    /\ \A i \in DOMAIN updates : confirmed[e] < updates[i].tick

\* The inductive invariant.
IInv ==
  /\ TypeOK
  /\ UpdatesInv
  /\ \A m \in InFlight : MutateInv(m)
  /\ ConfirmedInv

-----------------------------------------------------------------------------
(* Types.                                                                  *)

\* The initial state is well-typed.
LEMMA InitTypeOK == Init => TypeOK
<1> SUFFICES ASSUME Init PROVE TypeOK
  OBVIOUS
<1>1. PICK p \in PoliciesUsed : filter = NewFilter(p)
  BY DEF Init
<1>2. filter \in Filters(p)
  BY <1>1, PoliciesAssumption DEF NewFilter, Filters, Entries, Policies
<1>3. /\ life \in [Entities -> {"unborn", "alive", "dead"}]
      /\ at \in Values /\ value \in Values
      /\ has \in [Entities -> SUBSET Components]
      /\ added \in [Entities -> SUBSET Components]
      /\ removals \in [Entities -> SUBSET Components]
      /\ mutationTicks \in [Entities -> Ticks]
      /\ confirmed \in [Entities -> Ticks]
  BY BoundsAssumption DEF Init, Ticks, Values, NoValues, NoComponents
<1>4. /\ ops \in 0..MaxOps
      /\ serverTick \in Ticks /\ updateTick \in Ticks /\ clientTick \in Ticks
      /\ nextIndex \in 0..(IndexRange - 1)
  BY BoundsAssumption DEF Init, Ticks
<1>5. /\ updates \in Seq(UpdateMessages)
      /\ acks \in Seq(SUBSET (0..(IndexRange - 1)))
  BY DEF Init
<1> QED BY <1>2, <1>3, <1>4, <1>5 DEF Init, TypeOK

\* Game code changes the world within its types.
LEMMA WorldTypeOK ==
  ASSUME TypeOK, World
  PROVE  TypeOK'
<1> USE BoundsAssumption DEF TypeOK, Values, Ticks, Now
<1>1. ASSUME NEW e \in Entities, NEW cs \in SUBSET Components, Spawn(e, cs)
      PROVE  TypeOK'
  BY <1>1 DEF Spawn, Change, serverVars, channels, clientVars
<1>2. ASSUME NEW e \in Entities, Despawn(e)
      PROVE  TypeOK'
  BY <1>2 DEF Despawn, Change, serverVars, channels, clientVars
<1>3. ASSUME NEW e \in Entities, NEW c \in Components, Insert(e, c)
      PROVE  TypeOK'
  BY <1>3 DEF Insert, Change, serverVars, channels, clientVars
<1>4. ASSUME NEW e \in Entities, NEW c \in Components, Remove(e, c)
      PROVE  TypeOK'
  BY <1>4 DEF Remove, Change, serverVars, channels, clientVars
<1>5. ASSUME NEW e \in Entities, NEW c \in Components, Mutate(e, c)
      PROVE  TypeOK'
  BY <1>5 DEF Mutate, Change, serverVars, channels, clientVars
<1>6. ASSUME NEW e \in Entities, NEW visible \in BOOLEAN,
             CallSetVisibility(e, visible)
      PROVE  TypeOK'
  <2>1. \E p \in PoliciesUsed : filter' \in Filters(p)
    BY <1>6, SetVisibilityTyped, PoliciesAssumption DEF CallSetVisibility
  <2> QED BY <1>6, <2>1 DEF CallSetVisibility, Change, channels, clientVars
<1> QED BY <1>1, <1>2, <1>3, <1>4, <1>5, <1>6 DEF World

\* The messages send_replication makes have their types.
LEMMA MessagesTyped ==
  ASSUME TypeOK, serverTick < MaxTick
  PROVE  /\ Now \in Ticks
         /\ UpdateMessage \in UpdateMessages
         /\ SentUpdateTick \in Ticks
         /\ \A index \in 0..(IndexRange - 1) : \A entities \in SUBSET Entities :
              MutateMessage(index, entities) \in MutateMessages
<1> USE BoundsAssumption DEF TypeOK, Values, Ticks, Now
<1>1. Now \in Ticks /\ SentUpdateTick \in Ticks
  BY DEF SentUpdateTick
<1>2. UpdateMessage \in UpdateMessages
  <2>1. Despawns \subseteq Entities
    BY DrainTyped, PoliciesAssumption DEF Despawns, LostVisibility
  <2>2. Seen \subseteq Entities
    BY DEF Seen, Alive
  <2>3. \A e \in Entities : RemovalBuffer(e) \subseteq Components
    BY DEF RemovalBuffer
  <2> QED BY <1>1, <2>1, <2>2, <2>3 DEF UpdateMessage, UpdateMessages
<1>3. ASSUME NEW index \in 0..(IndexRange - 1), NEW entities \in SUBSET Entities
      PROVE  MutateMessage(index, entities) \in MutateMessages
  BY <1>1 DEF MutateMessage, MutateMessages
<1> QED BY <1>1, <1>2, <1>3

\* Mutate indices stay in their range.
LEMMA IndexInRange ==
  ASSUME NEW a \in Nat
  PROVE  a % IndexRange \in 0..(IndexRange - 1)
BY BoundsAssumption

\* So is what a tick leaves: the filter, the ticks, the messages it sends.
LEMMA TickTypeOK ==
  ASSUME TypeOK, Tick
  PROVE  TypeOK'
<1>1. /\ Now \in Ticks
      /\ UpdateMessage \in UpdateMessages
      /\ SentUpdateTick \in Ticks
      /\ \A index \in 0..(IndexRange - 1) : \A entities \in SUBSET Entities :
           MutateMessage(index, entities) \in MutateMessages
  BY MessagesTyped DEF Tick
<1>2. CASE ~replicating
  BY <1>1, <1>2 DEF Tick, TypeOK, clientVars, NoComponents
<1>3. CASE replicating
  <2>1. Send
    BY <1>3 DEF Tick
  <2>2. \E p \in PoliciesUsed : filter' \in Filters(p)
    <3>1. PICK p \in PoliciesUsed : filter \in Filters(p)
      BY DEF TypeOK
    <3>2. p \in Policies /\ despawned \in SUBSET Entities
      BY PoliciesAssumption DEF TypeOK
    <3>3. Drained \in Filters(p)
      BY <3>1, <3>2, DrainTyped DEF Drained
    <3> QED BY <2>1, <3>2, <3>3, EndOfTickTyped DEF Send
  <2>3. mutationTicks' \in [Entities -> Ticks]
    <3>1. \A e \in Entities : MutationTick(e) \in Ticks
      BY BoundsAssumption DEF MutationTick, Ticks, TypeOK
    <3> QED BY <1>1, <2>1, <3>1 DEF Send
  <2>4. updates' \in Seq(UpdateMessages)
    <3>1. updates' = updates \/ updates' = Append(updates, UpdateMessage)
      BY <2>1 DEF Send
    <3>2. updates \in Seq(UpdateMessages)
      BY DEF TypeOK
    <3> QED BY <1>1, <3>1, <3>2
  <2>5. PICK split \in Splits(MutatedEntities) :
          /\ mutates' = mutates \cup
               {MutateMessage(IndexOf(i), split[i]) : i \in DOMAIN split}
          /\ mutations' = Registered(split)
          /\ nextIndex' = (nextIndex + Len(split)) % IndexRange
    BY <2>1 DEF Send
  <2>6. PICK n \in 0..Cardinality(MutatedEntities) :
          split \in [1..n -> SUBSET MutatedEntities]
    BY <2>5 DEF Splits
  <2>7. /\ n \in Nat /\ DOMAIN split = 1..n /\ Len(split) = n
        /\ \A i \in DOMAIN split : split[i] \in SUBSET Entities
    BY <2>6 DEF MutatedEntities, Seen, Alive
  <2>8. \A i \in DOMAIN split : IndexOf(i) \in 0..(IndexRange - 1)
    <3> SUFFICES ASSUME NEW i \in DOMAIN split
                 PROVE  IndexOf(i) \in 0..(IndexRange - 1)
      OBVIOUS
    <3>1. nextIndex + i - 1 \in Nat
      BY <2>7, BoundsAssumption DEF TypeOK
    <3> QED BY <3>1, IndexInRange DEF IndexOf
  <2>9. mutates' \subseteq MutateMessages
    BY <1>1, <2>5, <2>7, <2>8 DEF TypeOK
  <2>10. mutations' \subseteq MutateInfos
    BY <1>1, <2>5, <2>7, <2>8 DEF Registered, MutateInfos, TypeOK
  <2>11. nextIndex' \in 0..(IndexRange - 1)
    <3>1. nextIndex + Len(split) \in Nat
      BY <2>7, BoundsAssumption DEF TypeOK
    <3> QED BY <2>5, <3>1, IndexInRange
  <2> QED BY <1>1, <2>1, <2>2, <2>3, <2>4, <2>9, <2>10, <2>11
          DEF Tick, Send, TypeOK, clientVars, NoComponents
<1> QED BY <1>2, <1>3

\* receive_acks leaves mutation ticks among the ticks.
LEMMA ReceiveAcksTypeOK ==
  ASSUME TypeOK, ReceiveAcks
  PROVE  TypeOK'
<1> USE DEF TypeOK, ReceiveAcks
<1>1. ASSUME NEW e \in Entities, NEW indices PROVE Acknowledge(e, indices) \in Ticks
  <2> DEFINE newest == {t \in AckedTicks(e, indices) :
                          /\ t > mutationTicks[e]
                          /\ \A s \in AckedTicks(e, indices) : s <= t}
  <2>1. newest \subseteq Ticks
    BY DEF AckedTicks, MutateInfos
  <2>2. newest # {} => (CHOOSE t \in newest : TRUE) \in newest
    OBVIOUS
  <2> QED BY <2>1, <2>2 DEF Acknowledge
<1> QED BY <1>1 DEF worldVars, clientVars

\* apply_update_message keeps the client's types.
LEMMA ApplyUpdateMessageTypeOK ==
  ASSUME TypeOK, ApplyUpdateMessage
  PROVE  TypeOK'
<1> USE BoundsAssumption DEF TypeOK, Ticks, Values, ApplyUpdateMessage
<1>1. Head(updates) \in UpdateMessages /\ Tail(updates) \in Seq(UpdateMessages)
  OBVIOUS
<1>2. Touched(Head(updates)) \subseteq Entities
  BY <1>1 DEF Touched, UpdateMessages
<1>3. value' \in Values
  BY <1>1 DEF UpdateMessages, Updated
<1>4. confirmed' \in [Entities -> Ticks] /\ clientTick' \in Ticks /\ mapped' \subseteq Entities
  BY <1>1, <1>2 DEF UpdateMessages
<1> QED BY <1>1, <1>3, <1>4 DEF worldVars, serverVars

\* Applying mutate messages keeps the client's types.
LEMMA ReceiveMutationsTypeOK ==
  ASSUME TypeOK, NEW arrived \in SUBSET mutates, ReceiveMutations(arrived)
  PROVE  TypeOK'
<1> DEFINE ready == {m \in buffered \cup arrived : IsReady(m)}
           wins(e) == Newest(e, ready) # {}
           winner(e) == CHOOSE m \in Newest(e, ready) : TRUE
<1>1. \A e \in Entities : wins(e) => winner(e) \in MutateMessages
  BY DEF Newest, TypeOK
<1>2. \A e \in Entities : wins(e) =>
        winner(e).tick \in Ticks /\ winner(e).values \in Values
  BY <1>1 DEF MutateMessages
<1>3. /\ confirmed' = [e \in Entities |->
                      IF wins(e) THEN winner(e).tick ELSE confirmed[e]]
      /\ value' = [e \in Entities |-> [c \in Components |->
                  IF wins(e) /\ winner(e).values[e][c] # 0
                  THEN winner(e).values[e][c] ELSE value[e][c]]]
  BY DEF ReceiveMutations
<1> HIDE DEF wins, winner
<1>4. confirmed' \in [Entities -> Ticks] /\ value' \in Values
  BY <1>2, <1>3 DEF Values, TypeOK
<1>5. acks' \in Seq(SUBSET (0..(IndexRange - 1)))
  BY DEF MutateMessages, ReceiveMutations, TypeOK
<1>6. held' \subseteq Entities /\ buffered' \subseteq MutateMessages
  BY DEF MutateMessages, ReceiveMutations, TypeOK
<1> QED BY <1>4, <1>5, <1>6 DEF ReceiveMutations, TypeOK, worldVars, serverVars

\* Every step keeps the types.
LEMMA NextTypeOK == TypeOK /\ [Next]_vars => TypeOK'
<1> SUFFICES ASSUME TypeOK, [Next]_vars PROVE TypeOK'
  OBVIOUS
<1>1. CASE World
  BY <1>1, WorldTypeOK
<1>2. CASE StartReplication
  BY <1>2 DEF StartReplication, TypeOK, worldVars, channels, clientVars
<1>3. CASE Tick
  BY <1>3, TickTypeOK
<1>4. CASE ReceiveAcks
  BY <1>4, ReceiveAcksTypeOK
<1>5. ASSUME NEW tick \in Ticks, CleanupAcks(tick) PROVE TypeOK'
  BY <1>5 DEF CleanupAcks, TypeOK, worldVars, channels, clientVars
<1>6. ASSUME NEW m \in mutates, Lose(m) PROVE TypeOK'
  BY <1>6 DEF Lose, TypeOK, worldVars, serverVars, clientVars
<1>7. CASE ApplyUpdateMessage
  BY <1>7, ApplyUpdateMessageTypeOK
<1>8. ASSUME NEW arrived \in SUBSET mutates, ReceiveMutations(arrived) PROVE TypeOK'
  BY <1>8, ReceiveMutationsTypeOK
<1>9. CASE UNCHANGED vars
  BY <1>9 DEF TypeOK, vars, worldVars, serverVars, channels, clientVars
<1> QED BY <1>1, <1>2, <1>3, <1>4, <1>5, <1>6, <1>7, <1>8, <1>9 DEF Next

\* Every variable keeps its type: in particular the messages in transit are
\* well-formed and mutate indices stay in their range.
THEOREM TypeCorrect == Spec => []TypeOK
BY InitTypeOK, NextTypeOK, PTL DEF Spec

-----------------------------------------------------------------------------
(* The order of ticks.                                                     *)

\* The variables the order is about.
orderVars == <<serverTick, updateTick, updates, mutates, buffered, clientTick, confirmed>>

\* Its part about the order of messages.
OrderInv == UpdatesInv /\ (\A m \in InFlight : MutateInv(m)) /\ ConfirmedInv

\* The ticks of messages in transit are numbers.
LEMMA MessageTicks ==
  ASSUME TypeOK
  PROVE  /\ serverTick \in Nat /\ updateTick \in Nat /\ clientTick \in Nat
         /\ \A e \in Entities : confirmed[e] \in Nat
         /\ Len(updates) \in Nat /\ DOMAIN updates = 1..Len(updates)
         /\ \A i \in DOMAIN updates :
              updates[i] \in UpdateMessages /\ updates[i].tick \in Nat
         /\ \A m \in InFlight : m.updateTick \in Nat /\ m.tick \in Nat
<1>1. /\ serverTick \in Nat /\ updateTick \in Nat /\ clientTick \in Nat
      /\ \A e \in Entities : confirmed[e] \in Nat
  BY BoundsAssumption DEF TypeOK, Ticks
<1>2. updates \in Seq(UpdateMessages)
  BY DEF TypeOK
<1>3. \A u \in UpdateMessages : u.tick \in Nat
  BY BoundsAssumption DEF UpdateMessages, Ticks
<1>4. \A m \in MutateMessages : m.updateTick \in Nat /\ m.tick \in Nat
  BY BoundsAssumption DEF MutateMessages, Ticks
<1>5. InFlight \subseteq MutateMessages
  BY DEF TypeOK, InFlight
<1> QED BY <1>1, <1>2, <1>3, <1>4, <1>5

\* Nothing is in transit and nothing is confirmed at first.
LEMMA InitOrderInv == Init => OrderInv
BY DEF Init, OrderInv, UpdatesInv, MutateInv, ConfirmedInv, InFlight

\* Fewer mutate messages, and nothing else changed.
LEMMA LoseOrderInv ==
  ASSUME OrderInv, NEW m \in mutates, Lose(m)
  PROVE  OrderInv'
BY DEF OrderInv, UpdatesInv, MutateInv, ConfirmedInv, InFlight, Lose, serverVars, clientVars

\* A tick sends at most one update message, newer than everything before it,
\* and mutate messages that no update message in transit comes between.
LEMMA TickOrderInv ==
  ASSUME TypeOK, OrderInv, Tick
  PROVE  OrderInv'
<1> USE DEF OrderInv
<1>1. /\ serverTick' = serverTick + 1
      /\ clientTick' = clientTick /\ confirmed' = confirmed /\ buffered' = buffered
  BY DEF Tick, Now, clientVars
<1>2. CASE ~replicating
  <2>1. updateTick' = updateTick /\ updates' = updates /\ mutates' = mutates
    BY <1>2 DEF Tick
  <2>2. UpdatesInv'
    BY <1>1, <2>1, MessageTicks DEF UpdatesInv
  <2>3. ConfirmedInv'
    BY <1>1, <2>1, MessageTicks DEF ConfirmedInv
  <2>4. InFlight' = InFlight /\ \A m \in InFlight : MutateInv(m)'
    BY <1>1, <2>1, MessageTicks DEF MutateInv, InFlight
  <2> QED BY <2>2, <2>3, <2>4
<1>3. CASE replicating
  <2>1. Send
    BY <1>3 DEF Tick
  <2>2. \A m \in InFlight' :
          m \in InFlight \/ (m.updateTick = updateTick' /\ m.tick = serverTick')
    BY <1>1, <2>1 DEF Send, MutateMessage, InFlight, Now
  <2>3. CASE IsEmptyUpdate(UpdateMessage)
    <3>1. updateTick' = updateTick /\ updates' = updates
      BY <2>1, <2>3 DEF Send, SentUpdateTick
    <3>2. UpdatesInv'
      BY <1>1, <3>1, MessageTicks DEF UpdatesInv
    <3>3. ConfirmedInv'
      BY <1>1, <3>1, MessageTicks DEF ConfirmedInv
    <3>4. ASSUME NEW m \in InFlight' PROVE MutateInv(m)'
      BY <1>1, <2>2, <3>1, <3>4, MessageTicks DEF UpdatesInv, MutateInv
    <3> QED BY <3>2, <3>3, <3>4
  <2>4. CASE ~IsEmptyUpdate(UpdateMessage)
    <3> DEFINE n == Len(updates)
    <3>1. updateTick' = serverTick' /\ updates' = Append(updates, UpdateMessage)
      BY <1>1, <2>1, <2>4 DEF Send, SentUpdateTick, Now
    <3>2. UpdateMessage.tick = serverTick'
      BY <1>1 DEF UpdateMessage, Now
    <3>3. UpdateMessage \in UpdateMessages /\ updates \in Seq(UpdateMessages)
      BY MessagesTyped DEF Tick, TypeOK
    <3>4. /\ n \in Nat /\ Len(updates') = n + 1 /\ DOMAIN updates' = 1..(n + 1)
          /\ \A i \in 1..n : updates'[i] = updates[i]
          /\ updates'[n + 1].tick = serverTick'
          /\ updates' # <<>>
      BY <3>1, <3>2, <3>3
    <3>5. UpdatesInv'
      BY <1>1, <3>1, <3>4, MessageTicks DEF UpdatesInv
    <3>6. ConfirmedInv'
      BY <1>1, <3>4, MessageTicks DEF ConfirmedInv
    <3>7. ASSUME NEW m \in InFlight' PROVE MutateInv(m)'
      <4>1. CASE m \in InFlight
        BY <1>1, <3>1, <3>4, <4>1, MessageTicks DEF UpdatesInv, MutateInv
      <4>2. CASE m.updateTick = updateTick' /\ m.tick = serverTick'
        BY <1>1, <3>1, <3>4, <4>2, MessageTicks DEF UpdatesInv, MutateInv
      <4> QED BY <2>2, <3>7, <4>1, <4>2
    <3> QED BY <3>5, <3>6, <3>7
  <2> QED BY <2>3, <2>4
<1> QED BY <1>2, <1>3

\* The client applies the oldest update message.
LEMMA ApplyUpdateMessageOrderInv ==
  ASSUME TypeOK, OrderInv, ApplyUpdateMessage
  PROVE  OrderInv'
<1> USE DEF OrderInv
<1> DEFINE n == Len(updates)
<1>1. /\ updates # <<>> /\ updates' = Tail(updates)
      /\ clientTick' = updates[1].tick
      /\ serverTick' = serverTick /\ updateTick' = updateTick /\ InFlight' = InFlight
      /\ \A e \in Entities : confirmed'[e] \in {updates[1].tick, 0, confirmed[e]}
  BY DEF ApplyUpdateMessage, serverVars, InFlight
<1>2. /\ n \in Nat \ {0} /\ 1 \in DOMAIN updates /\ n \in DOMAIN updates
      /\ Len(updates') = n - 1 /\ DOMAIN updates' = 1..(n - 1)
      /\ \A i \in 1..(n - 1) : updates'[i] = updates[i + 1] /\ i + 1 \in DOMAIN updates
  <2>1. updates \in Seq(UpdateMessages)
    BY DEF TypeOK
  <2>2. n \in Nat \ {0} /\ DOMAIN updates = 1..n
    BY <1>1, <2>1
  <2>3. /\ Len(updates') = n - 1 /\ DOMAIN updates' = 1..(n - 1)
        /\ \A i \in 1..(n - 1) : updates'[i] = updates[i + 1]
    BY <1>1, <2>1, <2>2
  <2> QED BY <2>2, <2>3
<1>3. UpdatesInv'
  <2>1. ASSUME NEW i \in 1..(n - 1)
        PROVE  clientTick' < updates'[i].tick /\ updates'[i].tick <= updateTick
    BY <1>1, <1>2, MessageTicks DEF UpdatesInv
  <2>2. ASSUME NEW i \in 1..(n - 1), NEW j \in 1..(n - 1), i < j
        PROVE  updates'[i].tick < updates'[j].tick
    BY <1>1, <1>2, <2>2, MessageTicks DEF UpdatesInv
  <2>3. clientTick' <= updateTick
    BY <1>1, <1>2, MessageTicks DEF UpdatesInv
  <2>4. updates' = <<>> => clientTick' = updateTick
    <3> SUFFICES ASSUME updates' = <<>> PROVE n = 1
      BY <1>1 DEF UpdatesInv
    <3> QED BY <1>2
  <2>5. updates' # <<>> => updates'[Len(updates')].tick = updateTick
    <3> SUFFICES ASSUME updates' # <<>> PROVE updates'[n - 1].tick = updates[n].tick
      BY <1>1, <1>2 DEF UpdatesInv
    <3>1. n - 1 \in 1..(n - 1) /\ (n - 1) + 1 = n
      <4>1. updates' \in Seq(UpdateMessages)
        BY <1>1 DEF TypeOK
      <4>2. Len(updates') # 0
        BY <4>1
      <4> QED BY <1>2, <4>2
    <3> QED BY <1>2, <3>1
  <2> QED BY <1>1, <1>2, <2>1, <2>2, <2>3, <2>4, <2>5 DEF UpdatesInv
<1>4. ConfirmedInv'
  <2> SUFFICES ASSUME NEW e \in Entities
               PROVE  /\ confirmed'[e] <= serverTick
                      /\ \A i \in 1..(n - 1) : confirmed'[e] < updates'[i].tick
    BY <1>1, <1>2 DEF ConfirmedInv
  <2>1. updates[1].tick <= serverTick
    BY <1>1, <1>2, MessageTicks DEF UpdatesInv
  <2>2. ASSUME NEW i \in 1..(n - 1)
        PROVE  /\ updates[1].tick < updates'[i].tick
               /\ confirmed[e] < updates'[i].tick
               /\ 0 < updates'[i].tick
    BY <1>1, <1>2, MessageTicks DEF UpdatesInv, ConfirmedInv
  <2>3. confirmed[e] <= serverTick /\ 0 <= serverTick
    BY MessageTicks DEF ConfirmedInv
  <2>4. CASE confirmed'[e] = updates[1].tick
    BY <2>1, <2>2, <2>4
  <2>5. CASE confirmed'[e] = 0
    BY <2>2, <2>3, <2>5
  <2>6. CASE confirmed'[e] = confirmed[e]
    BY <2>2, <2>3, <2>6
  <2> QED BY <1>1, <2>4, <2>5, <2>6
<1>5. ASSUME NEW m \in InFlight PROVE MutateInv(m)'
  <2>1. MutateInv(m) /\ m.updateTick \in Nat /\ m.tick \in Nat
    BY MessageTicks
  <2>2. CASE m.updateTick <= clientTick
    BY <1>1, <1>2, <2>1, <2>2, MessageTicks DEF UpdatesInv, MutateInv
  <2>3. ASSUME NEW i \in DOMAIN updates, updates[i].tick = m.updateTick
        PROVE  MutateInv(m)'
    <3>1. i = 1 \/ (i - 1 \in 1..(n - 1) /\ updates'[i - 1] = updates[i])
      BY <1>2, MessageTicks
    <3>2. \A j \in 1..(n - 1) :
            updates'[j].tick <= m.updateTick \/ m.tick < updates'[j].tick
      BY <1>2, <2>1 DEF MutateInv
    <3>3. \/ m.updateTick <= clientTick'
          \/ i - 1 \in 1..(n - 1) /\ updates'[i - 1].tick = m.updateTick
      <4>1. CASE i = 1
        BY <1>1, <2>1, <2>3, <4>1
      <4>2. CASE i - 1 \in 1..(n - 1) /\ updates'[i - 1] = updates[i]
        BY <2>3, <4>2
      <4> QED BY <3>1, <4>1, <4>2
    <3> QED BY <1>1, <1>2, <2>1, <3>2, <3>3 DEF MutateInv
  <2> QED BY <2>1, <2>2, <2>3 DEF MutateInv
<1> QED BY <1>1, <1>3, <1>4, <1>5

\* The client confirms the tick of a mutate message only if its update tick is
\* reached: then every update message in transit is newer.
LEMMA ReceiveMutationsOrderInv ==
  ASSUME TypeOK, OrderInv, NEW arrived \in SUBSET mutates, ReceiveMutations(arrived)
  PROVE  OrderInv'
<1> USE DEF OrderInv
<1> DEFINE ready == {m \in buffered \cup arrived : IsReady(m)}
           wins(e) == Newest(e, ready) # {}
           winner(e) == CHOOSE m \in Newest(e, ready) : TRUE
<1>1. /\ serverTick' = serverTick /\ updateTick' = updateTick
      /\ updates' = updates /\ clientTick' = clientTick
      /\ InFlight' \subseteq InFlight
  BY DEF ReceiveMutations, serverVars, InFlight
<1>2. ASSUME NEW e \in Entities, wins(e)
      PROVE  winner(e) \in InFlight /\ winner(e).updateTick <= clientTick
  BY <1>2 DEF Newest, IsReady, InFlight
<1>3. \A e \in Entities : confirmed'[e] = IF wins(e) THEN winner(e).tick ELSE confirmed[e]
  BY DEF ReceiveMutations
<1> HIDE DEF wins, winner
<1>4. UpdatesInv' /\ \A m \in InFlight' : MutateInv(m)'
  BY <1>1 DEF UpdatesInv, MutateInv
<1>5. ASSUME NEW e \in Entities
      PROVE  /\ confirmed'[e] <= serverTick
             /\ \A i \in DOMAIN updates : confirmed'[e] < updates[i].tick
  <2>1. CASE wins(e)
    <3> DEFINE m == winner(e)
    <3>1. m \in InFlight /\ m.updateTick <= clientTick /\ confirmed'[e] = m.tick
      BY <1>2, <1>3, <2>1
    <3> HIDE DEF m
    <3>2. MutateInv(m) /\ m.updateTick \in Nat /\ m.tick \in Nat
      BY <3>1, MessageTicks
    <3> QED BY <3>1, <3>2, MessageTicks DEF MutateInv, UpdatesInv
  <2>2. CASE ~wins(e)
    BY <1>3, <2>2 DEF ConfirmedInv
  <2> QED BY <2>1, <2>2
<1> QED BY <1>1, <1>4, <1>5 DEF ConfirmedInv

\* Every step keeps the invariant.
LEMMA NextIInv == IInv /\ [Next]_vars => IInv'
<1> SUFFICES ASSUME TypeOK, OrderInv, [Next]_vars PROVE OrderInv'
  BY NextTypeOK DEF IInv, OrderInv
<1>1. ASSUME UNCHANGED orderVars PROVE OrderInv'
  BY <1>1 DEF orderVars, OrderInv, UpdatesInv, MutateInv, ConfirmedInv, InFlight
<1>2. CASE World
  <2>1. UNCHANGED orderVars
    BY <1>2 DEF World, Spawn, Despawn, Insert, Remove, Mutate, CallSetVisibility,
       orderVars, serverVars, channels, clientVars
  <2> QED BY <1>1, <2>1
<1>3. CASE StartReplication \/ ReceiveAcks \/ (\E tick \in Ticks : CleanupAcks(tick))
  <2>1. UNCHANGED orderVars
    BY <1>3 DEF StartReplication, ReceiveAcks, CleanupAcks, orderVars, channels, clientVars
  <2> QED BY <1>1, <2>1
<1>4. CASE Tick
  BY <1>4, TickOrderInv
<1>5. ASSUME NEW m \in mutates, Lose(m) PROVE OrderInv'
  BY <1>5, LoseOrderInv
<1>6. CASE ApplyUpdateMessage
  BY <1>6, ApplyUpdateMessageOrderInv
<1>7. ASSUME NEW arrived \in SUBSET mutates, ReceiveMutations(arrived) PROVE OrderInv'
  BY <1>7, ReceiveMutationsOrderInv
<1>8. CASE UNCHANGED vars
  BY <1>1, <1>8 DEF vars, serverVars, channels, clientVars, orderVars
<1> QED BY <1>2, <1>3, <1>4, <1>5, <1>6, <1>7, <1>8 DEF Next

\* The inductive invariant holds of every behaviour.
LEMMA SpecIInv == Spec => []IInv
<1>1. Init => IInv
  BY InitTypeOK, InitOrderInv DEF IInv, OrderInv
<1> QED BY <1>1, NextIInv, PTL DEF Spec

\* Update messages confirm ticks in order, although mutate messages overtake
\* them: ConfirmHistory::set_last_tick is never called with an older tick.
THEOREM UpdatesConfirmInOrder == Spec => []ConfirmsInOrder
<1>1. IInv => ConfirmsInOrder
  BY DEF IInv, ConfirmedInv, ConfirmsInOrder
<1> QED BY <1>1, SpecIInv, PTL

\* A mutate message the client has to hold back waits for an update message
\* that is in transit: none waits for ever on a channel that delivers.
THEOREM HeldBackIsBounded == Spec => []AwaitedUpdateIsComing
<1>1. IInv => AwaitedUpdateIsComing
  BY DEF IInv, MutateInv, AwaitedUpdateIsComing, IsReady
<1> QED BY <1>1, SpecIInv, PTL

-----------------------------------------------------------------------------
(* Contents.                                                               *)

\* An update message settles what the client has of a component: it carries its
\* content, removes it, or despawns its entity.
Writes(u, e, c) == u.values[e][c] # 0 \/ c \in u.removals[e] \/ e \in u.despawns

\* Once the updates up to tick t are applied, the client has content v of a
\* component: the last that settles it leaves v, or none does and v is there.
WillHold(e, c, t, v) ==
  LET writes(i) == updates[i].tick <= t /\ Writes(updates[i], e, c)
  IN  \/ value[e][c] = v /\ \A i \in DOMAIN updates : ~writes(i)
      \/ \E i \in DOMAIN updates :
           /\ writes(i) /\ updates[i].values[e][c] = v
           /\ \A j \in DOMAIN updates : writes(j) => j <= i

\* Once all updates are applied, the client has an entity.
WillBeMapped(e) ==
  \/ e \in mapped /\ \A i \in DOMAIN updates : e \notin updates[i].despawns
  \/ \E i \in DOMAIN updates :
       /\ e \in Touched(updates[i])
       /\ \A j \in DOMAIN updates : i < j => e \notin updates[j].despawns

\* An update message is about an entity.
Touches(u, e) == e \in Touched(u) \cup u.despawns

\* The entries of a client's filter agree with its sets of changes to come and
\* with the mutation ticks; entries of dead entities may linger.
FilterInv ==
  \A e \in Entities : life[e] # "dead" =>
    /\ filter.policy = "Blacklist" =>
         /\ e \in filter.added => filter.list[e] = "Hidden"
         /\ e \in filter.removed <=> filter.list[e] = "QueuedForRemoval"
         /\ mutationTicks[e] # 0 => filter.list[e] = "None" \/ e \in filter.added
    /\ filter.policy = "Whitelist" =>
         /\ e \in filter.added <=> filter.list[e] = "JustAdded"
         /\ e \in filter.removed => filter.list[e] = "None"
         /\ mutationTicks[e] # 0 /\ filter.list[e] = "None" =>
              e \in filter.removed \cup flapped

\* What an entity's life says of the rest: an unborn entity is nowhere, only a
\* living one has components, and nothing is from the future.
LifeInv ==
  /\ \A e \in despawned : life[e] = "dead"
  /\ \A e \in Entities : \A c \in has[e] : life[e] = "alive" /\ at[e][c] # 0
  /\ \A e \in Entities : \A c \in Components : at[e][c] <= Now
  /\ \A e \in Entities : mutationTicks[e] <= serverTick
  /\ \A info \in mutations : info.tick <= serverTick
  /\ replicating \/ \A e \in Entities : mutationTicks[e] = 0
  /\ \A e \in Entities : life[e] = "unborn" =>
       /\ mutationTicks[e] = 0 /\ e \notin mapped
       /\ e \notin filter.added \cup filter.removed
       /\ \A c \in Components : value[e][c] = 0
       /\ \A i \in DOMAIN updates : ~Touches(updates[i], e)
       /\ \A m \in InFlight : e \notin m.entities

\* An update message has content only for the entities it changes.
ShapeInv ==
  \A i \in DOMAIN updates : \A e \in Entities : \A c \in Components :
    updates[i].values[e][c] # 0 => e \in updates[i].changed

\* Copies of a component by age: the server's is the youngest, a later update
\* message is no older than an earlier one or than what the client has, and a
\* mutate message is no older than what was sent up to its tick.
AgesInv(e, c) ==
  /\ life[e] = "alive" =>
       /\ value[e][c] <= at[e][c]
       /\ \A i \in DOMAIN updates : updates[i].values[e][c] <= at[e][c]
       /\ \A m \in InFlight : e \in m.entities => m.values[e][c] <= at[e][c]
  /\ \A i \in DOMAIN updates : updates[i].values[e][c] # 0 =>
       /\ value[e][c] <= updates[i].values[e][c]
       /\ \A j \in DOMAIN updates : i > j =>
            updates[j].values[e][c] <= updates[i].values[e][c]
       /\ \A m \in InFlight : e \in m.entities /\ m.tick < updates[i].tick =>
            m.values[e][c] <= updates[i].values[e][c]
  /\ \A m \in InFlight : e \in m.entities /\ m.values[e][c] # 0 =>
       /\ confirmed[e] < m.tick => value[e][c] <= m.values[e][c]
       /\ \A i \in DOMAIN updates : updates[i].tick <= m.tick =>
            updates[i].values[e][c] <= m.values[e][c]
       /\ \A n \in InFlight : e \in n.entities /\ n.tick < m.tick =>
            n.values[e][c] <= m.values[e][c]

\* A mutate message may yet be applied to an entity.
Reaches(m, e) == IsReady(m) => e \in mapped /\ confirmed[e] < m.tick

\* The server sends only mutations of what an entity has, not the whole entity.
Settled(e) ==
  mutationTicks[e] # 0 /\ (filter.policy = "Whitelist" => filter.list[e] = "Visible")

\* Then the client has its components, or will have when the updates are applied,
\* except those inserted since the last tick.
BeliefInv ==
  \A e \in Alive : Settled(e) =>
    \A c \in has[e] \ added[e] : \E v \in Ticks \ {0} : WillHold(e, c, updateTick, v)

\* The updates a mutate message waits for bring what it mutates.
PresenceInv(m) ==
  \A e \in m.entities : \A c \in Components :
    m.values[e][c] # 0 /\ Reaches(m, e) =>
      \E v \in Ticks \ {0} : WillHold(e, c, m.updateTick, v)

\* What was never sent to a client, or was removed there, is not there.
AbsenceInv ==
  \A e \in Alive : \A c \in Components :
    mutationTicks[e] = 0 \/ (e \notin flapped /\ c \notin has[e] \cup removals[e]) =>
      WillHold(e, c, updateTick, 0)

\* A mutation tick is as late as the last update message about its entity.
TouchInv ==
  \A e \in Alive :
    /\ \A i \in DOMAIN updates : Touches(updates[i], e) =>
         mutationTicks[e] = 0 \/ updates[i].tick <= mutationTicks[e]
    /\ mutationTicks[e] # 0 => WillBeMapped(e)

\* What has not changed since its mutation tick is delivered, or about to be.
AckedInv ==
  \A e \in Alive \ held : \A c \in has[e] :
    at[e][c] <= mutationTicks[e] => WillHold(e, c, updateTick, at[e][c])

\* The server's content of a component, 0 if there is none.
Content(e, c) == IF c \in has[e] THEN at[e][c] ELSE 0

\* A component the client is told about: its entity is visible, and it was not
\* removed while a flapped entity was hidden.
Known(e, c) == e \notin held /\ (c \in has[e] \/ e \notin flapped)

\* What has not changed since the tick confirmed for an entity is there,
ClientInv ==
  \A e \in Alive \cap mapped : \A c \in Components :
    Known(e, c) /\ at[e][c] <= confirmed[e] => value[e][c] = Content(e, c)

\* will be there when an update message about it is applied,
UpdateInv(u) ==
  \A e \in Alive \cap Touched(u) : \A c \in Components :
    Known(e, c) /\ at[e][c] <= u.tick => WillHold(e, c, u.tick, Content(e, c))

\* and will be there when a mutate message about it is.
SnapshotInv(m) ==
  \A e \in Alive \cap m.entities : \A c \in Components :
    Known(e, c) /\ at[e][c] <= m.tick /\ Reaches(m, e) =>
      \/ c \in has[e] /\ m.values[e][c] = at[e][c]
      \/ (c \in has[e] \/ m.values[e][c] = 0) /\ WillHold(e, c, m.updateTick, Content(e, c))

\* An acknowledgement in transit is of mutations the client has.
AcksInv ==
  \A i \in DOMAIN acks : \A info \in mutations : info.index \in acks[i] =>
    \A e \in Alive \cap info.entities :
      e \notin held /\ 0 < mutationTicks[e] /\ mutationTicks[e] < info.tick =>
        \A c \in has[e] : at[e][c] <= info.tick => WillHold(e, c, updateTick, at[e][c])

\* A mutate message in transit is the one registered under its index.
IndexInv ==
  \A m \in InFlight, info \in mutations : m.index = info.index =>
    m.tick = info.tick /\ m.entities = info.entities

\* No index a tick may use is that of a message or an acknowledgement in transit.
FreshIndices ==
  \A split \in Splits(MutatedEntities) :
    /\ Len(split) <= IndexRange
    /\ \A i \in DOMAIN split :
         /\ \A m \in InFlight : m.index # IndexOf(i)
         /\ \A k \in DOMAIN acks : IndexOf(i) \notin acks[k]

\* The ages of contents.
BaseInv == LifeInv /\ ShapeInv /\ \A e \in Entities, c \in Components : AgesInv(e, c)

\* What the client has or is about to get.
SeenInv == FilterInv /\ BeliefInv /\ \A m \in InFlight : PresenceInv(m)

\* With which content.
ContentInv ==
  /\ AbsenceInv /\ TouchInv /\ AckedInv /\ ClientInv
  /\ \A i \in DOMAIN updates : UpdateInv(updates[i])
  /\ \A m \in InFlight : SnapshotInv(m)
  /\ AcksInv
  /\ IndexInv

-----------------------------------------------------------------------------
\* The contents on the server, on the client and in the messages are ticks.
LEMMA ContentTypes ==
  ASSUME TypeOK
  PROVE  /\ \A e \in Entities, c \in Components :
              value[e][c] \in Ticks /\ at[e][c] \in Ticks
         /\ \A e \in Entities : mutationTicks[e] \in Ticks /\ confirmed[e] \in Ticks
         /\ \A i \in DOMAIN updates : \A e \in Entities, c \in Components :
              updates[i].values[e][c] \in Ticks
         /\ \A m \in InFlight : m.entities \subseteq Entities
         /\ \A m \in InFlight : \A e \in Entities, c \in Components :
              m.values[e][c] \in Ticks
         /\ Ticks \subseteq Nat
<1>1. \A i \in DOMAIN updates : updates[i] \in UpdateMessages
  BY MessageTicks
<1>2. InFlight \subseteq MutateMessages
  BY DEF TypeOK, InFlight
<1>3. \A u \in UpdateMessages : \A e \in Entities, c \in Components : u.values[e][c] \in Ticks
  BY DEF UpdateMessages, Values
<1>4. \A m \in MutateMessages :
        /\ m.entities \subseteq Entities
        /\ \A e \in Entities, c \in Components : m.values[e][c] \in Ticks
  BY DEF MutateMessages, Values
<1>5. /\ \A e \in Entities, c \in Components : value[e][c] \in Ticks /\ at[e][c] \in Ticks
      /\ \A e \in Entities : mutationTicks[e] \in Ticks /\ confirmed[e] \in Ticks
  BY DEF TypeOK, Values
<1> QED BY <1>1, <1>2, <1>3, <1>4, <1>5, BoundsAssumption DEF Ticks

\* A mutate message that a tick sends.
IsNew(m) ==
  /\ m.tick = Now
  /\ m.updateTick = SentUpdateTick
  /\ m.entities \subseteq MutatedEntities
  /\ \A e \in Entities, c \in Components :
       m.values[e][c] = IF e \in m.entities /\ c \in Mutated(e) THEN at[e][c] ELSE 0

\* The update message of a tick.
LEMMA UpdateMessageFields ==
  /\ UpdateMessage.tick = Now
  /\ UpdateMessage.despawns = Despawns
  /\ \A e \in Entities :
       /\ UpdateMessage.removals[e] = IF e \in Seen THEN RemovalBuffer(e) ELSE {}
       /\ e \in UpdateMessage.changed <=>
            e \in Seen /\ InUpdate(e) /\ (NewEntity(e) \/ Inserted(e) \cup Mutated(e) # {})
       /\ e \in Touched(UpdateMessage) <=> e \in Seen /\ InUpdate(e)
       /\ \A c \in Components : UpdateMessage.values[e][c] =
            IF e \in Seen /\ InUpdate(e) /\ c \in Inserted(e) \cup Mutated(e)
            THEN at[e][c] ELSE 0
<1> DEFINE u == UpdateMessage
<1>1. /\ u.tick = Now
      /\ u.despawns = Despawns
      /\ u.removals = [e \in Entities |-> IF e \in Seen THEN RemovalBuffer(e) ELSE {}]
      /\ u.changed =
           {e \in Seen : InUpdate(e) /\ (NewEntity(e) \/ Inserted(e) \cup Mutated(e) # {})}
      /\ u.values = [e \in Entities |-> [c \in Components |->
                   IF e \in Seen /\ InUpdate(e) /\ c \in Inserted(e) \cup Mutated(e)
                   THEN at[e][c] ELSE 0]]
  BY DEF UpdateMessage
<1> HIDE DEF u
<1>2. Seen \subseteq Entities
  BY DEF Seen, Alive
<1>3. \A e \in Entities : e \in Touched(u) <=> e \in Seen /\ InUpdate(e)
  BY <1>1, <1>2 DEF Touched, InUpdate
<1> QED BY <1>1, <1>3 DEF u

\* What a tick sends, when the client replicates.
LEMMA TickSends ==
  ASSUME TypeOK, Tick, replicating
  PROVE  /\ updateTick' = SentUpdateTick
         /\ \/ /\ IsEmptyUpdate(UpdateMessage)
               /\ updates' = updates /\ updateTick' = updateTick
            \/ /\ ~IsEmptyUpdate(UpdateMessage)
               /\ updates' = Append(updates, UpdateMessage) /\ updateTick' = Now
         /\ \A m \in InFlight' : m \in InFlight \/ IsNew(m)
         /\ UNCHANGED <<life, has, at, clientVars>> /\ InFlight \subseteq InFlight'
         /\ UpdateMessage \in UpdateMessages /\ serverTick' = Now
<1>1. Send /\ UNCHANGED <<life, has, at, clientVars>> /\ serverTick' = Now
  BY DEF Tick
<1>2. UpdateMessage \in UpdateMessages
  BY MessagesTyped DEF Tick
<1>3. PICK split \in Splits(MutatedEntities) :
          mutates' = mutates \cup {MutateMessage(IndexOf(i), split[i]) : i \in DOMAIN split}
  BY <1>1 DEF Send
<1>4. \A i \in DOMAIN split : split[i] \subseteq MutatedEntities
  BY <1>3 DEF Splits
<1>5. \A i \in DOMAIN split : IsNew(MutateMessage(IndexOf(i), split[i]))
  BY <1>4 DEF MutateMessage, IsNew
<1>6. \A m \in InFlight' : m \in InFlight \/ IsNew(m)
  BY <1>1, <1>3, <1>5 DEF InFlight, clientVars
<1>7. InFlight \subseteq InFlight'
  BY <1>1, <1>3 DEF InFlight, clientVars
<1> QED BY <1>1, <1>2, <1>6, <1>7 DEF Send, SentUpdateTick

\* What game code may do to an entity: it comes to life once, and what changes
\* is stamped with the tick to come.
Edited(e) ==
  /\ life'[e] = "unborn" =>
       /\ life[e] = "unborn"
       /\ e \in filter'.added \cup filter'.removed => e \in filter.added \cup filter.removed
  /\ e \in despawned' => life'[e] = "dead"
  /\ \A c \in has'[e] : life'[e] = "alive" /\ at'[e][c] # 0
  /\ \A c \in Components : at'[e][c] <= Now
  /\ life'[e] = "alive" =>
       \/ life[e] = "unborn" /\ has'[e] = added'[e]
       \/ /\ life[e] = "alive"
          /\ \A c \in Components :
               /\ at'[e][c] = Now \/ (at'[e][c] = at[e][c] /\ (c \in has'[e] <=> c \in has[e]))
               /\ c \in has'[e] \ added'[e] => c \in has[e] \ added[e]
               /\ c \notin has'[e] \cup removals'[e] => c \notin has[e] \cup removals[e]

\* Game code edits the world and the filter, and nothing else.
LEMMA WorldEffect ==
  ASSUME TypeOK, LifeInv, World
  PROVE  /\ UNCHANGED <<serverTick, replicating, mutationTicks, updateTick, mutations,
                        nextIndex, channels, clientVars>>
         /\ flapped \subseteq flapped'
         /\ \A e \in Entities : Edited(e)
<1> DEFINE Rest == UNCHANGED <<serverTick, replicating, mutationTicks, updateTick,
                               mutations, nextIndex, channels, clientVars>>
<1>0. serverTick \in Nat /\ Now \in Nat /\ Now # 0
  BY MessageTicks DEF Now
<1>1. \A f \in Entities :
        /\ f \in despawned => life[f] = "dead"
        /\ \A c \in has[f] : life[f] = "alive" /\ at[f][c] # 0
        /\ \A c \in Components : at[f][c] <= Now
  BY DEF LifeInv
<1>2. ASSUME NEW e \in Entities, NEW cs \in SUBSET Components, Spawn(e, cs),
             NEW f \in Entities
      PROVE  Edited(f) /\ Rest /\ flapped' = flapped
  BY <1>0, <1>1, <1>2 DEF Spawn, Edited, serverVars, TypeOK, Values
<1>3. ASSUME NEW e \in Entities, Despawn(e), NEW f \in Entities
      PROVE  Edited(f) /\ Rest /\ flapped' = flapped
  BY <1>0, <1>1, <1>3 DEF Despawn, Edited, serverVars, TypeOK, Values
<1>4. ASSUME NEW e \in Entities, NEW d \in Components, Insert(e, d), NEW f \in Entities
      PROVE  Edited(f) /\ Rest /\ flapped' = flapped
  BY <1>0, <1>1, <1>4 DEF Insert, Edited, serverVars, TypeOK, Values
<1>5. ASSUME NEW e \in Entities, NEW d \in Components, Remove(e, d), NEW f \in Entities
      PROVE  Edited(f) /\ Rest /\ flapped' = flapped
  BY <1>0, <1>1, <1>5 DEF Remove, Edited, serverVars, TypeOK, Values
<1>6. ASSUME NEW e \in Entities, NEW d \in Components, Mutate(e, d), NEW f \in Entities
      PROVE  Edited(f) /\ Rest /\ flapped' = flapped
  BY <1>0, <1>1, <1>6 DEF Mutate, Edited, serverVars, TypeOK, Values
<1>7. ASSUME NEW e \in Entities, NEW visible \in BOOLEAN, CallSetVisibility(e, visible),
             NEW f \in Entities
      PROVE  Edited(f) /\ Rest /\ flapped \subseteq flapped'
  <2>1. PICK p \in PoliciesUsed : filter \in Filters(p)
    BY DEF TypeOK
  <2>2. f # e => /\ f \in filter'.added <=> f \in filter.added
                 /\ f \in filter'.removed <=> f \in filter.removed
    BY <1>7, <2>1, SetVisibilityEntry, PoliciesAssumption DEF CallSetVisibility
  <2>3. life[e] = "alive" /\ life' = life
    BY <1>7 DEF CallSetVisibility
  <2>4. life'[f] = "unborn" =>
       /\ life[f] = "unborn"
       /\ f \in filter'.added \cup filter'.removed => f \in filter.added \cup filter.removed
    BY <2>2, <2>3
  <2> QED BY <1>0, <1>1, <1>7, <2>4 DEF CallSetVisibility, Edited, TypeOK, Values
<1> QED BY <1>2, <1>3, <1>4, <1>5, <1>6, <1>7 DEF World

-----------------------------------------------------------------------------
(* Ages: older copies have older contents.                                 *)

\* Everything is absent at first.
LEMMA InitBaseInv == Init => BaseInv
<1> SUFFICES ASSUME Init PROVE BaseInv
  OBVIOUS
<1>1. LifeInv
  BY PoliciesAssumption DEF Init, LifeInv, NoComponents, NoValues, Now, Touches, InFlight, NewFilter
<1>2. ShapeInv
  BY DEF Init, ShapeInv
<1>3. \A e \in Entities, c \in Components : AgesInv(e, c)
  BY DEF Init, AgesInv, InFlight
<1> QED BY <1>1, <1>2, <1>3 DEF BaseInv

\* Game code only makes the server's contents younger.
LEMMA WorldBaseInv ==
  ASSUME TypeOK, BaseInv, World
  PROVE  BaseInv'
<1>1. LifeInv /\ ShapeInv /\ \A e \in Entities, c \in Components : AgesInv(e, c)
  BY DEF BaseInv
<1>2. /\ UNCHANGED <<serverTick, replicating, mutationTicks, mutations, updates, mutates,
                     buffered, mapped, confirmed, value>>
      /\ \A e \in Entities : Edited(e)
  BY <1>1, WorldEffect DEF channels, clientVars
<1>3. /\ InFlight' = InFlight
      /\ \A i \in DOMAIN updates : \A e : Touches(updates[i], e)' <=> Touches(updates[i], e)
  BY <1>2 DEF InFlight, Touches, Touched
<1>4. LifeInv'
  <2>1. \A e \in despawned' : life'[e] = "dead"
    <3>1. TypeOK'
      BY WorldTypeOK
    <3> QED BY <1>2, <3>1 DEF Edited, TypeOK
  <2>2. \A e \in Entities :
          /\ \A c \in has'[e] : life'[e] = "alive" /\ at'[e][c] # 0
          /\ \A c \in Components : at'[e][c] <= Now
          /\ life'[e] = "unborn" => life[e] = "unborn"
    BY <1>2 DEF Edited
  <2>3. Now' = Now
    BY <1>2 DEF Now
  <2>4. \A e \in Entities : life'[e] = "unborn" =>
          e \notin filter'.added \cup filter'.removed
    BY <1>1, <1>2 DEF LifeInv, Edited
  <2> QED BY <1>1, <1>2, <1>3, <2>1, <2>2, <2>3, <2>4 DEF LifeInv, Touches, Touched
<1>5. ShapeInv'
  BY <1>1, <1>2 DEF ShapeInv
<1>6. ASSUME NEW e \in Entities, NEW c \in Components PROVE AgesInv(e, c)'
  <2>1. ASSUME life'[e] = "alive"
        PROVE  /\ value[e][c] <= at'[e][c]
               /\ \A i \in DOMAIN updates : updates[i].values[e][c] <= at'[e][c]
               /\ \A m \in InFlight : e \in m.entities => m.values[e][c] <= at'[e][c]
    <3>1. at'[e][c] \in Nat /\ Now \in Nat
      <4>1. TypeOK' /\ serverTick \in Nat
        BY WorldTypeOK, MessageTicks
      <4> QED BY <4>1, BoundsAssumption DEF TypeOK, Values, Ticks, Now
    <3>2. CASE life[e] = "unborn"
      <4>1. /\ value[e][c] = 0
            /\ \A i \in DOMAIN updates : updates[i].values[e][c] = 0
            /\ \A m \in InFlight : e \notin m.entities
        BY <1>1, <3>2 DEF LifeInv, ShapeInv, Touches, Touched
      <4> QED BY <3>1, <4>1
    <3>3. CASE life[e] = "alive"
      <4>1. at[e][c] <= at'[e][c] /\ at[e][c] \in Nat
        BY <1>1, <1>2, <2>1, <3>1, <3>3, ContentTypes DEF Edited, LifeInv
      <4> QED BY <1>1, <3>1, <3>3, <4>1, ContentTypes DEF AgesInv
    <3> QED BY <1>2, <2>1, <3>2, <3>3 DEF Edited
  <2> QED BY <1>1, <1>2, <1>3, <2>1 DEF AgesInv
<1> QED BY <1>4, <1>5, <1>6 DEF BaseInv

\* What draining leaves of the entry of an entity that was not despawned, and
\* what it yields.
LEMMA DrainEntry ==
  ASSUME NEW p \in Policies, NEW v \in Filters(p), NEW gone \in SUBSET Entities
  PROVE  LET w == DrainLost(RemoveDespawned(v, gone))
             lost == Lost(RemoveDespawned(v, gone))
         IN  /\ w.policy = p /\ v.policy = p
             /\ lost \subseteq v.added \cup v.removed
             /\ w.added \subseteq v.added /\ w.removed \subseteq v.removed
             /\ \A e \in Entities \ gone :
                  /\ w.list[e] = v.list[e]
                  /\ p = "Blacklist" =>
                       (e \in lost <=> e \in v.added) /\ (e \in w.removed <=> e \in v.removed)
                  /\ p = "Whitelist" =>
                       (e \in lost <=> e \in v.removed) /\ (e \in w.added <=> e \in v.added)
                  /\ p = "All" => e \notin lost /\ w.list[e] = "None"
<1>1. CASE p = "Blacklist"
  BY <1>1 DEF Filters, Entries, DrainLost, RemoveDespawned, Lost
<1>2. CASE p = "Whitelist"
  BY <1>2 DEF Filters, Entries, DrainLost, RemoveDespawned, Lost
<1>3. CASE p = "All"
  BY <1>3 DEF Filters, Entries, DrainLost, RemoveDespawned, Lost
<1> QED BY <1>1, <1>2, <1>3 DEF Policies

\* The same of a tick: what it loses, sees and leaves of a living entity's entry.
LEMMA TickEntry ==
  ASSUME TypeOK, Tick, replicating
  PROVE  /\ filter'.policy = filter.policy /\ filter.policy \in Policies
         /\ filter'.added \subseteq filter.added /\ filter'.removed \subseteq filter.removed
         /\ LostVisibility \subseteq filter.added \cup filter.removed
         /\ \A e \in Entities \ despawned :
              /\ State(Drained, e) = State(filter, e)
              /\ filter.list[e] \in Entries(filter.policy)
              /\ filter.policy = "Blacklist" =>
                   /\ e \in LostVisibility <=> e \in filter.added
                   /\ filter'.list[e] = IF e \in filter.removed THEN "None" ELSE filter.list[e]
                   /\ filter'.added = {} /\ filter'.removed = {}
              /\ filter.policy = "Whitelist" =>
                   /\ e \in LostVisibility <=> e \in filter.removed
                   /\ filter'.list[e] = IF e \in filter.added THEN "Visible" ELSE filter.list[e]
                   /\ filter'.added = {} /\ filter'.removed = {}
              /\ filter.policy = "All" => e \notin LostVisibility /\ filter.list[e] = "None"
<1>1. PICK p \in PoliciesUsed : filter \in Filters(p)
  BY DEF TypeOK
<1>2. p \in Policies /\ filter.policy = p /\ despawned \in SUBSET Entities
  BY <1>1, PoliciesAssumption DEF Filters, TypeOK
<1>3. filter' = EndOfTick(Drained)
  BY DEF Tick, Send
<1>4. Drained \in Filters(p) /\ Drained.policy = p
  BY <1>1, <1>2, DrainTyped, DrainEntry DEF Drained
<1>5. /\ LostVisibility \subseteq filter.added \cup filter.removed
      /\ Drained.added \subseteq filter.added /\ Drained.removed \subseteq filter.removed
      /\ \A e \in Entities \ despawned :
           /\ Drained.list[e] = filter.list[e]
           /\ p = "Blacklist" =>
                (e \in LostVisibility <=> e \in filter.added) /\
                (e \in Drained.removed <=> e \in filter.removed)
           /\ p = "Whitelist" =>
                (e \in LostVisibility <=> e \in filter.removed) /\
                (e \in Drained.added <=> e \in filter.added)
           /\ p = "All" => e \notin LostVisibility /\ Drained.list[e] = "None"
  BY <1>1, <1>2, DrainEntry DEF Drained, LostVisibility
<1>6. /\ filter'.policy = p
      /\ filter'.added \subseteq Drained.added /\ filter'.removed \subseteq Drained.removed
  BY <1>2, <1>3, <1>4 DEF EndOfTick, Policies, Filters
<1>7. \A e \in Entities \ despawned :
        State(Drained, e) = State(filter, e) /\ filter.list[e] \in Entries(p)
  BY <1>1, <1>2, <1>4, <1>5 DEF State, Filters
<1>8. /\ p = "Blacklist" => filter'.added = {} /\ filter'.removed = {}
      /\ p = "Whitelist" => filter'.added = {} /\ filter'.removed = {}
      /\ \A e \in Entities :
           /\ p = "Blacklist" =>
                filter'.list[e] = IF e \in Drained.removed THEN "None" ELSE Drained.list[e]
           /\ p = "Whitelist" =>
                filter'.list[e] = IF e \in Drained.added THEN "Visible" ELSE Drained.list[e]
  <2>1. /\ p = "Blacklist" =>
             /\ EndOfTick(Drained).added = {} /\ EndOfTick(Drained).removed = {}
             /\ EndOfTick(Drained).list = [e \in Entities |->
                  IF e \in Drained.removed THEN "None" ELSE Drained.list[e]]
        /\ p = "Whitelist" =>
             /\ EndOfTick(Drained).added = {} /\ EndOfTick(Drained).removed = {}
             /\ EndOfTick(Drained).list = [e \in Entities |->
                  IF e \in Drained.added THEN "Visible" ELSE Drained.list[e]]
    BY <1>2, <1>4, EndOfTickTyped
  <2> QED BY <1>3, <2>1
<1> QED BY <1>2, <1>5, <1>6, <1>7, <1>8

\* The mutation ticks a tick leaves.
LEMMA TickMutationTicks ==
  ASSUME TypeOK, Tick, replicating, NEW e \in Entities
  PROVE  /\ mutationTicks'[e] = IF e \in Seen /\ InUpdate(e) THEN Now ELSE MutationTick(e)
         /\ MutationTick(e) \in {0, mutationTicks[e]}
         /\ MutationTick(e) # 0 => e \notin Despawns \cup despawned
         /\ e \in Seen => life[e] = "alive"
BY DEF Tick, Send, MutationTick, Despawns, Seen, Alive

\* What a tick writes is what the server has, of entities it has.
LEMMA WrittenByTick ==
  ASSUME TypeOK, NEW e \in Entities, NEW c \in Components
  PROVE  /\ UpdateMessage.values[e][c] # 0 =>
              /\ UpdateMessage.values[e][c] = at[e][c]
              /\ life[e] = "alive" /\ e \in UpdateMessage.changed
         /\ \A m : IsNew(m) /\ e \in m.entities =>
              /\ life[e] = "alive" /\ e \in Seen /\ ~InUpdate(e)
              /\ m.values[e][c] # 0 => m.values[e][c] = at[e][c]
BY UpdateMessageFields DEF Seen, Alive, IsNew, MutatedEntities

\* The updates in transit after a tick: those before it, and possibly its own.
LEMMA TickUpdates ==
  ASSUME TypeOK, Tick, replicating, NEW i \in DOMAIN updates'
  PROVE  \/ /\ i \in DOMAIN updates /\ updates'[i] = updates[i]
         \/ /\ i = Len(updates) + 1 /\ updates'[i] = UpdateMessage
            /\ updates' = Append(updates, UpdateMessage)
<1>1. UpdateMessage \in UpdateMessages /\ updates \in Seq(UpdateMessages)
  BY TickSends DEF TypeOK
<1>2. updates' = updates \/ updates' = Append(updates, UpdateMessage)
  BY TickSends
<1> QED BY <1>1, <1>2

\* The mutate messages a tick registers are its own.
LEMMA TickInfos ==
  ASSUME TypeOK, LifeInv, Tick
  PROVE  \A info \in mutations' : info.tick <= serverTick'
<1>1. /\ serverTick' = serverTick + 1 /\ serverTick \in Nat /\ Now = serverTick + 1
      /\ \A info \in mutations : info.tick <= serverTick /\ info.tick \in Nat
  BY MessageTicks, BoundsAssumption DEF Tick, Now, LifeInv, TypeOK, MutateInfos, Ticks
<1>2. \A info \in mutations' : info \in mutations \/ info.tick = Now
  BY DEF Tick, Send, Registered
<1> QED BY <1>1, <1>2

\* What a tick sends is as young as what the server has.
LEMMA TickBaseInv ==
  ASSUME TypeOK, OrderInv, BaseInv, Tick
  PROVE  BaseInv'
<1>0. /\ LifeInv /\ ShapeInv /\ \A e \in Entities, c \in Components : AgesInv(e, c)
      /\ serverTick' = Now /\ Now' = Now + 1 /\ serverTick \in Nat /\ Now = serverTick + 1
      /\ UNCHANGED <<life, has, at, clientVars, replicating>> /\ despawned' = {}
  BY MessageTicks DEF BaseInv, Tick, Now
<1>1. CASE ~replicating
  <2>1. UNCHANGED <<mutationTicks, updates, mutates, filter, value, mapped>>
    BY <1>0, <1>1 DEF Tick, clientVars
  <2>2. InFlight' = InFlight
    BY <1>0, <2>1 DEF InFlight, clientVars
  <2>3. LifeInv'
    <3>1. \A e \in Entities, c \in Components : at[e][c] <= Now'
      BY <1>0, ContentTypes DEF LifeInv
    <3>2. \A e \in Entities : mutationTicks[e] <= serverTick'
      BY <1>0, ContentTypes DEF LifeInv
    <3> QED BY <1>0, <2>1, <2>2, <3>1, <3>2, TickInfos DEF LifeInv, Touches, Touched
  <2>4. ShapeInv' /\ \A e \in Entities, c \in Components : AgesInv(e, c)'
    BY <1>0, <2>1, <2>2 DEF ShapeInv, AgesInv, clientVars
  <2> QED BY <2>3, <2>4 DEF BaseInv
<1>2. CASE replicating
  <2>1. /\ \A m \in InFlight' : m \in InFlight \/ IsNew(m)
        /\ UNCHANGED <<mapped, confirmed, value>>
    BY <1>2, TickSends DEF clientVars
  <2>2. /\ \A i \in DOMAIN updates : updates[i].tick <= serverTick /\ updates[i].tick \in Nat
        /\ \A m \in InFlight : m.tick <= serverTick /\ m.tick \in Nat
        /\ \A e \in Entities : confirmed[e] <= serverTick
    BY <1>0, MessageTicks DEF OrderInv, UpdatesInv, MutateInv, ConfirmedInv
  <2>3. LifeInv'
    <3>1. ASSUME NEW e \in Entities
          PROVE  /\ mutationTicks'[e] <= serverTick'
                 /\ life[e] = "unborn" => mutationTicks'[e] = 0
      BY <1>0, <1>2, TickMutationTicks, ContentTypes DEF LifeInv
    <3>2. ASSUME NEW e \in Entities, life[e] = "unborn"
          PROVE  /\ \A i \in DOMAIN updates' : ~Touches(updates'[i], e)
                 /\ \A m \in InFlight' : e \notin m.entities
                 /\ e \notin filter'.added \cup filter'.removed
      <4>1. e \notin Seen /\ e \notin despawned
        BY <1>0, <3>2 DEF LifeInv, Seen, Alive
      <4>2. e \notin LostVisibility /\ e \notin filter'.added \cup filter'.removed
        BY <1>0, <1>2, <3>2, TickEntry DEF LifeInv
      <4>3. ~Touches(UpdateMessage, e)
        BY <4>1, <4>2, UpdateMessageFields DEF Touches, Despawns
      <4>4. \A m : IsNew(m) => e \notin m.entities
        BY <4>1 DEF IsNew, MutatedEntities
      <4> QED BY <1>0, <1>2, <2>1, <3>2, <4>2, <4>3, <4>4, TickUpdates DEF LifeInv
    <3>3. \A e \in Entities, c \in Components : at[e][c] <= Now'
      BY <1>0, ContentTypes DEF LifeInv
    <3> QED BY <1>0, <1>2, <2>1, <3>1, <3>2, <3>3, TickInfos DEF LifeInv, Touches, Touched
  <2>4. ShapeInv'
    BY <1>0, <1>2, TickUpdates, WrittenByTick DEF ShapeInv
  <2>5. ASSUME NEW e \in Entities, NEW c \in Components PROVE AgesInv(e, c)'
    <3> DEFINE old(i) == i \in DOMAIN updates /\ updates'[i] = updates[i]
               new(i) == updates'[i].tick = Now /\ updates'[i].values[e][c] \in {0, at[e][c]}
                           /\ i = Len(updates) + 1
                           /\ (updates'[i].values[e][c] # 0 => life[e] = "alive")
    <3>1. \A i \in DOMAIN updates' : old(i) \/ new(i)
      BY <1>2, TickUpdates, WrittenByTick, UpdateMessageFields
    <3>2. \A m \in InFlight' : e \in m.entities =>
            m \in InFlight \/ (m.tick = Now /\ life[e] = "alive"
                                 /\ m.values[e][c] \in {0, at[e][c]})
      BY <2>1, WrittenByTick DEF IsNew
    <3>3. /\ value[e][c] \in Nat /\ at[e][c] \in Nat
          /\ \A i \in DOMAIN updates : updates[i].values[e][c] \in Nat
          /\ \A m \in InFlight : m.values[e][c] \in Nat
          /\ Len(updates) \in Nat /\ DOMAIN updates = 1..Len(updates)
      BY ContentTypes, MessageTicks
    <3> HIDE DEF old, new
    <3>4. AgesInv(e, c)
      BY <1>0
    <3>5. life[e] = "alive" =>
            /\ \A i \in DOMAIN updates' : updates'[i].values[e][c] <= at[e][c]
            /\ \A m \in InFlight' : e \in m.entities => m.values[e][c] <= at[e][c]
      BY <3>1, <3>2, <3>3, <3>4 DEF AgesInv, old, new
    <3>6. ASSUME NEW i \in DOMAIN updates', updates'[i].values[e][c] # 0
          PROVE  /\ value[e][c] <= updates'[i].values[e][c]
                 /\ \A j \in DOMAIN updates' : i > j =>
                      updates'[j].values[e][c] <= updates'[i].values[e][c]
                 /\ \A m \in InFlight' : e \in m.entities /\ m.tick < updates'[i].tick =>
                      m.values[e][c] <= updates'[i].values[e][c]
      <4>1. CASE old(i)
        BY <1>0, <2>2, <3>1, <3>2, <3>3, <3>4, <3>6, <4>1 DEF AgesInv, old, new
      <4>2. CASE new(i)
        BY <3>3, <3>4, <3>5, <3>6, <4>2 DEF AgesInv, new
      <4> QED BY <3>1, <4>1, <4>2
    <3>7. ASSUME NEW m \in InFlight', e \in m.entities, m.values[e][c] # 0
          PROVE  /\ confirmed[e] < m.tick => value[e][c] <= m.values[e][c]
                 /\ \A i \in DOMAIN updates' : updates'[i].tick <= m.tick =>
                      updates'[i].values[e][c] <= m.values[e][c]
                 /\ \A n \in InFlight' : e \in n.entities /\ n.tick < m.tick =>
                      n.values[e][c] <= m.values[e][c]
      <4>1. CASE m \in InFlight
        BY <1>0, <2>2, <3>1, <3>2, <3>3, <3>4, <3>7, <4>1 DEF AgesInv, old, new
      <4>2. CASE m \notin InFlight
        BY <3>2, <3>3, <3>4, <3>5, <3>7, <4>2 DEF AgesInv
      <4> QED BY <4>1, <4>2
    <3> QED BY <1>0, <2>1, <3>4, <3>5, <3>6, <3>7 DEF AgesInv
  <2> QED BY <2>3, <2>4, <2>5 DEF BaseInv
<1> QED BY <1>1, <1>2

\* The update messages in transit once the first is applied.
LEMMA TailUpdates ==
  ASSUME TypeOK, ApplyUpdateMessage
  PROVE  LET n == Len(updates)
         IN  /\ n \in Nat \ {0} /\ DOMAIN updates = 1..n /\ Head(updates) = updates[1]
             /\ DOMAIN updates' = 1..(n - 1)
             /\ \A i \in DOMAIN updates' : i + 1 \in DOMAIN updates /\ updates'[i] = updates[i + 1]
             /\ \A i \in DOMAIN updates :
                  i = 1 \/ (i - 1 \in DOMAIN updates' /\ updates'[i - 1] = updates[i])
<1> DEFINE n == Len(updates)
<1>1. updates \in Seq(UpdateMessages) /\ updates # <<>> /\ updates' = Tail(updates)
  BY DEF TypeOK, ApplyUpdateMessage
<1>2. n \in Nat \ {0} /\ DOMAIN updates = 1..n /\ Head(updates) = updates[1]
  BY <1>1
<1>3. DOMAIN updates' = 1..(n - 1) /\ \A i \in 1..(n - 1) : updates'[i] = updates[i + 1]
  BY <1>1, <1>2
<1> QED BY <1>2, <1>3

\* What the first update message does to the client.
LEMMA ApplyEffect ==
  ASSUME TypeOK, ApplyUpdateMessage, NEW e \in Entities
  PROVE  LET u == updates[1]
         IN  /\ clientTick' = u.tick
             /\ e \in mapped' <=> e \in Touched(u) \/ e \in mapped \ u.despawns
             /\ confirmed'[e] = IF e \in Touched(u) THEN u.tick
                                ELSE IF e \in u.despawns THEN 0 ELSE confirmed[e]
             /\ \A c \in Components :
                  value'[e][c] = IF Writes(u, e, c) THEN u.values[e][c] ELSE value[e][c]
             /\ UNCHANGED <<worldVars, serverVars, mutates, acks, buffered, held>>
             /\ InFlight' = InFlight
<1>1. updates[1] = Head(updates)
  BY TailUpdates
<1> QED BY <1>1 DEF ApplyUpdateMessage, Updated, Writes, InFlight

\* Applying an update message keeps the order of ages.
LEMMA ApplyBaseInv ==
  ASSUME TypeOK, OrderInv, BaseInv, ApplyUpdateMessage
  PROVE  BaseInv'
<1> DEFINE u == updates[1]
<1>1. LifeInv /\ ShapeInv /\ \A e \in Entities, c \in Components : AgesInv(e, c)
  BY DEF BaseInv
<1>2. UNCHANGED <<life, has, at, despawned, replicating, serverTick, mutationTicks,
                  mutations, filter>>
      /\ InFlight' = InFlight
  BY DEF ApplyUpdateMessage, worldVars, serverVars, InFlight
<1>3. 1 \in DOMAIN updates /\ Now' = Now
  BY <1>2, TailUpdates DEF Now
<1>4. LifeInv'
  <2>1. ASSUME NEW e \in Entities, life[e] = "unborn"
        PROVE  /\ e \notin mapped' /\ \A c \in Components : value'[e][c] = 0
               /\ \A i \in DOMAIN updates' : ~Touches(updates'[i], e)
    <3>1. ~Touches(u, e) /\ \A c \in Components : ~Writes(u, e, c)
      BY <1>1, <1>3, <2>1 DEF LifeInv, ShapeInv, Touches, Touched, Writes
    <3> QED BY <1>1, <2>1, <3>1, ApplyEffect, TailUpdates DEF LifeInv, Touches
  <2> QED BY <1>1, <1>2, <1>3, <2>1 DEF LifeInv, Touches, Touched
<1>5. ShapeInv'
  BY <1>1, TailUpdates DEF ShapeInv
<1>6. ASSUME NEW e \in Entities, NEW c \in Components PROVE AgesInv(e, c)'
  <2>1. /\ value'[e][c] \in {0, value[e][c], u.values[e][c]}
        /\ u.values[e][c] = 0 => value'[e][c] \in {0, value[e][c]}
        /\ confirmed'[e] \in {0, confirmed[e], u.tick}
        /\ u.values[e][c] # 0 => confirmed'[e] = u.tick
        /\ \/ confirmed'[e] \in {confirmed[e], u.tick}
           \/ value'[e][c] = 0
    BY <1>1, <1>3, ApplyEffect DEF ShapeInv, Touched, Writes
  <2>2. /\ value[e][c] \in Nat /\ at[e][c] \in Nat /\ confirmed[e] \in Nat
        /\ \A i \in DOMAIN updates :
             updates[i].values[e][c] \in Nat /\ updates[i].tick \in Nat
        /\ \A m \in InFlight : m.values[e][c] \in Nat /\ m.tick \in Nat
        /\ DOMAIN updates = 1..Len(updates) /\ Len(updates) \in Nat
    BY ContentTypes, MessageTicks
  <2>3. confirmed[e] < u.tick
    BY <1>3 DEF OrderInv, ConfirmedInv
  <2>4. AgesInv(e, c)
    BY <1>1
  <2>5. life[e] = "alive" =>
       /\ value'[e][c] <= at[e][c]
       /\ \A i \in DOMAIN updates' : updates'[i].values[e][c] <= at[e][c]
    BY <1>3, <2>1, <2>2, <2>4, TailUpdates DEF AgesInv
  <2>6. ASSUME NEW i \in DOMAIN updates', updates'[i].values[e][c] # 0
        PROVE  /\ value'[e][c] <= updates'[i].values[e][c]
               /\ \A j \in DOMAIN updates' : i > j =>
                    updates'[j].values[e][c] <= updates'[i].values[e][c]
               /\ \A m \in InFlight : e \in m.entities /\ m.tick < updates'[i].tick =>
                    m.values[e][c] <= updates'[i].values[e][c]
    <3>1. i \in Nat /\ i + 1 \in DOMAIN updates /\ updates'[i] = updates[i + 1] /\ i + 1 > 1
      BY <2>2, TailUpdates
    <3>2. value'[e][c] <= updates'[i].values[e][c]
      BY <1>3, <2>1, <2>2, <2>4, <2>6, <3>1 DEF AgesInv
    <3>3. ASSUME NEW j \in DOMAIN updates', i > j
          PROVE  updates'[j].values[e][c] <= updates'[i].values[e][c]
      <4>1. j + 1 \in DOMAIN updates /\ updates'[j] = updates[j + 1] /\ i + 1 > j + 1
        BY <2>2, <3>1, <3>3, TailUpdates
      <4> QED BY <2>4, <2>6, <3>1, <4>1 DEF AgesInv
    <3> QED BY <2>4, <2>6, <3>1, <3>2, <3>3 DEF AgesInv
  <2>7. ASSUME NEW m \in InFlight, e \in m.entities, m.values[e][c] # 0
        PROVE  /\ confirmed'[e] < m.tick => value'[e][c] <= m.values[e][c]
               /\ \A i \in DOMAIN updates' : updates'[i].tick <= m.tick =>
                    updates'[i].values[e][c] <= m.values[e][c]
    <3>1. confirmed'[e] < m.tick => value'[e][c] <= m.values[e][c]
      BY <1>3, <2>1, <2>2, <2>3, <2>4, <2>7 DEF AgesInv
    <3> QED BY <2>2, <2>4, <2>7, <3>1, TailUpdates DEF AgesInv
  <2> QED BY <1>2, <2>4, <2>5, <2>6, <2>7 DEF AgesInv
<1> QED BY <1>4, <1>5, <1>6 DEF BaseInv

\* The mutate messages a frame applies to an entity, and what they leave.
LEMMA ReceiveEffect ==
  ASSUME TypeOK, NEW arrived \in SUBSET mutates, ReceiveMutations(arrived),
         NEW e \in Entities
  PROVE  /\ UNCHANGED <<worldVars, serverVars, updates, clientTick, mapped>>
         /\ InFlight' \subseteq InFlight
         /\ \/ /\ confirmed'[e] = confirmed[e]
               /\ \A c \in Components : value'[e][c] = value[e][c]
            \/ \E m \in InFlight :
                 /\ e \in m.entities /\ IsReady(m) /\ Reaches(m, e)
                 /\ confirmed[e] < m.tick /\ confirmed'[e] = m.tick
                 /\ \A c \in Components : value'[e][c] =
                      IF m.values[e][c] # 0 THEN m.values[e][c] ELSE value[e][c]
<1> DEFINE ready == {m \in buffered \cup arrived : IsReady(m)}
           wins == Newest(e, ready) # {}
           winner == CHOOSE m \in Newest(e, ready) : TRUE
<1>1. /\ UNCHANGED <<worldVars, serverVars, updates, clientTick, mapped>>
      /\ InFlight' \subseteq InFlight
  BY DEF ReceiveMutations, InFlight
<1>2. /\ confirmed'[e] = IF wins THEN winner.tick ELSE confirmed[e]
      /\ \A c \in Components : value'[e][c] =
           IF wins /\ winner.values[e][c] # 0 THEN winner.values[e][c] ELSE value[e][c]
  BY DEF ReceiveMutations
<1>3. wins => winner \in Newest(e, ready)
  OBVIOUS
<1> HIDE DEF wins, winner
<1>4. wins => /\ winner \in InFlight /\ e \in winner.entities /\ IsReady(winner)
              /\ winner.tick > confirmed[e] /\ e \in mapped
  BY <1>3 DEF Newest, InFlight
<1>5. wins => winner.tick \in Nat /\ confirmed[e] \in Nat
  BY <1>4, MessageTicks
<1> QED BY <1>1, <1>2, <1>4, <1>5 DEF Reaches

\* Applying mutate messages keeps the order of ages.
LEMMA ReceiveBaseInv ==
  ASSUME TypeOK, OrderInv, BaseInv, NEW arrived \in SUBSET mutates,
         ReceiveMutations(arrived)
  PROVE  BaseInv'
<1>1. LifeInv /\ ShapeInv /\ \A e \in Entities, c \in Components : AgesInv(e, c)
  BY DEF BaseInv
<1>2. /\ UNCHANGED <<worldVars, serverVars, updates, clientTick, mapped>>
      /\ InFlight' \subseteq InFlight
  BY DEF ReceiveMutations, InFlight
<1>3. /\ UNCHANGED <<life, has, at, despawned, replicating, serverTick, mutationTicks,
                     mutations, filter, updates, mapped>>
      /\ Now' = Now
  BY <1>2 DEF worldVars, serverVars, Now
<1>4. \A i \in DOMAIN updates : \A e \in Entities : confirmed'[e] < updates[i].tick
  BY <1>3, ReceiveMutationsOrderInv DEF OrderInv, ConfirmedInv
<1>5. LifeInv'
  <2>1. \A e \in Entities : life[e] = "unborn" => \A c \in Components : value'[e][c] = 0
    BY <1>1, ReceiveEffect DEF LifeInv, Reaches
  <2> QED BY <1>1, <1>2, <1>3, <2>1 DEF LifeInv, Touches, Touched
<1>6. ShapeInv'
  BY <1>1, <1>3 DEF ShapeInv
<1>7. ASSUME NEW e \in Entities, NEW c \in Components PROVE AgesInv(e, c)'
  <2>1. AgesInv(e, c)
    BY <1>1
  <2>2. /\ value[e][c] \in Nat /\ at[e][c] \in Nat /\ confirmed[e] \in Nat
        /\ \A i \in DOMAIN updates :
             updates[i].values[e][c] \in Nat /\ updates[i].tick \in Nat
        /\ \A m \in InFlight : m.values[e][c] \in Nat /\ m.tick \in Nat
    BY ContentTypes, MessageTicks
  <2>3. CASE confirmed'[e] = confirmed[e] /\ value'[e][c] = value[e][c]
    BY <1>2, <1>3, <2>1, <2>3 DEF AgesInv
  <2>4. ASSUME NEW m \in InFlight, e \in m.entities,
               confirmed[e] < m.tick, confirmed'[e] = m.tick,
               value'[e][c] \in {m.values[e][c], value[e][c]},
               m.values[e][c] # 0 => value'[e][c] = m.values[e][c],
               value'[e][c] = value[e][c] \/ m.values[e][c] # 0
        PROVE  AgesInv(e, c)'
    <3>1. \A i \in DOMAIN updates : updates[i].values[e][c] # 0 =>
            value'[e][c] <= updates[i].values[e][c]
      BY <1>4, <2>1, <2>2, <2>4 DEF AgesInv
    <3>2. life[e] = "alive" => value'[e][c] <= at[e][c]
      BY <2>1, <2>2, <2>4 DEF AgesInv
    <3>3. ASSUME NEW n \in InFlight, e \in n.entities, n.values[e][c] # 0,
                 confirmed'[e] < n.tick
          PROVE  value'[e][c] <= n.values[e][c]
      BY <2>1, <2>2, <2>4, <3>3 DEF AgesInv
    <3> QED BY <1>2, <1>3, <2>1, <3>1, <3>2, <3>3 DEF AgesInv
  <2> QED BY <2>3, <2>4, ReceiveEffect
<1> QED BY <1>5, <1>6, <1>7 DEF BaseInv

\* A mutation tick is raised to the tick of an acknowledged message.
LEMMA AckedTick ==
  ASSUME TypeOK, ReceiveAcks, NEW e \in Entities
  PROVE  \/ mutationTicks'[e] = mutationTicks[e]
         \/ \E info \in mutations :
              /\ info.index \in acks[1] /\ e \in info.entities
              /\ 0 < mutationTicks[e] /\ mutationTicks[e] < info.tick
              /\ mutationTicks'[e] = info.tick
<1> DEFINE newest == {t \in AckedTicks(e, Head(acks)) :
                        /\ t > mutationTicks[e]
                        /\ \A s \in AckedTicks(e, Head(acks)) : s <= t}
           t == CHOOSE t \in newest : TRUE
<1>1. mutationTicks'[e] = IF mutationTicks[e] = 0 \/ newest = {} THEN mutationTicks[e] ELSE t
  BY DEF ReceiveAcks, Acknowledge
<1>2. newest # {} => t \in newest
  OBVIOUS
<1>3. mutationTicks[e] \in Nat /\ \A info \in mutations : info.tick \in Nat
  BY ContentTypes, BoundsAssumption DEF TypeOK, MutateInfos, Ticks
<1>4. Head(acks) = acks[1]
  BY DEF ReceiveAcks, TypeOK
<1> HIDE DEF t
<1> QED BY <1>1, <1>2, <1>3, <1>4 DEF AckedTicks

\* Steps of the server and the channels that touch no content.
LEMMA QuietBaseInv ==
  ASSUME TypeOK, BaseInv,
         \/ StartReplication
         \/ ReceiveAcks
         \/ \E tick \in Ticks : CleanupAcks(tick)
         \/ \E m \in mutates : Lose(m)
         \/ UNCHANGED vars
  PROVE  BaseInv'
<1>1. LifeInv /\ ShapeInv /\ \A e \in Entities, c \in Components : AgesInv(e, c)
  BY DEF BaseInv
<1>2. /\ UNCHANGED <<worldVars, serverTick, filter, updates, clientVars>>
      /\ InFlight' \subseteq InFlight /\ mutations' \subseteq mutations
      /\ replicating \in BOOLEAN /\ (replicating => replicating')
  BY DEF StartReplication, ReceiveAcks, CleanupAcks, Lose, InFlight, vars, serverVars,
     clientVars, channels, TypeOK
<1>3. UNCHANGED <<life, has, at, despawned, serverTick, filter, updates, mapped,
                  value, confirmed>> /\ Now' = Now
  BY <1>2 DEF worldVars, clientVars, Now
<1>4. \A e \in Entities :
        /\ mutationTicks'[e] <= serverTick
        /\ mutationTicks[e] = 0 => mutationTicks'[e] = 0
  <2>1. CASE ReceiveAcks
    BY <1>1, <2>1, AckedTick, ContentTypes DEF LifeInv
  <2>2. CASE ~ReceiveAcks
    <3>1. mutationTicks' = mutationTicks
      BY <2>2 DEF StartReplication, CleanupAcks, Lose, vars, serverVars
    <3> QED BY <1>1, <3>1 DEF LifeInv
  <2> QED BY <2>1, <2>2
<1>5. LifeInv'
  BY <1>1, <1>2, <1>3, <1>4 DEF LifeInv, Touches, Touched
<1>6. ShapeInv' /\ \A e \in Entities, c \in Components : AgesInv(e, c)'
  BY <1>1, <1>2, <1>3 DEF ShapeInv, AgesInv
<1> QED BY <1>5, <1>6 DEF BaseInv

\* Every step keeps the order of ages.
LEMMA NextBaseInv == IInv /\ BaseInv /\ [Next]_vars => BaseInv'
<1> SUFFICES ASSUME TypeOK, OrderInv, BaseInv, [Next]_vars PROVE BaseInv'
  BY DEF IInv, OrderInv
<1>1. CASE World
  BY <1>1, WorldBaseInv
<1>2. CASE Tick
  BY <1>2, TickBaseInv
<1>3. CASE ApplyUpdateMessage
  BY <1>3, ApplyBaseInv
<1>4. ASSUME NEW arrived \in SUBSET mutates, ReceiveMutations(arrived) PROVE BaseInv'
  BY <1>4, ReceiveBaseInv
<1> QED BY <1>1, <1>2, <1>3, <1>4, QuietBaseInv DEF Next

\* The client never replaces what it has of a component by something older.
LEMMA NextNeverBackwards ==
  ASSUME IInv, BaseInv, [Next]_vars, NEW e \in Entities, NEW c \in Components,
         value[e][c] # 0, value'[e][c] # 0
  PROVE  value[e][c] <= value'[e][c]
<1>1. TypeOK /\ AgesInv(e, c) /\ value[e][c] \in Nat /\ confirmed[e] \in Nat
  BY ContentTypes DEF IInv, BaseInv, Ticks
<1>2. CASE ApplyUpdateMessage
  <2>1. 1 \in DOMAIN updates
    BY <1>1, <1>2, TailUpdates
  <2>2. value'[e][c] \in {value[e][c], updates[1].values[e][c]}
    BY <1>1, <1>2, ApplyEffect
  <2> QED BY <1>1, <2>1, <2>2 DEF AgesInv
<1>3. ASSUME NEW arrived \in SUBSET mutates, ReceiveMutations(arrived)
      PROVE  value[e][c] <= value'[e][c]
  BY <1>1, <1>3, ReceiveEffect DEF AgesInv
<1>4. CASE Tick
  BY <1>1, <1>4 DEF Tick, clientVars
<1>5. CASE World
  BY <1>1, <1>5, WorldEffect DEF BaseInv, clientVars
<1>6. CASE \/ StartReplication \/ ReceiveAcks \/ (\E tick \in Ticks : CleanupAcks(tick))
           \/ (\E m \in mutates : Lose(m)) \/ UNCHANGED vars
  BY <1>1, <1>6 DEF StartReplication, ReceiveAcks, CleanupAcks, Lose, vars, clientVars
<1> QED BY <1>2, <1>3, <1>4, <1>5, <1>6 DEF Next

-----------------------------------------------------------------------------
\* Update messages in transit are in the order of their ticks.
LEMMA UpdateTicks ==
  ASSUME TypeOK, OrderInv
  PROVE  /\ serverTick \in Nat /\ Now = serverTick + 1 /\ updateTick \in Nat
         /\ clientTick <= updateTick /\ updateTick <= serverTick
         /\ DOMAIN updates = 1..Len(updates) /\ Len(updates) \in Nat
         /\ \A i \in DOMAIN updates : /\ updates[i].tick \in Nat
                                      /\ updates[i].tick <= updateTick
                                      /\ clientTick < updates[i].tick
         /\ \A i, j \in DOMAIN updates : i < j => updates[i].tick < updates[j].tick
BY MessageTicks DEF OrderInv, UpdatesInv, Now

\* What the client will have as of a tick does not depend on what is sent later.
LEMMA HoldsThroughTick ==
  ASSUME TypeOK, OrderInv, Tick, replicating, NEW e \in Entities, NEW c \in Components,
         NEW t \in Nat, t <= serverTick, NEW v
  PROVE  WillHold(e, c, t, v)' <=> WillHold(e, c, t, v)
<1>1. value' = value /\ UpdateMessage.tick = Now /\ serverTick \in Nat /\ Now = serverTick + 1
  BY TickSends, UpdateMessageFields, UpdateTicks DEF clientVars
<1>2. CASE updates' = updates
  BY <1>1, <1>2 DEF WillHold
<1>3. CASE updates' = Append(updates, UpdateMessage)
  <2> DEFINE n == Len(updates)
  <2>1. updates \in Seq(UpdateMessages) /\ UpdateMessage \in UpdateMessages
    BY TickSends DEF TypeOK
  <2>2. /\ n \in Nat /\ DOMAIN updates = 1..n /\ DOMAIN updates' = 1..(n + 1)
        /\ \A i \in DOMAIN updates : updates'[i] = updates[i]
        /\ updates'[n + 1] = UpdateMessage
    BY <1>3, <2>1
  <2>3. \A i \in DOMAIN updates' : updates'[i].tick <= t => i \in DOMAIN updates
    BY <1>1, <2>2
  <2>4. DOMAIN updates \subseteq DOMAIN updates'
    BY <2>2
  <2> HIDE DEF n
  <2> QED BY <1>1, <2>2, <2>3, <2>4 DEF WillHold
<1> QED BY <1>2, <1>3, TickSends

\* Once a tick is sent the client will have what its update message writes,
\* and what it would have had of the rest.
LEMMA HoldsAfterTick ==
  ASSUME TypeOK, OrderInv, Tick, replicating, NEW e \in Entities, NEW c \in Components
  PROVE  /\ Writes(UpdateMessage, e, c) =>
              \A v : v = UpdateMessage.values[e][c] => WillHold(e, c, updateTick, v)'
         /\ ~Writes(UpdateMessage, e, c) =>
              \A v : WillHold(e, c, updateTick, v) => WillHold(e, c, updateTick, v)'
<1>1. /\ value' = value /\ UpdateMessage.tick = Now
      /\ updateTick' = IF IsEmptyUpdate(UpdateMessage) THEN updateTick ELSE Now
      /\ updates' = IF IsEmptyUpdate(UpdateMessage) THEN updates
                    ELSE Append(updates, UpdateMessage)
  BY TickSends, UpdateMessageFields DEF clientVars
<1>2. UpdateMessage.values[e][c] # 0 => e \in UpdateMessage.changed
  BY UpdateMessageFields, WrittenByTick
<1>3. CASE IsEmptyUpdate(UpdateMessage)
  <2>1. ~Writes(UpdateMessage, e, c)
    BY <1>2, <1>3 DEF IsEmptyUpdate, Writes
  <2> QED BY <1>1, <1>3, <2>1 DEF WillHold
<1>4. CASE ~IsEmptyUpdate(UpdateMessage)
  <2> DEFINE n == Len(updates)
  <2>1. updates \in Seq(UpdateMessages) /\ UpdateMessage \in UpdateMessages
    BY TickSends DEF TypeOK
  <2>2. /\ n \in Nat /\ DOMAIN updates = 1..n /\ DOMAIN updates' = 1..(n + 1)
        /\ \A i \in DOMAIN updates : updates'[i] = updates[i]
        /\ updates'[n + 1] = UpdateMessage
        /\ \A i \in DOMAIN updates' : i \in DOMAIN updates \/ i = n + 1
        /\ \A i \in DOMAIN updates' : i <= n + 1
        /\ DOMAIN updates \subseteq DOMAIN updates' /\ n + 1 \in DOMAIN updates'
    BY <1>1, <1>4, <2>1
  <2>3. \A i \in DOMAIN updates : updates[i].tick <= updateTick /\ updates[i].tick <= Now
    BY UpdateTicks
  <2>4. updateTick' = Now /\ Now <= Now
    BY <1>1, <1>4, UpdateTicks
  <2> HIDE DEF n
  <2>5. ASSUME Writes(UpdateMessage, e, c), NEW v, v = UpdateMessage.values[e][c]
        PROVE  WillHold(e, c, updateTick, v)'
    <3>1. /\ n + 1 \in DOMAIN updates'
          /\ updates'[n + 1].tick <= updateTick' /\ Writes(updates'[n + 1], e, c)
          /\ updates'[n + 1].values[e][c] = v
          /\ \A i \in DOMAIN updates' : i <= n + 1
      BY <1>1, <2>2, <2>4, <2>5
    <3> QED BY <3>1 DEF WillHold
  <2>6. ASSUME ~Writes(UpdateMessage, e, c), NEW v, WillHold(e, c, updateTick, v)
        PROVE  WillHold(e, c, updateTick, v)'
    <3>1. \A i \in DOMAIN updates' : Writes(updates'[i], e, c) =>
            i \in DOMAIN updates /\ updates'[i] = updates[i]
      BY <2>2, <2>6
    <3>2. \A i \in DOMAIN updates' : updates'[i].tick <= updateTick'
      BY <1>1, <2>2, <2>3, <2>4
    <3> QED BY <1>1, <2>2, <2>3, <2>6, <3>1, <3>2 DEF WillHold
  <2> QED BY <2>5, <2>6
<1> QED BY <1>3, <1>4

\* Applying the first update message does not change what the client will have
\* as of its tick or a later one.
LEMMA HoldsThroughApply ==
  ASSUME TypeOK, OrderInv, ApplyUpdateMessage, NEW e \in Entities, NEW c \in Components,
         NEW t \in Nat, updates[1].tick <= t, NEW v
  PROVE  WillHold(e, c, t, v) => WillHold(e, c, t, v)'
<1> DEFINE n == Len(updates)
           u == updates[1]
<1>1. /\ n \in Nat \ {0} /\ DOMAIN updates = 1..n /\ DOMAIN updates' = 1..(n - 1)
      /\ \A i \in DOMAIN updates' : i + 1 \in DOMAIN updates /\ updates'[i] = updates[i + 1]
      /\ \A i \in DOMAIN updates :
           i = 1 \/ (i - 1 \in DOMAIN updates' /\ updates'[i - 1] = updates[i])
  BY TailUpdates
<1>2. value'[e][c] = IF Writes(u, e, c) THEN u.values[e][c] ELSE value[e][c]
  BY ApplyEffect
<1> HIDE DEF n, u
<1> SUFFICES ASSUME WillHold(e, c, t, v) PROVE WillHold(e, c, t, v)'
  OBVIOUS
<1>3. CASE /\ value[e][c] = v
           /\ \A i \in DOMAIN updates : ~(updates[i].tick <= t /\ Writes(updates[i], e, c))
  BY <1>1, <1>2, <1>3 DEF WillHold, u
<1>4. ASSUME NEW i \in DOMAIN updates,
             updates[i].tick <= t /\ Writes(updates[i], e, c), updates[i].values[e][c] = v,
             \A j \in DOMAIN updates :
               updates[j].tick <= t /\ Writes(updates[j], e, c) => j <= i
      PROVE  WillHold(e, c, t, v)'
  <2>1. CASE i = 1
    <3>1. value'[e][c] = v
      BY <1>2, <1>4, <2>1 DEF u
    <3>2. ASSUME NEW j \in DOMAIN updates', updates'[j].tick <= t, Writes(updates'[j], e, c)
          PROVE  FALSE
      <4>1. j + 1 \in DOMAIN updates /\ updates'[j] = updates[j + 1] /\ j \in Nat \ {0}
        BY <1>1
      <4> QED BY <1>4, <2>1, <3>2, <4>1
    <3> QED BY <3>1, <3>2 DEF WillHold
  <2>2. CASE i # 1
    <3>1. i - 1 \in DOMAIN updates' /\ updates'[i - 1] = updates[i]
      BY <1>1, <2>2
    <3>2. ASSUME NEW j \in DOMAIN updates', updates'[j].tick <= t, Writes(updates'[j], e, c)
          PROVE  j <= i - 1
      <4>1. j + 1 \in DOMAIN updates /\ updates'[j] = updates[j + 1] /\ j \in Nat
        BY <1>1
      <4>2. j + 1 <= i /\ i \in Nat
        BY <1>1, <1>4, <3>2, <4>1
      <4> QED BY <4>1, <4>2
    <3> QED BY <1>4, <3>1, <3>2 DEF WillHold
  <2> QED BY <2>1, <2>2
<1> QED BY <1>3, <1>4 DEF WillHold

\* Applying mutate messages does not remove what the client will have.
LEMMA HoldsThroughReceive ==
  ASSUME TypeOK, NEW arrived \in SUBSET mutates, ReceiveMutations(arrived),
         NEW e \in Entities, NEW c \in Components, NEW t, NEW v
  PROVE  WillHold(e, c, t, v) =>
           \/ WillHold(e, c, t, v)'
           \/ v = value[e][c] /\ \A w : w = value'[e][c] => WillHold(e, c, t, w)'
<1>1. updates' = updates
  BY ReceiveEffect
<1> QED BY <1>1 DEF WillHold

\* Nothing that does not touch the update messages and the client does.
LEMMA HoldsIfUnchanged ==
  ASSUME UNCHANGED <<updates, value>>, NEW e, NEW c, NEW t, NEW v
  PROVE  WillHold(e, c, t, v)' <=> WillHold(e, c, t, v)
BY DEF WillHold

-----------------------------------------------------------------------------
\* The marks set_visibility leaves at the entity it is called with.
LEMMA SetVisibilityMarks ==
  ASSUME NEW p \in Policies, NEW v \in Filters(p), NEW e \in Entities,
         NEW visible \in BOOLEAN
  PROVE  LET w == SetVisibility(v, e, visible)
         IN  /\ p = "Blacklist" /\ (e \in v.added => v.list[e] = "Hidden")
                  /\ (e \in v.removed <=> v.list[e] = "QueuedForRemoval") =>
                  /\ e \in w.added => w.list[e] = "Hidden"
                  /\ e \in w.removed <=> w.list[e] = "QueuedForRemoval"
                  /\ v.list[e] = "None" \/ e \in v.added => w.list[e] = "None" \/ e \in w.added
             /\ p = "Whitelist" /\ (e \in v.added <=> v.list[e] = "JustAdded")
                  /\ (e \in v.removed => v.list[e] = "None") =>
                  /\ e \in w.added <=> w.list[e] = "JustAdded"
                  /\ e \in w.removed => w.list[e] = "None"
                  /\ w.list[e] = "None" /\ e \notin w.removed =>
                       \/ v.list[e] = "None" /\ e \notin v.removed
                       \/ ~visible /\ e \in v.added
                  /\ w.list[e] = "Visible" => v.list[e] = "Visible"
<1>1. CASE p = "Blacklist"
  BY <1>1 DEF Filters, Entries, SetVisibility, SetList, BlacklistShow, BlacklistHide
<1>2. CASE p = "Whitelist"
  BY <1>2 DEF Filters, Entries, SetVisibility, SetList, WhitelistShow, WhitelistHide
<1>3. CASE p = "All"
  BY <1>3
<1> QED BY <1>1, <1>2, <1>3 DEF Policies

\* Game code leaves the filter's entries and sets in agreement.
LEMMA WorldFilterInv ==
  ASSUME TypeOK, LifeInv, FilterInv, World
  PROVE  /\ FilterInv'
         /\ \A e \in Entities : Settled(e)' => Settled(e)
<1>1. /\ mutationTicks' = mutationTicks /\ flapped \subseteq flapped'
      /\ \A e \in Entities : Edited(e)
  BY WorldEffect
<1>2. \A e \in Entities : life'[e] # "dead" => life[e] # "dead"
  BY <1>1 DEF Edited, TypeOK, World, Spawn, Despawn, Insert, Remove, Mutate, CallSetVisibility
<1>3. CASE filter' = filter
  BY <1>1, <1>2, <1>3 DEF FilterInv, Settled
<1>4. ASSUME NEW e \in Entities, NEW visible \in BOOLEAN, CallSetVisibility(e, visible)
      PROVE  FilterInv' /\ \A f \in Entities : Settled(f)' => Settled(f)
  <2>1. PICK p \in PoliciesUsed : filter \in Filters(p)
    BY DEF TypeOK
  <2>2. p \in Policies /\ filter.policy = p
    BY <2>1, PoliciesAssumption DEF Filters
  <2>3. /\ filter' = SetVisibility(filter, e, visible) /\ life[e] = "alive" /\ life' = life
        /\ Flaps(e, visible) => e \in flapped'
    BY <1>4 DEF CallSetVisibility
  <2>4. /\ filter'.policy = p
        /\ \A f \in Entities \ {e} : /\ filter'.list[f] = filter.list[f]
                                     /\ f \in filter'.added <=> f \in filter.added
                                     /\ f \in filter'.removed <=> f \in filter.removed
    BY <2>1, <2>2, <2>3, SetVisibilityEntry
  <2>5. CASE p = "Blacklist"
    <3>1. /\ e \in filter'.added => filter'.list[e] = "Hidden"
          /\ e \in filter'.removed <=> filter'.list[e] = "QueuedForRemoval"
          /\ filter.list[e] = "None" \/ e \in filter.added =>
               filter'.list[e] = "None" \/ e \in filter'.added
      BY <2>1, <2>2, <2>3, <2>5, SetVisibilityMarks DEF FilterInv
    <3> QED BY <1>1, <1>2, <2>2, <2>3, <2>4, <2>5, <3>1 DEF FilterInv, Settled
  <2>6. CASE p = "Whitelist"
    <3>1. /\ e \in filter'.added <=> filter'.list[e] = "JustAdded"
          /\ e \in filter'.removed => filter'.list[e] = "None"
          /\ filter'.list[e] = "None" /\ e \notin filter'.removed =>
               \/ filter.list[e] = "None" /\ e \notin filter.removed
               \/ ~visible /\ e \in filter.added
          /\ filter'.list[e] = "Visible" => filter.list[e] = "Visible"
      BY <2>1, <2>2, <2>3, <2>6, SetVisibilityMarks DEF FilterInv
    <3>2. mutationTicks[e] # 0 /\ filter'.list[e] = "None" =>
            e \in filter'.removed \cup flapped'
      BY <1>1, <2>2, <2>3, <2>6, <3>1 DEF FilterInv, Flaps
    <3> QED BY <1>1, <1>2, <2>2, <2>3, <2>4, <2>6, <3>1, <3>2 DEF FilterInv, Settled
  <2>7. CASE p = "All"
    BY <1>1, <2>2, <2>4, <2>7 DEF FilterInv, Settled
  <2> QED BY <2>2, <2>5, <2>6, <2>7 DEF Policies
<1>5. filter' = filter \/ \E e \in Entities, visible \in BOOLEAN : CallSetVisibility(e, visible)
  BY DEF World, Spawn, Despawn, Insert, Remove, Mutate, serverVars
<1> QED BY <1>3, <1>4, <1>5

\* A tick brings the filter's entries up to date with the mutation ticks.
LEMMA TickFilterInv ==
  ASSUME TypeOK, LifeInv, FilterInv, Tick, replicating
  PROVE  FilterInv'
<1> SUFFICES ASSUME NEW e \in Entities, life'[e] # "dead"
             PROVE  /\ filter'.policy = "Blacklist" =>
                         /\ e \in filter'.added => filter'.list[e] = "Hidden"
                         /\ e \in filter'.removed <=> filter'.list[e] = "QueuedForRemoval"
                         /\ mutationTicks'[e] # 0 =>
                              filter'.list[e] = "None" \/ e \in filter'.added
                    /\ filter'.policy = "Whitelist" =>
                         /\ e \in filter'.added <=> filter'.list[e] = "JustAdded"
                         /\ e \in filter'.removed => filter'.list[e] = "None"
                         /\ mutationTicks'[e] # 0 /\ filter'.list[e] = "None" =>
                              e \in filter'.removed \cup flapped'
  BY DEF FilterInv
<1>1. life' = life /\ e \notin despawned /\ flapped' = flapped
  BY DEF LifeInv, Tick
<1>2. mutationTicks'[e] # 0 =>
        \/ State(filter, e) # "Hidden"
        \/ mutationTicks[e] # 0 /\ e \notin LostVisibility
  BY <1>1, TickMutationTicks, TickEntry DEF MutationTick, Seen, IsVisible
<1>3. /\ filter'.policy = filter.policy
      /\ filter.list[e] \in Entries(filter.policy)
  BY <1>1, TickEntry
<1>4. CASE filter.policy = "Blacklist"
  BY <1>1, <1>2, <1>3, <1>4, TickEntry DEF FilterInv, State, Entries
<1>5. CASE filter.policy = "Whitelist"
  BY <1>1, <1>2, <1>3, <1>5, TickEntry DEF FilterInv, State, Entries
<1> QED BY <1>3, <1>4, <1>5

\* A component that a tick takes for delivered is one the client will have.
LEMMA SeenIsBelieved ==
  ASSUME TypeOK, LifeInv, FilterInv, BeliefInv, Tick, replicating,
         NEW e \in Seen, ~NewEntity(e), MutationTick(e) # 0,
         NEW c \in has[e] \ Inserted(e)
  PROVE  \E v \in Ticks \ {0} : WillHold(e, c, updateTick, v)
<1>1. e \in Entities /\ e \in Alive /\ e \notin despawned
  BY DEF Seen, Alive, LifeInv
<1>2. mutationTicks[e] # 0 /\ c \in has[e] \ added[e]
  BY DEF MutationTick, Inserted
<1>3. /\ State(filter, e) # "Hidden" /\ State(filter, e) # "Gained"
      /\ filter.list[e] \in Entries(filter.policy)
  BY <1>1, TickEntry DEF Seen, IsVisible, NewEntity
<1>4. filter.policy = "Whitelist" => filter.list[e] = "Visible"
  BY <1>3 DEF State, Entries
<1> QED BY <1>1, <1>2, <1>4 DEF BeliefInv, Settled

\* What the update message of a tick does to a component the server has.
LEMMA TickWrites ==
  ASSUME TypeOK, LifeInv, NEW e \in Alive, NEW c \in has[e]
  PROVE  /\ e \in Entities /\ c \in Components /\ at[e][c] \in Ticks \ {0}
         /\ e \in Seen /\ InUpdate(e) /\ c \in Inserted(e) \cup Mutated(e) =>
              Writes(UpdateMessage, e, c) /\ UpdateMessage.values[e][c] = at[e][c]
         /\ Writes(UpdateMessage, e, c) /\ e \notin Despawns =>
              e \in Seen /\ InUpdate(e) /\ c \in Inserted(e) \cup Mutated(e)
<1>1. e \in Entities /\ c \in Components /\ at[e][c] \in Ticks \ {0}
  BY ContentTypes DEF LifeInv, Alive, TypeOK
<1>2. c \notin RemovalBuffer(e)
  BY DEF RemovalBuffer
<1>3. Seen \subseteq Entities
  BY DEF Seen, Alive
<1> QED BY <1>1, <1>2, <1>3, UpdateMessageFields DEF Writes

\* What the server believes the client to have survives a tick.
LEMMA TickBeliefInv ==
  ASSUME TypeOK, OrderInv, LifeInv, FilterInv, BeliefInv, Tick, replicating
  PROVE  BeliefInv'
<1> SUFFICES ASSUME NEW e \in Alive', Settled(e)', NEW c \in (has[e] \ added[e])'
             PROVE  \E v \in Ticks \ {0} : WillHold(e, c, updateTick, v)'
  BY DEF BeliefInv
<1>1. /\ life' = life /\ has' = has /\ e \in Alive /\ c \in has[e] /\ e \in Entities
      /\ e \notin despawned
  BY DEF Tick, Alive, LifeInv
<1>2. c \in Components /\ at[e][c] \in Ticks \ {0}
  BY <1>1, TickWrites
<1>3. CASE e \in Seen /\ InUpdate(e) /\ c \in Inserted(e) \cup Mutated(e)
  BY <1>1, <1>2, <1>3, TickWrites, HoldsAfterTick
<1>4. CASE ~(e \in Seen /\ InUpdate(e) /\ c \in Inserted(e) \cup Mutated(e))
  <2>1. MutationTick(e) # 0
    <3>1. CASE e \in Seen /\ InUpdate(e)
      BY <1>1, <1>4, <3>1 DEF Inserted
    <3>2. CASE ~(e \in Seen /\ InUpdate(e))
      BY <1>1, <3>2, TickMutationTicks DEF Settled
    <3> QED BY <3>1, <3>2
  <2>2. e \notin Despawns
    BY <1>1, <2>1, TickMutationTicks
  <2>3. ~Writes(UpdateMessage, e, c)
    BY <1>1, <1>4, <2>2, TickWrites
  <2>4. e \in Seen
    <3>1. SUFFICES ASSUME State(filter, e) = "Hidden" PROVE FALSE
      BY <1>1, TickEntry DEF Seen, IsVisible
    <3>2. /\ filter.list[e] \in Entries(filter.policy) /\ filter.policy \in Policies
          /\ mutationTicks[e] # 0 /\ e \notin LostVisibility
      BY <1>1, <2>1, TickEntry DEF MutationTick
    <3>3. CASE filter.policy = "Blacklist"
      BY <1>1, <3>1, <3>2, <3>3, TickEntry DEF FilterInv, State, Entries, Alive
    <3>4. CASE filter.policy = "Whitelist"
      BY <1>1, <3>1, <3>2, <3>4, TickEntry DEF FilterInv, State, Entries, Alive, Settled
    <3>5. CASE filter.policy = "All"
      BY <1>1, <3>1, <3>2, <3>5, TickEntry DEF State, Entries
    <3> QED BY <3>2, <3>3, <3>4, <3>5 DEF Policies
  <2>5. ~NewEntity(e) /\ c \notin Inserted(e)
    <3>1. c \notin Inserted(e)
      BY <1>4, <2>4 DEF InUpdate
    <3> QED BY <1>1, <3>1 DEF Inserted
  <2>6. PICK v \in Ticks \ {0} : WillHold(e, c, updateTick, v)
    BY <1>1, <2>1, <2>4, <2>5, SeenIsBelieved
  <2> QED BY <1>1, <1>2, <2>3, <2>6, HoldsAfterTick
<1> QED BY <1>3, <1>4

\* So do the components mutate messages are about, the new ones included.
LEMMA TickPresenceInv ==
  ASSUME TypeOK, OrderInv, LifeInv, SeenInv, Tick, replicating, NEW m \in InFlight'
  PROVE  PresenceInv(m)'
<1> SUFFICES ASSUME NEW e \in m.entities, NEW c \in Components, m.values[e][c] # 0,
                    Reaches(m, e)'
             PROVE  \E v \in Ticks \ {0} : WillHold(e, c, m.updateTick, v)'
  BY DEF PresenceInv
<1>1. UNCHANGED <<clientTick, mapped, confirmed, value, has>>
  BY TickSends DEF clientVars
<1>2. CASE m \in InFlight
  <2>1. e \in Entities
    BY <1>2, ContentTypes
  <2>2. PICK v \in Ticks \ {0} : WillHold(e, c, m.updateTick, v)
    BY <1>1, <1>2 DEF SeenInv, PresenceInv, Reaches, IsReady
  <2>3. m.updateTick \in Nat /\ m.updateTick <= serverTick
    BY <1>2, MessageTicks DEF OrderInv, MutateInv, UpdatesInv
  <2> QED BY <2>1, <2>2, <2>3, HoldsThroughTick
<1>3. CASE IsNew(m)
  <2>1. e \in Seen /\ e \in Entities /\ ~InUpdate(e) /\ c \in Mutated(e)
    BY <1>3 DEF IsNew, MutatedEntities, Seen, Alive
  <2>2. c \in has[e] \ Inserted(e) /\ ~NewEntity(e) /\ MutationTick(e) # 0
    BY <2>1 DEF Mutated, InUpdate, Inserted
  <2>3. PICK v \in Ticks \ {0} : WillHold(e, c, updateTick, v)
    BY <2>1, <2>2, SeenIsBelieved DEF SeenInv
  <2>4. ~Writes(UpdateMessage, e, c)
    <3>1. e \in Alive /\ e \notin Despawns
      BY <2>1, <2>2, TickMutationTicks DEF Seen
    <3> QED BY <2>1, <2>2, <3>1, TickWrites
  <2>5. m.updateTick = updateTick'
    BY <1>3, TickSends DEF IsNew
  <2>6. WillHold(e, c, updateTick, v)'
    BY <2>1, <2>3, <2>4, HoldsAfterTick
  <2> QED BY <2>5, <2>6 DEF WillHold
<1> QED BY <1>2, <1>3, TickSends

\* Applying an update message keeps what the server believes.
LEMMA ApplySeenInv ==
  ASSUME TypeOK, OrderInv, BaseInv, SeenInv, ApplyUpdateMessage
  PROVE  SeenInv'
<1> DEFINE u == updates[1]
<1>1. /\ UNCHANGED <<worldVars, serverVars>> /\ InFlight' = InFlight
      /\ UNCHANGED <<life, has, added, filter, mutationTicks, flapped, updateTick>>
      /\ clientTick' = u.tick
  <2>1. clientTick' = u.tick
    BY TailUpdates DEF ApplyUpdateMessage
  <2> QED BY <2>1 DEF ApplyUpdateMessage, worldVars, serverVars, InFlight
<1>2. 1 \in DOMAIN updates /\ u.tick \in Nat /\ u.tick <= updateTick /\ clientTick < u.tick
      /\ updateTick \in Nat /\ \A i \in DOMAIN updates : u.tick <= updates[i].tick
  BY TailUpdates, UpdateTicks
<1>3. FilterInv'
  BY <1>1 DEF SeenInv, FilterInv
<1>4. BeliefInv'
  <2> SUFFICES ASSUME NEW e \in Alive, Settled(e), NEW c \in has[e] \ added[e]
               PROVE  \E v \in Ticks \ {0} : WillHold(e, c, updateTick, v)'
    BY <1>1 DEF BeliefInv, Alive, Settled
  <2>1. e \in Entities /\ c \in Components
    BY DEF Alive, TypeOK
  <2>2. PICK v \in Ticks \ {0} : WillHold(e, c, updateTick, v)
    BY DEF SeenInv, BeliefInv
  <2>3. WillHold(e, c, updateTick, v)'
    <3>1. WillHold(e, c, updateTick, v) => \A t : t = updateTick => WillHold(e, c, t, v)'
      BY <1>2, <2>1, HoldsThroughApply
    <3> QED BY <1>1, <2>2, <3>1 DEF WillHold
  <2> QED BY <2>3
<1>5. ASSUME NEW m \in InFlight PROVE PresenceInv(m)'
  <2> SUFFICES ASSUME NEW e \in m.entities, NEW c \in Components, m.values[e][c] # 0,
                      Reaches(m, e)'
               PROVE  \E v \in Ticks \ {0} : WillHold(e, c, m.updateTick, v)'
    BY DEF PresenceInv
  <2>1. e \in Entities /\ m.updateTick \in Nat /\ m.tick \in Nat /\ MutateInv(m)
    BY ContentTypes, MessageTicks DEF OrderInv
  <2>2. CASE u.tick <= m.updateTick
    <3>1. ~IsReady(m)
      BY <1>2, <2>1, <2>2, MessageTicks DEF IsReady
    <3>2. PICK v \in Ticks \ {0} : WillHold(e, c, m.updateTick, v)
      BY <3>1 DEF SeenInv, PresenceInv, Reaches
    <3> QED BY <2>1, <2>2, <3>2, HoldsThroughApply
  <2>3. CASE m.updateTick < u.tick
    <3>1. /\ \A i \in DOMAIN updates : m.updateTick < updates[i].tick
          /\ m.tick < u.tick
      BY <1>2, <2>1, <2>3, UpdateTicks DEF MutateInv
    <3>2. IsReady(m) /\ IsReady(m)'
      BY <1>1, <1>2, <2>1, <3>1, UpdateTicks DEF MutateInv, IsReady
    <3>3. e \in mapped' /\ confirmed'[e] < m.tick
      BY <3>2 DEF Reaches
    <3>4. e \notin Touched(u) /\ e \in mapped \ u.despawns /\ confirmed'[e] = confirmed[e]
      <4>1. e \notin Touched(u)
        BY <1>2, <2>1, <3>1, <3>3, ApplyEffect
      <4> QED BY <2>1, <3>3, <4>1, ApplyEffect
    <3>5. ~Writes(u, e, c)
      BY <1>2, <2>1, <3>4 DEF BaseInv, ShapeInv, Writes, Touched
    <3>6. value'[e][c] = value[e][c]
      BY <2>1, <3>5, ApplyEffect
    <3>7. PICK v \in Ticks \ {0} : WillHold(e, c, m.updateTick, v)
      BY <3>3, <3>4 DEF SeenInv, PresenceInv, Reaches
    <3>8. value[e][c] = v
      BY <2>1, <3>1, <3>7, UpdateTicks DEF WillHold
    <3>9. \A i \in DOMAIN updates' : ~(updates'[i].tick <= m.updateTick)
      BY <2>1, <3>1, TailUpdates, UpdateTicks
    <3> QED BY <3>6, <3>8, <3>9 DEF WillHold
  <2> QED BY <1>2, <2>1, <2>2, <2>3
<1> QED BY <1>1, <1>3, <1>4, <1>5 DEF SeenInv

\* So does applying mutate messages: what they write is not absent.
LEMMA ReceiveSeenInv ==
  ASSUME TypeOK, OrderInv, SeenInv, NEW arrived \in SUBSET mutates,
         ReceiveMutations(arrived)
  PROVE  SeenInv'
<1>1. /\ UNCHANGED <<life, has, added, filter, mutationTicks, flapped, updateTick,
                     clientTick, mapped, updates>>
      /\ InFlight' \subseteq InFlight
  BY DEF ReceiveMutations, worldVars, serverVars, InFlight
<1>2. \A e \in Entities : \A c \in Components :
        /\ value[e][c] # 0 => value'[e][c] \in Ticks \ {0}
        /\ confirmed[e] \in Nat /\ confirmed'[e] \in Nat /\ confirmed[e] <= confirmed'[e]
  BY ReceiveEffect, ContentTypes, ReceiveMutationsTypeOK, MessageTicks
<1>3. ASSUME NEW e \in Entities, NEW c \in Components, NEW t, NEW v \in Ticks \ {0},
             WillHold(e, c, t, v)
      PROVE  \E w \in Ticks \ {0} : WillHold(e, c, t, w)'
  BY <1>2, <1>3, HoldsThroughReceive
<1>4. FilterInv'
  BY <1>1 DEF SeenInv, FilterInv
<1>5. BeliefInv'
  <2> SUFFICES ASSUME NEW e \in Alive, Settled(e), NEW c \in has[e] \ added[e]
               PROVE  \E v \in Ticks \ {0} : WillHold(e, c, updateTick, v)'
    BY <1>1 DEF BeliefInv, Alive, Settled
  <2>1. e \in Entities /\ c \in Components
    BY DEF Alive, TypeOK
  <2>2. PICK v \in Ticks \ {0} : WillHold(e, c, updateTick, v)
    BY DEF SeenInv, BeliefInv
  <2>3. \E w \in Ticks \ {0} : \A t : t = updateTick => WillHold(e, c, t, w)'
    BY <1>3, <2>1, <2>2
  <2> QED BY <1>1, <2>3 DEF WillHold
<1>6. ASSUME NEW m \in InFlight' PROVE PresenceInv(m)'
  <2> SUFFICES ASSUME NEW e \in m.entities, NEW c \in Components, m.values[e][c] # 0,
                      Reaches(m, e)'
               PROVE  \E v \in Ticks \ {0} : WillHold(e, c, m.updateTick, v)'
    BY DEF PresenceInv
  <2>1. m \in InFlight /\ e \in Entities /\ m.tick \in Nat
    BY <1>1, ContentTypes, MessageTicks
  <2>2. Reaches(m, e)
    BY <1>1, <1>2, <2>1 DEF Reaches, IsReady
  <2>3. PICK v \in Ticks \ {0} : WillHold(e, c, m.updateTick, v)
    BY <2>1, <2>2 DEF SeenInv, PresenceInv
  <2> QED BY <1>3, <2>1, <2>3
<1> QED BY <1>4, <1>5, <1>6 DEF SeenInv

\* Game code does not change what the client will have.
LEMMA WorldSeenInv ==
  ASSUME TypeOK, LifeInv, SeenInv, World
  PROVE  SeenInv'
<1>1. /\ UNCHANGED <<mutationTicks, updateTick, updates, value, mapped, confirmed,
                     clientTick>>
      /\ InFlight' = InFlight /\ \A e \in Entities : Edited(e)
  BY WorldEffect DEF channels, clientVars, InFlight
<1>2. FilterInv' /\ \A e \in Entities : Settled(e)' => Settled(e)
  BY WorldFilterInv DEF SeenInv
<1>3. BeliefInv'
  <2> SUFFICES ASSUME NEW e \in Alive', Settled(e)', NEW c \in has'[e] \ added'[e]
               PROVE  \E v \in Ticks \ {0} : WillHold(e, c, updateTick, v)'
    BY DEF BeliefInv
  <2>1. e \in Alive /\ Settled(e) /\ c \in has[e] \ added[e]
    <3>1. e \in Entities /\ life'[e] = "alive"
      BY DEF Alive
    <3>2. life[e] = "alive" /\ c \in Components
      <4>1. TypeOK'
        BY WorldTypeOK
      <4> QED BY <1>1, <3>1, <4>1 DEF Edited, TypeOK
    <3> QED BY <1>1, <1>2, <3>1, <3>2 DEF Edited, Alive
  <2>2. PICK v \in Ticks \ {0} : WillHold(e, c, updateTick, v)
    BY <2>1 DEF SeenInv, BeliefInv
  <2> QED BY <1>1, <2>2 DEF WillHold
<1>4. \A m \in InFlight' : PresenceInv(m)'
  BY <1>1 DEF SeenInv, PresenceInv, WillHold, Reaches, IsReady
<1> QED BY <1>2, <1>3, <1>4 DEF SeenInv

\* Nor do the steps that touch no content.
LEMMA QuietSeenInv ==
  ASSUME TypeOK, LifeInv, SeenInv,
         \/ StartReplication
         \/ Tick /\ ~replicating
         \/ ReceiveAcks
         \/ \E tick \in Ticks : CleanupAcks(tick)
         \/ \E m \in mutates : Lose(m)
         \/ UNCHANGED vars
  PROVE  SeenInv'
<1>1. /\ UNCHANGED <<life, has, filter, flapped, updateTick, updates, clientVars>>
      /\ InFlight' \subseteq InFlight
      /\ added' = added \/ (added' = NoComponents /\ Tick /\ ~replicating)
  BY DEF StartReplication, Tick, ReceiveAcks, CleanupAcks, Lose, InFlight, vars, serverVars,
     worldVars, clientVars, channels
<1>2. UNCHANGED <<mapped, value, confirmed, clientTick>>
  BY <1>1 DEF clientVars
<1>3. \A e \in Entities : mutationTicks'[e] # 0 => mutationTicks[e] # 0
  <2>1. CASE ReceiveAcks
    BY <2>1, AckedTick, ContentTypes
  <2>2. CASE ~ReceiveAcks
    BY <2>2 DEF StartReplication, Tick, CleanupAcks, Lose, vars, serverVars
  <2> QED BY <2>1, <2>2
<1>4. FilterInv'
  BY <1>1, <1>3 DEF SeenInv, FilterInv
<1>5. \A m \in InFlight' : PresenceInv(m)'
  BY <1>1, <1>2 DEF SeenInv, PresenceInv, WillHold, Reaches, IsReady
<1>6. CASE added' = added
  <2>1. BeliefInv'
    BY <1>1, <1>2, <1>3, <1>6 DEF SeenInv, BeliefInv, Alive, Settled, WillHold
  <2> QED BY <1>4, <1>5, <2>1 DEF SeenInv
<1>7. CASE Tick /\ ~replicating
  <2>1. \A e \in Entities : mutationTicks'[e] = 0
    BY <1>7 DEF LifeInv, Tick
  <2>2. BeliefInv'
    BY <2>1 DEF BeliefInv, Settled, Alive
  <2> QED BY <1>4, <1>5, <2>2 DEF SeenInv
<1> QED BY <1>1, <1>6, <1>7

\* Every step keeps it.
LEMMA NextSeenInv == IInv /\ BaseInv /\ SeenInv /\ [Next]_vars => SeenInv'
<1> SUFFICES ASSUME TypeOK, OrderInv, BaseInv, SeenInv, [Next]_vars PROVE SeenInv'
  BY DEF IInv, OrderInv
<1>0. LifeInv
  BY DEF BaseInv
<1>1. CASE World
  BY <1>0, <1>1, WorldSeenInv
<1>2. CASE Tick /\ replicating
  <2>1. FilterInv' /\ BeliefInv'
    BY <1>0, <1>2, TickFilterInv, TickBeliefInv DEF SeenInv
  <2>2. \A m \in InFlight' : PresenceInv(m)'
    BY <1>0, <1>2, TickPresenceInv
  <2> QED BY <2>1, <2>2 DEF SeenInv
<1>3. CASE ApplyUpdateMessage
  BY <1>3, ApplySeenInv
<1>4. ASSUME NEW arrived \in SUBSET mutates, ReceiveMutations(arrived) PROVE SeenInv'
  BY <1>4, ReceiveSeenInv
<1> QED BY <1>0, <1>1, <1>2, <1>3, <1>4, QuietSeenInv DEF Next

\* Nothing was sent and nothing believed at first.
LEMMA InitSeenInv == Init => SeenInv
<1> SUFFICES ASSUME Init PROVE SeenInv
  OBVIOUS
<1>1. InFlight = {} /\ Alive = {}
  BY DEF Init, InFlight, Alive
<1>2. FilterInv
  BY DEF Init, FilterInv, NewFilter
<1> QED BY <1>1, <1>2 DEF SeenInv, BeliefInv

\* Both invariants hold of every behaviour.
LEMMA SpecSeenInv == Spec => [](IInv /\ BaseInv /\ SeenInv)
<1>1. Init => IInv
  BY InitTypeOK, InitOrderInv DEF IInv, OrderInv
<1> QED BY <1>1, InitBaseInv, InitSeenInv, NextIInv, NextBaseInv, NextSeenInv, PTL DEF Spec

\* A component never goes back to older content, with mutate messages lost,
\* delayed and reordered (the outdated check of apply_mutations).
THEOREM ContentNeverBackwards == Spec => NeverBackwards
<1>1. ASSUME IInv, BaseInv, [Next]_vars
      PROVE  [\A e \in Entities : \A c \in Components :
                value[e][c] # 0 /\ value'[e][c] # 0 => value[e][c] <= value'[e][c]]_vars
  BY <1>1, NextNeverBackwards
<1> QED BY <1>1, SpecSeenInv, PTL DEF Spec, NeverBackwards

\* A mutate message the client can apply is older than the updates in transit.
LEMMA ReadyIsNext ==
  ASSUME TypeOK, OrderInv, NEW m \in InFlight, IsReady(m)
  PROVE  \A i \in DOMAIN updates : ~(updates[i].tick <= m.updateTick) /\ m.tick < updates[i].tick
BY UpdateTicks, MessageTicks DEF OrderInv, MutateInv, IsReady

\* What it is about is there.
LEMMA PresentIfReady ==
  ASSUME TypeOK, OrderInv, SeenInv
  PROVE  MutationsNeverInsert
<1> SUFFICES ASSUME NEW m \in InFlight, IsReady(m), NEW e \in m.entities \cap mapped,
                    m.tick > confirmed[e], NEW c \in Components, m.values[e][c] # 0
             PROVE  value[e][c] # 0
  BY DEF MutationsNeverInsert
<1>1. e \in Entities /\ confirmed[e] < m.tick
  <2>1. e \in Entities
    BY ContentTypes
  <2> QED BY <2>1, MessageTicks
<1>2. PICK v \in Ticks \ {0} : WillHold(e, c, m.updateTick, v)
  BY <1>1 DEF SeenInv, PresenceInv, Reaches
<1> QED BY <1>2, ReadyIsNext DEF WillHold

\* A mutate message that gets applied only changes components the client has.
THEOREM MutationsOnlyChange == Spec => []MutationsNeverInsert
<1>1. IInv /\ SeenInv => MutationsNeverInsert
  BY PresentIfReady DEF IInv, OrderInv
<1> QED BY <1>1, SpecSeenInv, PTL

-----------------------------------------------------------------------------
\* What game code did not change in this frame it leaves as it was.
LEMMA OldContent ==
  ASSUME TypeOK, LifeInv, World, NEW e \in Alive', life[e] # "unborn",
         NEW c \in Components, at'[e][c] <= serverTick
  PROVE  /\ e \in Alive /\ at'[e][c] = at[e][c] /\ (c \in has'[e] <=> c \in has[e])
         /\ Content(e, c)' = Content(e, c)
         /\ Known(e, c)' => Known(e, c)
<1>1. serverTick \in Nat /\ Now = serverTick + 1
  BY MessageTicks DEF Now
<1>2. /\ Edited(e) /\ e \in Entities /\ life'[e] = "alive"
      /\ held' = held /\ flapped \subseteq flapped'
  BY WorldEffect DEF Alive, clientVars
<1>3. e \in Alive /\ at'[e][c] = at[e][c] /\ (c \in has'[e] <=> c \in has[e])
  BY <1>1, <1>2 DEF Edited, Alive
<1> QED BY <1>2, <1>3 DEF Content, Known

\* Game code changes nothing that was delivered, and content it changed is newer
\* than everything that was.
LEMMA WorldContentInv ==
  ASSUME TypeOK, OrderInv, BaseInv, ContentInv, World
  PROVE  ContentInv'
<1>1. /\ UNCHANGED <<serverTick, mutationTicks, updateTick, mutations, updates, acks, held,
                     value, mapped, confirmed, clientTick>>
      /\ InFlight' = InFlight /\ \A e \in Entities : Edited(e)
      /\ flapped \subseteq flapped' /\ LifeInv /\ ShapeInv
  BY WorldEffect DEF BaseInv, channels, clientVars, InFlight
<1>2. /\ serverTick \in Nat
      /\ \A e \in Entities : mutationTicks[e] <= serverTick /\ mutationTicks[e] \in Nat
                             /\ confirmed[e] <= serverTick /\ confirmed[e] \in Nat
      /\ \A i \in DOMAIN updates : updates[i].tick <= serverTick /\ updates[i].tick \in Nat
      /\ \A m \in InFlight : m.tick <= serverTick /\ m.tick \in Nat
      /\ \A info \in mutations : info.tick <= serverTick
      /\ \A info \in mutations : info.tick \in Nat
  BY <1>1, MessageTicks, ContentTypes, BoundsAssumption
     DEF LifeInv, OrderInv, ConfirmedInv, UpdatesInv, MutateInv, TypeOK, MutateInfos, Ticks
<1>3. TypeOK'
  BY WorldTypeOK
<1>4. ASSUME NEW e \in Alive', NEW c \in Components
      PROVE  at[e][c] \in Nat /\ at'[e][c] \in Nat /\ e \in Entities
  BY <1>3, ContentTypes, BoundsAssumption DEF Alive, TypeOK, Values, Ticks
<1>5. \A e, c, t, v : WillHold(e, c, t, v)' <=> WillHold(e, c, t, v)
  BY <1>1 DEF WillHold
<1>6. AbsenceInv'
  <2> SUFFICES ASSUME NEW e \in Alive', NEW c \in Components,
                      mutationTicks[e] = 0 \/
                        (e \notin flapped' /\ c \notin has'[e] \cup removals'[e])
               PROVE  WillHold(e, c, updateTick, 0)
    BY <1>1 DEF AbsenceInv, WillHold
  <2>1. e \in Entities /\ Edited(e) /\ life'[e] = "alive"
    BY <1>1 DEF Alive
  <2>2. CASE life[e] = "unborn"
    BY <1>1, <2>1, <2>2 DEF LifeInv, ShapeInv, Touches, Touched, Writes, WillHold
  <2>3. CASE life[e] # "unborn"
    <3>1. e \in Alive /\ (c \notin has'[e] \cup removals'[e] => c \notin has[e] \cup removals[e])
      BY <2>1, <2>3 DEF Edited, Alive
    <3> QED BY <1>1, <3>1 DEF ContentInv, AbsenceInv
  <2> QED BY <2>2, <2>3
<1>7. TouchInv'
  <2> SUFFICES ASSUME NEW e \in Alive'
               PROVE  /\ \A i \in DOMAIN updates : Touches(updates[i], e) =>
                           mutationTicks[e] = 0 \/ updates[i].tick <= mutationTicks[e]
                      /\ mutationTicks[e] # 0 => WillBeMapped(e)
    BY <1>1 DEF TouchInv, WillBeMapped, Touches, Touched
  <2>1. e \in Entities /\ Edited(e) /\ life'[e] = "alive"
    BY <1>1 DEF Alive
  <2>2. CASE life[e] = "unborn"
    BY <1>1, <2>1, <2>2 DEF LifeInv
  <2>3. CASE life[e] # "unborn"
    BY <2>1, <2>3 DEF Edited, Alive, ContentInv, TouchInv
  <2> QED BY <2>2, <2>3
<1>8. AckedInv'
  <2> SUFFICES ASSUME NEW e \in Alive' \ held, NEW c \in has'[e],
                      at'[e][c] <= mutationTicks[e]
               PROVE  WillHold(e, c, updateTick, at'[e][c])
    BY <1>1 DEF AckedInv, WillHold
  <2>1. c \in Components /\ e \in Entities /\ at'[e][c] # 0
    BY <1>1, <1>3 DEF TypeOK, Alive, Edited
  <2>2. life[e] # "unborn"
    BY <1>1, <1>2, <1>4, <2>1 DEF LifeInv
  <2>3. at'[e][c] <= serverTick
    BY <1>2, <1>4, <2>1
  <2>4. e \in Alive /\ at'[e][c] = at[e][c] /\ c \in has[e]
    BY <1>1, <2>1, <2>2, <2>3, OldContent
  <2> QED BY <2>4 DEF ContentInv, AckedInv
<1>9. ClientInv'
  <2> SUFFICES ASSUME NEW e \in Alive' \cap mapped, NEW c \in Components, Known(e, c)',
                      at'[e][c] <= confirmed[e]
               PROVE  value[e][c] = Content(e, c)'
    BY <1>1 DEF ClientInv
  <2>1. life[e] # "unborn" /\ at'[e][c] <= serverTick
    BY <1>1, <1>2, <1>4 DEF LifeInv
  <2> QED BY <1>1, <2>1, OldContent DEF ContentInv, ClientInv
<1>10. ASSUME NEW i \in DOMAIN updates PROVE UpdateInv(updates[i])'
  <2> DEFINE u == updates[i]
  <2> SUFFICES ASSUME NEW e \in Alive' \cap Touched(u), NEW c \in Components, Known(e, c)',
                      at'[e][c] <= u.tick, NEW v, v = Content(e, c)'
               PROVE  WillHold(e, c, u.tick, v)
    BY <1>1 DEF UpdateInv, WillHold, Touched
  <2>1. life[e] # "unborn" /\ at'[e][c] <= serverTick
    BY <1>1, <1>2, <1>4 DEF LifeInv, Touches
  <2> QED BY <1>1, <2>1, OldContent DEF ContentInv, UpdateInv
<1>11. ASSUME NEW m \in InFlight PROVE SnapshotInv(m)'
  <2> SUFFICES ASSUME NEW e \in Alive' \cap m.entities, NEW c \in Components, Known(e, c)',
                      at'[e][c] <= m.tick, Reaches(m, e), NEW v, v = Content(e, c)'
               PROVE  \/ c \in has'[e] /\ m.values[e][c] = at'[e][c]
                      \/ /\ c \in has'[e] \/ m.values[e][c] = 0
                         /\ WillHold(e, c, m.updateTick, v)
    BY <1>1 DEF SnapshotInv, WillHold, Reaches, IsReady
  <2>1. life[e] # "unborn" /\ at'[e][c] <= serverTick
    BY <1>1, <1>2, <1>4 DEF LifeInv
  <2> QED BY <1>1, <2>1, OldContent DEF ContentInv, SnapshotInv
<1>12. AcksInv'
  <2> SUFFICES ASSUME NEW i \in DOMAIN acks, NEW info \in mutations, info.index \in acks[i],
                      NEW e \in Alive' \cap info.entities, e \notin held,
                      0 < mutationTicks[e], mutationTicks[e] < info.tick,
                      NEW c \in has'[e], at'[e][c] <= info.tick
               PROVE  WillHold(e, c, updateTick, at'[e][c])
    BY <1>1 DEF AcksInv, WillHold
  <2>1. e \in Entities /\ c \in Components
    BY <1>3 DEF Alive, TypeOK
  <2>2. life[e] # "unborn" /\ at'[e][c] <= serverTick
    BY <1>1, <1>2, <1>4, <2>1 DEF LifeInv
  <2>3. e \in Alive /\ at'[e][c] = at[e][c] /\ c \in has[e]
    BY <1>1, <2>1, <2>2, OldContent
  <2> QED BY <2>3 DEF ContentInv, AcksInv
<1>13. IndexInv'
  BY <1>1 DEF ContentInv, IndexInv
<1> QED BY <1>1, <1>6, <1>7, <1>8, <1>9, <1>10, <1>11, <1>12, <1>13 DEF ContentInv

\* An entity a tick neither updates nor takes from the client: it is seen, or it
\* is hidden without the whitelist having recorded that.
LEMMA PassedOver ==
  ASSUME TypeOK, LifeInv, FilterInv, Tick, replicating, NEW e \in Alive,
         MutationTick(e) # 0, e \notin Seen
  PROVE  e \in flapped
<1>1. /\ e \in Entities /\ e \notin despawned /\ life[e] # "dead"
      /\ mutationTicks[e] # 0 /\ e \notin LostVisibility
  BY DEF LifeInv, Alive, MutationTick
<1>2. /\ filter.list[e] \in Entries(filter.policy) /\ filter.policy \in Policies
      /\ State(filter, e) = "Hidden"
  BY <1>1, TickEntry DEF Seen, IsVisible
<1>3. CASE filter.policy = "Blacklist"
  BY <1>1, <1>2, <1>3, TickEntry DEF FilterInv, State, Entries
<1>4. CASE filter.policy = "Whitelist"
  BY <1>1, <1>2, <1>4, TickEntry DEF FilterInv, State, Entries
<1>5. CASE filter.policy = "All"
  BY <1>1, <1>2, <1>5, TickEntry DEF State, Entries
<1> QED BY <1>2, <1>3, <1>4, <1>5 DEF Policies

\* A component the server does not have is absent on the client, or will be.
LEMMA TickAbsenceInv ==
  ASSUME TypeOK, OrderInv, LifeInv, FilterInv, AbsenceInv, Tick, replicating
  PROVE  AbsenceInv'
<1> SUFFICES ASSUME NEW e \in Alive, NEW c \in Components,
                    mutationTicks'[e] = 0 \/ (e \notin flapped /\ c \notin has[e])
             PROVE  \A v : v = 0 => WillHold(e, c, updateTick, v)'
  <2>1. life' = life /\ has' = has /\ removals' = NoComponents /\ flapped' = flapped
    BY DEF Tick
  <2>2. Alive' = Alive
    BY <2>1 DEF Alive
  <2> QED BY <2>1, <2>2 DEF AbsenceInv, NoComponents, Alive
<1>1. e \in Entities /\ e \notin despawned /\ life[e] = "alive"
  BY DEF Alive, LifeInv
<1>2. UpdateMessage.values[e][c] = 0
  <2>1. serverTick \in Nat /\ Now # 0
    BY UpdateTicks
  <2> QED BY <1>1, <2>1, UpdateMessageFields, TickMutationTicks DEF Inserted, Mutated
<1>3. CASE Writes(UpdateMessage, e, c)
  BY <1>1, <1>2, <1>3, HoldsAfterTick
<1>4. CASE ~Writes(UpdateMessage, e, c)
  <2>1. e \notin Despawns
    BY <1>1, <1>4, UpdateMessageFields DEF Writes
  <2>2. e \notin LostVisibility
    BY <2>1 DEF Despawns
  <2>3. CASE mutationTicks[e] = 0
    <3>1. WillHold(e, c, updateTick, 0)
      BY <2>3 DEF AbsenceInv
    <3> QED BY <1>1, <1>4, <3>1, HoldsAfterTick
  <2>4. CASE mutationTicks[e] # 0
    <3>1. MutationTick(e) # 0
      BY <1>1, <2>2, <2>4 DEF MutationTick
    <3>2. e \notin flapped /\ c \notin has[e]
      <4>1. serverTick \in Nat /\ Now # 0
        BY UpdateTicks
      <4> QED BY <1>1, <3>1, <4>1, TickMutationTicks
    <3>3. e \in Seen
      BY <3>1, <3>2, PassedOver
    <3>4. c \notin removals[e]
      BY <1>1, <1>4, <3>2, <3>3, UpdateMessageFields DEF Writes, RemovalBuffer
    <3>5. WillHold(e, c, updateTick, 0)
      BY <3>2, <3>4 DEF AbsenceInv
    <3> QED BY <1>1, <1>4, <3>5, HoldsAfterTick
  <2> QED BY <2>3, <2>4
<1> QED BY <1>3, <1>4

\* An entity with a mutation tick is one the client has or will have.
LEMMA TickTouchInv ==
  ASSUME TypeOK, OrderInv, LifeInv, TouchInv, Tick, replicating
  PROVE  TouchInv'
<1> SUFFICES ASSUME NEW e \in Alive
             PROVE  /\ \A i \in DOMAIN updates' : Touches(updates'[i], e) =>
                         mutationTicks'[e] = 0 \/ updates'[i].tick <= mutationTicks'[e]
                    /\ mutationTicks'[e] # 0 => WillBeMapped(e)'
  <2>1. Alive' = Alive
    BY DEF Tick, Alive
  <2> QED BY <2>1 DEF TouchInv, Touches, Touched
<1> DEFINE u == UpdateMessage
           n == Len(updates)
<1>1. /\ e \in Entities /\ e \notin despawned /\ mapped' = mapped
      /\ updates \in Seq(UpdateMessages) /\ u \in UpdateMessages
      /\ u.tick = Now /\ serverTick \in Nat /\ Now = serverTick + 1
  BY TickSends, UpdateMessageFields, UpdateTicks DEF Alive, LifeInv, TypeOK, clientVars
<1>2. \/ updates' = updates /\ IsEmptyUpdate(u)
      \/ /\ n \in Nat /\ DOMAIN updates = 1..n /\ DOMAIN updates' = 1..(n + 1)
         /\ \A i \in DOMAIN updates : updates'[i] = updates[i]
         /\ updates'[n + 1] = u
  BY <1>1, TickSends
<1>3. \A i \in DOMAIN updates : updates[i].tick <= Now /\ updates[i].tick \in Nat
  BY UpdateTicks
<1>4. \A i \in DOMAIN updates' : updates'[i].tick <= Now
  BY <1>1, <1>2, <1>3
<1>5. CASE e \in Seen /\ InUpdate(e)
  <2>1. mutationTicks'[e] = Now
    BY <1>1, <1>5, TickMutationTicks
  <2>2. e \in Touched(u)
    BY <1>1, <1>5, UpdateMessageFields
  <2>3. ~IsEmptyUpdate(u)
    BY <2>2 DEF IsEmptyUpdate, Touched
  <2>4. WillBeMapped(e)'
    <3>1. /\ n + 1 \in DOMAIN updates' /\ e \in Touched(updates'[n + 1])
          /\ \A j \in DOMAIN updates' : ~(n + 1 < j)
      BY <1>2, <2>2, <2>3
    <3> QED BY <3>1 DEF WillBeMapped, Touched
  <2> QED BY <1>4, <2>1, <2>4
<1>6. CASE ~(e \in Seen /\ InUpdate(e)) /\ mutationTicks'[e] # 0
  <2>1. mutationTicks'[e] = mutationTicks[e] /\ mutationTicks[e] # 0 /\ e \notin Despawns
    BY <1>1, <1>6, TickMutationTicks
  <2>2. ~Touches(u, e)
    BY <1>1, <1>6, <2>1, UpdateMessageFields DEF Touches
  <2>3. e \notin u.despawns
    BY <2>1, UpdateMessageFields
  <2>4. \A i \in DOMAIN updates' : Touches(updates'[i], e) =>
          i \in DOMAIN updates /\ updates'[i] = updates[i]
    BY <1>2, <2>2
  <2>5. WillBeMapped(e)
    BY <2>1 DEF TouchInv
  <2>6. WillBeMapped(e)'
    <3>1. \A i \in DOMAIN updates' : e \in updates'[i].despawns =>
            i \in DOMAIN updates /\ updates'[i] = updates[i]
      BY <1>2, <2>3
    <3>2. \A i \in DOMAIN updates : i \in DOMAIN updates' /\ updates'[i] = updates[i]
      BY <1>2
    <3> QED BY <1>1, <2>5, <3>1, <3>2 DEF WillBeMapped, Touched
  <2> QED BY <2>1, <2>4, <2>6 DEF TouchInv
<1> QED BY <1>5, <1>6

\* A component a tick neither sends nor has to send again is still delivered.
LEMMA TickAckedInv ==
  ASSUME TypeOK, OrderInv, LifeInv, AckedInv, Tick, replicating
  PROVE  AckedInv'
<1> SUFFICES ASSUME NEW e \in Alive \ held, NEW c \in has[e],
                    at[e][c] <= mutationTicks'[e]
             PROVE  \A v : v = at[e][c] => WillHold(e, c, updateTick, v)'
  <2>1. life' = life /\ has' = has /\ at' = at /\ held' = held
    BY DEF Tick, clientVars
  <2>2. Alive' = Alive
    BY <2>1 DEF Alive
  <2> QED BY <2>1, <2>2 DEF AckedInv
<1>1. /\ e \in Entities /\ c \in Components /\ at[e][c] \in Ticks \ {0}
      /\ mutationTicks[e] \in Nat /\ at[e][c] \in Nat /\ Now \in Nat
  BY TickWrites, ContentTypes, UpdateTicks
<1>2. CASE e \in Seen /\ InUpdate(e) /\ c \in Inserted(e) \cup Mutated(e)
  BY <1>1, <1>2, TickWrites, HoldsAfterTick
<1>3. CASE ~(e \in Seen /\ InUpdate(e) /\ c \in Inserted(e) \cup Mutated(e))
  <2>1. MutationTick(e) # 0 /\ at[e][c] <= MutationTick(e)
    <3>1. CASE e \in Seen /\ InUpdate(e)
      BY <1>1, <1>3, <3>1, TickMutationTicks DEF Inserted, Mutated
    <3>2. CASE ~(e \in Seen /\ InUpdate(e))
      BY <1>1, <3>2, TickMutationTicks
    <3> QED BY <3>1, <3>2
  <2>2. at[e][c] <= mutationTicks[e] /\ e \notin Despawns
    BY <1>1, <2>1, TickMutationTicks
  <2>3. WillHold(e, c, updateTick, at[e][c])
    BY <2>2 DEF AckedInv
  <2>4. ~Writes(UpdateMessage, e, c)
    BY <1>1, <1>3, <2>2, TickWrites
  <2> QED BY <1>1, <2>3, <2>4, HoldsAfterTick
<1> QED BY <1>2, <1>3

\* The indices of one tick differ, if they are not more than there are.
LEMMA IndexOfInjective ==
  ASSUME TypeOK, NEW i \in 1..IndexRange, NEW j \in 1..IndexRange,
         IndexOf(i) = IndexOf(j)
  PROVE  i = j
<1> DEFINE R == IndexRange
           a == nextIndex + i - 1
           b == nextIndex + j - 1
<1>1. R \in Nat \ {0} /\ i \in 1..R /\ j \in 1..R /\ nextIndex \in Nat
  BY BoundsAssumption DEF TypeOK
<1>2. a \in Nat /\ b \in Nat /\ a - b = i - j /\ a - b < R /\ b - a < R
  BY <1>1
<1>3. a % R = b % R
  BY DEF IndexOf
<1> HIDE DEF R, a, b
<1>4. /\ a = R * (a \div R) + (a % R) /\ b = R * (b \div R) + (b % R)
      /\ a \div R \in Nat /\ b \div R \in Nat
  BY <1>1, <1>2
<1>5. a \div R = b \div R
  <2> DEFINE p == a \div R
             q == b \div R
  <2>1. p \in Nat /\ q \in Nat /\ R * p - R * q = a - b
    <3>1. p \in Nat /\ q \in Nat /\ R * p \in Nat /\ R * q \in Nat
      BY <1>1, <1>4
    <3> HIDE DEF p, q
    <3>2. a % R \in Nat
      BY <1>1, <1>2
    <3>3. a = R * p + (a % R) /\ b = R * q + (a % R)
      BY <1>3, <1>4 DEF p, q
    <3> QED BY <1>2, <3>1, <3>2, <3>3
  <2> HIDE DEF p, q
  <2>2. p <= q
    <3> SUFFICES ASSUME p >= q + 1 PROVE FALSE
      BY <2>1
    <3>1. R * p >= R * (q + 1)
      BY <1>1, <2>1
    <3> QED BY <1>1, <1>2, <2>1, <3>1
  <2>3. q <= p
    <3> SUFFICES ASSUME q >= p + 1 PROVE FALSE
      BY <2>1
    <3>1. R * q >= R * (p + 1)
      BY <1>1, <2>1
    <3> QED BY <1>1, <1>2, <2>1, <3>1
  <2> QED BY <2>1, <2>2, <2>3 DEF p, q
<1>6. a = b
  BY <1>3, <1>4, <1>5
<1> QED BY <1>1, <1>2, <1>6 DEF a, b

\* What a tick sends and registers, when its indices are fresh.
LEMMA TickIndices ==
  ASSUME TypeOK, LifeInv, IndexInv, FreshIndices, Tick, replicating
  PROVE  /\ IndexInv'
         /\ \A info \in mutations' :
              \/ info \in mutations
              \/ \A k \in DOMAIN acks : info.index \notin acks[k]
<1>1. PICK split \in Splits(MutatedEntities) :
        /\ mutates' = mutates \cup {MutateMessage(IndexOf(i), split[i]) : i \in DOMAIN split}
        /\ mutations' = Registered(split)
  BY DEF Tick, Send
<1>2. DOMAIN split \subseteq 1..IndexRange
  <2>1. PICK n \in 0..Cardinality(MutatedEntities) :
          split \in [1..n -> (SUBSET MutatedEntities) \ {{}}]
    BY DEF Splits
  <2>2. n \in Nat /\ DOMAIN split = 1..n /\ Len(split) = n
    BY <2>1
  <2>3. Len(split) <= IndexRange
    BY DEF FreshIndices
  <2> QED BY <2>2, <2>3, BoundsAssumption
<1>3. \A i \in DOMAIN split :
        /\ \A m \in InFlight : m.index # IndexOf(i)
        /\ \A k \in DOMAIN acks : IndexOf(i) \notin acks[k]
  BY DEF FreshIndices
<1>4. \A m \in InFlight' : \/ m \in InFlight
                           \/ \E i \in DOMAIN split :
                                /\ m.index = IndexOf(i) /\ m.tick = Now
                                /\ m.entities = split[i]
  BY <1>1 DEF InFlight, MutateMessage, Tick, clientVars
<1>5. \A info \in mutations' :
        \/ info \in mutations /\ \A i \in DOMAIN split : info.index # IndexOf(i)
        \/ \E i \in DOMAIN split : /\ info.index = IndexOf(i) /\ info.tick = Now
                                   /\ info.entities = split[i]
  BY <1>1 DEF Registered
<1>6. \A i, j \in DOMAIN split : IndexOf(i) = IndexOf(j) => i = j
  BY <1>2, IndexOfInjective
<1>7. IndexInv'
  BY <1>3, <1>4, <1>5, <1>6 DEF IndexInv
<1> QED BY <1>3, <1>5, <1>7

\* What a tick sends is what the server has, as of the tick it carries.
LEMMA TickContentInv ==
  ASSUME TypeOK, OrderInv, BaseInv, SeenInv, ContentInv, FreshIndices, Tick, replicating
  PROVE  ContentInv'
<1>1. /\ UNCHANGED <<life, has, at, value, mapped, confirmed, clientTick, held, acks,
                     flapped>>
      /\ removals' = NoComponents /\ LifeInv /\ FilterInv /\ ShapeInv
      /\ serverTick \in Nat /\ Now = serverTick + 1 /\ serverTick' = Now
  BY UpdateTicks DEF Tick, clientVars, BaseInv, SeenInv
<1>2. Alive' = Alive /\ \A e, c : Content(e, c)' = Content(e, c)
                        /\ (Known(e, c)' <=> Known(e, c))
  BY <1>1 DEF Alive, Content, Known
<1>3. AbsenceInv' /\ TouchInv' /\ AckedInv'
  BY <1>1, TickAbsenceInv, TickTouchInv, TickAckedInv DEF ContentInv
<1>4. ClientInv'
  BY <1>1, <1>2 DEF ContentInv, ClientInv
<1>5. ASSUME NEW e \in Seen, NEW c \in Components, Known(e, c),
             c \in has[e] => at[e][c] <= mutationTicks'[e]
      PROVE  \A v : v = Content(e, c) => WillHold(e, c, updateTick, v)'
  <2>1. e \in Alive' /\ e \notin held'
    BY <1>1, <1>2, <1>5 DEF Known, Seen
  <2>2. CASE c \in has[e]
    BY <1>1, <1>3, <1>5, <2>1, <2>2 DEF AckedInv, Content
  <2>3. CASE c \notin has[e]
    <3>1. e \notin flapped' /\ c \notin has'[e] \cup removals'[e]
      BY <1>1, <1>5, <2>3 DEF Known, NoComponents, Seen, Alive
    <3>2. WillHold(e, c, updateTick, 0)'
      BY <1>3, <2>1, <3>1 DEF AbsenceInv
    <3> QED BY <2>3, <3>2 DEF Content, WillHold
  <2> QED BY <2>2, <2>3
<1>6. ASSUME NEW i \in DOMAIN updates' PROVE UpdateInv(updates[i])'
  <2> DEFINE u == updates'[i]
  <2> SUFFICES ASSUME NEW e \in Alive \cap Touched(u), NEW c \in Components, Known(e, c),
                      at[e][c] <= u.tick, NEW v, v = Content(e, c), NEW t, t = u.tick
               PROVE  WillHold(e, c, t, v)'
    BY <1>1, <1>2 DEF UpdateInv, Touched
  <2>1. e \in Entities
    BY DEF Alive
  <2>2. CASE i \in DOMAIN updates /\ u = updates[i]
    <3>1. t \in Nat /\ t <= serverTick
      BY <2>2, UpdateTicks
    <3>2. WillHold(e, c, t, v)
      BY <2>2 DEF ContentInv, UpdateInv
    <3> QED BY <2>1, <3>1, <3>2, HoldsThroughTick
  <2>3. CASE u = UpdateMessage /\ updates' = Append(updates, UpdateMessage)
    <3>1. e \in Seen /\ InUpdate(e) /\ u.tick = Now
      BY <2>1, <2>3, UpdateMessageFields
    <3>2. mutationTicks'[e] = Now
      BY <2>1, <3>1, TickMutationTicks
    <3>3. updateTick' = Now
      <4>1. ~IsEmptyUpdate(UpdateMessage)
        BY <2>3 DEF IsEmptyUpdate, Touched
      <4> QED BY <4>1, TickSends
    <3>4. WillHold(e, c, updateTick, v)'
      BY <1>5, <3>1, <3>2
    <3> QED BY <3>1, <3>3, <3>4 DEF WillHold
  <2> QED BY <2>2, <2>3, TickUpdates
<1>7. ASSUME NEW m \in InFlight' PROVE SnapshotInv(m)'
  <2> SUFFICES ASSUME NEW e \in Alive \cap m.entities, NEW c \in Components, Known(e, c),
                      at[e][c] <= m.tick, Reaches(m, e), NEW v, v = Content(e, c),
                      NEW t, t = m.updateTick
               PROVE  \/ c \in has[e] /\ m.values[e][c] = at[e][c]
                      \/ (c \in has[e] \/ m.values[e][c] = 0) /\ WillHold(e, c, t, v)'
    BY <1>1, <1>2 DEF SnapshotInv, Reaches, IsReady, WillHold
  <2>1. e \in Entities
    BY DEF Alive
  <2>2. CASE m \in InFlight
    <3>1. t \in Nat /\ t <= serverTick
      BY <2>2, MessageTicks DEF OrderInv, MutateInv, UpdatesInv
    <3>2. \/ c \in has[e] /\ m.values[e][c] = at[e][c]
          \/ (c \in has[e] \/ m.values[e][c] = 0) /\ WillHold(e, c, t, v)
      BY <2>2 DEF ContentInv, SnapshotInv
    <3> QED BY <2>1, <3>1, <3>2, HoldsThroughTick
  <2>3. CASE IsNew(m)
    <3>1. /\ e \in Seen /\ ~InUpdate(e) /\ t = updateTick'
          /\ m.values[e][c] = IF c \in Mutated(e) THEN at[e][c] ELSE 0
      BY <2>1, <2>3, TickSends DEF IsNew, MutatedEntities
    <3>2. CASE c \in Mutated(e)
      BY <3>1, <3>2 DEF Mutated
    <3>3. CASE c \notin Mutated(e)
      <4>1. c \in has[e] => at[e][c] <= mutationTicks'[e]
        BY <2>1, <3>1, <3>3, TickMutationTicks, ContentTypes DEF Mutated, InUpdate
      <4>2. WillHold(e, c, updateTick, v)'
        BY <1>5, <3>1, <4>1
      <4> QED BY <3>1, <3>3, <4>2 DEF WillHold
    <3> QED BY <3>2, <3>3
  <2> QED BY <2>2, <2>3, TickSends
<1>8. AcksInv'
  <2> SUFFICES ASSUME NEW i \in DOMAIN acks, NEW info \in mutations', info.index \in acks[i],
                      NEW e \in Alive \cap info.entities, e \notin held,
                      0 < mutationTicks'[e], mutationTicks'[e] < info.tick,
                      NEW c \in has[e], at[e][c] <= info.tick
               PROVE  \A v : v = at[e][c] => WillHold(e, c, updateTick, v)'
    BY <1>1, <1>2 DEF AcksInv
  <2>1. e \in Entities /\ info \in mutations
    BY TickIndices DEF Alive, ContentInv, BaseInv
  <2>2. info.tick <= serverTick /\ info.tick \in Nat
    BY <1>1, <2>1, BoundsAssumption DEF LifeInv, TypeOK, MutateInfos, Ticks
  <2>3. ~(e \in Seen /\ InUpdate(e))
    BY <1>1, <2>1, <2>2, TickMutationTicks
  <2>4. mutationTicks'[e] = mutationTicks[e] /\ e \notin Despawns
    BY <2>1, <2>3, TickMutationTicks
  <2>5. WillHold(e, c, updateTick, at[e][c])
    BY <2>1, <2>4 DEF ContentInv, AcksInv
  <2>6. ~Writes(UpdateMessage, e, c)
    BY <1>1, <2>3, <2>4, TickWrites
  <2>7. c \in Components
    BY <1>1, TickWrites
  <2> QED BY <2>1, <2>5, <2>6, <2>7, HoldsAfterTick
<1>9. IndexInv'
  BY <1>1, TickIndices DEF ContentInv
<1> QED BY <1>3, <1>4, <1>6, <1>7, <1>8, <1>9 DEF ContentInv

\* Of messages with ticks, one has the greatest.
LEMMA GreatestTick ==
  ASSUME NEW S, S # {}, \A m \in S : m.tick \in Ticks
  PROVE  \E m \in S : \A n \in S : n.tick <= m.tick
<1> DEFINE above(m) == {t \in Ticks : t > m.tick}
           T == {above(m) : m \in S}
<1>1. IsFiniteSet(Ticks) /\ Ticks \subseteq Nat
  BY FS_Interval, BoundsAssumption DEF Ticks
<1>2. \A m \in S : above(m) \in FiniteSubsetsOf(Ticks)
  BY <1>1, FS_Subset DEF FiniteSubsetsOf
<1>3. T \subseteq FiniteSubsetsOf(Ticks) /\ T # {}
  BY <1>2
<1>4. PICK x \in T : \A y \in T : ~(<<y, x>> \in StrictSubsetOrdering(Ticks))
  BY <1>3, FS_StrictSubsetOrderingWellFounded, WFMin
<1>5. PICK m \in S : x = above(m)
  BY <1>4
<1>6. ASSUME NEW n \in S, n.tick > m.tick PROVE FALSE
  <2>0. n.tick \in Ticks /\ m.tick \in Ticks /\ n.tick \in Nat /\ m.tick \in Nat
    BY <1>1
  <2>1. /\ n.tick \in above(m) /\ n.tick \notin above(n)
        /\ above(n) \subseteq above(m) /\ above(m) \subseteq Ticks
    <3> HIDE DEF T
    <3>1. \A t \in Ticks : t > n.tick => t > m.tick
      BY <1>1, <1>6, <2>0
    <3>2. ~(n.tick > n.tick)
      BY <2>0
    <3> QED BY <1>6, <2>0, <3>1, <3>2
  <2>2. above(n) \in T /\ <<above(n), above(m)>> \in StrictSubsetOrdering(Ticks)
    BY <2>1 DEF StrictSubsetOrdering
  <2> QED BY <1>4, <1>5, <2>2
<1>7. \A n \in S : n.tick <= m.tick
  <2> HIDE DEF T, above
  <2>1. \A n \in S : n.tick \in Nat
    BY <1>1
  <2> QED BY <1>6, <2>1
<1> QED BY <1>7

\* An entity the client has confirms the newest of the messages it can apply.
LEMMA ReceiveConfirms ==
  ASSUME TypeOK, NEW arrived \in SUBSET mutates, ReceiveMutations(arrived),
         NEW m \in buffered \cup arrived, IsReady(m), NEW e \in m.entities, e \in mapped
  PROVE  m.tick <= confirmed'[e]
<1> DEFINE ready == {n \in buffered \cup arrived : IsReady(n)}
           fits == {n \in ready : e \in n.entities /\ n.tick > confirmed[e]}
           winner == CHOOSE n \in Newest(e, ready) : TRUE
<1>1. /\ e \in Entities /\ m.tick \in Nat /\ confirmed[e] \in Nat
      /\ \A n \in ready : n.tick \in Ticks
  <2>1. buffered \cup arrived \subseteq InFlight
    BY DEF InFlight
  <2>2. buffered \cup arrived \subseteq MutateMessages
    BY DEF TypeOK
  <2> QED BY <2>1, <2>2, ContentTypes, MessageTicks DEF MutateMessages
<1>2. confirmed'[e] = IF Newest(e, ready) # {} THEN winner.tick ELSE confirmed[e]
  BY <1>1 DEF ReceiveMutations
<1>3. Newest(e, ready) # {} => winner \in Newest(e, ready)
  OBVIOUS
<1>4. Newest(e, ready) = {n \in fits : \A o \in fits : o.tick <= n.tick}
  BY DEF Newest
<1> HIDE DEF winner
<1>5. CASE m \in fits
  <2>1. Newest(e, ready) # {}
    BY <1>1, <1>4, <1>5, GreatestTick
  <2> QED BY <1>2, <1>3, <1>4, <1>5, <2>1
<1>6. CASE m \notin fits
  <2>1. m.tick <= confirmed[e]
    BY <1>1, <1>6
  <2>2. CASE Newest(e, ready) = {}
    BY <1>2, <2>1, <2>2
  <2>3. CASE Newest(e, ready) # {}
    <3>1. winner.tick > confirmed[e] /\ winner.tick \in Nat /\ confirmed'[e] = winner.tick
      BY <1>1, <1>2, <1>3, <1>4, <2>3, BoundsAssumption DEF Ticks
    <3> QED BY <1>1, <2>1, <3>1
  <2> QED BY <2>2, <2>3
<1> QED BY <1>5, <1>6

\* Applying an update message brings the entities it touches to its tick.
LEMMA ApplyContentInv ==
  ASSUME TypeOK, OrderInv, BaseInv, ContentInv, ApplyUpdateMessage
  PROVE  ContentInv'
<1> DEFINE u == updates[1]
<1>1. /\ UNCHANGED <<life, has, at, removals, mutationTicks, mutations, flapped, updateTick,
                     acks, held>>
      /\ InFlight' = InFlight /\ clientTick' = u.tick
  <2>1. clientTick' = u.tick
    BY TailUpdates DEF ApplyUpdateMessage
  <2> QED BY <2>1 DEF ApplyUpdateMessage, worldVars, serverVars, InFlight
<1>2. /\ Alive' = Alive
      /\ \A e, c : Content(e, c)' = Content(e, c) /\ (Known(e, c)' <=> Known(e, c))
  BY <1>1 DEF Alive, Content, Known
<1>3. /\ 1 \in DOMAIN updates /\ u.tick \in Nat /\ u.tick <= updateTick
      /\ clientTick < u.tick /\ updateTick \in Nat
      /\ \A i \in DOMAIN updates : u.tick <= updates[i].tick
      /\ \A i \in DOMAIN updates : i # 1 => u.tick < updates[i].tick
  BY TailUpdates, UpdateTicks
<1>4. ASSUME NEW e \in Entities, NEW c \in Components, NEW v, WillHold(e, c, updateTick, v)
      PROVE  WillHold(e, c, updateTick, v)'
  <2>1. \A t : t = updateTick => WillHold(e, c, t, v)'
    BY <1>3, <1>4, HoldsThroughApply
  <2> QED BY <1>1, <2>1 DEF WillHold
<1>5. /\ \A e \in Alive : e \in Entities
      /\ \A e \in Entities : \A c \in has[e] : c \in Components
      /\ ShapeInv
  BY DEF Alive, TypeOK, BaseInv
<1>6. AbsenceInv'
  BY <1>1, <1>2, <1>4, <1>5 DEF ContentInv, AbsenceInv
<1>7. AckedInv'
  BY <1>1, <1>2, <1>4, <1>5 DEF ContentInv, AckedInv
<1>8. AcksInv'
  BY <1>1, <1>2, <1>4, <1>5 DEF ContentInv, AcksInv
<1>9. IndexInv'
  BY <1>1 DEF ContentInv, IndexInv
<1>10. TouchInv'
  <2> SUFFICES ASSUME NEW e \in Alive
               PROVE  /\ \A i \in DOMAIN updates' : Touches(updates'[i], e) =>
                           mutationTicks[e] = 0 \/ updates'[i].tick <= mutationTicks[e]
                      /\ mutationTicks[e] # 0 => WillBeMapped(e)'
    BY <1>1, <1>2 DEF TouchInv, Touches, Touched
  <2>1. TouchInv
    BY DEF ContentInv
  <2>2. \A i \in DOMAIN updates' : Touches(updates'[i], e) =>
          mutationTicks[e] = 0 \/ updates'[i].tick <= mutationTicks[e]
    BY <2>1, TailUpdates DEF TouchInv
  <2>3. ASSUME WillBeMapped(e) PROVE WillBeMapped(e)'
    <3>1. e \in mapped' <=> e \in Touched(u) \/ e \in mapped \ u.despawns
      BY <1>5, ApplyEffect
    <3>2. CASE e \in mapped /\ \A i \in DOMAIN updates : e \notin updates[i].despawns
      <4>1. e \in mapped'
        BY <1>3, <3>1, <3>2
      <4> QED BY <3>2, <4>1, TailUpdates DEF WillBeMapped
    <3>3. ASSUME NEW i \in DOMAIN updates, e \in Touched(updates[i]),
                 \A j \in DOMAIN updates : i < j => e \notin updates[j].despawns
          PROVE  WillBeMapped(e)'
      <4>1. CASE i = 1
        <5>1. e \in mapped'
          BY <3>1, <3>3, <4>1
        <5>2. \A j \in DOMAIN updates' : e \notin updates'[j].despawns
          <6>1. \A j \in DOMAIN updates' : j + 1 \in DOMAIN updates /\ 1 < j + 1
                                             /\ updates'[j] = updates[j + 1]
            BY TailUpdates
          <6> QED BY <3>3, <4>1, <6>1
        <5> QED BY <5>1, <5>2 DEF WillBeMapped
      <4>2. CASE i # 1
        <5>1. i - 1 \in DOMAIN updates' /\ updates'[i - 1] = updates[i]
          BY <4>2, TailUpdates
        <5>2. \A j \in DOMAIN updates' : j + 1 \in DOMAIN updates
                                           /\ (i - 1 < j => i < j + 1)
                                           /\ updates'[j] = updates[j + 1]
          BY TailUpdates
        <5> QED BY <3>3, <5>1, <5>2 DEF WillBeMapped, Touched
      <4> QED BY <4>1, <4>2
    <3> QED BY <2>3, <3>2, <3>3 DEF WillBeMapped
  <2> QED BY <2>1, <2>2, <2>3 DEF TouchInv
<1>11. ClientInv'
  <2> SUFFICES ASSUME NEW e \in Alive, e \in mapped', NEW c \in Components, Known(e, c),
                      at[e][c] <= confirmed'[e]
               PROVE  value'[e][c] = Content(e, c)
    BY <1>1, <1>2 DEF ClientInv
  <2>1. CASE e \in Touched(u)
    <3>1. confirmed'[e] = u.tick
      BY <1>5, <2>1, ApplyEffect
    <3>2. \A v : v = Content(e, c) => WillHold(e, c, u.tick, v)
      BY <1>3, <2>1, <3>1 DEF ContentInv, UpdateInv
    <3>3. \A t, v : t = u.tick /\ v = Content(e, c) => WillHold(e, c, t, v)'
      BY <1>3, <1>5, <3>2, HoldsThroughApply
    <3>4. \A i \in DOMAIN updates' : ~(updates'[i].tick <= u.tick)
      <4>1. \A i \in DOMAIN updates' : i + 1 \in DOMAIN updates /\ i + 1 # 1
                                         /\ updates'[i] = updates[i + 1]
        BY TailUpdates
      <4> QED BY <1>3, <4>1, UpdateTicks
    <3> QED BY <3>3, <3>4 DEF WillHold
  <2>2. CASE e \notin Touched(u)
    <3>1. e \in mapped \ u.despawns /\ confirmed'[e] = confirmed[e]
      BY <1>5, <2>2, ApplyEffect
    <3>2. ~Writes(u, e, c)
      BY <1>3, <1>5, <2>2, <3>1 DEF ShapeInv, Writes, Touched
    <3>3. value'[e][c] = value[e][c]
      BY <1>5, <3>2, ApplyEffect
    <3> QED BY <3>1, <3>3 DEF ContentInv, ClientInv
  <2> QED BY <2>1, <2>2
<1>12. ASSUME NEW i \in DOMAIN updates' PROVE UpdateInv(updates[i])'
  <2>1. i + 1 \in DOMAIN updates /\ updates'[i] = updates[i + 1]
    BY TailUpdates
  <2> DEFINE w == updates[i + 1]
  <2> SUFFICES ASSUME NEW e \in Alive \cap Touched(w), NEW c \in Components, Known(e, c),
                      at[e][c] <= w.tick, NEW v, v = Content(e, c), NEW t, t = w.tick
               PROVE  WillHold(e, c, t, v)'
    BY <1>1, <1>2, <2>1 DEF UpdateInv, Touched
  <2>2. WillHold(e, c, t, v)
    BY <2>1 DEF ContentInv, UpdateInv
  <2>3. t \in Nat /\ u.tick <= t
    BY <1>3, <2>1, UpdateTicks
  <2> QED BY <1>5, <2>2, <2>3, HoldsThroughApply
<1>13. ASSUME NEW m \in InFlight PROVE SnapshotInv(m)'
  <2> SUFFICES ASSUME NEW e \in Alive \cap m.entities, NEW c \in Components, Known(e, c),
                      at[e][c] <= m.tick, Reaches(m, e)', NEW v, v = Content(e, c),
                      NEW t, t = m.updateTick
               PROVE  \/ c \in has[e] /\ m.values[e][c] = at[e][c]
                      \/ (c \in has[e] \/ m.values[e][c] = 0) /\ WillHold(e, c, t, v)'
    BY <1>1, <1>2 DEF SnapshotInv, WillHold
  <2>1. e \in Entities /\ t \in Nat /\ m.tick \in Nat /\ MutateInv(m)
    BY <1>5, MessageTicks DEF OrderInv
  <2>2. Reaches(m, e) =>
          \/ c \in has[e] /\ m.values[e][c] = at[e][c]
          \/ (c \in has[e] \/ m.values[e][c] = 0) /\ WillHold(e, c, t, v)
    BY DEF ContentInv, SnapshotInv
  <2>3. CASE u.tick <= t
    <3>1. Reaches(m, e)
      BY <1>3, <2>1, <2>3, MessageTicks DEF IsReady, Reaches
    <3> QED BY <2>1, <2>2, <2>3, <3>1, HoldsThroughApply
  <2>4. CASE t < u.tick
    <3>1. /\ \A i \in DOMAIN updates : t < updates[i].tick
          /\ m.tick < u.tick
      BY <1>3, <2>1, <2>4, UpdateTicks DEF MutateInv
    <3>2. IsReady(m) /\ IsReady(m)'
      BY <1>1, <1>3, <2>1, <3>1, UpdateTicks DEF MutateInv, IsReady
    <3>3. e \in mapped' /\ confirmed'[e] < m.tick
      BY <3>2 DEF Reaches
    <3>4. e \notin Touched(u)
      BY <1>3, <2>1, <3>1, <3>3, ApplyEffect
    <3>5. e \in mapped \ u.despawns /\ confirmed'[e] = confirmed[e]
      BY <2>1, <3>3, <3>4, ApplyEffect
    <3>6. ~Writes(u, e, c)
      BY <1>3, <1>5, <2>1, <3>4, <3>5 DEF ShapeInv, Writes, Touched
    <3>7. value'[e][c] = value[e][c]
      BY <2>1, <3>6, ApplyEffect
    <3>8. Reaches(m, e)
      BY <3>3, <3>5 DEF Reaches
    <3>9. \A i \in DOMAIN updates' : ~(updates'[i].tick <= t)
      BY <2>1, <3>1, TailUpdates, UpdateTicks
    <3>10. \A i \in DOMAIN updates : ~(updates[i].tick <= t)
      BY <2>1, <3>1, UpdateTicks
    <3> QED BY <2>2, <3>7, <3>8, <3>9, <3>10 DEF WillHold
  <2> QED BY <1>3, <2>1, <2>3, <2>4
<1> QED BY <1>1, <1>6, <1>7, <1>8, <1>9, <1>10, <1>11, <1>12, <1>13 DEF ContentInv

\* Applying mutate messages keeps the content the client has of a living entity.
LEMMA ContentThroughReceive ==
  ASSUME TypeOK, OrderInv, BaseInv, SeenInv, NEW arrived \in SUBSET mutates,
         ReceiveMutations(arrived),
         NEW e \in Alive, NEW c \in Components, NEW t, NEW v,
         v = Content(e, c) \/ v = 0, WillHold(e, c, t, v)
  PROVE  WillHold(e, c, t, v)'
<1>1. e \in Entities /\ updates' = updates /\ AgesInv(e, c) /\ life[e] = "alive"
  BY ReceiveEffect DEF Alive, BaseInv
<1>2. /\ value[e][c] \in Nat /\ at[e][c] \in Nat
      /\ \A m \in InFlight : m.values[e][c] \in Nat
  BY <1>1, ContentTypes
<1>3. value[e][c] = v => value'[e][c] = v
  <2> SUFFICES ASSUME value[e][c] = v, value'[e][c] # value[e][c] PROVE FALSE
    OBVIOUS
  <2>1. PICK m \in InFlight : /\ e \in m.entities /\ IsReady(m) /\ Reaches(m, e)
                              /\ confirmed[e] < m.tick
                              /\ m.values[e][c] # 0 /\ value'[e][c] = m.values[e][c]
    BY <1>1, ReceiveEffect
  <2>2. value[e][c] # 0
    <3>1. e \in m.entities \cap mapped /\ m.tick > confirmed[e]
      BY <1>1, <2>1, MessageTicks DEF Reaches
    <3> QED BY <2>1, <3>1, PresentIfReady DEF MutationsNeverInsert
  <2>3. value[e][c] = at[e][c]
    BY <2>2 DEF Content
  <2>4. value[e][c] <= m.values[e][c] /\ m.values[e][c] <= at[e][c]
    BY <1>1, <2>1 DEF AgesInv
  <2> QED BY <1>2, <2>1, <2>3, <2>4
<1> QED BY <1>1, <1>3 DEF WillHold

\* Applying mutate messages brings their entities to the tick they confirm.
LEMMA ReceiveContentInv ==
  ASSUME TypeOK, OrderInv, BaseInv, SeenInv, ContentInv, NEW arrived \in SUBSET mutates,
         ReceiveMutations(arrived)
  PROVE  ContentInv'
<1>1. /\ UNCHANGED <<life, has, at, removals, mutationTicks, mutations, flapped, updateTick,
                     updates, clientTick, mapped>>
      /\ InFlight' \subseteq InFlight /\ held \subseteq held'
      /\ \A m \in arrived : m \in InFlight /\ (~IsReady(m) => m.entities \subseteq held')
      /\ acks' = acks \/ acks' = Append(acks, {m.index : m \in arrived})
  BY DEF ReceiveMutations, worldVars, serverVars, InFlight
<1>2. /\ Alive' = Alive
      /\ \A e, c : Content(e, c)' = Content(e, c) /\ (Known(e, c)' => Known(e, c))
  BY <1>1 DEF Alive, Content, Known
<1>3. /\ \A e \in Alive : e \in Entities
      /\ \A e \in Entities : \A c \in has[e] : c \in Components
      /\ ShapeInv
  BY DEF Alive, TypeOK, BaseInv
<1>4. ASSUME NEW e \in Alive, NEW c \in Components, NEW v,
             v = Content(e, c) \/ v = 0, WillHold(e, c, updateTick, v)
      PROVE  WillHold(e, c, updateTick, v)'
  <2>1. \A t : t = updateTick => WillHold(e, c, t, v)'
    BY <1>4, ContentThroughReceive
  <2> QED BY <1>1, <2>1 DEF WillHold
<1>5. AbsenceInv'
  BY <1>1, <1>2, <1>4 DEF ContentInv, AbsenceInv
<1>6. TouchInv'
  BY <1>1, <1>2 DEF ContentInv, TouchInv, Touches, Touched, WillBeMapped
<1>7. AckedInv'
  <2> SUFFICES ASSUME NEW e \in Alive \ held', NEW c \in has[e], at[e][c] <= mutationTicks[e]
               PROVE  WillHold(e, c, updateTick, at[e][c])'
    BY <1>1, <1>2 DEF AckedInv
  <2>1. WillHold(e, c, updateTick, at[e][c]) /\ c \in Components /\ at[e][c] = Content(e, c)
    BY <1>1, <1>3 DEF ContentInv, AckedInv, Content
  <2>2. \A v : v = at[e][c] => WillHold(e, c, updateTick, v)'
    BY <1>4, <2>1
  <2> QED BY <1>1, <2>2
<1>8. ClientInv'
  <2> SUFFICES ASSUME NEW e \in Alive \cap mapped, NEW c \in Components, Known(e, c),
                      at[e][c] <= confirmed'[e]
               PROVE  value'[e][c] = Content(e, c)
    BY <1>1, <1>2 DEF ClientInv
  <2>1. /\ e \in Entities /\ AgesInv(e, c) /\ life[e] = "alive"
        /\ value[e][c] \in Nat /\ at[e][c] \in Nat
        /\ \A m \in InFlight : m.values[e][c] \in Nat
    BY <1>3, ContentTypes DEF BaseInv, Alive
  <2>2. CASE confirmed'[e] = confirmed[e] /\ value'[e][c] = value[e][c]
    BY <2>2 DEF ContentInv, ClientInv
  <2>3. ASSUME NEW m \in InFlight, e \in m.entities, IsReady(m), Reaches(m, e),
               confirmed[e] < m.tick, confirmed'[e] = m.tick,
               value'[e][c] = IF m.values[e][c] # 0 THEN m.values[e][c] ELSE value[e][c]
        PROVE  value'[e][c] = Content(e, c)
    <3>1. \/ c \in has[e] /\ m.values[e][c] = at[e][c]
          \/ /\ c \in has[e] \/ m.values[e][c] = 0
             /\ WillHold(e, c, m.updateTick, Content(e, c))
      BY <2>3 DEF ContentInv, SnapshotInv
    <3>2. CASE c \in has[e] /\ m.values[e][c] = at[e][c]
      <4>1. at[e][c] # 0
        BY <1>3, <2>1, <3>2 DEF BaseInv, LifeInv
      <4> QED BY <2>3, <3>2, <4>1 DEF Content
    <3>3. CASE /\ c \in has[e] \/ m.values[e][c] = 0
               /\ WillHold(e, c, m.updateTick, Content(e, c))
      <4>1. value[e][c] = Content(e, c)
        BY <2>3, <3>3, ReadyIsNext DEF WillHold
      <4>2. CASE m.values[e][c] = 0
        BY <2>3, <4>1, <4>2
      <4>3. CASE c \in has[e] /\ m.values[e][c] # 0
        <5>1. value[e][c] <= m.values[e][c] /\ m.values[e][c] <= at[e][c]
          BY <2>1, <2>3, <4>3 DEF AgesInv
        <5> QED BY <2>1, <2>3, <4>1, <4>3, <5>1 DEF Content
      <4> QED BY <3>3, <4>2, <4>3
    <3> QED BY <3>1, <3>2, <3>3
  <2> QED BY <2>1, <2>2, <2>3, ReceiveEffect
<1>9. ASSUME NEW i \in DOMAIN updates PROVE UpdateInv(updates[i])'
  <2> DEFINE u == updates[i]
  <2> SUFFICES ASSUME NEW e \in Alive \cap Touched(u), NEW c \in Components, Known(e, c),
                      at[e][c] <= u.tick, NEW v, v = Content(e, c), NEW t, t = u.tick
               PROVE  WillHold(e, c, t, v)'
    BY <1>1, <1>2 DEF UpdateInv, Touched
  <2>1. WillHold(e, c, t, v)
    BY DEF ContentInv, UpdateInv
  <2> QED BY <2>1, ContentThroughReceive
<1>10. ASSUME NEW m \in InFlight' PROVE SnapshotInv(m)'
  <2> SUFFICES ASSUME NEW e \in Alive \cap m.entities, NEW c \in Components, Known(e, c),
                      at[e][c] <= m.tick, Reaches(m, e)', NEW v, v = Content(e, c),
                      NEW t, t = m.updateTick
               PROVE  \/ c \in has[e] /\ m.values[e][c] = at[e][c]
                      \/ (c \in has[e] \/ m.values[e][c] = 0) /\ WillHold(e, c, t, v)'
    BY <1>1, <1>2 DEF SnapshotInv, WillHold
  <2>1. m \in InFlight /\ e \in Entities /\ m.tick \in Nat
        /\ confirmed[e] \in Nat /\ confirmed'[e] \in Nat /\ confirmed[e] <= confirmed'[e]
    BY <1>1, <1>3, ReceiveEffect, MessageTicks
  <2>2. Reaches(m, e)
    BY <1>1, <2>1 DEF Reaches, IsReady
  <2>3. \/ c \in has[e] /\ m.values[e][c] = at[e][c]
        \/ (c \in has[e] \/ m.values[e][c] = 0) /\ WillHold(e, c, t, v)
    BY <2>1, <2>2 DEF ContentInv, SnapshotInv
  <2> QED BY <2>3, ContentThroughReceive
<1>11. AcksInv'
  <2> SUFFICES ASSUME NEW i \in DOMAIN acks', NEW info \in mutations,
                      info.index \in acks'[i],
                      NEW e \in Alive \cap info.entities, e \notin held',
                      0 < mutationTicks[e], mutationTicks[e] < info.tick,
                      NEW c \in has[e], at[e][c] <= info.tick, NEW v, v = at[e][c]
               PROVE  WillHold(e, c, updateTick, v)'
    BY <1>1, <1>2 DEF AcksInv
  <2>1. e \in Entities /\ c \in Components /\ v = Content(e, c) /\ e \notin held
    BY <1>1, <1>3 DEF Content
  <2>2. CASE i \in DOMAIN acks /\ acks'[i] = acks[i]
    <3>1. WillHold(e, c, updateTick, v)
      BY <2>1, <2>2 DEF ContentInv, AcksInv
    <3> QED BY <1>4, <2>1, <3>1
  <2>3. CASE acks'[i] = {m.index : m \in arrived}
    <3>1. PICK m \in arrived : m.index = info.index
      BY <2>3
    <3>2. m \in InFlight /\ m.tick = info.tick /\ e \in m.entities
      BY <1>1, <3>1 DEF ContentInv, IndexInv
    <3>3. IsReady(m)
      BY <1>1, <3>2
    <3>4. mutationTicks[e] \in Nat /\ m.tick \in Nat /\ TouchInv
          /\ \A j \in DOMAIN updates : updates[j].tick \in Nat
      BY <2>1, <3>2, MessageTicks, ContentTypes DEF ContentInv, Ticks
    <3>5. \A j \in DOMAIN updates : ~Touches(updates[j], e)
      BY <3>2, <3>3, <3>4, ReadyIsNext DEF TouchInv
    <3>6. e \in mapped
      BY <3>4, <3>5 DEF TouchInv, WillBeMapped, Touches
    <3>7. m.tick <= confirmed'[e]
      BY <3>1, <3>2, <3>3, <3>6, ReceiveConfirms
    <3>8. at[e][c] <= confirmed'[e]
      <4>1. at[e][c] \in Nat /\ confirmed'[e] \in Nat
        BY <2>1, ContentTypes, ReceiveEffect, MessageTicks
      <4> QED BY <3>2, <3>4, <3>7, <4>1
    <3>9. value'[e][c] = v
      BY <1>1, <1>2, <1>8, <2>1, <3>6, <3>8 DEF ClientInv, Known
    <3>10. \A j \in DOMAIN updates : ~Writes(updates[j], e, c)
      BY <1>3, <2>1, <3>5 DEF ShapeInv, Touches, Touched, Writes
    <3> QED BY <1>1, <3>9, <3>10 DEF WillHold
  <2>4. \/ i \in DOMAIN acks /\ acks'[i] = acks[i]
        \/ acks'[i] = {m.index : m \in arrived}
    <3>1. acks \in Seq(SUBSET (0..(IndexRange - 1)))
      BY DEF TypeOK
    <3>2. acks' = acks \/ acks' = Append(acks, {m.index : m \in arrived})
      BY <1>1
    <3> QED BY <3>1, <3>2
  <2> QED BY <2>2, <2>3, <2>4
<1>12. IndexInv'
  BY <1>1 DEF ContentInv, IndexInv
<1> QED BY <1>1, <1>5, <1>6, <1>7, <1>8, <1>9, <1>10, <1>11, <1>12 DEF ContentInv

\* An acknowledgement only tells the server what is true.
LEMMA AcksContentInv ==
  ASSUME TypeOK, BaseInv, ContentInv, ReceiveAcks
  PROVE  ContentInv'
<1>1. /\ UNCHANGED <<life, has, at, removals, flapped, updateTick, updates, clientTick,
                     mapped, confirmed, value, held>>
      /\ InFlight' = InFlight /\ mutations' \subseteq mutations
      /\ acks # <<>> /\ acks' = Tail(acks)
  BY DEF ReceiveAcks, worldVars, clientVars, InFlight
<1>2. /\ Alive' = Alive /\ \A e, c, t, v : WillHold(e, c, t, v)' <=> WillHold(e, c, t, v)
      /\ \A e, c : Content(e, c)' = Content(e, c) /\ (Known(e, c)' <=> Known(e, c))
  BY <1>1 DEF Alive, WillHold, Content, Known
<1>3. /\ 1 \in DOMAIN acks
      /\ \A i \in DOMAIN acks' : i + 1 \in DOMAIN acks /\ acks'[i] = acks[i + 1]
  <2>1. acks \in Seq(SUBSET (0..(IndexRange - 1)))
    BY DEF TypeOK
  <2> QED BY <1>1, <2>1
<1>4. \A e \in Entities :
        /\ mutationTicks[e] \in Nat /\ mutationTicks'[e] \in Nat
        /\ mutationTicks[e] <= mutationTicks'[e]
        /\ mutationTicks[e] = 0 => mutationTicks'[e] = 0
  <2>1. \A info \in mutations : info.tick \in Nat
    BY BoundsAssumption DEF TypeOK, MutateInfos, Ticks
  <2> QED BY <2>1, AckedTick, ContentTypes
<1>5. AbsenceInv'
  <2> SUFFICES ASSUME NEW e \in Alive, NEW c \in Components,
                      mutationTicks'[e] = 0 \/
                        (e \notin flapped /\ c \notin has[e] \cup removals[e])
               PROVE  WillHold(e, c, updateTick, 0)'
    BY <1>1, <1>2 DEF AbsenceInv
  <2>1. e \in Entities
    BY DEF Alive
  <2>2. WillHold(e, c, updateTick, 0)
    BY <1>4, <2>1 DEF ContentInv, AbsenceInv
  <2> QED BY <1>1, <2>2 DEF WillHold
<1>6. TouchInv'
  <2> SUFFICES ASSUME NEW e \in Alive
               PROVE  /\ \A i \in DOMAIN updates : Touches(updates[i], e) =>
                           mutationTicks'[e] = 0 \/ updates[i].tick <= mutationTicks'[e]
                      /\ mutationTicks'[e] # 0 => WillBeMapped(e)
    BY <1>1, <1>2 DEF TouchInv, Touches, Touched, WillBeMapped
  <2>1. e \in Entities /\ \A i \in DOMAIN updates : updates[i].tick \in Nat
    BY MessageTicks DEF Alive
  <2> QED BY <1>4, <2>1 DEF ContentInv, TouchInv
<1>7. AckedInv'
  <2> SUFFICES ASSUME NEW e \in Alive \ held, NEW c \in has[e], at[e][c] <= mutationTicks'[e]
               PROVE  WillHold(e, c, updateTick, at[e][c])
    BY <1>1, <1>2 DEF AckedInv, WillHold
  <2>1. e \in Entities
    BY DEF Alive
  <2>2. CASE mutationTicks'[e] = mutationTicks[e]
    BY <2>2 DEF ContentInv, AckedInv
  <2>3. ASSUME NEW info \in mutations, info.index \in acks[1], e \in info.entities,
               0 < mutationTicks[e], mutationTicks[e] < info.tick,
               mutationTicks'[e] = info.tick
        PROVE  WillHold(e, c, updateTick, at[e][c])
    BY <1>3, <2>3 DEF ContentInv, AcksInv
  <2> QED BY <2>1, <2>2, <2>3, AckedTick
<1>8. ClientInv' /\ (\A i \in DOMAIN updates : UpdateInv(updates[i])')
      /\ (\A m \in InFlight : SnapshotInv(m)')
  BY <1>1, <1>2 DEF ContentInv, ClientInv, UpdateInv, SnapshotInv, Reaches, IsReady, Touched,
     WillHold
<1>9. AcksInv'
  <2> SUFFICES ASSUME NEW i \in DOMAIN acks', NEW info \in mutations',
                      info.index \in acks'[i],
                      NEW e \in Alive \cap info.entities, e \notin held,
                      0 < mutationTicks'[e], mutationTicks'[e] < info.tick,
                      NEW c \in has[e], at[e][c] <= info.tick
               PROVE  WillHold(e, c, updateTick, at[e][c])
    BY <1>1, <1>2 DEF AcksInv, WillHold
  <2>1. e \in Entities /\ info \in mutations /\ info.tick \in Nat
    BY <1>1, BoundsAssumption DEF Alive, TypeOK, MutateInfos, Ticks
  <2>2. 0 < mutationTicks[e] /\ mutationTicks[e] < info.tick
    BY <1>4, <2>1
  <2> QED BY <1>3, <2>1, <2>2 DEF ContentInv, AcksInv
<1>10. IndexInv'
  BY <1>1 DEF ContentInv, IndexInv
<1> QED BY <1>1, <1>5, <1>6, <1>7, <1>8, <1>9, <1>10 DEF ContentInv

\* Steps of the server and the channels that touch no content.
LEMMA QuietContentInv ==
  ASSUME TypeOK, LifeInv, ContentInv,
         \/ StartReplication
         \/ Tick /\ ~replicating
         \/ \E tick \in Ticks : CleanupAcks(tick)
         \/ \E m \in mutates : Lose(m)
         \/ UNCHANGED vars
  PROVE  ContentInv'
<1>1. /\ UNCHANGED <<life, has, at, mutationTicks, flapped, updateTick, updates, acks,
                     clientTick, mapped, confirmed, value, held>>
      /\ InFlight' \subseteq InFlight /\ mutations' \subseteq mutations
      /\ removals' = removals \/ (Tick /\ ~replicating)
  BY DEF StartReplication, Tick, CleanupAcks, Lose, InFlight, vars, serverVars,
     worldVars, clientVars, channels
<1>2. /\ Alive' = Alive /\ \A e, c, t, v : WillHold(e, c, t, v)' <=> WillHold(e, c, t, v)
      /\ \A e, c : Content(e, c)' = Content(e, c) /\ (Known(e, c)' <=> Known(e, c))
  BY <1>1 DEF Alive, WillHold, Content, Known
<1>3. AbsenceInv'
  <2> SUFFICES ASSUME NEW e \in Alive, NEW c \in Components,
                      mutationTicks[e] = 0 \/
                        (e \notin flapped /\ c \notin has[e] \cup removals'[e])
               PROVE  WillHold(e, c, updateTick, 0)
    BY <1>1, <1>2 DEF AbsenceInv, WillHold
  <2>1. mutationTicks[e] = 0 \/ removals' = removals
    BY <1>1 DEF LifeInv, Alive
  <2> QED BY <2>1 DEF ContentInv, AbsenceInv
<1>4. TouchInv' /\ AckedInv' /\ ClientInv' /\ AcksInv' /\ IndexInv'
  BY <1>1, <1>2 DEF ContentInv, TouchInv, AckedInv, ClientInv, AcksInv, IndexInv,
     Touches, Touched, WillBeMapped, WillHold
<1>5. (\A i \in DOMAIN updates : UpdateInv(updates[i])')
      /\ (\A m \in InFlight : SnapshotInv(m)')
  BY <1>1, <1>2 DEF ContentInv, UpdateInv, SnapshotInv, Reaches, IsReady, Touched, WillHold
<1> QED BY <1>1, <1>3, <1>4, <1>5 DEF ContentInv

\* Every step that reuses no index too early keeps it.
LEMMA NextContentInv ==
  IInv /\ BaseInv /\ SeenInv /\ ContentInv /\ FreshIndices /\ [Next]_vars => ContentInv'
<1> SUFFICES ASSUME TypeOK, OrderInv, BaseInv, SeenInv, ContentInv, FreshIndices, [Next]_vars
             PROVE  ContentInv'
  BY DEF IInv, OrderInv
<1>0. LifeInv
  BY DEF BaseInv
<1>1. CASE World
  BY <1>1, WorldContentInv
<1>2. CASE Tick /\ replicating
  BY <1>2, TickContentInv
<1>3. CASE ReceiveAcks
  BY <1>3, AcksContentInv
<1>4. CASE ApplyUpdateMessage
  BY <1>4, ApplyContentInv
<1>5. ASSUME NEW arrived \in SUBSET mutates, ReceiveMutations(arrived) PROVE ContentInv'
  BY <1>5, ReceiveContentInv
<1> QED BY <1>0, <1>1, <1>2, <1>3, <1>4, <1>5, QuietContentInv DEF Next

\* No entity is alive and nothing is in transit at first.
LEMMA InitContentInv == Init => ContentInv
<1> SUFFICES ASSUME Init PROVE ContentInv
  OBVIOUS
<1>1. InFlight = {} /\ Alive = {} /\ DOMAIN updates = {} /\ DOMAIN acks = {}
  BY DEF Init, InFlight, Alive
<1> QED BY <1>1 DEF ContentInv, AbsenceInv, TouchInv, AckedInv, ClientInv, AcksInv, IndexInv

\* It holds of every behaviour in which no index is reused too early.
LEMMA SpecContentInv ==
  Spec /\ []FreshIndices => [](IInv /\ BaseInv /\ SeenInv /\ ContentInv)
<1>1. Init => IInv
  BY InitTypeOK, InitOrderInv DEF IInv, OrderInv
<1> QED BY <1>1, InitBaseInv, InitSeenInv, InitContentInv, NextIInv, NextBaseInv,
           NextSeenInv, NextContentInv, PTL DEF Spec

\* What the server takes for delivered is delivered, if no mutate index is
\* reused while a message or an acknowledgement with it is in transit.
THEOREM AckedMutationsAreDelivered == Spec /\ []FreshIndices => []AckedIsDelivered
<1>1. IInv /\ ContentInv => AckedIsDelivered
  <2> SUFFICES ASSUME ContentInv, NEW e \in Alive \ held, NEW c \in has[e],
                      at[e][c] <= mutationTicks[e]
               PROVE  \/ value[e][c] = at[e][c]
                      \/ \E i \in DOMAIN updates : updates[i].values[e][c] = at[e][c]
    BY DEF AckedIsDelivered
  <2>1. WillHold(e, c, updateTick, at[e][c])
    BY DEF ContentInv, AckedInv
  <2> QED BY <2>1 DEF WillHold
<1> QED BY <1>1, SpecContentInv, PTL

\* With tick t confirmed for an entity the client has all of it as of t.
THEOREM EntitiesAreAtomic == Spec /\ []FreshIndices => []EntityIsAsConfirmed
<1>1. ContentInv => EntityIsAsConfirmed
  BY DEF ContentInv, ClientInv, EntityIsAsConfirmed, Known, Content
<1> QED BY <1>1, SpecContentInv, PTL

-----------------------------------------------------------------------------
\* The indices in use are below the next one, as long as there is no wraparound.
IndexBound ==
  /\ nextIndex <= serverTick * Cardinality(Entities)
  /\ \A k \in DOMAIN acks : \A index \in acks[k] : index < nextIndex
  /\ \A m \in InFlight : m.index < nextIndex

\* The indices of one tick are at most as many as there are entities.
LEMMA SplitSize ==
  ASSUME TypeOK, IsFiniteSet(Entities), NEW split \in Splits(MutatedEntities)
  PROVE  /\ Len(split) \in Nat /\ DOMAIN split = 1..Len(split)
         /\ Len(split) <= Cardinality(Entities) /\ Cardinality(Entities) \in Nat
<1>1. MutatedEntities \subseteq Entities
  BY DEF MutatedEntities, Seen, Alive
<1>2. /\ IsFiniteSet(MutatedEntities)
      /\ Cardinality(MutatedEntities) <= Cardinality(Entities)
      /\ Cardinality(MutatedEntities) \in Nat /\ Cardinality(Entities) \in Nat
  BY <1>1, FS_Subset, FS_CardinalityType
<1>3. PICK n \in 0..Cardinality(MutatedEntities) :
        split \in [1..n -> (SUBSET MutatedEntities) \ {{}}]
  BY DEF Splits
<1>4. n \in Nat /\ DOMAIN split = 1..n /\ Len(split) = n
  BY <1>3
<1> QED BY <1>2, <1>3, <1>4

\* An index in range is not wrapped.
LEMMA SmallIndex ==
  ASSUME NEW a \in Nat, a < IndexRange
  PROVE  a % IndexRange = a
<1> DEFINE R == IndexRange
           q == a \div R
           m == a % R
<1>1. R \in Nat \ {0} /\ a < R
  BY BoundsAssumption
<1> HIDE DEF R
<1>2. q \in Nat /\ m \in Nat /\ a = R * q + m
  BY <1>1
<1> HIDE DEF q, m
<1>3. q = 0
  <2> SUFFICES ASSUME q >= 1 PROVE FALSE
    BY <1>2
  <2>1. R * q >= R
    BY <1>1, <1>2
  <2> QED BY <1>1, <1>2, <2>1
<1>4. m = a
  BY <1>1, <1>2, <1>3
<1> QED BY <1>4 DEF m, R

\* Ticks to come need at most so many indices more.
LEMMA NoWraparound ==
  ASSUME TypeOK, IsFiniteSet(Entities),
         (MaxTick + 1) * Cardinality(Entities) < IndexRange, IndexBound,
         NEW split \in Splits(MutatedEntities)
  PROVE  /\ Len(split) <= IndexRange
         /\ \A i \in DOMAIN split : IndexOf(i) = nextIndex + i - 1 /\ i \in Nat \ {0}
         /\ nextIndex + Len(split) <= Now * Cardinality(Entities)
         /\ nextIndex \in Nat /\ Len(split) \in Nat /\ DOMAIN split = 1..Len(split)
         /\ Now * Cardinality(Entities) < IndexRange
<1> DEFINE K == Cardinality(Entities)
           n == Len(split)
<1>1. /\ n \in Nat /\ DOMAIN split = 1..n /\ n <= K /\ K \in Nat
      /\ nextIndex \in Nat /\ serverTick \in Nat /\ serverTick <= MaxTick /\ MaxTick \in Nat
      /\ Now = serverTick + 1 /\ IndexRange \in Nat \ {0}
      /\ nextIndex <= serverTick * K /\ (MaxTick + 1) * K < IndexRange
  BY SplitSize, BoundsAssumption DEF TypeOK, Ticks, Now, IndexBound
<1> HIDE DEF K, n
<1>2. Now * K = serverTick * K + K /\ serverTick * K \in Nat
  BY <1>1
<1>3. Now * K <= (MaxTick + 1) * K
  BY <1>1
<1>4. nextIndex + n <= Now * K /\ nextIndex + n <= IndexRange
  BY <1>1, <1>2, <1>3
<1>5. ASSUME NEW i \in DOMAIN split PROVE IndexOf(i) = nextIndex + i - 1 /\ i \in Nat \ {0}
  <2>1. nextIndex + i - 1 \in 0..(IndexRange - 1) /\ i \in Nat \ {0}
    BY <1>1, <1>4
  <2>2. nextIndex + i - 1 \in Nat /\ nextIndex + i - 1 < IndexRange
    BY <1>1, <2>1
  <2> QED BY <2>1, <2>2, SmallIndex DEF IndexOf
<1> QED BY <1>1, <1>2, <1>3, <1>4, <1>5 DEF K, n

\* Every step keeps the indices below the next one.
LEMMA NextIndexBound ==
  ASSUME IsFiniteSet(Entities), (MaxTick + 1) * Cardinality(Entities) < IndexRange,
         TypeOK, TypeOK', IndexBound, [Next]_vars
  PROVE  IndexBound'
<1> DEFINE K == Cardinality(Entities)
<1>0. /\ K \in Nat /\ serverTick \in Nat /\ nextIndex \in Nat
      /\ \A m \in InFlight : m.index \in Nat
      /\ acks \in Seq(SUBSET (0..(IndexRange - 1)))
  BY FS_CardinalityType, BoundsAssumption
     DEF TypeOK, Ticks, InFlight, MutateMessages
<1>1. CASE Tick /\ replicating
  <2>1. PICK split \in Splits(MutatedEntities) :
          /\ mutates' = mutates \cup {MutateMessage(IndexOf(i), split[i]) : i \in DOMAIN split}
          /\ nextIndex' = (nextIndex + Len(split)) % IndexRange
    BY <1>1 DEF Tick, Send
  <2> DEFINE n == Len(split)
  <2>2. /\ \A i \in DOMAIN split : IndexOf(i) = nextIndex + i - 1 /\ i \in Nat \ {0}
        /\ nextIndex + n <= Now * K /\ n \in Nat /\ DOMAIN split = 1..n
        /\ Now * K < IndexRange /\ Now \in Nat
    BY <1>0, NoWraparound DEF Now
  <2>3. serverTick' = Now /\ acks' = acks /\ buffered' = buffered
    BY <1>1 DEF Tick, clientVars
  <2>4. \A m \in InFlight' : \/ m \in InFlight
                             \/ \E i \in DOMAIN split : m.index = IndexOf(i)
    BY <2>1, <2>3 DEF InFlight, MutateMessage
  <2>5. nextIndex' = nextIndex + n
    <3>1. nextIndex + n \in Nat /\ nextIndex + n < IndexRange
      <4>1. Now * K \in Nat /\ IndexRange \in Nat
        BY <1>0, <2>2, BoundsAssumption
      <4> HIDE DEF K, n
      <4> QED BY <1>0, <2>2, <4>1
    <3> QED BY <2>1, <3>1, SmallIndex
  <2>6. ASSUME NEW k \in DOMAIN acks, NEW index \in acks[k] PROVE index < nextIndex'
    <3>1. index < nextIndex /\ index \in Nat
      BY <1>0 DEF IndexBound
    <3> QED BY <1>0, <2>2, <2>5, <3>1
  <2>7. ASSUME NEW m \in InFlight' PROVE m.index < nextIndex'
    <3>1. CASE m \in InFlight
      BY <1>0, <2>2, <2>5, <3>1 DEF IndexBound
    <3>2. ASSUME NEW i \in DOMAIN split, m.index = IndexOf(i) PROVE m.index < nextIndex'
      BY <1>0, <2>2, <2>5, <3>2
    <3> QED BY <2>4, <3>1, <3>2
  <2> QED BY <2>2, <2>3, <2>5, <2>6, <2>7 DEF IndexBound
<1>2. CASE ~(Tick /\ replicating)
  <2>1. /\ nextIndex' = nextIndex /\ InFlight' \subseteq InFlight
        /\ serverTick' \in {serverTick, serverTick + 1}
    <3>1. CASE World
      BY <3>1 DEF World, Spawn, Despawn, Insert, Remove, Mutate,
         CallSetVisibility, serverVars, channels, clientVars, InFlight
    <3>2. CASE ~World
      BY <1>2, <3>2 DEF Next, StartReplication, Tick, ReceiveAcks, CleanupAcks, Lose,
         ApplyUpdateMessage, ReceiveMutations, InFlight, Now, vars, serverVars, channels,
         clientVars
    <3> QED BY <3>1, <3>2
  <2>2. serverTick * K <= serverTick' * K
    <3>1. (serverTick + 1) * K = serverTick * K + K /\ serverTick * K \in Nat
      <4> HIDE DEF K
      <4> QED BY <1>0
    <3> HIDE DEF K
    <3>2. serverTick * K <= serverTick * K + K
      BY <1>0, <3>1
    <3>3. serverTick' * K \in {serverTick * K, (serverTick + 1) * K}
      BY <2>1
    <3> QED BY <1>0, <3>1, <3>2, <3>3
  <2>3. \A k \in DOMAIN acks' : \/ \E j \in DOMAIN acks : acks'[k] = acks[j]
                                \/ \A index \in acks'[k] : \E m \in InFlight : m.index = index
    <3>1. \/ acks' = acks
          \/ acks # <<>> /\ acks' = Tail(acks)
          \/ \E arrived \in SUBSET mutates : acks' = Append(acks, {m.index : m \in arrived})
      BY <1>2 DEF Next, World, Spawn, Despawn, Insert, Remove, Mutate, CallSetVisibility,
         StartReplication, Tick, ReceiveAcks, CleanupAcks, Lose, ApplyUpdateMessage,
         ReceiveMutations, vars, channels
    <3>2. CASE acks' = acks
      BY <3>2
    <3>3. CASE acks # <<>> /\ acks' = Tail(acks)
      BY <1>0, <3>3
    <3>4. ASSUME NEW arrived \in SUBSET mutates,
                 acks' = Append(acks, {m.index : m \in arrived})
          PROVE  \A k \in DOMAIN acks' :
                   \/ \E j \in DOMAIN acks : acks'[k] = acks[j]
                   \/ \A index \in acks'[k] : \E m \in InFlight : m.index = index
      BY <1>0, <3>4 DEF InFlight
    <3> QED BY <3>1, <3>2, <3>3, <3>4
  <2>4. nextIndex' <= serverTick' * K
    <3>1. serverTick * K \in Nat /\ serverTick' * K \in Nat
      BY <1>0, <2>1
    <3> HIDE DEF K
    <3> QED BY <1>0, <2>1, <2>2, <3>1 DEF IndexBound, K
  <2> QED BY <2>1, <2>3, <2>4 DEF IndexBound
<1> QED BY <1>1, <1>2

\* So in so many ticks no index is reused at all: the hypothesis of the last theorems is met by
\* every behaviour of the instances the runs check.
THEOREM NoReuseInRange ==
  ASSUME IsFiniteSet(Entities), (MaxTick + 1) * Cardinality(Entities) < IndexRange
  PROVE  Spec => []FreshIndices
<1>1. Init => TypeOK /\ IndexBound
  <2> SUFFICES ASSUME Init PROVE TypeOK /\ IndexBound
    OBVIOUS
  <2>1. Cardinality(Entities) \in Nat
    BY FS_CardinalityType
  <2>2. 0 <= 0 * Cardinality(Entities)
    BY <2>1
  <2>3. InFlight = {} /\ nextIndex = 0 /\ serverTick = 0 /\ DOMAIN acks = {}
    BY DEF Init, InFlight
  <2> QED BY InitTypeOK, <2>2, <2>3 DEF IndexBound
<1>2. TypeOK /\ IndexBound /\ [Next]_vars => (TypeOK /\ IndexBound)'
  BY NextTypeOK, NextIndexBound
<1>3. TypeOK /\ IndexBound => FreshIndices
  <2> SUFFICES ASSUME TypeOK, IndexBound, NEW split \in Splits(MutatedEntities)
               PROVE  /\ Len(split) <= IndexRange
                      /\ \A i \in DOMAIN split :
                           /\ \A m \in InFlight : m.index # IndexOf(i)
                           /\ \A k \in DOMAIN acks : IndexOf(i) \notin acks[k]
    BY DEF FreshIndices
  <2>1. /\ Len(split) <= IndexRange /\ nextIndex \in Nat
        /\ \A i \in DOMAIN split : IndexOf(i) = nextIndex + i - 1 /\ i \in Nat \ {0}
    BY NoWraparound
  <2>2. /\ \A m \in InFlight : m.index \in Nat /\ m.index < nextIndex
        /\ \A k \in DOMAIN acks : \A index \in acks[k] : index \in Nat /\ index < nextIndex
    BY DEF TypeOK, InFlight, MutateMessages, IndexBound
  <2> QED BY <2>1, <2>2
<1> QED BY <1>1, <1>2, <1>3, PTL DEF Spec

\* Entities are atomic on the client as long as the indices do not wrap around.
COROLLARY EntitiesAreAtomicInRange ==
  ASSUME IsFiniteSet(Entities), (MaxTick + 1) * Cardinality(Entities) < IndexRange
  PROVE  Spec => []EntityIsAsConfirmed
BY NoReuseInRange, EntitiesAreAtomic, PTL
=============================================================================
