----------------------------- MODULE SessionsProofs -----------------------------
(***************************************************************************)
(* Proofs about Sessions, for any number of clients, sessions, entities    *)
(* and ticks.                                                              *)
(*                                                                         *)
(* The first part shows that receive_acks never meets the acknowledgement  *)
(* of a client that is not replicated (IInv).  The rest is about the       *)
(* world: what the client will have when it has applied the messages on    *)
(* their way (WillKnow) is what the server has, and mappings of different  *)
(* sessions are kept apart (WorldInv).                                     *)
(***************************************************************************)
EXTENDS Sessions, FiniteSetTheorems, SequenceTheorems, TLAPS

\* Mutate messages and acknowledgements are on their way only between a running
\* server and a client it replicates to.
InTransitInv == mutates \/ acks => running /\ online /\ link \in replicated

\* A client that is not online has no connection.
LinkInv == ~online => link = Nobody

\* A server that stopped has discarded what it received, before
\* ServerPlugin::reset clears ReplicatedClients.
StoppedInv == ~running => inbox = {}

IInv ==
  /\ replicated \subseteq Clients
  /\ InTransitInv
  /\ LinkInv
  /\ StoppedInv
  /\ AckersAreReplicated

\* The initial states satisfy the invariant: nothing is on its way.
LEMMA InitIInv == Init => IInv
BY DEF Init, IInv, InTransitInv, LinkInv, StoppedInv, AckersAreReplicated

-----------------------------------------------------------------------------
\* Steps that leave the clients of the server and their messages alone: game
\* code, and client frames other than those that acknowledge.
LEMMA OthersKeepIInv ==
  ASSUME IInv,
         UNCHANGED <<replicated, mutates, acks, running, online, link, inbox>>
  PROVE  IInv'
BY DEF IInv, InTransitInv, LinkInv, StoppedInv, AckersAreReplicated

\* Starting to replicate to a client, and connecting it.
LEMMA StartsKeepIInv ==
  ASSUME IInv, NEW i \in Clients, StartReplication(i) \/ Connect(i)
  PROVE  IInv'
<1>1. replicated' = replicated \cup {i} \/ replicated' = replicated
  BY DEF StartReplication, Connect, Add, replicatedVars
<1>2. UNCHANGED <<mutates, acks, running, inbox>>
  BY DEF StartReplication, Connect, linkVars, runVars
<1>3. UNCHANGED <<online, link>> \/ (~online /\ online')
  BY DEF StartReplication, Connect, linkVars, clientVars
<1> QED BY <1>1, <1>2, <1>3
        DEF IInv, InTransitInv, LinkInv, StoppedInv, AckersAreReplicated

\* Everything that closes the connection discards what is on its way.
LEMMA ClosesKeepIInv ==
  ASSUME IInv, Stop \/ Disconnect
  PROVE  IInv'
BY DEF IInv, InTransitInv, LinkInv, StoppedInv, AckersAreReplicated, Stop, Disconnect,
       CloseLink, InboxStopped, replicatedVars, clientVars, runVars

\* The messages of a client go with it.
LEMMA ClientDisconnectedKeepsIInv ==
  ASSUME IInv, NEW i \in Clients, ClientDisconnected(i)
  PROVE  IInv'
<1>1. /\ replicated' = replicated \ {i}
      /\ inbox' = inbox \ {i}
      /\ UNCHANGED <<running, online>>
  BY DEF ClientDisconnected, Without, InboxWithout, runVars, clientVars
<1>2. \/ link' = Nobody /\ mutates' = FALSE /\ acks' = FALSE
      \/ link # i /\ UNCHANGED <<link, mutates, acks>>
  BY DEF ClientDisconnected, CloseLink, linkVars
<1> QED BY <1>1, <1>2 DEF IInv, InTransitInv, LinkInv, StoppedInv, AckersAreReplicated

\* The server receives acknowledgements only from a client it replicates to.
LEMMA ReceiveAcksKeepsIInv ==
  ASSUME IInv, ReceiveAcks
  PROVE  IInv'
BY DEF IInv, InTransitInv, LinkInv, StoppedInv, AckersAreReplicated, ReceiveAcks,
       runVars, replicatedVars, clientVars

\* A client acknowledges only what it was sent.
LEMMA AcknowledgeKeepsIInv ==
  ASSUME IInv, Acknowledge
  PROVE  IInv'
BY DEF IInv, InTransitInv, LinkInv, StoppedInv, AckersAreReplicated, Acknowledge,
       runVars, replicatedVars, clientVars

\* A frame of the server reads all that was received; with a tick, it sends
\* mutate messages only to a client it replicates to.
LEMMA FramesKeepIInv ==
  ASSUME IInv, NEW mutated \in BOOLEAN, ServerFrame \/ ServerTick(mutated)
  PROVE  IInv'
<1>1. inbox' = {} /\ running /\ UNCHANGED <<replicated, running, online, link, acks>>
  BY DEF ServerFrame, ServerTick, replicatedVars, linkVars, clientVars
<1>2. mutates' => mutates \/ link \in replicated
  BY DEF ServerFrame, ServerTick, linkVars
<1>3. link \in replicated => online
  BY NobodyAssumption DEF IInv, LinkInv
<1> QED BY <1>1, <1>2, <1>3
        DEF IInv, InTransitInv, LinkInv, StoppedInv, AckersAreReplicated

\* When ServerPlugin::reset clears ReplicatedClients, nothing refers to them.
LEMMA StoppedFrameKeepsIInv ==
  ASSUME IInv, NEW dropped \in BOOLEAN, StoppedFrame(dropped)
  PROVE  IInv'
<1>1. /\ ~running
      /\ replicated' = {} \/ replicated' = replicated
      /\ UNCHANGED <<running, inbox, mutates, acks, online, link>>
  BY DEF StoppedFrame, Cleared, replicatedVars, linkVars, clientVars
<1> QED BY <1>1 DEF IInv, InTransitInv, LinkInv, StoppedInv, AckersAreReplicated

\* Every step preserves the invariant.
LEMMA NextIInv == IInv /\ [Next]_vars => IInv'
<1> SUFFICES ASSUME IInv, [Next]_vars PROVE IInv'
  OBVIOUS
<1>1. CASE UNCHANGED vars
  BY <1>1, OthersKeepIInv DEF vars, runVars, replicatedVars, linkVars, clientVars
<1>2. CASE \E e \in Entities :
             \/ Spawn(e)
             \/ \E s \in 1..Session, kind \in {"early", "gone"} : SpawnMapped(e, s, kind)
             \/ Despawn(e)
             \/ RemoveComponent(e)
  BY <1>2, OthersKeepIInv
  DEF Spawn, SpawnMapped, Despawn, RemoveComponent, runVars, replicatedVars, linkVars,
      clientVars
<1>3. CASE \E i \in Clients : StartReplication(i) \/ Connect(i) \/ ClientDisconnected(i)
  BY <1>3, StartsKeepIInv, ClientDisconnectedKeepsIInv
<1>4. CASE Start
  BY <1>4 DEF Start, IInv, InTransitInv, LinkInv, StoppedInv, AckersAreReplicated,
              replicatedVars, linkVars, clientVars
<1>5. CASE Stop \/ Disconnect
  BY <1>5, ClosesKeepIInv
<1>6. CASE ReceiveAcks
  BY <1>6, ReceiveAcksKeepsIInv
<1>7. CASE ServerFrame \/ \E mutated \in BOOLEAN : ServerTick(mutated)
  BY <1>7, FramesKeepIInv
<1>8. CASE \E dropped \in BOOLEAN : StoppedFrame(dropped)
  BY <1>8, StoppedFrameKeepsIInv
<1>9. CASE ClientFrame \/ ApplyUpdate
  BY <1>9, OthersKeepIInv
  DEF ClientFrame, ApplyUpdate, runVars, replicatedVars, linkVars
<1>10. CASE Acknowledge
  BY <1>10, AcknowledgeKeepsIInv
<1> QED BY <1>1, <1>2, <1>3, <1>4, <1>5, <1>6, <1>7, <1>8, <1>9, <1>10 DEF Next

\* Every acknowledgement that receive_acks reads is one of a client that is
\* replicated, so that client_mut does not panic: whenever clients connect, start
\* replicating and disconnect, and the server starts and stops.
THEOREM AckersStayReplicated == Spec => []AckersAreReplicated
<1>1. Spec => []IInv
  BY InitIInv, NextIInv, PTL DEF Spec
<1> QED BY <1>1, PTL DEF IInv

-----------------------------------------------------------------------------
(* What the client will have.                                              *)

\* The client has an entity once it has applied an update message.
Brings(u, e) ==
  \/ e \in u.removals \cup u.changes
  \/ e \notin u.despawns /\ \E m \in u.mappings : m[1] = e /\ m[2][1] = "early"

\* The client has an entity once it has applied all that is on its way.
WillKnow(e) ==
  \/ e \in Known /\ \A k \in DOMAIN down : e \notin down[k].despawns
  \/ \E k \in DOMAIN down :
       Brings(down[k], e) /\ \A n \in DOMAIN down : k < n => e \notin down[n].despawns

\* The update tick of the client by then.
LastTick == IF down = <<>> THEN clientTick ELSE down[Len(down)].tick

\* The mapping to an entity of the current session, by number of its session.
Own == <<"early", Session>>

\* A connection is one of the last session, to a running server.
ConnectionInv ==
  /\ link # Nobody => running /\ online /\ Session > 0 /\ link = ids[Session]
  /\ ~lastOnline => Known = {}

\* What is despawned is dead, and what is tracked was alive.
LifeInv ==
  /\ \A e \in DespawnsBuffered : life[e] = "dead"
  /\ \A k \in DOMAIN down : \A e \in down[k].despawns : life[e] = "dead"
  /\ \A i \in Clients : \A e \in tracked[i] : life[e] # "unborn"

\* What the server sent is there or on its way; what else is there should be
\* gone as soon as its despawn is sent, or is excused.
KnownInv ==
  /\ link \in replicated =>
       /\ \A e \in tracked[link] \ DespawnsBuffered : WillKnow(e)
       /\ \A e \in Entities : WillKnow(e) =>
            e \in Alive \cup DespawnsBuffered \cup inherited \cup ghosts
  /\ link # Nobody /\ link \notin replicated => down = <<>> /\ Known \subseteq inherited

\* A tick that was sent arrives.
UpdateTickInv ==
  link \in replicated /\ raised[link] = "sent" => LastTick = updateTick[link]

\* Mappings anywhere: game code inserts one when it spawns the entity.
IsMapping(m) ==
  \/ m \in timely
  \/ \E i \in Clients : m \in entityMap[i]
  \/ \E k \in DOMAIN down : m \in down[k].mappings

\* So there is at most one of an entity.
UniqueInv ==
  \A m \in Mappings : IsMapping(m) =>
    /\ life[m[1]] # "unborn"
    /\ \A n \in Mappings : IsMapping(n) /\ n[1] = m[1] => n = m

\* Mappings that were inserted in time are of the session of the client they are
\* kept for; those on their way, or applied, are of the last session.
SessionInv ==
  /\ \A m \in timely : m[2][2] <= Session
  /\ \A i \in Clients : \A m \in entityMap[i] \cap timely :
       i \in connected /\ (link = i => m[2][2] = Session)
  /\ \A k \in DOMAIN down : \A m \in down[k].mappings \cap timely : m[2][2] = Session
  /\ \A e \in Known \ inherited :
       map[e][1] = "early" /\ <<e, map[e]>> \in timely => map[e] = Own

\* An entity has its mapping, or it is on its way, or is sent with the entity.
OwnInv ==
  link # Nobody =>
    /\ \A e \in Alive : <<e, Own>> \in timely =>
         \/ <<e, Own>> \in entityMap[link]
         \/ map[e] = Own
         \/ \E k \in DOMAIN down : <<e, Own>> \in down[k].mappings
    /\ link \in replicated => \A m \in entityMap[link] : m[1] \notin tracked[link]

\* The inductive invariant.
WorldInv ==
  /\ TypeOK
  /\ ConnectionInv
  /\ LifeInv
  /\ KnownInv
  /\ UpdateTickInv
  /\ UniqueInv
  /\ SessionInv
  /\ OwnInv

-----------------------------------------------------------------------------
(* Types.                                                                  *)

\* Replicating to a client, with a reused ReplicatedClient or a new one.
LEMMA AddTypes ==
  ASSUME TypeOK, NEW i \in Clients, Add(i)
  PROVE  /\ replicated' = replicated \cup {i}
         /\ tracked' \in [Clients -> SUBSET Entities]
         /\ updateTick' \in [Clients -> Ticks]
         /\ raised' \in [Clients -> {"kept", "sent", "skipped"}]
         /\ spare' \in Seq(Ticks)
<1>1. 0 \in Ticks
  BY BoundsAssumption DEF Ticks
<1>2. CASE spare = <<>>
  BY <1>1, <1>2 DEF TypeOK, Add
<1>3. CASE spare # <<>>
  <2>1. Len(spare) \in Nat \ {0} /\ spare \in Seq(Ticks)
    BY <1>3 DEF TypeOK
  <2>2. Last(spare) \in Ticks /\ Front(spare) \in Seq(Ticks)
    BY <2>1 DEF Last, Front
  <2> QED BY <1>3, <2>2 DEF TypeOK, Add
<1> QED BY <1>2, <1>3

\* ClientBuffers keep the update ticks of clients that are not replicated to.
LEMMA ClearedTypes ==
  ASSUME TypeOK, IsFiniteSet(replicated), NEW order \in SetToSeqs(replicated), Cleared(order)
  PROVE  spare' \in Seq(Ticks)
<1> DEFINE n == Cardinality(replicated)
<1>1. n \in Nat /\ order \in [1..n -> replicated]
  BY FS_CardinalityType DEF SetToSeqs
<1> HIDE DEF n
<1>2. \A k \in 1..n : order[k] \in Clients
  BY <1>1 DEF TypeOK
<1>3. [k \in DOMAIN order |-> updateTick[order[k]]] \in [1..n -> Ticks]
  BY <1>1, <1>2 DEF TypeOK
<1>4. [k \in DOMAIN order |-> updateTick[order[k]]] \in Seq(Ticks)
  BY <1>1, <1>3
<1> QED BY <1>4 DEF Cleared, TypeOK

\* Only finitely many clients are replicated to at a time.
LEMMA FinitelyReplicated ==
  ASSUME IsFiniteSet(replicated), [Next]_vars PROVE IsFiniteSet(replicated')
<1>1. \/ replicated' = replicated \/ replicated' = {}
      \/ \E i \in Clients : replicated' = replicated \cup {i} \/ replicated' = replicated \ {i}
  <2>1. CASE UNCHANGED vars
    BY <2>1 DEF vars, replicatedVars
  <2>2. CASE Next
    BY <2>2
    DEF Next, Spawn, SpawnMapped, Despawn, RemoveComponent, StartReplication, Connect,
        ClientDisconnected, Start, Stop, Disconnect, ReceiveAcks, ServerFrame, ServerTick,
        StoppedFrame, ClientFrame, ApplyUpdate, Acknowledge, replicatedVars, Add, Without,
        Cleared
  <2> QED BY <2>1, <2>2
<1> QED BY <1>1, FS_EmptySet, FS_AddElement, FS_RemoveElement

\* The entity an update message leaves on the client.
LEMMA UpdatedTypes ==
  ASSUME TypeOK, NEW u \in UpdateMessages, NEW e \in Entities
  PROVE  Updated(u, e) \in ClientEntities \cup {NoEntity}
<1>1. Mapped(u, e) \in ClientEntities \cup {NoEntity}
  <2> DEFINE found == {m \in u.mappings : m[1] = e /\ m[2][1] = "early"}
  <2>1. CASE found = {}
    BY <2>1 DEF Mapped, TypeOK
  <2>2. CASE found # {}
    <3>1. PICK m \in found : m = CHOOSE n \in found : TRUE
      BY <2>2
    <3>2. m \in Mappings
      BY <3>1 DEF UpdateMessages
    <3>3. m[2] \in ClientEntities
      BY <3>1, <3>2 DEF Mappings, ClientEntities
    <3> QED BY <2>2, <3>1, <3>3 DEF Mapped
  <2> QED BY <2>1, <2>2
<1> QED BY <1>1 DEF Updated, ClientEntities

\* The update message of a tick.
LEMMA UpdateMessageTypes ==
  ASSUME TypeOK, NEW i \in Clients, serverTick < MaxTick
  PROVE  UpdateMessage(i) \in UpdateMessages
<1>1. serverTick + 1 \in Ticks
  BY BoundsAssumption DEF TypeOK, Ticks
<1> QED BY <1>1 DEF UpdateMessage, UpdateMessages, TypeOK, Alive, DespawnsBuffered, RemovalsBuffered

\* Closing the connection.
LEMMA CloseTypes == ASSUME CloseLink PROVE
  link' = Nobody /\ down' = <<>> /\ mutates' = FALSE /\ acks' = FALSE
BY DEF CloseLink

\* Game code on the server.
LEMMA WorldTypeOK ==
  ASSUME TypeOK, NEW e \in Entities,
         \/ Spawn(e) \/ Despawn(e) \/ RemoveComponent(e)
         \/ \E s \in 1..Session, kind \in {"early", "gone"} : SpawnMapped(e, s, kind)
  PROVE  TypeOK'
<1>1. CASE Spawn(e) \/ Despawn(e) \/ RemoveComponent(e)
  BY <1>1 DEF TypeOK, Spawn, Despawn, RemoveComponent, bufferVars, runVars, replicatedVars,
     linkVars, clientVars, Session
<1>2. ASSUME NEW s \in 1..Session, NEW kind \in {"early", "gone"}, SpawnMapped(e, s, kind)
      PROVE  TypeOK'
  <2>1. <<e, <<kind, s>>>> \in Mappings
    BY BoundsAssumption DEF Mappings, TypeOK, Session
  <2>2. entityMap' \in [Clients -> SUBSET Mappings]
    <3>1. ids[s] \in Clients
      BY DEF TypeOK, Session
    <3>2. entityMap' = [entityMap EXCEPT ![ids[s]] = entityMap[ids[s]] \cup {<<e, <<kind, s>>>>}]
      BY <1>2 DEF SpawnMapped
    <3> QED BY <2>1, <3>1, <3>2 DEF TypeOK
  <2>4. timely' \subseteq Mappings
    BY <1>2, <2>1 DEF SpawnMapped, TypeOK
  <2>3. life' \in [Entities -> {"unborn", "alive", "dead"}]
    BY <1>2 DEF SpawnMapped, TypeOK
  <2> QED BY <1>2, <2>2, <2>3, <2>4 DEF TypeOK, SpawnMapped, bufferVars, runVars, replicatedVars,
             linkVars, clientVars, Session
<1> QED BY <1>1, <1>2

\* Clients of the server.
LEMMA ClientsTypeOK ==
  ASSUME TypeOK, NEW i \in Clients, StartReplication(i) \/ Connect(i) \/ ClientDisconnected(i)
  PROVE  TypeOK'
<1>1. CASE StartReplication(i)
  BY <1>1, AddTypes DEF TypeOK, StartReplication, worldVars, bufferVars, runVars, linkVars,
     clientVars, Session
<1>2. CASE Connect(i)
  <2>1. ids' \in Seq(Clients) /\ Session' <= MaxSessions
    BY <1>2, BoundsAssumption DEF TypeOK, Connect, Session
  <2>2. inherited' \subseteq Entities
    BY <1>2 DEF Connect, TypeOK, Known
  <2>3. /\ replicated' \subseteq connected \cup {i}
        /\ tracked' \in [Clients -> SUBSET Entities]
        /\ updateTick' \in [Clients -> Ticks]
        /\ raised' \in [Clients -> {"kept", "sent", "skipped"}]
        /\ spare' \in Seq(Ticks)
    BY <1>2, AddTypes DEF Connect, TypeOK, replicatedVars
  <2>4. i # Nobody
    BY NobodyAssumption
  <2> QED BY <1>2, <2>1, <2>2, <2>3, <2>4 DEF TypeOK, Connect, worldVars, bufferVars, runVars
<1>3. CASE ClientDisconnected(i)
  <2>1. spare' \in Seq(Ticks)
    BY <1>3 DEF ClientDisconnected, Without, TypeOK
  <2>2. entityMap' \in [Clients -> SUBSET Mappings]
    BY <1>3 DEF ClientDisconnected, MappingsWithout, TypeOK
  <2>3. /\ link' \in connected' \cup {Nobody} /\ down' \in Seq(UpdateMessages)
        /\ mutates' \in BOOLEAN /\ acks' \in BOOLEAN
        /\ link' = Nobody => down' = <<>> /\ ~mutates' /\ ~acks'
    <3>1. <<>> \in Seq(UpdateMessages)
      OBVIOUS
    <3>2. CASE link = i
      BY <1>3, <3>1, <3>2 DEF ClientDisconnected, CloseLink, TypeOK
    <3>3. CASE link # i
      BY <1>3, <3>3 DEF ClientDisconnected, TypeOK, linkVars
    <3> QED BY <3>2, <3>3
  <2> QED BY <1>3, <2>1, <2>2, <2>3
          DEF TypeOK, ClientDisconnected, Without, InboxWithout, worldVars, bufferVars, runVars,
              clientVars, Session
<1> QED BY <1>1, <1>2, <1>3

\* The messaging backend.
LEMMA BackendTypeOK ==
  ASSUME TypeOK, Start \/ Stop \/ Disconnect \/ ReceiveAcks \/ Acknowledge PROVE TypeOK'
<1>1. CASE Start
  BY <1>1, BoundsAssumption DEF TypeOK, Start, worldVars, bufferVars, replicatedVars, linkVars,
     clientVars, Session
<1>2. CASE Stop \/ Disconnect
  <2>1. <<>> \in Seq(UpdateMessages)
    OBVIOUS
  <2>. QED
    BY <1>2, <2>1
    DEF TypeOK, Stop, Disconnect, CloseLink, InboxStopped, worldVars, bufferVars, runVars,
      replicatedVars, clientVars, Session
<1>3. CASE ReceiveAcks \/ Acknowledge
  BY <1>3, NobodyAssumption DEF TypeOK, ReceiveAcks, Acknowledge, worldVars, bufferVars,
     runVars, replicatedVars, clientVars, Session
<1> QED BY <1>1, <1>2, <1>3

\* Frames of the server.
LEMMA ServerTypeOK ==
  ASSUME TypeOK, IsFiniteSet(replicated),
         \/ ServerFrame
         \/ \E mutated \in BOOLEAN : ServerTick(mutated)
         \/ \E dropped \in BOOLEAN : StoppedFrame(dropped)
  PROVE  TypeOK'
<1>0. 0 \in Ticks
  BY BoundsAssumption DEF Ticks
<1>1. CASE ServerFrame
  BY <1>1 DEF TypeOK, ServerFrame, DespawnsBuffered, RemovalsBuffered, replicatedVars, linkVars,
     clientVars, Session
<1>2. ASSUME NEW mutated \in BOOLEAN, ServerTick(mutated) PROVE TypeOK'
  <2>1. serverTick + 1 \in Ticks /\ serverTick < MaxTick
    BY <1>2, BoundsAssumption DEF TypeOK, Ticks, ServerTick
  <2>2. tracked' \in [Clients -> SUBSET Entities] /\ updateTick' \in [Clients -> Ticks]
    BY <1>2, <2>1 DEF ServerTick, TypeOK, TrackedAlive, Alive
  <2>3. /\ raised' \in [Clients -> {"kept", "sent", "skipped"}]
        /\ entityMap' \in [Clients -> SUBSET Mappings]
    BY <1>2 DEF ServerTick, TypeOK, MappingsLeft
  <2>4. down' \in Seq(UpdateMessages) /\ mutates' \in BOOLEAN
    <3>1. CASE link \in replicated
      <4>1. UpdateMessage(link) \in UpdateMessages
        BY <2>1, <3>1, UpdateMessageTypes DEF TypeOK
      <4>2. down' = (IF IsSent(link) THEN Append(down, UpdateMessage(link)) ELSE down)
        BY <1>2, <3>1 DEF ServerTick
      <4>3. mutates' \in BOOLEAN
        BY <1>2, <3>1 DEF ServerTick, TypeOK
      <4> QED BY <4>1, <4>2, <4>3 DEF TypeOK
    <3>2. CASE link \notin replicated
      BY <1>2, <3>2 DEF ServerTick, TypeOK
    <3> QED BY <3>1, <3>2
  <2>5. link = Nobody => down' = <<>> /\ ~mutates' /\ ~acks
    BY <1>2, NobodyAssumption DEF ServerTick, TypeOK
  <2>6. ghosts' \subseteq Entities
    BY <1>2 DEF ServerTick, TypeOK, RemovalsBuffered
  <2> QED BY <1>2, <2>1, <2>2, <2>3, <2>4, <2>5, <2>6 DEF TypeOK, ServerTick, clientVars, Session
<1>3. ASSUME NEW dropped \in BOOLEAN, StoppedFrame(dropped) PROVE TypeOK'
  <2>1. spare' \in Seq(Ticks)
    BY <1>3, ClearedTypes DEF StoppedFrame, TypeOK, replicatedVars
  <2>2. replicated' \subseteq replicated /\ UNCHANGED <<tracked, updateTick, raised>>
    BY <1>3 DEF StoppedFrame, Cleared, replicatedVars
  <2>3. serverTick' \in Ticks /\ entityMap' \in [Clients -> SUBSET Mappings]
    BY <1>0, <1>3 DEF StoppedFrame, TypeOK
  <2> QED BY <1>3, <2>1, <2>2, <2>3 DEF TypeOK, StoppedFrame, bufferVars, linkVars, clientVars,
             Session
<1> QED BY <1>1, <1>2, <1>3

\* Frames of the client.
LEMMA ClientTypeOK == ASSUME TypeOK, ClientFrame \/ ApplyUpdate PROVE TypeOK'
<1>0. 0 \in Ticks
  BY BoundsAssumption DEF Ticks
<1>1. CASE ClientFrame
  BY <1>0, <1>1 DEF TypeOK, ClientFrame, MapReset, worldVars, bufferVars, runVars, replicatedVars,
     linkVars, Session
<1>2. CASE ApplyUpdate
  <2>1. down \in Seq(UpdateMessages) /\ down # <<>>
    BY <1>2 DEF TypeOK, ApplyUpdate
  <2>2. Head(down) \in UpdateMessages /\ Tail(down) \in Seq(UpdateMessages)
    BY <2>1
  <2>3. map' \in [Entities -> ClientEntities \cup {NoEntity}]
    BY <1>2, <2>2, UpdatedTypes DEF ApplyUpdate
  <2>4. clientTick' \in Ticks
    BY <1>2, <2>2 DEF ApplyUpdate, TickAfter, UpdateMessages
  <2> QED BY <1>2, <2>1, <2>2, <2>3, <2>4
          DEF TypeOK, ApplyUpdate, worldVars, bufferVars, runVars, replicatedVars, Session
<1> QED BY <1>1, <1>2

\* Every step keeps the types.
LEMMA NextTypeOK == TypeOK /\ IsFiniteSet(replicated) /\ [Next]_vars => TypeOK'
<1> SUFFICES ASSUME TypeOK, IsFiniteSet(replicated), [Next]_vars PROVE TypeOK'
  OBVIOUS
<1>1. CASE UNCHANGED vars
  BY <1>1 DEF vars, worldVars, bufferVars, runVars, replicatedVars, linkVars, clientVars, TypeOK,
     Session
<1> QED BY <1>1, WorldTypeOK, ClientsTypeOK, BackendTypeOK, ServerTypeOK, ClientTypeOK DEF Next

-----------------------------------------------------------------------------
(* Steps that leave the client and the mappings alone.                     *)

\* Without a connection little is required.
LEMMA NoConnection ==
  ASSUME TypeOK', link' = Nobody PROVE KnownInv' /\ UpdateTickInv' /\ OwnInv'
<1>1. link' \notin replicated'
  BY NobodyAssumption DEF TypeOK
<1> QED BY <1>1 DEF KnownInv, UpdateTickInv, OwnInv

\* Nothing has happened at first.
LEMMA InitWorldInv == Init => WorldInv
<1> SUFFICES ASSUME Init PROVE WorldInv
  OBVIOUS
<1>1. TypeOK
  <2>1. /\ <<>> \in Seq(Ticks) /\ <<>> \in Seq(UpdateMessages)
        /\ <<>> \in Seq(Clients) /\ Len(<<>>) = 0
    OBVIOUS
  <2>2. 0 \in Ticks /\ 0 \in 0..MaxSessions /\ MaxSessions \in Nat
    BY BoundsAssumption DEF Ticks
  <2>3. /\ life \in [Entities -> {"unborn", "alive", "dead"}]
        /\ tracked \in [Clients -> SUBSET Entities]
        /\ updateTick \in [Clients -> Ticks]
        /\ entityMap \in [Clients -> SUBSET Mappings]
        /\ map \in [Entities -> ClientEntities \cup {NoEntity}]
        /\ raised \in [Clients -> {"kept", "sent", "skipped"}]
    BY <2>2 DEF Init
  <2>4. /\ spare \in Seq(Ticks) /\ down \in Seq(UpdateMessages) /\ ids \in Seq(Clients)
        /\ Session <= MaxSessions /\ starts \in 0..MaxSessions
        /\ serverTick \in Ticks /\ clientTick \in Ticks
    BY <2>1, <2>2 DEF Init, Session
  <2> QED BY <2>3, <2>4 DEF Init, TypeOK
<1>2. /\ link = Nobody /\ Nobody \notin replicated /\ Known = {} /\ Alive = {}
      /\ DOMAIN down = {} /\ DespawnsBuffered = {}
  BY DEF Init, Known, Alive, DespawnsBuffered
<1>3. ConnectionInv /\ LifeInv /\ KnownInv /\ UpdateTickInv
  BY <1>2 DEF Init, ConnectionInv, LifeInv, KnownInv, UpdateTickInv
<1>4. UniqueInv /\ SessionInv /\ OwnInv
  BY <1>2 DEF Init, UniqueInv, SessionInv, OwnInv, IsMapping
<1> QED BY <1>1, <1>3, <1>4 DEF WorldInv

\* Despawns in the buffers and messages are of entities.
LEMMA DespawnTypes ==
  ASSUME TypeOK
  PROVE  /\ DespawnsBuffered \subseteq Entities
         /\ \A k \in DOMAIN down : /\ down[k].despawns \subseteq Entities
                                  /\ down[k].removals \subseteq Entities
                                  /\ down[k].changes \subseteq Entities
                                  /\ down[k].mappings \subseteq Mappings
<1>1. \A k \in DOMAIN down : down[k] \in UpdateMessages
  BY DEF TypeOK
<1> QED BY <1>1 DEF TypeOK, DespawnsBuffered, UpdateMessages

\* Steps that change nothing the invariant is about.
LEMMA QuietWorldInv ==
  ASSUME WorldInv, TypeOK', running => running', lastOnline => lastOnline',
         UNCHANGED <<life, DespawnsBuffered, connected, replicated, tracked, updateTick,
                     raised, entityMap, link, down, online, ids, map, clientTick, timely,
                     inherited, ghosts>>
  PROVE  WorldInv'
<1>1. Alive' = Alive /\ Known' = Known /\ Own' = Own /\ LastTick' = LastTick /\ Session' = Session
  BY DEF Alive, Known, Own, LastTick, Session
<1>2. \A e : WillKnow(e)' = WillKnow(e)
  BY <1>1 DEF WillKnow
<1>3. \A m : IsMapping(m)' = IsMapping(m)
  BY DEF IsMapping
<1>4. (ConnectionInv /\ LifeInv /\ UpdateTickInv)'
  BY <1>1 DEF WorldInv, ConnectionInv, LifeInv, UpdateTickInv
<1>5. KnownInv'
  BY <1>1, <1>2 DEF WorldInv, KnownInv
<1>6. UniqueInv'
  BY <1>3 DEF WorldInv, UniqueInv
<1>7. (SessionInv /\ OwnInv)'
  BY <1>1 DEF WorldInv, SessionInv, OwnInv
<1> QED BY <1>4, <1>5, <1>6, <1>7 DEF WorldInv

\* Spawning an entity: nothing was told of it.
LEMMA SpawnWorldInv ==
  ASSUME WorldInv, NEW e \in Entities, Spawn(e) PROVE WorldInv'
<1>0. TypeOK'
  BY WorldTypeOK DEF WorldInv
<1>1. /\ life[e] = "unborn" /\ Alive' = Alive \cup {e}
      /\ \A d \in Entities : d # e => life'[d] = life[d]
      /\ life'[e] # "unborn"
  BY DEF Spawn, Alive, WorldInv, TypeOK
<1>2. UNCHANGED <<DespawnsBuffered, running, connected, replicated, tracked, updateTick,
                  raised, entityMap, link, down, online, lastOnline, ids, map, clientTick,
                  timely, inherited, ghosts>>
  BY DEF Spawn, DespawnsBuffered, bufferVars, runVars, replicatedVars, linkVars, clientVars
<1>3. Known' = Known /\ Own' = Own /\ LastTick' = LastTick /\ Session' = Session
  BY <1>2 DEF Known, Own, LastTick, Session
<1>4. \A d : WillKnow(d)' = WillKnow(d)
  BY <1>2, <1>3 DEF WillKnow
<1>5. \A m : IsMapping(m)' = IsMapping(m)
  BY <1>2 DEF IsMapping
<1>6. \A d \in Entities : life[d] # "unborn" => life'[d] # "unborn"
  BY <1>1
<1>7. (ConnectionInv /\ UpdateTickInv /\ SessionInv)'
  BY <1>2, <1>3 DEF WorldInv, ConnectionInv, UpdateTickInv, SessionInv
<1>8. LifeInv'
  <2>1. \A i \in Clients : tracked[i] \subseteq Entities
    BY DEF WorldInv, TypeOK
  <2>2. \A d \in Entities : life[d] = "dead" => life'[d] = "dead"
    BY <1>1
  <2> QED BY <1>2, <1>6, <2>1, <2>2, DespawnTypes DEF WorldInv, LifeInv
<1>9. KnownInv'
  BY <1>1, <1>2, <1>3, <1>4 DEF WorldInv, KnownInv
<1>10. UniqueInv'
  BY <1>5, <1>6 DEF WorldInv, UniqueInv, Mappings
<1>11. OwnInv'
  <2>1. <<e, Own>> \notin timely
    <3>1. <<e, Own>> \in timely => <<e, Own>> \in Mappings
      BY DEF WorldInv, TypeOK
    <3> QED BY <1>1, <3>1 DEF WorldInv, UniqueInv, IsMapping
  <2> QED BY <1>1, <1>2, <1>3, <2>1 DEF WorldInv, OwnInv
<1> QED BY <1>0, <1>7, <1>8, <1>9, <1>10, <1>11 DEF WorldInv

\* Despawning an entity: the client should lose it.
LEMMA DespawnWorldInv ==
  ASSUME WorldInv, NEW e \in Entities, Despawn(e) PROVE WorldInv'
<1>0. TypeOK'
  BY WorldTypeOK DEF WorldInv
<1>1. /\ life[e] = "alive" /\ Alive' = Alive \ {e} /\ DespawnsBuffered' = DespawnsBuffered \cup {e}
      /\ \A d \in Entities : d # e => life'[d] = life[d]
      /\ life'[e] = "dead"
  BY DEF Despawn, Alive, WorldInv, TypeOK, DespawnsBuffered, bufferVars
<1>2. UNCHANGED <<running, connected, replicated, tracked, updateTick, raised, entityMap, link,
                  down, online, lastOnline, ids, map, clientTick, timely, inherited, ghosts>>
  BY DEF Despawn, runVars, replicatedVars, linkVars, clientVars
<1>3. Known' = Known /\ Own' = Own /\ LastTick' = LastTick /\ Session' = Session
  BY <1>2 DEF Known, Own, LastTick, Session
<1>4. \A d : WillKnow(d)' = WillKnow(d)
  BY <1>2, <1>3 DEF WillKnow
<1>5. \A m : IsMapping(m)' = IsMapping(m)
  BY <1>2 DEF IsMapping
<1>6. \A d \in Entities : /\ life[d] # "unborn" => life'[d] # "unborn"
                          /\ life[d] = "dead" => life'[d] = "dead"
  BY <1>1
<1>7. (ConnectionInv /\ UpdateTickInv /\ SessionInv)'
  BY <1>2, <1>3 DEF WorldInv, ConnectionInv, UpdateTickInv, SessionInv
<1>8. LifeInv'
  <2>1. \A i \in Clients : tracked[i] \subseteq Entities
    BY DEF WorldInv, TypeOK
  <2> QED BY <1>1, <1>2, <1>6, <2>1, DespawnTypes DEF WorldInv, LifeInv
<1>9. KnownInv'
  BY <1>1, <1>2, <1>3, <1>4 DEF WorldInv, KnownInv
<1>10. UniqueInv'
  BY <1>5, <1>6 DEF WorldInv, UniqueInv, Mappings
<1>11. OwnInv'
  BY <1>1, <1>2, <1>3 DEF WorldInv, OwnInv
<1> QED BY <1>0, <1>7, <1>8, <1>9, <1>10, <1>11 DEF WorldInv

\* Replicating to a client leaves the others alone.
LEMMA AddEffect ==
  ASSUME TypeOK, NEW i \in Clients, Add(i)
  PROVE  /\ tracked'[i] = {} /\ raised'[i] = "kept" /\ replicated' = replicated \cup {i}
         /\ \A j \in Clients \ {i} : /\ tracked'[j] = tracked[j]
                                     /\ raised'[j] = raised[j]
                                     /\ updateTick'[j] = updateTick[j]
BY DEF TypeOK, Add

\* Replication to a client starts: nothing was sent to it in its session.
LEMMA StartReplicationWorldInv ==
  ASSUME WorldInv, NEW i \in Clients, StartReplication(i) PROVE WorldInv'
<1>0. TypeOK' /\ TypeOK
  BY ClientsTypeOK DEF WorldInv
<1>1. Add(i) /\ i \notin replicated
  BY DEF StartReplication
<1>2. UNCHANGED <<life, DespawnsBuffered, running, connected, entityMap, link, down, online,
                  lastOnline, ids, map, clientTick, timely, inherited, ghosts>>
  BY DEF StartReplication, DespawnsBuffered, worldVars, bufferVars, runVars, linkVars, clientVars
<1>3. Known' = Known /\ Own' = Own /\ LastTick' = LastTick /\ Session' = Session /\ Alive' = Alive
  BY <1>2 DEF Known, Own, LastTick, Session, Alive
<1>4. \A d : WillKnow(d)' = WillKnow(d)
  BY <1>2, <1>3 DEF WillKnow
<1>5. \A m : IsMapping(m)' = IsMapping(m)
  BY <1>2 DEF IsMapping
<1>6. link # Nobody => link \in Clients
  BY <1>0 DEF TypeOK
<1>7. (ConnectionInv /\ SessionInv)'
  BY <1>2, <1>3 DEF WorldInv, ConnectionInv, SessionInv
<1>8. LifeInv'
  BY <1>0, <1>1, <1>2, AddEffect DEF WorldInv, LifeInv
<1>9. KnownInv' /\ UpdateTickInv' /\ OwnInv'
  <2>1. CASE link = i
    <3>1. link # Nobody /\ down = <<>> /\ Known \subseteq inherited
      BY <1>1, <2>1, NobodyAssumption DEF WorldInv, KnownInv
    <3>2. \A d : WillKnow(d) => d \in inherited
      BY <3>1 DEF WillKnow
    <3>3. tracked'[link'] = {} /\ raised'[link'] = "kept" /\ link' \in replicated'
      BY <1>0, <1>1, <1>2, <2>1, AddEffect
    <3>4. KnownInv'
      BY <1>2, <1>4, <3>2, <3>3 DEF KnownInv
    <3>5. UpdateTickInv'
      BY <3>3 DEF UpdateTickInv
    <3>6. OwnInv'
      BY <1>2, <1>3, <3>3 DEF WorldInv, OwnInv
    <3> QED BY <3>4, <3>5, <3>6
  <2>2. CASE link # Nobody /\ link # i
    <3>1. /\ tracked'[link] = tracked[link] /\ raised'[link] = raised[link]
          /\ updateTick'[link] = updateTick[link]
          /\ link \in replicated' <=> link \in replicated
      BY <1>0, <1>1, <1>6, <2>2, AddEffect
    <3> QED BY <1>2, <1>3, <1>4, <3>1 DEF WorldInv, KnownInv, UpdateTickInv, OwnInv
  <2>3. CASE link = Nobody
    BY <1>0, <1>2, <2>3, NoConnection
  <2> QED BY <2>1, <2>2, <2>3
<1>10. UniqueInv'
  BY <1>2, <1>5 DEF WorldInv, UniqueInv
<1> QED BY <1>0, <1>7, <1>8, <1>9, <1>10 DEF WorldInv

\* A session begins: what the client has is left from the last one.
LEMMA ConnectWorldInv ==
  ASSUME WorldInv, NEW i \in Clients, Connect(i) PROVE WorldInv'
<1>0. TypeOK' /\ TypeOK
  BY ClientsTypeOK DEF WorldInv
<1>1. /\ link = Nobody /\ down = <<>> /\ running /\ i \notin connected /\ i \notin replicated
      /\ link' = i /\ i # Nobody /\ connected' = connected \cup {i} /\ online' = TRUE
  BY NobodyAssumption DEF Connect, ConnectionInv, WorldInv, TypeOK
<1>2. UNCHANGED <<life, DespawnsBuffered, running, entityMap, down, lastOnline, map, clientTick,
                  timely, ghosts>>
  BY DEF Connect, DespawnsBuffered, worldVars, bufferVars, runVars
<1>3. Known' = Known /\ Alive' = Alive
  BY <1>2 DEF Known, Alive
<1>4. ids' = Append(ids, i) /\ Session' = Session + 1 /\ Session \in Nat /\ ids'[Session'] = i
  BY <1>0 DEF Connect, Session, TypeOK
<1>5. Known \subseteq inherited'
  BY DEF Connect, WorldInv, ConnectionInv
<1>6. \/ tracked'[i] = {} /\ raised'[i] = "kept"
      \/ i \notin replicated'
  BY <1>0, <1>1, AddEffect DEF Connect, replicatedVars
<1>7. \A d : WillKnow(d)' => d \in inherited'
  BY <1>1, <1>2, <1>3, <1>5 DEF WillKnow
<1>8. \A m : IsMapping(m)' = IsMapping(m)
  BY <1>2 DEF IsMapping
<1>9. \A m \in timely : m \in Mappings /\ m[2][2] <= Session /\ m[2][2] \in Nat
  BY BoundsAssumption DEF WorldInv, SessionInv, TypeOK, Mappings
<1>10. ConnectionInv'
  BY <1>1, <1>2, <1>3, <1>4 DEF WorldInv, ConnectionInv
<1>11. LifeInv'
  <2>1. \A j \in Clients : tracked'[j] \subseteq tracked[j]
    BY <1>0, AddEffect DEF Connect, replicatedVars
  <2> QED BY <1>2, <2>1 DEF WorldInv, LifeInv
<1>12. KnownInv' /\ UpdateTickInv'
  BY <1>1, <1>2, <1>3, <1>5, <1>6, <1>7 DEF KnownInv, UpdateTickInv
<1>13. UniqueInv'
  BY <1>2, <1>8 DEF WorldInv, UniqueInv
<1>14. SessionInv'
  <2>1. \A m \in timely : m[2][2] <= Session'
    BY <1>4, <1>9
  <2>2. \A j \in Clients : \A m \in entityMap[j] \cap timely :
          j \in connected' /\ (i = j => m[2][2] = Session')
    BY <1>1 DEF WorldInv, SessionInv
  <2> QED BY <1>1, <1>2, <1>3, <1>5, <2>1, <2>2 DEF SessionInv
<1>15. OwnInv'
  <2>1. \A e : <<e, Own'>> \notin timely
    BY <1>4, <1>9 DEF Own
  <2> QED BY <1>1, <1>2, <1>6, <2>1 DEF OwnInv
<1> QED BY <1>0, <1>10, <1>11, <1>12, <1>13, <1>14, <1>15 DEF WorldInv

\* Spawning an entity with a mapping, which is the first of that entity.
LEMMA SpawnMappedWorldInv ==
  ASSUME WorldInv, NEW e \in Entities, NEW s \in 1..Session, NEW kind \in {"early", "gone"},
         SpawnMapped(e, s, kind)
  PROVE  WorldInv'
<1> DEFINE new == <<e, <<kind, s>>>>
           i == ids[s]
<1>0. TypeOK' /\ TypeOK
  BY WorldTypeOK DEF WorldInv
<1>1. /\ life[e] = "unborn" /\ Alive' = Alive \cup {e}
      /\ \A d \in Entities : d # e => life'[d] = life[d]
      /\ life'[e] = "alive"
  BY DEF SpawnMapped, Alive, WorldInv, TypeOK
<1>2. UNCHANGED <<DespawnsBuffered, running, connected, replicated, tracked, updateTick, raised,
                  link, down, online, lastOnline, ids, map, clientTick, inherited, ghosts>>
  BY DEF SpawnMapped, DespawnsBuffered, bufferVars, runVars, replicatedVars, linkVars, clientVars
<1>3. Known' = Known /\ Own' = Own /\ LastTick' = LastTick /\ Session' = Session
  BY <1>2 DEF Known, Own, LastTick, Session
<1>4. \A d : WillKnow(d)' = WillKnow(d)
  BY <1>2, <1>3 DEF WillKnow
<1>5. new \in Mappings /\ i \in Clients /\ Session \in Nat
  BY <1>0, BoundsAssumption DEF Mappings, TypeOK, Session
<1>6. /\ entityMap'[i] = entityMap[i] \cup {new}
      /\ \A j \in Clients : j # i => entityMap'[j] = entityMap[j]
      /\ \A j \in Clients : entityMap[j] \subseteq entityMap'[j]
      /\ timely \subseteq timely' /\ timely' \subseteq timely \cup {new}
      /\ new \in timely' => new \in timely \/ (link = i /\ s = Session)
  BY <1>0, <1>5 DEF SpawnMapped, TypeOK
<1>7. \A m \in Mappings : IsMapping(m) => m[1] # e
  BY <1>1 DEF WorldInv, UniqueInv
<1>8. new[1] = e /\ new[2] = <<kind, s>> /\ new[2][2] = s
  OBVIOUS
<1>9. ~IsMapping(new)
  BY <1>5, <1>7, <1>8
<1>10. new \notin timely /\ (\A j \in Clients : new \notin entityMap[j])
       /\ \A k \in DOMAIN down : new \notin down[k].mappings
  BY <1>9 DEF IsMapping
<1> HIDE DEF new, i
<1>11. \A m : IsMapping(m)' => IsMapping(m) \/ m = new
  BY <1>2, <1>5, <1>6 DEF IsMapping
<1>12. \A d \in Entities : /\ life[d] # "unborn" => life'[d] # "unborn"
                           /\ life[d] = "dead" => life'[d] = "dead"
  BY <1>1
<1>13. (ConnectionInv /\ UpdateTickInv)'
  BY <1>2, <1>3 DEF WorldInv, ConnectionInv, UpdateTickInv
<1>14. LifeInv'
  <2>1. \A j \in Clients : tracked[j] \subseteq Entities
    BY DEF WorldInv, TypeOK
  <2> QED BY <1>2, <1>12, <2>1, DespawnTypes, <1>0 DEF WorldInv, LifeInv
<1>15. KnownInv'
  BY <1>1, <1>2, <1>3, <1>4 DEF WorldInv, KnownInv
<1>16. UniqueInv'
  <2> SUFFICES ASSUME NEW m \in Mappings, IsMapping(m)'
               PROVE  /\ life'[m[1]] # "unborn"
                      /\ \A n \in Mappings : IsMapping(n)' /\ n[1] = m[1] => n = m
    BY DEF UniqueInv
  <2>1. IsMapping(m) => life[m[1]] # "unborn" /\ m[1] \in Entities
    BY DEF WorldInv, UniqueInv, Mappings
  <2>2. life'[m[1]] # "unborn"
    BY <1>1, <1>8, <1>11, <1>12, <2>1
  <2>3. ASSUME NEW n \in Mappings, IsMapping(n)', n[1] = m[1] PROVE n = m
    <3>1. (IsMapping(n) \/ n = new) /\ (IsMapping(m) \/ m = new)
      BY <1>11, <2>3
    <3>2. IsMapping(n) /\ IsMapping(m) => n = m
      BY <2>3 DEF WorldInv, UniqueInv
    <3> QED BY <1>7, <1>8, <2>3, <3>1, <3>2
  <2> QED BY <2>2, <2>3
<1>17. SessionInv'
  <2>1. \A m \in timely' : m[2][2] <= Session'
    BY <1>3, <1>5, <1>6, <1>8 DEF WorldInv, SessionInv
  <2>2. ASSUME NEW j \in Clients, NEW m \in entityMap'[j] \cap timely'
        PROVE  j \in connected' /\ (link' = j => m[2][2] = Session')
    <3>1. CASE m = new
      <4>1. j = i /\ link = i /\ s = Session
        BY <1>6, <1>10, <2>2, <3>1
      <4>2. i # Nobody
        BY <1>5, NobodyAssumption
      <4> QED BY <1>0, <1>2, <1>3, <1>8, <3>1, <4>1, <4>2 DEF TypeOK
    <3>2. CASE m # new
      <4>1. m \in entityMap[j] \cap timely
        BY <1>6, <2>2, <3>2
      <4> QED BY <1>2, <1>3, <4>1 DEF WorldInv, SessionInv
    <3> QED BY <3>1, <3>2
  <2>3. \A k \in DOMAIN down : \A m \in down[k].mappings \cap timely' : m[2][2] = Session'
    BY <1>3, <1>6, <1>10 DEF WorldInv, SessionInv
  <2>4. ASSUME NEW d \in Known \ inherited, map[d][1] = "early", <<d, map[d]>> \in timely'
        PROVE  map[d] = Own
    <3>1. CASE <<d, map[d]>> = new
      <4>1. d = e /\ map[d] = <<kind, s>>
        BY <1>8, <3>1
      <4>2. s = Session
        BY <1>6, <1>10, <2>4, <3>1
      <4> QED BY <2>4, <4>1, <4>2 DEF Own
    <3>2. CASE <<d, map[d]>> # new
      BY <1>6, <2>4, <3>2 DEF WorldInv, SessionInv
    <3> QED BY <3>1, <3>2
  <2> QED BY <1>2, <1>3, <2>1, <2>2, <2>3, <2>4 DEF SessionInv
<1>18. OwnInv'
  <2> SUFFICES ASSUME link # Nobody
               PROVE  /\ \A d \in Alive' : <<d, Own>> \in timely' =>
                           \/ <<d, Own>> \in entityMap'[link]
                           \/ map[d] = Own
                           \/ \E k \in DOMAIN down : <<d, Own>> \in down[k].mappings
                      /\ link \in replicated =>
                           \A m \in entityMap'[link] : m[1] \notin tracked[link]
    BY <1>2, <1>3 DEF OwnInv
  <2>0. link \in Clients
    BY <1>0 DEF TypeOK
  <2>1. ASSUME NEW d \in Alive', <<d, Own>> \in timely', <<d, Own>> = new
        PROVE  <<d, Own>> \in entityMap'[link]
    BY <1>6, <1>10, <2>1
  <2>2. ASSUME NEW d \in Alive', <<d, Own>> \in timely', <<d, Own>> # new
        PROVE  \/ <<d, Own>> \in entityMap'[link]
               \/ map[d] = Own
               \/ \E k \in DOMAIN down : <<d, Own>> \in down[k].mappings
    <3>1. <<d, Own>> \in timely
      BY <1>6, <2>2
    <3>2. IsMapping(<<d, Own>>) /\ <<d, Own>> \in Mappings
      BY <1>0, <3>1 DEF IsMapping, TypeOK
    <3>3. d \in Alive
      BY <1>1, <1>7, <2>2, <3>2
    <3> QED BY <1>6, <2>0, <3>1, <3>3 DEF WorldInv, OwnInv
  <2>3. ASSUME link \in replicated, NEW m \in entityMap'[link] PROVE m[1] \notin tracked[link]
    <3>1. CASE m = new
      BY <1>1, <1>8, <2>0, <3>1 DEF WorldInv, LifeInv
    <3>2. CASE m # new
      BY <1>6, <2>0, <2>3, <3>2 DEF WorldInv, OwnInv
    <3> QED BY <3>1, <3>2
  <2> QED BY <2>1, <2>2, <2>3
<1> QED BY <1>0, <1>13, <1>14, <1>15, <1>16, <1>17, <1>18 DEF WorldInv

\* Losing the connection and what is on its way.
LEMMA ClosedWorldInv ==
  ASSUME WorldInv, TypeOK', link' = Nobody,
         UNCHANGED <<life, timely, inherited, tracked, ids>>,
         DespawnsBuffered' \subseteq DespawnsBuffered,
         UNCHANGED <<map, lastOnline>> \/ Known' = {},
         \A i \in Clients : \/ entityMap'[i] = {}
                            \/ entityMap'[i] = entityMap[i] /\ (i \in connected => i \in connected')
  PROVE  WorldInv'
<1>0. down' = <<>> /\ DOMAIN down' = {}
  BY DEF TypeOK
<1>1. Own' = Own /\ Session' = Session /\ (Known' = {} \/ (Known' = Known /\ map' = map))
  BY DEF Own, Session, Known
<1>2. ConnectionInv'
  BY <1>1 DEF WorldInv, ConnectionInv
<1>3. LifeInv'
  BY <1>0 DEF WorldInv, LifeInv
<1>4. UniqueInv'
  <2>1. \A m : IsMapping(m)' => IsMapping(m)
    BY <1>0 DEF IsMapping
  <2> QED BY <2>1 DEF WorldInv, UniqueInv
<1>5. SessionInv'
  <2>1. \A i \in Clients : i # Nobody
    BY NobodyAssumption
  <2> QED BY <1>0, <1>1, <2>1 DEF WorldInv, SessionInv
<1> QED BY <1>2, <1>3, <1>4, <1>5, NoConnection DEF WorldInv

\* The backend closes the connection, or the client does.
LEMMA ClosesWorldInv == ASSUME WorldInv, Stop \/ Disconnect PROVE WorldInv'
<1>1. TypeOK'
  BY BackendTypeOK DEF WorldInv
<1>2. link' = Nobody
  BY DEF Stop, Disconnect, CloseLink
<1>3. UNCHANGED <<life, timely, inherited, tracked, ids, DespawnsBuffered, map, lastOnline,
                  entityMap, connected>>
  BY DEF Stop, Disconnect, worldVars, bufferVars, replicatedVars, clientVars, DespawnsBuffered
<1> QED BY <1>1, <1>2, <1>3, ClosedWorldInv

\* A frame in which the server is not running.
LEMMA StoppedFrameWorldInv ==
  ASSUME WorldInv, IsFiniteSet(replicated), NEW dropped \in BOOLEAN, StoppedFrame(dropped)
  PROVE  WorldInv'
<1>1. TypeOK'
  BY ServerTypeOK DEF WorldInv
<1>2. link' = Nobody
  BY DEF StoppedFrame, linkVars, WorldInv, ConnectionInv
<1>3. /\ UNCHANGED <<life, timely, inherited, tracked, ids, map, lastOnline, connected>>
      /\ DespawnsBuffered' \subseteq DespawnsBuffered
  BY DEF StoppedFrame, bufferVars, replicatedVars, clientVars, DespawnsBuffered, Cleared
<1>4. \A i \in Clients : entityMap'[i] = {} \/ entityMap'[i] = entityMap[i]
  BY DEF StoppedFrame
<1> QED BY <1>1, <1>2, <1>3, <1>4, ClosedWorldInv

\* A frame in which the client notices that it is connected, or is not.
LEMMA ClientFrameWorldInv == ASSUME WorldInv, ClientFrame PROVE WorldInv'
<1>1. TypeOK'
  BY ClientTypeOK DEF WorldInv
<1>2. UNCHANGED <<life, running, timely, inherited, ghosts, tracked, ids, DespawnsBuffered,
                  entityMap, connected, replicated, updateTick, raised, link, down, online>>
  BY DEF ClientFrame, worldVars, bufferVars, runVars, replicatedVars, linkVars, DespawnsBuffered
<1>3. CASE JustDisconnected
  <2>1. link' = Nobody /\ Known' = {}
    BY <1>2, <1>3 DEF ClientFrame, JustDisconnected, MapReset, Known, WorldInv, ConnectionInv
  <2> QED BY <1>1, <1>2, <2>1, ClosedWorldInv
<1>4. CASE ~JustDisconnected
  <2>1. lastOnline' /\ UNCHANGED <<map, clientTick>>
    BY <1>4 DEF ClientFrame, JustDisconnected, WorldInv, TypeOK
  <2> QED BY <1>1, <1>2, <2>1, QuietWorldInv
<1> QED BY <1>3, <1>4

\* A client disconnects at the server, and its mappings go.
LEMMA ClientDisconnectedWorldInv ==
  ASSUME WorldInv, NEW i \in Clients, ClientDisconnected(i) PROVE WorldInv'
<1>0. TypeOK' /\ TypeOK
  BY ClientsTypeOK DEF WorldInv
<1>1. /\ connected' = connected \ {i} /\ replicated' = replicated \ {i} /\ entityMap'[i] = {}
      /\ \A j \in Clients : j # i => entityMap'[j] = entityMap[j]
  BY <1>0 DEF ClientDisconnected, Without, MappingsWithout, TypeOK
<1>2. UNCHANGED <<life, running, timely, inherited, ghosts, tracked, ids, DespawnsBuffered,
                  updateTick, raised, online, lastOnline, map, clientTick>>
  BY DEF ClientDisconnected, Without, worldVars, bufferVars, runVars, clientVars, DespawnsBuffered
<1>3. CASE link = i
  <2>1. link' = Nobody
    BY <1>3 DEF ClientDisconnected, CloseLink
  <2> QED BY <1>0, <1>1, <1>2, <2>1, ClosedWorldInv
<1>4. CASE link # i
  <2>1. link' = link /\ down' = down
    BY <1>4 DEF ClientDisconnected, linkVars
  <2>2. /\ Alive' = Alive /\ Known' = Known /\ Own' = Own /\ LastTick' = LastTick
        /\ Session' = Session
    BY <1>2, <2>1 DEF Alive, Known, Own, LastTick, Session
  <2>3. \A e : WillKnow(e)' = WillKnow(e)
    BY <2>1, <2>2 DEF WillKnow
  <2>4. \A m : IsMapping(m)' => IsMapping(m)
    BY <1>1, <1>2, <2>1 DEF IsMapping
  <2>5. (ConnectionInv /\ LifeInv /\ UpdateTickInv)'
    BY <1>1, <1>2, <2>1, <2>2 DEF WorldInv, ConnectionInv, LifeInv, UpdateTickInv
  <2>6. KnownInv'
    BY <1>1, <1>2, <1>4, <2>1, <2>2, <2>3 DEF WorldInv, KnownInv
  <2>7. UniqueInv'
    BY <1>2, <2>4 DEF WorldInv, UniqueInv
  <2>8. SessionInv'
    BY <1>1, <1>2, <2>1, <2>2 DEF WorldInv, SessionInv
  <2>9. OwnInv'
    <3>1. link # Nobody => link \in Clients
      BY <1>0 DEF TypeOK
    <3> QED BY <1>1, <1>2, <1>4, <2>1, <2>2, <3>1 DEF WorldInv, OwnInv
  <2> QED BY <1>0, <2>5, <2>6, <2>7, <2>8, <2>9 DEF WorldInv
<1> QED BY <1>3, <1>4

-----------------------------------------------------------------------------
(* Update messages.                                                        *)

\* What an update message leaves of an entity on the client.
LEMMA UpdatedEffect ==
  ASSUME TypeOK, NEW u \in UpdateMessages, NEW e \in Entities
  PROVE  /\ Updated(u, e) # NoEntity <=> Brings(u, e) \/ (e \notin u.despawns /\ map[e] # NoEntity)
         /\ Updated(u, e)[1] = "early" =>
              e \notin u.despawns /\ (Updated(u, e) = map[e] \/ <<e, Updated(u, e)>> \in u.mappings)
<1> DEFINE found == {m \in u.mappings : m[1] = e /\ m[2][1] = "early"}
<1>1. \A m \in found : /\ m = <<e, m[2]>> /\ m[2] # NoEntity
                       /\ m[2][1] = "early"
  BY DEF UpdateMessages, Mappings, NoEntity
<1>2. IF found = {} THEN Mapped(u, e) = map[e] ELSE <<e, Mapped(u, e)>> \in found
  <2>1. CASE found = {}
    BY <2>1 DEF Mapped
  <2>2. CASE found # {}
    <3>1. PICK m \in found : m = CHOOSE n \in found : TRUE
      BY <2>2
    <3>2. Mapped(u, e) = m[2]
      BY <2>2, <3>1 DEF Mapped
    <3> QED BY <1>1, <2>2, <3>1, <3>2
  <2> QED BY <2>1, <2>2
<1>3. found # {} => Mapped(u, e) # NoEntity
  BY <1>1, <1>2
<1>4. found # {} <=> \E m \in u.mappings : m[1] = e /\ m[2][1] = "early"
  OBVIOUS
<1>5. found # {} => <<e, Mapped(u, e)>> \in u.mappings
  BY <1>2
<1>6. <<"spawned", 0>> # NoEntity /\ <<"spawned", 0>>[1] # "early" /\ NoEntity[1] # "early"
  BY DEF NoEntity
<1> HIDE DEF found
<1>7. found = {} => Mapped(u, e) = map[e]
  BY <1>2
<1> QED BY <1>3, <1>4, <1>5, <1>6, <1>7 DEF Updated, Brings

\* The last element of a sequence of several is that of its tail.
LEMMA LastOfTail ==
  ASSUME NEW S, NEW s \in Seq(S), Len(s) # 0, Len(s) # 1
  PROVE  Tail(s) # <<>> /\ Tail(s)[Len(Tail(s))] = s[Len(s)]
<1>1. Len(s) \in Nat /\ s # <<>>
  BY EmptySeq
<1>2. Tail(s) \in Seq(S) /\ Len(Tail(s)) = Len(s) - 1
  BY <1>1, HeadTailProperties
<1>3. \A i \in 1..Len(Tail(s)) : Tail(s)[i] = s[i + 1]
  BY <1>1, HeadTailProperties
<1>4. Len(s) - 1 \in 1..Len(Tail(s)) /\ Len(s) - 1 + 1 = Len(s)
  BY <1>1, <1>2
<1>5. Tail(s)[Len(s) - 1] = s[Len(s)]
  BY <1>3, <1>4
<1> QED BY <1>2, <1>4, <1>5, EmptySeq

\* The messages left once the first is taken.
LEMMA TailDown ==
  ASSUME TypeOK, down # <<>>, down' = Tail(down)
  PROVE  /\ Head(down) = down[1] /\ 1 \in DOMAIN down /\ Head(down) \in UpdateMessages
         /\ \A k \in DOMAIN down' : /\ k \in Nat /\ 0 < k /\ k + 1 \in DOMAIN down
                                    /\ down'[k] = down[k + 1]
         /\ \A k \in DOMAIN down : k # 1 =>
              k \in Nat /\ k - 1 \in DOMAIN down' /\ down'[k - 1] = down[k]
<1>1. down \in Seq(UpdateMessages) /\ Len(down) \in Nat \ {0}
  BY DEF TypeOK
<1> QED BY <1>1

\* Applying a message does not change what the client will have.
LEMMA WillKnowThroughApply ==
  ASSUME TypeOK, ApplyUpdate, NEW e \in Entities
  PROVE  WillKnow(e)' <=> WillKnow(e)
<1> DEFINE u == Head(down)
<1>1. down # <<>> /\ down' = Tail(down)
  BY DEF ApplyUpdate
<1>2. u \in UpdateMessages /\ u = down[1] /\ 1 \in DOMAIN down
  BY <1>1, TailDown
<1>3. e \in Known' <=> Brings(u, e) \/ (e \notin u.despawns /\ e \in Known)
  BY <1>2, UpdatedEffect DEF ApplyUpdate, Known
<1>4. /\ \A k \in DOMAIN down' : /\ k \in Nat /\ 0 < k /\ k + 1 \in DOMAIN down
                                 /\ down'[k] = down[k + 1]
      /\ \A k \in DOMAIN down : k # 1 =>
              k \in Nat /\ k - 1 \in DOMAIN down' /\ down'[k - 1] = down[k]
      /\ \A k \in DOMAIN down : k \in Nat /\ 1 <= k
  BY <1>1, TailDown DEF TypeOK
<1> HIDE DEF u
<1>5. ASSUME WillKnow(e) PROVE WillKnow(e)'
  <2>1. CASE e \in Known /\ \A k \in DOMAIN down : e \notin down[k].despawns
    BY <1>2, <1>3, <1>4, <2>1 DEF WillKnow
  <2>2. CASE \E k \in DOMAIN down :
               Brings(down[k], e) /\ \A n \in DOMAIN down : k < n => e \notin down[n].despawns
    <3>1. PICK k \in DOMAIN down :
               Brings(down[k], e) /\ \A n \in DOMAIN down : k < n => e \notin down[n].despawns
      BY <2>2
    <3>2. \A n \in DOMAIN down' : k < n + 1 => e \notin down'[n].despawns
      BY <1>4, <3>1
    <3>3. CASE k = 1
      <4>1. \A n \in DOMAIN down' : 1 < n + 1
        BY <1>4
      <4> QED BY <1>2, <1>3, <3>1, <3>2, <3>3, <4>1 DEF WillKnow
    <3>4. CASE k # 1
      <4>1. k - 1 \in DOMAIN down' /\ Brings(down'[k - 1], e) /\ k \in Nat
        BY <1>4, <3>1, <3>4
      <4>2. \A n \in DOMAIN down' : k - 1 < n => e \notin down'[n].despawns
        BY <1>4, <3>2, <4>1
      <4> QED BY <4>1, <4>2 DEF WillKnow
    <3> QED BY <3>3, <3>4
  <2> QED BY <1>5, <2>1, <2>2 DEF WillKnow
<1>6. ASSUME WillKnow(e)' PROVE WillKnow(e)
  <2>1. CASE e \in Known' /\ \A k \in DOMAIN down' : e \notin down'[k].despawns
    <3>1. \A k \in DOMAIN down : 1 < k => e \notin down[k].despawns
      BY <1>4, <2>1
    <3>2. \A k \in DOMAIN down : k = 1 \/ 1 < k
      BY <1>4
    <3> QED BY <1>2, <1>3, <2>1, <3>1, <3>2 DEF WillKnow
  <2>2. CASE \E k \in DOMAIN down' :
               Brings(down'[k], e) /\ \A n \in DOMAIN down' : k < n => e \notin down'[n].despawns
    <3>1. PICK k \in DOMAIN down' :
               Brings(down'[k], e) /\ \A n \in DOMAIN down' : k < n => e \notin down'[n].despawns
      BY <2>2
    <3>2. k + 1 \in DOMAIN down /\ Brings(down[k + 1], e) /\ k \in Nat
      BY <1>4, <3>1
    <3>3. ASSUME NEW n \in DOMAIN down, k + 1 < n PROVE e \notin down[n].despawns
      <4>1. n # 1 /\ k < n - 1 /\ n - 1 \in DOMAIN down' /\ down'[n - 1] = down[n]
        BY <1>4, <3>2, <3>3
      <4> QED BY <3>1, <4>1
    <3> QED BY <3>2, <3>3 DEF WillKnow
  <2> QED BY <1>6, <2>1, <2>2 DEF WillKnow
<1> QED BY <1>5, <1>6

\* Applying an update message keeps the invariant.
LEMMA ApplyUpdateWorldInv == ASSUME WorldInv, ApplyUpdate PROVE WorldInv'
<1> DEFINE u == Head(down)
<1>0. TypeOK' /\ TypeOK
  BY ClientTypeOK DEF WorldInv
<1>1. /\ down # <<>> /\ down' = Tail(down) /\ lastOnline /\ clientTick' = u.tick
      /\ \A e \in Entities : map'[e] = Updated(u, e)
  BY DEF ApplyUpdate, TickAfter
<1>2. UNCHANGED <<life, DespawnsBuffered, running, connected, replicated, tracked, updateTick,
                  raised, entityMap, link, online, lastOnline, ids, timely, inherited, ghosts>>
  BY DEF ApplyUpdate, DespawnsBuffered, worldVars, bufferVars, runVars, replicatedVars
<1>3. Own' = Own /\ Session' = Session /\ Alive' = Alive
  BY <1>2 DEF Own, Session, Alive
<1>4. u \in UpdateMessages /\ u = down[1] /\ 1 \in DOMAIN down
  BY <1>0, <1>1, TailDown
<1>5. /\ \A k \in DOMAIN down' : k \in Nat /\ k + 1 \in DOMAIN down /\ down'[k] = down[k + 1]
      /\ \A k \in DOMAIN down : k # 1 =>
              k \in Nat /\ k - 1 \in DOMAIN down' /\ down'[k - 1] = down[k]
  BY <1>0, <1>1, TailDown
<1> HIDE DEF u
<1>6. \A m : IsMapping(m)' => IsMapping(m)
  BY <1>2, <1>5 DEF IsMapping
<1>7. ConnectionInv'
  BY <1>1, <1>2, <1>3 DEF WorldInv, ConnectionInv
<1>8. LifeInv'
  BY <1>2, <1>5 DEF WorldInv, LifeInv
<1>9. KnownInv'
  <2>1. \A e \in Entities : WillKnow(e)' <=> WillKnow(e)
    BY <1>0, WillKnowThroughApply
  <2>2. link \in replicated => link \in Clients /\ tracked[link] \subseteq Entities
    BY <1>0 DEF TypeOK
  <2>3. link # Nobody /\ link \notin replicated => FALSE
    BY <1>1 DEF WorldInv, KnownInv
  <2> QED BY <1>2, <1>3, <2>1, <2>2, <2>3 DEF WorldInv, KnownInv
<1>10. UpdateTickInv'
  <2>1. LastTick' = LastTick
    <3>1. down \in Seq(UpdateMessages) /\ Len(down) \in Nat \ {0}
      BY <1>0, <1>1 DEF TypeOK
    <3>2. CASE Len(down) = 1
      BY <1>1, <1>4, <3>1, <3>2 DEF LastTick
    <3>3. CASE Len(down) # 1
      <4>1. Tail(down) # <<>> /\ Tail(down)[Len(Tail(down))] = down[Len(down)]
        BY <3>1, <3>3, LastOfTail
      <4> QED BY <1>1, <4>1 DEF LastTick
    <3> QED BY <3>2, <3>3
  <2> QED BY <1>2, <2>1 DEF WorldInv, UpdateTickInv
<1>11. UniqueInv'
  BY <1>2, <1>6 DEF WorldInv, UniqueInv
<1>12. SessionInv'
  <2>1. ASSUME NEW e \in Known', e \notin inherited, map'[e][1] = "early", <<e, map'[e]>> \in timely
        PROVE  map'[e] = Own
    <3>0. e \in Entities /\ map'[e] = Updated(u, e) /\ map'[e] # NoEntity
      BY <1>1 DEF Known
    <3>1. map'[e] = map[e] \/ <<e, map'[e]>> \in u.mappings
      BY <1>0, <1>4, <2>1, <3>0, UpdatedEffect
    <3>2. CASE map'[e] = map[e]
      BY <2>1, <3>0, <3>2 DEF WorldInv, SessionInv, Known
    <3>3. CASE <<e, map'[e]>> \in u.mappings
      <4>1. map'[e][2] = Session
        BY <1>4, <2>1, <3>3 DEF WorldInv, SessionInv
      <4>2. <<e, map'[e]>> \in Mappings
        BY <1>0, <2>1 DEF TypeOK
      <4> QED BY <2>1, <4>1, <4>2 DEF Own, Mappings
    <3> QED BY <3>1, <3>2, <3>3
  <2> QED BY <1>2, <1>3, <1>5, <2>1 DEF WorldInv, SessionInv
<1>13. OwnInv'
  <2>1. ASSUME link # Nobody, NEW e \in Alive, <<e, Own>> \in timely,
               map[e] = Own \/ <<e, Own>> \in u.mappings
        PROVE  map'[e] = Own
    <3>0. e \in Entities /\ map'[e] = Updated(u, e)
      BY <1>1 DEF Alive
    <3>1. e \notin u.despawns
      BY <1>4 DEF Alive, WorldInv, LifeInv
    <3>2. Own[1] = "early" /\ Own # NoEntity
      BY DEF Own, NoEntity
    <3>3. <<e, Own>> \in Mappings /\ IsMapping(<<e, Own>>) /\ u.mappings \subseteq Mappings
      BY <1>0, <1>4, <2>1 DEF IsMapping, TypeOK, UpdateMessages
    <3>4. \A n \in u.mappings : n[1] = e => n = <<e, Own>>
      BY <1>4, <3>3 DEF WorldInv, UniqueInv, IsMapping
    <3>5. Mapped(u, e) = Own
      <4> DEFINE found == {m \in u.mappings : m[1] = e /\ m[2][1] = "early"}
      <4>1. CASE found = {}
        <5>1. <<e, Own>> \notin u.mappings
          BY <3>2, <4>1
        <5> QED BY <2>1, <4>1, <5>1 DEF Mapped
      <4>2. CASE found # {}
        <5>1. found = {<<e, Own>>}
          BY <3>4, <4>2
        <5> QED BY <4>2, <5>1 DEF Mapped
      <4> QED BY <4>1, <4>2
    <3> QED BY <3>0, <3>1, <3>2, <3>5 DEF Updated
  <2>2. ASSUME link # Nobody, NEW e \in Alive, <<e, Own>> \in timely
        PROVE  \/ <<e, Own>> \in entityMap[link]
               \/ map'[e] = Own
               \/ \E k \in DOMAIN down' : <<e, Own>> \in down'[k].mappings
    <3>1. \/ <<e, Own>> \in entityMap[link]
          \/ map[e] = Own
          \/ \E k \in DOMAIN down : <<e, Own>> \in down[k].mappings
      BY <2>2 DEF WorldInv, OwnInv
    <3>2. ASSUME NEW k \in DOMAIN down, <<e, Own>> \in down[k].mappings, k # 1
          PROVE  \E n \in DOMAIN down' : <<e, Own>> \in down'[n].mappings
      BY <1>5, <3>2
    <3> QED BY <1>4, <2>1, <2>2, <3>1, <3>2
  <2> QED BY <1>2, <1>3, <2>2 DEF WorldInv, OwnInv
<1> QED BY <1>0, <1>7, <1>8, <1>9, <1>10, <1>11, <1>12, <1>13 DEF WorldInv

\* The messages there are once one is sent.
LEMMA AppendedDown ==
  ASSUME TypeOK, NEW u \in UpdateMessages, down' = Append(down, u)
  PROVE  \E n \in DOMAIN down' :
           /\ down'[n] = u /\ n = Len(down') /\ down' # <<>>
           /\ DOMAIN down' = DOMAIN down \cup {n} /\ n \notin DOMAIN down
           /\ \A k \in DOMAIN down : down'[k] = down[k] /\ k < n /\ ~(n < k)
           /\ ~(n < n)
<1>1. down \in Seq(UpdateMessages) /\ Len(down) \in Nat
  BY DEF TypeOK
<1> DEFINE n == Len(down) + 1
<1>2. /\ n \in DOMAIN down' /\ down'[n] = u /\ n = Len(down') /\ down' # <<>>
      /\ DOMAIN down' = DOMAIN down \cup {n} /\ n \notin DOMAIN down
      /\ \A k \in DOMAIN down : down'[k] = down[k] /\ k < n /\ ~(n < k)
      /\ ~(n < n)
  BY <1>1
<1> QED BY <1>2

\* What a tick sends to the client it is connected to.
LEMMA TickSends ==
  ASSUME TypeOK, NEW mutated \in BOOLEAN, ServerTick(mutated), link \in replicated
  PROVE  /\ tracked'[link] = TrackedAlive(link) \cup Alive
         /\ \/ ~IsSent(link) /\ down' = down
            \/ IsSent(link) /\ down' = Append(down, UpdateMessage(link))
         /\ UpdateMessage(link) \in UpdateMessages
<1>1. link \in Clients
  BY DEF TypeOK
<1> QED BY <1>1, UpdateMessageTypes DEF ServerTick

\* The client will have what it is sent, and keep what is not despawned.
LEMMA WillKnowThroughTick ==
  ASSUME WorldInv, NEW mutated \in BOOLEAN, ServerTick(mutated), link \in replicated, IsSent(link),
         NEW e \in Entities
  PROVE  WillKnow(e)' <=> \/ Brings(UpdateMessage(link), e)
                          \/ e \notin DespawnsBuffered /\ WillKnow(e)
<1> DEFINE u == UpdateMessage(link)
<1>1. u \in UpdateMessages /\ down' = Append(down, u) /\ u.despawns = DespawnsBuffered
  BY TickSends DEF WorldInv, UpdateMessage
<1>2. PICK n \in DOMAIN down' :
           /\ down'[n] = u /\ n = Len(down') /\ down' # <<>>
           /\ DOMAIN down' = DOMAIN down \cup {n} /\ n \notin DOMAIN down
           /\ \A k \in DOMAIN down : down'[k] = down[k] /\ k < n /\ ~(n < k)
           /\ ~(n < n)
  BY <1>1, AppendedDown DEF WorldInv
<1>3. Known' = Known
  BY DEF ServerTick, Known, clientVars
<1> HIDE DEF u
<1>4. Brings(u, e) => WillKnow(e)'
  BY <1>2 DEF WillKnow
<1>5. e \notin DespawnsBuffered /\ WillKnow(e) => WillKnow(e)'
  BY <1>1, <1>2, <1>3 DEF WillKnow
<1>6. WillKnow(e)' => Brings(u, e) \/ (e \notin DespawnsBuffered /\ WillKnow(e))
  BY <1>1, <1>2, <1>3 DEF WillKnow
<1> QED BY <1>4, <1>5, <1>6 DEF u

\* After a tick the client will have the world, with the exceptions.
LEMMA TickKnownInv ==
  ASSUME WorldInv, NEW mutated \in BOOLEAN, ServerTick(mutated) PROVE KnownInv'
<1>0. /\ TypeOK /\ DespawnsBuffered' = {} /\ ghosts \subseteq ghosts'
      /\ UNCHANGED <<life, replicated, link, map, inherited>>
  BY DEF WorldInv, ServerTick, DespawnsBuffered, clientVars
<1>1. Alive' = Alive /\ Known' = Known
  BY <1>0 DEF Alive, Known
<1>2. CASE link \in replicated
  <2>0. link \in Clients /\ tracked[link] \subseteq Entities /\ Alive \subseteq Entities
    BY <1>0, <1>2 DEF TypeOK, Alive
  <2>1. CASE IsSent(link)
    <3>1. \A e \in Entities : WillKnow(e)' <=> \/ Brings(UpdateMessage(link), e)
                                               \/ e \notin DespawnsBuffered /\ WillKnow(e)
      BY <1>2, <2>1, WillKnowThroughTick
    <3>2. /\ UpdateMessage(link).changes = Alive \ TrackedAlive(link)
          /\ UpdateMessage(link).removals = RemovalsBuffered
          /\ UpdateMessage(link).despawns = DespawnsBuffered
          /\ UpdateMessage(link).mappings = entityMap[link]
      BY DEF UpdateMessage
    <3>3. ASSUME NEW e \in tracked'[link] PROVE WillKnow(e)'
      <4>1. e \in TrackedAlive(link) \/ e \in Alive \ TrackedAlive(link)
        BY <1>0, <1>2, <3>3, TickSends
      <4>2. CASE e \in TrackedAlive(link)
        BY <1>2, <2>0, <3>1, <4>2 DEF TrackedAlive, WorldInv, KnownInv
      <4>3. CASE e \in Alive \ TrackedAlive(link)
        BY <2>0, <3>1, <3>2, <4>3 DEF Brings
      <4> QED BY <4>1, <4>2, <4>3
    <3>4. ASSUME NEW e \in Entities, WillKnow(e)'
          PROVE  e \in Alive \cup inherited \cup ghosts'
      <4>1. CASE Brings(UpdateMessage(link), e)
        <5>1. ghosts' = ghosts \cup (RemovalsBuffered \ Alive) \cup
                {d \in Entities \ (Alive \cup DespawnsBuffered) :
                   \E i \in replicated : \E m \in entityMap[i] : m[1] = d}
          BY DEF ServerTick
        <5> QED BY <1>2, <3>2, <4>1, <5>1 DEF Brings
      <4>2. CASE e \notin DespawnsBuffered /\ WillKnow(e)
        BY <1>0, <1>2, <4>2 DEF WorldInv, KnownInv
      <4> QED BY <3>1, <3>4, <4>1, <4>2
    <3> QED BY <1>0, <1>1, <1>2, <3>3, <3>4 DEF KnownInv
  <2>2. CASE ~IsSent(link)
    <3>1. down' = down /\ tracked'[link] = TrackedAlive(link) \cup Alive
      BY <1>0, <1>2, <2>2, TickSends
    <3>2. DespawnsBuffered = {} /\ Alive \subseteq TrackedAlive(link)
      BY <2>2 DEF IsSent, UpdateMessage
    <3>3. \A e : WillKnow(e)' = WillKnow(e)
      BY <1>1, <3>1 DEF WillKnow
    <3>4. tracked'[link] = tracked[link]
      BY <3>1, <3>2 DEF TrackedAlive
    <3> QED BY <1>0, <1>1, <1>2, <3>2, <3>3, <3>4 DEF WorldInv, KnownInv
  <2> QED BY <2>1, <2>2
<1>3. CASE link \notin replicated
  <2>1. down' = down
    BY <1>3 DEF ServerTick
  <2> QED BY <1>0, <1>1, <1>3, <2>1 DEF WorldInv, KnownInv
<1> QED BY <1>2, <1>3

\* What a tick changes of the mappings, and for whom.
LEMMA TickMappings ==
  ASSUME WorldInv, NEW mutated \in BOOLEAN, ServerTick(mutated)
  PROVE  /\ \A i \in Clients : entityMap'[i] = IF i \in replicated THEN {} ELSE entityMap[i]
         /\ \/ down' = down
            \/ /\ link \in replicated
               /\ \E n \in DOMAIN down' :
                    /\ down'[n].mappings = entityMap[link]
                    /\ down'[n].despawns = DespawnsBuffered
                    /\ DOMAIN down' = DOMAIN down \cup {n}
                    /\ \A k \in DOMAIN down : down'[k] = down[k]
<1>1. \A i \in Clients : entityMap'[i] = IF i \in replicated THEN {} ELSE entityMap[i]
  BY DEF ServerTick, MappingsLeft
<1>2. CASE down' = down
  BY <1>1, <1>2
<1>3. CASE down' # down
  <2>1. link \in replicated
    BY <1>3 DEF ServerTick
  <2>2. down' = Append(down, UpdateMessage(link)) /\ UpdateMessage(link) \in UpdateMessages
    BY <1>3, <2>1, TickSends DEF WorldInv
  <2>3. /\ UpdateMessage(link).mappings = entityMap[link]
        /\ UpdateMessage(link).despawns = DespawnsBuffered
    BY DEF UpdateMessage
  <2> QED BY <1>1, <2>1, <2>2, <2>3, AppendedDown DEF WorldInv
<1> QED BY <1>2, <1>3

\* A tick keeps the invariant.
LEMMA ServerTickWorldInv ==
  ASSUME WorldInv, IsFiniteSet(replicated), NEW mutated \in BOOLEAN, ServerTick(mutated)
  PROVE  WorldInv'
<1>0. TypeOK' /\ TypeOK
  BY ServerTypeOK DEF WorldInv
<1>1. /\ UNCHANGED <<life, running, connected, replicated, link, online, lastOnline, ids, map,
                     clientTick, timely, inherited>>
      /\ DespawnsBuffered' = {}
  BY DEF ServerTick, clientVars, DespawnsBuffered
<1>2. Alive' = Alive /\ Known' = Known /\ Own' = Own /\ Session' = Session
  BY <1>1 DEF Alive, Known, Own, Session
<1>3. /\ \A i \in Clients : entityMap'[i] = IF i \in replicated THEN {} ELSE entityMap[i]
      /\ \/ down' = down
         \/ /\ link \in replicated
            /\ \E n \in DOMAIN down' :
                 /\ down'[n].mappings = entityMap[link]
                 /\ down'[n].despawns = DespawnsBuffered
                 /\ DOMAIN down' = DOMAIN down \cup {n}
                 /\ \A k \in DOMAIN down : down'[k] = down[k]
  BY TickMappings
<1>4. link \in replicated => link \in Clients /\ link # Nobody
  BY <1>0, NobodyAssumption DEF TypeOK
<1>5. ConnectionInv'
  BY <1>1, <1>2 DEF WorldInv, ConnectionInv
<1>6. LifeInv'
  <2>1. \A i \in Clients : tracked'[i] \subseteq tracked[i] \cup Alive
    BY DEF ServerTick, TrackedAlive
  <2>2. \A k \in DOMAIN down' : \A e \in down'[k].despawns : life[e] = "dead"
    BY <1>3 DEF WorldInv, LifeInv
  <2> QED BY <1>1, <2>1, <2>2 DEF WorldInv, LifeInv, Alive
<1>7. UpdateTickInv'
  <2> SUFFICES ASSUME link \in replicated, raised'[link] = "sent"
               PROVE  LastTick' = updateTick'[link]
    BY <1>1 DEF UpdateTickInv
  <2>1. /\ raised'[link] = IF IsEmpty(link) THEN raised[link]
                           ELSE IF IsSent(link) THEN "sent" ELSE "skipped"
        /\ updateTick'[link] = IF IsEmpty(link) THEN updateTick[link] ELSE serverTick + 1
    BY <1>4 DEF ServerTick
  <2>2. CASE IsSent(link)
    <3>1. ~IsEmpty(link)
      BY <2>2 DEF IsEmpty
    <3>2. down' = Append(down, UpdateMessage(link)) /\ UpdateMessage(link) \in UpdateMessages
      BY <1>0, <2>2, TickSends
    <3>3. LastTick' = UpdateMessage(link).tick
      BY <1>0, <3>2, AppendedDown DEF LastTick
    <3> QED BY <2>1, <3>1, <3>3 DEF UpdateMessage
  <2>3. CASE ~IsSent(link)
    <3>1. IsEmpty(link) /\ raised[link] = "sent"
      BY <2>1, <2>3
    <3>2. down' = down
      BY <1>0, <2>3, TickSends
    <3> QED BY <1>1, <2>1, <3>1, <3>2 DEF LastTick, WorldInv, UpdateTickInv
  <2> QED BY <2>2, <2>3
<1>8. UniqueInv'
  <2>1. \A m : IsMapping(m)' => IsMapping(m)
    BY <1>1, <1>3, <1>4 DEF IsMapping
  <2> QED BY <1>1, <2>1 DEF WorldInv, UniqueInv
<1>9. SessionInv'
  <2>1. \A m \in timely : m[2][2] <= Session
    BY DEF WorldInv, SessionInv
  <2>2. \A i \in Clients : \A m \in entityMap'[i] \cap timely :
          i \in connected /\ (link = i => m[2][2] = Session)
    BY <1>3 DEF WorldInv, SessionInv
  <2>3. \A k \in DOMAIN down' : \A m \in down'[k].mappings \cap timely : m[2][2] = Session
    <3>1. \A k \in DOMAIN down : \A m \in down[k].mappings \cap timely : m[2][2] = Session
      BY DEF WorldInv, SessionInv
    <3>2. link \in replicated => \A m \in entityMap[link] \cap timely : m[2][2] = Session
      BY <1>4 DEF WorldInv, SessionInv
    <3>3. CASE down' = down
      BY <3>1, <3>3
    <3>4. CASE down' # down
      <4>1. link \in replicated
        BY <1>3, <3>4
      <4>2. PICK n \in DOMAIN down' : /\ down'[n].mappings = entityMap[link]
                                     /\ DOMAIN down' = DOMAIN down \cup {n}
                                     /\ \A k \in DOMAIN down : down'[k] = down[k]
        BY <1>3, <3>4
      <4> QED BY <3>1, <3>2, <4>1, <4>2
    <3> QED BY <3>3, <3>4
  <2> QED BY <1>1, <1>2, <2>1, <2>2, <2>3 DEF WorldInv, SessionInv
<1>10. OwnInv'
  <2>1. ASSUME link \in replicated, NEW e \in Alive, <<e, Own>> \in timely
        PROVE  map[e] = Own \/ \E k \in DOMAIN down' : <<e, Own>> \in down'[k].mappings
    <3>1. \/ <<e, Own>> \in entityMap[link]
          \/ map[e] = Own
          \/ \E k \in DOMAIN down : <<e, Own>> \in down[k].mappings
      BY <1>4, <2>1 DEF WorldInv, OwnInv
    <3>2. CASE <<e, Own>> \in entityMap[link]
      <4>1. e \notin tracked[link]
        BY <1>4, <2>1, <3>2 DEF WorldInv, OwnInv
      <4>2. IsSent(link)
        BY <4>1 DEF IsSent, UpdateMessage, TrackedAlive
      <4>3. down' = Append(down, UpdateMessage(link)) /\ UpdateMessage(link) \in UpdateMessages
        BY <1>0, <2>1, <4>2, TickSends
      <4>4. \E n \in DOMAIN down' : down'[n] = UpdateMessage(link)
        BY <1>0, <4>3, AppendedDown
      <4> QED BY <3>2, <4>4 DEF UpdateMessage
    <3>3. CASE \E k \in DOMAIN down : <<e, Own>> \in down[k].mappings
      BY <1>3, <3>3
    <3> QED BY <3>1, <3>2, <3>3
  <2>2. CASE link \in replicated
    BY <1>1, <1>2, <1>3, <1>4, <2>1, <2>2 DEF OwnInv
  <2>3. CASE link # Nobody /\ link \notin replicated
    <3>1. link \in Clients /\ entityMap'[link] = entityMap[link]
      BY <1>0, <1>3, <2>3 DEF TypeOK
    <3> QED BY <1>1, <1>2, <1>3, <2>3, <3>1 DEF WorldInv, OwnInv
  <2>4. CASE link = Nobody
    BY <1>1, <2>4 DEF OwnInv
  <2> QED BY <2>2, <2>3, <2>4
<1> QED BY <1>0, <1>5, <1>6, <1>7, <1>8, <1>9, <1>10, TickKnownInv DEF WorldInv

\* Every step keeps the invariant.
LEMMA NextWorldInv == WorldInv /\ IsFiniteSet(replicated) /\ [Next]_vars => WorldInv'
<1> SUFFICES ASSUME WorldInv, IsFiniteSet(replicated), [Next]_vars PROVE WorldInv'
  OBVIOUS
<1>0. TypeOK'
  BY NextTypeOK DEF WorldInv
<1>1. CASE UNCHANGED vars
  <2>1. DespawnsBuffered' = DespawnsBuffered
    BY <1>1 DEF vars, worldVars, bufferVars, DespawnsBuffered
  <2> QED BY <1>0, <1>1, <2>1, QuietWorldInv
          DEF vars, worldVars, runVars, replicatedVars, linkVars, clientVars
<1>2. CASE \/ Start \/ ReceiveAcks \/ Acknowledge \/ ServerFrame
           \/ \E e \in Entities : RemoveComponent(e)
  <2>1. DespawnsBuffered' = DespawnsBuffered
    BY <1>2 DEF Start, ReceiveAcks, Acknowledge, ServerFrame, RemoveComponent, worldVars,
       bufferVars, DespawnsBuffered
  <2> QED BY <1>0, <1>2, <2>1, QuietWorldInv
          DEF Start, ReceiveAcks, Acknowledge, ServerFrame, RemoveComponent, worldVars, runVars,
              replicatedVars, linkVars, clientVars
<1>3. CASE \E e \in Entities :
             \/ Spawn(e)
             \/ \E s \in 1..Session, kind \in {"early", "gone"} : SpawnMapped(e, s, kind)
             \/ Despawn(e)
  BY <1>3, SpawnWorldInv, SpawnMappedWorldInv, DespawnWorldInv
<1>4. CASE \E i \in Clients : StartReplication(i) \/ Connect(i) \/ ClientDisconnected(i)
  BY <1>4, StartReplicationWorldInv, ConnectWorldInv, ClientDisconnectedWorldInv
<1>5. CASE Stop \/ Disconnect
  BY <1>5, ClosesWorldInv
<1>6. CASE \E mutated \in BOOLEAN : ServerTick(mutated)
  BY <1>6, ServerTickWorldInv
<1>7. CASE \E dropped \in BOOLEAN : StoppedFrame(dropped)
  BY <1>7, StoppedFrameWorldInv
<1>8. CASE ClientFrame \/ ApplyUpdate
  BY <1>8, ClientFrameWorldInv, ApplyUpdateWorldInv
<1> QED BY <1>1, <1>2, <1>3, <1>4, <1>5, <1>6, <1>7, <1>8 DEF Next

\* The invariant holds of every behaviour.
LEMMA SpecWorldInv == Spec => []WorldInv
<1>1. Init => WorldInv /\ IsFiniteSet(replicated)
  BY InitWorldInv, FS_EmptySet DEF Init
<1>2. (WorldInv /\ IsFiniteSet(replicated)) /\ [Next]_vars
        => (WorldInv /\ IsFiniteSet(replicated))'
  BY NextWorldInv, FinitelyReplicated
<1> QED BY <1>1, <1>2, PTL DEF Spec

\* The state of sessions is well-typed; replicated clients are connected, and
\* nothing is on its way without a connection.
THEOREM TypeCorrect == Spec => []TypeOK
<1>1. WorldInv => TypeOK
  BY DEF WorldInv
<1> QED BY <1>1, SpecWorldInv, PTL

\* When everything was sent and applied, what the client will have is what it has.
LEMMA SynchronisedKnown ==
  ASSUME WorldInv, Synchronised
  PROVE  /\ link \in replicated /\ link # Nobody /\ down = <<>> /\ DOMAIN down = {}
         /\ \A e \in Entities : WillKnow(e) <=> e \in Known
<1>1. link \in replicated /\ down = <<>> /\ DOMAIN down = {}
  BY DEF Synchronised
<1> QED BY <1>1, NobodyAssumption DEF WillKnow, WorldInv, TypeOK

\* A client that has received everything knows the entities of the world and no
\* others, but for those inherited and for ghosts: whatever sessions came before
\* (ServerPlugin::reset, ClientPlugin::reset, ReplicatedClients::add).
THEOREM SynchronisedClientsKnowTheWorld == Spec => []KnowsTheWorld
<1>1. WorldInv => KnowsTheWorld
  <2> SUFFICES ASSUME WorldInv, Synchronised
               PROVE  Alive \subseteq Known /\ Known \ Alive \subseteq inherited \cup ghosts
    BY DEF KnowsTheWorld
  <2>1. link \in replicated /\ \A e \in Entities : WillKnow(e) <=> e \in Known
    BY SynchronisedKnown
  <2>2. tracked[link] = Alive /\ DespawnsBuffered = {}
    BY DEF Synchronised
  <2>3. Alive \subseteq Entities /\ Known \subseteq Entities
    BY DEF Alive, Known
  <2> QED BY <2>1, <2>2, <2>3 DEF WorldInv, KnownInv
<1> QED BY <1>1, SpecWorldInv, PTL

\* Its update tick is the one the server stamps mutate messages and events with,
\* unless a reused ReplicatedClient kept it or it was raised for a message that
\* was not sent.
THEOREM SynchronisedClientsReachTheTick == Spec => []ReachesUpdateTick
<1>1. WorldInv => ReachesUpdateTick
  BY SynchronisedKnown DEF ReachesUpdateTick, WorldInv, UpdateTickInv, LastTick
<1> QED BY <1>1, SpecWorldInv, PTL

\* An entity the server spawned for one of the client's is mapped to that one
\* and to none of another session (ClientEntityMap, apply_entity_mapping).
THEOREM MappedInTheirSession == Spec => []MapsToOwnEntities
<1>1. WorldInv => MapsToOwnEntities
  <2> SUFFICES ASSUME WorldInv, NEW e \in Entities
               PROVE  /\ Synchronised /\ e \in Alive /\ <<e, Own>> \in timely => map[e] = Own
                      /\ map[e][1] = "early" /\ <<e, map[e]>> \in timely /\ e \notin inherited =>
                           map[e] = Own
    BY DEF MapsToOwnEntities, Own
  <2>1. ASSUME Synchronised, e \in Alive, <<e, Own>> \in timely PROVE map[e] = Own
    <3>1. link \in replicated /\ link # Nobody /\ DOMAIN down = {} /\ tracked[link] = Alive
      BY <2>1, SynchronisedKnown DEF Synchronised
    <3>2. <<e, Own>> \notin entityMap[link]
      BY <2>1, <3>1 DEF WorldInv, OwnInv
    <3> QED BY <2>1, <3>1, <3>2 DEF WorldInv, OwnInv
  <2>2. ASSUME map[e][1] = "early", <<e, map[e]>> \in timely, e \notin inherited PROVE map[e] = Own
    <3>1. e \in Known
      BY <2>2 DEF Known, NoEntity
    <3> QED BY <2>2, <3>1 DEF WorldInv, SessionInv
  <2> QED BY <2>1, <2>2
<1> QED BY <1>1, SpecWorldInv, PTL
=============================================================================
