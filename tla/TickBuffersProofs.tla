--------------------------- MODULE TickBuffersProofs ---------------------------
(***************************************************************************)
(* Proofs about TickBuffers, for any number of entities and components,    *)
(* any rules and any number of frames between ticks: types, and that it    *)
(* implements Mirror.                                                      *)
(*                                                                         *)
(* Between two ticks the client stands still, and what the next tick will  *)
(* tell it is spread over the events the server has not read yet, the      *)
(* buffers the frames have filled and Bevy's change detection.  The        *)
(* invariant says where, for each way in which client and world differ:    *)
(* that every difference is recorded somewhere is what makes them agree    *)
(* after the tick.                                                         *)
(***************************************************************************)
EXTENDS TickBuffers, TLAPS

\* Entities the client has and should have.
EntitiesInv ==
  /\ known \subseteq marked \cup DespawnsBuffered \cup ghosts
  /\ marked \subseteq known \cup markerAdded

\* An entity that lost Replicated and got it back since the last tick.
MarkedAgainInv == marked \cap DespawnsBuffered \subseteq markerAdded

\* A component whose removal is unread or buffered is there only if it was
\* inserted since.
ReinsertedInv ==
  \A p \in Pairs :
    p \in removed \/ p[2] \in removalBuffer[p[1]] =>
      world[p[1]][p[2]] = Absent \/ p \in added

\* What a rule replicated at the last tick was replicated of an entity that is
\* still marked, or was not despawned on the client yet.
ServedInv == EntitiesOf(served) \subseteq marked \cup DespawnsBuffered

\* A component the client was sent is as it was sent, or has changed.
PresentInv ==
  \A p \in served \ late :
    /\ p[1] \in marked \ DespawnsBuffered
    /\ world[p[1]][p[2]] # Absent
    /\ p \notin changed
    => view[p[1]][p[2]] = world[p[1]][p[2]]

\* A component of a replicated entity that is gone is gone on the client, or its
\* removal is recorded: unread, buffered, or as one that will not be told.
AbsentInv ==
  \A p \in Pairs :
    /\ p[1] \in marked \ DespawnsBuffered
    /\ world[p[1]][p[2]] = Absent
    /\ p \notin removed \cup kept
    /\ p[2] \notin removalBuffer[p[1]]
    => view[p[1]][p[2]] = Absent

\* The client has nothing of an entity that is not replicated.
UnmarkedInv ==
  \A e \in Entities \ (marked \cup DespawnsBuffered) : \A c \in Components :
    view[e][c] = Absent

\* The inductive invariant.
IInv ==
  /\ TypeOK
  /\ EntitiesInv
  /\ MarkedAgainInv
  /\ ReinsertedInv
  /\ ServedInv
  /\ PresentInv
  /\ AbsentInv
  /\ UnmarkedInv

-----------------------------------------------------------------------------
(* What frames buffer.                                                     *)

\* A rule replicates components that the entity has.
LEMMA ReplicatedIsPresent ==
  ASSUME NEW list, NEW archetype
  PROVE  Replicated(list, archetype) \subseteq archetype
BY DEF Replicated, Matches

\* Only what was removed, and is not there, is buffered as removed.
LEMMA RemovedIsAbsent ==
  ASSUME NEW list, NEW archetype, NEW gone
  PROVE  Removed(list, archetype, gone) \subseteq gone \ archetype
BY DEF Removed, MatchesRemovals

\* What is collected as a change is a component of a replicated entity.
LEMMA MatchedIsPresent ==
  ASSUME NEW e \in Entities, NEW c \in Components, <<e, c>> \in Matched
  PROVE  e \in marked /\ world[e][c] # Absent
<1>1. e \in marked /\ c \in Replicated(rules, Archetype(e))
  BY DEF Matched
<1>2. c \in Archetype(e)
  BY <1>1, ReplicatedIsPresent
<1> QED BY <1>1, <1>2 DEF Archetype

\* Removals that a frame buffers were read in it or buffered before.
LEMMA BufferedWasRemoved ==
  ASSUME TypeOK, NEW e \in Entities
  PROVE  /\ RemovalsBuffered[e] \subseteq Components
         /\ \A c \in RemovalsBuffered[e] : <<e, c>> \in removed \/ c \in removalBuffer[e]
         /\ e \notin marked => RemovalsBuffered[e] = removalBuffer[e]
<1>1. RemovalsBuffered[e] = IF RemovalsOf(e) # {} THEN RemovalsOf(e) ELSE removalBuffer[e]
  BY DEF RemovalsBuffered
<1>2. RemovalsOf(e) \subseteq RemovedFrom(e) /\ (e \notin marked => RemovalsOf(e) = {})
  BY RemovedIsAbsent DEF RemovalsOf
<1>3. RemovedFrom(e) \subseteq Components /\ \A c \in RemovedFrom(e) : <<e, c>> \in removed
  BY DEF RemovedFrom
<1>4. removalBuffer[e] \subseteq Components
  BY DEF TypeOK
<1> QED BY <1>1, <1>2, <1>3, <1>4

\* What a frame loses of an entity's removals is recorded.
LEMMA LostIsKept ==
  ASSUME TypeOK, NEW e \in marked, NEW c \in Components, world[e][c] = Absent,
         <<e, c>> \notin KeptBuffered, c \notin RemovalsBuffered[e]
  PROVE  <<e, c>> \notin removed \cup kept /\ c \notin removalBuffer[e]
<1>0. e \in Entities /\ <<e, c>> \in Pairs
  BY DEF TypeOK, Pairs
<1>1. c \notin Archetype(e)
  BY DEF Archetype
<1>2. /\ <<e, c>> \notin kept
      /\ <<e, c>> \in removed => c \in RemovalsOf(e)
      /\ c \notin removalBuffer[e]
  BY <1>0, <1>1 DEF KeptBuffered, Untold, Replaced
<1>3. RemovalsBuffered[e] = IF RemovalsOf(e) # {} THEN RemovalsOf(e) ELSE removalBuffer[e]
  BY <1>0 DEF RemovalsBuffered
<1> QED BY <1>2, <1>3

\* What is kept is a component of an entity.
LEMMA KeptIsTyped == TypeOK => KeptBuffered \subseteq Pairs
BY DEF TypeOK, KeptBuffered, Untold, Replaced

-----------------------------------------------------------------------------
(* Steps between ticks.                                                    *)

\* At first nothing is replicated.
LEMMA InitIInv == Init => IInv
<1> SUFFICES ASSUME Init PROVE IInv
  OBVIOUS
<1>1. [e \in Entities |-> Empty] \in Contents
  BY DEF Empty, Contents
<1>2. \A e \in Entities : \A c \in Components : view[e][c] = Absent
  BY DEF Init, Empty
<1>3. TypeOK
  BY <1>1 DEF Init, TypeOK
<1> QED BY <1>2, <1>3 DEF Init, IInv, EntitiesInv, MarkedAgainInv, ReinsertedInv, ServedInv,
           PresentInv, AbsentInv, UnmarkedInv, DespawnsBuffered, EntitiesOf, Pairs

\* Inserting Replicated.
LEMMA MarkIInv == ASSUME IInv, NEW e \in Entities, Mark(e) PROVE IInv'
<1>1. TypeOK'
  BY DEF IInv, Mark, TypeOK, eventVars, serverVars, clientVars, missed
<1>2. DespawnsBuffered' = DespawnsBuffered
  BY DEF Mark, DespawnsBuffered, eventVars, serverVars
<1>3. (AbsentInv /\ UnmarkedInv)'
  BY <1>2 DEF IInv, Mark, TypeOK, AbsentInv, UnmarkedInv, Pairs,
     eventVars, serverVars, clientVars, missed
<1>4. PresentInv'
  BY <1>2 DEF IInv, Mark, TypeOK, PresentInv, ServedInv, EntitiesOf,
     eventVars, serverVars, clientVars, missed
<1>5. (EntitiesInv /\ MarkedAgainInv /\ ReinsertedInv /\ ServedInv)'
  BY <1>2 DEF IInv, Mark, EntitiesInv, MarkedAgainInv, ReinsertedInv, ServedInv, EntitiesOf,
     eventVars, serverVars, clientVars, missed
<1> QED BY <1>1, <1>3, <1>4, <1>5 DEF IInv

\* Removing it.
LEMMA UnmarkIInv == ASSUME IInv, NEW e \in Entities, Unmark(e) PROVE IInv'
<1>1. TypeOK'
  BY DEF IInv, Unmark, TypeOK, eventVars, serverVars, clientVars, missed
<1>2. DespawnsBuffered' = DespawnsBuffered \cup {e}
  BY DEF Unmark, DespawnsBuffered, serverVars
<1>3. (AbsentInv /\ UnmarkedInv /\ PresentInv)'
  BY <1>2 DEF IInv, Unmark, TypeOK, AbsentInv, UnmarkedInv, PresentInv, Pairs,
     serverVars, clientVars, missed
<1>4. (EntitiesInv /\ MarkedAgainInv /\ ReinsertedInv /\ ServedInv)'
  BY <1>2 DEF IInv, Unmark, EntitiesInv, MarkedAgainInv, ReinsertedInv, ServedInv, EntitiesOf,
     serverVars, clientVars, missed
<1> QED BY <1>1, <1>3, <1>4 DEF IInv

\* Despawning an entity.
LEMMA DespawnIInv == ASSUME IInv, NEW e \in Entities, Despawn(e) PROVE IInv'
<1>1. world' \in Contents
  BY DEF IInv, Despawn, TypeOK, Contents, Empty
<1>2. \A d \in Entities : \A c \in Components :
        world'[d][c] = IF d = e THEN Absent ELSE world[d][c]
  BY DEF IInv, Despawn, TypeOK, Contents, Empty
<1>3. TypeOK'
  BY <1>1, <1>2 DEF IInv, Despawn, TypeOK, Pairs, Others, serverVars, clientVars, missed
<1>4. DespawnsBuffered' = IF e \in marked THEN DespawnsBuffered \cup {e} ELSE DespawnsBuffered
  BY DEF Despawn, DespawnsBuffered, serverVars
<1>5. (EntitiesInv /\ MarkedAgainInv /\ ServedInv)'
  BY <1>4 DEF IInv, Despawn, EntitiesInv, MarkedAgainInv, ServedInv, EntitiesOf,
     serverVars, clientVars, missed
<1>6. ReinsertedInv'
  BY <1>2 DEF IInv, Despawn, ReinsertedInv, Pairs, Others, serverVars
<1>7. PresentInv'
  BY <1>2, <1>4 DEF IInv, Despawn, PresentInv, TypeOK, Pairs, Others, clientVars, missed
<1>8. (AbsentInv /\ UnmarkedInv)'
  BY <1>2, <1>4 DEF IInv, Despawn, AbsentInv, UnmarkedInv, TypeOK, Pairs, Others,
     serverVars, clientVars, missed
<1> QED BY <1>3, <1>5, <1>6, <1>7, <1>8 DEF IInv

\* Giving a component a content, which is not what the client has of it.
LEMMA PutComponentIInv ==
  ASSUME IInv, NEW e \in Entities, NEW c \in Components, NEW v \in Values,
         PutComponent(e, c, v)
  PROVE  IInv'
<1>1. world' \in Contents
  BY DEF IInv, PutComponent, TypeOK, Contents
<1>2. \A d \in Entities : \A b \in Components :
        world'[d][b] = IF d = e /\ b = c THEN v ELSE world[d][b]
  BY DEF IInv, PutComponent, TypeOK, Contents
<1>3. v # Absent /\ <<e, c>> \in Pairs
  BY AbsentAssumption DEF Pairs
<1>4. TypeOK'
  BY <1>1, <1>2, <1>3
  DEF IInv, PutComponent, TypeOK, Pairs, eventVars, serverVars, clientVars, missed
<1>5. DespawnsBuffered' = DespawnsBuffered
  BY DEF PutComponent, DespawnsBuffered, eventVars, serverVars
<1>6. (EntitiesInv /\ MarkedAgainInv /\ ServedInv /\ UnmarkedInv)'
  BY <1>5 DEF IInv, PutComponent, EntitiesInv, MarkedAgainInv, ServedInv, UnmarkedInv,
     clientVars, missed
<1>7. ReinsertedInv'
  BY <1>2 DEF IInv, PutComponent, ReinsertedInv, Pairs, eventVars, serverVars
<1>8. PresentInv'
  BY <1>2, <1>5 DEF IInv, PutComponent, PresentInv, TypeOK, Pairs, clientVars, missed
<1>9. AbsentInv'
  BY <1>2, <1>3, <1>5 DEF IInv, PutComponent, AbsentInv, TypeOK, Pairs,
     eventVars, serverVars, clientVars, missed
<1> QED BY <1>4, <1>6, <1>7, <1>8, <1>9 DEF IInv

\* Removing a component.
LEMMA RemoveComponentIInv ==
  ASSUME IInv, NEW e \in Entities, NEW c \in Components, RemoveComponent(e, c)
  PROVE  IInv'
<1>1. world' \in Contents
  BY DEF IInv, RemoveComponent, TypeOK, Contents
<1>2. \A d \in Entities : \A b \in Components :
        world'[d][b] = IF d = e /\ b = c THEN Absent ELSE world[d][b]
  BY DEF IInv, RemoveComponent, TypeOK, Contents
<1>3. <<e, c>> \in Pairs
  BY DEF Pairs
<1>4. TypeOK'
  BY <1>1, <1>2, <1>3
  DEF IInv, RemoveComponent, TypeOK, Pairs, serverVars, clientVars, missed
<1>5. DespawnsBuffered' = DespawnsBuffered
  BY DEF RemoveComponent, DespawnsBuffered, serverVars
<1>6. (EntitiesInv /\ MarkedAgainInv /\ ServedInv /\ UnmarkedInv)'
  BY <1>5 DEF IInv, RemoveComponent, EntitiesInv, MarkedAgainInv, ServedInv, UnmarkedInv,
     clientVars, missed
<1>7. ReinsertedInv'
  BY <1>2 DEF IInv, RemoveComponent, ReinsertedInv, Pairs, serverVars
<1>8. PresentInv'
  BY <1>2, <1>5 DEF IInv, RemoveComponent, PresentInv, TypeOK, Pairs, clientVars, missed
<1>9. AbsentInv'
  BY <1>2, <1>3, <1>5 DEF IInv, RemoveComponent, AbsentInv, TypeOK, Pairs,
     serverVars, clientVars, missed
<1> QED BY <1>4, <1>6, <1>7, <1>8, <1>9 DEF IInv

\* A frame without a tick moves what it reads to the buffers.
LEMMA FrameIInv == ASSUME IInv, Frame PROVE IInv'
<1>1. DespawnsBuffered' = DespawnsBuffered
  BY DEF Frame, DespawnsBuffered
<1>2. /\ removalBuffer' = RemovalsBuffered /\ kept' = KeptBuffered /\ removed' = {}
      /\ UNCHANGED <<rules, worldVars, tracked, clientVars, served, late, ghosts>>
  BY DEF Frame
<1>3. TypeOK'
  <2>1. RemovalsBuffered \in [Entities -> SUBSET Components]
    BY BufferedWasRemoved DEF IInv, RemovalsBuffered
  <2>2. DespawnsBuffered \subseteq Entities
    BY DEF IInv, TypeOK, DespawnsBuffered
  <2> QED BY <2>1, <2>2, KeptIsTyped DEF IInv, TypeOK, Frame, worldVars, clientVars
<1>4. (EntitiesInv /\ MarkedAgainInv /\ ServedInv /\ UnmarkedInv /\ PresentInv)'
  BY <1>1, <1>2 DEF IInv, EntitiesInv, MarkedAgainInv, ServedInv, UnmarkedInv, PresentInv,
     worldVars, clientVars
<1>5. ReinsertedInv'
  <2> SUFFICES ASSUME NEW e \in Entities, NEW c \in Components, c \in RemovalsBuffered[e]
               PROVE  world[e][c] = Absent \/ <<e, c>> \in added
    BY <1>2 DEF ReinsertedInv, Pairs, worldVars
  <2> QED BY BufferedWasRemoved DEF IInv, ReinsertedInv, Pairs
<1>6. AbsentInv'
  <2> SUFFICES ASSUME NEW e \in Entities, NEW c \in Components,
                      e \in marked \ DespawnsBuffered, world[e][c] = Absent,
                      <<e, c>> \notin KeptBuffered, c \notin RemovalsBuffered[e]
               PROVE  view[e][c] = Absent
    BY <1>1, <1>2 DEF AbsentInv, Pairs, worldVars, clientVars
  <2> QED BY LostIsKept DEF IInv, AbsentInv, Pairs
<1> QED BY <1>3, <1>4, <1>5, <1>6 DEF IInv

-----------------------------------------------------------------------------
(* Ticks.                                                                  *)

\* What a tick leaves on the client of a component that is replicated, and that
\* the rules did not only begin to replicate.
LEMMA TickShows ==
  ASSUME IInv, Tick, NEW e \in Entities, NEW c \in Components,
         <<e, c>> \in Matched, <<e, c>> \notin late'
  PROVE  view'[e][c] = world[e][c]
<1>1. view'[e][c] = ViewAfter(e, c)
  BY DEF Tick
<1>2. CASE <<e, c>> \in Written
  BY <1>1, <1>2 DEF ViewAfter
<1>3. CASE <<e, c>> \notin Written
  <2>1. /\ e \notin markerAdded /\ <<e, c>> \notin added /\ <<e, c>> \notin changed
    BY <1>3 DEF Written, Inserted, Mutated
  <2>2. <<e, c>> \in served \ late
    BY <1>3 DEF Tick
  <2>3. e \in marked /\ world[e][c] # Absent
    BY MatchedIsPresent
  <2>4. e \notin DespawnsBuffered
    BY <2>1, <2>3 DEF IInv, MarkedAgainInv
  <2>5. <<e, c>> \notin Removals
    BY <2>1, <2>3, BufferedWasRemoved DEF IInv, ReinsertedInv, Removals, Pairs
  <2>6. view[e][c] = world[e][c]
    BY <2>1, <2>2, <2>3, <2>4 DEF IInv, PresentInv
  <2> QED BY <1>1, <1>3, <2>4, <2>5, <2>6 DEF ViewAfter
<1> QED BY <1>2, <1>3

\* A tick leaves nothing of what is gone, if its removal was told.
LEMMA TickHides ==
  ASSUME IInv, Tick, NEW e \in Entities, NEW c \in Components,
         e \in marked => world[e][c] = Absent /\ <<e, c>> \notin kept'
  PROVE  view'[e][c] = Absent
<1>1. view'[e][c] = ViewAfter(e, c)
  BY DEF Tick
<1>2. <<e, c>> \notin Written
  BY MatchedIsPresent DEF Written, Inserted, Mutated
<1>3. CASE <<e, c>> \in Removals \/ e \in DespawnsBuffered
  BY <1>1, <1>2, <1>3 DEF ViewAfter
<1>4. CASE <<e, c>> \notin Removals /\ e \notin DespawnsBuffered /\ e \in marked
  <2>1. c \notin RemovalsBuffered[e] /\ <<e, c>> \notin KeptBuffered
    BY <1>4 DEF Removals, Pairs, Tick
  <2>2. view[e][c] = Absent
    BY <1>4, <2>1, LostIsKept DEF IInv, AbsentInv, Pairs
  <2> QED BY <1>1, <1>2, <1>4, <2>2 DEF ViewAfter
<1>5. CASE <<e, c>> \notin Removals /\ e \notin DespawnsBuffered /\ e \notin marked
  BY <1>1, <1>2, <1>5 DEF ViewAfter, IInv, UnmarkedInv
<1> QED BY <1>3, <1>4, <1>5

\* What a tick writes and removes is about components of entities.
LEMMA TickEntities ==
  ASSUME TypeOK
  PROVE  /\ EntitiesOf(Removals) \subseteq Entities
         /\ EntitiesOf(Written) \subseteq marked
         /\ Matched \subseteq Pairs /\ EntitiesOf(Matched) \subseteq marked
<1>1. Matched \subseteq Pairs /\ EntitiesOf(Matched) \subseteq marked
  BY DEF Matched, EntitiesOf
<1>2. Written \subseteq Matched
  BY DEF Written, Inserted, Mutated
<1> QED BY <1>1, <1>2 DEF EntitiesOf, Removals, Pairs

\* The entities a tick leaves on the client are those that are replicated, and
\* those that came back with a removal.
LEMMA TickKnown ==
  ASSUME IInv, Tick
  PROVE  marked \subseteq known' /\ known' \subseteq marked \cup ghosts'
<1>1. /\ known' = KnownAfter
      /\ ghosts' = ((ghosts \ DespawnsBuffered) \cup EntitiesOf(Removals)) \ marked
  BY DEF Tick
<1>2. EntitiesOf(Written) \subseteq marked /\ markerAdded \subseteq marked
  BY TickEntities DEF IInv, TypeOK
<1> QED BY <1>1, <1>2 DEF IInv, KnownAfter, NewEntities, EntitiesInv, MarkedAgainInv

\* A tick leaves well-typed states.
LEMMA TickTypeOK == ASSUME IInv, Tick PROVE TypeOK'
<1>1. view' \in Contents
  <2>1. \A e \in Entities, c \in Components : ViewAfter(e, c) \in Values \cup {Absent}
    BY DEF ViewAfter, IInv, TypeOK, Contents
  <2> QED BY <2>1 DEF Tick, Contents
<1>2. KnownAfter \subseteq Entities /\ TrackedAlive \cup Ticked \subseteq Entities
  <2>1. EntitiesOf(Inserted) \subseteq EntitiesOf(Written)
    BY DEF EntitiesOf, Written
  <2> QED BY <2>1, TickEntities
          DEF KnownAfter, NewEntities, TrackedAlive, Ticked, IInv, TypeOK
<1>3. EntitiesOf(Removals) \cup ghosts \subseteq Entities /\ Matched \subseteq Pairs
  BY TickEntities DEF IInv, TypeOK
<1>4. KeptBuffered \subseteq Pairs
  BY KeptIsTyped DEF IInv
<1>5. [e \in Entities |-> {}] \in [Entities -> SUBSET Components]
  OBVIOUS
<1>6. /\ rules' = rules /\ alive' = alive /\ marked' = marked /\ world' = world
      /\ markerAdded' = {} /\ added' = {} /\ changed' \subseteq changed
      /\ removedMarkers' = {} /\ removed' = {} /\ despawnBuffer' = {}
      /\ removalBuffer' = [e \in Entities |-> {}]
      /\ tracked' = TrackedAlive \cup Ticked /\ known' = KnownAfter /\ last' = "tick"
      /\ kept' \subseteq KeptBuffered /\ served' = Matched /\ late' \subseteq Matched
      /\ ghosts' \subseteq EntitiesOf(Removals) \cup ghosts
  BY DEF Tick
<1> QED BY <1>1, <1>2, <1>3, <1>4, <1>5, <1>6 DEF IInv, TypeOK

\* After a tick every difference that is left is excused.
LEMMA TickIInv == ASSUME IInv, Tick PROVE IInv'
<1>1. DespawnsBuffered' = {}
  BY DEF Tick, DespawnsBuffered
<1>2. /\ rules' = rules /\ alive' = alive /\ marked' = marked /\ world' = world
      /\ markerAdded' = {} /\ added' = {} /\ removed' = {}
      /\ removalBuffer' = [e \in Entities |-> {}] /\ served' = Matched
  BY DEF Tick
<1>3. (EntitiesInv /\ MarkedAgainInv)'
  BY <1>1, <1>2, TickKnown DEF EntitiesInv, MarkedAgainInv
<1>4. (ReinsertedInv /\ ServedInv)'
  BY <1>1, <1>2, TickEntities DEF IInv, ReinsertedInv, ServedInv, EntitiesOf, Pairs
<1>5. PresentInv'
  <2> SUFFICES ASSUME NEW p \in Matched \ late' PROVE view'[p[1]][p[2]] = world[p[1]][p[2]]
    BY <1>2 DEF PresentInv
  <2> QED BY TickShows DEF Matched, Pairs
<1>6. AbsentInv'
  <2> SUFFICES ASSUME NEW e \in Entities, NEW c \in Components,
                      world[e][c] = Absent, <<e, c>> \notin kept'
               PROVE  view'[e][c] = Absent
    BY <1>2 DEF AbsentInv, Pairs
  <2> QED BY TickHides
<1>7. UnmarkedInv'
  <2> SUFFICES ASSUME NEW e \in Entities, NEW c \in Components, e \notin marked
               PROVE  view'[e][c] = Absent
    BY <1>2 DEF UnmarkedInv
  <2> QED BY TickHides
<1> QED BY TickTypeOK, <1>3, <1>4, <1>5, <1>6, <1>7 DEF IInv

\* Every step keeps the invariant.
LEMMA NextIInv == IInv /\ [Next]_vars => IInv'
<1> SUFFICES ASSUME IInv, [Next]_vars PROVE IInv'
  OBVIOUS
<1>1. CASE UNCHANGED vars
  BY <1>1 DEF vars, worldVars, eventVars, serverVars, clientVars, historyVars, missed,
     IInv, TypeOK, EntitiesInv, MarkedAgainInv, ReinsertedInv, ServedInv, PresentInv,
     AbsentInv, UnmarkedInv, DespawnsBuffered
<1> QED BY <1>1, MarkIInv, UnmarkIInv, DespawnIInv, PutComponentIInv, RemoveComponentIInv,
           FrameIInv, TickIInv DEF Next

\* The invariant holds of every behaviour.
LEMMA SpecIInv == Spec => []IInv
BY InitIInv, NextIInv, PTL DEF Spec

\* The world, the buffers and the client are well-typed; in particular what
\* change detection reports is there (Bevy drops it with the component).
THEOREM TypeCorrect == Spec => []TypeOK
<1>1. IInv => TypeOK
  BY DEF IInv
<1> QED BY <1>1, SpecIInv, PTL

\* TickBuffers implements Mirror: whatever happens between two ticks, and in
\* however many frames, after the second the client has what the rules replicate
\* (buffer_despawns, buffer_removals, send_replication, apply_update_message).
THEOREM ImplementsMirror == Spec => MirrorsWorld
<1>1. Init => Abstract!Init
  <2> SUFFICES ASSUME Init
               PROVE  Copy = [k \in Keys |-> IF k[2] = Marker THEN FALSE ELSE Absent]
    BY DEF Init, Abstract!Init
  <2>1. ASSUME NEW k \in Keys, k[2] # Marker PROVE view[k[1]][k[2]] = Absent
    BY <2>1 DEF Init, Keys, Empty
  <2>2. ASSUME NEW k \in Keys PROVE (k[1] \in known) = FALSE
    BY DEF Init
  <2> QED BY <2>1, <2>2 DEF Copy
<1>2. ASSUME IInv, Tick PROVE Abstract!Synchronise
  <2>1. /\ last' = "tick" /\ rules' = rules /\ marked' = marked /\ world' = world
    BY <1>2 DEF Tick
  <2>2. Matched' = Matched /\ \A e : Archetype(e)' = Archetype(e)
    BY <2>1 DEF Matched, Archetype
  <2>3. Source' = Source
    BY <2>1, <2>2 DEF Source
  <2>4. ASSUME NEW e \in Entities, <<e, Marker>> \notin Excused'
        PROVE  e \in known' <=> e \in marked
    BY <1>2, <2>4, TickKnown DEF Excused
  <2>5. ASSUME NEW e \in Entities, NEW c \in Components, <<e, c>> \notin Excused'
        PROVE  view'[e][c] = IF <<e, c>> \in Matched THEN world[e][c] ELSE Absent
    <3>1. /\ <<e, c>> \notin Stopped' /\ <<e, c>> \notin kept' /\ <<e, c>> \notin late'
      BY <2>5 DEF Excused
    <3>2. <<e, c>> \in Matched \/ e \notin marked \/ world[e][c] = Absent
      BY <2>1, <2>2, <3>1 DEF Stopped, Pairs, Archetype
    <3> QED BY <1>2, <3>1, <3>2, TickShows, TickHides
  <2>6. \A k \in Keys \ Excused' : Copy'[k] = Source[k]
    <3> SUFFICES ASSUME NEW e \in Entities, NEW b \in Components \cup {Marker},
                        <<e, b>> \notin Excused'
                 PROVE  Copy'[<<e, b>>] = Source[<<e, b>>]
      BY DEF Keys
    <3>1. <<e, b>> \in Keys
      BY DEF Keys
    <3>2. Copy'[<<e, b>>] = IF b = Marker THEN e \in known' ELSE view'[e][b]
      BY <3>1 DEF Copy
    <3>3. Source[<<e, b>>] = IF b = Marker THEN e \in marked
                             ELSE IF <<e, b>> \in Matched THEN world[e][b] ELSE Absent
      BY <3>1 DEF Source
    <3>4. CASE b = Marker
      BY <2>4, <3>2, <3>3, <3>4
    <3>5. CASE b # Marker
      BY <2>5, <3>2, <3>3, <3>5
    <3> QED BY <3>4, <3>5
  <2> QED BY <2>1, <2>3, <2>6 DEF Abstract!Synchronise
<1>3. ASSUME last' = "edit", UNCHANGED clientVars PROVE Abstract!Edit
  BY <1>3 DEF Abstract!Edit, Copy, clientVars
<1>4. IInv /\ [Next]_vars => [Abstract!Next]_<<Source, Copy, last, Excused>>
  <2> SUFFICES ASSUME IInv, [Next]_vars
               PROVE  [Abstract!Next]_<<Source, Copy, last, Excused>>
    OBVIOUS
  <2>1. CASE Tick
    BY <1>2, <2>1 DEF Abstract!Next
  <2>2. CASE UNCHANGED vars
    BY <2>2 DEF vars, worldVars, clientVars, historyVars, missed, Source, Copy, Excused,
       Stopped, Matched, Archetype
  <2>3. CASE last' = "edit" /\ UNCHANGED clientVars
    BY <1>3, <2>3 DEF Abstract!Next
  <2> QED BY <2>1, <2>2, <2>3
          DEF Next, Mark, Unmark, Despawn, PutComponent, RemoveComponent, Frame
<1> QED BY <1>1, <1>4, SpecIInv, PTL DEF Spec, MirrorsWorld, Abstract!Spec
=============================================================================
