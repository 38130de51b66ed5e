--------------------------- MODULE ConfirmedTicks ---------------------------
(***************************************************************************)
(* What a client remembers of the ticks it received (ConfirmHistory of an  *)
(* entity, ServerMutateTicks of all mutate messages), with ticks that wrap *)
(* around and windows of fixed size (replicon_tick.rs, confirm_history.rs, *)
(* server_mutate_ticks.rs).                                                *)
(*                                                                         *)
(* Rollback relies on the two together (track_mutate_messages): a tick all *)
(* of whose mutate messages arrived, and that an entity's history does not *)
(* contain, did not change the entity.                                     *)
(*                                                                         *)
(* The module has one client, one entity, and of the protocol what         *)
(* confirms ticks: messages without their content.  A mutate message in    *)
(* BufferedMutations counts as in transit.  Time is counted by numbers     *)
(* that do not wrap; the code has Wire(t) of them.                         *)
(*                                                                         *)
(* An operator marked "Mutant" is a version of the one that follows it,    *)
(* with a bug; it shows that a property of some run depends on the code.   *)
(***************************************************************************)
EXTENDS Integers, Sequences, FiniteSets

CONSTANTS
  Size,         \* number of ticks until they wrap: 2^32
  Bits,         \* u64::BITS, the length of both windows
  Start,        \* the tick the client gets the entity in
  MaxTicks,     \* bound: ticks after that
  MaxMessages   \* bound: mutate messages of a tick

\* The ticks in play, and the end of a window, are close enough to be compared.
ASSUME WidthAssumption ==
  /\ Size \in Nat /\ Bits \in Nat \ {0} /\ Start \in Nat /\ MaxTicks \in Nat
  /\ 2 * Bits < Size /\ 2 * MaxTicks < Size
ASSUME BoundsAssumption == MaxMessages \in Nat \ {0}

VARIABLES
  \* The server.
  now,          \* ServerTick
  updateTick,   \* tick of the last update message
  changed,      \* ticks in which the entity changed
  carrying,     \* whether mutations of the entity are not acknowledged
  \* The channels.
  updates,      \* ticks of update messages; all have the entity
  mutates,      \* mutate messages
  \* The client.
  needHistory,  \* whether the entity has a marker that asks for history
  clientTick,   \* ServerUpdateTick
  history,      \* ConfirmHistory of the entity
  mutateTicks,  \* ServerMutateTicks
  \* History variables.
  replicated,   \* ticks with an EntityReplicated event
  received,     \* ticks with a MutateTickReceived event
  applied,      \* mutate messages applied
  late,         \* ticks of mutate messages applied after their window
  jump          \* last tick that moved the history by its window or more

server   == <<now, updateTick, changed, carrying>>
client   == <<needHistory, clientTick, history, mutateTicks>>
observed == <<replicated, received, applied, late, jump>>
vars     == <<server, updates, mutates, client, observed>>

-----------------------------------------------------------------------------
(* RepliconTick.                                                           *)

WireTicks == 0..(Size - 1)

Wire(t) == t % Size

\* Sub: wrapping.
Minus(a, b) == (a - b) % Size

\* PartialOrd.
Newer(a, b) == Minus(a, b) \in 1..((Size - 1) \div 2)

-----------------------------------------------------------------------------
(* ConfirmHistory: `mask` as the set of the positions of its 1's.          *)

\* Mutant: the mask gets wider.
Widened(mask, diff) == {i + diff : i \in mask}

\* Mutant: what leaves the mask stays at its end.
Saturated(mask, diff) == {IF i + diff < Bits THEN i + diff ELSE Bits - 1 : i \in mask}

\* u64::wrapping_shl takes the distance modulo the width.
WrappingShl(mask, diff) == {i + (diff % Bits) : i \in mask} \cap 0..(Bits - 1)

NewHistory(tick) == [mask |-> {0}, last |-> tick]

SetLastTick(h, tick) ==
  [mask |-> WrappingShl(h.mask, Minus(tick, h.last)) \cup {0}, last |-> tick]

Set(h, ago) == [h EXCEPT !.mask = @ \cup {ago}]

Contains(h, tick) ==
  /\ ~Newer(tick, h.last)
  /\ Minus(h.last, tick) >= Bits \/ Minus(h.last, tick) \in h.mask

\* (1 << len) - 1, where the shift by the full width is one by 0 in a build
\* without overflow checks (and panics in one with them).
Ones(len) == IF len = Bits THEN {} ELSE 0..(len - 1)

\* The end of the range, not after the last tick.
RangeEnd(h, end) == IF Newer(h.last, end) THEN end ELSE h.last
RangeLength(h, start, end) == Minus(RangeEnd(h, end), start) + 1

\* Mutant: the range is shifted one position too far.
Offset(h, end) == Minus(h.last, RangeEnd(h, end)) + 1

RangeOffset(h, end) == Minus(h.last, RangeEnd(h, end))

ContainsAny(h, start, end) ==
  /\ ~Newer(start, h.last)
  /\ \/ ~Newer(start, Minus(h.last, Bits))
     \/ \E i \in Ones(RangeLength(h, start, end)) : i + RangeOffset(h, end) \in h.mask

-----------------------------------------------------------------------------
(* ServerMutateTicks: `ticks` from 0, the last tick.                       *)

NoMessages == [count |-> 0, received |-> 0]
NoTicks == [i \in 0..(Bits - 1) |-> NoMessages]

\* Mutant: a tick is complete with its first message.
AnyReceived(entry) == entry.count # 0

AllReceived(entry) == entry.count # 0 /\ entry.count = entry.received

\* Mutant: the new entries push none out.
ShiftedKeeping(ticks, ago) ==
  [i \in 0..(Bits - 1) |-> IF i = 0 THEN NoMessages ELSE ticks[i]]

\* The ticks move by `ago`; what leaves the window is dropped.
Shifted(ticks, ago) ==
  [i \in 0..(Bits - 1) |-> IF i < ago THEN NoMessages ELSE ticks[i - ago]]

MovedTo(mt, tick) ==
  IF Newer(tick, mt.last)
  THEN [ticks |-> Shifted(mt.ticks, Minus(tick, mt.last)), last |-> tick] ELSE mt

\* ServerMutateTicks::confirm and TickMessages::confirm.
Confirm(mt, tick, count) ==
  LET moved == MovedTo(mt, tick)
      ago   == Minus(moved.last, tick)
  IN  IF ago < Bits
      THEN [moved EXCEPT !.ticks[ago] = [count |-> count, received |-> @.received + 1]]
      ELSE moved

\* The result of confirm, in the state after it.
Confirmed(mt, tick) ==
  /\ Minus(mt.last, tick) < Bits
  /\ AllReceived(mt.ticks[Minus(mt.last, tick)])

MutateContains(mt, tick) ==
  /\ ~Newer(tick, mt.last)
  /\ Minus(mt.last, tick) >= Bits \/ AllReceived(mt.ticks[Minus(mt.last, tick)])

MutateContainsAny(mt, start, end) ==
  /\ ~Newer(start, mt.last)
  /\ \/ ~Newer(start, Minus(mt.last, Bits))
     \/ \E i \in RangeOffset(mt, end)..Minus(mt.last, start) : AllReceived(mt.ticks[i])

-----------------------------------------------------------------------------
Ticks == Start..now
AllTicks == 0..(Start + MaxTicks)
Windows == 0..(Bits - 1)

MutateMessages == [tick : AllTicks, number : 1..MaxMessages, count : 1..MaxMessages,
                   entity : BOOLEAN, update : AllTicks]

TypeOK ==
  /\ {now, updateTick, jump} \subseteq AllTicks
  /\ Start <= updateTick /\ updateTick <= now
  /\ changed \subseteq Ticks
  /\ carrying \in BOOLEAN
  /\ updates \in Seq(AllTicks)
  /\ mutates \subseteq MutateMessages
  /\ needHistory \in BOOLEAN
  /\ clientTick \in WireTicks
  /\ history \in [mask : SUBSET Windows, last : WireTicks]
  /\ mutateTicks \in [ticks : [Windows -> [count : 0..MaxMessages, received : 0..MaxMessages]],
                      last : WireTicks]
  /\ replicated \cup received \cup late \subseteq Ticks
  /\ applied \subseteq MutateMessages

FirstMessage ==
  [tick |-> Start, number |-> 1, count |-> 1, entity |-> FALSE, update |-> Start]

\* The client has just got the entity, by an update message, and a single mutate
\* message of the same tick, the first after a while.
Init ==
  /\ now = Start /\ updateTick = Start
  /\ changed = {Start}
  /\ carrying = FALSE
  /\ updates = <<>>
  /\ mutates = {}
  /\ needHistory \in BOOLEAN
  /\ clientTick = Wire(Start)
  /\ history = NewHistory(Wire(Start))
  /\ mutateTicks = [ticks |-> [NoTicks EXCEPT ![0] = [count |-> 1, received |-> 1]],
                    last |-> Wire(Start)]
  /\ replicated = {Start}
  /\ received = {Start}
  /\ applied = {FirstMessage}
  /\ late = {}
  /\ jump = 0

-----------------------------------------------------------------------------
(* The server.                                                             *)

\* send_messages with tracking: at least one mutate message, after an update
\* message that raised update_tick.  One of them carries the entity: it has no
\* place of its own in the order of arrival.
Sent(carried, count) ==
  mutates \cup
    {[tick |-> now', number |-> n, count |-> count, entity |-> carried /\ n = 1,
      update |-> updateTick'] : n \in 1..count}

\* receive_acks: the server may have learned that a mutate message arrived that
\* has the entity as it is.  The client may still hold it back.
MayBeAcknowledged ==
  \E m \in applied \cup mutates : m.entity /\ \A t \in changed : t <= m.tick

\* A tick in which the entity may have mutated, after a frame's receive_acks.
Tick(acknowledged, mutated, count) ==
  /\ now < Start + MaxTicks
  /\ acknowledged => carrying /\ MayBeAcknowledged
  /\ now' = now + 1
  /\ carrying' = (mutated \/ (carrying /\ ~acknowledged))
  /\ changed' = IF mutated THEN changed \cup {now'} ELSE changed
  /\ UNCHANGED <<updateTick, updates>>
  /\ mutates' = Sent(carrying', count)
  /\ UNCHANGED <<client, observed>>

\* One in which a component was inserted into or removed from the entity: its
\* mutations go to the update message.
InsertTick(count) ==
  /\ now < Start + MaxTicks
  /\ now' = now + 1
  /\ updateTick' = now'
  /\ updates' = Append(updates, now')
  /\ changed' = changed \cup {now'}
  /\ carrying' = FALSE
  /\ mutates' = Sent(FALSE, count)
  /\ UNCHANGED <<client, observed>>

-----------------------------------------------------------------------------
(* The client.                                                             *)

JumpTo(tick) == IF Minus(Wire(tick), history.last) >= Bits THEN tick ELSE jump

\* apply_update_message, with confirm_tick.
ApplyUpdate ==
  /\ updates # <<>>
  /\ updates' = Tail(updates)
  /\ clientTick' = Wire(Head(updates))
  /\ history' = SetLastTick(history, Wire(Head(updates)))
  /\ replicated' = replicated \cup {Head(updates)}
  /\ jump' = JumpTo(Head(updates))
  /\ UNCHANGED <<server, mutates, needHistory, mutateTicks, received, applied, late>>

\* Mutant: an older mutation leaves the history alone.
Older(h, ago) == h

\* What apply_mutations does with an older mutation that a marker asks for.
OlderConfirmed(h, ago) == Set(h, ago)

\* apply_mutations, for a message that has the entity.
ApplyMutations(m) ==
  LET tick  == Wire(m.tick)
      ago   == Minus(history.last, tick)
      newer == Newer(tick, history.last)
      older == ~newer /\ needHistory /\ ago < Bits
  IN  /\ history' = CASE newer -> SetLastTick(history, tick)
                      [] older -> OlderConfirmed(history, ago)
                      [] OTHER -> history
      /\ replicated' = IF newer \/ older THEN replicated \cup {m.tick} ELSE replicated
      /\ jump' = IF newer THEN JumpTo(m.tick) ELSE jump

\* Messages of one tick that differ only in their number are all alike: they are
\* taken in the order of the numbers.
NextAlike(m) ==
  \A n \in mutates : n.tick = m.tick /\ n.entity = m.entity => m.number <= n.number

\* apply_mutate_messages, for one message.  One that is never applied is lost.
ApplyMutate(m) ==
  /\ NextAlike(m)
  /\ ~Newer(Wire(m.update), clientTick)
  /\ mutates' = mutates \ {m}
  /\ IF m.entity THEN ApplyMutations(m) ELSE UNCHANGED <<history, replicated, jump>>
  /\ mutateTicks' = Confirm(mutateTicks, Wire(m.tick), m.count)
  /\ received' =
       IF Confirmed(mutateTicks', Wire(m.tick)) THEN received \cup {m.tick} ELSE received
  /\ applied' = applied \cup {m}
  /\ late' = IF \E n \in applied : n.tick >= m.tick + Bits THEN late \cup {m.tick} ELSE late
  /\ UNCHANGED <<server, updates, needHistory, clientTick>>

Next ==
  \/ \E acknowledged, mutated \in BOOLEAN, count \in 1..MaxMessages :
       Tick(acknowledged, mutated, count)
  \/ \E count \in 1..MaxMessages : InsertTick(count)
  \/ ApplyUpdate
  \/ \E m \in mutates : ApplyMutate(m)

Spec == Init /\ [][Next]_vars

-----------------------------------------------------------------------------
(* Properties.                                                             *)

\* Whether the client has applied all mutate messages of a tick.
IsComplete(t) ==
  \E m \in applied : m.tick = t /\ Cardinality({n \in applied : n.tick = t}) = m.count

\* The history contains every tick for which the entity was replicated (the
\* EntityReplicated event), in whatever order the messages arrived.
ReplicatedIsContained == \A t \in replicated : Contains(history, Wire(t))

\* Ticks in the window of the history.
Recent == {t \in Ticks : ~Newer(Wire(t), history.last) /\ Minus(history.last, Wire(t)) < Bits}

\* Of the ticks in its window, the history contains no others ("a bitmask
\* indicating whether the most recent 64 ticks were received").
ContainedIsReplicated ==
  \A t \in Recent : Contains(history, Wire(t)) => t \in replicated

\* The same for ticks since the history last moved by its window or more.
ContainedSinceJump ==
  \A t \in Recent : Contains(history, Wire(t)) => t \in replicated \/ t < jump

\* "Assume that the entity value didn't change on a tick if all updates were
\* received and ConfirmHistory don't have this tick confirmed"
\* (track_mutate_messages), for an entity whose markers ask for history.  All
\* were received when there was the event: ServerMutateTicks also contains what
\* has left its window.
UnconfirmedIsUnchanged ==
  needHistory =>
    \A t \in received : ~Contains(history, Wire(t)) => t \notin changed

\* MutateTickReceived is sent for exactly the ticks all of whose mutate messages
\* were applied, none of them after the tick had left the window.
ReceivedWhenComplete ==
  \A t \in Ticks : t \in received <=> IsComplete(t) /\ t \notin late

\* The queries for a range agree with those for its ticks, except that the
\* history's is wrong for a range as long as its window.
RangesAgree ==
  LET contained == {t \in Ticks : Contains(history, Wire(t))}
      complete  == {t \in Ticks : MutateContains(mutateTicks, Wire(t))}
  IN  \A s \in Ticks : \A e \in s..now :
        LET start == Wire(s)
            end   == Wire(e)
        IN  /\ MutateContainsAny(mutateTicks, start, end) <=> (s..e) \cap complete # {}
            /\ Newer(start, history.last) \/ RangeLength(history, start, end) # Bits =>
                 (ContainsAny(history, start, end) <=> (s..e) \cap contained # {})
=============================================================================
