------------------------------ MODULE EventStream ------------------------------
(***************************************************************************)
(* What events promise, whatever it takes to keep the promise.  Events are *)
(* numbered as they are emitted.  Each reader reads some of them, on one   *)
(* or several lanes: none that was emitted before it joined, none twice on *)
(* a lane, and in the order in which they were emitted, unless its lanes   *)
(* are unordered.                                                          *)
(*                                                                         *)
(* ServerEvents and ClientEvents implement it; each says who the readers   *)
(* are, and what a lane is.                                                *)
(***************************************************************************)
EXTENDS Naturals, Sequences, SequencesExt

CONSTANT
  Readers   \* clients, apps

VARIABLES
  emitted,   \* number of events emitted
  since,     \* per reader: events emitted before it joined
  read,      \* per reader: <<lane, event>>, in the order in which it read them
  unordered  \* readers whose lanes are unordered

Init ==
  /\ emitted = 0
  /\ since = [r \in Readers |-> 0]
  /\ read = [r \in Readers |-> <<>>]
  /\ unordered \subseteq Readers

Emit ==
  /\ emitted' = emitted + 1
  /\ UNCHANGED <<since, read, unordered>>

Join(r) ==
  /\ since' = [since EXCEPT ![r] = emitted]
  /\ UNCHANGED <<emitted, read, unordered>>

\* Whether a reader may read an event on a lane after another one.
Follows(r, before, after) ==
  before[1] = after[1] =>
    IF r \in unordered THEN before[2] # after[2] ELSE before[2] < after[2]

\* Whether a reader may read what it reads as the i-th in this step.
MayRead(r, i) ==
  /\ read'[r][i][2] \in (since[r] + 1)..emitted
  /\ \A j \in 1..(i - 1) : Follows(r, read'[r][j], read'[r][i])

\* A reader goes on with the sequence of what it has read.
ReadsOn(r) ==
  /\ IsPrefix(read[r], read'[r])
  /\ \A i \in DOMAIN read'[r] : i > Len(read[r]) => MayRead(r, i)

Read ==
  /\ \A r \in Readers : read'[r] = read[r] \/ ReadsOn(r)
  /\ UNCHANGED <<emitted, since, unordered>>

Next == Read \/ Emit \/ \E r \in Readers : Join(r)

Spec == Init /\ [][Next]_<<emitted, since, read, unordered>>
=============================================================================
