-------------------------------- MODULE Mirror --------------------------------
(***************************************************************************)
(* What replication promises, whatever it takes to keep the promise: the   *)
(* client has a copy of something on the server.  The copy changes only    *)
(* when the server ticks, and then it becomes what the source is, but for  *)
(* the keys that a specification implementing this one has to excuse.      *)
(*                                                                         *)
(* ClientVisibility and TickBuffers implement it; each says which part of  *)
(* the server the source is, and which situations it excuses.              *)
(***************************************************************************)
CONSTANTS
  Keys,    \* what is copied, piece by piece
  Nothing  \* the copy of a client that has nothing

VARIABLES
  source,   \* per key: what the server has
  copy,     \* per key: what the client has
  last,     \* what the last step was: "edit" or "tick"
  excused   \* keys the server does not answer for

Init == copy = Nothing /\ last = "edit"

\* Game code does what it likes; the client is not told.
Edit ==
  /\ last' = "edit"
  /\ copy' = copy

\* A tick of the server tells the client.
Synchronise ==
  /\ last' = "tick"
  /\ source' = source
  /\ \A k \in Keys \ excused' : copy'[k] = source'[k]

Next == Edit \/ Synchronise

Spec == Init /\ [][Next]_<<source, copy, last, excused>>
=============================================================================
