--------------------------- MODULE MCServerEvents ---------------------------
(***************************************************************************)
(* Model-checking instance of ServerEvents.                                *)
(***************************************************************************)
EXTENDS ServerEvents, FiniteSets, TLC

\* An unreliable channel that loses nothing is an unordered one.
KindsUsed == {"Ordered", "Unreliable"}

Symmetry == Permutations(Clients)

\* What is explored: one client at a time, over any kind of channel, with all
\* connections, ticks and frames, and events that are sent to everyone, but for the
\* last event in the last connection over an unreliable channel.
OneClient ==
  /\ channel = "Ordered" \/ connects < MaxConnects \/ lastId < MaxEvents
  /\ \A i \in DOMAIN emitted : emitted[i].to = Everyone
  /\ \A i \in DOMAIN buffered : buffered[i].to = Everyone
  /\ Len(triggered[Server]) + Len(emitted) = lastId
  /\ Cardinality(connected \cup {c \in Clients : seen[c] # 0 \/ triggered[c] # <<>>}) <= 1

\* And several clients over an ordered channel, with one tick less and one event,
\* sent to any of them; a client stays connected once a frame has noticed that it is.
SeveralClients ==
  /\ channel = "Ordered"
  /\ serverTick < MaxTick
  /\ lastId < MaxEvents
  /\ serverTick = MaxTick - 1 => emitted = <<>>
  /\ \A c \in Clients :
       /\ seen[c] < MaxTick
       /\ lastStatus[c] = "Disconnected" \/ (lastStatus[c] = "Connected" /\ c \in online)

Explored == OneClient' \/ SeveralClients'
=============================================================================
