------------------------------ MODULE ClientEvents ------------------------------
(***************************************************************************)
(* Events from a client to the server (core/event/client_event.rs,         *)
(* client/event.rs and the receiving half of server/event.rs), for one     *)
(* type of event E on an ordered channel.                                  *)
(*                                                                         *)
(* The client app keeps emitted events in Events<E>, Bevy's double buffer. *)
(* In PreUpdate it discards them if the client has just connected, in      *)
(* PostUpdate it sends those it has not sent yet if the client is          *)
(* connected, and re-emits all as FromClient<E> of ClientId::SERVER if it  *)
(* is disconnected ("your game logic will work the same on client, listen  *)
(* server, and in singleplayer session").  The status of RepliconClient is *)
(* changed by the messaging backend, before or between frames; the app     *)
(* notices changes only when it evaluates client_just_connected.           *)
(*                                                                         *)
(* Every connection gets a client ID of its own, here its number.  Events  *)
(* are numbered in the order in which they are emitted, like Bevy's        *)
(* EventIds.                                                               *)
(*                                                                         *)
(* An operator marked "Mutant" is a version of the one that follows it,    *)
(* with a bug; it shows that a property of some run depends on the code.   *)
(***************************************************************************)
EXTENDS Naturals, Sequences, SequencesExt, Selection

CONSTANTS
  MaxEvents,   \* bound: events emitted
  MaxSessions  \* bound: connections made

ASSUME BoundsAssumption == MaxEvents \in Nat /\ MaxSessions \in Nat

VARIABLES
  \* The client app.
  phase,          \* "receive" up to ClientSet::ReceivePackets, or "update"
  status,         \* RepliconClientStatus
  session,        \* client ID of the current or last connection, 0 before any
  lastConnected,  \* Local of client_just_connected
  old, new,       \* Events<E>
  cursor,         \* ClientEventReader: events up to it have been read
  sent,           \* RepliconClient::sent_messages
  local,          \* events re-emitted locally
  \* The connection and the server app.
  link,           \* <<client, event>> on their way
  clients,        \* ConnectedClients
  inbox,          \* RepliconServer::received_messages
  received,       \* FromClient<E> emitted
  \* History.
  emittedIn,      \* the status and session in which events were emitted
  sentIn,         \* sequences of the sessions in which they were sent
  seen,           \* the status at the beginning of the last frame
  noticed         \* sessions after a frame in which the app was not connected

bufferVars  == <<old, new, cursor>>
clientVars  == <<phase, status, session, lastConnected, bufferVars, sent, local>>
serverVars  == <<link, clients, inbox, received>>
historyVars == <<emittedIn, sentIn, seen, noticed>>
vars == <<clientVars, serverVars, historyVars>>

Statuses == {"Disconnected", "Connecting", "Connected"}
Events   == 1..Len(emittedIn)
Sessions == 1..session
Messages == Sessions \X Events

TypeOK ==
  /\ phase \in {"receive", "update"}
  /\ status \in Statuses
  /\ session \in 0..MaxSessions
  /\ lastConnected \in BOOLEAN
  /\ old \in Seq(Events)
  /\ new \in Seq(Events)
  /\ cursor \in Events \cup {0}
  /\ sent \in Seq(Events)
  /\ local \in Seq(Events)
  /\ link \in Seq(Messages)
  /\ clients \subseteq Sessions
  /\ inbox \in Seq(Messages)
  /\ received \in Seq(Messages)
  /\ Len(emittedIn) <= MaxEvents
  /\ emittedIn \in Seq(Statuses \X (Sessions \cup {0}))
  /\ sentIn \in [Events -> Seq(Sessions)]
  /\ seen \in Statuses
  /\ noticed \subseteq Sessions
  /\ sent # <<>> => status = "Connected"

Init ==
  /\ phase = "receive"
  /\ status = "Disconnected"
  /\ session = 0
  /\ lastConnected = FALSE
  /\ old = <<>>
  /\ new = <<>>
  /\ cursor = 0
  /\ sent = <<>>
  /\ local = <<>>
  /\ link = <<>>
  /\ clients = {}
  /\ inbox = <<>>
  /\ received = <<>>
  /\ emittedIn = <<>>
  /\ sentIn = <<>>
  /\ seen = "Disconnected"
  /\ noticed = {}

-----------------------------------------------------------------------------
(* The messaging backend of the client.                                    *)

\* Mutant: what was to be sent is kept.
Kept(messages) == messages

\* RepliconClient::set_status discards messages when it leaves Connected.
Discarded(messages) == <<>>

StartConnecting ==
  /\ phase = "receive"
  /\ status = "Disconnected"
  /\ session < MaxSessions
  /\ status' = "Connecting"
  /\ UNCHANGED <<phase, session, lastConnected, bufferVars, sent, local, serverVars,
                 historyVars>>

\* Also without Connecting (connect_client of test_app.rs).
Connect ==
  /\ phase = "receive"
  /\ status # "Connected"
  /\ session < MaxSessions
  /\ status' = "Connected"
  /\ session' = session + 1
  /\ clients' = clients \cup {session + 1}
  /\ UNCHANGED <<phase, lastConnected, bufferVars, sent, local, link, inbox, received,
                 historyVars>>

Disconnect ==
  /\ phase = "receive"
  /\ status # "Disconnected"
  /\ status' = "Disconnected"
  /\ sent' = IF status = "Connected" THEN Discarded(sent) ELSE sent
  /\ UNCHANGED <<phase, session, lastConnected, bufferVars, local, serverVars,
                 historyVars>>

\* RepliconClient::drain_sent.
SendPackets ==
  /\ phase = "receive"
  /\ sent # <<>>
  /\ sent' = <<>>
  /\ link' = IF session \in clients
             THEN link \o [i \in DOMAIN sent |-> <<session, sent[i]>>] ELSE link
  /\ UNCHANGED <<phase, status, session, lastConnected, bufferVars, local, clients,
                 inbox, received, historyVars>>

-----------------------------------------------------------------------------
(* Frames of the client app.                                               *)

\* Game code, in any schedule.
Emit ==
  /\ Len(emittedIn) < MaxEvents
  /\ new' = Append(new, Len(emittedIn) + 1)
  /\ emittedIn' = Append(emittedIn, <<status, session>>)
  /\ sentIn' = Append(sentIn, <<>>)
  /\ UNCHANGED <<phase, status, session, lastConnected, old, cursor, sent, local,
                 serverVars, seen, noticed>>

\* Mutant: a connection is over only when the client is disconnected.
NotedUntilDisconnected == status = "Connected" \/ (lastConnected /\ status = "Connecting")

\* What client_just_connected remembers.
Noted == status = "Connected"

JustConnected == ~lastConnected /\ status = "Connected"

\* ClientEvent::reset and resend_locally drain both buffers; the latter emits
\* what was in them as FromClient<E>.
Drained == <<>>
ReEmitted == old \o new

\* First and PreUpdate.  Bevy may leave the buffers as they are, if no fixed
\* update has run.  ClientEventPlugin::reset drains both.
BeginFrame(update) ==
  /\ phase = "receive"
  /\ phase' = "update"
  /\ lastConnected' = Noted
  /\ IF JustConnected THEN old' = Drained /\ new' = Drained
     ELSE IF update THEN old' = new /\ new' = <<>>
     ELSE UNCHANGED <<old, new>>
  /\ seen' = status
  /\ noticed' = IF seen # "Connected" /\ status = "Connected"
                THEN noticed \cup {session} ELSE noticed
  /\ UNCHANGED <<status, session, cursor, sent, local, serverVars, emittedIn, sentIn>>

\* Mutant: every event in the buffer.
Buffered == old \o new

\* Mutant: only events of this frame.
UnreadOfFrame == Selected(new, {e \in Events : e > cursor})

\* Mutant: the buffer of this frame comes first.
NewestFirst == Selected(new \o old, {e \in Events : e > cursor})

\* EventCursor::read.
Unread == Selected(old \o new, {e \in Events : e > cursor})

\* PostUpdate: ClientEventPlugin::send, then resend_locally.
EndFrame ==
  /\ phase = "update"
  /\ phase' = "receive"
  /\ IF status = "Connected"
     THEN /\ sent' = sent \o Unread
          /\ cursor' = Len(emittedIn)
          /\ sentIn' = [e \in Events |->
               IF e \in ToSet(Unread) THEN Append(sentIn[e], session) ELSE sentIn[e]]
     ELSE UNCHANGED <<sent, cursor, sentIn>>
  /\ IF status = "Disconnected"
     THEN /\ local' = local \o ReEmitted
          /\ old' = Drained
          /\ new' = Drained
     ELSE UNCHANGED <<local, old, new>>
  /\ UNCHANGED <<status, session, lastConnected, serverVars, emittedIn, seen,
                 noticed>>

-----------------------------------------------------------------------------
(* The server.                                                             *)

\* RepliconServer::insert_received.
ReceivePacket ==
  /\ link # <<>>
  /\ link' = Tail(link)
  /\ inbox' = Append(inbox, Head(link))
  /\ UNCHANGED <<clientVars, clients, received, historyVars>>

\* ServerEventPlugin::receive.
Receive ==
  /\ inbox # <<>>
  /\ inbox' = <<>>
  /\ received' = received \o inbox
  /\ UNCHANGED <<clientVars, link, clients, historyVars>>

\* Mutant: messages of the client that were not read yet stay.
StillReceived(s) == inbox

\* RepliconServer::remove_client.
FromOthers(s) == (Sessions \ {s}) \X Events
WithoutClient(s) == Selected(inbox, FromOthers(s))

\* ServerEvent::ClientDisconnected, whether the client knows already or not.
RemoveClient(s) ==
  /\ s \in clients
  /\ clients' = clients \ {s}
  /\ link' = Selected(link, FromOthers(s))
  /\ inbox' = WithoutClient(s)
  /\ UNCHANGED <<clientVars, received, historyVars>>

Frame == (\E update \in BOOLEAN : BeginFrame(update)) \/ EndFrame

Next ==
  \/ StartConnecting
  \/ Connect
  \/ Disconnect
  \/ SendPackets
  \/ Emit
  \/ Frame
  \/ ReceivePacket
  \/ Receive
  \/ \E s \in Sessions : RemoveClient(s)

\* Both apps run their frames, and the channel is reliable.  The backend sends
\* again and again, in ClientSet::SendPackets or between frames, and so is not
\* always late (strong fairness).
Fairness ==
  /\ WF_vars(Frame)
  /\ SF_vars(SendPackets)
  /\ WF_vars(ReceivePacket)
  /\ WF_vars(Receive)

Spec == Init /\ [][Next]_vars /\ Fairness

-----------------------------------------------------------------------------
(* Properties.                                                             *)

\* An event is sent at most once and re-emitted locally at most once, and one
\* that was re-emitted is not sent after that, whatever the buffer still holds
\* of earlier frames.  (It may be sent and then be re-emitted, if the client
\* disconnects while it is still in the buffer: only a disconnected client
\* drains it.)
HandledOnce ==
  /\ \A e \in Events : Len(sentIn[e]) <= 1
  /\ IsInjective(local)
  /\ ToSet(local) \cap ToSet(old \o new) = {}

\* "Clean separation between connection sessions": what the server gets from a
\* client was emitted in its session, though the app may have emitted events
\* while it was not connected, and messages may have been left when it was
\* disconnected.  The exception is a session that began before the app had
\* noticed the end of the one before: it starts with what is left of it.
SessionsAreSeparate ==
  \A i \in DOMAIN received :
    received[i][1] \in noticed => emittedIn[received[i][2]] = <<"Connected", received[i][1]>>

\* FromClient<E> is emitted for clients that are connected then: ConnectedClients
\* still has the sender when game code reads its event in the same frame.
SenderIsConnected ==
  [][\A i \in DOMAIN received' : i > Len(received) => received'[i][1] \in clients]_vars

\* An event that is emitted in a session reaches the server if the session
\* lasts: it is read before Bevy drops it from the buffer.
Lasts(s) == status = "Connected" /\ session = s /\ s \in clients
Emitted(e, s) ==
  e \in Events /\ emittedIn[e] = <<"Connected", s>> /\ s \in noticed /\ e \in ToSet(new)
EventuallyReceived ==
  \A e \in 1..MaxEvents, s \in 1..MaxSessions :
    Emitted(e, s) /\ Lasts(s) ~> (<<s, e>> \in ToSet(received) \/ ~Lasts(s))

\* Game code on the server reads the events of a session, and the app those it
\* re-emits itself, in the order in which they were emitted, and none twice,
\* although they pass two buffers, three queues and a cursor on their way.
Apps == {"server", "client"}
Read(app) ==
  IF app = "server" THEN received ELSE [i \in DOMAIN local |-> <<0, local[i]>>]

Stream == INSTANCE EventStream WITH
  Readers   <- Apps,
  emitted   <- Len(emittedIn),
  since     <- [app \in Apps |-> 0],
  read      <- [app \in Apps |-> Read(app)],
  unordered <- {}

ImplementsStream == Stream!Spec
=============================================================================
