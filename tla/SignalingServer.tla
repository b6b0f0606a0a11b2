--------------------------- MODULE SignalingServer ---------------------------
(***************************************************************************)
(* signaling/src/main.rs: one SignalingServer actor and one                *)
(* WebSocketSession actor per connection.  Each actor handles one message  *)
(* at a time; the actors run on different arbiter threads, so between two  *)
(* visible effects of one actor (a do_send, a frame written) any other     *)
(* actor may run.  do_send appends to the mailbox of the addressee, never  *)
(* blocks, and is silently lost when the addressee has stopped.            *)
(***************************************************************************)
EXTENDS Naturals, Sequences

CONSTANTS
    Sessions,     \* connections the server accepts over its life
    Addresses,    \* values of the "to" field, unknown ids included
    MaxTexts,     \* bound: texts a client sends over one connection
    MaxRestarts   \* bound: times the container is restarted

ASSUME ConstantsAssumption ==
    /\ Sessions \subseteq Addresses
    /\ MaxTexts \in Nat
    /\ MaxRestarts \in Nat

VARIABLES
    phase,     \* phase[s]: life cycle of the session actor s
    mailbox,   \* mailbox of the SignalingServer actor
    sessions,  \* SignalingServer.sessions (the key determines the address)
    inbox,     \* inbox[s]: WsMessages waiting in the mailbox of s
    wire,      \* wire[s]: frames s has written with ctx.text
    nextSeq,   \* nextSeq[s]: number of the next text read from the socket of s
    restarts   \* restarts so far

vars == <<phase, mailbox, sessions, inbox, wire, nextSeq, restarts>>

\* The frames are those of Relay, the abstract service.
inflight ==
    {mailbox[i].msg : i \in {j \in DOMAIN mailbox : mailbox[j].kind = "Send"}}
      \cup UNION {{inbox[s][i] : i \in DOMAIN inbox[s]} : s \in Sessions}

Service == INSTANCE Relay WITH received <- wire

Phases == {"none", "created", "starting", "running", "stopped"}

RegisterSession(s)   == [kind |-> "Register", id |-> s]
UnregisterSession(s) == [kind |-> "Unregister", id |-> s]
SendMessage(f)       == [kind |-> "Send", msg |-> f]

Mail ==
    [kind : {"Register", "Unregister"}, id : Sessions]
      \cup [kind : {"Send"}, msg : Service!Texts]

\* The actor's mailbox exists: it is created by ws::start and dropped when
\* the actor stops.
Alive(s) == phase[s] \in {"created", "starting", "running"}

InMailbox(m) == \E i \in DOMAIN mailbox : mailbox[i] = m

Init ==
    /\ phase = [s \in Sessions |-> "none"]
    /\ mailbox = << >>
    /\ sessions = {}
    /\ inbox = [s \in Sessions |-> << >>]
    /\ wire = [s \in Sessions |-> << >>]
    /\ nextSeq = [s \in Sessions |-> 1]
    /\ restarts = 0

-----------------------------------------------------------------------------
(* Faulty variants of the operations below, each a bug that the code could *)
(* have had.  They are not part of the specification: each one, put in the *)
(* place of its original, breaks one of the properties at the end.         *)

\* started() forgets to register.
StartedUnregistered(s) ==
    /\ phase[s] = "created"
    /\ phase' = [phase EXCEPT ![s] = "starting"]
    /\ UNCHANGED <<mailbox, sessions, inbox, wire, nextSeq, restarts>>

\* A text that does not parse is passed on all the same.
ForwardInvalid(s) ==
    /\ phase[s] = "running"
    /\ nextSeq[s] <= MaxTexts
    /\ mailbox' = Append(mailbox, SendMessage([Service!Text(s, s, nextSeq[s])
                                                 EXCEPT !.kind = "invalid"]))
    /\ nextSeq' = [nextSeq EXCEPT ![s] = @ + 1]
    /\ UNCHANGED <<phase, sessions, inbox, wire, restarts>>

\* WsMessages are handled while started() still runs.
HandleWsMessageEarly(s) ==
    /\ phase[s] \in {"starting", "running"}
    /\ inbox[s] # << >>
    /\ wire' = [wire EXCEPT ![s] = Append(@, Head(inbox[s]))]
    /\ inbox' = [inbox EXCEPT ![s] = Tail(@)]
    /\ UNCHANGED <<phase, mailbox, sessions, nextSeq, restarts>>

\* stopping() does not unregister.
StopSilently(s) ==
    /\ phase[s] = "running"
    /\ phase' = [phase EXCEPT ![s] = "stopped"]
    /\ inbox' = [inbox EXCEPT ![s] = << >>]
    /\ UNCHANGED <<mailbox, sessions, wire, nextSeq, restarts>>

\* The entry is left in the map.
KeepEntry ==
    /\ mailbox # << >>
    /\ Head(mailbox).kind = "Unregister"
    /\ mailbox' = Tail(mailbox)
    /\ UNCHANGED <<phase, sessions, inbox, wire, nextSeq, restarts>>

\* The newest text is put in front of the waiting ones.
SendNewestFirst ==
    /\ mailbox # << >>
    /\ Head(mailbox).kind = "Send"
    /\ LET f == Head(mailbox).msg
       IN  /\ f.to \in sessions
           /\ inbox' = IF Alive(f.to)
                         THEN [inbox EXCEPT ![f.to] = <<f>> \o @]
                         ELSE inbox
    /\ mailbox' = Tail(mailbox)
    /\ UNCHANGED <<phase, sessions, wire, nextSeq, restarts>>

\* A text for a session that has not finished started() is dropped.
SendToRunningOnly ==
    /\ mailbox # << >>
    /\ Head(mailbox).kind = "Send"
    /\ LET f == Head(mailbox).msg
       IN  /\ f.to \in sessions
           /\ inbox' = IF phase[f.to] = "running"
                         THEN [inbox EXCEPT ![f.to] = Append(@, f)]
                         ELSE inbox
    /\ mailbox' = Tail(mailbox)
    /\ UNCHANGED <<phase, sessions, wire, nextSeq, restarts>>

\* A text whose addressee is unknown goes back to its sender.
BounceUnknown ==
    /\ mailbox # << >>
    /\ Head(mailbox).kind = "Send"
    /\ Head(mailbox).msg.to \notin sessions
    /\ inbox' = [inbox EXCEPT ![Head(mailbox).msg.via] = Append(@, Head(mailbox).msg)]
    /\ mailbox' = Tail(mailbox)
    /\ UNCHANGED <<phase, sessions, wire, nextSeq, restarts>>

-----------------------------------------------------------------------------
(* WebSocketSession *)

\* GET /ws: a fresh id, a new actor.
ws_handler(s) ==
    /\ phase[s] = "none"
    /\ phase' = [phase EXCEPT ![s] = "created"]
    /\ UNCHANGED <<mailbox, sessions, inbox, wire, nextSeq, restarts>>

\* started(), first effect: the registration is posted to the server ...
StartedRegister(s) ==
    /\ phase[s] = "created"
    /\ phase' = [phase EXCEPT ![s] = "starting"]
    /\ mailbox' = Append(mailbox, RegisterSession(s))
    /\ UNCHANGED <<sessions, inbox, wire, nextSeq, restarts>>

\* ... second effect: the welcome is written.  The server may already have
\* registered the session and posted texts to it in between.
StartedWelcome(s) ==
    /\ phase[s] = "starting"
    /\ phase' = [phase EXCEPT ![s] = "running"]
    /\ wire' = [wire EXCEPT ![s] = Append(@, Service!Welcome(s))]
    /\ UNCHANGED <<mailbox, sessions, inbox, nextSeq, restarts>>

\* StreamHandler::handle on a text that parses as a Message.  The server
\* forwards the text as it came; it does not compare "from" with the id.
HandleText(s, t) ==
    /\ phase[s] = "running"
    /\ nextSeq[s] <= MaxTexts
    /\ mailbox' = Append(mailbox, SendMessage(Service!Text(s, t, nextSeq[s])))
    /\ nextSeq' = [nextSeq EXCEPT ![s] = @ + 1]
    /\ UNCHANGED <<phase, sessions, inbox, wire, restarts>>

\* StreamHandler::handle on a text that does not parse: logged and dropped.
\* (Ping, Pong, Binary and Close frames are ignored: no effect at all.)
HandleInvalid(s) ==
    /\ phase[s] = "running"
    /\ nextSeq[s] <= MaxTexts
    /\ nextSeq' = [nextSeq EXCEPT ![s] = @ + 1]
    /\ UNCHANGED <<phase, mailbox, sessions, inbox, wire, restarts>>

\* Handler<WsMessage>: write the text to the socket.
HandleWsMessage(s) ==
    /\ phase[s] = "running"
    /\ inbox[s] # << >>
    /\ wire' = [wire EXCEPT ![s] = Append(@, Head(inbox[s]))]
    /\ inbox' = [inbox EXCEPT ![s] = Tail(@)]
    /\ UNCHANGED <<phase, mailbox, sessions, nextSeq, restarts>>

\* stopping(): the socket's stream has ended.  What is left in the actor's
\* mailbox is dropped with it.
Stopping(s) ==
    /\ phase[s] = "running"
    /\ phase' = [phase EXCEPT ![s] = "stopped"]
    /\ mailbox' = Append(mailbox, UnregisterSession(s))
    /\ inbox' = [inbox EXCEPT ![s] = << >>]
    /\ UNCHANGED <<sessions, wire, nextSeq, restarts>>

-----------------------------------------------------------------------------
(* SignalingServer *)

HandleRegister ==
    /\ mailbox # << >>
    /\ Head(mailbox).kind = "Register"
    /\ sessions' = sessions \cup {Head(mailbox).id}
    /\ mailbox' = Tail(mailbox)
    /\ UNCHANGED <<phase, inbox, wire, nextSeq, restarts>>

HandleUnregister ==
    /\ mailbox # << >>
    /\ Head(mailbox).kind = "Unregister"
    /\ sessions' = sessions \ {Head(mailbox).id}
    /\ mailbox' = Tail(mailbox)
    /\ UNCHANGED <<phase, inbox, wire, nextSeq, restarts>>

\* The addressee is registered: do_send to its address, which is lost if
\* that actor has stopped in the meantime.
HandleSendFound ==
    /\ mailbox # << >>
    /\ Head(mailbox).kind = "Send"
    /\ LET f == Head(mailbox).msg
       IN  /\ f.to \in sessions
           /\ inbox' = IF Alive(f.to)
                         THEN [inbox EXCEPT ![f.to] = Append(@, f)]
                         ELSE inbox
    /\ mailbox' = Tail(mailbox)
    /\ UNCHANGED <<phase, sessions, wire, nextSeq, restarts>>

\* The addressee is not registered: logged and dropped, nobody is told.
HandleSendNotFound ==
    /\ mailbox # << >>
    /\ Head(mailbox).kind = "Send"
    /\ Head(mailbox).msg.to \notin sessions
    /\ mailbox' = Tail(mailbox)
    /\ UNCHANGED <<phase, sessions, inbox, wire, nextSeq, restarts>>

ServerStep ==
    HandleRegister \/ HandleUnregister \/ HandleSendFound \/ HandleSendNotFound

\* The process dies and its container is started again: every actor and
\* every connection is gone, and main() starts from an empty map.
Restart ==
    /\ restarts < MaxRestarts
    /\ restarts' = restarts + 1
    /\ phase' = [s \in Sessions |-> IF Alive(s) THEN "stopped" ELSE phase[s]]
    /\ mailbox' = << >>
    /\ sessions' = {}
    /\ inbox' = [s \in Sessions |-> << >>]
    /\ UNCHANGED <<wire, nextSeq>>

SessionStep(s) ==
    \/ ws_handler(s)
    \/ StartedRegister(s)
    \/ StartedWelcome(s)
    \/ \E t \in Addresses : HandleText(s, t)
    \/ HandleInvalid(s)
    \/ HandleWsMessage(s)
    \/ Stopping(s)

Next ==
    \/ \E s \in Sessions : SessionStep(s)
    \/ ServerStep
    \/ Restart

Spec == Init /\ [][Next]_vars

\* An actor with work in its mailbox is polled again: the actix executor is
\* fair to the server actor and to every session actor.  Nothing is assumed
\* of the clients (they may send nothing and never leave) nor of crashes.
Fairness ==
    /\ WF_vars(ServerStep)
    /\ \A s \in Sessions :
         /\ WF_vars(StartedRegister(s))
         /\ WF_vars(StartedWelcome(s))
         /\ WF_vars(HandleWsMessage(s))

FairSpec == Spec /\ Fairness

-----------------------------------------------------------------------------
(* Properties *)

\* Every mailbox of main.rs holds only messages its actor has a handler for,
\* and only texts that have parsed travel: the error branch of the stream
\* handler lets nothing through.
TypeOK ==
    /\ phase \in [Sessions -> Phases]
    /\ mailbox \in Seq(Mail)
    /\ sessions \subseteq Sessions
    /\ inbox \in [Sessions -> Seq(Service!Texts)]
    /\ wire \in [Sessions -> Seq(Service!Frames)]
    /\ nextSeq \in [Sessions -> Nat \ {0}]
    /\ restarts \in Nat

\* The registry never forgets a client and never keeps a dead one, up to
\* what still waits in the server's mailbox: a session that has started and
\* is not in the map has its RegisterSession waiting, a stopped session that
\* is still in the map has its UnregisterSession waiting, and a session that
\* was never started is not in the map.  (started/stopping and the two
\* handlers of the SignalingServer actor, run on different threads.)
RegistryTracksSessions ==
    \A s \in Sessions :
      /\ phase[s] \in {"starting", "running"} /\ s \notin sessions
           => InMailbox(RegisterSession(s))
      /\ phase[s] = "stopped" /\ s \in sessions
           => InMailbox(UnregisterSession(s))
      /\ phase[s] \in {"none", "created"} => s \notin sessions

\* A client's first frame is its own welcome, and no later frame is one: the
\* browser knows its client id before it sees any peer's message, even when
\* a peer's text reaches the session while started() is still running.
WelcomeFirst ==
    \A t \in Sessions : \A i \in DOMAIN wire[t] :
      IF i = 1 THEN wire[t][i] = Service!Welcome(t)
               ELSE wire[t][i].kind = "text" /\ wire[t][i].to = t

\* Texts of one sender reach one recipient in the order they were sent and
\* none of them twice, across the three queues they pass (the server's
\* mailbox, the session's mailbox, the socket).
DeliveredInOrder ==
    \A t \in Sessions : \A i, j \in DOMAIN wire[t] :
      i < j => Service!Precedes(wire[t][i], wire[t][j])

\* The two-actor system implements the abstract relay (main.rs as a whole).
ImplementsRelay == Service!RelaySpec

\* A session that has stopped eventually leaves the map for good, so the map
\* does not grow with dead clients.
DeadSessionsForgotten ==
    \A s \in Sessions : phase[s] = "stopped" ~> [](s \notin sessions)

\* Every session that starts is eventually in the map, unless it stops.
StartedSessionsRegistered ==
    \A s \in Sessions :
      phase[s] = "starting" ~> (s \in sessions \/ phase[s] = "stopped")

\* A text addressed to a session that is in the map when the server receives
\* it is eventually written to that session's socket, unless the session
\* stops: nothing is left behind in a queue.
AcceptedTextsDelivered ==
    \A s, t \in Sessions, n \in 1..MaxTexts :
      LET f == Service!Text(s, t, n)
      IN  (t \in sessions /\ InMailbox(SendMessage(f)))
            ~> (phase[t] = "stopped" \/ \E i \in DOMAIN wire[t] : wire[t][i] = f)
=============================================================================
