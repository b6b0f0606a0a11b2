----------------------------- MODULE UseSignaling -----------------------------
(***************************************************************************)
(* hooks/useSignaling.ts in one component, with the browser's WebSockets.  *)
(* Each run of the effect opens a socket; runs, sockets and the ids that   *)
(* the server gives them share one number.  As in HomePage, a setState     *)
(* changes `latest`; sendMessage sees the committed render, the handlers   *)
(* of a socket see the render of the run that made them.                   *)
(***************************************************************************)
EXTENDS Integers

CONSTANT MaxChanges   \* bound: renders with other callbacks or another url

ASSUME SignalingConstants == MaxChanges \in Nat

VARIABLES
    latest, rendered,  \* the React state, and the version of the callbacks
    ran,               \* dependencies of the last run of the effect
    run,               \* its number, 0 before the first one
    closure,           \* version of the callbacks that each run holds
    status,            \* "closing": the close event is still to come
    delivered,         \* the last callback called and its version
    sent,              \* the last message sent: its socket and its "from"
    host,              \* the component: "mounted" or "unmounted"
    strictMode         \* React mounts the effect twice (development)

socketVars == <<closure, status, delivered, sent>>
vars == <<latest, rendered, ran, run, socketVars, host, strictMode>>

Sockets == 1..(MaxChanges + 2)

None == 0   \* null

FirstRender ==
    [socket |-> None, clientId |-> None, isConnected |-> FALSE, callbacks |-> 0]

Init ==
    /\ latest = FirstRender /\ rendered = FirstRender
    /\ ran = 0 /\ run = 0
    /\ closure = [s \in Sockets |-> 0]
    /\ status = [s \in Sockets |-> "unused"]
    /\ delivered = [callback |-> "none", version |-> 0]
    /\ sent = [socket |-> None, from |-> None]
    /\ host = "mounted"
    /\ strictMode \in BOOLEAN

\* React drops what an unmounted component sets.
setState(s) == latest' = IF host = "mounted" THEN s ELSE latest

\* Faulty variants: the callbacks are not listed, the client id is.
NoDeps(s) == 0
DepsWithId(s) == s.callbacks + s.clientId

\* The dependencies of the effect, [url, onOffer, onAnswer, onIceCandidate].
Deps(s) == s.callbacks

EffectPending == host = "mounted" /\ (run = 0 \/ Deps(rendered) # ran)

Render ==
    /\ host = "mounted" /\ ~ EffectPending
    /\ latest # rendered
    /\ rendered' = latest
    /\ UNCHANGED <<latest, ran, run, socketVars, host, strictMode>>

\* The component will render with other functions or another url.
ChangeCallbacks ==
    /\ host = "mounted"
    /\ latest.callbacks < MaxChanges
    /\ latest' = [latest EXCEPT !.callbacks = @ + 1]
    /\ UNCHANGED <<rendered, ran, run, socketVars, host, strictMode>>

\* Faulty variant: no cleanup.
StillOpen == status

\* The cleanup of the last run: ws.close(), which does nothing to a socket
\* that is closing or closed.
CleanedUp ==
    [s \in Sockets |->
       IF s = run /\ status[s] \in {"connecting", "open"} THEN "closing" ELSE status[s]]

\* The cleanup of the previous run, then a new socket.
Effect ==
    /\ EffectPending /\ ~ (run = 0 /\ strictMode)
    /\ run + 1 \in Sockets
    /\ run' = run + 1
    /\ ran' = Deps(rendered)
    /\ closure' = [closure EXCEPT ![run + 1] = rendered.callbacks]
    /\ status' = [CleanedUp EXCEPT ![run + 1] = "connecting"]
    /\ latest' = [latest EXCEPT !.socket = run + 1]
    /\ UNCHANGED <<rendered, delivered, sent, host, strictMode>>

\* Strict mode: run 1, its cleanup and run 2 in one go, from one render.
StrictEffect ==
    /\ EffectPending /\ run = 0 /\ strictMode
    /\ run' = 2
    /\ ran' = Deps(rendered)
    /\ closure' = [closure EXCEPT ![1] = rendered.callbacks, ![2] = rendered.callbacks]
    /\ status' = [status EXCEPT ![1] = "closing", ![2] = "connecting"]
    /\ latest' = [latest EXCEPT !.socket = 2]
    /\ UNCHANGED <<rendered, delivered, sent, host, strictMode>>

\* onopen
Opened(s) ==
    /\ status[s] = "connecting"
    /\ status' = [status EXCEPT ![s] = "open"]
    /\ setState([latest EXCEPT !.isConnected = TRUE])
    /\ UNCHANGED <<rendered, ran, run, closure, delivered, sent, host, strictMode>>

\* Faulty variants: the first id is kept; the id is read from a wrong field.
FirstIdKept(old, id) == IF old = None THEN id ELSE old
IdUndefined(old, id) == -1

\* setClientId
NewClientId(old, id) == id

\* onmessage with the greeting of the server.
OnWelcome(s) ==
    /\ status[s] = "open"
    /\ setState([latest EXCEPT !.clientId = NewClientId(@, s)])
    /\ UNCHANGED <<rendered, ran, run, socketVars, host, strictMode>>

\* onmessage with a message of a peer, which the server passes on once the
\* client has its id.
OnMessage(s, callback) ==
    /\ status[s] = "open" /\ latest.clientId = s
    /\ delivered' = [callback |-> callback, version |-> closure[s]]
    /\ UNCHANGED <<latest, rendered, ran, run, closure, status, sent, host, strictMode>>

\* The connection fails or the server closes it; the browser notices.
ConnectionLost(s) ==
    /\ status[s] \in {"connecting", "open"}
    /\ status' = [status EXCEPT ![s] = "closing"]
    /\ UNCHANGED <<latest, rendered, ran, run, closure, delivered, sent, host, strictMode>>

\* Faulty variant: the close event is only logged, as in page.tsx.
CloseLogged(s) == s

Disconnected(s) == [s EXCEPT !.isConnected = FALSE]

\* onclose, with onerror just before it when the connection has failed:
\* of whichever socket.
Closed(s) ==
    /\ status[s] = "closing"
    /\ status' = [status EXCEPT ![s] = "closed"]
    /\ setState(Disconnected(latest))
    /\ UNCHANGED <<rendered, ran, run, closure, delivered, sent, host, strictMode>>

\* sendMessage, and sendOffer, sendAnswer and sendCandidate over it, when
\* the message does leave.  Without an id it is dropped with a warning, on a
\* socket that is closing by the browser, and on one that is connecting
\* send() throws.
sendMessage ==
    /\ host = "mounted"
    /\ rendered.clientId # None /\ rendered.socket # None
    /\ status[rendered.socket] = "open"
    /\ sent' = [socket |-> rendered.socket, from |-> rendered.clientId]
    /\ UNCHANGED <<latest, rendered, ran, run, closure, status, delivered, host, strictMode>>

Unmount ==
    /\ host = "mounted" /\ ~ EffectPending
    /\ host' = "unmounted"
    /\ status' = CleanedUp
    /\ UNCHANGED <<latest, rendered, ran, run, closure, delivered, sent, strictMode>>

Callbacks == {"onOffer", "onAnswer", "onIceCandidate"}

ReactStep == Render \/ Effect \/ StrictEffect

Next ==
    \/ ReactStep \/ ChangeCallbacks \/ sendMessage \/ Unmount
    \/ \E s \in Sockets :
         \/ Opened(s) \/ OnWelcome(s) \/ ConnectionLost(s) \/ Closed(s)
         \/ \E callback \in Callbacks : OnMessage(s, callback)

Spec == Init /\ [][Next]_vars

\* React renders what was set and runs the effects of a render; the server
\* greets every client (SignalingServer) and the browser dispatches that.
Fairness == WF_vars(ReactStep) /\ \A s \in Sockets : WF_vars(OnWelcome(s))

FairSpec == Spec /\ Fairness

\* A production build, in which React mounts every effect once.
ProductionSpec == Spec /\ ~ strictMode

-----------------------------------------------------------------------------
(* Properties *)

States ==
    [socket : Sockets \cup {None}, clientId : Sockets \cup {None},
     isConnected : BOOLEAN, callbacks : Nat]

\* The states of the hook and the sockets keep their types.
TypeOK ==
    /\ latest \in States /\ rendered \in States
    /\ ran \in Nat /\ run \in Sockets \cup {0}
    /\ closure \in [Sockets -> Nat]
    /\ status \in [Sockets -> {"unused", "connecting", "open", "closing", "closed"}]
    /\ delivered \in [callback : Callbacks \cup {"none"}, version : Nat]
    /\ sent \in [socket : Sockets \cup {None}, from : Sockets \cup {None}]
    /\ host \in {"mounted", "unmounted"}
    /\ strictMode \in BOOLEAN

\* At most one connection is in use, that of the last run, and none once the
\* component is gone: a reconnect never leaves a second client behind.
OneSocket ==
    \A s \in Sockets :
      status[s] \in {"connecting", "open"} => s = run /\ host = "mounted"

\* A message goes to the callbacks of the committed render, unless the
\* effect of that render is still to run; and one that is sent leaves on the
\* connection in use.
CurrentUsed ==
    [][/\ delivered' # delivered /\ ~ EffectPending
            => delivered'.version = rendered.callbacks
       /\ sent' # sent => sent'.socket = run]_vars

\* A lost connection is noticed: isConnected is not left up when no socket
\* is open and no close event is still to come.
LossNoticed ==
    host = "mounted" /\ latest.isConnected
      => \E s \in Sockets : status[s] \in {"open", "closing"}

\* The id that sendMessage puts into "from" becomes that of the connection
\* in use, after a reconnect too.
OwnIdLearned ==
    \A s \in Sockets :
      status[s] = "open" ~> rendered.clientId = s \/ status[s] # "open"

\* The states that the effect and its handlers set do not run the effect
\* again: with callbacks that do not change, the hook keeps its connection.
HookSettles == <>[](host = "mounted" => latest = rendered /\ ~ EffectPending)

-----------------------------------------------------------------------------
(* What a comment of the code says and the code does not do *)

\* isConnected tells "whether the WebSocket is connected"
\* (useSignaling.ts:52), here when every event has been handled and every
\* state rendered.
ConnectedAccurate ==
    /\ host = "mounted" /\ ~ EffectPending /\ latest = rendered
    /\ \A s \in Sockets : status[s] # "closing"
    => rendered.isConnected = (status[run] = "open")
=============================================================================
