-------------------------- MODULE UseSignalingProofs --------------------------
(***************************************************************************)
(* Proofs about UseSignaling, for any number of changes of its callbacks:  *)
(* one connection at a time, the callbacks that are called, and the        *)
(* notice of a lost connection.                                            *)
(***************************************************************************)
EXTENDS UseSignaling, TLAPS

\* Sockets are positive numbers, and there is room for the two of strict mode.
LEMMA SocketTypes ==
  /\ \A s \in Sockets : s \in Nat /\ s > 0
  /\ 1 \in Sockets /\ 2 \in Sockets
  BY SignalingConstants DEF Sockets

-----------------------------------------------------------------------------
(* Type correctness *)

LEMMA TypeInit == Init => TypeOK
  BY SocketTypes DEF Init, TypeOK, States, FirstRender, None

LEMMA TypeStep == TypeOK /\ [Next]_vars => TypeOK'
  <1> SUFFICES ASSUME TypeOK, [Next]_vars
               PROVE  TypeOK'
    OBVIOUS
  <1> USE DEF TypeOK, States, socketVars
  <1>1. CASE Render
    BY <1>1 DEF Render
  <1>2. CASE ChangeCallbacks
    BY <1>2 DEF ChangeCallbacks
  <1>3. CASE Effect
    BY <1>3 DEF Effect, CleanedUp, Deps
  <1>4. CASE StrictEffect
    BY <1>4, SocketTypes DEF StrictEffect, Deps
  <1>5. CASE sendMessage
    BY <1>5 DEF sendMessage, None
  <1>6. CASE Unmount
    BY <1>6 DEF Unmount, CleanedUp
  <1>7. ASSUME NEW s \in Sockets, Opened(s)
        PROVE  TypeOK'
    BY <1>7 DEF Opened, setState
  <1>8. ASSUME NEW s \in Sockets, OnWelcome(s)
        PROVE  TypeOK'
    BY <1>8 DEF OnWelcome, setState, NewClientId
  <1>9. ASSUME NEW s \in Sockets, ConnectionLost(s)
        PROVE  TypeOK'
    BY <1>9 DEF ConnectionLost
  <1>10. ASSUME NEW s \in Sockets, Closed(s)
         PROVE  TypeOK'
    BY <1>10 DEF Closed, setState, Disconnected
  <1>11. ASSUME NEW s \in Sockets, NEW callback \in Callbacks, OnMessage(s, callback)
         PROVE  TypeOK'
    BY <1>11 DEF OnMessage
  <1>12. CASE UNCHANGED vars
    BY <1>12 DEF vars
  <1>13. QED
    BY <1>1, <1>2, <1>3, <1>4, <1>5, <1>6, <1>7, <1>8, <1>9, <1>10, <1>11, <1>12
       DEF Next, ReactStep

\* The states of useSignaling and its sockets are well typed.
THEOREM SignalingTypeCorrect == Spec => []TypeOK
  BY TypeInit, TypeStep, PTL DEF Spec

-----------------------------------------------------------------------------
(* Connections *)

\* No socket of a later run exists, and the last run holds the callbacks of
\* the render that started it.
RunInv ==
    /\ \A s \in Sockets : s > run => status[s] = "unused"
    /\ run # 0 => closure[run] = ran

SocketInv == TypeOK /\ OneSocket /\ RunInv /\ LossNoticed

LEMMA SocketInit == Init => SocketInv
  BY TypeInit, SocketTypes DEF Init, SocketInv, OneSocket, RunInv, LossNoticed, FirstRender

\* What the events of a socket and the cleanup may do to the sockets.
LEMMA CleanedUpSockets ==
  ASSUME SocketInv, NEW s \in Sockets
  PROVE  /\ CleanedUp[s] \notin {"connecting", "open"}
         /\ status[s] = "unused" => CleanedUp[s] = "unused"
         /\ status[s] \in {"open", "closing"} => CleanedUp[s] = "closing"
  BY DEF SocketInv, OneSocket, CleanedUp, TypeOK

LEMMA SocketStep == SocketInv /\ [Next]_vars => SocketInv'
  <1> SUFFICES ASSUME SocketInv, [Next]_vars
               PROVE  OneSocket' /\ RunInv' /\ LossNoticed'
    BY TypeStep DEF SocketInv
  <1>0. TypeOK /\ OneSocket /\ RunInv /\ LossNoticed /\ run \in Nat
    BY SocketTypes DEF SocketInv, TypeOK
  <1> USE <1>0 DEF OneSocket, RunInv, LossNoticed, socketVars
  <1>1. CASE Render \/ sendMessage
    BY <1>1 DEF Render, sendMessage
  <1>2. CASE ChangeCallbacks
    BY <1>2 DEF ChangeCallbacks, TypeOK, States
  <1>3. CASE Effect
    <2>1. /\ run' = run + 1 /\ run + 1 \in Sockets /\ host = "mounted" /\ host' = host
          /\ ran' = rendered.callbacks
          /\ closure' = [closure EXCEPT ![run + 1] = rendered.callbacks]
          /\ status' = [CleanedUp EXCEPT ![run + 1] = "connecting"]
          /\ latest' = [latest EXCEPT !.socket = run + 1]
      BY <1>3 DEF Effect, EffectPending, Deps
    <2>2. \A s \in Sockets : status'[s] = IF s = run + 1 THEN "connecting" ELSE CleanedUp[s]
      BY <2>1 DEF CleanedUp
    <2>3. OneSocket'
      BY <2>1, <2>2, CleanedUpSockets
    <2>4. \A s \in Sockets : s > run' => status'[s] = "unused"
      BY <2>1, <2>2, SocketTypes, CleanedUpSockets
    <2>5. closure'[run'] = ran'
      BY <2>1 DEF TypeOK
    <2>6. LossNoticed'
      <3>1. latest'.isConnected = latest.isConnected
        BY <2>1 DEF TypeOK, States
      <3>2. \A s \in Sockets : status[s] \in {"open", "closing"} => status'[s] = "closing"
        BY <2>2, SocketTypes, CleanedUpSockets
      <3>3. QED
        BY <2>1, <3>1, <3>2
    <2>7. QED
      BY <2>3, <2>4, <2>5, <2>6
  <1>4. CASE StrictEffect
    <2>1. /\ run = 0 /\ run' = 2 /\ host = "mounted" /\ host' = host
          /\ ran' = rendered.callbacks
          /\ closure' = [closure EXCEPT ![1] = rendered.callbacks, ![2] = rendered.callbacks]
          /\ status' = [status EXCEPT ![1] = "closing", ![2] = "connecting"]
      BY <1>4 DEF StrictEffect, EffectPending, Deps
    <2>2. \A s \in Sockets : status[s] = "unused"
      BY <2>1, SocketTypes
    <2>3. \A s \in Sockets :
            status'[s] = IF s = 1 THEN "closing" ELSE IF s = 2 THEN "connecting" ELSE "unused"
      BY <2>1, <2>2, SocketTypes DEF TypeOK
    <2>4. OneSocket'
      BY <2>1, <2>3
    <2>5. LossNoticed'
      BY <2>3, SocketTypes
    <2>6. closure'[run'] = ran'
      BY <2>1, SocketTypes DEF TypeOK
    <2>7. \A s \in Sockets : s > 2 => status'[s] = "unused"
      BY <2>3, SocketTypes
    <2>8. QED
      BY <2>1, <2>4, <2>5, <2>6, <2>7
  <1>5. CASE Unmount
    <2>1. status' = CleanedUp /\ host' = "unmounted" /\ UNCHANGED <<run, ran, closure>>
      BY <1>5 DEF Unmount
    <2>2. QED
      BY <2>1, CleanedUpSockets
  <1>6. ASSUME NEW s \in Sockets, Opened(s)
        PROVE  OneSocket' /\ RunInv' /\ LossNoticed'
    BY <1>6 DEF Opened, TypeOK
  <1>7. ASSUME NEW s \in Sockets, OnWelcome(s)
        PROVE  OneSocket' /\ RunInv' /\ LossNoticed'
    BY <1>7 DEF OnWelcome, setState, TypeOK, States
  <1>8. ASSUME NEW s \in Sockets, ConnectionLost(s)
        PROVE  OneSocket' /\ RunInv' /\ LossNoticed'
    BY <1>8 DEF ConnectionLost, TypeOK
  <1>9. ASSUME NEW s \in Sockets, Closed(s)
        PROVE  OneSocket' /\ RunInv' /\ LossNoticed'
    BY <1>9 DEF Closed, setState, Disconnected, TypeOK, States
  <1>10. ASSUME NEW s \in Sockets, NEW callback \in Callbacks, OnMessage(s, callback)
         PROVE  OneSocket' /\ RunInv' /\ LossNoticed'
    BY <1>10 DEF OnMessage
  <1>11. CASE UNCHANGED vars
    BY <1>11 DEF vars
  <1>12. QED
    BY <1>1, <1>2, <1>3, <1>4, <1>5, <1>6, <1>7, <1>8, <1>9, <1>10, <1>11
       DEF Next, ReactStep

LEMMA SocketInvariant == Spec => []SocketInv
  BY SocketInit, SocketStep, PTL DEF Spec

\* However often the callbacks change, only the socket of the last run is
\* connecting or open, and none is once the component is gone.
THEOREM OneConnection == Spec => []OneSocket
  BY SocketInvariant, PTL DEF SocketInv

\* isConnected does not outlive the last close event.
THEOREM DisconnectSeen == Spec => []LossNoticed
  BY SocketInvariant, PTL DEF SocketInv

\* Messages reach the callbacks of the committed render and leave on the
\* connection in use.
THEOREM CurrentConnectionUsed == Spec => CurrentUsed
  <1> DEFINE Uses ==
        /\ delivered' # delivered /\ ~ EffectPending
             => delivered'.version = rendered.callbacks
        /\ sent' # sent => sent'.socket = run
  <1>1. ASSUME SocketInv, [Next]_vars
        PROVE  [Uses]_vars
    <2> USE <1>1 DEF SocketInv, socketVars
    <2>1. CASE \/ Render \/ Effect \/ StrictEffect \/ ChangeCallbacks \/ Unmount
               \/ \E s \in Sockets : Opened(s) \/ OnWelcome(s) \/ ConnectionLost(s) \/ Closed(s)
      BY <2>1 DEF Render, Effect, StrictEffect, ChangeCallbacks, Unmount, Opened,
         OnWelcome, ConnectionLost, Closed
    <2>2. ASSUME NEW s \in Sockets, NEW callback \in Callbacks, OnMessage(s, callback)
          PROVE  Uses
      <3>1. s = run /\ host = "mounted" /\ run # 0
        BY <2>2, SocketTypes DEF OnMessage, OneSocket
      <3>2. delivered'.version = ran /\ sent' = sent
        BY <2>2, <3>1 DEF OnMessage, RunInv
      <3>3. ~ EffectPending => rendered.callbacks = ran
        BY <3>1 DEF EffectPending, Deps
      <3>4. QED
        BY <3>2, <3>3
    <2>3. CASE sendMessage
      <3>1. rendered.socket \in Sockets /\ status[rendered.socket] = "open"
        BY <2>3 DEF sendMessage, TypeOK, States, None
      <3>2. rendered.socket = run
        BY <3>1 DEF OneSocket
      <3>3. QED
        BY <2>3, <3>2 DEF sendMessage
    <2>4. QED
      BY <2>1, <2>2, <2>3 DEF Next, ReactStep
  <1>2. QED
    BY <1>1, SocketInvariant, PTL DEF Spec, CurrentUsed
=============================================================================
