---------------------- MODULE SignalingServerRefinement ----------------------
(***************************************************************************)
(* The signaling server implements Relay, for every set of connections and *)
(* every bound.  The texts in flight are those waiting in the server's     *)
(* mailbox or in the inbox of a session; the frames a client received are  *)
(* those written to its socket.  The invariant OrderInv supplies what the  *)
(* steps need: a text taken from an inbox is nowhere else, it comes after  *)
(* everything its sender already got through, and the welcome was written. *)
(***************************************************************************)
EXTENDS SignalingServerProofs

LEMMA InFlight ==
  \A f : f \in inflight <=>
           \/ \E i \in Sends : mailbox[i].msg = f
           \/ \E s \in Sessions : \E i \in DOMAIN inbox[s] : inbox[s][i] = f
  BY DEF inflight, Sends

\* The same after a step.
LEMMA InFlightNext ==
  \A f : f \in inflight' <=>
           \/ \E i \in Sends' : mailbox'[i].msg = f
           \/ \E s \in Sessions : \E i \in DOMAIN inbox'[s] : inbox'[s][i] = f
  BY DEF inflight, Sends

LEMMA RelayInitMapped == Init => Service!RelayInit
  <1> SUFFICES ASSUME Init
               PROVE  Service!RelayInit
    OBVIOUS
  <1>1. Sends = {} /\ \A s \in Sessions : DOMAIN inbox[s] = {}
    BY DEF Init, Sends
  <1>2. \A f : f \notin inflight
    BY <1>1, InFlight
  <1>3. QED
    BY <1>2 DEF Init, Service!RelayInit

\* A step that only takes texts out of the queues is a loss, or a stutter.
LEMMA LossStep ==
  ASSUME UNCHANGED <<wire, nextSeq>>,
         \A f : f \in inflight' => f \in inflight
  PROVE  Service!RelayNext
  BY DEF Service!RelayNext, Service!Lose

LEMMA RelayStepMapped ==
  TypeOK /\ OrderInv /\ [Next]_vars => [Service!RelayNext]_(Service!relayVars)
  <1> SUFFICES ASSUME TypeOK, OrderInv, [Next]_vars
               PROVE  Service!RelayNext \/ UNCHANGED Service!relayVars
    OBVIOUS
  <1> USE DEF OrderInv
  <1>0. ASSUME UNCHANGED mailbox
        PROVE  Sends' = Sends
    BY <1>0 DEF Sends
  <1>1. ASSUME NEW s \in Sessions, ws_handler(s)
        PROVE  Service!RelayNext
    <2>1. UNCHANGED <<mailbox, inbox, wire, nextSeq>> /\ Sends' = Sends
      BY <1>0, <1>1 DEF ws_handler
    <2>2. \A f : f \in inflight' => f \in inflight
      BY <2>1, InFlight, InFlightNext
    <2>3. QED
      BY <2>1, <2>2, LossStep
  <1>2. ASSUME NEW s \in Sessions, StartedRegister(s)
        PROVE  Service!RelayNext
    <2>1. UNCHANGED <<inbox, wire, nextSeq>>
      BY <1>2 DEF StartedRegister
    <2>2. Sends' = Sends /\ \A i \in Sends : mailbox'[i] = mailbox[i]
      <3>1. RegisterSession(s) \in Mail /\ RegisterSession(s).kind # "Send"
        BY MailTypes DEF RegisterSession
      <3>2. QED
        BY <1>2, <3>1, SendsPostedOther DEF StartedRegister
    <2>3. \A f : f \in inflight' => f \in inflight
      BY <2>1, <2>2, InFlight, InFlightNext
    <2>4. QED
      BY <2>1, <2>3, LossStep
  <1>3. ASSUME NEW s \in Sessions, StartedWelcome(s)
        PROVE  Service!RelayNext
    <2>1. UNCHANGED <<mailbox, inbox, nextSeq>> /\ Sends' = Sends
      BY <1>0, <1>3 DEF StartedWelcome
    <2>2. inflight' = inflight
      BY <2>1 DEF inflight
    <2>3. wire[s] = << >>
      BY <1>3 DEF StartedWelcome, Greeted
    <2>4. Append(wire[s], Service!Welcome(s)) = <<Service!Welcome(s)>>
      BY <2>3
    <2>5. Service!Greet(s)
      BY <1>3, <2>1, <2>2, <2>3, <2>4 DEF StartedWelcome, Service!Greet
    <2>6. QED
      BY <2>5 DEF Service!RelayNext
  <1>4. ASSUME NEW s \in Sessions, NEW t \in Addresses, HandleText(s, t)
        PROVE  Service!RelayNext
    <2> DEFINE g == Service!Text(s, t, nextSeq[s])
               n == Len(mailbox) + 1
    <2>1. /\ mailbox' = Append(mailbox, SendMessage(g))
          /\ nextSeq' = [nextSeq EXCEPT ![s] = @ + 1]
          /\ UNCHANGED <<inbox, wire>>
      BY <1>4 DEF HandleText
    <2>2. g \in Service!Texts
      BY FrameTypes DEF TypeOK
    <2> HIDE DEF g
    <2>3. /\ Sends' = Sends \cup {n}
          /\ \A i \in Sends : mailbox'[i] = mailbox[i]
          /\ mailbox'[n].msg = g
      BY <2>1, <2>2, SendsPosted
    <2> HIDE DEF n
    <2>4. \A f : f \in inflight' <=> f \in inflight \/ f = g
      BY <2>1, <2>3, InFlight, InFlightNext
    <2>5. inflight' = inflight \cup {g}
      BY <2>4
    <2>6. Service!Post(s, t)
      BY <2>1, <2>5 DEF Service!Post, g
    <2>7. QED
      BY <2>6 DEF Service!RelayNext
  <1>5. ASSUME NEW s \in Sessions, HandleInvalid(s)
        PROVE  Service!RelayNext
    <2>1. inflight' = inflight
      BY <1>5 DEF HandleInvalid, inflight
    <2>2. Service!Reject(s)
      BY <1>5, <2>1 DEF HandleInvalid, Service!Reject
    <2>3. QED
      BY <2>2 DEF Service!RelayNext
  <1>6. ASSUME NEW s \in Sessions, HandleWsMessage(s)
        PROVE  Service!RelayNext
    <2> DEFINE g == Head(inbox[s])
    <2>1. UNCHANGED <<mailbox, nextSeq>> /\ Sends' = Sends
      BY <1>0, <1>6 DEF HandleWsMessage
    <2>2. inbox[s] \in Seq(Service!Texts) /\ inbox[s] # << >>
      BY <1>6 DEF HandleWsMessage, TypeOK
    <2>3. /\ \A u \in Sessions : u # s => inbox'[u] = inbox[u]
          /\ inbox'[s] = Tail(inbox[s])
          /\ wire' = [wire EXCEPT ![s] = Append(@, g)]
      BY <1>6 DEF HandleWsMessage, TypeOK
    <2>4. 1 \in DOMAIN inbox[s] /\ inbox[s][1] = g
      BY <2>2, TailFacts
    <2>5. g \in Service!Texts /\ g.to = s /\ g.seq \in Nat
      BY <2>2, <2>4, FramesTyped DEF Greeted
    <2>6. /\ \A i \in DOMAIN inbox'[s] :
               /\ i + 1 \in DOMAIN inbox[s] /\ 1 < i + 1
               /\ inbox'[s][i] = inbox[s][i + 1]
          /\ \A i \in DOMAIN inbox[s] :
               i # 1 => i - 1 \in DOMAIN inbox'[s] /\ inbox'[s][i - 1] = inbox[s][i]
      BY <2>2, <2>3, TailFacts
    <2> HIDE DEF g
    \* The text is in no other place of any queue.
    <2>7. \A i \in Sends : mailbox[i].msg # g
      BY <2>4, <2>5 DEF InboxMail, Service!Precedes
    <2>8. \A u \in Sessions : u # s => \A i \in DOMAIN inbox[u] : inbox[u][i] # g
      BY <2>5 DEF Greeted
    <2>9. \A i \in DOMAIN inbox'[s] : inbox'[s][i] # g
      BY <2>4, <2>5, <2>6 DEF InboxInbox, Service!Precedes
    <2>10. \A f : f \in inflight' => f \in inflight /\ f # g
      <3> SUFFICES ASSUME NEW f, f \in inflight'
                   PROVE  f \in inflight /\ f # g
        OBVIOUS
      <3>1. CASE \E i \in Sends : mailbox[i].msg = f
        BY <2>7, <3>1, InFlight
      <3>2. ASSUME NEW u \in Sessions, NEW i \in DOMAIN inbox'[u], inbox'[u][i] = f
            PROVE  f \in inflight /\ f # g
        <4>1. CASE u # s
          BY <2>3, <2>8, <3>2, <4>1, InFlight
        <4>2. CASE u = s
          <5>1. i + 1 \in DOMAIN inbox[s] /\ inbox[s][i + 1] = f /\ f # g
            BY <2>6, <2>9, <3>2, <4>2
          <5>2. QED
            BY <5>1, InFlight
        <4>3. QED
          BY <4>1, <4>2
      <3>3. QED
        BY <2>1, <3>1, <3>2, InFlightNext
    <2>11. \A f : f \in inflight /\ f # g => f \in inflight'
      <3> SUFFICES ASSUME NEW f, f \in inflight, f # g
                   PROVE  f \in inflight'
        OBVIOUS
      <3>1. CASE \E i \in Sends : mailbox[i].msg = f
        BY <2>1, <3>1, InFlightNext
      <3>2. ASSUME NEW u \in Sessions, NEW i \in DOMAIN inbox[u], inbox[u][i] = f
            PROVE  f \in inflight'
        <4>1. CASE u # s
          BY <2>3, <3>2, <4>1, InFlightNext
        <4>2. CASE u = s
          <5>1. i # 1
            BY <2>4, <3>2, <4>2
          <5>2. i - 1 \in DOMAIN inbox'[s] /\ inbox'[s][i - 1] = f
            BY <2>6, <3>2, <4>2, <5>1
          <5>3. QED
            BY <5>2, InFlightNext
        <4>3. QED
          BY <4>1, <4>2
      <3>3. QED
        BY <3>1, <3>2, InFlight
    <2>12. inflight' = inflight \ {g}
      BY <2>10, <2>11
    <2>13. g \in inflight
      BY <2>4, InFlight
    <2>14. \A i \in DOMAIN wire[s] : Service!Precedes(wire[s][i], g)
      BY <2>4 DEF WireInbox
    <2>15. wire[s] # << >>
      BY <1>6 DEF HandleWsMessage, Greeted
    <2>16. Service!Deliver(s, g)
      BY <2>1, <2>3, <2>5, <2>12, <2>13, <2>14, <2>15 DEF Service!Deliver
    <2>17. QED
      BY <2>13, <2>16 DEF Service!RelayNext
  <1>7. ASSUME NEW s \in Sessions, Stopping(s)
        PROVE  Service!RelayNext
    <2>1. UNCHANGED <<wire, nextSeq>>
      BY <1>7 DEF Stopping
    <2>2. Sends' = Sends /\ \A i \in Sends : mailbox'[i] = mailbox[i]
      <3>1. UnregisterSession(s) \in Mail /\ UnregisterSession(s).kind # "Send"
        BY MailTypes DEF UnregisterSession
      <3>2. QED
        BY <1>7, <3>1, SendsPostedOther DEF Stopping
    <2>3. /\ \A t \in Sessions : t # s => inbox'[t] = inbox[t]
          /\ DOMAIN inbox'[s] = {}
      BY <1>7 DEF Stopping, TypeOK
    <2>4. \A f : f \in inflight' => f \in inflight
      BY <2>2, <2>3, InFlight, InFlightNext
    <2>5. QED
      BY <2>1, <2>4, LossStep
  <1>8. CASE HandleRegister \/ HandleUnregister \/ HandleSendNotFound
    <2>1. /\ mailbox # << >> /\ mailbox' = Tail(mailbox)
          /\ UNCHANGED <<inbox, wire, nextSeq>>
      BY <1>8 DEF HandleRegister, HandleUnregister, HandleSendNotFound
    <2>2. \A i \in Sends' : i + 1 \in Sends /\ mailbox'[i] = mailbox[i + 1]
      BY <2>1, SendsHandled
    <2>3. \A f : f \in inflight' => f \in inflight
      BY <2>1, <2>2, InFlight, InFlightNext
    <2>4. QED
      BY <2>1, <2>3, LossStep
  <1>9. CASE HandleSendFound
    <2> DEFINE g == Head(mailbox).msg
    <2>1. /\ mailbox # << >> /\ mailbox' = Tail(mailbox)
          /\ UNCHANGED <<wire, nextSeq>>
          /\ Head(mailbox).kind = "Send"
          /\ g \in Service!Texts /\ g.to \in Sessions
      BY <1>9, HeadOfMailbox DEF HandleSendFound, TypeOK
    <2>2. /\ \A i \in Sends' : i + 1 \in Sends /\ mailbox'[i] = mailbox[i + 1]
          /\ 1 \in Sends /\ mailbox[1].msg = g
      BY <2>1, SendsHandled
    <2>3. \/ UNCHANGED inbox
          \/ inbox' = [inbox EXCEPT ![g.to] = Append(@, g)]
      BY <1>9 DEF HandleSendFound
    <2> HIDE DEF g
    <2>4. ASSUME NEW u \in Sessions, NEW i \in DOMAIN inbox'[u]
          PROVE  inbox'[u][i] = g \/ (i \in DOMAIN inbox[u] /\ inbox'[u][i] = inbox[u][i])
      <3>1. inbox[u] \in Seq(Service!Texts)
        BY DEF TypeOK
      <3>2. inbox'[u] = inbox[u] \/ inbox'[u] = Append(inbox[u], g)
        BY <2>1, <2>3 DEF TypeOK
      <3>3. QED
        BY <2>1, <2>4, <3>1, <3>2, AppendFacts
    <2>5. \A f : f \in inflight' => f \in inflight
      BY <2>2, <2>4, InFlight, InFlightNext
    <2>6. QED
      BY <2>1, <2>5, LossStep
  <1>10. CASE Restart
    <2>1. /\ UNCHANGED <<wire, nextSeq>>
          /\ \A t \in Sessions : DOMAIN inbox'[t] = {}
          /\ Sends' = {}
      BY <1>10 DEF Restart, Sends
    <2>2. \A f : f \notin inflight'
      BY <2>1, InFlightNext
    <2>3. QED
      BY <2>1, <2>2, LossStep
  <1>11. CASE UNCHANGED vars
    BY <1>11 DEF vars, Service!relayVars, inflight
  <1>12. QED
    BY <1>1, <1>2, <1>3, <1>4, <1>5, <1>6, <1>7, <1>8, <1>9, <1>10, <1>11
       DEF Next, SessionStep, ServerStep

\* Whatever the sessions, the server and crashes interleave, main.rs behaves
\* towards its clients as the greeted, lossy, order-preserving relay.
THEOREM ServerImplementsRelay == Spec => ImplementsRelay
  <1>1. Spec => Service!RelaySpec
    BY RelayInitMapped, RelayStepMapped, OrderInvariance, PTL
       DEF Spec, Service!RelaySpec
  <1>2. QED
    BY <1>1 DEF ImplementsRelay
=============================================================================
