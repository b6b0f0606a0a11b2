------------------------------ MODULE VideoChat ------------------------------
(***************************************************************************)
(* Tabs running page.tsx and the signaling server between them.  The       *)
(* server is taken as the relay that SignalingServer is shown to           *)
(* implement: greeted, in order for each sender, lossy when the addressee  *)
(* is not connected.  Strangers are peers of another implementation, such  *)
(* as one built on hooks/useSignaling.ts, which does send candidates.      *)
(***************************************************************************)
EXTENDS HomePage

CONSTANTS
    Callers,      \* tabs whose user types ids and clicks the button
    Inputs,       \* what they type
    MaxStranger,  \* bound: messages of strangers
    MaxRestarts,  \* bound: restarts of the signaling server
    MayLeave      \* tabs that may be closed

ASSUME ChatConstants ==
    /\ Callers \subseteq Clients /\ MayLeave \subseteq Clients
    /\ Inputs \subseteq Ids \cup {EmptyId}
    /\ MaxStranger \in Nat /\ MaxRestarts \in Nat
    /\ None \notin Descriptions
    /\ None \notin [offer : Descriptions, answer : Descriptions]

VARIABLES
    invited,   \* <<x, c>>: stranger x has sent tab c a description
    foreign,   \* messages sent by strangers
    restarts   \* restarts so far

vars == <<pageVars, invited, foreign, restarts>>

Init ==
    /\ PageInit
    /\ invited = {}
    /\ foreign = 0
    /\ restarts = 0

\* The server accepts the socket and greets the tab.
Connect(c) ==
    /\ link[c] = "connecting"
    /\ link' = [link EXCEPT ![c] = "open"]
    /\ down' = [down EXCEPT ![c] = Append(@, Welcome(c))]
    /\ UNCHANGED <<reactVars, rtcVars, userVars, up>>
    /\ UNCHANGED <<invited, foreign, restarts>>

\* The server takes the oldest message of a tab: to its addressee, or lost.
Route(c) ==
    /\ up[c] # << >>
    /\ LET m == Head(up[c])
       IN  down' = IF m.to \in Clients /\ link[m.to] = "open"
                     THEN [down EXCEPT ![m.to] = Append(@, m)]
                     ELSE down
    /\ up' = [up EXCEPT ![c] = Tail(@)]
    /\ UNCHANGED <<reactVars, rtcVars, userVars, link>>
    /\ UNCHANGED <<invited, foreign, restarts>>

\* A stranger that was told the id shown by the tab calls it ...
StrangerOffer(x, c) ==
    /\ foreign < MaxStranger
    /\ link[c] = "open" /\ rendered[c].clientId # None
    /\ foreign' = foreign + 1
    /\ invited' = invited \cup {<<x, c>>}
    /\ down' = [down EXCEPT ![c] = Append(@, Sdp(x, c, Offer(x, foreign + 1)))]
    /\ UNCHANGED <<reactVars, rtcVars, userVars, link, up, restarts>>

\* ... or is called by the tab, and answers.
StrangerAnswer(x, c) ==
    /\ foreign < MaxStranger
    /\ link[c] = "open" /\ up[c] # << >>
    /\ Head(up[c]).kind = "offer" /\ Head(up[c]).to = x
    /\ foreign' = foreign + 1
    /\ invited' = invited \cup {<<x, c>>}
    /\ up' = [up EXCEPT ![c] = Tail(@)]
    /\ down' = [down EXCEPT ![c] = Append(@, Sdp(x, c, Answer(x, foreign + 1)))]
    /\ UNCHANGED <<reactVars, rtcVars, userVars, link, restarts>>

\* In both cases it sends the candidates it gathers, right behind.
StrangerCandidate(x, c) ==
    /\ foreign < MaxStranger
    /\ link[c] = "open" /\ <<x, c>> \in invited
    /\ foreign' = foreign + 1
    /\ down' = [down EXCEPT ![c] = Append(@, Candidate(x, c))]
    /\ UNCHANGED <<reactVars, rtcVars, userVars, link, up>>
    /\ UNCHANGED <<invited, restarts>>

\* The cleanup of the mount effect, or simply a closed tab.
Leave(c) ==
    /\ link[c] # "left"
    /\ link' = [link EXCEPT ![c] = "left"]
    /\ UNCHANGED <<reactVars, rtcVars, userVars, up, down>>
    /\ UNCHANGED <<invited, foreign, restarts>>

\* The socket of one tab breaks; what the tab had sent and the server had
\* not read is lost.
ConnectionLost(c) ==
    /\ link[c] = "open"
    /\ link' = [link EXCEPT ![c] = "lost"]
    /\ up' = [up EXCEPT ![c] = << >>]
    /\ UNCHANGED <<reactVars, rtcVars, userVars, down>>
    /\ UNCHANGED <<invited, foreign, restarts>>

\* Every socket closes and what the server had not passed on is lost.  The
\* page logs the close event; it does not connect again.
ServerRestart ==
    /\ restarts < MaxRestarts
    /\ restarts' = restarts + 1
    /\ link' = [c \in Clients |-> IF link[c] = "open" THEN "lost" ELSE link[c]]
    /\ up' = [c \in Clients |-> << >>]
    /\ UNCHANGED <<reactVars, rtcVars, userVars, down>>
    /\ UNCHANGED <<invited, foreign>>

PageStep(c) ==
    /\ \/ ReactStep(c)
       \/ MessageStep(c)
       \/ CallStep(c)
       \/ MediaGranted(c)
       \/ MediaDenied(c)
       \/ OnIceCandidate(c)
       \/ c \in Callers /\ createOffer(c)
       \/ c \in Callers /\ \E v \in Inputs : OnChange(c, v)
    /\ UNCHANGED <<invited, foreign, restarts>>

NetworkStep ==
    \/ \E c \in Clients : Connect(c) \/ Route(c) \/ ConnectionLost(c)
    \/ \E c \in MayLeave : Leave(c)
    \/ \E x \in Strangers, c \in Clients :
         StrangerOffer(x, c) \/ StrangerAnswer(x, c) \/ StrangerCandidate(x, c)
    \/ ServerRestart

Next == (\E c \in Clients : PageStep(c)) \/ NetworkStep

Spec == Init /\ [][Next]_vars

\* The browser dispatches received messages, renders scheduled updates, runs
\* pending effects and settles pending calls; the server relays what it has
\* received (FairSpec of SignalingServer).  Nothing is assumed of the users,
\* the devices, new connections or crashes.
Fairness ==
    \A c \in Clients :
      /\ WF_vars(MessageStep(c) /\ UNCHANGED <<invited, foreign, restarts>>)
      /\ WF_vars(ReactStep(c) /\ UNCHANGED <<invited, foreign, restarts>>)
      /\ WF_vars(CallStep(c) /\ UNCHANGED <<invited, foreign, restarts>>)
      /\ WF_vars(Route(c))

FairSpec == Spec /\ Fairness

-----------------------------------------------------------------------------
(* Properties *)

\* The states and refs of page.tsx keep their types; in particular every
\* description that is sent or handled has a real addressee, never "".
TypeOK ==
    /\ PageTypeOK
    /\ invited \subseteq Strangers \X Clients
    /\ foreign \in Nat
    /\ restarts \in Nat

\* Once a tab has nothing left to render and no effect to run, the ref that
\* onicecandidate reads holds the id the field shows, whichever of the four
\* writers (the field, an offer, a candidate, the effect) came last.
PeerRefSettles ==
    \A c \in Clients :
      effects[c] = {} /\ latest[c].peerId = rendered[c].peerId
        => peerIdRef[c] = rendered[c].peerId

\* The flag is not leaked: when no call on the connection is pending, it is
\* up only while the tab waits for the answer to an offer it has set.  So no
\* negotiation that failed, was rolled back or was refused keeps the button
\* from working.  (An offer or an answer that is lost does: the tab waits.)
FlagNotLeaked ==
    \A c \in Clients :
      negotiating[c] /\ ops[c] = << >> => pc[c].sig = "have-local-offer"

\* Both ends of a call mean the same call, when one tab calls and never
\* itself: once the caller is back in stable it has the offer and the answer
\* of the tab that answered it.  (Tabs that call each other: StableMeansAgreed.)
CallAgreed ==
    \A c \in Callers :
      LET agreed == pc[c].current
      IN  pc[c].sig = "stable" /\ agreed # None
            => pc[agreed.answer.by].current = agreed

\* The catch blocks of createOffer and handleSDPMessage are for errors only:
\* when one user calls, and never the own tab, every call finds its
\* connection in the state it needs, whatever tab or message came between.
CallsSucceed ==
    \A c \in Clients : ops[c] # << >> => ~ MayFail(c)

\* A description that was received is handled, when one tab calls and never
\* itself: it is not thrown out of pendingSDP before the effect of a render
\* has seen it.  With several callers the second of two offers replaces the
\* first.
SDPNotDropped ==
    [][\A c \in Clients :
         LET m == latest[c].pendingSDP
         IN  m # None /\ latest'[c].pendingSDP # m => m = rendered[c].pendingSDP]_vars

\* When one tab calls, and never itself, its calls are handshakes: the
\* descriptions that createOffer, handleSDPMessage and the relay pass around
\* never end in a session that only one side knows, an offer accepted twice
\* or an answer taken for another offer.
Sessions ==
    INSTANCE Handshake WITH
      Tabs    <- Clients,
      Offers  <- [type : {"offer"}, by : Clients, n : Nat],
      Answers <- [type : {"answer"}, by : Clients, n : Nat],
      offered <- [c \in Callers |-> pc[c].localOffer],
      session <- [c \in Clients |-> pc[c].current]

ImplementsHandshake == Sessions!HandshakeSpec

\* Nothing is left to do in a tab.
Settled(c) ==
    /\ latest[c] = rendered[c] /\ effects[c] = {} /\ flush[c] = "idle"
    /\ ops[c] = << >> /\ down[c] = << >>

\* The two effects set the states they depend on (pendingSDP, peerId), and
\* a continuation may start another call: still, after the last message and
\* the last input every tab comes to rest.  There is no render loop and no
\* call is left pending.
TabsSettle ==
    \A c \in Clients : [](link[c] # "left") => <>[]Settled(c)

\* An offer on its way to a tab that stays leads to a call both ends agree
\* on: it passes the relay, pendingSDP, a render, an effect, three calls on
\* the callee's connection, and the answer takes the same way back.
OffersAnswered ==
    \A c \in Callers, t \in Clients, n \in 1..(2 * MaxClicks) :
      (\E i \in DOMAIN up[c] : up[c][i] = Sdp(c, t, Offer(c, n)))
        ~> \/ link[c] # "open" \/ link[t] # "open"
           \/ /\ pc[c].current = pc[t].current
              /\ pc[c].current # None /\ pc[c].current.offer = Offer(c, n)

-----------------------------------------------------------------------------
(* What comments of the code say and the code does not do *)

\* onicecandidate: "the generated candidate is sent to the peer"
\* (page.tsx:126), here whenever the tab has an id, a peer and a socket.
CandidatesSent ==
    [][\A c \in Clients :
         /\ gathered'[c] # gathered[c]
         /\ rendered[c].clientId # None /\ peerIdRef[c] # EmptyId
         /\ link[c] = "open"
         => up'[c] # up[c]]_vars

\* "Once stable, the negotiation is regarded as complete" (page.tsx:176):
\* two tabs at rest in stable, each with the other as its peer, hold the
\* same offer and answer.
StableMeansAgreed ==
    \A c, t \in Clients :
      LET between(s) == {s.offer.by, s.answer.by}
      IN  /\ Settled(c) /\ Settled(t) /\ up[c] = << >> /\ up[t] = << >>
          /\ pc[c].sig = "stable" /\ pc[t].sig = "stable"
          /\ pc[c].current # None /\ pc[t].current # None
          /\ between(pc[c].current) = {c, t} /\ between(pc[t].current) = {c, t}
          => pc[c].current = pc[t].current
=============================================================================
