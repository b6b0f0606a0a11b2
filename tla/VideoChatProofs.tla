--------------------------- MODULE VideoChatProofs ---------------------------
(***************************************************************************)
(* Proofs about VideoChat, for every set of tabs, every set of strangers   *)
(* and every bound: type correctness, the settling of peerIdRef and the    *)
(* negotiation flag.                                                       *)
(***************************************************************************)
EXTENDS VideoChat, TLAPS

-----------------------------------------------------------------------------
(* Type correctness *)

LEMMA InitialTypes == FirstRender \in PageStates /\ NewPeerConnection \in PeerConnections
  BY DEF FirstRender, PageStates, NewPeerConnection, PeerConnections, SignalingStates

LEMMA DescriptionTypes ==
  \A c \in Ids, n \in Nat : Offer(c, n) \in Descriptions /\ Answer(c, n) \in Descriptions
  BY DEF Offer, Answer, Descriptions

\* The operations of the connection keep its type.
LEMMA TrackTypes ==
  ASSUME NEW p \in PeerConnections
  PROVE  AddTrack(p) \in PeerConnections
  BY DEF AddTrack, PeerConnections

LEMMA CreatedTypes ==
  ASSUME NEW p \in PeerConnections, NEW c \in Ids
  PROVE  /\ CreatedOffer(p, c) \in PeerConnections
         /\ CreatedAnswer(p, c) \in PeerConnections
         /\ p.made + 1 \in Nat
  <1>1. p.made + 1 \in Nat
    BY DEF PeerConnections
  <1>2. Offer(c, p.made + 1) \in Descriptions /\ Answer(c, p.made + 1) \in Descriptions
    BY <1>1, DescriptionTypes
  <1>3. QED
    BY <1>1, <1>2 DEF CreatedOffer, CreatedAnswer, PeerConnections

LEMMA LocalOfferTypes ==
  ASSUME NEW p \in PeerConnections, NEW d \in Descriptions
  PROVE  SetLocalOffer(p, d) \in PeerConnections
  BY DEF SetLocalOffer, PeerConnections, SignalingStates

LEMMA RemoteOfferTypes ==
  ASSUME NEW p \in PeerConnections, NEW d \in Descriptions
  PROVE  SetRemoteOffer(p, d) \in PeerConnections
  BY DEF SetRemoteOffer, PeerConnections, SignalingStates

LEMMA AnswerTypes ==
  ASSUME NEW p \in PeerConnections, NEW d \in Descriptions
  PROVE  SetLocalAnswer(p, d) \in PeerConnections /\ SetRemoteAnswer(p, d) \in PeerConnections
  <1>1. p.remoteOffer \in Descriptions \cup {None} /\ p.localOffer \in Descriptions \cup {None}
    BY DEF PeerConnections
  <1>2. ASSUME NEW o \in Descriptions \cup {None}
        PROVE  Agreed(p, o, d) \in PeerConnections
    BY <1>2 DEF Agreed, PeerConnections, SignalingStates
  <1>3. QED
    BY <1>1, <1>2 DEF SetLocalAnswer, SetRemoteAnswer

LEMMA CandidateTypes ==
  ASSUME NEW p \in PeerConnections
  PROVE  AddCandidate(p) \in PeerConnections
  BY DEF AddCandidate, PeerConnections

\* Calls, by what they need.
LEMMA OpTypes ==
  ASSUME NEW cid \in Clients \cup {None}, NEW to \in Ids
  PROVE  /\ \A d \in Descriptions :
              Op("setLocal", d, to, cid) \in Ops /\ Op("setRemote", d, to, cid) \in Ops
         /\ Op("createOffer", None, to, cid) \in Ops
         /\ Op("createAnswer", None, to, cid) \in Ops
  BY DEF Op, Ops

LEMMA CandidateOp == Op("addIceCandidate", None, None, None) \in Ops
  BY DEF Op, Ops

LEMMA MessageTypes ==
  ASSUME NEW from \in Ids, NEW to \in Ids
  PROVE  /\ \A d \in Descriptions : Sdp(from, to, d) \in SdpMessages
         /\ Candidate(from, to) \in Messages
  BY DEF Sdp, Candidate, SdpMessages, Messages, Descriptions

\* The oldest call on the connection of a tab.
LEMMA CallTypes ==
  ASSUME PageTypeOK, NEW c \in Clients, ops[c] # << >>
  PROVE  /\ Call(c) \in Ops /\ Tail(ops[c]) \in Seq(Ops)
         /\ Call(c).op \in {"setLocal", "setRemote"} => Call(c).desc \in Descriptions
         /\ Call(c).op # "addIceCandidate"
              => Call(c).to \in Ids /\ Call(c).cid \in Clients \cup {None}
  <1>1. ops[c] \in Seq(Ops)
    BY DEF PageTypeOK
  <1>2. Call(c) \in Ops /\ Tail(ops[c]) \in Seq(Ops)
    BY <1>1 DEF Call
  <1>3. QED
    BY <1>2 DEF Ops

\* The message a tab reads next.
LEMMA ReceivedTypes ==
  ASSUME PageTypeOK, NEW c \in Clients, down[c] # << >>
  PROVE  /\ Head(down[c]) \in Messages /\ Tail(down[c]) \in Seq(Messages)
         /\ Head(down[c]).kind = "welcome" => Head(down[c]).id \in Clients
         /\ Head(down[c]).kind \in {"offer", "answer"} => Head(down[c]) \in SdpMessages
         /\ Head(down[c]).kind = "candidate" => Head(down[c]).from \in Ids
  <1>1. down[c] \in Seq(Messages)
    BY DEF PageTypeOK
  <1>2. Head(down[c]) \in Messages /\ Tail(down[c]) \in Seq(Messages)
    BY <1>1
  <1>3. QED
    BY <1>2 DEF Messages, SdpMessages

\* The fields of the React state a step reads.
LEMMA StateFields ==
  ASSUME PageTypeOK, NEW c \in Clients
  PROVE  /\ rendered[c].peerId \in Ids \cup {EmptyId}
         /\ rendered[c].clientId \in Clients \cup {None}
         /\ rendered[c].pendingSDP # None
              => /\ rendered[c].pendingSDP.from \in Ids
                 /\ rendered[c].pendingSDP.desc \in Descriptions
  <1>1. rendered[c] \in PageStates
    BY DEF PageTypeOK
  <1>2. QED
    BY <1>1 DEF PageStates, SdpMessages

\* The states a setState leaves.
LEMMA StateUpdates ==
  ASSUME NEW s \in PageStates
  PROVE  /\ \A id \in Clients : [s EXCEPT !.clientId = id] \in PageStates
         /\ \A v \in Ids \cup {EmptyId} : [s EXCEPT !.peerId = v] \in PageStates
         /\ \A m \in SdpMessages \cup {None} : [s EXCEPT !.pendingSDP = m] \in PageStates
         /\ [s EXCEPT !.ready = TRUE] \in PageStates
         /\ s.peerId \in Ids \cup {EmptyId}
  BY DEF PageStates

LEMMA PageInitTypes == PageInit => PageTypeOK
  BY InitialTypes DEF PageInit, PageTypeOK

LEMMA ReactTypes ==
  ASSUME PageTypeOK, NEW c \in Clients, ReactStep(c)
  PROVE  PageTypeOK'
  <1> USE DEF reactVars, rtcVars, socketVars, userVars
  <1>1. CASE Render(c)
    <2>1. ChangedEffects(rendered[c], latest[c]) \subseteq {"peerIdRef", "sdp"}
      BY DEF ChangedEffects
    <2>2. QED
      BY <1>1, <2>1 DEF Render, PageTypeOK
  <1>2. CASE RunEffects(c)
    <2>1. rendered[c].peerId \in Ids \cup {EmptyId}
      BY StateFields
    <2>2. QED
      BY <1>2, <2>1 DEF RunEffects, EffectsDone, PageTypeOK
  <1>3. CASE RunSDPEffect(c)
    <2> DEFINE m == rendered[c].pendingSDP
    <2>1. /\ m.from \in Ids /\ m.desc \in Descriptions
          /\ rendered[c].peerId \in Ids \cup {EmptyId}
          /\ rendered[c].clientId \in Clients \cup {None}
      BY <1>3, StateFields DEF RunSDPEffect, SDPToHandle
    <2> HIDE DEF m
    <2>2. latest' \in [Clients -> PageStates]
      <3> DEFINE s == [latest[c] EXCEPT !.pendingSDP = None]
      <3>1. s \in PageStates
        BY StateUpdates DEF PageTypeOK
      <3>2. PICK v \in Ids \cup {EmptyId} : latest' = [latest EXCEPT ![c] = [s EXCEPT !.peerId = v]]
        BY <1>3, <2>1, <3>1, StateUpdates DEF RunSDPEffect, PageTypeOK, m
      <3> HIDE DEF s
      <3>3. [s EXCEPT !.peerId = v] \in PageStates
        BY <3>1, StateUpdates
      <3>4. QED
        BY <3>2, <3>3 DEF PageTypeOK
    <2>3. peerIdRef' \in [Clients -> Ids \cup {EmptyId}]
      BY <1>3, <2>1 DEF RunSDPEffect, PageTypeOK, m
    <2>4. pc' \in [Clients -> PeerConnections]
      <3>1. pc[c] \in PeerConnections /\ AddTrack(pc[c]) \in PeerConnections
        BY TrackTypes DEF PageTypeOK
      <3>2. QED
        BY <1>3, <3>1 DEF RunSDPEffect, PageTypeOK
    <2>5. ops' \in [Clients -> Seq(Ops)]
      <3>1. Op("setRemote", m.desc, m.from, rendered[c].clientId) \in Ops
        BY <2>1, OpTypes
      <3>2. QED
        BY <1>3, <3>1 DEF RunSDPEffect, PageTypeOK, m
    <2>6. QED
      BY <1>3, <2>2, <2>3, <2>4, <2>5 DEF RunSDPEffect, EffectsDone, PageTypeOK
  <1>4. QED
    BY <1>1, <1>2, <1>3 DEF ReactStep

LEMMA MessageStepTypes ==
  ASSUME PageTypeOK, NEW c \in Clients, MessageStep(c)
  PROVE  PageTypeOK'
  <1> USE DEF reactVars, rtcVars, socketVars, userVars
  <1>1. CASE OnWelcome(c)
    <2>1. Head(down[c]).id \in Clients /\ Tail(down[c]) \in Seq(Messages)
      BY <1>1, ReceivedTypes DEF OnWelcome, Received
    <2>2. latest' \in [Clients -> PageStates]
      BY <1>1, <2>1, StateUpdates DEF OnWelcome, PageTypeOK
    <2>3. QED
      BY <1>1, <2>1, <2>2 DEF OnWelcome, Received, PageTypeOK
  <1>2. CASE OnSDP(c)
    <2>1. Head(down[c]) \in SdpMessages /\ Tail(down[c]) \in Seq(Messages)
      BY <1>2, ReceivedTypes DEF OnSDP, Received
    <2>2. latest' \in [Clients -> PageStates]
      BY <1>2, <2>1, StateUpdates DEF OnSDP, PageTypeOK
    <2>3. QED
      BY <1>2, <2>1, <2>2 DEF OnSDP, Received, PageTypeOK
  <1>3. CASE OnCandidate(c)
    <2>1. Head(down[c]).from \in Ids /\ Tail(down[c]) \in Seq(Messages)
      BY <1>3, ReceivedTypes DEF OnCandidate, Received
    <2>2. latest' \in [Clients -> PageStates]
      <3> DEFINE v == Head(down[c]).from
      <3>1. \/ latest' = latest
            \/ latest' = [latest EXCEPT ![c] = [latest[c] EXCEPT !.peerId = v]]
        BY <1>3 DEF OnCandidate
      <3>2. [latest[c] EXCEPT !.peerId = v] \in PageStates
        <4>1. v \in Ids \cup {EmptyId} /\ latest[c] \in PageStates
          BY <2>1 DEF PageTypeOK
        <4> HIDE DEF v
        <4>2. QED
          BY <4>1, StateUpdates
      <3> DEFINE s == [latest[c] EXCEPT !.peerId = v]
      <3> HIDE DEF s
      <3>3. latest' = latest \/ latest' = [latest EXCEPT ![c] = s]
        BY <3>1 DEF s
      <3>4. s \in PageStates
        BY <3>2 DEF s
      <3>5. QED
        BY <3>3, <3>4 DEF PageTypeOK
    <2>3. peerIdRef' \in [Clients -> Ids \cup {EmptyId}]
      BY <1>3, <2>1 DEF OnCandidate, PageTypeOK
    <2>4. ops' \in [Clients -> Seq(Ops)]
      BY <1>3, CandidateOp DEF OnCandidate, PageTypeOK
    <2>5. QED
      BY <1>3, <2>1, <2>2, <2>3, <2>4 DEF OnCandidate, Received, PageTypeOK
  <1>4. QED
    BY <1>1, <1>2, <1>3 DEF MessageStep

\* The last call of a chain only shortens it.
LEMMA LastCallTypes ==
  ASSUME PageTypeOK, NEW c \in Clients, ops[c] # << >>, LastCall(c)
  PROVE  ops' \in [Clients -> Seq(Ops)]
  BY CallTypes DEF LastCall, PageTypeOK

LEMMA NextCallTypes ==
  ASSUME PageTypeOK, NEW c \in Clients, ops[c] # << >>, NEW o \in Ops, NextCall(c, o)
  PROVE  ops' \in [Clients -> Seq(Ops)]
  <1>1. Append(Tail(ops[c]), o) \in Seq(Ops)
    BY CallTypes
  <1>2. QED
    BY <1>1 DEF NextCall, PageTypeOK

LEMMA SendTypes ==
  ASSUME PageTypeOK, NEW c \in Clients, ops[c] # << >>, Call(c).op = "setLocal",
         sendDescription(c)
  PROVE  up' \in [Clients -> Seq(Messages)]
  <1>1. /\ Call(c).to \in Ids /\ Call(c).cid \in Clients \cup {None}
        /\ Call(c).desc \in Descriptions
    BY CallTypes
  <1>2. Call(c).cid # None => Sdp(Call(c).cid, Call(c).to, Call(c).desc) \in Messages
    BY <1>1, MessageTypes DEF Ids, Messages
  <1>3. QED
    BY <1>1, <1>2 DEF sendDescription, sendMessage, PageTypeOK

LEMMA CallStepTypes ==
  ASSUME PageTypeOK, NEW c \in Clients, CallStep(c)
  PROVE  PageTypeOK'
  <1> USE DEF reactVars, rtcVars, socketVars, userVars
  <1>0. ops[c] # << >> /\ pc[c] \in PeerConnections /\ c \in Ids
    BY DEF CallStep, OfferCreated, OfferSet, RemoteOfferSet, RemoteAnswerSet,
       AnswerCreated, AnswerSet, CandidateAdded, CallRejected, Resolved,
       PageTypeOK, Ids
  <1>1. CASE OfferCreated(c)
    <2>1. CreatedOffer(pc[c], c) \in PeerConnections
      BY <1>0, CreatedTypes
    <2>2. Op("setLocal", Offer(c, pc[c].made + 1), Call(c).to, Call(c).cid) \in Ops
      BY <1>0, <1>1, CreatedTypes, DescriptionTypes, CallTypes, OpTypes
         DEF OfferCreated, Resolved
    <2>3. ops' \in [Clients -> Seq(Ops)]
      BY <1>0, <1>1, <2>2, NextCallTypes DEF OfferCreated
    <2>4. QED
      BY <1>1, <2>1, <2>3 DEF OfferCreated, PageTypeOK
  <1>2. CASE OfferSet(c)
    <2>1. SetLocalOffer(pc[c], Call(c).desc) \in PeerConnections
      BY <1>0, <1>2, LocalOfferTypes, CallTypes DEF OfferSet, Resolved
    <2>2. ops' \in [Clients -> Seq(Ops)]
      BY <1>0, <1>2, LastCallTypes DEF OfferSet
    <2>3. up' \in [Clients -> Seq(Messages)]
      BY <1>0, <1>2, SendTypes DEF OfferSet, Resolved
    <2>4. QED
      BY <1>2, <2>1, <2>2, <2>3 DEF OfferSet, PageTypeOK
  <1>3. CASE RemoteOfferSet(c)
    <2>1. SetRemoteOffer(pc[c], Call(c).desc) \in PeerConnections
      BY <1>0, <1>3, RemoteOfferTypes, CallTypes DEF RemoteOfferSet, Resolved
    <2>2. Op("createAnswer", None, Call(c).to, Call(c).cid) \in Ops
      BY <1>0, <1>3, CallTypes, OpTypes DEF RemoteOfferSet, Resolved
    <2>3. ops' \in [Clients -> Seq(Ops)]
      BY <1>0, <1>3, <2>2, NextCallTypes DEF RemoteOfferSet
    <2>4. QED
      BY <1>3, <2>1, <2>3 DEF RemoteOfferSet, PageTypeOK
  <1>4. CASE RemoteAnswerSet(c)
    <2>1. SetRemoteAnswer(pc[c], Call(c).desc) \in PeerConnections
      BY <1>0, <1>4, AnswerTypes, CallTypes DEF RemoteAnswerSet, Resolved
    <2>2. ops' \in [Clients -> Seq(Ops)]
      BY <1>0, <1>4, LastCallTypes DEF RemoteAnswerSet
    <2>3. QED
      BY <1>4, <2>1, <2>2 DEF RemoteAnswerSet, onStable, PageTypeOK
  <1>5. CASE AnswerCreated(c)
    <2>1. CreatedAnswer(pc[c], c) \in PeerConnections
      BY <1>0, CreatedTypes
    <2>2. Op("setLocal", Answer(c, pc[c].made + 1), Call(c).to, Call(c).cid) \in Ops
      BY <1>0, <1>5, CreatedTypes, DescriptionTypes, CallTypes, OpTypes
         DEF AnswerCreated, Resolved
    <2>3. ops' \in [Clients -> Seq(Ops)]
      BY <1>0, <1>5, <2>2, NextCallTypes DEF AnswerCreated
    <2>4. QED
      BY <1>5, <2>1, <2>3 DEF AnswerCreated, PageTypeOK
  <1>6. CASE AnswerSet(c)
    <2>1. SetLocalAnswer(pc[c], Call(c).desc) \in PeerConnections
      BY <1>0, <1>6, AnswerTypes, CallTypes DEF AnswerSet, Resolved
    <2>2. ops' \in [Clients -> Seq(Ops)]
      BY <1>0, <1>6, LastCallTypes DEF AnswerSet
    <2>3. up' \in [Clients -> Seq(Messages)]
      BY <1>0, <1>6, SendTypes DEF AnswerSet, Resolved
    <2>4. QED
      BY <1>6, <2>1, <2>2, <2>3 DEF AnswerSet, onStable, PageTypeOK
  <1>7. CASE CandidateAdded(c)
    <2>1. AddCandidate(pc[c]) \in PeerConnections
      BY <1>0, CandidateTypes
    <2>2. ops' \in [Clients -> Seq(Ops)]
      BY <1>0, <1>7, LastCallTypes DEF CandidateAdded
    <2>3. QED
      BY <1>7, <2>1, <2>2 DEF CandidateAdded, PageTypeOK
  <1>8. CASE CallRejected(c)
    <2>1. ops' \in [Clients -> Seq(Ops)]
      BY <1>0, <1>8, LastCallTypes DEF CallRejected
    <2>2. QED
      BY <1>8, <2>1 DEF CallRejected, PageTypeOK
  <1>9. QED
    BY <1>1, <1>2, <1>3, <1>4, <1>5, <1>6, <1>7, <1>8 DEF CallStep

LEMMA UserTypes ==
  ASSUME PageTypeOK, NEW c \in Clients,
         \/ MediaGranted(c) \/ MediaDenied(c) \/ OnIceCandidate(c)
         \/ createOffer(c) \/ \E v \in Inputs : OnChange(c, v)
  PROVE  PageTypeOK'
  <1> USE DEF reactVars, rtcVars, socketVars, userVars
  <1>1. CASE MediaGranted(c)
    <2>1. latest' \in [Clients -> PageStates]
      BY <1>1, StateUpdates DEF MediaGranted, PageTypeOK
    <2>2. QED
      BY <1>1, <2>1 DEF MediaGranted, PageTypeOK
  <1>2. CASE MediaDenied(c)
    BY <1>2 DEF MediaDenied, PageTypeOK
  <1>3. CASE OnIceCandidate(c)
    <2>1. UNCHANGED up
      BY <1>3 DEF OnIceCandidate, sendMessage, mountClosure, FirstRender
    <2>2. QED
      BY <1>3, <2>1 DEF OnIceCandidate, PageTypeOK
  <1>4. CASE createOffer(c)
    <2>1. pc' \in [Clients -> PeerConnections]
      <3>1. pc[c] \in PeerConnections /\ AddTrack(pc[c]) \in PeerConnections
        BY TrackTypes DEF PageTypeOK
      <3>2. QED
        BY <1>4, <3>1 DEF createOffer, PageTypeOK
    <2>2. ops' \in [Clients -> Seq(Ops)]
      <3>1. rendered[c].peerId \in Ids /\ rendered[c].clientId \in Clients \cup {None}
        BY <1>4, StateFields DEF createOffer, MayOffer
      <3>2. Op("createOffer", None, rendered[c].peerId, rendered[c].clientId) \in Ops
        BY <3>1, OpTypes
      <3>3. QED
        BY <1>4, <3>2 DEF createOffer, PageTypeOK
    <2>3. QED
      BY <1>4, <2>1, <2>2 DEF createOffer, PageTypeOK
  <1>5. ASSUME NEW v \in Inputs, OnChange(c, v)
        PROVE  PageTypeOK'
    <2>1. v \in Ids \cup {EmptyId} /\ latest[c] \in PageStates
      BY ChatConstants DEF PageTypeOK
    <2>2. latest' \in [Clients -> PageStates]
      BY <1>5, <2>1, StateUpdates DEF OnChange, PageTypeOK
    <2>3. QED
      BY <1>5, <2>2 DEF OnChange, PageTypeOK
  <1>6. QED
    BY <1>1, <1>2, <1>3, <1>4, <1>5

\* A message put on the socket of a tab.
LEMMA Delivered ==
  ASSUME PageTypeOK, NEW c \in Clients, NEW m \in Messages,
         down' = [down EXCEPT ![c] = Append(@, m)]
  PROVE  down' \in [Clients -> Seq(Messages)]
  BY DEF PageTypeOK

LEMMA NetworkTypes ==
  ASSUME TypeOK, NetworkStep
  PROVE  TypeOK'
  <1> USE DEF reactVars, rtcVars, socketVars, userVars, TypeOK
  <1>1. ASSUME NEW c \in Clients, Connect(c)
        PROVE  TypeOK'
    <2>1. Welcome(c) \in Messages
      BY DEF Welcome, Messages
    <2>2. QED
      BY <1>1, <2>1 DEF Connect, PageTypeOK
  <1>2. ASSUME NEW c \in Clients, Route(c)
        PROVE  TypeOK'
    <2>1. up[c] \in Seq(Messages) /\ up[c] # << >>
      BY <1>2 DEF Route, PageTypeOK
    <2>2. Head(up[c]) \in Messages /\ Tail(up[c]) \in Seq(Messages)
      BY <2>1
    <2>3. down' \in [Clients -> Seq(Messages)]
      <3> DEFINE m == Head(up[c])
      <3>1. \/ down' = down
            \/ m.to \in Clients /\ down' = [down EXCEPT ![m.to] = Append(@, m)]
        BY <1>2 DEF Route
      <3> HIDE DEF m
      <3>2. m \in Messages
        BY <2>2 DEF m
      <3>3. QED
        BY <3>1, <3>2, Delivered DEF PageTypeOK
    <2>4. QED
      BY <1>2, <2>2, <2>3 DEF Route, PageTypeOK
  <1>3. ASSUME NEW c \in MayLeave, Leave(c)
        PROVE  TypeOK'
    BY <1>3, ChatConstants DEF Leave, PageTypeOK
  <1>4. ASSUME NEW x \in Strangers, NEW c \in Clients, StrangerOffer(x, c)
        PROVE  TypeOK'
    <2>1. Sdp(x, c, Offer(x, foreign + 1)) \in Messages
      <3>1. x \in Ids /\ c \in Ids /\ foreign + 1 \in Nat
        BY DEF Ids
      <3>2. Offer(x, foreign + 1) \in Descriptions
        BY <3>1, DescriptionTypes
      <3>3. QED
        BY <3>1, <3>2, MessageTypes DEF Messages
    <2>2. down' \in [Clients -> Seq(Messages)]
      BY <1>4, <2>1, Delivered DEF StrangerOffer
    <2>3. PageTypeOK'
      BY <1>4, <2>2 DEF StrangerOffer, PageTypeOK
    <2>4. <<x, c>> \in Strangers \X Clients
      OBVIOUS
    <2>5. QED
      BY <1>4, <2>3, <2>4 DEF StrangerOffer
  <1>5. ASSUME NEW x \in Strangers, NEW c \in Clients, StrangerCandidate(x, c)
        PROVE  TypeOK'
    <2>1. Candidate(x, c) \in Messages
      BY MessageTypes DEF Ids
    <2>2. down' \in [Clients -> Seq(Messages)]
      BY <1>5, <2>1, Delivered DEF StrangerCandidate
    <2>3. PageTypeOK'
      BY <1>5, <2>2 DEF StrangerCandidate, PageTypeOK
    <2>4. QED
      BY <1>5, <2>3 DEF StrangerCandidate
  <1>6. ASSUME NEW x \in Strangers, NEW c \in Clients, StrangerAnswer(x, c)
        PROVE  TypeOK'
    <2>1. Sdp(x, c, Answer(x, foreign + 1)) \in Messages
      <3>1. x \in Ids /\ c \in Ids /\ foreign + 1 \in Nat
        BY DEF Ids
      <3>2. Answer(x, foreign + 1) \in Descriptions
        BY <3>1, DescriptionTypes
      <3>3. QED
        BY <3>1, <3>2, MessageTypes DEF Messages
    <2>2. down' \in [Clients -> Seq(Messages)]
      BY <1>6, <2>1, Delivered DEF StrangerAnswer
    <2>3. up' \in [Clients -> Seq(Messages)]
      <3>1. up[c] \in Seq(Messages) /\ up[c] # << >>
        BY <1>6 DEF StrangerAnswer, PageTypeOK
      <3>2. Tail(up[c]) \in Seq(Messages)
        BY <3>1
      <3>3. QED
        BY <1>6, <3>2 DEF StrangerAnswer, PageTypeOK
    <2>4. PageTypeOK'
      BY <1>6, <2>2, <2>3 DEF StrangerAnswer, PageTypeOK
    <2>5. <<x, c>> \in Strangers \X Clients
      OBVIOUS
    <2>6. QED
      BY <1>6, <2>4, <2>5 DEF StrangerAnswer
  <1>7. ASSUME NEW c \in Clients, ConnectionLost(c)
        PROVE  TypeOK'
    BY <1>7 DEF ConnectionLost, PageTypeOK
  <1>8. CASE ServerRestart
    BY <1>8 DEF ServerRestart, PageTypeOK
  <1>9. QED
    BY <1>1, <1>2, <1>3, <1>4, <1>5, <1>6, <1>7, <1>8 DEF NetworkStep

LEMMA TypeStep == TypeOK /\ [Next]_vars => TypeOK'
  <1> SUFFICES ASSUME TypeOK, [Next]_vars
               PROVE  TypeOK'
    OBVIOUS
  <1>1. ASSUME NEW c \in Clients, PageStep(c)
        PROVE  TypeOK'
    <2>1. PageTypeOK'
      BY <1>1, ReactTypes, MessageStepTypes, CallStepTypes, UserTypes
         DEF PageStep, TypeOK
    <2>2. QED
      BY <1>1, <2>1 DEF PageStep, TypeOK
  <1>2. CASE NetworkStep
    BY <1>2, NetworkTypes
  <1>3. CASE UNCHANGED vars
    BY <1>3 DEF vars, pageVars, reactVars, rtcVars, socketVars, userVars,
       TypeOK, PageTypeOK
  <1>4. QED
    BY <1>1, <1>2, <1>3 DEF Next

LEMMA TypeInit == Init => TypeOK
  BY PageInitTypes DEF Init, TypeOK

\* Every state of the tabs and of the messages between them is well typed:
\* no call carries an id or a description its method does not take, and no
\* message leaves a tab (page.tsx, sendMessage) without a sender.
THEOREM ChatTypeCorrect == Spec => []TypeOK
  BY TypeInit, TypeStep, PTL DEF Spec

-----------------------------------------------------------------------------
(* peerIdRef *)

\* The ref holds the latest id, or a render or an effect is still to come
\* that will bring it there.
PeerRefInv ==
    \A c \in Clients :
      \/ peerIdRef[c] = latest[c].peerId
      \/ latest[c].peerId # rendered[c].peerId
      \/ "peerIdRef" \in effects[c]

LEMMA PeerRefStep == TypeOK /\ PeerRefInv /\ [Next]_vars => PeerRefInv'
  <1> SUFFICES ASSUME TypeOK, PeerRefInv, [Next]_vars
               PROVE  PeerRefInv'
    OBVIOUS
  <1>t. PageTypeOK
    BY DEF TypeOK
  <1> USE DEF reactVars, rtcVars, socketVars, userVars
  <1>1. ASSUME NEW c \in Clients, Render(c)
        PROVE  PeerRefInv'
    BY <1>t, <1>1 DEF Render, ChangedEffects, PeerIdDeps, PeerRefInv, PageTypeOK
  <1>2. ASSUME NEW c \in Clients, RunEffects(c)
        PROVE  PeerRefInv'
    BY <1>t, <1>2 DEF RunEffects, EffectsDone, PeerRefInv, PageTypeOK
  <1>3. ASSUME NEW c \in Clients, RunSDPEffect(c)
        PROVE  PeerRefInv'
    <2> DEFINE v == rendered[c].pendingSDP.from
    <2>1. latest[c] \in PageStates
      BY <1>t DEF PageTypeOK
    <2>2. CASE AdoptsSender(c)
      <3>1. latest' = [latest EXCEPT ![c] =
                         [[latest[c] EXCEPT !.pendingSDP = None] EXCEPT !.peerId = v]]
        BY <1>t, <1>3, <2>2 DEF RunSDPEffect, PageTypeOK
      <3>2. latest'[c].peerId = v
        BY <1>t, <2>1, <3>1 DEF PageTypeOK, PageStates
      <3>3. peerIdRef'[c] = v /\ \A u \in Clients \ {c} : peerIdRef'[u] = peerIdRef[u]
        BY <1>t, <1>3, <2>2 DEF RunSDPEffect, PageTypeOK
      <3>4. \A u \in Clients \ {c} : latest'[u] = latest[u] /\ effects'[u] = effects[u]
        BY <1>t, <1>3, <3>1 DEF RunSDPEffect, EffectsDone, PageTypeOK
      <3>5. QED
        BY <1>3, <3>2, <3>3, <3>4 DEF RunSDPEffect, PeerRefInv
    <2>3. CASE ~ AdoptsSender(c)
      <3>1. \A u \in Clients : latest'[u].peerId = latest[u].peerId
        <4>1. latest' = [latest EXCEPT ![c] =
                 [[latest[c] EXCEPT !.pendingSDP = None] EXCEPT !.peerId = latest[c].peerId]]
          BY <1>t, <1>3, <2>1, <2>3 DEF RunSDPEffect, PageTypeOK, PageStates
        <4>2. QED
          BY <1>t, <2>1, <4>1 DEF PageTypeOK, PageStates
      <3>2. /\ peerIdRef'[c] = IF "peerIdRef" \in effects[c] THEN rendered[c].peerId
                                                            ELSE peerIdRef[c]
            /\ \A u \in Clients \ {c} : /\ peerIdRef'[u] = peerIdRef[u]
                                         /\ effects'[u] = effects[u]
        BY <1>t, <1>3, <2>3 DEF RunSDPEffect, EffectsDone, PageTypeOK
      <3>3. QED
        BY <1>3, <3>1, <3>2 DEF RunSDPEffect, PeerRefInv
    <2>4. QED
      BY <2>2, <2>3
  <1>4. ASSUME NEW c \in Clients, OnWelcome(c) \/ OnSDP(c) \/ MediaGranted(c)
        PROVE  PeerRefInv'
    <2>1. UNCHANGED <<rendered, effects, peerIdRef>>
      BY <1>4 DEF OnWelcome, OnSDP, MediaGranted
    <2>2. \A u \in Clients : latest'[u].peerId = latest[u].peerId
      <3>1. latest[c] \in PageStates
        BY <1>t DEF PageTypeOK
      <3>2. CASE OnWelcome(c)
        BY <1>t, <3>1, <3>2 DEF OnWelcome, PageTypeOK, PageStates
      <3>3. CASE OnSDP(c)
        BY <1>t, <3>1, <3>3 DEF OnSDP, PageTypeOK, PageStates
      <3>4. CASE MediaGranted(c)
        BY <1>t, <3>1, <3>4 DEF MediaGranted, PageTypeOK, PageStates
      <3>5. QED
        BY <1>4, <3>2, <3>3, <3>4
    <2>3. QED
      BY <2>1, <2>2 DEF PeerRefInv
  <1>5. ASSUME NEW c \in Clients, OnCandidate(c)
        PROVE  PeerRefInv'
    <2> DEFINE v == Head(down[c]).from
    <2>1. /\ latest' = [latest EXCEPT ![c] = [latest[c] EXCEPT !.peerId = v]]
          /\ peerIdRef' = [peerIdRef EXCEPT ![c] = v]
          /\ UNCHANGED <<rendered, effects>>
      BY <1>5 DEF OnCandidate, mountClosure, FirstRender
    <2> HIDE DEF v
    <2>2. /\ latest'[c].peerId = v /\ peerIdRef'[c] = v
          /\ \A u \in Clients \ {c} : /\ latest'[u] = latest[u]
                                       /\ peerIdRef'[u] = peerIdRef[u]
      BY <1>t, <2>1 DEF PageTypeOK, PageStates
    <2>3. QED
      BY <2>1, <2>2 DEF PeerRefInv
  <1>6. ASSUME NEW c \in Clients, NEW v \in Inputs, OnChange(c, v)
        PROVE  PeerRefInv'
    <2>1. /\ latest'[c].peerId = v /\ v # rendered[c].peerId
          /\ \A u \in Clients \ {c} : latest'[u] = latest[u]
      BY <1>t, <1>6 DEF OnChange, PageTypeOK, PageStates
    <2>2. QED
      BY <1>6, <2>1 DEF OnChange, PeerRefInv
  <1>7. CASE UNCHANGED reactVars
    BY <1>7 DEF PeerRefInv
  <1>8. ASSUME NEW c \in Clients, CallStep(c)
        PROVE  UNCHANGED reactVars
    BY <1>8 DEF CallStep, OfferCreated, OfferSet, RemoteOfferSet, RemoteAnswerSet,
       AnswerCreated, AnswerSet, CandidateAdded, CallRejected
  <1>9. ASSUME NEW c \in Clients, MediaDenied(c) \/ OnIceCandidate(c) \/ createOffer(c)
        PROVE  UNCHANGED reactVars
    BY <1>9 DEF MediaDenied, OnIceCandidate, createOffer
  <1>10. CASE NetworkStep
    <2>1. UNCHANGED reactVars
      BY <1>10 DEF NetworkStep, Connect, Route, Leave, StrangerOffer,
         StrangerAnswer, StrangerCandidate, ConnectionLost, ServerRestart
    <2>2. QED
      BY <1>7, <2>1
  <1>11. CASE UNCHANGED vars
    BY <1>7, <1>11 DEF vars, pageVars
  <1>12. QED
    BY <1>1, <1>2, <1>3, <1>4, <1>5, <1>6, <1>7, <1>8, <1>9, <1>10, <1>11
       DEF Next, PageStep, ReactStep, MessageStep

\* The ref that onicecandidate reads agrees with the field of the page in
\* every tab that has nothing left to render and no effect to run.
THEOREM PeerRefSettled == Spec => []PeerRefSettles
  <1>1. Init => PeerRefInv
    BY DEF Init, PageInit, FirstRender, PeerRefInv
  <1>2. PeerRefInv => PeerRefSettles
    BY DEF PeerRefInv, PeerRefSettles
  <1>3. QED
    BY <1>1, <1>2, PeerRefStep, ChatTypeCorrect, PTL DEF Spec

-----------------------------------------------------------------------------
(* The negotiation flag *)

\* A call whose continuation, or whose catch block, will either clear the
\* flag or leave an offer to be answered.
Watched(c) ==
    \E i \in DOMAIN ops[c] : ops[c][i].op \in {"createOffer", "createAnswer", "setLocal"}

FlagInv ==
    \A c \in Clients :
      negotiating[c] /\ pc[c].sig # "have-local-offer" => Watched(c)

\* How the chain of a tab changes: a call is added at the end ...
LEMMA WatchedAdded ==
  ASSUME PageTypeOK, NEW c \in Clients, NEW o \in Ops,
         ops' = [ops EXCEPT ![c] = Append(@, o)]
  PROVE  /\ \A u \in Clients : Watched(u) => Watched(u)'
         /\ o.op \in {"createOffer", "createAnswer", "setLocal"} => Watched(c)'
  <1>1. ops[c] \in Seq(Ops) /\ ops'[c] = Append(ops[c], o)
    BY DEF PageTypeOK
  <1>2. /\ \A i \in DOMAIN ops[c] : i \in DOMAIN ops'[c] /\ ops'[c][i] = ops[c][i]
        /\ Len(ops[c]) + 1 \in DOMAIN ops'[c] /\ ops'[c][Len(ops[c]) + 1] = o
    BY <1>1
  <1>3. \A u \in Clients \ {c} : ops'[u] = ops[u]
    BY DEF PageTypeOK
  <1>4. QED
    BY <1>2, <1>3 DEF Watched

\* ... the oldest one is settled and its continuation makes another ...
LEMMA WatchedNext ==
  ASSUME PageTypeOK, NEW c \in Clients, ops[c] # << >>, NEW o \in Ops,
         o.op \in {"createOffer", "createAnswer", "setLocal"}, NextCall(c, o)
  PROVE  Watched(c)' /\ \A u \in Clients \ {c} : Watched(u) => Watched(u)'
  <1>1. Tail(ops[c]) \in Seq(Ops) /\ ops'[c] = Append(Tail(ops[c]), o)
    BY CallTypes DEF NextCall, PageTypeOK
  <1>2. \E i \in DOMAIN ops'[c] : ops'[c][i] = o
    BY <1>1
  <1>3. \A u \in Clients \ {c} : ops'[u] = ops[u]
    BY DEF NextCall, PageTypeOK
  <1>4. QED
    BY <1>2, <1>3 DEF Watched

\* ... or not.
LEMMA WatchedLast ==
  ASSUME PageTypeOK, NEW c \in Clients, ops[c] # << >>, LastCall(c)
  PROVE  /\ \A u \in Clients \ {c} : Watched(u) => Watched(u)'
         /\ Call(c).op = "addIceCandidate" /\ Watched(c) => Watched(c)'
  <1>1. ops[c] \in Seq(Ops) /\ ops'[c] = Tail(ops[c])
    BY DEF LastCall, PageTypeOK
  <1>2. /\ ops[c][1] = Call(c)
        /\ \A i \in DOMAIN ops[c] :
             i # 1 => i - 1 \in DOMAIN ops'[c] /\ ops'[c][i - 1] = ops[c][i]
    BY <1>1 DEF Call
  <1>3. \A u \in Clients \ {c} : ops'[u] = ops[u]
    BY DEF LastCall, PageTypeOK
  <1>4. Call(c).op = "addIceCandidate" /\ Watched(c) => Watched(c)'
    BY <1>2 DEF Watched
  <1>5. QED
    BY <1>3, <1>4 DEF Watched

LEMMA FlagStep == TypeOK /\ FlagInv /\ [Next]_vars => FlagInv'
  <1> SUFFICES ASSUME TypeOK, FlagInv, [Next]_vars
               PROVE  FlagInv'
    OBVIOUS
  <1>t. PageTypeOK
    BY DEF TypeOK
  <1> USE DEF reactVars, rtcVars, socketVars, userVars
  <1>1. ASSUME UNCHANGED rtcVars
        PROVE  FlagInv'
    BY <1>1 DEF FlagInv, Watched
  \* Calls added by the page's own tasks.
  <1>2. ASSUME NEW c \in Clients, RunSDPEffect(c)
        PROVE  FlagInv'
    <2> DEFINE m == rendered[c].pendingSDP
               o == Op("setRemote", m.desc, m.from, rendered[c].clientId)
    <2>1. o \in Ops
      BY <1>t, <1>2, StateFields, OpTypes DEF RunSDPEffect, SDPToHandle
    <2>2. ops' = [ops EXCEPT ![c] = Append(@, o)] /\ UNCHANGED negotiating
      BY <1>2 DEF RunSDPEffect
    <2> HIDE DEF o
    <2>3. \A u \in Clients : Watched(u) => Watched(u)'
      BY <1>t, <2>1, <2>2, WatchedAdded
    <2>4. \A u \in Clients : pc'[u].sig = pc[u].sig
      BY <1>t, <1>2 DEF RunSDPEffect, AddTrack, PageTypeOK, PeerConnections
    <2>5. QED
      BY <2>2, <2>3, <2>4 DEF FlagInv
  <1>3. ASSUME NEW c \in Clients, OnCandidate(c)
        PROVE  FlagInv'
    <2>1. UNCHANGED <<negotiating, pc>>
      BY <1>3 DEF OnCandidate
    <2>2. \A u \in Clients : Watched(u) => Watched(u)'
      BY <1>t, <1>3, CandidateOp, WatchedAdded DEF OnCandidate
    <2>3. QED
      BY <2>1, <2>2 DEF FlagInv
  <1>4. ASSUME NEW c \in Clients, createOffer(c)
        PROVE  FlagInv'
    <2> DEFINE o == Op("createOffer", None, rendered[c].peerId, rendered[c].clientId)
    <2>1. o \in Ops /\ o.op = "createOffer"
      <3>1. rendered[c].peerId \in Ids /\ rendered[c].clientId \in Clients \cup {None}
        BY <1>t, <1>4, StateFields DEF createOffer, MayOffer
      <3>2. QED
        BY <3>1, OpTypes DEF Op
    <2>2. ops' = [ops EXCEPT ![c] = Append(@, o)]
      BY <1>4 DEF createOffer
    <2> HIDE DEF o
    <2>3. Watched(c)' /\ \A u \in Clients : Watched(u) => Watched(u)'
      BY <1>t, <2>1, <2>2, WatchedAdded
    <2>4. \A u \in Clients \ {c} : negotiating'[u] = negotiating[u] /\ pc'[u] = pc[u]
      BY <1>t, <1>4 DEF createOffer, PageTypeOK
    <2>5. QED
      BY <2>3, <2>4 DEF FlagInv
  \* Calls settled.
  <1>5. ASSUME NEW c \in Clients, CallStep(c)
        PROVE  FlagInv'
    <2>0. ops[c] # << >> /\ pc[c] \in PeerConnections /\ c \in Ids
      BY <1>t, <1>5 DEF CallStep, OfferCreated, OfferSet, RemoteOfferSet,
         RemoteAnswerSet, AnswerCreated, AnswerSet, CandidateAdded, CallRejected,
         Resolved, PageTypeOK, Ids
    <2>other. \A u \in Clients \ {c} : negotiating'[u] = negotiating[u] /\ pc'[u] = pc[u]
      BY <1>t, <1>5 DEF CallStep, OfferCreated, OfferSet, RemoteOfferSet,
         RemoteAnswerSet, AnswerCreated, AnswerSet, CandidateAdded, CallRejected,
         onStable, PageTypeOK
    \* The continuation makes a watched call.
    <2>1. CASE OfferCreated(c) \/ AnswerCreated(c) \/ RemoteOfferSet(c)
      <3>1. PICK o \in Ops : /\ NextCall(c, o)
                             /\ o.op \in {"createOffer", "createAnswer", "setLocal"}
        <4>1. Call(c).to \in Ids /\ Call(c).cid \in Clients \cup {None}
          BY <1>t, <2>0, <2>1, CallTypes
             DEF OfferCreated, AnswerCreated, RemoteOfferSet, Resolved
        <4>2. \A d \in Descriptions : /\ Op("setLocal", d, Call(c).to, Call(c).cid) \in Ops
                                      /\ Op("setLocal", d, Call(c).to, Call(c).cid).op = "setLocal"
          BY <4>1, OpTypes DEF Op
        <4>3. /\ Op("createAnswer", None, Call(c).to, Call(c).cid) \in Ops
              /\ Op("createAnswer", None, Call(c).to, Call(c).cid).op = "createAnswer"
          BY <4>1, OpTypes DEF Op
        <4>4. /\ Offer(c, pc[c].made + 1) \in Descriptions
              /\ Answer(c, pc[c].made + 1) \in Descriptions
          BY <2>0, CreatedTypes, DescriptionTypes
        <4>5. QED
          BY <2>1, <4>2, <4>3, <4>4 DEF OfferCreated, AnswerCreated, RemoteOfferSet
      <3>2. Watched(c)' /\ \A u \in Clients \ {c} : Watched(u) => Watched(u)'
        BY <1>t, <2>0, <3>1, WatchedNext
      <3>3. QED
        BY <2>other, <3>2 DEF FlagInv
    \* The offer is out: the tab waits for its answer.
    <2>2. CASE OfferSet(c)
      <3>1. pc'[c].sig = "have-local-offer"
        BY <1>t, <2>0, <2>2 DEF OfferSet, SetLocalOffer, PageTypeOK, PeerConnections
      <3>2. QED
        BY <1>t, <2>0, <2>2, <2>other, <3>1, WatchedLast DEF OfferSet, FlagInv
    \* Stable again, or a catch block: the flag is cleared.
    <2>3. CASE \/ RemoteAnswerSet(c) \/ AnswerSet(c)
              \/ (CallRejected(c) /\ Call(c).op # "addIceCandidate")
      <3>1. ~ negotiating'[c] /\ LastCall(c)
        BY <1>t, <2>3 DEF RemoteAnswerSet, AnswerSet, CallRejected, onStable, PageTypeOK
      <3>2. QED
        BY <1>t, <2>0, <2>other, <3>1, WatchedLast DEF FlagInv
    \* A candidate: the watched calls stay in the chain.
    <2>4. CASE \/ CandidateAdded(c)
              \/ (CallRejected(c) /\ Call(c).op = "addIceCandidate")
      <3>1. Call(c).op = "addIceCandidate" /\ LastCall(c) /\ negotiating'[c] = negotiating[c]
        BY <1>t, <2>4 DEF CandidateAdded, CallRejected, Resolved, PageTypeOK
      <3>2. pc'[c].sig = pc[c].sig
        <4>1. pc'[c] = pc[c] \/ pc'[c] = AddCandidate(pc[c])
          BY <1>t, <2>4 DEF CandidateAdded, CallRejected, PageTypeOK
        <4>2. AddCandidate(pc[c]).sig = pc[c].sig
          BY <2>0 DEF AddCandidate, PeerConnections
        <4>3. QED
          BY <4>1, <4>2
      <3>3. QED
        BY <1>t, <2>0, <2>other, <3>1, <3>2, WatchedLast DEF FlagInv
    <2>5. QED
      BY <1>5, <2>1, <2>2, <2>3, <2>4 DEF CallStep
  \* Everything else leaves the flag, the connection and its calls alone.
  <1>6. ASSUME NEW c \in Clients,
               \/ Render(c) \/ RunEffects(c) \/ OnWelcome(c) \/ OnSDP(c)
               \/ MediaGranted(c) \/ MediaDenied(c) \/ OnIceCandidate(c)
               \/ \E v \in Inputs : OnChange(c, v)
        PROVE  UNCHANGED rtcVars
    BY <1>6 DEF Render, RunEffects, OnWelcome, OnSDP, MediaGranted, MediaDenied,
       OnIceCandidate, OnChange
  <1>7. CASE NetworkStep
    <2>1. UNCHANGED rtcVars
      BY <1>7 DEF NetworkStep, Connect, Route, Leave, StrangerOffer,
         StrangerAnswer, StrangerCandidate, ConnectionLost, ServerRestart
    <2>2. QED
      BY <1>1, <2>1
  <1>8. CASE UNCHANGED vars
    BY <1>1, <1>8 DEF vars, pageVars
  <1>9. QED
    BY <1>1, <1>2, <1>3, <1>4, <1>5, <1>6, <1>7, <1>8
       DEF Next, PageStep, ReactStep, MessageStep

\* isNegotiatingRef never stays up for nothing: without a pending call it is
\* up only while an offer of the tab waits for its answer.
THEOREM FlagCleared == Spec => []FlagNotLeaked
  <1>1. Init => FlagInv
    BY DEF Init, PageInit, FlagInv
  <1>2. TypeOK /\ FlagInv => FlagNotLeaked
    BY DEF FlagInv, FlagNotLeaked, Watched
  <1>3. QED
    BY <1>1, <1>2, FlagStep, ChatTypeCorrect, PTL DEF Spec
=============================================================================
