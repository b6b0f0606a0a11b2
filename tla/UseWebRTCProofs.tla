--------------------------- MODULE UseWebRTCProofs ---------------------------
(***************************************************************************)
(* Proofs about UseWebRTC, for any number of calls and of changes of its   *)
(* callbacks: an offer that was taken up is answered, and the flag comes   *)
(* down again, whatever calls come in between.                             *)
(***************************************************************************)
EXTENDS UseWebRTC, TLAPS

-----------------------------------------------------------------------------
(* The types of descriptions, connections and calls *)

LEMMA InitialTypes == FirstRender \in HookStates /\ NewPeerConnection \in Connections
  BY DEF FirstRender, HookStates, NewPeerConnection, Connections, SignalingStates

LEMMA DescriptionTypes ==
  ASSUME NEW n \in Nat
  PROVE  /\ Offer("me", n) \in Offers /\ Answer("me", n) \in Answers
         /\ Answer("peer", n) \in Answers
         /\ \A t \in {"offer", "refused"} :
              [Offer("peer", n) EXCEPT !.type = t] \in Descriptions({"offer", "refused"})
  BY DEF Offer, Answer, Offers, Answers, Descriptions

LEMMA OpTypes ==
  /\ Op("createOffer", None, "createOffer") \in Ops
  /\ Op("createAnswer", None, "handleOffer") \in Ops
  /\ Op("addIceCandidate", None, "addIceCandidate") \in Ops
  /\ \A d \in Offers : Op("setLocal", d, "createOffer") \in Ops
  /\ \A d \in Answers : Op("setLocal", d, "handleOffer") \in Ops
  /\ \A d \in Answers : Op("setRemote", d, "handleAnswer") \in Ops
  /\ \A d \in Descriptions({"offer", "refused"}) : Op("setRemote", d, "handleOffer") \in Ops
  BY DEF Op, Ops

\* What is known of a call by its kind.
LEMMA OpFacts ==
  ASSUME NEW o \in Ops
  PROVE  /\ o.op \in {"createOffer", "createAnswer", "setLocal", "setRemote", "addIceCandidate"}
         /\ o.op = "createOffer" => o.fn = "createOffer"
         /\ o.op = "createAnswer" => o.fn = "handleOffer"
         /\ o.op = "addIceCandidate" => o.fn = "addIceCandidate"
         /\ o.op = "setLocal" =>
              \/ o.desc \in Offers /\ o.desc.type = "offer" /\ o.fn = "createOffer"
              \/ o.desc \in Answers /\ o.desc.type = "answer" /\ o.fn = "handleOffer"
         /\ o.op = "setRemote" =>
              \/ o.desc \in Offers /\ o.desc.type = "offer" /\ o.fn = "handleOffer"
              \/ o.desc.type = "refused" /\ o.fn = "handleOffer"
              \/ o.desc \in Answers /\ o.desc.type = "answer" /\ o.fn = "handleAnswer"
  BY DEF Ops, Offers, Answers, Descriptions

\* What the operations leave of a connection.
LEMMA ConnectionTypes ==
  ASSUME NEW p \in Connections
  PROVE  /\ p.made + 1 \in Nat /\ p.sig \in SignalingStates
         /\ WithTracks(p) \in Connections /\ WithTracks(p).sig = p.sig
         /\ WithTracks(p).lastAnswer = p.lastAnswer
         /\ AddCandidate(p) \in Connections /\ AddCandidate(p).sig = p.sig
         /\ AddCandidate(p).lastAnswer = p.lastAnswer
  BY DEF Connections, WithTracks, AddTrack, AddCandidate

LEMMA CreatedTypes ==
  ASSUME NEW p \in Connections
  PROVE  /\ CreatedOffer(p, "me") \in Connections /\ CreatedOffer(p, "me").sig = p.sig
         /\ CreatedOffer(p, "me").lastAnswer = p.lastAnswer
         /\ CreatedAnswer(p, "me") \in Connections /\ CreatedAnswer(p, "me").sig = p.sig
         /\ CreatedAnswer(p, "me").lastAnswer = Answer("me", p.made + 1)
  <1>1. p.made + 1 \in Nat
    BY ConnectionTypes
  <1>2. Offer("me", p.made + 1) \in Offers /\ Answer("me", p.made + 1) \in Answers
    BY <1>1, DescriptionTypes
  <1>3. QED
    BY <1>1, <1>2 DEF CreatedOffer, CreatedAnswer, Connections

LEMMA SetTypes ==
  ASSUME NEW p \in Connections
  PROVE  /\ \A d \in Offers : /\ SetLocalOffer(p, d) \in Connections
                              /\ SetLocalOffer(p, d).sig = "have-local-offer"
                              /\ SetRemoteOffer(p, d) \in Connections
                              /\ SetRemoteOffer(p, d).sig = "have-remote-offer"
         /\ \A d \in Answers : /\ SetLocalAnswer(p, d) \in Connections
                               /\ SetLocalAnswer(p, d).sig = "stable"
                               /\ SetRemoteAnswer(p, d) \in Connections
                               /\ SetRemoteAnswer(p, d).sig = "stable"
  <1>1. ASSUME NEW d \in Offers
        PROVE  /\ SetLocalOffer(p, d) \in Connections
               /\ SetLocalOffer(p, d).sig = "have-local-offer"
               /\ SetRemoteOffer(p, d) \in Connections
               /\ SetRemoteOffer(p, d).sig = "have-remote-offer"
    BY DEF SetLocalOffer, SetRemoteOffer, Connections, SignalingStates
  <1>2. ASSUME NEW d \in Answers, NEW o \in Offers \cup {None}
        PROVE  Agreed(p, o, d) \in Connections /\ Agreed(p, o, d).sig = "stable"
    BY DEF Agreed, Connections, SignalingStates
  <1>3. p.localOffer \in Offers \cup {None} /\ p.remoteOffer \in Offers \cup {None}
    BY DEF Connections
  <1>4. QED
    BY <1>1, <1>2, <1>3 DEF SetLocalAnswer, SetRemoteAnswer

-----------------------------------------------------------------------------
(* The chain of pending calls, as a set *)

Chain == {ops[i] : i \in DOMAIN ops}

LEMMA ChainAdded ==
  ASSUME ops \in Seq(Ops), NEW o \in Ops, ops' = Append(ops, o)
  PROVE  ops' \in Seq(Ops) /\ Chain \subseteq Chain' /\ o \in Chain'
  <1>1. /\ ops' \in Seq(Ops) /\ ops'[Len(ops) + 1] = o /\ Len(ops) + 1 \in DOMAIN ops'
        /\ \A i \in DOMAIN ops : i \in DOMAIN ops' /\ ops'[i] = ops[i]
    OBVIOUS
  <1>2. QED
    BY <1>1 DEF Chain

LEMMA ChainReturn ==
  ASSUME ops \in Seq(Ops), ops # << >>, Return
  PROVE  /\ ops' \in Seq(Ops) /\ Call \in Ops /\ Call \in Chain
         /\ Chain \ {Call} \subseteq Chain'
  <1>1. ops' \in Seq(Ops) /\ Call \in Ops /\ ops' = Tail(ops)
    BY DEF Return, Call
  <1>2. 1 \in DOMAIN ops /\ ops[1] = Call
    BY DEF Call
  <1>3. \A i \in DOMAIN ops :
          i # 1 => i - 1 \in DOMAIN ops' /\ ops'[i - 1] = ops[i]
    BY <1>1
  <1>4. ASSUME NEW o \in Chain, o # Call
        PROVE  o \in Chain'
    <2>1. PICK i \in DOMAIN ops : o = ops[i]
      BY <1>4 DEF Chain
    <2>2. i - 1 \in DOMAIN ops' /\ ops'[i - 1] = o
      BY <1>2, <1>3, <1>4, <2>1
    <2>3. QED
      BY <2>2 DEF Chain
  <1>5. Call \in Chain
    BY <1>2 DEF Chain
  <1>6. QED
    BY <1>1, <1>4, <1>5

LEMMA ChainNext ==
  ASSUME ops \in Seq(Ops), ops # << >>, NEW o \in Ops, ops' = Append(Tail(ops), o)
  PROVE  ops' \in Seq(Ops) /\ o \in Chain'
  <1>1. Tail(ops) \in Seq(Ops)
    OBVIOUS
  <1>2. ops' \in Seq(Ops) /\ \E i \in DOMAIN ops' : ops'[i] = o
    BY <1>1
  <1>3. QED
    BY <1>2 DEF Chain

\* The call that a step settles.
LEMMA CallFacts ==
  ASSUME TypeOK, ops # << >>
  PROVE  Call \in Ops /\ Call \in Chain
  BY DEF TypeOK, Call, Chain

-----------------------------------------------------------------------------
(* Type correctness *)

LEMMA FlagTypes ==
  ASSUME TypeOK, NEW b \in BOOLEAN, setIsNegotiating(b)
  PROVE  latest' \in HookStates /\ raised' \in 0..run
  <1>1. latest' \in HookStates
    BY DEF setIsNegotiating, TypeOK, HookStates
  <1>2. QED
    BY <1>1 DEF setIsNegotiating, TypeOK

LEMMA TypeInit == Init => TypeOK
  BY InitialTypes, HookConstants DEF Init, TypeOK

\* The calls from outside.
LEMMA CalledTypes ==
  ASSUME TypeOK,
         \/ createOffer \/ handleAnswer \/ addIceCandidate
         \/ \E type \in {"offer", "refused"} : handleOffer(type)
  PROVE  TypeOK'
  <1> USE HookConstants DEF TypeOK
  <1>0. received + 1 \in Nat /\ WithTracks(pc) \in Connections
    BY ConnectionTypes
  <1>1. CASE createOffer
    <2>1. ops' \in Seq(Ops)
      BY <1>1, OpTypes, ChainAdded DEF createOffer
    <2>2. QED
      <3>1. latest' \in HookStates /\ raised' \in 0..run
        BY <1>1, FlagTypes DEF createOffer
      <3>2. offers' \in 0..MaxOffers
        BY <1>1 DEF createOffer
      <3>3. QED
        BY <1>0, <1>1, <2>1, <3>1, <3>2 DEF createOffer
  <1>2. CASE handleAnswer
    <2>1. ops' \in Seq(Ops)
      BY <1>0, <1>2, DescriptionTypes, OpTypes, ChainAdded DEF handleAnswer
    <2>2. QED
      BY <1>2, <2>1 DEF handleAnswer, Receive, reactVars
  <1>3. CASE addIceCandidate
    <2>1. ops' \in Seq(Ops)
      BY <1>3, OpTypes, ChainAdded DEF addIceCandidate
    <2>2. QED
      BY <1>3, <2>1 DEF addIceCandidate, Receive, reactVars
  <1>4. ASSUME NEW type \in {"offer", "refused"}, handleOffer(type)
        PROVE  TypeOK'
    <2> DEFINE d == [Offer("peer", received + 1) EXCEPT !.type = type]
    <2>1. d \in Descriptions({"offer", "refused"})
      BY <1>0, DescriptionTypes
    <2>2. ops' = Append(ops, Op("setRemote", d, "handleOffer"))
      BY <1>4 DEF handleOffer
    <2> HIDE DEF d
    <2>3. ops' \in Seq(Ops)
      BY <2>1, <2>2, OpTypes, ChainAdded
    <2>4. QED
      <3>1. latest' \in HookStates /\ raised' \in 0..run
        BY <1>4, FlagTypes DEF handleOffer
      <3>2. received' \in 0..MaxReceived
        BY <1>4 DEF handleOffer, Receive
      <3>3. QED
        BY <1>0, <1>4, <2>3, <3>1, <3>2 DEF handleOffer
  <1>5. QED
    BY <1>1, <1>2, <1>3, <1>4

\* The results of pending calls.
LEMMA CallStepTypes ==
  ASSUME TypeOK, CallStep
  PROVE  TypeOK'
  <1>0. ops # << >> /\ ops \in Seq(Ops) /\ pc \in Connections /\ Call \in Ops
    BY CallFacts DEF CallStep, OfferCreated, OfferSet, RemoteOfferSet, AnswerCreated,
       AnswerSet, CandidateAdded, CallRejected, Resolved, TypeOK
  <1>1. pc.made + 1 \in Nat
    BY <1>0, ConnectionTypes
  <1>2. CASE OfferCreated
    <2>1. ops' \in Seq(Ops)
      BY <1>0, <1>1, <1>2, DescriptionTypes, OpTypes, OpFacts, ChainNext
         DEF OfferCreated, NextCall, Resolved
    <2>2. pc' \in Connections
      BY <1>0, <1>2, CreatedTypes DEF OfferCreated
    <2>3. QED
      BY <1>2, <2>1, <2>2 DEF OfferCreated, TypeOK, reactVars, counters
  <1>3. CASE OfferSet
    <2>1. ops' \in Seq(Ops)
      BY <1>0, <1>3, ChainReturn DEF OfferSet
    <2>2. pc' \in Connections
      BY <1>0, <1>3, SetTypes, OpFacts DEF OfferSet, Resolved
    <2>3. QED
      BY <1>3, <2>1, <2>2 DEF OfferSet, TypeOK, reactVars, counters
  <1>4. CASE RemoteOfferSet
    <2>1. Call.fn = "handleOffer" /\ Call.desc \in Offers
      BY <1>0, <1>4, OpFacts DEF RemoteOfferSet, Resolved
    <2>2. ops' \in Seq(Ops)
      BY <1>0, <1>4, <2>1, OpTypes, ChainNext DEF RemoteOfferSet, NextCall
    <2>3. pc' \in Connections
      BY <1>0, <1>4, <2>1, SetTypes DEF RemoteOfferSet
    <2>4. QED
      <3>1. latest' \in HookStates /\ raised' \in 0..run
        <4>1. CASE setIsNegotiating(FALSE)
          BY <4>1, FlagTypes
        <4>2. CASE UNCHANGED <<latest, raised>>
          BY <4>2 DEF TypeOK
        <4>3. QED
          BY <1>4, <4>1, <4>2 DEF RemoteOfferSet, RolledBack
      <3>2. QED
        BY <1>4, <2>2, <2>3, <3>1 DEF RemoteOfferSet, TypeOK, counters
  <1>5. CASE AnswerCreated
    <2>1. ops' \in Seq(Ops)
      BY <1>0, <1>1, <1>5, DescriptionTypes, OpTypes, OpFacts, ChainNext
         DEF AnswerCreated, NextCall, Resolved
    <2>2. pc' \in Connections
      BY <1>0, <1>5, CreatedTypes DEF AnswerCreated
    <2>3. QED
      BY <1>5, <2>1, <2>2 DEF AnswerCreated, TypeOK, reactVars, counters
  <1>6. CASE AnswerSet
    <2>1. ops' \in Seq(Ops)
      BY <1>0, <1>6, ChainReturn DEF AnswerSet
    <2>2. Call.desc \in Answers
      BY <1>0, <1>6, OpFacts DEF AnswerSet, Resolved
    <2>3. pc' \in Connections
      BY <1>0, <1>6, <2>2, SetTypes DEF AnswerSet
    <2>4. QED
      BY <1>6, <2>1, <2>3 DEF AnswerSet, setIsNegotiating, HookStates, TypeOK, counters
  <1>7. CASE CandidateAdded
    <2>1. ops' \in Seq(Ops)
      BY <1>0, <1>7, ChainReturn DEF CandidateAdded
    <2>2. pc' \in Connections
      BY <1>0, <1>7, ConnectionTypes DEF CandidateAdded
    <2>3. QED
      BY <1>7, <2>1, <2>2 DEF CandidateAdded, TypeOK, reactVars, counters
  <1>8. CASE CallRejected
    <2>1. ops' \in Seq(Ops)
      BY <1>0, <1>8, ChainReturn DEF CallRejected, CatchReturns, Return
    <2>2. latest' \in HookStates /\ raised' = raised
      BY <1>8 DEF CallRejected, setIsNegotiating, HookStates, TypeOK
    <2>3. QED
      BY <1>8, <2>1, <2>2 DEF CallRejected, TypeOK, counters
  <1>9. QED
    BY <1>2, <1>3, <1>4, <1>5, <1>6, <1>7, <1>8 DEF CallStep

LEMMA TypeStep == TypeOK /\ [Next]_vars => TypeOK'
  <1> SUFFICES ASSUME TypeOK, [Next]_vars
               PROVE  TypeOK'
    OBVIOUS
  <1>1. CASE Render
    BY <1>1 DEF Render, TypeOK, counters
  <1>2. CASE ChangeOptions
    <2>0. latest \in HookStates
      BY DEF TypeOK
    <2>1. latest' \in HookStates
      <3>1. CASE latest' = [latest EXCEPT !.callbacks = @ + 1]
        BY <2>0, <3>1 DEF HookStates
      <3>2. CASE latest' = [latest EXCEPT !.localStream = TRUE]
        BY <2>0, <3>2 DEF HookStates
      <3>3. QED
        BY <1>2, <3>1, <3>2 DEF ChangeOptions
    <2>2. QED
      BY <1>2, <2>1 DEF ChangeOptions, TypeOK, counters
  <1>3. CASE Effect
    BY <1>3, InitialTypes DEF Effect, TypeOK, HookStates, counters
  <1>4. CASE Unmount
    BY <1>4 DEF Unmount, TypeOK, counters
  <1>5. CASE OnTrack
    BY <1>5 DEF OnTrack, TypeOK, reactVars, counters
  <1>6. ASSUME NEW state \in IceStates, OnIceConnectionStateChange(state)
        PROVE  TypeOK'
    BY <1>6 DEF OnIceConnectionStateChange, TypeOK, HookStates, counters
  <1>7. CASE UNCHANGED vars
    BY <1>7 DEF vars, TypeOK, reactVars, counters
  <1>8. QED
    BY <1>1, <1>2, <1>3, <1>4, <1>5, <1>6, <1>7, CalledTypes, CallStepTypes
       DEF Next, ReactStep

\* The states of useWebRTC, its connection and the calls pending on it are
\* well typed.
THEOREM HookTypeCorrect == Spec => []TypeOK
  BY TypeInit, TypeStep, PTL DEF Spec

-----------------------------------------------------------------------------
(* Negotiations come to an end *)

\* A remote offer has its createAnswer, or the answer created last has its
\* setLocalDescription, still to come: the browser accepts no older answer.
Answering(o) ==
    \/ o.op = "createAnswer"
    \/ o.op = "setLocal" /\ o.desc.type = "answer" /\ o.desc = pc.lastAnswer

AnswerDue == pc.sig = "have-remote-offer" => \E o \in Chain : Answering(o)

\* A function that lowers the flag if it fails is still at work.
FlagDue ==
    host = "mounted" /\ latest.isNegotiating /\ raised = run /\ pc.sig # "have-local-offer"
      => \E o \in Chain : CatchLowersFlag(o.fn)

NegotiationInv ==
    /\ TypeOK /\ FlagDue
    /\ host = "mounted" => AnswerDue
    /\ host # "mounted" => ops = << >>

LEMMA NegotiationInit == Init => NegotiationInv
  BY TypeInit DEF Init, NegotiationInv, AnswerDue, FlagDue, NewPeerConnection, FirstRender

\* A step that leaves the connection alone.
LEMMA ReactKeeps ==
  ASSUME NegotiationInv,
         \/ Render \/ ChangeOptions \/ OnTrack \/ UNCHANGED vars
         \/ \E state \in IceStates : OnIceConnectionStateChange(state)
  PROVE  FlagDue' /\ (AnswerDue => AnswerDue')
  <1>1. UNCHANGED <<pc, ops, run, raised, host>>
    BY DEF Render, ChangeOptions, OnTrack, OnIceConnectionStateChange, vars, reactVars
  <1>2. latest'.isNegotiating = latest.isNegotiating
    <2>1. latest \in HookStates
      BY DEF NegotiationInv, TypeOK
    <2>2. \/ latest' = latest
          \/ latest' = [latest EXCEPT !.callbacks = @ + 1]
          \/ latest' = [latest EXCEPT !.localStream = TRUE]
          \/ \E state \in IceStates : latest' = [latest EXCEPT !.connectionState = state]
      BY DEF Render, ChangeOptions, OnTrack, OnIceConnectionStateChange, vars, reactVars
    <2>3. QED
      BY <2>1, <2>2 DEF HookStates
  <1>3. Chain' = Chain
    BY <1>1 DEF Chain
  <1>4. QED
    BY <1>1, <1>2, <1>3 DEF NegotiationInv, AnswerDue, FlagDue, Answering

\* A call from outside adds to the chain; the two that raise the flag add a
\* call of their own.
LEMMA CalledKeeps ==
  ASSUME NegotiationInv,
         \/ createOffer \/ handleAnswer \/ addIceCandidate
         \/ \E type \in {"offer", "refused"} : handleOffer(type)
  PROVE  AnswerDue' /\ FlagDue'
  <1>0. TypeOK /\ AnswerDue /\ FlagDue /\ ops \in Seq(Ops) /\ pc \in Connections
        /\ received + 1 \in Nat
    <2>1. host = "mounted"
      BY DEF createOffer, handleAnswer, addIceCandidate, handleOffer, Receive, Connected
    <2>2. received \in Nat /\ ops \in Seq(Ops) /\ pc \in Connections
      BY HookConstants DEF NegotiationInv, TypeOK
    <2>3. QED
      BY <2>1, <2>2 DEF NegotiationInv
  <1>1. pc'.sig = pc.sig /\ pc'.lastAnswer = pc.lastAnswer
        /\ UNCHANGED <<host, run>>
    <2>1. pc' = pc \/ pc' = WithTracks(pc)
      BY DEF createOffer, handleAnswer, addIceCandidate, handleOffer
    <2>2. UNCHANGED <<host, run>>
      BY DEF createOffer, handleAnswer, addIceCandidate, handleOffer, reactVars
    <2>3. QED
      BY <1>0, <2>1, <2>2, ConnectionTypes
  <1>2. CASE handleAnswer \/ addIceCandidate
    <2>1. PICK o \in Ops : ops' = Append(ops, o)
      BY <1>0, <1>2, OpTypes, DescriptionTypes DEF handleAnswer, addIceCandidate
    <2>2. Chain \subseteq Chain'
      BY <1>0, <2>1, ChainAdded
    <2>3. UNCHANGED <<latest, raised>>
      BY <1>2 DEF handleAnswer, addIceCandidate, reactVars
    <2>4. QED
      BY <1>0, <1>1, <2>2, <2>3 DEF AnswerDue, FlagDue, Answering
  <1>3. CASE createOffer \/ \E type \in {"offer", "refused"} : handleOffer(type)
    <2>1. PICK o \in Ops : ops' = Append(ops, o) /\ CatchLowersFlag(o.fn)
      <3>1. CASE createOffer
        BY <3>1, OpTypes DEF createOffer, Op, CatchLowersFlag
      <3>2. ASSUME NEW type \in {"offer", "refused"}, handleOffer(type)
            PROVE  \E o \in Ops : ops' = Append(ops, o) /\ CatchLowersFlag(o.fn)
        <4> DEFINE d == [Offer("peer", received + 1) EXCEPT !.type = type]
        <4>1. d \in Descriptions({"offer", "refused"})
          BY <1>0, DescriptionTypes
        <4>2. ops' = Append(ops, Op("setRemote", d, "handleOffer"))
          BY <3>2 DEF handleOffer
        <4> HIDE DEF d
        <4>3. Op("setRemote", d, "handleOffer") \in Ops
          BY <4>1, OpTypes
        <4>4. QED
          BY <4>2, <4>3 DEF Op, CatchLowersFlag
      <3>3. QED
        BY <1>3, <3>1, <3>2
    <2>2. Chain \subseteq Chain' /\ o \in Chain'
      BY <1>0, <2>1, ChainAdded
    <2>3. QED
      BY <1>0, <1>1, <2>1, <2>2 DEF AnswerDue, FlagDue, Answering
  <1>4. QED
    BY <1>2, <1>3

\* A settled call leaves the chain; what it was needed for is done, or its
\* function has made the next call.
LEMMA CallStepKeeps ==
  ASSUME NegotiationInv, host = "mounted", CallStep
  PROVE  AnswerDue' /\ FlagDue'
  <1>0. /\ ops # << >> /\ ops \in Seq(Ops) /\ pc \in Connections
        /\ Call \in Ops /\ AnswerDue /\ FlagDue
    BY CallFacts DEF NegotiationInv, CallStep, OfferCreated, OfferSet, RemoteOfferSet,
       AnswerCreated, AnswerSet, CandidateAdded, CallRejected, Resolved, TypeOK
  <1>1. pc.made + 1 \in Nat /\ UNCHANGED <<host, run>>
    BY <1>0, ConnectionTypes DEF CallStep, OfferCreated, OfferSet, RemoteOfferSet,
       AnswerCreated, AnswerSet, CandidateAdded, CallRejected, reactVars
  <1>2. CASE OfferCreated
    <2>1. PICK o \in Ops : ops' = Append(Tail(ops), o) /\ o.fn = "createOffer"
      BY <1>0, <1>1, <1>2, DescriptionTypes, OpTypes, OpFacts
         DEF OfferCreated, NextCall, Resolved, Op
    <2>2. o \in Chain'
      BY <1>0, <2>1, ChainNext
    <2>3. pc'.sig = pc.sig /\ pc.sig # "have-remote-offer"
      BY <1>0, <1>2, CreatedTypes DEF OfferCreated, Resolved, Resolves
    <2>4. QED
      BY <2>1, <2>2, <2>3 DEF AnswerDue, FlagDue, CatchLowersFlag
  <1>3. CASE OfferSet
    <2>1. pc'.sig = "have-local-offer"
      BY <1>0, <1>3, SetTypes, OpFacts DEF OfferSet, Resolved
    <2>2. QED
      BY <2>1 DEF AnswerDue, FlagDue
  <1>4. CASE RemoteOfferSet
    <2>1. Call.fn = "handleOffer"
      BY <1>0, <1>4, OpFacts DEF RemoteOfferSet, Resolved
    <2>2. PICK o \in Ops : /\ ops' = Append(Tail(ops), o)
                           /\ o.op = "createAnswer" /\ o.fn = "handleOffer"
      BY <1>4, <2>1, OpTypes DEF RemoteOfferSet, NextCall, Op
    <2>3. o \in Chain'
      BY <1>0, <2>2, ChainNext
    <2>4. QED
      BY <2>2, <2>3 DEF AnswerDue, FlagDue, Answering, CatchLowersFlag
  <1>5. CASE AnswerCreated
    <2>1. Call.fn = "handleOffer"
      BY <1>0, <1>5, OpFacts DEF AnswerCreated, Resolved
    <2> DEFINE d == Answer("me", pc.made + 1)
    <2>2. d \in Answers /\ d.type = "answer" /\ pc'.lastAnswer = d
      BY <1>0, <1>1, <1>5, DescriptionTypes, CreatedTypes DEF AnswerCreated, Answer
    <2>3. ops' = Append(Tail(ops), Op("setLocal", d, "handleOffer"))
      BY <1>5, <2>1 DEF AnswerCreated, NextCall
    <2> HIDE DEF d
    <2>4. PICK o \in Ops : /\ ops' = Append(Tail(ops), o) /\ o.desc = d
                           /\ o.op = "setLocal" /\ o.fn = "handleOffer"
      BY <2>2, <2>3, OpTypes DEF Op
    <2>5. o \in Chain'
      BY <1>0, <2>4, ChainNext
    <2>6. QED
      BY <2>2, <2>4, <2>5 DEF AnswerDue, FlagDue, Answering, CatchLowersFlag
  <1>6. CASE AnswerSet
    <2>1. Call.desc \in Answers
      BY <1>0, <1>6, OpFacts DEF AnswerSet, Resolved
    <2>2. pc'.sig = "stable"
      BY <1>0, <1>6, <2>1, SetTypes DEF AnswerSet
    <2>3. latest'.isNegotiating = FALSE
      BY <1>6 DEF NegotiationInv, AnswerSet, setIsNegotiating, TypeOK, HookStates
    <2>4. QED
      BY <2>2, <2>3 DEF AnswerDue, FlagDue
  <1>7. CASE CandidateAdded
    <2>1. Call.op = "addIceCandidate" /\ Call.fn = "addIceCandidate"
      BY <1>0, <1>7, OpFacts DEF CandidateAdded, Resolved
    <2>2. Chain \ {Call} \subseteq Chain' /\ UNCHANGED <<latest, raised>>
      BY <1>0, <1>7, ChainReturn DEF CandidateAdded, reactVars
    <2>3. pc'.sig = pc.sig /\ pc'.lastAnswer = pc.lastAnswer
      BY <1>0, <1>7, ConnectionTypes DEF CandidateAdded
    <2>4. QED
      BY <1>0, <1>1, <2>1, <2>2, <2>3
         DEF AnswerDue, FlagDue, Answering, CatchLowersFlag
  <1>8. CASE CallRejected
    <2>1. Chain \ {Call} \subseteq Chain' /\ pc' = pc
      BY <1>0, <1>8, ChainReturn DEF CallRejected, CatchReturns, Return
    <2>2. AnswerDue'
      <3>1. pc.sig = "have-remote-offer" => ~ Answering(Call)
        BY <1>8 DEF CallRejected, Resolves, Answering
      <3>2. QED
        BY <1>0, <2>1, <3>1 DEF AnswerDue, Answering
    <2>3. FlagDue'
      <3>1. CASE CatchLowersFlag(Call.fn)
        <4>1. latest'.isNegotiating = FALSE
          BY <1>8, <3>1 DEF NegotiationInv, CallRejected, setIsNegotiating, TypeOK, HookStates
        <4>2. QED
          BY <4>1 DEF FlagDue
      <3>2. CASE ~ CatchLowersFlag(Call.fn)
        <4>1. UNCHANGED <<latest, raised>>
          BY <1>8, <3>2 DEF CallRejected
        <4>2. QED
          BY <1>0, <1>1, <2>1, <3>2, <4>1 DEF FlagDue
      <3>3. QED
        BY <3>1, <3>2
    <2>4. QED
      BY <2>2, <2>3
  <1>9. QED
    BY <1>2, <1>3, <1>4, <1>5, <1>6, <1>7, <1>8 DEF CallStep
\* A new connection is stable, and the flag was raised for an older one.
LEMMA ReplacedKeeps ==
  ASSUME NegotiationInv, Effect
  PROVE  AnswerDue' /\ FlagDue'
  <1>1. run' = run + 1 /\ raised' = raised /\ pc' = NewPeerConnection
    BY DEF Effect
  <1>2. raised' # run'
    BY <1>1 DEF NegotiationInv, TypeOK
  <1>3. pc'.sig = "stable"
    BY <1>1 DEF NewPeerConnection
  <1>4. QED
    BY <1>2, <1>3 DEF AnswerDue, FlagDue

LEMMA NegotiationStep == NegotiationInv /\ [Next]_vars => NegotiationInv'
  <1> SUFFICES ASSUME NegotiationInv, [Next]_vars
               PROVE  NegotiationInv'
    OBVIOUS
  <1>0. TypeOK'
    BY TypeStep DEF NegotiationInv
  <1>1. CASE \/ Render \/ ChangeOptions \/ OnTrack \/ UNCHANGED vars
             \/ \E state \in IceStates : OnIceConnectionStateChange(state)
    <2>1. UNCHANGED <<ops, host>>
      BY <1>1 DEF Render, ChangeOptions, OnTrack, OnIceConnectionStateChange, vars, reactVars
    <2>2. FlagDue'
      BY <1>1, ReactKeeps
    <2>3. host = "mounted" => AnswerDue'
      BY <1>1, ReactKeeps DEF NegotiationInv
    <2>4. QED
      BY <1>0, <2>1, <2>2, <2>3 DEF NegotiationInv
  <1>2. CASE Effect
    <2>1. host' = "mounted"
      BY <1>2 DEF Effect, EffectPending
    <2>2. QED
      BY <1>0, <1>2, <2>1, ReplacedKeeps DEF NegotiationInv
  <1>3. CASE Unmount
    BY <1>0, <1>3 DEF Unmount, NegotiationInv, FlagDue
  <1>4. CASE \/ createOffer \/ handleAnswer \/ addIceCandidate
             \/ \E type \in {"offer", "refused"} : handleOffer(type)
    <2>1. host' = "mounted"
      BY <1>4 DEF createOffer, handleAnswer, addIceCandidate, handleOffer, Receive,
         Connected, reactVars
    <2>2. QED
      BY <1>0, <1>4, <2>1, CalledKeeps DEF NegotiationInv
  <1>5. CASE CallStep
    <2>1. ops # << >> /\ host' = host
      BY <1>5 DEF CallStep, OfferCreated, OfferSet, RemoteOfferSet, AnswerCreated,
         AnswerSet, CandidateAdded, CallRejected, Resolved, reactVars
    <2>2. host = "mounted"
      BY <2>1 DEF NegotiationInv
    <2>3. QED
      BY <1>0, <1>5, <2>1, <2>2, CallStepKeeps DEF NegotiationInv
  <1>6. QED
    BY <1>1, <1>2, <1>3, <1>4, <1>5 DEF Next, ReactStep

LEMMA NegotiationInvariant == Spec => []NegotiationInv
  BY NegotiationInit, NegotiationStep, PTL DEF Spec

\* When no call is pending on the connection in use, handleOffer has answered
\* every remote offer, whatever other calls came between its three.
THEOREM EveryOfferCompleted == Spec => []OffersCompleted
  <1>1. NegotiationInv => OffersCompleted
    BY DEF NegotiationInv, OffersCompleted, AnswerDue, Chain
  <1>2. QED
    BY <1>1, NegotiationInvariant, PTL

\* When no call is pending on the connection in use, the flag raised for it is
\* up only while an offer waits for its answer.
THEOREM FlagComesDown == Spec => []FlagReturns
  <1>1. NegotiationInv => FlagReturns
    BY DEF NegotiationInv, FlagReturns, FlagDue, Chain
  <1>2. QED
    BY <1>1, NegotiationInvariant, PTL
=============================================================================
