--------------------------- MODULE HandshakeProofs ---------------------------
(***************************************************************************)
(* With one caller, the tabs and the lossy relay between them implement    *)
(* Handshake.  Three continuations are steps of it: the caller's offer set *)
(* is Propose, the callee's answer set is Accept, the caller's answer set  *)
(* is Conclude.  Every other step, the relay, React and the failures       *)
(* included, is a stutter.  The invariant OneCallInv supplies what the     *)
(* steps need: the offer is fresh, nobody has accepted it before, and the  *)
(* answer that comes back is the one its maker has set.                    *)
(***************************************************************************)
EXTENDS OneCallerProofs

LEMMA HandshakeInitMapped ==
  ASSUME OneCallerOnly, Init
  PROVE  Sessions!HandshakeInit
  <1>1. Callers \subseteq Clients
    BY ChatConstants
  <1>2. \A c \in Clients : pc[c].localOffer = None /\ pc[c].current = None
    BY DEF Init, PageInit, NewPeerConnection
  <1>3. QED
    BY <1>1, <1>2 DEF Sessions!HandshakeInit

\* A step that neither gives the caller an offer nor a tab a session.
LEMMA HandshakeStutters ==
  ASSUME OneCallerOnly, pc'[caller].localOffer = pc[caller].localOffer,
         \A c \in Clients : pc'[c].current = pc[c].current
  PROVE  UNCHANGED Sessions!handshakeVars
  <1>1. Callers = {caller} /\ caller \in Clients
    BY TheCaller
  <1>2. [c \in Callers |-> pc'[c].localOffer] = [c \in Callers |-> pc[c].localOffer]
    BY <1>1
  <1>3. [c \in Clients |-> pc'[c].current] = [c \in Clients |-> pc[c].current]
    OBVIOUS
  <1>4. QED
    BY <1>2, <1>3 DEF Sessions!handshakeVars

LEMMA UntakenMapped ==
  ASSUME NEW d, Untaken(d)
  PROVE  ~ Sessions!Taken(d)
  BY DEF Untaken, Sessions!Taken

LEMMA HandshakeStepMapped ==
  ASSUME OneCallerOnly, TypeOK, OneCallInv, [Next]_vars
  PROVE  Sessions!HandshakeNext \/ UNCHANGED Sessions!handshakeVars
  <1>t. /\ PageTypeOK /\ OneToken /\ OffersNumbered
        /\ caller \in Clients /\ Callers = {caller}
    BY TheCaller DEF TypeOK, OneCallInv
  <1>1. CASE \A c \in Clients : ~ CallStep(c)
    <2>1. SameSessions
      BY <1>t, <1>1, SessionsKept
    <2>2. QED
      BY <1>t, <2>1, HandshakeStutters DEF SameSessions
  <1>2. ASSUME NEW c \in Clients, CallStep(c)
        PROVE  Sessions!HandshakeNext \/ UNCHANGED Sessions!handshakeVars
    <2>0. PICK o \in Ops : o = Call(c)
      BY <1>t, <1>2, CallOwner
    <2>1. /\ OfferCreated(c) \/ OfferSet(c) \/ RemoteAnswerSet(c) => c = caller
          /\ RemoteOfferSet(c) \/ AnswerCreated(c) \/ AnswerSet(c) => c # caller
          /\ MadeBy(c, o) /\ pc[c] \in PeerConnections
          /\ \A d \in Clients \ {c} : pc'[d] = pc[d]
      BY <1>t, <1>2, <2>0, CallOwner
    <2>2. o.op = "setLocal" => o.desc \in Descriptions
      BY DEF Ops
    <2>3. \A d \in Descriptions : d.by \in Clients =>
            /\ d.type = "offer" => d \in [type : {"offer"}, by : Clients, n : Nat]
            /\ d.type = "answer" => d \in [type : {"answer"}, by : Clients, n : Nat]
      BY DEF Descriptions
    <2>4. CASE OfferCreated(c)
      <3>1. pc'[c] = CreatedOffer(pc[c], c)
        BY <1>t, <2>4 DEF OfferCreated, PageTypeOK
      <3>2. pc'[c].current = pc[c].current /\ pc'[c].localOffer = pc[c].localOffer
        BY <2>1, <3>1, CreatedOfferLeaves
      <3>3. QED
        BY <2>1, <2>4, <3>2, HandshakeStutters
    <2>5. CASE AnswerCreated(c) \/ RemoteOfferSet(c)
      <3>1. \/ pc'[c] = CreatedAnswer(pc[c], c)
            \/ pc'[c] = SetRemoteOffer(pc[c], o.desc)
        BY <1>t, <2>0, <2>5 DEF AnswerCreated, RemoteOfferSet, PageTypeOK
      <3>2. pc'[c].current = pc[c].current
        BY <2>1, <3>1, CreatedAnswerLeaves, SetRemoteOfferLeaves
      <3>3. pc'[caller] = pc[caller]
        BY <1>t, <2>1, <2>5
      <3>4. QED
        BY <2>1, <3>2, <3>3, HandshakeStutters
    <2>6. CASE OfferSet(c)
      <3>1. c = caller /\ o.op = "setLocal"
        BY <2>0, <2>1, <2>6 DEF OfferSet, Resolved
      <3>2. /\ pc[caller].sig = "stable" /\ Untaken(o.desc)
            /\ o.desc.type = "offer" /\ o.desc.by = caller
        BY <2>1, <3>1 DEF MadeBy, CallerCall
      <3>3. pc'[c] = SetLocalOffer(pc[c], o.desc)
        BY <1>t, <2>0, <2>6 DEF OfferSet, PageTypeOK
      <3>4. pc'[c].localOffer = o.desc /\ pc'[c].current = pc[c].current
        BY <2>1, <3>3, SetLocalOfferLeaves
      <3>5. pc[caller].localOffer = None
        BY <1>t, <3>2 DEF OffersNumbered, Waiting, TheOffer
      <3>6. o.desc \in [type : {"offer"}, by : Clients, n : Nat]
        BY <1>t, <2>2, <2>3, <3>1, <3>2
      <3>7. ~ Sessions!Taken(o.desc)
        BY <3>2, UntakenMapped
      <3>8. [t \in Clients |-> pc'[t].current] = [t \in Clients |-> pc[t].current]
        BY <2>1, <3>4
      <3>9. Sessions!Propose(caller)
        BY <1>t, <3>1, <3>2, <3>4, <3>5, <3>6, <3>7, <3>8 DEF Sessions!Propose
      <3>10. QED
        BY <1>t, <3>9 DEF Sessions!HandshakeNext
    <2>7. CASE AnswerSet(c)
      <3>1. c # caller /\ o.op = "setLocal" /\ o.desc.type = "answer"
        BY <2>0, <2>1, <2>7 DEF AnswerSet, Resolved
      <3>2. /\ Waiting /\ Untaken(TheOffer) /\ pc[c].remoteOffer = TheOffer
            /\ o.desc.by = c
        BY <2>1, <3>1 DEF MadeBy, CalleeCall
      <3>3. pc'[c] = SetLocalAnswer(pc[c], o.desc)
        BY <1>t, <2>0, <2>7 DEF AnswerSet, PageTypeOK
      <3>4. PICK s : s = [offer |-> TheOffer, answer |-> o.desc]
        OBVIOUS
      <3>5. pc'[c].current = s
        BY <2>1, <3>2, <3>3, <3>4, SetLocalAnswerLeaves
      <3>6. TheOffer # None /\ ~ Sessions!Taken(TheOffer)
        BY <1>t, <3>2, UntakenMapped DEF OffersNumbered
      <3>7. o.desc \in [type : {"answer"}, by : Clients, n : Nat]
        BY <2>2, <2>3, <3>1, <3>2
      <3>8. /\ s \in [offer : {TheOffer}, answer : [type : {"answer"}, by : Clients, n : Nat]]
            /\ s.answer.by = c
        BY <3>2, <3>4, <3>7
      <3>9. /\ [t \in Clients |-> pc'[t].current]
                 = [[t \in Clients |-> pc[t].current] EXCEPT ![c] = s]
            /\ [t \in Clients |-> pc'[t].current][c] = s
        BY <2>1, <3>5
      <3>10. [k \in Callers |-> pc'[k].localOffer] = [k \in Callers |-> pc[k].localOffer]
        BY <1>t, <2>1, <3>1
      <3>11. [k \in Callers |-> pc[k].localOffer][caller] = TheOffer
        BY <1>t DEF TheOffer
      <3>12. Sessions!Accept(c, caller)
        BY <3>1, <3>6, <3>8, <3>9, <3>10, <3>11 DEF Sessions!Accept
      <3>13. QED
        BY <1>t, <3>12 DEF Sessions!HandshakeNext
    <2>8. CASE RemoteAnswerSet(c)
      <3>1. c = caller /\ Waiting /\ AnswersIt(o.desc)
        BY <2>0, <2>1, <2>8 DEF RemoteAnswerSet, Resolved, MadeBy, CallerCall
      <3>2. PICK t \in Clients \ {caller} : t = o.desc.by
        BY <3>1 DEF AnswersIt
      <3>3. PICK s : s = [offer |-> TheOffer, answer |-> o.desc]
        OBVIOUS
      <3>4. pc[t].current = s /\ s.offer = TheOffer /\ TheOffer # None
        BY <1>t, <3>1, <3>2, <3>3 DEF AnswersIt, OffersNumbered
      <3>5. pc'[c] = SetRemoteAnswer(pc[c], o.desc)
        BY <1>t, <2>0, <2>8 DEF RemoteAnswerSet, PageTypeOK
      <3>6. pc'[c].current = s /\ pc'[c].localOffer = None
        BY <2>1, <3>1, <3>3, <3>5, SetRemoteAnswerLeaves DEF TheOffer
      <3>7. s # None
        <4>1. o.desc \in Descriptions /\ TheOffer \in Descriptions
          <5>1. o.desc \in Descriptions
            BY <2>0, <2>8 DEF RemoteAnswerSet, Resolved, Ops
          <5>2. TheOffer \in Descriptions \cup {None}
            BY <1>t, <2>0, <2>1, <3>1 DEF PageTypeOK, PeerConnections, TheOffer
          <5>3. QED
            BY <3>4, <5>1, <5>2
        <4>2. s \in [offer : Descriptions, answer : Descriptions]
          BY <3>3, <4>1
        <4>3. QED
          BY <4>2, ChatConstants
      <3>8. [u \in Clients |-> pc'[u].current]
              = [[u \in Clients |-> pc[u].current] EXCEPT ![caller] = s]
        BY <2>1, <3>1, <3>6
      <3>9. [k \in Callers |-> pc'[k].localOffer]
              = [[k \in Callers |-> pc[k].localOffer] EXCEPT ![caller] = None]
        BY <1>t, <3>1, <3>6
      <3>10. /\ [k \in Callers |-> pc[k].localOffer][caller] = TheOffer
             /\ [u \in Clients |-> pc[u].current][t] = s
        BY <1>t, <3>4 DEF TheOffer
      <3>11. Sessions!Conclude(caller, t)
        BY <3>2, <3>4, <3>7, <3>8, <3>9, <3>10 DEF Sessions!Conclude
      <3>12. QED
        BY <1>t, <3>11 DEF Sessions!HandshakeNext
    <2>9. QED
      BY <1>2, <1>t, <2>4, <2>5, <2>6, <2>7, <2>8, NeverHappens DEF CallStep
  <1>3. QED
    BY <1>1, <1>2

\* With one caller, page.tsx and the relay implement the handshake: whatever
\* is lost, however late renders, effects and continuations run, an offer is
\* accepted by at most one tab and concluded with what that tab accepted.
THEOREM CallsAreHandshakes == ASSUME OneCallerOnly PROVE Spec => ImplementsHandshake
  <1>1. Init => Sessions!HandshakeInit
    BY HandshakeInitMapped
  <1>2. TypeOK /\ OneCallInv /\ [Next]_vars
          => [Sessions!HandshakeNext]_(Sessions!handshakeVars)
    BY HandshakeStepMapped
  <1>3. QED
    BY <1>1, <1>2, OneCall, ChatTypeCorrect, PTL
       DEF Spec, ImplementsHandshake, Sessions!HandshakeSpec
=============================================================================
