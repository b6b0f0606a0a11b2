------------------------------- MODULE HomePage -------------------------------
(***************************************************************************)
(* webrtc/src/app/page.tsx, one instance per browser tab.  A tab runs one  *)
(* task at a time.  A setState changes `latest`; the handlers and effects  *)
(* of a committed render see `rendered`, the state of that render; the     *)
(* socket and connection handlers, made once by the mount effect, see the  *)
(* first render for ever.  A render commits all the states set before it;  *)
(* the effects whose dependencies changed run later, in declaration order, *)
(* and before the next render.  After an input event React renders and     *)
(* runs the effects before any other task of the tab.                      *)
(***************************************************************************)
EXTENDS PeerConnection, Sequences

CONSTANTS
    Clients,    \* tabs that run page.tsx, named by the client id they get
    Strangers,  \* other ids: clients of another implementation, typing errors
    EmptyId,    \* ""
    MaxEdits,   \* bound: edits of the peer id field, per tab
    MaxClicks,  \* bound: clicks on the connect button, per tab
    MaxGathered \* bound: local ICE candidates, per tab

ASSUME PageConstants ==
    /\ None \notin Clients \cup Strangers \cup {EmptyId}
    /\ EmptyId \notin Clients \cup Strangers
    /\ Clients \cap Strangers = {}
    /\ MaxEdits \in Nat /\ MaxClicks \in Nat /\ MaxGathered \in Nat

VARIABLES
    latest,       \* the React state, every setState applied
    rendered,     \* the React state of the committed render
    effects,      \* effects of that render still to run
    flush,        \* stage of the synchronous flush after an input event
    peerIdRef,    \* peerIdRef.current
    negotiating,  \* isNegotiatingRef.current
    media,        \* getUserMedia: pending, granted (localStreamRef) or denied
    pc,           \* peerConnectionRef.current
    ops,          \* its operations chain: calls whose promise is pending
    link,         \* the WebSocket; "left": the tab is closed
    up, down,     \* messages sent on it, messages to be read from it
    edits, clicks, gathered   \* counters for the bounds

reactVars  == <<latest, rendered, effects, flush, peerIdRef>>
rtcVars    == <<negotiating, pc, ops>>
socketVars == <<link, up, down>>
userVars   == <<media, edits, clicks, gathered>>
pageVars   == <<reactVars, rtcVars, socketVars, userVars>>

Ids == Clients \cup Strangers

Welcome(c)            == [kind |-> "welcome", id |-> c]
Sdp(from, to, d)      == [kind |-> d.type, from |-> from, to |-> to, desc |-> d]
Candidate(from, to)   == [kind |-> "candidate", from |-> from, to |-> to]

\* A call on the connection with what its continuation will need: the
\* description, the addressee and the client id its closure holds.
Op(op, d, to, cid) == [op |-> op, desc |-> d, to |-> to, cid |-> cid]

FirstRender ==
    [clientId |-> None, peerId |-> EmptyId, pendingSDP |-> None, ready |-> FALSE]

\* What the handlers made by the mount effect (dependencies []) see.
mountClosure(c) == FirstRender

PageInit ==
    /\ latest = [c \in Clients |-> FirstRender]
    /\ rendered = [c \in Clients |-> FirstRender]
    /\ effects = [c \in Clients |-> {}]
    /\ flush = [c \in Clients |-> "idle"]
    /\ peerIdRef = [c \in Clients |-> EmptyId]
    /\ negotiating = [c \in Clients |-> FALSE]
    /\ media = [c \in Clients |-> "pending"]
    /\ pc = [c \in Clients |-> NewPeerConnection]
    /\ ops = [c \in Clients |-> << >>]
    /\ link = [c \in Clients |-> "connecting"]
    /\ up = [c \in Clients |-> << >>]
    /\ down = [c \in Clients |-> << >>]
    /\ edits = [c \in Clients |-> 0]
    /\ clicks = [c \in Clients |-> 0]
    /\ gathered = [c \in Clients |-> 0]

\* The tab may start a task.
Ready(c) == link[c] # "left" /\ flush[c] = "idle"

-----------------------------------------------------------------------------
(* React *)

\* Faulty variant: peerId is missing from the dependencies of its effect.
NoPeerIdDep(s) == {}

\* The dependency arrays of the two effects that have one.
PeerIdDeps(s) == {s.peerId}

SDPDeps(s) == <<s.clientId, s.pendingSDP>>

ChangedEffects(old, new) ==
    {e \in {"peerIdRef", "sdp"} :
       \/ e = "peerIdRef" /\ PeerIdDeps(old) # PeerIdDeps(new)
       \/ e = "sdp" /\ SDPDeps(old) # SDPDeps(new)}

Render(c) ==
    /\ link[c] # "left"
    /\ effects[c] = {}
    /\ latest[c] # rendered[c]
    /\ rendered' = [rendered EXCEPT ![c] = latest[c]]
    /\ effects' = [effects EXCEPT ![c] = ChangedEffects(rendered[c], latest[c])]
    /\ flush' = [flush EXCEPT ![c] = IF @ = "render" THEN "effects" ELSE @]
    /\ UNCHANGED <<latest, peerIdRef, rtcVars, socketVars, userVars>>

EffectsDone(c) ==
    /\ effects' = [effects EXCEPT ![c] = {}]
    /\ flush' = [flush EXCEPT ![c] = IF @ = "effects" THEN "idle" ELSE @]

\* The condition of the second effect.
SDPToHandle(c) ==
    /\ "sdp" \in effects[c]
    /\ rendered[c].clientId # None
    /\ rendered[c].pendingSDP # None

\* Effects with no description to handle: at most the ref is brought up to
\* date with the state.
RunEffects(c) ==
    /\ link[c] # "left"
    /\ effects[c] # {}
    /\ ~ SDPToHandle(c)
    /\ peerIdRef' = IF "peerIdRef" \in effects[c]
                      THEN [peerIdRef EXCEPT ![c] = rendered[c].peerId]
                      ELSE peerIdRef
    /\ EffectsDone(c)
    /\ UNCHANGED <<latest, rendered, rtcVars, socketVars, userVars>>

\* peerId of the sender adopted by handleSDPMessage when the field is empty
\* in the render whose closure runs.
AdoptsSender(c) == rendered[c].peerId = EmptyId

\* Effects with a description: handleSDPMessage runs up to its first await,
\* then pendingSDP is set to null, whatever has been set since the render.
RunSDPEffect(c) ==
    /\ link[c] # "left"
    /\ SDPToHandle(c)
    /\ LET r == rendered[c]
           m == r.pendingSDP
       IN  /\ latest' = [latest EXCEPT
                ![c].pendingSDP = None,
                ![c].peerId = IF AdoptsSender(c) THEN m.from ELSE @]
           /\ peerIdRef' = [peerIdRef EXCEPT
                ![c] = IF AdoptsSender(c) THEN m.from
                       ELSE IF "peerIdRef" \in effects[c] THEN r.peerId
                       ELSE @]
           /\ pc' = [pc EXCEPT
                ![c] = IF m.kind = "offer" /\ media[c] = "granted"
                            /\ ~ HasSenders(@)
                         THEN AddTrack(@) ELSE @]
           /\ ops' = [ops EXCEPT
                ![c] = Append(@, Op("setRemote", m.desc, m.from, r.clientId))]
    /\ EffectsDone(c)
    /\ UNCHANGED <<rendered, negotiating, socketVars, userVars>>

-----------------------------------------------------------------------------
(* The WebSocket *)

\* A message with the client id of the closure as "from".  Without an id it
\* is dropped with a warning; on a socket that has closed, by the browser.
sendMessage(c, cid, m) ==
    up' = IF cid # None /\ link[c] = "open"
            THEN [up EXCEPT ![c] = Append(@, m)]
            ELSE up

Received(c, kinds) ==
    /\ Ready(c)
    /\ down[c] # << >>
    /\ Head(down[c]).kind \in kinds
    /\ down' = [down EXCEPT ![c] = Tail(@)]

OnWelcome(c) ==
    /\ Received(c, {"welcome"})
    /\ latest' = [latest EXCEPT ![c].clientId = Head(down[c]).id]
    /\ UNCHANGED <<rendered, effects, flush, peerIdRef>>
    /\ UNCHANGED <<rtcVars, userVars, link, up>>

OnSDP(c) ==
    /\ Received(c, {"offer", "answer"})
    /\ latest' = [latest EXCEPT ![c].pendingSDP = Head(down[c])]
    /\ UNCHANGED <<rendered, effects, flush, peerIdRef>>
    /\ UNCHANGED <<rtcVars, userVars, link, up>>

\* handleIceCandidateMessage, up to its await.
OnCandidate(c) ==
    /\ Received(c, {"candidate"})
    /\ LET from == Head(down[c]).from
       IN  IF mountClosure(c).peerId = EmptyId
             THEN /\ latest' = [latest EXCEPT ![c].peerId = from]
                  /\ peerIdRef' = [peerIdRef EXCEPT ![c] = from]
             ELSE UNCHANGED <<latest, peerIdRef>>
    /\ ops' = [ops EXCEPT ![c] = Append(@, Op("addIceCandidate", None, None, None))]
    /\ UNCHANGED <<rendered, effects, flush, negotiating, pc>>
    /\ UNCHANGED <<userVars, link, up>>

-----------------------------------------------------------------------------
(* The user and the devices *)

MediaGranted(c) ==
    /\ Ready(c)
    /\ media[c] = "pending"
    /\ media' = [media EXCEPT ![c] = "granted"]
    /\ latest' = [latest EXCEPT ![c].ready = TRUE]
    /\ UNCHANGED <<rendered, effects, flush, peerIdRef>>
    /\ UNCHANGED <<rtcVars, socketVars, edits, clicks, gathered>>

MediaDenied(c) ==
    /\ Ready(c)
    /\ media[c] = "pending"
    /\ media' = [media EXCEPT ![c] = "denied"]
    /\ UNCHANGED <<reactVars, rtcVars, socketVars, edits, clicks, gathered>>

\* onChange of the peer id field.  An id is typed only once its tab shows it.
OnChange(c, v) ==
    /\ Ready(c)
    /\ edits[c] < MaxEdits
    /\ v # rendered[c].peerId
    /\ v \in Clients => rendered[v].clientId # None
    /\ latest' = [latest EXCEPT ![c].peerId = v]
    /\ flush' = [flush EXCEPT ![c] = "render"]
    /\ edits' = [edits EXCEPT ![c] = @ + 1]
    /\ UNCHANGED <<rendered, effects, peerIdRef, rtcVars, socketVars>>
    /\ UNCHANGED <<media, clicks, gathered>>

\* Faulty variants: without the check of the peer id, without the flag.
MayOfferAnyone(c) ==
    rendered[c].ready /\ media[c] = "granted" /\ ~ negotiating[c]

MayOfferAgain(c) ==
    rendered[c].ready /\ media[c] = "granted" /\ rendered[c].peerId # EmptyId

\* The button's disabled attribute and the checks of createOffer.
MayOffer(c) ==
    /\ rendered[c].ready /\ media[c] = "granted"
    /\ rendered[c].peerId # EmptyId
    /\ ~ negotiating[c]

\* A click on the button: createOffer, up to its first await.
createOffer(c) ==
    /\ Ready(c)
    /\ clicks[c] < MaxClicks
    /\ MayOffer(c)
    /\ negotiating' = [negotiating EXCEPT ![c] = TRUE]
    /\ pc' = [pc EXCEPT ![c] = IF HasSenders(@) THEN @ ELSE AddTrack(@)]
    /\ ops' = [ops EXCEPT ![c] =
         Append(@, Op("createOffer", None, rendered[c].peerId, rendered[c].clientId))]
    /\ clicks' = [clicks EXCEPT ![c] = @ + 1]
    /\ UNCHANGED <<reactVars, socketVars, media, edits, gathered>>

-----------------------------------------------------------------------------
(* The connection: results of the pending calls, and events *)

\* The oldest pending call, and its success.
Call(c) == Head(ops[c])

Resolved(c, op) ==
    /\ Ready(c)
    /\ ops[c] # << >>
    /\ Call(c).op = op
    /\ Resolves(pc[c], Call(c))

\* The continuation makes one more call.
NextCall(c, o) == ops' = [ops EXCEPT ![c] = Append(Tail(@), o)]

LastCall(c) == ops' = [ops EXCEPT ![c] = Tail(@)]

\* Faulty variant: the flag is left to the catch blocks.
StableIgnored(c) == UNCHANGED negotiating

\* signalingstatechange with "stable": the flag is cleared, before the
\* promise that caused it resolves.
onStable(c) == negotiating' = [negotiating EXCEPT ![c] = FALSE]

\* sendMessage of the description just set.
sendDescription(c) ==
    LET o == Call(c) IN sendMessage(c, o.cid, Sdp(o.cid, o.to, o.desc))

OfferCreated(c) ==
    /\ Resolved(c, "createOffer")
    /\ pc' = [pc EXCEPT ![c] = CreatedOffer(@, c)]
    /\ NextCall(c, Op("setLocal", Offer(c, pc[c].made + 1), Call(c).to, Call(c).cid))
    /\ UNCHANGED <<negotiating, reactVars, socketVars, userVars>>

\* The offer is sent once it is the local description.
OfferSet(c) ==
    /\ Resolved(c, "setLocal") /\ Call(c).desc.type = "offer"
    /\ pc' = [pc EXCEPT ![c] = SetLocalOffer(@, Call(c).desc)]
    /\ LastCall(c)
    /\ sendDescription(c)
    /\ UNCHANGED <<negotiating, reactVars, userVars, link, down>>

RemoteOfferSet(c) ==
    /\ Resolved(c, "setRemote") /\ Call(c).desc.type = "offer"
    /\ pc' = [pc EXCEPT ![c] = SetRemoteOffer(@, Call(c).desc)]
    /\ negotiating' = [negotiating EXCEPT ![c] = TRUE]
    /\ NextCall(c, Op("createAnswer", None, Call(c).to, Call(c).cid))
    /\ UNCHANGED <<reactVars, socketVars, userVars>>

RemoteAnswerSet(c) ==
    /\ Resolved(c, "setRemote") /\ Call(c).desc.type = "answer"
    /\ pc' = [pc EXCEPT ![c] = SetRemoteAnswer(@, Call(c).desc)]
    /\ onStable(c)
    /\ LastCall(c)
    /\ UNCHANGED <<reactVars, socketVars, userVars>>

\* Faulty variant: the answer is sent before it is set, and not after.
AnswerSentFirst(c) ==
    /\ Resolved(c, "createAnswer")
    /\ pc' = [pc EXCEPT ![c] = CreatedAnswer(@, c)]
    /\ LET o == Call(c)
           answer == Answer(c, pc[c].made + 1)
       IN  /\ NextCall(c, Op("setLocal", answer, o.to, None))
           /\ sendMessage(c, o.cid, Sdp(o.cid, o.to, answer))
    /\ UNCHANGED <<negotiating, reactVars, userVars, link, down>>

AnswerCreated(c) ==
    /\ Resolved(c, "createAnswer")
    /\ pc' = [pc EXCEPT ![c] = CreatedAnswer(@, c)]
    /\ NextCall(c, Op("setLocal", Answer(c, pc[c].made + 1), Call(c).to, Call(c).cid))
    /\ UNCHANGED <<negotiating, reactVars, socketVars, userVars>>

\* Faulty variant: the answer is set and not sent.
AnswerKept(c) ==
    /\ Resolved(c, "setLocal") /\ Call(c).desc.type = "answer"
    /\ pc' = [pc EXCEPT ![c] = SetLocalAnswer(@, Call(c).desc)]
    /\ onStable(c)
    /\ LastCall(c)
    /\ UNCHANGED <<reactVars, socketVars, userVars>>

AnswerSet(c) ==
    /\ Resolved(c, "setLocal") /\ Call(c).desc.type = "answer"
    /\ pc' = [pc EXCEPT ![c] = SetLocalAnswer(@, Call(c).desc)]
    /\ onStable(c)
    /\ LastCall(c)
    /\ sendDescription(c)
    /\ UNCHANGED <<reactVars, userVars, link, down>>

CandidateAdded(c) ==
    /\ Resolved(c, "addIceCandidate")
    /\ pc' = [pc EXCEPT ![c] = AddCandidate(@)]
    /\ LastCall(c)
    /\ UNCHANGED <<negotiating, reactVars, socketVars, userVars>>

\* A call fails in the wrong state; and a description of another
\* implementation may be one that the browser refuses.
MayFail(c) ==
    \/ ~ Resolves(pc[c], Call(c))
    \/ Call(c).op = "setRemote" /\ Call(c).desc.by \in Strangers

\* Faulty variant: the call is made again.
CatchAndRetry(c) ==
    /\ Ready(c)
    /\ ops[c] # << >>
    /\ MayFail(c)
    /\ negotiating' = [negotiating EXCEPT ![c] = FALSE]
    /\ NextCall(c, Call(c))
    /\ UNCHANGED <<pc, reactVars, socketVars, userVars>>

\* The catch blocks: those of createOffer and handleSDPMessage clear the
\* flag, the one of handleIceCandidateMessage does not.
CallRejected(c) ==
    /\ Ready(c)
    /\ ops[c] # << >>
    /\ MayFail(c)
    /\ negotiating' = [negotiating EXCEPT
         ![c] = IF Call(c).op = "addIceCandidate" THEN @ ELSE FALSE]
    /\ LastCall(c)
    /\ UNCHANGED <<pc, reactVars, socketVars, userVars>>

\* onicecandidate: gathering starts with a local description.
OnIceCandidate(c) ==
    /\ Ready(c)
    /\ gathered[c] < MaxGathered
    /\ pc[c].localOffer # None \/ pc[c].current # None
    /\ gathered' = [gathered EXCEPT ![c] = @ + 1]
    /\ IF peerIdRef[c] # EmptyId
         THEN sendMessage(c, mountClosure(c).clientId, Candidate(c, peerIdRef[c]))
         ELSE UNCHANGED up
    /\ UNCHANGED <<reactVars, rtcVars, link, down, media, edits, clicks>>

CallStep(c) ==
    \/ OfferCreated(c) \/ OfferSet(c)
    \/ RemoteOfferSet(c) \/ RemoteAnswerSet(c)
    \/ AnswerCreated(c) \/ AnswerSet(c)
    \/ CandidateAdded(c) \/ CallRejected(c)

MessageStep(c) == OnWelcome(c) \/ OnSDP(c) \/ OnCandidate(c)

ReactStep(c) == Render(c) \/ RunEffects(c) \/ RunSDPEffect(c)

-----------------------------------------------------------------------------
(* Types *)

Descriptions == [type : {"offer", "answer"}, by : Ids, n : Nat]

SdpMessages ==
    [kind : {"offer", "answer"}, from : Ids, to : Ids, desc : Descriptions]

Messages ==
    SdpMessages \cup [kind : {"welcome"}, id : Clients]
                \cup [kind : {"candidate"}, from : Ids, to : Ids]

PageStates ==
    [clientId : Clients \cup {None}, peerId : Ids \cup {EmptyId},
     pendingSDP : SdpMessages \cup {None}, ready : BOOLEAN]

PeerConnections ==
    [sig : SignalingStates,
     localOffer : Descriptions \cup {None}, remoteOffer : Descriptions \cup {None},
     current : [offer : Descriptions \cup {None}, answer : Descriptions] \cup {None},
     lastOffer : Descriptions \cup {None}, lastAnswer : Descriptions \cup {None},
     senders : {"none", "receiving", "tracks"}, candidates : Nat, made : Nat]

Ops ==
    [op : {"setLocal", "setRemote"}, desc : Descriptions, to : Ids,
     cid : Clients \cup {None}]
      \cup [op : {"createOffer", "createAnswer"}, desc : {None}, to : Ids,
            cid : Clients \cup {None}]
      \cup [op : {"addIceCandidate"}, desc : {None}, to : {None}, cid : {None}]

PageTypeOK ==
    /\ latest \in [Clients -> PageStates]
    /\ rendered \in [Clients -> PageStates]
    /\ effects \in [Clients -> SUBSET {"peerIdRef", "sdp"}]
    /\ flush \in [Clients -> {"idle", "render", "effects"}]
    /\ peerIdRef \in [Clients -> Ids \cup {EmptyId}]
    /\ negotiating \in [Clients -> BOOLEAN]
    /\ media \in [Clients -> {"pending", "granted", "denied"}]
    /\ pc \in [Clients -> PeerConnections]
    /\ ops \in [Clients -> Seq(Ops)]
    /\ link \in [Clients -> {"connecting", "open", "lost", "left"}]
    /\ up \in [Clients -> Seq(Messages)]
    /\ down \in [Clients -> Seq(Messages)]
    /\ edits \in [Clients -> Nat]
    /\ clicks \in [Clients -> Nat]
    /\ gathered \in [Clients -> Nat]
=============================================================================
