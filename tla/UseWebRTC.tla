------------------------------ MODULE UseWebRTC ------------------------------
(***************************************************************************)
(* hooks/useWebRTC.ts in one component, over the browser's connection of   *)
(* PeerConnection.  Each run of the effect makes a connection and closes   *)
(* the one before; a call that is pending on a closed connection never     *)
(* settles.  As in HomePage, a setState changes `latest` and the functions *)
(* of the hook see the committed render.  Its caller may be any task, so   *)
(* two calls may come before the next render.  Candidates found by the     *)
(* connection only go to the callback and change nothing here.             *)
(***************************************************************************)
EXTENDS PeerConnection, Sequences

CONSTANTS
    MaxChanges,  \* bound: renders with other callbacks
    MaxOffers,   \* bound: calls of createOffer
    MaxReceived  \* bound: calls of handleOffer, handleAnswer, addIceCandidate

ASSUME HookConstants ==
    MaxChanges \in Nat /\ MaxOffers \in Nat /\ MaxReceived \in Nat

VARIABLES
    latest, rendered,  \* the React state, and the options of the hook
    ran, run,          \* dependencies and number of the last run of the effect
    pc,                \* peerConnectionRef.current
    ops,               \* its calls whose promise is pending
    remoteVideo,       \* the connection whose stream the video element shows
    raised,            \* history: the connection the flag was last raised for
    offers, received,  \* counters for the bounds
    host               \* the component: "mounted" or "unmounted"

reactVars == <<latest, rendered, ran, run, host>>
counters  == <<offers, received>>
vars == <<reactVars, pc, ops, remoteVideo, raised, counters>>

FirstRender ==
    [isNegotiating |-> FALSE, connectionState |-> "new",
     localStream |-> FALSE, callbacks |-> 0]

\* A call on the connection and the function of the hook that awaits it.
Op(op, d, fn) == [op |-> op, desc |-> d, fn |-> fn]

Init ==
    /\ latest = FirstRender /\ rendered = FirstRender
    /\ ran = 0 /\ run = 0
    /\ pc = NewPeerConnection
    /\ ops = << >>
    /\ remoteVideo = 0 /\ raised = 0
    /\ offers = 0 /\ received = 0
    /\ host = "mounted"

-----------------------------------------------------------------------------
(* React *)

\* The dependencies of the effect: the callbacks and a ref.
EffectPending == host = "mounted" /\ (run = 0 \/ rendered.callbacks # ran)

Render ==
    /\ host = "mounted" /\ ~ EffectPending
    /\ latest # rendered
    /\ rendered' = latest
    /\ UNCHANGED <<latest, ran, run, host, pc, ops, remoteVideo, raised, counters>>

\* The component will render with other callbacks, or with its stream.
ChangeOptions ==
    /\ host = "mounted"
    /\ \/ /\ latest.callbacks < MaxChanges
          /\ latest' = [latest EXCEPT !.callbacks = @ + 1]
       \/ /\ ~ latest.localStream
          /\ latest' = [latest EXCEPT !.localStream = TRUE]
    /\ UNCHANGED <<rendered, ran, run, host, pc, ops, remoteVideo, raised, counters>>

\* The cleanup of the previous run, pc.close(), then a new connection.
Effect ==
    /\ EffectPending
    /\ run' = run + 1
    /\ ran' = rendered.callbacks
    /\ pc' = NewPeerConnection
    /\ ops' = << >>
    /\ UNCHANGED <<latest, rendered, host, remoteVideo, raised, counters>>

Unmount ==
    /\ host = "mounted" /\ ~ EffectPending
    /\ host' = "unmounted"
    /\ ops' = << >>
    /\ UNCHANGED <<latest, rendered, ran, run, pc, remoteVideo, raised, counters>>

-----------------------------------------------------------------------------
(* The functions of the hook, up to their first await *)

\* The ref holds a connection, and one that is not closed.
Connected == host = "mounted" /\ run # 0

setIsNegotiating(b) ==
    /\ latest' = [latest EXCEPT !.isNegotiating = b]
    /\ raised' = IF b THEN run ELSE raised

\* addTracksToConnection, unless hasTracksAdded.
WithTracks(p) == IF rendered.localStream /\ ~ HasSenders(p) THEN AddTrack(p) ELSE p

createOffer ==
    /\ Connected /\ offers < MaxOffers
    /\ rendered.localStream /\ ~ rendered.isNegotiating
    /\ setIsNegotiating(TRUE)
    /\ pc' = WithTracks(pc)
    /\ ops' = Append(ops, Op("createOffer", None, "createOffer"))
    /\ offers' = offers + 1
    /\ UNCHANGED <<rendered, ran, run, host, remoteVideo, received>>

\* The peer and its messages are numbered by the caller.
Receive == Connected /\ received < MaxReceived /\ received' = received + 1

\* With an offer, or with a description that the browser refuses.
handleOffer(type) ==
    /\ Receive
    /\ setIsNegotiating(TRUE)
    /\ pc' = WithTracks(pc)
    /\ LET d == [Offer("peer", received + 1) EXCEPT !.type = type]
       IN  ops' = Append(ops, Op("setRemote", d, "handleOffer"))
    /\ UNCHANGED <<rendered, ran, run, host, remoteVideo, offers>>

handleAnswer ==
    /\ Receive
    /\ ops' = Append(ops, Op("setRemote", Answer("peer", received + 1), "handleAnswer"))
    /\ UNCHANGED <<reactVars, pc, remoteVideo, raised, offers>>

addIceCandidate ==
    /\ Receive
    /\ ops' = Append(ops, Op("addIceCandidate", None, "addIceCandidate"))
    /\ UNCHANGED <<reactVars, pc, remoteVideo, raised, offers>>

-----------------------------------------------------------------------------
(* The connection: results of the pending calls, and events *)

Call == Head(ops)

Resolved(op) == ops # << >> /\ Call.op = op /\ Resolves(pc, Call)

\* The function goes on with another call, or returns to its caller.
NextCall(op, d) == ops' = Append(Tail(ops), Op(op, d, Call.fn))
Return == ops' = Tail(ops)

OfferCreated ==
    /\ Resolved("createOffer")
    /\ pc' = CreatedOffer(pc, "me")
    /\ NextCall("setLocal", Offer("me", pc.made + 1))
    /\ UNCHANGED <<reactVars, remoteVideo, raised, counters>>

OfferSet ==
    /\ Resolved("setLocal") /\ Call.desc.type = "offer"
    /\ pc' = SetLocalOffer(pc, Call.desc)
    /\ Return
    /\ UNCHANGED <<reactVars, remoteVideo, raised, counters>>

\* A remote offer that rolls a local one back takes the connection through
\* stable, and the handler of that state lowers the flag.
RolledBack ==
    IF pc.sig = "have-local-offer" THEN setIsNegotiating(FALSE) ELSE UNCHANGED <<latest, raised>>

\* Faulty variant: every remote description is answered.
RemoteDescriptionSet ==
    /\ Resolved("setRemote")
    /\ pc' = SetRemoteOffer(pc, Call.desc)
    /\ RolledBack
    /\ NextCall("createAnswer", None)
    /\ UNCHANGED <<rendered, ran, run, host, remoteVideo, counters>>

RemoteOfferSet ==
    /\ Resolved("setRemote") /\ Call.desc.type = "offer"
    /\ pc' = SetRemoteOffer(pc, Call.desc)
    /\ RolledBack
    /\ NextCall("createAnswer", None)
    /\ UNCHANGED <<rendered, ran, run, host, remoteVideo, counters>>

\* Faulty variant: the answer is returned without being set.
AnswerReturned ==
    /\ Resolved("createAnswer")
    /\ pc' = CreatedAnswer(pc, "me")
    /\ Return
    /\ UNCHANGED <<reactVars, remoteVideo, raised, counters>>

AnswerCreated ==
    /\ Resolved("createAnswer")
    /\ pc' = CreatedAnswer(pc, "me")
    /\ NextCall("setLocal", Answer("me", pc.made + 1))
    /\ UNCHANGED <<reactVars, remoteVideo, raised, counters>>

\* Either answer: the connection is stable and its handler lowers the flag
\* before the promise resolves.
AnswerSet ==
    /\ \/ Resolved("setLocal") /\ pc' = SetLocalAnswer(pc, Call.desc)
       \/ Resolved("setRemote") /\ pc' = SetRemoteAnswer(pc, Call.desc)
    /\ Call.desc.type = "answer"
    /\ setIsNegotiating(FALSE)
    /\ Return
    /\ UNCHANGED <<rendered, ran, run, host, remoteVideo, counters>>

CandidateAdded ==
    /\ Resolved("addIceCandidate")
    /\ pc' = AddCandidate(pc)
    /\ Return
    /\ UNCHANGED <<reactVars, remoteVideo, raised, counters>>

\* Faulty variants: only createOffer lowers the flag; the call is repeated.
CatchOfCreateOffer(fn) == fn = "createOffer"
Retried == ops' = Append(Tail(ops), Call)

\* The functions whose catch block lowers the flag.
CatchLowersFlag(fn) == fn \in {"createOffer", "handleOffer"}

\* A catch block ends the function.
CatchReturns == ops' = Tail(ops)

CallRejected ==
    /\ ops # << >> /\ ~ Resolves(pc, Call)
    /\ IF CatchLowersFlag(Call.fn)
         THEN setIsNegotiating(FALSE)
         ELSE UNCHANGED <<latest, raised>>
    /\ CatchReturns
    /\ UNCHANGED <<rendered, ran, run, host, pc, remoteVideo, counters>>

\* oniceconnectionstatechange, once both descriptions are there.
OnIceConnectionStateChange(state) ==
    /\ Connected /\ pc.current # None
    /\ latest' = [latest EXCEPT !.connectionState = state]
    /\ UNCHANGED <<rendered, ran, run, host, pc, ops, remoteVideo, raised, counters>>

\* ontrack
OnTrack ==
    /\ Connected /\ HasRemoteDescription(pc)
    /\ remoteVideo' = run
    /\ UNCHANGED <<reactVars, pc, ops, raised, counters>>

CallStep ==
    \/ OfferCreated \/ OfferSet \/ RemoteOfferSet \/ AnswerCreated
    \/ AnswerSet \/ CandidateAdded \/ CallRejected

ReactStep == Render \/ Effect

\* Two of the states of the ICE agent, which may alternate for ever.
IceStates == {"connected", "disconnected"}

Next ==
    \/ ReactStep \/ ChangeOptions \/ Unmount
    \/ createOffer \/ handleAnswer \/ addIceCandidate
    \/ \E type \in {"offer", "refused"} : handleOffer(type)
    \/ CallStep
    \/ OnTrack
    \/ \E state \in IceStates : OnIceConnectionStateChange(state)

Spec == Init /\ [][Next]_vars

\* React renders what was set and runs the effects of a render; the browser
\* settles the calls on an open connection.
FairSpec == Spec /\ WF_vars(ReactStep) /\ WF_vars(CallStep)

-----------------------------------------------------------------------------
(* Properties *)

HookStates ==
    [isNegotiating : BOOLEAN, connectionState : IceStates \cup {"new"},
     localStream : BOOLEAN, callbacks : Nat]

Descriptions(types) == [type : types, by : {"me", "peer"}, n : Nat]

Offers  == Descriptions({"offer"})
Answers == Descriptions({"answer"})

Connections ==
    [sig : SignalingStates,
     localOffer : Offers \cup {None}, remoteOffer : Offers \cup {None},
     current : [offer : Offers \cup {None}, answer : Answers] \cup {None},
     lastOffer : Offers \cup {None}, lastAnswer : Answers \cup {None},
     senders : {"none", "receiving", "tracks"}, candidates : Nat, made : Nat]

\* The calls that each function of the hook makes.
Ops ==
    [op : {"createOffer"}, desc : {None}, fn : {"createOffer"}]
      \cup [op : {"setLocal"}, desc : Offers, fn : {"createOffer"}]
      \cup [op : {"setRemote"}, desc : Descriptions({"offer", "refused"}), fn : {"handleOffer"}]
      \cup [op : {"createAnswer"}, desc : {None}, fn : {"handleOffer"}]
      \cup [op : {"setLocal"}, desc : Answers, fn : {"handleOffer"}]
      \cup [op : {"setRemote"}, desc : Answers, fn : {"handleAnswer"}]
      \cup [op : {"addIceCandidate"}, desc : {None}, fn : {"addIceCandidate"}]

\* The states of the hook keep their types and every pending call belongs to
\* a function that makes it.
TypeOK ==
    /\ latest \in HookStates /\ rendered \in HookStates
    /\ ran \in Nat /\ run \in Nat /\ remoteVideo \in 0..run /\ raised \in 0..run
    /\ pc \in Connections
    /\ ops \in Seq(Ops)
    /\ offers \in 0..MaxOffers /\ received \in 0..MaxReceived
    /\ host \in {"mounted", "unmounted"}

\* A negotiation that was begun on the connection in use ends: when no call
\* is pending on it, the flag is up only while an offer waits for its answer.
FlagReturns ==
    /\ host = "mounted" /\ ops = << >>
    /\ latest.isNegotiating /\ raised = run
    => pc.sig = "have-local-offer"

\* handleOffer never stops half way, whatever other calls come between its
\* three: when no call is pending, no remote offer is left unanswered.
OffersCompleted ==
    host = "mounted" /\ ops = << >> => pc.sig # "have-remote-offer"

\* After the last call from outside, every promise of the hook has settled
\* or belongs to a closed connection, the flag shown is the flag set, and
\* the connection is not replaced again.
HookSettles ==
    <>[](/\ ops = << >> /\ ~ EffectPending
         /\ host = "mounted" => latest.isNegotiating = rendered.isNegotiating)

-----------------------------------------------------------------------------
(* What a comment of the code says and the code does not do *)

\* isNegotiating tells "whether a negotiation is under way"
\* (useWebRTC.ts:60), here when no call is pending and every state rendered.
NegotiatingAccurate ==
    /\ host = "mounted" /\ ~ EffectPending /\ latest = rendered /\ ops = << >>
    /\ rendered.isNegotiating
    => pc.sig # "stable"
=============================================================================
