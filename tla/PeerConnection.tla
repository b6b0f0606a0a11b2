---------------------------- MODULE PeerConnection ----------------------------
(***************************************************************************)
(* The browser's RTCPeerConnection, as far as page.tsx and useWebRTC.ts    *)
(* use it (external).                                                      *)
(* A session description is known by its type, its maker and a number.     *)
(* The asynchronous methods run one at a time, in the order of the calls   *)
(* (the operations chain of the WebRTC standard): Resolves says which of   *)
(* them succeed in a given state, the operators below it what they leave.  *)
(***************************************************************************)
EXTENDS Naturals

CONSTANTS None   \* no description, no id, no message

SignalingStates == {"stable", "have-local-offer", "have-remote-offer"}

Offer(me, n)  == [type |-> "offer", by |-> me, n |-> n]
Answer(me, n) == [type |-> "answer", by |-> me, n |-> n]

NewPeerConnection ==
    [ sig         |-> "stable",
      localOffer  |-> None,     \* pending local description
      remoteOffer |-> None,     \* pending remote description
      current     |-> None,     \* the descriptions last agreed on
      lastOffer   |-> None,     \* what createOffer returned last
      lastAnswer  |-> None,     \* what createAnswer returned last
      senders     |-> "none",   \* "receiving": senders without a track
      candidates  |-> 0,        \* remote candidates accepted
      made        |-> 0 ]       \* descriptions created

HasRemoteDescription(p) == p.remoteOffer # None \/ p.current # None

\* getSenders() is not empty.  It lists the senders of the transceivers that
\* a remote offer created, which carry no local track.
HasSenders(p) == p.senders # "none"

AddTrack(p) == [p EXCEPT !.senders = "tracks"]

\* The operation o succeeds in state p; otherwise its promise is rejected.
\* A local description must be the one created last.  An answer is accepted
\* whatever offer it was made for.  A remote offer is always accepted: in
\* have-local-offer it rolls the local one back.
Resolves(p, o) ==
    \/ o.op = "createOffer" /\ p.sig \in {"stable", "have-local-offer"}
    \/ o.op = "createAnswer" /\ p.sig = "have-remote-offer"
    \/ /\ o.op = "setLocal" /\ o.desc.type = "offer" /\ o.desc = p.lastOffer
       /\ p.sig \in {"stable", "have-local-offer"}
    \/ /\ o.op = "setLocal" /\ o.desc.type = "answer" /\ o.desc = p.lastAnswer
       /\ p.sig = "have-remote-offer"
    \/ o.op = "setRemote" /\ o.desc.type = "offer"
    \/ o.op = "setRemote" /\ o.desc.type = "answer" /\ p.sig = "have-local-offer"
    \/ o.op = "addIceCandidate" /\ HasRemoteDescription(p)

CreatedOffer(p, me) ==
    [p EXCEPT !.made = @ + 1, !.lastOffer = Offer(me, p.made + 1)]

CreatedAnswer(p, me) ==
    [p EXCEPT !.made = @ + 1, !.lastAnswer = Answer(me, p.made + 1)]

SetLocalOffer(p, d) ==
    [p EXCEPT !.sig = "have-local-offer", !.localOffer = d]

SetRemoteOffer(p, d) ==
    [p EXCEPT !.sig = "have-remote-offer", !.localOffer = None,
              !.remoteOffer = d,
              !.senders = IF @ = "none" THEN "receiving" ELSE @]

\* An answer ends the negotiation: back to stable, nothing pending.
Agreed(p, offer, answer) ==
    [p EXCEPT !.sig = "stable", !.localOffer = None, !.remoteOffer = None,
              !.current = [offer |-> offer, answer |-> answer],
              !.lastOffer = None, !.lastAnswer = None]

SetLocalAnswer(p, d)  == Agreed(p, p.remoteOffer, d)
SetRemoteAnswer(p, d) == Agreed(p, p.localOffer, d)

AddCandidate(p) == [p EXCEPT !.candidates = @ + 1]
=============================================================================
