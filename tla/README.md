# Verification of web_rtccam

A browser tab opens the camera, gets a client id from a signaling server, and
calls another tab by typing that tab's id.  This directory holds TLA+ models of
the server, the page and the three React hooks, TLC runs on small instances, and
TLAPS proofs.
Source paths are relative to the repository.

## 1. Inventory

| Component | State | Operations | Correct when |
|---|---|---|---|
| Signaling server, `signaling/src/main.rs` | map id → session address; one mailbox per actor; a socket per session | `started`, `stopping`, text frame, `WsMessage`, register, unregister, send | the map follows the connections; texts reach only their addressee, in order, once, after the welcome |
| Page, `webrtc/src/app/page.tsx` | React state `clientId`, `peerId`, `pendingSDP`, `isLocalStreamReady`, `socket`, `connectionState`; refs `peerIdRef`, `isNegotiatingRef`, `peerConnectionRef`, `localStreamRef` | mount effect, two dependent effects, socket and connection handlers, `createOffer`, `handleSDPMessage`, `handleIceCandidateMessage`, field and button | both ends of a call agree on it; no description or candidate is lost; the flag goes up and down with the negotiation |
| `RTCPeerConnection` (browser) | signaling state, descriptions, senders, chain of pending calls | create/set descriptions, add candidate, add track | (external) |
| `useSignaling`, `webrtc/src/hooks/useSignaling.ts` | `socket`, `clientId`, `isConnected` | effect and cleanup, four socket handlers, `sendMessage` and three wrappers | one connection in use, under its own id, reported truly |
| `useWebRTC`, `webrtc/src/hooks/useWebRTC.ts` | a connection in a ref, `connectionState`, `isNegotiating` | effect and cleanup, five handlers, `createOffer`, `handleOffer`, `handleAnswer`, `addIceCandidate` | a negotiation that was begun ends, and the flag with it |
| `useMediaStream`, `webrtc/src/hooks/useMediaStream.ts` | `stream`, `isReady`, `error`, `retryCount` | effect and cleanup, both outcomes of `getUserMedia`, `retry` | the newest request wins; no camera is left on |
| Message types and guards, `webrtc/src/types/signaling.ts` | none | `isWelcomeMessage`, `isSDPMessage`, ... | every message is dispatched to one handler |
| Helpers and constants, `webrtc/src/utils` | none | track, id and stream tests; URL and colour | |
| Camera module, `wasm/src/lib.rs` | none | `start_camera` | the camera is not left on after an error |
| Proxy and containers, `nginx/`, `docker-compose*.yml` | none | forwarding; restart of a crashed container | |
| Layout, styles, generated bindings | none | | |

Interaction: a tab sends texts over its WebSocket (through the proxy) to its
`WebSocketSession` actor, which posts them to the `SignalingServer` actor, which
posts them to the addressee's session, which writes them to that tab's socket.
In a tab, handlers set React state; a later render commits it and its effects
act on it; awaited calls on the connection continue in later tasks.  The hooks
are the page's duties split in three; the page imports none of them.

What is hard here:

* the actors run on several threads and interleave at every `do_send`;
* the server may crash and come back with an empty map;
* handlers made by the mount effect see the first render for ever, and
  functions that await see the render they were started from;
* `pendingSDP` is a queue with one place;
* `createOffer` and `handleSDPMessage` share a connection and a flag, and each
  may be suspended in the middle while the other runs;
* `peerIdRef` has several writers, one of which writes late;
* each hook replaces its socket, connection or request when a dependency
  changes, and what the old one still had under way goes on: late events, late
  answers, calls that never settle.

`PROJECT.json` lists each hazard with its line.

## 2. Modules

| Module | What it is |
|---|---|
| `Relay` | what the server promises: a greeted, lossy, ordered relay |
| `SignalingServer` | `main.rs`; refines `Relay` (`ImplementsRelay`) |
| `SignalingServerProofs`, `SignalingServerRefinement` | proofs about it |
| `PeerConnection` | the browser's connection as operators on a record (external) |
| `HomePage` | `page.tsx`, one instance per tab |
| `VideoChat` | tabs, the relay between them, strangers, crashes |
| `VideoChatProofs` | proofs about it that hold for any callers |
| `Handshake` | what calls promise: an offer is proposed, accepted by at most one tab, and concluded with what that tab accepted |
| `OneCallerProofs`, `HandshakeProofs` | proofs about `VideoChat` with one caller; it refines `Handshake` (`ImplementsHandshake`) |
| `UseMediaStream`, `UseSignaling`, `UseWebRTC` | one module per hook; `UseWebRTC` is over `PeerConnection` |
| `UseMediaStreamProofs`, `UseSignalingProofs`, `UseWebRTCProofs` | proofs about them |
| `MCSignalingServer`, `MCVideoChat` | instances for TLC (the hooks need none: their constants are numbers) |

### SignalingServer

`phase[s]` is the life of a session actor, `mailbox` the server actor's mailbox,
`sessions` the key set of the map (a key determines the address, since ids are
never reused), `inbox[s]` the session's mailbox, `wire[s]` what it has written.
One action per handler; `started()` is two, because it posts the registration
and then writes the welcome, and another thread may act in between.  A stopped
actor loses its mailbox, and `do_send` to it is lost.  `Restart` is the
`restart: unless-stopped` policy of the compose file.  A text is known by the
connection it came from, its `to` field and a running number that tells equal
texts apart; its content is forwarded unread and left out.  Frames that are not
text have no effect in the code and no action here.

### HomePage

React is modelled by what decides which state a piece of code sees:

* `latest[c]` is the state with every `setState` applied; `rendered[c]` that of
  the committed render.  `Render` commits all pending updates at once
  (batching) and records in `effects[c]` the effects whose dependencies changed.
* Effects run later, in the order of declaration, as one task, and always
  before the next render.
* After an input event (`OnChange`) React renders and runs the effects before
  the tab takes up another task: `flush[c]`.  Updates from the socket, from
  `getUserMedia` and from awaited calls are not flushed.
* Handlers of the mount effect use `mountClosure(c)`, the first render.
  `createOffer` and `handleSDPMessage` keep the `clientId` and the addressee of
  their own render in the record of the pending call (`Op`), to be used after
  the awaits.

`ops[c]` is the connection's operations chain: a call appended by one action is
settled by a later one, which runs the continuation up to the next await.
`CallRejected` is the catch blocks.  The button's `disabled` attribute and the
early returns of `createOffer` are `MayOffer`.

### VideoChat

The server is used as the relay it has been shown to implement: `Connect` is
the registration with its welcome, `Route` takes the oldest message of one tab
to its addressee or loses it, `ConnectionLost` is the loss of one socket and
`ServerRestart` that of all.  Only `Callers` type and click.  Strangers are
peers of another implementation, such as one built on `useSignaling.ts`: they
call a tab whose id they were told, or answer a tab that calls them, and send
candidates behind the description.  The browser may refuse a description of
theirs (`MayFail`).  Tabs
never send candidates (see section 6), so without strangers the handling of
candidates would not be exercised.

### The hooks

All three are one component over time.  `latest` and `rendered` are as in
`HomePage`; `run` numbers the runs of the effect, and the socket, connection or
request that a run makes has its number; `ran` is the dependencies of the last
run.  `EffectPending` says that the committed render has other dependencies:
then the cleanup of the old run and the new run come before the next render, as
one step (`Effect`).  `StrictEffect` is the first mount under React's strict mode
(run, cleanup, run), chosen in `Init`.  `Unmount` is the last cleanup; afterwards
React drops what is set.

* `UseMediaStream`: `camera[r]` is the request of run `r` (asking, live, stopped,
  denied), `isMounted` the runs whose local variable is still true, `closure[r]`
  the stream that the cleanup of run `r` sees, `adopted` a history variable: every
  value the state `stream` has had.  `Granted` and `Denied` take the
  pending requests in any order.  New constraints have the effect of a retry and
  are counted as one.
* `UseSignaling`: `status[s]` is the state of socket `s`; `closing` means that its
  close event is still to come.  `ws.close()` does not wait for it, so it may come
  after the next socket has opened.  The server gives socket `s` the id `s`.
  `delivered` and `sent` record the last callback called and the last message
  sent.  `onerror` is followed by `onclose`, which sets the same state, and is part
  of `Closed`.
* `UseWebRTC`: `pc` and `ops` are the connection and its chain as in `HomePage`, with
  the function of the hook that awaits each call.  Closing a connection drops
  its chain: by the standard its promises never settle and it dispatches no more
  events.  The hook's caller is any task, so two calls may come before a
  render.  A remote offer that rolls a local one back passes through `stable`,
  whose handler lowers the flag (`RolledBack`).  `raised` is a history variable: the
  connection for which the flag was last raised.

### PeerConnection

As the WebRTC standard has it and the page and `useWebRTC` rely on it: calls are executed
one by one in call order; a local description must be the one created last; a
remote offer in `have-local-offer` rolls the local one back; a remote offer
creates senders without tracks when there are none; an answer is accepted
whatever offer it was made for; a candidate needs a remote description;
`signalingstatechange` is dispatched before the promise resolves.  In the page
the `stable` that a rollback passes through leaves no trace, since the
continuation of the same call raises the flag again.

### Faulty variants

Next to some operations stand variants marked as faulty: a dropped guard, a
missing reset, a lost registration.  No specification uses them.  Each, put in
the place of its original, makes one run fail, which shows that the property is
about the code (`mutants` in `PROJECT.json`).

## 3. Runs

| Run | Instance | Shows |
|---|---|---|
| `ServerSafety` | 2 connections, 2 texts each, 1 restart | `TypeOK`, `RegistryTracksSessions`, `WelcomeFirst`, `DeliveredInOrder`, `ImplementsRelay` |
| `ServerLiveness` | 2 connections, 1 text each, 1 restart, fair | registrations, unregistrations and accepted texts get through |
| `OneTab` | 1 tab, 1 edit, 1 click, 2 stranger messages, 1 candidate, lost socket, 1 restart, may close, fair | `TypeOK`, `PeerRefSettles`, `FlagNotLeaked`, `TabsSettle` |
| `OneCaller` | 1 caller, 1 callee that may leave, a wrong id, 2 edits and clicks, lost sockets, 1 restart, fair | `CallAgreed`, `CallsSucceed`, `SDPNotDropped`, `ImplementsHandshake`, `OffersAnswered` |
| `UseMediaStream` | 3 retries, with and without strict mode | `TypeOK`, `CamerasKnown`, `ReadyHasStream`, `OneRequestPerRetry`, `NewestAdopted` |
| `UseSignaling` | 2 changes of the callbacks, with and without strict mode, fair | `TypeOK`, `OneSocket`, `LossNoticed`, `CurrentUsed`, `OwnIdLearned`, `HookSettles` |
| `UseWebRTC` | 1 change of the callbacks, 2 offers, 2 received messages, fair | `TypeOK`, `OffersCompleted`, `FlagReturns`, `HookSettles` |
| `CandidatesUnsent`, `Glare`, `CameraLeft`, `LateClose`, `FlagLeftUp` | smallest instance each | a comment of the code that the code does not live up to (section 6) |

`CHECK_DEADLOCK FALSE` is set throughout: users may stop acting and the counters
are bounded, so a state without successors is a normal end.

Bounds.  Two connections are a sender and a recipient, and either may be both;
order between two texts needs two texts; one restart separates old connections
from new ones.  Races inside a tab are between the user, one or two incoming
descriptions and the calls they cause: one edit and click and two messages of a
stranger, besides those the tab sends to itself, reach every pair.  A second
click after a completed call makes the renegotiation (`OneCaller`).  In
`OneCaller` the caller does not type its own id: it would receive its own offer,
roll back, and answer itself, and a late answer would then meet a newer offer.
`OneTab` includes calls to oneself.

In the hooks the races are between one run of an effect and the next, and
between two runs and what the first has left under way: three runs make one
that is neither the first nor the last, and strict mode adds one more.
`UseWebRTC` needs two functions at work at the same time, of equal or different
kind, and one replaced connection.  The safety properties of the hooks are
proved for all bounds.

## 4. Fairness

*Server*: weak fairness of the server actor and of `started` and the delivery
in each session actor.  The actix executor polls an actor with a non-empty
mailbox again.  Not assumed: that clients send, leave, or that nothing crashes.

*Tabs*: weak fairness of message dispatch, of renders and effects and of pending
calls, per tab, and of the relay.  The browser's event loop and React's
scheduler do not starve a scheduled task, and every call on a connection
settles.  Not assumed: that users act, that the camera prompt is answered, that
a socket connects.

*Hooks*: weak fairness of renders and effects; in `UseSignaling` of the welcome,
which the server sends to every connection (`ServerLiveness`) and the browser
dispatches; in `UseWebRTC` of the calls pending on an open connection.  Not
assumed: that callers call, that a socket opens or closes, that `getUserMedia` is
answered.  `HookSettles` is about callbacks that change finitely often: with inline
callbacks, as in the `@example` of both hooks, every render is a change.

## 5. Proofs

Assumptions: `ConstantsAssumption` (sessions are addresses, bounds are naturals),
`PageConstants` (the ids of tabs and strangers, `""` and `None` differ, bounds are
naturals),
`ChatConstants` (callers and leavers are tabs, inputs are ids or `""`, `None` is no
description and no session), and
`MediaConstants`, `SignalingConstants`, `HookConstants` (bounds are naturals).  Nothing
is assumed of the number of connections or tabs; the bounds are arbitrary, so
they do not limit the results.

* `TypeCorrect`, `ChatTypeCorrect`, `MediaTypeCorrect`, `SignalingTypeCorrect`,
  `HookTypeCorrect`: `TypeOK` is inductive.
* `RegistryAccurate`: `RegistryTracksSessions` alone is not inductive, because an
  unregistration might be overtaken by its registration.  `RegistryInv` adds
  `RegistrationsOrdered`: an unregistration waits only for a stopped session, a
  registration only for one that has started, and in the mailbox the
  registration of a stopped session is followed by its unregistration.
* `OrderPreserved`, `GreetedFirst`: `OrderInv` says of every pair of the three
  queues that the text further on was sent first, that every number in a queue
  is below the sender's next one, and that nothing is written before the
  welcome.
* `ServerImplementsRelay`: from `OrderInv`, every step of the server maps to a step
  of `Relay` or to a stutter.  `inflight` is mapped to the texts in the server's
  mailbox and the sessions' inboxes, `received` to `wire`; dropping a text, a
  stop and a crash are `Lose`.
* `PeerRefSettled`: from `PeerRefInv`, which says that the ref holds the latest id or
  a render or an effect that brings it there is still to come.
* `FlagCleared`: from `FlagInv`: while the flag is up and no own offer is out, a call
  is pending whose continuation or catch block clears the flag.
* `OneCall`, and from it `CallersAgree`, `NoCallRejected` and `SlotSuffices`: under
  `OneCallerOnly` (one tab places calls, to any number of others and never to
  itself, and no stranger interferes) the invariant `OneCallInv` follows one
  token: a description on a socket or in `pendingSDP`, or a pending call on a
  connection.  `OneToken` says that the whole system holds at most one, that it
  fits the state of both connections, and that the caller's `isNegotiatingRef` is
  up while it exists.  This is what the flag is for: `CallAgreed` says nothing of
  messages, so an old answer could break it, and the single place of `pendingSDP`
  is enough only because no second description is under way.  The other parts
  say what the token's moves rely on: a caller that waits has its flag up
  (`FlagGuards`), no offer is made twice (`OffersNumbered`), a tab is told no id
  but its own (`Greeted`, `OwnIds`), and an effect handles what is still in the
  slot (`NotHandledTwice`).  Leaving tabs, wrong ids, lost messages, lost sockets
  and restarts of the server are included: they lose the token and leave the flag up.
  Without the hypothesis the theorems are false (finding 2).
* `CallsAreHandshakes`: from `OneCallInv`, every step maps to a step of `Handshake` or
  to a stutter.  `offered` is mapped to the caller's pending local offer,
  `session` to each connection's current descriptions; `OfferSet` is `Propose`,
  `AnswerSet` is `Accept`, `RemoteAnswerSet` is `Conclude`.
* `NoUnknownCamera`, `ReadyConsistent`, `LateAnswersIgnored`: from `MediaInv`, whose part
  `Owned` says that only the last run, of a mounted component, has its flag up.
  `CamerasKnown` alone says nothing of the flags, so an answer to a run of an
  unmounted component could break it: React would drop its stream.
* `RequestsCounted`: `CountInv` adds that the last run's dependencies are those of
  the committed render or of an earlier one, so that a pending effect stands for
  a retry not yet counted.
* `OneConnection`, `DisconnectSeen`, `CurrentConnectionUsed`: from `SocketInv`, which says that
  no socket is used before its run, that only the last run's is in use, and that
  it holds the callbacks the effect last ran with.
* `EveryOfferCompleted`, `FlagComesDown`: from `NegotiationInv`.  `AnswerDue`: while a remote
  offer is open, the chain holds a `createAnswer`, or a `setLocalDescription` of the
  answer created last (an older one would be rejected and change nothing).
  `FlagDue`: while the flag is up for this connection and no own offer is out, the
  chain holds a call of a function whose catch block lowers the flag.  Both speak
  of some call of the chain and not of a particular one, which is what makes them
  survive every interleaving of the functions.

Only model-checked: the liveness properties (those of `ServerLiveness`,
`OffersAnswered`, `TabsSettle`, `OwnIdLearned`, both `HookSettles`), which the prover
does not reach.

## 6. Findings

Each is a counterexample of one of the last five runs.

1. `CandidatesUnsent`: no candidate is ever sent; `onicecandidate` holds the
   `sendMessage` of the first render, which has no client id.
2. `Glare`: tabs that call each other at the same time end in `stable` with
   different sessions.
3. `CameraLeft`: `useMediaStream` leaves the camera on when its component goes; the
   cleanup holds the `stream` of the render in which the effect ran.
4. `LateClose` (without strict mode, whose second mount shows it too): after a
   reconnection of `useSignaling` for a changed callback, the late close event of the old
   socket sets `isConnected` to false for the new one, for good.
5. `FlagLeftUp`: when `useWebRTC` replaces its connection during a negotiation,
   `isNegotiating` stays up and no offer can be made on the new connection.

Consequences of the models that have no run of their own:

* each received candidate replaces the peer id, even a typed one, since its
  handler holds the empty `peerId` of the first render (`page.tsx:359`);
* a click before the own id is shown sets an offer and drops it; the flag stays
  up and the button does nothing any more (`page.tsx:270`);
* a tab called before its camera is ready never sends tracks, because
  `hasTracksAdded` counts the senders of the incoming call (`webrtc-helpers.ts:51`);
* of two offers that arrive before a render the first is lost (`page.tsx:102`;
  `SDPNotDropped` holds with one caller only);
* a candidate right behind an offer is added before it and rejected (the offer
  waits for a render, the candidate does not), and a rejected `createOffer`
  clears the flag while the tab is answering an incoming call;
* in `useMediaStream`, an error of a superseded request marks the newer stream as
  failed, and every stream but that of the render before the last run's stays
  on (`useMediaStream.ts:86`, `:99`);
* an offer or an answer that is lost leaves the caller waiting with its flag up,
  and the button does nothing until the tab is reloaded (`FlagNotLeaked` allows
  this case and no other);
* in `useSignaling`, a message sent between a reconnection and its welcome has the
  old id in `from` (`useSignaling.ts:156`);
* in `useWebRTC`, two `createOffer` before a render both pass the test of
  `isNegotiating`, which is that of the closure (`useWebRTC.ts:155`), the failure of
  one lowers the flag while the offer of the other is out, and
  `connectionState` of the old connection is shown until the new one reports.

## 7. Not modelled

* Display state (`connectionState`, video elements), layout, styles, URL and colour
  helpers, constants and type declarations: nothing depends on them.
* The page's double mount in React's development mode and its unmounting before
  `getUserMedia` resolves: the page has no code for either (it is in the hooks that
  the code provides for them), and nothing could be checked but their absence.
  `useWebRTC` under strict mode: the first connection is closed before any call.
* ICE connectivity and media: they belong to the browser.
* `onicecandidate` of `useWebRTC`: it calls back and changes no state.
* The camera module `wasm/src/lib.rs`: one function without state or a second
  actor, used by nothing.  Its failures come one after the other; the last ones
  (no video element) come after the camera was opened and leave it on.  Its generated bindings: glue code, used by nothing.
* The proxy: it forwards bytes.  Half-open sockets that the server never notices
  (it sends no pings) are covered as sessions that never stop.

## 8. Plan

Done: the server with its abstract specification and proofs; the page, its
composition with the relay, and proofs about it; calls with one caller as an
implementation of an abstract handshake, proved for any number of callees; the
three hooks with their safety proved for all bounds.

Left, in this order:

1. What a step may do to `peerIdRef` and the flag, as action properties.
2. A component that uses the three hooks together, as their examples suggest.

Several callers are not left: with two, calls can end in different sessions
(finding 2), so there is nothing to prove before the code resolves glare.
