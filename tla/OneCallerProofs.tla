--------------------------- MODULE OneCallerProofs ---------------------------
(***************************************************************************)
(* Proofs about VideoChat when one tab places calls, to any number of      *)
(* others, and never to itself.  At every moment at most one description   *)
(* is on its way, or one call on a connection is pending, in the whole     *)
(* system: a token that goes from the caller's connection over the relay,  *)
(* pendingSDP and the callee's connection back to the caller, and that may *)
(* be lost.  isNegotiatingRef of the caller is what keeps it single.       *)
(***************************************************************************)
EXTENDS VideoChatProofs, SequenceTheorems

\* One tab calls; its user does not type the tab's own id; the other tabs
\* run page.tsx too.
OneCallerOnly ==
    /\ \E k \in Clients : Callers = {k}
    /\ Callers \cap Inputs = {}
    /\ MaxStranger = 0

caller == CHOOSE k \in Clients : Callers = {k}

-----------------------------------------------------------------------------
(* The inductive invariant *)

\* Where the token may be: on a socket, in pendingSDP, in an operations chain.
Places == {"up", "down", "state", "chain"}

IsWelcome(m) == m.kind = "welcome"

Holds(p, c) ==
    \/ p = "up" /\ up[c] # << >>
    \/ p = "down" /\ \E i \in DOMAIN down[c] : ~ IsWelcome(down[c][i])
    \/ p = "state" /\ latest[c].pendingSDP # None
    \/ p = "chain" /\ ops[c] # << >>

\* No place but p of tab c holds it.
Only(p, c) == \A q \in Places, d \in Clients : Holds(q, d) => q = p /\ d = c

\* The caller has set its offer and is owed an answer.
Waiting == pc[caller].sig = "have-local-offer"

TheOffer == pc[caller].localOffer

\* The session a callee is in once it has answered with d.
AnswersIt(d) ==
    /\ d.type = "answer" /\ d.by \in Clients \ {caller}
    /\ pc[d.by].current = [offer |-> TheOffer, answer |-> d]

\* Nobody is in a session of offer o.
Untaken(o) ==
    \A t \in Clients : pc[t].current # None => pc[t].current.offer # o

IsOffer(m) ==
    /\ m.kind = "offer" /\ m.from = caller
    /\ m.desc.type = "offer" /\ m.desc = TheOffer /\ Untaken(TheOffer)

IsAnswer(m) == m.kind = "answer" /\ m.from # caller /\ AnswersIt(m.desc)

\* Messages a tab sends, messages it is sent.
SentBy(c, m) ==
    /\ Waiting
    /\ IF c = caller THEN IsOffer(m) /\ m.to # caller
                     ELSE IsAnswer(m) /\ m.to = caller

SentTo(c, m) == Waiting /\ IF c = caller THEN IsAnswer(m) ELSE IsOffer(m)

\* Calls on the caller's connection, and on the connection of a callee.
CallerCall(o) ==
    \/ /\ pc[caller].sig = "stable"
       /\ o.to # caller /\ o.cid \in {None, caller}
       /\ \/ o.op = "createOffer"
          \/ /\ o.op = "setLocal" /\ o.desc.type = "offer" /\ o.desc.by = caller
             /\ o.desc = pc[caller].lastOffer
             /\ o.desc.n <= pc[caller].made /\ Untaken(o.desc)
    \/ Waiting /\ o.op = "setRemote" /\ AnswersIt(o.desc)

CalleeCall(c, o) ==
    /\ Waiting /\ Untaken(TheOffer) /\ o.to = caller /\ o.cid = c
    /\ \/ o.op = "setRemote" /\ o.desc.type = "offer" /\ o.desc = TheOffer
       \/ /\ pc[c].sig = "have-remote-offer" /\ pc[c].remoteOffer = TheOffer
          /\ \/ o.op = "createAnswer"
             \/ /\ o.op = "setLocal" /\ o.desc.type = "answer" /\ o.desc.by = c
                /\ o.desc = pc[c].lastAnswer

MadeBy(c, o) == IF c = caller THEN CallerCall(o) ELSE CalleeCall(c, o)

\* A place holds the token once, and it belongs to the call under way.
Carries(p, c) ==
    \/ p = "up" /\ Len(up[c]) = 1 /\ SentBy(c, Head(up[c]))
    \/ /\ p = "down"
       /\ \E i \in DOMAIN down[c] :
            /\ SentTo(c, down[c][i])
            /\ \A j \in DOMAIN down[c] : j # i => IsWelcome(down[c][j])
    \/ p = "state" /\ SentTo(c, latest[c].pendingSDP)
    \/ p = "chain" /\ Len(ops[c]) = 1 /\ MadeBy(c, Call(c))

\* There is one token, and while it is somewhere the caller's flag is up.
OneToken ==
    \A p \in Places, c \in Clients :
      Holds(p, c) => Only(p, c) /\ Carries(p, c) /\ negotiating[caller]

FlagGuards ==
    /\ pc[caller].sig \in {"stable", "have-local-offer"}
    /\ Waiting => negotiating[caller]

\* The caller has a pending offer while it waits, and its offers are numbered.
OffersNumbered ==
    /\ Waiting <=> TheOffer # None
    /\ Waiting => TheOffer.by = caller /\ TheOffer.n <= pc[caller].made
    /\ \A t \in Clients :
         pc[t].current # None => /\ pc[t].current.offer # None
                                 /\ pc[t].current.offer.n <= pc[caller].made

\* A caller back in stable shares its session with the tab that answered.
SessionShared ==
    LET agreed == pc[caller].current
    IN  pc[caller].sig = "stable" /\ agreed # None
          => /\ agreed.answer.by \in Clients \ {caller}
             /\ pc[agreed.answer.by].current = agreed

\* The greeting of a tab carries its own id.
Greeted ==
    \A c \in Clients : \A i \in DOMAIN down[c] :
      IsWelcome(down[c][i]) => down[c][i] = Welcome(c)

\* A tab has no other id than its own, and the caller no wish to call itself.
OwnIds ==
    /\ \A c \in Clients : /\ latest[c].clientId \in {None, c}
                          /\ rendered[c].clientId \in {None, c}
    /\ latest[caller].peerId # caller /\ rendered[caller].peerId # caller

\* What an effect is about to handle is still in pendingSDP.
NotHandledTwice ==
    \A c \in Clients :
      "sdp" \in effects[c] /\ rendered[c].pendingSDP # None
        => latest[c].pendingSDP = rendered[c].pendingSDP

OneCallInv ==
    /\ OneToken /\ FlagGuards /\ OffersNumbered /\ SessionShared
    /\ Greeted /\ OwnIds /\ NotHandledTwice

-----------------------------------------------------------------------------
(* What the invariant says about the place a step reads *)

LEMMA SingletonTail ==
  ASSUME NEW S, NEW s \in Seq(S), Len(s) = 1
  PROVE  Tail(s) = << >>
  <1>1. Tail(s) \in Seq(S) /\ Len(Tail(s)) = 0
    BY SMT
  <1>2. QED
    BY <1>1, EmptySeq

LEMMA TheCaller ==
  ASSUME OneCallerOnly
  PROVE  /\ caller \in Clients /\ Callers = {caller} /\ caller \notin Inputs
         /\ MaxStranger = 0
  BY DEF OneCallerOnly, caller

\* The oldest message of a tab is the only one, and is the token.
LEMMA Sending ==
  ASSUME PageTypeOK, OneToken, NEW c \in Clients, up[c] # << >>
  PROVE  /\ Only("up", c) /\ SentBy(c, Head(up[c])) /\ Tail(up[c]) = << >>
         /\ negotiating[caller]
  <1>1. Only("up", c) /\ Carries("up", c) /\ negotiating[caller]
    BY DEF OneToken, Holds, Places
  <1>2. up[c] \in Seq(Messages) /\ Len(up[c]) = 1 /\ SentBy(c, Head(up[c]))
    BY <1>1 DEF Carries, PageTypeOK
  <1>3. Tail(up[c]) = << >>
    BY <1>2, SingletonTail
  <1>4. QED
    BY <1>1, <1>2, <1>3

\* A message read from the socket is a greeting or the token.
LEMMA Receiving ==
  ASSUME PageTypeOK, OneToken, NEW c \in Clients, down[c] # << >>,
         ~ IsWelcome(Head(down[c]))
  PROVE  /\ Only("down", c) /\ SentTo(c, Head(down[c])) /\ negotiating[caller]
         /\ \A j \in DOMAIN Tail(down[c]) : IsWelcome(Tail(down[c])[j])
  <1>1. down[c] \in Seq(Messages)
    BY DEF PageTypeOK
  <1>2. 1 \in DOMAIN down[c] /\ down[c][1] = Head(down[c])
    BY <1>1
  <1>3. Holds("down", c)
    BY <1>2 DEF Holds
  <1>4. Only("down", c) /\ Carries("down", c) /\ negotiating[caller]
    BY <1>3 DEF OneToken, Places
  <1>5. /\ SentTo(c, Head(down[c]))
        /\ \A j \in DOMAIN down[c] : j # 1 => IsWelcome(down[c][j])
    BY <1>2, <1>4 DEF Carries
  <1>6. \A j \in DOMAIN Tail(down[c]) :
          j + 1 \in DOMAIN down[c] /\ j + 1 # 1 /\ Tail(down[c])[j] = down[c][j + 1]
    BY <1>1
  <1>7. QED
    BY <1>4, <1>5, <1>6

\* The description an effect hands to handleSDPMessage is the token.
LEMMA Handling ==
  ASSUME PageTypeOK, OneToken, NotHandledTwice, NEW c \in Clients, SDPToHandle(c)
  PROVE  /\ Only("state", c) /\ SentTo(c, rendered[c].pendingSDP)
         /\ latest[c].pendingSDP = rendered[c].pendingSDP /\ negotiating[caller]
  <1>1. latest[c].pendingSDP = rendered[c].pendingSDP /\ rendered[c].pendingSDP # None
    BY DEF SDPToHandle, NotHandledTwice
  <1>2. Only("state", c) /\ Carries("state", c) /\ negotiating[caller]
    BY <1>1 DEF OneToken, Holds, Places
  <1>3. QED
    BY <1>1, <1>2 DEF Carries

\* A pending call is the only one, and is the token.
LEMMA Calling ==
  ASSUME PageTypeOK, OneToken, NEW c \in Clients, ops[c] # << >>
  PROVE  /\ Only("chain", c) /\ MadeBy(c, Call(c)) /\ Tail(ops[c]) = << >>
         /\ negotiating[caller]
  <1>1. Only("chain", c) /\ Carries("chain", c) /\ negotiating[caller]
    BY DEF OneToken, Holds, Places
  <1>2. ops[c] \in Seq(Ops) /\ Len(ops[c]) = 1 /\ MadeBy(c, Call(c))
    BY <1>1 DEF Carries, PageTypeOK
  <1>3. Tail(ops[c]) = << >>
    BY <1>2, SingletonTail
  <1>4. QED
    BY <1>1, <1>2, <1>3

\* It succeeds in the state its connection is in ...
LEMMA CallSucceeds ==
  ASSUME PageTypeOK, OneToken, NEW c \in Clients, ops[c] # << >>
  PROVE  Resolves(pc[c], Call(c)) /\ Call(c).op # "addIceCandidate"
  <1>1. MadeBy(c, Call(c))
    BY Calling
  <1>2. CASE c = caller
    BY <1>1, <1>2 DEF MadeBy, CallerCall, AnswersIt, Waiting, Resolves
  <1>3. CASE c # caller
    BY <1>1, <1>3 DEF MadeBy, CalleeCall, Resolves
  <1>4. QED
    BY <1>2, <1>3

\* ... and is made with no description but those of tabs.
LEMMA CallAccepted ==
  ASSUME OneCallerOnly, PageTypeOK, OneToken, OffersNumbered,
         NEW c \in Clients, ops[c] # << >>
  PROVE  ~ MayFail(c)
  <1>1. ASSUME Call(c).op = "setRemote"
        PROVE  Call(c).desc.by \in Clients
    <2>1. MadeBy(c, Call(c))
      BY Calling
    <2>2. CASE c = caller
      BY <1>1, <2>1, <2>2 DEF MadeBy, CallerCall, AnswersIt
    <2>3. CASE c # caller
      <3>1. Call(c).desc = TheOffer /\ Waiting
        BY <1>1, <2>1, <2>3 DEF MadeBy, CalleeCall
      <3>2. QED
        BY <3>1, TheCaller DEF OffersNumbered
    <2>4. QED
      BY <2>2, <2>3
  <1>2. QED
    BY <1>1, CallSucceeds, PageConstants DEF MayFail

\* Steps that one caller rules out.
LEMMA NeverHappens ==
  ASSUME OneCallerOnly, TypeOK, OneToken, NEW c \in Clients
  PROVE  /\ ~ OnCandidate(c) /\ ~ CandidateAdded(c)
         /\ OffersNumbered => ~ CallRejected(c)
         /\ \A y \in Strangers : /\ ~ StrangerOffer(y, c) /\ ~ StrangerAnswer(y, c)
                                 /\ ~ StrangerCandidate(y, c)
  <1>t. PageTypeOK
    BY DEF TypeOK
  <1>1. ~ OnCandidate(c)
    <2> SUFFICES ASSUME OnCandidate(c) PROVE FALSE
      OBVIOUS
    <2>1. down[c] # << >> /\ Head(down[c]).kind = "candidate"
      BY DEF OnCandidate, Received
    <2>2. SentTo(c, Head(down[c]))
      BY <1>t, <2>1, Receiving DEF IsWelcome
    <2>3. QED
      BY <2>1, <2>2 DEF SentTo, IsAnswer, IsOffer
  <1>2. ~ CandidateAdded(c) /\ (OffersNumbered => ~ CallRejected(c))
    BY <1>t, CallSucceeds, CallAccepted DEF CandidateAdded, Resolved, CallRejected
  <1>3. \A y \in Strangers : /\ ~ StrangerOffer(y, c) /\ ~ StrangerAnswer(y, c)
                             /\ ~ StrangerCandidate(y, c)
    BY TheCaller DEF StrangerOffer, StrangerAnswer, StrangerCandidate, TypeOK
  <1>4. QED
    BY <1>1, <1>2, <1>3

-----------------------------------------------------------------------------
(* How the token moves *)

LEMMA TokenStays ==
  ASSUME OneToken, negotiating'[caller] = negotiating[caller],
         \A p \in Places, c \in Clients :
           Holds(p, c)' => Holds(p, c) /\ (Carries(p, c) => Carries(p, c)')
  PROVE  OneToken'
  BY DEF OneToken, Only

LEMMA TokenMoves ==
  ASSUME NEW p \in Places, NEW c \in Clients, Only(p, c)',
         Holds(p, c)' => Carries(p, c)' /\ negotiating'[caller]
  PROVE  OneToken'
  BY DEF OneToken, Only

\* Only, place by place.
Elsewhere(p, c) ==
    \A d \in Clients :
      /\ p # "up" \/ d # c => up[d] = << >>
      /\ p # "down" \/ d # c => \A i \in DOMAIN down[d] : IsWelcome(down[d][i])
      /\ p # "state" \/ d # c => latest[d].pendingSDP = None
      /\ p # "chain" \/ d # c => ops[d] = << >>

LEMMA OnlyElsewhere ==
  ASSUME NEW p \in Places, NEW c \in Clients
  PROVE  (Only(p, c) <=> Elsewhere(p, c)) /\ (Only(p, c)' <=> Elsewhere(p, c)')
  BY DEF Only, Elsewhere, Holds, Places

\* Sequences that grow and shrink by one.
LEMMA Appended ==
  ASSUME NEW S, NEW s \in Seq(S), NEW m \in S
  PROVE  /\ \A i \in DOMAIN s : i \in DOMAIN Append(s, m) /\ Append(s, m)[i] = s[i]
         /\ Len(s) + 1 \in DOMAIN Append(s, m) /\ Append(s, m)[Len(s) + 1] = m
         /\ \A i \in DOMAIN Append(s, m) : i \in DOMAIN s \/ i = Len(s) + 1
  OBVIOUS

LEMMA AppendedToEmpty ==
  ASSUME NEW S, NEW m \in S
  PROVE  LET s == Append(<< >>, m) IN s # << >> /\ Len(s) = 1 /\ Head(s) = m
  OBVIOUS

LEMMA Shifted ==
  ASSUME NEW S, NEW s \in Seq(S), s # << >>
  PROVE  /\ 1 \in DOMAIN s /\ s[1] = Head(s)
         /\ \A i \in DOMAIN Tail(s) : i + 1 \in DOMAIN s /\ i + 1 # 1 /\ Tail(s)[i] = s[i + 1]
         /\ \A i \in DOMAIN s : i # 1 => i - 1 \in DOMAIN Tail(s) /\ Tail(s)[i - 1] = s[i]
  OBVIOUS

\* What the token means depends on the negotiation state of the connections,
\* not on their tracks.
SameSessions ==
    \A c \in Clients :
      /\ pc'[c].sig = pc[c].sig /\ pc'[c].current = pc[c].current
      /\ pc'[c].localOffer = pc[c].localOffer /\ pc'[c].remoteOffer = pc[c].remoteOffer
      /\ pc'[c].lastOffer = pc[c].lastOffer /\ pc'[c].lastAnswer = pc[c].lastAnswer
      /\ pc'[c].made = pc[c].made

LEMMA SameMeaning ==
  ASSUME OneCallerOnly, SameSessions, NEW c \in Clients
  PROVE  \A m : /\ SentBy(c, m)' <=> SentBy(c, m)
                /\ SentTo(c, m)' <=> SentTo(c, m)
                /\ MadeBy(c, m)' <=> MadeBy(c, m)
  <1>1. /\ (Waiting' <=> Waiting) /\ TheOffer' = TheOffer
        /\ \A d : AnswersIt(d)' <=> AnswersIt(d)
    BY TheCaller DEF SameSessions, Waiting, TheOffer, AnswersIt
  <1>u. \A d : Untaken(d)' <=> Untaken(d)
    BY DEF SameSessions, Untaken
  <1>2. \A m : (IsOffer(m)' <=> IsOffer(m)) /\ (IsAnswer(m)' <=> IsAnswer(m))
    BY <1>1, <1>u DEF IsOffer, IsAnswer
  <1>3. \A m : (CallerCall(m)' <=> CallerCall(m)) /\ (CalleeCall(c, m)' <=> CalleeCall(c, m))
    BY <1>1, <1>u, TheCaller DEF CallerCall, CalleeCall, SameSessions
  <1>4. QED
    BY <1>1, <1>2, <1>3 DEF SentBy, SentTo, MadeBy

LEMMA TracksOnly ==
  ASSUME PageTypeOK, NEW c \in Clients, RunSDPEffect(c) \/ createOffer(c)
  PROVE  SameSessions
  <1>1. pc'[c] = pc[c] \/ pc'[c] = AddTrack(pc[c])
    BY DEF RunSDPEffect, createOffer, PageTypeOK
  <1>2. \A d \in Clients \ {c} : pc'[d] = pc[d]
    BY DEF RunSDPEffect, createOffer, PageTypeOK
  <1>3. pc[c] \in PeerConnections
    BY DEF PageTypeOK
  <1>4. /\ pc'[c].sig = pc[c].sig /\ pc'[c].current = pc[c].current
        /\ pc'[c].localOffer = pc[c].localOffer /\ pc'[c].remoteOffer = pc[c].remoteOffer
        /\ pc'[c].lastOffer = pc[c].lastOffer /\ pc'[c].lastAnswer = pc[c].lastAnswer
        /\ pc'[c].made = pc[c].made
    BY <1>1, <1>3 DEF PeerConnections, AddTrack
  <1>5. QED
    BY <1>2, <1>4 DEF SameSessions

\* Nothing that is part of a call is touched.
LEMMA TokenUntouched ==
  ASSUME OneCallerOnly, OneToken, UNCHANGED <<up, down, ops, pc, negotiating>>,
         \A c \in Clients : latest'[c].pendingSDP = latest[c].pendingSDP
  PROVE  OneToken'
  <1>1. \A c \in Clients : \A m : /\ SentBy(c, m)' <=> SentBy(c, m)
                                  /\ SentTo(c, m)' <=> SentTo(c, m)
                                  /\ MadeBy(c, m)' <=> MadeBy(c, m)
    BY SameMeaning DEF SameSessions
  <1>2. ASSUME NEW p \in Places, NEW c \in Clients
        PROVE  (Holds(p, c)' => Holds(p, c)) /\ (Carries(p, c) => Carries(p, c)')
    BY <1>1, <1>2 DEF Holds, Carries, Call
  <1>3. QED
    BY <1>2, TokenStays

\* The React state a task leaves: what it sets, and nothing else.
LEMMA StatesSet ==
  ASSUME PageTypeOK, NEW c \in Clients
  PROVE  /\ OnWelcome(c) =>
              /\ latest'[c].clientId = Head(down[c]).id
              /\ latest'[c].peerId = latest[c].peerId
              /\ latest'[c].pendingSDP = latest[c].pendingSDP
         /\ OnSDP(c) =>
              /\ latest'[c].clientId = latest[c].clientId
              /\ latest'[c].peerId = latest[c].peerId
              /\ latest'[c].pendingSDP = Head(down[c])
         /\ MediaGranted(c) =>
              /\ latest'[c].clientId = latest[c].clientId
              /\ latest'[c].peerId = latest[c].peerId
              /\ latest'[c].pendingSDP = latest[c].pendingSDP
         /\ \A v : OnChange(c, v) =>
              /\ latest'[c].clientId = latest[c].clientId
              /\ latest'[c].peerId = v
              /\ latest'[c].pendingSDP = latest[c].pendingSDP
         /\ RunSDPEffect(c) =>
              /\ latest'[c].clientId = latest[c].clientId
              /\ latest'[c].peerId \in {latest[c].peerId, rendered[c].pendingSDP.from}
              /\ latest'[c].pendingSDP = None
  <1>1. latest \in [Clients -> PageStates] /\ latest[c] \in PageStates
    BY DEF PageTypeOK
  <1>2. ASSUME OnWelcome(c)
        PROVE  /\ latest'[c].clientId = Head(down[c]).id
               /\ latest'[c].peerId = latest[c].peerId
               /\ latest'[c].pendingSDP = latest[c].pendingSDP
    BY <1>1, <1>2 DEF OnWelcome, PageStates
  <1>3. ASSUME OnSDP(c)
        PROVE  /\ latest'[c].clientId = latest[c].clientId
               /\ latest'[c].peerId = latest[c].peerId
               /\ latest'[c].pendingSDP = Head(down[c])
    BY <1>1, <1>3 DEF OnSDP, PageStates
  <1>4. ASSUME MediaGranted(c)
        PROVE  /\ latest'[c].clientId = latest[c].clientId
               /\ latest'[c].peerId = latest[c].peerId
               /\ latest'[c].pendingSDP = latest[c].pendingSDP
    BY <1>1, <1>4 DEF MediaGranted, PageStates
  <1>5. ASSUME NEW v, OnChange(c, v)
        PROVE  /\ latest'[c].clientId = latest[c].clientId
               /\ latest'[c].peerId = v
               /\ latest'[c].pendingSDP = latest[c].pendingSDP
    BY <1>1, <1>5 DEF OnChange, PageStates
  <1>6. ASSUME RunSDPEffect(c)
        PROVE  /\ latest'[c].clientId = latest[c].clientId
               /\ latest'[c].peerId \in {latest[c].peerId, rendered[c].pendingSDP.from}
               /\ latest'[c].pendingSDP = None
    <2> DEFINE s == [latest[c] EXCEPT !.pendingSDP = None]
    <2>1. /\ s.clientId = latest[c].clientId /\ s.peerId = latest[c].peerId
          /\ s.pendingSDP = None /\ s \in PageStates
      BY <1>1 DEF PageStates
    <2>2. PICK v \in {latest[c].peerId, rendered[c].pendingSDP.from} :
            latest' = [latest EXCEPT ![c] = [s EXCEPT !.peerId = v]]
      BY <1>1, <1>6, <2>1 DEF RunSDPEffect
    <2> HIDE DEF s
    <2>3. latest'[c] = [s EXCEPT !.peerId = v]
      BY <1>1, <2>2
    <2>4. QED
      BY <2>1, <2>2, <2>3 DEF PageStates
  <1>7. QED
    BY <1>2, <1>3, <1>4, <1>5, <1>6

LEMMA OthersKeepState ==
  ASSUME PageTypeOK, NEW c \in Clients,
         \/ OnWelcome(c) \/ OnSDP(c) \/ MediaGranted(c) \/ RunSDPEffect(c)
         \/ \E v : OnChange(c, v)
  PROVE  \A d \in Clients \ {c} : latest'[d] = latest[d]
  BY DEF PageTypeOK, OnWelcome, OnSDP, MediaGranted, RunSDPEffect, OnChange

-----------------------------------------------------------------------------
(* The token, action by action *)

LEMMA TokenOverNetwork ==
  ASSUME OneCallerOnly, TypeOK, OneToken, NetworkStep
  PROVE  OneToken'
  <1> USE DEF reactVars, rtcVars, socketVars, userVars
  <1>t. PageTypeOK
    BY DEF TypeOK
  <1>1. ASSUME NEW c \in Clients, Connect(c)
        PROVE  OneToken'
    <2>1. /\ UNCHANGED <<latest, up, ops, pc, negotiating>>
          /\ down' = [down EXCEPT ![c] = Append(@, Welcome(c))]
      BY <1>1 DEF Connect
    <2>2. down[c] \in Seq(Messages) /\ Welcome(c) \in Messages /\ IsWelcome(Welcome(c))
      BY <1>t DEF PageTypeOK, Welcome, Messages, IsWelcome
    <2>3. /\ down'[c] = Append(down[c], Welcome(c))
          /\ \A d \in Clients \ {c} : down'[d] = down[d]
      BY <1>t, <2>1 DEF PageTypeOK
    <2>4. /\ \A i \in DOMAIN down[c] : i \in DOMAIN down'[c] /\ down'[c][i] = down[c][i]
          /\ \A i \in DOMAIN down'[c] : i \in DOMAIN down[c] \/ IsWelcome(down'[c][i])
      BY <2>2, <2>3, Appended
    <2>5. \A d \in Clients : \A m : /\ SentBy(d, m)' <=> SentBy(d, m)
                                    /\ SentTo(d, m)' <=> SentTo(d, m)
                                    /\ MadeBy(d, m)' <=> MadeBy(d, m)
      BY <2>1, SameMeaning DEF SameSessions
    <2>6. ASSUME NEW p \in Places, NEW d \in Clients, Holds(p, d)'
          PROVE  Holds(p, d) /\ (Carries(p, d) => Carries(p, d)')
      <3>1. Holds(p, d)
        BY <2>1, <2>3, <2>4, <2>6 DEF Holds
      <3>2. CASE p = "down" /\ d = c
        <4>1. SUFFICES ASSUME Carries("down", c)
                       PROVE  Carries("down", c)'
          BY <3>1, <3>2
        <4>2. PICK i \in DOMAIN down[c] :
                /\ SentTo(c, down[c][i])
                /\ \A j \in DOMAIN down[c] : j # i => IsWelcome(down[c][j])
          BY <4>1 DEF Carries
        <4>3. i \in DOMAIN down'[c] /\ SentTo(c, down[c][i])'
          BY <2>4, <2>5, <4>2
        <4>4. \A j \in DOMAIN down'[c] : j # i => IsWelcome(down'[c][j])
          BY <2>4, <4>2
        <4>5. QED
          BY <4>3, <4>4 DEF Carries, IsWelcome
      <3>3. CASE ~ (p = "down" /\ d = c)
        BY <2>1, <2>3, <2>5, <3>1, <3>3 DEF Carries, Call
      <3>4. QED
        BY <3>2, <3>3
    <2>7. QED
      BY <2>1, <2>6, TokenStays
  <1>2. ASSUME NEW c \in Clients, Route(c)
        PROVE  OneToken'
    <2>0. PICK m : m = Head(up[c])
      OBVIOUS
    <2>1. /\ UNCHANGED <<latest, ops, pc, negotiating>>
          /\ up' = [up EXCEPT ![c] = Tail(@)] /\ up[c] # << >>
          /\ \/ down' = down
             \/ m.to \in Clients /\ down' = [down EXCEPT ![m.to] = Append(@, m)]
      BY <1>2, <2>0 DEF Route
    <2>2. Elsewhere("up", c) /\ SentBy(c, m) /\ Tail(up[c]) = << >> /\ negotiating[caller]
      BY <1>t, <2>0, <2>1, Sending, OnlyElsewhere DEF Places
    <2>3. m \in Messages
      <3>1. up[c] \in Seq(Messages)
        BY <1>t DEF PageTypeOK
      <3>2. QED
        BY <2>0, <2>1, <3>1
    <2>4. \A d \in Clients : up'[d] = << >>
      BY <1>t, <2>1, <2>2 DEF Elsewhere, PageTypeOK
    <2>5. CASE down' = down
      <3>1. Elsewhere("up", c)' /\ ~ Holds("up", c)'
        BY <2>1, <2>2, <2>4, <2>5 DEF Elsewhere, Holds
      <3>2. QED
        BY <3>1, TokenMoves, OnlyElsewhere DEF Places
    <2>6. CASE m.to \in Clients /\ down' = [down EXCEPT ![m.to] = Append(@, m)]
      <3>0. PICK t \in Clients : t = m.to
        BY <2>6
      <3>1. down[t] \in Seq(Messages)
        BY <1>t DEF PageTypeOK
      <3>2. /\ down'[t] = Append(down[t], m)
            /\ \A d \in Clients \ {t} : down'[d] = down[d]
        BY <1>t, <2>6, <3>0 DEF PageTypeOK
      <3>3. SentTo(t, m)
        BY <2>2, <3>0 DEF SentBy, SentTo
      <3>4. SentTo(t, m)'
        BY <2>1, <3>1, <3>3, SameMeaning DEF SameSessions
      <3>5. Elsewhere("down", t)'
        BY <2>1, <2>2, <2>4, <3>2 DEF Elsewhere, IsWelcome
      <3>6. Carries("down", t)'
        <4>0. PICK n : n = Len(down[t]) + 1
          OBVIOUS
        <4>1. /\ n \in DOMAIN down'[t] /\ down'[t][n] = m
              /\ \A i \in DOMAIN down[t] : down'[t][i] = down[t][i]
              /\ \A i \in DOMAIN down'[t] : i \in DOMAIN down[t] \/ i = n
          BY <2>3, <3>1, <3>2, <4>0, Appended
        <4>2. \A j \in DOMAIN down'[t] : j # n => IsWelcome(down'[t][j])
          BY <2>2, <3>1, <4>1 DEF Elsewhere, IsWelcome
        <4>3. SentTo(t, down[t][n])'
          BY <3>4, <4>1
        <4>4. QED
          BY <4>1, <4>2, <4>3 DEF Carries, IsWelcome
      <3>7. QED
        BY <2>1, <2>2, <3>1, <3>5, <3>6, TokenMoves, OnlyElsewhere DEF Places
    <2>7. QED
      BY <2>1, <2>5, <2>6
  <1>3. ASSUME NEW c \in MayLeave, Leave(c)
        PROVE  OneToken'
    BY <1>3, TokenUntouched DEF Leave
  <1>4. CASE ServerRestart \/ \E k \in Clients : ConnectionLost(k)
    <2>1. /\ UNCHANGED <<latest, down, ops, pc, negotiating>>
          /\ \A c \in Clients : up'[c] = << >> \/ up'[c] = up[c]
      BY <1>t, <1>4 DEF ServerRestart, ConnectionLost, PageTypeOK
    <2>2. \A d \in Clients : \A m : /\ SentBy(d, m)' <=> SentBy(d, m)
                                    /\ SentTo(d, m)' <=> SentTo(d, m)
                                    /\ MadeBy(d, m)' <=> MadeBy(d, m)
      BY <2>1, SameMeaning DEF SameSessions
    <2>3. ASSUME NEW p \in Places, NEW c \in Clients, Holds(p, c)'
          PROVE  Holds(p, c) /\ (Carries(p, c) => Carries(p, c)')
      BY <2>1, <2>2, <2>3 DEF Holds, Carries, Call
    <2>4. QED
      BY <2>1, <2>3, TokenStays
  <1>5. QED
    BY <1>1, <1>2, <1>3, <1>4, NeverHappens DEF NetworkStep

LEMMA TokenInReact ==
  ASSUME OneCallerOnly, PageTypeOK, OneToken, NotHandledTwice, OwnIds,
         NEW c \in Clients, ReactStep(c)
  PROVE  OneToken'
  <1> USE DEF reactVars, rtcVars, socketVars, userVars
  <1>1. CASE Render(c) \/ RunEffects(c)
    BY <1>1, TokenUntouched DEF Render, RunEffects
  <1>2. CASE RunSDPEffect(c)
    <2>1. PICK m, id : m = rendered[c].pendingSDP /\ id = rendered[c].clientId
      OBVIOUS
    <2>2. /\ Elsewhere("state", c) /\ SentTo(c, m) /\ negotiating[caller]
          /\ m.from \in Ids /\ m.desc \in Descriptions /\ id = c
      <3>1. SDPToHandle(c) /\ id # None /\ m # None
        BY <1>2, <2>1 DEF RunSDPEffect, SDPToHandle
      <3>2. QED
        BY <2>1, <3>1, Handling, OnlyElsewhere, StateFields DEF Places, OwnIds
    <2>3. PICK o \in Ops : o = Op("setRemote", m.desc, m.from, id)
      BY <2>2, OpTypes
    <2>4. /\ UNCHANGED <<up, down, negotiating>>
          /\ ops' = [ops EXCEPT ![c] = Append(@, o)]
      BY <1>2, <2>1, <2>3 DEF RunSDPEffect
    <2>5. SameSessions
      BY <1>2, TracksOnly
    <2>6. MadeBy(c, o)'
      <3>1. MadeBy(c, o)
        BY <2>2, <2>3 DEF SentTo, IsOffer, IsAnswer, Op, MadeBy, CallerCall, CalleeCall
      <3>2. QED
        BY <2>5, <3>1, SameMeaning
    <2>7. ops'[c] = Append(<< >>, o) /\ \A d \in Clients \ {c} : ops'[d] = << >>
      BY <2>2, <2>4 DEF Elsewhere, PageTypeOK
    <2>8. \A d \in Clients : latest'[d].pendingSDP = None
      BY <1>2, <2>2, StatesSet, OthersKeepState DEF Elsewhere
    <2>9. Elsewhere("chain", c)'
      BY <2>2, <2>4, <2>7, <2>8 DEF Elsewhere, IsWelcome
    <2>10. Carries("chain", c)'
      BY <2>6, <2>7, AppendedToEmpty DEF Carries, Call
    <2>11. QED
      BY <2>2, <2>4, <2>9, <2>10, TokenMoves, OnlyElsewhere DEF Places
  <1>3. QED
    BY <1>1, <1>2 DEF ReactStep

LEMMA TokenReceived ==
  ASSUME OneCallerOnly, TypeOK, OneToken, NEW c \in Clients, MessageStep(c)
  PROVE  OneToken'
  <1> USE DEF reactVars, rtcVars, socketVars, userVars
  <1>t. PageTypeOK
    BY DEF TypeOK
  <1>0. /\ down[c] \in Seq(Messages) /\ down[c] # << >>
        /\ UNCHANGED <<up, ops, pc, negotiating>> 
        /\ down'[c] = Tail(down[c]) /\ \A d \in Clients \ {c} : down'[d] = down[d]
    BY <1>t, NeverHappens DEF MessageStep, OnWelcome, OnSDP, Received, PageTypeOK
  <1>1. /\ 1 \in DOMAIN down[c] /\ down[c][1] = Head(down[c])
        /\ \A i \in DOMAIN down'[c] :
             i + 1 \in DOMAIN down[c] /\ i + 1 # 1 /\ down'[c][i] = down[c][i + 1]
        /\ \A i \in DOMAIN down[c] : i # 1 => i - 1 \in DOMAIN down'[c]
                                               /\ down'[c][i - 1] = down[c][i]
    BY <1>0, Shifted
  <1>2. \A d \in Clients : \A m : /\ SentBy(d, m)' <=> SentBy(d, m)
                                  /\ SentTo(d, m)' <=> SentTo(d, m)
                                  /\ MadeBy(d, m)' <=> MadeBy(d, m)
    BY <1>0, SameMeaning DEF SameSessions
  <1>3. CASE OnWelcome(c)
    <2>1. \A d \in Clients : latest'[d].pendingSDP = latest[d].pendingSDP
      BY <1>t, <1>3, StatesSet, OthersKeepState
    <2>2. IsWelcome(Head(down[c]))
      BY <1>3 DEF OnWelcome, Received, IsWelcome
    <2>3. ASSUME NEW p \in Places, NEW d \in Clients, Holds(p, d)'
          PROVE  Holds(p, d) /\ (Carries(p, d) => Carries(p, d)')
      <3>1. Holds(p, d)
        <4>1. (\E i \in DOMAIN down'[c] : ~ IsWelcome(down'[c][i]))
                => \E i \in DOMAIN down[c] : ~ IsWelcome(down[c][i])
          BY <1>1
        <4>2. QED
          BY <1>0, <2>1, <2>3, <4>1 DEF Holds, IsWelcome
      <3>2. CASE p = "down" /\ d = c
        <4>1. SUFFICES ASSUME Carries("down", c)
                       PROVE  Carries("down", c)'
          BY <3>1, <3>2
        <4>2. PICK i \in DOMAIN down[c] :
                /\ SentTo(c, down[c][i])
                /\ \A j \in DOMAIN down[c] : j # i => IsWelcome(down[c][j])
          BY <4>1 DEF Carries
        <4>3. i # 1
          BY <1>1, <2>2, <4>2 DEF SentTo, IsAnswer, IsOffer, IsWelcome
        <4>4. i \in Nat /\ i - 1 \in DOMAIN down'[c] /\ SentTo(c, down[c][i - 1])'
          BY <1>0, <1>1, <1>2, <4>2, <4>3
        <4>5. \A j \in DOMAIN down'[c] : j # i - 1 => IsWelcome(down'[c][j])
          <5>1. \A j \in DOMAIN down'[c] : j \in Nat
            BY <1>0
          <5>2. QED
            BY <1>1, <4>2, <4>4, <5>1
        <4>6. QED
          BY <4>4, <4>5 DEF Carries, IsWelcome
      <3>3. CASE ~ (p = "down" /\ d = c)
        BY <1>0, <1>2, <2>1, <3>1, <3>3 DEF Carries, Call
      <3>4. QED
        BY <3>2, <3>3
    <2>4. QED
      BY <1>0, <2>3, TokenStays
  <1>4. CASE OnSDP(c)
    <2>1. PICK m : m = Head(down[c])
      OBVIOUS
    <2>2. ~ IsWelcome(m)
      BY <1>4, <2>1 DEF OnSDP, Received, IsWelcome
    <2>3. /\ Elsewhere("down", c) /\ SentTo(c, m) /\ negotiating[caller]
          /\ \A j \in DOMAIN down'[c] : IsWelcome(down'[c][j])
      BY <1>t, <1>0, <2>1, <2>2, Receiving, OnlyElsewhere DEF Places
    <2>4. latest'[c].pendingSDP = m /\ \A d \in Clients \ {c} : latest'[d] = latest[d]
      BY <1>t, <1>4, <2>1, StatesSet, OthersKeepState
    <2>5. Elsewhere("state", c)'
      <3>1. \A d \in Clients : \A i \in DOMAIN down'[d] : IsWelcome(down'[d][i])
        BY <1>0, <2>3 DEF Elsewhere
      <3>2. QED
        BY <1>0, <2>3, <2>4, <3>1 DEF Elsewhere, IsWelcome
    <2>6. Carries("state", c)'
      BY <1>2, <2>3, <2>4 DEF Carries
    <2>7. QED
      BY <1>0, <2>3, <2>5, <2>6, TokenMoves, OnlyElsewhere DEF Places
  <1>5. QED
    BY <1>3, <1>4, NeverHappens DEF MessageStep

LEMMA TokenOfUser ==
  ASSUME OneCallerOnly, PageTypeOK, OneToken, FlagGuards, OwnIds, NEW c \in Clients,
         \/ MediaGranted(c) \/ MediaDenied(c) \/ OnIceCandidate(c)
         \/ c \in Callers /\ createOffer(c)
         \/ c \in Callers /\ \E v \in Inputs : OnChange(c, v)
  PROVE  OneToken'
  <1> USE DEF reactVars, rtcVars, socketVars, userVars
  <1>1. CASE MediaGranted(c) \/ \E v \in Inputs : OnChange(c, v)
    <2>1. UNCHANGED <<up, down, ops, pc, negotiating>>
      BY <1>1 DEF MediaGranted, OnChange
    <2>2. \A d \in Clients : latest'[d].pendingSDP = latest[d].pendingSDP
      BY <1>1, StatesSet, OthersKeepState
    <2>3. QED
      BY <2>1, <2>2, TokenUntouched
  <1>2. CASE MediaDenied(c)
    BY <1>2, TokenUntouched DEF MediaDenied
  <1>3. CASE OnIceCandidate(c)
    <2>1. UNCHANGED up
      BY <1>3 DEF OnIceCandidate, sendMessage, mountClosure, FirstRender
    <2>2. QED
      BY <1>3, <2>1, TokenUntouched DEF OnIceCandidate
  <1>4. CASE c \in Callers /\ createOffer(c)
    <2>1. c = caller /\ ~ negotiating[caller] /\ negotiating'[caller]
      BY <1>4, TheCaller DEF createOffer, MayOffer, PageTypeOK
    <2>2. \A p \in Places, d \in Clients : ~ Holds(p, d)
      BY <2>1 DEF OneToken
    <2>3. PICK to, id : to = rendered[c].peerId /\ id = rendered[c].clientId
      OBVIOUS
    <2>4. to \in Ids \ {caller} /\ id \in {None, caller} /\ id \in Clients \cup {None}
      BY <1>4, <2>1, <2>3, StateFields DEF createOffer, MayOffer, OwnIds
    <2>5. PICK o \in Ops : o = Op("createOffer", None, to, id)
      BY <2>4, OpTypes
    <2>6. UNCHANGED <<latest, up, down>> /\ ops' = [ops EXCEPT ![c] = Append(@, o)]
      BY <1>4, <2>3, <2>5 DEF createOffer
    <2>7. SameSessions
      BY <1>4, TracksOnly
    <2>8. MadeBy(c, o)'
      <3>1. pc[caller].sig = "stable"
        BY <2>1 DEF FlagGuards, Waiting
      <3>2. MadeBy(c, o)
        BY <2>1, <2>4, <2>5, <3>1 DEF MadeBy, CallerCall, Op
      <3>3. QED
        BY <2>7, <3>2, SameMeaning
    <2>9. ops'[c] = Append(<< >>, o) /\ \A d \in Clients \ {c} : ops'[d] = << >>
      BY <2>2, <2>6 DEF Holds, Places, PageTypeOK
    <2>10. Elsewhere("chain", c)'
      BY <2>2, <2>6, <2>9 DEF Elsewhere, IsWelcome, Holds, Places
    <2>11. Carries("chain", c)'
      BY <2>8, <2>9, AppendedToEmpty DEF Carries, Call
    <2>12. QED
      BY <2>1, <2>10, <2>11, TokenMoves, OnlyElsewhere DEF Places
  <1>5. QED
    BY <1>1, <1>2, <1>3, <1>4

\* What the operations of the connection leave.
LEMMA CreatedOfferLeaves ==
  ASSUME NEW p \in PeerConnections, NEW c, NEW q, q = CreatedOffer(p, c)
  PROVE  /\ q.sig = p.sig /\ q.current = p.current /\ q.localOffer = p.localOffer
         /\ q.lastOffer = Offer(c, p.made + 1) /\ q.made = p.made + 1
  BY DEF PeerConnections, CreatedOffer

LEMMA CreatedAnswerLeaves ==
  ASSUME NEW p \in PeerConnections, NEW c, NEW q, q = CreatedAnswer(p, c)
  PROVE  /\ q.sig = p.sig /\ q.current = p.current /\ q.remoteOffer = p.remoteOffer
         /\ q.lastAnswer = Answer(c, p.made + 1)
  BY DEF PeerConnections, CreatedAnswer

LEMMA SetLocalOfferLeaves ==
  ASSUME NEW p \in PeerConnections, NEW d, NEW q, q = SetLocalOffer(p, d)
  PROVE  /\ q.sig = "have-local-offer" /\ q.localOffer = d
         /\ q.current = p.current /\ q.made = p.made
  BY DEF PeerConnections, SetLocalOffer

LEMMA SetRemoteOfferLeaves ==
  ASSUME NEW p \in PeerConnections, NEW d, NEW q, q = SetRemoteOffer(p, d)
  PROVE  q.sig = "have-remote-offer" /\ q.remoteOffer = d /\ q.current = p.current
  BY DEF PeerConnections, SetRemoteOffer

LEMMA SetLocalAnswerLeaves ==
  ASSUME NEW p \in PeerConnections, NEW d, NEW q, q = SetLocalAnswer(p, d)
  PROVE  /\ q.sig = "stable"
         /\ q.current = [offer |-> p.remoteOffer, answer |-> d]
  BY DEF PeerConnections, SetLocalAnswer, Agreed

LEMMA SetRemoteAnswerLeaves ==
  ASSUME NEW p \in PeerConnections, NEW d, NEW q, q = SetRemoteAnswer(p, d)
  PROVE  /\ q.sig = "stable" /\ q.localOffer = None /\ q.made = p.made
         /\ q.current = [offer |-> p.localOffer, answer |-> d]
  BY DEF PeerConnections, SetRemoteAnswer, Agreed

\* Whose call it is: the caller makes offers and takes answers, the others
\* take offers and make answers.
LEMMA CallOwner ==
  ASSUME OneCallerOnly, TypeOK, OneToken, OffersNumbered, NEW c \in Clients, CallStep(c)
  PROVE  /\ OfferCreated(c) \/ OfferSet(c) \/ RemoteAnswerSet(c) => c = caller
         /\ RemoteOfferSet(c) \/ AnswerCreated(c) \/ AnswerSet(c) => c # caller
         /\ Elsewhere("chain", c) /\ MadeBy(c, Call(c)) /\ Tail(ops[c]) = << >>
         /\ negotiating[caller] /\ pc[c] \in PeerConnections /\ Call(c) \in Ops
         /\ UNCHANGED <<latest, rendered, effects, down>>
         /\ \A d \in Clients \ {c} : /\ pc'[d] = pc[d] /\ negotiating'[d] = negotiating[d]
                                      /\ ops'[d] = << >> /\ up'[d] = << >>
  <1> USE DEF reactVars, rtcVars, socketVars, userVars
  <1>t. PageTypeOK
    BY DEF TypeOK
  <1>0. \/ OfferCreated(c) \/ OfferSet(c) \/ RemoteAnswerSet(c)
        \/ RemoteOfferSet(c) \/ AnswerCreated(c) \/ AnswerSet(c)
    BY NeverHappens DEF CallStep
  <1>1. ops[c] # << >>
    BY <1>0 DEF OfferCreated, OfferSet, RemoteAnswerSet, RemoteOfferSet,
       AnswerCreated, AnswerSet, Resolved
  <1>2. /\ Elsewhere("chain", c) /\ MadeBy(c, Call(c)) /\ Tail(ops[c]) = << >>
        /\ negotiating[caller] /\ pc[c] \in PeerConnections /\ Call(c) \in Ops
    BY <1>t, <1>1, Calling, OnlyElsewhere, CallTypes DEF Places, PageTypeOK
  <1>3. OfferCreated(c) \/ OfferSet(c) \/ RemoteAnswerSet(c) => c = caller
    BY <1>2 DEF OfferCreated, OfferSet, RemoteAnswerSet, Resolved, MadeBy, CalleeCall
  <1>4. RemoteOfferSet(c) \/ AnswerCreated(c) \/ AnswerSet(c) => c # caller
    BY <1>2 DEF RemoteOfferSet, AnswerCreated, AnswerSet, Resolved, MadeBy,
       CallerCall, AnswersIt
  <1>5. UNCHANGED <<latest, rendered, effects, down>>
    BY <1>0 DEF OfferCreated, OfferSet, RemoteAnswerSet, RemoteOfferSet,
       AnswerCreated, AnswerSet
  <1>6. \A d \in Clients \ {c} : pc'[d] = pc[d] /\ negotiating'[d] = negotiating[d]
    BY <1>t, <1>0 DEF OfferCreated, OfferSet, RemoteAnswerSet, RemoteOfferSet,
       AnswerCreated, AnswerSet, onStable, PageTypeOK
  <1>7. \A d \in Clients \ {c} : ops'[d] = ops[d] /\ up'[d] = up[d]
    BY <1>t, <1>0 DEF OfferCreated, OfferSet, RemoteAnswerSet, RemoteOfferSet,
       AnswerCreated, AnswerSet, NextCall, LastCall, sendDescription, sendMessage,
       PageTypeOK
  <1>8. QED
    BY <1>2, <1>3, <1>4, <1>5, <1>6, <1>7 DEF Elsewhere

\* The continuation of a call makes the next one.
LEMMA TokenStaysInChain ==
  ASSUME PageTypeOK, NEW c \in Clients, Elsewhere("chain", c), Tail(ops[c]) = << >>,
         NEW o \in Ops, NextCall(c, o), MadeBy(c, o)', negotiating'[caller],
         UNCHANGED <<latest, up, down>>
  PROVE  OneToken'
  <1>1. ops'[c] = Append(<< >>, o) /\ \A d \in Clients \ {c} : ops'[d] = << >>
    BY DEF NextCall, Elsewhere, PageTypeOK
  <1>2. Elsewhere("chain", c)'
    BY <1>1 DEF Elsewhere, IsWelcome
  <1>3. Carries("chain", c)'
    BY <1>1, AppendedToEmpty DEF Carries, Call
  <1>4. QED
    BY <1>2, <1>3, TokenMoves, OnlyElsewhere DEF Places

\* The last call of a chain sends its description, or the token is lost.
LEMMA TokenSent ==
  ASSUME PageTypeOK, NEW c \in Clients, Elsewhere("chain", c), Tail(ops[c]) = << >>,
         LastCall(c), UNCHANGED <<latest, down>>, \A d \in Clients \ {c} : up'[d] = << >>,
         NEW m \in Messages,
         \/ up'[c] = << >>
         \/ up'[c] = Append(<< >>, m) /\ SentBy(c, m)' /\ negotiating'[caller]
  PROVE  OneToken'
  <1>1. \A d \in Clients : ops'[d] = << >>
    BY DEF LastCall, Elsewhere, PageTypeOK
  <1>2. Elsewhere("up", c)'
    BY <1>1 DEF Elsewhere, IsWelcome
  <1>3. CASE up'[c] = << >>
    BY <1>2, <1>3, TokenMoves, OnlyElsewhere DEF Places, Holds
  <1>4. CASE up'[c] = Append(<< >>, m) /\ SentBy(c, m)' /\ negotiating'[caller]
    <2>1. Carries("up", c)'
      BY <1>4, AppendedToEmpty DEF Carries
    <2>2. QED
      BY <1>2, <1>4, <2>1, TokenMoves, OnlyElsewhere DEF Places
  <1>5. QED
    BY <1>3, <1>4

LEMMA NumberTypes ==
  ASSUME OneCallerOnly, PageTypeOK, OffersNumbered
  PROVE  /\ pc[caller].made \in Nat
         /\ Waiting => TheOffer.n \in Nat
         /\ \A t \in Clients : pc[t].current # None => pc[t].current.offer.n \in Nat
  <1>1. caller \in Clients /\ \A t \in Clients : pc[t] \in PeerConnections
    BY TheCaller DEF PageTypeOK
  <1>2. \A d \in Descriptions : d.n \in Nat
    BY DEF Descriptions
  <1>3. pc[caller].made \in Nat /\ TheOffer \in Descriptions \cup {None}
    BY <1>1 DEF PeerConnections, TheOffer
  <1>4. ASSUME NEW t \in Clients, pc[t].current # None
        PROVE  pc[t].current.offer \in Descriptions
    <2>1. pc[t].current.offer \in Descriptions \cup {None}
      BY <1>1, <1>4 DEF PeerConnections
    <2>2. QED
      BY <1>4, <2>1 DEF OffersNumbered
  <1>5. QED
    BY <1>2, <1>3, <1>4 DEF OffersNumbered

\* An offer has a number above those of all sessions: it is fresh.
LEMMA FreshOffer ==
  ASSUME OneCallerOnly, PageTypeOK, OffersNumbered
  PROVE  Untaken(Offer(caller, pc[caller].made + 1))
  BY NumberTypes DEF Untaken, Offer, OffersNumbered

LEMMA TokenInCalls ==
  ASSUME OneCallerOnly, TypeOK, OneToken, OffersNumbered, NEW c \in Clients, CallStep(c)
  PROVE  OneToken'
  <1> USE DEF reactVars, rtcVars, socketVars, userVars
  <1>t. PageTypeOK
    BY DEF TypeOK
  <1>0. PICK o \in Ops : o = Call(c)
    BY CallOwner
  <1>1. /\ Elsewhere("chain", c) /\ MadeBy(c, o) /\ Tail(ops[c]) = << >>
        /\ negotiating[caller] /\ pc[c] \in PeerConnections /\ caller \in Clients
        /\ UNCHANGED <<latest, down>>
        /\ \A d \in Clients \ {c} : /\ pc'[d] = pc[d] /\ negotiating'[d] = negotiating[d]
                                     /\ up'[d] = << >>
    BY <1>0, CallOwner, TheCaller
  <1>2. o.op # "addIceCandidate" => o.to \in Ids /\ o.cid \in Clients \cup {None}
    BY DEF Ops
  <1>3. PICK new : new = pc[c].made + 1
    OBVIOUS
  <1>4. /\ Offer(c, new) \in Descriptions /\ Answer(c, new) \in Descriptions
        /\ Offer(c, new).type = "offer" /\ Offer(c, new).by = c /\ Offer(c, new).n = new
        /\ Answer(c, new).type = "answer" /\ Answer(c, new).by = c
        /\ new \in Nat
    BY <1>1, <1>3, CreatedTypes, DescriptionTypes DEF Ids, Offer, Answer
  \* A step that changes no session takes no offer.
  <1>u. ASSUME NEW d, Untaken(d), pc'[c].current = pc[c].current
        PROVE  Untaken(d)'
    BY <1>1, <1>u DEF Untaken
  <1>5. CASE OfferCreated(c)
    <2>1. c = caller /\ o.op = "createOffer" /\ o.to # caller
            /\ o.cid \in {None, caller} /\ pc[caller].sig = "stable"
      BY <1>0, <1>1, <1>5, CallOwner
         DEF OfferCreated, Resolved, MadeBy, CallerCall
    <2>2. PICK n \in Ops : n = Op("setLocal", Offer(c, new), o.to, o.cid)
      BY <1>2, <1>4, <2>1, OpTypes
    <2>3. NextCall(c, n) /\ UNCHANGED <<negotiating, up>>
      BY <1>0, <1>3, <1>5, <2>2 DEF OfferCreated
    <2>4. /\ pc'[c].sig = "stable" /\ pc'[c].lastOffer = Offer(c, new)
          /\ pc'[c].current = pc[c].current /\ pc'[c].made = new
      <3>1. pc'[c] = CreatedOffer(pc[c], c)
        BY <1>t, <1>5 DEF OfferCreated, PageTypeOK
      <3>2. QED
        BY <1>1, <1>3, <2>1, <3>1, CreatedOfferLeaves
    <2>5. MadeBy(c, n)'
      <3>1. Untaken(Offer(c, new))
        BY <1>t, <1>3, <2>1, FreshOffer
      <3>2. PICK d : d = Offer(c, new)
        OBVIOUS
      <3>3. Untaken(d)'
        BY <1>u, <2>4, <3>1, <3>2
      <3>4. n.op = "setLocal" /\ n.desc = d /\ n.to = o.to /\ n.cid = o.cid
        BY <2>2, <3>2 DEF Op
      <3>5. Untaken(n.desc)'
        BY <3>3, <3>4
      <3>6. QED
        BY <1>4, <2>1, <2>4, <3>2, <3>4, <3>5 DEF MadeBy, CallerCall
    <2>6. QED
      BY <1>t, <1>1, <2>3, <2>5, TokenStaysInChain
  <1>6. CASE OfferSet(c)
    <2>1. /\ c = caller /\ o.op = "setLocal" /\ o.desc.type = "offer"
          /\ o.to # caller /\ o.cid \in {None, caller} /\ Untaken(o.desc)
      BY <1>0, <1>1, <1>6, CallOwner
         DEF OfferSet, Resolved, MadeBy, CallerCall
    <2>2. o.desc \in Descriptions
      BY <2>1 DEF Ops
    <2>3. PICK m \in Messages : m = Sdp(caller, o.to, o.desc)
      BY <1>1, <1>2, <2>1, <2>2, MessageTypes DEF Ids, Messages
    <2>4. LastCall(c) /\ negotiating'[caller]
      BY <1>1, <1>6 DEF OfferSet
    <2>5. /\ pc'[c].sig = "have-local-offer" /\ pc'[c].localOffer = o.desc
          /\ pc'[c].current = pc[c].current
      <3>1. pc'[c] = SetLocalOffer(pc[c], o.desc)
        BY <1>t, <1>0, <1>6 DEF OfferSet, PageTypeOK
      <3>2. QED
        BY <1>1, <3>1, SetLocalOfferLeaves
    <2>6. SentBy(c, m)'
      <3>1. TheOffer' = o.desc /\ Waiting'
        BY <2>1, <2>5 DEF TheOffer, Waiting
      <3>2. Untaken(TheOffer)'
        BY <1>u, <2>1, <2>5, <3>1
      <3>3. QED
        BY <2>1, <2>3, <3>1, <3>2 DEF SentBy, IsOffer, Sdp
    <2>7. up'[c] = << >> \/ up'[c] = Append(<< >>, m)
      BY <1>t, <1>0, <1>1, <1>6, <2>1, <2>3
         DEF OfferSet, sendDescription, sendMessage, Elsewhere, PageTypeOK
    <2>8. QED
      BY <1>t, <1>1, <2>4, <2>6, <2>7, TokenSent
  <1>7. CASE RemoteOfferSet(c)
    <2>1. /\ c # caller /\ Waiting /\ o.to = caller /\ o.cid = c
          /\ o.op = "setRemote" /\ o.desc = TheOffer /\ Untaken(TheOffer)
      BY <1>0, <1>1, <1>7, CallOwner
         DEF RemoteOfferSet, Resolved, MadeBy, CalleeCall
    <2>2. PICK n \in Ops : n = Op("createAnswer", None, o.to, o.cid)
      BY <1>2, <2>1, OpTypes
    <2>3. NextCall(c, n) /\ negotiating'[caller] /\ UNCHANGED up
      BY <1>0, <1>1, <1>7, <2>1, <2>2 DEF RemoteOfferSet
    <2>4. /\ pc'[c].sig = "have-remote-offer" /\ pc'[c].remoteOffer = o.desc
          /\ pc'[c].current = pc[c].current
      <3>1. pc'[c] = SetRemoteOffer(pc[c], o.desc)
        BY <1>t, <1>0, <1>7 DEF RemoteOfferSet, PageTypeOK
      <3>2. QED
        BY <1>1, <3>1, SetRemoteOfferLeaves
    <2>5. MadeBy(c, n)'
      <3>1. TheOffer' = TheOffer /\ Waiting'
        BY <1>1, <2>1 DEF TheOffer, Waiting
      <3>2. Untaken(TheOffer)'
        BY <1>u, <2>1, <2>4, <3>1
      <3>3. QED
        BY <1>4, <2>1, <2>2, <2>4, <3>1, <3>2 DEF MadeBy, CalleeCall, Op
    <2>6. QED
      BY <1>t, <1>1, <2>3, <2>5, TokenStaysInChain
  <1>8. CASE RemoteAnswerSet(c)
    <2>1. LastCall(c) /\ UNCHANGED up
      BY <1>8 DEF RemoteAnswerSet
    <2>2. Welcome(c) \in Messages /\ up'[c] = << >>
      BY <1>1, <2>1 DEF Elsewhere, Welcome, Messages
    <2>3. QED
      BY <1>t, <1>1, <2>1, <2>2, TokenSent
  <1>9. CASE AnswerCreated(c)
    <2>1. /\ c # caller /\ Waiting /\ o.to = caller /\ o.cid = c
          /\ o.op = "createAnswer" /\ Untaken(TheOffer)
          /\ pc[c].sig = "have-remote-offer" /\ pc[c].remoteOffer = TheOffer
      BY <1>0, <1>1, <1>9, CallOwner
         DEF AnswerCreated, Resolved, MadeBy, CalleeCall
    <2>2. PICK n \in Ops : n = Op("setLocal", Answer(c, new), o.to, o.cid)
      BY <1>2, <1>4, <2>1, OpTypes
    <2>3. NextCall(c, n) /\ UNCHANGED <<negotiating, up>>
      BY <1>0, <1>3, <1>9, <2>2 DEF AnswerCreated
    <2>4. /\ pc'[c].sig = "have-remote-offer" /\ pc'[c].remoteOffer = pc[c].remoteOffer
          /\ pc'[c].lastAnswer = Answer(c, new) /\ pc'[c].current = pc[c].current
      <3>1. pc'[c] = CreatedAnswer(pc[c], c)
        BY <1>t, <1>9 DEF AnswerCreated, PageTypeOK
      <3>2. QED
        BY <1>1, <1>3, <2>1, <3>1, CreatedAnswerLeaves
    <2>5. MadeBy(c, n)'
      <3>1. TheOffer' = TheOffer /\ Waiting'
        BY <1>1, <2>1 DEF TheOffer, Waiting
      <3>2. Untaken(TheOffer)'
        BY <1>u, <2>1, <2>4, <3>1
      <3>3. QED
        BY <1>4, <2>1, <2>2, <2>4, <3>1, <3>2 DEF MadeBy, CalleeCall, Op
    <2>6. QED
      BY <1>t, <1>1, <2>3, <2>5, TokenStaysInChain
  <1>10. CASE AnswerSet(c)
    <2>1. /\ c # caller /\ Waiting /\ o.to = caller /\ o.cid = c
          /\ o.op = "setLocal" /\ o.desc.type = "answer" /\ o.desc.by = c
          /\ pc[c].remoteOffer = TheOffer
      BY <1>0, <1>1, <1>10, CallOwner
         DEF AnswerSet, Resolved, MadeBy, CalleeCall
    <2>2. o.desc \in Descriptions
      BY <2>1 DEF Ops
    <2>3. PICK m \in Messages : m = Sdp(c, caller, o.desc)
      BY <1>1, <2>2, MessageTypes DEF Ids, Messages
    <2>4. LastCall(c) /\ negotiating'[caller]
      BY <1>1, <1>10, <2>1 DEF AnswerSet
    <2>5. pc'[c].current = [offer |-> TheOffer, answer |-> o.desc]
      <3>1. pc'[c] = SetLocalAnswer(pc[c], o.desc)
        BY <1>t, <1>0, <1>10 DEF AnswerSet, PageTypeOK
      <3>2. QED
        BY <1>1, <2>1, <3>1, SetLocalAnswerLeaves
    <2>6. SentBy(c, m)'
      BY <1>1, <2>1, <2>3, <2>5
         DEF SentBy, IsAnswer, AnswersIt, Sdp, Waiting, TheOffer
    <2>7. up'[c] = << >> \/ up'[c] = Append(<< >>, m)
      BY <1>t, <1>0, <1>1, <1>10, <2>1, <2>3
         DEF AnswerSet, sendDescription, sendMessage, Elsewhere, PageTypeOK
    <2>8. QED
      BY <1>t, <1>1, <2>4, <2>6, <2>7, TokenSent
  <1>11. QED
    BY <1>5, <1>6, <1>7, <1>8, <1>9, <1>10, NeverHappens DEF CallStep

LEMMA TokenStep ==
  ASSUME OneCallerOnly, TypeOK, OneCallInv, [Next]_vars
  PROVE  OneToken'
  <1>t. PageTypeOK
    BY DEF TypeOK
  <1>1. ASSUME NEW c \in Clients, PageStep(c)
        PROVE  OneToken'
    BY <1>t, <1>1, TokenInReact, TokenReceived, TokenInCalls, TokenOfUser
       DEF PageStep, OneCallInv
  <1>2. CASE NetworkStep
    BY <1>2, TokenOverNetwork DEF OneCallInv
  <1>3. CASE UNCHANGED vars
    BY <1>3, TokenUntouched DEF OneCallInv, vars, pageVars, reactVars, rtcVars, socketVars
  <1>4. QED
    BY <1>1, <1>2, <1>3 DEF Next

-----------------------------------------------------------------------------
(* The rest of the invariant *)

\* Only settled calls change what a connection has negotiated.
LEMMA SessionsKept ==
  ASSUME OneCallerOnly, TypeOK, OneToken, [Next]_vars,
         \A c \in Clients : ~ CallStep(c)
  PROVE  SameSessions /\ (negotiating'[caller] = negotiating[caller] \/ negotiating'[caller])
  <1> USE DEF reactVars, rtcVars, socketVars, userVars
  <1>t. PageTypeOK /\ caller \in Clients
    BY TheCaller DEF TypeOK
  <1>1. CASE UNCHANGED <<pc, negotiating>>
    BY <1>1 DEF SameSessions
  <1>2. ASSUME NEW c \in Clients, RunSDPEffect(c)
        PROVE  SameSessions /\ UNCHANGED negotiating
    BY <1>t, <1>2, TracksOnly DEF RunSDPEffect
  <1>3. ASSUME NEW c \in Clients, createOffer(c)
        PROVE  /\ SameSessions
               /\ negotiating'[caller] = negotiating[caller] \/ negotiating'[caller]
    <2>1. negotiating' = [negotiating EXCEPT ![c] = TRUE]
      BY <1>3 DEF createOffer
    <2>2. QED
      BY <1>t, <1>3, <2>1, TracksOnly DEF PageTypeOK
  <1>4. ASSUME NEW c \in Clients,
               \/ Render(c) \/ RunEffects(c) \/ OnWelcome(c) \/ OnSDP(c)
               \/ MediaGranted(c) \/ MediaDenied(c) \/ OnIceCandidate(c)
               \/ \E v \in Inputs : OnChange(c, v)
        PROVE  UNCHANGED <<pc, negotiating>>
    BY <1>4 DEF Render, RunEffects, OnWelcome, OnSDP, MediaGranted, MediaDenied,
       OnIceCandidate, OnChange
  <1>5. CASE NetworkStep
    <2>1. UNCHANGED <<pc, negotiating>>
      BY <1>5 DEF NetworkStep, Connect, Route, Leave, StrangerOffer,
         StrangerAnswer, StrangerCandidate, ConnectionLost, ServerRestart
    <2>2. QED
      BY <1>1, <2>1
  <1>6. CASE UNCHANGED vars
    BY <1>1, <1>6 DEF vars, pageVars
  <1>7. QED
    BY <1>1, <1>2, <1>3, <1>4, <1>5, <1>6, NeverHappens
       DEF Next, PageStep, ReactStep, MessageStep

LEMMA SessionsStep ==
  ASSUME OneCallerOnly, TypeOK, OneCallInv, [Next]_vars
  PROVE  FlagGuards' /\ OffersNumbered' /\ SessionShared'
  <1>t. /\ PageTypeOK /\ OneToken /\ FlagGuards /\ OffersNumbered /\ SessionShared
        /\ caller \in Clients
    BY TheCaller DEF TypeOK, OneCallInv
  <1>1. CASE \A c \in Clients : ~ CallStep(c)
    <2>1. SameSessions /\ (negotiating'[caller] = negotiating[caller] \/ negotiating'[caller])
      BY <1>t, <1>1, SessionsKept
    <2>2. FlagGuards'
      BY <1>t, <2>1 DEF FlagGuards, SameSessions, Waiting
    <2>3. SessionShared'
      BY <1>t, <2>1 DEF SessionShared, SameSessions
    <2>4. OffersNumbered'
      BY <1>t, <2>1 DEF OffersNumbered, SameSessions, Waiting, TheOffer
    <2>5. QED
      BY <2>2, <2>3, <2>4
  <1>2. ASSUME NEW c \in Clients, CallStep(c)
        PROVE  FlagGuards' /\ OffersNumbered' /\ SessionShared'
    <2>0. PICK o : o = Call(c)
      OBVIOUS
    <2>1. /\ OfferCreated(c) \/ OfferSet(c) \/ RemoteAnswerSet(c) => c = caller
          /\ RemoteOfferSet(c) \/ AnswerCreated(c) \/ AnswerSet(c) => c # caller
          /\ MadeBy(c, o) /\ negotiating[caller] /\ pc[c] \in PeerConnections
          /\ \A d \in Clients \ {c} : pc'[d] = pc[d] /\ negotiating'[d] = negotiating[d]
      BY <1>t, <1>2, <2>0, CallOwner
    \* The session of the tab, and of the caller, stay what they are.
    <2>2. CASE OfferCreated(c) \/ AnswerCreated(c) \/ RemoteOfferSet(c)
      <3>1. \/ pc'[c] = CreatedOffer(pc[c], c) \/ pc'[c] = CreatedAnswer(pc[c], c)
            \/ pc'[c] = SetRemoteOffer(pc[c], o.desc)
        BY <1>t, <2>0, <2>2 DEF OfferCreated, AnswerCreated, RemoteOfferSet, PageTypeOK
      <3>2. pc'[c].current = pc[c].current
        BY <2>1, <3>1, CreatedOfferLeaves, CreatedAnswerLeaves, SetRemoteOfferLeaves
      <3>3. /\ pc'[caller].sig = pc[caller].sig /\ pc'[caller].current = pc[caller].current
            /\ pc'[caller].localOffer = pc[caller].localOffer
            /\ pc'[caller].made \in {pc[caller].made, pc[caller].made + 1}
        <4>1. CASE OfferCreated(c)
          <5>1. pc'[c] = CreatedOffer(pc[c], c)
            BY <1>t, <4>1 DEF OfferCreated, PageTypeOK
          <5>2. QED
            BY <2>1, <4>1, <5>1, CreatedOfferLeaves
        <4>2. CASE ~ OfferCreated(c)
          BY <1>t, <2>1, <2>2, <4>2
        <4>3. QED
          BY <4>1, <4>2
      <3>4. negotiating'[caller]
        BY <1>t, <2>1, <2>2 DEF OfferCreated
      <3>5. FlagGuards'
        BY <1>t, <3>3, <3>4 DEF FlagGuards
      <3>6. SessionShared'
        BY <1>t, <2>1, <3>2, <3>3 DEF SessionShared
      <3>7. OffersNumbered'
        <4>1. \A d \in Clients : pc'[d].current = pc[d].current
          BY <2>1, <3>2
        <4>2. (Waiting' <=> Waiting) /\ TheOffer' = TheOffer
          BY <3>3 DEF Waiting, TheOffer
        <4>3. \A i \in Nat : i <= pc[caller].made => i <= pc'[caller].made
          BY <1>t, <3>3, NumberTypes
        <4>4. QED
          BY <1>t, <4>1, <4>2, <4>3, NumberTypes DEF OffersNumbered
      <3>8. QED
        BY <3>5, <3>6, <3>7
    \* The caller waits: there is no session to share.
    <2>3. CASE OfferSet(c) \/ AnswerSet(c)
      <3>1. pc'[caller].sig = "have-local-offer"
        <4>1. CASE OfferSet(c)
          <5>1. pc'[c] = SetLocalOffer(pc[c], o.desc)
            BY <1>t, <2>0, <4>1 DEF OfferSet, PageTypeOK
          <5>2. QED
            BY <2>1, <4>1, <5>1, SetLocalOfferLeaves
        <4>2. CASE AnswerSet(c)
          BY <1>t, <2>1, <4>2 DEF MadeBy, CalleeCall, Waiting
        <4>3. QED
          BY <2>3, <4>1, <4>2
      <3>2. negotiating'[caller]
        BY <1>t, <2>1, <2>3 DEF OfferSet
      <3>3. FlagGuards' /\ SessionShared'
        BY <3>1, <3>2 DEF FlagGuards, SessionShared
      <3>4. OffersNumbered'
        <4>1. CASE OfferSet(c)
          <5>1. pc'[c] = SetLocalOffer(pc[c], o.desc)
            BY <1>t, <2>0, <4>1 DEF OfferSet, PageTypeOK
          <5>2. /\ c = caller /\ o.desc # None /\ o.desc.by = caller
                /\ o.desc.n <= pc[caller].made
            <6>1. ops[c] # << >> /\ o.op = "setLocal"
              BY <2>0, <4>1 DEF OfferSet, Resolved
            <6>2. o.desc \in Descriptions
              BY <1>t, <2>0, <6>1, CallTypes
            <6>3. o.desc # None
              BY <6>2, ChatConstants
            <6>4. QED
              BY <2>1, <4>1, <6>1, <6>3 DEF MadeBy, CallerCall
          <5>3. /\ pc'[c].localOffer = o.desc /\ pc'[c].current = pc[c].current
                /\ pc'[c].made = pc[c].made
            BY <2>1, <5>1, SetLocalOfferLeaves
          <5>4. QED
            BY <1>t, <2>1, <3>1, <5>2, <5>3 DEF OffersNumbered, Waiting, TheOffer
        <4>2. CASE AnswerSet(c)
          <5>1. pc'[c] = SetLocalAnswer(pc[c], o.desc)
            BY <1>t, <2>0, <4>2 DEF AnswerSet, PageTypeOK
          <5>2. c # caller /\ Waiting /\ pc[c].remoteOffer = TheOffer
            BY <2>0, <2>1, <4>2 DEF AnswerSet, Resolved, MadeBy, CalleeCall
          <5>3. pc'[c].current = [offer |-> TheOffer, answer |-> o.desc]
            BY <2>1, <5>1, <5>2, SetLocalAnswerLeaves
          <5>4. pc'[caller] = pc[caller]
            BY <1>t, <2>1, <5>2
          <5>5. QED
            BY <1>t, <2>1, <5>2, <5>3, <5>4 DEF OffersNumbered, Waiting, TheOffer
        <4>3. QED
          BY <2>3, <4>1, <4>2
      <3>5. QED
        BY <3>3, <3>4
    \* The caller takes the session of the tab that answered.
    <2>4. CASE RemoteAnswerSet(c)
      <3>1. c = caller /\ Waiting /\ AnswersIt(o.desc)
        BY <2>0, <2>1, <2>4 DEF RemoteAnswerSet, Resolved, MadeBy, CallerCall
      <3>2. pc'[c] = SetRemoteAnswer(pc[c], o.desc)
        BY <1>t, <2>0, <2>4 DEF RemoteAnswerSet, PageTypeOK
      <3>3. /\ pc'[caller].sig = "stable" /\ pc'[caller].localOffer = None
            /\ pc'[caller].made = pc[caller].made
            /\ pc'[caller].current = [offer |-> TheOffer, answer |-> o.desc]
        BY <2>1, <3>1, <3>2, SetRemoteAnswerLeaves DEF TheOffer
      <3>4. /\ o.desc.by \in Clients \ {caller}
            /\ pc'[o.desc.by].current = [offer |-> TheOffer, answer |-> o.desc]
        BY <2>1, <3>1 DEF AnswersIt
      <3>5. FlagGuards'
        BY <3>3 DEF FlagGuards, Waiting
      <3>6. SessionShared'
        BY <3>3, <3>4 DEF SessionShared
      <3>7. OffersNumbered'
        BY <1>t, <2>1, <3>1, <3>3 DEF OffersNumbered, Waiting, TheOffer
      <3>8. QED
        BY <3>5, <3>6, <3>7
    <2>5. QED
      BY <1>2, <1>t, <2>2, <2>3, <2>4, NeverHappens DEF CallStep
  <1>3. QED
    BY <1>1, <1>2

LEMMA GreetedStep ==
  ASSUME OneCallerOnly, TypeOK, OneCallInv, [Next]_vars
  PROVE  Greeted'
  <1> USE DEF reactVars, rtcVars, socketVars, userVars
  <1>t. PageTypeOK /\ OneToken /\ Greeted /\ \A c \in Clients : down[c] \in Seq(Messages)
    BY DEF TypeOK, PageTypeOK, OneCallInv
  <1>1. CASE UNCHANGED down
    BY <1>t, <1>1 DEF Greeted, IsWelcome
  \* A message is put on the socket of a tab.
  <1>2. ASSUME NEW c \in Clients, NEW m \in Messages,
               down' = [down EXCEPT ![c] = Append(@, m)],
               IsWelcome(m) => m = Welcome(c)
        PROVE  Greeted'
    <2>1. /\ down'[c] = Append(down[c], m)
          /\ \A d \in Clients \ {c} : down'[d] = down[d]
      BY <1>t, <1>2 DEF PageTypeOK
    <2>2. \A i \in DOMAIN down'[c] :
            \/ i \in DOMAIN down[c] /\ down'[c][i] = down[c][i]
            \/ down'[c][i] = m
      BY <1>t, <2>1, Appended
    <2>3. QED
      BY <1>t, <1>2, <2>1, <2>2 DEF Greeted, IsWelcome
  \* A tab reads its oldest message.
  <1>3. ASSUME NEW c \in Clients, OnWelcome(c) \/ OnSDP(c)
        PROVE  Greeted'
    <2>1. /\ down[c] # << >> /\ down'[c] = Tail(down[c])
          /\ \A d \in Clients \ {c} : down'[d] = down[d]
      BY <1>t, <1>3 DEF OnWelcome, OnSDP, Received, PageTypeOK
    <2>2. \A i \in DOMAIN down'[c] :
            i + 1 \in DOMAIN down[c] /\ down'[c][i] = down[c][i + 1]
      BY <1>t, <2>1, Shifted
    <2>3. \A i \in DOMAIN down'[c] : IsWelcome(down'[c][i]) => down'[c][i] = Welcome(c)
      BY <1>t, <2>2 DEF Greeted
    <2>4. QED
      BY <1>t, <2>1, <2>3 DEF Greeted, IsWelcome
  <1>4. ASSUME NEW c \in Clients, Connect(c)
        PROVE  Greeted'
    <2>1. Welcome(c) \in Messages
      BY DEF Welcome, Messages
    <2>2. QED
      BY <1>2, <1>4, <2>1 DEF Connect
  <1>5. ASSUME NEW c \in Clients, Route(c)
        PROVE  Greeted'
    <2>1. PICK m : m = Head(up[c])
      OBVIOUS
    <2>2. m \in Messages /\ up[c] # << >>
      <3>1. up[c] \in Seq(Messages) /\ up[c] # << >>
        BY <1>t, <1>5 DEF Route, PageTypeOK
      <3>2. QED
        BY <2>1, <3>1
    <2>3. ~ IsWelcome(m)
      BY <1>t, <2>1, <2>2, Sending DEF SentBy, IsOffer, IsAnswer, IsWelcome
    <2>4. \/ down' = down
          \/ m.to \in Clients /\ down' = [down EXCEPT ![m.to] = Append(@, m)]
      BY <1>5, <2>1 DEF Route
    <2>5. QED
      BY <1>1, <1>2, <2>2, <2>3, <2>4
  <1>6. ASSUME NEW c \in Clients,
               \/ ReactStep(c) \/ CallStep(c)
               \/ MediaGranted(c) \/ MediaDenied(c) \/ OnIceCandidate(c)
               \/ createOffer(c) \/ \E v \in Inputs : OnChange(c, v)
        PROVE  UNCHANGED down
    BY <1>6 DEF ReactStep, Render, RunEffects, RunSDPEffect, CallStep, OfferCreated,
       OfferSet, RemoteOfferSet, RemoteAnswerSet, AnswerCreated, AnswerSet,
       CandidateAdded, CallRejected, MediaGranted, MediaDenied, OnIceCandidate,
       createOffer, OnChange
  <1>7. CASE NetworkStep
    <2>1. ASSUME NEW c \in MayLeave, Leave(c)
          PROVE  UNCHANGED down
      BY <2>1 DEF Leave
    <2>2. CASE ServerRestart \/ \E k \in Clients : ConnectionLost(k)
      BY <1>1, <2>2 DEF ServerRestart, ConnectionLost
    <2>3. QED
      BY <1>t, <1>1, <1>4, <1>5, <1>7, <2>1, <2>2, NeverHappens DEF NetworkStep
  <1>8. CASE UNCHANGED vars
    BY <1>1, <1>8 DEF vars, pageVars
  <1>9. QED
    BY <1>t, <1>1, <1>3, <1>6, <1>7, <1>8, NeverHappens DEF Next, PageStep, MessageStep

\* The steps that leave the React states alone.
LEMMA ReactUntouched ==
  ASSUME NEW c \in Clients,
         \/ CallStep(c) \/ MediaDenied(c) \/ OnIceCandidate(c) \/ createOffer(c)
         \/ NetworkStep \/ UNCHANGED vars
  PROVE  UNCHANGED <<latest, rendered, effects>>
  <1> USE DEF reactVars, rtcVars, socketVars, userVars
  <1>1. CASE CallStep(c)
    BY <1>1 DEF CallStep, OfferCreated, OfferSet, RemoteOfferSet, RemoteAnswerSet,
       AnswerCreated, AnswerSet, CandidateAdded, CallRejected
  <1>2. CASE MediaDenied(c) \/ OnIceCandidate(c) \/ createOffer(c)
    BY <1>2 DEF MediaDenied, OnIceCandidate, createOffer
  <1>3. CASE NetworkStep
    BY <1>3 DEF NetworkStep, Connect, Route, Leave, StrangerOffer,
       StrangerAnswer, StrangerCandidate, ConnectionLost, ServerRestart
  <1>4. CASE UNCHANGED vars
    BY <1>4 DEF vars, pageVars
  <1>5. QED
    BY <1>1, <1>2, <1>3, <1>4

LEMMA OwnIdsStep ==
  ASSUME OneCallerOnly, TypeOK, OneCallInv, [Next]_vars
  PROVE  OwnIds'
  <1> USE DEF reactVars, rtcVars, socketVars, userVars
  <1>t. /\ PageTypeOK /\ OneToken /\ NotHandledTwice /\ Greeted /\ OwnIds
        /\ caller \in Clients /\ caller \notin Inputs
    BY TheCaller DEF TypeOK, OneCallInv
  <1>1. CASE UNCHANGED <<latest, rendered>>
    BY <1>t, <1>1 DEF OwnIds
  <1>2. ASSUME NEW c \in Clients, Render(c)
        PROVE  OwnIds'
    BY <1>t, <1>2 DEF Render, OwnIds, PageTypeOK
  <1>3. ASSUME NEW c \in Clients,
               UNCHANGED rendered, \A d \in Clients \ {c} : latest'[d] = latest[d],
               latest'[c].clientId \in {None, c},
               c = caller => latest'[c].peerId # caller
        PROVE  OwnIds'
    BY <1>t, <1>3 DEF OwnIds
  <1>4. ASSUME NEW c \in Clients, RunSDPEffect(c)
        PROVE  OwnIds'
    <2>1. SentTo(c, rendered[c].pendingSDP)
      BY <1>t, <1>4, Handling DEF RunSDPEffect
    <2>2. c = caller => rendered[c].pendingSDP.from # caller
      BY <2>1 DEF SentTo, IsAnswer
    <2>3. /\ latest'[c].clientId \in {None, c}
          /\ c = caller => latest'[c].peerId # caller
      BY <1>t, <1>4, <2>2, StatesSet DEF OwnIds
    <2>4. QED
      BY <1>t, <1>3, <1>4, <2>3, OthersKeepState DEF RunSDPEffect
  <1>5. ASSUME NEW c \in Clients, OnWelcome(c)
        PROVE  OwnIds'
    <2>1. Head(down[c]).id = c
      <3>1. down[c] \in Seq(Messages) /\ down[c] # << >> /\ IsWelcome(Head(down[c]))
        BY <1>t, <1>5 DEF OnWelcome, Received, IsWelcome, PageTypeOK
      <3>2. Head(down[c]) = Welcome(c)
        BY <1>t, <3>1, Shifted DEF Greeted
      <3>3. QED
        BY <3>2 DEF Welcome
    <2>2. /\ latest'[c].clientId \in {None, c}
          /\ c = caller => latest'[c].peerId # caller
      BY <1>t, <1>5, <2>1, StatesSet DEF OwnIds
    <2>3. QED
      BY <1>t, <1>3, <1>5, <2>2, OthersKeepState DEF OnWelcome
  <1>6. ASSUME NEW c \in Clients, OnSDP(c) \/ MediaGranted(c)
        PROVE  OwnIds'
    <2>1. /\ latest'[c].clientId \in {None, c}
          /\ c = caller => latest'[c].peerId # caller
      BY <1>t, <1>6, StatesSet DEF OwnIds
    <2>2. QED
      BY <1>t, <1>3, <1>6, <2>1, OthersKeepState DEF OnSDP, MediaGranted
  <1>7. ASSUME NEW c \in Clients, NEW v \in Inputs, OnChange(c, v)
        PROVE  OwnIds'
    <2>1. /\ latest'[c].clientId \in {None, c}
          /\ c = caller => latest'[c].peerId # caller
      BY <1>t, <1>7, StatesSet DEF OwnIds
    <2>2. QED
      BY <1>t, <1>3, <1>7, <2>1, OthersKeepState DEF OnChange
  <1>8. ASSUME NEW c \in Clients, RunEffects(c)
        PROVE  UNCHANGED <<latest, rendered>>
    BY <1>8 DEF RunEffects
  <1>9. QED
    BY <1>t, <1>1, <1>2, <1>4, <1>5, <1>6, <1>7, <1>8, ReactUntouched, NeverHappens
       DEF Next, PageStep, ReactStep, MessageStep

LEMMA HandledStep ==
  ASSUME OneCallerOnly, TypeOK, OneCallInv, [Next]_vars
  PROVE  NotHandledTwice'
  <1> USE DEF reactVars, rtcVars, socketVars, userVars
  <1>t. PageTypeOK /\ OneToken /\ NotHandledTwice /\ caller \in Clients
    BY TheCaller DEF TypeOK, OneCallInv
  <1>1. ASSUME UNCHANGED <<rendered, effects>>,
               \A d \in Clients : latest'[d].pendingSDP = latest[d].pendingSDP
        PROVE  NotHandledTwice'
    BY <1>t, <1>1 DEF NotHandledTwice
  <1>2. ASSUME NEW c \in Clients, Render(c)
        PROVE  NotHandledTwice'
    <2>1. /\ latest' = latest /\ rendered'[c] = latest[c]
          /\ \A d \in Clients \ {c} : rendered'[d] = rendered[d] /\ effects'[d] = effects[d]
      BY <1>t, <1>2 DEF Render, PageTypeOK
    <2>2. QED
      BY <1>t, <2>1 DEF NotHandledTwice
  \* No effect is left.
  <1>3. ASSUME NEW c \in Clients, RunEffects(c) \/ RunSDPEffect(c)
        PROVE  NotHandledTwice'
    <2>1. /\ effects'[c] = {} /\ rendered' = rendered
          /\ \A d \in Clients \ {c} : latest'[d] = latest[d] /\ effects'[d] = effects[d]
      BY <1>t, <1>3 DEF RunEffects, RunSDPEffect, EffectsDone, PageTypeOK
    <2>2. QED
      BY <1>t, <2>1 DEF NotHandledTwice
  \* The slot is empty when a message arrives, so no effect has one.
  <1>4. ASSUME NEW c \in Clients, OnSDP(c)
        PROVE  NotHandledTwice'
    <2>1. down[c] # << >> /\ ~ IsWelcome(Head(down[c])) /\ UNCHANGED <<rendered, effects>>
      BY <1>4 DEF OnSDP, Received, IsWelcome
    <2>2. latest[c].pendingSDP = None
      BY <1>t, <2>1, Receiving, OnlyElsewhere DEF Elsewhere, Places
    <2>3. ~ ("sdp" \in effects[c] /\ rendered[c].pendingSDP # None)
      BY <1>t, <2>2 DEF NotHandledTwice
    <2>4. \A d \in Clients \ {c} : latest'[d] = latest[d]
      BY <1>t, <1>4, OthersKeepState
    <2>5. QED
      BY <1>t, <2>1, <2>3, <2>4 DEF NotHandledTwice
  <1>5. ASSUME NEW c \in Clients,
               OnWelcome(c) \/ MediaGranted(c) \/ \E v \in Inputs : OnChange(c, v)
        PROVE  NotHandledTwice'
    <2>1. UNCHANGED <<rendered, effects>>
      BY <1>5 DEF OnWelcome, MediaGranted, OnChange
    <2>2. \A d \in Clients : latest'[d].pendingSDP = latest[d].pendingSDP
      BY <1>t, <1>5, StatesSet, OthersKeepState
    <2>3. QED
      BY <1>1, <2>1, <2>2
  <1>6. QED
    BY <1>t, <1>1, <1>2, <1>3, <1>4, <1>5, ReactUntouched, NeverHappens
       DEF Next, PageStep, ReactStep, MessageStep

-----------------------------------------------------------------------------
(* Theorems *)

LEMMA OneCallInit ==
  ASSUME OneCallerOnly, Init
  PROVE  OneCallInv
  <1>1. caller \in Clients /\ caller # None /\ caller # EmptyId
    BY TheCaller, PageConstants
  <1>2. \A p \in Places, c \in Clients : ~ Holds(p, c)
    BY DEF Init, PageInit, FirstRender, Holds
  <1>3. OneToken
    BY <1>2 DEF OneToken
  <1>4. FlagGuards /\ OffersNumbered /\ SessionShared
    BY <1>1 DEF Init, PageInit, NewPeerConnection, FlagGuards, OffersNumbered,
       SessionShared, Waiting, TheOffer
  <1>5. Greeted /\ OwnIds /\ NotHandledTwice
    BY <1>1 DEF Init, PageInit, FirstRender, Greeted, OwnIds, NotHandledTwice
  <1>6. QED
    BY <1>3, <1>4, <1>5 DEF OneCallInv

LEMMA OneCallStep ==
  ASSUME OneCallerOnly
  PROVE  TypeOK /\ OneCallInv /\ [Next]_vars => OneCallInv'
  BY TokenStep, SessionsStep, GreetedStep, OwnIdsStep, HandledStep DEF OneCallInv

\* With one caller there is never more than one call in flight: of the
\* offer, its answer, their messages, the slots they wait in and the calls on
\* the connections that handle them (createOffer, ws.onmessage, the effect
\* and handleSDPMessage in page.tsx) at most one exists at any time, and
\* while it does the caller's isNegotiatingRef is up.
THEOREM OneCall == ASSUME OneCallerOnly PROVE Spec => []OneCallInv
  BY OneCallInit, OneCallStep, ChatTypeCorrect, PTL DEF Spec

\* With one caller no call on a connection is ever rejected, whatever tab,
\* message or failure came between: the catch blocks of createOffer and
\* handleSDPMessage (page.tsx) are never taken.
THEOREM NoCallRejected == ASSUME OneCallerOnly PROVE Spec => []CallsSucceed
  <1>1. TypeOK /\ OneCallInv => CallsSucceed
    BY CallAccepted DEF TypeOK, OneCallInv, CallsSucceed
  <1>2. QED
    BY <1>1, OneCall, ChatTypeCorrect, PTL

\* With one caller, whoever it calls in turn, a return to stable
\* (handleSDPMessage, the branch for answers) means that the tab that
\* answered has the same offer and answer.
THEOREM CallersAgree == ASSUME OneCallerOnly PROVE Spec => []CallAgreed
  <1>1. OneCallInv => CallAgreed
    BY TheCaller DEF OneCallInv, SessionShared, CallAgreed
  <1>2. QED
    BY <1>1, OneCall, PTL

\* With one caller the single slot pendingSDP is enough: ws.onmessage never
\* overwrites, and the effect never clears, a description that no render
\* has handed to handleSDPMessage.
THEOREM SlotSuffices == ASSUME OneCallerOnly PROVE Spec => SDPNotDropped
  <1> DEFINE Kept == \A c \in Clients :
         LET m == latest[c].pendingSDP
         IN  m # None /\ latest'[c].pendingSDP # m => m = rendered[c].pendingSDP
  <1>1. ASSUME TypeOK, OneCallInv, [Next]_vars
        PROVE  [Kept]_vars
    <2> SUFFICES ASSUME NEW c \in Clients, latest[c].pendingSDP # None,
                        latest'[c].pendingSDP # latest[c].pendingSDP
                 PROVE  latest[c].pendingSDP = rendered[c].pendingSDP
      OBVIOUS
    <2>t. PageTypeOK /\ OneToken /\ NotHandledTwice
      BY <1>1 DEF TypeOK, OneCallInv
    <2>1. PICK d \in Clients : RunSDPEffect(d) \/ OnSDP(d)
      <3>1. ASSUME NEW d \in Clients, Render(d) \/ RunEffects(d)
            PROVE  UNCHANGED latest
        BY <3>1 DEF Render, RunEffects
      <3>2. ASSUME NEW d \in Clients,
                   OnWelcome(d) \/ MediaGranted(d) \/ \E v \in Inputs : OnChange(d, v)
            PROVE  latest'[c].pendingSDP = latest[c].pendingSDP
        BY <2>t, <3>2, StatesSet, OthersKeepState
      <3>3. QED
        BY <1>1, <2>t, <3>1, <3>2, ReactUntouched, NeverHappens
           DEF Next, PageStep, ReactStep, MessageStep
    <2>2. d = c
      BY <2>t, <2>1, OthersKeepState
    <2>3. CASE RunSDPEffect(c)
      BY <2>t, <2>3, Handling DEF RunSDPEffect
    <2>4. CASE OnSDP(c)
      <3>1. down[c] # << >> /\ ~ IsWelcome(Head(down[c]))
        BY <2>4 DEF OnSDP, Received, IsWelcome
      <3>2. latest[c].pendingSDP = None
        BY <2>t, <3>1, Receiving, OnlyElsewhere DEF Elsewhere, Places
      <3>3. QED
        BY <3>2
    <2>5. QED
      BY <2>1, <2>2, <2>3, <2>4
  <1>2. QED
    BY <1>1, OneCall, ChatTypeCorrect, PTL DEF Spec, SDPNotDropped
=============================================================================
