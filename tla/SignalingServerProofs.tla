------------------------ MODULE SignalingServerProofs ------------------------
(***************************************************************************)
(* Proofs about SignalingServer, for every set of connections and every    *)
(* bound: type correctness, the accuracy of the registry and the order of  *)
(* delivery.                                                               *)
(***************************************************************************)
EXTENDS SignalingServer, TLAPS

-----------------------------------------------------------------------------
(* Type correctness *)

LEMMA TypeInit == Init => TypeOK
  BY ConstantsAssumption DEF Init, TypeOK, Phases

LEMMA MailTypes ==
  /\ \A s \in Sessions : RegisterSession(s) \in Mail
  /\ \A s \in Sessions : UnregisterSession(s) \in Mail
  /\ \A f \in Service!Texts : SendMessage(f) \in Mail
  BY DEF RegisterSession, UnregisterSession, SendMessage, Mail

LEMMA FrameTypes ==
  /\ \A s \in Sessions : Service!Welcome(s) \in Service!Frames
  /\ \A s \in Sessions, t \in Addresses, n \in Nat \ {0} :
       Service!Text(s, t, n) \in Service!Texts
  /\ Service!Texts \subseteq Service!Frames
  BY DEF Service!Welcome, Service!Text, Service!Texts, Service!Frames

\* The head of the server's mailbox, by kind.
LEMMA HeadOfMailbox ==
  ASSUME TypeOK, mailbox # << >>
  PROVE  /\ Head(mailbox) \in Mail
         /\ Tail(mailbox) \in Seq(Mail)
         /\ Head(mailbox).kind \in {"Register", "Unregister"}
              => Head(mailbox).id \in Sessions
         /\ Head(mailbox).kind = "Send" => Head(mailbox).msg \in Service!Texts
  <1>1. mailbox \in Seq(Mail)
    BY DEF TypeOK
  <1>2. Head(mailbox) \in Mail /\ Tail(mailbox) \in Seq(Mail)
    BY <1>1
  <1>3. QED
    BY <1>2 DEF Mail

LEMMA TypeStep == TypeOK /\ [Next]_vars => TypeOK'
  <1> SUFFICES ASSUME TypeOK, [Next]_vars
               PROVE  TypeOK'
    OBVIOUS
  <1> USE DEF TypeOK
  <1>1. ASSUME NEW s \in Sessions, ws_handler(s)
        PROVE  TypeOK'
    BY <1>1 DEF ws_handler, Phases
  <1>2. ASSUME NEW s \in Sessions, StartedRegister(s)
        PROVE  TypeOK'
    BY <1>2, MailTypes DEF StartedRegister, Phases
  <1>3. ASSUME NEW s \in Sessions, StartedWelcome(s)
        PROVE  TypeOK'
    <2>1. Append(wire[s], Service!Welcome(s)) \in Seq(Service!Frames)
      BY FrameTypes
    <2>2. QED
      BY <1>3, <2>1 DEF StartedWelcome, Phases
  <1>4. ASSUME NEW s \in Sessions, NEW t \in Addresses, HandleText(s, t)
        PROVE  TypeOK'
    <2>1. SendMessage(Service!Text(s, t, nextSeq[s])) \in Mail
      BY MailTypes, FrameTypes
    <2>2. QED
      BY <1>4, <2>1 DEF HandleText
  <1>5. ASSUME NEW s \in Sessions, HandleInvalid(s)
        PROVE  TypeOK'
    BY <1>5 DEF HandleInvalid
  <1>6. ASSUME NEW s \in Sessions, HandleWsMessage(s)
        PROVE  TypeOK'
    <2>1. /\ Head(inbox[s]) \in Service!Texts
          /\ Tail(inbox[s]) \in Seq(Service!Texts)
      BY <1>6 DEF HandleWsMessage
    <2>2. Append(wire[s], Head(inbox[s])) \in Seq(Service!Frames)
      BY <2>1, FrameTypes
    <2>3. QED
      BY <1>6, <2>1, <2>2 DEF HandleWsMessage
  <1>7. ASSUME NEW s \in Sessions, Stopping(s)
        PROVE  TypeOK'
    BY <1>7, MailTypes DEF Stopping, Phases
  <1>8. CASE HandleRegister
    BY <1>8, HeadOfMailbox DEF HandleRegister
  <1>9. CASE HandleUnregister
    BY <1>9, HeadOfMailbox DEF HandleUnregister
  <1>10. CASE HandleSendFound
    <2>1. Head(mailbox).msg \in Service!Texts /\ Tail(mailbox) \in Seq(Mail)
      BY <1>10, HeadOfMailbox DEF HandleSendFound
    <2>2. inbox' \in [Sessions -> Seq(Service!Texts)]
      BY <1>10, <2>1 DEF HandleSendFound
    <2>3. QED
      BY <1>10, <2>1, <2>2 DEF HandleSendFound
  <1>11. CASE HandleSendNotFound
    BY <1>11, HeadOfMailbox DEF HandleSendNotFound
  <1>12. CASE Restart
    BY <1>12 DEF Restart, Phases
  <1>13. CASE UNCHANGED vars
    BY <1>13 DEF vars
  <1>14. QED
    BY <1>1, <1>2, <1>3, <1>4, <1>5, <1>6, <1>7, <1>8, <1>9, <1>10, <1>11,
       <1>12, <1>13 DEF Next, SessionStep, ServerStep

\* Every state of the server is well typed: every mailbox holds messages its
\* actor has a handler for (main.rs, all handlers).
THEOREM TypeCorrect == Spec => []TypeOK
  BY TypeInit, TypeStep, PTL DEF Spec
-----------------------------------------------------------------------------
(* The registry *)

\* Every waiting registration of s is followed by an unregistration of s.
Cancelled(s) ==
    \A i \in DOMAIN mailbox :
      mailbox[i] = RegisterSession(s)
        => \E j \in DOMAIN mailbox : j > i /\ mailbox[j] = UnregisterSession(s)

\* What holds of the registrations still in the mailbox: an unregistration
\* is posted only by a session that has stopped; a session that has not
\* started has posted nothing; and the registration of a stopped session
\* cannot outlive its unregistration.
RegistrationsOrdered ==
    \A s \in Sessions :
      /\ phase[s] # "stopped" => ~ InMailbox(UnregisterSession(s))
      /\ phase[s] \in {"none", "created"} => ~ InMailbox(RegisterSession(s))
      /\ phase[s] = "stopped" => Cancelled(s)

RegistryInv == RegistrationsOrdered /\ RegistryTracksSessions

LEMMA DistinctMail ==
  /\ \A s, t : RegisterSession(s) # UnregisterSession(t)
  /\ \A s, f : SendMessage(f) # RegisterSession(s)
  /\ \A s, f : SendMessage(f) # UnregisterSession(s)
  /\ \A s, t : RegisterSession(s) = RegisterSession(t) => s = t
  /\ \A s, t : UnregisterSession(s) = UnregisterSession(t) => s = t
  <1>1. \A s, t : RegisterSession(s).kind # UnregisterSession(t).kind
    BY DEF RegisterSession, UnregisterSession
  <1>2. \A s, f : SendMessage(f).kind # RegisterSession(s).kind
    BY DEF RegisterSession, SendMessage
  <1>3. \A s, f : SendMessage(f).kind # UnregisterSession(s).kind
    BY DEF UnregisterSession, SendMessage
  <1>4. \A s : RegisterSession(s).id = s /\ UnregisterSession(s).id = s
    BY DEF RegisterSession, UnregisterSession
  <1>5. QED
    BY <1>1, <1>2, <1>3, <1>4

\* A mailbox message of kind Register or Unregister is one of the two
\* constructors applied to its id.
LEMMA MailForms ==
  ASSUME NEW m \in Mail
  PROVE  /\ m.kind = "Register" => m = RegisterSession(m.id)
         /\ m.kind = "Unregister" => m = UnregisterSession(m.id)
         /\ m.kind = "Send" => m = SendMessage(m.msg)
  BY DEF Mail, RegisterSession, UnregisterSession, SendMessage

\* Posting m: every index keeps its message and the new one is last.
LEMMA Posted ==
  ASSUME TypeOK, NEW m \in Mail, mailbox' = Append(mailbox, m)
  PROVE  /\ Len(mailbox) \in Nat
         /\ DOMAIN mailbox = 1..Len(mailbox)
         /\ DOMAIN mailbox' = 1..(Len(mailbox) + 1)
         /\ \A i \in 1..Len(mailbox) : mailbox'[i] = mailbox[i]
         /\ mailbox'[Len(mailbox) + 1] = m
  BY DEF TypeOK

LEMMA InPosted ==
  ASSUME TypeOK, NEW m \in Mail, mailbox' = Append(mailbox, m)
  PROVE  /\ \A x : InMailbox(x)' <=> InMailbox(x) \/ x = m
         /\ \A s : m # RegisterSession(s) /\ Cancelled(s) => Cancelled(s)'
         /\ \A s : m = UnregisterSession(s) => Cancelled(s)'
  <1>1. \A x : InMailbox(x)' <=> InMailbox(x) \/ x = m
    BY Posted DEF InMailbox
  <1>2. \A s : m # RegisterSession(s) /\ Cancelled(s) => Cancelled(s)'
    BY Posted DEF Cancelled
  <1>3. ASSUME NEW s, m = UnregisterSession(s)
        PROVE  Cancelled(s)'
    <2>1. RegisterSession(s) # m
      BY <1>3, DistinctMail
    <2>2. QED
      BY <1>3, <2>1, Posted DEF Cancelled
  <1>4. QED
    BY <1>1, <1>2, <1>3

\* Handling the oldest message: every other one moves up by one.
LEMMA Handled ==
  ASSUME TypeOK, mailbox # << >>, mailbox' = Tail(mailbox)
  PROVE  /\ Len(mailbox) \in Nat \ {0}
         /\ DOMAIN mailbox = 1..Len(mailbox)
         /\ DOMAIN mailbox' = 1..(Len(mailbox) - 1)
         /\ \A i \in DOMAIN mailbox' : mailbox'[i] = mailbox[i + 1]
         /\ \A i \in DOMAIN mailbox :
              i # 1 => i - 1 \in DOMAIN mailbox' /\ mailbox'[i - 1] = mailbox[i]
         /\ mailbox[1] = Head(mailbox)
  BY DEF TypeOK

LEMMA InHandled ==
  ASSUME TypeOK, mailbox # << >>, mailbox' = Tail(mailbox)
  PROVE  /\ \A x : InMailbox(x)' => InMailbox(x)
         /\ \A x : InMailbox(x) /\ x # Head(mailbox) => InMailbox(x)'
         /\ \A s : Cancelled(s) => Cancelled(s)'
         /\ \A s : Cancelled(s) /\ Head(mailbox) = RegisterSession(s)
              => InMailbox(UnregisterSession(s))'
  <1>1. \A x : InMailbox(x)' => InMailbox(x)
    BY Handled DEF InMailbox
  <1>2. \A x : InMailbox(x) /\ x # Head(mailbox) => InMailbox(x)'
    BY Handled DEF InMailbox
  <1>3. ASSUME NEW s, Cancelled(s), NEW i \in DOMAIN mailbox',
               mailbox'[i] = RegisterSession(s)
        PROVE  \E j \in DOMAIN mailbox' :
                 j > i /\ mailbox'[j] = UnregisterSession(s)
    <2>1. i + 1 \in DOMAIN mailbox /\ mailbox[i + 1] = RegisterSession(s)
      BY <1>3, Handled
    <2>2. PICK j \in DOMAIN mailbox :
            j > i + 1 /\ mailbox[j] = UnregisterSession(s)
      BY <1>3, <2>1 DEF Cancelled
    <2>3. j - 1 \in DOMAIN mailbox' /\ j - 1 > i /\ mailbox'[j - 1] = mailbox[j]
      BY <2>2, Handled
    <2>4. QED
      BY <2>2, <2>3
  <1>4. ASSUME NEW s, Cancelled(s), Head(mailbox) = RegisterSession(s)
        PROVE  InMailbox(UnregisterSession(s))'
    <2>1. 1 \in DOMAIN mailbox /\ mailbox[1] = RegisterSession(s)
      BY <1>4, Handled
    <2>2. PICK j \in DOMAIN mailbox : j > 1 /\ mailbox[j] = UnregisterSession(s)
      BY <1>4, <2>1 DEF Cancelled
    <2>3. j - 1 \in DOMAIN mailbox' /\ mailbox'[j - 1] = UnregisterSession(s)
      BY <2>2, Handled
    <2>4. QED
      BY <2>3 DEF InMailbox
  <1>5. QED
    BY <1>1, <1>2, <1>3, <1>4 DEF Cancelled

LEMMA RegistryInit == Init => RegistryInv
  BY DEF Init, RegistryInv, RegistrationsOrdered, RegistryTracksSessions,
         InMailbox, Cancelled

LEMMA RegistryStep == TypeOK /\ RegistryInv /\ [Next]_vars => RegistryInv'
  <1> SUFFICES ASSUME TypeOK, RegistryInv, [Next]_vars
               PROVE  RegistryInv'
    OBVIOUS
  <1> USE DEF RegistryInv, RegistrationsOrdered, RegistryTracksSessions
  <1>0. ASSUME UNCHANGED mailbox
        PROVE  /\ \A x : InMailbox(x)' <=> InMailbox(x)
               /\ \A s : Cancelled(s)' <=> Cancelled(s)
    BY <1>0 DEF InMailbox, Cancelled
  <1>1. ASSUME NEW s \in Sessions, ws_handler(s)
        PROVE  RegistryInv'
    BY <1>0, <1>1 DEF ws_handler, TypeOK
  <1>2. ASSUME NEW s \in Sessions, StartedRegister(s)
        PROVE  RegistryInv'
    <2>1. RegisterSession(s) \in Mail
      BY MailTypes
    <2>2. QED
      BY <1>2, <2>1, InPosted, DistinctMail DEF StartedRegister, TypeOK
  <1>3. ASSUME NEW s \in Sessions, StartedWelcome(s)
        PROVE  RegistryInv'
    BY <1>0, <1>3 DEF StartedWelcome, TypeOK
  <1>4. ASSUME NEW s \in Sessions, NEW t \in Addresses, HandleText(s, t)
        PROVE  RegistryInv'
    <2> DEFINE m == SendMessage(Service!Text(s, t, nextSeq[s]))
    <2>1. m \in Mail
      BY MailTypes, FrameTypes DEF TypeOK
    <2>2. \A u : m # RegisterSession(u) /\ m # UnregisterSession(u)
      BY DistinctMail
    <2>3. mailbox' = Append(mailbox, m) /\ UNCHANGED <<phase, sessions>>
      BY <1>4 DEF HandleText
    <2> HIDE DEF m
    <2>4. QED
      BY <2>1, <2>2, <2>3, InPosted
  <1>5. ASSUME NEW s \in Sessions, HandleInvalid(s)
        PROVE  RegistryInv'
    BY <1>0, <1>5 DEF HandleInvalid
  <1>6. ASSUME NEW s \in Sessions, HandleWsMessage(s)
        PROVE  RegistryInv'
    BY <1>0, <1>6 DEF HandleWsMessage
  <1>7. ASSUME NEW s \in Sessions, Stopping(s)
        PROVE  RegistryInv'
    <2>1. UnregisterSession(s) \in Mail
      BY MailTypes
    <2>2. QED
      BY <1>7, <2>1, InPosted, DistinctMail DEF Stopping, TypeOK
  <1>8. CASE HandleRegister
    <2>1. mailbox # << >> /\ mailbox' = Tail(mailbox) /\ UNCHANGED phase
      BY <1>8 DEF HandleRegister
    <2>2. PICK u \in Sessions : /\ Head(mailbox) = RegisterSession(u)
                                /\ sessions' = sessions \cup {u}
      BY <1>8, HeadOfMailbox, MailForms DEF HandleRegister
    <2>3. InMailbox(RegisterSession(u))
      BY <2>1, <2>2, Handled DEF InMailbox
    <2>4. QED
      BY <2>1, <2>2, <2>3, InHandled, DistinctMail
  <1>9. CASE HandleUnregister
    <2>1. mailbox # << >> /\ mailbox' = Tail(mailbox) /\ UNCHANGED phase
      BY <1>9 DEF HandleUnregister
    <2>2. PICK u \in Sessions : /\ Head(mailbox) = UnregisterSession(u)
                                /\ sessions' = sessions \ {u}
      BY <1>9, HeadOfMailbox, MailForms DEF HandleUnregister
    <2>3. InMailbox(UnregisterSession(u))
      BY <2>1, <2>2, Handled DEF InMailbox
    <2>4. QED
      BY <2>1, <2>2, <2>3, InHandled, DistinctMail
  <1>10. CASE HandleSendFound \/ HandleSendNotFound
    <2>1. /\ mailbox # << >> /\ mailbox' = Tail(mailbox)
          /\ UNCHANGED <<phase, sessions>>
      BY <1>10 DEF HandleSendFound, HandleSendNotFound
    <2>2. \A u : /\ Head(mailbox) # RegisterSession(u)
                 /\ Head(mailbox) # UnregisterSession(u)
      BY <1>10, HeadOfMailbox, MailForms, DistinctMail
         DEF HandleSendFound, HandleSendNotFound
    <2>3. QED
      BY <2>1, <2>2, InHandled
  <1>11. CASE Restart
    <2>1. \A x : ~ InMailbox(x)'
      BY <1>11 DEF Restart, InMailbox
    <2>2. \A s : Cancelled(s)'
      BY <1>11 DEF Restart, Cancelled
    <2>3. QED
      BY <1>11, <2>1, <2>2 DEF Restart, TypeOK, Alive
  <1>12. CASE UNCHANGED vars
    BY <1>0, <1>12 DEF vars
  <1>13. QED
    BY <1>1, <1>2, <1>3, <1>4, <1>5, <1>6, <1>7, <1>8, <1>9, <1>10, <1>11,
       <1>12 DEF Next, SessionStep, ServerStep

\* The registry of main.rs never forgets a started client and never keeps a
\* dead one, up to the registrations still in the server's mailbox.
THEOREM RegistryAccurate == Spec => []RegistryTracksSessions
  <1>1. Spec => []RegistryInv
    BY TypeInit, TypeStep, RegistryInit, RegistryStep, PTL DEF Spec
  <1>2. RegistryInv => RegistryTracksSessions
    BY DEF RegistryInv
  <1>3. QED
    BY <1>1, <1>2, PTL
-----------------------------------------------------------------------------
(* The order of delivery *)

\* Positions of the texts that wait in the server's mailbox.
Sends == {i \in DOMAIN mailbox : mailbox[i].kind = "Send"}

\* A text moves from the server's mailbox to the inbox of a session and from
\* there to its socket, and each queue is first in, first out.  So of two
\* texts of one sender, the one that is further on was sent first: that must
\* be said of every pair of queues, and of the number the next text will get.
WireInbox ==
    \A t \in Sessions : \A i \in DOMAIN wire[t], j \in DOMAIN inbox[t] :
      Service!Precedes(wire[t][i], inbox[t][j])

InboxInbox ==
    \A t \in Sessions : \A i, j \in DOMAIN inbox[t] :
      i < j => Service!Precedes(inbox[t][i], inbox[t][j])

WireMail ==
    \A t \in Sessions : \A i \in DOMAIN wire[t], j \in Sends :
      Service!Precedes(wire[t][i], mailbox[j].msg)

InboxMail ==
    \A t \in Sessions : \A i \in DOMAIN inbox[t], j \in Sends :
      Service!Precedes(inbox[t][i], mailbox[j].msg)

MailMail ==
    \A i, j \in Sends :
      i < j => Service!Precedes(mailbox[i].msg, mailbox[j].msg)

Numbered ==
    /\ \A t \in Sessions : \A i \in DOMAIN wire[t] :
         wire[t][i].seq < nextSeq[wire[t][i].via]
    /\ \A t \in Sessions : \A i \in DOMAIN inbox[t] :
         inbox[t][i].seq < nextSeq[inbox[t][i].via]
    /\ \A i \in Sends : mailbox[i].msg.seq < nextSeq[mailbox[i].msg.via]

\* Nothing is written before the welcome, and an inbox holds only texts
\* addressed to its session.
Greeted ==
    \A t \in Sessions :
      /\ phase[t] \in {"none", "created", "starting"} => wire[t] = << >>
      /\ phase[t] = "running" => wire[t] # << >>
      /\ \A i \in DOMAIN inbox[t] : inbox[t][i].to = t

OrderInv ==
    /\ DeliveredInOrder /\ WireInbox /\ InboxInbox
    /\ WireMail /\ InboxMail /\ MailMail
    /\ Numbered /\ Greeted /\ WelcomeFirst

LEMMA AppendFacts ==
  ASSUME NEW S, NEW q \in Seq(S), NEW e \in S
  PROVE  /\ Len(q) \in Nat
         /\ DOMAIN q = 1..Len(q)
         /\ DOMAIN Append(q, e) = 1..(Len(q) + 1)
         /\ \A i \in 1..Len(q) : Append(q, e)[i] = q[i]
         /\ Append(q, e)[Len(q) + 1] = e
         /\ Append(q, e) # << >>
  OBVIOUS

LEMMA TailFacts ==
  ASSUME NEW S, NEW q \in Seq(S), q # << >>
  PROVE  /\ Len(q) \in Nat \ {0}
         /\ DOMAIN q = 1..Len(q)
         /\ DOMAIN Tail(q) = 1..(Len(q) - 1)
         /\ \A i \in DOMAIN Tail(q) : Tail(q)[i] = q[i + 1]
         /\ q[1] = Head(q)
  OBVIOUS

LEMMA OrderInit == Init => OrderInv
  BY DEF Init, OrderInv, DeliveredInOrder, WireInbox, InboxInbox, WireMail,
         InboxMail, MailMail, Numbered, Greeted, WelcomeFirst, Sends

LEMMA SendsTyped ==
  ASSUME TypeOK
  PROVE  /\ Sends \subseteq Nat
         /\ \A i \in Sends : /\ mailbox[i].msg \in Service!Texts
                             /\ mailbox[i].msg.via \in Sessions
                             /\ mailbox[i].msg.seq \in Nat
  <1>1. mailbox \in Seq(Mail)
    BY DEF TypeOK
  <1>2. \A i \in DOMAIN mailbox : i \in Nat /\ mailbox[i] \in Mail
    BY <1>1
  <1>3. \A m \in Mail : m.kind = "Send" => m.msg \in Service!Texts
    BY DEF Mail
  <1>4. QED
    BY <1>2, <1>3 DEF Sends, Service!Texts

LEMMA FramesTyped ==
  /\ \A f \in Service!Frames : f.via \in Sessions /\ f.seq \in Nat
  /\ \A f \in Service!Texts :
       f.via \in Sessions /\ f.seq \in Nat \ {0} /\ f.kind = "text"
  BY DEF Service!Frames, Service!Texts, Service!Welcome

\* Posting a registration leaves the waiting texts where they are.
LEMMA SendsPostedOther ==
  ASSUME TypeOK, NEW m \in Mail, m.kind # "Send",
         mailbox' = Append(mailbox, m)
  PROVE  Sends' = Sends /\ \A i \in Sends : mailbox'[i] = mailbox[i]
  BY Posted DEF Sends

\* Posting a text adds one position, after all others.
LEMMA SendsPosted ==
  ASSUME TypeOK, NEW f \in Service!Texts,
         mailbox' = Append(mailbox, SendMessage(f))
  PROVE  /\ Sends' = Sends \cup {Len(mailbox) + 1}
         /\ \A i \in Sends : i < Len(mailbox) + 1 /\ mailbox'[i] = mailbox[i]
         /\ mailbox'[Len(mailbox) + 1].msg = f
  <1>1. SendMessage(f) \in Mail
    BY MailTypes
  <1>2. SendMessage(f).kind = "Send" /\ SendMessage(f).msg = f
    BY DEF SendMessage
  <1>3. QED
    BY <1>1, <1>2, Posted DEF Sends

\* Handling a message moves the waiting texts up by one.
LEMMA SendsHandled ==
  ASSUME TypeOK, mailbox # << >>, mailbox' = Tail(mailbox)
  PROVE  /\ \A i \in Sends' : i + 1 \in Sends /\ mailbox'[i] = mailbox[i + 1]
         /\ Sends' \subseteq Nat \ {0}
         /\ Head(mailbox).kind = "Send"
              => 1 \in Sends /\ mailbox[1].msg = Head(mailbox).msg
  BY Handled DEF Sends

LEMMA OrderStep == TypeOK /\ OrderInv /\ [Next]_vars => OrderInv'
  <1> SUFFICES ASSUME TypeOK, OrderInv, [Next]_vars
               PROVE  OrderInv'
    OBVIOUS
  <1>t. TypeOK'
    BY TypeStep
  <1> USE DEF OrderInv
  <1>0. ASSUME UNCHANGED mailbox
        PROVE  Sends' = Sends
    BY <1>0 DEF Sends
  <1>1. ASSUME NEW s \in Sessions, ws_handler(s)
        PROVE  OrderInv'
    <2>1. UNCHANGED <<mailbox, inbox, wire, nextSeq>> /\ Sends' = Sends
      BY <1>0, <1>1 DEF ws_handler
    <2>2. Greeted'
      BY <1>1, <2>1 DEF ws_handler, Greeted, TypeOK
    <2>3. QED
      BY <2>1, <2>2 DEF DeliveredInOrder, WireInbox, InboxInbox, WireMail,
         InboxMail, MailMail, Numbered, WelcomeFirst
  <1>2. ASSUME NEW s \in Sessions, StartedRegister(s)
        PROVE  OrderInv'
    <2>1. UNCHANGED <<inbox, wire, nextSeq>>
      BY <1>2 DEF StartedRegister
    <2>2. Sends' = Sends /\ \A i \in Sends : mailbox'[i] = mailbox[i]
      <3>1. RegisterSession(s) \in Mail /\ RegisterSession(s).kind # "Send"
        BY MailTypes DEF RegisterSession
      <3>2. QED
        BY <1>2, <3>1, SendsPostedOther DEF StartedRegister
    <2>3. Greeted'
      BY <1>2, <2>1 DEF StartedRegister, Greeted, TypeOK
    <2>4. QED
      BY <2>1, <2>2, <2>3 DEF DeliveredInOrder, WireInbox, InboxInbox, WireMail,
         InboxMail, MailMail, Numbered, WelcomeFirst
  <1>3. ASSUME NEW s \in Sessions, StartedWelcome(s)
        PROVE  OrderInv'
    <2>1. UNCHANGED <<mailbox, inbox, nextSeq>> /\ Sends' = Sends
      BY <1>0, <1>3 DEF StartedWelcome
    <2> DEFINE w == Service!Welcome(s)
    <2>2. w.via = s /\ w.seq = 0
      BY DEF Service!Welcome
    <2>3. wire[s] = << >>
      BY <1>3 DEF StartedWelcome, Greeted
    <2>4. /\ \A t \in Sessions : t # s => wire'[t] = wire[t]
          /\ wire'[s] = Append(<< >>, w)
      BY <1>3, <2>3 DEF StartedWelcome, TypeOK
    <2>w. DOMAIN wire'[s] = {1} /\ wire'[s][1] = w
      BY <2>4
    <2>5. DeliveredInOrder' /\ WelcomeFirst'
      BY <2>4, <2>w DEF DeliveredInOrder, WelcomeFirst
    <2> HIDE DEF w
    <2>6. WireInbox'
      <3>1. \A j \in DOMAIN inbox[s] : inbox[s][j] \in Service!Texts
        BY DEF TypeOK
      <3>2. \A j \in DOMAIN inbox[s] : Service!Precedes(w, inbox[s][j])
        BY <2>2, <3>1, FramesTyped DEF Service!Precedes
      <3>3. QED
        BY <2>1, <2>4, <2>w, <3>2 DEF WireInbox
    <2>7. WireMail'
      <3>1. \A j \in Sends : Service!Precedes(w, mailbox[j].msg)
        BY <2>2, SendsTyped, FramesTyped DEF Service!Precedes
      <3>2. QED
        BY <2>1, <2>4, <2>w, <3>1 DEF WireMail
    <2>8. Numbered'
      <3>1. w.seq < nextSeq[w.via]
        BY <2>2 DEF TypeOK
      <3>2. QED
        BY <2>1, <2>4, <2>w, <3>1 DEF Numbered
    <2>9. Greeted'
      <3>1. wire'[s] # << >>
        BY <2>w
      <3>2. QED
        BY <1>3, <2>1, <2>4, <3>1 DEF StartedWelcome, Greeted, TypeOK
    <2>10. QED
      BY <2>1, <2>5, <2>6, <2>7, <2>8, <2>9 DEF InboxInbox, InboxMail, MailMail
  <1>4. ASSUME NEW s \in Sessions, NEW t \in Addresses, HandleText(s, t)
        PROVE  OrderInv'
    <2> DEFINE f == Service!Text(s, t, nextSeq[s])
               n == Len(mailbox) + 1
    <2>1. f \in Service!Texts /\ f.via = s /\ f.seq = nextSeq[s]
      BY FrameTypes DEF TypeOK, Service!Text
    <2>2. /\ mailbox' = Append(mailbox, SendMessage(f))
          /\ nextSeq' = [nextSeq EXCEPT ![s] = @ + 1]
          /\ UNCHANGED <<phase, inbox, wire>>
      BY <1>4 DEF HandleText
    <2> HIDE DEF f
    <2>3. /\ Sends' = Sends \cup {n}
          /\ \A i \in Sends : i < n /\ mailbox'[i] = mailbox[i]
          /\ mailbox'[n].msg = f
      BY <2>1, <2>2, SendsPosted
    <2>4. \A u \in Sessions : nextSeq[u] \in Nat /\ nextSeq[u] <= nextSeq'[u]
      BY <2>2 DEF TypeOK
    <2>5. nextSeq'[s] = nextSeq[s] + 1
      BY <2>2 DEF TypeOK
    <2>n. n \in Nat
      BY DEF TypeOK
    <2> HIDE DEF n
    <2>6. WireMail'
      <3>1. \A u \in Sessions : \A i \in DOMAIN wire[u] :
              Service!Precedes(wire[u][i], f)
        BY <2>1 DEF Numbered, Service!Precedes
      <3>2. QED
        BY <2>2, <2>3, <3>1 DEF WireMail
    <2>7. InboxMail'
      <3>1. \A u \in Sessions : \A i \in DOMAIN inbox[u] :
              Service!Precedes(inbox[u][i], f)
        BY <2>1 DEF Numbered, Service!Precedes
      <3>2. QED
        BY <2>2, <2>3, <3>1 DEF InboxMail
    <2>8. MailMail'
      <3>1. \A i \in Sends : Service!Precedes(mailbox[i].msg, f)
        BY <2>1 DEF Numbered, Service!Precedes
      <3>2. QED
        BY <2>n, <2>3, <3>1, SendsTyped DEF MailMail
    <2>9. Numbered'
      <3>1. \A u \in Sessions : \A i \in DOMAIN wire[u] :
              wire[u][i].via \in Sessions /\ wire[u][i].seq \in Nat
        BY FramesTyped DEF TypeOK
      <3>2. \A u \in Sessions : \A i \in DOMAIN inbox[u] :
              inbox[u][i].via \in Sessions /\ inbox[u][i].seq \in Nat
        BY FramesTyped DEF TypeOK
      <3>3. \A u \in Sessions, k \in Nat : k < nextSeq[u] => k < nextSeq'[u]
        BY <2>2 DEF TypeOK
      <3>4. f.seq < nextSeq'[f.via]
        BY <2>1, <2>4, <2>5
      <3>5. QED
        BY <2>2, <2>3, <3>1, <3>2, <3>3, <3>4, SendsTyped DEF Numbered
    <2>10. QED
      BY <2>2, <2>6, <2>7, <2>8, <2>9 DEF DeliveredInOrder, WireInbox,
         InboxInbox, Greeted, WelcomeFirst
  <1>5. ASSUME NEW s \in Sessions, HandleInvalid(s)
        PROVE  OrderInv'
    <2>1. UNCHANGED <<phase, mailbox, inbox, wire>> /\ Sends' = Sends
      BY <1>0, <1>5 DEF HandleInvalid
    <2>2. \A u \in Sessions, k \in Nat : k < nextSeq[u] => k < nextSeq'[u]
      BY <1>5 DEF HandleInvalid, TypeOK
    <2>3. Numbered'
      <3>1. \A u \in Sessions : \A i \in DOMAIN wire[u] :
              wire[u][i].via \in Sessions /\ wire[u][i].seq \in Nat
        BY FramesTyped DEF TypeOK
      <3>2. \A u \in Sessions : \A i \in DOMAIN inbox[u] :
              inbox[u][i].via \in Sessions /\ inbox[u][i].seq \in Nat
        BY FramesTyped DEF TypeOK
      <3>3. QED
        BY <2>1, <2>2, <3>1, <3>2, SendsTyped DEF Numbered
    <2>4. QED
      BY <2>1, <2>3 DEF DeliveredInOrder, WireInbox, InboxInbox, WireMail,
         InboxMail, MailMail, Greeted, WelcomeFirst
  <1>6. ASSUME NEW s \in Sessions, HandleWsMessage(s)
        PROVE  OrderInv'
    <2> DEFINE f == Head(inbox[s])
    <2>1. UNCHANGED <<phase, mailbox, nextSeq>> /\ Sends' = Sends
      BY <1>0, <1>6 DEF HandleWsMessage
    <2>2. /\ inbox[s] \in Seq(Service!Texts) /\ inbox[s] # << >>
          /\ wire[s] \in Seq(Service!Frames) /\ wire[s] # << >>
      BY <1>6 DEF HandleWsMessage, TypeOK, Greeted
    <2>3. f \in Service!Texts /\ f \in Service!Frames
      BY <2>2, FrameTypes
    <2>4. /\ \A u \in Sessions : u # s => wire'[u] = wire[u] /\ inbox'[u] = inbox[u]
          /\ wire'[s] = Append(wire[s], f)
          /\ inbox'[s] = Tail(inbox[s])
      BY <1>6 DEF HandleWsMessage, TypeOK
    <2>5. 1 \in DOMAIN inbox[s] /\ inbox[s][1] = f
      BY <2>2, TailFacts
    <2>6. /\ DOMAIN inbox'[s] \subseteq Nat \ {0}
          /\ \A i \in DOMAIN inbox'[s] :
               i + 1 \in DOMAIN inbox[s] /\ inbox'[s][i] = inbox[s][i + 1]
      BY <2>2, <2>4, TailFacts
    <2> DEFINE n == Len(wire[s]) + 1
    <2>7. /\ n \in Nat /\ n # 1
          /\ DOMAIN wire'[s] = (DOMAIN wire[s]) \cup {n}
          /\ \A i \in DOMAIN wire[s] :
               i \in Nat /\ i < n /\ wire'[s][i] = wire[s][i]
          /\ wire'[s][n] = f
      BY <2>2, <2>3, <2>4, AppendFacts
    <2> HIDE DEF f, n
    <2>8. DeliveredInOrder'
      <3>1. \A i \in DOMAIN wire[s] : Service!Precedes(wire[s][i], f)
        BY <2>5 DEF WireInbox
      <3>2. \A i, j \in DOMAIN wire'[s] :
              i < j => Service!Precedes(wire'[s][i], wire'[s][j])
        BY <2>7, <3>1 DEF DeliveredInOrder
      <3>3. QED
        BY <2>4, <3>2 DEF DeliveredInOrder
    <2>9. WireInbox'
      <3>1. \A j \in DOMAIN inbox'[s] : Service!Precedes(f, inbox'[s][j])
        BY <2>5, <2>6 DEF InboxInbox
      <3>2. \A i \in DOMAIN wire[s], j \in DOMAIN inbox'[s] :
              Service!Precedes(wire[s][i], inbox'[s][j])
        BY <2>6 DEF WireInbox
      <3>3. \A i \in DOMAIN wire'[s], j \in DOMAIN inbox'[s] :
              Service!Precedes(wire'[s][i], inbox'[s][j])
        BY <2>7, <3>1, <3>2
      <3>4. QED
        BY <2>4, <3>3 DEF WireInbox
    <2>10. InboxInbox'
      <3>1. \A i, j \in DOMAIN inbox'[s] :
              i < j => Service!Precedes(inbox'[s][i], inbox'[s][j])
        BY <2>6 DEF InboxInbox
      <3>2. QED
        BY <2>4, <3>1 DEF InboxInbox
    <2>11. WireMail'
      <3>1. \A j \in Sends : Service!Precedes(f, mailbox[j].msg)
        BY <2>5 DEF InboxMail
      <3>2. QED
        BY <2>1, <2>4, <2>7, <3>1 DEF WireMail
    <2>12. InboxMail'
      <3>1. \A i \in DOMAIN inbox'[s], j \in Sends :
              Service!Precedes(inbox'[s][i], mailbox[j].msg)
        BY <2>6 DEF InboxMail
      <3>2. QED
        BY <2>1, <2>4, <3>1 DEF InboxMail
    <2>13. Numbered'
      <3>1. f.seq < nextSeq[f.via]
        BY <2>5 DEF Numbered
      <3>2. \A t \in Sessions : \A i \in DOMAIN wire'[t] :
              wire'[t][i].seq < nextSeq[wire'[t][i].via]
        BY <2>4, <2>7, <3>1 DEF Numbered
      <3>s. \A i \in DOMAIN inbox'[s] :
              inbox'[s][i].seq < nextSeq[inbox'[s][i].via]
        BY <2>6 DEF Numbered
      <3>3. \A t \in Sessions : \A i \in DOMAIN inbox'[t] :
              inbox'[t][i].seq < nextSeq[inbox'[t][i].via]
        BY <2>4, <3>s DEF Numbered
      <3>4. QED
        BY <2>1, <3>2, <3>3 DEF Numbered
    <2>14. Greeted'
      <3>1. wire'[s] # << >>
        BY <2>2, <2>3, <2>4, AppendFacts
      <3>2. \A i \in DOMAIN inbox'[s] : inbox'[s][i].to = s
        BY <2>6 DEF Greeted
      <3>3. phase[s] = "running"
        BY <1>6 DEF HandleWsMessage
      <3>4. QED
        BY <2>1, <2>4, <3>1, <3>2, <3>3 DEF Greeted
    <2>15. WelcomeFirst'
      <3>1. f.kind = "text" /\ f.to = s
        BY <2>3, <2>5, FramesTyped DEF Greeted
      <3>2. QED
        BY <2>4, <2>7, <3>1 DEF WelcomeFirst
    <2>16. QED
      BY <2>1, <2>8, <2>9, <2>10, <2>11, <2>12, <2>13, <2>14, <2>15 DEF MailMail
  <1>7. ASSUME NEW s \in Sessions, Stopping(s)
        PROVE  OrderInv'
    <2>1. UNCHANGED <<wire, nextSeq>>
      BY <1>7 DEF Stopping
    <2>2. Sends' = Sends /\ \A i \in Sends : mailbox'[i] = mailbox[i]
      <3>1. UnregisterSession(s) \in Mail /\ UnregisterSession(s).kind # "Send"
        BY MailTypes DEF UnregisterSession
      <3>2. QED
        BY <1>7, <3>1, SendsPostedOther DEF Stopping
    <2>3. /\ \A t \in Sessions : t # s => inbox'[t] = inbox[t]
          /\ DOMAIN inbox'[s] = {}
      BY <1>7 DEF Stopping, TypeOK
    <2>4. Greeted'
      BY <1>7, <2>1, <2>3 DEF Stopping, Greeted, TypeOK
    <2>5. WireInbox' /\ InboxInbox' /\ InboxMail'
      BY <2>1, <2>2, <2>3 DEF WireInbox, InboxInbox, InboxMail
    <2>6. Numbered'
      BY <2>1, <2>2, <2>3 DEF Numbered
    <2>7. QED
      BY <2>1, <2>2, <2>4, <2>5, <2>6
         DEF DeliveredInOrder, WireMail, MailMail, WelcomeFirst
  <1>8. CASE HandleRegister \/ HandleUnregister \/ HandleSendNotFound
    <2>1. /\ mailbox # << >> /\ mailbox' = Tail(mailbox)
          /\ UNCHANGED <<phase, inbox, wire, nextSeq>>
      BY <1>8 DEF HandleRegister, HandleUnregister, HandleSendNotFound
    <2>2. /\ \A i \in Sends' : i + 1 \in Sends /\ mailbox'[i] = mailbox[i + 1]
          /\ Sends' \subseteq Nat \ {0}
      BY <2>1, SendsHandled
    <2>3. WireMail' /\ InboxMail' /\ Numbered'
      BY <2>1, <2>2 DEF WireMail, InboxMail, Numbered
    <2>4. MailMail'
      <3>1. \A i, j \in Nat \ {0} : i < j => i + 1 < j + 1
        OBVIOUS
      <3>2. QED
        BY <2>2, <3>1 DEF MailMail
    <2>5. QED
      BY <2>1, <2>3, <2>4 DEF DeliveredInOrder, WireInbox, InboxInbox, Greeted,
         WelcomeFirst
  <1>9. CASE HandleSendFound
    <2> DEFINE f == Head(mailbox).msg
    <2>1. /\ mailbox # << >> /\ mailbox' = Tail(mailbox)
          /\ UNCHANGED <<phase, wire, nextSeq>>
          /\ Head(mailbox).kind = "Send"
          /\ f \in Service!Texts /\ f.to \in Sessions
      BY <1>9, HeadOfMailbox DEF HandleSendFound, TypeOK
    <2>2. /\ \A i \in Sends' : i + 1 \in Sends /\ mailbox'[i] = mailbox[i + 1]
          /\ Sends' \subseteq Nat \ {0}
          /\ 1 \in Sends /\ mailbox[1].msg = f
      BY <2>1, SendsHandled
    <2>3. \/ UNCHANGED inbox
          \/ inbox' = [inbox EXCEPT ![f.to] = Append(@, f)]
      BY <1>9 DEF HandleSendFound
    <2> HIDE DEF f
    <2>4. WireMail'
      BY <2>1, <2>2 DEF WireMail
    <2>5. MailMail'
      <3>1. \A i, j \in Nat \ {0} : i < j => i + 1 < j + 1
        OBVIOUS
      <3>2. QED
        BY <2>2, <3>1 DEF MailMail
    <2>6. \A i \in Sends' : Service!Precedes(f, mailbox'[i].msg)
      BY <2>2 DEF MailMail
    <2>7. CASE UNCHANGED inbox
      <3>1. InboxMail' /\ Numbered'
        BY <2>1, <2>2, <2>7 DEF InboxMail, Numbered
      <3>2. QED
        BY <2>1, <2>4, <2>5, <2>7, <3>1 DEF DeliveredInOrder, WireInbox,
           InboxInbox, Greeted, WelcomeFirst
    <2>8. CASE inbox' = [inbox EXCEPT ![f.to] = Append(@, f)]
      <3> DEFINE t == f.to
                 n == Len(inbox[t]) + 1
      <3>1. t \in Sessions
        BY <2>1
      <3>2. /\ inbox'[t] = Append(inbox[t], f)
            /\ \A u \in Sessions : u # t => inbox'[u] = inbox[u]
        BY <2>8, <3>1 DEF TypeOK
      <3>3. /\ n \in Nat
            /\ DOMAIN inbox'[t] = (DOMAIN inbox[t]) \cup {n}
            /\ \A i \in DOMAIN inbox[t] :
                 i \in Nat /\ i < n /\ inbox'[t][i] = inbox[t][i]
            /\ inbox'[t][n] = f
        <4>1. inbox[t] \in Seq(Service!Texts)
          BY <3>1 DEF TypeOK
        <4>2. QED
          BY <2>1, <3>2, <4>1, AppendFacts
      <3> HIDE DEF t, n
      <3>4. WireInbox'
        <4>1. \A i \in DOMAIN wire[t] : Service!Precedes(wire[t][i], f)
          BY <2>2, <3>1 DEF WireMail
        <4>2. \A i \in DOMAIN wire[t], j \in DOMAIN inbox'[t] :
                Service!Precedes(wire[t][i], inbox'[t][j])
          BY <3>1, <3>3, <4>1 DEF WireInbox
        <4>3. QED
          BY <2>1, <3>2, <4>2 DEF WireInbox
      <3>5. InboxInbox'
        <4>1. \A i \in DOMAIN inbox[t] : Service!Precedes(inbox[t][i], f)
          BY <2>2, <3>1 DEF InboxMail
        <4>2. \A i, j \in DOMAIN inbox'[t] :
                i < j => Service!Precedes(inbox'[t][i], inbox'[t][j])
          BY <3>1, <3>3, <4>1 DEF InboxInbox
        <4>3. QED
          BY <3>2, <4>2 DEF InboxInbox
      <3>6. InboxMail'
        <4>1. \A i \in DOMAIN inbox'[t], j \in Sends' :
                Service!Precedes(inbox'[t][i], mailbox'[j].msg)
          BY <2>2, <2>6, <3>1, <3>3 DEF InboxMail
        <4>2. \A u \in Sessions \ {t} : \A i \in DOMAIN inbox[u], j \in Sends' :
                Service!Precedes(inbox[u][i], mailbox'[j].msg)
          BY <2>2 DEF InboxMail
        <4>3. QED
          BY <3>2, <4>1, <4>2 DEF InboxMail
      <3>7. Numbered'
        <4>1. f.seq < nextSeq[f.via]
          BY <2>2 DEF Numbered
        <4>2. \A u \in Sessions : \A i \in DOMAIN inbox'[u] :
                inbox'[u][i].seq < nextSeq[inbox'[u][i].via]
          BY <3>1, <3>2, <3>3, <4>1 DEF Numbered
        <4>3. QED
          BY <2>1, <2>2, <4>2 DEF Numbered
      <3>8. Greeted'
        <4>1. \A i \in DOMAIN inbox'[t] : inbox'[t][i].to = t
          BY <3>1, <3>3 DEF Greeted, t
        <4>2. QED
          BY <2>1, <3>2, <4>1 DEF Greeted
      <3>9. QED
        BY <2>1, <2>4, <2>5, <3>4, <3>5, <3>6, <3>7, <3>8
           DEF DeliveredInOrder, WelcomeFirst
    <2>9. QED
      BY <2>3, <2>7, <2>8
  <1>10. CASE Restart
    <2>1. /\ UNCHANGED <<wire, nextSeq>>
          /\ \A t \in Sessions : DOMAIN inbox'[t] = {}
          /\ Sends' = {}
      BY <1>10 DEF Restart, Sends
    <2>2. \A t \in Sessions : phase'[t] = phase[t] \/ phase'[t] = "stopped"
      BY <1>10 DEF Restart, TypeOK
    <2>3. Greeted'
      BY <2>1, <2>2 DEF Greeted
    <2>4. Numbered'
      BY <2>1 DEF Numbered
    <2>5. QED
      BY <2>1, <2>3, <2>4 DEF DeliveredInOrder, WireInbox, InboxInbox, WireMail,
         InboxMail, MailMail, WelcomeFirst
  <1>11. CASE UNCHANGED vars
    <2>1. UNCHANGED <<phase, mailbox, inbox, wire, nextSeq>> /\ Sends' = Sends
      BY <1>0, <1>11 DEF vars
    <2>2. QED
      BY <2>1 DEF DeliveredInOrder, WireInbox, InboxInbox, WireMail,
         InboxMail, MailMail, Numbered, Greeted, WelcomeFirst
  <1>12. QED
    BY <1>1, <1>2, <1>3, <1>4, <1>5, <1>6, <1>7, <1>8, <1>9, <1>10, <1>11
       DEF Next, SessionStep, ServerStep

LEMMA OrderInvariance == Spec => [](TypeOK /\ OrderInv)
  BY TypeInit, TypeStep, OrderInit, OrderStep, PTL DEF Spec

\* Texts of one sender reach one recipient in the order they were sent, and
\* none twice, whatever the sessions, the server and crashes interleave.
THEOREM OrderPreserved == Spec => []DeliveredInOrder
  <1>1. OrderInv => DeliveredInOrder
    BY DEF OrderInv
  <1>2. QED
    BY <1>1, OrderInvariance, PTL

\* A client's first frame is its own welcome and no later frame is one.
THEOREM GreetedFirst == Spec => []WelcomeFirst
  <1>1. OrderInv => WelcomeFirst
    BY DEF OrderInv
  <1>2. QED
    BY <1>1, OrderInvariance, PTL
=============================================================================
