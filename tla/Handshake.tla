------------------------------ MODULE Handshake ------------------------------
(***************************************************************************)
(* What tabs that call each other promise: a call is a handshake.  A       *)
(* caller proposes one offer at a time, and never one that is in use; at   *)
(* most one tab accepts it, with an answer of its own; the caller then     *)
(* concludes with exactly what that tab has accepted.  An offer may remain *)
(* without an answer for ever; nobody may be in a session that the caller  *)
(* has not proposed, or in half of another one.                            *)
(***************************************************************************)
CONSTANTS
    Tabs, Callers,
    Offers, Answers,   \* descriptions, with their maker in the field "by"
    None

VARIABLES
    offered,   \* offered[c]: the offer caller c has out, or None
    session    \* session[t]: the offer and answer tab t has agreed on, or None

handshakeVars == <<offered, session>>

Taken(o) == \E t \in Tabs : session[t] # None /\ session[t].offer = o

HandshakeInit ==
    /\ offered = [c \in Callers |-> None]
    /\ session = [t \in Tabs |-> None]

Propose(c) ==
    /\ offered[c] = None
    /\ offered'[c] \in Offers /\ offered'[c].by = c
    /\ ~ Taken(offered'[c])
    /\ offered' = [offered EXCEPT ![c] = offered'[c]]
    /\ UNCHANGED session

Accept(t, c) ==
    /\ t # c
    /\ offered[c] # None /\ ~ Taken(offered[c])
    /\ session'[t] \in [offer : {offered[c]}, answer : Answers]
    /\ session'[t].answer.by = t
    /\ session' = [session EXCEPT ![t] = session'[t]]
    /\ UNCHANGED offered

Conclude(c, t) ==
    /\ t # c
    /\ offered[c] # None
    /\ session[t] # None /\ session[t].offer = offered[c]
    /\ session' = [session EXCEPT ![c] = session[t]]
    /\ offered' = [offered EXCEPT ![c] = None]

HandshakeNext ==
    \/ \E c \in Callers : Propose(c)
    \/ \E t \in Tabs, c \in Callers : Accept(t, c) \/ Conclude(c, t)

HandshakeSpec == HandshakeInit /\ [][HandshakeNext]_handshakeVars
=============================================================================
