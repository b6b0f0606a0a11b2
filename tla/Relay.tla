-------------------------------- MODULE Relay --------------------------------
(***************************************************************************)
(* What the signaling server promises its clients: a greeted, lossy relay. *)
(* Every text handed to the relay reaches at most the one client it is     *)
(* addressed to, at most once, in the order its sender posted it, and only *)
(* after that client has been told its own id.  Losing a text is allowed   *)
(* (the addressee may be unknown or gone); inventing, duplicating,         *)
(* reordering or misdelivering one is not.                                 *)
(***************************************************************************)
EXTENDS Naturals, Sequences

CONSTANTS
    Sessions,    \* one id per WebSocket connection (Uuid::new_v4)
    Addresses    \* what the "to" field of a text may hold, Sessions included

VARIABLES
    nextSeq,     \* nextSeq[s]: number of the next text received from s
    inflight,    \* texts accepted and neither delivered nor lost
    received     \* received[t]: frames t got, oldest first

relayVars == <<nextSeq, inflight, received>>

Welcome(s) == [kind |-> "welcome", via |-> s, to |-> s, seq |-> 0]

\* seq is not in the text: it numbers the texts of one connection, so that
\* two equal texts are told apart.
Text(s, t, n) == [kind |-> "text", via |-> s, to |-> t, seq |-> n]

Texts == [kind : {"text"}, via : Sessions, to : Addresses, seq : Nat \ {0}]

Frames == Texts \cup {Welcome(s) : s \in Sessions}

\* a precedes b, if they come from the same connection.
Precedes(a, b) == a.via = b.via => a.seq < b.seq

RelayInit ==
    /\ nextSeq = [s \in Sessions |-> 1]
    /\ inflight = {}
    /\ received = [s \in Sessions |-> << >>]

Greet(t) ==
    /\ received[t] = << >>
    /\ received' = [received EXCEPT ![t] = <<Welcome(t)>>]
    /\ UNCHANGED <<nextSeq, inflight>>

Post(s, t) ==
    /\ inflight' = inflight \cup {Text(s, t, nextSeq[s])}
    /\ nextSeq' = [nextSeq EXCEPT ![s] = @ + 1]
    /\ UNCHANGED received

Reject(s) ==
    /\ nextSeq' = [nextSeq EXCEPT ![s] = @ + 1]
    /\ UNCHANGED <<inflight, received>>

Deliver(t, f) ==
    /\ f \in inflight
    /\ f.to = t
    /\ received[t] # << >>
    /\ \A i \in DOMAIN received[t] : Precedes(received[t][i], f)
    /\ received' = [received EXCEPT ![t] = Append(@, f)]
    /\ inflight' = inflight \ {f}
    /\ UNCHANGED nextSeq

Lose ==
    /\ inflight' \subseteq inflight
    /\ UNCHANGED <<nextSeq, received>>

RelayNext ==
    \/ \E t \in Sessions : Greet(t)
    \/ \E s \in Sessions, t \in Addresses : Post(s, t)
    \/ \E s \in Sessions : Reject(s)
    \/ \E t \in Sessions, f \in inflight : Deliver(t, f)
    \/ Lose

RelaySpec == RelayInit /\ [][RelayNext]_relayVars
=============================================================================
