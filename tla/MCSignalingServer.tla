-------------------------- MODULE MCSignalingServer --------------------------
(***************************************************************************)
(* Instances of SignalingServer for TLC.  The ids of the connections are   *)
(* model values; "unknown" stands for every id no connection has.          *)
(***************************************************************************)
EXTENDS SignalingServer, TLC

CONSTANTS unknown

MCAddresses == Sessions \cup {unknown}
=============================================================================
