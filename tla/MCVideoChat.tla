----------------------------- MODULE MCVideoChat -----------------------------
(***************************************************************************)
(* Instances of VideoChat for TLC.  Ids are model values; x is the only    *)
(* id that no tab has.                                                     *)
(***************************************************************************)
EXTENDS VideoChat

CONSTANTS c1, c2, x
=============================================================================
