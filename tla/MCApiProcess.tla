---------------------------- MODULE MCApiProcess ----------------------------
(***************************************************************************)
(* Instances of ApiProcess for TLC.                                        *)
(***************************************************************************)
EXTENDS ApiProcess

CONSTANTS c1, c2
=============================================================================
