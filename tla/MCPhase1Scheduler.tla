------------------------- MODULE MCPhase1Scheduler -------------------------
(***************************************************************************)
(* Instances of Phase1Scheduler for TLC.                                   *)
(***************************************************************************)
EXTENDS Phase1Scheduler
=============================================================================
