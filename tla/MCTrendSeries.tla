--------------------------- MODULE MCTrendSeries ---------------------------
(***************************************************************************)
(* Instances of TrendSeries for TLC.                                       *)
(***************************************************************************)
EXTENDS TrendSeries, TLC

CONSTANTS b1, b2

BuilderSymmetry == Permutations(Builders)
=============================================================================
