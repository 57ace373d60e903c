----------------------------- MODULE MCTimeSeries -----------------------------
(* An instance of TimeSeries for TLC. *)
EXTENDS TimeSeries, TLC

PointSymmetry == Permutations(Points)
=============================================================================
