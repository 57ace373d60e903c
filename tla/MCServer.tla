------------------------------- MODULE MCServer -------------------------------
(* An instance of Server for TLC. *)
EXTENDS Server

CONSTANTS k1, k2

TwoMetrics == <<k1, k2>>
ThreeBatches == <<{1}, {1}, {1}>>
ClockTimes == {2, 4, 6}
PointTimes == 2 .. 8
NoBatches == {}
=============================================================================
