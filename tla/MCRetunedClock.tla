--------------------------- MODULE MCRetunedClock ---------------------------
(* Instances of RetunedClock for TLC: factors 1.0, 1.5 and 2.5, in halves.  *)
EXTENDS RetunedClock

MCTdfs == {2, 3, 5}
MCSteps == {1, 2}
=============================================================================
