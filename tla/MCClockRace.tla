---------------------------- MODULE MCClockRace -----------------------------
(* Instances of ClockRace for TLC: the factors 1.0 and 1.5, in halves.      *)
EXTENDS ClockRace

MCTdfs == {2, 3}
MCVTOnly == {"VT"}
MCVTAndIo == {"VT", "io"}
=============================================================================
