----------------------- MODULE MCAdaptiveVirtualTime ------------------------
(* Instances of AdaptiveVirtualTime for TLC: factors in tenths, the factor  *)
(* 0 included, for nothing in the code refuses it.                          *)
EXTENDS AdaptiveVirtualTime, TLC

CONSTANTS h1, h2, none

MCHosts == {h1, h2}
MCTdfs == {0, 10, 11, 20}
MCThresholds == {0, 1, 4}
MCOneHost == {h1}
MCTwoTdfs == {10, 20}
MCThreeTdfs == {10, 11, 20}
MCOneThreshold == {1}

\* The operator's repertoires of the runs.
MCAllCommands == AllCommands
MCDisciplined == AllCommands \ {"resume", "suspend", "suspOff", "replace"}
MCEnforceOnly == {"enforce"}

HostSymmetry == Permutations(MCHosts)
=============================================================================
