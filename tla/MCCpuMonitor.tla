------------------------------ MODULE MCCpuMonitor -----------------------------
\* Instances of CpuMonitor for TLC: one CPU may be saturated while the other is
\* idle.
EXTENDS CpuMonitor

CONSTANTS c1, c2, nan, none

MCTwoCpus == {c1, c2}
MCLevels == {0, 1, 2, 4}
MCTargetLoads == {0, 2}
================================================================================
