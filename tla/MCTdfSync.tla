-------------------------------- MODULE MCTdfSync ------------------------------
\* Instances of TdfSync for TLC.  With a threshold of 1/10, 11 is at the
\* boundary of the hysteresis around 10.
EXTENDS TdfSync

CONSTANTS nan, none

MCTwoHosts == {1, 2}
MCTdfs == {10, 11, 20}
MCThresholds == {1, 2}
================================================================================
