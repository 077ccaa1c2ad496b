------------------------------ MODULE MCLinkTable ------------------------------
\* Instances of LinkTable for TLC.
EXTENDS LinkTable, TLC

CONSTANTS v1, v2, none

MCTwoLinks == 1..2
MCFirstLink == {1}
MCTwoValues == {v1, v2}
MCTwoTdfs == {1, 2}
ValueSymmetry == Permutations(MCTwoValues)
================================================================================
