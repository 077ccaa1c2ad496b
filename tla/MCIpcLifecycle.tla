---------------------------- MODULE MCIpcLifecycle -----------------------------
\* Instances of IpcLifecycle for TLC.
EXTENDS IpcLifecycle

CONSTANTS a1, a2, g1

MCAgents == {a1, a2}
MCGuests == {g1}
MCTdfs == {1, 2}
================================================================================
