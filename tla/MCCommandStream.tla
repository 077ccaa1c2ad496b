---------------------------- MODULE MCCommandStream ----------------------------
\* Instances of CommandStream for TLC.
EXTENDS CommandStream

CONSTANTS a, text, empty, garbled, close

MCClients == {a}
MCTexts == {text, empty}
================================================================================
