----------------------------- MODULE CommandPipe -----------------------------
(***************************************************************************)
(* What an operator's connection promises: of the lines typed at a client,  *)
(* the agent processes a prefix, in order, each once and unmixed with        *)
(* another.  How long a prefix, it does not say.                             *)
(***************************************************************************)
EXTENDS Sequences, Naturals

CONSTANTS Clients, Lines

VARIABLES typed, processed

Init ==
  /\ typed = [c \in Clients |-> <<>>]
  /\ processed = [c \in Clients |-> <<>>]

Type(c) ==
  /\ \E l \in Lines : typed' = [typed EXCEPT ![c] = Append(@, l)]
  /\ UNCHANGED processed

Process(c) ==
  /\ Len(processed[c]) < Len(typed[c])
  /\ processed' = [processed EXCEPT
                     ![c] = Append(@, typed[c][Len(processed[c]) + 1])]
  /\ UNCHANGED typed

Next == \E c \in Clients : Type(c) \/ Process(c)

Spec == Init /\ [][Next]_<<typed, processed>>
=============================================================================
