---------------------------- MODULE VirtualClock ----------------------------
(***************************************************************************)
(* What the guests are promised: a clock that can be stopped and started,   *)
(* that runs rate / One times slower than the host while it runs, and whose *)
(* rate changes only while it stands still.  Stopping, starting and         *)
(* changing the rate never move it.                                         *)
(***************************************************************************)
EXTENDS Integers

CONSTANTS
  One,     \* the rate of the host
  Rates,   \* the rates the clock may be set to, positive, in the same unit
  Epoch    \* what the clock shows first

VARIABLES
  base,      \* the time shown when the clock was last started or stopped
  run,       \* host time since it was started; 0 while it stands still
  running,
  rate

clock == <<base, run, running, rate>>

\* The time a guest reads.
Now == base + (run * One) \div rate

Init ==
  /\ base = Epoch
  /\ run = 0
  /\ running = FALSE
  /\ rate = One

Start ==
  /\ ~running
  /\ running' = TRUE
  /\ UNCHANGED <<base, run, rate>>

Stop ==
  /\ running
  /\ base' = Now
  /\ run' = 0
  /\ running' = FALSE
  /\ UNCHANGED rate

Retune ==
  /\ ~running
  /\ rate' \in Rates
  /\ UNCHANGED <<base, run, running>>

\* Host time passes.
Advance ==
  /\ running
  /\ run' \in Nat
  /\ run' > run
  /\ UNCHANGED <<base, running, rate>>

Next == Start \/ Stop \/ Retune \/ Advance

Spec == Init /\ [][Next]_clock

-----------------------------------------------------------------------------
\* The guests' time never goes backwards, through stops, restarts and rate
\* changes alike.
NeverBackwards == [][Now' >= Now]_clock
=============================================================================
