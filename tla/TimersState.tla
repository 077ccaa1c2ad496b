---------------------------- MODULE TimersState -----------------------------
(***************************************************************************)
(* The virtual clock and tick counter in shared memory (struct TimersState  *)
(* and the functions of qemu-timer.c on it), each function one step.        *)
(*                                                                          *)
(* The factor tdf is a natural number in the unit One (One is 1.0), never   *)
(* zero; the long double arithmetic of the code is exact here, and its      *)
(* conversion back to int64_t drops the fraction, towards zero.             *)
(*                                                                          *)
(* hostClock is CLOCK_MONOTONIC and Epoch + hostClock the time of day:       *)
(* get_clock() reads the latter until init_clocks() was called.  hostTicks  *)
(* is the cycle counter, which cpu_get_real_ticks() reads.                  *)
(***************************************************************************)
EXTENDS Integers

CONSTANTS
  One,     \* the factor 1.0
  Tdfs,    \* the factors the agent may set
  Epoch    \* the time of day minus CLOCK_MONOTONIC

ASSUME TimersAssumption ==
  /\ One \in Nat \ {0}
  /\ Tdfs \subseteq Nat \ {0}
  /\ One \in Tdfs
  /\ Epoch \in Nat

VARIABLES
  hostClock, hostTicks,
  cpu_clock_offset, cpu_clock_restart,
  cpu_ticks_offset, cpu_ticks_restart, cpu_ticks_prev,
  cpu_ticks_enabled,
  tdf,
  use_rt_clock   \* of the agent's process; guests are taken to agree with it

hostVars  == <<hostClock, hostTicks>>
clockVars == <<cpu_clock_offset, cpu_clock_restart>>
ticksVars == <<cpu_ticks_offset, cpu_ticks_restart, cpu_ticks_prev>>
timersVars == <<clockVars, ticksVars, cpu_ticks_enabled, tdf, use_rt_clock>>

TimersTypeOK ==
  /\ hostClock \in Nat
  /\ hostTicks \in Nat
  /\ cpu_clock_offset \in Int
  /\ cpu_clock_restart \in Nat
  /\ cpu_ticks_offset \in Int
  /\ cpu_ticks_restart \in Nat
  /\ cpu_ticks_prev \in Nat
  /\ cpu_ticks_enabled \in BOOLEAN
  /\ tdf \in Tdfs
  /\ use_rt_clock \in BOOLEAN

get_clock == IF use_rt_clock THEN hostClock ELSE Epoch + hostClock

\* timers_state_create and SharedMemory::create
TimersInit ==
  /\ use_rt_clock = FALSE
  /\ cpu_clock_offset = get_clock
  /\ cpu_clock_restart = get_clock
  /\ cpu_ticks_offset = hostTicks
  /\ cpu_ticks_restart = 0
  /\ cpu_ticks_prev = hostTicks
  /\ cpu_ticks_enabled = FALSE
  /\ tdf = One

-----------------------------------------------------------------------------

init_clocks ==
  /\ use_rt_clock' = TRUE
  /\ UNCHANGED <<clockVars, ticksVars, cpu_ticks_enabled, tdf>>

\* n / d as int64_t
Truncated(n, d) == IF n >= 0 THEN n \div d ELSE -((-n) \div d)

\* Mutant of Dilated: the factor multiplies instead of dividing.
Contracted(restart, real, offset) ==
  Truncated((restart + offset) * One + (real - restart) * tdf, One)

\* restart + (real - restart) / tdf + offset
Dilated(restart, real, offset) ==
  Truncated((restart + offset) * tdf + (real - restart) * One, tdf)

\* What cpu_get_clock and __cpu_get_clock return.
ClockNow ==
  IF cpu_ticks_enabled
  THEN Dilated(cpu_clock_restart, get_clock, cpu_clock_offset)
  ELSE cpu_clock_offset

\* Mutant of CaughtUpOffset: the line of QEMU that is commented out, in host
\* ticks.
CaughtUpOffsetUndilated ==
  IF cpu_ticks_prev > hostTicks
  THEN cpu_ticks_offset + cpu_ticks_prev - hostTicks
  ELSE cpu_ticks_offset

\* The offset once a read of the running tick counter has made up for ticks
\* that went backwards (a software suspend of the host).
CaughtUpOffset ==
  IF cpu_ticks_prev > hostTicks
  THEN Truncated(cpu_ticks_offset * tdf + (cpu_ticks_prev - hostTicks) * One, tdf)
  ELSE cpu_ticks_offset

\* What cpu_get_ticks and __cpu_get_ticks return ...
TicksNow ==
  IF cpu_ticks_enabled
  THEN Dilated(cpu_ticks_restart, hostTicks, CaughtUpOffset)
  ELSE cpu_ticks_offset

\* Mutant of cpu_get_ticks: what was read is not remembered.
GetTicksForgotten == UNCHANGED timersVars

\* ... and what cpu_get_ticks, a read, writes.
cpu_get_ticks ==
  /\ IF cpu_ticks_enabled
     THEN cpu_ticks_offset' = CaughtUpOffset /\ cpu_ticks_prev' = hostTicks
     ELSE UNCHANGED <<cpu_ticks_offset, cpu_ticks_prev>>
  /\ UNCHANGED <<clockVars, cpu_ticks_restart, cpu_ticks_enabled, tdf, use_rt_clock>>

\* Mutant of cpu_enable_ticks: the offset of the clock is not rebased.
EnableWithoutRebase ==
  \/ /\ ~cpu_ticks_enabled
     /\ cpu_ticks_offset' = cpu_ticks_offset - hostTicks
     /\ cpu_ticks_restart' = hostTicks
     /\ cpu_clock_restart' = get_clock
     /\ cpu_ticks_enabled' = TRUE
     /\ UNCHANGED <<cpu_clock_offset, cpu_ticks_prev, tdf, use_rt_clock>>
  \/ cpu_ticks_enabled /\ UNCHANGED timersVars

\* Mutant of cpu_enable_ticks: the ticks' restart is not set.
EnableWithoutTicksRestart ==
  \/ /\ ~cpu_ticks_enabled
     /\ cpu_ticks_offset' = cpu_ticks_offset - hostTicks
     /\ cpu_clock_offset' = cpu_clock_offset - get_clock
     /\ cpu_clock_restart' = get_clock
     /\ cpu_ticks_enabled' = TRUE
     /\ UNCHANGED <<cpu_ticks_restart, cpu_ticks_prev, tdf, use_rt_clock>>
  \/ cpu_ticks_enabled /\ UNCHANGED timersVars

cpu_enable_ticks ==
  \/ /\ ~cpu_ticks_enabled
     /\ cpu_ticks_offset' = cpu_ticks_offset - hostTicks
     /\ cpu_ticks_restart' = hostTicks
     /\ cpu_clock_offset' = cpu_clock_offset - get_clock
     /\ cpu_clock_restart' = get_clock
     /\ cpu_ticks_enabled' = TRUE
     /\ UNCHANGED <<cpu_ticks_prev, tdf, use_rt_clock>>
  \/ cpu_ticks_enabled /\ UNCHANGED timersVars

\* Mutant of cpu_disable_ticks: the flag is cleared before the offsets are
\* computed, so that they are read back unchanged.
DisableFlagFirst ==
  \/ /\ cpu_ticks_enabled
     /\ cpu_ticks_enabled' = FALSE
     /\ UNCHANGED <<clockVars, ticksVars, tdf, use_rt_clock>>
  \/ ~cpu_ticks_enabled /\ UNCHANGED timersVars

cpu_disable_ticks ==
  \/ /\ cpu_ticks_enabled
     /\ cpu_ticks_offset' = TicksNow
     /\ cpu_ticks_prev' = hostTicks
     /\ cpu_clock_offset' = ClockNow
     /\ cpu_ticks_enabled' = FALSE
     /\ UNCHANGED <<cpu_ticks_restart, cpu_clock_restart, tdf, use_rt_clock>>
  \/ ~cpu_ticks_enabled /\ UNCHANGED timersVars

\* SharedMemory::setTdf, tdf_set
setTdf(t) ==
  /\ tdf' = t
  /\ UNCHANGED <<clockVars, ticksVars, cpu_ticks_enabled, use_rt_clock>>
=============================================================================
