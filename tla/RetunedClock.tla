---------------------------- MODULE RetunedClock ----------------------------
(***************************************************************************)
(* TimersState driven by the two threads that write it, and read by guests: *)
(*                                                                          *)
(*   VirtualTime thread  starts the clock, then again and again stops it,   *)
(*                       sets the factor and starts it (the clock part of   *)
(*                       AdaptiveVirtualTime's cycle)                       *)
(*   io thread           Protocols 30 and 31 stop and start it at any time  *)
(*   guests              read the clock and the ticks                       *)
(*   host                time passes; a software suspend of the host sets   *)
(*                       the cycle counter back, not CLOCK_MONOTONIC        *)
(***************************************************************************)
EXTENDS TimersState

CONSTANTS
  Steps,            \* by how much host time may advance at once
  OperatorSuspends, \* whether requests of Protocol 30 arrive
  OperatorResumes,  \* whether requests of Protocol 31 arrive
  EarlyRequests,    \* whether they arrive before the clocks are initialised
  MaxHost,          \* bound on the host time
  MaxStops,         \* bound on the stops of the clock
  MaxSetbacks       \* bound on the software suspends of the host

ASSUME RetunedAssumption ==
  /\ Steps \subseteq Nat \ {0}
  /\ OperatorSuspends \in BOOLEAN
  /\ OperatorResumes \in BOOLEAN
  /\ EarlyRequests \in BOOLEAN
  /\ MaxHost \in Nat
  /\ MaxStops \in Nat
  /\ MaxSetbacks \in Nat

VARIABLES
  pcVT,        \* the VirtualTime thread
  clockRead,   \* the last clock value a guest read
  ticksRead,   \* the last tick count a guest read
  active,      \* history: host time during which the clock ran
  stops,       \* history: how many times the clock was stopped
  look,        \* history: since the ticks were last started, a guest has
               \* looked at them ("seen") or not yet ("none"), or the factor
               \* was changed under them after that ("retuned")
  stood,       \* history: the ticks when they were last started
  setbacks     \* how many times the cycle counter was set back

history == <<active, stops, look, stood>>
reads == <<clockRead, ticksRead>>
vars == <<hostVars, timersVars, pcVT, reads, history, setbacks>>

TypeOK ==
  /\ TimersTypeOK
  /\ pcVT \in {"init", "start", "wait", "settdf", "enable"}
  /\ clockRead \in Int
  /\ ticksRead \in Int
  /\ active \in Nat
  /\ stops \in Nat
  /\ look \in {"none", "seen", "retuned"}
  /\ stood \in Int
  /\ setbacks \in Nat

Init ==
  /\ hostClock = 0
  /\ hostTicks = 0
  /\ TimersInit
  /\ pcVT = "init"
  /\ clockRead = Epoch
  /\ ticksRead = 0
  /\ active = 0
  /\ stops = 0
  /\ look = "none"
  /\ stood = 0
  /\ setbacks = 0

CountStop ==
  \/ cpu_ticks_enabled /\ stops < MaxStops /\ stops' = stops + 1
  \/ ~cpu_ticks_enabled /\ UNCHANGED stops

Started ==
  \/ ~cpu_ticks_enabled /\ look' = "none" /\ stood' = TicksNow
  \/ cpu_ticks_enabled /\ UNCHANGED <<look, stood>>

OperatorMayAct == EarlyRequests \/ use_rt_clock

-----------------------------------------------------------------------------
HostAdvance ==
  \E d \in Steps :
    /\ hostClock + d <= MaxHost
    /\ hostClock' = hostClock + d
    /\ hostTicks' = hostTicks + d
    /\ active' = IF cpu_ticks_enabled THEN active + d ELSE active
    /\ UNCHANGED <<timersVars, pcVT, reads, stops, look, stood, setbacks>>

HostSoftwareSuspend ==
  /\ setbacks < MaxSetbacks
  /\ setbacks' = setbacks + 1
  /\ hostTicks' \in 0 .. hostTicks - 1
  /\ UNCHANGED <<hostClock, timersVars, pcVT, reads, history>>

VTInitClocks ==
  /\ pcVT = "init"
  /\ pcVT' = "start"
  /\ init_clocks
  /\ UNCHANGED <<hostVars, reads, history, setbacks>>

VTStart ==
  /\ pcVT = "start"
  /\ pcVT' = "wait"
  /\ cpu_enable_ticks
  /\ Started
  /\ UNCHANGED <<hostVars, reads, active, stops, setbacks>>

\* Mutant of VTDisable: the clock is not stopped for the update.
VTDisableForgotten ==
  /\ pcVT = "wait"
  /\ pcVT' = "settdf"
  /\ UNCHANGED <<hostVars, timersVars, reads, history, setbacks>>

VTDisable ==
  /\ pcVT = "wait"
  /\ pcVT' = "settdf"
  /\ cpu_disable_ticks
  /\ CountStop
  /\ UNCHANGED <<hostVars, reads, active, look, stood, setbacks>>

VTSetTdf ==
  /\ pcVT = "settdf"
  /\ pcVT' = "enable"
  /\ \E t \in Tdfs : setTdf(t)
  /\ look' = IF cpu_ticks_enabled THEN "retuned" ELSE look
  /\ UNCHANGED <<hostVars, reads, active, stops, stood, setbacks>>

VTEnable ==
  /\ pcVT = "enable"
  /\ pcVT' = "wait"
  /\ cpu_enable_ticks
  /\ Started
  /\ UNCHANGED <<hostVars, reads, active, stops, setbacks>>

OperatorSuspend ==
  /\ OperatorSuspends
  /\ OperatorMayAct
  /\ cpu_disable_ticks
  /\ CountStop
  /\ UNCHANGED <<hostVars, pcVT, reads, active, look, stood, setbacks>>

OperatorResume ==
  /\ OperatorResumes
  /\ OperatorMayAct
  /\ cpu_enable_ticks
  /\ Started
  /\ UNCHANGED <<hostVars, pcVT, reads, active, stops, setbacks>>

GuestReadsClock ==
  /\ clockRead' = ClockNow
  /\ UNCHANGED <<hostVars, timersVars, pcVT, ticksRead, history, setbacks>>

GuestReadsTicks ==
  /\ ticksRead' = TicksNow
  /\ cpu_get_ticks
  /\ look' = IF cpu_ticks_enabled THEN "seen" ELSE look
  /\ UNCHANGED <<hostVars, pcVT, clockRead, active, stops, stood, setbacks>>

Next ==
  \/ HostAdvance \/ HostSoftwareSuspend
  \/ VTInitClocks \/ VTStart \/ VTDisable \/ VTSetTdf \/ VTEnable
  \/ OperatorSuspend \/ OperatorResume
  \/ GuestReadsClock \/ GuestReadsTicks

Spec == Init /\ [][Next]_vars

-----------------------------------------------------------------------------
(***************************************************************************)
(* Refinement                                                               *)
(***************************************************************************)
Ideal == INSTANCE VirtualClock WITH
  Rates   <- Tdfs,
  base    <- IF cpu_ticks_enabled
             THEN cpu_clock_restart + cpu_clock_offset
             ELSE cpu_clock_offset,
  run     <- IF cpu_ticks_enabled THEN get_clock - cpu_clock_restart ELSE 0,
  running <- cpu_ticks_enabled,
  rate    <- tdf

\* The clock in shared memory implements the promised one.
ImplementsVirtualClock == Ideal!Spec

-----------------------------------------------------------------------------
(***************************************************************************)
(* Properties                                                               *)
(***************************************************************************)

\* With factors of at least 1.0, guests never see more time pass than the
\* host, whatever the stops and factors.
NotFasterThanHost ==
  (\A t \in Tdfs : t >= One) => ClockNow - Epoch <= hostClock

\* ... and what they miss is accounted for: while the clock ran it ran at no
\* less than the slowest rate, except for the fraction that each stop drops,
\* less than one unit.
LossBounded ==
  \A slowest \in Tdfs :
    (\A t \in Tdfs : t <= slowest)
    => (ClockNow - Epoch + stops + 1) * slowest > active * One

\* A guest never reads a clock value below one that was read before.
ClockMonotonic == [][clockRead' >= clockRead]_vars

\* The same for the ticks.
TicksMonotonic == [][ticksRead' >= ticksRead]_vars

\* A standing clock does not count ticks, and neither a stop nor a restart
\* moves them, as long as the cycle counter was not set back since it was
\* last looked at.
TicksStandStill ==
  [][((~cpu_ticks_enabled \/ ~cpu_ticks_enabled') /\ cpu_ticks_prev <= hostTicks)
     => TicksNow' = TicksNow]_vars

\* Ticks that count never show less than a guest read before, wherever the cycle
\* counter was set back to; and if it is below what that read saw, the setback is
\* made up for and no more.  Both up to the one tick that the two roundings may
\* differ by.  This takes a read since the start, and no change of the factor
\* since (Protocol 31 in the middle of a cycle).
SetbackCaughtUp ==
  cpu_ticks_enabled /\ look = "seen"
  => /\ TicksNow >= ticksRead - 1
     /\ hostTicks < cpu_ticks_prev => TicksNow <= ticksRead + 1

\* Before the first read after a start cpu_ticks_prev is still what the stop saw
\* (cpu_enable_ticks does not refresh it), and a setback is made up for from
\* there.  So a counter set back after the start takes the ticks below those at
\* the start, by no more than it had advanced while they stood; one that was set
\* back while they stood makes them jump ahead by that amount.  Both dilated, and
\* up to the roundings.
UnseenSetbackBounded ==
  LET moved == (cpu_ticks_prev - cpu_ticks_restart) * One IN
     cpu_ticks_enabled /\ look = "none"
     => /\ (TicksNow - stood + 2) * tdf > moved
        /\ hostTicks < cpu_ticks_prev => (TicksNow - stood - 2) * tdf < moved
=============================================================================
