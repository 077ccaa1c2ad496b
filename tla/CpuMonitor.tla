----------------------------- MODULE CpuMonitor -----------------------------
(***************************************************************************)
(* The CpuMonitor thread of one host: how the factor that the host reports   *)
(* follows its load and its simulators, while the io thread changes the      *)
(* Configuration under it.                                                   *)
(*                                                                           *)
(* A period has three steps, and no lock is held between them: measure the   *)
(* CPUs (monitorMode 0 and 2), look at the simulators' state (1 and 2),      *)
(* choose what to report and send it.  Each reads monitorMode anew.          *)
(*                                                                           *)
(* Ratios and factors are natural numbers in a fixed-point unit.  How far a  *)
(* measurement moves a factor (changeSlope, nonlinearFactor, tdfSimGain, all *)
(* taken to be positive) is left open; its direction is not.  One value is   *)
(* not a number: with targetLoad 0 an idle machine makes the formula divide  *)
(* 0 by 0.                                                                   *)
(***************************************************************************)
EXTENDS Integers, FiniteSets

CONSTANTS
  Cpus,          \* the processors
  Full,          \* denominator of the ratios: Full stands for 1.0
  Levels,        \* idle ratios a processor may show
  TargetLoads,   \* ratios Protocol 21 may set
  Lowest, Highest,  \* the bounds Protocol 14 may set lie in this interval
  AlphaInv,      \* 1 / alpha of the moving average
  NaN,           \* the factor that is not a number
  None,          \* nothing reported yet, no bound left to set
  MaxConfigs     \* bound: changes of the configuration

Tdfs == Lowest..Highest

\* What a formula gives before it is clamped.
Raw == (Lowest - 1)..(Highest + 1)

ASSUME MonitorAssumption ==
  /\ IsFiniteSet(Cpus) /\ Cpus # {}
  /\ Full \in Nat \ {0}
  /\ Levels \subseteq 0..Full /\ Levels # {}
  /\ TargetLoads \subseteq 0..Full
  /\ Lowest \in Nat /\ Highest \in Nat /\ Lowest <= Highest
  /\ AlphaInv \in Nat \ {0}
  /\ NaN \notin Int /\ None \notin Int /\ NaN # None
  /\ MaxConfigs \in Nat

VARIABLES
  pc,         \* where the thread is in its period
  tdfLoad, tdfSim,   \* its two factors
  avg,        \* avgMinXCpuIdleRatio
  cfg,        \* Configuration: tdfMin, tdfMax, monitorMode, targetLoad, ...
  newMax,     \* the io thread is between the two assignments of Protocol 14
  simulators, \* the age of simulators_state: "live" or "stale" (10 s)
  report,     \* the last report sent
  configs,    \* counter for the bound
  disturbed,  \* history: the configuration changed during this period
  busy        \* history: the last measurement saw a CPU busier than targetLoad

factors == <<tdfLoad, tdfSim>>
history == <<disturbed, busy>>
vars == <<pc, factors, avg, cfg, newMax, simulators, report, configs, history>>

-----------------------------------------------------------------------------
\* Mutant of MinIdle: the average over the CPUs hides a saturated one.
MaxIdle(sample) == CHOOSE r \in Levels :
  (\E c \in Cpus : sample[c] = r) /\ (\A c \in Cpus : sample[c] <= r)

\* getMinXCpuIdleRatio, of the ratios of the CPUs.
MinIdle(sample) == CHOOSE r \in Levels :
  (\E c \in Cpus : sample[c] = r) /\ (\A c \in Cpus : r <= sample[c])

\* getAvgMinXCpuIdleRatio
MovingAverage(old, current) == ((AlphaInv - 1) * old + current) \div AlphaInv

\* What the load formula may give for the average idle ratio a: it moves the
\* factor by the sign of (a - target) / (1 - target), whose divisor is 0 for
\* targetLoad 0.
LoadFormula(a) ==
  LET target == Full - cfg.targetLoad IN
  IF tdfLoad = NaN THEN {NaN}
  ELSE IF target = Full THEN IF a = Full THEN {NaN} ELSE {Highest + 1}
  ELSE {t \in Raw : \/ a < target /\ t > tdfLoad
                    \/ a = target /\ t = tdfLoad
                    \/ a > target /\ t < tdfLoad}

\* Mutant of Clamp: the upper bound is only looked at in the lower half.
ClampBelow(t) == IF t = NaN THEN NaN ELSE IF t < cfg.tdfMin THEN cfg.tdfMin
                 ELSE IF t > Highest THEN Highest ELSE t

\* Mutant of Clamp: the lower bound is missing.
ClampAboveOnly(t) == IF t # NaN /\ t > cfg.tdfMax THEN cfg.tdfMax ELSE t

\* "Set a boundary": a NaN is neither below nor above.
Clamp(t) ==
  IF t = NaN THEN NaN
  ELSE IF t < cfg.tdfMin THEN cfg.tdfMin
  ELSE IF t > cfg.tdfMax THEN cfg.tdfMax
  ELSE t

-----------------------------------------------------------------------------
MeasureLoad ==
  /\ pc = "load" /\ cfg.isLoadMonitored
  /\ \/ /\ cfg.monitorMode \in {0, 2}
        /\ \E sample \in [Cpus -> Levels] :
             /\ avg' = MovingAverage(avg, MinIdle(sample))
             /\ \E t \in LoadFormula(avg') : tdfLoad' = Clamp(t)
             /\ busy' = \E c \in Cpus : sample[c] < Full - cfg.targetLoad
     \/ /\ cfg.monitorMode \notin {0, 2}
        /\ UNCHANGED <<avg, tdfLoad, busy>>
  /\ pc' = "sim"
  /\ disturbed' = (newMax # None)
  /\ UNCHANGED <<tdfSim, cfg, newMax, simulators, report, configs>>

\* Mutant of MeasureSim: an old state of the simulators counts for ever.
MeasureSimOfAnyAge ==
  /\ pc = "sim"
  /\ \/ cfg.monitorMode \in {1, 2} /\ \E t \in Raw : tdfSim' = Clamp(t)
     \/ cfg.monitorMode \notin {1, 2} /\ UNCHANGED tdfSim
  /\ pc' = "send"
  /\ UNCHANGED <<tdfLoad, avg, cfg, newMax, simulators, report, configs, history>>

\* A state of the simulators that is 10 s old (or from the future) is not
\* used; a young one moves tdfSim either way.
MeasureSim ==
  /\ pc = "sim"
  /\ \/ /\ cfg.monitorMode \in {1, 2}
        /\ \/ simulators = "live" /\ \E t \in Raw : tdfSim' = Clamp(t)
           \/ simulators = "stale" /\ tdfSim' = cfg.tdfMin
     \/ cfg.monitorMode \notin {1, 2} /\ UNCHANGED tdfSim
  /\ pc' = "send"
  /\ UNCHANGED <<tdfLoad, avg, cfg, newMax, simulators, report, configs, history>>

\* The switch of monitorMode.  tdfSim > tdfLoad is false if tdfLoad is NaN.
Required ==
  CASE cfg.monitorMode = 0 -> tdfLoad
    [] cfg.monitorMode = 1 -> tdfSim
    [] cfg.monitorMode = 2 -> IF tdfLoad # NaN /\ tdfSim > tdfLoad THEN tdfSim
                              ELSE tdfLoad
    [] OTHER -> cfg.tdfMin

Send ==
  /\ pc = "send"
  /\ report' = Required
  /\ pc' = "load"
  /\ UNCHANGED <<factors, avg, cfg, newMax, simulators, configs, history>>

-----------------------------------------------------------------------------
(***************************************************************************)
(* The io thread, and the simulators                                        *)
(***************************************************************************)
Configure ==
  /\ newMax = None
  /\ configs < MaxConfigs
  /\ configs' = configs + 1
  /\ disturbed' = TRUE
  /\ UNCHANGED <<pc, factors, avg, simulators, report, busy>>

\* Protocol 14: tdfMin, and in a step of its own tdfMax.  Nobody compares them.
SetTdfMin(lo, hi) ==
  /\ Configure
  /\ cfg' = [cfg EXCEPT !.tdfMin = lo]
  /\ newMax' = hi

SetTdfMax ==
  /\ newMax # None
  /\ cfg' = [cfg EXCEPT !.tdfMax = newMax]
  /\ newMax' = None
  /\ disturbed' = TRUE
  /\ UNCHANGED <<pc, factors, avg, simulators, report, configs, busy>>

\* Protocol 21
SetTargetLoad(load) ==
  /\ Configure
  /\ cfg' = [cfg EXCEPT !.targetLoad = load]
  /\ UNCHANGED newMax

\* Protocols 26 and 27
SetLoadMonitored(on) ==
  /\ Configure
  /\ cfg' = [cfg EXCEPT !.isLoadMonitored = on]
  /\ UNCHANGED newMax

\* Protocol 32: any number; 3 stands for those without a meaning.
SetMonitorMode(mode) ==
  /\ Configure
  /\ cfg' = [cfg EXCEPT !.monitorMode = mode]
  /\ UNCHANGED newMax

\* The simulators write their state, or have not for 10 s.
SimulatorsChange ==
  /\ simulators' \in {"live", "stale"} \ {simulators}
  /\ UNCHANGED <<pc, factors, avg, cfg, newMax, report, configs, history>>

-----------------------------------------------------------------------------
Init ==
  /\ pc = "load"
  /\ tdfLoad = Lowest /\ tdfSim = Lowest
  /\ avg = Full
  /\ \E load \in TargetLoads :
       cfg = [tdfMin |-> Lowest, tdfMax |-> Highest, monitorMode |-> 0,
              targetLoad |-> load, isLoadMonitored |-> TRUE]
  /\ newMax = None
  /\ simulators = "stale"
  /\ report = None
  /\ configs = 0
  /\ disturbed = FALSE /\ busy = FALSE

Monitor == MeasureLoad \/ MeasureSim \/ Send

Operator ==
  \/ \E lo, hi \in Tdfs : SetTdfMin(lo, hi)
  \/ SetTdfMax
  \/ \E load \in TargetLoads : SetTargetLoad(load)
  \/ \E on \in BOOLEAN : SetLoadMonitored(on)
  \/ \E mode \in 0..3 : SetMonitorMode(mode)

Next == Monitor \/ Operator \/ SimulatorsChange

\* The thread sleeps a bounded time per period; the io thread finishes the
\* request it has begun.
Spec == Init /\ [][Next]_vars /\ WF_vars(Monitor) /\ WF_vars(SetTdfMax)

-----------------------------------------------------------------------------
\* Type invariant: in particular no factor of the thread ever leaves the
\* interval of the bounds, whichever halves of two Protocol 14 requests the
\* clamp met.
TypeOK ==
  /\ pc \in {"load", "sim", "send"}
  /\ tdfLoad \in Tdfs \cup {NaN} /\ tdfSim \in Tdfs
  /\ avg \in 0..Full
  /\ cfg \in [tdfMin : Tdfs, tdfMax : Tdfs, monitorMode : 0..3,
              targetLoad : TargetLoads, isLoadMonitored : BOOLEAN]
  /\ newMax \in Tdfs \cup {None}
  /\ simulators \in {"live", "stale"}
  /\ report \in Tdfs \cup {NaN, None}
  /\ configs \in 0..MaxConfigs
  /\ disturbed \in BOOLEAN /\ busy \in BOOLEAN

\* A report stays within tdfMin and tdfMax, if these make an interval, unless
\* the configuration changed during the period (a factor that the old mode did
\* not refresh may then be reported under bounds it was never held to) or the
\* factor is NaN.
UndisturbedReportInBounds ==
  [][pc = "send" /\ pc' = "load" /\ ~disturbed /\ cfg.tdfMin <= cfg.tdfMax
     => report' = NaN \/ (cfg.tdfMin <= report' /\ report' <= cfg.tdfMax)]_vars

\* A host on which some CPU stays busier than targetLoad ends up asking for
\* tdfMax, however idle its other CPUs are and whatever it was asked before.
OverloadReachesMax ==
  <>[](/\ busy /\ cfg.monitorMode = 0 /\ cfg.isLoadMonitored
       /\ cfg.tdfMin <= cfg.tdfMax /\ tdfLoad # NaN)
    => <>[](report = cfg.tdfMax)

\* Simulators that stay silent are forgotten: in monitorMode 1 the report ends
\* up at tdfMin, for a dead simulator must not slow the whole testbed down.
SilentSimulatorForgotten ==
  <>[](simulators = "stale" /\ cfg.monitorMode = 1 /\ cfg.isLoadMonitored)
    => <>[](report = cfg.tdfMin)
=============================================================================
