------------------------- MODULE CpuMonitor_proofs --------------------------
(***************************************************************************)
(* Proofs about CpuMonitor, for any processors, levels and bounds.          *)
(***************************************************************************)
EXTENDS CpuMonitor, WellFoundedInduction, TLAPS

\* A host with a processor has one that is idle the least.
LEMMA MinIdleType ==
  ASSUME NEW sample \in [Cpus -> Levels]
  PROVE  MinIdle(sample) \in 0..Full
<1> DEFINE S == {sample[c] : c \in Cpus}
<1>1. S \in SUBSET Nat /\ S # {}
  <2>1. \A c \in Cpus : sample[c] \in Nat
    <3>1. Levels \subseteq Nat
      BY MonitorAssumption
    <3> QED
      BY <3>1
  <2>2. PICK c \in Cpus : TRUE
    BY MonitorAssumption
  <2> QED
    BY <2>1, <2>2
<1>2. PICK r \in S : \A s \in S : r <= s
  <2>1. \E r \in S : \A s \in S : ~(<<s, r>> \in OpToRel(<, Nat))
    BY <1>1, NatLessThanWellFounded, WFMin
  <2>2. PICK r \in S : \A s \in S : ~(<<s, r>> \in OpToRel(<, Nat))
    BY <2>1
  <2>3. \A s \in S : ~(s < r)
    BY <1>1, <2>2 DEF OpToRel
  <2> QED
    BY <1>1, <2>3
<1>3. \E l \in Levels : (\E c \in Cpus : sample[c] = l) /\ (\A c \in Cpus : l <= sample[c])
  BY <1>2
<1>4. MinIdle(sample) \in Levels
  BY <1>3 DEF MinIdle
<1> QED
  BY <1>4, MonitorAssumption

\* The moving average of two ratios is a ratio.
LEMMA AverageType ==
  ASSUME NEW old \in 0..Full, NEW current \in 0..Full
  PROVE  MovingAverage(old, current) \in 0..Full
<1> DEFINE n == (AlphaInv - 1) * old + current
           q == n \div AlphaInv
<1>1. Full \in Nat /\ AlphaInv \in Nat \ {0} /\ old \in Nat /\ current \in Nat
  BY MonitorAssumption
<1>2. n \in Nat
  <2>1. AlphaInv - 1 \in Nat
    BY <1>1
  <2>2. (AlphaInv - 1) * old \in Nat
    BY <1>1, <2>1
  <2> QED
    BY <1>1, <2>2
<1>3. n <= AlphaInv * Full
  <2>1. (AlphaInv - 1) * old <= (AlphaInv - 1) * Full
    BY <1>1
  <2>2. (AlphaInv - 1) * Full = AlphaInv * Full - Full
    BY <1>1
  <2> QED
    BY <1>1, <2>1, <2>2
<1>4. q \in Nat /\ AlphaInv * q <= n
  <2> HIDE DEF n
  <2> QED
    BY <1>1, <1>2, Z3
<1> HIDE DEF q, n
<1>5. q <= Full
  <2>1. AlphaInv * q <= AlphaInv * Full
    BY <1>1, <1>2, <1>3, <1>4
  <2> QED
    BY <1>1, <1>4, <2>1
<1>6. q \in 0..Full
  BY <1>1, <1>4, <1>5
<1> QED
  BY <1>6 DEF MovingAverage, q, n

\* Whatever the bounds, a clamped factor is one that they may have; if they
\* make an interval, it lies in it.
LEMMA ClampType ==
  ASSUME TypeOK, NEW t \in Raw \cup {NaN}
  PROVE  /\ Clamp(t) \in Tdfs \cup {NaN}
         /\ t \in Raw => Clamp(t) \in Tdfs
         /\ cfg.tdfMin <= cfg.tdfMax =>
              Clamp(t) = NaN \/ (cfg.tdfMin <= Clamp(t) /\ Clamp(t) <= cfg.tdfMax)
<1>1. cfg.tdfMin \in Tdfs /\ cfg.tdfMax \in Tdfs
  BY DEF TypeOK
<1>2. Lowest \in Int /\ Highest \in Int /\ NaN \notin Int
  BY MonitorAssumption
<1>3. CASE t = NaN
  BY <1>2, <1>3 DEF Clamp, Raw
<1>4. CASE t \in Raw
  BY <1>1, <1>2, <1>4 DEF Clamp, Raw, Tdfs
<1> QED
  BY <1>3, <1>4

\* The load formula gives a number, or a NaN.
LEMMA FormulaType ==
  ASSUME NEW a, NEW t \in LoadFormula(a)
  PROVE  t \in Raw \cup {NaN}
<1>1. Highest + 1 \in Raw
  BY MonitorAssumption DEF Raw
<1> QED
  BY <1>1 DEF LoadFormula

-----------------------------------------------------------------------------
Settings == [tdfMin : Tdfs, tdfMax : Tdfs, monitorMode : 0..3,
             targetLoad : TargetLoads, isLoadMonitored : BOOLEAN]

\* A request leaves the thread alone.
LEMMA ConfigureType ==
  ASSUME TypeOK, Configure, cfg' \in Settings, newMax' \in Tdfs \cup {None}
  PROVE  TypeOK'
<1>1. disturbed' = TRUE
  BY DEF Configure
<1>2. disturbed' \in BOOLEAN
  BY <1>1, Zenon
<1>3. configs' \in 0..MaxConfigs
  BY MonitorAssumption DEF Configure, TypeOK
<1> QED
  BY <1>2, <1>3 DEF Configure, TypeOK, Settings, factors

LEMMA TypeOKInit == Init => TypeOK
<1> SUFFICES ASSUME Init PROVE TypeOK
  OBVIOUS
<1>1. Lowest \in Tdfs /\ Highest \in Tdfs
  BY MonitorAssumption DEF Tdfs
<1>2. cfg \in Settings
  BY <1>1 DEF Init, Settings
<1>3. disturbed \in BOOLEAN /\ busy \in BOOLEAN
  BY Zenon DEF Init
<1>4. avg \in 0..Full /\ configs \in 0..MaxConfigs
  BY MonitorAssumption DEF Init
<1> QED
  BY <1>1, <1>2, <1>3, <1>4 DEF Init, TypeOK, Settings

LEMMA TypeOKStep == TypeOK /\ [Next]_vars => TypeOK'
<1> SUFFICES ASSUME TypeOK, [Next]_vars PROVE TypeOK'
  OBVIOUS
<1> USE DEF factors, history
<1>1. CASE MeasureLoad
  <2>1. avg' \in 0..Full /\ tdfLoad' \in Tdfs \cup {NaN} /\ busy' \in BOOLEAN
    <3>1. CASE UNCHANGED <<avg, tdfLoad, busy>>
      BY <3>1 DEF TypeOK
    <3>2. CASE \E sample \in [Cpus -> Levels] :
                 /\ avg' = MovingAverage(avg, MinIdle(sample))
                 /\ \E t \in LoadFormula(avg') : tdfLoad' = Clamp(t)
                 /\ busy' = \E c \in Cpus : sample[c] < Full - cfg.targetLoad
      <4> PICK sample \in [Cpus -> Levels] :
                 /\ avg' = MovingAverage(avg, MinIdle(sample))
                 /\ \E t \in LoadFormula(avg') : tdfLoad' = Clamp(t)
                 /\ busy' = \E c \in Cpus : sample[c] < Full - cfg.targetLoad
        BY <3>2
      <4>1. avg' \in 0..Full
        BY MinIdleType, AverageType DEF TypeOK
      <4>2. tdfLoad' \in Tdfs \cup {NaN}
        BY FormulaType, ClampType
      <4>3. busy' \in BOOLEAN
        BY Zenon
      <4> QED
        BY <4>1, <4>2, <4>3
    <3> QED
      BY <1>1, <3>1, <3>2 DEF MeasureLoad
  <2>2. disturbed' \in BOOLEAN
    BY <1>1, Zenon DEF MeasureLoad
  <2> QED
    BY <1>1, <2>1, <2>2 DEF MeasureLoad, TypeOK
<1>2. CASE MeasureSim
  <2>1. tdfSim' \in Tdfs
    BY <1>2, ClampType DEF MeasureSim, TypeOK
  <2> QED
    BY <1>2, <2>1 DEF MeasureSim, TypeOK
<1>3. CASE Send
  <2>1. Required \in Tdfs \cup {NaN}
    BY DEF Required, TypeOK
  <2> QED
    BY <1>3, <2>1 DEF Send, TypeOK
<1>4. ASSUME NEW lo \in Tdfs, NEW hi \in Tdfs, SetTdfMin(lo, hi)
      PROVE  TypeOK'
  <2>1. Configure /\ cfg' \in Settings /\ newMax' \in Tdfs
    BY <1>4 DEF SetTdfMin, TypeOK, Settings
  <2> QED
    BY <2>1, ConfigureType
<1>5. CASE SetTdfMax
  <2>1. newMax \in Tdfs /\ newMax' = None
    BY <1>5 DEF SetTdfMax, TypeOK
  <2>2. cfg' \in Settings
    BY <1>5, <2>1 DEF SetTdfMax, TypeOK, Settings
  <2>3. disturbed' = TRUE
    BY <1>5 DEF SetTdfMax
  <2>4. disturbed' \in BOOLEAN
    BY <2>3, Zenon
  <2> QED
    BY <1>5, <2>1, <2>2, <2>4 DEF SetTdfMax, TypeOK, Settings
<1>6. ASSUME NEW load \in TargetLoads, SetTargetLoad(load)
      PROVE  TypeOK'
  <2>1. Configure /\ cfg' \in Settings /\ UNCHANGED newMax
    BY <1>6 DEF SetTargetLoad, TypeOK, Settings
  <2> QED
    BY <2>1, ConfigureType DEF TypeOK
<1>7. ASSUME NEW on \in BOOLEAN, SetLoadMonitored(on)
      PROVE  TypeOK'
  <2>1. Configure /\ cfg' \in Settings /\ UNCHANGED newMax
    BY <1>7 DEF SetLoadMonitored, TypeOK, Settings
  <2> QED
    BY <2>1, ConfigureType DEF TypeOK
<1>8. ASSUME NEW mode \in 0..3, SetMonitorMode(mode)
      PROVE  TypeOK'
  <2>1. Configure /\ cfg' \in Settings /\ UNCHANGED newMax
    BY <1>8 DEF SetMonitorMode, TypeOK, Settings
  <2> QED
    BY <2>1, ConfigureType DEF TypeOK
<1>9. CASE SimulatorsChange
  BY <1>9 DEF SimulatorsChange, TypeOK
<1>10. CASE UNCHANGED vars
  BY <1>10 DEF vars, TypeOK
<1> QED
  BY <1>1, <1>2, <1>3, <1>4, <1>5, <1>6, <1>7, <1>8, <1>9, <1>10
  DEF Next, Monitor, Operator

\* Type correctness of the monitor: no factor leaves the interval of the bounds
\* that may be set, whichever halves of two Protocol 14 requests a clamp met.
THEOREM MonitorTypeCorrect == Spec => []TypeOK
BY TypeOKInit, TypeOKStep, PTL DEF Spec

-----------------------------------------------------------------------------
(***************************************************************************)
(* Reports within the bounds                                                *)
(***************************************************************************)

InBounds(t) == t = NaN \/ (cfg.tdfMin <= t /\ t <= cfg.tdfMax)

\* In a period in which nothing was configured, the factors that the present
\* mode reports have been clamped by the present bounds.
Clamped ==
  ~disturbed /\ cfg.tdfMin <= cfg.tdfMax =>
    /\ pc \in {"sim", "send"} /\ cfg.monitorMode \in {0, 2} => InBounds(tdfLoad)
    /\ pc = "send" /\ cfg.monitorMode \in {1, 2} => InBounds(tdfSim)

LEMMA ClampedStep == TypeOK /\ Clamped /\ [Next]_vars => Clamped'
<1> SUFFICES ASSUME TypeOK, Clamped, [Next]_vars PROVE Clamped'
  OBVIOUS
<1> USE DEF factors, history
<1>1. CASE MeasureLoad
  <2>1. cfg' = cfg /\ pc' = "sim"
    BY <1>1 DEF MeasureLoad
  <2>2. cfg.tdfMin <= cfg.tdfMax /\ cfg.monitorMode \in {0, 2} => InBounds(tdfLoad')
    <3> SUFFICES ASSUME cfg.tdfMin <= cfg.tdfMax, cfg.monitorMode \in {0, 2}
                 PROVE  InBounds(tdfLoad')
      OBVIOUS
    <3>1. PICK t \in LoadFormula(avg') : tdfLoad' = Clamp(t)
      BY <1>1 DEF MeasureLoad
    <3> QED
      BY <3>1, FormulaType, ClampType DEF InBounds
  <2> QED
    BY <2>1, <2>2 DEF Clamped, InBounds
<1>2. CASE MeasureSim
  <2>1. cfg' = cfg /\ pc = "sim" /\ pc' = "send" /\ UNCHANGED <<tdfLoad, disturbed>>
    BY <1>2 DEF MeasureSim
  <2>2. cfg.tdfMin <= cfg.tdfMax /\ cfg.monitorMode \in {1, 2} => InBounds(tdfSim')
    <3> SUFFICES ASSUME cfg.tdfMin <= cfg.tdfMax, cfg.monitorMode \in {1, 2}
                 PROVE  InBounds(tdfSim')
      OBVIOUS
    <3>1. CASE \E t \in Raw : tdfSim' = Clamp(t)
      BY <3>1, ClampType DEF InBounds
    <3>2. CASE tdfSim' = cfg.tdfMin
      BY <3>2, MonitorAssumption DEF InBounds, TypeOK, Tdfs
    <3> QED
      BY <1>2, <3>1, <3>2 DEF MeasureSim
  <2> QED
    BY <2>1, <2>2 DEF Clamped, InBounds
<1>3. CASE Send
  BY <1>3 DEF Send, Clamped
<1>4. CASE Operator
  <2>1. disturbed' = TRUE
    BY <1>4 DEF Operator, SetTdfMin, SetTdfMax, SetTargetLoad, SetLoadMonitored,
                SetMonitorMode, Configure
  <2> QED
    BY <2>1 DEF Clamped
<1>5. CASE SimulatorsChange \/ UNCHANGED vars
  BY <1>5 DEF SimulatorsChange, vars, Clamped, InBounds
<1> QED
  BY <1>1, <1>2, <1>3, <1>4, <1>5 DEF Next, Monitor

\* The reports of an undisturbed period are within the bounds, whatever was
\* configured in the periods before it.
THEOREM ReportsInBounds == Spec => UndisturbedReportInBounds
<1>1. Init => Clamped
  BY DEF Init, Clamped
<1>2. TypeOK /\ Clamped /\ [Next]_vars
      => [pc = "send" /\ pc' = "load" /\ ~disturbed /\ cfg.tdfMin <= cfg.tdfMax
          => report' = NaN \/ (cfg.tdfMin <= report' /\ report' <= cfg.tdfMax)]_vars
  <2> SUFFICES ASSUME TypeOK, Clamped, Next,
                      pc = "send", pc' = "load", ~disturbed, cfg.tdfMin <= cfg.tdfMax
               PROVE  report' = NaN \/ (cfg.tdfMin <= report' /\ report' <= cfg.tdfMax)
    OBVIOUS
  <2>1. Send
    BY DEF Next, Monitor, MeasureLoad, MeasureSim, Operator, SetTdfMin, SetTdfMax,
           SetTargetLoad, SetLoadMonitored, SetMonitorMode, Configure,
           SimulatorsChange
  <2>2. report' = Required
    BY <2>1 DEF Send
  <2>3. InBounds(cfg.tdfMin)
    BY MonitorAssumption DEF InBounds, TypeOK, Tdfs
  <2>4. InBounds(Required)
    BY <2>3 DEF Required, Clamped, TypeOK
  <2> QED
    BY <2>2, <2>4 DEF InBounds
<1> QED
  BY <1>1, <1>2, ClampedStep, MonitorTypeCorrect, PTL DEF Spec, UndisturbedReportInBounds
=============================================================================
