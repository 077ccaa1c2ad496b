------------------------ MODULE RetunedClock_proofs -------------------------
(***************************************************************************)
(* Proofs about VirtualClock and RetunedClock, for every set of factors,    *)
(* every epoch and every pace of the host.                                  *)
(***************************************************************************)
EXTENDS RetunedClock, TLAPS

-----------------------------------------------------------------------------
(***************************************************************************)
(* Integer division by a variable                                           *)
(***************************************************************************)

\* The quotient is a natural number between (n - d) / d and n / d.
LEMMA DivisionBounds ==
  ASSUME NEW n \in Nat, NEW d \in Nat \ {0}
  PROVE  n \div d \in Nat /\ d * (n \div d) <= n /\ n < d * (n \div d) + d
BY Z3

\* ... and the only one.
LEMMA DivisionUnique ==
  ASSUME NEW n \in Nat, NEW d \in Nat \ {0}, NEW q \in Nat,
         d * q <= n, n < d * q + d
  PROVE  n \div d = q
BY Z3

\* Whole multiples of the divisor pass through the division.
LEMMA DivisionShift ==
  ASSUME NEW n \in Nat, NEW d \in Nat \ {0}, NEW b \in Nat
  PROVE  (b * d + n) \div d = b + n \div d
<1> DEFINE q == n \div d
<1>1. q \in Nat /\ d * q <= n /\ n < d * q + d
  BY DivisionBounds
<1> HIDE DEF q
<1>2. b * d + n \in Nat /\ b + q \in Nat /\ d * (b + q) = b * d + d * q
  BY <1>1
<1>3. d * (b + q) <= b * d + n /\ b * d + n < d * (b + q) + d
  BY <1>1, <1>2
<1>4. (b * d + n) \div d = b + q
  BY <1>2, <1>3, DivisionUnique
<1> QED
  BY <1>4 DEF q

\* Division does not reverse an order.
LEMMA DivisionMonotone ==
  ASSUME NEW m \in Nat, NEW n \in Nat, NEW d \in Nat \ {0}, m <= n
  PROVE  m \div d <= n \div d
<1>1. /\ m \div d \in Nat /\ d * (m \div d) <= m
      /\ n \div d \in Nat /\ n < d * (n \div d) + d
  BY DivisionBounds
<1> QED
  BY <1>1

\* ... and neither does multiplication.
LEMMA ProductMonotone ==
  ASSUME NEW m \in Nat, NEW n \in Nat, NEW c \in Nat, m <= n
  PROVE  m * c <= n * c
<1> DEFINE k == n - m
<1>1. k \in Nat /\ n = m + k
  OBVIOUS
<1> HIDE DEF k
<1>2. n * c = m * c + k * c /\ k * c \in Nat /\ m * c \in Nat
  BY <1>1
<1> QED
  BY <1>2

-----------------------------------------------------------------------------
(***************************************************************************)
(* The invariant of the clock in shared memory: it holds as long as nobody  *)
(* but the VirtualTime thread starts the clock (no Protocol 31).            *)
(***************************************************************************)

\* What the clock shows when it is started or stopped.
Base == IF cpu_ticks_enabled
        THEN cpu_clock_restart + cpu_clock_offset
        ELSE cpu_clock_offset

\* Host time since the clock was started.
Run == IF cpu_ticks_enabled THEN get_clock - cpu_clock_restart ELSE 0

ClockInv ==
  /\ hostClock \in Nat
  /\ cpu_clock_restart \in Nat
  /\ cpu_clock_offset \in Int
  /\ tdf \in Tdfs
  /\ cpu_ticks_enabled \in BOOLEAN
  /\ use_rt_clock \in BOOLEAN
  /\ use_rt_clock <=> pcVT # "init"
  /\ pcVT \in {"init", "start", "settdf", "enable"} => ~cpu_ticks_enabled
  /\ Base \in Nat
  /\ Run \in Nat

\* Reading the running clock: the fraction is dropped once, after the sum.
LEMMA ClockReading ==
  ASSUME ClockInv
  PROVE  ClockNow = Base + (Run * One) \div tdf
<1> USE TimersAssumption DEF ClockInv, Base, Run
<1>1. CASE cpu_ticks_enabled
  <2> DEFINE n == Run * One
  <2>1. Base \in Nat /\ tdf \in Nat \ {0} /\ n \in Nat
    OBVIOUS
  <2>2. ClockNow = Truncated(Base * tdf + n, tdf)
    BY <1>1 DEF ClockNow, Dilated
  <2>3. Base * tdf + n >= 0
    BY <2>1
  <2>4. ClockNow = (Base * tdf + n) \div tdf
    BY <2>2, <2>3 DEF Truncated
  <2> HIDE DEF n, Base, Run
  <2>5. (Base * tdf + n) \div tdf = Base + n \div tdf
    BY <2>1, DivisionShift
  <2> QED
    BY <2>4, <2>5 DEF n
<1>2. CASE ~cpu_ticks_enabled
  <2>1. tdf \in Nat \ {0} /\ (0 * One) \div tdf = 0
    <3>1. tdf \in Nat \ {0} /\ 0 * One = 0
      OBVIOUS
    <3>2. 0 \div tdf = 0
      BY <3>1, DivisionUnique
    <3> QED
      BY <3>1, <3>2
  <2> QED
    BY <1>2, <2>1 DEF ClockNow
<1> QED
  BY <1>1, <1>2

\* Starting a clock that stands does not move it.
LEMMA StartKeepsTime ==
  ASSUME ClockInv, ~cpu_ticks_enabled, cpu_enable_ticks, UNCHANGED hostVars
  PROVE  /\ cpu_ticks_enabled'
         /\ Base' = Base
         /\ Run' = 0
         /\ UNCHANGED <<tdf, use_rt_clock>>
         /\ cpu_clock_restart' \in Nat /\ cpu_clock_offset' \in Int
BY TimersAssumption DEF ClockInv, Base, Run, cpu_enable_ticks, hostVars, get_clock

\* Stopping a clock that runs leaves it at what a guest would read.
LEMMA StopKeepsTime ==
  ASSUME ClockInv, cpu_ticks_enabled, cpu_disable_ticks, UNCHANGED hostVars
  PROVE  /\ ~cpu_ticks_enabled'
         /\ Base' = Base + (Run * One) \div tdf
         /\ Base' \in Nat
         /\ Run' = 0
         /\ UNCHANGED <<tdf, use_rt_clock, cpu_clock_restart>>
<1>1. /\ ~cpu_ticks_enabled'
      /\ cpu_clock_offset' = ClockNow
      /\ UNCHANGED <<tdf, use_rt_clock, cpu_clock_restart>>
  BY DEF cpu_disable_ticks, timersVars
<1>2. Base' = ClockNow /\ Run' = 0
  BY <1>1 DEF Base, Run
<1>3. Base \in Nat /\ (Run * One) \div tdf \in Nat
  <2>1. Run * One \in Nat /\ tdf \in Nat \ {0} /\ Base \in Nat
    BY TimersAssumption DEF ClockInv
  <2> QED
    BY <2>1, DivisionBounds
<1> QED
  BY <1>1, <1>2, <1>3, ClockReading

\* A request to stop a clock that stands changes nothing.
LEMMA IdleStop ==
  ASSUME ~cpu_ticks_enabled, cpu_disable_ticks
  PROVE  UNCHANGED timersVars
BY DEF cpu_disable_ticks

LEMMA ClockInvInit == Init => ClockInv
<1> SUFFICES ASSUME Init PROVE ClockInv
  OBVIOUS
<1>1. cpu_ticks_enabled \in BOOLEAN /\ use_rt_clock \in BOOLEAN
  BY Zenon DEF Init, TimersInit
<1> QED
  BY <1>1, TimersAssumption
  DEF Init, TimersInit, ClockInv, Base, Run, get_clock

\* Each step keeps the invariant and is a step of the promised clock, or does
\* not touch it.
LEMMA ClockStep ==
  ASSUME ClockInv, [Next]_vars, ~OperatorResumes
  PROVE  ClockInv' /\ [Ideal!Next]_Ideal!clock
<1> USE DEF hostVars
<1>1. CASE HostAdvance
  <2> PICK d \in Steps : /\ hostClock' = hostClock + d
                         /\ UNCHANGED <<timersVars, pcVT>>
    BY <1>1 DEF HostAdvance
  <2>1. d \in Nat \ {0}
    BY RetunedAssumption
  <2>2. Base' = Base /\ hostClock' \in Nat
    BY <2>1 DEF ClockInv, Base, timersVars, clockVars
  <2>3. CASE cpu_ticks_enabled
    <3>1. Run' = Run + d
      BY <2>1, <2>3, TimersAssumption
      DEF ClockInv, Run, get_clock, timersVars, clockVars
    <3>2. ClockInv'
      BY <2>1, <2>2, <3>1 DEF ClockInv, timersVars, clockVars
    <3>3. Ideal!Advance
      BY <2>1, <2>2, <2>3, <3>1 DEF ClockInv, Ideal!Advance, Base, Run, timersVars
    <3> QED
      BY <3>2, <3>3 DEF Ideal!Next
  <2>4. CASE ~cpu_ticks_enabled
    <3>1. Run' = Run
      BY <2>4 DEF Run, timersVars
    <3>2. ClockInv'
      BY <2>2, <3>1 DEF ClockInv, timersVars, clockVars
    <3>3. UNCHANGED Ideal!clock
      BY <2>2, <3>1 DEF Ideal!clock, Base, Run, timersVars
    <3> QED
      BY <3>2, <3>3
  <2> QED
    BY <2>3, <2>4
<1>2. CASE VTInitClocks
  <2>1. /\ pcVT = "init" /\ ~cpu_ticks_enabled /\ ~cpu_ticks_enabled'
        /\ UNCHANGED <<hostClock, clockVars, tdf, cpu_ticks_enabled>>
        /\ use_rt_clock' /\ use_rt_clock' \in BOOLEAN /\ pcVT' = "start"
    BY <1>2 DEF VTInitClocks, init_clocks, ClockInv
  <2>2. Base' = Base /\ Run' = 0 /\ Run = 0
    BY <2>1 DEF Base, Run, clockVars
  <2>3. ClockInv'
    BY <2>1, <2>2 DEF ClockInv, clockVars
  <2>4. UNCHANGED Ideal!clock
    BY <2>1, <2>2, <1>2 DEF Ideal!clock, Base, Run, VTInitClocks, init_clocks
  <2> QED
    BY <2>3, <2>4
<1>3. CASE VTStart \/ VTEnable
  <2>1. /\ ~cpu_ticks_enabled /\ cpu_enable_ticks
        /\ UNCHANGED <<hostClock, hostTicks>>
        /\ pcVT \in {"start", "enable"} /\ pcVT' = "wait"
    BY <1>3 DEF VTStart, VTEnable, ClockInv
  <2>2. /\ cpu_ticks_enabled' /\ Base' = Base /\ Run' = 0
        /\ UNCHANGED <<tdf, use_rt_clock>>
        /\ cpu_clock_restart' \in Nat /\ cpu_clock_offset' \in Int
    BY <2>1, StartKeepsTime
  <2>3. ClockInv'
    BY <2>1, <2>2 DEF ClockInv
  <2>4. Ideal!Start
    BY <2>1, <2>2 DEF Ideal!Start, Base, Run
  <2> QED
    BY <2>3, <2>4 DEF Ideal!Next
<1>4. CASE VTDisable \/ OperatorSuspend
  <2>1. /\ cpu_disable_ticks
        /\ UNCHANGED <<hostClock, hostTicks>>
        /\ (pcVT = "wait" /\ pcVT' = "settdf") \/ pcVT' = pcVT
    BY <1>4 DEF VTDisable, OperatorSuspend
  <2>2. CASE cpu_ticks_enabled
    <3>1. /\ ~cpu_ticks_enabled'
          /\ Base' = Base + (Run * One) \div tdf
          /\ Base' \in Nat
          /\ Run' = 0
          /\ UNCHANGED <<tdf, use_rt_clock, cpu_clock_restart>>
      BY <2>1, <2>2, StopKeepsTime
    <3>2. cpu_clock_offset' = Base' /\ cpu_ticks_enabled' \in BOOLEAN
      <4>1. cpu_ticks_enabled' = FALSE
        BY <2>1, <2>2 DEF cpu_disable_ticks
      <4>2. cpu_ticks_enabled' \in BOOLEAN
        BY <4>1, Zenon
      <4> QED
        BY <3>1, <4>2 DEF Base
    <3>3. ClockInv'
      BY <2>1, <3>1, <3>2 DEF ClockInv
    <3>4. Ideal!Stop
      BY <2>2, <3>1 DEF Ideal!Stop, Ideal!Now, Base, Run
    <3> QED
      BY <3>3, <3>4 DEF Ideal!Next
  <2>3. CASE ~cpu_ticks_enabled
    <3>1. UNCHANGED timersVars
      BY <2>1, <2>3, IdleStop
    <3>2. Base' = Base /\ Run' = Run
      BY <2>3, <3>1 DEF Base, Run, timersVars, clockVars
    <3>3. ClockInv'
      BY <2>1, <2>3, <3>1, <3>2 DEF ClockInv, timersVars, clockVars
    <3>4. UNCHANGED Ideal!clock
      BY <3>1, <3>2 DEF Ideal!clock, Base, Run, timersVars
    <3> QED
      BY <3>3, <3>4
  <2> QED
    BY <2>2, <2>3
<1>5. CASE VTSetTdf
  <2> PICK t \in Tdfs : setTdf(t)
    BY <1>5 DEF VTSetTdf
  <2>1. /\ ~cpu_ticks_enabled /\ pcVT = "settdf" /\ pcVT' = "enable"
        /\ UNCHANGED <<hostClock, clockVars, cpu_ticks_enabled, use_rt_clock>>
        /\ tdf' \in Tdfs
    BY <1>5 DEF VTSetTdf, setTdf, ClockInv
  <2>2. Base' = Base /\ Run' = Run
    BY <2>1 DEF Base, Run, clockVars
  <2>3. ClockInv'
    BY <2>1, <2>2 DEF ClockInv, clockVars
  <2>4. Ideal!Retune
    BY <2>1, <2>2 DEF Ideal!Retune, Base, Run
  <2> QED
    BY <2>3, <2>4 DEF Ideal!Next
<1>6. CASE /\ UNCHANGED <<hostClock, clockVars, cpu_ticks_enabled, tdf,
                          use_rt_clock, pcVT>>
  <2>1. Base' = Base /\ Run' = Run
    BY <1>6 DEF Base, Run, clockVars, get_clock
  <2>2. ClockInv'
    BY <1>6, <2>1 DEF ClockInv, clockVars
  <2>3. UNCHANGED Ideal!clock
    BY <1>6, <2>1 DEF Ideal!clock, Base, Run
  <2> QED
    BY <2>2, <2>3
<1>7. ~OperatorResume
  BY DEF OperatorResume
<1>8. HostSoftwareSuspend \/ GuestReadsClock \/ GuestReadsTicks \/ UNCHANGED vars
      => UNCHANGED <<hostClock, clockVars, cpu_ticks_enabled, tdf,
                     use_rt_clock, pcVT>>
  BY DEF HostSoftwareSuspend, GuestReadsClock, GuestReadsTicks, cpu_get_ticks,
         vars, timersVars
<1> QED
  BY <1>1, <1>2, <1>3, <1>4, <1>5, <1>6, <1>7, <1>8 DEF Next

\* Only the passing of host time lengthens the run of the clock.
LEMMA ClockStepKeepsRun ==
  ASSUME ClockInv, [Next]_vars, ~OperatorResumes, ~HostAdvance
  PROVE  Run' = Run \/ Run' = 0
<1> USE DEF hostVars
<1>1. CASE VTInitClocks
  BY <1>1 DEF VTInitClocks, init_clocks, ClockInv, Run
<1>2. CASE VTStart \/ VTEnable
  BY <1>2, StartKeepsTime DEF VTStart, VTEnable, ClockInv
<1>3. CASE VTDisable \/ OperatorSuspend
  <2>1. cpu_disable_ticks /\ UNCHANGED hostClock
    BY <1>3 DEF VTDisable, OperatorSuspend
  <2>2. CASE cpu_ticks_enabled
    BY <2>1, <2>2 DEF cpu_disable_ticks, Run, timersVars
  <2>3. CASE ~cpu_ticks_enabled
    BY <2>1, <2>3, IdleStop DEF Run, timersVars
  <2> QED
    BY <2>2, <2>3
<1>4. CASE VTSetTdf
  BY <1>4 DEF VTSetTdf, setTdf, Run, ClockInv
<1>5. CASE HostSoftwareSuspend \/ GuestReadsClock \/ GuestReadsTicks \/ UNCHANGED vars
  BY <1>5
  DEF HostSoftwareSuspend, GuestReadsClock, GuestReadsTicks, cpu_get_ticks, vars,
      timersVars, clockVars, Run, get_clock
<1> QED
  BY <1>1, <1>2, <1>3, <1>4, <1>5 DEF Next, OperatorResume

\* Without Protocol 31 the clock that guests compute from shared memory is the
\* promised one: it can be stopped, started and retuned without moving.
THEOREM Refinement ==
  ASSUME ~OperatorResumes
  PROVE  Spec => ImplementsVirtualClock
<1>1. Init => Ideal!Init
  BY TimersAssumption DEF Init, TimersInit, Ideal!Init, get_clock
<1>2. ClockInv /\ [Next]_vars => ClockInv' /\ [Ideal!Next]_Ideal!clock
  BY ClockStep
<1> QED
  BY <1>1, <1>2, ClockInvInit, PTL DEF Spec, ImplementsVirtualClock, Ideal!Spec

-----------------------------------------------------------------------------
\* No step turns the clock back.
LEMMA ClockForward ==
  ASSUME ClockInv, ClockInv', [Next]_vars, ~OperatorResumes
  PROVE  ClockNow \in Nat /\ ClockNow' \in Nat /\ ClockNow <= ClockNow'
<1> DEFINE q == (Run * One) \div tdf
           r == (Run' * One) \div tdf'
<1>0. /\ Run \in Nat /\ Base \in Nat /\ Run' \in Nat /\ Base' \in Nat
      /\ tdf \in Nat \ {0} /\ tdf' \in Nat \ {0} /\ One \in Nat
  BY TimersAssumption DEF ClockInv
<1>1. Run * One \in Nat /\ Run' * One \in Nat
  <2> HIDE DEF q, r
  <2>1. \A m, n \in Nat : m * n \in Nat
    OBVIOUS
  <2> QED
    BY <1>0, <2>1
<1>2. q \in Nat /\ r \in Nat
  BY <1>0, <1>1, DivisionBounds
<1>3. ClockNow = Base + q
  BY ClockReading
<1>4. ClockNow' = Base' + r
  <2>1. ClockInv => ClockNow = Base + q
    BY ClockReading
  <2>2. (ClockInv => ClockNow = Base + q)'
    BY ClockReading, PTL
  <2> QED
    BY <2>2
<1>5. Base + q <= Base' + r
  <2>1. [Ideal!Next]_Ideal!clock
    BY ClockStep
  <2>2. CASE Ideal!Advance
    <3>1. Run' > Run /\ Run' \in Nat /\ Run \in Nat /\ Base' = Base /\ tdf' = tdf
      BY <2>2 DEF Ideal!Advance, Base, Run, ClockInv
    <3>2. Run * One <= Run' * One
      <4>1. Run <= Run'
        BY <1>0, <3>1
      <4> HIDE DEF q, r
      <4>2. \A m, n, c \in Nat : m <= n => m * c <= n * c
        BY ProductMonotone
      <4> QED
        BY <1>0, <4>1, <4>2, Zenon
    <3>3. q <= r
      BY <1>0, <1>1, <3>1, <3>2, DivisionMonotone
    <3> QED
      BY <1>0, <1>2, <3>1, <3>3
  <2>3. CASE Ideal!Stop
    <3>1. Base' = Base + q
      BY <2>3 DEF Ideal!Stop, Ideal!Now, Base, Run
    <3> QED
      BY <1>0, <1>2, <3>1
  <2>4. CASE Ideal!Start
    <3>1. Base' = Base /\ tdf' = tdf
      BY <2>4 DEF Ideal!Start, Base
    <3>2. Run' = Run
      BY <2>4 DEF Ideal!Start, Run
    <3> QED
      BY <1>0, <1>2, <3>1, <3>2
  <2>5. CASE Ideal!Retune
    <3>1. Base' = Base /\ Run' = 0 /\ Run = 0
      BY <2>5 DEF Ideal!Retune, Base, Run
    <3>2. q = 0
      <4>1. Run * One = 0 /\ tdf \in Nat \ {0}
        BY <3>1, TimersAssumption DEF ClockInv
      <4>2. 0 \div tdf = 0
        BY <4>1, DivisionUnique
      <4> QED
        BY <4>1, <4>2
    <3> QED
      BY <1>0, <1>2, <3>1, <3>2
  <2>6. CASE UNCHANGED Ideal!clock
    <3>1. Base' = Base /\ Run' = Run /\ tdf' = tdf
      BY <2>6 DEF Ideal!clock, Base, Run
    <3> QED
      BY <1>0, <1>2, <3>1
  <2> QED
    BY <2>1, <2>2, <2>3, <2>4, <2>5, <2>6 DEF Ideal!Next
<1> HIDE DEF q, r
<1>6. Base + q \in Nat /\ Base' + r \in Nat
  <2>1. \A m, n \in Nat : m + n \in Nat
    OBVIOUS
  <2> QED
    BY <1>0, <1>2, <2>1, Zenon
<1> QED
  BY <1>3, <1>4, <1>5, <1>6, Zenon

\* Without Protocol 31 the clock keeps the promise that it never goes
\* backwards, whatever a guest happens to read.
THEOREM PromiseKept ==
  ASSUME ~OperatorResumes
  PROVE  Spec => Ideal!NeverBackwards
<1>1. ClockInv /\ [Next]_vars => ClockInv'
  BY ClockStep
<1>2. ClockInv => ClockNow = Ideal!Now
  BY ClockReading DEF Ideal!Now, Base, Run
<1>3. (ClockInv => ClockNow = Ideal!Now)'
  BY <1>2, PTL
<1>4. ClockInv /\ ClockInv' /\ [Next]_vars => [Ideal!Now' >= Ideal!Now]_Ideal!clock
  <2> SUFFICES ASSUME ClockInv, ClockInv', [Next]_vars
               PROVE  Ideal!Now' >= Ideal!Now
    OBVIOUS
  <2>1. ClockNow \in Nat /\ ClockNow' \in Nat /\ ClockNow <= ClockNow'
    BY ClockForward
  <2>2. ClockNow = Ideal!Now /\ ClockNow' = Ideal!Now'
    BY <1>2, <1>3
  <2> HIDE DEF ClockNow
  <2>3. ClockNow' >= ClockNow
    BY <2>1
  <2> QED
    BY <2>2, <2>3, Zenon
<1> QED
  BY <1>1, <1>4, ClockInvInit, PTL DEF Spec, Ideal!NeverBackwards

\* Without Protocol 31, guests never read a time below one read before.
THEOREM ReadsAreMonotonic ==
  ASSUME ~OperatorResumes
  PROVE  Spec => ClockMonotonic
<1> DEFINE ReadInv == clockRead \in Nat /\ clockRead <= ClockNow
<1>1. Init => ReadInv
  BY TimersAssumption DEF Init, TimersInit, ClockNow, get_clock
<1>2. ClockInv /\ ClockInv' /\ ReadInv /\ [Next]_vars
      => ReadInv' /\ [clockRead' >= clockRead]_vars
  <2> SUFFICES ASSUME ClockInv, ClockInv', ReadInv, [Next]_vars
               PROVE  ReadInv' /\ clockRead' >= clockRead
    OBVIOUS
  <2>1. ClockNow \in Nat /\ ClockNow' \in Nat /\ ClockNow <= ClockNow'
    BY ClockForward
  <2>2. CASE GuestReadsClock
    <3>1. clockRead' = ClockNow
      BY <2>2 DEF GuestReadsClock
    <3> QED
      BY <2>1, <3>1
  <2>3. ~GuestReadsClock => clockRead' = clockRead
    BY DEF Next, HostAdvance, HostSoftwareSuspend, VTInitClocks, VTStart,
           VTDisable, VTSetTdf, VTEnable, OperatorSuspend, OperatorResume,
           GuestReadsTicks, vars, reads
  <2> QED
    BY <2>1, <2>2, <2>3
<1>3. ClockInv /\ [Next]_vars => ClockInv'
  BY ClockStep
<1> QED
  BY <1>1, <1>2, <1>3, ClockInvInit, PTL DEF Spec, ClockMonotonic

-----------------------------------------------------------------------------
(***************************************************************************)
(* Types, with every request                                                *)
(***************************************************************************)

\* A conversion to int64_t gives an integer.
LEMMA TruncatedType ==
  ASSUME NEW n \in Int, NEW d \in Nat \ {0}
  PROVE  Truncated(n, d) \in Int
<1>1. n >= 0 => n \div d \in Nat
  BY DivisionBounds
<1>2. ~(n >= 0) => (-n) \div d \in Nat
  <2>1. ~(n >= 0) => -n \in Nat
    OBVIOUS
  <2> QED
    BY <2>1, DivisionBounds
<1> QED
  BY <1>1, <1>2 DEF Truncated

LEMMA DilatedType ==
  ASSUME TimersTypeOK, NEW r \in Int, NEW t \in Int, NEW o \in Int
  PROVE  Dilated(r, t, o) \in Int
<1>1. tdf \in Nat \ {0} /\ (r + o) * tdf + (t - r) * One \in Int
  BY TimersAssumption DEF TimersTypeOK
<1> QED
  BY <1>1, TruncatedType DEF Dilated

\* What the clock's functions compute is an integer.
LEMMA ReadingTypes ==
  ASSUME TimersTypeOK
  PROVE  ClockNow \in Int /\ CaughtUpOffset \in Int /\ TicksNow \in Int
<1>1. get_clock \in Nat
  BY TimersAssumption DEF TimersTypeOK, get_clock
<1>2. ClockNow \in Int
  BY <1>1, DilatedType DEF ClockNow, TimersTypeOK
<1>3. CaughtUpOffset \in Int
  <2>1. /\ tdf \in Nat \ {0}
        /\ cpu_ticks_offset * tdf + (cpu_ticks_prev - hostTicks) * One \in Int
    BY TimersAssumption DEF TimersTypeOK
  <2> QED
    BY <2>1, TruncatedType DEF CaughtUpOffset, TimersTypeOK
<1>4. TicksNow \in Int
  BY <1>3, DilatedType DEF TicksNow, TimersTypeOK
<1> QED
  BY <1>2, <1>3, <1>4

\* The functions of qemu-timer.c keep the types of the shared memory.
LEMMA TimersKeepTypes ==
  ASSUME TimersTypeOK, UNCHANGED hostVars,
         \/ init_clocks \/ cpu_enable_ticks \/ cpu_disable_ticks \/ cpu_get_ticks
         \/ \E t \in Tdfs : setTdf(t)
         \/ UNCHANGED timersVars
  PROVE  TimersTypeOK'
<1> USE DEF TimersTypeOK, hostVars, timersVars, clockVars, ticksVars
<1>1. CASE init_clocks
  <2>1. use_rt_clock' = TRUE
    BY <1>1, Zenon DEF init_clocks
  <2>2. use_rt_clock' \in BOOLEAN
    BY <2>1, Zenon
  <2> QED
    BY <1>1, <2>2 DEF init_clocks
<1>2. CASE cpu_enable_ticks
  <2>1. CASE cpu_ticks_enabled
    BY <1>2, <2>1 DEF cpu_enable_ticks
  <2>2. CASE ~cpu_ticks_enabled
    <3>1. cpu_ticks_enabled' = TRUE
      BY <1>2, <2>2 DEF cpu_enable_ticks
    <3>2. cpu_ticks_enabled' \in BOOLEAN
      BY <3>1, Zenon
    <3>3. get_clock \in Nat
      BY TimersAssumption DEF get_clock
    <3> QED
      BY <1>2, <2>2, <3>2, <3>3 DEF cpu_enable_ticks
  <2> QED
    BY <2>1, <2>2
<1>3. CASE cpu_disable_ticks
  <2>1. CASE ~cpu_ticks_enabled
    BY <1>3, <2>1 DEF cpu_disable_ticks
  <2>2. CASE cpu_ticks_enabled
    <3>1. cpu_ticks_enabled' = FALSE
      BY <1>3, <2>2 DEF cpu_disable_ticks
    <3>2. cpu_ticks_enabled' \in BOOLEAN
      BY <3>1, Zenon
    <3> QED
      BY <1>3, <2>2, <3>2, ReadingTypes DEF cpu_disable_ticks
  <2> QED
    BY <2>1, <2>2
<1>4. CASE cpu_get_ticks
  <2>1. cpu_ticks_offset' \in Int /\ cpu_ticks_prev' \in Nat
    BY <1>4, ReadingTypes DEF cpu_get_ticks
  <2> QED
    BY <1>4, <2>1 DEF cpu_get_ticks
<1>5. ASSUME NEW t \in Tdfs, setTdf(t) PROVE TimersTypeOK'
  BY <1>5 DEF setTdf
<1>6. CASE UNCHANGED timersVars
  BY <1>6
<1> QED
  BY <1>1, <1>2, <1>3, <1>4, <1>5, <1>6

\* Type correctness of the clock and its users, with every request.
THEOREM ClockTypeCorrect == Spec => []TypeOK
<1>1. Init => TypeOK
  <2> SUFFICES ASSUME Init PROVE TypeOK
    OBVIOUS
  <2>1. cpu_ticks_enabled \in BOOLEAN /\ use_rt_clock \in BOOLEAN
    BY Zenon DEF Init, TimersInit
  <2> QED
    BY <2>1, TimersAssumption DEF Init, TimersInit, TypeOK, TimersTypeOK, get_clock
<1>2. TypeOK /\ [Next]_vars => TypeOK'
  <2> SUFFICES ASSUME TypeOK, [Next]_vars PROVE TypeOK'
    OBVIOUS
  <2>1. TimersTypeOK
    BY DEF TypeOK
  <2>2. CASE HostAdvance
    <3> PICK d \in Steps : /\ hostClock' = hostClock + d
                           /\ hostTicks' = hostTicks + d
                           /\ active' = IF cpu_ticks_enabled THEN active + d ELSE active
                           /\ UNCHANGED <<timersVars, pcVT, reads, stops, look, stood, setbacks>>
      BY <2>2 DEF HostAdvance
    <3>1. d \in Nat
      BY RetunedAssumption
    <3> QED
      BY <3>1 DEF TypeOK, TimersTypeOK, timersVars, clockVars, ticksVars, reads
  <2>3. CASE HostSoftwareSuspend
    <3>1. hostTicks' \in Nat
      BY <2>3 DEF HostSoftwareSuspend, TypeOK, TimersTypeOK
    <3> QED
      BY <2>3, <3>1
      DEF HostSoftwareSuspend, TypeOK, TimersTypeOK, timersVars, clockVars,
          ticksVars, reads, history
  <2>4. CASE VTInitClocks \/ VTStart \/ VTEnable \/ OperatorResume
    <3>1. /\ init_clocks \/ cpu_enable_ticks
          /\ Started \/ UNCHANGED <<look, stood>>
          /\ UNCHANGED <<hostVars, reads, active, stops, setbacks>>
          /\ pcVT' \in {"start", "wait", pcVT}
      BY <2>4 DEF VTInitClocks, VTStart, VTEnable, OperatorResume, history
    <3>2. TimersTypeOK'
      BY <2>1, <3>1, TimersKeepTypes
    <3>3. look' \in {"none", "seen", "retuned"} /\ stood' \in Int
      BY <2>1, <3>1, ReadingTypes DEF Started, TypeOK
    <3> QED
      BY <3>1, <3>2, <3>3 DEF TypeOK, reads
  <2>5. CASE VTDisable \/ OperatorSuspend
    <3>1. /\ cpu_disable_ticks /\ CountStop
          /\ UNCHANGED <<hostVars, reads, active, look, stood, setbacks>>
          /\ pcVT' \in {"settdf", pcVT}
      BY <2>5 DEF VTDisable, OperatorSuspend
    <3>2. TimersTypeOK'
      BY <2>1, <3>1, TimersKeepTypes
    <3> QED
      BY <3>1, <3>2 DEF TypeOK, CountStop, reads
  <2>6. CASE VTSetTdf
    <3>1. /\ \E t \in Tdfs : setTdf(t)
          /\ look' \in {"retuned", look}
          /\ UNCHANGED <<hostVars, reads, active, stops, stood, setbacks>>
          /\ pcVT' = "enable"
      BY <2>6 DEF VTSetTdf
    <3>2. TimersTypeOK'
      BY <2>1, <3>1, TimersKeepTypes
    <3> QED
      BY <3>1, <3>2 DEF TypeOK, reads, history
  <2>7. CASE GuestReadsClock
    <3>1. clockRead' \in Int
      BY <2>1, <2>7, ReadingTypes DEF GuestReadsClock
    <3>2. TimersTypeOK'
      BY <2>1, <2>7, TimersKeepTypes DEF GuestReadsClock
    <3> QED
      BY <2>7, <3>1, <3>2 DEF GuestReadsClock, TypeOK, history
  <2>8. CASE GuestReadsTicks
    <3>1. ticksRead' \in Int
      BY <2>1, <2>8, ReadingTypes DEF GuestReadsTicks
    <3>2. TimersTypeOK'
      BY <2>1, <2>8, TimersKeepTypes DEF GuestReadsTicks
    <3> QED
      BY <2>8, <3>1, <3>2 DEF GuestReadsTicks, TypeOK, history
  <2>9. CASE UNCHANGED vars
    <3>1. TimersTypeOK'
      BY <2>1, <2>9, TimersKeepTypes DEF vars
    <3> QED
      BY <2>9, <3>1 DEF TypeOK, vars, reads, history
  <2> QED
    BY <2>2, <2>3, <2>4, <2>5, <2>6, <2>7, <2>8, <2>9 DEF Next
<1> QED
  BY <1>1, <1>2, PTL DEF Spec

-----------------------------------------------------------------------------
(***************************************************************************)
(* The host is never overtaken, whatever is requested                       *)
(***************************************************************************)

SlowFactors == \A t \in Tdfs : t >= One

\* The host's time on the guests' scale.
HostTime == Epoch + hostClock

\* Neither what the clock showed at its last start or stop, nor that and all of
\* the host's time since, is ahead of the host.  Run is negative for a while
\* after init_clocks sets back a clock that Protocol 31 started before.
Behind == SlowFactors => Base <= HostTime /\ Base + Run <= HostTime

\* Reading the clock between those two is not, either.
LEMMA ReadingBehind ==
  ASSUME TimersTypeOK, SlowFactors, Behind
  PROVE  ClockNow <= HostTime
<1>1. /\ Base \in Int /\ Run \in Int /\ HostTime \in Nat /\ One \in Nat
      /\ tdf \in Nat \ {0} /\ One <= tdf
  BY TimersAssumption
  DEF TimersTypeOK, SlowFactors, Base, Run, HostTime, get_clock
<1>2. Base <= HostTime /\ Base + Run <= HostTime
  BY DEF Behind
<1>3. CASE ~cpu_ticks_enabled
  BY <1>2, <1>3 DEF Base, ClockNow
<1>4. CASE cpu_ticks_enabled
  <2> DEFINE x == Base
             y == Run
             z == HostTime
             d == tdf
             n == x * d + y * One
  <2>1. ClockNow = Truncated(n, d)
    BY <1>4 DEF ClockNow, Dilated, Base, Run
  <2> HIDE DEF x, y, z, d
  <2>2. /\ x \in Int /\ y \in Int /\ z \in Nat /\ d \in Nat \ {0}
        /\ One \in Nat /\ One <= d /\ x <= z /\ x + y <= z
    BY <1>1, <1>2 DEF x, y, z, d
  <2>3. n \in Int /\ n <= z * d /\ z * d \in Nat
    <3>1. \A k, m \in Nat : k * m \in Nat
      OBVIOUS
    <3>2. \A k, m \in Int : k * m \in Int
      OBVIOUS
    <3>3. n \in Int /\ z * d \in Nat
      BY <2>2, <3>1, <3>2
    <3>4. CASE y <= 0
      <4> DEFINE j == -y
                 k == z - x
      <4>1. j \in Nat /\ k \in Nat /\ y = -j /\ z = x + k
        BY <2>2, <3>4
      <4> HIDE DEF j, k
      <4>2. k * d \in Nat /\ j * One \in Nat
        BY <2>2, <3>1, <4>1
      <4>3. z * d = x * d + k * d /\ y * One = -(j * One)
        BY <2>2, <4>1
      <4> QED
        BY <2>2, <3>2, <3>3, <4>2, <4>3
    <3>5. CASE y > 0
      <4> DEFINE k == z - (x + y)
      <4>1. k \in Nat /\ z = x + y + k /\ y \in Nat
        BY <2>2, <3>5
      <4> HIDE DEF k
      <4>2. k * d \in Nat /\ y * One <= y * d
        <5>1. k * d \in Nat
          BY <2>2, <3>1, <4>1
        <5>2. One * y <= d * y
          BY <2>2, <4>1, ProductMonotone
        <5> QED
          BY <2>2, <4>1, <5>1, <5>2
      <4>3. z * d = x * d + y * d + k * d
        BY <2>2, <4>1
      <4>4. x * d \in Int /\ y * One \in Int /\ y * d \in Int
        BY <2>2, <3>2
      <4>5. \A p, q, r, u \in Int : q <= r /\ 0 <= u => p + q <= p + r + u
        OBVIOUS
      <4>6. x * d + y * One <= x * d + y * d + k * d
        <5>1. k * d \in Int /\ 0 <= k * d
          BY <4>2
        <5> QED
          BY <4>2, <4>4, <4>5, <5>1, Zenon
      <4> QED
        BY <3>3, <4>3, <4>6
    <3> QED
      BY <2>2, <3>3, <3>4, <3>5
  <2> HIDE DEF n
  <2>4. CASE n >= 0
    <3>1. n \in Nat /\ Truncated(n, d) = n \div d
      BY <2>3, <2>4 DEF Truncated
    <3>2. n \div d \in Nat /\ n \div d <= (z * d) \div d
      BY <2>2, <2>3, <3>1, DivisionBounds, DivisionMonotone
    <3>3. (z * d) \div d = z
      <4>1. d * z <= z * d /\ z * d < d * z + d
        BY <2>2, <2>3
      <4> QED
        BY <2>2, <2>3, <4>1, DivisionUnique
    <3> QED
      BY <2>1, <2>2, <3>1, <3>2, <3>3 DEF z
  <2>5. CASE ~(n >= 0)
    <3>1. -n \in Nat /\ Truncated(n, d) = -((-n) \div d)
      BY <2>3, <2>5 DEF Truncated
    <3>2. (-n) \div d \in Nat
      BY <2>2, <3>1, DivisionBounds
    <3> QED
      BY <2>1, <2>2, <3>1, <3>2 DEF z
  <2> QED
    BY <2>4, <2>5
<1> QED
  BY <1>3, <1>4

LEMMA BehindStep ==
  ASSUME TypeOK, Behind, [Next]_vars
  PROVE  Behind'
<1> SUFFICES ASSUME SlowFactors
             PROVE  Base' <= HostTime' /\ Base' + Run' <= HostTime'
  BY DEF Behind, SlowFactors
<1>1. /\ TimersTypeOK /\ get_clock \in Nat /\ HostTime \in Nat
      /\ Base \in Int /\ Run \in Int
      /\ Base <= HostTime /\ Base + Run <= HostTime
      /\ ClockNow <= HostTime /\ ClockNow \in Int
  <2>1. TimersTypeOK /\ Base <= HostTime /\ Base + Run <= HostTime
    BY DEF Behind, TypeOK
  <2>2. get_clock \in Nat /\ HostTime \in Nat /\ Base \in Int /\ Run \in Int
    BY <2>1, TimersAssumption DEF TimersTypeOK, Base, Run, HostTime, get_clock
  <2> QED
    BY <2>1, <2>2, ReadingBehind, ReadingTypes
<1>2. CASE HostAdvance
  <2> PICK d \in Steps : /\ hostClock' = hostClock + d
                         /\ UNCHANGED timersVars
    BY <1>2 DEF HostAdvance
  <2>1. d \in Nat /\ hostClock \in Nat /\ Epoch \in Nat
    BY <1>1, RetunedAssumption, TimersAssumption DEF TimersTypeOK
  <2>2. HostTime' = HostTime + d /\ Base' = Base /\ (Run' = Run \/ Run' = Run + d)
    BY <1>1, <2>1
    DEF HostTime, Base, Run, get_clock, timersVars, clockVars, TimersTypeOK
  <2> QED
    BY <1>1, <2>1, <2>2
<1>3. CASE VTInitClocks
  <2>1. /\ UNCHANGED <<hostClock, clockVars, cpu_ticks_enabled>> /\ use_rt_clock'
    BY <1>3 DEF VTInitClocks, init_clocks, hostVars
  <2>2. HostTime' = HostTime /\ Base' = Base
    BY <2>1 DEF HostTime, Base, clockVars
  <2>3. Run' <= Run /\ Run' \in Int
    BY <1>1, <2>1, TimersAssumption DEF Run, get_clock, clockVars, TimersTypeOK
  <2>4. \A b, r, q, h \in Int : b + r <= h /\ q <= r => b + q <= h
    OBVIOUS
  <2>5. Base + Run' <= HostTime
    <3>1. HostTime \in Int
      BY <1>1
    <3> QED
      BY <1>1, <2>3, <2>4, <3>1, Zenon
  <2> QED
    BY <1>1, <2>2, <2>5
<1>4. CASE VTStart \/ VTEnable \/ OperatorResume
  <2>1. cpu_enable_ticks /\ UNCHANGED hostClock
    BY <1>4 DEF VTStart, VTEnable, OperatorResume, hostVars
  <2>2. HostTime' = HostTime
    BY <2>1 DEF HostTime
  <2>3. CASE cpu_ticks_enabled
    <3>1. Base' = Base /\ Run' = Run
      BY <2>1, <2>3 DEF cpu_enable_ticks, timersVars, clockVars, Base, Run, get_clock
    <3> QED
      BY <1>1, <2>2, <3>1
  <2>4. CASE ~cpu_ticks_enabled
    <3>1. /\ cpu_clock_offset' = cpu_clock_offset - get_clock
          /\ cpu_clock_restart' = get_clock /\ get_clock' = get_clock
          /\ cpu_ticks_enabled'
      BY <2>1, <2>4 DEF cpu_enable_ticks, get_clock
    <3>2. Base = cpu_clock_offset /\ cpu_clock_offset \in Int
      BY <1>1, <2>4 DEF Base, TimersTypeOK
    <3>3. Base' = get_clock + (cpu_clock_offset - get_clock) /\ Run' = get_clock - get_clock
      BY <3>1 DEF Base, Run
    <3>4. Base' = Base /\ Run' = 0
      BY <1>1, <3>2, <3>3
    <3> QED
      BY <1>1, <2>2, <3>4
  <2> QED
    BY <2>3, <2>4
<1>5. CASE VTDisable \/ OperatorSuspend
  <2>1. cpu_disable_ticks /\ UNCHANGED hostClock
    BY <1>5 DEF VTDisable, OperatorSuspend, hostVars
  <2>2. HostTime' = HostTime
    BY <2>1 DEF HostTime
  <2>3. CASE cpu_ticks_enabled
    <3>1. Base' = ClockNow /\ Run' = 0
      BY <2>1, <2>3 DEF cpu_disable_ticks, Base, Run
    <3> QED
      BY <1>1, <2>2, <3>1
  <2>4. CASE ~cpu_ticks_enabled
    <3>1. Base' = Base /\ Run' = Run
      BY <2>1, <2>4, IdleStop DEF timersVars, clockVars, Base, Run
    <3> QED
      BY <1>1, <2>2, <3>1
  <2> QED
    BY <2>3, <2>4
<1>6. CASE /\ UNCHANGED <<hostClock, clockVars, cpu_ticks_enabled, use_rt_clock>>
  <2>1. HostTime' = HostTime /\ Base' = Base /\ Run' = Run
    BY <1>6 DEF HostTime, Base, Run, clockVars, get_clock
  <2> QED
    BY <1>1, <2>1
<1>7. HostSoftwareSuspend \/ VTSetTdf \/ GuestReadsClock \/ GuestReadsTicks \/ UNCHANGED vars
      => UNCHANGED <<hostClock, clockVars, cpu_ticks_enabled, use_rt_clock>>
  BY DEF HostSoftwareSuspend, VTSetTdf, setTdf, GuestReadsClock, GuestReadsTicks,
         cpu_get_ticks, vars, hostVars, timersVars
<1> QED
  BY <1>2, <1>3, <1>4, <1>5, <1>6, <1>7 DEF Next

\* With factors of at least 1.0 the guests' time never overtakes the host's,
\* even when Protocols 30 and 31 stop and start the clock in the middle of a
\* cycle, or before the clocks are initialised.
THEOREM GuestsLagHost == Spec => []NotFasterThanHost
<1>1. Init => Behind
  BY TimersAssumption
  DEF Init, TimersInit, Behind, SlowFactors, Base, Run, HostTime, get_clock
<1>2. TypeOK /\ Behind => NotFasterThanHost
  <2> SUFFICES ASSUME TypeOK, Behind, \A t \in Tdfs : t >= One
               PROVE  ClockNow - Epoch <= hostClock
    BY DEF NotFasterThanHost
  <2>1. ClockNow <= HostTime /\ ClockNow \in Int
    BY ReadingBehind, ReadingTypes DEF TypeOK, SlowFactors
  <2>2. hostClock \in Nat /\ Epoch \in Nat
    BY TimersAssumption DEF TypeOK, TimersTypeOK
  <2> QED
    BY <2>1, <2>2 DEF HostTime
<1>3. TypeOK /\ Behind /\ [Next]_vars => Behind'
  BY BehindStep
<1> QED
  BY <1>1, <1>2, <1>3, ClockTypeCorrect, PTL DEF Spec

-----------------------------------------------------------------------------
(***************************************************************************)
(* The ticks of a standing clock                                            *)
(***************************************************************************)

\* A whole multiple comes back unchanged from a conversion.
LEMMA TruncatedWhole ==
  ASSUME NEW b \in Int, NEW d \in Nat \ {0}
  PROVE  Truncated(b * d, d) = b
<1>1. CASE b >= 0
  <2>1. b \in Nat /\ b * d \in Nat /\ d * b = b * d
    BY <1>1
  <2>2. (b * d) \div d = b
    BY <2>1, DivisionUnique
  <2> QED
    BY <2>1, <2>2 DEF Truncated
<1>2. CASE ~(b >= 0)
  <2> DEFINE m == -b
  <2>1. m \in Nat \ {0} /\ b = -m
    BY <1>2
  <2> HIDE DEF m
  <2>2. m * d \in Nat \ {0} /\ d * m = m * d /\ b * d = -(m * d)
    BY <2>1
  <2>3. (m * d) \div d = m
    BY <2>1, <2>2, DivisionUnique
  <2>4. ~(b * d >= 0) /\ -(b * d) = m * d
    BY <2>2
  <2> QED
    BY <2>1, <2>3, <2>4 DEF Truncated
<1> QED
  BY <1>1, <1>2

\* Stops, starts and whatever happens to a standing clock leave the ticks alone.
LEMMA TicksHoldStep ==
  ASSUME TypeOK, Next,
         ~cpu_ticks_enabled \/ ~cpu_ticks_enabled',
         cpu_ticks_prev <= hostTicks
  PROVE  TicksNow' = TicksNow
<1>1. TimersTypeOK
  BY DEF TypeOK
<1>2. CASE cpu_enable_ticks /\ ~cpu_ticks_enabled /\ UNCHANGED hostVars
  <2>1. /\ cpu_ticks_enabled'
        /\ cpu_ticks_offset' = cpu_ticks_offset - hostTicks
        /\ cpu_ticks_restart' = hostTicks
        /\ UNCHANGED <<cpu_ticks_prev, tdf, hostTicks>>
    BY <1>2 DEF cpu_enable_ticks, hostVars
  <2>2. tdf \in Nat \ {0} /\ cpu_ticks_offset \in Int /\ hostTicks \in Nat
        /\ cpu_ticks_prev \in Nat /\ One \in Nat
    BY <1>1, TimersAssumption DEF TimersTypeOK
  <2>3. CaughtUpOffset' = cpu_ticks_offset - hostTicks
    BY <2>1, <2>2 DEF CaughtUpOffset
  <2>4. (hostTicks + (cpu_ticks_offset - hostTicks)) * tdf + (hostTicks - hostTicks) * One
        = cpu_ticks_offset * tdf
    BY <2>2
  <2>5. TicksNow' = Truncated(cpu_ticks_offset * tdf, tdf)
    BY <2>1, <2>3, <2>4 DEF TicksNow, Dilated
  <2> QED
    BY <1>2, <2>2, <2>5, TruncatedWhole DEF TicksNow
<1>3. CASE cpu_disable_ticks /\ cpu_ticks_enabled
  BY <1>3 DEF cpu_disable_ticks, TicksNow
<1>4. CASE ~cpu_ticks_enabled /\ UNCHANGED <<cpu_ticks_enabled, cpu_ticks_offset>>
  BY <1>4 DEF TicksNow
<1>5. \/ cpu_enable_ticks /\ ~cpu_ticks_enabled /\ UNCHANGED hostVars
      \/ cpu_disable_ticks /\ cpu_ticks_enabled
      \/ UNCHANGED <<cpu_ticks_enabled, cpu_ticks_offset>>
      \/ GuestReadsTicks
  BY DEF Next, HostAdvance, HostSoftwareSuspend, VTInitClocks, VTStart,
         VTDisable, VTSetTdf, VTEnable, OperatorSuspend, OperatorResume,
         GuestReadsClock, init_clocks, setTdf, cpu_enable_ticks,
         cpu_disable_ticks, timersVars, ticksVars
<1>6. GuestReadsTicks => UNCHANGED cpu_ticks_enabled
                         /\ (~cpu_ticks_enabled => UNCHANGED cpu_ticks_offset)
  BY DEF GuestReadsTicks, cpu_get_ticks
<1> QED
  BY <1>2, <1>3, <1>4, <1>5, <1>6

\* Neither a stop nor a start of the clock moves the ticks, and a standing clock
\* does not count them (cpu_enable_ticks, cpu_disable_ticks), whoever calls.
THEOREM TicksHold == Spec => TicksStandStill
<1>1. TypeOK /\ [Next]_vars
      => [((~cpu_ticks_enabled \/ ~cpu_ticks_enabled') /\ cpu_ticks_prev <= hostTicks)
          => TicksNow' = TicksNow]_vars
  BY TicksHoldStep
<1> QED
  BY <1>1, ClockTypeCorrect, PTL DEF Spec, TicksStandStill

-----------------------------------------------------------------------------
(***************************************************************************)
(* What the guests miss, at most                                            *)
(***************************************************************************)

\* A stop drops less than one unit of the guests' time, which the slowest rate
\* s makes up for: rate t showed q of the n host units, of a in all.
LEMMA StopDropsFraction ==
  ASSUME NEW b \in Int, NEW n \in Nat, NEW a \in Nat, NEW s \in Nat, NEW t \in Nat \ {0},
         t <= s, b * s + n >= a
  PROVE  (b + n \div t + 1) * s > a
<1> DEFINE q == n \div t
<1>1. q \in Nat /\ n < t * q + t
  BY DivisionBounds
<1> HIDE DEF q
<1>2. q + 1 \in Nat /\ t * (q + 1) = t * q + t /\ t * (q + 1) \in Nat
  BY <1>1
<1>3. t * (q + 1) <= s * (q + 1)
  BY <1>2, ProductMonotone
<1>4. (b + q + 1) * s = b * s + s * (q + 1) /\ b * s \in Int /\ s * (q + 1) \in Int
  BY <1>1, <1>2
<1>5. (b + q + 1) * s > a
  BY <1>1, <1>2, <1>3, <1>4
<1> QED
  BY <1>5 DEF q

\* What passed for the guests, one unit more per stop, and what passed since the
\* last start covers the host time during which the clock ran, even at the
\* slowest rate.
Covered ==
  \A slowest \in Tdfs :
    (\A t \in Tdfs : t <= slowest)
    => (Base - Epoch + stops) * slowest + Run * One >= active * One

LEMMA CoveredStep ==
  ASSUME TypeOK, ClockInv, ClockInv', Covered, [Next]_vars, ~OperatorResumes
  PROVE  Covered'
<1> SUFFICES ASSUME NEW s \in Tdfs, \A t \in Tdfs : t <= s
             PROVE  (Base' - Epoch + stops') * s + Run' * One >= active' * One
  BY DEF Covered
<1>1. (Base - Epoch + stops) * s + Run * One >= active * One
  BY DEF Covered
<1>2. /\ Base \in Nat /\ Run \in Nat /\ Base' \in Nat /\ Run' \in Nat /\ s \in Nat
      /\ tdf \in Nat \ {0} /\ tdf <= s /\ One \in Nat /\ Epoch \in Nat
      /\ stops \in Nat /\ active \in Nat
  BY TimersAssumption DEF ClockInv, TypeOK
<1>3. CASE HostAdvance
  <2>1. PICK d \in Steps : /\ hostClock' = hostClock + d
                           /\ active' = IF cpu_ticks_enabled THEN active + d ELSE active
                           /\ UNCHANGED <<timersVars, stops>>
    BY <1>3 DEF HostAdvance
  <2>2. d \in Nat
    BY RetunedAssumption
  <2>3. Base' = Base /\ stops' = stops
    BY <2>1 DEF Base, timersVars, clockVars
  <2>4. CASE cpu_ticks_enabled
    <3>1. Run' = Run + d /\ active' = active + d
      BY <2>1, <2>2, <2>4, TimersAssumption
      DEF Run, get_clock, timersVars, clockVars, ClockInv
    <3>2. Run' * One = Run * One + d * One /\ active' * One = active * One + d * One
      BY <1>2, <2>2, <3>1
    <3> HIDE DEF Base, Run
    <3>3. /\ (Base - Epoch + stops) * s \in Int /\ Run * One \in Int /\ d * One \in Int
          /\ active * One \in Int
      BY <1>2, <2>2
    <3> QED
      BY <1>1, <2>3, <3>2, <3>3
  <2>5. CASE ~cpu_ticks_enabled
    BY <1>1, <2>1, <2>3, <2>5 DEF Run, timersVars
  <2> QED
    BY <2>4, <2>5
<1>4. ~HostAdvance => active' = active
  BY DEF Next, HostSoftwareSuspend, VTInitClocks, VTStart, VTDisable, VTSetTdf, VTEnable,
         OperatorSuspend, OperatorResume, GuestReadsClock, GuestReadsTicks, vars, history
<1>5. CASE (VTDisable \/ OperatorSuspend) /\ cpu_ticks_enabled
  <2>1. /\ cpu_disable_ticks /\ UNCHANGED hostVars /\ stops' = stops + 1
        /\ active' = active
    BY <1>5 DEF VTDisable, OperatorSuspend, CountStop
  <2>2. Base' = Base + (Run * One) \div tdf /\ Run' = 0
    BY <1>5, <2>1, StopKeepsTime
  <2> HIDE DEF Base, Run
  <2> DEFINE q == (Run * One) \div tdf
             b == Base - Epoch + stops
  <2>3. Run * One \in Nat /\ b \in Int /\ active * One \in Nat
    BY <1>2
  <2>4. q \in Nat
    BY <1>2, <2>3, DivisionBounds
  <2>5. (b + q + 1) * s > active * One
    <3> HIDE DEF q, b
    <3>1. b * s + Run * One >= active * One
      BY <1>1 DEF b
    <3>2. (b + (Run * One) \div tdf + 1) * s > active * One
      BY <1>2, <2>3, <3>1, StopDropsFraction
    <3> QED
      BY <3>2 DEF q
  <2>6. Base' - Epoch + stops' = b + q + 1 /\ Run' * One = 0
    BY <1>2, <2>1, <2>2, <2>4
  <2> HIDE DEF q, b
  <2>7. (b + q + 1) * s \in Int /\ active * One \in Int /\ (b + q + 1) * s + 0 = (b + q + 1) * s
    BY <1>2, <2>3, <2>4
  <2> QED
    BY <2>1, <2>5, <2>6, <2>7
<1>6. CASE ~HostAdvance /\ ~((VTDisable \/ OperatorSuspend) /\ cpu_ticks_enabled)
  <2>1. stops' = stops
    BY <1>6
    DEF Next, HostSoftwareSuspend, VTInitClocks, VTStart, VTDisable, VTSetTdf, VTEnable,
        OperatorSuspend, OperatorResume, GuestReadsClock, GuestReadsTicks, CountStop, vars,
        history
  <2>2. [Ideal!Next]_Ideal!clock
    BY ClockStep
  <2>3. Base' = Base /\ Run' = Run
    <3>1. ~Ideal!Advance
      <4>1. Run' <= Run
        BY <1>2, <1>6, ClockStepKeepsRun
      <4>2. Ideal!Advance => Run' > Run
        BY DEF Ideal!Advance, Run
      <4> QED
        BY <1>2, <4>1, <4>2
    <3>2. ~Ideal!Stop
      <4>1. Ideal!Stop => cpu_ticks_enabled /\ ~cpu_ticks_enabled'
        BY DEF Ideal!Stop
      <4>2. cpu_ticks_enabled => cpu_ticks_enabled' = cpu_ticks_enabled
        BY <1>6
        DEF Next, HostSoftwareSuspend, VTInitClocks, VTStart, VTSetTdf, VTEnable,
            OperatorResume, GuestReadsClock, GuestReadsTicks, init_clocks, setTdf,
            cpu_enable_ticks, cpu_get_ticks, vars, timersVars
      <4> QED
        BY <4>1, <4>2
    <3>3. CASE Ideal!Start \/ Ideal!Retune \/ UNCHANGED Ideal!clock
      BY <3>3 DEF Ideal!Start, Ideal!Retune, Ideal!clock, Base, Run
    <3> QED
      BY <2>2, <3>1, <3>2, <3>3 DEF Ideal!Next
  <2> QED
    BY <1>1, <1>4, <1>6, <2>1, <2>3
<1> QED
  BY <1>3, <1>5, <1>6

\* What guests miss is accounted for: while the clock ran, it ran at no less
\* than the slowest rate, but for the fraction that each conversion to int64_t
\* at a stop drops (cpu_disable_ticks).
THEOREM LossIsBounded ==
  ASSUME ~OperatorResumes
  PROVE  Spec => []LossBounded
<1>1. Init => Covered
  BY TimersAssumption DEF Init, TimersInit, Covered, Base, Run, get_clock
<1>2. TypeOK /\ ClockInv /\ Covered => LossBounded
  <2> SUFFICES ASSUME TypeOK, ClockInv, Covered, NEW s \in Tdfs, \A t \in Tdfs : t <= s
               PROVE  (ClockNow - Epoch + stops + 1) * s > active * One
    BY DEF LossBounded
  <2>1. /\ Base \in Nat /\ Run \in Nat /\ s \in Nat /\ tdf \in Nat \ {0} /\ tdf <= s
        /\ One \in Nat /\ Epoch \in Nat /\ stops \in Nat /\ active \in Nat
    BY TimersAssumption DEF ClockInv, TypeOK
  <2>2. (Base - Epoch + stops) * s + Run * One >= active * One
    BY DEF Covered
  <2>3. ClockNow = Base + (Run * One) \div tdf
    BY ClockReading
  <2> HIDE DEF Base, Run, ClockNow
  <2>4. Run * One \in Nat /\ Base - Epoch + stops \in Int /\ active * One \in Nat
    BY <2>1
  <2>5. (Base - Epoch + stops + (Run * One) \div tdf + 1) * s > active * One
    BY <2>1, <2>2, <2>4, StopDropsFraction
  <2>6. (Run * One) \div tdf \in Nat
    BY <2>1, <2>4, DivisionBounds
  <2>7. ClockNow - Epoch + stops + 1 = Base - Epoch + stops + (Run * One) \div tdf + 1
    <3> DEFINE q == (Run * One) \div tdf
    <3>1. q \in Nat /\ ClockNow = Base + q
      BY <2>3, <2>6
    <3> HIDE DEF q
    <3>2. ClockNow - Epoch + stops + 1 = Base - Epoch + stops + q + 1
      BY <2>1, <3>1
    <3> QED
      BY <3>2 DEF q
  <2> QED
    BY <2>5, <2>7
<1>3. ClockInv /\ [Next]_vars => ClockInv'
  BY ClockStep
<1>4. TypeOK /\ ClockInv /\ ClockInv' /\ Covered /\ [Next]_vars => Covered'
  BY CoveredStep
<1> QED
  BY <1>1, <1>2, <1>3, <1>4, ClockInvInit, ClockTypeCorrect, PTL DEF Spec

-----------------------------------------------------------------------------
(***************************************************************************)
(* The ticks when the cycle counter is not set back                         *)
(***************************************************************************)

\* What the ticks were when they were last started or stopped ...
TicksBase == IF cpu_ticks_enabled THEN cpu_ticks_restart + cpu_ticks_offset
                                  ELSE cpu_ticks_offset

\* ... and host ticks since then.
TicksRun == IF cpu_ticks_enabled THEN hostTicks - cpu_ticks_restart ELSE 0

TicksInv ==
  /\ setbacks = 0
  /\ cpu_ticks_prev <= hostTicks
  /\ TicksBase \in Nat
  /\ TicksRun \in Nat

\* Reading the ticks then is like reading the clock.
LEMMA TicksReading ==
  ASSUME TypeOK, TicksInv
  PROVE  /\ TicksNow = TicksBase + (TicksRun * One) \div tdf
         /\ (TicksRun * One) \div tdf \in Nat
         /\ CaughtUpOffset = cpu_ticks_offset
<1>0. /\ TicksBase \in Nat /\ TicksRun \in Nat /\ tdf \in Nat \ {0} /\ One \in Nat
      /\ cpu_ticks_prev <= hostTicks /\ cpu_ticks_prev \in Nat /\ hostTicks \in Nat
      /\ cpu_ticks_offset \in Int /\ cpu_ticks_restart \in Nat
  BY TimersAssumption DEF TypeOK, TimersTypeOK, TicksInv
<1>1. CaughtUpOffset = cpu_ticks_offset
  BY <1>0 DEF CaughtUpOffset
<1> DEFINE n == TicksRun * One
<1>2. n \in Nat
  <2> HIDE DEF TicksRun
  <2> QED
    BY <1>0
<1>3. n \div tdf \in Nat
  BY <1>0, <1>2, DivisionBounds
<1>4. CASE cpu_ticks_enabled
  <2>1. TicksNow = Truncated(TicksBase * tdf + n, tdf)
    BY <1>1, <1>4 DEF TicksNow, Dilated, TicksBase, TicksRun
  <2> HIDE DEF n, TicksBase
  <2>2. TicksBase * tdf + n \in Nat
    BY <1>0, <1>2
  <2>3. TicksNow = (TicksBase * tdf + n) \div tdf
    BY <2>1, <2>2 DEF Truncated
  <2>4. (TicksBase * tdf + n) \div tdf = TicksBase + n \div tdf
    BY <1>0, <1>2, DivisionShift
  <2> QED
    BY <1>1, <1>3, <2>3, <2>4 DEF n
<1>5. CASE ~cpu_ticks_enabled
  <2>1. n = 0
    BY <1>0, <1>5 DEF TicksRun
  <2>2. 0 \div tdf = 0
    BY <1>0, DivisionUnique
  <2>3. TicksNow = TicksBase /\ TicksBase \in Nat
    BY <1>0, <1>5 DEF TicksNow, TicksBase
  <2> HIDE DEF n, TicksBase
  <2> QED
    BY <1>1, <1>3, <2>1, <2>2, <2>3 DEF n
<1> QED
  BY <1>4, <1>5

LEMMA TicksInvStep ==
  ASSUME TypeOK, ClockInv, TicksInv, [Next]_vars, ~OperatorResumes, MaxSetbacks = 0
  PROVE  TicksInv'
<1> USE DEF TicksInv
<1>0. /\ cpu_ticks_prev \in Nat /\ hostTicks \in Nat /\ tdf \in Nat \ {0}
      /\ cpu_ticks_offset \in Int /\ cpu_ticks_restart \in Nat
  BY TimersAssumption DEF TypeOK, TimersTypeOK
<1>1. CASE HostAdvance
  <2>1. PICK d \in Steps : hostTicks' = hostTicks + d /\ UNCHANGED <<timersVars, setbacks>>
    BY <1>1 DEF HostAdvance
  <2>2. d \in Nat
    BY RetunedAssumption
  <2> QED
    BY <1>0, <2>1, <2>2 DEF TicksBase, TicksRun, timersVars, ticksVars
<1>2. ~HostSoftwareSuspend
  BY DEF HostSoftwareSuspend
<1>3. CASE VTInitClocks \/ VTSetTdf \/ GuestReadsClock
  BY <1>3
  DEF VTInitClocks, VTSetTdf, GuestReadsClock, init_clocks, setTdf, hostVars, timersVars,
      ticksVars, TicksBase, TicksRun
<1>4. CASE VTStart \/ VTEnable
  <2>1. cpu_enable_ticks /\ UNCHANGED <<hostTicks, setbacks>>
    BY <1>4 DEF VTStart, VTEnable, hostVars
  <2>2. CASE cpu_ticks_enabled
    BY <2>1, <2>2 DEF cpu_enable_ticks, timersVars, ticksVars, TicksBase, TicksRun
  <2>3. CASE ~cpu_ticks_enabled
    BY <1>0, <2>1, <2>3 DEF cpu_enable_ticks, TicksBase, TicksRun
  <2> QED
    BY <2>2, <2>3
<1>5. CASE VTDisable \/ OperatorSuspend
  <2>1. cpu_disable_ticks /\ UNCHANGED <<hostTicks, setbacks>>
    BY <1>5 DEF VTDisable, OperatorSuspend, hostVars
  <2>2. CASE cpu_ticks_enabled
    <3>1. TicksNow \in Nat
      <4>1. TicksBase \in Nat
        OBVIOUS
      <4> HIDE DEF TicksBase
      <4> QED
        BY <4>1, TicksReading
    <3> HIDE DEF TicksNow
    <3> QED
      BY <1>0, <2>1, <2>2, <3>1 DEF cpu_disable_ticks, TicksBase, TicksRun
  <2>3. CASE ~cpu_ticks_enabled
    BY <2>1, <2>3 DEF cpu_disable_ticks, timersVars, ticksVars, TicksBase, TicksRun
  <2> QED
    BY <2>2, <2>3
<1>6. CASE GuestReadsTicks
  <2>1. cpu_get_ticks /\ UNCHANGED <<hostTicks, setbacks>> /\ CaughtUpOffset = cpu_ticks_offset
    BY <1>6, TicksReading DEF GuestReadsTicks, hostVars
  <2>2. CASE cpu_ticks_enabled
    BY <1>0, <2>1, <2>2 DEF cpu_get_ticks, TicksBase, TicksRun
  <2>3. CASE ~cpu_ticks_enabled
    BY <1>0, <2>1, <2>3 DEF cpu_get_ticks, TicksBase, TicksRun
  <2> QED
    BY <2>2, <2>3
<1>7. CASE UNCHANGED vars
  BY <1>7 DEF vars, hostVars, timersVars, ticksVars, TicksBase, TicksRun
<1> QED
  BY <1>1, <1>2, <1>3, <1>4, <1>5, <1>6, <1>7 DEF Next, OperatorResume

LEMMA TicksSplit ==
  TypeOK /\ TicksInv => /\ TicksNow \in Int
                        /\ TicksNow = TicksBase + (TicksRun * One) \div tdf
                        /\ (TicksRun * One) \div tdf \in Nat
<1> SUFFICES ASSUME TypeOK, TicksInv
             PROVE  /\ TicksNow \in Int
                    /\ TicksNow = TicksBase + (TicksRun * One) \div tdf
                    /\ (TicksRun * One) \div tdf \in Nat
  OBVIOUS
<1>1. TicksNow \in Int
  BY ReadingTypes DEF TypeOK
<1> QED
  BY <1>1, TicksReading

\* No step sets the ticks back.
LEMMA TicksForward ==
  ASSUME TypeOK, TypeOK', ClockInv, TicksInv, TicksInv', [Next]_vars, ~OperatorResumes
  PROVE  TicksNow \in Int /\ TicksNow' \in Int /\ TicksNow <= TicksNow'
<1> DEFINE q == (TicksRun * One) \div tdf
           r == (TicksRun' * One) \div tdf'
<1>1. TicksNow \in Int /\ TicksNow = TicksBase + q /\ q \in Nat
  BY TicksReading, ReadingTypes DEF TypeOK
<1>2. TicksNow' \in Int /\ TicksNow' = TicksBase' + r /\ r \in Nat
  <2>1. (TypeOK /\ TicksInv => /\ TicksNow \in Int
                              /\ TicksNow = TicksBase + (TicksRun * One) \div tdf
                              /\ (TicksRun * One) \div tdf \in Nat)'
    BY TicksSplit, PTL
  <2> QED
    BY <2>1
<1> HIDE DEF TicksNow
<1>3. /\ TicksBase \in Nat /\ TicksRun \in Nat /\ TicksRun' \in Nat /\ One \in Nat
      /\ tdf \in Nat \ {0} /\ TicksRun * One \in Nat /\ TicksRun' * One \in Nat
  <2>1. /\ TicksBase \in Nat /\ TicksRun \in Nat /\ TicksRun' \in Nat /\ One \in Nat
        /\ tdf \in Nat \ {0}
    BY TimersAssumption DEF TicksInv, TypeOK, TimersTypeOK
  <2> HIDE DEF q, r, TicksRun
  <2>2. \A m, n \in Nat : m * n \in Nat
    OBVIOUS
  <2> QED
    BY <2>1, <2>2
<1>4. CASE UNCHANGED vars
  <2>1. TicksBase' = TicksBase /\ TicksRun' = TicksRun /\ tdf' = tdf
    BY <1>4 DEF vars, hostVars, timersVars, ticksVars, TicksBase, TicksRun
  <2> QED
    BY <1>1, <1>2, <1>3, <2>1
<1>5. CASE Next /\ (~cpu_ticks_enabled \/ ~cpu_ticks_enabled')
  <2>1. TicksNow' = TicksNow
    BY <1>5, TicksHoldStep DEF TicksInv
  <2> QED
    BY <1>1, <2>1
<1>6. CASE Next /\ cpu_ticks_enabled /\ cpu_ticks_enabled'
  <2>1. ~VTInitClocks /\ ~VTSetTdf
    BY <1>6 DEF VTInitClocks, VTSetTdf, ClockInv
  <2>2. ~HostSoftwareSuspend
    BY DEF HostSoftwareSuspend, TicksInv
  <2>3. CASE HostAdvance
    <3>1. PICK d \in Steps : hostTicks' = hostTicks + d /\ UNCHANGED timersVars
      BY <2>3 DEF HostAdvance
    <3>2. d \in Nat
      BY RetunedAssumption
    <3>3. TicksBase' = TicksBase /\ TicksRun <= TicksRun' /\ tdf' = tdf
      BY <1>6, <3>1, <3>2 DEF TicksBase, TicksRun, timersVars, ticksVars, TypeOK, TimersTypeOK
    <3> HIDE DEF TicksRun, TicksBase, q, r
    <3>4. TicksRun * One <= TicksRun' * One
      <4>1. \A m, n, c \in Nat : m <= n => m * c <= n * c
        BY ProductMonotone
      <4> QED
        BY <1>3, <3>3, <4>1, Zenon
    <3>5. q <= r
      BY <1>3, <3>3, <3>4, DivisionMonotone DEF q, r
    <3> QED
      BY <1>1, <1>2, <1>3, <3>3, <3>5
  <2>4. CASE ~HostAdvance
    <3>1. TicksBase' = TicksBase /\ TicksRun' = TicksRun /\ tdf' = tdf
      <4>1. CASE GuestReadsTicks
        BY <1>6, <4>1, TicksReading
        DEF GuestReadsTicks, cpu_get_ticks, hostVars, TicksBase, TicksRun
      <4>2. CASE ~GuestReadsTicks
        BY <1>6, <2>1, <2>2, <2>4, <4>2
        DEF Next, VTStart, VTEnable, VTDisable, OperatorSuspend, OperatorResume,
            GuestReadsClock, cpu_enable_ticks, cpu_disable_ticks, hostVars, timersVars,
            ticksVars, TicksBase, TicksRun
      <4> QED
        BY <4>1, <4>2
    <3> QED
      BY <1>1, <1>2, <1>3, <3>1
  <2> QED
    BY <2>3, <2>4
<1> QED
  BY <1>4, <1>5, <1>6

\* As long as the cycle counter is not set back and nobody but the VirtualTime
\* thread starts the clock, guests never read a tick count below one read
\* before, through stops, starts and factors (cpu_get_ticks).
THEOREM TicksAreMonotonic ==
  ASSUME ~OperatorResumes, MaxSetbacks = 0
  PROVE  Spec => TicksMonotonic
<1> DEFINE ReadInv == ticksRead <= TicksNow
<1>1. Init => TicksInv /\ ReadInv
  BY TimersAssumption DEF Init, TimersInit, TicksInv, TicksBase, TicksRun, TicksNow
<1>2. TypeOK /\ ClockInv /\ TicksInv /\ [Next]_vars => TicksInv'
  BY TicksInvStep
<1>3. TypeOK /\ TypeOK' /\ ClockInv /\ TicksInv /\ TicksInv' /\ ReadInv /\ [Next]_vars
      => ReadInv' /\ [ticksRead' >= ticksRead]_vars
  <2> SUFFICES ASSUME TypeOK, TypeOK', ClockInv, TicksInv, TicksInv', ReadInv, [Next]_vars
               PROVE  ReadInv' /\ ticksRead' >= ticksRead
    OBVIOUS
  <2>1. TicksNow \in Int /\ TicksNow' \in Int /\ TicksNow <= TicksNow'
    BY TicksForward
  <2>2. ticksRead \in Int /\ ticksRead <= TicksNow
    BY DEF TypeOK
  <2> HIDE DEF TicksNow
  <2>3. CASE GuestReadsTicks
    BY <2>1, <2>2, <2>3 DEF GuestReadsTicks
  <2>4. ~GuestReadsTicks => ticksRead' = ticksRead
    BY DEF Next, HostAdvance, HostSoftwareSuspend, VTInitClocks, VTStart, VTDisable, VTSetTdf,
           VTEnable, OperatorSuspend, OperatorResume, GuestReadsClock, vars, reads
  <2> QED
    BY <2>1, <2>2, <2>3, <2>4
<1>4. ClockInv /\ [Next]_vars => ClockInv'
  BY ClockStep
<1> QED
  BY <1>1, <1>2, <1>3, <1>4, ClockInvInit, ClockTypeCorrect, PTL DEF Spec, TicksMonotonic

-----------------------------------------------------------------------------
(***************************************************************************)
(* A setback of the cycle counter, with every request                       *)
(***************************************************************************)

\* A conversion to int64_t is off by less than the divisor, towards zero.
LEMMA TruncatedBounds ==
  ASSUME NEW n \in Int, NEW d \in Nat \ {0}
  PROVE  /\ Truncated(n, d) \in Int
         /\ n >= 0 => Truncated(n, d) * d <= n /\ n < Truncated(n, d) * d + d
         /\ n < 0 => n <= Truncated(n, d) * d /\ Truncated(n, d) * d - d < n
<1>1. Truncated(n, d) \in Int
  BY TruncatedType
<1>2. CASE n >= 0
  <2> DEFINE q == n \div d
  <2>1. q \in Nat /\ d * q <= n /\ n < d * q + d
    BY <1>2, DivisionBounds
  <2>2. Truncated(n, d) = q
    BY <1>2 DEF Truncated
  <2> HIDE DEF q
  <2> QED
    BY <1>2, <2>1, <2>2
<1>3. CASE n < 0
  <2> DEFINE m == -n
             q == m \div d
  <2>1. m \in Nat /\ n = -m
    BY <1>3
  <2>2. q \in Nat /\ d * q <= m /\ m < d * q + d
    BY <2>1, DivisionBounds
  <2>3. Truncated(n, d) = -q
    BY <1>3 DEF Truncated
  <2> HIDE DEF m, q
  <2>4. (-q) * d = -(d * q)
    BY <2>2
  <2> QED
    BY <1>3, <2>1, <2>2, <2>3, <2>4
<1> QED
  BY <1>1, <1>2, <1>3

\* Numbers less than a divisor apart are at most one apart once converted.
LEMMA TruncatedNear ==
  ASSUME NEW n \in Int, NEW m \in Int, NEW d \in Nat \ {0}, n - m < d, m - n < d
  PROVE  Truncated(n, d) - Truncated(m, d) \in -1 .. 1
<1> DEFINE a == Truncated(n, d)
           b == Truncated(m, d)
<1>1. /\ a \in Int /\ b \in Int
      /\ n >= 0 => a * d <= n /\ n < a * d + d
      /\ n < 0 => n <= a * d /\ a * d - d < n
      /\ m >= 0 => b * d <= m /\ m < b * d + d
      /\ m < 0 => m <= b * d /\ b * d - d < m
  BY TruncatedBounds
<1> HIDE DEF a, b
<1> DEFINE k == a - b
<1>2. k \in Int /\ k * d = a * d - b * d /\ a * d \in Int /\ b * d \in Int
  BY <1>1
<1>3. k * d < 2 * d /\ -(2 * d) < k * d
  <2> HIDE DEF k
  <2>1. CASE n >= 0 /\ m >= 0
    BY <1>1, <1>2, <2>1
  <2>2. CASE n < 0 /\ m < 0
    BY <1>1, <1>2, <2>2
  <2>3. CASE n >= 0 /\ m < 0
    BY <1>1, <1>2, <2>3
  <2>4. CASE n < 0 /\ m >= 0
    BY <1>1, <1>2, <2>4
  <2> QED
    BY <2>1, <2>2, <2>3, <2>4
<1>4. k < 2 /\ -2 < k
  <2> HIDE DEF k
  <2>1. k >= 2 => k * d >= 2 * d
    BY <1>2
  <2>2. k <= -2 => k * d <= -(2 * d)
    BY <1>2
  <2> QED
    BY <1>2, <1>3, <2>1, <2>2
<1> QED
  BY <1>2, <1>4 DEF a, b

\* The offset that makes up for a setback to h, and the read that follows.
LEMMA CaughtUpIsNear ==
  ASSUME NEW d \in Nat \ {0}, NEW r \in Int, NEW p \in Int, NEW o \in Int, NEW h \in Int,
         NEW u \in Nat
  PROVE  LET c == Truncated(o * d + (p - h) * u, d) IN
         Truncated((r + c) * d + (h - r) * u, d) - Truncated((r + o) * d + (p - r) * u, d)
         \in -1 .. 1
<1> DEFINE s == o * d + (p - h) * u
           c == Truncated(s, d)
           n == (r + c) * d + (h - r) * u
           m == (r + o) * d + (p - r) * u
<1>1. s \in Int
  OBVIOUS
<1>2. c \in Int /\ c * d - s < d /\ s - c * d < d
  <2> HIDE DEF s
  <2>1. /\ c \in Int
        /\ s >= 0 => c * d <= s /\ s < c * d + d
        /\ s < 0 => s <= c * d /\ c * d - d < s
    BY <1>1, TruncatedBounds
  <2> HIDE DEF c
  <2>2. c * d \in Int
    BY <2>1
  <2> QED
    BY <1>1, <2>1, <2>2
<1> HIDE DEF c
<1>3. n \in Int /\ m \in Int /\ n - m = c * d - s
  <2>1. n = r * d + c * d + (h * u - r * u)
    BY <1>2
  <2>2. m = r * d + o * d + (p * u - r * u)
    OBVIOUS
  <2>3. s = o * d + (p * u - h * u)
    OBVIOUS
  <2>4. /\ r * d \in Int /\ c * d \in Int /\ o * d \in Int
        /\ h * u \in Int /\ r * u \in Int /\ p * u \in Int
    BY <1>2
  <2> HIDE DEF n, m, s
  <2> QED
    BY <2>1, <2>2, <2>3, <2>4
<1>4. c * d \in Int
  BY <1>2
<1>5. n - m < d /\ m - n < d
  <2> HIDE DEF n, m, s
  <2> QED
    BY <1>1, <1>2, <1>3, <1>4
<1>6. Truncated(n, d) - Truncated(m, d) \in -1 .. 1
  <2> HIDE DEF n, m
  <2> QED
    BY <1>3, <1>5, TruncatedNear
<1> QED
  BY <1>6 DEF c

\* A conversion does not reverse an order by more than one.
LEMMA TruncatedOrder ==
  ASSUME NEW n \in Int, NEW m \in Int, NEW d \in Nat \ {0}, m <= n
  PROVE  Truncated(n, d) >= Truncated(m, d) - 1
<1> DEFINE a == Truncated(n, d)
           b == Truncated(m, d)
           k == a - b
<1>1. /\ a \in Int /\ b \in Int
      /\ n >= 0 => a * d <= n /\ n < a * d + d
      /\ n < 0 => n <= a * d /\ a * d - d < n
      /\ m >= 0 => b * d <= m /\ m < b * d + d
      /\ m < 0 => m <= b * d /\ b * d - d < m
  BY TruncatedBounds
<1> HIDE DEF a, b
<1>2. k \in Int /\ k * d = a * d - b * d /\ a * d \in Int /\ b * d \in Int
  BY <1>1
<1>3. n < a * d + d /\ b * d - d < m
  BY <1>1, <1>2
<1>4. -(2 * d) < k * d
  <2> HIDE DEF k
  <2> QED
    BY <1>2, <1>3
<1>5. -2 < k
  <2> HIDE DEF k
  <2>1. k <= -2 => k * d <= -(2 * d)
    BY <1>2
  <2>2. k * d \in Int /\ 2 * d \in Int
    BY <1>2
  <2> QED
    BY <1>2, <1>4, <2>1, <2>2
<1> QED
  BY <1>1, <1>5 DEF a, b

\* What a guest read is what the running ticks showed when the counter was last
\* looked at.
SeenInv ==
  cpu_ticks_enabled /\ look = "seen"
  => ticksRead = Dilated(cpu_ticks_restart, cpu_ticks_prev, cpu_ticks_offset)

LEMMA SeenStep ==
  ASSUME SeenInv, [Next]_vars
  PROVE  SeenInv'
<1>1. CASE HostAdvance \/ HostSoftwareSuspend \/ VTInitClocks \/ GuestReadsClock
           \/ UNCHANGED vars
  BY <1>1
  DEF HostAdvance, HostSoftwareSuspend, VTInitClocks, GuestReadsClock, init_clocks,
      vars, timersVars, ticksVars, reads, history, SeenInv, Dilated
<1>2. CASE VTStart \/ VTEnable \/ OperatorResume
  <2>1. cpu_enable_ticks /\ Started /\ UNCHANGED reads
    BY <1>2 DEF VTStart, VTEnable, OperatorResume
  <2> QED
    BY <2>1
    DEF cpu_enable_ticks, Started, timersVars, ticksVars, reads, SeenInv, Dilated
<1>3. CASE VTDisable \/ OperatorSuspend
  <2>1. cpu_disable_ticks /\ UNCHANGED <<reads, look>>
    BY <1>3 DEF VTDisable, OperatorSuspend
  <2> QED
    BY <2>1 DEF cpu_disable_ticks, timersVars, ticksVars, reads, SeenInv, Dilated
<1>4. CASE VTSetTdf
  BY <1>4 DEF VTSetTdf, setTdf, SeenInv
<1>5. CASE GuestReadsTicks
  BY <1>5 DEF GuestReadsTicks, cpu_get_ticks, TicksNow, SeenInv, Dilated
<1> QED
  BY <1>1, <1>2, <1>3, <1>4, <1>5 DEF Next

LEMMA SeenIsCaughtUp ==
  ASSUME TypeOK, SeenInv
  PROVE  SetbackCaughtUp
<1> SUFFICES ASSUME cpu_ticks_enabled, look = "seen"
             PROVE  /\ TicksNow >= ticksRead - 1
                    /\ hostTicks < cpu_ticks_prev => TicksNow <= ticksRead + 1
  BY DEF SetbackCaughtUp
<1>1. /\ tdf \in Nat \ {0} /\ One \in Nat /\ hostTicks \in Int /\ cpu_ticks_restart \in Int
      /\ cpu_ticks_prev \in Int /\ cpu_ticks_offset \in Int
  BY TimersAssumption DEF TypeOK, TimersTypeOK
<1>2. TicksNow \in Int /\ ticksRead \in Int
  BY ReadingTypes DEF TypeOK
<1> DEFINE c == CaughtUpOffset
           n == (cpu_ticks_restart + c) * tdf + (hostTicks - cpu_ticks_restart) * One
           m == (cpu_ticks_restart + cpu_ticks_offset) * tdf
                + (cpu_ticks_prev - cpu_ticks_restart) * One
<1>3. TicksNow = Truncated(n, tdf)
  <2> HIDE DEF c
  <2> QED
    BY DEF TicksNow, Dilated, c
<1>4. ticksRead = Truncated(m, tdf)
  BY DEF SeenInv, Dilated
<1>5. CASE hostTicks < cpu_ticks_prev
  <2> DEFINE e == Truncated(cpu_ticks_offset * tdf + (cpu_ticks_prev - hostTicks) * One, tdf)
  <2>1. c = e
    BY <1>1, <1>5 DEF CaughtUpOffset
  <2>2. Truncated((cpu_ticks_restart + e) * tdf + (hostTicks - cpu_ticks_restart) * One, tdf)
        - Truncated(m, tdf) \in -1 .. 1
    BY <1>1, CaughtUpIsNear
  <2> HIDE DEF e, c
  <2>3. TicksNow - ticksRead \in -1 .. 1
    BY <1>3, <1>4, <2>1, <2>2
  <2> HIDE DEF n, m
  <2> QED
    BY <1>2, <2>3
<1>6. CASE ~(hostTicks < cpu_ticks_prev)
  <2>1. c = cpu_ticks_offset
    BY <1>1, <1>6 DEF CaughtUpOffset
  <2>2. n \in Int /\ m \in Int /\ m <= n
    <3> DEFINE k == hostTicks - cpu_ticks_prev
    <3>1. k \in Nat /\ hostTicks - cpu_ticks_restart = (cpu_ticks_prev - cpu_ticks_restart) + k
      BY <1>1, <1>6
    <3> HIDE DEF k, c
    <3>2. k * One \in Nat
      BY <1>1, <3>1
    <3>3. n = m + k * One /\ m \in Int
      BY <1>1, <2>1, <3>1
    <3> HIDE DEF n, m
    <3> QED
      BY <3>2, <3>3
  <2> HIDE DEF n, m
  <2>3. Truncated(n, tdf) >= Truncated(m, tdf) - 1
    BY <1>1, <2>2, TruncatedOrder
  <2> QED
    BY <1>3, <1>4, <1>6, <2>3
<1> QED
  BY <1>5, <1>6

\* Once a guest looked at the running ticks, they never fall below what it saw,
\* wherever a software suspend of the host sets the cycle counter, and a setback
\* is made up for and no more (cpu_get_ticks): with every request of Protocols 30
\* and 31, unless one of them has the factor changed under the running ticks.
THEOREM SetbacksCaughtUp == Spec => []SetbackCaughtUp
<1>1. Init => SeenInv
  BY DEF Init, TimersInit, SeenInv
<1>2. SeenInv /\ [Next]_vars => SeenInv'
  BY SeenStep
<1>3. TypeOK /\ SeenInv => SetbackCaughtUp
  BY SeenIsCaughtUp
<1> QED
  BY <1>1, <1>2, <1>3, ClockTypeCorrect, PTL DEF Spec

\* The ticks at the start, before anybody looked at them.
StoodInv ==
  cpu_ticks_enabled /\ look = "none" => stood = cpu_ticks_restart + cpu_ticks_offset

LEMMA StoodStep ==
  ASSUME TypeOK, StoodInv, [Next]_vars
  PROVE  StoodInv'
<1>1. CASE HostAdvance \/ HostSoftwareSuspend \/ VTInitClocks \/ GuestReadsClock
           \/ UNCHANGED vars
  BY <1>1
  DEF HostAdvance, HostSoftwareSuspend, VTInitClocks, GuestReadsClock, init_clocks,
      vars, timersVars, ticksVars, history, StoodInv
<1>2. CASE VTStart \/ VTEnable \/ OperatorResume
  <2>1. cpu_enable_ticks /\ Started
    BY <1>2 DEF VTStart, VTEnable, OperatorResume
  <2>2. CASE cpu_ticks_enabled
    BY <2>1, <2>2 DEF cpu_enable_ticks, Started, timersVars, ticksVars, StoodInv
  <2>3. CASE ~cpu_ticks_enabled
    <3>1. stood' = cpu_ticks_offset
      BY <2>1, <2>3 DEF Started, TicksNow
    <3>2. cpu_ticks_restart' = hostTicks /\ cpu_ticks_offset' = cpu_ticks_offset - hostTicks
      BY <2>1, <2>3 DEF cpu_enable_ticks
    <3> QED
      BY <3>1, <3>2 DEF StoodInv, TypeOK, TimersTypeOK
  <2> QED
    BY <2>2, <2>3
<1>3. CASE VTDisable \/ OperatorSuspend
  <2>1. cpu_disable_ticks /\ UNCHANGED <<look, stood>>
    BY <1>3 DEF VTDisable, OperatorSuspend
  <2> QED
    BY <2>1 DEF cpu_disable_ticks, timersVars, ticksVars, StoodInv
<1>4. CASE VTSetTdf
  BY <1>4 DEF VTSetTdf, setTdf, StoodInv
<1>5. CASE GuestReadsTicks
  BY <1>5 DEF GuestReadsTicks, cpu_get_ticks, StoodInv
<1> QED
  BY <1>1, <1>2, <1>3, <1>4, <1>5 DEF Next

LEMMA StoodIsBounded ==
  ASSUME TypeOK, StoodInv
  PROVE  UnseenSetbackBounded
<1> DEFINE moved == (cpu_ticks_prev - cpu_ticks_restart) * One
<1> SUFFICES ASSUME cpu_ticks_enabled, look = "none"
             PROVE  /\ (TicksNow - stood + 2) * tdf > moved
                    /\ hostTicks < cpu_ticks_prev => (TicksNow - stood - 2) * tdf < moved
  BY DEF UnseenSetbackBounded
<1>1. /\ tdf \in Nat \ {0} /\ One \in Nat /\ hostTicks \in Int /\ cpu_ticks_restart \in Int
      /\ cpu_ticks_prev \in Int /\ cpu_ticks_offset \in Int /\ stood \in Int
      /\ TicksNow \in Int /\ CaughtUpOffset \in Int
  BY TimersAssumption, ReadingTypes DEF TypeOK, TimersTypeOK
<1>2. stood = cpu_ticks_restart + cpu_ticks_offset
  BY DEF StoodInv
<1> DEFINE a == TicksNow
           c == CaughtUpOffset
           since == (hostTicks - cpu_ticks_restart) * One
           lost == (cpu_ticks_prev - hostTicks) * One
           n == (cpu_ticks_restart + c) * tdf + since
<1>3. a = Truncated(n, tdf)
  <2> HIDE DEF c
  <2> QED
    BY DEF TicksNow, Dilated, c, a
<1>4. moved \in Int /\ since \in Int /\ lost \in Int /\ since + lost = moved
  BY <1>1
<1>5. hostTicks >= cpu_ticks_prev => lost <= 0
  <2>1. hostTicks >= cpu_ticks_prev => (hostTicks - cpu_ticks_prev) * One \in Nat
    BY <1>1
  <2>2. (hostTicks - cpu_ticks_prev) * One = -lost
    BY <1>1
  <2> HIDE DEF lost
  <2> QED
    BY <1>4, <2>1, <2>2
<1>6. /\ (a - stood + 2) * tdf = a * tdf - stood * tdf + 2 * tdf
      /\ (a - stood - 2) * tdf = a * tdf - stood * tdf - 2 * tdf
      /\ stood * tdf = cpu_ticks_restart * tdf + cpu_ticks_offset * tdf
      /\ n = cpu_ticks_restart * tdf + c * tdf + since
      /\ a * tdf \in Int /\ c * tdf \in Int
      /\ cpu_ticks_restart * tdf \in Int /\ cpu_ticks_offset * tdf \in Int
  <2> HIDE DEF a, c, since
  <2>1. a \in Int /\ c \in Int
    BY <1>1 DEF a, c
  <2> QED
    BY <1>1, <1>2, <1>4, <2>1
<1>7. n \in Int
  <2> HIDE DEF since, a, c
  <2> QED
    BY <1>4, <1>6
<1>8. a * tdf - tdf < n /\ n < a * tdf + tdf
  <2> HIDE DEF n, a
  <2>1. /\ n >= 0 => a * tdf <= n /\ n < a * tdf + tdf
        /\ n < 0 => n <= a * tdf /\ a * tdf - tdf < n
    BY <1>1, <1>3, <1>7, TruncatedBounds
  <2> QED
    BY <1>1, <1>6, <1>7, <2>1
<1>9. CASE hostTicks < cpu_ticks_prev
  <2> DEFINE s == cpu_ticks_offset * tdf + lost
  <2>1. c = Truncated(s, tdf)
    BY <1>1, <1>9 DEF CaughtUpOffset
  <2>2. c * tdf - s < tdf /\ s - c * tdf < tdf
    <3> HIDE DEF c, lost
    <3>1. s \in Int
      BY <1>4, <1>6
    <3> HIDE DEF s
    <3>2. /\ s >= 0 => c * tdf <= s /\ s < c * tdf + tdf
          /\ s < 0 => s <= c * tdf /\ c * tdf - tdf < s
      BY <1>1, <2>1, <3>1, TruncatedBounds
    <3> QED
      BY <1>1, <1>6, <3>1, <3>2
  <2> HIDE DEF a, c, since, lost, moved
  <2>3. (a - stood + 2) * tdf > moved /\ (a - stood - 2) * tdf < moved
    BY <1>1, <1>4, <1>6, <1>8, <2>2
  <2> QED
    BY <2>3 DEF a
<1>10. CASE ~(hostTicks < cpu_ticks_prev)
  <2>1. c = cpu_ticks_offset /\ lost <= 0
    BY <1>1, <1>5, <1>10 DEF CaughtUpOffset
  <2> HIDE DEF a, c, since, lost, moved
  <2>2. (a - stood + 2) * tdf > moved
    BY <1>1, <1>4, <1>6, <1>8, <2>1
  <2> QED
    BY <1>10, <2>2 DEF a
<1> QED
  BY <1>9, <1>10

\* Before the first look after a start, a setback moves the ticks by what the
\* cycle counter had gained since the stop or start that looked at it last, up to
\* two roundings (cpu_enable_ticks leaves cpu_ticks_prev alone): with every
\* request of Protocols 30 and 31.
THEOREM UnseenSetbacksBounded == Spec => []UnseenSetbackBounded
<1>1. Init => StoodInv
  BY DEF Init, TimersInit, StoodInv
<1>2. TypeOK /\ StoodInv /\ [Next]_vars => StoodInv'
  BY StoodStep
<1>3. TypeOK /\ StoodInv => UnseenSetbackBounded
  BY StoodIsBounded
<1> QED
  BY <1>1, <1>2, <1>3, ClockTypeCorrect, PTL DEF Spec
=============================================================================
