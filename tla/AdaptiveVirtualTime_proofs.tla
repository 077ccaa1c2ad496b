--------------------- MODULE AdaptiveVirtualTime_proofs ---------------------
(***************************************************************************)
(* Proofs about AdaptiveVirtualTime and the table it extends, for every set *)
(* of hosts and factors, every threshold and every repertoire of requests.  *)
(***************************************************************************)
EXTENDS AdaptiveVirtualTime, WellFoundedInduction, TLAPS

-----------------------------------------------------------------------------
(***************************************************************************)
(* The table by itself: theorems of TableSpec                               *)
(***************************************************************************)

\* maxTdf is defined on every table with an entry: some factor is the largest.
LEMMA MaxTdfExists ==
  ASSUME NEW map \in [Hosts -> Tdfs \cup {NoTdf}],
         NEW h \in Hosts, map[h] # NoTdf
  PROVE  \E m \in Tdfs : IsMaxTdf(m, map)
<1>1. PICK b \in Nat : \A t \in Tdfs : t \in Nat /\ t <= b
  BY TdfTableAssumption
<1> DEFINE Entries == {k \in Hosts : map[k] # NoTdf}
           Below == {b - map[k] : k \in Entries}
<1>2. \A k \in Entries : map[k] \in Tdfs
  OBVIOUS
<1>3. Below \in SUBSET Nat /\ Below # {}
  BY <1>1, <1>2
<1>4. PICK x \in Below : \A y \in Below : x <= y
  <2>1. \E x \in Below : \A y \in Below : ~(<<y, x>> \in OpToRel(<, Nat))
    BY <1>3, NatLessThanWellFounded, WFMin
  <2>2. PICK x \in Below : \A y \in Below : ~(<<y, x>> \in OpToRel(<, Nat))
    BY <2>1
  <2>3. \A y \in Below : ~(y < x)
    BY <1>3, <2>2 DEF OpToRel
  <2> HIDE DEF Below
  <2> QED
    BY <1>3, <2>3
<1>5. PICK k \in Entries : x = b - map[k]
  OBVIOUS
<1>6. \A j \in Entries : b - map[k] <= b - map[j]
  BY <1>4, <1>5
<1>7. \A j \in Entries : map[j] <= map[k]
  <2> TAKE j \in Entries
  <2>1. map[j] \in Nat /\ map[k] \in Nat /\ map[j] <= b /\ map[k] <= b
    BY <1>1, <1>2
  <2>2. b - map[k] <= b - map[j]
    BY <1>6
  <2> QED
    BY <2>1, <2>2
<1> QED
  BY <1>2, <1>7, TdfTableAssumption DEF IsMaxTdf

\* Type correctness of the table.
THEOREM TableTypeCorrect == TableSpec => []TableTypeOK
<1> USE DEF TableTypeOK
<1>1. TableInit => TableTypeOK
  <2> SUFFICES ASSUME TableInit PROVE TableTypeOK
    OBVIOUS
  <2>1. isTableEnabled \in BOOLEAN
    BY Zenon DEF TableInit
  <2> QED
    BY <2>1, TdfTableAssumption DEF TableInit
<1>2. TableTypeOK /\ [TableNext]_tableVars => TableTypeOK'
  <2> SUFFICES ASSUME TableTypeOK, [TableNext]_tableVars PROVE TableTypeOK'
    OBVIOUS
  <2>1. ASSUME NEW h \in Hosts, NEW t \in Tdfs, setQuietly(h, t)
        PROVE  TableTypeOK'
    BY <2>1 DEF setQuietly
  <2>2. ASSUME NEW h \in Hosts, NEW t \in Tdfs, setAndNotify(h, t)
        PROVE  TableTypeOK'
    BY <2>2 DEF setAndNotify
  <2>3. ASSUME NEW t \in Tdfs, enforceTdf(t)
        PROVE  TableTypeOK'
    <3>1. isTableEnabled' \in BOOLEAN
      BY <2>3, Zenon DEF enforceTdf
    <3> QED
      BY <2>3, <3>1 DEF enforceTdf
  <2>4. CASE enableTable
    BY <2>4 DEF enableTable
  <2>5. CASE disableTable
    <3>1. isTableEnabled' \in BOOLEAN
      BY <2>5, Zenon DEF disableTable
    <3> QED
      BY <2>5, <3>1 DEF disableTable
  <2>6. CASE clear
    BY <2>6 DEF clear
  <2>7. ASSUME NEW th \in Thresholds, setThreshold(th)
        PROVE  TableTypeOK'
    BY <2>7 DEF setThreshold
  <2>8. CASE UNCHANGED tableVars
    BY <2>8 DEF tableVars
  <2> QED
    BY <2>1, <2>2, <2>3, <2>4, <2>5, <2>6, <2>7, <2>8 DEF TableNext
<1>3. QED
  BY <1>1, <1>2, PTL DEF TableSpec

-----------------------------------------------------------------------------
\* The arithmetic of the hysteresis: what is too close to be published is
\* within the threshold on either side, and so is every smaller factor above.
LEMMA CloseWithinThreshold ==
  ASSUME TableTypeOK, NEW m \in Tdfs, ~ExceedsThreshold(m),
         NEW t \in Nat, t <= m
  PROVE  /\ \/ t <= latestTdf
            \/ t * Unit < latestTdf * (Unit + tdfChangeThreshold)
         /\ \/ m = latestTdf
            \/ m * Unit > latestTdf * (Unit - tdfChangeThreshold)
<1> DEFINE l == latestTdf
           th == tdfChangeThreshold
<1>1. m \in Nat /\ l \in Nat /\ th \in Nat /\ Unit \in Nat /\ Unit > 0
  BY TdfTableAssumption DEF TableTypeOK
<1>2. CASE l = 0 /\ m = 0
  BY <1>1, <1>2
<1>3. CASE Distance(m, l) * Unit < th * l
  <2>1. l * (Unit + th) = l * Unit + th * l /\ l * (Unit - th) = l * Unit - th * l
    BY <1>1
  <2>2. CASE m < l
    <3>1. (l - m) * Unit = l * Unit - m * Unit
      BY <1>1
    <3>2. l * Unit - m * Unit < th * l
      BY <1>3, <2>2, <3>1 DEF Distance
    <3>3. m * Unit > l * Unit - th * l
      BY <1>1, <3>2
    <3> QED
      BY <1>1, <2>1, <2>2, <3>3
  <2>3. CASE ~(m < l)
    <3>1. (m - l) * Unit = m * Unit - l * Unit
      BY <1>1
    <3>2. m * Unit - l * Unit < th * l
      BY <1>3, <2>3, <3>1 DEF Distance
    <3>3. t * Unit <= m * Unit /\ l * Unit <= m * Unit
      BY <1>1, <2>3
    <3>4. t * Unit < l * Unit + th * l
      BY <1>1, <3>2, <3>3
    <3>5. m = l \/ m * Unit > l * Unit
      BY <1>1, <2>3
    <3>6. th * l >= 0
      BY <1>1
    <3> QED
      BY <1>1, <2>1, <3>4, <3>5, <3>6
  <2> QED
    BY <2>2, <2>3
<1>4. Distance(m, l) * Unit < th * l \/ (l = 0 /\ m = 0)
  <2>1. Distance(m, l) * Unit \in Int /\ th * l \in Int
    BY <1>1 DEF Distance
  <2> QED
    BY <2>1 DEF ExceedsThreshold
<1> QED
  BY <1>2, <1>3, <1>4

\* The published factor tracks the hosts' needs within the threshold.
THEOREM TracksNeeds == TableSpec => PublishedTracksNeed
<1> DEFINE Tracks ==
      (isTableEnabled /\ isTableEnabled' /\ tdfMap' # tdfMap /\ \E h \in Hosts : tdfMap'[h] # NoTdf)
      => /\ \A h \in Hosts : tdfMap'[h] # NoTdf =>
              \/ tdfMap'[h] <= latestTdf'
              \/ tdfMap'[h] * Unit < latestTdf' * (Unit + tdfChangeThreshold)
         /\ \E h \in Hosts : tdfMap'[h] # NoTdf /\
              \/ tdfMap'[h] = latestTdf'
              \/ tdfMap'[h] * Unit > latestTdf' * (Unit - tdfChangeThreshold)
<1>1. TableTypeOK /\ TableTypeOK' /\ [TableNext]_tableVars => [Tracks]_tableVars
  <2> SUFFICES ASSUME TableTypeOK, TableTypeOK', TableNext,
                      tdfMap' # tdfMap, isTableEnabled,
                      NEW g \in Hosts, tdfMap'[g] # NoTdf
               PROVE  Tracks
    BY DEF tableVars
  <2>1. ASSUME NEW h \in Hosts, NEW t \in Tdfs, setQuietly(h, t)
        PROVE  Tracks
    <3>1. tdfMap' \in [Hosts -> Tdfs \cup {NoTdf}] /\ latestTdf' = latestTdf
      BY <2>1 DEF setQuietly, TableTypeOK
    <3>2. PICK m \in Tdfs : IsMaxTdf(m, tdfMap')
      BY <3>1, MaxTdfExists
    <3>3. ~ExceedsThreshold(m)
      BY <2>1, <3>2 DEF setQuietly
    <3>4. ASSUME NEW k \in Hosts, tdfMap'[k] # NoTdf
          PROVE  \/ tdfMap'[k] <= latestTdf'
                 \/ tdfMap'[k] * Unit < latestTdf' * (Unit + tdfChangeThreshold)
      <4>1. tdfMap'[k] \in Nat /\ tdfMap'[k] <= m
        BY <3>1, <3>2, <3>4, TdfTableAssumption DEF IsMaxTdf
      <4> QED
        BY <3>1, <3>3, <4>1, CloseWithinThreshold
    <3>5. m \in Nat /\ m <= m
      BY TdfTableAssumption
    <3>6. m = latestTdf \/ m * Unit > latestTdf * (Unit - tdfChangeThreshold)
      BY <3>3, <3>5, CloseWithinThreshold
    <3>7. PICK k \in Hosts : tdfMap'[k] = m /\ m # NoTdf
      BY <3>2 DEF IsMaxTdf
    <3> QED
      BY <3>1, <3>4, <3>6, <3>7
  <2>2. ASSUME NEW h \in Hosts, NEW t \in Tdfs, setAndNotify(h, t)
        PROVE  Tracks
    <3>1. IsMaxTdf(latestTdf', tdfMap')
      BY <2>2 DEF setAndNotify
    <3> QED
      BY <3>1 DEF IsMaxTdf
  <2>3. ASSUME NEW t \in Tdfs, enforceTdf(t)
        PROVE  Tracks
    BY <2>3 DEF enforceTdf
  <2>4. CASE enableTable \/ disableTable
    BY <2>4 DEF enableTable, disableTable
  <2>5. CASE clear
    BY <2>5 DEF clear
  <2>6. ASSUME NEW th \in Thresholds, setThreshold(th)
        PROVE  Tracks
    BY <2>6 DEF setThreshold
  <2> QED
    BY <2>1, <2>2, <2>3, <2>4, <2>5, <2>6 DEF TableNext
<1>2. QED
  BY <1>1, TableTypeCorrect, PTL DEF TableSpec, PublishedTracksNeed

\* With the table in charge, only the largest requirement is published.
THEOREM PublishesNeeds == TableSpec => PublishesANeed
<1> DEFINE Needed ==
      (latestTdf' # latestTdf /\ isTableEnabled')
      => /\ \E h \in Hosts : tdfMap'[h] = latestTdf'
         /\ \A h \in Hosts : tdfMap'[h] # NoTdf => tdfMap'[h] <= latestTdf'
<1>1. [TableNext]_tableVars => [Needed]_tableVars
  <2>1. ASSUME NEW h \in Hosts, NEW t \in Tdfs, setAndNotify(h, t)
        PROVE  Needed
    BY <2>1 DEF setAndNotify, IsMaxTdf
  <2>2. ASSUME NEW t \in Tdfs, enforceTdf(t)
        PROVE  Needed
    BY <2>2 DEF enforceTdf
  <2> QED
    BY <2>1, <2>2
    DEF TableNext, setQuietly, enableTable, disableTable, clear, setThreshold
<1>2. QED
  BY <1>1, PTL DEF TableSpec, PublishesANeed

\* An operator's override stands while the table is disabled.
THEOREM OverridesStand == TableSpec => OverrideStands
<1>1. [TableNext]_tableVars
      => [(~isTableEnabled /\ latestTdf' # latestTdf)
          => (tdfMap' = tdfMap /\ ~isTableEnabled')]_tableVars
  BY DEF TableNext, setQuietly, setAndNotify, enforceTdf, enableTable,
         disableTable, clear, setThreshold
<1>2. QED
  BY <1>1, PTL DEF TableSpec, OverrideStands

-----------------------------------------------------------------------------
(***************************************************************************)
(* The agent around it: theorems of Spec                                    *)
(***************************************************************************)
USE DEF VTGoTo, vtVars, shmVars, agentVars, tableVars, cpu_enable_ticks,
        cpu_disable_ticks, IOUnchanged, Request, MainGoTo

\* Type correctness: every variable stays in its domain.
THEOREM TypeCorrect == Spec => []TypeOK
<1>1. Init => TypeOK
  <2> SUFFICES ASSUME Init PROVE TypeOK
    OBVIOUS
  <2>1. /\ isTableEnabled \in BOOLEAN
        /\ ioStopped \in BOOLEAN
        /\ ticksEnabled \in BOOLEAN
        /\ missed \in BOOLEAN
    BY Zenon DEF Init, TableInit
  <2> QED
    BY <2>1, TdfTableAssumption
    DEF Init, TableInit, TypeOK, TableTypeOK, VTStarting
<1>2. TypeOK /\ [Next]_vars => TypeOK'
  <2> SUFFICES ASSUME TypeOK, [Next]_vars PROVE TypeOK'
    OBVIOUS
  <2> USE DEF TypeOK, TableTypeOK, VTStarting, VTLooping, VTCycle
  <2>1. CASE VTStart   BY <2>1 DEF VTStart
  <2>2. CASE VTStartGo BY <2>2 DEF VTStartGo
  <2>3. CASE VTCheck   BY <2>3 DEF VTCheck
  <2>4. CASE VTLock    BY <2>4 DEF VTLock
  <2>5. CASE VTWait    BY <2>5 DEF VTWait
  <2>6. CASE VTRelock  BY <2>6 DEF VTRelock
  <2>7. CASE VTDisableTicks
    <3>1. ticksEnabled' \in BOOLEAN
      BY <2>7, Zenon DEF VTDisableTicks
    <3> QED
      BY <2>7, <3>1 DEF VTDisableTicks
  <2>8. CASE VTStopVMs BY <2>8 DEF VTStopVMs
  <2>9. CASE VTSetTdf
    <3>1. missed' \in BOOLEAN
      BY <2>9, Zenon DEF VTSetTdf
    <3> QED
      BY <2>9, <3>1 DEF VTSetTdf
  <2>10. CASE VTUpdateLinks BY <2>10 DEF VTUpdateLinks
  <2>11. CASE VTEnableTicks BY <2>11 DEF VTEnableTicks
  <2>12. CASE VTResumeVMs BY <2>12 DEF VTResumeVMs
  <2>13. CASE VTUnlock BY <2>13 DEF VTUnlock
  <2>14. CASE SpuriousWakeup BY <2>14, AgentAssumption DEF SpuriousWakeup
  <2>15. CASE SetQuietly
    BY <2>15, AgentAssumption DEF SetQuietly, setQuietly
  <2>16. CASE SetAndNotify
    BY <2>16, AgentAssumption DEF SetAndNotify, setAndNotify, NotifyAll, RecordMiss
  <2>17. CASE EnforceTdf
    <3>1. isTableEnabled' \in BOOLEAN
      BY <2>17, Zenon DEF EnforceTdf, enforceTdf
    <3> QED
      BY <2>17, <3>1, AgentAssumption DEF EnforceTdf, enforceTdf, NotifyAll, RecordMiss
  <2>18. CASE TableCommand
    <3> USE DEF enableTable, disableTable, clear, setThreshold
    <3>1. isTableEnabled' \in BOOLEAN
      BY <2>18, Zenon DEF TableCommand
    <3> QED
      BY <2>18, <3>1, AgentAssumption DEF TableCommand
  <2>19. CASE ChangeLink BY <2>19, AgentAssumption DEF ChangeLink
  <2>20. CASE ReplaceLink
    BY <2>20, AgentAssumption, TdfTableAssumption DEF ReplaceLink
  <2>21. CASE EnableVMSuspensions
    BY <2>21, AgentAssumption DEF EnableVMSuspensions
  <2>22. CASE DisableVMSuspensions
    <3>1. isVMSuspensionsEnabled' \in BOOLEAN
      BY <2>22, Zenon DEF DisableVMSuspensions
    <3> QED
      BY <2>22, <3>1, AgentAssumption DEF DisableVMSuspensions
  <2>23. CASE SuspendVMs
    <3>1. ticksEnabled' \in BOOLEAN
      BY <2>23, Zenon DEF SuspendVMs
    <3> QED
      BY <2>23, <3>1, AgentAssumption DEF SuspendVMs
  <2>24. CASE ResumeVMs BY <2>24, AgentAssumption DEF ResumeVMs
  <2>25. CASE SuspendVMsStop BY <2>25 DEF SuspendVMsStop
  <2>26. CASE ResumeVMsGo BY <2>26 DEF ResumeVMsGo
  <2>27. CASE IOExit BY <2>27 DEF IOExit
  <2>28. CASE Sigterm
    <3>1. isRunning' \in BOOLEAN
      BY <2>28, Zenon DEF Sigterm
    <3> QED
      BY <2>28, <3>1 DEF Sigterm
  <2>29. CASE MonitorExit BY <2>29 DEF MonitorExit
  <2>30. CASE MainJoinMonitor BY <2>30 DEF MainJoinMonitor
  <2>31. CASE MainNotify BY <2>31 DEF MainNotify, NotifyAll
  <2>32. CASE MainJoinVT BY <2>32 DEF MainJoinVT
  <2>33. CASE MainStopIo BY <2>33 DEF MainStopIo
  <2>34. CASE MainJoinIo BY <2>34 DEF MainJoinIo
  <2>35. CASE MainDestroy
    <3>1. shmLive' \in BOOLEAN
      BY <2>35, Zenon DEF MainDestroy
    <3> QED
      BY <2>35, <3>1 DEF MainDestroy
  <2>36. CASE UNCHANGED vars BY <2>36 DEF vars
  <2> QED
    BY <2>1, <2>2, <2>3, <2>4, <2>5, <2>6, <2>7, <2>8, <2>9, <2>10, <2>11,
       <2>12, <2>13, <2>14, <2>15, <2>16, <2>17, <2>18, <2>19, <2>20, <2>21,
       <2>22, <2>23, <2>24, <2>25, <2>26, <2>27, <2>28, <2>29, <2>30, <2>31,
       <2>32, <2>33, <2>34, <2>35, <2>36
    DEF Next, VTNext, Requests, IOContinue, MainNext
<1>3. QED
  BY <1>1, <1>2, PTL DEF Spec

-----------------------------------------------------------------------------
(***************************************************************************)
(* The inductive invariant, one conjunct at a time                          *)
(***************************************************************************)

\* Who holds tdfTable.mutex when: the VirtualTime thread, from its return
\* from the wait to the end of its cycle.
THEOREM MutexCorrect == Spec => []MutexDiscipline
<1>1. Init => MutexDiscipline
  BY DEF Init, MutexDiscipline, VTCycle
<1>2. MutexDiscipline /\ [Next]_vars => MutexDiscipline'
  <2> SUFFICES ASSUME MutexDiscipline, [Next]_vars PROVE MutexDiscipline'
    OBVIOUS
  <2> USE DEF MutexDiscipline, VTCycle
  <2>1. CASE VTNext
    BY <2>1
    DEF VTNext, VTStart, VTStartGo, VTCheck, VTLock, VTWait, VTRelock,
        VTDisableTicks, VTStopVMs, VTSetTdf, VTUpdateLinks, VTEnableTicks,
        VTResumeVMs, VTUnlock
  <2>2. CASE SpuriousWakeup
    BY <2>2 DEF SpuriousWakeup
  <2>3. CASE SetAndNotify \/ EnforceTdf \/ MainNotify
    \* a notify moves the thread between two places without the mutex
    BY <2>3 DEF SetAndNotify, EnforceTdf, MainNotify, NotifyAll
  <2>4. CASE UNCHANGED <<pcVT, mutex>>
    BY <2>4
  <2>5. [Next]_vars /\ ~VTNext /\ ~SpuriousWakeup
        /\ ~(SetAndNotify \/ EnforceTdf \/ MainNotify)
        => UNCHANGED <<pcVT, mutex>>
    BY DEF Next, Requests, IOContinue, MainNext, SetQuietly, TableCommand,
           ChangeLink, ReplaceLink, EnableVMSuspensions, DisableVMSuspensions,
           SuspendVMs, SuspendVMsStop, ResumeVMs, ResumeVMsGo, IOExit, Sigterm,
           MonitorExit, MainJoinMonitor, MainJoinVT, MainStopIo, MainJoinIo,
           MainDestroy, vars
  <2> QED
    BY <2>1, <2>2, <2>3, <2>4, <2>5
<1>3. QED
  BY <1>1, <1>2, PTL DEF Spec

-----------------------------------------------------------------------------
\* What the two threads that exchange the factor may rely on: from its read
\* to the end of its cycle the VirtualTime thread holds the published factor
\* (CoherentResume), and before that it lacks one only if it was woken since
\* it last read, or the wakeup was lost.
LEMMA AppliedInduction ==
  ASSUME MutexDiscipline, CoherentResume, UnheardMeansApplied, [Next]_vars
  PROVE  CoherentResume' /\ UnheardMeansApplied'
<1> USE DEF MutexDiscipline, CoherentResume, UnheardMeansApplied, VTStarting,
            VTLooping, VTCycle
<1>1. CASE VTStart \/ VTStartGo \/ VTCheck \/ VTLock \/ VTWait
  BY <1>1 DEF VTStart, VTStartGo, VTCheck, VTLock, VTWait
<1>2. CASE VTRelock \/ VTDisableTicks \/ VTStopVMs
  BY <1>2 DEF VTRelock, VTDisableTicks, VTStopVMs
<1>3. CASE VTSetTdf
  BY <1>3 DEF VTSetTdf
<1>4. CASE VTUpdateLinks \/ VTEnableTicks \/ VTResumeVMs \/ VTUnlock
  BY <1>4 DEF VTUpdateLinks, VTEnableTicks, VTResumeVMs, VTUnlock
<1>5. CASE SpuriousWakeup
  BY <1>5 DEF SpuriousWakeup
<1>6. CASE SetAndNotify \/ EnforceTdf
  \* the mutex is free, so the thread is outside its cycle; it is woken, or
  \* the miss is recorded
  <2>1. pcVT \notin VTCycle \cup {"towait"}
    BY <1>6 DEF SetAndNotify, EnforceTdf
  <2>2. sharedTdf' = sharedTdf
    BY <1>6 DEF SetAndNotify, EnforceTdf
  <2>3. CASE pcVT \in {"waiting", "woken"}
    <3>1. pcVT' = "woken"
      BY <1>6, <2>3 DEF SetAndNotify, EnforceTdf, NotifyAll
    <3> QED
      BY <3>1
  <2>4. CASE pcVT \notin {"waiting", "woken"}
    <3>1. pcVT' = pcVT
      BY <1>6, <2>4 DEF SetAndNotify, EnforceTdf, NotifyAll
    <3>2. missed'
      BY <1>6, <2>4 DEF SetAndNotify, EnforceTdf, RecordMiss
    <3> QED
      BY <2>1, <3>1, <3>2
  <2> QED
    BY <2>3, <2>4
<1>7. CASE MainNotify
  BY <1>7 DEF MainNotify, NotifyAll
<1>8. CASE UNCHANGED <<pcVT, sharedTdf, latestTdf, missed>>
  BY <1>8
<1>9. [Next]_vars /\ ~VTNext /\ ~SpuriousWakeup
      /\ ~(SetAndNotify \/ EnforceTdf) /\ ~MainNotify
      => UNCHANGED <<pcVT, sharedTdf, latestTdf, missed>>
  BY DEF Next, Requests, IOContinue, MainNext, SetQuietly, setQuietly,
         TableCommand, enableTable, disableTable, clear, setThreshold,
         ChangeLink, ReplaceLink, EnableVMSuspensions, DisableVMSuspensions,
         SuspendVMs, SuspendVMsStop, ResumeVMs, ResumeVMsGo, IOExit, Sigterm,
         MonitorExit, MainJoinMonitor, MainJoinVT, MainStopIo, MainJoinIo,
         MainDestroy, vars
<1> QED
  BY <1>1, <1>2, <1>3, <1>4, <1>5, <1>6, <1>7, <1>8, <1>9 DEF VTNext

\* The guests are never resumed on a factor other than the published one.
THEOREM ResumeIsCoherent == Spec => []CoherentResume
<1>1. Init => CoherentResume /\ UnheardMeansApplied
  BY DEF Init, TableInit, CoherentResume, UnheardMeansApplied
<1>2. MutexDiscipline /\ CoherentResume /\ UnheardMeansApplied /\ [Next]_vars
      => (CoherentResume /\ UnheardMeansApplied)'
  BY AppliedInduction
<1>3. QED
  BY <1>1, <1>2, MutexCorrect, PTL DEF Spec

\* Only a lost wakeup leaves the guests on an old factor.
THEOREM OnlyLostWakeups == Spec => []StaleOnlyIfMissed
<1>1. Init => CoherentResume /\ UnheardMeansApplied
  BY DEF Init, TableInit, CoherentResume, UnheardMeansApplied
<1>2. MutexDiscipline /\ CoherentResume /\ UnheardMeansApplied /\ [Next]_vars
      => (CoherentResume /\ UnheardMeansApplied)'
  BY AppliedInduction
<1>3. UnheardMeansApplied => StaleOnlyIfMissed
  BY DEF UnheardMeansApplied, StaleOnlyIfMissed, VTLooping
<1>4. QED
  BY <1>1, <1>2, <1>3, MutexCorrect, PTL DEF Spec

-----------------------------------------------------------------------------
\* The shared memory and the semaphore outlive the threads that use them.
THEOREM DestroyIsLast == Spec => []NoUseAfterDestroy
<1> USE DEF JoinOrder
<1>1. Init => JoinOrder
  BY DEF Init
<1>2. JoinOrder /\ [Next]_vars => JoinOrder'
  <2> SUFFICES ASSUME JoinOrder, [Next]_vars PROVE JoinOrder'
    OBVIOUS
  <2>1. CASE VTNext
    \* the thread never leaves "done"
    <3>1. pcVT # "done" /\ UNCHANGED <<pcMain, pcMon, pcIO, shmLive>>
      BY <2>1
      DEF VTNext, VTStart, VTStartGo, VTCheck, VTLock, VTWait, VTRelock,
          VTDisableTicks, VTStopVMs, VTSetTdf, VTUpdateLinks, VTEnableTicks,
          VTResumeVMs, VTUnlock
    <3> QED
      BY <3>1
  <2>2. CASE SpuriousWakeup
    BY <2>2 DEF SpuriousWakeup
  <2>3. CASE Requests \/ IOContinue
    <3>1. pcIO # "done" /\ UNCHANGED <<pcMain, pcMon, shmLive>>
      BY <2>3
      DEF Requests, IOContinue, SetQuietly, SetAndNotify, EnforceTdf,
          TableCommand, ChangeLink, ReplaceLink, EnableVMSuspensions,
          DisableVMSuspensions, SuspendVMs, SuspendVMsStop, ResumeVMs,
          ResumeVMsGo, IOExit
    <3>2. pcVT = "done" => pcVT' = "done"
      BY <2>3
      DEF Requests, IOContinue, SetQuietly, SetAndNotify, EnforceTdf,
          TableCommand, ChangeLink, ReplaceLink, EnableVMSuspensions,
          DisableVMSuspensions, SuspendVMs, SuspendVMsStop, ResumeVMs,
          ResumeVMsGo, IOExit, NotifyAll
    <3> QED
      BY <3>1, <3>2
  <2>4. CASE Sigterm \/ MonitorExit
    BY <2>4 DEF Sigterm, MonitorExit
  <2>5. CASE MainJoinMonitor BY <2>5 DEF MainJoinMonitor
  <2>6. CASE MainNotify BY <2>6 DEF MainNotify
  <2>7. CASE MainJoinVT BY <2>7 DEF MainJoinVT
  <2>8. CASE MainStopIo BY <2>8 DEF MainStopIo
  <2>9. CASE MainJoinIo BY <2>9 DEF MainJoinIo
  <2>10. CASE MainDestroy BY <2>10 DEF MainDestroy
  <2>11. CASE UNCHANGED vars BY <2>11 DEF vars
  <2> QED
    BY <2>1, <2>2, <2>3, <2>4, <2>5, <2>6, <2>7, <2>8, <2>9, <2>10, <2>11
    DEF Next, MainNext
<1>3. JoinOrder => NoUseAfterDestroy
  BY DEF NoUseAfterDestroy
<1>4. QED
  BY <1>1, <1>2, <1>3, PTL DEF Spec

-----------------------------------------------------------------------------
(***************************************************************************)
(* The table inside the agent                                               *)
(***************************************************************************)

\* Within the agent the table takes only the steps of TdfTable: no thread
\* touches it in any other way.
THEOREM AgentRunsTable == Spec => TableSpec
<1>1. Init => TableInit
  BY DEF Init
<1>2. [Next]_vars => [TableNext]_tableVars
  <2> SUFFICES ASSUME [Next]_vars PROVE [TableNext]_tableVars
    OBVIOUS
  <2>1. CASE SetQuietly
    BY <2>1 DEF SetQuietly, TableNext
  <2>2. CASE SetAndNotify
    BY <2>2 DEF SetAndNotify, TableNext
  <2>3. CASE EnforceTdf
    BY <2>3 DEF EnforceTdf, TableNext
  <2>4. CASE TableCommand
    BY <2>4 DEF TableCommand, TableNext
  <2>5. CASE UNCHANGED tableVars
    BY <2>5
  <2>6. ~SetQuietly /\ ~SetAndNotify /\ ~EnforceTdf /\ ~TableCommand
        => UNCHANGED tableVars
    BY DEF Next, VTNext, VTStart, VTStartGo, VTCheck, VTLock, VTWait, VTRelock,
           VTDisableTicks, VTStopVMs, VTSetTdf, VTUpdateLinks, VTEnableTicks,
           VTResumeVMs, VTUnlock, SpuriousWakeup, Requests, IOContinue, MainNext,
           ChangeLink, ReplaceLink, EnableVMSuspensions, DisableVMSuspensions,
           SuspendVMs, SuspendVMsStop, ResumeVMs, ResumeVMsGo, IOExit, Sigterm,
           MonitorExit, MainJoinMonitor, MainNotify, MainJoinVT, MainStopIo,
           MainJoinIo, MainDestroy, vars
  <2> QED
    BY <2>1, <2>2, <2>3, <2>4, <2>5, <2>6
<1> QED
  BY <1>1, <1>2, PTL DEF Spec, TableSpec

\* So, in the agent too, the published factor tracks what the hosts need.
COROLLARY AgentTracksNeeds == Spec => PublishedTracksNeed
BY AgentRunsTable, TracksNeeds, PTL

\* ... is one that the most loaded host needs ...
COROLLARY AgentPublishesNeeds == Spec => PublishesANeed
BY AgentRunsTable, PublishesNeeds, PTL

\* ... unless an operator's override stands.
COROLLARY AgentOverridesStand == Spec => OverrideStands
BY AgentRunsTable, OverridesStand, PTL

-----------------------------------------------------------------------------
(***************************************************************************)
(* What holds when the operator keeps away from some requests               *)
(***************************************************************************)

\* The factor in shared memory is written by the VirtualTime thread only.
LEMMA OnlyVTSetsTdf ==
  ASSUME [Next]_vars, sharedTdf' # sharedTdf
  PROVE  VTSetTdf
BY DEF Next, VTNext, VTStart, VTStartGo, VTCheck, VTLock, VTWait, VTRelock,
       VTDisableTicks, VTStopVMs, VTUpdateLinks, VTEnableTicks, VTResumeVMs,
       VTUnlock, SpuriousWakeup, Requests, IOContinue, MainNext, SetQuietly,
       SetAndNotify, EnforceTdf, TableCommand, ChangeLink, ReplaceLink,
       EnableVMSuspensions, DisableVMSuspensions, SuspendVMs, SuspendVMsStop,
       ResumeVMs, ResumeVMsGo, IOExit, Sigterm, MonitorExit, MainJoinMonitor,
       MainNotify, MainJoinVT, MainStopIo, MainJoinIo, MainDestroy, vars

\* Without Protocol 31 the factor changes only while the clock is stopped.
THEOREM RetunesStoppedClock ==
  ASSUME "resume" \notin Commands
  PROVE  Spec => ChangesOnlyStopped
<1>1. Init => FrozenCycle
  BY DEF Init, FrozenCycle
<1>2. FrozenCycle /\ [Next]_vars => FrozenCycle'
  <2> SUFFICES ASSUME FrozenCycle, [Next]_vars PROVE FrozenCycle'
    OBVIOUS
  <2> USE DEF FrozenCycle
  <2>1. CASE VTNext
    BY <2>1
    DEF VTNext, VTStart, VTStartGo, VTCheck, VTLock, VTWait, VTRelock,
        VTDisableTicks, VTStopVMs, VTSetTdf, VTUpdateLinks, VTEnableTicks,
        VTResumeVMs, VTUnlock
  <2>2. CASE SpuriousWakeup
    BY <2>2 DEF SpuriousWakeup
  <2>3. CASE SetAndNotify \/ EnforceTdf \/ MainNotify
    BY <2>3 DEF SetAndNotify, EnforceTdf, MainNotify, NotifyAll
  <2>4. CASE SuspendVMs
    BY <2>4 DEF SuspendVMs
  <2>5. ~ResumeVMs
    BY DEF ResumeVMs
  <2>6. CASE UNCHANGED <<pcVT, ticksEnabled>>
    BY <2>6
  <2>7. [Next]_vars /\ ~VTNext /\ ~SpuriousWakeup
        /\ ~(SetAndNotify \/ EnforceTdf \/ MainNotify)
        /\ ~SuspendVMs /\ ~ResumeVMs
        => UNCHANGED <<pcVT, ticksEnabled>>
    BY DEF Next, Requests, IOContinue, MainNext, SetQuietly, TableCommand,
           ChangeLink, ReplaceLink, EnableVMSuspensions, DisableVMSuspensions,
           SuspendVMsStop, ResumeVMsGo, IOExit, Sigterm, MonitorExit,
           MainJoinMonitor, MainJoinVT, MainStopIo, MainJoinIo, MainDestroy, vars
  <2> QED
    BY <2>1, <2>2, <2>3, <2>4, <2>5, <2>6, <2>7
<1>3. FrozenCycle /\ [Next]_vars
      => [sharedTdf' # sharedTdf => ~ticksEnabled]_vars
  <2> SUFFICES ASSUME FrozenCycle, [Next]_vars, sharedTdf' # sharedTdf
               PROVE  ~ticksEnabled
    OBVIOUS
  <2>1. VTSetTdf
    BY OnlyVTSetsTdf
  <2> QED
    BY <2>1 DEF VTSetTdf, FrozenCycle
<1>4. QED
  BY <1>1, <1>2, <1>3, PTL DEF Spec, ChangesOnlyStopped

\* Without Protocols 31 and 25 the VMs wait at the semaphore meanwhile.
THEOREM RetunesFrozenGuests ==
  ASSUME "resume" \notin Commands, "suspOff" \notin Commands
  PROVE  Spec => ChangesOnlyFrozen
<1>1. Init => StoppedCycle
  BY DEF Init, StoppedCycle
<1>2. StoppedCycle /\ [Next]_vars => StoppedCycle'
  <2> SUFFICES ASSUME StoppedCycle, [Next]_vars PROVE StoppedCycle'
    OBVIOUS
  <2> USE DEF StoppedCycle
  <2>1. CASE VTNext
    BY <2>1
    DEF VTNext, VTStart, VTStartGo, VTCheck, VTLock, VTWait, VTRelock,
        VTDisableTicks, VTStopVMs, VTSetTdf, VTUpdateLinks, VTEnableTicks,
        VTResumeVMs, VTUnlock
  <2>2. CASE SpuriousWakeup
    BY <2>2 DEF SpuriousWakeup
  <2>3. CASE SetAndNotify \/ EnforceTdf \/ MainNotify
    BY <2>3 DEF SetAndNotify, EnforceTdf, MainNotify, NotifyAll
  <2>4. CASE SuspendVMs \/ SuspendVMsStop
    BY <2>4 DEF SuspendVMs, SuspendVMsStop
  <2>5. CASE IOExit \/ EnableVMSuspensions
    BY <2>5 DEF IOExit, EnableVMSuspensions
  <2>6. ~ResumeVMs /\ ~ResumeVMsGo /\ ~DisableVMSuspensions
    BY DEF ResumeVMs, ResumeVMsGo, DisableVMSuspensions
  <2>7. CASE UNCHANGED <<pcVT, pcIO, sem, isVMSuspensionsEnabled>>
    BY <2>7
  <2>8. [Next]_vars /\ ~VTNext /\ ~SpuriousWakeup
        /\ ~(SetAndNotify \/ EnforceTdf \/ MainNotify)
        /\ ~(SuspendVMs \/ SuspendVMsStop) /\ ~(IOExit \/ EnableVMSuspensions)
        /\ ~ResumeVMs /\ ~ResumeVMsGo /\ ~DisableVMSuspensions
        => UNCHANGED <<pcVT, pcIO, sem, isVMSuspensionsEnabled>>
    BY DEF Next, Requests, IOContinue, MainNext, SetQuietly, TableCommand,
           ChangeLink, ReplaceLink, Sigterm, MonitorExit, MainJoinMonitor,
           MainJoinVT, MainStopIo, MainJoinIo, MainDestroy, vars
  <2> QED
    BY <2>1, <2>2, <2>3, <2>4, <2>5, <2>6, <2>7, <2>8
<1>3. StoppedCycle /\ [Next]_vars
      => [sharedTdf' # sharedTdf => sem = "STOP"]_vars
  <2> SUFFICES ASSUME StoppedCycle, [Next]_vars, sharedTdf' # sharedTdf
               PROVE  sem = "STOP"
    OBVIOUS
  <2>1. VTSetTdf
    BY OnlyVTSetsTdf
  <2> QED
    BY <2>1 DEF VTSetTdf, StoppedCycle
<1>4. Spec => [][sharedTdf' # sharedTdf => ~ticksEnabled]_vars
  BY RetunesStoppedClock DEF ChangesOnlyStopped
<1>5. [sharedTdf' # sharedTdf => sem = "STOP"]_vars
      /\ [sharedTdf' # sharedTdf => ~ticksEnabled]_vars
      => [sharedTdf' # sharedTdf => ~ticksEnabled /\ sem = "STOP"]_vars
  OBVIOUS
<1>6. QED
  BY <1>1, <1>2, <1>3, <1>4, <1>5, PTL DEF Spec, ChangesOnlyFrozen

\* Without Protocol 1 the links are resumed with the factor of the clock.
THEOREM LinksResumeCoherent ==
  ASSUME "replace" \notin Commands
  PROVE  Spec => []LinksFollowClock
<1>1. Init => LinksUpdated
  BY DEF Init, LinksUpdated
<1>2. MutexDiscipline /\ LinksUpdated /\ [Next]_vars => LinksUpdated'
  <2> SUFFICES ASSUME MutexDiscipline, LinksUpdated, [Next]_vars
               PROVE  LinksUpdated'
    OBVIOUS
  <2> USE DEF LinksUpdated
  <2>1. CASE VTNext
    BY <2>1
    DEF VTNext, VTStart, VTStartGo, VTCheck, VTLock, VTWait, VTRelock,
        VTDisableTicks, VTStopVMs, VTSetTdf, VTUpdateLinks, VTEnableTicks,
        VTResumeVMs, VTUnlock
  <2>2. CASE SpuriousWakeup
    BY <2>2 DEF SpuriousWakeup
  <2>3. CASE SetAndNotify \/ EnforceTdf
    \* the mutex is free: no cycle is under way
    BY <2>3 DEF SetAndNotify, EnforceTdf, NotifyAll, MutexDiscipline, VTCycle
  <2>4. CASE MainNotify
    BY <2>4 DEF MainNotify, NotifyAll
  <2>5. CASE ChangeLink
    BY <2>5 DEF ChangeLink
  <2>6. ~ReplaceLink
    BY DEF ReplaceLink
  <2>7. CASE UNCHANGED <<pcVT, linkTdf, latestTdf>>
    BY <2>7
  <2>8. [Next]_vars /\ ~VTNext /\ ~SpuriousWakeup
        /\ ~(SetAndNotify \/ EnforceTdf) /\ ~MainNotify
        /\ ~ChangeLink /\ ~ReplaceLink
        => UNCHANGED <<pcVT, linkTdf, latestTdf>>
    BY DEF Next, Requests, IOContinue, MainNext, SetQuietly, setQuietly,
           TableCommand, enableTable, disableTable, clear, setThreshold,
           EnableVMSuspensions, DisableVMSuspensions, SuspendVMs,
           SuspendVMsStop, ResumeVMs, ResumeVMsGo, IOExit, Sigterm,
           MonitorExit, MainJoinMonitor, MainJoinVT, MainStopIo, MainJoinIo,
           MainDestroy, vars
  <2> QED
    BY <2>1, <2>2, <2>3, <2>4, <2>5, <2>6, <2>7, <2>8
<1>3. LinksUpdated /\ CoherentResume => LinksFollowClock
  BY DEF LinksUpdated, CoherentResume, LinksFollowClock
<1>4. QED
  BY <1>1, <1>2, <1>3, MutexCorrect, ResumeIsCoherent, PTL DEF Spec
=============================================================================
