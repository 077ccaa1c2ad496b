------------------------- MODULE AdaptiveVirtualTime ------------------------
(***************************************************************************)
(* The threads of one agent and the state they share with the guests.       *)
(*                                                                          *)
(*   VirtualTime thread  waits on tdfTable.cond; when woken it stops the    *)
(*                       virtual clock and the VMs, copies the latest TDF   *)
(*                       to shared memory, rescales the links, resumes both *)
(*   io thread           runs every TCP and UDP handler, one at a time      *)
(*   CpuMonitor thread   broadcasts this host's required TDF                *)
(*   main                joins the threads and destroys the shared memory   *)
(*                                                                          *)
(* The VirtualTime thread is the only one that holds tdfTable.mutex over    *)
(* several steps.  A handler that locks it for one critical section is one  *)
(* step here, guarded by the mutex being free: a handler that blocks on the *)
(* mutex changes nothing while it waits, so starting it later is the same.  *)
(*                                                                          *)
(* cpu_enable_ticks and cpu_disable_ticks are single steps on the enabled   *)
(* flag; what they do to the clock is TimersState's subject, and how their  *)
(* own loads and stores interleave is ClockRace's.                          *)
(***************************************************************************)
EXTENDS TdfTable

CONSTANTS
  Commands,   \* the requests this instance lets arrive (see AllCommands)
  MaxMsgs     \* bound: how many requests and signals arrive

\* The requests of MessageProcessor that reach the state of this module, by
\* protocol number, "term" for SIGTERM and "wake" for a spurious wakeup.
AllCommands ==
  {"set",          \* UDP 10
   "change",       \* UDP 3: rescale a link
   "replace",      \* TCP 1: (re)configure a link
   "enforce",      \* TCP 11
   "enableTable",  \* TCP 12
   "disableTable", \* TCP 13
   "threshold",    \* TCP 23
   "suspOn",       \* TCP 24: enable VM suspensions
   "suspOff",      \* TCP 25: disable VM suspensions
   "clear",        \* TCP 28
   "suspend",      \* TCP 30: suspend VMs
   "resume",       \* TCP 31: resume VMs
   "term", "wake"}

ASSUME AgentAssumption ==
  /\ Commands \subseteq AllCommands
  /\ MaxMsgs \in Nat

VARIABLES
  pcVT,        \* where the VirtualTime thread is
  mutex,       \* tdfTable.mutex, across steps: "free" or "VT"
  pcIO,        \* where the io thread is within a handler
  pcMon,       \* the CpuMonitor thread: "loop" or "done"
  pcMain,      \* where VirtualAgent::start is
  isRunning,   \* SignalHandler::isRunning
  ioStopped,   \* ioService.stop() was called
  isVMSuspensionsEnabled,  \* Configuration::isVMSuspensionsEnabled
  sharedTdf,   \* *tdf, in shared memory
  linkTdf,     \* the factor of the last tc commands on a (representative) link
  ticksEnabled,\* timers_state->cpu_ticks_enabled, in shared memory
  sem,         \* the gostop semaphore: VMs pass it only when it is "GO"
  shmLive,     \* the shared memory and the semaphore exist
  missed,      \* history: a TDF was notified while the VirtualTime thread was
               \* neither asleep nor about to read, and it has not read since
  msgs         \* how many requests and signals have arrived

vtVars    == <<pcVT, mutex>>
shmVars   == <<sharedTdf, ticksEnabled, sem, shmLive>>
agentVars == <<pcMon, pcMain, isRunning, ioStopped>>
vars == <<tableVars, vtVars, pcIO, agentVars, isVMSuspensionsEnabled, shmVars,
          linkTdf, missed, msgs>>

VTStarting == {"start", "startgo"}
VTLooping  == {"check", "lock", "towait", "waiting", "woken"}
VTCycle    == {"disable", "stop", "settdf", "links", "enable", "go", "unlock"}

TypeOK ==
  /\ TableTypeOK
  /\ pcVT \in VTStarting \cup VTLooping \cup VTCycle \cup {"done"}
  /\ mutex \in {"free", "VT"}
  /\ pcIO \in {"idle", "suspending", "resuming", "done"}
  /\ pcMon \in {"loop", "done"}
  /\ pcMain \in {"joinMon", "notify", "joinVT", "stopIo", "joinIo", "destroy", "done"}
  /\ isRunning \in BOOLEAN
  /\ ioStopped \in BOOLEAN
  /\ isVMSuspensionsEnabled \in BOOLEAN
  /\ sharedTdf \in Tdfs
  /\ linkTdf \in Tdfs
  /\ ticksEnabled \in BOOLEAN
  /\ sem \in {"GO", "STOP"}
  /\ shmLive \in BOOLEAN
  /\ missed \in BOOLEAN
  /\ msgs \in Nat

\* After createSharedMemory and the start of the three threads.  Nothing sets
\* the semaphore before the VirtualTime thread does: one that an earlier agent
\* left behind keeps its value.
Init ==
  /\ TableInit
  /\ pcVT = "start"
  /\ mutex = "free"
  /\ pcIO = "idle"
  /\ pcMon = "loop"
  /\ pcMain = "joinMon"
  /\ isRunning = TRUE
  /\ ioStopped = FALSE
  /\ isVMSuspensionsEnabled = TRUE
  /\ sharedTdf = One
  /\ linkTdf = One
  /\ ticksEnabled = FALSE
  /\ sem \in {"GO", "STOP"}
  /\ shmLive = TRUE
  /\ missed = FALSE
  /\ msgs = 0

-----------------------------------------------------------------------------
(***************************************************************************)
(* The condition variable                                                   *)
(***************************************************************************)

\* Mutant of NotifyAll: the notify is forgotten.
NotifyNobody == pcVT' = pcVT

\* cond.notify_all(): only a thread that is asleep hears it.
NotifyAll == pcVT' = IF pcVT = "waiting" THEN "woken" ELSE pcVT

\* The history of a notify that announces a TDF.
RecordMiss == missed' = (missed \/ pcVT \notin {"waiting", "woken"})

-----------------------------------------------------------------------------
(***************************************************************************)
(* The VirtualTime thread (VirtualTime::start, startAdaptiveVirtualTime)    *)
(***************************************************************************)

\* Mutant of cpu_disable_ticks: its test of the flag is inverted.
cpu_disable_ticks_inverted == ticksEnabled' = ticksEnabled

cpu_enable_ticks  == ticksEnabled' = TRUE
cpu_disable_ticks == ticksEnabled' = FALSE

VTGoTo(from, to) == pcVT = from /\ pcVT' = to

\* init_clocks(); cpu_enable_ticks()
VTStart ==
  /\ VTGoTo("start", "startgo")
  /\ cpu_enable_ticks
  /\ UNCHANGED <<tableVars, mutex, pcIO, agentVars, isVMSuspensionsEnabled,
                 sharedTdf, sem, shmLive, linkTdf, missed, msgs>>

\* semaphore_setval(semid_gostop, VIRHOST, SEMGO)
VTStartGo ==
  /\ VTGoTo("startgo", "check")
  /\ sem' = "GO"
  /\ UNCHANGED <<tableVars, mutex, pcIO, agentVars, isVMSuspensionsEnabled,
                 sharedTdf, ticksEnabled, shmLive, linkTdf, missed, msgs>>

\* while (SignalHandler::isRunning)
VTCheck ==
  /\ VTGoTo("check", IF isRunning THEN "lock" ELSE "done")
  /\ UNCHANGED <<tableVars, mutex, pcIO, agentVars, isVMSuspensionsEnabled,
                 shmVars, linkTdf, missed, msgs>>

\* boost::unique_lock lock(tdfTable.mutex)
VTLock ==
  /\ VTGoTo("lock", "towait")
  /\ mutex = "free"
  /\ mutex' = "VT"
  /\ UNCHANGED <<tableVars, pcIO, agentVars, isVMSuspensionsEnabled, shmVars,
                 linkTdf, missed, msgs>>

\* cond.wait(tdfTable.mutex): unlock and sleep, whatever was notified before.
VTWait ==
  /\ VTGoTo("towait", "waiting")
  /\ mutex' = "free"
  /\ UNCHANGED <<tableVars, pcIO, agentVars, isVMSuspensionsEnabled, shmVars,
                 linkTdf, missed, msgs>>

\* A condition variable may wake a thread that nobody notified.
SpuriousWakeup ==
  /\ "wake" \in Commands
  /\ msgs < MaxMsgs
  /\ msgs' = msgs + 1
  /\ VTGoTo("waiting", "woken")
  /\ UNCHANGED <<tableVars, mutex, pcIO, agentVars, isVMSuspensionsEnabled,
                 shmVars, linkTdf, missed>>

\* Mutant of VTRelock: the wait returns without the mutex.
VTRelockWithoutMutex ==
  /\ VTGoTo("woken", "disable")
  /\ UNCHANGED <<tableVars, mutex, pcIO, agentVars, isVMSuspensionsEnabled,
                 shmVars, linkTdf, missed, msgs>>

\* cond.wait returns with the mutex held.
VTRelock ==
  /\ VTGoTo("woken", "disable")
  /\ mutex = "free"
  /\ mutex' = "VT"
  /\ UNCHANGED <<tableVars, pcIO, agentVars, isVMSuspensionsEnabled, shmVars,
                 linkTdf, missed, msgs>>

VTDisableTicks ==
  /\ VTGoTo("disable", "stop")
  /\ cpu_disable_ticks
  /\ UNCHANGED <<tableVars, mutex, pcIO, agentVars, isVMSuspensionsEnabled,
                 sharedTdf, sem, shmLive, linkTdf, missed, msgs>>

\* Mutant of VTStopVMs: VMs are stopped only when suspensions are disabled.
VTStopVMsInverted ==
  /\ VTGoTo("stop", "settdf")
  /\ sem' = IF isVMSuspensionsEnabled THEN sem ELSE "STOP"
  /\ UNCHANGED <<tableVars, mutex, pcIO, agentVars, isVMSuspensionsEnabled,
                 sharedTdf, ticksEnabled, shmLive, linkTdf, missed, msgs>>

\* if (isVMSuspensionsEnabled) SEMSTOP
VTStopVMs ==
  /\ VTGoTo("stop", "settdf")
  /\ sem' = IF isVMSuspensionsEnabled THEN "STOP" ELSE sem
  /\ UNCHANGED <<tableVars, mutex, pcIO, agentVars, isVMSuspensionsEnabled,
                 sharedTdf, ticksEnabled, shmLive, linkTdf, missed, msgs>>

\* newTdf = getLatestTdf(); setTdf(newTdf)
VTSetTdf ==
  /\ VTGoTo("settdf", "links")
  /\ sharedTdf' = latestTdf
  /\ missed' = FALSE
  /\ UNCHANGED <<tableVars, mutex, pcIO, agentVars, isVMSuspensionsEnabled,
                 ticksEnabled, sem, shmLive, linkTdf, msgs>>

\* Mutant of VTUpdateLinks: the links are reset, as Protocol 1 does.
VTResetLinks ==
  /\ VTGoTo("links", "enable")
  /\ linkTdf' = One
  /\ UNCHANGED <<tableVars, mutex, pcIO, agentVars, isVMSuspensionsEnabled,
                 shmVars, missed, msgs>>

\* ifaceConfig.updateInterfaceAttribute(), which reads latestTdf for itself
VTUpdateLinks ==
  /\ VTGoTo("links", "enable")
  /\ linkTdf' = latestTdf
  /\ UNCHANGED <<tableVars, mutex, pcIO, agentVars, isVMSuspensionsEnabled,
                 shmVars, missed, msgs>>

VTEnableTicks ==
  /\ VTGoTo("enable", "go")
  /\ cpu_enable_ticks
  /\ UNCHANGED <<tableVars, mutex, pcIO, agentVars, isVMSuspensionsEnabled,
                 sharedTdf, sem, shmLive, linkTdf, missed, msgs>>

\* Mutant of VTResumeVMs: SEMGO is forgotten.
VTResumeVMsForgotten ==
  /\ VTGoTo("go", "unlock")
  /\ UNCHANGED <<tableVars, mutex, pcIO, agentVars, isVMSuspensionsEnabled,
                 shmVars, linkTdf, missed, msgs>>

\* if (isVMSuspensionsEnabled) SEMGO
VTResumeVMs ==
  /\ VTGoTo("go", "unlock")
  /\ sem' = IF isVMSuspensionsEnabled THEN "GO" ELSE sem
  /\ UNCHANGED <<tableVars, mutex, pcIO, agentVars, isVMSuspensionsEnabled,
                 sharedTdf, ticksEnabled, shmLive, linkTdf, missed, msgs>>

\* the lock's scope ends
VTUnlock ==
  /\ VTGoTo("unlock", "check")
  /\ mutex' = "free"
  /\ UNCHANGED <<tableVars, pcIO, agentVars, isVMSuspensionsEnabled, shmVars,
                 linkTdf, missed, msgs>>

VTNext ==
  \/ VTStart \/ VTStartGo \/ VTCheck \/ VTLock \/ VTWait \/ VTRelock
  \/ VTDisableTicks \/ VTStopVMs \/ VTSetTdf \/ VTUpdateLinks
  \/ VTEnableTicks \/ VTResumeVMs \/ VTUnlock

-----------------------------------------------------------------------------
(***************************************************************************)
(* The io thread: the handlers of MessageProcessor                          *)
(***************************************************************************)

\* The io thread takes up request c.
Request(c) ==
  /\ c \in Commands
  /\ pcIO = "idle"
  /\ ~ioStopped
  /\ msgs < MaxMsgs
  /\ msgs' = msgs + 1

IOUnchanged == UNCHANGED <<mutex, agentVars, isVMSuspensionsEnabled, shmVars>>

\* Protocol 10
SetQuietly ==
  /\ Request("set")
  /\ mutex = "free"
  /\ \E h \in Hosts, t \in Tdfs : setQuietly(h, t)
  /\ IOUnchanged /\ UNCHANGED <<pcVT, pcIO, linkTdf, missed>>

SetAndNotify ==
  /\ Request("set")
  /\ mutex = "free"
  /\ \E h \in Hosts, t \in Tdfs : setAndNotify(h, t)
  /\ NotifyAll
  /\ RecordMiss
  /\ IOUnchanged /\ UNCHANGED <<pcIO, linkTdf>>

\* Protocol 11
EnforceTdf ==
  /\ Request("enforce")
  /\ mutex = "free"
  /\ \E t \in Tdfs : enforceTdf(t)
  /\ NotifyAll
  /\ RecordMiss
  /\ IOUnchanged /\ UNCHANGED <<pcIO, linkTdf>>

\* Protocols 12, 13, 28 and 23: none of them takes the mutex.
TableCommand ==
  /\ \/ Request("enableTable")  /\ enableTable
     \/ Request("disableTable") /\ disableTable
     \/ Request("clear")        /\ clear
     \/ Request("threshold")    /\ \E th \in Thresholds : setThreshold(th)
  /\ IOUnchanged /\ UNCHANGED <<pcVT, pcIO, linkTdf, missed>>

\* Protocol 3: the link is rescaled with the latest TDF.
ChangeLink ==
  /\ Request("change")
  /\ linkTdf' = latestTdf
  /\ IOUnchanged /\ UNCHANGED <<tableVars, pcVT, pcIO, missed>>

\* Mutant of ReplaceLink: 1.0 is passed in the wrong unit.
ReplaceLinkRawFactor ==
  /\ Request("replace")
  /\ linkTdf' = 1
  /\ IOUnchanged /\ UNCHANGED <<tableVars, pcVT, pcIO, missed>>

\* Protocol 1: the link is configured undilated, whatever the latest TDF.
ReplaceLink ==
  /\ Request("replace")
  /\ linkTdf' = One
  /\ IOUnchanged /\ UNCHANGED <<tableVars, pcVT, pcIO, missed>>

\* Protocols 24 and 25
EnableVMSuspensions ==
  /\ Request("suspOn")
  /\ isVMSuspensionsEnabled' = TRUE
  /\ UNCHANGED <<tableVars, vtVars, pcIO, agentVars, shmVars, linkTdf, missed>>

DisableVMSuspensions ==
  /\ Request("suspOff")
  /\ isVMSuspensionsEnabled' = FALSE
  /\ UNCHANGED <<tableVars, vtVars, pcIO, agentVars, shmVars, linkTdf, missed>>

\* Protocol 30: cpu_disable_ticks(), then SEMSTOP
SuspendVMs ==
  /\ Request("suspend")
  /\ pcIO' = "suspending"
  /\ cpu_disable_ticks
  /\ UNCHANGED <<tableVars, vtVars, agentVars, isVMSuspensionsEnabled,
                 sharedTdf, sem, shmLive, linkTdf, missed>>

SuspendVMsStop ==
  /\ pcIO = "suspending"
  /\ pcIO' = "idle"
  /\ sem' = "STOP"
  /\ UNCHANGED <<tableVars, vtVars, agentVars, isVMSuspensionsEnabled,
                 sharedTdf, ticksEnabled, shmLive, linkTdf, missed, msgs>>

\* Protocol 31: cpu_enable_ticks(), then SEMGO
ResumeVMs ==
  /\ Request("resume")
  /\ pcIO' = "resuming"
  /\ cpu_enable_ticks
  /\ UNCHANGED <<tableVars, vtVars, agentVars, isVMSuspensionsEnabled,
                 sharedTdf, sem, shmLive, linkTdf, missed>>

ResumeVMsGo ==
  /\ pcIO = "resuming"
  /\ pcIO' = "idle"
  /\ sem' = "GO"
  /\ UNCHANGED <<tableVars, vtVars, agentVars, isVMSuspensionsEnabled,
                 sharedTdf, ticksEnabled, shmLive, linkTdf, missed, msgs>>

\* ioService.run() returns between two handlers once stop() was called.
IOExit ==
  /\ pcIO = "idle"
  /\ ioStopped
  /\ pcIO' = "done"
  /\ UNCHANGED <<tableVars, vtVars, agentVars, isVMSuspensionsEnabled, shmVars,
                 linkTdf, missed, msgs>>

Requests ==
  \/ SetQuietly \/ SetAndNotify \/ EnforceTdf \/ TableCommand
  \/ ChangeLink \/ ReplaceLink
  \/ EnableVMSuspensions \/ DisableVMSuspensions
  \/ SuspendVMs \/ ResumeVMs

IOContinue == SuspendVMsStop \/ ResumeVMsGo \/ IOExit

-----------------------------------------------------------------------------
(***************************************************************************)
(* Start-up and shutdown (VirtualAgent::start, SignalHandler)               *)
(***************************************************************************)

Sigterm ==
  /\ "term" \in Commands
  /\ isRunning
  /\ isRunning' = FALSE
  /\ UNCHANGED <<tableVars, vtVars, pcIO, pcMon, pcMain, ioStopped,
                 isVMSuspensionsEnabled, shmVars, linkTdf, missed, msgs>>

\* CpuMonitor's loop ends.  Its reports reach the table as requests "set".
MonitorExit ==
  /\ pcMon = "loop"
  /\ ~isRunning
  /\ pcMon' = "done"
  /\ UNCHANGED <<tableVars, vtVars, pcIO, pcMain, isRunning, ioStopped,
                 isVMSuspensionsEnabled, shmVars, linkTdf, missed, msgs>>

MainGoTo(from, to) ==
  /\ pcMain = from
  /\ pcMain' = to
  /\ UNCHANGED <<tableVars, mutex, pcIO, pcMon, isRunning, isVMSuspensionsEnabled,
                 sharedTdf, ticksEnabled, sem, linkTdf, missed, msgs>>

MainJoinMonitor ==
  /\ pcMon = "done"
  /\ MainGoTo("joinMon", "notify")
  /\ UNCHANGED <<pcVT, ioStopped, shmLive>>

\* cond.notify_all(), without the mutex
MainNotify ==
  /\ MainGoTo("notify", "joinVT")
  /\ NotifyAll
  /\ UNCHANGED <<ioStopped, shmLive>>

\* Mutant of MainJoinVT: main does not wait for the VirtualTime thread.
MainSkipVT ==
  /\ MainGoTo("joinVT", "stopIo")
  /\ UNCHANGED <<pcVT, ioStopped, shmLive>>

MainJoinVT ==
  /\ pcVT = "done"
  /\ MainGoTo("joinVT", "stopIo")
  /\ UNCHANGED <<pcVT, ioStopped, shmLive>>

\* Mutant of MainStopIo: ioService.stop() is forgotten.
MainStopIoForgotten ==
  /\ MainGoTo("stopIo", "joinIo")
  /\ UNCHANGED <<pcVT, ioStopped, shmLive>>

MainStopIo ==
  /\ MainGoTo("stopIo", "joinIo")
  /\ ioStopped' = TRUE
  /\ UNCHANGED <<pcVT, shmLive>>

MainJoinIo ==
  /\ pcIO = "done"
  /\ MainGoTo("joinIo", "destroy")
  /\ UNCHANGED <<pcVT, ioStopped, shmLive>>

\* ~SharedMemory: timers_state_remove()
MainDestroy ==
  /\ MainGoTo("destroy", "done")
  /\ shmLive' = FALSE
  /\ UNCHANGED <<pcVT, ioStopped>>

MainNext ==
  \/ MainJoinMonitor \/ MainNotify \/ MainJoinVT
  \/ MainStopIo \/ MainJoinIo \/ MainDestroy

-----------------------------------------------------------------------------
Next ==
  \/ VTNext
  \/ Requests \/ IOContinue
  \/ SpuriousWakeup
  \/ Sigterm \/ MonitorExit \/ MainNext

Spec == Init /\ [][Next]_vars

\* Every thread that can run eventually runs.  Nothing is owed to requests,
\* SIGTERM or spurious wakeups: they need never come.
Fairness ==
  /\ WF_vars(VTNext)
  /\ WF_vars(IOContinue)
  /\ WF_vars(MonitorExit)
  /\ WF_vars(MainNext)

FairSpec == Spec /\ Fairness

-----------------------------------------------------------------------------
(***************************************************************************)
(* Safety                                                                   *)
(***************************************************************************)

\* When the VirtualTime thread starts the guests again, what they read is the
\* factor that is published at that moment: the table's mutex keeps a new one
\* out from the read of the latest TDF to the end of the cycle.
CoherentResume ==
  pcVT \in {"links", "enable", "go", "unlock"} => sharedTdf = latestTdf

\* ... and the links are scaled by that same factor.  (Protocol 1, which
\* configures a link with 1.0, breaks this until the next cycle.)
LinksFollowClock ==
  pcVT \in {"enable", "go", "unlock"} => linkTdf = sharedTdf

\* The only way for the guests to be left on an old factor is the lost
\* wakeup: with the VirtualTime thread asleep, shared memory holds the
\* published factor unless it was notified while that thread was not asleep.
StaleOnlyIfMissed ==
  (pcVT = "waiting" /\ ~missed) => sharedTdf = latestTdf

\* The shared memory and the semaphore are destroyed only after every thread
\* that uses them has ended.
NoUseAfterDestroy ==
  ~shmLive => pcVT = "done" /\ pcIO = "done" /\ pcMon = "done"

\* The factor that guests divide by changes only while the virtual clock is
\* stopped and the VMs are held at the semaphore.  (Protocol 31 breaks it,
\* and so does disabling VM suspensions, for the VMs.)
ChangesOnlyFrozen ==
  [][sharedTdf' # sharedTdf => ~ticksEnabled /\ sem = "STOP"]_vars

\* Weaker, and true whatever the operator does short of Protocol 31: the
\* factor changes only while the virtual clock is stopped.
ChangesOnlyStopped ==
  [][sharedTdf' # sharedTdf => ~ticksEnabled]_vars

-----------------------------------------------------------------------------
(***************************************************************************)
(* The inductive strengthenings behind the safety properties, for the proofs *)
(***************************************************************************)

\* Only the VirtualTime thread keeps the mutex over several steps, and it has
\* it exactly from its return from the wait to the end of the cycle, and
\* between taking it and falling asleep.
MutexDiscipline == (mutex = "VT") <=> (pcVT \in VTCycle \cup {"towait"})

\* StaleOnlyIfMissed at every point where the VirtualTime thread has not been
\* woken since it last read the table.
UnheardMeansApplied ==
  (pcVT \in VTStarting \cup (VTLooping \ {"woken"}) \cup {"done"} /\ ~missed)
  => sharedTdf = latestTdf

\* main joins the threads in order before it destroys what they use.
JoinOrder ==
  /\ pcMain # "joinMon" => pcMon = "done"
  /\ pcMain \in {"stopIo", "joinIo", "destroy", "done"} => pcVT = "done"
  /\ pcMain \in {"destroy", "done"} => pcIO = "done"
  /\ ~shmLive => pcMain = "done"

\* From the stop to the resume of a cycle the clock stays stopped, as long as
\* no operator resumes the VMs.
FrozenCycle ==
  pcVT \in {"stop", "settdf", "links", "enable"} => ~ticksEnabled

\* ... and the VMs stay at the semaphore, as long as, moreover, no operator
\* disables VM suspensions.
StoppedCycle ==
  /\ isVMSuspensionsEnabled
  /\ pcIO # "resuming"
  /\ pcVT \in {"settdf", "links", "enable", "go"} => sem = "STOP"

\* From their update to the end of the cycle the links have the published
\* factor, as long as no link is configured anew.
LinksUpdated == pcVT \in {"enable", "go", "unlock"} => linkTdf = latestTdf

-----------------------------------------------------------------------------
(***************************************************************************)
(* Liveness                                                                 *)
(***************************************************************************)

\* A published factor whose wakeup was not lost reaches the guests.
HeardIsApplied ==
  (sharedTdf # latestTdf /\ ~missed) ~> (sharedTdf = latestTdf \/ missed)

\* VMs held at the semaphore for a TDF update are let go again.
VMsReleased == (sem = "STOP") ~> (sem = "GO")

\* After SIGTERM the agent ends, or the VirtualTime thread is asleep with
\* main waiting to join it: there is no other place to hang.
ShutdownEndsOrSleeps ==
  ~isRunning ~> \/ pcMain = "done"
                \/ pcVT = "waiting" /\ pcMain = "joinVT"

-----------------------------------------------------------------------------
(***************************************************************************)
(* What the comments of the code promise, and the runs refute               *)
(***************************************************************************)

\* "Set new tdf to shared memory" (VirtualTime.cpp:89): a published factor is
\* eventually the one in shared memory.
PublishedIsApplied == (sharedTdf # latestTdf) ~> (sharedTdf = latestTdf)
=============================================================================
