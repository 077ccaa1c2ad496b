# A verification of the virtual time agent

`virtualagentd` runs on every host of a testbed of virtual machines. When a host
is overloaded, its guests' time is slowed down by a *time dilation factor* (TDF),
and so is everybody else's: each agent broadcasts the factor its host needs, each
agent applies the largest one. Applying a factor means: stop the virtual clock,
stop the VMs, write the factor to shared memory, rescale the network links, start
both again. Guests read clock and factor from that shared memory, without a lock.

This directory holds TLA+ models of the agent, the TLC runs that check them, and
proofs for TLAPS of what matters most. `PROJECT.json` lists the runs, the source
lines behind each definition, the hazards of the code, the findings and the
theorems.

## Inventory

Paths are relative to `src/virtualagent/`.

| component | state | operations | interacts with | hard about it | correct means |
|---|---|---|---|---|---|
| TDF table (`MemoryDatabase`) | `tdfMap`, `isTableEnabled_`, `latestTdf_`, `tdfChangeThreshold` | `set`, `enforceTdf`, `enableTable`, `disableTable`, `clear` | written by the io thread, read by all, notifies `cond` | reports in any order, overrides, hysteresis, division by the old factor | publishes what the most loaded host needs; an override stands |
| adaptive virtual time (`VirtualTime`) | its place in the cycle, the table's mutex | start, wait, stop, set, rescale, resume | woken by the table; writes the shared memory, the semaphore and the links | the wait has no predicate; operators act on the same state without the mutex | guests run again with the published factor; it changes while they are frozen; they are released |
| virtual clock (`shared/qemu-timer.c`) | `TimersState`, `*tdf`, `use_rt_clock` | `cpu_enable_ticks`, `cpu_disable_ticks`, `cpu_get_clock`, `cpu_get_ticks`, `init_clocks` | two writing threads, any number of guests in other processes | no lock, no barrier; rounding; ticks set back; the clock source changes | never goes back or overtakes the host; stops, starts and retunes do not move it |
| agent life cycle (`VirtualAgent`, `SignalHandler`, `virtualagentd`, `Daemonizer`) | `isRunning`, the threads, the io service | start, SIGTERM, joins, destruction | all threads | order of joins, lost notify, exceptions | what threads use outlives them; the agent ends |
| shared memory and semaphore (`SharedMemory`, `shared/bin_sem.c`) | three segments, `gostop` | create, attach, remove, set, wait for zero | guests and simulators | crash and restart leave segments and semaphore behind | created once, removed once |
| message processor (`MessageProcessor`) | none of its own | Protocols 1 to 33 | io thread; every other component | two-step handlers | each request has the effect its name says |
| interface configurator (`InterfaceConfigurator`, interface table) | `ifaceAttrTable` with `flagKeep`; the kernel's queueing disciplines | replace, change, delete, update all | io and VirtualTime threads; forks `tc` | iteration while the other thread inserts; failed commands go unnoticed | every link scaled by the factor of the clock |
| CPU monitor (`CpuMonitor`) | idle ratio, modes, `tdfMin`, `tdfMax` | measure, clamp, broadcast | reads `Configuration` while the io thread writes it | mode and bounds change inside a period; a failed send ends the process | reports the need of the host within the bounds |
| network (`net/`, with the operator's `chat_client`) | sessions, buffers, the client's write queue | connect, accept, read header, read body, write, stop, receive, broadcast | io service; the client's two threads | framing, a queue shared by two threads, broken connections, lost and duplicated datagrams | a handler gets whole messages, in order, each once |
| configuration, time and log helpers, test programs | settings | set | read everywhere | unsynchronised | - |

## Modules

| module | models |
|---|---|
| `TdfTable` | the table: one action per call. `set` is `setQuietly` (nothing published) or `setAndNotify`; who hears the notify is the agent's business |
| `AdaptiveVirtualTime` | EXTENDS `TdfTable`: the VirtualTime thread statement by statement, the io thread with the handlers that reach this state, the CpuMonitor thread's end, `main` with its joins, SIGTERM, spurious wakeups |
| `TimersState` | the functions of `qemu-timer.c` on the shared clock and ticks, each one step |
| `VirtualClock` | the abstract specification: a clock that stops, starts and is retuned without moving |
| `RetunedClock` | EXTENDS `TimersState`: the two writing threads, guests that read, host time, setbacks of the cycle counter. `Ideal` maps it to `VirtualClock` |
| `ClockRace` | the clock again, one load or store per step, in any order the compiler may choose. Its `Ideal` maps it to `VirtualClock` too |
| `LinkTable` | the links of one host: the table of attributes, what `tc` has set up in the kernel, the io thread's requests and the VirtualTime thread's pass, command by command; commands that fail |
| `CpuMonitor` | the monitor's period in its three steps, while the io thread changes modes, bounds and targets under it |
| `TdfSync` | EXTENDS `TdfTable`: hosts that report to one agent's table in datagrams that are lost, doubled and overtaken; hosts that die and restart; reports that are no number |
| `CommandPipe` | the abstract specification of an operator's connection: a prefix of the typed lines, in order, each once and unmixed |
| `CommandStream` | the client program's two threads, the TCP connection, the agent's sessions and connection manager. `Pipe` maps it to `CommandPipe` |
| `IpcLifecycle` | the three shared segments and the semaphore over starts, failed starts, ends and crashes of agents, and guests that attach, use and leave |
| `..._proofs` | the theorems about `AdaptiveVirtualTime` and its `TdfTable`, `RetunedClock`, `ClockRace`, `CpuMonitor`, `LinkTable`, `TdfSync`, `CommandStream`, `IpcLifecycle` |
| `MC...` | instances for TLC |

The modules divide the agent by what its threads share. `AdaptiveVirtualTime` takes
`cpu_enable_ticks` and `cpu_disable_ticks` as single steps on a flag; `RetunedClock`
says what they do to the clock when each is one step, and `ClockRace` what becomes
of that when they are not. It takes the rescaling of the links as one step on a
representative link; `LinkTable` takes that step apart. Reports reach its table as
arbitrary factors; `CpuMonitor` says where they come from and `TdfSync` what happens
on the way. Its requests arrive from nowhere; `CommandStream` delivers them. It lives
once; `IpcLifecycle` lets agents come and go.

### Correspondence with the code

* The VirtualTime thread holds `tdfTable.mutex` from the return of `cond.wait`
  to the end of the cycle, so `pcVT` has a value for each statement of
  `VirtualTime.cpp:69-105`. A handler that takes the mutex once (`set`,
  `enforceTdf`) is one step, possible while the mutex is free. Protocols 30 and 31
  change clock and semaphore in two steps, without the mutex.
* `wait` forgets earlier notifies: `NotifyAll` changes something only when the
  thread is `"waiting"`. `missed` is a history variable: a factor was notified to
  nobody and not read since.
* Factors are natural numbers in a fixed-point unit `One`. In the clock, the
  quotient is exact and truncated once, towards zero, where the code converts from
  `long double` to `int64_t`; the model has no rounding of `long double` itself,
  whose 64-bit mantissa represents any `int64_t` exactly, and no overflow.
* In `AdaptiveVirtualTime`, `linkTdf` is the factor of one representative link, and
  `sem` the value of the `gostop` semaphore, not how guests wait for it. The initial
  value of `sem` is either: nobody sets a semaphore left by an earlier agent before
  the VirtualTime thread does.
* In `ClockRace` a thread has a set `todo` of the accesses it has left to do, in any
  order, between two calls of `clock_gettime`: `TimersState` is neither volatile nor
  atomic, and an optimising compiler does load the flag for the second test before
  it loads the fields. Two tests of the flag with no call in between may be one
  load. A read-modify-write (`cpu_clock_offset -= real_clock`) is a load and a
  store. Each access is atomic; so is an access to the `long double` factor, which
  guests read while it is being set only if their read overlaps a stop. The ticks
  are left out: they are computed in the same way and in the same functions.
  `init_clocks` has been called.
* In `LinkTable` each read of an entry's attribute and each `tc` command is a step.
  The insertion of a node into the `std::map` has a beginning and an end; an
  iterator that moves in between may go anywhere, or the process may die, and
  `raced` is true from then on. `tc` refuses a `change` of what does not exist and a
  `replace` below a missing parent; a failure of any other kind is `TcFails`. The
  agent learns of neither, since SIGCHLD is ignored. `steady`, `doomed` and `lost` are
  history variables that say which links a pass answers for.
* In `CpuMonitor` a formula's result is any number in the direction that the formula
  gives (gains are taken to be positive); the moving average, the clamp and the
  choice by `monitorMode` are computed as in the code. `NaN` is a value of its own:
  it passes both tests of the clamp.
* In `TdfSync` an entry of the table that is NaN is kept in the set `poisoned`, apart
  from `tdfMap`: `maxTdf` passes over it unless it comes first in the map.
* In `CommandStream` a handler of either io service is a step, the handing over of one
  part of a message (header or body) is a step, and a header carries the line it
  belongs to. The agent's side uses no more of it than whether the body is empty.
  A header that is none would be read as `atoi` reads it, as length 0. A connection
  that fails does so noticed (`"down"`: the peer closed, or reset it) or `"silent"`:
  the host or the network is gone without a word. The client, which writes, may learn
  of a silent loss or wait for ever; the agent's session only reads, sets no keepalive,
  and never learns of it.
* In `IpcLifecycle` each `shmget`, `semget`, `shmctl` and `semctl` is a step. Objects
  are numbered per key, so that one made anew differs from one taken over. The cycle
  of the VirtualTime thread is three steps there, and Protocols 30 and 31 are one each,
  possible from the agent's first service on (the io thread starts before the
  VirtualTime thread); each of them switches the clock and sets the semaphore at once,
  which `AdaptiveVirtualTime` takes apart. `asked` is a history variable: what these
  protocols last asked since the VirtualTime thread last set clock and semaphore.

## Runs

| run | module | result | shows |
|---|---|---|---|
| `agent_all` | AdaptiveVirtualTime | pass | with every request, signal and spurious wakeup: `CoherentResume`, `StaleOnlyIfMissed`, `NoUseAfterDestroy`, and the table's `PublishedTracksNeed`, `PublishesANeed`, `OverrideStands` |
| `agent_disciplined` | AdaptiveVirtualTime, fair | pass | without Protocols 1, 25, 30, 31: `ChangesOnlyFrozen`, `LinksFollowClock`; liveness: `HeardIsApplied`, `VMsReleased`, `ShutdownEndsOrSleeps` |
| `clock_refines` | RetunedClock | pass | without Protocol 31: `ImplementsVirtualClock`, `ClockMonotonic`, `TicksMonotonic`, `LossBounded` |
| `clock_operator` | RetunedClock | pass | with Protocols 30 and 31 at any time, even before `init_clocks`, and setbacks: `NotFasterThanHost`, `SetbackCaughtUp` (once a guest has looked since the start), `UnseenSetbackBounded` (before that), `TicksStandStill` |
| `race_in_turn` | ClockRace | pass | writers take turns, guests read at any time: `ImplementsVirtualClock` with the stop or start taking effect at its `clock_gettime`, `QuietReadsAreRight` |
| `links` | LinkTable | pass | two threads on one table: `PassScales` (a pass mends every link nobody touches meanwhile), `PassDrops`, `OrphansExplained` |
| `monitor` | CpuMonitor, fair | pass | `UndisturbedReportInBounds`; liveness: `OverloadReachesMax`, `SilentSimulatorForgotten` |
| `sync` | TdfSync, fair | pass | `SettledIsTracked`: when needs and operators settle, so does the table, with datagrams lost, doubled and overtaken |
| `stream` | CommandStream, fair | pass | `ImplementsPipe` (the refinement); liveness: `TypedIsProcessed`, `ClosedClientsLeave`, also when a connection breaks without a sign, in which case a session may stay |
| `ipc` | IpcLifecycle, fair | pass | over crashes, failed starts and take-overs, with Protocols 30 and 31: `RunningAgentOwnsKeys`, `SharedSemSharesClock`, `FactorChangesWhileStopped`; liveness: `FrozenGuestsFreed` |
| `agent_lost_wakeup` | AdaptiveVirtualTime, fair | violation | `PublishedIsApplied`: a notify before the wait is lost, the factor is never applied |
| `race_torn` | ClockRace | violation | `GuestMonotonic`: a guest's read that overlaps a stop or start mixes old and new fields |

The two violations are findings: the code disagrees with what its comments say.

### What the code does not do

The properties name their exceptions, and the exceptions are the code's. Each is a
behaviour of the model, reached by TLC when the exception is taken out of the
property:

* Protocol 25 in the middle of a cycle (suspensions disabled after the stop) leaves
  the VMs stopped; Protocol 30 in a cycle leaves the clock running without them;
  Protocol 31 in a cycle has the running clock retuned, and it goes back. Hence
  `agent_disciplined` and `clock_refines` leave these requests out.
* Protocol 31 between the stop of a cycle and its new factor also breaks
  `FactorChangesWhileStopped`, which excepts it by name (`RestartedInCycle`). The VMs
  that Protocol 30 stopped outside a cycle stay stopped until Protocol 31 or another
  cycle, hence the last disjunct of `FrozenGuestsFreed`.
* Protocol 30 may race the stop of a cycle, two writers without a lock that are both
  past the test of the flag: the stop may then be undone or done twice, and the clock
  get ahead of the host. `race_in_turn` has the writers take turns, so that nothing is
  checked of a clock with two writers at once but `GuestMonotonic`, which fails already
  without them.
* `cpu_enable_ticks` does not refresh `cpu_ticks_prev`. A cycle counter set back while
  the clock stood makes the first read after the start jump ahead; one set back after
  the start, before anybody looked, takes the ticks below what they were at the start.
  `SetbackCaughtUp` therefore speaks of ticks somebody looked at since the start, and
  `UnseenSetbackBounded` says how far the first look may be off otherwise.
* With `targetLoad` 0, a machine that is wholly idle divides 0 by 0, and the monitor's
  factor is NaN for good. The clamp passes it, it is broadcast, and a table in whose
  map that host comes first publishes nothing from then on, not even for others.
* The entry of a host that died counts on until the table is cleared.
* Protocol 2 for a link without an entry ends the process.
* A configuration that meets the removal of the same link may leave a discipline
  without an entry, which nobody rescales or removes.
* Lines typed just before the end of input may be lost: `do_close` does not wait for
  the queue. A client whose connection failed drops what is typed without a word.
* The session of a client that vanishes without a FIN or a reset stays among the
  participants for ever: `TcpSession` reads only, and sets no keepalive.
  `ClosedClientsLeave` excepts a connection that broke silently.
* An agent started next to another resets the clock and the factor of the one in
  service before it finds the port taken, and its failing start removes the objects
  of both. `rival` marks these behaviours.
* `simulators_state` is never removed, and a later agent may take it for fresh.

### Bounds

* Agent: two hosts (one for liveness), factors 0, 1.0, 1.1 and 2.0, thresholds 0,
  0.1 and 0.4, so that a change may be below, at or above the threshold and a host
  may report 0; four requests or wakeups (`MaxMsgs`), which is one more than any
  hazard needs: one to wake the VirtualTime thread and two inside its cycle.
  SIGTERM comes on top. Hosts are symmetric in `agent_all`; the liveness runs use
  no symmetry.
* Clock: factors 1.0, 1.5 and 2.5 (so that quotients have fractions), host time up
  to 8 (4 with the operator) in steps of 1 or 2, two stops, one setback of any size,
  a time of day that is 3 ahead of `CLOCK_MONOTONIC`.
* Race: factors 1.0 and 1.5, host time up to 2 (4), two stops by either writer, so
  that both may stop the clock and a start follows each; one guest.
* Links: two links, one configured at the start, so that one may be inserted before
  or behind an iterator; two requests, two passes and one failing command, so that
  the second pass can mend what the first one met. Values are symmetric. The same
  run passes with three requests (12.3 million states). The theorems have no bounds.
* Monitor: two CPUs, of which one may be saturated while the other is idle; idle
  ratios 0, 1/4, 1/2 and 1, targets 0 and 1/2, bounds in 1..3; two changes of the
  configuration, so that the second may meet the first half of Protocol 14.
* Sync: two hosts, so that a NaN may stand first or second; factors 1.0, 1.1 and 2.0
  with thresholds 0.1 and 0.2; three changes (a need, a death, a restart, an operator)
  and one doubled datagram. There is no bound on losses and reports.
* Stream: one client (sessions share no more than the set of participants and the end
  of the agent), three lines, which is one more than a queue with one message being
  written needs; each may be empty; one break, noticed or not.
* IPC: two agents and a guest, three starts of either kind, two failures, and any number
  of requests: enough for a guest that outlives a crash or a half-done removal and meets
  the next agent, and for a rival.

`CHECK_DEADLOCK FALSE` is needed everywhere: an agent that has ended stops, and
the bounds stop the others.

### Fairness

* `AdaptiveVirtualTime`: weak fairness of the VirtualTime thread, of the io thread in
  the middle of a handler and at its exit, of the CpuMonitor thread's exit and of
  `main`: each is a thread of its own that the kernel schedules, and the mutex is held
  by others for one step only, so weak fairness is enough.
* `CpuMonitor`: the thread's sleep is bounded, and the io thread finishes the request
  it has begun.
* `TdfSync`: every monitor reports again and again, and a datagram is delivered or
  lost. Strong fairness of the delivery of what a host reports says that the network
  does not lose every copy of a report repeated for ever; without it nothing about a
  broadcast over UDP could be live.
* `CommandStream`: both io services run the handlers that are ready, a connect is
  accepted or fails. A read on a connection that the peer closed or reset fails; one
  on a connection lost silently need not.
* `IpcLifecycle`: a process goes on with what it has begun, and a guest waits on the
  semaphore again, and so meets its removal.

Requests (Protocols 30 and 31 too), signals, breaks, crashes, restarts and spurious
wakeups owe nothing.

## Proofs

Every safety invariant, every action property and every refinement that a passing run
checks is also a theorem: the run shows it on an instance, the theorem for every value
of the constants, from the named assumptions on them. Hypotheses of a theorem are
those of its run: that some request is not in the repertoire, that the writers' calls
do not overlap. The factors of the table are assumed bounded, as long doubles are, and
no process of `IpcLifecycle` is both an agent and a guest.

* `AdaptiveVirtualTime_proofs`, the table: `TableTypeCorrect`, `TracksNeeds`,
  `PublishesNeeds`, `OverridesStand`. The work is in `MaxTdfExists` (a table that is not
  empty has a largest factor, from well-foundedness of the naturals below the bound)
  and `CloseWithinThreshold` (what the hysteresis test says of both neighbours). The
  agent: `TypeCorrect`; `MutexCorrect`, the invariant the others rest on (the thread
  holds the mutex exactly in a cycle and on its way to sleep); `ResumeIsCoherent` and
  `OnlyLostWakeups`, from `MutexDiscipline` and `UnheardMeansApplied`, since
  `CoherentResume` is not inductive without knowing that no handler can publish during
  a cycle; `DestroyIsLast`, from `JoinOrder`; `RetunesStoppedClock`,
  `RetunesFrozenGuests`, `LinksResumeCoherent`, each under the hypothesis that some
  requests are not in the repertoire, from `FrozenCycle`, `StoppedCycle`,
  `LinksUpdated`. `AgentRunsTable` shows that the agent implements `TableSpec`, whence
  `AgentTracksNeeds`, `AgentPublishesNeeds`, `AgentOverridesStand`.
* `RetunedClock_proofs`, the clock: `Refinement`: without Protocol 31 the shared clock
  implements `VirtualClock`. The inductive invariant `ClockInv` says that `Base`, what
  the clock showed when it was last started or stopped, and `Run`, the host time
  since, are natural numbers, that the clock stands whenever the VirtualTime thread is
  about to retune or start it, and that `init_clocks` comes first; `ClockReading`
  writes what a guest reads as `Base + Run / tdf`. From it `PromiseKept` (the promised
  clock never goes back) and `ReadsAreMonotonic`. `LossIsBounded` adds `Covered`: what
  passed for the guests, one unit more per stop, and what passed since the last start
  cover the time during which the clock ran, even at the slowest rate; a stop moves
  `Run / tdf` into `Base` and drops less than the one unit it is granted. With every
  request: `ClockTypeCorrect` (that a factor is never 0 keeps every quotient a
  number), and `GuestsLagHost`, for which `ClockInv` is not available, since Protocol 31
  may start the clock before `init_clocks` sets its source back and `Run` is then
  negative. `Behind` says enough: neither `Base` nor `Base + Run` is ahead of the host,
  and a reading lies between the two or is cut off at 0.
* The ticks in the same module, with every request and setback: `TicksHold` holds of any
  step between well-typed states. `SetbacksCaughtUp` rests on `SeenInv`, what a guest
  that looked since the start has left in `cpu_ticks_prev`, and has two roundings to
  compare (`CaughtUpIsNear`: the offset that makes up for a setback and the reading each
  drop a fraction, and differ by one tick at most). `UnseenSetbacksBounded` rests on
  `StoodInv`, which ties the ticks at a start that nobody has looked at since to the
  fields. `TicksAreMonotonic` needs `TicksInv`, `ClockInv` for the
  ticks, and that nothing set them back.
* `ClockRace_proofs`: as long as the writers' calls do not overlap, `RaceRefinement`
  and `QuietReads`, for every order in which the loads and stores take
  effect. `RaceInvariant` is what they rest on. One writer has the turn (`Turn`), and
  `WriterOK` says where it is and what its registers and the fields hold there:
  half-way through a stop the offset is old or new as its store is still to do or
  done; half-way through a start the offset is to be loaded, loaded, or rebased, and
  the restart old or new. Between calls the fields are `Settled`. Seen from the thread
  that has the turn (`SeenFromTurn`) the promised clock is one of four formulas, and
  each load or store moves the fields from one to another without moving its value;
  it stops in `GetClock` and starts in `StartTime`. `GuestOK` says that an undisturbed
  call has loaded the fields of one moment, and a host time of the call.
* `CpuMonitor_proofs`: `MonitorTypeCorrect`; `ReportsInBounds`, from `Clamped`: in a
  period that nobody disturbed, what has been measured so far in this period is
  within the bounds of now. The step that sends relies on it for the factor that the
  mode chooses, and on nothing for the other one.
* `LinkTable_proofs`: `LinkTypeCorrect`, `OrphansAreExplained`, `PassesDrop`,
  `PassesScale`, all four properties of the run. None is inductive. `Crossing` says
  what the two threads know of each other's link: a link under configuration is kept,
  unless a removal had begun before, and then it is `lost`. `Untouched` says that a
  steady or doomed link is nobody's but the pass's; without it, not even the types
  hold, since the erased link must not be a steady one. On this `LinkInvariant`,
  `DoomedGoes` and `SteadyScales` say how far a pass has come: links behind the
  iterator are done, links before it stand as they stood at its beginning, and of the
  one under it the thread has read the entry it still has. `NothingSkipped` (an
  iterator that nobody disturbs moves to the least later link) makes "behind" and
  "before" cover all.
* `TdfSync_proofs`: `SyncTypeCorrect`: what is published is a number, whatever the
  hosts report.
* `CommandStream_proofs`: `StreamTypeCorrect`: one message is being written at a time,
  the front of the queue. It needs `FrontIsWritten`, that the queue is not empty while
  a write is under way or abandoned. `StreamRefinement`: the connection implements
  `CommandPipe`. Lines are numbered as typed, and the invariant `InOrder` gives the
  number that each place of the connection must hold: posted lines end with the last
  one typed, the queue ends where they begin, and the stream holds consecutive parts
  from the reader's cursor (`ReadAt`, a line and its header or body) to the writer's
  (`WriteAt`). A session that is down may lose the parts between the cursors, but reads
  none behind a gap. `ProcessedIsPrefix` follows from the refinement and steps of the
  abstract connection alone.
* `IpcLifecycle_proofs`: `IpcInvariant`, and from it `IpcTypeCorrect`, `KeysNameOwned`,
  `FrozenReadTheirClock`, `RunningClockKeepsFactor`. That no key names more objects than
  agents were started is not inductive, but the number of objects made for a key plus
  that of the agents that may yet make one is (`Counted`). `Alone`, `Owning`, `Standing`
  and `Shared` hold until an agent is started next to another: one is alive at most,
  the keys name what it holds, except for what it has removed so far, and a guest has
  the agent's objects or those of an agent whose removal has gone past the semaphore
  or was left half done. `Standing`, from which `RunningClockKeepsFactor` follows, says
  that the clock stands where a factor is about to be written, unless Protocol 31 was
  asked since the cycle's stop: that request, and a rival, are the exceptions of the
  theorem.

Only model-checked is liveness, which the prover does not reach (it involves fairness,
hence `ENABLED`): `HeardIsApplied`, `VMsReleased`, `ShutdownEndsOrSleeps`,
`OverloadReachesMax`, `SilentSimulatorForgotten`, `SettledIsTracked`, `TypedIsProcessed`,
`ClosedClientsLeave`, `FrozenGuestsFreed`.

## Not modelled

* Formatting, parsing and logging, `TimeGetter`, `CpuLogger` (not built), the test
  programs under `net/`, functions of `qemu-timer.c` and methods of `TdfTable` that
  nothing calls, the daemon's `fork`s.
* Protocols 20, 22 and 33, which set gains and the length of a period: `CpuMonitor`
  leaves open how far a measurement moves a factor.
* The two filter commands of a link's configuration, which carry neither attributes
  nor factor. What a pointer shows that the other thread frees in the middle of an
  access (`LinkTable` replaces an entry in one step).
* The contents of `simulators_state`, and the code of guests and simulators beyond the
  functions of `qemu-timer.c` and `bin_sem.c` that they call.
* The ticks access by access: `cpu_get_ticks`, a read that writes, is one step.
* The threads that run on, detached, for a moment when an exception ends `start()`.
* A Protocol 11 whose text `atof` reads as a NaN: `TdfSync` has NaN in reports only.
* Monitoring switched off by Protocol 27: in `TdfSync` such a host falls silent like one
  that died.

## Plan

Done: the table and the agent's cycle; the clock as functions and as accesses; links;
monitor and reports; connections; the shared objects' life cycle. Proofs of every
safety property of the passing runs.

Left, most worth first:

1. `ClockRace` with the ticks, for two guests that notice the same setback.
2. Safety behind the liveness properties: what a waiting thread, a settled table or a
   closing connection must keep in reach for the fair steps to end it.
3. `CpuMonitor` with the gains as parameters.
