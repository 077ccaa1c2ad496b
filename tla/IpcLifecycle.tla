---------------------------- MODULE IpcLifecycle ----------------------------
(***************************************************************************)
(* The System V objects that agents and guests share, over the lives and     *)
(* deaths of both.  A key names an object; an object outlives the process    *)
(* that made it.  An agent makes what is missing (IPC_CREAT without          *)
(* IPC_EXCL), a guest only attaches.  An agent that ends, or whose start-up  *)
(* fails with an exception, removes the objects it holds, whoever else uses  *)
(* them; one that crashes or calls exit() removes nothing.                   *)
(*                                                                           *)
(* Removal of a segment unbinds its key, and whoever has it attached goes    *)
(* on using it; removal of the semaphore makes every later call on it fail,  *)
(* and bin_sem.c answers a failed call with exit(1).                         *)
(*                                                                           *)
(* The cycle of the VirtualTime thread is AdaptiveVirtualTime's subject; a    *)
(* few steps of it are enough here, so that a crash, or a request of         *)
(* Protocol 30 or 31 on the io thread, can come in between.  A step that     *)
(* switches the clock and sets the semaphore does both at once: the calls    *)
(* are apart in AdaptiveVirtualTime.                                         *)
(***************************************************************************)
EXTENDS Integers, FiniteSets

CONSTANTS
  Agents, Guests,
  Tdfs, One,       \* factors
  MaxStarts,       \* bound: starts of agents and of guests
  MaxFailures      \* bound: crashes, and failures of system calls

ASSUME IpcAssumption ==
  /\ Agents \cap Guests = {}
  /\ One \in Tdfs
  /\ {MaxStarts, MaxFailures} \subseteq Nat

\* The keys, in the order in which they are created and attached ...
KeyAt == [i \in 1..4 |-> CASE i = 1 -> "timers" [] i = 2 -> "tdf"
                           [] i = 3 -> "sim"    [] i = 4 -> "sem"]
Keys == {"timers", "tdf", "sim", "sem"}
\* ... and removed: simulators_state stays for ever.
RemovedAt == [i \in 1..3 |-> CASE i = 1 -> "timers" [] i = 2 -> "tdf" [] i = 3 -> "sem"]

\* The objects of a key are numbered; 0 is none.
Objects == 1..MaxStarts
NoObjects == [k \in Keys |-> 0]

VARIABLES
  bound,    \* the object that a key names
  made,     \* how many objects the key has named
  ticks,    \* per timers object: cpu_ticks_enabled
  tdf,      \* per tdf object: the factor
  gostop,   \* per semaphore: "GO", "STOP"; "gone" when removed
  agent,    \* per agent: where it is; "off" is no process
  guest,    \* per guest: the same
  holds,    \* per process: the objects it has attached
  port,     \* the agents that listen on the TCP port (one, or none)
  starts, failures,
  rival,    \* history: an agent was started while another one lived
  torn,     \* history: a removal was left half done, or met an attachment
  asked     \* history: what Protocols 30 and 31 last asked of the agent in
            \* service since its VirtualTime thread last set clock and semaphore

ipc == <<bound, made, ticks, tdf, gostop>>
history == <<rival, torn, asked>>
vars == <<ipc, agent, guest, holds, port, starts, failures, history>>

At(name, i) == [pc |-> name, i |-> i]
Off == At("off", 0)
Runs(a) == agent[a].pc \in {"begin", "run", "stopped", "set"}

-----------------------------------------------------------------------------
(***************************************************************************)
(* An agent's start (VirtualAgent::start, SharedMemory::create)             *)
(***************************************************************************)
AgentGoes(a, from, to) == agent[a] = from /\ agent' = [agent EXCEPT ![a] = to]

Start(a) ==
  /\ starts < MaxStarts
  /\ starts' = starts + 1
  /\ AgentGoes(a, Off, At("create", 1))
  /\ rival' = (rival \/ \E b \in Agents : agent[b] # Off)
  /\ UNCHANGED <<ipc, guest, holds, port, failures, torn, asked>>

\* Mutant of Create: what a crashed agent left is its guests', a new one is made.
CreatePrivate(a) ==
  LET i == agent[a].i
      k == KeyAt[i]
  IN /\ AgentGoes(a, At("create", i), IF i < 4 THEN At("create", i + 1) ELSE At("init", 0))
     /\ made' = [made EXCEPT ![k] = @ + 1]
     /\ bound' = [bound EXCEPT ![k] = IF @ = 0 THEN made'[k] ELSE @]
     /\ holds' = [holds EXCEPT ![a][k] = made'[k]]
     /\ UNCHANGED <<ticks, tdf, gostop, guest, port, starts, failures, history>>

\* __ipc_create, one key: shmget or semget with IPC_CREAT, and shmat.
Create(a) ==
  LET i == agent[a].i
      k == KeyAt[i]
  IN /\ AgentGoes(a, At("create", i), IF i < 4 THEN At("create", i + 1) ELSE At("init", 0))
     /\ made' = [made EXCEPT ![k] = IF bound[k] = 0 THEN @ + 1 ELSE @]
     /\ bound' = [bound EXCEPT ![k] = IF @ = 0 THEN made'[k] ELSE @]
     /\ holds' = [holds EXCEPT ![a][k] = bound'[k]]
     /\ UNCHANGED <<ticks, tdf, gostop, guest, port, starts, failures, history>>

SetTicks(a, on) == ticks' = [ticks EXCEPT ![holds[a]["timers"]] = on]

\* timers_state_create: the clock stands, whatever an agent before has left
\* there, or another one uses ...
InitTimers(a) ==
  /\ AgentGoes(a, At("init", 0), At("init", 1))
  /\ SetTicks(a, FALSE)
  /\ UNCHANGED <<bound, made, tdf, gostop, guest, holds, port, starts, failures, history>>

\* ... and then *tdf = 1.0.
InitTdf(a) ==
  /\ AgentGoes(a, At("init", 1), At("bind", 0))
  /\ tdf' = [tdf EXCEPT ![holds[a]["tdf"]] = One]
  /\ UNCHANGED <<bound, made, ticks, gostop, guest, holds, port, starts, failures, history>>

\* Mutant of Bind: the port is shared.
BindAnyway(a) ==
  /\ AgentGoes(a, At("bind", 0), At("begin", 0))
  /\ port' = port \cup {a}
  /\ UNCHANGED <<ipc, guest, holds, starts, failures, history>>

\* TcpAsyncServer's acceptor: the port is free, or an exception ends start().
Bind(a) ==
  /\ \/ port = {} /\ AgentGoes(a, At("bind", 0), At("begin", 0)) /\ port' = {a}
     \/ port # {} /\ AgentGoes(a, At("bind", 0), At("remove", 1)) /\ UNCHANGED port
  /\ UNCHANGED <<ipc, guest, holds, starts, failures, history>>

\* A later constructor throws: the UDP port is taken, or broadcastIp does not
\* resolve (the io thread has then served requests).
StartFails(a) ==
  /\ failures < MaxFailures
  /\ failures' = failures + 1
  /\ AgentGoes(a, At("begin", 0), At("remove", 1))
  /\ port' = {}
  /\ UNCHANGED <<ipc, guest, holds, starts, history>>

-----------------------------------------------------------------------------
(***************************************************************************)
(* An agent's life: VirtualTime's thread, with VM suspensions enabled, and   *)
(* the io thread                                                             *)
(***************************************************************************)
Asked(request) == asked' = request /\ UNCHANGED <<rival, torn>>

\* semaphore_setval: on a semaphore that is gone it ends the process.
SetVal(a, from, to, value) ==
  LET s == holds[a]["sem"] IN
  \/ /\ AgentGoes(a, from, to)
     /\ gostop[s] # "gone"
     /\ gostop' = [gostop EXCEPT ![s] = value]
     /\ UNCHANGED <<holds, port>>
  \/ /\ AgentGoes(a, from, Off)
     /\ gostop[s] = "gone"
     /\ holds' = [holds EXCEPT ![a] = NoObjects]
     /\ port' = port \ {a}
     /\ UNCHANGED gostop

\* Mutant of Begin: the semaphore is left as it was found.
BeginAsFound(a) ==
  /\ AgentGoes(a, At("begin", 0), At("run", 0))
  /\ SetTicks(a, TRUE)
  /\ Asked("none")
  /\ UNCHANGED <<bound, made, tdf, gostop, guest, holds, port, starts, failures>>

\* VirtualTime::start: a guest that a crashed agent left frozen is freed.
Begin(a) ==
  /\ SetVal(a, At("begin", 0), At("run", 0), "GO")
  /\ SetTicks(a, TRUE)
  /\ Asked("none")
  /\ UNCHANGED <<bound, made, tdf, guest, starts, failures>>

\* Mutant of Stop: the guests are stopped, the clock is not.
StopWithoutClock(a) ==
  /\ SetVal(a, At("run", 0), At("stopped", 0), "STOP")
  /\ Asked("none")
  /\ UNCHANGED <<bound, made, ticks, tdf, guest, starts, failures>>

Stop(a) ==
  /\ SetVal(a, At("run", 0), At("stopped", 0), "STOP")
  /\ SetTicks(a, FALSE)
  /\ Asked("none")
  /\ UNCHANGED <<bound, made, tdf, guest, starts, failures>>

SetTdf(a, f) ==
  /\ AgentGoes(a, At("stopped", 0), At("set", 0))
  /\ tdf' = [tdf EXCEPT ![holds[a]["tdf"]] = f]
  /\ UNCHANGED <<bound, made, ticks, gostop, guest, holds, port, starts, failures, history>>

Go(a) ==
  /\ SetVal(a, At("set", 0), At("run", 0), "GO")
  /\ SetTicks(a, TRUE)
  /\ Asked("none")
  /\ UNCHANGED <<bound, made, tdf, guest, starts, failures>>

\* Protocol 30, on the io thread: wherever the VirtualTime thread is, before
\* its start as well (the io thread runs first).
SuspendVMs(a) ==
  /\ Runs(a) /\ SetVal(a, agent[a], agent[a], "STOP")
  /\ SetTicks(a, FALSE)
  /\ Asked("suspend")
  /\ UNCHANGED <<bound, made, tdf, guest, starts, failures>>

\* Protocol 31: clock and guests go on, also in the middle of a cycle.
ResumeVMs(a) ==
  /\ Runs(a) /\ SetVal(a, agent[a], agent[a], "GO")
  /\ SetTicks(a, TRUE)
  /\ Asked("resume")
  /\ UNCHANGED <<bound, made, tdf, guest, starts, failures>>

-----------------------------------------------------------------------------
(***************************************************************************)
(* An agent's end                                                           *)
(***************************************************************************)

\* SIGTERM: start() returns, which closes the servers, and then ~SharedMemory.
Terminate(a) ==
  /\ AgentGoes(a, At("run", 0), At("remove", 1))
  /\ port' = {}
  /\ UNCHANGED <<ipc, guest, holds, starts, failures, history>>

Attaching(g) == guest[g].pc = "attach" /\ guest[g].i > 1

\* Mutant of Remove: the semaphore is left, like simulators_state.
RemoveSegmentsOnly(a) ==
  LET i == agent[a].i
      k == RemovedAt[i]
  IN /\ AgentGoes(a, At("remove", i), IF i < 2 THEN At("remove", i + 1) ELSE Off)
     /\ bound' = [bound EXCEPT ![k] = IF @ = holds[a][k] THEN 0 ELSE @]
     /\ torn' = (torn \/ \E g \in Guests : Attaching(g))
     /\ holds' = [holds EXCEPT ![a] = IF i < 2 THEN @ ELSE NoObjects]
     /\ UNCHANGED <<made, ticks, tdf, gostop, guest, port, starts, failures, rival, asked>>

\* __ipc_remove, one object.
Remove(a) ==
  LET i == agent[a].i
      k == RemovedAt[i]
  IN /\ AgentGoes(a, At("remove", i), IF i < 3 THEN At("remove", i + 1) ELSE Off)
     /\ bound' = [bound EXCEPT ![k] = IF @ = holds[a][k] THEN 0 ELSE @]
     /\ gostop' = IF k = "sem" THEN [gostop EXCEPT ![holds[a][k]] = "gone"] ELSE gostop
     /\ torn' = (torn \/ \E g \in Guests : Attaching(g))
     /\ holds' = [holds EXCEPT ![a] = IF i < 3 THEN @ ELSE NoObjects]
     /\ UNCHANGED <<made, ticks, tdf, guest, port, starts, failures, rival, asked>>

\* The process dies, or __ipc_create calls exit(2): nothing is removed.
Crash(a) ==
  /\ failures < MaxFailures
  /\ failures' = failures + 1
  /\ agent[a] # Off
  /\ agent' = [agent EXCEPT ![a] = Off]
  /\ holds' = [holds EXCEPT ![a] = NoObjects]
  /\ port' = port \ {a}
  /\ torn' = (torn \/ (agent[a].pc = "remove" /\ agent[a].i > 1))
  /\ UNCHANGED <<ipc, guest, starts, rival, asked>>

-----------------------------------------------------------------------------
(***************************************************************************)
(* A guest (timers_state_attach, semaphore_waitforzero)                     *)
(***************************************************************************)
GuestGoes(g, from, to) == guest[g] = from /\ guest' = [guest EXCEPT ![g] = to]

GuestStarts(g) ==
  /\ starts < MaxStarts
  /\ starts' = starts + 1
  /\ GuestGoes(g, Off, At("attach", 1))
  /\ UNCHANGED <<ipc, agent, holds, port, failures, history>>

\* __ipc_attach, one key; without the object the process exits.
Attach(g) ==
  LET i == guest[g].i
      k == KeyAt[i]
  IN /\ guest[g].pc = "attach"
     /\ IF bound[k] # 0
        THEN /\ GuestGoes(g, At("attach", i), IF i < 4 THEN At("attach", i + 1) ELSE At("on", 0))
             /\ holds' = [holds EXCEPT ![g][k] = bound[k]]
        ELSE /\ GuestGoes(g, At("attach", i), Off)
             /\ holds' = [holds EXCEPT ![g] = NoObjects]
     /\ UNCHANGED <<ipc, agent, port, starts, failures, history>>

\* The guest's wait on the semaphore fails, and exit(1) follows; or it is
\* shut down.
GuestEnds(g) ==
  /\ GuestGoes(g, At("on", 0), Off)
  /\ holds' = [holds EXCEPT ![g] = NoObjects]
  /\ UNCHANGED <<ipc, agent, port, starts, failures, history>>

-----------------------------------------------------------------------------
Init ==
  /\ bound = NoObjects
  /\ made = NoObjects
  /\ ticks = [o \in Objects |-> FALSE]
  /\ tdf = [o \in Objects |-> One]
  /\ gostop = [o \in Objects |-> "GO"]
  /\ agent = [a \in Agents |-> Off]
  /\ guest = [g \in Guests |-> Off]
  /\ holds = [p \in Agents \cup Guests |-> NoObjects]
  /\ port = {}
  /\ starts = 0 /\ failures = 0
  /\ rival = FALSE /\ torn = FALSE
  /\ asked = "none"

MeetsRemoval(g) == guest[g].pc = "on" /\ gostop[holds[g]["sem"]] = "gone"

\* Steps that an agent takes by itself.
AgentStep(a) ==
  \/ Create(a) \/ InitTimers(a) \/ InitTdf(a) \/ Bind(a) \/ Begin(a) \/ Go(a) \/ Remove(a)
  \/ \E f \in Tdfs : SetTdf(a, f)

Next ==
  \/ \E a \in Agents : \/ Start(a) \/ AgentStep(a) \/ StartFails(a)
                       \/ Stop(a) \/ Terminate(a) \/ Crash(a)
                       \/ SuspendVMs(a) \/ ResumeVMs(a)
  \/ \E g \in Guests : GuestStarts(g) \/ Attach(g) \/ GuestEnds(g)

\* A process goes on with what it has begun; a guest waits on the semaphore
\* again and again, and so meets its removal.  Nobody has to start
\* anything, or to ask for it.
Spec ==
  /\ Init /\ [][Next]_vars
  /\ \A a \in Agents : WF_vars(AgentStep(a))
  /\ \A g \in Guests : WF_vars(MeetsRemoval(g) /\ GuestEnds(g))

-----------------------------------------------------------------------------
On(g) == guest[g].pc = "on"
Owned == {"timers", "tdf", "sem"}

\* Type invariant: in particular a process uses an object only while it holds
\* one, and at most one agent serves the port.
TypeOK ==
  /\ bound \in [Keys -> 0..MaxStarts] /\ made \in [Keys -> 0..MaxStarts]
  /\ \A k \in Keys : bound[k] <= made[k]
  /\ ticks \in [Objects -> BOOLEAN]
  /\ tdf \in [Objects -> Tdfs]
  /\ gostop \in [Objects -> {"GO", "STOP", "gone"}]
  /\ agent \in [Agents -> [pc : {"off", "create", "init", "bind", "begin", "run",
                                 "stopped", "set", "remove"}, i : 0..4]]
  /\ guest \in [Guests -> [pc : {"off", "attach", "on"}, i : 0..4]]
  /\ holds \in [Agents \cup Guests -> [Keys -> 0..MaxStarts]]
  /\ \A a \in Agents : Runs(a) => \A k \in Keys : holds[a][k] # 0
  /\ port = {a \in Agents : Runs(a)} /\ Cardinality(port) <= 1
  /\ starts \in 0..MaxStarts /\ failures \in 0..MaxFailures
  /\ rival \in BOOLEAN /\ torn \in BOOLEAN
  /\ asked \in {"none", "suspend", "resume"}

\* The objects of an agent that runs are those a guest will find under the
\* keys, after whatever crashes and failed starts, as long as no agent was
\* started next to another: one that fails to bind the port removes the
\* objects of the one that has it.
RunningAgentOwnsKeys ==
  ~rival => \A a \in Agents : Runs(a) => \A k \in Keys : holds[a][k] = bound[k]

\* A guest that an agent freezes and frees reads that agent's clock and
\* factor, also when they were made by an agent that crashed long ago; not so
\* if a crash left a removal half done (the next agent finds the old semaphore
\* and makes a new clock) or the guest attached during a removal.
SharedSemSharesClock ==
  ~rival /\ ~torn =>
    \A a \in Agents, g \in Guests :
      Runs(a) /\ On(g) /\ holds[a]["sem"] = holds[g]["sem"]
        => \A k \in Owned : holds[a][k] = holds[g][k]

\* Protocol 31 has started the clock between a cycle's stop and its new factor.
RestartedInCycle(a) == agent[a].pc = "stopped" /\ asked = "resume"

\* While a clock runs, the agent that holds it does not change its factor (what
\* has passed would be dilated anew): neither in service nor when it takes over
\* what a crashed one left, running or not.  Two things break this in the code,
\* and are excepted: a rival's start (the agent in service may start the clock
\* between InitTimers and InitTdf), and Protocol 31 in the middle of a cycle.
FactorChangesWhileStopped ==
  [][\A a \in Agents :
         /\ ~rival /\ ~RestartedInCycle(a)
         /\ holds[a]["timers"] # 0 /\ holds[a]["tdf"] # 0 /\ ticks[holds[a]["timers"]]
       => tdf'[holds[a]["tdf"]] = tdf[holds[a]["tdf"]]]_vars

\* A guest does not stay frozen next to an agent: one that its own agent
\* stopped, or that an agent which crashed in the middle of its cycle left
\* frozen, is freed, or the agent it shares the semaphore with is gone, or
\* Protocol 30 froze it in service, which only Protocol 31 or another cycle undoes.
FrozenGuestsFreed ==
  \A a \in Agents, g \in Guests :
    (Runs(a) /\ On(g) /\ holds[a]["sem"] = holds[g]["sem"] /\ gostop[holds[g]["sem"]] = "STOP")
      ~> \/ ~Runs(a) \/ ~On(g) \/ gostop[holds[g]["sem"]] # "STOP"
         \/ agent[a].pc = "run" /\ asked = "suspend"
=============================================================================
