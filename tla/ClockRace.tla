----------------------------- MODULE ClockRace ------------------------------
(***************************************************************************)
(* The clock of TimersState, load by load and store by store: the writers   *)
(* (the VirtualTime thread and, through Protocol 30, the io thread) and a   *)
(* guest use the shared memory without a lock.                              *)
(*                                                                          *)
(* Nothing in the memory is volatile or atomic, so between two calls of     *)
(* clock_gettime, which is opaque to it, the compiler may order the loads   *)
(* and stores of one thread as it likes and load a field once where the     *)
(* source loads it twice: a thread has a set todo of accesses left to do,   *)
(* in any order.  The ticks, which obey the same pattern, are left out, and *)
(* init_clocks has been called.                                             *)
(***************************************************************************)
EXTENDS Integers

CONSTANTS
  One,        \* the factor 1.0
  Tdfs,       \* the factors the agent may set
  Epoch,      \* what the clock shows first
  Writers,    \* the threads that write: "VT", and "io" if Protocol 30 arrives
  Overlap,    \* whether their calls may overlap (nothing in the code prevents it)
  GuestReads, \* whether the guest reads
  MaxHost,    \* bound on the host time
  MaxCalls    \* bound on the calls of Protocol 30 and of the cycle's stop

ASSUME RaceAssumption ==
  /\ One \in Nat \ {0}
  /\ Tdfs \subseteq Nat \ {0}
  /\ One \in Tdfs
  /\ Epoch \in Nat
  /\ "VT" \in Writers /\ Writers \subseteq {"VT", "io"}
  /\ Overlap \in BOOLEAN /\ GuestReads \in BOOLEAN
  /\ MaxHost \in Nat /\ MaxCalls \in Nat

Threads == Writers \cup {"guest"}

VARIABLES
  hostClock,  \* CLOCK_MONOTONIC
  mem,        \* the clock's fields of *timers_state, and *tdf
  pc,         \* where each thread is
  todo,       \* the loads or stores each thread still has to do
  reg,        \* the values each thread has loaded or computed
  phase,      \* which call of its cycle the VirtualTime thread is at
  calls,      \* how many stops were called
  clockRead,  \* the last value cpu_get_clock returned to the guest
  since,      \* history: the clock when the guest's current call began
  disturbed   \* history: a writer was at work during that call

ghosts == <<clockRead, since, disturbed>>
vars == <<hostClock, mem, pc, todo, reg, phase, calls, ghosts>>

Fields == {"offset", "restart", "enabled", "tdf"}

\* A thread outside the clock's functions holds nothing.
Blank == [ti |-> 0, clock |-> 0, offset |-> 0, restart |-> 0, enabled |-> FALSE,
          tdf |-> One]

Init ==
  /\ hostClock = 0
  /\ mem = [offset |-> Epoch, restart |-> Epoch, enabled |-> FALSE, tdf |-> One]
  /\ pc = [p \in Threads |-> "idle"]
  /\ todo = [p \in Threads |-> {}]
  /\ reg = [p \in Threads |-> Blank]
  /\ phase = "start"
  /\ calls = 0
  /\ clockRead = Epoch /\ since = Epoch /\ disturbed = FALSE

-----------------------------------------------------------------------------
(***************************************************************************)
(* The promised clock                                                       *)
(***************************************************************************)

Truncated(n, d) == IF n >= 0 THEN n \div d ELSE -((-n) \div d)

\* restart + (ti - restart) / tdf + offset, of the values in r
Dilated(r, ti) ==
  Truncated((r.restart + r.offset) * r.tdf + (ti - r.restart) * One, r.tdf)

\* A writer is in one of the clock's functions.
AtWork == \E w \in Writers : pc[w] # "idle"

\* As long as the writers' calls do not overlap, the promised clock stops and
\* starts at the moment a writer reads the host's clock for it.
Starter == CHOOSE w \in Writers : pc[w] = "starting"
Stopper == CHOOSE w \in Writers : pc[w] \in {"loading", "stopping"}
Started == \E w \in Writers : pc[w] = "starting"
Stopped == \E w \in Writers : pc[w] \in {"loading", "stopping"}

Running == Started \/ (mem.enabled /\ ~Stopped)

\* What it shows where it was last started or stopped ...
Base ==
  CASE Started -> IF "rebase" \in todo[Starter] \/ "offset" \in todo[Starter]
                  THEN mem.offset ELSE mem.offset + reg[Starter].ti
    [] Stopped -> IF pc[Stopper] = "loading"
                  THEN Dilated(mem, reg[Stopper].ti) ELSE reg[Stopper].clock
    [] OTHER   -> IF mem.enabled THEN mem.restart + mem.offset ELSE mem.offset

\* ... and the host's time since.
Run ==
  CASE Started -> hostClock - reg[Starter].ti
    [] Stopped -> 0
    [] OTHER   -> IF mem.enabled THEN hostClock - mem.restart ELSE 0

Ideal == INSTANCE VirtualClock WITH
  Rates <- Tdfs, running <- Running, rate <- mem.tdf, base <- Base, run <- Run

-----------------------------------------------------------------------------
(***************************************************************************)
(* cpu_get_clock (the guest) and __cpu_get_clock (a writer, which does not  *)
(* test cpu_ticks_enabled again)                                            *)
(***************************************************************************)

GoTo(p, from, to) == pc[p] = from /\ pc' = [pc EXCEPT ![p] = to]

\* A guest's call returns c.
GuestReturns(c) ==
  /\ pc' = [pc EXCEPT !["guest"] = "idle"]
  /\ reg' = [reg EXCEPT !["guest"] = Blank]
  /\ clockRead' = c
  /\ since' = Epoch /\ disturbed' = FALSE

\* __cpu_get_clock returns c to cpu_disable_ticks, which has yet to store it
\* and to clear the flag.
WriterComputed(p, c) ==
  /\ pc' = [pc EXCEPT ![p] = "stopping"]
  /\ todo' = [todo EXCEPT ![p] = {"offset", "enabled"}]
  /\ reg' = [reg EXCEPT ![p] = [Blank EXCEPT !.clock = c]]
  /\ UNCHANGED ghosts

Test(p) ==
  /\ GoTo(p, "test", IF mem.enabled THEN "getclock" ELSE "standing")
  /\ UNCHANGED <<hostClock, mem, todo, reg, phase, calls, ghosts>>

\* if(!cpu_ticks_enabled) retval = cpu_clock_offset, tested again by the guest
\* unless the compiler did away with the second test
LoadStanding(p) ==
  /\ pc[p] = "standing"
  /\ \/ p = "guest" /\ GuestReturns(mem.offset) /\ UNCHANGED todo
     \/ p = "guest" /\ mem.enabled /\ GoTo(p, "standing", "getclock")
        /\ UNCHANGED <<todo, reg, ghosts>>
     \/ p # "guest" /\ WriterComputed(p, mem.offset)
  /\ UNCHANGED <<hostClock, mem, phase, calls>>

GetClock(p) ==
  /\ GoTo(p, "getclock", "loading")
  /\ reg' = [reg EXCEPT ![p].ti = hostClock]
  /\ todo' = [todo EXCEPT ![p] = IF p = "guest" THEN Fields ELSE Fields \ {"enabled"}]
  /\ UNCHANGED <<hostClock, mem, phase, calls, ghosts>>

Load(p) ==
  /\ pc[p] = "loading"
  /\ \E f \in todo[p] :
       /\ reg' = [reg EXCEPT ![p][f] = mem[f]]
       /\ todo' = [todo EXCEPT ![p] = @ \ {f}]
  /\ UNCHANGED <<hostClock, mem, pc, phase, calls, ghosts>>

\* Mutant of Loaded: all of the host's time is dilated, not what passed since
\* the restart.
LoadedWithoutRestart(p) ==
  /\ pc[p] = "loading"
  /\ todo[p] = {}
  /\ LET c == Truncated(reg[p].ti * One + reg[p].offset * reg[p].tdf, reg[p].tdf) IN
     \/ p = "guest" /\ reg[p].enabled /\ GuestReturns(c) /\ UNCHANGED todo
     \/ /\ p = "guest" /\ ~reg[p].enabled
        /\ \E to \in {"test", "standing"} : GoTo(p, "loading", to)
        /\ UNCHANGED <<todo, reg, ghosts>>
     \/ p # "guest" /\ WriterComputed(p, c)
  /\ UNCHANGED <<hostClock, mem, phase, calls>>

\* The value is computed; the guest starts over if the clock was stopped.
Loaded(p) ==
  /\ pc[p] = "loading"
  /\ todo[p] = {}
  /\ LET c == Dilated(reg[p], reg[p].ti) IN
     \/ p = "guest" /\ reg[p].enabled /\ GuestReturns(c) /\ UNCHANGED todo
     \/ /\ p = "guest" /\ ~reg[p].enabled
        /\ \E to \in {"test", "standing"} : GoTo(p, "loading", to)
        /\ UNCHANGED <<todo, reg, ghosts>>
     \/ p # "guest" /\ WriterComputed(p, c)
  /\ UNCHANGED <<hostClock, mem, phase, calls>>

GuestCalls ==
  /\ GuestReads
  /\ GoTo("guest", "idle", "test")
  /\ since' = IF AtWork THEN Epoch ELSE Ideal!Now
  /\ disturbed' = AtWork
  /\ UNCHANGED <<hostClock, mem, todo, reg, phase, calls, clockRead>>

-----------------------------------------------------------------------------
(***************************************************************************)
(* cpu_disable_ticks and cpu_enable_ticks                                   *)
(***************************************************************************)

\* A writer's call overlaps the guest's: since is of no use any more.
Disturbs ==
  /\ disturbed' = (pc["guest"] # "idle")
  /\ since' = Epoch
  /\ UNCHANGED clockRead

\* The store to f was done, and if it was the last one the function returns.
Stored(p, f) ==
  /\ todo' = [todo EXCEPT ![p] = @ \ {f}]
  /\ IF todo[p] = {f}
     THEN pc' = [pc EXCEPT ![p] = "idle"] /\ reg' = [reg EXCEPT ![p] = Blank]
     ELSE UNCHANGED <<pc, reg>>

MayCall == Overlap \/ ~AtWork

\* cpu_disable_ticks is called and tests the flag.
Disable(p) ==
  /\ MayCall
  /\ calls < MaxCalls
  /\ calls' = calls + 1
  /\ IF mem.enabled THEN GoTo(p, "idle", "test") ELSE pc[p] = "idle" /\ UNCHANGED pc
  /\ Disturbs
  /\ UNCHANGED <<hostClock, mem, todo, reg>>

\* Mutant of StoreStopped: the clock is not stored.
StoreStoppedFlagOnly(p) ==
  /\ pc[p] = "stopping"
  /\ \E f \in todo[p] :
       /\ mem' = IF f = "offset" THEN mem ELSE [mem EXCEPT !.enabled = FALSE]
       /\ Stored(p, f)
  /\ UNCHANGED <<hostClock, phase, calls, ghosts>>

\* It stores the clock and clears the flag, and returns after the last store.
StoreStopped(p) ==
  /\ pc[p] = "stopping"
  /\ \E f \in todo[p] :
       /\ mem' = IF f = "offset" THEN [mem EXCEPT !.offset = reg[p].clock]
                                 ELSE [mem EXCEPT !.enabled = FALSE]
       /\ Stored(p, f)
  /\ UNCHANGED <<hostClock, phase, calls, ghosts>>

\* cpu_enable_ticks is called and tests the flag.
Enable(p) ==
  /\ MayCall
  /\ IF mem.enabled THEN pc[p] = "idle" /\ UNCHANGED pc ELSE GoTo(p, "idle", "starttime")
  /\ Disturbs
  /\ UNCHANGED <<hostClock, mem, todo, reg, calls>>

StartTime(p) ==
  /\ GoTo(p, "starttime", "starting")
  /\ reg' = [reg EXCEPT ![p].ti = hostClock]
  /\ todo' = [todo EXCEPT ![p] = {"rebase", "restart", "enabled"}]
  /\ UNCHANGED <<hostClock, mem, phase, calls, ghosts>>

\* cpu_clock_offset -= real_clock, a load and a store
LoadRebase(p) ==
  /\ pc[p] = "starting"
  /\ "rebase" \in todo[p]
  /\ reg' = [reg EXCEPT ![p].offset = mem.offset]
  /\ todo' = [todo EXCEPT ![p] = (@ \ {"rebase"}) \cup {"offset"}]
  /\ UNCHANGED <<hostClock, mem, pc, phase, calls, ghosts>>

StoreStarted(p) ==
  /\ pc[p] = "starting"
  /\ \E f \in todo[p] \ {"rebase"} :
       /\ mem' = CASE f = "offset"  -> [mem EXCEPT !.offset = reg[p].offset - reg[p].ti]
                   [] f = "restart" -> [mem EXCEPT !.restart = reg[p].ti]
                   [] f = "enabled" -> [mem EXCEPT !.enabled = TRUE]
       /\ Stored(p, f)
  /\ UNCHANGED <<hostClock, phase, calls, ghosts>>

-----------------------------------------------------------------------------
HostAdvance ==
  /\ hostClock < MaxHost
  /\ hostClock' = hostClock + 1
  /\ UNCHANGED <<mem, pc, todo, reg, phase, calls, ghosts>>

\* VirtualTime::start, then the cycle of startAdaptiveVirtualTime
VTCalls ==
  \/ /\ phase \in {"start", "restart"} /\ phase' = "wait" /\ Enable("VT")
  \/ /\ phase = "wait" /\ phase' = "settdf" /\ Disable("VT")

VTSetTdf ==
  /\ phase = "settdf"
  /\ phase' = "restart"
  /\ pc["VT"] = "idle"
  /\ \E t \in Tdfs : mem' = [mem EXCEPT !.tdf = t]
  /\ Disturbs
  /\ UNCHANGED <<hostClock, pc, todo, reg, calls>>

\* Protocol 30
IOCalls ==
  /\ "io" \in Writers
  /\ Disable("io")
  /\ UNCHANGED phase

ReadClock(p)  == Test(p) \/ LoadStanding(p) \/ GetClock(p) \/ Load(p) \/ Loaded(p)
WriteClock(p) == StoreStopped(p) \/ StartTime(p) \/ LoadRebase(p) \/ StoreStarted(p)

Next ==
  \/ HostAdvance \/ VTCalls \/ VTSetTdf \/ IOCalls \/ GuestCalls
  \/ \E p \in Threads : ReadClock(p)
  \/ \E w \in Writers : WriteClock(w)

Spec == Init /\ [][Next]_vars

-----------------------------------------------------------------------------
(***************************************************************************)
(* Properties                                                               *)
(***************************************************************************)

\* When the writers' calls do not overlap, whatever order their stores take
\* effect in, the clock is the promised one: each stop and start takes effect
\* when the writer reads the host's clock (cpu_disable_ticks, cpu_enable_ticks).
ImplementsVirtualClock == Ideal!Spec

\* A call of cpu_get_clock that no writer's call overlaps returns a time between
\* the promised clock's at its call and at its return.
QuietReadsAreRight ==
  [][(pc["guest"] # "idle" /\ pc'["guest"] = "idle" /\ ~disturbed)
     => clockRead' \in since .. Ideal!Now]_vars

\* qemu-timer.c says that cpu_get_clock returns "the host CPU monotonic timer"
\* and handles "stop/restart": no call returns less than the
\* one before.
GuestMonotonic == [][clockRead' >= clockRead]_vars
=============================================================================
