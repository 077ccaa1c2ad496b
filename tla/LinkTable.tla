------------------------------ MODULE LinkTable -----------------------------
(***************************************************************************)
(* The links of one host: the table of their attributes (class              *)
(* InterfaceAttributeTable), the queueing disciplines that `tc` sets up in  *)
(* the kernel (class InterfaceConfigurator), and the two threads that work  *)
(* on both at the same time.                                                *)
(*                                                                          *)
(*   io thread           configures (Protocol 1), reconfigures (3) and      *)
(*                       gives up (2) links, one request at a time          *)
(*   VirtualTime thread  goes through the table when the factor changed     *)
(*                       and rescales every link, or removes it             *)
(*                                                                          *)
(* set() holds the table's mutex, but nobody else ever takes it: the pass   *)
(* of the VirtualTime thread reads entries and moves its iterator while the *)
(* io thread replaces entries and inserts nodes.  An insertion therefore    *)
(* has a beginning and an end here.  The factor itself does not change      *)
(* during a pass or a request: it is published by the io thread, under the  *)
(* mutex that the VirtualTime thread holds during its cycle.  A pass may    *)
(* start whenever the thread waits: the wait has no predicate.  To read one *)
(* attribute of an entry is one step; what a pointer shows that the io      *)
(* thread frees in the middle of it is out of scope.                        *)
(*                                                                          *)
(* Every tc command is a process that may fail, and whose failure nobody    *)
(* notices.  A request gives rate and delay the same value here, so that a  *)
(* mixture of two requests shows.  The two filter commands of a             *)
(* configuration carry neither attributes nor factor and are left out.      *)
(***************************************************************************)
EXTENDS Integers, Sequences, FiniteSets

CONSTANTS
  Links,        \* the names of the links, numbered in the order of the map
  Values,       \* what a request may ask for, as rate and as delay
  Tdfs,         \* the factors that may be published
  Configured,   \* links that have been configured undisturbed at the start
  One,          \* the factor 1.0
  None,         \* no entry, no setting
  MaxRequests,  \* bound: requests and publications
  MaxPasses,    \* bound: passes of the VirtualTime thread
  MaxFailures   \* bound: tc commands that fail

ASSUME LinkAssumption ==
  /\ Links \subseteq Nat \ {0}
  /\ Configured \subseteq Links
  /\ One \in Tdfs
  /\ None \notin [val : Values, keep : BOOLEAN] \cup [val : Values, tdf : Tdfs]
  /\ {MaxRequests, MaxPasses, MaxFailures} \subseteq Nat

\* What tc sets: an HTB class per band, with a rate, and a netem discipline
\* below two of them, with a delay.
Rates  == {"1:10", "1:20", "1:30"}
Delays == {"10:", "20:"}
Knobs  == Rates \cup Delays

\* class InterfaceAttributeEntry.
Entry   == [val : Values, keep : BOOLEAN]
Setting == [val : Values, tdf : Tdfs]

VARIABLES
  table,     \* ifaceAttrMap
  root,      \* the link has the agent's root discipline
  knob,      \* what its classes and netem disciplines are set to
  latestTdf, \* TdfTable::latestTdf_
  io,        \* the io thread: where it is and what it has left to do
  vt,        \* the VirtualTime thread: the same, and its iterator
  alive,     \* the process has not died
  requests, passes, failures,  \* counters for the bounds
  steady,    \* history: links kept and left alone since this pass began
  doomed,    \* history: links given up before this pass, and left alone
  lost,      \* history: links that a request met while the pass removed them,
             \* or whose discipline tc failed to delete
  raced      \* history: an insertion or removal of a node overlapped
             \* another access of the map

kernel  == <<root, knob>>
history == <<steady, doomed, lost, raced>>
bounds  == <<requests, passes, failures>>
vars == <<table, kernel, latestTdf, io, vt, alive, bounds, history>>

IoIdle == [pc |-> "idle", op |-> "replace", link |-> 0, val |-> None,
           tdf |-> One, n |-> 0]
VtIdle == [pc |-> "idle", link |-> 0, rate |-> None, delay |-> None, n |-> 0]

InTable == {l \in Links : table[l] # None}
IoWorksOn(l) == io.link = l

-----------------------------------------------------------------------------
(***************************************************************************)
(* tc and the kernel                                                        *)
(***************************************************************************)

\* The order of the commands of replaceInterfaceAttribute ...
ReplaceCommands == <<"root", "1:10", "1:20", "1:30", "10:", "20:">>
\* ... and of changeInterfaceAttribute.
ChangeCommands == <<"1:10", "1:20", "1:30", "10:", "20:">>

\* `tc ... replace` needs the parent of what it sets, `tc ... change` the
\* thing itself.
TcAccepts(op, l, k) ==
  \/ op = "change" /\ knob[l][k] # None
  \/ op = "replace" /\ k \in Rates /\ root[l]
  \/ op = "replace" /\ k = "10:" /\ knob[l]["1:10"] # None
  \/ op = "replace" /\ k = "20:" /\ knob[l]["1:20"] # None

\* system4Background of a command that tc carries out, or refuses.
TcRuns(op, l, k, s) ==
  /\ root' = [root EXCEPT ![l] = @ \/ k = "root"]
  /\ knob' = IF TcAccepts(op, l, k) THEN [knob EXCEPT ![l][k] = s] ELSE knob
  /\ UNCHANGED <<failures, lost, steady, doomed>>

\* The fork, the exec or tc itself fails.  SIGCHLD is ignored, so waitpid has
\* no status to give: the caller goes on as after a success.
TcFails(l) ==
  /\ failures < MaxFailures
  /\ failures' = failures + 1
  /\ steady' = steady \ {l}
  /\ doomed' = doomed \ {l}
  /\ UNCHANGED kernel

-----------------------------------------------------------------------------
(***************************************************************************)
(* The io thread                                                            *)
(***************************************************************************)

Commands(op) == IF op = "replace" THEN ReplaceCommands ELSE ChangeCommands

\* What follows the table's update in Protocol 1, which configures with factor
\* 1.0, and in Protocol 3.
JobOf(op, l, v) ==
  [pc |-> "tc", op |-> op, link |-> l, val |-> v,
   tdf |-> IF op = "replace" THEN One ELSE latestTdf, n |-> 1]

Requested ==
  /\ alive /\ io = IoIdle
  /\ requests < MaxRequests
  /\ requests' = requests + 1

\* The request takes link l out of what this pass is held to, and a lookup
\* while the pass unlinks a node is a race.
Touches(l) ==
  /\ steady' = steady \ {l}
  /\ doomed' = doomed \ {l}
  /\ raced' = (raced \/ vt.pc = "erase")

\* Protocol 1 (op "replace") and Protocol 3 ("change"):
\* InterfaceAttributeTable::set.  A present entry is replaced, an absent one
\* inserted, which takes until SetInserted.
Set(op, l, v) ==
  /\ Requested
  /\ Touches(l)
  /\ \/ /\ l \in InTable
        /\ table' = [table EXCEPT ![l] = [val |-> v, keep |-> TRUE]]
        /\ io' = JobOf(op, l, v)
     \/ /\ l \notin InTable
        /\ io' = [pc |-> "insert", op |-> op, link |-> l, val |-> v,
                  tdf |-> One, n |-> 0]
        /\ UNCHANGED table
  /\ lost' = IF vt.pc \in {"del", "erase"} /\ vt.link = l THEN lost \cup {l} ELSE lost
  /\ UNCHANGED <<kernel, latestTdf, vt, alive, passes, failures>>

SetInserted ==
  /\ alive /\ io.pc = "insert"
  /\ table' = [table EXCEPT ![io.link] = [val |-> io.val, keep |-> TRUE]]
  /\ io' = JobOf(io.op, io.link, io.val)
  /\ lost' = lost \ {io.link}
  /\ UNCHANGED <<kernel, latestTdf, vt, alive, bounds, steady, doomed, raced>>

\* The next tc command of the request.
IoTc ==
  /\ alive /\ io.pc = "tc"
  /\ LET s == [val |-> io.val, tdf |-> io.tdf]
     IN \/ TcRuns(io.op, io.link, Commands(io.op)[io.n], s)
        \/ TcFails(io.link) /\ UNCHANGED lost
  /\ io' = IF io.n = Len(Commands(io.op)) THEN IoIdle ELSE [io EXCEPT !.n = @ + 1]
  /\ UNCHANGED <<table, latestTdf, vt, alive, requests, passes, raced>>

\* Mutant of Drop: the io thread erases the entry itself.
DropErasing(l) ==
  /\ Requested
  /\ Touches(l)
  /\ l \in InTable
  /\ table' = [table EXCEPT ![l] = None]
  /\ UNCHANGED <<kernel, latestTdf, io, vt, alive, passes, failures, lost>>

\* Protocol 2: setFlagKeep(false).  operator[] makes an empty entry for a
\* name that has none, and to dereference it aborts the process.
Drop(l) ==
  /\ Requested
  /\ Touches(l)
  /\ \/ /\ l \in InTable
        /\ table' = [table EXCEPT ![l].keep = FALSE]
        /\ UNCHANGED alive
     \/ /\ l \notin InTable
        /\ alive' = FALSE
        /\ UNCHANGED table
  /\ UNCHANGED <<kernel, latestTdf, io, vt, passes, failures, lost>>

\* A report or an override publishes a factor; the table's mutex keeps it out
\* while a pass is under way.
Publish(f) ==
  /\ Requested
  /\ vt = VtIdle
  /\ f # latestTdf
  /\ latestTdf' = f
  /\ UNCHANGED <<table, kernel, io, vt, alive, passes, failures, history>>

-----------------------------------------------------------------------------
(***************************************************************************)
(* updateInterfaceAttribute, in the VirtualTime thread                      *)
(***************************************************************************)

\* it++: the least later link.  While the io thread is inserting a node, the
\* iterator may skip links, or miss the end and find the process dead.
Later(l) == {m \in InTable : m > l}

IteratesTo(l) ==
  LET At(m) == [VtIdle EXCEPT !.pc = "test", !.link = m] IN
  IF io.pc = "insert"
  THEN /\ raced' = TRUE
       /\ \/ alive' = FALSE /\ vt' = VtIdle
          \/ /\ UNCHANGED alive
             /\ vt' \in {At(m) : m \in Later(l)} \cup {VtIdle}
  ELSE /\ UNCHANGED <<raced, alive>>
       /\ vt' = IF Later(l) = {} THEN VtIdle
                ELSE At(CHOOSE m \in Later(l) : \A n \in Later(l) : m <= n)

StartPass ==
  /\ alive /\ vt = VtIdle
  /\ passes < MaxPasses
  /\ passes' = passes + 1
  /\ IteratesTo(0)
  /\ steady' = {l \in InTable : table[l].keep /\ ~IoWorksOn(l)}
  /\ doomed' = {l \in InTable : ~table[l].keep}
  /\ UNCHANGED <<table, kernel, latestTdf, io, requests, failures, lost>>

VtSteps(from, to) ==
  /\ alive /\ vt.pc = from
  /\ vt' = to
  /\ UNCHANGED <<table, kernel, latestTdf, io, alive, bounds, history>>

\* Mutant of TestFlag: the flag is not looked at.
TestFlagIgnored == VtSteps("test", [vt EXCEPT !.pc = "rate"])

\* it->second is read again for the flag, the rate and the delay, and the io
\* thread may replace it in between.
TestFlag ==
  VtSteps("test", [vt EXCEPT !.pc = IF table[vt.link].keep THEN "rate" ELSE "del"])

ReadRate ==
  VtSteps("rate", [vt EXCEPT !.pc = "delay", !.rate = table[vt.link].val])

ReadDelay ==
  VtSteps("delay", [vt EXCEPT !.pc = "tc", !.delay = table[vt.link].val, !.n = 1])

\* Mutant of VtTc: a link is rescaled with the factor it was configured with.
VtTcUnscaled ==
  /\ alive /\ vt.pc = "tc"
  /\ LET k == ChangeCommands[vt.n]
         s == [val |-> IF k \in Rates THEN vt.rate ELSE vt.delay, tdf |-> One]
     IN TcRuns("change", vt.link, k, s)
  /\ IF vt.n = Len(ChangeCommands) THEN IteratesTo(vt.link)
     ELSE vt' = [vt EXCEPT !.n = @ + 1] /\ UNCHANGED <<raced, alive>>
  /\ UNCHANGED <<table, latestTdf, io, requests, passes>>

\* The next tc command of changeInterfaceAttribute.
VtTc ==
  /\ alive /\ vt.pc = "tc"
  /\ LET k == ChangeCommands[vt.n]
         s == [val |-> IF k \in Rates THEN vt.rate ELSE vt.delay,
               tdf |-> latestTdf]
     IN \/ TcRuns("change", vt.link, k, s)
        \/ TcFails(vt.link) /\ UNCHANGED lost
  /\ IF vt.n = Len(ChangeCommands) THEN IteratesTo(vt.link)
     ELSE vt' = [vt EXCEPT !.n = @ + 1] /\ UNCHANGED <<raced, alive>>
  /\ UNCHANGED <<table, latestTdf, io, requests, passes>>

\* Mutant of Delete: what hangs below the root goes, the root stays.
DeleteBelowRoot ==
  /\ alive /\ vt.pc = "del"
  /\ knob' = [knob EXCEPT ![vt.link] = [k \in Knobs |-> None]]
  /\ vt' = [vt EXCEPT !.pc = "erase"]
  /\ UNCHANGED <<table, root, latestTdf, io, alive, bounds, history>>

\* deleteInterfaceAttribute: everything below the root goes with it.
Delete ==
  /\ alive /\ vt.pc = "del"
  /\ \/ /\ root' = [root EXCEPT ![vt.link] = FALSE]
        /\ knob' = [knob EXCEPT ![vt.link] = [k \in Knobs |-> None]]
        /\ UNCHANGED <<failures, lost, steady, doomed>>
     \/ TcFails(vt.link) /\ lost' = lost \cup {vt.link}
  /\ vt' = [vt EXCEPT !.pc = "erase"]
  /\ UNCHANGED <<table, latestTdf, io, alive, requests, passes, raced>>

\* it++, then erase(ifaceName): whatever entry the name has by now.
Erase ==
  /\ alive /\ vt.pc = "erase"
  /\ table' = [table EXCEPT ![vt.link] = None]
  /\ IteratesTo(vt.link)
  /\ UNCHANGED <<kernel, latestTdf, io, bounds, steady, doomed, lost>>

-----------------------------------------------------------------------------
\* Configured links have been set up undisturbed; some entry may have been
\* given up since.
Init ==
  /\ \E e \in Entry :
       /\ table = [l \in Links |-> IF l \in Configured THEN e ELSE None]
       /\ knob = [l \in Links |-> [k \in Knobs |->
                   IF l \in Configured THEN [val |-> e.val, tdf |-> One] ELSE None]]
  /\ root = [l \in Links |-> l \in Configured]
  /\ latestTdf = One
  /\ io = IoIdle /\ vt = VtIdle /\ alive = TRUE
  /\ requests = 0 /\ passes = 0 /\ failures = 0
  /\ steady = {} /\ doomed = {} /\ lost = {} /\ raced = FALSE

IoNext ==
  \/ \E l \in Links, v \in Values : Set("replace", l, v) \/ Set("change", l, v)
  \/ \E l \in Links : Drop(l)
  \/ \E f \in Tdfs : Publish(f)
  \/ SetInserted \/ IoTc

PassStep == TestFlag \/ ReadRate \/ ReadDelay \/ VtTc \/ Delete \/ Erase

Next == IoNext \/ StartPass \/ PassStep

Spec == Init /\ [][Next]_vars

-----------------------------------------------------------------------------
\* Type invariant: an iterator stands on an entry, and a removal of an entry
\* that exists is the VirtualTime thread's alone.
TypeOK ==
  /\ table \in [Links -> Entry \cup {None}]
  /\ root \in [Links -> BOOLEAN]
  /\ knob \in [Links -> [Knobs -> Setting \cup {None}]]
  /\ latestTdf \in Tdfs
  /\ io \in [pc : {"idle", "insert", "tc"}, op : {"replace", "change"},
             link : Links \cup {0}, val : Values \cup {None}, tdf : Tdfs, n : 0..6]
  /\ io.pc # "idle" => io.link \in Links /\ io.val \in Values
  /\ io.pc = "tc" => io.n \in 1..Len(Commands(io.op))
  /\ vt \in [pc : {"idle", "test", "rate", "delay", "tc", "del", "erase"},
             link : Links \cup {0}, rate : Values \cup {None},
             delay : Values \cup {None}, n : 0..5]
  /\ vt.pc # "idle" => vt.link \in InTable
  /\ vt.pc \in {"delay", "tc"} => vt.rate \in Values
  /\ vt.pc = "tc" => vt.delay \in Values /\ vt.n \in 1..5
  /\ alive \in BOOLEAN /\ raced \in BOOLEAN
  /\ requests \in 0..MaxRequests /\ passes \in 0..MaxPasses
  /\ failures \in 0..MaxFailures
  /\ steady \subseteq InTable /\ doomed \subseteq Links /\ lost \subseteq Links

PassCompletes == vt # VtIdle /\ vt' = VtIdle /\ alive' /\ ~raced'

\* However requests and passes met before, a pass leaves every kept link that
\* nobody touched meanwhile with what its entry says, at the factor of the
\* update: one pass mends what earlier requests and passes mixed up, as long as
\* no two threads met inside the map itself (raced).
PassScales ==
  [][PassCompletes =>
       \A l \in steady', k \in Knobs :
         knob'[l][k] \in {None, [val |-> table'[l].val, tdf |-> latestTdf']}]_vars

\* A pass removes every link that was given up before it began, from the
\* kernel and from the table.
PassDrops ==
  [][PassCompletes => \A l \in doomed' : ~root'[l] /\ table'[l] = None]_vars

\* A link that the agent no longer knows has no discipline left in the kernel
\* (nobody would ever rescale or remove it), but for the two ways to lose one:
\* a configuration that meets the removal, and a tc that fails to delete.
OrphansExplained ==
  \A l \in Links : root[l] /\ l \notin InTable => l \in lost

=============================================================================
